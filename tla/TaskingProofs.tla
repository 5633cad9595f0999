---------------------------- MODULE TaskingProofs ---------------------------
(***************************************************************************)
(* Theorems about Tasking, for every set of tasks, every choice of the     *)
(* points where the timer interrupts and every bound.                      *)
(*                                                                         *)
(* IInv is about the locks: type correctness, and that the CPU never spins *)
(* on one.  ShapeInv relates the threads' stacks, their states and the     *)
(* scheduler's lists wherever the timer interrupts: what the stacks look   *)
(* like, and where the threads wait that do not run.  PlaceInv holds when  *)
(* the timer does not interrupt switch_next in its windows: every thread   *)
(* is in the one place its state says.                                     *)
(***************************************************************************)
EXTENDS Tasking, SequenceTheorems, FiniteSetTheorems, TLAPS

\* The points of the code between the acquire and the release of each lock.
\* switch_next is at sn_requeue, sn_pop and sn_unlock without scheduler_lock
\* when it went through the idle thread.
SchedulerSection ==
  {"ct_append", "ct_unlock", "sn_test", "sn_quit", "sn_idle", "sn_requeue",
   "sn_pop", "sn_unlock"}
SleepSection == {"su_insert", "su_unlock", "wk_loop", "wk_unlock"}

\* The CPU is inside section S.
In(S) == stack[current] # <<>> /\ Top(current).pc \in S

\* A lock that is taken was taken by the code the CPU is in, and interrupts
\* are disabled: so it is never taken twice.
LockInv ==
  /\ scheduler_lock.lock = 1 => ~intr /\ In(SchedulerSection)
  /\ sleep_lock.lock = 1 => ~intr /\ In(SleepSection)

IInv == TypeOK /\ LockInv /\ SleepersInOrder

----------------------------------------------------------------------------
(* Frames                                                                  *)

\* What is left of a stack without its top frame, and the top frame itself.
LEMMA TopAndBelow ==
  ASSUME TypeOK, NEW t \in Threads
  PROVE  /\ Below(t) \in Seq(Frames)
         /\ stack[t] # <<>> => Top(t) \in Frames
<1> DEFINE s == stack[t]
<1>1. s \in Seq(Frames)
  BY DEF TypeOK
<1>2. Len(s) \in Nat
  BY <1>1
<1>3. SubSeq(s, 1, Len(s) - 1) \in Seq(Frames)
  BY <1>1, <1>2, SubSeqProperties
<1>4. ASSUME s # <<>> PROVE s[Len(s)] \in Frames
  <2>1. Len(s) \in 1..Len(s)
    BY <1>1, <1>2, <1>4, EmptySeq
  <2> QED
    BY <1>1, <2>1, ElementOfSeq
<1> QED
  BY <1>3, <1>4 DEF Below, Top

\* A frame pushed on a stack is its top.
LEMMA Pushed ==
  ASSUME NEW F, NEW s \in Seq(F), NEW f \in F
  PROVE  /\ Append(s, f) \in Seq(F)
         /\ Append(s, f) # <<>>
         /\ Append(s, f)[Len(Append(s, f))] = f
<1>1. /\ Append(s, f) \in Seq(F)
      /\ Len(Append(s, f)) = Len(s) + 1
      /\ Append(s, f)[Len(s) + 1] = f
  BY AppendProperties
<1>2. Len(s) \in Nat
  OBVIOUS
<1>3. Append(s, f) # <<>>
  BY <1>1, <1>2, EmptySeq
<1> QED
  BY <1>1, <1>3

\* A call leaves a return frame below the frame of the function called.
LEMMA Called ==
  ASSUME NEW F, NEW s \in Seq(F), NEW f \in F, NEW g \in F
  PROVE  /\ s \o <<f, g>> \in Seq(F)
         /\ s \o <<f, g>> # <<>>
         /\ (s \o <<f, g>>)[Len(s \o <<f, g>>)] = g
<1> DEFINE r == s \o <<f, g>>
<1>1. <<f, g>> \in Seq(F) /\ Len(<<f, g>>) = 2 /\ <<f, g>>[2] = g
  OBVIOUS
<1>2. /\ r \in Seq(F) /\ Len(r) = Len(s) + 2
      /\ \A i \in 1..Len(r) : r[i] = IF i <= Len(s) THEN s[i] ELSE <<f, g>>[i - Len(s)]
  BY <1>1, ConcatProperties
<1>3. Len(s) \in Nat /\ Len(r) \in 1..Len(r) /\ ~(Len(r) <= Len(s)) /\ Len(r) - Len(s) = 2
  BY <1>2
<1>4. r[Len(r)] = g
  BY <1>1, <1>2, <1>3
<1>5. r # <<>>
  BY <1>2, <1>3, EmptySeq
<1> QED
  BY <1>2, <1>4, <1>5

\* Without of a sequence is a sequence over the same set.
LEMMA WithoutType ==
  ASSUME NEW S, NEW s \in Seq(S), NEW i \in 1..Len(s)
  PROVE  Without(s, i) \in Seq(S)
<1>1. Len(s) \in Nat /\ i \in Nat /\ i >= 1 /\ i <= Len(s)
  OBVIOUS
<1>2. SubSeq(s, 1, i - 1) \in Seq(S)
  BY <1>1, SubSeqProperties
<1>3. SubSeq(s, i + 1, Len(s)) \in Seq(S)
  BY <1>1, SubSeqProperties
<1> QED
  BY <1>2, <1>3, ConcatProperties DEF Without

\* What the operations of a lock do to its fields.
LEMMA LockFields ==
  ASSUME NEW l \in [lock : {0, 1}, rflags : BOOLEAN], NEW b \in BOOLEAN
  PROVE  /\ Held(b) \in [lock : {0, 1}, rflags : BOOLEAN]
         /\ Free(l) \in [lock : {0, 1}, rflags : BOOLEAN]
         /\ Free(l).lock = 0
         /\ Free(Held(b)) \in [lock : {0, 1}, rflags : BOOLEAN]
         /\ Free(Held(b)).lock = 0
BY DEF Held, Free

\* InsertedBefore of a sequence is a sequence over the same set.
LEMMA InsertedType ==
  ASSUME NEW S, NEW s \in Seq(S), NEW v \in S, NEW i \in 1..(Len(s) + 1)
  PROVE  InsertedBefore(s, i, v) \in Seq(S)
<1>1. Len(s) \in Nat /\ i \in Nat /\ i >= 1
  OBVIOUS
<1>2. SubSeq(s, 1, i - 1) \in Seq(S)
  BY <1>1, SubSeqProperties
<1>3. SubSeq(s, i, Len(s)) \in Seq(S)
  BY <1>1, SubSeqProperties
<1>4. <<v>> \in Seq(S)
  OBVIOUS
<1>5. SubSeq(s, 1, i - 1) \o <<v>> \in Seq(S)
  BY <1>2, <1>4, ConcatProperties
<1> QED
  BY <1>3, <1>5, ConcatProperties DEF InsertedBefore

----------------------------------------------------------------------------
(* Steps that change only the current stack                                *)

\* Goto leaves frame f on top of the current stack, and the stacks well
\* formed.
LEMMA GotoTop ==
  ASSUME TypeOK, NEW f \in Frames
  PROVE  LET n == [stack EXCEPT ![current] = Append(Below(current), f)]
         IN  /\ n \in [Threads -> Seq(Frames)]
             /\ n[current] # <<>>
             /\ n[current][Len(n[current])] = f
<1>1. /\ current \in Threads
      /\ stack \in [Threads -> Seq(Frames)]
  BY DEF TypeOK
<1>2. Below(current) \in Seq(Frames)
  BY <1>1, TopAndBelow
<1> DEFINE a == Append(Below(current), f)
<1>3. a \in Seq(Frames) /\ a # <<>> /\ a[Len(a)] = f
  BY <1>2, Pushed
<1> HIDE DEF a
<1> QED
  BY <1>1, <1>3 DEF a

\* Call leaves the frame of the function called on top.
LEMMA CallTop ==
  ASSUME TypeOK, NEW f \in Frames, NEW g \in Frames
  PROVE  LET n == [stack EXCEPT ![current] = Below(current) \o <<f, g>>]
         IN  /\ n \in [Threads -> Seq(Frames)]
             /\ n[current] # <<>>
             /\ n[current][Len(n[current])] = g
<1>1. /\ current \in Threads
      /\ stack \in [Threads -> Seq(Frames)]
  BY DEF TypeOK
<1>2. Below(current) \in Seq(Frames)
  BY <1>1, TopAndBelow
<1> DEFINE a == Below(current) \o <<f, g>>
<1>3. a \in Seq(Frames) /\ a # <<>> /\ a[Len(a)] = g
  BY <1>2, Called
<1> HIDE DEF a
<1> QED
  BY <1>1, <1>3 DEF a

LEMMA CreateLockStep ==
  ASSUME IInv, CreateLock
  PROVE  IInv'
<1> USE DEF IInv
<1>1. At("ct_lock") /\ Goto("ct_append", Top(current).arg)
  BY DEF CreateLock
<1>2. Top(current) \in Frames /\ Top(current).pc = "ct_lock"
  BY <1>1, TopAndBelow DEF At, TypeOK
<1>3. Frame("ct_append", Top(current).arg) \in Frames
  BY <1>2 DEF Frame, Frames, PCs, Calm, NoArg, TypeOK
<1>4. /\ stack' \in [Threads -> Seq(Frames)]
      /\ stack'[current] # <<>>
      /\ stack'[current][Len(stack'[current])] = Frame("ct_append", Top(current).arg)
  BY <1>1, <1>3, GotoTop DEF Goto
<1>5. TypeOK'
  BY <1>2, <1>4, LockFields DEF CreateLock, TypeOK, locks
<1>6. LockInv'
  BY <1>2, <1>4, LockFields DEF CreateLock, LockInv, TypeOK, locks, Acquire, In, Top, Frame, At,
                    SchedulerSection, SleepSection
<1>7. SleepersInOrder'
  BY DEF CreateLock, SleepersInOrder
<1> QED
  BY <1>5, <1>6, <1>7

LEMMA CreateUnlockStep ==
  ASSUME IInv, CreateUnlock
  PROVE  IInv'
<1> USE DEF IInv
<1>1. At("ct_unlock") /\ Goto("create", NoArg)
  BY DEF CreateUnlock
<1>2. Top(current) \in Frames /\ Top(current).pc = "ct_unlock"
  BY <1>1, TopAndBelow DEF At, TypeOK
<1>3. Frame("create", NoArg) \in Frames
  BY <1>2 DEF Frame, Frames, PCs, Calm, NoArg, TypeOK
<1>4. /\ stack' \in [Threads -> Seq(Frames)]
      /\ stack'[current] # <<>>
      /\ stack'[current][Len(stack'[current])] = Frame("create", NoArg)
  BY <1>1, <1>3, GotoTop DEF Goto
<1>5. TypeOK'
  BY <1>2, <1>4, LockFields DEF CreateUnlock, TypeOK, locks
<1>6. LockInv'
  BY <1>2, <1>4, LockFields DEF CreateUnlock, LockInv, TypeOK, locks, Acquire, In, Top, Frame, At,
                    SchedulerSection, SleepSection
<1>7. SleepersInOrder'
  BY DEF CreateUnlock, SleepersInOrder
<1> QED
  BY <1>5, <1>6, <1>7

LEMMA SleepLockStep ==
  ASSUME IInv, SleepLock
  PROVE  IInv'
<1> USE DEF IInv
<1>1. At("su_lock") /\ Goto("su_insert", Top(current).arg)
  BY DEF SleepLock
<1>2. Top(current) \in Frames /\ Top(current).pc = "su_lock"
  BY <1>1, TopAndBelow DEF At, TypeOK
<1>3. Frame("su_insert", Top(current).arg) \in Frames
  BY <1>2 DEF Frame, Frames, PCs, Calm, NoArg, TypeOK
<1>4. /\ stack' \in [Threads -> Seq(Frames)]
      /\ stack'[current] # <<>>
      /\ stack'[current][Len(stack'[current])] = Frame("su_insert", Top(current).arg)
  BY <1>1, <1>3, GotoTop DEF Goto
<1>5. TypeOK'
  BY <1>2, <1>4, LockFields DEF SleepLock, TypeOK, locks
<1>6. LockInv'
  BY <1>2, <1>4, LockFields DEF SleepLock, LockInv, TypeOK, locks, Acquire, In, Top, Frame, At,
                    SchedulerSection, SleepSection
<1>7. SleepersInOrder'
  BY DEF SleepLock, SleepersInOrder
<1> QED
  BY <1>5, <1>6, <1>7

LEMMA SleepUnlockStep ==
  ASSUME IInv, SleepUnlock
  PROVE  IInv'
<1> USE DEF IInv
<1>1. At("su_unlock") /\ Goto("sn_lock", NoArg)
  BY DEF SleepUnlock
<1>2. Top(current) \in Frames /\ Top(current).pc = "su_unlock"
  BY <1>1, TopAndBelow DEF At, TypeOK
<1>3. Frame("sn_lock", NoArg) \in Frames
  BY <1>2 DEF Frame, Frames, PCs, Calm, NoArg, TypeOK
<1>4. /\ stack' \in [Threads -> Seq(Frames)]
      /\ stack'[current] # <<>>
      /\ stack'[current][Len(stack'[current])] = Frame("sn_lock", NoArg)
  BY <1>1, <1>3, GotoTop DEF Goto
<1>5. TypeOK'
  BY <1>2, <1>4, LockFields DEF SleepUnlock, TypeOK, locks
<1>6. LockInv'
  BY <1>2, <1>4, LockFields DEF SleepUnlock, LockInv, TypeOK, locks, Acquire, In, Top, Frame, At,
                    SchedulerSection, SleepSection
<1>7. SleepersInOrder'
  BY DEF SleepUnlock, SleepersInOrder
<1> QED
  BY <1>5, <1>6, <1>7

LEMMA SwitchLockStep ==
  ASSUME IInv, SwitchLock
  PROVE  IInv'
<1> USE DEF IInv
<1>1. At("sn_lock") /\ Goto("sn_test", NoArg)
  BY DEF SwitchLock
<1>2. Top(current) \in Frames /\ Top(current).pc = "sn_lock"
  BY <1>1, TopAndBelow DEF At, TypeOK
<1>3. Frame("sn_test", NoArg) \in Frames
  BY <1>2 DEF Frame, Frames, PCs, Calm, NoArg, TypeOK
<1>4. /\ stack' \in [Threads -> Seq(Frames)]
      /\ stack'[current] # <<>>
      /\ stack'[current][Len(stack'[current])] = Frame("sn_test", NoArg)
  BY <1>1, <1>3, GotoTop DEF Goto
<1>5. TypeOK'
  BY <1>2, <1>4, LockFields DEF SwitchLock, TypeOK, locks
<1>6. LockInv'
  BY <1>2, <1>4, LockFields DEF SwitchLock, LockInv, TypeOK, locks, Acquire, In, Top, Frame, At,
                    SchedulerSection, SleepSection
<1>7. SleepersInOrder'
  BY DEF SwitchLock, SleepersInOrder
<1> QED
  BY <1>5, <1>6, <1>7

LEMMA SwitchIdleUnlockStep ==
  ASSUME IInv, SwitchIdleUnlock
  PROVE  IInv'
<1> USE DEF IInv
<1>1. At("sn_idle") /\ Goto("sn_toidle", NoArg)
  BY DEF SwitchIdleUnlock
<1>2. Top(current) \in Frames /\ Top(current).pc = "sn_idle"
  BY <1>1, TopAndBelow DEF At, TypeOK
<1>3. Frame("sn_toidle", NoArg) \in Frames
  BY <1>2 DEF Frame, Frames, PCs, Calm, NoArg, TypeOK
<1>4. /\ stack' \in [Threads -> Seq(Frames)]
      /\ stack'[current] # <<>>
      /\ stack'[current][Len(stack'[current])] = Frame("sn_toidle", NoArg)
  BY <1>1, <1>3, GotoTop DEF Goto
<1>5. TypeOK'
  BY <1>2, <1>4, LockFields DEF SwitchIdleUnlock, TypeOK, locks
<1>6. LockInv'
  BY <1>2, <1>4, LockFields DEF SwitchIdleUnlock, LockInv, TypeOK, locks, Acquire, In, Top, Frame, At,
                    SchedulerSection, SleepSection
<1>7. SleepersInOrder'
  BY DEF SwitchIdleUnlock, SleepersInOrder
<1> QED
  BY <1>5, <1>6, <1>7

LEMMA SwitchToIdleStep ==
  ASSUME IInv, SwitchToIdle
  PROVE  IInv'
<1> USE DEF IInv
<1>1. At("sn_toidle") /\ Goto("sn_requeue", NoArg)
  BY DEF SwitchToIdle
<1>2. Top(current) \in Frames /\ Top(current).pc = "sn_toidle"
  BY <1>1, TopAndBelow DEF At, TypeOK
<1>3. Frame("sn_requeue", NoArg) \in Frames
  BY <1>2 DEF Frame, Frames, PCs, Calm, NoArg, TypeOK
<1>4. /\ stack' \in [Threads -> Seq(Frames)]
      /\ stack'[current] # <<>>
      /\ stack'[current][Len(stack'[current])] = Frame("sn_requeue", NoArg)
  BY <1>1, <1>3, GotoTop DEF Goto
<1>5. TypeOK'
  BY <1>2, <1>4, LockFields DEF SwitchToIdle, TypeOK, locks, Threads
<1>6. LockInv'
  BY <1>2, <1>4, LockFields DEF SwitchToIdle, LockInv, TypeOK, locks, Acquire, In, Top, Frame, At,
                    SchedulerSection, SleepSection
<1>7. SleepersInOrder'
  BY DEF SwitchToIdle, SleepersInOrder
<1> QED
  BY <1>5, <1>6, <1>7

LEMMA SwitchUnlockStep ==
  ASSUME IInv, SwitchUnlock
  PROVE  IInv'
<1> USE DEF IInv
<1>1. At("sn_unlock") /\ Goto("sn_switch", Top(current).arg)
  BY DEF SwitchUnlock
<1>2. Top(current) \in Frames /\ Top(current).pc = "sn_unlock"
  BY <1>1, TopAndBelow DEF At, TypeOK
<1>3. Frame("sn_switch", Top(current).arg) \in Frames
  BY <1>2 DEF Frame, Frames, PCs, Calm, NoArg, TypeOK
<1>4. /\ stack' \in [Threads -> Seq(Frames)]
      /\ stack'[current] # <<>>
      /\ stack'[current][Len(stack'[current])] = Frame("sn_switch", Top(current).arg)
  BY <1>1, <1>3, GotoTop DEF Goto
<1>5. TypeOK'
  BY <1>2, <1>4, LockFields DEF SwitchUnlock, TypeOK, locks
<1>6. LockInv'
  BY <1>2, <1>4, LockFields DEF SwitchUnlock, LockInv, TypeOK, locks, Acquire, In, Top, Frame, At,
                    SchedulerSection, SleepSection
<1>7. SleepersInOrder'
  BY DEF SwitchUnlock, SleepersInOrder
<1> QED
  BY <1>5, <1>6, <1>7

LEMMA WakeLockStep ==
  ASSUME IInv, WakeLock
  PROVE  IInv'
<1> USE DEF IInv
<1>1. At("wk_lock") /\ Goto("wk_loop", time)
  BY DEF WakeLock
<1>2. Top(current) \in Frames /\ Top(current).pc = "wk_lock"
  BY <1>1, TopAndBelow DEF At, TypeOK
<1>3. Frame("wk_loop", time) \in Frames
  BY <1>2 DEF Frame, Frames, PCs, Calm, NoArg, TypeOK
<1>4. /\ stack' \in [Threads -> Seq(Frames)]
      /\ stack'[current] # <<>>
      /\ stack'[current][Len(stack'[current])] = Frame("wk_loop", time)
  BY <1>1, <1>3, GotoTop DEF Goto
<1>5. TypeOK'
  BY <1>2, <1>4, LockFields DEF WakeLock, TypeOK, locks
<1>6. LockInv'
  BY <1>2, <1>4, LockFields DEF WakeLock, LockInv, TypeOK, locks, Acquire, In, Top, Frame, At,
                    SchedulerSection, SleepSection
<1>7. SleepersInOrder'
  BY DEF WakeLock, SleepersInOrder
<1> QED
  BY <1>5, <1>6, <1>7

LEMMA WakeDoneStep ==
  ASSUME IInv, WakeDone
  PROVE  IInv'
<1> USE DEF IInv
<1>1. At("wk_loop") /\ Goto("wk_unlock", Top(current).arg)
  BY DEF WakeDone
<1>2. Top(current) \in Frames /\ Top(current).pc = "wk_loop"
  BY <1>1, TopAndBelow DEF At, TypeOK
<1>3. Frame("wk_unlock", Top(current).arg) \in Frames
  BY <1>2 DEF Frame, Frames, PCs, Calm, NoArg, TypeOK
<1>4. /\ stack' \in [Threads -> Seq(Frames)]
      /\ stack'[current] # <<>>
      /\ stack'[current][Len(stack'[current])] = Frame("wk_unlock", Top(current).arg)
  BY <1>1, <1>3, GotoTop DEF Goto
<1>5. TypeOK'
  BY <1>2, <1>4, LockFields DEF WakeDone, TypeOK, locks
<1>6. LockInv'
  BY <1>2, <1>4, LockFields DEF WakeDone, LockInv, TypeOK, locks, Acquire, In, Top, Frame, At,
                    SchedulerSection, SleepSection
<1>7. SleepersInOrder'
  BY DEF WakeDone, SleepersInOrder
<1> QED
  BY <1>5, <1>6, <1>7

LEMMA CreateAppendStep ==
  ASSUME IInv, CreateAppend
  PROVE  IInv'
<1> USE DEF IInv
<1>1. At("ct_append") /\ Goto("ct_unlock", NoArg)
  BY DEF CreateAppend
<1>2. Top(current) \in Frames /\ Top(current).pc = "ct_append"
  BY <1>1, TopAndBelow DEF At, TypeOK
<1>3. Frame("ct_unlock", NoArg) \in Frames
  BY DEF Frame, Frames, PCs, Calm, NoArg
<1>4. /\ stack' \in [Threads -> Seq(Frames)]
      /\ stack'[current] # <<>>
      /\ stack'[current][Len(stack'[current])] = Frame("ct_unlock", NoArg)
  BY <1>1, <1>3, GotoTop DEF Goto
<1>5. Top(current).arg \in Threads
  BY <1>2 DEF Frames
<1>6. ready' \in Seq(Threads)
  BY <1>5, AppendProperties DEF CreateAppend, TypeOK, Appended
<1>7. TypeOK'
  BY <1>4, <1>6 DEF CreateAppend, TypeOK, locks
<1>8. LockInv'
  BY <1>2, <1>4 DEF CreateAppend, LockInv, locks, In, Top, Frame, At,
                    SchedulerSection, SleepSection
<1>9. SleepersInOrder'
  BY DEF CreateAppend, SleepersInOrder
<1> QED
  BY <1>7, <1>8, <1>9

LEMMA SwitchRequeueStep ==
  ASSUME IInv, SwitchRequeue
  PROVE  IInv'
<1> USE DEF IInv
<1>1. At("sn_requeue") /\ Goto("sn_pop", NoArg)
  BY DEF SwitchRequeue
<1>2. Top(current) \in Frames /\ Top(current).pc = "sn_requeue"
  BY <1>1, TopAndBelow DEF At, TypeOK
<1>3. Frame("sn_pop", NoArg) \in Frames
  BY DEF Frame, Frames, PCs, Calm, NoArg
<1>4. /\ stack' \in [Threads -> Seq(Frames)]
      /\ stack'[current] # <<>>
      /\ stack'[current][Len(stack'[current])] = Frame("sn_pop", NoArg)
  BY <1>1, <1>3, GotoTop DEF Goto
<1>5. state' \in [Threads -> {"NONE", "READY", "RUNNING", "SLEEPING"}]
  BY DEF SwitchRequeue, TypeOK
<1>6. ready' \in Seq(Threads)
  <2>1. ready \in Seq(Threads) /\ Append(ready, current) \in Seq(Threads)
    BY AppendProperties DEF TypeOK
  <2> QED
    BY <2>1 DEF SwitchRequeue, Appended
<1>7. TypeOK'
  BY <1>4, <1>5, <1>6 DEF SwitchRequeue, TypeOK, locks
<1>8. LockInv'
  BY <1>2, <1>4 DEF SwitchRequeue, LockInv, locks, In, Top, Frame, At,
                    SchedulerSection, SleepSection
<1>9. SleepersInOrder'
  BY DEF SwitchRequeue, SleepersInOrder
<1> QED
  BY <1>7, <1>8, <1>9

\* The other steps of a thread.

LEMMA StartStep ==
  ASSUME IInv, Start
  PROVE  IInv'
<1> USE DEF IInv
<1> DEFINE pc == IF current = Idle THEN "hlt" ELSE "task"
<1>1. At("start") /\ Goto(pc, NoArg)
  BY DEF Start
<1>2. Top(current) \in Frames /\ Top(current).pc = "start"
  BY <1>1, TopAndBelow DEF At, TypeOK
<1>3. Frame(pc, NoArg) \in Frames
  BY DEF Frame, Frames, PCs, Calm, NoArg
<1>4. stack' \in [Threads -> Seq(Frames)]
  BY <1>1, <1>3, GotoTop DEF Goto
<1>5. TypeOK'
  BY <1>4 DEF Start, TypeOK, locks
<1>6. LockInv'
  BY <1>2 DEF Start, LockInv, TypeOK, locks, In, At, SchedulerSection, SleepSection
<1>7. SleepersInOrder'
  BY DEF Start, SleepersInOrder
<1> QED
  BY <1>5, <1>6, <1>7

LEMMA CreateTaskStep ==
  ASSUME IInv, NEW t \in Tasks, CreateTask(t)
  PROVE  IInv'
<1> USE DEF IInv
<1>1. At("create") /\ t \in Threads /\ Main \in Threads
  BY DEF CreateTask, Threads
<1>2. Top(current) \in Frames /\ Top(current).pc = "create"
  BY <1>1, TopAndBelow DEF At, TypeOK
<1>3. Frame("ct_lock", t) \in Frames /\ Frame("start", NoArg) \in Frames
  BY <1>1 DEF Frame, Frames, PCs, Calm, NoArg
<1>4. /\ Append(<<>>, Frame("start", NoArg)) \in Seq(Frames)
      /\ Append(<<>>, Frame("start", NoArg)) = <<Frame("start", NoArg)>>
  BY <1>3, EmptySeq, AppendProperties
<1>5. Below(Main) \in Seq(Frames)
  BY <1>1, TopAndBelow
<1>6. /\ <<Frame("ct_lock", t)>> \in Seq(Frames)
      /\ Below(Main) \o <<Frame("ct_lock", t)>> \in Seq(Frames)
  BY <1>3, <1>5, ConcatProperties
<1>7. stack' \in [Threads -> Seq(Frames)]
  BY <1>1, <1>4, <1>6 DEF CreateTask, TypeOK
<1>8. TypeOK'
  BY <1>7 DEF CreateTask, TypeOK, locks
<1>9. LockInv'
  BY <1>2 DEF CreateTask, LockInv, TypeOK, locks, In, At, SchedulerSection, SleepSection
<1>10. SleepersInOrder'
  BY DEF CreateTask, SleepersInOrder
<1> QED
  BY <1>8, <1>9, <1>10

\* sleep, called by kernel_main or by a task.
LEMMA SleepStep ==
  ASSUME IInv, NEW d \in Nat, NEW ret \in {"halt", "task"}, Sleep(d, ret),
         At("create") \/ At("task")
  PROVE  IInv'
<1> USE DEF IInv
<1>1. time \in Nat /\ time + d \in Nat
  BY TaskingAssumption DEF TypeOK, TaskingAssumption
<1>2. Top(current) \in Frames /\ Top(current).pc \in {"create", "task"}
  BY TopAndBelow DEF At, TypeOK
<1>3. Frame(ret, NoArg) \in Frames /\ Frame("su_lock", time + d) \in Frames
  BY <1>1 DEF Frame, Frames, PCs, Calm, NoArg
<1>4. stack' \in [Threads -> Seq(Frames)]
  BY <1>3, CallTop DEF Sleep, Call
<1>5. TypeOK'
  BY <1>1, <1>4 DEF Sleep, TypeOK, locks
<1>6. LockInv'
  BY <1>2 DEF Sleep, LockInv, TypeOK, locks, In, SchedulerSection, SleepSection
<1>7. SleepersInOrder'
  BY DEF Sleep, SleepersInOrder
<1> QED
  BY <1>5, <1>6, <1>7

LEMMA WakeUnlockStep ==
  ASSUME IInv, WakeUnlock
  PROVE  IInv'
<1> USE DEF IInv
<1>1. At("wk_unlock") /\ Call("iret", "sn_lock", NoArg)
  BY DEF WakeUnlock, EndOfInterrupt
<1>2. Top(current) \in Frames /\ Top(current).pc = "wk_unlock"
  BY <1>1, TopAndBelow DEF At, TypeOK
<1>3. Frame("iret", NoArg) \in Frames /\ Frame("sn_lock", NoArg) \in Frames
  BY DEF Frame, Frames, PCs, Calm, NoArg
<1>4. stack' \in [Threads -> Seq(Frames)]
  BY <1>1, <1>3, CallTop DEF Call
<1>5. TypeOK'
  BY <1>4, LockFields DEF WakeUnlock, EndOfInterrupt, TypeOK
<1>6. LockInv'
  BY <1>2, LockFields DEF WakeUnlock, EndOfInterrupt, LockInv, TypeOK, In, SchedulerSection, SleepSection
<1>7. SleepersInOrder'
  BY DEF WakeUnlock, SleepersInOrder
<1> QED
  BY <1>5, <1>6, <1>7

LEMMA SwitchTestStep ==
  ASSUME IInv, SwitchTest
  PROVE  IInv'
<1> USE DEF IInv
<1>1. At("sn_test")
  BY DEF SwitchTest
<1>2. Top(current) \in Frames /\ Top(current).pc = "sn_test"
  BY <1>1, TopAndBelow DEF At, TypeOK
<1>3. PICK pc \in {"sn_requeue", "sn_quit", "sn_idle"} : Goto(pc, NoArg)
  BY DEF SwitchTest
<1>4. Frame(pc, NoArg) \in Frames
  BY DEF Frame, Frames, PCs, Calm, NoArg
<1>5. /\ stack' \in [Threads -> Seq(Frames)]
      /\ stack'[current] # <<>>
      /\ stack'[current][Len(stack'[current])] = Frame(pc, NoArg)
  BY <1>3, <1>4, GotoTop DEF Goto
<1>6. TypeOK'
  BY <1>5 DEF SwitchTest, TypeOK, locks
<1>7. LockInv'
  BY <1>2, <1>5 DEF SwitchTest, LockInv, TypeOK, locks, In, Top, Frame,
                    SchedulerSection, SleepSection
<1>8. SleepersInOrder'
  BY DEF SwitchTest, SleepersInOrder
<1> QED
  BY <1>6, <1>7, <1>8

\* The three steps that return: the frame below goes on.

LEMMA ReturnType ==
  ASSUME TypeOK, Return
  PROVE  stack' \in [Threads -> Seq(Frames)]
<1>1. current \in Threads /\ Below(current) \in Seq(Frames)
  BY TopAndBelow DEF TypeOK
<1> QED
  BY <1>1 DEF Return, TypeOK

LEMMA ReturnStep ==
  ASSUME IInv, SwitchQuit \/ SwitchTask \/ Iret
  PROVE  IInv'
<1> USE DEF IInv
<1>1. Return
  BY DEF SwitchQuit, SwitchTask, Iret
<1>2. stack' \in [Threads -> Seq(Frames)]
  BY <1>1, ReturnType
<1>3. Top(current) \in Frames /\ Top(current).pc \in {"sn_quit", "sn_switch", "iret"}
  BY TopAndBelow DEF At, TypeOK, SwitchQuit, SwitchTask, Iret
<1>4. SwitchTask => current' \in Threads
  BY <1>3 DEF SwitchTask, At, Frames
<1>5. TypeOK'
  BY <1>2, <1>4, LockFields DEF SwitchQuit, SwitchTask, Iret, TypeOK, locks
<1>6. LockInv'
  BY <1>3, LockFields DEF SwitchQuit, SwitchTask, Iret, LockInv, TypeOK, locks, In, At,
                          SchedulerSection, SleepSection
<1>7. SleepersInOrder'
  BY DEF SwitchQuit, SwitchTask, Iret, SleepersInOrder
<1> QED
  BY <1>5, <1>6, <1>7

\* switch_next takes the next thread, or goes through NULL.
LEMMA SwitchPopStep ==
  ASSUME IInv, SwitchPop
  PROVE  IInv'
<1> USE DEF IInv
<1>1. At("sn_pop")
  BY DEF SwitchPop
<1>2. Top(current) \in Frames /\ Top(current).pc = "sn_pop"
  BY <1>1, TopAndBelow DEF At, TypeOK
<1>3. SleepersInOrder'
  BY DEF SwitchPop, SleepersInOrder
<1>4. CASE ready = <<>>
  <2>1. TypeOK'
    BY <1>4 DEF SwitchPop, TypeOK, locks
  <2>2. LockInv'
    BY <1>4 DEF SwitchPop, LockInv, locks, In, Top
  <2> QED
    BY <1>3, <2>1, <2>2
<1>5. CASE ready # <<>>
  <2>1. Goto("sn_unlock", Head(ready))
    BY <1>5 DEF SwitchPop
  <2>2. Head(ready) \in Threads /\ 1 \in 1..Len(ready)
    BY <1>5, HeadTailProperties, EmptySeq DEF TypeOK
  <2>3. Frame("sn_unlock", Head(ready)) \in Frames
    BY <2>2 DEF Frame, Frames, PCs, Calm, NoArg
  <2>4. /\ stack' \in [Threads -> Seq(Frames)]
        /\ stack'[current] # <<>>
        /\ stack'[current][Len(stack'[current])] = Frame("sn_unlock", Head(ready))
    BY <2>1, <2>3, GotoTop DEF Goto
  <2>5. ready' \in Seq(Threads)
    BY <1>5, <2>2, WithoutType DEF SwitchPop, TypeOK
  <2>6. TypeOK'
    BY <1>5, <2>2, <2>4, <2>5 DEF SwitchPop, TypeOK, locks
  <2>7. LockInv'
    BY <1>2, <1>5, <2>4 DEF SwitchPop, LockInv, locks, In, Top, Frame,
                            SchedulerSection, SleepSection
  <2> QED
    BY <1>3, <2>6, <2>7
<1> QED
  BY <1>4, <1>5

----------------------------------------------------------------------------
(* Steps that change the sleep list                                        *)

\* A sequence of sleepers stays in order when its first is taken.
LEMMA WithoutFirst ==
  ASSUME NEW S, NEW s \in Seq(S), s # <<>>
  PROVE  /\ Without(s, 1) \in Seq(S)
         /\ Len(Without(s, 1)) = Len(s) - 1
         /\ \A i \in 1..(Len(s) - 1) : Without(s, 1)[i] = s[i + 1]
<1> DEFINE a == SubSeq(s, 1, 0)
           b == SubSeq(s, 2, Len(s))
<1>1. Len(s) \in Nat /\ Len(s) >= 1
  BY EmptySeq
<1>2. a \in Seq(S) /\ Len(a) = 0
  BY <1>1, SubSeqProperties
<1>3. /\ b \in Seq(S) /\ Len(b) = Len(s) - 1
      /\ \A i \in 1..(Len(s) - 1) : b[i] = s[i + 1]
  <2>1. \A i \in 2..Len(s) : s[i] \in S
    BY <1>1, ElementOfSeq
  <2>2. /\ b \in Seq(S) /\ Len(b) = IF 2 <= Len(s) THEN Len(s) - 2 + 1 ELSE 0
        /\ \A i \in 1..(Len(s) - 2 + 1) : b[i] = s[2 + i - 1]
    BY <1>1, <2>1, SubSeqProperties
  <2> HIDE DEF b
  <2>3. Len(b) = Len(s) - 1
    <3>1. CASE 2 <= Len(s)
      <4>1. Len(b) = Len(s) - 2 + 1
        BY <3>1, <2>2
      <4> QED
        BY <1>1, <4>1
    <3>2. CASE ~(2 <= Len(s))
      <4>1. Len(b) = 0
        BY <3>2, <2>2
      <4>2. Len(s) = 1
        <5>1. \A n \in Nat : n >= 1 /\ ~(2 <= n) => n = 1
          OBVIOUS
        <5> QED
          BY <3>2, <1>1, <5>1
      <4> QED
        BY <4>1, <4>2
    <3> QED
      BY <3>1, <3>2
  <2> QED
    BY <1>1, <2>2, <2>3
<1>4. Without(s, 1) = a \o b
  BY DEF Without
<1> HIDE DEF a, b
<1>5. /\ a \o b \in Seq(S) /\ Len(a \o b) = Len(a) + Len(b)
      /\ \A i \in 1..(Len(a) + Len(b)) : (a \o b)[i] = IF i <= Len(a) THEN a[i] ELSE b[i - Len(a)]
  BY <1>2, <1>3, ConcatProperties
<1> QED
  BY <1>1, <1>2, <1>3, <1>4, <1>5

LEMMA WakeOneStep ==
  ASSUME IInv, WakeOne
  PROVE  IInv'
<1> USE DEF IInv
<1> DEFINE S == [thread : Threads, wake_time : Nat]
<1>1. sleepers \in Seq(S) /\ sleepers # <<>> /\ Head(sleepers) \in S
  BY HeadTailProperties DEF WakeOne, TypeOK
<1>2. Head(sleepers).thread \in Threads
  BY <1>1
<1>3. /\ sleepers' \in Seq(S)
      /\ Len(sleepers') = Len(sleepers) - 1
      /\ \A i \in 1..(Len(sleepers) - 1) : sleepers'[i] = sleepers[i + 1]
  BY <1>1, WithoutFirst DEF WakeOne
<1>4. ready' \in Seq(Threads)
  BY <1>2, AppendProperties DEF WakeOne, TypeOK, Appended
<1>5. TypeOK'
  BY <1>2, <1>3, <1>4, LockFields DEF WakeOne, TypeOK
<1>6. LockInv'
  BY LockFields DEF WakeOne, LockInv, TypeOK, In, Top
<1>7. SleepersInOrder'
  <2> SUFFICES ASSUME NEW i \in DOMAIN sleepers', NEW j \in DOMAIN sleepers', i < j
               PROVE  sleepers'[i].wake_time <= sleepers'[j].wake_time
    BY DEF SleepersInOrder
  <2>1. /\ Len(sleepers) \in Nat
        /\ i \in 1..(Len(sleepers) - 1) /\ j \in 1..(Len(sleepers) - 1)
    BY SMTT(40), <1>1, <1>3
  <2>2. i + 1 \in DOMAIN sleepers /\ j + 1 \in DOMAIN sleepers /\ i + 1 < j + 1
    BY SMTT(40), <1>1, <2>1
  <2>3. sleepers[i + 1].wake_time <= sleepers[j + 1].wake_time
    BY <2>2 DEF SleepersInOrder
  <2> QED
    BY <1>3, <2>1, <2>3
<1> QED
  BY <1>5, <1>6, <1>7

\* r is s with v at i: what was before it stays, the rest moves up.
HasAt(r, s, i, v) ==
  /\ Len(r) = Len(s) + 1
  /\ \A j \in 1..(Len(s) + 1) :
       /\ j < i => r[j] = s[j]
       /\ j = i => r[j] = v
       /\ j > i => r[j] = s[j - 1]

LEMMA InsertedAt ==
  ASSUME NEW S, NEW s \in Seq(S), NEW v \in S, NEW i \in 1..(Len(s) + 1), ~NodeLost(s, i),
         NEW r, r = InsertedBefore(s, i, v)
  PROVE  HasAt(r, s, i, v)
<1> DEFINE a == SubSeq(s, 1, i - 1)
           b == SubSeq(s, i, Len(s))
<1>1. /\ Len(s) \in Nat /\ i \in Nat /\ i >= 1 /\ i <= Len(s) + 1
      /\ \A j \in 1..Len(s) : s[j] \in S
  <2>1. Len(s) \in Nat
    OBVIOUS
  <2>2. i \in Nat /\ i >= 1 /\ i <= Len(s) + 1
    BY <2>1
  <2>3. \A j \in 1..Len(s) : s[j] \in S
    BY ElementOfSeq
  <2> QED
    BY <2>1, <2>2, <2>3
<1>2. r = (a \o <<v>>) \o b
  BY DEF InsertedBefore
<1>3. a \in Seq(S) /\ Len(a) = i - 1 /\ \A j \in 1..(i - 1) : a[j] = s[j]
  <2>1. \A j \in 1..(i - 1) : s[j] \in S
    BY <1>1
  <2>2. /\ a \in Seq(S) /\ Len(a) = IF 1 <= i - 1 THEN i - 1 - 1 + 1 ELSE 0
        /\ \A j \in 1..(i - 1 - 1 + 1) : a[j] = s[1 + j - 1]
    BY <1>1, <2>1, SubSeqProperties
  <2> HIDE DEF a
  <2>3. CASE i = 1
    BY <2>2, <2>3
  <2>4. CASE i >= 2
    <3>1. Len(a) = i - 1 - 1 + 1
      BY <1>1, <2>2, <2>4
    <3> QED
      BY <1>1, <2>2, <3>1
  <2> QED
    BY <1>1, <2>3, <2>4
<1>4. /\ b \in Seq(S) /\ Len(b) = Len(s) - i + 1
      /\ \A j \in 1..(Len(s) - i + 1) : b[j] = s[i + j - 1]
  <2>1. \A j \in i..Len(s) : s[j] \in S
    BY <1>1
  <2>2. /\ b \in Seq(S) /\ Len(b) = IF i <= Len(s) THEN Len(s) - i + 1 ELSE 0
        /\ \A j \in 1..(Len(s) - i + 1) : b[j] = s[i + j - 1]
    BY <1>1, <2>1, SubSeqProperties
  <2> HIDE DEF b
  <2>3. CASE i = Len(s) + 1
    <3>1. Len(b) = 0 /\ Len(s) - i + 1 = 0
      BY <1>1, <2>2, <2>3
    <3> QED
      BY <2>2, <3>1
  <2>4. CASE i <= Len(s)
    BY <1>1, <2>2, <2>4
  <2> QED
    BY <1>1, <2>3, <2>4
<1> HIDE DEF a, b
<1>5. /\ <<v>> \in Seq(S) /\ Len(<<v>>) = 1 /\ <<v>>[1] = v
  OBVIOUS
<1> DEFINE c == a \o <<v>>
<1>6. /\ c \in Seq(S) /\ Len(c) = i
      /\ \A j \in 1..(i - 1) : c[j] = s[j]
      /\ c[i] = v
  <2>1. /\ c \in Seq(S) /\ Len(c) = Len(a) + 1
        /\ \A j \in 1..(Len(a) + 1) : c[j] = IF j <= Len(a) THEN a[j] ELSE <<v>>[j - Len(a)]
    BY <1>3, <1>5, ConcatProperties
  <2> HIDE DEF c
  <2> QED
    BY <1>1, <1>3, <1>5, <2>1
<1> HIDE DEF c
<1>7. /\ Len(c \o b) = Len(s) + 1
      /\ \A j \in 1..(Len(s) + 1) : (c \o b)[j] = IF j <= i THEN c[j] ELSE s[j - 1]
  <2>1. /\ Len(c \o b) = Len(c) + Len(b)
        /\ \A j \in 1..(Len(c) + Len(b)) : (c \o b)[j] = IF j <= Len(c) THEN c[j] ELSE b[j - Len(c)]
    BY <1>4, <1>6, ConcatProperties
  <2>2. ASSUME NEW j \in 1..(Len(s) + 1), j > i PROVE b[j - i] = s[j - 1]
    <3>1. j - i \in 1..(Len(s) - i + 1) /\ i + (j - i) - 1 = j - 1
      <4> DEFINE n == Len(s)
      <4>1. n \in Nat /\ i \in Nat /\ j \in 1..(n + 1) /\ j > i
        BY <1>1, <2>2
      <4> HIDE DEF n
      <4>2. j - i \in 1..(n - i + 1) /\ i + (j - i) - 1 = j - 1
        BY <4>1
      <4> QED
        BY <4>2 DEF n
    <3>2. b[j - i] = s[i + (j - i) - 1]
      BY <1>4, <3>1, Zenon
    <3> QED
      BY <3>1, <3>2, Zenon
  <2> QED
    BY <1>1, <1>4, <1>6, <2>1, <2>2
<1>8. Len(r) = Len(s) + 1
  BY <1>2, <1>7 DEF c
<1>9. \A j \in 1..(Len(s) + 1) :
         /\ j < i => r[j] = s[j]
         /\ j = i => r[j] = v
         /\ j > i => r[j] = s[j - 1]
  BY <1>1, <1>2, <1>6, <1>7 DEF c
<1> QED
  BY <1>8, <1>9 DEF HasAt

\* A sleeper inserted in its place leaves the list in order.
LEMMA InsertedOrder ==
  ASSUME NEW T, NEW s \in Seq([thread : T, wake_time : Nat]),
         NEW v \in [thread : T, wake_time : Nat], NEW i \in 1..(Len(s) + 1),
         \A j, k \in 1..Len(s) : j < k => s[j].wake_time <= s[k].wake_time,
         i <= Len(s) => s[i].wake_time > v.wake_time,
         \A j \in 1..(i - 1) : s[j].wake_time <= v.wake_time
  PROVE  LET r == InsertedBefore(s, i, v)
         IN  \A j, k \in 1..Len(r) : j < k => r[j].wake_time <= r[k].wake_time
<1> DEFINE S == [thread : T, wake_time : Nat]
           r == InsertedBefore(s, i, v)
<1>1. /\ Len(s) \in Nat /\ i \in Nat /\ i >= 1 /\ i <= Len(s) + 1
      /\ \A j \in 1..Len(s) : s[j] \in S /\ s[j].wake_time \in Nat
      /\ v.wake_time \in Nat
  <2>1. Len(s) \in Nat
    OBVIOUS
  <2>2. i \in Nat /\ i >= 1 /\ i <= Len(s) + 1
    BY <2>1
  <2>3. \A j \in 1..Len(s) : s[j] \in S
    BY ElementOfSeq
  <2> QED
    BY <2>1, <2>2, <2>3
<1>2. CASE NodeLost(s, i)
  BY <1>2 DEF InsertedBefore
<1>3. CASE ~NodeLost(s, i)
  <2>1. /\ Len(r) = Len(s) + 1
        /\ \A j \in 1..(Len(s) + 1) :
             /\ j < i => r[j] = s[j]
             /\ j = i => r[j] = v
             /\ j > i => r[j] = s[j - 1]
    <3>1. s \in Seq(S) /\ v \in S /\ r = InsertedBefore(s, i, v)
      OBVIOUS
    <3> HIDE DEF S, r
    <3>2. HasAt(r, s, i, v)
      BY <1>3, <3>1, InsertedAt
    <3> QED
      BY <3>2 DEF HasAt
  <2>2. SUFFICES ASSUME NEW j \in 1..(Len(s) + 1), NEW k \in 1..(Len(s) + 1), j < k
                 PROVE  r[j].wake_time <= r[k].wake_time
    BY <2>1 DEF r
  <2>3. CASE k < i
    <3>1. j \in 1..Len(s) /\ k \in 1..Len(s) /\ j < i
      BY <1>1, <2>2, <2>3
    <3> QED
      BY <2>1, <2>2, <2>3, <3>1
  <2>4. CASE k = i
    <3>1. j \in 1..(i - 1) /\ j < i
      BY <1>1, <2>2, <2>4
    <3> QED
      BY <2>1, <2>4, <3>1
  <2>5. CASE k > i /\ j > i
    <3>1. j - 1 \in 1..Len(s) /\ k - 1 \in 1..Len(s) /\ j - 1 < k - 1
      BY SMTT(40), <1>1, <2>2, <2>5
    <3> QED
      BY <2>1, <2>5, <3>1
  <2>6. CASE k > i /\ j < i
    <3>1. j \in 1..Len(s) /\ k - 1 \in 1..Len(s) /\ j < k - 1
      BY <1>1, <2>2, <2>6
    <3> QED
      BY <2>1, <2>6, <3>1
  <2>7. CASE k > i /\ j = i
    <3>1. i \in 1..Len(s) /\ k - 1 \in 1..Len(s) /\ i <= k - 1
      BY <1>1, <2>2, <2>7
    <3>2. v.wake_time <= s[i].wake_time
      BY <1>1, <3>1
    <3>3. s[i].wake_time <= s[k - 1].wake_time
      <4>1. CASE i = k - 1
        BY <1>1, <3>1, <4>1
      <4>2. CASE i < k - 1
        BY <3>1, <4>2
      <4> QED
        BY <1>1, <3>1, <4>1, <4>2
    <3>4. r[j] = v /\ r[k] = s[k - 1]
      BY <2>1, <2>7
    <3> QED
      BY <1>1, <3>1, <3>2, <3>3, <3>4
  <2> QED
    BY <1>1, <2>2, <2>3, <2>4, <2>5, <2>6, <2>7
<1> QED
  BY <1>2, <1>3

LEMMA SleepInsertStep ==
  ASSUME IInv, SleepInsert
  PROVE  IInv'
<1> USE DEF IInv
<1> DEFINE S == [thread : Threads, wake_time : Nat]
           w == Top(current).arg
           v == [thread |-> current, wake_time |-> w]
<1>1. At("su_insert") /\ Goto("su_unlock", NoArg)
  BY DEF SleepInsert
<1>2. Top(current) \in Frames /\ Top(current).pc = "su_insert"
  BY <1>1, TopAndBelow DEF At, TypeOK
<1>3. Frame("su_unlock", NoArg) \in Frames
  BY DEF Frame, Frames, PCs, Calm, NoArg
<1>4. /\ stack' \in [Threads -> Seq(Frames)]
      /\ stack'[current] # <<>>
      /\ stack'[current][Len(stack'[current])] = Frame("su_unlock", NoArg)
  BY <1>1, <1>3, GotoTop DEF Goto
<1>5. PICK i \in 1..(Len(sleepers) + 1) :
        /\ IsPlace(i, w)
        /\ sleepers' = InsertedBefore(sleepers, i, v)
        /\ lost' = lost \cup {t \in {current} : NodeLost(sleepers, i)}
  BY DEF SleepInsert
<1>6. w \in Nat /\ v \in S /\ sleepers \in Seq(S)
  BY <1>2 DEF Frames, TypeOK
<1>7. sleepers' \in Seq(S)
  <2> HIDE DEF v
  <2> QED
    BY <1>5, <1>6, InsertedType
<1>8. TypeOK'
  BY <1>4, <1>5, <1>7 DEF SleepInsert, TypeOK, locks
<1>9. LockInv'
  BY <1>2, <1>4 DEF SleepInsert, LockInv, locks, In, Top, Frame, At,
                    SchedulerSection, SleepSection
<1>10. SleepersInOrder'
  <2>1. DOMAIN sleepers = 1..Len(sleepers) /\ DOMAIN sleepers' = 1..Len(sleepers')
    BY <1>6, <1>7
  <2>2. \A j, k \in 1..Len(sleepers) : j < k => sleepers[j].wake_time <= sleepers[k].wake_time
    BY <2>1 DEF SleepersInOrder
  <2>3. /\ i <= Len(sleepers) => sleepers[i].wake_time > v.wake_time
        /\ \A j \in 1..(i - 1) : sleepers[j].wake_time <= v.wake_time
    BY <1>5 DEF IsPlace
  <2> HIDE DEF v
  <2>4. \A j, k \in 1..Len(sleepers') : j < k => sleepers'[j].wake_time <= sleepers'[k].wake_time
    BY <1>5, <1>6, <2>2, <2>3, InsertedOrder
  <2> QED
    BY <2>1, <2>4 DEF SleepersInOrder
<1> QED
  BY <1>8, <1>9, <1>10

----------------------------------------------------------------------------
(* The timer                                                               *)

LEMMA TickStep ==
  ASSUME IInv, Tick
  PROVE  IInv'
<1>1. TypeOK'
  BY TaskingAssumption DEF IInv, Tick, TypeOK, locks, TaskingAssumption
<1>2. LockInv'
  BY DEF IInv, Tick, LockInv, locks, In, Top
<1>3. SleepersInOrder'
  BY DEF IInv, Tick, SleepersInOrder
<1> QED
  BY <1>1, <1>2, <1>3 DEF IInv

\* An interrupt is taken only with interrupts enabled, so with the locks free.
LEMMA InterruptStep ==
  ASSUME IInv, Interrupt
  PROVE  IInv'
<1>1. current \in Threads /\ stack \in [Threads -> Seq(Frames)]
  BY DEF IInv, TypeOK
<1>2. Frame("wk_lock", NoArg) \in Frames
  BY DEF Frame, Frames, PCs, Calm, NoArg
<1>3. Append(stack[current], Frame("wk_lock", NoArg)) \in Seq(Frames)
  BY <1>1, <1>2, AppendProperties
<1>4. stack' \in [Threads -> Seq(Frames)]
  BY <1>1, <1>3 DEF Interrupt
<1>5. TypeOK'
  BY <1>4 DEF IInv, Interrupt, TypeOK, locks
<1>6. LockInv'
  BY DEF IInv, Interrupt, LockInv, TypeOK, locks
<1>7. SleepersInOrder'
  BY DEF IInv, Interrupt, SleepersInOrder
<1> QED
  BY <1>5, <1>6, <1>7 DEF IInv

----------------------------------------------------------------------------
(* The theorems                                                            *)

LEMMA InitIInv == Init => IInv
<1> SUFFICES ASSUME Init PROVE IInv
  OBVIOUS
<1>1. Frame("create", NoArg) \in Frames /\ Frame("start", NoArg) \in Frames
  BY DEF Frame, Frames, PCs, Calm, NoArg
<1>2. /\ <<Frame("create", NoArg)>> \in Seq(Frames)
      /\ <<Frame("start", NoArg)>> \in Seq(Frames)
      /\ <<>> \in Seq(Frames)
  BY <1>1, EmptySeq
<1>3. stack \in [Threads -> Seq(Frames)]
  BY <1>2 DEF Init
<1>4. TypeOK
  <2>1. ready \in Seq(Threads) /\ sleepers \in Seq([thread : Threads, wake_time : Nat])
    BY EmptySeq DEF Init
  <2>2. current \in Threads /\ lost \subseteq Threads /\ wake \in [Threads -> Nat]
    BY DEF Init, Threads
  <2>3. state \in [Threads -> {"NONE", "READY", "RUNNING", "SLEEPING"}]
    BY DEF Init
  <2>4. /\ scheduler_lock \in [lock : {0, 1}, rflags : BOOLEAN]
        /\ sleep_lock \in [lock : {0, 1}, rflags : BOOLEAN]
        /\ intr \in BOOLEAN /\ crashed \in BOOLEAN
    BY DEF Init
  <2>5. time \in 0..MaxTime
    BY TaskingAssumption DEF Init, TaskingAssumption
  <2> QED
    BY <1>3, <2>1, <2>2, <2>3, <2>4, <2>5 DEF TypeOK
<1>5. LockInv
  BY DEF Init, LockInv
<1>6. SleepersInOrder
  <2>1. DOMAIN sleepers = {}
    BY EmptySeq DEF Init
  <2> QED
    BY <2>1 DEF SleepersInOrder
<1> QED
  BY <1>4, <1>5, <1>6 DEF IInv

LEMMA NextIInv == IInv /\ [Next]_vars => IInv'
<1> SUFFICES ASSUME IInv, [Next]_vars PROVE IInv'
  OBVIOUS
<1>1. ASSUME NEW t \in Tasks, CreateTask(t) PROVE IInv'
  BY <1>1, CreateTaskStep
<1>2. ASSUME MainSleep PROVE IInv'
  BY <1>2, SleepStep, TaskingAssumption DEF MainSleep, TaskingAssumption
<1>3. ASSUME TaskSleep PROVE IInv'
  <2>1. PICK d \in Delays : Sleep(d, "task")
    BY <1>3 DEF TaskSleep
  <2>2. d \in Nat /\ At("task")
    BY <1>3, TaskingAssumption DEF TaskSleep, TaskingAssumption
  <2> QED
    BY <2>1, <2>2, SleepStep
<1>4. ASSUME UNCHANGED vars PROVE IInv'
  BY <1>4 DEF vars, locks, IInv, TypeOK, LockInv, In, Top, SleepersInOrder
<1>5. ASSUME Step PROVE IInv'
  BY <1>1, <1>2, <1>3, <1>5, StartStep, CreateLockStep, CreateAppendStep, CreateUnlockStep,
     SleepLockStep, SleepInsertStep, SleepUnlockStep, SwitchLockStep, SwitchTestStep,
     SwitchIdleUnlockStep, SwitchToIdleStep, SwitchRequeueStep, SwitchPopStep,
     SwitchUnlockStep, ReturnStep, WakeLockStep, WakeOneStep, WakeDoneStep, WakeUnlockStep
     DEF Step
<1> QED
  BY <1>4, <1>5, TickStep, InterruptStep DEF Next

\* Type correctness, the lock discipline and the order of the sleep list are
\* inductive together.
THEOREM TaskingInvariant == Spec => []IInv
BY InitIInv, NextIInv, PTL DEF Spec

\* Frames, queues, locks and thread states keep their types, wherever the
\* timer interrupts: no code reads a field of what is not a thread.
THEOREM TaskingTypeCorrect == Spec => []TypeOK
BY TaskingInvariant, PTL DEF IInv

\* sleep_until's search keeps the sleep list in the order of wake times, with
\* any interleaving of sleepers and timer interrupts.
THEOREM SleepListOrdered == Spec => []SleepersInOrder
BY TaskingInvariant, PTL DEF IInv

\* No thread and no interrupt handler reaches the spin_acquire of a lock that
\* is taken, which on one CPU would hang the kernel.
THEOREM LocksNeverSpin == Spec => []NeverSpins
<1>1. IInv => NeverSpins
  <2> SUFFICES ASSUME IInv PROVE NeverSpins
    OBVIOUS
  <2>1. /\ scheduler_lock.lock \in {0, 1} /\ sleep_lock.lock \in {0, 1}
        /\ scheduler_lock.lock = 1 => Top(current).pc \in SchedulerSection
        /\ sleep_lock.lock = 1 => Top(current).pc \in SleepSection
    BY DEF IInv, TypeOK, LockInv, In
  <2> QED
    BY <2>1 DEF NeverSpins, At, SchedulerSection, SleepSection
<1> QED
  BY <1>1, TaskingInvariant, PTL

----------------------------------------------------------------------------
(* Stacks                                                                  *)

\* What a thread's lowest frame can be at, and what the frames above it: the
\* code a thread calls and the interrupt handler.
BottomOf(t) ==
  IF t = Idle THEN {"start", "hlt"}
  ELSE IF t = Main THEN {"create", "ct_lock", "ct_append", "ct_unlock", "halt"}
  ELSE {"start", "task"}
SleepCode == {"su_lock", "su_insert", "su_unlock"}
SwitchCode == {"sn_lock", "sn_test", "sn_quit", "sn_idle", "sn_toidle", "sn_requeue", "sn_pop",
               "sn_unlock", "sn_switch"}
WakeCode == {"wk_lock", "wk_loop", "wk_unlock"}
Upper == SleepCode \cup SwitchCode \cup WakeCode \cup {"iret"}

\* Where the CPU always holds scheduler_lock.
SchedulerLocked == {"ct_append", "ct_unlock", "sn_test", "sn_quit", "sn_idle"}

\* Where a frame that is not the top one is: at a call, or where the timer
\* interrupted it.
Callers == {"task", "halt", "iret"}
Buried == Callers \cup (Preemptible \ (SleepSection \cup SchedulerLocked))

\* Where a thread is that is not current.
Suspended == {"start", "task", "halt", "iret", "sn_requeue"}

\* sleep_until is called by a thread's own code, switch_next by sleep_until
\* and by the timer's handler.
FrameOn(t, s, p) ==
  /\ s[p].pc \in IF p = 1 THEN BottomOf(t) ELSE Upper
  /\ s[p].pc \in SleepCode => s[p - 1].pc \in {"task", "halt"}
  /\ s[p].pc \in SwitchCode => s[p - 1].pc \in Callers
  /\ p < Len(s) => s[p].pc \in Buried
Shaped(t, s) == \A p \in 1..Len(s) : FrameOn(t, s, p)

\* The frames whose argument is a thread.
Naming == {"ct_lock", "ct_append", "sn_unlock", "sn_switch"}

\* Every stack is that of a thread that exists, has its shape and names
\* threads that exist.
StacksInv ==
  \A t \in Threads :
    /\ Shaped(t, stack[t])
    /\ stack[t] # <<>> <=> state[t] # "NONE"
    /\ \A p \in 1..Len(stack[t]) : stack[t][p].pc \in Naming => state[stack[t][p].arg] # "NONE"

\* The current thread exists, and the others wait to be switched to.
CurrentInv ==
  /\ stack[current] # <<>> /\ stack[Main] # <<>> /\ stack[Idle] # <<>>
  /\ \A t \in Threads \ {current} : stack[t] # <<>> => Top(t).pc \in Suspended

ListsInv ==
  /\ \A i \in 1..Len(ready) : state[ready[i]] # "NONE"
  /\ \A i \in 1..Len(sleepers) : state[sleepers[i].thread] # "NONE"

\* The CPU is nowhere between an acquire and the release without the lock.
SectionInv ==
  /\ Top(current).pc \in SchedulerLocked => scheduler_lock.lock = 1
  /\ Top(current).pc \in SleepSection => sleep_lock.lock = 1

ShapeInv == StacksInv /\ CurrentInv /\ ListsInv /\ SectionInv /\ IdleWakeable /\ NoneOverdue

----------------------------------------------------------------------------
(* What a step does to a stack of the right shape                          *)

LEMMA PCsDisjoint ==
  ASSUME NEW t \in Threads
  PROVE  BottomOf(t) \cap Upper = {} /\ BottomOf(t) \subseteq PCs /\ Upper \subseteq PCs
BY DEF BottomOf, Upper, SleepCode, SwitchCode, WakeCode, PCs, Calm

LEMMA NotEmpty ==
  ASSUME NEW s, Len(s) \in 1..Len(s)
  PROVE  s # <<>>
<1> SUFFICES ASSUME s = <<>> PROVE FALSE
  OBVIOUS
<1>1. Len(s) = 0
  OBVIOUS
<1> QED
  BY <1>1

\* The three things a step does to the top of a stack.
TopRemoved(s) == SubSeq(s, 1, Len(s) - 1)
TopReplaced(s, f) == Append(TopRemoved(s), f)
TopPushed(s, f) == Append(s, f)

\* All but the last element of a sequence.
LEMMA Front ==
  ASSUME NEW S, NEW s \in Seq(S), s # <<>>,
         NEW b, b = TopRemoved(s)
  PROVE  /\ Len(s) \in Nat /\ Len(s) >= 1
         /\ b \in Seq(S) /\ Len(b) = Len(s) - 1
         /\ \A p \in 1..(Len(s) - 1) : b[p] = s[p]
<1>1. Len(s) \in Nat /\ Len(s) >= 1
  BY EmptySeq
<1>2. \A p \in 1..(Len(s) - 1) : s[p] \in S
  BY <1>1, ElementOfSeq
<1> DEFINE n == Len(s) - 1
<1>3. n \in Int /\ n >= 0
  BY <1>1
<1> HIDE DEF n
<1>4. /\ b \in Seq(S) /\ Len(b) = (IF 1 <= n THEN n - 1 + 1 ELSE 0)
      /\ \A p \in 1..(n - 1 + 1) : b[p] = s[1 + p - 1]
  BY <1>2, <1>3, SubSeqProperties DEF n, TopRemoved
<1>5. Len(b) = n /\ \A p \in 1..n : b[p] = s[p]
  BY <1>3, <1>4
<1> QED
  BY <1>1, <1>4, <1>5 DEF n

\* Two elements appended at once.
LEMMA AppendTwo ==
  ASSUME NEW F, NEW u \in Seq(F), NEW f \in F, NEW g \in F
  PROVE  u \o <<f, g>> = Append(Append(u, f), g)
<1>1. /\ <<f, g>> \in Seq(F) /\ Len(<<f, g>>) = 2
      /\ <<f, g>>[1] = f /\ <<f, g>>[2] = g
  OBVIOUS
<1> DEFINE a == u \o <<f, g>>
           c == Append(u, f)
           d == Append(c, g)
<1>2. /\ a \in Seq(F) /\ Len(a) = Len(u) + 2 /\ Len(u) \in Nat
      /\ \A i \in 1..(Len(u) + 2) : a[i] = IF i <= Len(u) THEN u[i] ELSE <<f, g>>[i - Len(u)]
  BY <1>1, ConcatProperties
<1>3. /\ c \in Seq(F) /\ Len(c) = Len(u) + 1 /\ c[Len(u) + 1] = f
      /\ \A i \in 1..Len(u) : c[i] = u[i]
  BY AppendProperties
<1> HIDE DEF c
<1>4. /\ d \in Seq(F) /\ Len(d) = Len(u) + 2 /\ d[Len(u) + 2] = g
      /\ \A i \in 1..(Len(u) + 1) : d[i] = c[i]
  BY <1>2, <1>3, AppendProperties
<1> HIDE DEF a, d
<1>5. ASSUME NEW i \in 1..Len(a) PROVE a[i] = d[i]
  <2>1. CASE i <= Len(u)
    BY <1>2, <1>3, <1>4, <2>1
  <2>2. CASE i = Len(u) + 1
    <3>1. i - Len(u) = 1 /\ ~(i <= Len(u))
      BY <1>2, <2>2
    <3> QED
      BY <1>1, <1>2, <1>3, <1>4, <2>2, <3>1
  <2>3. CASE i = Len(u) + 2
    <3>1. i - Len(u) = 2 /\ ~(i <= Len(u))
      BY <1>2, <2>3
    <3> QED
      BY <1>1, <1>2, <1>4, <2>3, <3>1
  <2> QED
    BY <1>2, <2>1, <2>2, <2>3
<1>6. a = d
  BY <1>2, <1>4, <1>5, SeqEqual
<1> QED
  BY <1>6 DEF a, d, c

\* The code of a frame at a that goes on at b.
Moves(t, a, b) ==
  IF a \in Upper
  THEN /\ b \in Upper
       /\ b \in SleepCode => a \in SleepCode
       /\ b \in SwitchCode => a \in SleepCode \cup SwitchCode
  ELSE b \in BottomOf(t)

\* A frame goes on.
LEMMA GoesOn ==
  ASSUME NEW t \in Threads, NEW s \in Seq(Frames), s # <<>>, Shaped(t, s),
         NEW f \in Frames, Moves(t, s[Len(s)].pc, f.pc),
         NEW r, r = TopReplaced(s, f)
  PROVE  /\ r \in Seq(Frames) /\ Len(r) = Len(s) /\ r[Len(s)] = f
         /\ \A p \in 1..(Len(s) - 1) : r[p] = s[p]
         /\ Shaped(t, r)
<1>1. Len(s) \in Nat /\ Len(s) >= 1
  BY EmptySeq
<1>2. PICK b : /\ b = TopRemoved(s)
               /\ b \in Seq(Frames) /\ Len(b) = Len(s) - 1
               /\ \A p \in 1..(Len(s) - 1) : b[p] = s[p]
  BY Front
<1>3. /\ r \in Seq(Frames) /\ Len(r) = Len(s) /\ r[Len(s)] = f
      /\ \A p \in 1..(Len(s) - 1) : r[p] = s[p]
  <2>1. r = Append(b, f)
    BY <1>2 DEF TopReplaced
  <2> QED
    BY <1>1, <1>2, <2>1, AppendProperties
<1>4. ASSUME NEW p \in 1..Len(r) PROVE FrameOn(t, r, p)
  <2>1. CASE p < Len(s)
    <3>1. p \in 1..(Len(s) - 1) /\ FrameOn(t, s, p)
      BY <1>1, <1>3, <2>1 DEF Shaped
    <3>2. r[p] = s[p] /\ (p # 1 => r[p - 1] = s[p - 1])
      BY <1>1, <1>3, <3>1
    <3>3. p = 1 => s[p].pc \notin SleepCode \cup SwitchCode
      BY <3>1, PCsDisjoint DEF FrameOn, Upper
    <3> QED
      BY <1>3, <3>1, <3>2, <3>3 DEF FrameOn
  <2>2. CASE p = Len(s)
    <3>1. FrameOn(t, s, p) /\ r[p] = f
      BY <1>1, <1>3, <2>2 DEF Shaped
    <3>2. CASE p = 1
      <4>1. s[p].pc \notin Upper
        BY <3>1, <3>2, PCsDisjoint DEF FrameOn
      <4>2. f.pc \in BottomOf(t) /\ f.pc \notin SleepCode \cup SwitchCode
        BY <2>2, <4>1, PCsDisjoint DEF Moves, Upper
      <4> QED
        BY <1>3, <2>2, <3>1, <3>2, <4>2 DEF FrameOn
    <3>3. CASE p # 1
      <4>1. s[p].pc \in Upper
        BY <3>1, <3>3 DEF FrameOn
      <4>2. r[p - 1] = s[p - 1]
        BY <1>1, <1>3, <2>2, <3>3
      <4>3. s[p].pc \in SleepCode => s[p - 1].pc \in {"task", "halt"}
        BY <3>1 DEF FrameOn
      <4>4. s[p].pc \in SwitchCode => s[p - 1].pc \in Callers
        BY <3>1 DEF FrameOn
      <4> QED
        BY <1>3, <2>2, <3>1, <3>3, <4>1, <4>2, <4>3, <4>4 DEF FrameOn, Moves, Callers
    <3> QED
      BY <3>2, <3>3
  <2> QED
    BY <1>1, <1>3, <2>1, <2>2
<1> QED
  BY <1>3, <1>4 DEF Shaped

\* A frame is pushed: by an interrupt, or by a call.
LEMMA PushedOn ==
  ASSUME NEW t \in Threads, NEW s \in Seq(Frames), s # <<>>, Shaped(t, s),
         s[Len(s)].pc \in Buried,
         NEW f \in Frames,
         \/ f.pc = "wk_lock"
         \/ f.pc = "su_lock" /\ s[Len(s)].pc \in {"task", "halt"}
         \/ f.pc = "sn_lock" /\ s[Len(s)].pc = "iret",
         NEW r, r = TopPushed(s, f)
  PROVE  /\ r \in Seq(Frames) /\ Len(r) = Len(s) + 1 /\ r[Len(s) + 1] = f
         /\ \A p \in 1..Len(s) : r[p] = s[p]
         /\ Shaped(t, r)
<1>1. Len(s) \in Nat /\ Len(s) >= 1
  BY EmptySeq
<1>2. /\ r \in Seq(Frames) /\ Len(r) = Len(s) + 1 /\ r[Len(s) + 1] = f
      /\ \A p \in 1..Len(s) : r[p] = s[p]
  <2>1. r = Append(s, f)
    BY DEF TopPushed
  <2> QED
    BY <2>1, AppendProperties
<1>3. ASSUME NEW p \in 1..Len(r) PROVE FrameOn(t, r, p)
  <2>1. CASE p <= Len(s)
    <3>1. FrameOn(t, s, p) /\ r[p] = s[p] /\ (p # 1 => r[p - 1] = s[p - 1])
      BY <1>1, <1>2, <2>1 DEF Shaped
    <3>2. p = 1 => s[p].pc \notin SleepCode \cup SwitchCode
      BY <3>1, PCsDisjoint DEF FrameOn, Upper
    <3>3. s[p].pc \in Buried
      BY <1>1, <2>1, <3>1 DEF FrameOn
    <3> QED
      BY <3>1, <3>2, <3>3 DEF FrameOn
  <2>2. CASE p = Len(s) + 1
    <3>1. r[p] = f /\ r[p - 1] = s[Len(s)] /\ p # 1 /\ p = Len(r)
      BY <1>1, <1>2, <2>2
    <3> QED
      BY <3>1 DEF FrameOn, Upper, SleepCode, SwitchCode, WakeCode, Callers
  <2> QED
    BY <1>1, <1>2, <2>1, <2>2
<1> QED
  BY <1>2, <1>3 DEF Shaped

\* The top frame returns.
LEMMA Returned ==
  ASSUME NEW t \in Threads, NEW s \in Seq(Frames), s # <<>>, Shaped(t, s),
         s[Len(s)].pc \in Upper,
         NEW r, r = TopRemoved(s)
  PROVE  /\ r \in Seq(Frames) /\ Len(r) = Len(s) - 1 /\ Len(r) >= 1 /\ r # <<>>
         /\ r[Len(r)].pc \in Buried
         /\ s[Len(s)].pc \in SwitchCode => r[Len(r)].pc \in Callers
         /\ \A p \in 1..Len(r) : r[p] = s[p]
         /\ Shaped(t, r)
<1>1. Len(s) \in Nat /\ Len(s) >= 1
  BY EmptySeq
<1>2. Len(s) # 1
  <2>1. Len(s) \in 1..Len(s) /\ FrameOn(t, s, Len(s))
    BY <1>1 DEF Shaped
  <2> QED
    BY <2>1, PCsDisjoint DEF FrameOn
<1>3. /\ r \in Seq(Frames) /\ Len(r) = Len(s) - 1
      /\ \A p \in 1..Len(r) : r[p] = s[p]
  BY Front
<1>4. Len(r) \in 1..Len(r) /\ Len(r) \in 1..Len(s) /\ Len(s) \in 1..Len(s) /\ Len(s) - 1 = Len(r)
  BY <1>1, <1>2, <1>3
<1>5. r[Len(r)] = s[Len(s) - 1] /\ FrameOn(t, s, Len(s)) /\ FrameOn(t, s, Len(r))
  BY <1>3, <1>4 DEF Shaped
<1>6. r # <<>>
  BY <1>4, NotEmpty
<1>7. ASSUME NEW p \in 1..Len(r) PROVE FrameOn(t, r, p)
  <2>1. FrameOn(t, s, p) /\ r[p] = s[p] /\ (p # 1 => r[p - 1] = s[p - 1])
    BY <1>1, <1>3 DEF Shaped
  <2>2. p = 1 => s[p].pc \notin SleepCode \cup SwitchCode
    BY <2>1, PCsDisjoint DEF FrameOn, Upper
  <2>3. s[p].pc \in Buried
    BY <1>1, <1>3, <2>1 DEF FrameOn
  <2> QED
    BY <2>1, <2>2, <2>3 DEF FrameOn
<1>8. /\ r[Len(r)].pc \in Buried
      /\ s[Len(s)].pc \in SwitchCode => r[Len(r)].pc \in Callers
  BY <1>1, <1>3, <1>4, <1>5 DEF FrameOn
<1> QED
  BY <1>3, <1>4, <1>6, <1>7, <1>8 DEF Shaped

----------------------------------------------------------------------------
(* What a step does to the stacks                                          *)

\* The frames below the top of the current stack, and the other stacks, stay.
OthersStay ==
  /\ \A p \in 1..(Len(stack[current]) - 1) : stack'[current][p] = stack[current][p]
  /\ \A t \in Threads \ {current} : stack'[t] = stack[t]

\* What the proofs use of the types.
LEMMA StackFacts ==
  ASSUME TypeOK, ShapeInv
  PROVE  /\ current \in Threads /\ Main \in Threads /\ Idle \in Threads
         /\ stack[current] \in Seq(Frames) /\ stack[current] # <<>>
         /\ Len(stack[current]) \in Nat /\ Len(stack[current]) >= 1
         /\ Shaped(current, stack[current])
         /\ Top(current) = stack[current][Len(stack[current])]
         /\ Top(current) \in Frames
         /\ Top(current).pc \in BottomOf(current) \cup Upper
         /\ Top(current).pc \notin Upper => Len(stack[current]) = 1
         /\ Top(current).pc \in Naming => state[Top(current).arg] # "NONE"
<1>1. current \in Threads /\ Main \in Threads /\ Idle \in Threads
  BY DEF TypeOK, Threads
<1>2. stack[current] \in Seq(Frames) /\ stack[current] # <<>> /\ Shaped(current, stack[current])
  BY <1>1 DEF TypeOK, ShapeInv, StacksInv, CurrentInv
<1>3. Len(stack[current]) \in Nat /\ Len(stack[current]) >= 1
  BY <1>2, EmptySeq
<1>4. Len(stack[current]) \in 1..Len(stack[current])
  BY <1>3
<1>5. FrameOn(current, stack[current], Len(stack[current]))
  BY <1>2, <1>4 DEF Shaped
<1>6. Top(current).pc \in Naming => state[Top(current).arg] # "NONE"
  BY <1>1, <1>4 DEF ShapeInv, StacksInv, Top
<1> QED
  BY <1>1, <1>2, <1>3, <1>4, <1>5, <1>6, ElementOfSeq DEF Top, FrameOn

\* The other stacks and the frames below the top stay as they were: the stacks
\* keep their shape when the new frames do.
LEMMA StacksKept ==
  ASSUME TypeOK, ShapeInv, OthersStay,
         \A t \in Threads : state'[t] = "NONE" <=> state[t] = "NONE",
         stack'[current] \in Seq(Frames), stack'[current] # <<>>, Shaped(current, stack'[current]),
         \A p \in 1..Len(stack'[current]) : p >= Len(stack[current]) =>
           (stack'[current][p].pc \in Naming => state[stack'[current][p].arg] # "NONE")
  PROVE  StacksInv'
<1> DEFINE s == stack[current]
           r == stack'[current]
<1>1. /\ current \in Threads /\ s \in Seq(Frames) /\ s # <<>>
      /\ Len(s) \in Nat /\ Len(s) >= 1
  BY StackFacts
<1>2. stack \in [Threads -> Seq(Frames)]
  BY DEF TypeOK
<1>3. ASSUME NEW t \in Threads
      PROVE  /\ Shaped(t, stack'[t])
             /\ stack'[t] # <<>> <=> state'[t] # "NONE"
             /\ \A p \in 1..Len(stack'[t]) : stack'[t][p].pc \in Naming => state'[stack'[t][p].arg] # "NONE"
  <2>1. /\ Shaped(t, stack[t])
        /\ stack[t] # <<>> <=> state[t] # "NONE"
        /\ \A p \in 1..Len(stack[t]) : stack[t][p].pc \in Naming => state[stack[t][p].arg] # "NONE"
    BY DEF ShapeInv, StacksInv
  <2>2. \A g \in Frames : g.pc \in Naming => (state'[g.arg] = "NONE" <=> state[g.arg] = "NONE")
    BY DEF Naming, Frames
  <2>3. CASE t = current
    <3>1. ASSUME NEW p \in 1..Len(r), r[p].pc \in Naming PROVE state'[r[p].arg] # "NONE"
      <4>1. r[p] \in Frames
        BY ElementOfSeq
      <4>2. CASE p >= Len(s)
        BY <2>2, <3>1, <4>1, <4>2
      <4>3. CASE p < Len(s)
        <5>1. p \in 1..(Len(s) - 1) /\ p \in 1..Len(s)
          BY <1>1, <4>3
        <5>2. r[p] = s[p]
          BY <5>1 DEF OthersStay
        <5> QED
          BY <2>1, <2>2, <2>3, <3>1, <4>1, <5>1, <5>2
      <4>4. Len(r) \in Nat
        BY LenProperties
      <4> QED
        BY <1>1, <4>2, <4>3, <4>4
    <3> QED
      BY <1>1, <2>1, <2>3, <3>1
  <2>4. CASE t # current
    <3>1. stack'[t] = stack[t] /\ stack[t] \in Seq(Frames)
      BY <1>2, <2>4 DEF OthersStay
    <3>2. \A p \in 1..Len(stack[t]) : stack[t][p] \in Frames
      BY <3>1, ElementOfSeq
    <3> QED
      BY <2>1, <2>2, <3>1, <3>2
  <2> QED
    BY <2>3, <2>4
<1> QED
  BY <1>3 DEF StacksInv

\* Goto.
LEMMA GotoShape ==
  ASSUME TypeOK, ShapeInv, NEW b, NEW x, Goto(b, x), Frame(b, x) \in Frames,
         Moves(current, Top(current).pc, b),
         \A t \in Threads : state'[t] = "NONE" <=> state[t] = "NONE",
         b \in Naming => state[x] # "NONE"
  PROVE  /\ StacksInv' /\ OthersStay
         /\ Len(stack'[current]) = Len(stack[current])
         /\ stack'[current][Len(stack[current])] = Frame(b, x)
<1> DEFINE s == stack[current]
           f == Frame(b, x)
           r == stack'[current]
<1>1. /\ current \in Threads /\ s \in Seq(Frames) /\ s # <<>> /\ Shaped(current, s)
      /\ Len(s) \in Nat /\ Len(s) >= 1 /\ Top(current) = s[Len(s)]
  BY StackFacts
<1>2. f \in Frames /\ f.pc = b /\ f.arg = x
  BY DEF Frame
<1>3. stack \in [Threads -> Seq(Frames)]
  BY DEF TypeOK
<1>4. r = TopReplaced(s, f) /\ \A t \in Threads \ {current} : stack'[t] = stack[t]
  BY <1>1, <1>3 DEF Goto, Below, TopReplaced, TopRemoved
<1>5. /\ r \in Seq(Frames) /\ Len(r) = Len(s) /\ r[Len(s)] = f
      /\ \A p \in 1..(Len(s) - 1) : r[p] = s[p]
      /\ Shaped(current, r)
  <2> HIDE DEF f, s, r
  <2>1. /\ current \in Threads /\ s \in Seq(Frames) /\ s # <<>> /\ Shaped(current, s)
        /\ f \in Frames /\ Moves(current, s[Len(s)].pc, f.pc)
        /\ r = TopReplaced(s, f)
    BY <1>1, <1>2, <1>4
  <2> QED
    BY <2>1, GoesOn
<1>6. OthersStay /\ r # <<>>
  <2>1. r # <<>>
    <3> HIDE DEF r
    <3> QED
      BY <1>1, <1>5, NotEmpty
  <2> QED
    BY <1>4, <1>5, <2>1 DEF OthersStay
<1>7. \A p \in 1..Len(r) : p >= Len(s) => (r[p].pc \in Naming => state[r[p].arg] # "NONE")
  BY <1>1, <1>2, <1>5
<1> QED
  BY <1>5, <1>6, <1>7, StacksKept

\* Call: the caller's frame goes on at ret, and the frame of the function
\* called is pushed.
LEMMA CallShape ==
  ASSUME TypeOK, ShapeInv, NEW ret, NEW b, NEW x, Call(ret, b, x),
         Frame(ret, NoArg) \in Frames, Frame(b, x) \in Frames,
         Moves(current, Top(current).pc, ret),
         \/ b = "su_lock" /\ ret \in {"task", "halt"}
         \/ b = "sn_lock" /\ ret = "iret",
         \A t \in Threads : state'[t] = "NONE" <=> state[t] = "NONE"
  PROVE  /\ StacksInv' /\ OthersStay
         /\ Len(stack'[current]) = Len(stack[current]) + 1
         /\ stack'[current][Len(stack[current])] = Frame(ret, NoArg)
         /\ stack'[current][Len(stack[current]) + 1] = Frame(b, x)
<1> DEFINE s == stack[current]
           f == Frame(ret, NoArg)
           g == Frame(b, x)
           q == TopReplaced(s, f)
           r == stack'[current]
<1>1. /\ current \in Threads /\ s \in Seq(Frames) /\ s # <<>> /\ Shaped(current, s)
      /\ Len(s) \in Nat /\ Len(s) >= 1 /\ Top(current) = s[Len(s)]
  BY StackFacts
<1>2. /\ f \in Frames /\ f.pc = ret /\ g \in Frames /\ g.pc = b
      /\ Moves(current, s[Len(s)].pc, f.pc)
  BY <1>1 DEF Frame
<1>3. stack \in [Threads -> Seq(Frames)]
  BY DEF TypeOK
<1>4. r = TopRemoved(s) \o <<f, g>> /\ \A t \in Threads \ {current} : stack'[t] = stack[t]
  BY <1>1, <1>3 DEF Call, Below, TopRemoved
<1>5. r = TopPushed(q, g)
  <2> DEFINE u == TopRemoved(s)
  <2>1. u \in Seq(Frames)
    <3> HIDE DEF u, s
    <3> QED
      BY <1>1, Front DEF u
  <2> HIDE DEF u, f, g, s
  <2>2. u \o <<f, g>> = Append(Append(u, f), g)
    BY <1>2, <2>1, AppendTwo
  <2> QED
    BY <1>4, <2>2 DEF TopPushed, TopReplaced, u
<1>6. /\ q \in Seq(Frames) /\ Len(q) = Len(s) /\ q[Len(s)] = f
      /\ \A p \in 1..(Len(s) - 1) : q[p] = s[p]
      /\ Shaped(current, q)
  <2> HIDE DEF f, s, q
  <2>1. q = TopReplaced(s, f)
    BY DEF q
  <2> QED
    BY <1>1, <1>2, <2>1, GoesOn
<1> HIDE DEF q
<1>7. q # <<>> /\ q[Len(q)] = f /\ Len(q) = Len(s)
  BY <1>1, <1>6, NotEmpty
<1>8. /\ r \in Seq(Frames) /\ Len(r) = Len(s) + 1 /\ r[Len(s) + 1] = g
      /\ \A p \in 1..Len(s) : r[p] = q[p]
      /\ Shaped(current, r)
  <2>1. f.pc \in Buried
    BY <1>2 DEF Buried, Callers
  <2> HIDE DEF f, g, s, r
  <2> QED
    BY <1>1, <1>2, <1>5, <1>6, <1>7, <2>1, PushedOn
<1>9. OthersStay
  BY SMTT(40), <1>1, <1>4, <1>6, <1>8 DEF OthersStay
<1>10. r[Len(s)] = f
  BY <1>1, <1>6, <1>8
<1>11. f.pc \notin Naming /\ g.pc \notin Naming
  BY <1>2 DEF Naming
<1>12. StacksInv'
  <2> HIDE DEF f, g
  <2> QED
    BY <1>1, <1>3, <1>4, <1>8, <1>9, <1>10, <1>11, StacksKept
<1> QED
  BY <1>8, <1>9, <1>10, <1>12

\* Return: the frame below goes on.
LEMMA ReturnShape ==
  ASSUME TypeOK, ShapeInv, Return, Top(current).pc \in Upper,
         \A t \in Threads : state'[t] = "NONE" <=> state[t] = "NONE"
  PROVE  /\ StacksInv' /\ OthersStay
         /\ Len(stack'[current]) = Len(stack[current]) - 1
         /\ stack'[current] # <<>>
         /\ stack'[current][Len(stack'[current])].pc \in Buried
         /\ Top(current).pc \in SwitchCode => stack'[current][Len(stack'[current])].pc \in Callers
<1> DEFINE s == stack[current]
           r == stack'[current]
<1>1. /\ current \in Threads /\ s \in Seq(Frames) /\ s # <<>> /\ Shaped(current, s)
      /\ Len(s) \in Nat /\ Len(s) >= 1 /\ Top(current) = s[Len(s)]
  BY StackFacts
<1>2. stack \in [Threads -> Seq(Frames)]
  BY DEF TypeOK
<1>3. r = TopRemoved(s) /\ \A t \in Threads \ {current} : stack'[t] = stack[t]
  BY <1>1, <1>2 DEF Return, Below, TopRemoved
<1>4. /\ r \in Seq(Frames) /\ Len(r) = Len(s) - 1 /\ Len(r) >= 1 /\ r # <<>>
      /\ r[Len(r)].pc \in Buried
      /\ s[Len(s)].pc \in SwitchCode => r[Len(r)].pc \in Callers
      /\ \A p \in 1..Len(r) : r[p] = s[p]
      /\ Shaped(current, r)
  <2> HIDE DEF s, r
  <2> QED
    BY <1>1, <1>3, Returned
<1>5. OthersStay
  BY <1>3, <1>4 DEF OthersStay
<1>6. \A p \in 1..Len(r) : ~(p >= Len(s))
  BY <1>1, <1>4
<1>7. StacksInv'
  BY <1>4, <1>5, <1>6, StacksKept
<1> QED
  BY <1>1, <1>4, <1>5, <1>7

\* The timer interrupts no code that holds a lock.
LEMMA InterruptShape ==
  ASSUME IInv, ShapeInv, Interrupt
  PROVE  /\ StacksInv' /\ OthersStay
         /\ Len(stack'[current]) = Len(stack[current]) + 1
         /\ stack'[current][Len(stack[current])] = Top(current)
         /\ stack'[current][Len(stack[current]) + 1] = Frame("wk_lock", NoArg)
<1> DEFINE s == stack[current]
           f == Frame("wk_lock", NoArg)
           r == stack'[current]
<1>1. /\ current \in Threads /\ s \in Seq(Frames) /\ s # <<>> /\ Shaped(current, s)
      /\ Len(s) \in Nat /\ Len(s) >= 1 /\ Top(current) = s[Len(s)]
  BY StackFacts DEF IInv
<1>2. f \in Frames /\ f.pc = "wk_lock"
  BY DEF Frame, Frames, PCs, Calm, NoArg
<1>3. stack \in [Threads -> Seq(Frames)] /\ TypeOK
  BY DEF IInv, TypeOK
<1>4. r = TopPushed(s, f) /\ \A t \in Threads \ {current} : stack'[t] = stack[t]
  BY <1>1, <1>3 DEF Interrupt, TopPushed
<1>5. s[Len(s)].pc \in Buried
  <2>1. Top(current).pc \in Preemptible /\ scheduler_lock.lock # 1 /\ sleep_lock.lock # 1
    BY DEF Interrupt, IInv, LockInv
  <2> QED
    BY <1>1, <2>1 DEF Buried, ShapeInv, SectionInv
<1>6. /\ r \in Seq(Frames) /\ Len(r) = Len(s) + 1 /\ r[Len(s) + 1] = f
      /\ \A p \in 1..Len(s) : r[p] = s[p]
      /\ Shaped(current, r)
  <2> HIDE DEF s, f, r
  <2> QED
    BY <1>1, <1>2, <1>4, <1>5, PushedOn
<1>7. OthersStay
  BY <1>1, <1>4, <1>6 DEF OthersStay
<1>8. r # <<>> /\ f.pc \notin Naming /\ Len(s) \in 1..Len(s)
  <2>1. Len(r) \in 1..Len(r)
    BY <1>1, <1>6
  <2> HIDE DEF r
  <2> QED
    BY <1>1, <1>2, <2>1, NotEmpty DEF Naming
<1>9. \A p \in 1..Len(r) : p >= Len(s) => (r[p].pc \in Naming => state[r[p].arg] # "NONE")
  <2>1. s[Len(s)].pc \in Naming => state[s[Len(s)].arg] # "NONE"
    BY <1>1, <1>8 DEF ShapeInv, StacksInv
  <2> QED
    BY <1>1, <1>6, <1>8, <2>1
<1>10. state' = state
  BY DEF Interrupt
<1>11. StacksInv'
  BY <1>3, <1>6, <1>7, <1>8, <1>9, <1>10, StacksKept
<1> QED
  BY <1>1, <1>6, <1>7, <1>8, <1>11

----------------------------------------------------------------------------
(* Steps that stay on the current thread                                   *)

\* The other threads wait where they did.
LEMMA CurrentKept ==
  ASSUME TypeOK, ShapeInv, OthersStay, current' = current, stack'[current] # <<>>
  PROVE  CurrentInv'
<1>1. Main \in Threads /\ Idle \in Threads
  BY StackFacts
<1>2. \A t \in Threads : t # current => stack'[t] = stack[t]
  BY DEF OthersStay
<1> QED
  BY <1>1, <1>2 DEF ShapeInv, CurrentInv, Top

\* The current frame goes on, from a to b.
Goes(a, b, x) == At(a) /\ Goto(b, x) /\ Moves(current, a, b) /\ Frame(b, x) \in Frames

LEMMA GoesTop ==
  ASSUME TypeOK, ShapeInv, NEW a, NEW b, NEW x, Goes(a, b, x),
         current' = current,
         \A t \in Threads : state'[t] = "NONE" <=> state[t] = "NONE",
         b \in Naming => state[x] # "NONE"
  PROVE  /\ StacksInv' /\ CurrentInv' /\ OthersStay
         /\ Len(stack'[current]) = Len(stack[current])
         /\ Top(current)' = Frame(b, x)
<1>1. /\ StacksInv' /\ OthersStay
      /\ Len(stack'[current]) = Len(stack[current])
      /\ stack'[current][Len(stack[current])] = Frame(b, x)
  BY GotoShape DEF Goes, At
<1>2. Len(stack'[current]) \in 1..Len(stack'[current])
  BY <1>1, StackFacts
<1>3. stack'[current] # <<>>
  BY <1>2, NotEmpty
<1> QED
  BY <1>1, <1>3, CurrentKept DEF Top

LEMMA GoesShape ==
  ASSUME TypeOK, ShapeInv, NEW a, NEW b, NEW x, Goes(a, b, x),
         current' = current,
         \A t \in Threads : state'[t] = "NONE" <=> state[t] = "NONE",
         ListsInv',
         b \in Naming => state[x] # "NONE",
         b \in SchedulerLocked => scheduler_lock'.lock = 1,
         b \in SleepSection => sleep_lock'.lock = 1,
         b = "hlt" => intr',
         b = "wk_unlock" => \A i \in DOMAIN sleepers' : sleepers'[i].wake_time > x
  PROVE  ShapeInv'
<1>1. StacksInv' /\ CurrentInv' /\ Top(current)' = Frame(b, x)
  BY GoesTop
<1>2. Frame(b, x).pc = b /\ Frame(b, x).arg = x
  BY DEF Frame
<1>3. SectionInv'
  BY <1>1, <1>2 DEF SectionInv
<1>4. IdleWakeable' /\ NoneOverdue'
  BY <1>1, <1>2 DEF IdleWakeable, NoneOverdue, At
<1> QED
  BY <1>1, <1>3, <1>4 DEF ShapeInv

\* Steps that leave the lists and the states alone.
LEMMA GoesQuietly ==
  ASSUME TypeOK, ShapeInv, NEW a, NEW b, NEW x, Goes(a, b, x),
         UNCHANGED <<current, state, ready, sleepers>>,
         b \in Naming => state[x] # "NONE",
         b \in SchedulerLocked => scheduler_lock'.lock = 1,
         b \in SleepSection => sleep_lock'.lock = 1,
         b = "hlt" => intr',
         b = "wk_unlock" => \A i \in DOMAIN sleepers : sleepers[i].wake_time > x
  PROVE  ShapeInv'
<1>1. ListsInv'
  BY DEF ShapeInv, ListsInv
<1> QED
  BY <1>1, GoesShape

\* The frames a step can go on with.
LEMMA GoesOnward ==
  ASSUME IInv, ShapeInv, NEW a, NEW b, NEW x, At(a), Goto(b, x), x \in Nat \cup Threads,
         \/ b \in BottomOf(current) \ Naming /\ a \notin Upper
         \/ b = "ct_append" /\ a = "ct_lock" /\ x \in Threads
         \/ b = "su_insert" /\ a = "su_lock" /\ x \in Nat
         \/ b = "su_unlock" /\ a = "su_insert"
         \/ b \in SwitchCode \ {"sn_unlock", "sn_switch"} /\ a \in SwitchCode \cup {"su_unlock"}
         \/ b \in {"sn_unlock", "sn_switch"} /\ a \in SwitchCode /\ x \in Threads
         \/ b \in {"wk_loop", "wk_unlock"} /\ a \in WakeCode /\ x \in Nat
  PROVE  Goes(a, b, x)
<1>1. Top(current).pc = a /\ Top(current).pc \in BottomOf(current) \cup Upper
  BY StackFacts DEF IInv, At
<1>2. Moves(current, a, b)
  BY <1>1 DEF Moves, Upper, SleepCode, SwitchCode, WakeCode, BottomOf
<1>3. Frame(b, x) \in Frames
  BY DEF Frame, Frames, PCs, Calm, SwitchCode, BottomOf, Naming
<1> QED
  BY <1>2, <1>3 DEF Goes

\* The steps whose frame goes on and that leave the lists and the states
\* alone.
LEMMA QuietGoes ==
  ASSUME IInv, ShapeInv
  PROVE  /\ Start => Goes("start", IF current = Idle THEN "hlt" ELSE "task", NoArg)
         /\ CreateLock => Goes("ct_lock", "ct_append", Top(current).arg)
         /\ CreateUnlock => Goes("ct_unlock", "create", NoArg)
         /\ SleepLock => Goes("su_lock", "su_insert", Top(current).arg)
         /\ SleepUnlock => Goes("su_unlock", "sn_lock", NoArg)
         /\ SwitchLock => Goes("sn_lock", "sn_test", NoArg)
         /\ SwitchIdleUnlock => Goes("sn_idle", "sn_toidle", NoArg)
         /\ SwitchUnlock => Goes("sn_unlock", "sn_switch", Top(current).arg)
         /\ WakeLock => Goes("wk_lock", "wk_loop", time)
         /\ WakeDone => Goes("wk_loop", "wk_unlock", Top(current).arg)
         /\ SwitchTest => \E b \in {"sn_requeue", "sn_quit", "sn_idle"} :
              /\ Goes("sn_test", b, NoArg)
              /\ b = "sn_requeue" => ready # <<>>
              /\ b = "sn_quit" => state[current] = "RUNNING"
              /\ b = "sn_idle" => state[current] # "RUNNING"
<1>1. TypeOK /\ time \in Nat
  BY TaskingAssumption DEF IInv, TypeOK, TaskingAssumption
<1>2. /\ Top(current) \in Frames
      /\ Top(current).pc \in BottomOf(current) \cup Upper
  BY <1>1, StackFacts
<1>3. ASSUME Start PROVE Goes("start", IF current = Idle THEN "hlt" ELSE "task", NoArg)
  <2> DEFINE b == IF current = Idle THEN "hlt" ELSE "task"
  <2>1. At("start") /\ Goto(b, NoArg) /\ Top(current).pc = "start"
    BY <1>3 DEF Start, At
  <2>2. "start" \notin Upper /\ b \in BottomOf(current) \ Naming
    BY <1>2, <2>1 DEF Upper, SleepCode, SwitchCode, WakeCode, BottomOf, Naming
  <2> QED
    BY <2>1, <2>2, GoesOnward DEF NoArg
<1>4. ASSUME CreateLock PROVE Goes("ct_lock", "ct_append", Top(current).arg)
  BY <1>1, <1>2, <1>4, GoesOnward DEF CreateLock, At, Frames, SwitchCode, WakeCode, NoArg
<1>5. ASSUME CreateUnlock PROVE Goes("ct_unlock", "create", NoArg)
  <2>1. At("ct_unlock") /\ Goto("create", NoArg) /\ Top(current).pc = "ct_unlock"
    BY <1>5 DEF CreateUnlock, At
  <2>2. "ct_unlock" \notin Upper /\ "create" \in BottomOf(current) \ Naming
    BY <1>2, <2>1 DEF Upper, SleepCode, SwitchCode, WakeCode, BottomOf, Naming
  <2> QED
    BY <2>1, <2>2, GoesOnward DEF NoArg
<1>6. ASSUME SleepLock PROVE Goes("su_lock", "su_insert", Top(current).arg)
  BY <1>1, <1>2, <1>6, GoesOnward DEF SleepLock, At, Frames, SwitchCode, WakeCode, NoArg
<1>7. ASSUME SleepUnlock PROVE Goes("su_unlock", "sn_lock", NoArg)
  BY <1>1, <1>2, <1>7, GoesOnward DEF SleepUnlock, At, Frames, SwitchCode, WakeCode, NoArg
<1>8. ASSUME SwitchLock PROVE Goes("sn_lock", "sn_test", NoArg)
  BY <1>1, <1>2, <1>8, GoesOnward DEF SwitchLock, At, Frames, SwitchCode, WakeCode, NoArg
<1>9. ASSUME SwitchIdleUnlock PROVE Goes("sn_idle", "sn_toidle", NoArg)
  BY <1>1, <1>2, <1>9, GoesOnward DEF SwitchIdleUnlock, At, Frames, SwitchCode, WakeCode, NoArg
<1>10. ASSUME SwitchUnlock PROVE Goes("sn_unlock", "sn_switch", Top(current).arg)
  BY <1>1, <1>2, <1>10, GoesOnward DEF SwitchUnlock, At, Frames, SwitchCode, WakeCode, NoArg
<1>11. ASSUME WakeLock PROVE Goes("wk_lock", "wk_loop", time)
  BY <1>1, <1>2, <1>11, GoesOnward DEF WakeLock, At, Frames, SwitchCode, WakeCode, NoArg
<1>12. ASSUME WakeDone PROVE Goes("wk_loop", "wk_unlock", Top(current).arg)
  BY <1>1, <1>2, <1>12, GoesOnward DEF WakeDone, At, Frames, SwitchCode, WakeCode, NoArg
<1>13. ASSUME SwitchTest
      PROVE  \E b \in {"sn_requeue", "sn_quit", "sn_idle"} :
               /\ Goes("sn_test", b, NoArg)
               /\ b = "sn_requeue" => ready # <<>>
               /\ b = "sn_quit" => state[current] = "RUNNING"
               /\ b = "sn_idle" => state[current] # "RUNNING"
  <2>1. PICK b \in {"sn_requeue", "sn_quit", "sn_idle"} :
          /\ Goto(b, NoArg)
          /\ b = "sn_requeue" => ready # <<>>
          /\ b = "sn_quit" => state[current] = "RUNNING"
          /\ b = "sn_idle" => state[current] # "RUNNING"
    BY <1>13 DEF SwitchTest
  <2>2. Goes("sn_test", b, NoArg)
    BY <1>13, <2>1, GoesOnward DEF SwitchTest, SwitchCode, NoArg
  <2> QED
    BY <2>1, <2>2
<1> QED
  BY <1>3, <1>4, <1>5, <1>6, <1>7, <1>8, <1>9, <1>10, <1>11, <1>12, <1>13

\* wakeup_sleepers stops at a sleeper that is not due: the others are not
\* either.
LEMMA FirstNotDue ==
  ASSUME IInv, At("wk_loop"), sleepers # <<>> => Head(sleepers).wake_time > Top(current).arg
  PROVE  \A i \in DOMAIN sleepers : sleepers[i].wake_time > Top(current).arg
<1> SUFFICES ASSUME NEW i \in DOMAIN sleepers
             PROVE  sleepers[i].wake_time > Top(current).arg
  OBVIOUS
<1>1. sleepers \in Seq([thread : Threads, wake_time : Nat]) /\ Top(current) \in Frames
  BY TopAndBelow DEF IInv, TypeOK, At
<1>2. Top(current).arg \in Nat
  BY <1>1 DEF Frames, At
<1>3. DOMAIN sleepers = 1..Len(sleepers) /\ Len(sleepers) \in Nat
  BY <1>1, LenProperties
<1>4. i \in 1..Len(sleepers) /\ 1 \in 1..Len(sleepers)
  BY <1>3
<1>5. sleepers[i].wake_time \in Nat /\ sleepers[1].wake_time \in Nat
  <2>1. /\ sleepers[i] \in [thread : Threads, wake_time : Nat]
        /\ sleepers[1] \in [thread : Threads, wake_time : Nat]
    BY <1>1, <1>4, ElementOfSeq
  <2> QED
    BY <2>1
<1>6. sleepers # <<>>
  BY <1>4
<1>7. sleepers[1].wake_time > Top(current).arg
  BY <1>1, <1>6
<1>8. sleepers[1].wake_time <= sleepers[i].wake_time
  BY <1>3, <1>4, <1>5 DEF IInv, SleepersInOrder
<1> QED
  BY <1>2, <1>5, <1>7, <1>8

LEMMA QuietSteps ==
  ASSUME IInv, ShapeInv,
         \/ Start \/ CreateLock \/ CreateUnlock \/ SleepLock \/ SleepUnlock
         \/ SwitchLock \/ SwitchTest \/ SwitchIdleUnlock \/ SwitchUnlock
         \/ WakeLock \/ WakeDone
  PROVE  ShapeInv'
<1>1. TypeOK /\ time \in Nat
  BY TaskingAssumption DEF IInv, TypeOK, TaskingAssumption
<1>2. /\ Top(current) \in Frames
      /\ Top(current).pc \in BottomOf(current) \cup Upper
      /\ Top(current).pc \in Naming => state[Top(current).arg] # "NONE"
  BY <1>1, StackFacts
<1>3. ASSUME NEW a, NEW b, NEW x, Goes(a, b, x),
             UNCHANGED <<current, state, ready, sleepers>>,
             b \in Naming => state[x] # "NONE",
             b \in SchedulerLocked => scheduler_lock'.lock = 1,
             b \in SleepSection => sleep_lock'.lock = 1,
             b = "hlt" => intr',
             b = "wk_unlock" => \A i \in DOMAIN sleepers : sleepers[i].wake_time > x
      PROVE  ShapeInv'
  BY <1>1, <1>3, GoesQuietly
<1>4. CASE Start
  <2> DEFINE b == IF current = Idle THEN "hlt" ELSE "task"
  <2>1. Goes("start", b, NoArg)
    BY <1>4, QuietGoes
  <2> QED
    BY <1>3, <1>4, <2>1 DEF Start, Naming, SchedulerLocked, SleepSection
<1>5. CASE CreateLock
  <2>1. Goes("ct_lock", "ct_append", Top(current).arg)
    BY <1>5, QuietGoes
  <2> QED
    BY <1>2, <1>3, <1>5, <2>1 DEF CreateLock, At, Naming, SchedulerLocked, SleepSection, Held
<1>6. CASE CreateUnlock
  <2>1. Goes("ct_unlock", "create", NoArg)
    BY <1>6, QuietGoes
  <2> QED
    BY <1>2, <1>3, <1>6, <2>1 DEF CreateUnlock, At, Naming, SchedulerLocked, SleepSection, Held
<1>7. CASE SleepLock
  <2>1. Goes("su_lock", "su_insert", Top(current).arg)
    BY <1>7, QuietGoes
  <2> QED
    BY <1>2, <1>3, <1>7, <2>1 DEF SleepLock, At, Naming, SchedulerLocked, SleepSection, Held
<1>8. CASE SleepUnlock
  <2>1. Goes("su_unlock", "sn_lock", NoArg)
    BY <1>8, QuietGoes
  <2> QED
    BY <1>2, <1>3, <1>8, <2>1 DEF SleepUnlock, At, Naming, SchedulerLocked, SleepSection, Held
<1>9. CASE SwitchLock
  <2>1. Goes("sn_lock", "sn_test", NoArg)
    BY <1>9, QuietGoes
  <2> QED
    BY <1>2, <1>3, <1>9, <2>1 DEF SwitchLock, At, Naming, SchedulerLocked, SleepSection, Held
<1>10. CASE SwitchIdleUnlock
  <2>1. Goes("sn_idle", "sn_toidle", NoArg)
    BY <1>10, QuietGoes
  <2> QED
    BY <1>2, <1>3, <1>10, <2>1 DEF SwitchIdleUnlock, At, Naming, SchedulerLocked, SleepSection, Held
<1>11. CASE SwitchUnlock
  <2>1. Goes("sn_unlock", "sn_switch", Top(current).arg)
    BY <1>11, QuietGoes
  <2> QED
    BY <1>2, <1>3, <1>11, <2>1 DEF SwitchUnlock, At, Naming, SchedulerLocked, SleepSection, Held
<1>12. CASE WakeLock
  <2>1. Goes("wk_lock", "wk_loop", time)
    BY <1>12, QuietGoes
  <2> QED
    BY <1>2, <1>3, <1>12, <2>1 DEF WakeLock, At, Naming, SchedulerLocked, SleepSection, Held
<1>13. CASE WakeDone
  <2>1. Goes("wk_loop", "wk_unlock", Top(current).arg)
    BY <1>13, QuietGoes
  <2>2. \A i \in DOMAIN sleepers : sleepers[i].wake_time > Top(current).arg
    BY <1>13, FirstNotDue DEF WakeDone
  <2>3. sleep_lock'.lock = 1
    BY <1>13 DEF WakeDone, At, locks, ShapeInv, SectionInv, SleepSection
  <2> QED
    BY <1>3, <1>13, <2>1, <2>2, <2>3 DEF WakeDone, Naming, SchedulerLocked
<1>14. CASE SwitchTest
  <2>1. PICK b \in {"sn_requeue", "sn_quit", "sn_idle"} : Goes("sn_test", b, NoArg)
    BY <1>14, QuietGoes
  <2>2. scheduler_lock'.lock = 1
    BY <1>14 DEF SwitchTest, At, locks, ShapeInv, SectionInv, SchedulerLocked
  <2> QED
    BY <1>3, <1>14, <2>1, <2>2 DEF SwitchTest, Naming, SleepSection
<1> QED
  BY <1>4, <1>5, <1>6, <1>7, <1>8, <1>9, <1>10, <1>11, <1>12, <1>13, <1>14

\* Steps that change the lists.
LEMMA ListSteps ==
  ASSUME IInv, IInv', ShapeInv,
         CreateAppend \/ SwitchRequeue \/ SleepInsert \/ (SwitchPop /\ ready # <<>>)
  PROVE  ShapeInv'
<1>1. /\ TypeOK /\ TypeOK' /\ current \in Threads /\ ready \in Seq(Threads)
      /\ sleepers \in Seq([thread : Threads, wake_time : Nat])
      /\ state \in [Threads -> {"NONE", "READY", "RUNNING", "SLEEPING"}]
  BY DEF IInv, TypeOK
<1>2. /\ Top(current) \in Frames
      /\ Top(current).pc \in BottomOf(current) \cup Upper
      /\ Top(current).pc \in Naming => state[Top(current).arg] # "NONE"
  BY <1>1, StackFacts
<1>3. state[current] # "NONE"
  BY <1>1 DEF ShapeInv, StacksInv, CurrentInv
<1>4. /\ \A i \in 1..Len(ready) : ready[i] \in Threads /\ state[ready[i]] # "NONE"
      /\ \A i \in 1..Len(sleepers) : sleepers[i].thread \in Threads /\ state[sleepers[i].thread] # "NONE"
  <2>1. \A i \in 1..Len(sleepers) : sleepers[i] \in [thread : Threads, wake_time : Nat]
    BY <1>1, ElementOfSeq
  <2> QED
    BY <1>1, <2>1, ElementOfSeq DEF ShapeInv, ListsInv
<1>5. ASSUME NEW a, NEW b, NEW x, Goes(a, b, x), current' = current,
             \A t \in Threads : state'[t] = "NONE" <=> state[t] = "NONE",
             ListsInv',
             b \in Naming => state[x] # "NONE",
             b \in SchedulerLocked => scheduler_lock'.lock = 1,
             b \in SleepSection => sleep_lock'.lock = 1,
             b # "hlt", b # "wk_unlock"
      PROVE  ShapeInv'
  BY <1>1, <1>5, GoesShape
<1>6. CASE CreateAppend
  <2> DEFINE x == Top(current).arg
  <2>1. At("ct_append") /\ Goto("ct_unlock", NoArg) /\ Top(current).pc = "ct_append"
    BY <1>6 DEF CreateAppend, At
  <2>2. "ct_append" \notin Upper /\ "ct_unlock" \in BottomOf(current) \ Naming
    BY <1>2, <2>1 DEF Upper, SleepCode, SwitchCode, WakeCode, BottomOf, Naming
  <2>3. Goes("ct_append", "ct_unlock", NoArg)
    BY <2>1, <2>2, GoesOnward DEF NoArg
  <2>4. x \in Threads /\ state[x] # "NONE"
    BY <1>2, <2>1 DEF Frames, Naming
  <2>5. /\ Len(ready') = Len(ready) + 1 /\ ready'[Len(ready) + 1] = x
        /\ \A i \in 1..Len(ready) : ready'[i] = ready[i]
    BY <1>1, <1>6, <2>4, AppendProperties DEF CreateAppend, Appended
  <2>6. ListsInv'
    BY <1>1, <1>4, <1>6, <2>4, <2>5, LenProperties DEF CreateAppend, ListsInv
  <2>7. scheduler_lock'.lock = 1
    BY <1>6, <2>1 DEF CreateAppend, locks, ShapeInv, SectionInv, SchedulerLocked
  <2> QED
    BY <1>5, <1>6, <2>3, <2>6, <2>7 DEF CreateAppend, Naming, SleepSection
<1>7. CASE SwitchRequeue
  <2>1. Goes("sn_requeue", "sn_pop", NoArg)
    BY <1>7, GoesOnward DEF SwitchRequeue, SwitchCode, NoArg
  <2>2. \A t \in Threads : state'[t] = "NONE" <=> state[t] = "NONE"
    BY <1>1, <1>3, <1>7 DEF SwitchRequeue
  <2>3. ListsInv'
    <3>1. CASE ready' = ready
      BY <1>4, <1>7, <2>2, <3>1 DEF SwitchRequeue, ListsInv
    <3>2. CASE ready' = Append(ready, current)
      <4>1. /\ Len(ready') = Len(ready) + 1 /\ ready'[Len(ready) + 1] = current
            /\ \A i \in 1..Len(ready) : ready'[i] = ready[i]
        BY <1>1, <3>2, AppendProperties
      <4> QED
        BY SMTT(40), <1>1, <1>3, <1>4, <1>7, <2>2, <4>1, LenProperties DEF SwitchRequeue, ListsInv
    <3> QED
      BY <1>7, <3>1, <3>2 DEF SwitchRequeue, Appended
  <2> QED
    BY <1>5, <1>7, <2>1, <2>2, <2>3 DEF SwitchRequeue, Naming, SchedulerLocked, SleepSection
<1>8. CASE SwitchPop /\ ready # <<>>
  <2>1. /\ 1 \in 1..Len(ready) /\ Head(ready) = ready[1] /\ Len(ready) \in Nat
    BY <1>1, <1>8, EmptySeq
  <2>2. Head(ready) \in Threads /\ state[Head(ready)] # "NONE"
    BY <1>4, <2>1
  <2>3. Goes("sn_pop", "sn_unlock", Head(ready))
    BY <1>8, <2>2, GoesOnward DEF SwitchPop, SwitchCode
  <2>4. \A t \in Threads : state'[t] = "NONE" <=> state[t] = "NONE"
    BY <1>1, <1>8, <2>2 DEF SwitchPop
  <2>5. /\ Len(ready') = Len(ready) - 1
        /\ \A i \in 1..(Len(ready) - 1) : ready'[i] = ready[i + 1]
    BY <1>1, <1>8, WithoutFirst DEF SwitchPop
  <2>6. \A i \in 1..(Len(ready) - 1) : i + 1 \in 1..Len(ready)
    BY <2>1
  <2>7. ListsInv'
    BY <1>4, <1>8, <2>4, <2>5, <2>6 DEF SwitchPop, ListsInv
  <2> QED
    BY <1>5, <1>8, <2>2, <2>3, <2>4, <2>7 DEF SwitchPop, SchedulerLocked, SleepSection
<1>9. CASE SleepInsert
  <2> DEFINE v == [thread |-> current, wake_time |-> Top(current).arg]
             S == [thread : Threads, wake_time : Nat]
  <2>1. Goes("su_insert", "su_unlock", NoArg)
    BY <1>9, GoesOnward DEF SleepInsert, NoArg
  <2>2. \A t \in Threads : state'[t] = "NONE" <=> state[t] = "NONE"
    BY <1>1, <1>3, <1>9 DEF SleepInsert
  <2>3. PICK i \in 1..(Len(sleepers) + 1) : sleepers' = InsertedBefore(sleepers, i, v)
    BY <1>9 DEF SleepInsert
  <2>4. v \in S /\ v.thread = current /\ sleepers \in Seq(S)
    BY <1>1, <1>2, <1>9 DEF SleepInsert, At, Frames
  <2>5. \A j \in 1..Len(sleepers') :
          sleepers'[j].thread \in Threads /\ state[sleepers'[j].thread] # "NONE"
    <3>1. CASE NodeLost(sleepers, i)
      BY <1>4, <2>3, <3>1 DEF InsertedBefore
    <3>2. CASE ~NodeLost(sleepers, i)
      <4> HIDE DEF v, S
      <4>1. /\ Len(sleepers') = Len(sleepers) + 1
            /\ \A j \in 1..(Len(sleepers) + 1) :
                 /\ j < i => sleepers'[j] = sleepers[j]
                 /\ j = i => sleepers'[j] = v
                 /\ j > i => sleepers'[j] = sleepers[j - 1]
        <5>1. HasAt(sleepers', sleepers, i, v)
          BY <2>3, <2>4, <3>2, InsertedAt
        <5> QED
          BY <5>1 DEF HasAt
      <4>2. ASSUME NEW j \in 1..Len(sleepers')
            PROVE  sleepers'[j].thread \in Threads /\ state[sleepers'[j].thread] # "NONE"
        <5>1. Len(sleepers) \in Nat
          BY <1>1, LenProperties
        <5>2. j < i => j \in 1..Len(sleepers)
          BY <4>1, <5>1
        <5>3. j > i => j - 1 \in 1..Len(sleepers)
          BY <4>1, <5>1
        <5>4. /\ j < i => sleepers'[j] = sleepers[j]
              /\ j = i => sleepers'[j] = v
              /\ j > i => sleepers'[j] = sleepers[j - 1]
          BY <4>1
        <5>5. j < i \/ j = i \/ j > i
          BY <4>1, <5>1
        <5> QED
          BY <1>1, <1>3, <1>4, <2>4, <5>2, <5>3, <5>4, <5>5
      <4> QED
        BY <4>2
    <3> QED
      BY <3>1, <3>2
  <2>6. ListsInv'
    BY <1>4, <1>9, <2>2, <2>5 DEF SleepInsert, ListsInv
  <2>7. sleep_lock'.lock = 1
    BY <1>9 DEF SleepInsert, At, locks, ShapeInv, SectionInv, SleepSection
  <2> QED
    BY <1>5, <1>9, <2>1, <2>2, <2>6, <2>7 DEF SleepInsert, Naming, SchedulerLocked
<1> QED
  BY <1>6, <1>7, <1>8, <1>9

\* wakeup_sleepers moves a thread from one list to the other.
LEMMA WakeOneShape ==
  ASSUME IInv, ShapeInv, WakeOne
  PROVE  ShapeInv'
<1> DEFINE S == [thread : Threads, wake_time : Nat]
           t == Head(sleepers).thread
<1>1. /\ TypeOK /\ ready \in Seq(Threads) /\ sleepers \in Seq(S) /\ sleepers # <<>>
      /\ state \in [Threads -> {"NONE", "READY", "RUNNING", "SLEEPING"}]
      /\ stack' = stack /\ current' = current
  BY DEF IInv, TypeOK, WakeOne
<1>2. Len(sleepers) \in Nat /\ 1 \in 1..Len(sleepers) /\ Head(sleepers) = sleepers[1]
  BY <1>1, EmptySeq
<1>3. t \in Threads /\ state[t] # "NONE"
  <2>1. sleepers[1] \in S
    BY <1>1, <1>2, ElementOfSeq
  <2> QED
    BY <1>2, <2>1 DEF ShapeInv, ListsInv
<1>4. \A u \in Threads : state'[u] = "NONE" <=> state[u] = "NONE"
  BY <1>1, <1>3 DEF WakeOne
<1>5. /\ Len(sleepers') = Len(sleepers) - 1
      /\ \A i \in 1..(Len(sleepers) - 1) : sleepers'[i] = sleepers[i + 1]
  BY <1>1, WithoutFirst DEF WakeOne
<1>6. /\ Len(ready') = Len(ready) + 1 /\ ready'[Len(ready) + 1] = t
      /\ \A i \in 1..Len(ready) : ready'[i] = ready[i]
  BY <1>1, <1>3, AppendProperties DEF WakeOne, Appended
<1>7. ListsInv'
  <2>1. ASSUME NEW i \in 1..Len(ready') PROVE state'[ready'[i]] # "NONE"
    <3>1. Len(ready) \in Nat
      BY <1>1, LenProperties
    <3>2. i \in 1..Len(ready) => ready[i] \in Threads /\ state[ready[i]] # "NONE"
      BY <1>1, ElementOfSeq DEF ShapeInv, ListsInv
    <3> QED
      BY <1>3, <1>4, <1>6, <3>1, <3>2
  <2>2. ASSUME NEW i \in 1..Len(sleepers') PROVE state'[sleepers'[i].thread] # "NONE"
    <3>1. i \in 1..(Len(sleepers) - 1) /\ i + 1 \in 1..Len(sleepers)
      BY <1>2, <1>5
    <3>2. sleepers[i + 1] \in S
      BY <1>1, <3>1, ElementOfSeq
    <3> QED
      BY <1>4, <1>5, <3>1, <3>2 DEF ShapeInv, ListsInv
  <2> QED
    BY <2>1, <2>2 DEF ListsInv
<1>8. StacksInv'
  <2> SUFFICES ASSUME NEW u \in Threads
               PROVE  /\ Shaped(u, stack[u])
                      /\ stack[u] # <<>> <=> state'[u] # "NONE"
                      /\ \A p \in 1..Len(stack[u]) :
                           stack[u][p].pc \in Naming => state'[stack[u][p].arg] # "NONE"
    BY <1>1 DEF StacksInv
  <2>1. \A p \in 1..Len(stack[u]) : stack[u][p].pc \in Naming => stack[u][p].arg \in Threads
    <3>1. \A p \in 1..Len(stack[u]) : stack[u][p] \in Frames
      BY ElementOfSeq DEF IInv, TypeOK
    <3> QED
      BY <3>1 DEF Frames, Naming
  <2> QED
    BY <1>4, <2>1 DEF ShapeInv, StacksInv
<1>9. Top(current).pc = "wk_loop" /\ sleep_lock' = sleep_lock
  BY DEF WakeOne, At
<1>10. CurrentInv' /\ SectionInv'
  BY <1>1, <1>9 DEF ShapeInv, CurrentInv, SectionInv, Top, SchedulerLocked
<1>11. IdleWakeable' /\ NoneOverdue'
  BY <1>1, <1>9 DEF IdleWakeable, NoneOverdue, At, Top
<1> QED
  BY <1>7, <1>8, <1>10, <1>11 DEF ShapeInv

\* A call: sleep, or the timer's handler calling switch_next.
LEMMA CallSteps ==
  ASSUME IInv, ShapeInv, MainSleep \/ TaskSleep \/ WakeUnlock
  PROVE  ShapeInv'
<1>1. /\ TypeOK /\ time \in Nat
      /\ Top(current).pc \in BottomOf(current) \cup Upper
  BY StackFacts, TaskingAssumption DEF IInv, TypeOK, TaskingAssumption
<1>2. PICK ret, b, x :
        /\ Call(ret, b, x) /\ x \in Nat
        /\ \/ b = "su_lock" /\ ret = "halt" /\ Top(current).pc = "create"
           \/ b = "su_lock" /\ ret = "task" /\ Top(current).pc = "task"
           \/ b = "sn_lock" /\ ret = "iret" /\ Top(current).pc = "wk_unlock"
  <2>1. CASE MainSleep
    <3>1. Call("halt", "su_lock", time + MainDelay) /\ Top(current).pc = "create"
      BY <2>1 DEF MainSleep, Sleep, At
    <3>2. time + MainDelay \in Nat
      BY <1>1, TaskingAssumption DEF TaskingAssumption
    <3> QED
      BY <3>1, <3>2
  <2>2. CASE TaskSleep
    <3>1. PICK d \in Delays : Call("task", "su_lock", time + d)
      BY <2>2 DEF TaskSleep, Sleep
    <3>2. time + d \in Nat /\ Top(current).pc = "task"
      BY <1>1, <2>2, TaskingAssumption DEF TaskingAssumption, TaskSleep, At
    <3> QED
      BY <3>1, <3>2
  <2>3. CASE WakeUnlock
    <3>1. Call("iret", "sn_lock", NoArg) /\ Top(current).pc = "wk_unlock" /\ NoArg \in Nat
      BY <2>3 DEF WakeUnlock, EndOfInterrupt, At, NoArg
    <3> QED
      BY <3>1
  <2> QED
    BY <2>1, <2>2, <2>3
<1>3. UNCHANGED <<current, state, ready, sleepers>>
  BY DEF MainSleep, TaskSleep, Sleep, WakeUnlock
<1>4. Frame(ret, NoArg) \in Frames /\ Frame(b, x) \in Frames
  BY <1>2 DEF Frame, Frames, PCs, Calm, NoArg
<1>5. Moves(current, Top(current).pc, ret)
  BY <1>1, <1>2 DEF Moves, Upper, SleepCode, SwitchCode, WakeCode, BottomOf
<1>6. /\ StacksInv' /\ OthersStay
      /\ Len(stack'[current]) = Len(stack[current]) + 1
      /\ stack'[current][Len(stack[current]) + 1] = Frame(b, x)
  BY <1>1, <1>2, <1>3, <1>4, <1>5, CallShape
<1>7. stack'[current] # <<>>
  <2>1. Len(stack'[current]) \in 1..Len(stack'[current])
    BY <1>1, <1>6, StackFacts
  <2> QED
    BY <2>1, NotEmpty
<1>8. CurrentInv'
  BY <1>1, <1>3, <1>6, <1>7, CurrentKept
<1>9. Top(current)'.pc \in {"su_lock", "sn_lock"}
  BY <1>2, <1>3, <1>6 DEF Top, Frame
<1>10. ListsInv'
  BY <1>3 DEF ShapeInv, ListsInv
<1>11. SectionInv' /\ IdleWakeable' /\ NoneOverdue'
  BY <1>9 DEF SectionInv, IdleWakeable, NoneOverdue, At, SchedulerLocked, SleepSection
<1> QED
  BY <1>6, <1>8, <1>10, <1>11 DEF ShapeInv

\* An interrupt.
LEMMA InterruptStepShape ==
  ASSUME IInv, ShapeInv, Interrupt
  PROVE  ShapeInv'
<1>1. TypeOK /\ UNCHANGED <<current, state, ready, sleepers>>
  BY DEF IInv, Interrupt
<1>2. /\ StacksInv' /\ OthersStay
      /\ Len(stack'[current]) = Len(stack[current]) + 1
      /\ stack'[current][Len(stack[current]) + 1] = Frame("wk_lock", NoArg)
  BY InterruptShape
<1>3. stack'[current] # <<>>
  <2>1. Len(stack'[current]) \in 1..Len(stack'[current])
    BY <1>1, <1>2, StackFacts
  <2> QED
    BY <2>1, NotEmpty
<1>4. CurrentInv'
  BY <1>1, <1>2, <1>3, CurrentKept
<1>5. Top(current)'.pc = "wk_lock"
  BY <1>1, <1>2 DEF Top, Frame
<1>6. ListsInv'
  BY <1>1 DEF ShapeInv, ListsInv
<1>7. SectionInv' /\ IdleWakeable' /\ NoneOverdue'
  BY <1>5 DEF SectionInv, IdleWakeable, NoneOverdue, At, SchedulerLocked, SleepSection
<1> QED
  BY <1>2, <1>4, <1>6, <1>7 DEF ShapeInv

\* The frame below goes on, in the same thread.
LEMMA ReturnSteps ==
  ASSUME IInv, ShapeInv, SwitchQuit \/ Iret
  PROVE  ShapeInv'
<1>1. /\ TypeOK /\ Return /\ UNCHANGED <<current, state, ready, sleepers>>
      /\ Top(current).pc \in {"sn_quit", "iret"}
      /\ Top(current).pc = "iret" => intr'
  BY DEF IInv, SwitchQuit, Iret, At
<1>2. Top(current).pc \in Upper /\ (Top(current).pc = "sn_quit" => Top(current).pc \in SwitchCode)
  BY <1>1 DEF Upper, SwitchCode
<1>3. /\ StacksInv' /\ OthersStay /\ stack'[current] # <<>>
      /\ stack'[current][Len(stack'[current])].pc \in Buried
      /\ Top(current).pc \in SwitchCode => stack'[current][Len(stack'[current])].pc \in Callers
  BY <1>1, <1>2, ReturnShape
<1>4. CurrentInv'
  BY <1>1, <1>3, CurrentKept
<1>5. /\ Top(current)'.pc \in Buried
      /\ Top(current).pc = "sn_quit" => Top(current)'.pc \in Callers
  BY <1>1, <1>2, <1>3 DEF Top
<1>6. ListsInv'
  BY <1>1 DEF ShapeInv, ListsInv
<1>7. SectionInv' /\ NoneOverdue'
  BY <1>5 DEF SectionInv, NoneOverdue, At, Buried, Callers, SchedulerLocked, SleepSection
<1>8. IdleWakeable'
  BY <1>1, <1>5 DEF IdleWakeable, At, Callers
<1> QED
  BY <1>3, <1>4, <1>6, <1>7, <1>8 DEF ShapeInv

----------------------------------------------------------------------------
(* Steps that switch                                                       *)

\* switch_task: the thread that was current waits, another goes on.
LEMMA SwitchedTo ==
  ASSUME TypeOK, ShapeInv, StacksInv', OthersStay,
         stack'[current] # <<>>, stack'[current][Len(stack'[current])].pc \in Suspended,
         current' \in Threads, stack'[current'] # <<>>,
         UNCHANGED <<state, ready, sleepers>>
  PROVE  ShapeInv' /\ Top(current)'.pc \in Suspended
<1>1. Main \in Threads /\ Idle \in Threads
  BY StackFacts
<1>2. \A t \in Threads : t # current => stack'[t] = stack[t]
  BY DEF OthersStay
<1>3. \A t \in Threads : stack'[t] # <<>> => stack'[t][Len(stack'[t])].pc \in Suspended
  BY <1>2 DEF ShapeInv, CurrentInv, Top
<1>4. CurrentInv' /\ Top(current)'.pc \in Suspended
  BY <1>1, <1>2, <1>3 DEF ShapeInv, CurrentInv, Top
<1>5. ListsInv'
  BY DEF ShapeInv, ListsInv
<1>6. SectionInv' /\ IdleWakeable' /\ NoneOverdue'
  BY <1>4 DEF SectionInv, IdleWakeable, NoneOverdue, At, Suspended, SchedulerLocked, SleepSection
<1> QED
  BY <1>4, <1>5, <1>6 DEF ShapeInv

LEMMA SwitchToIdleShape ==
  ASSUME IInv, ShapeInv, SwitchToIdle
  PROVE  /\ ShapeInv' /\ OthersStay
         /\ Len(stack'[current]) = Len(stack[current])
         /\ stack'[current][Len(stack[current])] = Frame("sn_requeue", NoArg)
         /\ Top(current)'.pc \in Suspended
<1>1. /\ TypeOK /\ current' = Idle /\ UNCHANGED <<state, ready, sleepers>>
      /\ At("sn_toidle") /\ Goto("sn_requeue", NoArg)
  BY DEF IInv, SwitchToIdle
<1>2. Goes("sn_toidle", "sn_requeue", NoArg)
  BY <1>1, GoesOnward DEF SwitchCode, NoArg
<1>3. /\ StacksInv' /\ OthersStay
      /\ Len(stack'[current]) = Len(stack[current])
      /\ stack'[current][Len(stack[current])] = Frame("sn_requeue", NoArg)
  BY <1>1, <1>2, GotoShape DEF Goes, At, Naming
<1>4. stack'[current] # <<>> /\ Idle \in Threads /\ current \in Threads
  <2>1. Len(stack'[current]) \in 1..Len(stack'[current])
    BY <1>1, <1>3, StackFacts
  <2> QED
    BY <1>1, <2>1, NotEmpty, StackFacts
<1>5. stack'[Idle] # <<>>
  BY <1>3, <1>4 DEF OthersStay, ShapeInv, CurrentInv
<1>6. stack'[current][Len(stack'[current])].pc \in Suspended
  BY <1>3 DEF Frame, Suspended
<1>7. ShapeInv' /\ Top(current)'.pc \in Suspended
  BY <1>1, <1>3, <1>4, <1>5, <1>6, SwitchedTo
<1> QED
  BY <1>3, <1>7

LEMMA SwitchTaskShape ==
  ASSUME IInv, ShapeInv, SwitchTask
  PROVE  /\ ShapeInv' /\ OthersStay
         /\ Len(stack'[current]) = Len(stack[current]) - 1
         /\ stack'[current] # <<>>
         /\ stack'[current][Len(stack'[current])].pc \in Callers
         /\ Top(current)'.pc \in Suspended
         /\ current' = current => Top(current)'.pc \in Callers
<1> DEFINE x == Top(current).arg
<1>1. /\ TypeOK /\ current' = x /\ UNCHANGED <<state, ready, sleepers>>
      /\ Top(current).pc = "sn_switch" /\ Return
  BY DEF IInv, SwitchTask, At
<1>2. /\ Top(current) \in Frames
      /\ Top(current).pc \in Naming => state[x] # "NONE"
  BY <1>1, StackFacts
<1>3. x \in Threads /\ state[x] # "NONE"
  BY <1>1, <1>2 DEF Frames, Naming
<1>4. Top(current).pc \in Upper /\ Top(current).pc \in SwitchCode
  BY <1>1 DEF Upper, SwitchCode
<1>5. /\ StacksInv' /\ OthersStay /\ stack'[current] # <<>>
      /\ Len(stack'[current]) = Len(stack[current]) - 1
      /\ stack'[current][Len(stack'[current])].pc \in Callers
  BY <1>1, <1>4, ReturnShape
<1>6. stack'[x] # <<>>
  BY <1>1, <1>3, <1>5 DEF StacksInv
<1>7. stack'[current][Len(stack'[current])].pc \in Suspended
  BY <1>5 DEF Callers, Suspended
<1>8. ShapeInv' /\ Top(current)'.pc \in Suspended
  BY <1>1, <1>3, <1>5, <1>6, <1>7, SwitchedTo
<1>9. current' = current => Top(current)'.pc \in Callers
  BY <1>5 DEF Top
<1> QED
  BY <1>5, <1>8, <1>9

----------------------------------------------------------------------------
(* A new thread                                                            *)

\* create_task is called by kernel_main, and builds a stack of one frame.
LEMMA CreateTaskShape ==
  ASSUME IInv, ShapeInv, NEW t \in Tasks, CreateTask(t)
  PROVE  /\ ShapeInv' /\ current = Main /\ current' = Main
         /\ Len(stack[Main]) = 1 /\ Len(stack'[Main]) = 1
         /\ stack'[Main][1] = Frame("ct_lock", t)
         /\ stack'[t] = <<Frame("start", NoArg)>>
         /\ \A u \in Threads \ {Main, t} : stack'[u] = stack[u]
<1>1. /\ TypeOK /\ t \in Threads /\ Main \in Threads /\ Idle \in Threads
      /\ t # Main /\ t # Idle /\ Main # Idle
      /\ stack \in [Threads -> Seq(Frames)]
      /\ state \in [Threads -> {"NONE", "READY", "RUNNING", "SLEEPING"}]
  BY TaskingAssumption DEF IInv, TypeOK, Threads, TaskingAssumption
<1>2. /\ Top(current).pc = "create"
      /\ Top(current).pc \in BottomOf(current) \cup Upper
      /\ Top(current).pc \notin Upper => Len(stack[current]) = 1
  BY <1>1, StackFacts DEF CreateTask, At
<1>3. current = Main /\ Len(stack[Main]) = 1
  BY <1>2 DEF BottomOf, Upper, SleepCode, SwitchCode, WakeCode
<1> DEFINE f == Frame("ct_lock", t)
           g == Frame("start", NoArg)
<1>4. f \in Frames /\ g \in Frames /\ f.pc = "ct_lock" /\ f.arg = t /\ g.pc = "start"
  BY <1>1 DEF Frame, Frames, PCs, Calm, NoArg
<1>5. /\ stack'[Main] = Below(Main) \o <<f>>
      /\ stack'[t] = <<g>>
      /\ \A u \in Threads \ {Main, t} : stack'[u] = stack[u]
  BY <1>1 DEF CreateTask
<1> HIDE DEF f, g
<1>6. stack'[Main] = <<f>>
  <2>1. Below(Main) = <<>>
    <3>1. SubSeq(stack[Main], 1, 0) = <<>>
      BY SubSeqEmpty
    <3> QED
      BY <1>3, <3>1 DEF Below
  <2>2. <<f>> \in Seq(Frames)
    BY <1>4
  <2> QED
    BY <1>5, <2>1, <2>2, ConcatEmptySeq
<1>7. state' = [state EXCEPT ![t] = "READY"] /\ state[t] = "NONE" /\ current' = current
  BY DEF CreateTask
<1>8. \A u \in Threads : state[u] # "NONE" => state'[u] # "NONE"
  BY <1>1, <1>7
<1>9. StacksInv'
  <2> SUFFICES ASSUME NEW u \in Threads
               PROVE  /\ Shaped(u, stack'[u])
                      /\ stack'[u] # <<>> <=> state'[u] # "NONE"
                      /\ \A p \in 1..Len(stack'[u]) :
                           stack'[u][p].pc \in Naming => state'[stack'[u][p].arg] # "NONE"
    BY DEF StacksInv
  <2>1. CASE u = Main
    <3>1. Len(<<f>>) = 1 /\ <<f>>[1] = f /\ <<f>> # <<>>
      OBVIOUS
    <3>2. FrameOn(Main, <<f>>, 1)
      BY <1>1, <1>4, <3>1 DEF FrameOn, BottomOf, SleepCode, SwitchCode
    <3>3. Shaped(Main, <<f>>)
      BY <3>1, <3>2 DEF Shaped
    <3>4. state'[Main] # "NONE" /\ state'[t] # "NONE"
      BY <1>1, <1>7, <1>8 DEF ShapeInv, StacksInv, CurrentInv
    <3> QED
      BY SMTT(40), <1>4, <1>6, <2>1, <3>1, <3>3, <3>4
  <2>2. CASE u = t
    <3>1. Len(<<g>>) = 1 /\ <<g>>[1] = g /\ <<g>> # <<>>
      OBVIOUS
    <3>2. FrameOn(t, <<g>>, 1)
      BY <1>1, <1>4, <3>1 DEF FrameOn, BottomOf, SleepCode, SwitchCode
    <3>3. Shaped(t, <<g>>)
      BY <3>1, <3>2 DEF Shaped
    <3>4. state'[t] # "NONE" /\ g.pc \notin Naming
      BY <1>1, <1>4, <1>7 DEF Naming
    <3>5. \A p \in 1..Len(stack'[t]) : stack'[t][p] = g
      BY <1>5, <3>1
    <3> QED
      BY <1>5, <2>2, <3>1, <3>3, <3>4, <3>5
  <2>3. CASE u # Main /\ u # t
    <3>1. stack'[u] = stack[u] /\ state'[u] = state[u]
      BY <1>1, <1>5, <1>7, <2>3
    <3>2. \A p \in 1..Len(stack[u]) : stack[u][p].pc \in Naming => stack[u][p].arg \in Threads
      <4>1. \A p \in 1..Len(stack[u]) : stack[u][p] \in Frames
        BY <1>1, ElementOfSeq
      <4> QED
        BY <4>1 DEF Frames, Naming
    <3> QED
      BY <1>8, <3>1, <3>2 DEF ShapeInv, StacksInv
  <2> QED
    BY <2>1, <2>2, <2>3
<1>10. CurrentInv' /\ Top(current)'.pc = "ct_lock"
  <2>1. /\ Len(<<f>>) = 1 /\ <<f>>[1] = f /\ <<f>> # <<>>
        /\ Len(<<g>>) = 1 /\ <<g>>[1] = g
    OBVIOUS
  <2>2. ASSUME NEW u \in Threads \ {Main}, stack'[u] # <<>>
        PROVE  stack'[u][Len(stack'[u])].pc \in Suspended
    <3>1. CASE u = t
      BY <1>4, <1>5, <2>1, <3>1 DEF Suspended
    <3>2. CASE u # t
      BY <1>3, <1>5, <2>2, <3>2 DEF ShapeInv, CurrentInv, Top
    <3> QED
      BY <3>1, <3>2
  <2>3. stack'[Idle] # <<>>
    BY <1>1, <1>5 DEF ShapeInv, CurrentInv
  <2> QED
    BY <1>3, <1>4, <1>6, <1>7, <2>1, <2>2, <2>3 DEF CurrentInv, Top
<1>11. ListsInv'
  <2>1. \A i \in 1..Len(ready) : ready[i] \in Threads
    BY ElementOfSeq DEF IInv, TypeOK
  <2>2. \A i \in 1..Len(sleepers) : sleepers[i].thread \in Threads
    <3>1. \A i \in 1..Len(sleepers) : sleepers[i] \in [thread : Threads, wake_time : Nat]
      BY ElementOfSeq DEF IInv, TypeOK
    <3> QED
      BY <3>1
  <2> QED
    BY <1>8, <2>1, <2>2 DEF CreateTask, ShapeInv, ListsInv
<1>12. SectionInv' /\ IdleWakeable' /\ NoneOverdue'
  BY <1>10 DEF SectionInv, IdleWakeable, NoneOverdue, At, SchedulerLocked, SleepSection
<1>13. ShapeInv'
  BY <1>9, <1>10, <1>11, <1>12 DEF ShapeInv
<1> QED
  BY <1>3, <1>5, <1>6, <1>7, <1>13 DEF f, g

----------------------------------------------------------------------------
(* The theorems                                                            *)

LEMMA InitShape == Init => ShapeInv
<1> SUFFICES ASSUME Init PROVE ShapeInv
  OBVIOUS
<1>1. Main \in Threads /\ Idle \in Threads /\ Main # Idle /\ Main \notin Tasks /\ Idle \notin Tasks
  BY TaskingAssumption DEF Threads, TaskingAssumption
<1>2. stack = [t \in Threads |-> IF t = Main THEN <<Frame("create", NoArg)>>
                                 ELSE IF t = Idle THEN <<Frame("start", NoArg)>> ELSE <<>>]
  BY DEF Init
<1>3. \A f : Len(<<f>>) = 1 /\ <<f>>[1] = f /\ <<f>> # <<>>
  OBVIOUS
<1>4. Frame("create", NoArg).pc = "create" /\ Frame("start", NoArg).pc = "start"
  BY DEF Frame
<1>5. StacksInv
  <2> SUFFICES ASSUME NEW t \in Threads
               PROVE  /\ Shaped(t, stack[t])
                      /\ stack[t] # <<>> <=> state[t] # "NONE"
                      /\ \A p \in 1..Len(stack[t]) : stack[t][p].pc \notin Naming
    BY DEF StacksInv
  <2>1. CASE t = Main \/ t = Idle
    <3>1. PICK f : /\ stack[t] = <<f>>
                   /\ f.pc = IF t = Main THEN "create" ELSE "start"
      BY <1>1, <1>2, <1>4, <2>1
    <3>2. FrameOn(t, <<f>>, 1)
      BY <1>1, <1>3, <2>1, <3>1 DEF FrameOn, BottomOf, SleepCode, SwitchCode
    <3>3. Shaped(t, <<f>>)
      BY <1>3, <3>2 DEF Shaped
    <3>4. state[t] # "NONE" /\ f.pc \notin Naming
      BY <1>1, <2>1, <3>1 DEF Init, Naming
    <3> QED
      BY <1>3, <3>1, <3>3, <3>4
  <2>2. CASE t # Main /\ t # Idle
    <3>1. stack[t] = <<>> /\ state[t] = "NONE"
      BY <1>2, <2>2 DEF Init, Threads
    <3>2. Len(<<>>) = 0
      OBVIOUS
    <3> QED
      BY <3>1, <3>2 DEF Shaped
  <2> QED
    BY <2>1, <2>2
<1>6. CurrentInv
  <2>1. \A t \in Threads \ {Main} : stack[t] # <<>> => Top(t).pc = "start"
    BY <1>2, <1>3, <1>4 DEF Top
  <2> QED
    BY <1>1, <1>2, <1>3, <2>1 DEF CurrentInv, Suspended, Init
<1>7. ListsInv
  BY EmptySeq DEF ListsInv, Init
<1>8. Top(current).pc = "create"
  BY <1>1, <1>2, <1>3, <1>4 DEF Top, Init
<1>9. SectionInv /\ IdleWakeable /\ NoneOverdue
  BY <1>8 DEF SectionInv, IdleWakeable, NoneOverdue, At, SchedulerLocked, SleepSection
<1> QED
  BY <1>5, <1>6, <1>7, <1>9 DEF ShapeInv

\* Steps that change no stack, no list and no lock.
LEMMA StillShape ==
  ASSUME ShapeInv,
         UNCHANGED <<current, stack, state, ready, sleepers, scheduler_lock, sleep_lock, intr>>,
         crashed => crashed'
  PROVE  ShapeInv'
<1>1. StacksInv' /\ CurrentInv' /\ ListsInv' /\ SectionInv'
  BY DEF ShapeInv, StacksInv, CurrentInv, ListsInv, SectionInv, Top
<1>2. IdleWakeable' /\ NoneOverdue'
  BY DEF ShapeInv, IdleWakeable, NoneOverdue, At, Top
<1> QED
  BY <1>1, <1>2 DEF ShapeInv

LEMMA NextShape == IInv /\ ShapeInv /\ [Next]_vars => ShapeInv'
<1> SUFFICES ASSUME IInv, ShapeInv, [Next]_vars PROVE ShapeInv'
  OBVIOUS
<1>1. IInv'
  BY NextIInv
<1>2. CASE UNCHANGED vars
  BY <1>2, StillShape DEF vars
<1>3. CASE Tick
  BY <1>3, StillShape DEF Tick, locks
<1>4. CASE SwitchPop
  <2>1. CASE ready = <<>>
    BY <1>4, <2>1, StillShape DEF SwitchPop, locks
  <2> QED
    BY <1>1, <1>4, <2>1, ListSteps
<1>5. ASSUME NEW t \in Tasks, CreateTask(t) PROVE ShapeInv'
  BY <1>5, CreateTaskShape
<1>6. CASE SwitchToIdle \/ SwitchTask
  BY <1>6, SwitchToIdleShape, SwitchTaskShape
<1>7. CASE CreateAppend \/ SwitchRequeue \/ SleepInsert
  BY <1>1, <1>7, ListSteps
<1>8. CASE Step
  BY <1>4, <1>5, <1>6, <1>7, <1>8, QuietSteps, WakeOneShape, CallSteps, ReturnSteps DEF Step
<1> QED
  BY <1>2, <1>3, <1>8, InterruptStepShape DEF Next

\* The shape of the stacks is inductive with the lock discipline.
THEOREM ShapeInvariant == Spec => [](IInv /\ ShapeInv)
<1>1. Init => IInv /\ ShapeInv
  BY InitIInv, InitShape
<1>2. IInv /\ ShapeInv /\ [Next]_vars => (IInv /\ ShapeInv)'
  BY NextIInv, NextShape
<1> QED
  BY <1>1, <1>2, PTL DEF Spec

\* idle_thread always waits with interrupts enabled: task_start sets the flag,
\* every way back to it goes through iretq, and no thread is switched to at
\* its hlt.
THEOREM IdleAlwaysWakeable == Spec => []IdleWakeable
BY ShapeInvariant, PTL DEF ShapeInv

\* When wakeup_sleepers leaves its loop nobody on the sleep list is due, with
\* the timer interrupting at every point where interrupts are enabled.
THEOREM NobodyOverdue == Spec => []NoneOverdue
BY ShapeInvariant, PTL DEF ShapeInv

----------------------------------------------------------------------------
(* Places                                                                  *)

InReady(t) == \E i \in 1..Len(ready) : ready[i] = t
OnList(t) == \E i \in 1..Len(sleepers) : sleepers[i].thread = t

\* switch_next has taken t off the run queue and not switched to it.
Chosen(t) == Top(current).pc \in {"sn_unlock", "sn_switch"} /\ Top(current).arg = t

\* t is on the CPU and in no list.
Leaving == {"sn_pop", "sn_unlock", "sn_switch"}
Holds(t) == t = current /\ state[t] # "SLEEPING" /\ Top(current).pc \notin Leaving

\* create_task's frame is kernel_main's lowest.
Building(t) ==
  stack[Main][1].pc \in {"ct_lock", "ct_append"} /\ stack[Main][1].arg = t

\* A list has a thread once.
ListsOnce ==
  /\ \A i, j \in 1..Len(ready) : ready[i] = ready[j] => i = j
  /\ \A i, j \in 1..Len(sleepers) : sleepers[i].thread = sleepers[j].thread => i = j

\* A thread that exists is in one place.
OnePlaceEach ==
  \A t \in Threads \ {Idle} :
    /\ state[t] = "SLEEPING" <=> OnList(t) \/ t \in lost
    /\ state[t] \in {"READY", "RUNNING"} <=> InReady(t) \/ Building(t) \/ Chosen(t) \/ Holds(t)
    /\ ~(OnList(t) /\ t \in lost)
    /\ ~(InReady(t) /\ Building(t)) /\ ~(InReady(t) /\ Chosen(t)) /\ ~(InReady(t) /\ Holds(t))
    /\ ~(Building(t) /\ Chosen(t)) /\ ~(Building(t) /\ Holds(t)) /\ ~(Chosen(t) /\ Holds(t))

IdleApart ==
  /\ state[Idle] = "RUNNING"
  /\ ~InReady(Idle) /\ ~OnList(Idle) /\ Idle \notin lost /\ ~Building(Idle) /\ ~Chosen(Idle)
  /\ Idle # current => Top(Idle).pc # "sn_requeue"

\* What switch_next, at pc with next_thread arg, knows of the current thread
\* and of the run queue.
SwitchKnows(pc, arg) ==
  /\ pc \notin Leaving => state[current] # "READY"
  /\ state[current] = "SLEEPING" => pc \in {"su_unlock"} \cup (SwitchCode \ {"sn_quit"})
  /\ pc \in {"su_unlock", "sn_idle", "sn_toidle"} => state[current] = "SLEEPING"
  /\ pc \in {"sn_unlock", "sn_switch"} => state[arg] = "RUNNING"
  /\ pc = "sn_pop" => ready # <<>>
  /\ pc = "sn_requeue" => ready # <<>> \/ (current # Idle /\ state[current] = "RUNNING")
SwitchInv == SwitchKnows(Top(current).pc, Top(current).arg)

\* sleep_until has a wake time and no place in the list yet: its frame is the
\* second of its thread.
Asks == {"su_lock", "su_insert"}
Asking(t) == Len(stack[t]) >= 2 /\ stack[t][2].pc \in Asks

\* A thread's time has come, or it is still asleep or about to be.
WakeInv ==
  /\ \A t \in Threads : wake[t] <= time \/ OnList(t) \/ t \in lost \/ Asking(t)
  /\ \A t \in Threads : Asking(t) => stack[t][2].arg = wake[t]
  /\ \A i \in 1..Len(sleepers) : sleepers[i].wake_time = wake[sleepers[i].thread]
  /\ Top(current).pc = "wk_loop" => Top(current).arg <= time

PlaceInv == ListsOnce /\ OnePlaceEach /\ IdleApart /\ SwitchInv /\ WakeInv /\ ~crashed

----------------------------------------------------------------------------
(* What a step does to the places                                          *)

\* The timer does not interrupt switch_next outside its critical section.
Undisturbed == Preemptible \cap Windows = {}

\* The step leaves frame 2 of every stack asking for what it asked.
AskKept ==
  /\ \A p \in 1..Len(stack'[current]) : p > Len(stack[current]) => stack'[current][p].pc \notin Asks
  /\ Len(stack'[current]) < Len(stack[current]) => Top(current).pc \notin Asks
  /\ Len(stack'[current]) >= Len(stack[current]) =>
       LET f == stack'[current][Len(stack[current])]
       IN  /\ f.pc \in Asks <=> Top(current).pc \in Asks
           /\ f.pc \in Asks => f.arg = Top(current).arg

LEMMA AskingStays ==
  ASSUME TypeOK, ShapeInv, OthersStay, AskKept, Len(stack'[current]) \in Nat,
         Len(stack'[current]) >= Len(stack[current]) - 1,
         NEW t \in Threads
  PROVE  /\ Asking(t)' <=> Asking(t)
         /\ Asking(t) => stack'[t][2].arg = stack[t][2].arg
<1> DEFINE n == Len(stack[current])
           m == Len(stack'[current])
<1>1. n \in Nat /\ n >= 1 /\ m \in Nat /\ m >= n - 1 /\ Top(current) = stack[current][n]
  BY StackFacts
<1>2. CASE t # current
  <2>1. stack'[t] = stack[t]
    BY <1>2 DEF OthersStay
  <2> QED
    BY <2>1 DEF Asking
<1>3. CASE t = current
  <2>1. CASE n > 2
    <3>1. 2 \in 1..(n - 1) /\ m >= 2
      BY <1>1, <2>1
    <3>2. stack'[current][2] = stack[current][2]
      BY <3>1 DEF OthersStay
    <3> QED
      BY <1>3, <2>1, <3>1, <3>2 DEF Asking
  <2>2. CASE n = 2
    <3>1. CASE m >= 2
      BY <1>1, <1>3, <2>2, <3>1 DEF Asking, AskKept
    <3>2. CASE m < 2
      BY <1>1, <1>3, <2>2, <3>2 DEF Asking, AskKept
    <3> QED
      BY <1>1, <3>1, <3>2
  <2>3. CASE n = 1
    <3>1. m >= 2 => 2 \in 1..m /\ 2 > n
      BY <1>1, <2>3
    <3> QED
      BY <1>1, <1>3, <2>3, <3>1 DEF Asking, AskKept
  <2>4. n = 1 \/ n = 2 \/ n > 2
    <3> HIDE DEF n
    <3> QED
      BY <1>1
  <2> QED
    BY <2>1, <2>2, <2>3, <2>4
<1> QED
  BY <1>2, <1>3

\* kernel_main's lowest frame goes on only when it is the top one.
LEMMA BuildingStays ==
  ASSUME TypeOK, ShapeInv, OthersStay, Top(current).pc \in Upper \/ current # Main,
         NEW t \in Threads
  PROVE  Building(t)' <=> Building(t)
<1>1. Main \in Threads /\ current \in Threads /\ Len(stack[current]) \in Nat /\ Len(stack[current]) >= 1
  BY StackFacts
<1>2. stack'[Main][1] = stack[Main][1]
  <2>1. CASE current # Main
    <3>1. stack'[Main] = stack[Main]
      BY <1>1, <2>1 DEF OthersStay
    <3> QED
      BY <3>1
  <2>2. CASE current = Main /\ Top(current).pc \in Upper
    <3>1. Len(stack[current]) # 1
      <4>1. 1 \in 1..Len(stack[current]) /\ Shaped(current, stack[current])
        BY <1>1, StackFacts
      <4>2. stack[current][1].pc \in BottomOf(current)
        BY <4>1 DEF Shaped, FrameOn
      <4> QED
        BY <1>1, <2>2, <4>2, PCsDisjoint DEF Top
    <3>2. 1 \in 1..(Len(stack[current]) - 1)
      <4> DEFINE n == Len(stack[current])
      <4>1. n \in Nat /\ n >= 1 /\ n # 1
        BY <1>1, <3>1
      <4> HIDE DEF n
      <4>2. 1 \in 1..(n - 1)
        BY <4>1
      <4> QED
        BY <4>2 DEF n
    <3> QED
      BY <2>2, <3>2 DEF OthersStay
  <2> QED
    BY <2>1, <2>2
<1> QED
  BY <1>2 DEF Building

\* kernel_main builds a thread when its lowest frame is in create_task.
LEMMA BuildingTop ==
  ASSUME TypeOK, ShapeInv, Top(current).pc \in {"create", "ct_lock", "ct_append", "ct_unlock"},
         NEW t
  PROVE  /\ current = Main /\ Len(stack[Main]) = 1 /\ Top(current) = stack[Main][1]
         /\ Building(t) <=> Top(current).pc \in {"ct_lock", "ct_append"} /\ Top(current).arg = t
<1>1. /\ Top(current).pc \in BottomOf(current) \cup Upper
      /\ Top(current).pc \notin Upper => Len(stack[current]) = 1
      /\ Top(current) = stack[current][Len(stack[current])]
  BY StackFacts
<1>2. current = Main /\ Len(stack[current]) = 1
  BY <1>1 DEF BottomOf, Upper, SleepCode, SwitchCode, WakeCode
<1> QED
  BY <1>1, <1>2 DEF Building

\* A step of the current thread that leaves the lists and the states alone.
LEMMA PlacesStay ==
  ASSUME TypeOK, ShapeInv, PlaceInv, OthersStay, AskKept,
         Len(stack'[current]) \in Nat, Len(stack'[current]) >= Len(stack[current]) - 1,
         UNCHANGED <<current, state, ready, sleepers, time, crashed, wake, lost>>,
         \A t \in Threads : Building(t)' <=> Building(t),
         Top(current)'.pc \in Leaving <=> Top(current).pc \in Leaving,
         \A t \in Threads : Chosen(t)' <=> Chosen(t),
         SwitchInv',
         Top(current)'.pc = "wk_loop" => Top(current)'.arg <= time
  PROVE  PlaceInv'
<1>1. \A t \in Threads : /\ InReady(t)' <=> InReady(t)
                         /\ OnList(t)' <=> OnList(t)
                         /\ Holds(t)' <=> Holds(t)
  BY DEF InReady, OnList, Holds
<1>2. ListsOnce'
  BY DEF PlaceInv, ListsOnce
<1>3. OnePlaceEach'
  BY <1>1 DEF PlaceInv, OnePlaceEach
<1>4. IdleApart'
  <2>1. Idle \in Threads
    BY StackFacts
  <2>2. Idle # current => Top(Idle)' = Top(Idle)
    BY <2>1 DEF OthersStay, Top
  <2> QED
    BY <1>1, <2>1, <2>2 DEF PlaceInv, IdleApart
<1>5. WakeInv'
  <2>1. \A t \in Threads : /\ Asking(t)' <=> Asking(t)
                           /\ Asking(t) => stack'[t][2].arg = stack[t][2].arg
    BY AskingStays
  <2>2. \A t \in Threads : wake'[t] <= time' \/ OnList(t)' \/ t \in lost' \/ Asking(t)'
    BY <1>1, <2>1 DEF PlaceInv, WakeInv
  <2>3. \A t \in Threads : Asking(t)' => stack'[t][2].arg = wake'[t]
    BY <2>1 DEF PlaceInv, WakeInv
  <2> QED
    BY <2>2, <2>3 DEF PlaceInv, WakeInv
<1> QED
  BY <1>2, <1>3, <1>4, <1>5 DEF PlaceInv

----------------------------------------------------------------------------
(* Steps that leave the lists and the states alone                         *)

\* A frame goes on.
LEMMA GoesPlaces ==
  ASSUME TypeOK, ShapeInv, PlaceInv, NEW a, NEW b, NEW x, Goes(a, b, x),
         UNCHANGED <<current, state, ready, sleepers, time, crashed, wake, lost>>,
         b \in Naming => state[x] # "NONE",
         a \in Upper \/ current # Main \/ \A t \in Threads : Building(t)' <=> Building(t),
         b \in Leaving <=> a \in Leaving,
         b \in {"sn_unlock", "sn_switch"} <=> a \in {"sn_unlock", "sn_switch"},
         b \in {"sn_unlock", "sn_switch"} => x = Top(current).arg,
         b \in Asks <=> a \in Asks,
         b \in Asks => x = Top(current).arg,
         SwitchKnows(b, x),
         b = "wk_loop" => x <= time
  PROVE  PlaceInv' /\ Top(current)' = Frame(b, x)
<1>1. /\ StacksInv' /\ OthersStay
      /\ Len(stack'[current]) = Len(stack[current])
      /\ Top(current)' = Frame(b, x)
  BY GoesTop
<1>2. /\ Frame(b, x).pc = b /\ Frame(b, x).arg = x /\ Top(current).pc = a
      /\ Len(stack[current]) \in Nat
  BY StackFacts DEF Frame, Goes, At
<1>3. stack'[current][Len(stack[current])] = Frame(b, x)
  BY <1>1 DEF Top
<1>4. AskKept
  BY <1>1, <1>2, <1>3 DEF AskKept
<1>5. \A t \in Threads : Building(t)' <=> Building(t)
  BY <1>1, <1>2, BuildingStays
<1>6. \A t \in Threads : Chosen(t)' <=> Chosen(t)
  BY <1>1, <1>2 DEF Chosen
<1>7. SwitchInv'
  BY <1>1, <1>2 DEF SwitchInv, SwitchKnows
<1> QED
  BY <1>1, <1>2, <1>4, <1>5, <1>6, <1>7, PlacesStay

\* create_task's frame goes on.
LEMMA BuildingGoes ==
  ASSUME TypeOK, ShapeInv, NEW a, NEW b, NEW x, Goes(a, b, x),
         current' = current,
         \A t \in Threads : state'[t] = "NONE" <=> state[t] = "NONE",
         b \in Naming => state[x] # "NONE",
         a \in {"create", "ct_lock", "ct_append", "ct_unlock"},
         NEW t
  PROVE  Building(t)' <=> b \in {"ct_lock", "ct_append"} /\ x = t
<1>1. /\ Len(stack'[current]) = Len(stack[current])
      /\ Top(current)' = Frame(b, x)
  BY GoesTop
<1>2. current = Main /\ Len(stack[Main]) = 1
  BY BuildingTop DEF Goes, At
<1>3. stack'[Main][1] = Frame(b, x)
  BY <1>1, <1>2 DEF Top
<1> QED
  BY <1>3 DEF Building, Frame

LEMMA QuietPlaces ==
  ASSUME IInv, ShapeInv, PlaceInv,
         \/ Start \/ CreateLock \/ CreateUnlock \/ SleepLock \/ SleepUnlock
         \/ SwitchLock \/ SwitchTest \/ SwitchIdleUnlock \/ SwitchUnlock
         \/ WakeLock \/ WakeDone
  PROVE  PlaceInv'
<1> USE DEF Leaving, Asks, Naming
<1>1. /\ TypeOK /\ UNCHANGED <<current, state, ready, sleepers, time, crashed, wake, lost>>
      /\ current \in Threads /\ SwitchInv
  BY StackFacts DEF IInv, PlaceInv, Start, CreateLock, CreateUnlock, SleepLock, SleepUnlock,
     SwitchLock, SwitchTest, SwitchIdleUnlock, SwitchUnlock, WakeLock, WakeDone, locks
<1>2. /\ Top(current).pc \in Naming => state[Top(current).arg] # "NONE"
      /\ state[current] \in {"READY", "RUNNING", "SLEEPING"}
  BY <1>1, StackFacts DEF ShapeInv, StacksInv, TypeOK
<1> DEFINE x == Top(current).arg
<1>3. CASE Start
  <2> DEFINE b == IF current = Idle THEN "hlt" ELSE "task"
  <2>1. Goes("start", b, NoArg) /\ Top(current).pc = "start"
    BY <1>3, QuietGoes DEF Goes, At
  <2>2. b \in {"hlt", "task"} /\ state[current] = "RUNNING"
    BY <1>1, <1>2, <2>1 DEF SwitchInv, SwitchKnows, SwitchCode
  <2> HIDE DEF b
  <2>3. SwitchKnows(b, NoArg)
    BY <2>2 DEF SwitchKnows
  <2>4. \A t \in Threads : Building(t)' <=> Building(t)
    <3>1. CASE current # Main
      <4>1. OthersStay
        BY <1>1, <2>1, <2>2, GoesTop
      <4> QED
        BY <1>1, <3>1, <4>1, BuildingStays
    <3>2. CASE current = Main
      <4>1. /\ Top(current).pc \in BottomOf(current) \cup Upper
        BY <1>1, StackFacts
      <4> QED
        BY <2>1, <3>2, <4>1, TaskingAssumption
           DEF BottomOf, Upper, SleepCode, SwitchCode, WakeCode, TaskingAssumption
    <3> QED
      BY <3>1, <3>2
  <2> QED
    BY <1>1, <2>1, <2>2, <2>3, <2>4, GoesPlaces
<1>4. CASE CreateLock
  <2>1. Goes("ct_lock", "ct_append", x) /\ Top(current).pc = "ct_lock"
    BY <1>4, QuietGoes DEF Goes, At
  <2>2. SwitchKnows("ct_append", x)
    BY <1>1, <2>1 DEF SwitchInv, SwitchKnows, SwitchCode
  <2>3. \A t \in Threads : Building(t)' <=> Building(t)
    BY <1>1, <1>2, <2>1, BuildingGoes, BuildingTop
  <2> QED
    BY <1>1, <1>2, <2>1, <2>2, <2>3, GoesPlaces
<1>5. CASE CreateUnlock
  <2>1. Goes("ct_unlock", "create", NoArg) /\ Top(current).pc = "ct_unlock"
    BY <1>5, QuietGoes DEF Goes, At
  <2>2. SwitchKnows("create", NoArg)
    BY <1>1, <2>1 DEF SwitchInv, SwitchKnows, SwitchCode
  <2>3. \A t \in Threads : Building(t)' <=> Building(t)
    BY <1>1, <1>2, <2>1, BuildingGoes, BuildingTop
  <2> QED
    BY <1>1, <1>2, <2>1, <2>2, <2>3, GoesPlaces
<1>6. CASE SleepLock
  <2>1. Goes("su_lock", "su_insert", x) /\ Top(current).pc = "su_lock"
    BY <1>6, QuietGoes DEF Goes, At
  <2>2. SwitchKnows("su_insert", x)
    BY <1>1, <2>1 DEF SwitchInv, SwitchKnows, SwitchCode
  <2> QED
    BY <1>1, <2>1, <2>2, GoesPlaces DEF Upper, SleepCode
<1>7. CASE SleepUnlock
  <2>1. Goes("su_unlock", "sn_lock", NoArg) /\ Top(current).pc = "su_unlock"
    BY <1>7, QuietGoes DEF Goes, At
  <2>2. SwitchKnows("sn_lock", NoArg)
    BY <1>1, <2>1 DEF SwitchInv, SwitchKnows, SwitchCode
  <2> QED
    BY <1>1, <2>1, <2>2, GoesPlaces DEF Upper, SleepCode
<1>8. CASE SwitchLock
  <2>1. Goes("sn_lock", "sn_test", NoArg) /\ Top(current).pc = "sn_lock"
    BY <1>8, QuietGoes DEF Goes, At
  <2>2. SwitchKnows("sn_test", NoArg)
    BY <1>1, <2>1 DEF SwitchInv, SwitchKnows, SwitchCode
  <2> QED
    BY <1>1, <2>1, <2>2, GoesPlaces DEF Upper, SwitchCode
<1>9. CASE SwitchTest
  <2>1. PICK b \in {"sn_requeue", "sn_quit", "sn_idle"} :
          /\ Goes("sn_test", b, NoArg)
          /\ b = "sn_requeue" => ready # <<>>
          /\ b = "sn_quit" => state[current] = "RUNNING"
          /\ b = "sn_idle" => state[current] # "RUNNING"
    BY <1>9, QuietGoes
  <2>2. Top(current).pc = "sn_test"
    BY <2>1 DEF Goes, At
  <2>3. SwitchKnows(b, NoArg)
    BY <1>1, <1>2, <2>1, <2>2 DEF SwitchInv, SwitchKnows, SwitchCode
  <2>4. b \notin Naming /\ b \notin Leaving /\ b \notin Asks /\ b # "wk_loop"
    BY <2>1
  <2> QED
    BY <1>1, <2>1, <2>2, <2>3, <2>4, GoesPlaces DEF Upper, SwitchCode
<1>10. CASE SwitchIdleUnlock
  <2>1. Goes("sn_idle", "sn_toidle", NoArg) /\ Top(current).pc = "sn_idle"
    BY <1>10, QuietGoes DEF Goes, At
  <2>2. SwitchKnows("sn_toidle", NoArg)
    BY <1>1, <2>1 DEF SwitchInv, SwitchKnows, SwitchCode
  <2> QED
    BY <1>1, <2>1, <2>2, GoesPlaces DEF Upper, SwitchCode
<1>11. CASE SwitchUnlock
  <2>1. Goes("sn_unlock", "sn_switch", x) /\ Top(current).pc = "sn_unlock"
    BY <1>11, QuietGoes DEF Goes, At
  <2>2. SwitchKnows("sn_switch", x)
    BY <1>1, <2>1 DEF SwitchInv, SwitchKnows, SwitchCode
  <2> QED
    BY <1>1, <1>2, <2>1, <2>2, GoesPlaces DEF Upper, SwitchCode
<1>12. CASE WakeLock
  <2>1. Goes("wk_lock", "wk_loop", time) /\ Top(current).pc = "wk_lock"
    BY <1>12, QuietGoes DEF Goes, At
  <2>2. SwitchKnows("wk_loop", time)
    BY <1>1, <2>1 DEF SwitchInv, SwitchKnows, SwitchCode
  <2>3. time <= time
    BY TaskingAssumption DEF IInv, TypeOK, TaskingAssumption
  <2> QED
    BY <1>1, <2>1, <2>2, <2>3, GoesPlaces DEF Upper, WakeCode
<1>13. CASE WakeDone
  <2>1. Goes("wk_loop", "wk_unlock", x) /\ Top(current).pc = "wk_loop"
    BY <1>13, QuietGoes DEF Goes, At
  <2>2. SwitchKnows("wk_unlock", x)
    BY <1>1, <2>1 DEF SwitchInv, SwitchKnows, SwitchCode
  <2> QED
    BY <1>1, <2>1, <2>2, GoesPlaces DEF Upper, WakeCode
<1> QED
  BY <1>3, <1>4, <1>5, <1>6, <1>7, <1>8, <1>9, <1>10, <1>11, <1>12, <1>13

----------------------------------------------------------------------------
(* Calls, returns and interrupts                                           *)

\* The states of a thread that runs its own code or the timer's.
LEMMA RunningNow ==
  ASSUME TypeOK, ShapeInv, SwitchInv,
         Top(current).pc \notin SwitchCode, Top(current).pc # "su_unlock"
  PROVE  state[current] = "RUNNING"
<1>1. current \in Threads /\ state[current] # "NONE"
  BY StackFacts DEF ShapeInv, StacksInv
<1> QED
  BY <1>1 DEF SwitchInv, SwitchKnows, TypeOK, SwitchCode, Leaving

\* The timer's handler calls switch_next.
LEMMA WakeUnlockPlaces ==
  ASSUME IInv, ShapeInv, PlaceInv, WakeUnlock
  PROVE  PlaceInv'
<1>1. /\ TypeOK /\ Top(current).pc = "wk_unlock" /\ SwitchInv
      /\ Call("iret", "sn_lock", NoArg)
      /\ UNCHANGED <<current, state, ready, sleepers, time, crashed, wake, lost>>
  BY DEF IInv, PlaceInv, WakeUnlock, EndOfInterrupt, At
<1>2. Frame("iret", NoArg) \in Frames /\ Frame("sn_lock", NoArg) \in Frames
  BY DEF Frame, Frames, PCs, Calm, NoArg
<1>3. Top(current).pc \in Upper /\ Moves(current, Top(current).pc, "iret")
  BY <1>1 DEF Moves, Upper, SleepCode, SwitchCode, WakeCode
<1>4. /\ OthersStay
      /\ Len(stack'[current]) = Len(stack[current]) + 1
      /\ stack'[current][Len(stack[current])] = Frame("iret", NoArg)
      /\ stack'[current][Len(stack[current]) + 1] = Frame("sn_lock", NoArg)
  BY <1>1, <1>2, <1>3, CallShape
<1>5. Top(current)'.pc = "sn_lock"
  BY <1>1, <1>4 DEF Top, Frame
<1> DEFINE n == Len(stack[current])
           m == Len(stack'[current])
<1>6. n \in Nat /\ m \in Nat /\ m = n + 1
  BY <1>1, <1>4, StackFacts
<1>7. AskKept
  <2>1. \A p \in 1..m : p > n => p = n + 1
    BY <1>6
  <2>2. ~(m < n) /\ m >= n
    BY <1>6
  <2>3. \A p \in 1..m : p > n => stack'[current][p].pc \notin Asks
    BY <1>4, <2>1 DEF Asks, Frame
  <2>4. stack'[current][n].pc \notin Asks /\ Top(current).pc \notin Asks
    BY <1>1, <1>4 DEF Asks, Frame
  <2> QED
    BY <2>2, <2>3, <2>4 DEF AskKept
<1>8. \A t \in Threads : Building(t)' <=> Building(t)
  BY <1>1, <1>3, <1>4, BuildingStays
<1>9. state[current] = "RUNNING"
  BY <1>1, RunningNow DEF SwitchCode
<1>10. SwitchInv'
  BY <1>1, <1>5, <1>9 DEF SwitchInv, SwitchKnows
<1>11. m >= n - 1
  BY <1>6
<1> QED
  BY <1>1, <1>4, <1>5, <1>6, <1>7, <1>8, <1>10, <1>11, PlacesStay DEF Leaving, Chosen

\* switch_next returns to its caller.
LEMMA SwitchQuitPlaces ==
  ASSUME IInv, ShapeInv, PlaceInv, SwitchQuit
  PROVE  PlaceInv'
<1>1. /\ TypeOK /\ Top(current).pc = "sn_quit" /\ SwitchInv /\ Return
      /\ UNCHANGED <<current, state, ready, sleepers, time, crashed, wake, lost>>
  BY DEF IInv, PlaceInv, SwitchQuit, At
<1>2. Top(current).pc \in Upper /\ Top(current).pc \in SwitchCode
  BY <1>1 DEF Upper, SwitchCode
<1>3. /\ OthersStay
      /\ Len(stack'[current]) = Len(stack[current]) - 1
      /\ stack'[current][Len(stack'[current])].pc \in Callers
  BY <1>1, <1>2, ReturnShape
<1>4. Top(current)'.pc \in Callers
  BY <1>1, <1>3 DEF Top
<1> DEFINE n == Len(stack[current])
           m == Len(stack'[current])
<1>5. n \in Nat /\ n >= 1 /\ m \in Nat /\ m = n - 1
  BY <1>1, <1>3, StackFacts
<1>6. AskKept
  <2>1. /\ \A p \in 1..m : ~(p > n)
        /\ m < n /\ ~(m >= n)
    BY <1>5
  <2> QED
    BY <1>1, <2>1 DEF AskKept, Asks
<1>7. \A t \in Threads : Building(t)' <=> Building(t)
  BY <1>1, <1>2, <1>3, BuildingStays
<1>8. SwitchInv'
  BY <1>1, <1>4 DEF SwitchInv, SwitchKnows, Callers, SwitchCode, Leaving
<1>9. m >= n - 1
  BY <1>5
<1> QED
  BY <1>1, <1>3, <1>4, <1>5, <1>6, <1>7, <1>8, <1>9, PlacesStay DEF Leaving, Chosen, Callers

\* iretq.
LEMMA IretPlaces ==
  ASSUME IInv, ShapeInv, PlaceInv, Undisturbed, Iret
  PROVE  PlaceInv'
<1>1. /\ TypeOK /\ Top(current).pc = "iret" /\ SwitchInv /\ Return
      /\ UNCHANGED <<current, state, ready, sleepers, time, crashed, wake, lost>>
  BY DEF IInv, PlaceInv, Iret, At
<1>2. Top(current).pc \in Upper
  BY <1>1 DEF Upper
<1>3. /\ OthersStay
      /\ Len(stack'[current]) = Len(stack[current]) - 1
      /\ stack'[current][Len(stack'[current])].pc \in Buried
  BY <1>1, <1>2, ReturnShape
<1>4. Top(current)'.pc \in Buried
  BY <1>1, <1>3 DEF Top
<1>5. Top(current)'.pc \notin Leaving \cup {"wk_loop", "su_unlock", "sn_idle", "sn_toidle", "sn_requeue"}
  BY <1>4 DEF Buried, Callers, Undisturbed, Windows, Leaving, SleepSection, SchedulerLocked
<1> DEFINE n == Len(stack[current])
           m == Len(stack'[current])
<1>6. n \in Nat /\ n >= 1 /\ m \in Nat /\ m = n - 1
  BY <1>1, <1>3, StackFacts
<1>7. AskKept
  <2>1. /\ \A p \in 1..m : ~(p > n)
        /\ m < n /\ ~(m >= n)
    BY <1>6
  <2> QED
    BY <1>1, <2>1 DEF AskKept, Asks
<1>8. \A t \in Threads : Building(t)' <=> Building(t)
  BY <1>1, <1>2, <1>3, BuildingStays
<1>9. state[current] = "RUNNING"
  BY <1>1, RunningNow DEF SwitchCode
<1>10. SwitchInv'
  BY <1>1, <1>5, <1>9 DEF SwitchInv, SwitchKnows, Leaving
<1>11. m >= n - 1
  BY <1>6
<1> QED
  BY <1>1, <1>3, <1>5, <1>6, <1>7, <1>8, <1>10, <1>11, PlacesStay DEF Leaving, Chosen

\* The timer interrupts a thread that is RUNNING and that has chosen nobody.
LEMMA InterruptPlaces ==
  ASSUME IInv, ShapeInv, PlaceInv, Undisturbed, Interrupt
  PROVE  PlaceInv'
<1>1. /\ TypeOK /\ LockInv /\ SwitchInv /\ SectionInv /\ intr /\ Top(current).pc \in Preemptible
      /\ UNCHANGED <<current, state, ready, sleepers, time, crashed, wake, lost>>
  BY DEF IInv, PlaceInv, ShapeInv, Interrupt
<1>2. Top(current).pc \notin Windows \cup SchedulerLocked \cup SleepSection
  BY <1>1 DEF Undisturbed, LockInv, SectionInv
<1>3. /\ OthersStay
      /\ Len(stack'[current]) = Len(stack[current]) + 1
      /\ stack'[current][Len(stack[current])] = Top(current)
      /\ stack'[current][Len(stack[current]) + 1] = Frame("wk_lock", NoArg)
  BY InterruptShape
<1>4. Top(current)'.pc = "wk_lock"
  BY <1>1, <1>3 DEF Top, Frame
<1> DEFINE n == Len(stack[current])
           m == Len(stack'[current])
<1>5. n \in Nat /\ n >= 1 /\ m \in Nat /\ m = n + 1
  BY <1>1, <1>3, StackFacts
<1>6. AskKept
  <2>1. \A p \in 1..m : p > n => p = n + 1
    BY <1>5
  <2>2. ~(m < n) /\ m >= n
    BY <1>5
  <2>3. \A p \in 1..m : p > n => stack'[current][p].pc \notin Asks
    BY <1>3, <2>1 DEF Asks, Frame
  <2> QED
    BY <1>3, <2>2, <2>3 DEF AskKept
<1>7. \A t \in Threads : Building(t)' <=> Building(t)
  <2>1. stack'[Main][1] = stack[Main][1]
    <3>1. CASE current # Main
      BY <1>1, <1>3, <3>1, StackFacts DEF OthersStay
    <3>2. CASE current = Main
      <4>1. 1 = n \/ 1 \in 1..(n - 1)
        <5>1. n \in Nat /\ n >= 1
          BY <1>5
        <5> HIDE DEF n
        <5> QED
          BY <5>1
      <4> QED
        BY <1>3, <3>2, <4>1 DEF OthersStay, Top
    <3> QED
      BY <3>1, <3>2
  <2> QED
    BY <2>1 DEF Building
<1>8. state[current] = "RUNNING"
  BY <1>1, <1>2, RunningNow
     DEF SwitchCode, Windows, SchedulerLocked, SleepSection, SwitchInv, SwitchKnows
<1>9. SwitchInv'
  BY <1>1, <1>4, <1>8 DEF SwitchInv, SwitchKnows
<1>10. m >= n - 1
  BY <1>5
<1>11. Top(current).pc \notin Leaving
  BY <1>2 DEF Windows, Leaving
<1> QED
  BY <1>1, <1>3, <1>4, <1>5, <1>6, <1>7, <1>9, <1>10, <1>11, PlacesStay DEF Leaving, Chosen

\* The clock runs.
LEMMA TickPlaces ==
  ASSUME IInv, ShapeInv, PlaceInv, Tick
  PROVE  PlaceInv'
<1>1. /\ TypeOK /\ time \in Nat /\ time' = time + 1 /\ current \in Threads
      /\ UNCHANGED <<current, stack, state, ready, sleepers, crashed, wake, lost>>
  BY StackFacts, TaskingAssumption DEF IInv, TypeOK, Tick, TaskingAssumption
<1>2. ListsOnce' /\ OnePlaceEach' /\ IdleApart' /\ SwitchInv'
  BY <1>1 DEF PlaceInv, ListsOnce, OnePlaceEach, IdleApart, SwitchInv, SwitchKnows, InReady, OnList,
     Building, Chosen, Holds, Top
<1>3. WakeInv'
  <2>1. \A t \in Threads : wake[t] \in Nat
    BY <1>1 DEF TypeOK
  <2>2. \A t \in Threads : wake[t] <= time => wake[t] <= time + 1
    BY <1>1, <2>1
  <2>3. \A t \in Threads : /\ OnList(t)' <=> OnList(t)
                           /\ Asking(t)' <=> Asking(t)
    BY <1>1 DEF OnList, Asking
  <2>4. Top(current).pc = "wk_loop" => Top(current).arg <= time + 1
    <3>1. Top(current).pc = "wk_loop" => Top(current).arg \in Nat /\ Top(current).arg <= time
      BY <1>1, StackFacts DEF Frames, PlaceInv, WakeInv
    <3> QED
      BY <1>1, <3>1
  <2> QED
    BY <1>1, <2>2, <2>3, <2>4 DEF PlaceInv, WakeInv, Top
<1> QED
  BY <1>1, <1>2, <1>3 DEF PlaceInv

\* sleep: the thread asks for its wake time.
LEMMA SleepPlaces ==
  ASSUME IInv, ShapeInv, PlaceInv, MainSleep \/ TaskSleep
  PROVE  PlaceInv'
<1>1. /\ TypeOK /\ time \in Nat /\ SwitchInv /\ current \in Threads
      /\ Top(current).pc \in BottomOf(current) \cup Upper
      /\ Top(current).pc \notin Upper => Len(stack[current]) = 1
      /\ Top(current) = stack[current][Len(stack[current])]
  BY StackFacts, TaskingAssumption DEF IInv, TypeOK, TaskingAssumption, PlaceInv
<1>2. PICK ret, x :
        /\ Call(ret, "su_lock", x) /\ x \in Nat
        /\ wake' = [wake EXCEPT ![current] = x]
        /\ \/ ret = "halt" /\ Top(current).pc = "create"
           \/ ret = "task" /\ Top(current).pc = "task"
  <2>1. CASE MainSleep
    <3>1. time + MainDelay \in Nat
      BY <1>1, TaskingAssumption DEF TaskingAssumption
    <3> QED
      BY <2>1, <3>1 DEF MainSleep, Sleep, At
  <2>2. CASE TaskSleep
    <3>1. PICK d \in Delays : Sleep(d, "task")
      BY <2>2 DEF TaskSleep
    <3>2. time + d \in Nat
      BY <1>1, TaskingAssumption DEF TaskingAssumption
    <3> QED
      BY <2>2, <3>1, <3>2 DEF TaskSleep, Sleep, At
  <2> QED
    BY <2>1, <2>2
<1>3. UNCHANGED <<current, state, ready, sleepers, time, crashed, lost>>
  BY DEF MainSleep, TaskSleep, Sleep
<1>4. Frame(ret, NoArg) \in Frames /\ Frame("su_lock", x) \in Frames
  BY <1>2 DEF Frame, Frames, PCs, Calm, NoArg
<1>5. /\ Moves(current, Top(current).pc, ret) /\ Len(stack[current]) = 1
      /\ Top(current).pc = "create" => current = Main
      /\ Top(current).pc # "create" => current # Main
  BY <1>1, <1>2 DEF Moves, Upper, SleepCode, SwitchCode, WakeCode, BottomOf
<1>6. /\ OthersStay
      /\ Len(stack'[current]) = 2
      /\ stack'[current][1] = Frame(ret, NoArg)
      /\ stack'[current][2] = Frame("su_lock", x)
  BY <1>1, <1>2, <1>3, <1>4, <1>5, CallShape
<1>7. Top(current)' = Frame("su_lock", x)
  BY <1>3, <1>6 DEF Top
<1>8. state[current] = "RUNNING"
  BY <1>1, <1>2, RunningNow DEF SwitchCode
<1>9. \A t \in Threads : Building(t)' <=> Building(t)
  <2>1. CASE Top(current).pc = "create"
    <3>1. ~(ret \in {"ct_lock", "ct_append"})
      BY <1>2
    <3>2. stack'[Main][1].pc = ret
      BY <1>5, <1>6, <2>1 DEF Frame
    <3> QED
      BY <1>1, <2>1, <3>1, <3>2, BuildingTop DEF Building
  <2>2. CASE Top(current).pc # "create"
    BY <1>1, <1>5, <1>6, <2>2, BuildingStays
  <2> QED
    BY <2>1, <2>2
<1>10. \A t \in Threads : /\ InReady(t)' <=> InReady(t)
                          /\ OnList(t)' <=> OnList(t)
                          /\ Chosen(t)' <=> Chosen(t)
                          /\ Holds(t)' <=> Holds(t)
  BY <1>2, <1>3, <1>7 DEF InReady, OnList, Chosen, Holds, Leaving, Frame
<1>11. ListsOnce'
  BY <1>3 DEF PlaceInv, ListsOnce
<1>12. OnePlaceEach'
  BY <1>3, <1>9, <1>10 DEF PlaceInv, OnePlaceEach
<1>13. IdleApart'
  <2>1. Idle \in Threads
    BY <1>1, StackFacts
  <2>2. Idle # current => Top(Idle)' = Top(Idle)
    BY <1>6, <2>1 DEF OthersStay, Top
  <2> QED
    BY <1>3, <1>9, <1>10, <2>1, <2>2 DEF PlaceInv, IdleApart
<1>14. SwitchInv'
  BY <1>3, <1>7, <1>8 DEF SwitchInv, SwitchKnows, Frame
<1>15. WakeInv'
  <2>1. ~OnList(current)
    BY <1>1, <1>8 DEF PlaceInv, OnePlaceEach, IdleApart
  <2>2. \A t \in Threads \ {current} : /\ wake'[t] = wake[t]
                                       /\ Asking(t)' <=> Asking(t)
                                       /\ stack'[t] = stack[t]
    BY <1>1, <1>2, <1>6 DEF OthersStay, Asking, TypeOK
  <2>3. Asking(current)' /\ stack'[current][2].arg = x /\ wake'[current] = x
    BY <1>1, <1>2, <1>3, <1>6 DEF Asking, Asks, Frame, TypeOK
  <2>4. \A t \in Threads : wake'[t] <= time' \/ OnList(t)' \/ t \in lost' \/ Asking(t)'
    BY <1>3, <1>10, <2>2, <2>3 DEF PlaceInv, WakeInv
  <2>5. \A t \in Threads : Asking(t)' => stack'[t][2].arg = wake'[t]
    BY <2>2, <2>3 DEF PlaceInv, WakeInv
  <2>6. \A i \in 1..Len(sleepers) : sleepers[i].wake_time = wake'[sleepers[i].thread]
    <3>1. \A i \in 1..Len(sleepers) : sleepers[i].thread \in Threads \ {current}
      <4>1. \A i \in 1..Len(sleepers) : sleepers[i] \in [thread : Threads, wake_time : Nat]
        BY <1>1, ElementOfSeq DEF TypeOK
      <4> QED
        BY <2>1, <4>1 DEF OnList
    <3> QED
      BY <2>2, <3>1 DEF PlaceInv, WakeInv
  <2>7. Top(current)'.pc # "wk_loop"
    BY <1>7 DEF Frame
  <2> QED
    BY <1>3, <2>4, <2>5, <2>6, <2>7 DEF WakeInv
<1> QED
  BY <1>3, <1>11, <1>12, <1>13, <1>14, <1>15 DEF PlaceInv

----------------------------------------------------------------------------
(* Steps that move a thread                                                *)

\* list_append of a thread that is not in the run queue.
LEMMA AppendedReady ==
  ASSUME ready \in Seq(Threads), NEW x \in Threads, ready' = Appended(ready, x)
  PROVE  /\ \A t \in Threads : InReady(t)' <=> InReady(t) \/ t = x
         /\ ready' # <<>>
         /\ /\ ~InReady(x)
            /\ \A i, j \in 1..Len(ready) : ready[i] = ready[j] => i = j
            => \A i, j \in 1..Len(ready') : ready'[i] = ready'[j] => i = j
<1>1. /\ Len(ready) \in Nat /\ Len(ready') = Len(ready) + 1
      /\ ready'[Len(ready) + 1] = x
      /\ \A i \in 1..Len(ready) : ready'[i] = ready[i]
      /\ ready' # <<>>
  <2>1. Append(ready, x) # <<>>
    BY Pushed
  <2> QED
    BY <2>1, AppendProperties, LenProperties DEF Appended
<1>2. \A i \in 1..Len(ready') : i \in 1..Len(ready) \/ i = Len(ready) + 1
  BY <1>1
<1>3. Len(ready) + 1 \in 1..Len(ready') /\ \A i \in 1..Len(ready) : i \in 1..Len(ready')
  BY <1>1
<1>4. \A t \in Threads : InReady(t)' <=> InReady(t) \/ t = x
  BY <1>1, <1>2, <1>3 DEF InReady
<1>5. ASSUME ~InReady(x), \A i, j \in 1..Len(ready) : ready[i] = ready[j] => i = j
      PROVE  \A i, j \in 1..Len(ready') : ready'[i] = ready'[j] => i = j
  BY <1>1, <1>2, <1>5 DEF InReady
<1> QED
  BY <1>1, <1>4, <1>5

\* What a frame that goes on does to those who ask.
LEMMA AskingGoes ==
  ASSUME TypeOK, ShapeInv, NEW a, NEW b, NEW x, Goes(a, b, x),
         current' = current,
         \A t \in Threads : state'[t] = "NONE" <=> state[t] = "NONE",
         b \in Naming => state[x] # "NONE",
         a \notin Asks, b \notin Asks
  PROVE  \A t \in Threads : /\ Asking(t)' <=> Asking(t)
                            /\ Asking(t) => stack'[t][2].arg = stack[t][2].arg
<1>1. /\ OthersStay
      /\ Len(stack'[current]) = Len(stack[current])
      /\ Top(current)' = Frame(b, x)
  BY GoesTop
<1>2. /\ Frame(b, x).pc = b /\ Top(current).pc = a
      /\ Len(stack[current]) \in Nat
  BY StackFacts DEF Frame, Goes, At
<1>3. stack'[current][Len(stack[current])] = Frame(b, x)
  BY <1>1 DEF Top
<1>4. AskKept
  BY <1>1, <1>2, <1>3 DEF AskKept
<1> QED
  BY <1>1, <1>2, <1>4, AskingStays

\* create_task builds a thread.
LEMMA CreateTaskPlaces ==
  ASSUME IInv, ShapeInv, PlaceInv, NEW t \in Tasks, CreateTask(t)
  PROVE  PlaceInv'
<1>1. /\ TypeOK /\ t \in Threads /\ Main \in Threads /\ Idle \in Threads
      /\ t # Main /\ t # Idle /\ Main # Idle
      /\ Top(current).pc = "create" /\ state[t] = "NONE"
      /\ state \in [Threads -> {"NONE", "READY", "RUNNING", "SLEEPING"}]
      /\ state' = [state EXCEPT ![t] = "READY"]
      /\ UNCHANGED <<current, ready, sleepers, time, crashed, wake, lost>>
  BY TaskingAssumption DEF IInv, TypeOK, Threads, TaskingAssumption, CreateTask, At
<1>2. /\ current = Main /\ Len(stack[Main]) = 1 /\ Len(stack'[Main]) = 1
      /\ stack'[Main][1] = Frame("ct_lock", t)
      /\ stack'[t] = <<Frame("start", NoArg)>>
      /\ \A u \in Threads \ {Main, t} : stack'[u] = stack[u]
  BY CreateTaskShape
<1>3. Top(current)' = Frame("ct_lock", t) /\ Top(current)'.pc = "ct_lock"
  BY <1>1, <1>2 DEF Top, Frame
<1>4. \A u : ~Building(u) /\ (Building(u)' <=> u = t)
  BY <1>1, <1>2, BuildingTop DEF Building, Frame
<1>5. /\ \A u \in Threads : InReady(u)' <=> InReady(u)
      /\ \A u \in Threads : OnList(u)' <=> OnList(u)
      /\ \A u \in Threads : ~Chosen(u)' /\ ~Chosen(u)
      /\ \A u \in Threads : Holds(u)' <=> Holds(u)
  BY <1>1, <1>2, <1>3 DEF InReady, OnList, Chosen, Holds, Leaving
<1>6. ListsOnce'
  BY <1>1 DEF PlaceInv, ListsOnce
<1>7. OnePlaceEach'
  <2>1. \A u \in Threads \ {Idle, t} : state'[u] = state[u]
    BY <1>1
  <2>2. state'[t] = "READY"
    BY <1>1
  <2> QED
    BY <1>1, <1>4, <1>5, <2>1, <2>2 DEF PlaceInv, OnePlaceEach
<1>8. IdleApart'
  BY <1>1, <1>2, <1>4, <1>5 DEF PlaceInv, IdleApart, Top
<1>9. SwitchInv'
  BY <1>1, <1>2, <1>3 DEF PlaceInv, SwitchInv, SwitchKnows, SwitchCode, Leaving
<1>10. WakeInv'
  <2>1. stack[t] = <<>> /\ Len(stack[t]) = 0
    BY <1>1 DEF ShapeInv, StacksInv
  <2>2. Len(stack'[t]) = 1
    BY <1>2
  <2>3. \A u \in Threads : /\ Asking(u)' <=> Asking(u)
                           /\ Asking(u) => stack'[u][2].arg = stack[u][2].arg
    BY <1>2, <2>1, <2>2 DEF Asking
  <2> QED
    BY <1>1, <1>3, <1>5, <2>3 DEF PlaceInv, WakeInv
<1> QED
  BY <1>1, <1>6, <1>7, <1>8, <1>9, <1>10 DEF PlaceInv

\* create_task appends it.
LEMMA CreateAppendPlaces ==
  ASSUME IInv, ShapeInv, PlaceInv, CreateAppend
  PROVE  PlaceInv'
<1> DEFINE x == Top(current).arg
<1>1. /\ TypeOK /\ At("ct_append") /\ Goto("ct_unlock", NoArg) /\ Top(current).pc = "ct_append"
      /\ ready' = Appended(ready, x) /\ ready \in Seq(Threads)
      /\ UNCHANGED <<current, state, sleepers, time, crashed, wake, lost>>
  BY DEF IInv, TypeOK, CreateAppend, At
<1>2. x \in Threads /\ current = Main /\ Idle \in Threads /\ Main # Idle
  BY <1>1, StackFacts, BuildingTop, TaskingAssumption DEF Frames, TaskingAssumption
<1>3. Goes("ct_append", "ct_unlock", NoArg)
  BY <1>1, <1>2, GoesOnward
     DEF Upper, SleepCode, SwitchCode, WakeCode, BottomOf, Naming, NoArg
<1>4. /\ OthersStay /\ Len(stack'[current]) = Len(stack[current])
      /\ Top(current)' = Frame("ct_unlock", NoArg)
  BY <1>1, <1>3, GoesTop DEF Naming
<1>5. \A t \in Threads : Building(t) <=> t = x
  BY <1>1, BuildingTop
<1>6. \A t \in Threads : ~Building(t)'
  BY <1>1, <1>3, BuildingGoes DEF Naming
<1>7. \A t \in Threads : /\ Asking(t)' <=> Asking(t)
                         /\ Asking(t) => stack'[t][2].arg = stack[t][2].arg
  BY <1>1, <1>3, AskingGoes DEF Asks, Naming
<1>8. x # Idle /\ ~InReady(x) /\ ~Holds(x) /\ state[x] \in {"READY", "RUNNING"}
  BY <1>2, <1>5 DEF PlaceInv, IdleApart, OnePlaceEach
<1>9. /\ \A t \in Threads : InReady(t)' <=> InReady(t) \/ t = x
      /\ \A i, j \in 1..Len(ready') : ready'[i] = ready'[j] => i = j
  BY <1>1, <1>2, <1>8, AppendedReady DEF PlaceInv, ListsOnce
<1>10. /\ \A t \in Threads : OnList(t)' <=> OnList(t)
       /\ \A t \in Threads : ~Chosen(t)' /\ ~Chosen(t)
       /\ \A t \in Threads : Holds(t)' <=> Holds(t)
  BY <1>1, <1>4 DEF OnList, Chosen, Holds, Leaving, Frame
<1>11. ListsOnce'
  BY <1>1, <1>9 DEF PlaceInv, ListsOnce
<1>12. OnePlaceEach'
  <2> SUFFICES ASSUME NEW t \in Threads \ {Idle}
               PROVE  /\ state[t] = "SLEEPING" <=> OnList(t)' \/ t \in lost
                      /\ state[t] \in {"READY", "RUNNING"} <=>
                           InReady(t)' \/ Building(t)' \/ Chosen(t)' \/ Holds(t)'
                      /\ ~(OnList(t)' /\ t \in lost)
                      /\ ~(InReady(t)' /\ Holds(t)')
                      /\ ~Building(t)' /\ ~Chosen(t)'
    BY <1>1 DEF OnePlaceEach
  <2> QED
    BY <1>5, <1>6, <1>8, <1>9, <1>10 DEF PlaceInv, OnePlaceEach
<1>13. IdleApart'
  BY <1>1, <1>2, <1>4, <1>6, <1>8, <1>9, <1>10 DEF PlaceInv, IdleApart, OthersStay, Top
<1>14. SwitchInv'
  BY <1>1, <1>4 DEF PlaceInv, SwitchInv, SwitchKnows, SwitchCode, Leaving, Frame
<1>15. WakeInv'
  BY <1>1, <1>4, <1>7, <1>10 DEF PlaceInv, WakeInv, Frame
<1> QED
  BY <1>1, <1>11, <1>12, <1>13, <1>14, <1>15 DEF PlaceInv

\* switch_next queues the thread it leaves.
LEMMA SwitchRequeuePlaces ==
  ASSUME IInv, ShapeInv, PlaceInv, SwitchRequeue
  PROVE  PlaceInv'
<1>1. /\ TypeOK /\ At("sn_requeue") /\ Goto("sn_pop", NoArg) /\ Top(current).pc = "sn_requeue"
      /\ ready \in Seq(Threads) /\ current \in Threads /\ Idle \in Threads
      /\ state \in [Threads -> {"NONE", "READY", "RUNNING", "SLEEPING"}]
      /\ UNCHANGED <<current, sleepers, time, crashed, wake, lost>>
  BY StackFacts DEF IInv, TypeOK, SwitchRequeue, At
<1>2. Goes("sn_requeue", "sn_pop", NoArg)
  BY <1>1, GoesOnward DEF SwitchCode, NoArg
<1>3. \A t \in Threads : state'[t] = "NONE" <=> state[t] = "NONE"
  BY <1>1 DEF SwitchRequeue
<1>4. /\ OthersStay /\ Len(stack'[current]) = Len(stack[current])
      /\ Top(current)' = Frame("sn_pop", NoArg)
  BY <1>1, <1>2, <1>3, GoesTop DEF Naming
<1>5. \A t \in Threads : Building(t)' <=> Building(t)
  BY <1>1, <1>4, BuildingStays DEF Upper, SwitchCode
<1>6. \A t \in Threads : /\ Asking(t)' <=> Asking(t)
                         /\ Asking(t) => stack'[t][2].arg = stack[t][2].arg
  BY <1>1, <1>2, <1>3, AskingGoes DEF Asks, Naming
<1>7. /\ \A t \in Threads : OnList(t)' <=> OnList(t)
      /\ \A t \in Threads : ~Chosen(t)' /\ ~Chosen(t)
      /\ \A t \in Threads : ~Holds(t)'
      /\ \A t \in Threads : Holds(t) <=> t = current /\ state[t] # "SLEEPING"
  BY <1>1, <1>4 DEF OnList, Chosen, Holds, Leaving, Frame
<1>8. /\ state[current] \in {"RUNNING", "SLEEPING"} /\ SwitchInv
      /\ ready # <<>> \/ (current # Idle /\ state[current] = "RUNNING")
  BY <1>1, StackFacts
     DEF PlaceInv, SwitchInv, SwitchKnows, ShapeInv, StacksInv, Leaving
<1>9. WakeInv'
  BY <1>1, <1>4, <1>6, <1>7 DEF PlaceInv, WakeInv, Frame
<1>10. CASE state[current] = "RUNNING" /\ current # Idle
  <2>1. /\ ready' = Appended(ready, current)
        /\ state' = [state EXCEPT ![current] = "READY"]
    BY <1>10 DEF SwitchRequeue
  <2>2. Holds(current) /\ ~InReady(current)
    BY <1>1, <1>7, <1>10 DEF PlaceInv, OnePlaceEach
  <2>3. /\ \A t \in Threads : InReady(t)' <=> InReady(t) \/ t = current
        /\ \A i, j \in 1..Len(ready') : ready'[i] = ready'[j] => i = j
        /\ ready' # <<>>
    BY <1>1, <2>1, <2>2, AppendedReady DEF PlaceInv, ListsOnce
  <2>4. ListsOnce'
    BY <1>1, <2>3 DEF PlaceInv, ListsOnce
  <2>5. OnePlaceEach'
    <3> SUFFICES ASSUME NEW t \in Threads \ {Idle}
                 PROVE  /\ state'[t] = "SLEEPING" <=> OnList(t)' \/ t \in lost
                        /\ state'[t] \in {"READY", "RUNNING"} <=>
                             InReady(t)' \/ Building(t)' \/ Chosen(t)' \/ Holds(t)'
                        /\ ~(OnList(t)' /\ t \in lost)
                        /\ ~(InReady(t)' /\ Building(t)')
                        /\ ~Holds(t)' /\ ~Chosen(t)'
      BY <1>1 DEF OnePlaceEach
    <3>1. state'[t] = IF t = current THEN "READY" ELSE state[t]
      BY <1>1, <2>1
    <3>2. ~Building(current) /\ ~OnList(current) /\ current \notin lost
      BY <1>1, <1>10, <2>2 DEF PlaceInv, OnePlaceEach
    <3> QED
      BY <1>5, <1>7, <2>3, <3>1, <3>2 DEF PlaceInv, OnePlaceEach
  <2>6. IdleApart'
    <3>1. state'[Idle] = state[Idle] /\ Top(Idle)' = Top(Idle)
      BY <1>1, <1>4, <1>10, <2>1 DEF OthersStay, Top
    <3> QED
      BY <1>1, <1>5, <1>7, <1>10, <2>3, <3>1 DEF PlaceInv, IdleApart
  <2>7. SwitchInv'
    <3>1. state'[current] = "READY"
      BY <1>1, <2>1
    <3> QED
      BY <1>1, <1>4, <2>3, <3>1 DEF SwitchInv, SwitchKnows, Leaving, Frame
  <2> QED
    BY <1>1, <1>9, <2>4, <2>5, <2>6, <2>7 DEF PlaceInv
<1>11. CASE ~(state[current] = "RUNNING" /\ current # Idle)
  <2>1. UNCHANGED <<state, ready>> /\ ready # <<>>
    BY <1>8, <1>11 DEF SwitchRequeue
  <2>2. /\ \A t \in Threads : InReady(t)' <=> InReady(t)
        /\ \A t \in Threads \ {Idle} : ~Holds(t)
    BY <1>7, <1>8, <1>11, <2>1 DEF InReady
  <2>3. ListsOnce'
    BY <1>1, <2>1 DEF PlaceInv, ListsOnce
  <2>4. OnePlaceEach'
    BY <1>1, <1>5, <1>7, <2>1, <2>2 DEF PlaceInv, OnePlaceEach
  <2>5. IdleApart'
    <3>1. Idle # current => Top(Idle)' = Top(Idle)
      BY <1>1, <1>4 DEF OthersStay, Top
    <3> QED
      BY <1>1, <1>5, <1>7, <2>1, <2>2, <3>1 DEF PlaceInv, IdleApart
  <2>6. SwitchInv'
    BY <1>1, <1>4, <1>8, <2>1 DEF SwitchInv, SwitchKnows, Leaving, SwitchCode, Frame
  <2> QED
    BY <1>1, <1>9, <2>1, <2>3, <2>4, <2>5, <2>6 DEF PlaceInv
<1> QED
  BY <1>10, <1>11

\* switch_next takes the first thread of the run queue.
LEMMA SwitchPopPlaces ==
  ASSUME IInv, ShapeInv, PlaceInv, SwitchPop
  PROVE  PlaceInv'
<1> DEFINE h == Head(ready)
<1>1. /\ TypeOK /\ At("sn_pop") /\ Top(current).pc = "sn_pop" /\ SwitchInv
      /\ ready \in Seq(Threads) /\ current \in Threads /\ Idle \in Threads
      /\ state \in [Threads -> {"NONE", "READY", "RUNNING", "SLEEPING"}]
      /\ UNCHANGED <<current, sleepers, time, wake, lost>>
  BY StackFacts DEF IInv, TypeOK, SwitchPop, At, PlaceInv
<1>2. ready # <<>>
  BY <1>1 DEF SwitchInv, SwitchKnows
<1>3. /\ ready' = Without(ready, 1) /\ state' = [state EXCEPT ![h] = "RUNNING"]
      /\ Goto("sn_unlock", h) /\ crashed' = crashed
  BY <1>2 DEF SwitchPop
<1>4. Len(ready) \in Nat /\ 1 \in 1..Len(ready) /\ h = ready[1]
  BY <1>1, <1>2, EmptySeq
<1>5. h \in Threads /\ state[h] # "NONE" /\ InReady(h)
  <2>1. ready[1] \in Threads
    BY <1>1, <1>4, ElementOfSeq
  <2> QED
    BY <1>4, <2>1 DEF ShapeInv, ListsInv, InReady
<1>6. h # Idle /\ state[h] \in {"READY", "RUNNING"}
  BY <1>5 DEF PlaceInv, IdleApart, OnePlaceEach
<1>7. Goes("sn_pop", "sn_unlock", h)
  BY <1>1, <1>3, <1>5, GoesOnward DEF SwitchCode
<1>8. \A t \in Threads : state'[t] = "NONE" <=> state[t] = "NONE"
  BY <1>1, <1>3, <1>5
<1>9. /\ OthersStay /\ Len(stack'[current]) = Len(stack[current])
      /\ Top(current)' = Frame("sn_unlock", h)
  BY <1>1, <1>5, <1>7, <1>8, GoesTop
<1>10. \A t \in Threads : Building(t)' <=> Building(t)
  BY <1>1, <1>9, BuildingStays DEF Upper, SwitchCode
<1>11. \A t \in Threads : /\ Asking(t)' <=> Asking(t)
                          /\ Asking(t) => stack'[t][2].arg = stack[t][2].arg
  BY <1>1, <1>5, <1>7, <1>8, AskingGoes DEF Asks
<1>12. /\ Len(ready') = Len(ready) - 1
       /\ \A i \in 1..(Len(ready) - 1) : ready'[i] = ready[i + 1]
  BY <1>1, <1>2, <1>3, WithoutFirst
<1>13. \A i \in 1..Len(ready') : i \in 1..(Len(ready) - 1) /\ i + 1 \in 1..Len(ready) /\ i + 1 # 1
  BY <1>4, <1>12
<1>14. \A t \in Threads : InReady(t)' <=> InReady(t) /\ t # h
  <2> SUFFICES ASSUME NEW t \in Threads PROVE InReady(t)' <=> InReady(t) /\ t # h
    OBVIOUS
  <2>1. ASSUME NEW i \in 1..Len(ready'), ready'[i] = t PROVE InReady(t) /\ t # h
    BY <1>4, <1>12, <1>13, <2>1 DEF InReady, PlaceInv, ListsOnce
  <2>2. ASSUME NEW i \in 1..Len(ready), ready[i] = t, t # h PROVE InReady(t)'
    <3>1. i - 1 \in 1..Len(ready') /\ i - 1 \in 1..(Len(ready) - 1) /\ (i - 1) + 1 = i
      BY <1>4, <1>12, <2>2
    <3>2. ready'[i - 1] = ready[i]
      BY <1>12, <3>1
    <3> QED
      BY <2>2, <3>1, <3>2 DEF InReady
  <2> QED
    BY <2>1, <2>2 DEF InReady
<1>15. /\ \A t \in Threads : OnList(t)' <=> OnList(t)
       /\ \A t \in Threads : ~Chosen(t) /\ (Chosen(t)' <=> t = h)
       /\ \A t \in Threads : ~Holds(t)' /\ ~Holds(t)
  BY <1>1, <1>9 DEF OnList, Chosen, Holds, Leaving, Frame
<1>16. ListsOnce'
  <2>1. \A i, j \in 1..Len(ready') : ready'[i] = ready'[j] => i = j
    <3> SUFFICES ASSUME NEW i \in 1..Len(ready'), NEW j \in 1..Len(ready'), ready'[i] = ready'[j]
                 PROVE  i = j
      OBVIOUS
    <3>1. i + 1 = j + 1
      BY <1>12, <1>13 DEF PlaceInv, ListsOnce
    <3> QED
      BY <3>1
  <2> QED
    BY <1>1, <2>1 DEF PlaceInv, ListsOnce
<1>17. OnePlaceEach'
  <2> SUFFICES ASSUME NEW t \in Threads \ {Idle}
               PROVE  /\ state'[t] = "SLEEPING" <=> OnList(t)' \/ t \in lost
                      /\ state'[t] \in {"READY", "RUNNING"} <=>
                           InReady(t)' \/ Building(t)' \/ Chosen(t)' \/ Holds(t)'
                      /\ ~(OnList(t)' /\ t \in lost)
                      /\ ~(InReady(t)' /\ Building(t)') /\ ~(InReady(t)' /\ Chosen(t)')
                      /\ ~(Building(t)' /\ Chosen(t)') /\ ~Holds(t)'
    BY <1>1 DEF OnePlaceEach
  <2>1. state'[t] = IF t = h THEN "RUNNING" ELSE state[t]
    BY <1>1, <1>3
  <2> QED
    BY <1>5, <1>6, <1>10, <1>14, <1>15, <2>1 DEF PlaceInv, OnePlaceEach
<1>18. IdleApart'
  <2>1. state'[Idle] = state[Idle]
    BY <1>1, <1>3, <1>6
  <2>2. Idle # current => Top(Idle)' = Top(Idle)
    BY <1>1, <1>9 DEF OthersStay, Top
  <2> QED
    BY <1>1, <1>6, <1>10, <1>14, <1>15, <2>1, <2>2 DEF PlaceInv, IdleApart
<1>19. SwitchInv'
  <2>1. state'[h] = "RUNNING"
    BY <1>1, <1>3, <1>5
  <2> QED
    BY <1>1, <1>9, <2>1 DEF SwitchInv, SwitchKnows, Leaving, SwitchCode, Frame
<1>20. WakeInv'
  BY <1>1, <1>9, <1>11, <1>15 DEF PlaceInv, WakeInv, Frame
<1> QED
  BY <1>3, <1>16, <1>17, <1>18, <1>19, <1>20 DEF PlaceInv

\* switch_task(next_thread).
LEMMA SwitchTaskPlaces ==
  ASSUME IInv, ShapeInv, PlaceInv, SwitchTask
  PROVE  PlaceInv'
<1> DEFINE x == Top(current).arg
<1>1. /\ TypeOK /\ Top(current).pc = "sn_switch" /\ SwitchInv /\ current' = x
      /\ current \in Threads /\ Idle \in Threads /\ x \in Threads
      /\ UNCHANGED <<state, ready, sleepers, time, crashed, wake, lost>>
  BY StackFacts DEF IInv, SwitchTask, At, PlaceInv, Frames
<1>2. /\ OthersStay
      /\ Len(stack'[current]) = Len(stack[current]) - 1
      /\ stack'[current][Len(stack'[current])].pc \in Callers
      /\ Top(current)'.pc \in Suspended
  BY SwitchTaskShape
<1>3. state[x] = "RUNNING"
  BY <1>1 DEF SwitchInv, SwitchKnows
<1>4. x # Idle
  BY <1>1 DEF PlaceInv, IdleApart, Chosen
<1> DEFINE n == Len(stack[current])
           m == Len(stack'[current])
<1>5. n \in Nat /\ n >= 1 /\ m \in Nat /\ m = n - 1
  BY <1>1, <1>2, StackFacts
<1>6. \A t \in Threads : /\ Asking(t)' <=> Asking(t)
                         /\ Asking(t) => stack'[t][2].arg = stack[t][2].arg
  <2>1. /\ \A p \in 1..m : ~(p > n)
        /\ m < n /\ ~(m >= n) /\ m >= n - 1
    BY <1>5
  <2>2. AskKept
    BY <1>1, <2>1 DEF AskKept, Asks
  <2> QED
    BY <1>1, <1>2, <1>5, <2>1, <2>2, AskingStays
<1>7. \A t \in Threads : Building(t)' <=> Building(t)
  BY <1>1, <1>2, BuildingStays DEF Upper, SwitchCode
<1>8. /\ \A t \in Threads : InReady(t)' <=> InReady(t)
      /\ \A t \in Threads : OnList(t)' <=> OnList(t)
      /\ \A t \in Threads : ~Chosen(t)' /\ (Chosen(t) <=> t = x)
      /\ \A t \in Threads : ~Holds(t) /\ (Holds(t)' <=> t = x)
  BY <1>1, <1>2, <1>3 DEF InReady, OnList, Chosen, Holds, Leaving, Suspended
<1>9. ListsOnce'
  BY <1>1 DEF PlaceInv, ListsOnce
<1>10. OnePlaceEach'
  BY <1>1, <1>7, <1>8 DEF PlaceInv, OnePlaceEach
<1>11. IdleApart'
  <2>1. Top(Idle)'.pc # "sn_requeue"
    <3>1. CASE Idle = current
      BY <1>2, <3>1 DEF Top, Callers
    <3>2. CASE Idle # current
      BY <1>1, <1>2, <3>2 DEF OthersStay, Top, PlaceInv, IdleApart
    <3> QED
      BY <3>1, <3>2
  <2> QED
    BY <1>1, <1>7, <1>8, <2>1 DEF PlaceInv, IdleApart
<1>12. SwitchInv'
  <2>1. state'[current'] = "RUNNING" /\ current' # Idle
    BY <1>1, <1>3, <1>4
  <2> QED
    BY <1>2, <2>1 DEF SwitchInv, SwitchKnows, Suspended
<1>13. WakeInv'
  BY <1>1, <1>2, <1>6, <1>8 DEF PlaceInv, WakeInv, Suspended
<1> QED
  BY <1>1, <1>9, <1>10, <1>11, <1>12, <1>13 DEF PlaceInv

\* switch_task(idle_thread).
LEMMA SwitchToIdlePlaces ==
  ASSUME IInv, ShapeInv, PlaceInv, SwitchToIdle
  PROVE  PlaceInv'
<1>1. /\ TypeOK /\ Top(current).pc = "sn_toidle" /\ SwitchInv /\ current' = Idle
      /\ current \in Threads /\ Idle \in Threads
      /\ UNCHANGED <<state, ready, sleepers, time, crashed, wake, lost>>
  BY StackFacts DEF IInv, SwitchToIdle, At, PlaceInv
<1>2. /\ OthersStay
      /\ Len(stack'[current]) = Len(stack[current])
      /\ stack'[current][Len(stack[current])] = Frame("sn_requeue", NoArg)
      /\ Top(current)'.pc \in Suspended
  BY SwitchToIdleShape
<1>3. state[current] = "SLEEPING" /\ state[Idle] = "RUNNING" /\ current # Idle
  BY <1>1 DEF SwitchInv, SwitchKnows, PlaceInv, IdleApart
<1>4. \A t \in Threads : /\ Asking(t)' <=> Asking(t)
                         /\ Asking(t) => stack'[t][2].arg = stack[t][2].arg
  <2>1. Len(stack[current]) \in Nat
    BY <1>1, StackFacts
  <2>2. AskKept
    BY <1>1, <1>2, <2>1 DEF AskKept, Asks, Frame
  <2> QED
    BY <1>1, <1>2, <2>1, <2>2, AskingStays
<1>5. \A t \in Threads : Building(t)' <=> Building(t)
  BY <1>1, <1>2, BuildingStays DEF Upper, SwitchCode
<1>6. /\ \A t \in Threads : InReady(t)' <=> InReady(t)
      /\ \A t \in Threads : OnList(t)' <=> OnList(t)
      /\ \A t \in Threads : ~Chosen(t)' /\ ~Chosen(t)
      /\ \A t \in Threads \ {Idle} : ~Holds(t)' /\ ~Holds(t)
  BY <1>1, <1>2, <1>3 DEF InReady, OnList, Chosen, Holds, Leaving, Suspended
<1>7. ListsOnce'
  BY <1>1 DEF PlaceInv, ListsOnce
<1>8. OnePlaceEach'
  BY <1>1, <1>5, <1>6 DEF PlaceInv, OnePlaceEach
<1>9. IdleApart'
  BY <1>1, <1>5, <1>6 DEF PlaceInv, IdleApart
<1>10. SwitchInv'
  <2>1. Top(current)'.pc # "sn_requeue"
    BY <1>1, <1>2, <1>3 DEF OthersStay, Top, PlaceInv, IdleApart
  <2> QED
    BY <1>1, <1>2, <1>3, <2>1 DEF SwitchInv, SwitchKnows, Suspended
<1>11. WakeInv'
  BY <1>1, <1>2, <1>4, <1>6 DEF PlaceInv, WakeInv, Suspended
<1> QED
  BY <1>1, <1>7, <1>8, <1>9, <1>10, <1>11 DEF PlaceInv

\* wakeup_sleepers moves the first sleeper to the run queue.
LEMMA WakeOnePlaces ==
  ASSUME IInv, ShapeInv, PlaceInv, WakeOne
  PROVE  PlaceInv'
<1> DEFINE S == [thread : Threads, wake_time : Nat]
           h == Head(sleepers)
           t == h.thread
<1>1. /\ TypeOK /\ Top(current).pc = "wk_loop" /\ SwitchInv
      /\ ready \in Seq(Threads) /\ sleepers \in Seq(S) /\ sleepers # <<>>
      /\ current \in Threads /\ Idle \in Threads /\ time \in Nat
      /\ state \in [Threads -> {"NONE", "READY", "RUNNING", "SLEEPING"}]
      /\ h.wake_time <= Top(current).arg
      /\ sleepers' = Without(sleepers, 1)
      /\ state' = [state EXCEPT ![t] = "RUNNING"]
      /\ ready' = Appended(ready, t)
      /\ UNCHANGED <<current, stack, time, crashed, wake, lost>>
  BY SMTT(40), StackFacts, TaskingAssumption DEF IInv, TypeOK, WakeOne, At, PlaceInv, TaskingAssumption
<1>2. Len(sleepers) \in Nat /\ 1 \in 1..Len(sleepers) /\ h = sleepers[1]
  BY <1>1, EmptySeq
<1>3. t \in Threads /\ h.wake_time \in Nat /\ OnList(t)
  <2>1. sleepers[1] \in S
    BY <1>1, <1>2, ElementOfSeq
  <2> QED
    BY <1>2, <2>1 DEF OnList
<1>4. t # Idle /\ state[t] = "SLEEPING" /\ t \notin lost
  BY <1>3 DEF PlaceInv, IdleApart, OnePlaceEach
<1>5. state[current] = "RUNNING" /\ t # current
  BY <1>1, <1>4, RunningNow DEF SwitchCode
<1>6. ~InReady(t) /\ ~Building(t) /\ ~Chosen(t) /\ ~Holds(t)
  BY <1>3, <1>4 DEF PlaceInv, OnePlaceEach
<1>7. /\ \A u \in Threads : InReady(u)' <=> InReady(u) \/ u = t
      /\ \A i, j \in 1..Len(ready') : ready'[i] = ready'[j] => i = j
      /\ ready' # <<>>
  <2>1. ready' = Appended(ready, t) /\ t \in Threads
    BY <1>1, <1>3
  <2> HIDE DEF t
  <2> QED
    BY <1>1, <1>6, <2>1, AppendedReady DEF PlaceInv, ListsOnce
<1>8. /\ Len(sleepers') = Len(sleepers) - 1
      /\ \A i \in 1..(Len(sleepers) - 1) : sleepers'[i] = sleepers[i + 1]
  BY <1>1, WithoutFirst
<1>9. \A i \in 1..Len(sleepers') :
        i \in 1..(Len(sleepers) - 1) /\ i + 1 \in 1..Len(sleepers) /\ i + 1 # 1
  BY <1>2, <1>8
<1>10. \A u \in Threads : OnList(u)' <=> OnList(u) /\ u # t
  <2> SUFFICES ASSUME NEW u \in Threads PROVE OnList(u)' <=> OnList(u) /\ u # t
    OBVIOUS
  <2>1. ASSUME NEW i \in 1..Len(sleepers'), sleepers'[i].thread = u PROVE OnList(u) /\ u # t
    <3>1. i + 1 \in 1..Len(sleepers) /\ sleepers[i + 1].thread = u /\ i + 1 # 1
      BY <1>8, <1>9, <2>1
    <3>2. u # t
      BY <1>2, <3>1 DEF PlaceInv, ListsOnce
    <3> QED
      BY <3>1, <3>2 DEF OnList
  <2>2. ASSUME NEW i \in 1..Len(sleepers), sleepers[i].thread = u, u # t PROVE OnList(u)'
    <3>1. i # 1
      BY <1>2, <2>2
    <3>2. i - 1 \in 1..Len(sleepers') /\ i - 1 \in 1..(Len(sleepers) - 1) /\ (i - 1) + 1 = i
      BY <1>2, <1>8, <3>1
    <3>3. sleepers'[i - 1] = sleepers[i]
      BY <1>8, <3>2
    <3> QED
      BY <2>2, <3>2, <3>3 DEF OnList
  <2> QED
    BY <2>1, <2>2 DEF OnList
<1>11. \A u \in Threads : state'[u] = IF u = t THEN "RUNNING" ELSE state[u]
  BY <1>1
<1>12. /\ \A u \in Threads : Building(u)' <=> Building(u)
       /\ \A u \in Threads : ~Chosen(u)' /\ ~Chosen(u)
       /\ \A u \in Threads : Holds(u)' <=> Holds(u)
       /\ \A u \in Threads : Asking(u)' <=> Asking(u)
  BY <1>1, <1>5, <1>11 DEF Building, Chosen, Holds, Asking, Top, Leaving
<1>13. ListsOnce'
  <2>1. \A i, j \in 1..Len(sleepers') : sleepers'[i].thread = sleepers'[j].thread => i = j
    <3> SUFFICES ASSUME NEW i \in 1..Len(sleepers'), NEW j \in 1..Len(sleepers'),
                        sleepers'[i].thread = sleepers'[j].thread
                 PROVE  i = j
      OBVIOUS
    <3>1. sleepers[i + 1].thread = sleepers[j + 1].thread
      BY <1>8, <1>9
    <3>2. i + 1 = j + 1
      BY <1>9, <3>1 DEF PlaceInv, ListsOnce
    <3> QED
      BY <3>2
  <2> QED
    BY <1>7, <2>1 DEF ListsOnce
<1>14. OnePlaceEach'
  <2> SUFFICES ASSUME NEW u \in Threads \ {Idle}
               PROVE  /\ state'[u] = "SLEEPING" <=> OnList(u)' \/ u \in lost
                      /\ state'[u] \in {"READY", "RUNNING"} <=>
                           InReady(u)' \/ Building(u)' \/ Chosen(u)' \/ Holds(u)'
                      /\ ~(OnList(u)' /\ u \in lost)
                      /\ ~(InReady(u)' /\ Building(u)') /\ ~(InReady(u)' /\ Holds(u)')
                      /\ ~(Building(u)' /\ Holds(u)') /\ ~Chosen(u)'
    BY <1>1 DEF OnePlaceEach
  <2> HIDE DEF t
  <2> QED
    BY <1>4, <1>6, <1>7, <1>10, <1>11, <1>12 DEF PlaceInv, OnePlaceEach
<1>15. IdleApart'
  BY <1>1, <1>4, <1>7, <1>10, <1>11, <1>12 DEF PlaceInv, IdleApart, Top
<1>16. SwitchInv'
  <2>1. state'[current] = "RUNNING"
    BY <1>1, <1>5, <1>11
  <2> QED
    BY <1>1, <2>1 DEF SwitchInv, SwitchKnows, Top
<1>17. WakeInv'
  <2>1. wake[t] <= time
    <3>1. wake[t] = h.wake_time
      BY <1>2 DEF PlaceInv, WakeInv
    <3>2. Top(current).arg \in Nat /\ Top(current).arg <= time
      BY <1>1, StackFacts DEF Frames, PlaceInv, WakeInv
    <3> QED
      BY <1>1, <1>3, <3>1, <3>2
  <2>2. \A u \in Threads : wake'[u] <= time' \/ OnList(u)' \/ u \in lost' \/ Asking(u)'
    BY <1>1, <1>10, <1>12, <2>1 DEF PlaceInv, WakeInv
  <2>3. \A u \in Threads : Asking(u)' => stack'[u][2].arg = wake'[u]
    BY <1>1, <1>12 DEF PlaceInv, WakeInv
  <2>4. \A i \in 1..Len(sleepers') : sleepers'[i].wake_time = wake'[sleepers'[i].thread]
    BY SMTT(40), <1>1, <1>8, <1>9 DEF PlaceInv, WakeInv
  <2> QED
    BY <1>1, <2>2, <2>3, <2>4 DEF PlaceInv, WakeInv, Top
<1> QED
  BY <1>1, <1>13, <1>14, <1>15, <1>16, <1>17 DEF PlaceInv

\* sleep_until's frame is the second of its thread.
LEMMA SleeperFrame ==
  ASSUME TypeOK, ShapeInv, Top(current).pc = "su_insert"
  PROVE  Len(stack[current]) = 2 /\ current # Idle
<1> DEFINE n == Len(stack[current])
<1>1. /\ n \in Nat /\ n >= 1 /\ stack[current][n].pc = "su_insert"
      /\ \A p \in 1..n : FrameOn(current, stack[current], p)
  BY StackFacts DEF Shaped
<1>2. n \in 1..n
  BY <1>1
<1>3. stack[current][n].pc \in IF n = 1 THEN BottomOf(current) ELSE Upper
  BY <1>1, <1>2 DEF FrameOn
<1>4. n # 1
  BY <1>1, <1>3 DEF BottomOf
<1>5. n - 1 \in 1..n
  <2> HIDE DEF n
  <2> QED
    BY <1>1, <1>4
<1>6. stack[current][n - 1].pc \in {"task", "halt"}
  BY <1>1, <1>2 DEF FrameOn, SleepCode
<1>7. stack[current][n - 1].pc \in IF n - 1 = 1 THEN BottomOf(current) ELSE Upper
  BY <1>1, <1>5 DEF FrameOn
<1>8. n - 1 = 1 /\ current # Idle
  <2>1. n - 1 = 1
    BY <1>6, <1>7 DEF Upper, SleepCode, SwitchCode, WakeCode
  <2> QED
    BY <1>6, <1>7, <2>1 DEF BottomOf
<1> HIDE DEF n
<1>9. n = 2
  BY <1>1, <1>8
<1> QED
  BY <1>8, <1>9 DEF n

\* sleep_until puts the current thread on the sleep list, or loses it.
LEMMA SleepInsertPlaces ==
  ASSUME IInv, ShapeInv, PlaceInv, SleepInsert
  PROVE  PlaceInv'
<1> DEFINE S == [thread : Threads, wake_time : Nat]
           w == Top(current).arg
           v == [thread |-> current, wake_time |-> w]
<1>1. /\ TypeOK /\ At("su_insert") /\ Top(current).pc = "su_insert" /\ SwitchInv
      /\ Goto("su_unlock", NoArg)
      /\ sleepers \in Seq(S) /\ current \in Threads /\ Idle \in Threads /\ w \in Nat
      /\ Top(current) = stack[current][Len(stack[current])]
      /\ state \in [Threads -> {"NONE", "READY", "RUNNING", "SLEEPING"}]
      /\ state' = [state EXCEPT ![current] = "SLEEPING"]
      /\ UNCHANGED <<current, ready, time, crashed, wake>>
  BY StackFacts DEF IInv, TypeOK, SleepInsert, At, PlaceInv, Frames
<1>2. Len(stack[current]) = 2 /\ current # Idle
  BY <1>1, SleeperFrame
<1>3. Goes("su_insert", "su_unlock", NoArg)
  BY <1>1, GoesOnward DEF NoArg
<1>4. state[current] = "RUNNING"
  BY <1>1, RunningNow DEF SwitchCode
<1>5. \A t \in Threads : state'[t] = IF t = current THEN "SLEEPING" ELSE state[t]
  BY <1>1
<1>6. \A t \in Threads : state'[t] = "NONE" <=> state[t] = "NONE"
  BY <1>4, <1>5
<1>7. /\ OthersStay /\ Len(stack'[current]) = 2
      /\ Top(current)' = Frame("su_unlock", NoArg)
  BY <1>1, <1>2, <1>3, <1>6, GoesTop DEF Naming
<1>8. stack'[current][2] = Frame("su_unlock", NoArg)
  BY <1>1, <1>7 DEF Top
<1>9. \A t \in Threads : Building(t)' <=> Building(t)
  BY <1>1, <1>7, BuildingStays DEF Upper, SleepCode
<1>10. /\ Asking(current) /\ ~Asking(current)'
       /\ wake[current] = w
       /\ \A t \in Threads \ {current} : /\ Asking(t)' <=> Asking(t)
                                         /\ stack'[t] = stack[t]
  <2>1. Asking(current)
    BY <1>1, <1>2 DEF Asking, Asks
  <2>2. ~Asking(current)'
    BY <1>1, <1>8 DEF Asking, Asks, Frame
  <2>3. wake[current] = w
    BY <1>1, <1>2, <2>1 DEF PlaceInv, WakeInv
  <2> QED
    BY <1>1, <1>7, <2>1, <2>2, <2>3 DEF OthersStay, Asking
<1>11. /\ Holds(current) /\ ~InReady(current) /\ ~Building(current) /\ ~Chosen(current)
       /\ ~OnList(current) /\ current \notin lost
  <2>1. Holds(current)
    BY <1>1, <1>4 DEF Holds, Leaving
  <2> QED
    BY <1>1, <1>2, <1>4, <2>1 DEF PlaceInv, OnePlaceEach
<1>12. /\ \A t \in Threads : InReady(t)' <=> InReady(t)
       /\ \A t \in Threads : ~Chosen(t)' /\ ~Chosen(t)
       /\ \A t \in Threads : Holds(t) <=> t = current
       /\ \A t \in Threads : ~Holds(t)'
  BY <1>1, <1>4, <1>5, <1>7 DEF InReady, Chosen, Holds, Leaving, Frame
<1>13. PICK i \in 1..(Len(sleepers) + 1) :
         /\ sleepers' = InsertedBefore(sleepers, i, v)
         /\ lost' = lost \cup {t \in {current} : NodeLost(sleepers, i)}
  BY DEF SleepInsert
\* Whichever way it goes, the sleepers are those of before and v.
<1>14. /\ \A t \in Threads : OnList(t)' \/ t \in lost' <=> OnList(t) \/ t \in lost \/ t = current
       /\ \A t \in Threads : OnList(t)' => OnList(t) \/ t = current
       /\ \A t \in Threads : t \in lost' => t \in lost \/ t = current
       /\ \A t \in Threads : ~(OnList(t) /\ t \in lost) => ~(OnList(t)' /\ t \in lost')
       /\ \A j, k \in 1..Len(sleepers') : sleepers'[j].thread = sleepers'[k].thread => j = k
       /\ \A j \in 1..Len(sleepers') : sleepers'[j].wake_time = wake[sleepers'[j].thread]
  <2>1. CASE NodeLost(sleepers, i)
    <3>1. sleepers' = sleepers /\ lost' = lost \cup {current}
      BY <1>13, <2>1 DEF InsertedBefore
    <3>2. \A t \in Threads : OnList(t)' <=> OnList(t)
      BY <3>1 DEF OnList
    <3>3. /\ \A j, k \in 1..Len(sleepers') : sleepers'[j].thread = sleepers'[k].thread => j = k
          /\ \A j \in 1..Len(sleepers') : sleepers'[j].wake_time = wake[sleepers'[j].thread]
      BY <3>1 DEF PlaceInv, ListsOnce, WakeInv
    <3> QED
      BY <1>1, <1>11, <3>1, <3>2, <3>3
  <2>2. CASE ~NodeLost(sleepers, i)
    <3>1. lost' = lost
      BY <1>13, <2>2
    <3>2. v \in S /\ v.thread = current /\ v.wake_time = w
      BY <1>1
    <3>3. Len(sleepers) \in Nat /\ \A j \in 1..Len(sleepers) : sleepers[j].thread \in Threads \ {current}
      <4>1. \A j \in 1..Len(sleepers) : sleepers[j] \in S
        BY <1>1, ElementOfSeq
      <4> QED
        BY <1>1, <1>11, <4>1 DEF OnList
    <3> HIDE DEF v
    <3>4. /\ Len(sleepers') = Len(sleepers) + 1
          /\ \A j \in 1..(Len(sleepers) + 1) :
               /\ j < i => sleepers'[j] = sleepers[j]
               /\ j = i => sleepers'[j] = v
               /\ j > i => sleepers'[j] = sleepers[j - 1]
      <4>1. sleepers \in Seq(S) /\ sleepers' = InsertedBefore(sleepers, i, v)
        BY <1>1, <1>13
      <4> HIDE DEF S
      <4> QED
        <5>1. HasAt(sleepers', sleepers, i, v)
          BY <2>2, <3>2, <4>1, InsertedAt
        <5> QED
          BY <5>1 DEF HasAt
    \* Where the element at j was before.
    <3> DEFINE old(j) == IF j < i THEN j ELSE j - 1
               new(j) == IF j < i THEN j ELSE j + 1
    <3>5. \A j \in 1..Len(sleepers') : j # i =>
            old(j) \in 1..Len(sleepers) /\ sleepers'[j] = sleepers[old(j)]
      <4> SUFFICES ASSUME NEW j \in 1..Len(sleepers'), j # i
                   PROVE  old(j) \in 1..Len(sleepers) /\ sleepers'[j] = sleepers[old(j)]
        OBVIOUS
      <4>1. j < i \/ j > i
        BY <3>3, <3>4
      <4>2. j < i => j \in 1..Len(sleepers)
        BY <3>3, <3>4
      <4>3. j > i => j - 1 \in 1..Len(sleepers) /\ ~(j < i)
        BY <3>3, <3>4
      <4> QED
        BY <3>4, <4>1, <4>2, <4>3
    <3>6. \A j \in 1..Len(sleepers) :
            new(j) \in 1..Len(sleepers') /\ sleepers'[new(j)] = sleepers[j]
      <4> SUFFICES ASSUME NEW j \in 1..Len(sleepers)
                   PROVE  new(j) \in 1..Len(sleepers') /\ sleepers'[new(j)] = sleepers[j]
        OBVIOUS
      <4>1. CASE j < i
        <5>1. j \in 1..Len(sleepers')
          BY <3>3, <3>4
        <5> QED
          BY <3>4, <4>1, <5>1
      <4>2. CASE ~(j < i)
        <5>1. j + 1 \in 1..Len(sleepers') /\ j + 1 > i /\ (j + 1) - 1 = j
          BY <3>3, <3>4, <4>2
        <5> QED
          BY <3>4, <4>2, <5>1
      <4> QED
        BY <4>1, <4>2
    <3>7. i \in 1..Len(sleepers') /\ sleepers'[i] = v
      BY <3>3, <3>4
    <3>8. \A t \in Threads : OnList(t)' <=> OnList(t) \/ t = current
      BY ZenonT(40), <3>2, <3>5, <3>6, <3>7 DEF OnList
    <3>9. \A j, k \in 1..Len(sleepers') : sleepers'[j].thread = sleepers'[k].thread => j = k
      <4> SUFFICES ASSUME NEW j \in 1..Len(sleepers'), NEW k \in 1..Len(sleepers'),
                          sleepers'[j].thread = sleepers'[k].thread
                   PROVE  j = k
        OBVIOUS
      <4>1. j = i <=> k = i
        BY <3>2, <3>3, <3>5, <3>7
      <4>2. CASE j # i /\ k # i
        <5>1. old(j) = old(k)
          <6>1. /\ old(j) \in 1..Len(sleepers) /\ old(k) \in 1..Len(sleepers)
                /\ sleepers[old(j)].thread = sleepers[old(k)].thread
            BY <3>5, <4>2
          <6> HIDE DEF old
          <6> QED
            BY <6>1 DEF PlaceInv, ListsOnce
        <5> QED
          BY <3>3, <3>4, <4>2, <5>1
      <4> QED
        BY <4>1, <4>2
    <3>10. \A j \in 1..Len(sleepers') : sleepers'[j].wake_time = wake[sleepers'[j].thread]
      <4> SUFFICES ASSUME NEW j \in 1..Len(sleepers')
                   PROVE  sleepers'[j].wake_time = wake[sleepers'[j].thread]
        OBVIOUS
      <4>1. CASE j = i
        BY <1>10, <3>2, <3>7, <4>1
      <4>2. CASE j # i
        <5>1. PICK k \in 1..Len(sleepers) : sleepers'[j] = sleepers[k]
          BY <3>5, <4>2
        <5>2. sleepers[k].wake_time = wake[sleepers[k].thread]
          BY DEF PlaceInv, WakeInv
        <5> QED
          BY <5>1, <5>2
      <4> QED
        BY <4>1, <4>2
    <3> QED
      BY <1>11, <3>1, <3>8, <3>9, <3>10
  <2> QED
    BY <2>1, <2>2
<1>15. ListsOnce'
  BY <1>1, <1>14 DEF PlaceInv, ListsOnce
<1>16. OnePlaceEach'
  <2> SUFFICES ASSUME NEW t \in Threads \ {Idle}
               PROVE  /\ state'[t] = "SLEEPING" <=> OnList(t)' \/ t \in lost'
                      /\ state'[t] \in {"READY", "RUNNING"} <=>
                           InReady(t)' \/ Building(t)' \/ Chosen(t)' \/ Holds(t)'
                      /\ ~(OnList(t)' /\ t \in lost')
                      /\ ~(InReady(t)' /\ Building(t)')
                      /\ ~Holds(t)' /\ ~Chosen(t)'
    BY DEF OnePlaceEach
  <2> QED
    BY <1>5, <1>9, <1>11, <1>12, <1>14 DEF PlaceInv, OnePlaceEach
<1>17. IdleApart'
  <2>1. state'[Idle] = state[Idle] /\ Top(Idle)' = Top(Idle)
    BY <1>1, <1>2, <1>5, <1>7 DEF OthersStay, Top
  <2> QED
    BY <1>1, <1>2, <1>9, <1>12, <1>14, <2>1 DEF PlaceInv, IdleApart
<1>18. SwitchInv'
  <2>1. state'[current] = "SLEEPING"
    BY <1>1, <1>5
  <2> QED
    BY <1>1, <1>7, <2>1 DEF SwitchInv, SwitchKnows, Frame
<1>19. WakeInv'
  <2>1. \A t \in Threads : wake'[t] <= time' \/ OnList(t)' \/ t \in lost' \/ Asking(t)'
    BY <1>1, <1>10, <1>14 DEF PlaceInv, WakeInv
  <2>2. \A t \in Threads : Asking(t)' => stack'[t][2].arg = wake'[t]
    BY <1>1, <1>10 DEF PlaceInv, WakeInv
  <2> QED
    BY <1>1, <1>7, <1>14, <2>1, <2>2 DEF WakeInv, Frame
<1> QED
  BY <1>1, <1>15, <1>16, <1>17, <1>18, <1>19 DEF PlaceInv

----------------------------------------------------------------------------
(* The theorems                                                            *)

LEMMA InitPlaces == Init => PlaceInv
<1> SUFFICES ASSUME Init PROVE PlaceInv
  OBVIOUS
<1>1. /\ Main \in Threads /\ Idle \in Threads /\ Main # Idle /\ Main \notin Tasks /\ Idle \notin Tasks
      /\ \A t \in Threads : t \in Tasks \/ t = Main \/ t = Idle
  BY TaskingAssumption DEF Threads, TaskingAssumption
<1>2. /\ current = Main /\ ready = <<>> /\ sleepers = <<>> /\ time = 0 /\ crashed = FALSE /\ lost = {}
      /\ stack = [t \in Threads |-> IF t = Main THEN <<Frame("create", NoArg)>>
                                    ELSE IF t = Idle THEN <<Frame("start", NoArg)>> ELSE <<>>]
      /\ state = [t \in Threads |-> IF t \in Tasks THEN "NONE" ELSE "RUNNING"]
      /\ wake = [t \in Threads |-> 0]
  BY DEF Init
<1>3. \A f : Len(<<f>>) = 1 /\ <<f>>[1] = f
  OBVIOUS
<1>4. /\ \A t \in Threads : Len(stack[t]) \in {0, 1}
      /\ Top(Main).pc = "create" /\ stack[Main][1].pc = "create" /\ Top(Idle).pc = "start"
  BY <1>1, <1>2, <1>3 DEF Top, Frame
<1>5. Len(ready) = 0 /\ Len(sleepers) = 0
  BY <1>2
<1>6. \A t \in Threads : /\ ~InReady(t) /\ ~OnList(t) /\ ~Building(t) /\ ~Chosen(t) /\ ~Asking(t)
                         /\ Holds(t) <=> t = Main /\ state[t] # "SLEEPING"
  BY <1>2, <1>4, <1>5 DEF InReady, OnList, Building, Chosen, Asking, Holds, Leaving
<1>7. ListsOnce
  BY <1>5 DEF ListsOnce
<1>8. OnePlaceEach
  BY <1>1, <1>2, <1>6 DEF OnePlaceEach
<1>9. IdleApart
  BY <1>1, <1>2, <1>4, <1>6 DEF IdleApart
<1>10. SwitchInv
  BY <1>1, <1>2, <1>4 DEF SwitchInv, SwitchKnows
<1>11. WakeInv
  BY <1>1, <1>2, <1>4, <1>5, <1>6 DEF WakeInv
<1> QED
  BY <1>2, <1>7, <1>8, <1>9, <1>10, <1>11 DEF PlaceInv

LEMMA NextPlaces ==
  ASSUME Undisturbed, IInv, ShapeInv, PlaceInv, [Next]_vars
  PROVE  PlaceInv'
<1>1. CASE UNCHANGED vars
  BY <1>1 DEF vars, PlaceInv, ListsOnce, OnePlaceEach, IdleApart, SwitchInv, SwitchKnows, WakeInv,
     InReady, OnList, Building, Chosen, Holds, Asking, Top
<1>2. ASSUME NEW t \in Tasks, CreateTask(t) PROVE PlaceInv'
  BY <1>2, CreateTaskPlaces
<1>3. CASE MainSleep \/ TaskSleep
  BY <1>3, SleepPlaces
<1>4. CASE SwitchQuit \/ SwitchToIdle \/ SwitchRequeue \/ SwitchPop \/ SwitchTask
  BY <1>4, SwitchQuitPlaces, SwitchToIdlePlaces, SwitchRequeuePlaces, SwitchPopPlaces, SwitchTaskPlaces
<1>5. CASE CreateAppend \/ SleepInsert \/ WakeOne \/ WakeUnlock \/ Iret
  BY <1>5, CreateAppendPlaces, SleepInsertPlaces, WakeOnePlaces, WakeUnlockPlaces, IretPlaces
<1>6. CASE Step
  BY <1>2, <1>3, <1>4, <1>5, <1>6, QuietPlaces DEF Step
<1> QED
  BY <1>1, <1>6, TickPlaces, InterruptPlaces DEF Next

\* With the timer interrupting anywhere but in those windows, every thread is
\* where its state says.
THEOREM PlaceInvariant ==
  ASSUME Undisturbed
  PROVE  Spec => [](IInv /\ ShapeInv /\ PlaceInv)
<1>1. Init => IInv /\ ShapeInv /\ PlaceInv
  BY InitIInv, InitShape, InitPlaces
<1>2. IInv /\ ShapeInv /\ PlaceInv /\ [Next]_vars => (IInv /\ ShapeInv /\ PlaceInv)'
  BY NextIInv, NextShape, NextPlaces
<1> QED
  BY <1>1, <1>2, PTL DEF Spec

\* switch_next always finds a thread to switch to.
THEOREM AlwaysAThread ==
  ASSUME Undisturbed
  PROVE  Spec => []NextThreadExists
<1>1. PlaceInv => NextThreadExists
  BY DEF PlaceInv, NextThreadExists
<1> QED
  BY <1>1, PlaceInvariant, PTL

\* A thread that is back in its own code after sleep has slept until the time
\* it asked for, and wakeup_sleepers leaves nobody behind who is due.
LEMMA OnTime == IInv /\ ShapeInv /\ PlaceInv => WokenInTime
<1> SUFFICES ASSUME IInv, ShapeInv, PlaceInv, At("task") PROVE wake[current] <= time
  BY DEF WokenInTime, NoEarlyWake, ShapeInv
<1>1. TypeOK /\ SwitchInv /\ current \in Threads /\ Top(current).pc = "task"
  BY StackFacts DEF IInv, PlaceInv, At
<1>2. Len(stack[current]) = 1
  BY <1>1, StackFacts DEF Upper, SleepCode, SwitchCode, WakeCode
<1>3. state[current] = "RUNNING"
  BY <1>1, RunningNow DEF SwitchCode
<1>4. ~OnList(current) /\ current \notin lost
  BY <1>1, <1>3 DEF PlaceInv, OnePlaceEach, IdleApart
<1>5. ~Asking(current)
  BY <1>2 DEF Asking
<1> QED
  BY <1>1, <1>4, <1>5 DEF PlaceInv, WakeInv

THEOREM SleepersOnTime ==
  ASSUME Undisturbed
  PROVE  Spec => []WokenInTime
BY OnTime, PlaceInvariant, PTL

\* A set with at most one element.
LEMMA Counted ==
  ASSUME NEW S, \A i, j \in S : i = j
  PROVE  Cardinality(S) = One(S # {})
<1>1. CASE S = {}
  BY <1>1, FS_EmptySet DEF One
<1>2. CASE S # {}
  <2>1. PICK i \in S : TRUE
    BY <1>2
  <2>2. S = {i}
    BY <2>1
  <2> QED
    BY <1>2, <2>2, FS_Singleton DEF One
<1> QED
  BY <1>1, <1>2

\* One place of five.
LEMMA OneOfFive ==
  ASSUME NEW a \in BOOLEAN, NEW b \in BOOLEAN, NEW c \in BOOLEAN, NEW d \in BOOLEAN, NEW e \in BOOLEAN,
         ~(a /\ b), ~(a /\ c), ~(a /\ d), ~(a /\ e), ~(b /\ c), ~(b /\ d), ~(b /\ e),
         ~(c /\ d), ~(c /\ e), ~(d /\ e)
  PROVE  One(a) + One(b) + One(c) + One(d) + One(e) = One(a \/ b \/ c \/ d \/ e)
BY DEF One

LEMMA Counts == IInv /\ ShapeInv /\ PlaceInv => Census
<1> SUFFICES ASSUME IInv, ShapeInv, PlaceInv, Settled
             PROVE  /\ \A t \in Threads \ {Idle} :
                         One(t = current) + One(BeingCreated(t)) + Queued(t) + Asleep(t) + One(t \in lost)
                           = One(state[t] # "NONE")
                    /\ Queued(Idle) = 0 /\ Asleep(Idle) = 0
                    /\ state[current] = "RUNNING"
                    /\ \A t \in Tasks \cup {Main} :
                         /\ state[t] = "SLEEPING" <=> Asleep(t) = 1 \/ t \in lost
                         /\ state[t] \in {"READY", "RUNNING"} /\ t # current
                              => BeingCreated(t) \/ Queued(t) = 1
  BY DEF Census
<1>1. /\ TypeOK /\ SwitchInv /\ current \in Threads /\ Idle \in Threads /\ Main \in Threads
      /\ Top(current).pc \in Calm
      /\ state \in [Threads -> {"NONE", "READY", "RUNNING", "SLEEPING"}]
  BY StackFacts DEF IInv, TypeOK, PlaceInv, Settled
<1>2. state[current] = "RUNNING"
  BY <1>1, RunningNow DEF SwitchCode, Calm
<1>3. \A t \in Threads : /\ ~Chosen(t)
                         /\ Holds(t) <=> t = current
  BY <1>1, <1>2 DEF Chosen, Holds, Leaving, Calm
<1>4. \A t \in Threads : Queued(t) = One(InReady(t))
  <2> SUFFICES ASSUME NEW t \in Threads PROVE Queued(t) = One(InReady(t))
    OBVIOUS
  <2>1. Len(ready) \in Nat /\ DOMAIN ready = 1..Len(ready)
    BY LenProperties DEF IInv, TypeOK
  <2> DEFINE S == {i \in 1..Len(ready) : ready[i] = t}
  <2>2. \A i, j \in S : i = j
    BY DEF PlaceInv, ListsOnce
  <2>3. S # {} <=> InReady(t)
    BY DEF InReady
  <2>4. Cardinality(S) = One(S # {})
    <3> HIDE DEF S
    <3> QED
      BY <2>2, Counted
  <2> QED
    BY <2>1, <2>3, <2>4 DEF Queued, One
<1>5. \A t \in Threads : Asleep(t) = One(OnList(t))
  <2> SUFFICES ASSUME NEW t \in Threads PROVE Asleep(t) = One(OnList(t))
    OBVIOUS
  <2>1. Len(sleepers) \in Nat /\ DOMAIN sleepers = 1..Len(sleepers)
    BY LenProperties DEF IInv, TypeOK
  <2> DEFINE S == {i \in 1..Len(sleepers) : sleepers[i].thread = t}
  <2>2. \A i, j \in S : i = j
    BY DEF PlaceInv, ListsOnce
  <2>3. S # {} <=> OnList(t)
    BY DEF OnList
  <2>4. Cardinality(S) = One(S # {})
    <3> HIDE DEF S
    <3> QED
      BY <2>2, Counted
  <2> QED
    BY <2>1, <2>3, <2>4 DEF Asleep, One
<1>6. \A t : BeingCreated(t) <=> Building(t)
  <2> DEFINE s == stack[Main]
  <2>1. /\ s \in Seq(Frames) /\ Len(s) \in Nat /\ DOMAIN s = 1..Len(s) /\ 1 \in 1..Len(s)
        /\ Shaped(Main, s)
    BY <1>1, EmptySeq, LenProperties DEF TypeOK, ShapeInv, StacksInv, CurrentInv
  <2>2. \A p \in 1..Len(s) : s[p].pc \in {"ct_lock", "ct_append"} => p = 1
    BY <2>1 DEF Shaped, FrameOn, Upper, SleepCode, SwitchCode, WakeCode
  <2> QED
    BY <2>1, <2>2 DEF BeingCreated, Building
<1>7. One(TRUE) = 1 /\ One(FALSE) = 0
  BY DEF One
<1>8. \A t \in Threads \ {Idle} :
        One(t = current) + One(BeingCreated(t)) + Queued(t) + Asleep(t) + One(t \in lost)
          = One(state[t] # "NONE")
  <2> SUFFICES ASSUME NEW t \in Threads \ {Idle}
               PROVE  One(t = current) + One(BeingCreated(t)) + Queued(t) + Asleep(t) + One(t \in lost)
                        = One(state[t] # "NONE")
    OBVIOUS
  <2> DEFINE a == t = current
             b == BeingCreated(t)
             c == InReady(t)
             d == OnList(t)
             e == t \in lost
  <2>1. /\ a \in BOOLEAN /\ b \in BOOLEAN /\ c \in BOOLEAN /\ d \in BOOLEAN /\ e \in BOOLEAN
    BY DEF BeingCreated, InReady, OnList
  <2>2. /\ ~(a /\ b) /\ ~(a /\ c) /\ ~(a /\ d) /\ ~(a /\ e) /\ ~(b /\ c) /\ ~(b /\ d) /\ ~(b /\ e)
        /\ ~(c /\ d) /\ ~(c /\ e) /\ ~(d /\ e)
    BY <1>2, <1>3, <1>6 DEF PlaceInv, OnePlaceEach
  <2>3. (a \/ b \/ c \/ d \/ e) <=> state[t] # "NONE"
    BY <1>1, <1>3, <1>6 DEF PlaceInv, OnePlaceEach
  <2>4. Queued(t) = One(c) /\ Asleep(t) = One(d)
    BY <1>4, <1>5
  <2> HIDE DEF a, b, c, d, e
  <2>5. One(a) + One(b) + One(c) + One(d) + One(e) = One(a \/ b \/ c \/ d \/ e)
    BY <2>1, <2>2, OneOfFive
  <2>6. One(a \/ b \/ c \/ d \/ e) = One(state[t] # "NONE")
    BY <2>3 DEF One
  <2> QED
    BY <2>4, <2>5, <2>6 DEF a, b, e
<1>9. Queued(Idle) = 0 /\ Asleep(Idle) = 0
  BY <1>1, <1>4, <1>5 DEF PlaceInv, IdleApart, One
<1>10. \A t \in Tasks \cup {Main} :
         /\ state[t] = "SLEEPING" <=> Asleep(t) = 1 \/ t \in lost
         /\ state[t] \in {"READY", "RUNNING"} /\ t # current => BeingCreated(t) \/ Queued(t) = 1
  <2> SUFFICES ASSUME NEW t \in Tasks \cup {Main}
               PROVE  /\ state[t] = "SLEEPING" <=> Asleep(t) = 1 \/ t \in lost
                      /\ state[t] \in {"READY", "RUNNING"} /\ t # current
                           => BeingCreated(t) \/ Queued(t) = 1
    OBVIOUS
  <2>1. t \in Threads \ {Idle}
    BY TaskingAssumption DEF Threads, TaskingAssumption
  <2>2. /\ Asleep(t) = 1 <=> OnList(t)
        /\ Queued(t) = 1 <=> InReady(t)
    BY <1>4, <1>5, <2>1 DEF One
  <2> QED
    BY <1>3, <1>6, <2>1, <2>2 DEF PlaceInv, OnePlaceEach
<1> QED
  BY <1>2, <1>8, <1>9, <1>10

\* While thread code runs every thread is in exactly one place, the one its
\* state says.
THEOREM CensusHolds ==
  ASSUME Undisturbed
  PROVE  Spec => []Census
BY Counts, PlaceInvariant, PTL

============================================================================
