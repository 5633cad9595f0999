------------------------------ MODULE Tasking ------------------------------
(***************************************************************************)
(* The scheduler: kernel/kernel/tasking.c with spinlock.c, the context     *)
(* switch of tasking.S, the timer interrupt (apic_timer_isr and            *)
(* update_clock) and the threads of kernel_main.                           *)
(*                                                                         *)
(* There is one CPU.  It executes the top frame of the current thread's    *)
(* stack; a frame is a pc and one argument.  An interrupt pushes a frame   *)
(* on the current stack, a function call pushes one, and switch_task       *)
(* changes which stack the CPU is on.  The interrupt flag belongs to the   *)
(* CPU: switch_task neither saves nor restores it, iretq and spin_release  *)
(* restore it.                                                             *)
(*                                                                         *)
(* A definition marked "mutant" is used by no action: it is a plausible    *)
(* mistake in the definition that follows it, kept to show that a property *)
(* notices it (README, "Mutants").                                         *)
(*                                                                         *)
(* Preemptible names the points of the code where the timer may interrupt  *)
(* (with interrupts enabled).  Task code alone gives the scheduler its     *)
(* quiet case; every point gives the code as it is.                        *)
(***************************************************************************)
EXTENDS KList, FiniteSets

CONSTANTS
  Tasks,        \* the threads kernel_main creates
  Main, Idle,   \* the thread that boots and runs kernel_main; idle_thread
  Delays,       \* the times a task may ask to sleep
  MainDelay,    \* the time kernel_main sleeps, 0xFFFFFFFF in the code
  Preemptible,  \* the pcs at which the timer interrupt is taken
  MaxTime,      \* bound of the model: the clock stops here
  MaxDepth,     \* bound of the model: frames on one stack when interrupted
  MaxQueued     \* bound of the model: entries in both queues when interrupted

Threads == Tasks \cup {Main, Idle}

\* Where interrupts are enabled and thread code, not scheduler code, runs.
Calm == {"create", "task", "halt", "hlt"}

\* All points of the code where a frame can be.
PCs == Calm \cup
  {"start", "ct_lock", "ct_append", "ct_unlock",
   "su_lock", "su_insert", "su_unlock",
   "sn_lock", "sn_test", "sn_quit", "sn_idle", "sn_toidle", "sn_requeue",
   "sn_pop", "sn_unlock", "sn_switch", "wk_lock", "wk_loop", "wk_unlock", "iret"}

\* The points of switch_next where the thread that runs may not be one that can
\* go on, and interrupts may be enabled: on the way in, when it is SLEEPING,
\* and from the release of scheduler_lock to the switch.
Windows == {"sn_lock", "sn_toidle", "sn_requeue", "sn_pop", "sn_unlock", "sn_switch"}

ASSUME TaskingAssumption ==
  /\ Main \notin Tasks /\ Idle \notin Tasks /\ Main # Idle
  /\ Delays \subseteq Nat /\ 0 \in Delays /\ MainDelay \in Nat
  /\ Preemptible \subseteq PCs
  /\ MaxTime \in Nat /\ MaxDepth \in Nat /\ MaxQueued \in Nat

NoArg == 0

VARIABLES
  current,    \* this_core->current_thread
  stack,      \* each thread's frames, the top one last
  state,      \* thread_t.state of each thread
  ready,      \* ready_list: a sequence of threads
  sleepers,   \* sleep_list: a sequence of [thread, wake_time] records
  scheduler_lock, sleep_lock,   \* [lock, rflags] records
  intr,       \* the interrupt flag of the CPU
  time,       \* get_time_from_boot()
  crashed,    \* the CPU went through a NULL thread
  wake,       \* history: the wake time each thread last asked for
  lost        \* history: the threads whose sleeper was linked nowhere

locks == <<scheduler_lock, sleep_lock>>
vars == <<current, stack, state, ready, sleepers, scheduler_lock, sleep_lock,
          intr, time, crashed, wake, lost>>

----------------------------------------------------------------------------
(* Frames                                                                  *)

Frame(pc, arg) == [pc |-> pc, arg |-> arg]
Top(t) == stack[t][Len(stack[t])]
Below(t) == SubSeq(stack[t], 1, Len(stack[t]) - 1)

\* The CPU is at pc, in the current thread.
At(pc) == ~crashed /\ stack[current] # <<>> /\ Top(current).pc = pc

\* The current frame goes on at pc; it calls, or returns.
Goto(pc, arg) == stack' = [stack EXCEPT ![current] = Append(Below(current), Frame(pc, arg))]
Call(ret, pc, arg) ==
  stack' = [stack EXCEPT ![current] = Below(current) \o <<Frame(ret, NoArg), Frame(pc, arg)>>]
Return == stack' = [stack EXCEPT ![current] = Below(current)]

----------------------------------------------------------------------------
(* Spinlocks.  A lock keeps the flags of its last acquirer.                *)

Acquire(l) == l.lock = 0
Held(flag) == [lock |-> 1, rflags |-> flag]
Free(l) == [l EXCEPT !.lock = 0]

----------------------------------------------------------------------------
(* Init: kernel_main starts, tasking_init done, interrupts enabled         *)

Init ==
  /\ current = Main
  /\ stack = [t \in Threads |->
                IF t = Main THEN <<Frame("create", NoArg)>>
                ELSE IF t = Idle THEN <<Frame("start", NoArg)>> ELSE <<>>]
  /\ state = [t \in Threads |-> IF t \in Tasks THEN "NONE" ELSE "RUNNING"]
  /\ ready = <<>> /\ sleepers = <<>>
  /\ scheduler_lock = [lock |-> 0, rflags |-> FALSE]
  /\ sleep_lock = [lock |-> 0, rflags |-> FALSE]
  /\ intr = TRUE
  /\ time = 0
  /\ crashed = FALSE
  /\ wake = [t \in Threads |-> 0]
  /\ lost = {}

----------------------------------------------------------------------------
(* Threads                                                                 *)

\* task_start: a new thread enters its function with interrupts enabled.
Start ==
  /\ At("start")
  /\ Goto(IF current = Idle THEN "hlt" ELSE "task", NoArg)
  /\ intr' = TRUE
  /\ UNCHANGED <<current, state, ready, sleepers, locks, time, crashed, wake, lost>>

\* kernel_main calls create_task; the thread's stack is built before the
\* lock is taken.
CreateTask(t) ==
  /\ At("create")
  /\ state[t] = "NONE"
  /\ state' = [state EXCEPT ![t] = "READY"]
  /\ stack' = [stack EXCEPT ![t] = <<Frame("start", NoArg)>>,
                            ![Main] = Below(Main) \o <<Frame("ct_lock", t)>>]
  /\ UNCHANGED <<current, ready, sleepers, locks, intr, time, crashed, wake, lost>>

CreateLock ==
  /\ At("ct_lock")
  /\ Acquire(scheduler_lock)
  /\ scheduler_lock' = Held(intr)
  /\ intr' = FALSE
  /\ Goto("ct_append", Top(current).arg)
  /\ UNCHANGED <<current, state, ready, sleepers, sleep_lock, time, crashed, wake, lost>>

CreateAppend ==
  /\ At("ct_append")
  /\ ready' = Appended(ready, Top(current).arg)
  /\ Goto("ct_unlock", NoArg)
  /\ UNCHANGED <<current, state, sleepers, locks, intr, time, crashed, wake, lost>>

CreateUnlock ==
  /\ At("ct_unlock")
  /\ scheduler_lock' = Free(scheduler_lock)
  /\ intr' = scheduler_lock.rflags
  /\ Goto("create", NoArg)
  /\ UNCHANGED <<current, state, ready, sleepers, sleep_lock, time, crashed, wake, lost>>

\* sleep(d): the wake time is read off the clock before the lock is taken.
Sleep(d, ret) ==
  /\ wake' = [wake EXCEPT ![current] = time + d]
  /\ Call(ret, "su_lock", time + d)
  /\ UNCHANGED <<current, state, ready, sleepers, locks, intr, time, crashed, lost>>

\* kernel_main, when all threads are created, sleeps and then halts.
MainSleep ==
  /\ At("create")
  /\ \A t \in Tasks : state[t] # "NONE"
  /\ Sleep(MainDelay, "halt")

\* A task sleeps, again and again.
TaskSleep ==
  /\ At("task")
  /\ \E d \in Delays : time + d <= MaxTime /\ Sleep(d, "task")

----------------------------------------------------------------------------
(* sleep_until                                                             *)

SleepLockOpen ==   \* mutant: spin_acquire without cli
  /\ At("su_lock")
  /\ Acquire(sleep_lock)
  /\ sleep_lock' = Held(intr)
  /\ Goto("su_insert", Top(current).arg)
  /\ UNCHANGED <<current, state, ready, sleepers, scheduler_lock, intr, time, crashed, wake, lost>>

SleepLock ==
  /\ At("su_lock")
  /\ Acquire(sleep_lock)
  /\ sleep_lock' = Held(intr)
  /\ intr' = FALSE
  /\ Goto("su_insert", Top(current).arg)
  /\ UNCHANGED <<current, state, ready, sleepers, scheduler_lock, time, crashed, wake, lost>>

IsPlaceFirst(i, w) == i = 1   \* mutant: the list is not searched
\* The place of a new sleeper: before the first that wakes later.
IsPlace(i, w) ==
  /\ i <= Len(sleepers) => sleepers[i].wake_time > w
  /\ \A j \in 1..(i - 1) : sleepers[j].wake_time <= w

SleepInsert ==
  /\ At("su_insert")
  /\ \E i \in 1..(Len(sleepers) + 1) :
       /\ IsPlace(i, Top(current).arg)
       /\ sleepers' = InsertedBefore(sleepers, i,
                        [thread |-> current, wake_time |-> Top(current).arg])
       /\ lost' = lost \cup {t \in {current} : NodeLost(sleepers, i)}
  /\ state' = [state EXCEPT ![current] = "SLEEPING"]
  /\ Goto("su_unlock", NoArg)
  /\ UNCHANGED <<current, ready, locks, intr, time, crashed, wake>>

\* The release, and the call of switch_next that ends sleep_until.
SleepUnlock ==
  /\ At("su_unlock")
  /\ sleep_lock' = Free(sleep_lock)
  /\ intr' = sleep_lock.rflags
  /\ Goto("sn_lock", NoArg)
  /\ UNCHANGED <<current, state, ready, sleepers, scheduler_lock, time, crashed, wake, lost>>

----------------------------------------------------------------------------
(* switch_next                                                             *)

SwitchLock ==
  /\ At("sn_lock")
  /\ Acquire(scheduler_lock)
  /\ scheduler_lock' = Held(intr)
  /\ intr' = FALSE
  /\ Goto("sn_test", NoArg)
  /\ UNCHANGED <<current, state, ready, sleepers, sleep_lock, time, crashed, wake, lost>>

SwitchTestOnce ==   \* mutant: an empty run queue only matters to a running thread
  /\ At("sn_test")
  /\ \/ (ready # <<>> \/ state[current] # "RUNNING") /\ Goto("sn_requeue", NoArg)
     \/ ready = <<>> /\ state[current] = "RUNNING" /\ Goto("sn_quit", NoArg)
  /\ UNCHANGED <<current, state, ready, sleepers, locks, intr, time, crashed, wake, lost>>

\* An empty run queue: go on with a running thread, or leave for the idle
\* thread.
SwitchTest ==
  /\ At("sn_test")
  /\ \/ ready # <<>> /\ Goto("sn_requeue", NoArg)
     \/ ready = <<>> /\ state[current] = "RUNNING" /\ Goto("sn_quit", NoArg)
     \/ ready = <<>> /\ state[current] # "RUNNING" /\ Goto("sn_idle", NoArg)
  /\ UNCHANGED <<current, state, ready, sleepers, locks, intr, time, crashed, wake, lost>>

SwitchQuit ==
  /\ At("sn_quit")
  /\ scheduler_lock' = Free(scheduler_lock)
  /\ intr' = scheduler_lock.rflags
  /\ Return
  /\ UNCHANGED <<current, state, ready, sleepers, sleep_lock, time, crashed, wake, lost>>

SwitchIdleUnlock ==
  /\ At("sn_idle")
  /\ scheduler_lock' = Free(scheduler_lock)
  /\ intr' = scheduler_lock.rflags
  /\ Goto("sn_toidle", NoArg)
  /\ UNCHANGED <<current, state, ready, sleepers, sleep_lock, time, crashed, wake, lost>>

\* switch_task(idle_thread).  When the thread is switched to again it goes on
\* behind the if, without the lock.
SwitchToIdle ==
  /\ At("sn_toidle")
  /\ Goto("sn_requeue", NoArg)
  /\ current' = Idle
  /\ UNCHANGED <<state, ready, sleepers, locks, intr, time, crashed, wake, lost>>

SwitchRequeueAny ==   \* mutant: the thread is queued whatever its state
  /\ At("sn_requeue")
  /\ state' = [state EXCEPT ![current] = "READY"]
  /\ ready' = Appended(ready, current)
  /\ Goto("sn_pop", NoArg)
  /\ UNCHANGED <<current, sleepers, locks, intr, time, crashed, wake, lost>>

SwitchRequeue ==
  /\ At("sn_requeue")
  /\ IF state[current] = "RUNNING" /\ current # Idle
     THEN /\ state' = [state EXCEPT ![current] = "READY"]
          /\ ready' = Appended(ready, current)
     ELSE UNCHANGED <<state, ready>>
  /\ Goto("sn_pop", NoArg)
  /\ UNCHANGED <<current, sleepers, locks, intr, time, crashed, wake, lost>>

\* list_pop_front of an empty list returns NULL, and switch_task(NULL) takes
\* its stack from address 0: the machine is lost.
SwitchPop ==
  /\ At("sn_pop")
  /\ \/ /\ ready = <<>>
        /\ crashed' = TRUE
        /\ UNCHANGED <<stack, state, ready>>
     \/ /\ ready # <<>>
        /\ ready' = Without(ready, 1)
        /\ state' = [state EXCEPT ![Head(ready)] = "RUNNING"]
        /\ Goto("sn_unlock", Head(ready))
        /\ UNCHANGED crashed
  /\ UNCHANGED <<current, sleepers, locks, intr, time, wake, lost>>

SwitchUnlock ==
  /\ At("sn_unlock")
  /\ scheduler_lock' = Free(scheduler_lock)
  /\ intr' = scheduler_lock.rflags
  /\ Goto("sn_switch", Top(current).arg)
  /\ UNCHANGED <<current, state, ready, sleepers, sleep_lock, time, crashed, wake, lost>>

\* switch_task(next_thread); switched to again, the thread returns from
\* switch_next.
SwitchTask ==
  /\ At("sn_switch")
  /\ current' = Top(current).arg
  /\ Return
  /\ UNCHANGED <<state, ready, sleepers, locks, intr, time, crashed, wake, lost>>

----------------------------------------------------------------------------
(* The timer                                                               *)

\* The clock of get_time_from_boot runs on its own.
Tick ==
  /\ ~crashed
  /\ time < MaxTime
  /\ time' = time + 1
  /\ UNCHANGED <<current, stack, state, ready, sleepers, locks, intr, crashed, wake, lost>>

\* The timer interrupt is taken: the interrupt gate disables interrupts.
Interrupt ==
  /\ ~crashed
  /\ intr
  /\ Top(current).pc \in Preemptible
  /\ Len(stack[current]) < MaxDepth
  /\ Len(ready) + Len(sleepers) <= MaxQueued
  /\ stack' = [stack EXCEPT ![current] = Append(@, Frame("wk_lock", NoArg))]
  /\ intr' = FALSE
  /\ UNCHANGED <<current, state, ready, sleepers, locks, time, crashed, wake, lost>>

\* wakeup_sleepers takes its lock and reads the clock.
WakeLock ==
  /\ At("wk_lock")
  /\ Acquire(sleep_lock)
  /\ sleep_lock' = Held(intr)
  /\ intr' = FALSE
  /\ Goto("wk_loop", time)
  /\ UNCHANGED <<current, state, ready, sleepers, scheduler_lock, time, crashed, wake, lost>>

WakeOneEarly ==   \* mutant: the wake time is not compared
  /\ At("wk_loop")
  /\ sleepers # <<>>
  /\ Acquire(scheduler_lock)
  /\ scheduler_lock' = Free(Held(intr))
  /\ sleepers' = Without(sleepers, 1)
  /\ state' = [state EXCEPT ![Head(sleepers).thread] = "RUNNING"]
  /\ ready' = Appended(ready, Head(sleepers).thread)
  /\ UNCHANGED <<current, stack, sleep_lock, intr, time, crashed, wake, lost>>

WakeOneDropped ==   \* mutant: the thread is not appended to the run queue
  /\ At("wk_loop")
  /\ sleepers # <<>>
  /\ Head(sleepers).wake_time <= Top(current).arg
  /\ Acquire(scheduler_lock)
  /\ scheduler_lock' = Free(Held(intr))
  /\ sleepers' = Without(sleepers, 1)
  /\ state' = [state EXCEPT ![Head(sleepers).thread] = "RUNNING"]
  /\ UNCHANGED <<current, stack, ready, sleep_lock, intr, time, crashed, wake, lost>>

\* One turn of its loop: the first sleeper's time has come.  Its thread is
\* appended to the run queue under scheduler_lock, which keeps the flags of
\* the interrupt handler.
WakeOne ==
  /\ At("wk_loop")
  /\ sleepers # <<>>
  /\ Head(sleepers).wake_time <= Top(current).arg
  /\ Acquire(scheduler_lock)
  /\ scheduler_lock' = Free(Held(intr))
  /\ sleepers' = Without(sleepers, 1)
  /\ state' = [state EXCEPT ![Head(sleepers).thread] = "RUNNING"]
  /\ ready' = Appended(ready, Head(sleepers).thread)
  /\ UNCHANGED <<current, stack, sleep_lock, intr, time, crashed, wake, lost>>

WakeDone ==
  /\ At("wk_loop")
  /\ sleepers # <<>> => Head(sleepers).wake_time > Top(current).arg
  /\ Goto("wk_unlock", Top(current).arg)
  /\ UNCHANGED <<current, state, ready, sleepers, locks, intr, time, crashed, wake, lost>>

\* apic_timer_isr, when wakeup_sleepers has returned: it acknowledges the
\* interrupt and calls switch_next.
EndOfInterrupt == Call("iret", "sn_lock", NoArg)

WakeUnlock ==
  /\ At("wk_unlock")
  /\ sleep_lock' = Free(sleep_lock)
  /\ intr' = sleep_lock.rflags
  /\ EndOfInterrupt
  /\ UNCHANGED <<current, state, ready, sleepers, scheduler_lock, time, crashed, wake, lost>>

IretMasked ==   \* mutant: a return that does not restore the flags
  /\ At("iret")
  /\ Return
  /\ UNCHANGED <<current, state, ready, sleepers, locks, intr, time, crashed, wake, lost>>

\* iretq: back to where the interrupt came, with interrupts enabled as they
\* were there.
Iret ==
  /\ At("iret")
  /\ Return
  /\ intr' = TRUE
  /\ UNCHANGED <<current, state, ready, sleepers, locks, time, crashed, wake, lost>>

----------------------------------------------------------------------------
(* The specification                                                       *)

\* What the CPU does next, the interrupt apart.
Step ==
  \/ Start
  \/ \E t \in Tasks : CreateTask(t)
  \/ CreateLock \/ CreateAppend \/ CreateUnlock
  \/ MainSleep \/ TaskSleep
  \/ SleepLock \/ SleepInsert \/ SleepUnlock
  \/ SwitchLock \/ SwitchTest \/ SwitchQuit \/ SwitchIdleUnlock \/ SwitchToIdle
  \/ SwitchRequeue \/ SwitchPop \/ SwitchUnlock \/ SwitchTask
  \/ WakeLock \/ WakeOne \/ WakeDone \/ WakeUnlock \/ Iret

Next == Step \/ Tick \/ Interrupt

Spec == Init /\ [][Next]_vars

\* The CPU never stops for ever before an instruction it can execute, the
\* clock runs, the periodic timer interrupts a CPU that lets it, and a task
\* gets on between interrupts: a period of the timer is long against a call.
Fairness ==
  /\ WF_vars(Step)
  /\ WF_vars(Tick)
  /\ WF_vars(Interrupt)
  /\ SF_vars(TaskSleep)
  /\ SF_vars(MainSleep)
  /\ SF_vars(\E t \in Tasks : CreateTask(t))

FairSpec == Spec /\ Fairness

----------------------------------------------------------------------------
(* Properties                                                              *)

\* The argument of a frame: a thread where the code holds a thread_t*, a
\* time where it holds a wake time or the clock.
Frames ==
  {f \in [pc : PCs, arg : Nat \cup Threads] :
     /\ f.pc \in {"ct_lock", "ct_append", "sn_unlock", "sn_switch"} => f.arg \in Threads
     /\ f.pc \in {"su_lock", "su_insert", "wk_loop", "wk_unlock"} => f.arg \in Nat}

TypeOK ==
  /\ current \in Threads
  /\ stack \in [Threads -> Seq(Frames)]
  /\ state \in [Threads -> {"NONE", "READY", "RUNNING", "SLEEPING"}]
  /\ ready \in Seq(Threads)
  /\ sleepers \in Seq([thread : Threads, wake_time : Nat])
  /\ scheduler_lock \in [lock : {0, 1}, rflags : BOOLEAN]
  /\ sleep_lock \in [lock : {0, 1}, rflags : BOOLEAN]
  /\ intr \in BOOLEAN /\ time \in 0..MaxTime /\ crashed \in BOOLEAN
  /\ wake \in [Threads -> Nat] /\ lost \subseteq Threads

Settled == ~crashed /\ Top(current).pc \in Calm
Queued(t) == Cardinality({i \in DOMAIN ready : ready[i] = t})
Asleep(t) == Cardinality({i \in DOMAIN sleepers : sleepers[i].thread = t})
One(p) == IF p THEN 1 ELSE 0

\* create_task has built t and has not appended it yet.
BeingCreated(t) ==
  \E p \in DOMAIN stack[Main] :
    stack[Main][p].pc \in {"ct_lock", "ct_append"} /\ stack[Main][p].arg = t

\* While thread code runs, every thread there is is in exactly one place: on
\* the CPU, in create_task's hands, once in the run queue, once on the sleep
\* list, or among those the sleep list has lost, and the idle thread is in no
\* list.  Its state says so: the sleeping ones are SLEEPING, one that is
\* ready, or marked RUNNING by wakeup_sleepers and not on the CPU, is in the
\* run queue once create_task is done with it.
Census ==
  Settled =>
    /\ \A t \in Threads \ {Idle} :
         One(t = current) + One(BeingCreated(t)) + Queued(t) + Asleep(t) + One(t \in lost)
           = One(state[t] # "NONE")
    /\ Queued(Idle) = 0 /\ Asleep(Idle) = 0
    /\ state[current] = "RUNNING"
    /\ \A t \in Tasks \cup {Main} :
         /\ state[t] = "SLEEPING" <=> Asleep(t) = 1 \/ t \in lost
         /\ state[t] \in {"READY", "RUNNING"} /\ t # current => BeingCreated(t) \/ Queued(t) = 1

\* The sleep list is in the order of wake times; wakeup_sleepers stops at the
\* first that is not due.
SleepersInOrder ==
  \A i, j \in DOMAIN sleepers : i < j => sleepers[i].wake_time <= sleepers[j].wake_time

\* wakeup_sleepers leaves nobody on the list whose time has come.
NoneOverdue ==
  At("wk_unlock") => \A i \in DOMAIN sleepers : sleepers[i].wake_time > Top(current).arg

\* "Wakes up sleeping threads if their wake time has passed." (tasking.c:156)
\* When wakeup_sleepers is done, no thread still sleeps whose time has come.
WakesAllDue ==
  At("wk_unlock") =>
    \A t \in Threads : state[t] = "SLEEPING" => wake[t] > Top(current).arg

\* "Sleep until a given time." (tasking.c:113)  A task that has called
\* sleep is not back in its own code before the time it asked for.
NoEarlyWake == At("task") => wake[current] <= time

\* The clock is read once, the list changes as it is walked and a woken thread
\* waits for its turn: still those on the list are woken neither early nor late.
WokenInTime == NoEarlyWake /\ NoneOverdue

\* "Switches to the next thread in the run queue." (tasking.c:43)  There is a
\* thread to switch to.
NextThreadExists == ~crashed

\* The CPU never reaches spin_acquire of a lock that is taken: nobody else
\* could release it.
NeverSpins ==
  /\ At("su_lock") \/ At("wk_lock") => sleep_lock.lock = 0
  /\ At("sn_lock") \/ At("ct_lock") \/ At("wk_loop") => scheduler_lock.lock = 0

\* The idle thread waits with interrupts enabled: else nothing ever runs.
IdleWakeable == At("hlt") => intr

\* A task on the sleep list whose time comes within the bound of the clock
\* gets back to its own code.
SleeperRuns ==
  \A t \in Tasks :
    (\E i \in DOMAIN sleepers : sleepers[i].thread = t /\ sleepers[i].wake_time <= MaxTime)
      ~> (current = t /\ At("task"))

\* A task in the run queue gets the CPU.
ReadyRuns == \A t \in Tasks : Queued(t) > 0 ~> (current = t /\ At("task"))

\* No task starves, be it queued or asleep, while the others go on sleeping
\* and the timer interrupts them.
EveryoneRuns == SleeperRuns /\ ReadyRuns

============================================================================
