----------------------------- MODULE Interrupts -----------------------------
(***************************************************************************)
(* The way from the reset of the interrupt controllers to the timer that   *)
(* drives the scheduler: entry.S and arch_main with idt.c, exception.c and *)
(* isr.S, apic.c, pit.c and the calibration of time.c.                     *)
(*                                                                         *)
(* The boot code is one thread; a timer interrupts it.  Two sources, the   *)
(* PIT through the I/O APIC and the timer of the local APIC, use the same  *)
(* vector one after the other.  The devices are external: what they do is  *)
(* what their data sheets say of the registers the code writes.            *)
(*                                                                         *)
(* Time passes in units of the TSC.  Only intervals are kept, so that the  *)
(* states are finitely many however long the machine runs.  Tick stops     *)
(* when the CPU is due to take a step: Lag bounds the time a step of the   *)
(* model, a few instructions, may take.  arch_main as it is ends in a loop *)
(* of hlt in front of apic_timer_init; the model takes the code behind it, *)
(* as Tasking does.                                                        *)
(***************************************************************************)
EXTENDS Integers, FiniteSets

CONSTANTS
  Period,   \* TSC units in 10 ms, which is one period of the PIT at 100 Hz
  Lag,      \* the units that may pass between two steps of the CPU
  FirmwareGap,   \* the shortest period the firmware may have left in the PIT
  Rate      \* timer interrupts in 10 ms: freq / 100

ASSUME InterruptsAssumption ==
  /\ Period \in Nat \ {0} /\ Lag \in Nat \ {0} /\ Rate \in Nat \ {0} /\ FirmwareGap \in Nat

\* The sources of interrupts and the vectors they are sent to.  irq0 is the
\* PIT through the PIC, as disable_pic maps it.
PIT_INTERRUPT == 33
APIC_TMR_INT == 33
IRQ0_INT == 32
Sources == {"irq0", "pit", "timer"}
VectorOf(s) ==
  CASE s = "irq0" -> IRQ0_INT [] s = "pit" -> PIT_INTERRUPT [] s = "timer" -> APIC_TMR_INT

VARIABLES
  pc,         \* where the boot thread is
  intr,       \* the interrupt flag of the CPU
  handlers,   \* the table of exception.c, the two vectors of devices
  isr,        \* where the interrupt handler is, or "none"
  serving,    \* history: the sources of the interrupt being handled
  threads,    \* tasking_init is done: switch_next finds its current thread
  ticks, pit_ticks,   \* the counter of pit.c; clock_init's copy of it
  pic_masked, \* the PIC lets nothing through
  irq_masked, \* so does the I/O APIC's entry of the PIT
  requests,   \* the sources with an interrupt pending
  in_service, \* the local APIC waits for the end of an interrupt
  pit_mode, pit_left, \* the PIT: who set it, and the units to its next tick
  lvt_masked, count,  \* the APIC's timer: its entry, and the units to its next interrupt
  lag,        \* units since the last step of the CPU
  since,      \* TSC: units since the mark of the measurement that runs
  elapsed,    \* units the APIC's timer counted down since it was set
  tsc_10ms, apic_10ms   \* what was measured: tsc_freq / 100, apic_freq / 100

controllers == <<pic_masked, irq_masked>>
pit == <<pit_mode, pit_left>>
timer == <<lvt_masked, count>>
measures == <<since, elapsed, tsc_10ms, apic_10ms>>
vars == <<pc, intr, handlers, isr, serving, threads, ticks, pit_ticks, controllers,
          requests, in_service, pit, timer, lag, measures>>

Off == 0   \* a timer with the initial count 0 stands still

\* entry.S has built the table of gates: all devices' vectors lead to
\* isr_handler, which finds no handler.  The firmware has left the PIT and
\* the PIC running, with interrupts disabled.
Init ==
  /\ pc = "apic_init"
  /\ intr = FALSE
  /\ handlers = [v \in {32, 33} |-> "unhandled"]
  /\ isr = "none" /\ serving = {}
  /\ threads = FALSE
  /\ ticks = 0 /\ pit_ticks = 0
  /\ pic_masked = FALSE /\ irq_masked = TRUE
  /\ requests = {} /\ in_service = FALSE
  /\ pit_mode = "firmware" /\ pit_left = 0
  /\ lvt_masked = TRUE /\ count = Off
  /\ lag = 0 /\ since = 0 /\ elapsed = 0 /\ tsc_10ms = 0 /\ apic_10ms = 0

----------------------------------------------------------------------------
(* Interrupts and the CPU                                                  *)

\* The local APIC holds back what it has while one is in service; the PIC is
\* past its reach.
Deliverable == {s \in requests : s = "irq0" \/ ~in_service}

\* isr_handler calls what is registered, or stops the machine.
Dispatch(v) == isr' = handlers[v]

\* The gate disables interrupts and leads to the stub of the vector, and that
\* to isr_handler.  Sources of one vector are one interrupt.
Deliver ==
  /\ intr
  /\ \E s \in Deliverable :
       LET together == {r \in Deliverable : VectorOf(r) = VectorOf(s)}
       IN /\ Dispatch(VectorOf(s))
          /\ serving' = together
          /\ requests' = requests \ together
          /\ in_service' = (in_service \/ s # "irq0")
  /\ intr' = FALSE
  /\ lag' = 0
  /\ UNCHANGED <<pc, handlers, threads, ticks, pit_ticks, controllers, pit, timer, measures>>

\* The handler is at h and goes on at g.
Handler(h, g) ==
  /\ isr = h
  /\ isr' = g
  /\ lag' = 0
  /\ UNCHANGED <<pc, handlers, serving, threads, pit_ticks, controllers, requests, pit,
                 timer, measures>>

\* pit_isr, and the return to the thread.
PitCount == Handler("pit_isr", "pit_eoi") /\ ticks' = ticks + 1 /\ UNCHANGED <<intr, in_service>>
PitEoi ==
  /\ Handler("pit_eoi", "none")
  /\ in_service' = FALSE
  /\ intr' = TRUE
  /\ UNCHANGED ticks

\* apic_timer_isr: update_clock, the end of the interrupt, and switch_next.
TimerWake ==
  Handler("apic_timer_isr", "tmr_eoi") /\ UNCHANGED <<intr, in_service, ticks>>
TimerEoiForgotten ==   \* mutant: switch_next without apic_eoi before it
  Handler("tmr_eoi", "tmr_switch") /\ UNCHANGED <<intr, in_service, ticks>>
TimerEoi ==
  Handler("tmr_eoi", "tmr_switch") /\ in_service' = FALSE /\ UNCHANGED <<intr, ticks>>
\* switch_next goes on in some thread.  switch_task leaves the interrupt flag as
\* it is, disabled here: one that the timer interrupted, or that starts, goes on
\* through iretq and enables interrupts; one that left by sleeping does not.
TimerSwitch ==
  /\ Handler("tmr_switch", "none")
  /\ intr' \in BOOLEAN
  /\ UNCHANGED <<in_service, ticks>>

\* A step of the boot thread: no interrupt is being handled, and none comes
\* before the next instruction.
At(here, next) ==
  /\ pc = here
  /\ isr = "none"
  /\ ~(intr /\ Deliverable # {})
  /\ pc' = next
  /\ lag' = 0
  /\ UNCHANGED <<isr, serving, in_service, ticks>>

----------------------------------------------------------------------------
(* arch_main up to clock_init                                              *)

\* A PIC that is initialised forgets what it had, and its mask keeps the rest
\* out.
DisablePic ==
  /\ pic_masked' = TRUE
  /\ requests' = requests \ {"irq0"}

ApicInit ==
  /\ At("apic_init", "enable_interrupts")
  /\ DisablePic
  /\ UNCHANGED <<intr, handlers, threads, pit_ticks, irq_masked, pit, timer, measures>>

EnableInterrupts ==
  /\ At("enable_interrupts", "pit_register")
  /\ intr' = TRUE
  /\ UNCHANGED <<handlers, threads, pit_ticks, controllers, requests, pit, timer, measures>>

----------------------------------------------------------------------------
(* pit_init and pit_stop                                                   *)

PitRegister ==
  /\ At("pit_register", "pit_unmask")
  /\ handlers' = [handlers EXCEPT ![PIT_INTERRUPT] = "pit_isr"]
  /\ UNCHANGED <<intr, threads, pit_ticks, controllers, requests, pit, timer, measures>>

IoapicSetIrq == irq_masked' = FALSE
PitUnmask ==
  /\ At("pit_unmask", "pit_command")
  /\ IoapicSetIrq
  /\ UNCHANGED <<intr, handlers, threads, pit_ticks, pic_masked, requests, pit, timer, measures>>

\* The PIT stands still from its command to the second byte of its period.
PitCommand ==
  /\ At("pit_command", "pit_period")
  /\ pit_mode' = "loading"
  /\ UNCHANGED <<pit_left, intr, handlers, threads, pit_ticks, controllers, requests, timer, measures>>

PitPeriod ==
  /\ At("pit_period", "first_read")
  /\ pit_mode' = "periodic" /\ pit_left' = Period
  /\ UNCHANGED <<intr, handlers, threads, pit_ticks, controllers, requests, timer, measures>>

PitStopForgotten ==   \* mutant: clock_init does not stop the PIT
  /\ At("pit_stop", "generic_early")
  /\ UNCHANGED <<intr, handlers, threads, pit_ticks, controllers, requests, pit, timer, measures>>

IoapicMaskIrq == irq_masked' = TRUE
PitStop ==
  /\ At("pit_stop", "generic_early")
  /\ IoapicMaskIrq
  /\ UNCHANGED <<intr, handlers, threads, pit_ticks, pic_masked, requests, pit, timer, measures>>

----------------------------------------------------------------------------
(* clock_init: the TSC measured over one period of the PIT                 *)

ReadTicks(here, next) ==
  /\ At(here, next)
  /\ pit_ticks' = ticks
  /\ UNCHANGED <<intr, handlers, threads, controllers, requests, pit, timer, measures>>

WaitTick(here, next) ==
  /\ \/ pit_ticks = ticks /\ At(here, here)
     \/ pit_ticks # ticks /\ At(here, next)
  /\ UNCHANGED <<intr, handlers, threads, pit_ticks, controllers, requests, pit, timer, measures>>

FirstRead == ReadTicks("first_read", "first_wait")
FirstWait == WaitTick("first_wait", "before")

Before ==
  /\ At("before", "second_read")
  /\ since' = 0
  /\ UNCHANGED <<intr, handlers, threads, pit_ticks, controllers, requests, pit, timer,
                 elapsed, tsc_10ms, apic_10ms>>

SecondReadOld ==   \* mutant: the tick seen first is waited for again
  /\ At("second_read", "second_wait")
  /\ UNCHANGED <<intr, handlers, threads, pit_ticks, controllers, requests, pit, timer, measures>>
SecondRead == ReadTicks("second_read", "second_wait")
SecondWait == WaitTick("second_wait", "after")

After ==
  /\ At("after", "pit_stop")
  /\ tsc_10ms' = since
  /\ UNCHANGED <<intr, handlers, threads, pit_ticks, controllers, requests, pit, timer,
                 since, elapsed, apic_10ms>>

----------------------------------------------------------------------------
(* generic_early, and apic_timer_init                                      *)

\* Of generic_early only tasking_init matters here.
GenericEarly ==
  /\ At("generic_early", "deadline")
  /\ threads' = TRUE
  /\ UNCHANGED <<intr, handlers, pit_ticks, controllers, requests, pit, timer, measures>>

\* The end of the 10 ms is computed first.
Deadline ==
  /\ At("deadline", "count_down")
  /\ since' = 0
  /\ UNCHANGED <<intr, handlers, threads, pit_ticks, controllers, requests, pit, timer,
                 elapsed, tsc_10ms, apic_10ms>>

\* The timer counts down from its highest count, masked.
CountDown ==
  /\ At("count_down", "calibrate")
  /\ elapsed' = 0
  /\ UNCHANGED <<intr, handlers, threads, pit_ticks, controllers, requests, pit, timer,
                 since, tsc_10ms, apic_10ms>>

Calibrate ==
  /\ \/ since < tsc_10ms /\ At("calibrate", "calibrate")
     \/ since >= tsc_10ms /\ At("calibrate", "read_count")
  /\ UNCHANGED <<intr, handlers, threads, pit_ticks, controllers, requests, pit, timer, measures>>

ReadCount ==
  /\ At("read_count", "timer_register")
  /\ apic_10ms' = elapsed
  /\ UNCHANGED <<intr, handlers, threads, pit_ticks, controllers, requests, pit, timer,
                 since, elapsed, tsc_10ms>>

TimerRegister ==
  /\ At("timer_register", "timer_unmask")
  /\ handlers' = [handlers EXCEPT ![APIC_TMR_INT] = "apic_timer_isr"]
  /\ UNCHANGED <<intr, threads, pit_ticks, controllers, requests, pit, timer, measures>>

TimerUnmask ==
  /\ At("timer_unmask", "timer_start")
  /\ lvt_masked' = FALSE
  /\ UNCHANGED <<intr, handlers, threads, pit_ticks, controllers, requests, pit, count, measures>>

TimerPeriod == apic_10ms \div Rate
TimerStart ==
  /\ At("timer_start", "thread")
  /\ count' = TimerPeriod
  /\ UNCHANGED <<intr, handlers, threads, pit_ticks, controllers, requests, pit, lvt_masked,
                 measures>>

\* Whatever the threads do from here on: they take locks and release them, and
\* sleep, which switches to threads of either kind.
Thread ==
  /\ At("thread", "thread")
  /\ intr' \in BOOLEAN
  /\ UNCHANGED <<handlers, threads, pit_ticks, controllers, requests, pit, timer, measures>>

----------------------------------------------------------------------------
(* Time                                                                    *)

\* The PIT's output reaches whichever controller lets it through.
PitOutput == {s \in {"irq0", "pit"} : IF s = "irq0" THEN ~pic_masked ELSE ~irq_masked}

\* The PIT in one unit of time: when it likes, FirmwareGap units apart
\* at least, until it is programmed.
PitTicks(fires) ==
  \/ /\ pit_mode = "firmware"
     /\ fires => pit_left = 0
     /\ pit_left' = IF fires THEN FirmwareGap ELSE IF pit_left = 0 THEN 0 ELSE pit_left - 1
  \/ pit_mode = "loading" /\ ~fires /\ UNCHANGED pit_left
  \/ /\ pit_mode = "periodic"
     /\ fires = (pit_left = 1)
     /\ pit_left' = IF pit_left = 1 THEN Period ELSE pit_left - 1

\* The timer of the local APIC, periodic.
TimerFires == count = 1 /\ ~lvt_masked
TimerCounts == count' = IF count = Off THEN Off ELSE IF count = 1 THEN TimerPeriod ELSE count - 1

Measuring == pc \in {"second_read", "second_wait", "after", "count_down", "calibrate"}
Counting == pc \in {"calibrate", "read_count"}

Tick ==
  /\ lag < Lag
  /\ lag' = lag + 1
  /\ \E fires \in BOOLEAN :
       /\ PitTicks(fires)
       /\ requests' = requests \cup (IF fires THEN PitOutput ELSE {})
                               \cup (IF TimerFires THEN {"timer"} ELSE {})
  /\ TimerCounts
  /\ since' = IF Measuring THEN since + 1 ELSE since
  /\ elapsed' = IF Counting THEN elapsed + 1 ELSE elapsed
  /\ UNCHANGED <<pc, intr, handlers, isr, serving, threads, ticks, pit_ticks, controllers,
                 in_service, pit_mode, lvt_masked, tsc_10ms, apic_10ms>>

----------------------------------------------------------------------------
(* The specification                                                       *)

Boot ==
  \/ ApicInit \/ EnableInterrupts
  \/ PitRegister \/ PitUnmask \/ PitCommand \/ PitPeriod \/ PitStop
  \/ FirstRead \/ FirstWait \/ Before \/ SecondRead \/ SecondWait \/ After
  \/ GenericEarly \/ Deadline \/ CountDown \/ Calibrate \/ ReadCount
  \/ TimerRegister \/ TimerUnmask \/ TimerStart \/ Thread

Cpu == Deliver \/ PitCount \/ PitEoi \/ TimerWake \/ TimerEoi \/ TimerSwitch \/ Boot

Next == Cpu \/ Tick

\* The CPU goes on and time passes.
Spec == Init /\ [][Next]_vars /\ WF_vars(Cpu) /\ WF_vars(Tick)

----------------------------------------------------------------------------
(* Properties                                                              *)

\* Each interrupt comes to the handler of the device that sent it, though
\* both devices use vector 33: no interrupt is pending for a handler that has
\* been replaced, none comes before its handler, and the timer's handler,
\* which switches threads, does not run before there are any.
OwnHandler ==
  /\ isr # "unhandled"
  /\ isr \in {"pit_isr", "pit_eoi"} => serving = {"pit"}
  /\ isr \in {"apic_timer_isr", "tmr_eoi", "tmr_switch"} => serving = {"timer"} /\ threads

\* Steps of the CPU between a tick of the PIT and the reading of the TSC: the
\* interrupt, two of its handler, the loop and the reading.
ReadingSteps == 5

\* The 10 ms that clock_init and apic_timer_init measure are 10 ms, up to the
\* time a few steps take: clock_init measures from one tick to the next and
\* not from somewhere within a period, and the timer gets a period of its own.
Calibrated ==
  /\ pc \in {"pit_stop", "generic_early", "deadline"} =>
       tsc_10ms \in (Period - ReadingSteps * Lag)..(Period + ReadingSteps * Lag)
  /\ pc = "timer_register" =>
       apic_10ms \in (tsc_10ms - Lag)..(tsc_10ms + ReadingSteps * Lag)

\* The timer interrupt comes again and again as long as interrupts are enabled
\* again and again: clock_init and apic_timer_init end, each interrupt is ended
\* so that the next one is let through, and one that comes while a thread has
\* interrupts disabled waits.  Whether the threads enable them again is a
\* question of Tasking's, where one does not (SleeperRuns).
TimerGoesOn == []<>intr => []<>(isr = "tmr_switch")

=============================================================================
