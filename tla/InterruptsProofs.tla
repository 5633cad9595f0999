--------------------------- MODULE InterruptsProofs -------------------------
(***************************************************************************)
(* Theorems about Interrupts, for every period of the PIT, every speed of  *)
(* the CPU and every rate of the timer: two devices share vector 33 and    *)
(* neither gets the other's handler; and the 10 ms that clock_init and     *)
(* apic_timer_init measure are 10 ms.                                      *)
(***************************************************************************)
EXTENDS Interrupts, TLAPS

\* The parts of the boot: interrupts disabled, vector 33 without a handler,
\* the PIT's, the APIC timer's.  Only while the PIT runs does the I/O APIC let
\* its interrupt through, and only when the timer runs the local APIC the
\* timer's.
Disabled == {"apic_init", "enable_interrupts"}
NoHandler == Disabled \cup {"pit_register"}
PitRuns == {"pit_command", "pit_period", "first_read", "first_wait", "before", "second_read",
            "second_wait", "after", "pit_stop"}
Threaded == {"deadline", "count_down", "calibrate", "read_count", "timer_register"}
PitOwns == {"pit_unmask"} \cup PitRuns \cup {"generic_early"} \cup Threaded
TimerRuns == {"timer_start", "thread"}
TimerOwns == {"timer_unmask"} \cup TimerRuns

\* No interrupt is in service outside of handlers, so none is held back, and
\* from enable_interrupts on until there are threads they are enabled there.
\* The timer's handler runs only when the timer does.
CpuInv ==
  /\ pc \in NoHandler \cup PitOwns \cup TimerOwns
  /\ intr => isr = "none" /\ pc \notin Disabled
  /\ isr # "none" => pc \notin Disabled
  /\ isr = "none" /\ pc \notin Disabled \cup TimerRuns => intr
  /\ isr \in {"none", "tmr_switch"} => ~in_service
  /\ isr \in {"apic_timer_isr", "tmr_eoi", "tmr_switch"} => pc \in TimerRuns
  /\ isr \in {"none", "pit_isr", "pit_eoi", "apic_timer_isr", "tmr_eoi", "tmr_switch"}

\* Whose vector 33 is.
HandlerInv ==
  /\ DOMAIN handlers = {32, 33}
  /\ pc \in PitOwns => handlers[33] = "pit_isr"
  /\ pc \in TimerOwns => handlers[33] = "apic_timer_isr"
  /\ pc \in Threaded \cup TimerOwns => threads

\* Each source is let through, and has an interrupt pending, only while the
\* boot code means it to.
SourceInv ==
  /\ requests \subseteq Sources
  /\ ~pic_masked \/ "irq0" \in requests => pc = "apic_init"
  /\ ~irq_masked \/ "pit" \in requests => pc \in PitRuns
  /\ ~lvt_masked \/ "timer" \in requests => pc \in TimerRuns

IInv == CpuInv /\ HandlerInv /\ SourceInv /\ OwnHandler

----------------------------------------------------------------------------
(* A step of the boot thread                                               *)

\* Where interrupts are enabled the CPU has none to deliver, and no handler runs.
LEMMA NothingPending ==
  ASSUME IInv, NEW here, NEW next, At(here, next), here \notin Disabled \cup TimerRuns
  PROVE  requests = {}
<1>1. isr = "none" /\ intr /\ ~in_service
  BY DEF At, IInv, CpuInv
<1>2. requests = Deliverable
  BY <1>1 DEF Deliverable
<1> QED
  BY <1>1, <1>2 DEF At

\* A step that goes on within a part of the boot and leaves the controllers alone.
LEMMA QuietStep ==
  ASSUME IInv, NEW here, NEW next, At(here, next),
         UNCHANGED <<handlers, threads, controllers, requests, lvt_masked>>,
         here # "thread" => intr' = intr,
         NEW S \in {PitRuns, Threaded, TimerRuns}, here \in S, next \in S
  PROVE  IInv'
<1> USE DEF Disabled, NoHandler, PitRuns, Threaded, PitOwns, TimerRuns, TimerOwns
<1>1. /\ UNCHANGED <<isr, serving, in_service, pic_masked, irq_masked>>
      /\ pc = here /\ pc' = next /\ isr = "none"
  BY DEF At, controllers
<1>2. CpuInv'
  <2>1. S # TimerRuns => intr' = intr
    OBVIOUS
  <2>2. S # TimerRuns => intr /\ here \notin TimerRuns
    BY <1>1 DEF IInv, CpuInv
  <2>3. S = TimerRuns => next \in TimerRuns
    OBVIOUS
  <2> QED
    BY <1>1, <2>1, <2>2, <2>3 DEF IInv, CpuInv
<1>3. HandlerInv'
  BY <1>1 DEF IInv, HandlerInv
<1>4. SourceInv'
  BY <1>1 DEF IInv, SourceInv
<1>5. OwnHandler'
  BY <1>1 DEF IInv, OwnHandler
<1> QED
  BY <1>2, <1>3, <1>4, <1>5 DEF IInv

LEMMA BootStep == IInv /\ Boot => IInv'
<1> SUFFICES ASSUME IInv, Boot PROVE IInv'
  OBVIOUS
<1> USE DEF Disabled, NoHandler, PitRuns, Threaded, PitOwns, TimerRuns, TimerOwns, controllers, timer
<1>1. CASE ApicInit
  BY <1>1 DEF ApicInit, DisablePic, At, IInv, CpuInv, HandlerInv, SourceInv, OwnHandler
<1>2. CASE EnableInterrupts
  BY <1>2 DEF EnableInterrupts, At, IInv, CpuInv, HandlerInv, SourceInv, OwnHandler
<1>3. CASE PitRegister
  <2>1. handlers' = [handlers EXCEPT ![33] = "pit_isr"]
    BY <1>3 DEF PitRegister, PIT_INTERRUPT
  <2> QED
    BY <1>3, <2>1 DEF PitRegister, At, IInv, CpuInv, HandlerInv, SourceInv, OwnHandler
<1>4. CASE PitUnmask
  BY <1>4 DEF PitUnmask, IoapicSetIrq, At, IInv, CpuInv, HandlerInv, SourceInv, OwnHandler
<1>5. CASE PitStop
  <2>1. requests = {}
    BY <1>5, NothingPending DEF PitStop
  <2> QED
    BY <1>5, <2>1 DEF PitStop, IoapicMaskIrq, At, IInv, CpuInv, HandlerInv, SourceInv, OwnHandler
<1>6. CASE GenericEarly
  BY <1>6 DEF GenericEarly, At, IInv, CpuInv, HandlerInv, SourceInv, OwnHandler
<1>7. CASE TimerRegister
  <2>1. handlers' = [handlers EXCEPT ![33] = "apic_timer_isr"]
    BY <1>7 DEF TimerRegister, APIC_TMR_INT
  <2> QED
    BY <1>7, <2>1 DEF TimerRegister, At, IInv, CpuInv, HandlerInv, SourceInv, OwnHandler
<1>8. CASE TimerUnmask
  BY <1>8 DEF TimerUnmask, At, IInv, CpuInv, HandlerInv, SourceInv, OwnHandler
<1>9. CASE PitCommand \/ PitPeriod
  BY <1>9, QuietStep DEF PitCommand, PitPeriod
<1>10. CASE FirstRead \/ SecondRead
  BY <1>10, QuietStep DEF FirstRead, SecondRead, ReadTicks
<1>11. CASE FirstWait \/ SecondWait
  <2>1. CASE FirstWait
    BY <1>11, <2>1, QuietStep DEF FirstWait, WaitTick
  <2>2. CASE SecondWait
    BY <1>11, <2>2, QuietStep DEF SecondWait, WaitTick
  <2> QED
    BY <1>11, <2>1, <2>2
<1>12. CASE Before \/ After
  BY <1>12, QuietStep DEF Before, After
<1>13. CASE Deadline \/ CountDown \/ ReadCount
  BY <1>13, QuietStep DEF Deadline, CountDown, ReadCount
<1>14. CASE Calibrate
  BY <1>14, QuietStep DEF Calibrate
<1>15. CASE TimerStart \/ Thread
  BY <1>15, QuietStep DEF TimerStart, Thread
<1> QED
  BY <1>1, <1>2, <1>3, <1>4, <1>5, <1>6, <1>7, <1>8, <1>9, <1>10, <1>11, <1>12, <1>13, <1>14, <1>15
     DEF Boot

----------------------------------------------------------------------------
(* Interrupts and time                                                     *)

\* The interrupt delivered is one of the PIT while the PIT runs, or one of the
\* timer once that does: its handler is the one that is registered then.
LEMMA DeliverStep == IInv /\ Deliver => IInv'
<1> SUFFICES ASSUME IInv, Deliver PROVE IInv'
  OBVIOUS
<1> USE DEF Disabled, NoHandler, PitRuns, Threaded, PitOwns, TimerRuns, TimerOwns, controllers, timer
<1>1. PICK s \in Deliverable :
        /\ isr' = handlers[VectorOf(s)]
        /\ serving' = {r \in Deliverable : VectorOf(r) = VectorOf(s)}
        /\ requests' = requests \ {r \in Deliverable : VectorOf(r) = VectorOf(s)}
        /\ in_service' = (in_service \/ s # "irq0")
  BY DEF Deliver, Dispatch
<1>2. UNCHANGED <<pc, handlers, threads, pic_masked, irq_masked, lvt_masked>> /\ ~intr' /\ intr
  BY DEF Deliver
<1>3. s \in requests /\ s \in {"irq0", "pit", "timer"} /\ pc \notin Disabled
  BY <1>2 DEF Deliverable, IInv, CpuInv, SourceInv, Sources
<1>4. Deliverable \subseteq requests /\ requests \subseteq {"irq0", "pit", "timer"} /\ "irq0" \notin requests
  BY <1>3 DEF Deliverable, IInv, SourceInv, Sources
<1>5. CASE s = "pit"
  <2>1. pc \in PitRuns /\ "timer" \notin requests
    BY <1>3, <1>5 DEF IInv, SourceInv
  <2>2. VectorOf(s) = 33 /\ isr' = "pit_isr"
    BY <1>1, <1>5, <2>1 DEF VectorOf, PIT_INTERRUPT, IInv, HandlerInv
  <2>3. serving' = {"pit"}
    BY <1>1, <1>4, <1>5, <2>1
  <2> QED
    BY <1>1, <1>2, <1>4, <2>1, <2>2, <2>3 DEF IInv, CpuInv, HandlerInv, SourceInv, OwnHandler
<1>6. CASE s = "timer"
  <2>1. pc \in TimerRuns /\ "pit" \notin requests
    BY <1>3, <1>6 DEF IInv, SourceInv
  <2>2. VectorOf(s) = 33 /\ isr' = "apic_timer_isr"
    BY <1>1, <1>6, <2>1 DEF VectorOf, APIC_TMR_INT, IInv, HandlerInv
  <2>3. serving' = {"timer"}
    BY <1>1, <1>4, <1>6, <2>1
  <2> QED
    BY <1>1, <1>2, <1>4, <2>1, <2>2, <2>3 DEF IInv, CpuInv, HandlerInv, SourceInv, OwnHandler
<1> QED
  BY <1>3, <1>4, <1>5, <1>6

LEMMA HandlerStep ==
  IInv /\ (PitCount \/ PitEoi \/ TimerWake \/ TimerEoi \/ TimerSwitch) => IInv'
<1> SUFFICES ASSUME IInv, PitCount \/ PitEoi \/ TimerWake \/ TimerEoi \/ TimerSwitch PROVE IInv'
  OBVIOUS
<1>1. /\ UNCHANGED <<pc, handlers, serving, threads, pic_masked, irq_masked, requests, lvt_masked>>
      /\ isr # "none"
  BY DEF PitCount, PitEoi, TimerWake, TimerEoi, TimerSwitch, Handler, controllers, timer
<1>2. pc \notin Disabled
  BY <1>1 DEF IInv, CpuInv
<1>3. CpuInv'
  BY <1>1, <1>2 DEF PitCount, PitEoi, TimerWake, TimerEoi, TimerSwitch, Handler, IInv, CpuInv
<1>4. HandlerInv' /\ SourceInv'
  BY <1>1 DEF IInv, HandlerInv, SourceInv
<1>5. OwnHandler'
  BY <1>1 DEF PitCount, PitEoi, TimerWake, TimerEoi, TimerSwitch, Handler, IInv, OwnHandler
<1> QED
  BY <1>3, <1>4, <1>5 DEF IInv

\* What becomes pending comes from a source that is let through.
LEMMA TickStep == IInv /\ Tick => IInv'
<1> SUFFICES ASSUME IInv, Tick PROVE IInv'
  OBVIOUS
<1>1. UNCHANGED <<pc, intr, handlers, isr, serving, threads, pic_masked, irq_masked, in_service, lvt_masked>>
  BY DEF Tick, controllers
<1>2. PICK fires \in BOOLEAN :
        requests' = requests \cup (IF fires THEN PitOutput ELSE {})
                             \cup (IF TimerFires THEN {"timer"} ELSE {})
  BY DEF Tick
<1>3. SourceInv'
  <2>1. requests' \subseteq Sources
    BY <1>2 DEF IInv, SourceInv, PitOutput, Sources
  <2>2. "irq0" \in requests' => "irq0" \in requests \/ ~pic_masked
    BY <1>2 DEF PitOutput
  <2>3. "pit" \in requests' => "pit" \in requests \/ ~irq_masked
    BY <1>2 DEF PitOutput
  <2>4. "timer" \in requests' => "timer" \in requests \/ ~lvt_masked
    BY <1>2 DEF PitOutput, TimerFires
  <2> QED
    BY <1>1, <2>1, <2>2, <2>3, <2>4 DEF IInv, SourceInv
<1> QED
  BY <1>1, <1>3 DEF IInv, CpuInv, HandlerInv, OwnHandler

----------------------------------------------------------------------------
(* The theorem                                                             *)

LEMMA InitIInv == Init => IInv
BY DEF Init, IInv, CpuInv, HandlerInv, SourceInv, OwnHandler, Disabled, NoHandler, PitRuns, Threaded,
   PitOwns, TimerRuns, TimerOwns

LEMMA NextIInv == IInv /\ [Next]_vars => IInv'
<1> SUFFICES ASSUME IInv, [Next]_vars PROVE IInv'
  OBVIOUS
<1>1. CASE UNCHANGED vars
  BY <1>1 DEF vars, controllers, timer, IInv, CpuInv, HandlerInv, SourceInv, OwnHandler
<1> QED
  BY <1>1, BootStep, DeliverStep, HandlerStep, TickStep DEF Next, Cpu

\* Each source is masked, or has its handler, wherever its interrupt may be
\* pending, for every speed of the devices.
THEOREM InterruptsInvariant == Spec => []IInv
BY InitIInv, NextIInv, PTL DEF Spec

\* The PIT and the timer of the local APIC share a vector, and each interrupt
\* comes to the handler of its own device: clock_init's stop of the PIT is
\* early enough, and no interrupt of it is left when the handler is replaced.
THEOREM EachItsHandler == Spec => []OwnHandler
BY InterruptsInvariant, PTL DEF IInv

----------------------------------------------------------------------------
(* The two measurements                                                    *)

\* The steps of the CPU are short against the period of the PIT: with six of
\* them longer than a period a tick can be counted between the reading of the
\* TSC and that of the counter, is missed, and two periods are measured.
ShortSteps == Period >= 6 * Lag

\* Where clock_init is while it listens to the PIT, which is periodic.
Listening == {"first_read", "first_wait", "before", "second_read", "second_wait", "after"}
\* Behind clock_init no device is heard.
Silent == {"generic_early"} \cup Threaded

\* The time since the PIT's last tick.
Phase == Period - pit_left

NumbersInv ==
  /\ lag \in 0..Lag
  /\ ticks \in Nat /\ pit_ticks \in Nat
  /\ since \in Nat /\ elapsed \in Nat /\ tsc_10ms \in Nat /\ apic_10ms \in Nat

\* A tick is pending for at most Lag, and each step of its handler takes at
\* most that: no second tick comes before it is counted.
TickInv ==
  /\ pc \in PitRuns => ~irq_masked /\ isr \in {"none", "pit_isr", "pit_eoi"}
  /\ pc \in Silent => isr = "none"
  /\ pc \in Listening =>
       /\ pit_mode = "periodic" /\ pit_left \in 1..Period
       /\ "pit" \in requests => isr = "none" /\ Phase < lag
       /\ isr = "pit_isr" => Phase < Lag + lag
       /\ isr = "pit_eoi" => Phase < 2 * Lag + lag

\* A tick has been counted that clock_init has not read: it was a short time ago.
Counted == ticks # pit_ticks
CountedInv ==
  Counted =>
    /\ "pit" \notin requests
    /\ isr # "pit_isr"
    /\ isr = "none" => Phase < 3 * Lag + lag

\* The thread goes on from a tick and is n steps behind its handler.
Follows(n) == "pit" \notin requests /\ isr = "none" /\ Phase < n * Lag + lag

\* The measurement began between the last tick (or the one before) and five steps after it.
SinceTick(t) == since <= t /\ t <= since + 5 * Lag

TscInv ==
  /\ pc = "first_wait" => CountedInv
  /\ pc = "before" => Follows(4)
  /\ pc = "second_read" => Follows(5) /\ SinceTick(Phase)
  /\ pc = "second_wait" =>
       /\ CountedInv
       /\ isr = "pit_eoi" => Counted
       /\ IF "pit" \in requests \/ isr = "pit_isr" \/ Counted
          THEN SinceTick(Phase + Period)
          ELSE SinceTick(Phase)
  /\ pc = "after" => Follows(4) /\ SinceTick(Phase + Period)
  /\ pc \in {"pit_stop"} \cup Silent =>
       tsc_10ms >= Period - 5 * Lag /\ tsc_10ms <= Period + 5 * Lag

ApicInv ==
  /\ pc = "count_down" => since = lag
  /\ pc = "calibrate" =>
       /\ elapsed <= since /\ since <= elapsed + Lag
       /\ since <= tsc_10ms + Lag + lag
  /\ pc = "read_count" => elapsed >= tsc_10ms - Lag /\ elapsed <= tsc_10ms + 2 * Lag + lag
  /\ pc = "timer_register" => apic_10ms >= tsc_10ms - Lag /\ apic_10ms <= tsc_10ms + 3 * Lag

CalInv == NumbersInv /\ TickInv /\ TscInv /\ ApicInv

\* A step of the boot thread finds no interrupt pending and no handler at work.
LEMMA BootQuiet ==
  ASSUME IInv, NEW here, NEW next, At(here, next), here \notin Disabled \cup TimerRuns
  PROVE  /\ pc = here /\ pc' = next /\ isr = "none" /\ isr' = "none" /\ lag' = 0
         /\ requests = {} /\ ticks' = ticks
BY NothingPending DEF At

\* While the PIT runs nothing else can be pending, and behind it nothing.
LEMMA Pending ==
  IInv => (pc \in PitRuns => requests \subseteq {"pit"}) /\ (pc \in Silent => requests = {})
<1> SUFFICES ASSUME IInv
             PROVE  (pc \in PitRuns => requests \subseteq {"pit"}) /\ (pc \in Silent => requests = {})
  OBVIOUS
<1>1. /\ requests \subseteq {"irq0", "pit", "timer"}
      /\ "irq0" \in requests => pc = "apic_init"
      /\ "pit" \in requests => pc \in PitRuns
      /\ "timer" \in requests => pc \in TimerRuns
  BY DEF IInv, SourceInv, Sources
<1>2. pc \in PitRuns => "irq0" \notin requests /\ "timer" \notin requests
  BY <1>1 DEF PitRuns, TimerRuns
<1>3. pc \in Silent => "irq0" \notin requests /\ "timer" \notin requests /\ "pit" \notin requests
  BY <1>1 DEF PitRuns, TimerRuns, Silent, Threaded
<1> QED
  BY <1>1, <1>2, <1>3

LEMMA PendingNext ==
  (IInv => (pc \in PitRuns => requests \subseteq {"pit"}) /\ (pc \in Silent => requests = {}))'
BY Pending, PTL

\* A step outside of both measurements.
LEMMA ElsewhereStep ==
  ASSUME CalInv, NEW here, NEW next, At(here, next),
         next \in {"enable_interrupts", "pit_register", "pit_unmask", "pit_command", "pit_period",
                   "timer_unmask", "timer_start", "thread"},
         next \in PitRuns => ~irq_masked',
         UNCHANGED <<pit_ticks, since, elapsed, tsc_10ms, apic_10ms>>
  PROVE  CalInv'
<1>1. pc = here /\ pc' = next /\ isr' = isr /\ isr = "none" /\ lag' = 0 /\ ticks' = ticks
  BY DEF At
<1>2. NumbersInv'
  BY <1>1, InterruptsAssumption DEF CalInv, NumbersInv
<1>3. TickInv'
  BY <1>1 DEF TickInv, PitRuns, Silent, Threaded, Listening
<1>4. TscInv' /\ ApicInv'
  BY <1>1 DEF CalInv, TscInv, ApicInv, Silent, Threaded
<1> QED
  BY <1>2, <1>3, <1>4 DEF CalInv

\* The PIT starts with a whole period.
LEMMA PitPeriodStep == ShortSteps /\ IInv /\ CalInv /\ PitPeriod => CalInv'
<1> SUFFICES ASSUME ShortSteps, IInv, CalInv, PitPeriod PROVE CalInv'
  OBVIOUS
<1> USE DEF Disabled, PitRuns, Threaded, TimerRuns, Silent, Listening
<1>1. /\ pc = "pit_period" /\ pc' = "first_read" /\ isr' = "none" /\ lag' = 0
      /\ requests = {} /\ requests' = {} /\ ticks' = ticks /\ irq_masked' = irq_masked
      /\ pit_mode' = "periodic" /\ pit_left' = Period
      /\ UNCHANGED <<pit_ticks, since, elapsed, tsc_10ms, apic_10ms>>
  BY BootQuiet DEF PitPeriod, controllers, measures
<1>2. NumbersInv'
  BY <1>1, InterruptsAssumption DEF CalInv, NumbersInv
<1>3. TickInv'
  BY <1>1, InterruptsAssumption DEF CalInv, TickInv
<1>4. TscInv' /\ ApicInv'
  BY <1>1 DEF TscInv, ApicInv
<1> QED
  BY <1>2, <1>3, <1>4 DEF CalInv

\* A step of clock_init that leaves the PIT alone.
LEMMA ListeningKeeps ==
  ASSUME IInv, CalInv, NEW here \in Listening, NEW next \in Listening, At(here, next),
         UNCHANGED <<controllers, pit, requests, elapsed, tsc_10ms, apic_10ms>>,
         pit_ticks' \in Nat, since' \in Nat
  PROVE  /\ NumbersInv' /\ TickInv' /\ ApicInv'
         /\ pc = here /\ pc' = next /\ isr = "none" /\ isr' = "none" /\ lag \in 0..Lag /\ lag' = 0
         /\ requests = {} /\ requests' = {} /\ ticks' = ticks /\ ticks \in Nat /\ pit_ticks \in Nat
         /\ pit_left \in 1..Period /\ Phase \in Nat /\ Phase' = Phase
<1> USE DEF Disabled, PitRuns, Threaded, TimerRuns, Silent, Listening
<1>1. /\ pc = here /\ pc' = next /\ isr = "none" /\ isr' = "none" /\ lag' = 0
      /\ requests = {} /\ requests' = {} /\ ticks' = ticks
      /\ UNCHANGED <<irq_masked, pit_mode, pit_left>>
  BY BootQuiet DEF controllers, pit
<1>2. NumbersInv'
  BY <1>1, InterruptsAssumption DEF CalInv, NumbersInv
<1>3. TickInv'
  BY <1>1, InterruptsAssumption DEF CalInv, TickInv
<1>4. ApicInv'
  BY <1>1 DEF ApicInv
<1>5. pit_left \in 1..Period
  BY <1>1 DEF CalInv, TickInv
<1>6. Phase \in Nat /\ Phase' = Phase
  BY <1>1, <1>5, InterruptsAssumption DEF Phase
<1> QED
  BY <1>1, <1>2, <1>3, <1>4, <1>5, <1>6 DEF CalInv, NumbersInv

\* The loops go on behind a tick that has just been counted; since it no
\* second one has come.
LEMMA ListenStep ==
  ShortSteps /\ IInv /\ CalInv /\ (FirstRead \/ FirstWait \/ Before \/ SecondRead \/ SecondWait) => CalInv'
<1> SUFFICES ASSUME ShortSteps, IInv, CalInv,
                    FirstRead \/ FirstWait \/ Before \/ SecondRead \/ SecondWait
             PROVE  CalInv'
  OBVIOUS
<1> USE DEF Silent, Threaded
<1>1. NumbersInv /\ TscInv
  BY DEF CalInv
<1>2. CASE FirstRead
  <2>1. /\ At("first_read", "first_wait") /\ pit_ticks' = ticks
        /\ UNCHANGED <<controllers, pit, requests, since, elapsed, tsc_10ms, apic_10ms>>
    BY <1>2 DEF FirstRead, ReadTicks, measures
  <2>2. /\ NumbersInv' /\ TickInv' /\ ApicInv'
        /\ pc' = "first_wait" /\ ticks' = ticks
    BY <1>1, <2>1, ListeningKeeps DEF Listening, NumbersInv
  <2>3. TscInv'
    BY <2>1, <2>2 DEF TscInv, CountedInv, Counted
  <2> QED
    BY <2>2, <2>3 DEF CalInv
<1>3. CASE FirstWait
  <2>1. PICK next \in {"first_wait", "before"} :
          /\ At("first_wait", next)
          /\ next = "before" => ticks # pit_ticks
          /\ next = "first_wait" => ticks = pit_ticks
          /\ UNCHANGED <<pit_ticks, controllers, pit, requests, since, elapsed, tsc_10ms, apic_10ms>>
    BY <1>3 DEF FirstWait, WaitTick, measures
  <2>2. /\ NumbersInv' /\ TickInv' /\ ApicInv'
        /\ pc = "first_wait" /\ pc' = next /\ isr = "none" /\ isr' = "none" /\ lag \in 0..Lag /\ lag' = 0
        /\ requests = {} /\ requests' = {} /\ ticks' = ticks
        /\ Phase \in Nat /\ Phase' = Phase
    BY <1>1, <2>1, ListeningKeeps DEF Listening, NumbersInv
  <2>3. CASE next = "first_wait"
    <3>1. ticks' = pit_ticks'
      BY <2>1, <2>2, <2>3
    <3> QED
      BY <2>2, <2>3, <3>1 DEF CalInv, TscInv, CountedInv, Counted
  <2>4. CASE next = "before"
    <3>1. Phase < 3 * Lag + lag
      BY <1>1, <2>1, <2>2, <2>4 DEF TscInv, CountedInv, Counted
    <3>2. Phase' < 4 * Lag + lag'
      BY <2>2, <3>1, InterruptsAssumption
    <3> QED
      BY <2>2, <2>4, <3>2 DEF CalInv, TscInv, Follows
  <2> QED
    BY <2>3, <2>4
<1>4. CASE Before
  <2>1. /\ At("before", "second_read") /\ since' = 0
        /\ UNCHANGED <<pit_ticks, controllers, pit, requests, elapsed, tsc_10ms, apic_10ms>>
    BY <1>4 DEF Before
  <2>2. /\ NumbersInv' /\ TickInv' /\ ApicInv'
        /\ pc = "before" /\ pc' = "second_read" /\ isr' = "none" /\ lag \in 0..Lag /\ lag' = 0
        /\ requests' = {} /\ Phase \in Nat /\ Phase' = Phase
    BY <1>1, <2>1, ListeningKeeps DEF Listening, NumbersInv
  <2>3. Phase < 4 * Lag + lag
    BY <1>1, <2>2 DEF TscInv, Follows
  <2>4. Phase' < 5 * Lag + lag' /\ SinceTick(Phase)'
    BY <2>1, <2>2, <2>3, InterruptsAssumption DEF SinceTick
  <2> QED
    BY <2>2, <2>4 DEF CalInv, TscInv, Follows
<1>5. CASE SecondRead
  <2>1. /\ At("second_read", "second_wait") /\ pit_ticks' = ticks
        /\ UNCHANGED <<controllers, pit, requests, since, elapsed, tsc_10ms, apic_10ms>>
    BY <1>5 DEF SecondRead, ReadTicks, measures
  <2>2. /\ NumbersInv' /\ TickInv' /\ ApicInv'
        /\ pc = "second_read" /\ pc' = "second_wait" /\ isr' = "none"
        /\ requests' = {} /\ ticks' = ticks /\ Phase' = Phase
    BY <1>1, <2>1, ListeningKeeps DEF Listening, NumbersInv
  <2>3. SinceTick(Phase)' /\ ~Counted'
    BY <1>1, <2>1, <2>2 DEF TscInv, SinceTick, Counted
  <2> QED
    BY <2>2, <2>3 DEF CalInv, TscInv, CountedInv
<1>6. CASE SecondWait
  <2>1. PICK next \in {"second_wait", "after"} :
          /\ At("second_wait", next)
          /\ next = "after" => ticks # pit_ticks
          /\ next = "second_wait" => ticks = pit_ticks
          /\ UNCHANGED <<pit_ticks, controllers, pit, requests, since, elapsed, tsc_10ms, apic_10ms>>
    BY <1>6 DEF SecondWait, WaitTick, measures
  <2>2. /\ NumbersInv' /\ TickInv' /\ ApicInv'
        /\ pc = "second_wait" /\ pc' = next /\ isr = "none" /\ isr' = "none" /\ lag \in 0..Lag /\ lag' = 0
        /\ requests = {} /\ requests' = {} /\ ticks' = ticks
        /\ Phase \in Nat /\ Phase' = Phase
    BY <1>1, <2>1, ListeningKeeps DEF Listening, NumbersInv
  <2>3. CASE next = "second_wait"
    <3>1. SinceTick(Phase)' /\ ~Counted'
      BY <1>1, <2>1, <2>2, <2>3 DEF TscInv, SinceTick, Counted
    <3> QED
      BY <2>2, <2>3, <3>1 DEF CalInv, TscInv, CountedInv
  <2>4. CASE next = "after"
    <3>1. Phase < 3 * Lag + lag /\ SinceTick(Phase + Period)
      BY <1>1, <2>1, <2>2, <2>4 DEF TscInv, CountedInv, Counted
    <3>2. Phase' < 4 * Lag + lag' /\ SinceTick(Phase + Period)'
      BY <2>1, <2>2, <3>1, InterruptsAssumption DEF SinceTick
    <3> QED
      BY <2>2, <2>4, <3>2 DEF CalInv, TscInv, Follows
  <2> QED
    BY <2>3, <2>4
<1> QED
  BY <1>2, <1>3, <1>4, <1>5, <1>6

\* clock_init ends with the TSC's units in one period of the PIT.
LEMMA AfterStep == ShortSteps /\ IInv /\ CalInv /\ (After \/ PitStop) => CalInv'
<1> SUFFICES ASSUME ShortSteps, IInv, CalInv, After \/ PitStop PROVE CalInv'
  OBVIOUS
<1> USE DEF Disabled, PitRuns, Threaded, TimerRuns, Silent, Listening
<1>1. /\ isr = "none" /\ isr' = "none" /\ lag \in 0..Lag /\ lag' = 0 /\ ticks' = ticks
      /\ UNCHANGED <<pit_ticks, since, elapsed, apic_10ms>>
      /\ \/ pc = "after" /\ pc' = "pit_stop" /\ tsc_10ms' = since /\ irq_masked' = irq_masked
         \/ pc = "pit_stop" /\ pc' = "generic_early" /\ tsc_10ms' = tsc_10ms
  BY BootQuiet DEF After, PitStop, CalInv, NumbersInv, measures, controllers
<1>2. NumbersInv'
  BY <1>1, InterruptsAssumption DEF CalInv, NumbersInv
<1>3. TickInv'
  BY <1>1 DEF CalInv, TickInv
<1>4. TscInv'
  <2>1. CASE pc = "after"
    <3>1. /\ since <= Phase + Period /\ Phase + Period <= since + 5 * Lag
          /\ Phase < 4 * Lag + lag /\ pit_left \in 1..Period
      BY <2>1 DEF CalInv, TscInv, TickInv, Follows, SinceTick
    <3>2. since >= Period - 5 * Lag /\ since <= Period + 5 * Lag
      BY <1>1, <3>1, InterruptsAssumption DEF Phase, CalInv, NumbersInv
    <3> QED
      BY <1>1, <2>1, <3>2 DEF TscInv
  <2>2. CASE pc = "pit_stop"
    BY <1>1, <2>2 DEF CalInv, TscInv
  <2> QED
    BY <1>1, <2>1, <2>2
<1>5. ApicInv'
  BY <1>1 DEF ApicInv
<1> QED
  BY <1>2, <1>3, <1>4, <1>5 DEF CalInv

\* apic_timer_init's 10 ms: no interrupt delays the loop, which ends within a
\* step of the end of them.
LEMMA CalibrateStep ==
  IInv /\ CalInv /\ (GenericEarly \/ Deadline \/ CountDown \/ Calibrate \/ ReadCount) => CalInv'
<1> SUFFICES ASSUME IInv, CalInv, GenericEarly \/ Deadline \/ CountDown \/ Calibrate \/ ReadCount
             PROVE  CalInv'
  OBVIOUS
<1> USE DEF Disabled, PitRuns, Threaded, TimerRuns, Silent, Listening
<1>1. /\ isr = "none" /\ isr' = "none" /\ lag \in 0..Lag /\ lag' = 0 /\ ticks' = ticks
      /\ UNCHANGED <<pit_ticks, tsc_10ms>>
      /\ \/ /\ pc = "generic_early" /\ pc' = "deadline"
            /\ UNCHANGED <<since, elapsed, apic_10ms>>
         \/ /\ pc = "deadline" /\ pc' = "count_down"
            /\ since' = 0 /\ UNCHANGED <<elapsed, apic_10ms>>
         \/ /\ pc = "count_down" /\ pc' = "calibrate"
            /\ elapsed' = 0 /\ UNCHANGED <<since, apic_10ms>>
         \/ /\ pc = "calibrate" /\ pc' = "calibrate"
            /\ since < tsc_10ms /\ UNCHANGED <<since, elapsed, apic_10ms>>
         \/ /\ pc = "calibrate" /\ pc' = "read_count"
            /\ since >= tsc_10ms /\ UNCHANGED <<since, elapsed, apic_10ms>>
         \/ /\ pc = "read_count" /\ pc' = "timer_register"
            /\ apic_10ms' = elapsed /\ UNCHANGED <<since, elapsed>>
  BY BootQuiet DEF GenericEarly, Deadline, CountDown, Calibrate, ReadCount, CalInv, NumbersInv, measures
<1>2. NumbersInv /\ NumbersInv'
  BY <1>1, InterruptsAssumption DEF CalInv, NumbersInv
<1>3. TickInv'
  BY <1>1 DEF TickInv
<1>4. TscInv'
  BY <1>1 DEF CalInv, TscInv
<1>5. ApicInv'
  <2>1. Lag \in Nat /\ tsc_10ms \in Nat /\ since \in Nat /\ elapsed \in Nat /\ lag \in 0..Lag
    BY <1>2, InterruptsAssumption DEF NumbersInv
  <2>2. CASE pc \in {"generic_early", "deadline"}
    BY <1>1, <2>2 DEF ApicInv
  <2>3. CASE pc = "count_down"
    <3>1. since = lag
      BY <2>3 DEF CalInv, ApicInv
    <3> QED
      BY <1>1, <2>1, <2>3, <3>1 DEF ApicInv
  <2>4. CASE pc = "calibrate"
    <3>1. elapsed <= since /\ since <= elapsed + Lag /\ since <= tsc_10ms + Lag + lag
      BY <2>4 DEF CalInv, ApicInv
    <3>2. CASE pc' = "calibrate"
      BY <1>1, <2>1, <2>4, <3>1, <3>2 DEF ApicInv
    <3>3. CASE pc' = "read_count"
      BY <1>1, <2>1, <2>4, <3>1, <3>3 DEF ApicInv
    <3> QED
      BY <1>1, <2>4, <3>2, <3>3
  <2>5. CASE pc = "read_count"
    <3>1. elapsed >= tsc_10ms - Lag /\ elapsed <= tsc_10ms + 2 * Lag + lag
      BY <2>5 DEF CalInv, ApicInv
    <3> QED
      BY <1>1, <2>1, <2>5, <3>1 DEF ApicInv
  <2> QED
    BY <1>1, <2>2, <2>3, <2>4, <2>5
<1> QED
  BY <1>2, <1>3, <1>4, <1>5 DEF CalInv

LEMMA BootCal == ShortSteps /\ IInv /\ CalInv /\ Boot => CalInv'
<1> SUFFICES ASSUME ShortSteps, IInv, CalInv, Boot PROVE CalInv'
  OBVIOUS
<1> USE DEF PitRuns, controllers, measures
<1>1. CASE ApicInit \/ EnableInterrupts \/ PitRegister
  BY <1>1, ElsewhereStep DEF ApicInit, EnableInterrupts, PitRegister
<1>2. CASE PitUnmask
  BY <1>2, ElsewhereStep DEF PitUnmask, IoapicSetIrq
<1>3. CASE PitCommand
  <2>1. ~irq_masked
    BY <1>3 DEF PitCommand, At, CalInv, TickInv
  <2> QED
    BY <1>3, <2>1, ElsewhereStep DEF PitCommand
<1>4. CASE TimerRegister \/ TimerUnmask \/ TimerStart \/ Thread
  BY <1>4, ElsewhereStep DEF TimerRegister, TimerUnmask, TimerStart, Thread
<1> QED
  BY <1>1, <1>2, <1>3, <1>4, PitPeriodStep, ListenStep, AfterStep, CalibrateStep DEF Boot

\* The interrupt is delivered within Lag, and calls pit_isr.
LEMMA DeliverCal == ShortSteps /\ IInv /\ IInv' /\ CalInv /\ Deliver => CalInv'
<1> SUFFICES ASSUME ShortSteps, IInv, IInv', CalInv, Deliver PROVE CalInv'
  OBVIOUS
<1> USE DEF PitRuns, Threaded, Silent, Listening
<1>1. /\ UNCHANGED <<pc, ticks, pit_ticks, irq_masked, pit_mode, pit_left, since, elapsed, tsc_10ms, apic_10ms>>
      /\ lag' = 0 /\ lag \in 0..Lag /\ intr
      /\ requests' \subseteq requests /\ requests # {}
  BY DEF Deliver, controllers, pit, measures, CalInv, NumbersInv, Deliverable
<1>2. isr = "none"
  BY <1>1 DEF IInv, CpuInv
<1>3. pc \notin Silent
  BY <1>1, Pending
<1>4. pc \in PitRuns => requests = {"pit"} /\ requests' = {} /\ isr' = "pit_isr"
  <2>1. SUFFICES ASSUME pc \in PitRuns PROVE requests = {"pit"} /\ requests' = {} /\ isr' = "pit_isr"
    OBVIOUS
  <2>2. requests = {"pit"}
    BY <1>1, <2>1, Pending
  <2>3. PICK s \in Deliverable :
          /\ isr' = handlers[VectorOf(s)]
          /\ requests' = requests \ {r \in Deliverable : VectorOf(r) = VectorOf(s)}
    BY DEF Deliver, Dispatch
  <2>4. s = "pit" /\ VectorOf(s) = 33
    BY <2>2, <2>3 DEF Deliverable, VectorOf, PIT_INTERRUPT
  <2> QED
    BY <2>1, <2>2, <2>3, <2>4 DEF IInv, HandlerInv, PitOwns
<1>5. NumbersInv'
  BY <1>1, InterruptsAssumption DEF CalInv, NumbersInv
<1>6. pc \in Listening => Phase \in Nat /\ Phase' = Phase /\ Phase < lag
  BY <1>1, <1>4, InterruptsAssumption DEF CalInv, TickInv, Phase
<1>7. TickInv'
  <2>1. pc' \in PitRuns => ~irq_masked' /\ isr' \in {"none", "pit_isr", "pit_eoi"}
    BY <1>1, <1>4 DEF CalInv, TickInv
  <2>2. pc' \in Listening =>
          /\ pit_mode' = "periodic" /\ pit_left' \in 1..Period
          /\ "pit" \in requests' => isr' = "none" /\ Phase' < lag'
          /\ isr' = "pit_isr" => Phase' < Lag + lag'
          /\ isr' = "pit_eoi" => Phase' < 2 * Lag + lag'
    BY <1>1, <1>4, <1>6, InterruptsAssumption DEF CalInv, TickInv
  <2> QED
    BY <1>1, <1>3, <2>1, <2>2 DEF TickInv
<1>8. TscInv'
  <2>1. pc \in {"first_wait", "second_wait"} => ~Counted /\ ~Counted'
    BY <1>1, <1>4 DEF CalInv, TscInv, CountedInv, Counted
  <2>2. pc \notin {"before", "second_read", "after"}
    BY <1>1, <1>4 DEF CalInv, TscInv, Follows
  <2>3. pc = "second_wait" => SinceTick(Phase + Period) /\ SinceTick(Phase + Period)'
    BY <1>1, <1>4, <1>6 DEF CalInv, TscInv, SinceTick
  <2> QED
    BY <1>1, <1>4, <2>1, <2>2, <2>3 DEF CalInv, TscInv, CountedInv
<1>9. ApicInv'
  BY <1>1, <1>3 DEF CalInv, ApicInv
<1> QED
  BY <1>5, <1>7, <1>8, <1>9 DEF CalInv

\* pit_isr counts the tick, in time, and returns.
LEMMA HandlerCal ==
  ShortSteps /\ IInv /\ CalInv /\ (PitCount \/ PitEoi \/ TimerWake \/ TimerEoi \/ TimerSwitch) => CalInv'
<1> SUFFICES ASSUME ShortSteps, IInv, CalInv,
                    PitCount \/ PitEoi \/ TimerWake \/ TimerEoi \/ TimerSwitch
             PROVE  CalInv'
  OBVIOUS
<1> USE DEF PitRuns, Threaded, Silent, Listening
<1>1. /\ UNCHANGED <<pc, pit_ticks, irq_masked, requests, pit_mode, pit_left, since, elapsed, tsc_10ms, apic_10ms>>
      /\ lag' = 0 /\ lag \in 0..Lag
      /\ isr # "none"
  BY DEF PitCount, PitEoi, TimerWake, TimerEoi, TimerSwitch, Handler, controllers, pit, measures,
         CalInv, NumbersInv
<1>2. pc \notin Silent
  BY <1>1 DEF CalInv, TickInv
<1>3. \/ isr = "pit_isr" /\ isr' = "pit_eoi" /\ ticks' = ticks + 1
      \/ isr = "pit_eoi" /\ isr' = "none" /\ ticks' = ticks
      \/ isr \notin {"none", "pit_isr", "pit_eoi"} /\ ticks' = ticks
  BY DEF PitCount, PitEoi, TimerWake, TimerEoi, TimerSwitch, Handler
<1>4. pc \in PitRuns => isr \in {"pit_isr", "pit_eoi"}
  BY <1>1 DEF CalInv, TickInv
<1>5. pc \in Listening => requests' = {}
  <2>1. pc \in Listening => "pit" \notin requests
    BY <1>1 DEF CalInv, TickInv
  <2> QED
    BY <1>1, <2>1, Pending
<1>6. NumbersInv'
  BY <1>1, <1>3, InterruptsAssumption DEF CalInv, NumbersInv
<1>7. pc \in Listening =>
        /\ Phase \in Nat /\ Phase' = Phase
        /\ isr = "pit_isr" => Phase < Lag + lag
        /\ isr = "pit_eoi" => Phase < 2 * Lag + lag
  BY <1>1, InterruptsAssumption DEF CalInv, TickInv, Phase
<1>8. TickInv'
  <2>1. pc' \in PitRuns => ~irq_masked' /\ isr' \in {"none", "pit_isr", "pit_eoi"}
    BY <1>1, <1>3, <1>4 DEF CalInv, TickInv
  <2>2. pc' \in Listening =>
          /\ pit_mode' = "periodic" /\ pit_left' \in 1..Period
          /\ "pit" \in requests' => isr' = "none" /\ Phase' < lag'
          /\ isr' = "pit_isr" => Phase' < Lag + lag'
          /\ isr' = "pit_eoi" => Phase' < 2 * Lag + lag'
    <3> SUFFICES ASSUME pc \in Listening
                 PROVE  /\ pit_mode' = "periodic" /\ pit_left' \in 1..Period
                        /\ "pit" \in requests' => isr' = "none" /\ Phase' < lag'
                        /\ isr' = "pit_isr" => Phase' < Lag + lag'
                        /\ isr' = "pit_eoi" => Phase' < 2 * Lag + lag'
      BY <1>1
    <3>1. pit_mode' = "periodic" /\ pit_left' \in 1..Period
      BY <1>1 DEF CalInv, TickInv
    <3>2. isr' = "pit_eoi" => Phase' < 2 * Lag + lag'
      BY <1>1, <1>3, <1>4, <1>7, InterruptsAssumption
    <3> QED
      BY <1>3, <1>4, <1>5, <3>1, <3>2
  <2> QED
    BY <1>1, <1>2, <2>1, <2>2 DEF TickInv
<1>9. pc \in Listening => (isr' = "none" => Phase' < 3 * Lag + lag')
  BY <1>1, <1>3, <1>4, <1>7, InterruptsAssumption
<1>10. pc \notin {"before", "second_read", "after"}
  BY <1>1 DEF CalInv, TscInv, Follows
<1>11. pc = "first_wait" => CountedInv'
  BY <1>1, <1>3, <1>4, <1>5, <1>9 DEF CountedInv
<1>12. CASE pc = "second_wait"
  <2>1. Counted' /\ SinceTick(Phase + Period)
    <3>1. CASE isr = "pit_isr"
      <4>1. ~Counted /\ SinceTick(Phase + Period)
        BY <1>12, <3>1 DEF CalInv, TscInv, CountedInv
      <4> QED
        BY <1>1, <1>3, <3>1, <4>1 DEF Counted, CalInv, NumbersInv
    <3>2. CASE isr = "pit_eoi"
      <4>1. Counted /\ SinceTick(Phase + Period)
        BY <1>12, <3>2 DEF CalInv, TscInv
      <4> QED
        BY <1>1, <1>3, <3>2, <4>1 DEF Counted
    <3> QED
      BY <1>4, <1>12, <3>1, <3>2
  <2>2. SinceTick(Phase + Period)'
    BY <1>1, <1>7, <1>12, <2>1 DEF SinceTick
  <2>3. CountedInv'
    BY <1>3, <1>4, <1>5, <1>9, <1>12 DEF CountedInv
  <2>4. TscInv'
    BY <1>1, <1>12, <2>1, <2>2, <2>3 DEF TscInv
  <2>5. ApicInv'
    BY <1>1, <1>12 DEF ApicInv
  <2> QED
    BY <1>6, <1>8, <2>4, <2>5 DEF CalInv
<1>13. CASE pc # "second_wait"
  <2>1. TscInv'
    BY <1>1, <1>2, <1>10, <1>11, <1>13 DEF CalInv, TscInv
  <2>2. ApicInv'
    BY <1>1, <1>2 DEF ApicInv
  <2> QED
    BY <1>6, <1>8, <2>1, <2>2 DEF CalInv
<1> QED
  BY <1>12, <1>13

\* Time: until the next tick is due the handler of the last one has ended and
\* clock_init's loop has gone on.
LEMMA TickCal == ShortSteps /\ IInv /\ IInv' /\ CalInv /\ Tick => CalInv'
<1> SUFFICES ASSUME ShortSteps, IInv, IInv', CalInv, Tick PROVE CalInv'
  OBVIOUS
<1> USE DEF PitRuns, Threaded, Silent, Listening
<1>1. /\ UNCHANGED <<pc, isr, ticks, pit_ticks, irq_masked, pit_mode, tsc_10ms, apic_10ms>>
      /\ lag \in 0..Lag /\ lag < Lag /\ lag' = lag + 1
      /\ since' = IF Measuring THEN since + 1 ELSE since
      /\ elapsed' = IF Counting THEN elapsed + 1 ELSE elapsed
      /\ since \in Nat /\ elapsed \in Nat /\ tsc_10ms \in Nat
  BY DEF Tick, controllers, CalInv, NumbersInv
<1>2. PICK fires \in BOOLEAN :
        /\ PitTicks(fires)
        /\ requests' = requests \cup (IF fires THEN PitOutput ELSE {})
                                \cup (IF TimerFires THEN {"timer"} ELSE {})
  BY DEF Tick
<1>3. NumbersInv'
  BY <1>1, InterruptsAssumption DEF CalInv, NumbersInv
<1>4. ApicInv'
  <2>1. pc \in {"calibrate", "count_down", "read_count", "timer_register"} => Lag \in Nat
    BY InterruptsAssumption
  <2> QED
    BY <1>1, InterruptsAssumption DEF CalInv, ApicInv, Measuring, Counting
<1>5. CASE pc \notin Listening
  <2>1. TickInv' /\ TscInv'
    BY <1>1, <1>5 DEF CalInv, TickInv, TscInv
  <2> QED
    BY <1>3, <1>4, <2>1 DEF CalInv
<1>6. CASE pc \in Listening
  <2>1. /\ pit_mode = "periodic" /\ pit_left \in 1..Period /\ ~irq_masked
        /\ isr \in {"none", "pit_isr", "pit_eoi"}
        /\ requests \subseteq {"pit"} /\ requests' \subseteq {"pit"}
    BY <1>1, <1>6, Pending, PendingNext DEF CalInv, TickInv
  <2>2. /\ fires = (pit_left = 1)
        /\ pit_left' = IF pit_left = 1 THEN Period ELSE pit_left - 1
    BY <1>2, <2>1 DEF PitTicks
  <2>3. ("pit" \in requests') = ("pit" \in requests \/ fires)
    BY <1>2, <2>1 DEF PitOutput
  <2>4. Lag \in Nat /\ Period \in Nat /\ Period >= 6 * Lag /\ Phase \in Nat /\ Phase < Period
    BY <2>1, InterruptsAssumption DEF Phase, ShortSteps
  <2>5. pc \in {"second_read", "second_wait", "after"} => since' = since + 1
    BY <1>1 DEF Measuring
  <2>6. CASE ~fires
    <3>1. Phase' = Phase + 1 /\ pit_left' \in 1..Period
      <4>1. pit_left # 1
        BY <2>2, <2>6
      <4> QED
        BY <2>1, <2>2, <2>4, <4>1 DEF Phase
    <3>2. TickInv'
      BY <1>1, <1>6, <2>1, <2>3, <2>4, <2>6, <3>1 DEF CalInv, TickInv
    <3>3. TscInv'
      BY <1>1, <1>6, <2>1, <2>3, <2>4, <2>5, <2>6, <3>1
         DEF CalInv, TscInv, CountedInv, Counted, Follows, SinceTick
    <3> QED
      BY <1>3, <1>4, <3>2, <3>3 DEF CalInv
  <2>7. CASE fires
    <3>1. Phase + 1 = Period /\ Phase' = 0 /\ pit_left' \in 1..Period
      <4>1. pit_left = 1
        BY <2>2, <2>7
      <4> QED
        BY <2>1, <2>2, <2>4, <4>1 DEF Phase
    <3>2. "pit" \notin requests /\ isr = "none"
      BY <1>1, <1>6, <2>1, <2>4, <3>1 DEF CalInv, TickInv
    <3>3. pc \in {"first_wait", "second_wait"} => ~Counted
      BY <1>1, <2>4, <3>1, <3>2 DEF CalInv, TscInv, CountedInv
    <3>4. pc \notin {"before", "second_read", "after"}
      BY <1>1, <2>4, <3>1 DEF CalInv, TscInv, Follows
    <3>5. TickInv'
      BY <1>1, <1>6, <2>1, <2>4, <3>1, <3>2 DEF TickInv
    <3>6. pc = "second_wait" => SinceTick(Phase + Period)'
      BY <1>1, <2>4, <2>5, <3>1, <3>2, <3>3 DEF CalInv, TscInv, SinceTick
    <3>7. TscInv'
      BY <1>1, <1>6, <2>3, <2>7, <3>2, <3>3, <3>4, <3>6 DEF TscInv, CountedInv, Counted
    <3> QED
      BY <1>3, <1>4, <3>5, <3>7 DEF CalInv
  <2> QED
    BY <2>6, <2>7
<1> QED
  BY <1>5, <1>6

----------------------------------------------------------------------------

LEMMA InitCal == Init => CalInv
<1> SUFFICES ASSUME Init PROVE CalInv
  OBVIOUS
<1>1. NumbersInv
  BY InterruptsAssumption DEF Init, NumbersInv
<1>2. TickInv /\ TscInv /\ ApicInv
  BY DEF Init, TickInv, TscInv, ApicInv, PitRuns, Silent, Threaded, Listening
<1> QED
  BY <1>1, <1>2 DEF CalInv

LEMMA NextCal == ShortSteps /\ IInv /\ IInv' /\ CalInv /\ [Next]_vars => CalInv'
<1> SUFFICES ASSUME ShortSteps, IInv, IInv', CalInv, [Next]_vars PROVE CalInv'
  OBVIOUS
<1>1. CASE UNCHANGED vars
  BY <1>1 DEF vars, controllers, pit, timer, measures, CalInv, NumbersInv, TickInv, TscInv, ApicInv,
              CountedInv, Counted, Follows, SinceTick, Phase
<1> QED
  BY <1>1, BootCal, DeliverCal, HandlerCal, TickCal DEF Next, Cpu

\* Where both measurements stand, at every point of them: no tick of the PIT
\* is missed, and none is counted late.
THEOREM MeasuresInvariant == ShortSteps /\ Spec => []CalInv
<1>1. ASSUME ShortSteps PROVE Spec => []CalInv
  <2>1. IInv /\ IInv' /\ CalInv /\ [Next]_vars => CalInv'
    BY <1>1, NextCal
  <2> QED
    BY <2>1, InitCal, InterruptsInvariant, PTL DEF Spec
<1> QED
  BY <1>1

\* The 10 ms of clock_init and those of apic_timer_init are 10 ms up to a few
\* steps of the CPU, however fast or slow that is, if the period of the PIT
\* holds six of them.
THEOREM TenMilliseconds == ShortSteps /\ Spec => []Calibrated
<1>1. CalInv => Calibrated
  <2> SUFFICES ASSUME CalInv PROVE Calibrated
    OBVIOUS
  <2>1. /\ Period \in Nat /\ Lag \in Nat /\ since \in Nat /\ tsc_10ms \in Nat /\ apic_10ms \in Nat
    BY InterruptsAssumption DEF CalInv, NumbersInv
  <2>2. pc \in {"pit_stop", "generic_early", "deadline"} =>
          tsc_10ms >= Period - 5 * Lag /\ tsc_10ms <= Period + 5 * Lag
    BY DEF CalInv, TscInv, Silent, Threaded
  <2>3. pc = "timer_register" => apic_10ms >= tsc_10ms - Lag /\ apic_10ms <= tsc_10ms + 3 * Lag
    BY DEF CalInv, ApicInv
  <2> QED
    BY <2>1, <2>2, <2>3 DEF Calibrated, ReadingSteps
<1> QED
  BY <1>1, MeasuresInvariant, PTL

=============================================================================
