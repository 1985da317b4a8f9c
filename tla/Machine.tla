------------------------------ MODULE Machine -------------------------------
(***************************************************************************)
(* The kernel and its clients on the PC's interrupt hardware: the two      *)
(* 8259 interrupt controllers as interrupt.c programs them, and the timer  *)
(* of timer_handler with its counter.  Contract lets an unmasked IRQ    *)
(* come at any time, and a tick fire any virtual timers; here an IRQ is    *)
(* requested by a device, waits for the controllers, and is in service     *)
(* until irq_reset ends it.                                                *)
(*                                                                         *)
(* The controllers are external: priorities are fully nested, the second   *)
(* controller is on line 2 of the first, and irq_reset sends the           *)
(* nonspecific end-of-interrupt command.                                   *)
(***************************************************************************)
EXTENDS Contract

CONSTANTS
  Ticks,    \* values of timer_handler's counter that it tells apart
  Fired     \* the virtual timers that each of them fires: see Timer

(* A tick fires every timer from one on: those at or above the 64 Hz of    *)
(* the tick always, a slower one with all the faster ones.                 *)
ASSUME TicksWrap    == Ticks \in Nat \ {0}
ASSUME FiredFromOne ==
  \A t \in 0..(Ticks - 1) : \E j \in 0..MAX_VTIMER : Fired[t] = j..15

VARIABLES
  irr,      \* lines with a request that has not been delivered
  isr,      \* lines in service, 0 to 7 on the first controller
  tick      \* timer_handler's counter, of which tick << 10 is used

mvars == <<kern, irr, isr, tick>>

-----------------------------------------------------------------------------
(* 8259 *)

Cascade      == 2
Controller(i) == IF i < 8 THEN 0..7 ELSE 8..15

(* Whether a controller passes a request on: nothing of the same or of a   *)
(* higher priority is in service.                                          *)
Passes(i)  == i \notin kern.irq_mask /\ \A j \in isr \cap Controller(i) : i < j
Accepts(i) == Passes(i) /\ (i >= 8 => Passes(Cascade))

Acknowledge(i) == isr \cup {i} \cup (IF i >= 8 THEN {Cascade} ELSE {})

(* The nonspecific command ends the interrupt of the highest priority. *)
EndOfInterrupt(s, C) == s \ {i \in s \cap C : \A j \in s \cap C : i <= j}

(* Mutant: the second controller never hears of the end. *)
irq_reset_first_only(s, irq) == EndOfInterrupt(s, 0..7)

(* The second controller is told for the lines above 8. *)
irq_reset(s, irq) ==
  EndOfInterrupt(IF irq > 8 THEN EndOfInterrupt(s, 8..15) ELSE s, 0..7)

-----------------------------------------------------------------------------
(* timer_handler sends the timers from the first that fired. *)
First == [t \in 0..(Ticks - 1) |-> CHOOSE i \in Fired[t] : \A j \in Fired[t] : i <= j]

-----------------------------------------------------------------------------
MachineInit == Init /\ irr = {} /\ isr = {} /\ tick = 0

(* Mutant: no thread is chosen when the handler leaves none active. *)
Enter_no_schedule(handled) == ~kern.halted /\ \E k \in {handled} : kern' = iret(k)

(* int_handler: the handler's result is named once, for the evaluation. *)
Enter(handled) == ~kern.halted /\ \E k \in {handled} : Entry(k)

(* A device asks for an interrupt. *)
Request(i) ==
  /\ i \notin irr /\ irr' = irr \cup {i}
  /\ UNCHANGED <<kern, isr, tick>>

Deliver(i) ==
  /\ i \in irr /\ Accepts(i)
  /\ Enter(event_send(kern, i))
  /\ irr' = irr \ {i} /\ isr' = irq_reset(Acknowledge(i), i)
  /\ UNCHANGED tick

TimerInterrupt ==
  /\ Accepts(0)
  /\ tick' = (tick + 1) % Ticks
  /\ \E j \in {First[(tick + 1) % Ticks]} : Enter(timer_handler(kern, image, j))
  /\ isr' = irq_reset(Acknowledge(0), 0)
  /\ UNCHANGED irr

MachineNext ==
  \/ Client /\ UNCHANGED <<irr, isr, tick>>
  \/ \E i \in Irq : Request(i) \/ Deliver(i)
  \/ TimerInterrupt

(* The timer keeps ticking, and the processor takes an interrupt that the  *)
(* controllers pass on: it is on whenever a thread runs or none does, and  *)
(* handlers are short.  Nothing is assumed of the threads.                 *)
MachineFairness ==
  WF_mvars(TimerInterrupt) /\ \A i \in Irq : WF_mvars(Deliver(i))

MachineSpec == MachineInit /\ [][MachineNext]_mvars /\ MachineFairness

-----------------------------------------------------------------------------
(* Properties *)

(* On the controllers and with the timer's arithmetic, the kernel takes    *)
(* only steps that Contract allows: what is proved of Contract holds here. *)
ContractKept == Spec

(* pinion.h: EV_VTIMER(n) is fired at 2^(n-5) Hz, through the wrap of the  *)
(* tick counter.  No timer is faster than the 64 Hz of the tick.           *)
Period(n) == IF n < MAX_VTIMER THEN 2 ^ (MAX_VTIMER - n) ELSE 1
TimerRate == \A n \in VTimer : n \in Fired[tick] <=> tick % Period(n) = 0

(* irq_reset: a request is delivered, or its line is masked until a driver *)
(* resets it.  No line is shut out by what the controllers believe to be   *)
(* in service.                                                             *)
LineServed ==
  \A i \in Irq : (i \in irr) ~> (i \notin irr \/ i \in kern.irq_mask \/ kern.halted)

(* Drivers that wait for one line are all served: while interrupts keep    *)
(* coming and being reset, a waiting thread does not wait for ever.        *)
WaitsFor(id, i) == /\ kern.table[id] # NULL
                   /\ th[kern.table[id]].state = TS_WAITING
                   /\ th[kern.table[id]].event = i
DriversServed ==
  \A i \in Irq, id \in Tid :
    []<>(i \in kern.irq_mask) /\ []<>(i \notin kern.irq_mask)
      => (WaitsFor(id, i) ~> ~WaitsFor(id, i))

(* A thread that waits for a virtual timer is woken. *)
SleepersWake ==
  \A n \in VTimer, id \in Tid :
    WaitsFor(id, EV_VTIMER(n)) ~> (~WaitsFor(id, EV_VTIMER(n)) \/ kern.halted)

=============================================================================
