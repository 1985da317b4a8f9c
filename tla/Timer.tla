------------------------------- MODULE Timer --------------------------------
(***************************************************************************)
(* The arithmetic of timer_handler: which virtual timers a tick fires,     *)
(* given the tick counter, in the unsigned arithmetic of the code.         *)
(***************************************************************************)
EXTENDS Integers, Bitwise

CONSTANT WIDTH    \* bits of uint32_t

ASSUME WidthFits == WIDTH \in 11..32

pit_freq  == 64
Wrap(x)   == x % 2 ^ WIDTH

(* tick << 10 is all that is used of the counter. *)
TickCount == 2 ^ (WIDTH - 10)

(* Mutant: the tick after this one. *)
vtime_next(t) ==
  LET time == (Wrap(t * 1024) \div pit_freq) ^^ (Wrap((t + 1) * 1024) \div pit_freq)
  IN  Wrap(time + (time & Wrap(-time)) - 1)

(* The bits of time: those that the tick changed, and all below them. *)
vtime(t) ==
  LET ptime == Wrap((t - 1) * 1024) \div pit_freq
      ctime == Wrap(t * 1024) \div pit_freq
      time  == ptime ^^ ctime
  IN  Wrap(time + (time & Wrap(-time)) - 1)

(* Bit 15 - i of time selects virtual timer i. *)
TimersFired ==
  [t \in 0..(TickCount - 1) |-> {i \in 0..15 : (vtime(t) \div 2 ^ (15 - i)) % 2 = 1}]

=============================================================================
