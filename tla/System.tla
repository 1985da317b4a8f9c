------------------------------- MODULE System -------------------------------
(***************************************************************************)
(* The system layer that ships with the kernel, src/system/init.c and      *)
(* kcalls.c: init spawns a debugger, a reaper and a keyboard driver and    *)
(* then writes to an unmapped address.  Each thread is its program, one    *)
(* step per kernel call; between two calls of a thread the timer or an IRQ *)
(* may come in.  A call's result is the caller's eax when it runs again.   *)
(*                                                                         *)
(* The keyboard controller is external: it holds one scan code until it is *)
(* read, and signals a new one on IRQ 1, which the interrupt controller    *)
(* remembers while the line is masked.                                     *)
(***************************************************************************)
EXTENDS Contract

CONSTANT Boots    \* whether ticks may come before init has faulted

ASSUME BootsAreBoolean == Boots \subseteq BOOLEAN
ASSUME KeyboardWired   == 1 \in Irq /\ THREAD_COUNT >= 4

VARIABLES
  pc,       \* pc[id]: the call thread id makes next
  arg,      \* arg[id]: the local variable thread, in debugger and reaper
  scancode, \* a scan code is waiting to be read from port 0x60
  irr,      \* IRQ 1 is pending in the interrupt controller
  slow      \* the boot is slow: ticks come before init has faulted

sysvars == <<kern, pc, arg, scancode, irr, slow>>

(* Thread ids, in the order thread_alloc hands them out. *)
init     == 0
debugger == 1
reaper   == 2
keyboard == 3
Program  == 0..3

SysInit ==
  /\ Init
  /\ pc  = [p \in Program |-> CASE p = init     -> "spawn_debugger"
                                [] p = debugger -> "getid"
                                [] p = reaper   -> "getid"
                                [] p = keyboard -> "irq_wait"]
  /\ arg = [p \in Program |-> 0]
  /\ scancode = FALSE
  /\ irr = FALSE
  /\ slow \in Boots

(* The running thread is program p, about to make the call named here. *)
At(p, label) == Running /\ th[image].id = p /\ pc[p] = label

Goto(p, label) == pc' = [pc EXCEPT ![p] = label]

(* The call itself: handler and rescheduling. *)
Call(handled) == kern' = int_return(handled)

eax == th[image].eax

-----------------------------------------------------------------------------
(* init() *)

InitSpawn ==
  \E step \in {<<"spawn_debugger", "spawn_reaper">>, <<"spawn_reaper", "spawn_keyboard">>,
               <<"spawn_keyboard", "fault">>} :
    /\ At(init, step[1])
    /\ Call(kcall_spawn(kern, image))
    /\ Goto(init, step[2])
    /\ UNCHANGED <<arg, scancode, irr, slow>>

(* The write to address 42, again whenever the thread runs again. *)
InitFault ==
  /\ At(init, "fault") \/ At(init, "faulted")
  /\ Call(fault_page(kern, image, 1))
  /\ Goto(init, "faulted")
  /\ UNCHANGED <<arg, scancode, irr, slow>>

-----------------------------------------------------------------------------
(* debugger(): getfault, getstate, print, then __t_kill, which is pause,   *)
(* getstate and setstate and gives up at the first error.                  *)

DebuggerGetid ==
  /\ At(debugger, "getid")
  /\ Call(kcall_gettid(kern, image))
  /\ Goto(debugger, "getfault")
  /\ UNCHANGED <<arg, scancode, irr, slow>>

DebuggerGetfault ==
  /\ At(debugger, "getfault")
  /\ Call(kcall_getfault(kern, image))
  /\ Goto(debugger, "getstate")
  /\ UNCHANGED <<arg, scancode, irr, slow>>

DebuggerGetstate ==
  /\ At(debugger, "getstate")
  /\ arg' = [arg EXCEPT ![debugger] = eax]
  /\ Call(kcall_getstate(kern, image, eax))
  /\ Goto(debugger, "kill_pause")
  /\ UNCHANGED <<scancode, irr, slow>>

KillPause ==
  /\ At(debugger, "kill_pause")
  /\ Call(kcall_pause(kern, image, arg[debugger]))
  /\ Goto(debugger, "kill_getstate")
  /\ UNCHANGED <<arg, scancode, irr, slow>>

KillGetstate ==
  /\ At(debugger, "kill_getstate")
  /\ IF eax # 0 THEN /\ Call(kcall_getfault(kern, image))
                     /\ Goto(debugger, "getstate")
     ELSE /\ Call(kcall_getstate(kern, image, arg[debugger]))
          /\ Goto(debugger, "kill_setstate")
  /\ UNCHANGED <<arg, scancode, irr, slow>>

KillSetstate ==
  /\ At(debugger, "kill_setstate")
  /\ IF eax # 0 THEN /\ Call(kcall_getfault(kern, image))
                     /\ Goto(debugger, "getstate")
     ELSE /\ Call(kcall_setstate(kern, image, arg[debugger],
                                 [dead |-> TRUE, eax |-> 1]))
          /\ Goto(debugger, "getfault")
  /\ UNCHANGED <<arg, scancode, irr, slow>>

-----------------------------------------------------------------------------
(* reaper() *)

ReaperGetid ==
  /\ At(reaper, "getid")
  /\ Call(kcall_gettid(kern, image))
  /\ Goto(reaper, "getdead")
  /\ UNCHANGED <<arg, scancode, irr, slow>>

ReaperGetdead ==
  /\ At(reaper, "getdead")
  /\ Call(kcall_getdead(kern, image))
  /\ Goto(reaper, "reap")
  /\ UNCHANGED <<arg, scancode, irr, slow>>

ReaperReap ==
  /\ At(reaper, "reap")
  /\ arg' = [arg EXCEPT ![reaper] = eax]
  /\ Call(kcall_reap(kern, image, eax))
  /\ Goto(reaper, "getdead")
  /\ UNCHANGED <<scancode, irr, slow>>

-----------------------------------------------------------------------------
(* keyboard(): wait, read port 0x60, reset.  Reading is not a kernel call. *)

KeyboardWait ==
  /\ At(keyboard, "irq_wait")
  /\ Call(kcall_wait(kern, image, 1))
  /\ Goto(keyboard, "inb")
  /\ UNCHANGED <<arg, scancode, irr, slow>>

KeyboardRead ==
  /\ At(keyboard, "inb")
  /\ scancode' = FALSE
  /\ Goto(keyboard, "irq_reset")
  /\ UNCHANGED <<kern, arg, irr, slow>>

KeyboardReset ==
  /\ At(keyboard, "irq_reset")
  /\ Call(kcall_reset(kern, image, 1))
  /\ Goto(keyboard, "irq_wait")
  /\ UNCHANGED <<arg, scancode, irr, slow>>

-----------------------------------------------------------------------------
(* Hardware *)

KeyPress ==
  /\ ~scancode
  /\ scancode' = TRUE
  /\ irr' = TRUE
  /\ UNCHANGED <<kern, pc, arg, slow>>

KeyboardIrq ==
  /\ ~kern.halted /\ irr /\ 1 \notin kern.irq_mask
  /\ Call(event_send(kern, 1))
  /\ irr' = FALSE
  /\ UNCHANGED <<pc, arg, scancode, slow>>

TimerIrq ==
  /\ ~kern.halted
  /\ slow \/ pc[init] = "faulted"
  /\ Call(timer_handler(kern, image, MAX_VTIMER))
  /\ UNCHANGED <<pc, arg, scancode, irr, slow>>

-----------------------------------------------------------------------------
InitStep     == InitSpawn \/ InitFault
DebuggerStep == \/ DebuggerGetid \/ DebuggerGetfault \/ DebuggerGetstate
                \/ KillPause \/ KillGetstate \/ KillSetstate
ReaperStep   == ReaperGetid \/ ReaperGetdead \/ ReaperReap
KeyboardStep == KeyboardWait \/ KeyboardRead \/ KeyboardReset

SysNext ==
  \/ InitStep \/ DebuggerStep \/ ReaperStep \/ KeyboardStep
  \/ KeyPress \/ KeyboardIrq \/ TimerIrq

(* The timer keeps ticking and a pending unmasked IRQ is delivered.  A     *)
(* thread that the scheduler runs again and again executes instructions    *)
(* each time, and so makes its next call: strong fairness of its steps.    *)
SysFairness ==
  /\ WF_sysvars(TimerIrq) /\ WF_sysvars(KeyboardIrq)
  /\ SF_sysvars(InitStep) /\ SF_sysvars(DebuggerStep)
  /\ SF_sysvars(ReaperStep) /\ SF_sysvars(KeyboardStep)

SysSpec     == SysInit /\ [][SysNext]_sysvars
FairSysSpec == SysSpec /\ SysFairness

-----------------------------------------------------------------------------
(* Properties *)

(* The thread debugger() is about to examine and kill is one that faulted. *)
DebuggerTarget ==
  pc[debugger] \in {"kill_pause", "kill_getstate", "kill_setstate"} =>
    arg[debugger] = init /\ pc[init] = "faulted"

(* With a boot that is done before the first tick it is. *)
QuickBootTarget == ~slow => DebuggerTarget

(* __t_kill: a faulted thread the debugger gets hold of is killed. *)
FaultedKilled ==
  (pc[init] = "faulted") ~> (kern.table[init] = NULL \/ th[kern.table[init]].dead)

(* keyboard() reads port 0x60 once for each scan code: when __irq_wait has *)
(* returned there is one that was not read before.  No latch, mask or late *)
(* reset wakes the driver twice for one interrupt.                         *)
ScanFresh == At(keyboard, "inb") => scancode

(* A scan code is always read in the end, if the boot is quick: no         *)
(* interleaving of the IRQ with the driver's wait, read and reset loses    *)
(* the interrupt for it.                                                   *)
KeysRead == ~slow => (scancode ~> ~scancode)

=============================================================================
