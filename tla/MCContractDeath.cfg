CONSTANTS
  Block = {b1, b2, b3, b4}
  NULL = NULL
  THREAD_COUNT = 3
  Irq = {}
  VTimer = {}
  Rules = {"pause_no_waiter", "leave_blocked_alone", "one_reaper", "one_debugger", "kill_once", "reap_handed_out", "fault_when_debugged"}
  Deaths = {TRUE, FALSE}
SPECIFICATION Spec
SYMMETRY Symmetry
INVARIANTS TypeOK DeadQueueExact NoDangling IInv
PROPERTIES DeathDelivered
