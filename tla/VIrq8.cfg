CONSTANTS
  b1 = b1
  Block = {b1, b2}
  NULL = NULL
  THREAD_COUNT = 2
  Irq = {8}
  VTimer = {10}
  Rules = {"pause_no_waiter", "leave_blocked_alone", "one_reaper", "one_debugger", "kill_once", "reap_handed_out", "fault_when_debugged", "no_exception"}
  Deaths = {TRUE, FALSE}
  WIDTH = 12
  Ticks <- TickCount
  Fired <- TimersFired
SPECIFICATION MCSpec
PROPERTIES LineServed
