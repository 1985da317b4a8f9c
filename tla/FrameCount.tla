----------------------------- MODULE FrameCount -----------------------------
(***************************************************************************)
(* What the frame allocator promises: every frame of memory has a          *)
(* reference count, a frame is taken only while its count is zero, and the *)
(* emergency pool is used only when no other frame is left.                *)
(***************************************************************************)
EXTENDS Naturals, FiniteSets

CONSTANTS
  Frame,    \* frames of memory above the boot area
  POOL      \* frames of the emergency pool

VARIABLES
  ram,      \* the frames that have been added
  refs,     \* refs[f]: the references to frame f, 0 when it is free
  pool,     \* frames left in the emergency pool
  panicked  \* the pool was exhausted as well

vars == <<ram, refs, pool, panicked>>

Free == {f \in ram : refs[f] = 0}

CountInit ==
  /\ ram = {} /\ refs = [f \in Frame |-> 0]
  /\ pool = POOL /\ panicked = FALSE

(* n frames are taken: free ones, then the pool's, then the machine stops. *)
Take(n) ==
  \E T \in SUBSET Free :
    /\ Cardinality(T) <= n
    /\ Cardinality(T) < n => T = Free
    /\ refs' = [f \in Frame |-> IF f \in T THEN 1 ELSE refs[f]]
    /\ LET short == n - Cardinality(T)
       IN  /\ pool' = IF short <= pool THEN pool - short ELSE 0
           /\ panicked' = (short > pool)

Add(f, n) == f \notin ram /\ Take(n) /\ ram' = ram \cup (IF panicked' THEN {} ELSE {f})

New(n) == Take(n) /\ UNCHANGED ram

Count(f, by) ==
  /\ refs[f] > 0 /\ refs' = [refs EXCEPT ![f] = @ + 1 - by]
  /\ UNCHANGED <<ram, pool, panicked>>

CountNext ==
  /\ ~panicked
  /\ \/ \E n \in 0..2 : New(n) \/ \E f \in Frame : Add(f, n)
     \/ \E f \in Frame : Count(f, 0) \/ Count(f, 2)

CountSpec == CountInit /\ [][CountNext]_vars

=============================================================================
