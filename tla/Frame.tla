------------------------------- MODULE Frame --------------------------------
(***************************************************************************)
(* src/kernel/frame.c: the frame allocator.  A frame has one frame_struct, *)
(* made by frame_add and never freed, so that a struct is named here by    *)
(* its frame's number (its addr field).  Free frames are on frame_list,    *)
(* allocated ones on the chain of frame_hash their number selects; links   *)
(* are kept as the code keeps them, stale prev fields included.            *)
(*                                                                         *)
(* Before memory has been found, and when it runs out, frames come from a  *)
(* pool in the boot area; these have no struct and never come back.        *)
(***************************************************************************)
EXTENDS Integers, FiniteSets

CONSTANTS
  Frame,      \* numbers of the frames that init finds in the memory map
  NOFRAME,    \* the null pointer to a frame_struct
  BUCKETS,    \* chains of frame_hash, 256 in the code
  POOL,       \* frames between _end and KERNEL_BOOT_SIZE
  MaxRef      \* bound: references to a frame

ASSUME FramesAreNumbers == Frame \subseteq Nat /\ NOFRAME \notin Frame
ASSUME SomeBuckets      == BUCKETS \in Nat \ {0} /\ POOL \in Nat
ASSUME SomeReferences   == MaxRef \in Nat \ {0}

Struct == Frame \cup {NOFRAME}

(* frame & 0xFF, the low bits of the frame's number. *)
bucket(f) == f % BUCKETS

(* What a walk along next from first meets. *)
Chain(a, first) ==
  {f \in Frame : \A S \in SUBSET Frame :
     (first \in S \cup {NOFRAME} /\ \A x \in S : a.next[x] \in S \cup {NOFRAME}) => f \in S}

frame_find(a, f) == IF f \in Chain(a, a.frame_hash[bucket(f)]) THEN f ELSE NOFRAME

frame_refc(a, f) == IF frame_find(a, f) = NOFRAME THEN 0 ELSE a.refc[f]

frame_pull(a, fs) ==
  LET p == a.prev[fs]  n == a.next[fs]
  IN  [a EXCEPT !.next = IF p = NOFRAME THEN @ ELSE [@ EXCEPT ![p] = n],
                !.frame_hash[bucket(fs)] = IF p = NOFRAME THEN n ELSE @,
                !.prev = IF n = NOFRAME THEN @ ELSE [@ EXCEPT ![n] = p]]

(* Mutant: the new first element keeps the prev it had. *)
before_stale_prev(a, fs, first) ==
  [a EXCEPT !.next[fs] = first,
            !.prev = [f \in Frame |-> IF f = first THEN fs ELSE @[f]]]

(* fs becomes the first element of the list that starts at first. *)
before(a, fs, first) ==
  [a EXCEPT !.next[fs] = first,
            !.prev = [f \in Frame |-> IF f = fs THEN NOFRAME
                                      ELSE IF f = first THEN fs ELSE @[f]]]

(* Mutant: the first free frees, whatever the count. *)
frame_free_at_once(a, f) ==
  LET fs == frame_find(a, f)
  IN  IF fs = NOFRAME THEN a
      ELSE [before(frame_pull(a, fs), fs, a.frame_list)
              EXCEPT !.frame_list = fs, !.out_of_memory = FALSE]

frame_free(a, f) ==
  LET fs == frame_find(a, f)
  IN  IF fs = NOFRAME THEN a
      ELSE IF a.refc[fs] = 1
      THEN [before(frame_pull(a, fs), fs, a.frame_list)
              EXCEPT !.frame_list = fs, !.out_of_memory = FALSE]
      ELSE [a EXCEPT !.refc[fs] = @ - 1]

(* The frame it returns is the one whose count it sets, or the next of the *)
(* pool; debug_panic when the pool is exhausted.                           *)
frame_new(a) ==
  LET fs == a.frame_list
      h  == bucket(fs)
  IN  IF a.out_of_memory \/ fs = NOFRAME
      THEN [a EXCEPT !.out_of_memory = TRUE,
                     !.oom_pool = IF @ = 0 THEN 0 ELSE @ - 1,
                     !.panicked = a.oom_pool = 0]
      ELSE [before(a, fs, a.frame_hash[h])
              EXCEPT !.frame_list = a.next[fs], !.frame_hash[h] = fs, !.refc[fs] = 1]

(* Up to two frames in a row: a page, and the page table page_touch makes. *)
frames_new(a, n) ==
  LET b == IF n = 0 THEN a ELSE frame_new(a)
  IN  IF n < 2 \/ b.panicked THEN b ELSE frame_new(b)

(* heap_alloc makes the struct, and may take n frames for that first. *)
frame_add(a, f, n) ==
  LET b == frames_new(a, n)
  IN  IF b.panicked THEN b
      ELSE [before(b, f, b.frame_list) EXCEPT !.refc[f] = 0, !.frame_list = f,
                                              !.out_of_memory = FALSE]

(* Mutant: no test that the frame was found. *)
frame_ref_unchecked(a, f) == [a EXCEPT !.refc[f] = @ + 1]

frame_ref(a, f) ==
  IF frame_find(a, f) = NOFRAME THEN a ELSE [a EXCEPT !.refc[f] = @ + 1]

-----------------------------------------------------------------------------
VARIABLES
  fa,         \* the static data of frame.c and the structs' fields
  added,      \* the frames that init has added
  booting     \* init has not left the loop over the memory map

fvars == <<fa, added, booting>>

FrameInit ==
  /\ fa = [frame_list |-> NOFRAME, frame_hash |-> [h \in 0..(BUCKETS - 1) |-> NOFRAME],
           next |-> [f \in Frame |-> NOFRAME], prev |-> [f \in Frame |-> NOFRAME],
           refc |-> [f \in Frame |-> 0], out_of_memory |-> TRUE, oom_pool |-> POOL,
           panicked |-> FALSE]
  /\ added = {}
  /\ booting = TRUE

(* The loop of init over the memory map, in the order the map gives. *)
AddFrame(f, n) ==
  /\ booting /\ f \notin added
  /\ fa' = frame_add(fa, f, n)
  /\ added' = IF fa'.panicked THEN added ELSE added \cup {f}
  /\ UNCHANGED booting

EndBoot == booting /\ booting' = FALSE /\ UNCHANGED <<fa, added>>

(* KCALL_NEWFRAME, a page or a page table for the kernel. *)
NewFrames(n) == fa' = frames_new(fa, n) /\ UNCHANGED <<added, booting>>

(* KCALL_FREEFRAME: any thread, any frame, the pool's and free ones too,   *)
(* for which nothing is found.                                             *)
FreeFrame(f) == ~booting /\ fa' = frame_free(fa, f) /\ UNCHANGED <<added, booting>>

RefFrame(f) ==
  /\ ~booting /\ frame_refc(fa, f) < MaxRef
  /\ fa' = frame_ref(fa, f)
  /\ UNCHANGED <<added, booting>>

-----------------------------------------------------------------------------
(* Properties *)

(* Every pointer is a struct's or null, and counts stay in their range. *)
FrameTypeOK ==
  /\ added \in SUBSET Frame /\ booting \in BOOLEAN
  /\ fa \in [frame_list : Struct, frame_hash : [0..(BUCKETS - 1) -> Struct],
             next : [Frame -> Struct], prev : [Frame -> Struct],
             refc : [Frame -> 0..MaxRef], out_of_memory : BOOLEAN,
             oom_pool : 0..POOL, panicked : BOOLEAN]

(* A frame that was added is on the free list or on the chain its number   *)
(* selects, never on both, and the prev links of a chain invert its next   *)
(* links, so that frame_pull takes out the struct it is given and no other.*)
ListsExact ==
  LET free     == Chain(fa, fa.frame_list)
      chain(h) == Chain(fa, fa.frame_hash[h])
  IN  /\ \A h \in 0..(BUCKETS - 1) :
           /\ chain(h) = {f \in added \ free : bucket(f) = h}
           /\ \A f \in chain(h) :
                /\ fa.refc[f] > 0
                /\ fa.prev[f] = NOFRAME <=> fa.frame_hash[h] = f
                /\ fa.next[f] # NOFRAME => fa.prev[fa.next[f]] = f
      /\ free \subseteq added
      /\ fa.out_of_memory => free = {}

(* The lists implement reference counts, read with the code's frame_refc:  *)
(* no frame is handed out twice, a frame is free again when its last       *)
(* reference goes and not before, one that is freed too often stays free,  *)
(* and the pool is the last resort.                                        *)
Counts ==
  INSTANCE FrameCount WITH ram <- added, refs <- [f \in Frame |-> frame_refc(fa, f)],
                           pool <- fa.oom_pool, panicked <- fa.panicked
CountsKept == Counts!CountSpec

=============================================================================
