------------------------------- MODULE Store --------------------------------
(***************************************************************************)
(* The kernel's memory: the frame allocator takes its structs from the     *)
(* heap, the heap takes its pages from the frame allocator, and the thread *)
(* table (thread_alloc, thread_kill and setstate) takes thread structs and *)
(* FPU areas from the heap.                                                *)
(***************************************************************************)
EXTENDS Frame, Heap

CONSTANTS
  Slots,          \* slots of _thread_table
  FRAME_STRUCT,   \* sizeof(struct frame_struct)
  THREAD_STRUCT,  \* sizeof(struct thread)
  FX_AREA         \* 512 bytes

ASSUME StructsFitPage == {FRAME_STRUCT, THREAD_STRUCT, FX_AREA} \subseteq 1..PAGE_SIZE

VARIABLES
  heap,       \* the static data of heap.c
  frames,     \* addresses of the frame_structs
  structs,    \* structs[i]: address of the struct thread in slot i, or -1
  fxdata,     \* fxdata[i]: its FPU area, or -1
  lost        \* blocks, by address and size, that nothing points to any more

tvars  == <<structs, fxdata, lost>>
stvars == <<fa, added, booting, heap, frames, tvars>>

StoreInit ==
  /\ FrameInit
  /\ heap = HeapEmpty /\ frames = {} /\ lost = {}
  /\ structs = [i \in Slots |-> -1] /\ fxdata = [i \in Slots |-> -1]

Halted == fa.panicked \/ heap.panicked

(* The frames that heap_valloc takes between two states of the heap: one   *)
(* for each page of the slabs, the kernel's page tables being there.       *)
Pages(h, i) == (i.brk - h.brk) \div PAGE_SIZE

BootFrame(f) ==
  LET a == heap_alloc(heap, FRAME_STRUCT)
  IN  /\ booting /\ f \notin added
      /\ heap' = a.h
      /\ IF a.h.panicked THEN UNCHANGED <<fvars, frames>>
         ELSE AddFrame(f, Pages(heap, a.h)) /\ frames' = frames \cup {a.ret}
      /\ UNCHANGED tvars

(* n frames for heap pages; none, and the allocator is left alone. *)
Grow(n) == IF n = 0 THEN UNCHANGED fvars ELSE NewFrames(n)

(* thread_alloc.  memclr clears the pointer to the FPU area with the rest  *)
(* of the struct; the struct follows when the table is full.               *)
Spawn ==
  LET s == heap_alloc(heap, THREAD_STRUCT)
      x == heap_alloc(s.h, FX_AREA)
      h == IF s.h.panicked THEN s.h ELSE x.h
      gaps == {i \in Slots : structs[i] = -1}
      gone == {<<x.ret, FX_AREA>>}
                \cup (IF gaps = {} THEN {<<s.ret, THREAD_STRUCT>>} ELSE {})
  IN  /\ ~booting
      /\ heap' = h
      /\ Grow(Pages(heap, h))
      /\ IF h.panicked THEN UNCHANGED tvars
         ELSE /\ lost' = lost \cup gone
              /\ structs' = IF gaps = {} THEN structs
                            ELSE [structs EXCEPT ![CHOOSE i \in gaps : \A j \in gaps : i <= j]
                                    = s.ret]
              /\ UNCHANGED fxdata
      /\ UNCHANGED frames

(* KCALL_SETSTATE of a paused thread that has no FPU area. *)
Setstate(i) ==
  LET x == heap_alloc(heap, FX_AREA)
  IN  /\ structs[i] # -1 /\ fxdata[i] = -1
      /\ heap' = x.h
      /\ Grow(Pages(heap, x.h))
      /\ fxdata' = IF x.h.panicked THEN fxdata ELSE [fxdata EXCEPT ![i] = x.ret]
      /\ UNCHANGED <<frames, structs, lost>>

(* Mutant: the FPU area goes back as if it were a struct thread. *)
thread_kill_wrong_size(h, i) ==
  LET x == IF fxdata[i] = -1 THEN h ELSE heap_free(h, fxdata[i], THREAD_STRUCT)
  IN  heap_free(x, structs[i], THREAD_STRUCT)

thread_kill(h, i) ==
  LET x == IF fxdata[i] = -1 THEN h ELSE heap_free(h, fxdata[i], FX_AREA)
  IN  heap_free(x, structs[i], THREAD_STRUCT)

Kill(i) ==
  /\ structs[i] # -1
  /\ heap' = thread_kill(heap, i)
  /\ structs' = [structs EXCEPT ![i] = -1] /\ fxdata' = [fxdata EXCEPT ![i] = -1]
  /\ UNCHANGED <<fvars, frames, lost>>

StoreNext ==
  \/ /\ ~Halted
     /\ \/ \E f \in Frame : BootFrame(f)
        \/ Spawn
        \/ \E i \in Slots : Setstate(i) \/ Kill(i)
        \/ /\ \/ EndBoot
              \/ ~booting /\ NewFrames(1)
              \/ \E f \in Frame : FreeFrame(f) \/ RefFrame(f)
           /\ UNCHANGED <<heap, frames, tvars>>
  \/ Halted /\ UNCHANGED stvars

StoreSpec == StoreInit /\ [][StoreNext]_stvars

-----------------------------------------------------------------------------
(* Properties *)

(* Blocks by address and bucket: on a list, in use, or lost. *)
InBucket(A, size) == {<<a, bucket_for(size)>> : a \in A \ {-1}}
Used ==
  InBucket(frames, FRAME_STRUCT)
    \cup InBucket({structs[i] : i \in Slots}, THREAD_STRUCT)
    \cup InBucket({fxdata[i] : i \in Slots}, FX_AREA)
    \cup {<<l[1], bucket_for(l[2])>> : l \in lost}
Listed == UNION {{<<heap.bucket[b][k], b>> : k \in DOMAIN heap.bucket[b]} : b \in Bucket}
Words(block) == block[1]..(block[1] + 2 ^ block[2] - 1)

(* Through any order of boot, spawn, setstate and reap, every word of the  *)
(* heap below brk belongs to exactly one block, which is on its list once  *)
(* or in use once, never both; blocks are aligned to their size, which is  *)
(* the alignment heap_alloc promises; and brk stays below the heap's end.  *)
HeapExact ==
  ~Halted =>
  /\ Used \cap Listed = {} /\ heap.brk < HEAP_SIZE
  /\ \A x \in Used \cup Listed : x[1] % 2 ^ x[2] = 0
  /\ \A x, y \in Used \cup Listed : x # y => Words(x) \cap Words(y) = {}
  /\ UNION {Words(x) : x \in Used \cup Listed} = 0..(heap.brk - 1)
  /\ \A b \in Bucket : \A i, j \in DOMAIN heap.bucket[b] :
       heap.bucket[b][i] = heap.bucket[b][j] => i = j

(* The counts that heap_valloc prints when the heap is full are right:     *)
(* they are those of the blocks not given back, the FPU areas that         *)
(* thread_alloc loses included.                                            *)
UseCounted ==
  ~Halted => \A b \in Bucket :
    heap.analysis[b] = Cardinality({x \in Used : x[2] = b})

=============================================================================
