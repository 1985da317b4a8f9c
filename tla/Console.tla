------------------------------ MODULE Console -------------------------------
(***************************************************************************)
(* src/system/monitor.c and log.c: the screen that every thread of the     *)
(* system layer prints on with __log.  There is no lock: cursor is a       *)
(* shared variable, and the timer may take the processor from a thread     *)
(* between any two of its accesses.  The compiler may keep cursor in a     *)
(* register from the load that picks the cell to the test of scroll, or    *)
(* load it again; both are possible here.                                  *)
(*                                                                         *)
(* A cell shows text or is blank: letters and colours are left out.  Once  *)
(* two messages have been mixed the contents of the screen, which no       *)
(* control depends on, are forgotten.                                      *)
(***************************************************************************)
EXTENDS Integers, Sequences, SequencesExt

CONSTANTS
  Printer,    \* threads
  SCRWIDTH,
  SCRHEIGHT,
  TABSTOP,    \* 8 columns
  UINT16,     \* number of values of cursor
  UINT32,     \* number of values of an int, unsigned or not
  BUFFER,     \* size of printd's buffer
  Number      \* numbers that are printed

ASSUME ScreenFits ==
  /\ SCRWIDTH \in Nat \ {0} /\ SCRHEIGHT \in Nat \ {0} /\ TABSTOP \in 1..SCRWIDTH
  /\ SCRWIDTH % TABSTOP = 0 /\ UINT16 \in Nat /\ UINT16 > SCRWIDTH * SCRHEIGHT + SCRWIDTH
  /\ Number \subseteq 0..(UINT32 - 1)
ASSUME SomePrinter == Printer # {}

VARIABLES
  cursor,
  vid,      \* vid[c]: cell c shows text
  hw,       \* the position that move_cursor has told the hardware
  pc,       \* pc[p]: what thread p does next in printc; "out": not in printc
  r,        \* r[p]: the value of cursor in p's register
  msg,      \* msg[p]: p is in __log, and how far
  num,      \* num[p]: the number p is printing, and
  rest,     \* rest[p]: how many of its characters are to come
  raced     \* a thread printed while another one was in __log

cvars == <<cursor, vid, hw, pc, r, msg, num, rest, raced>>

End   == SCRWIDTH * SCRHEIGHT
Blank == [c \in 0..(End - 1) |-> FALSE]

-----------------------------------------------------------------------------
(* Numbers: the characters are digits, Minus, or what lies before digit[]. *)

Minus   == -1
Garbage == -2

low_first(n, base) ==
  LET digits[m \in 0..n] == IF m = 0 THEN <<>> ELSE <<m % base>> \o digits[m \div base]
  IN  digits[n]

(* Mutant: the loop that prints the buffer stops one short. *)
printd_short(x) ==
  LET neg == x >= UINT32 \div 2
      ds  == low_first(IF neg THEN UINT32 - x ELSE x, 10)
  IN  IF x = 0 THEN <<0>>
      ELSE (IF neg THEN <<Minus>> ELSE <<>>) \o Front(Reverse(ds))

(* x = -x leaves the least int as it is, and its remainders are negative. *)
printd(x) ==
  LET neg == x >= UINT32 \div 2
      ds  == low_first(IF neg THEN UINT32 - x ELSE x, 10)
  IN  IF x = 0 THEN <<0>>
      ELSE IF x = UINT32 \div 2 THEN <<Minus>> \o [i \in DOMAIN ds |-> Garbage]
      ELSE (IF neg THEN <<Minus>> ELSE <<>>) \o Reverse(ds)

Nibbles      == Len(low_first(UINT32 - 1, 16))
nibble(x, i) == (x \div 16 ^ i) % 16

printx(x) ==
  LET top == CHOOSE i \in 0..(Nibbles - 1) :
               nibble(x, i) # 0 /\ \A j \in (i + 1)..(Nibbles - 1) : nibble(x, j) = 0
  IN  IF x = 0 THEN <<0>> ELSE [k \in 1..(top + 1) |-> nibble(x, top + 1 - k)]

printp(x) == [k \in 1..Nibbles |-> nibble(x, Nibbles - k)]

(* kernel/debug.c *)
itoa(n, base) ==
  IF n = 0 THEN <<0>> ELSE IF base > 16 THEN <<>> ELSE Reverse(low_first(n, base))

-----------------------------------------------------------------------------
ConsoleInit ==
  /\ cursor = 0 /\ hw = End - 1 /\ vid = [c \in 0..(End - 1) |-> TRUE]
  /\ pc = [p \in Printer |-> "out"] /\ r = [p \in Printer |-> 0]
  /\ msg = [p \in Printer |-> "no_setup"]
  /\ num = [p \in Printer |-> 0] /\ rest = [p \in Printer |-> 0]
  /\ raced = FALSE

(* __init_log and clear; init calls it before it spawns the others. *)
InitLog ==
  /\ \A p \in Printer : msg[p] = "no_setup"
  /\ vid' = Blank /\ cursor' = 0 /\ hw' = 0
  /\ msg' = [p \in Printer |-> "no"]
  /\ UNCHANGED <<pc, r, num, rest, raced>>

(* A step of p: from pc at to pc next, with the given effects. *)
Step(p, at, next, screen, shown) ==
  /\ pc[p] = at /\ pc' = [pc EXCEPT ![p] = next]
  /\ raced' = (raced \/ \E q \in Printer \ {p} : msg[q] \in {"yes", "nl"})
  /\ vid' = IF raced' THEN Blank ELSE screen
  /\ hw' = IF raced' THEN 0 ELSE shown

(* The number that is being printed, forgotten after a race. *)
Printing(p, n, k) ==
  /\ num'  = [q \in Printer |-> IF raced' THEN 0 ELSE IF q = p THEN n ELSE num[q]]
  /\ rest' = [q \in Printer |-> IF raced' THEN 0 ELSE IF q = p THEN k ELSE rest[q]]

Same(p) == Printing(p, num[p], rest[p])

-----------------------------------------------------------------------------
(* log.c: a message is any characters and numbers, and a newline. *)

Log(p) ==
  /\ msg[p] = "no" /\ msg' = [msg EXCEPT ![p] = "yes"]
  /\ Step(p, "out", "out", vid, hw) /\ Same(p)
  /\ UNCHANGED <<cursor, r>>

(* A conversion of __log: %d, %x or %p. *)
Convert(p) ==
  /\ msg[p] = "yes" /\ rest[p] = 0 /\ Step(p, "out", "out", vid, hw)
  /\ \E n \in Number, print \in {"d", "x", "p"} :
       Printing(p, n, Len(CASE print = "d" -> printd(n)
                            [] print = "x" -> printx(n)
                            [] print = "p" -> printp(n)))
  /\ UNCHANGED <<cursor, r, msg>>

EndLog(p) ==
  /\ msg[p] = "nl" /\ msg' = [msg EXCEPT ![p] = "no"]
  /\ Step(p, "out", "out", vid, hw) /\ Printing(p, 0, 0)
  /\ UNCHANGED <<cursor, r>>

-----------------------------------------------------------------------------
(* printc *)

(* A character loads cursor for the address of its cell. *)
PrintChar(p) ==
  /\ msg[p] = "yes" /\ Step(p, "out", "put", vid, hw)
  /\ Printing(p, num[p], IF rest[p] > 0 THEN rest[p] - 1 ELSE 0)
  /\ r' = [r EXCEPT ![p] = cursor]
  /\ UNCHANGED <<cursor, msg>>

(* A newline or a tab computes the new position; the newline may be the    *)
(* one that ends the message.                                              *)
Advance(p, width, then) ==
  /\ msg[p] = "yes" /\ rest[p] = 0 /\ Step(p, "out", "store", vid, hw) /\ Same(p)
  /\ r' = [r EXCEPT ![p] = (cursor - (cursor % width) + width) % UINT16]
  /\ msg' = [msg EXCEPT ![p] = then]
  /\ UNCHANGED cursor

(* Any other character below ' ' prints nothing. *)
PrintControl(p) ==
  /\ msg[p] = "yes" /\ rest[p] = 0 /\ Step(p, "out", "test", vid, hw) /\ Same(p)
  /\ r' = [r EXCEPT ![p] = cursor]
  /\ UNCHANGED <<cursor, msg>>

Put(p) ==
  /\ Step(p, "put", "store", [c \in DOMAIN vid |-> vid[c] \/ c = r[p]], hw) /\ Same(p)
  /\ \E v \in {r[p], cursor} : r' = [r EXCEPT ![p] = (v + 1) % UINT16]
  /\ UNCHANGED <<cursor, msg>>

Store(p) ==
  /\ Step(p, "store", "test", vid, hw) /\ Same(p)
  /\ cursor' = r[p]
  /\ UNCHANGED <<r, msg>>

-----------------------------------------------------------------------------
(* scroll and move_cursor.  The loops are one step: what they do in        *)
(* between can only be seen by a thread that races.                        *)

(* Mutant: one cell too late. *)
scrolls_late(v) == v > End

scrolls(v) == v >= End

Test(p) ==
  /\ \E v \in {r[p], cursor} :
       Step(p, "test", IF scrolls(v) THEN "shift" ELSE "move", vid, hw)
  /\ Same(p) /\ r' = [r EXCEPT ![p] = 0]
  /\ UNCHANGED <<cursor, msg>>

(* Mutant: the last line keeps its text. *)
shifted_no_blank(v) == [c \in DOMAIN v |-> IF c + SCRWIDTH < End THEN v[c + SCRWIDTH] ELSE v[c]]

shifted(v) == [c \in DOMAIN v |-> c + SCRWIDTH < End /\ v[c + SCRWIDTH]]

Shift(p) ==
  /\ Step(p, "shift", "reset", shifted(vid), hw) /\ Same(p)
  /\ UNCHANGED <<cursor, r, msg>>

Reset(p) ==
  /\ Step(p, "reset", "move", vid, hw) /\ Same(p)
  /\ cursor' = SCRWIDTH * (SCRHEIGHT - 1)
  /\ UNCHANGED <<r, msg>>

Move(p) ==
  /\ Step(p, "move", "out", vid, cursor) /\ Same(p)
  /\ UNCHANGED <<cursor, r, msg>>

ConsoleNext ==
  \/ InitLog
  \/ \E p \in Printer :
       \/ Log(p) \/ Convert(p) \/ EndLog(p)
       \/ PrintChar(p) \/ PrintControl(p) \/ Advance(p, TABSTOP, "yes")
       \/ Advance(p, SCRWIDTH, "yes") \/ Advance(p, SCRWIDTH, "nl")
       \/ Put(p) \/ Store(p) \/ Test(p) \/ Shift(p) \/ Reset(p) \/ Move(p)

ConsoleSpec == ConsoleInit /\ [][ConsoleNext]_cvars

-----------------------------------------------------------------------------
(* Properties *)

(* scroll: however threads race in printc, a cursor that has left the      *)
(* screen is brought back.  The thread that stored it has yet to finish    *)
(* its scroll, so nobody is left to print off the screen for good.         *)
CursorSettled ==
  cursor >= End => \E p \in Printer : pc[p] \in {"test", "shift", "reset"}

(* printc and scroll: as long as no two messages mix, the cells from the   *)
(* cursor on are blank between two characters, so that text is only lost   *)
(* off the top, and the hardware's cursor is where the next one goes.      *)
TextKept ==
  ~raced /\ (\A p \in Printer : pc[p] = "out" /\ msg[p] # "no_setup") =>
    (\A c \in cursor..(End - 1) : ~vid[c]) /\ hw = cursor

(* printd, printx, printp and __itoa: the characters spell the number.     *)
(* The least int is the exception: it has no negation.                     *)
Value(ds, base) == FoldLeft(LAMBDA v, d : v * base + d, 0, ds)
Spells(ds, n, base) == Value(ds, base) = n /\ (Len(ds) > 1 => ds[1] # 0)
NumbersSpelled ==
  \A p \in Printer :
    LET n == num[p] IN
    /\ n < UINT32 \div 2 => Spells(printd(n), n, 10) /\ Len(printd(n)) <= BUFFER
    /\ n > UINT32 \div 2 => /\ Head(printd(n)) = Minus
                            /\ Spells(Tail(printd(n)), UINT32 - n, 10)
    /\ Spells(printx(n), n, 16) /\ Value(printp(n), 16) = n
    /\ \A base \in {10, 16} : Spells(itoa(n, base), n, base)

-----------------------------------------------------------------------------
(* The inductive invariant behind the first two. *)

InMsg(p)     == msg[p] \in {"yes", "nl"}
SetUp        == \A p \in Printer : msg[p] # "no_setup"
BlankFrom(c) == \A x \in c..(End - 1) : ~vid[x]

(* Thread p is going to bring the cursor back. *)
Scrolling(p) == pc[p] \in {"shift", "reset"} \/ (pc[p] = "test" /\ r[p] >= End)

(* What p, alone in __log, has left to do before the cells from the cursor *)
(* on are blank again.                                                     *)
AloneAt(p) ==
  /\ pc[p] = "put"   => r[p] = cursor /\ BlankFrom(cursor) /\ cursor < End
  /\ pc[p] = "store" => BlankFrom(r[p])
  /\ pc[p] = "test"  => r[p] = cursor /\ BlankFrom(cursor)
  /\ pc[p] = "reset" => BlankFrom(SCRWIDTH * (SCRHEIGHT - 1))
  /\ pc[p] = "move"  => BlankFrom(cursor) /\ cursor < End

ConsoleTypeOK ==
  /\ cursor \in 0..(UINT16 - 1) /\ vid \in [0..(End - 1) -> BOOLEAN] /\ raced \in BOOLEAN
  /\ pc \in [Printer -> {"out", "put", "store", "test", "shift", "reset", "move"}]
  /\ r \in [Printer -> 0..(UINT16 - 1)] /\ msg \in [Printer -> {"no_setup", "no", "yes", "nl"}]

(* Before a race at most one thread is in __log, and only a thread that is *)
(* in __log is in printc; __init_log comes before all.                     *)
ConsoleInv ==
  /\ ConsoleTypeOK
  /\ \A p \in Printer : pc[p] # "out" => InMsg(p)
  /\ \A p, q \in Printer : msg[p] = "no_setup" => msg[q] = "no_setup"
  /\ cursor >= End => \E p \in Printer : Scrolling(p)
  /\ ~raced => \A p, q \in Printer : InMsg(p) /\ InMsg(q) => p = q
  /\ ~raced /\ SetUp =>
       /\ (\A p \in Printer : pc[p] = "out") => BlankFrom(cursor) /\ hw = cursor /\ cursor < End
       /\ \A p \in Printer : AloneAt(p)

=============================================================================
