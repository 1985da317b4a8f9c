--------------------------- MODULE ConsoleProofs ----------------------------
(***************************************************************************)
(* The screen, for any size of it and any number of threads: the cursor    *)
(* comes back however they race, and one message at a time keeps its text. *)
(***************************************************************************)
EXTENDS Console, TLAPS

(* Time limits for a leaf that names no prover: the provers in their       *)
(* default order, with time to spare.                                      *)
USE SMTT(30), ZenonT(30)

Pc  == {"out", "put", "store", "test", "shift", "reset", "move"}
Msg == {"no_setup", "no", "yes", "nl"}

(* What holds for a thread that is alone in __log. *)
Tidy(p) ==
  /\ AloneAt(p)
  /\ pc[p] = "out" => BlankFrom(cursor) /\ hw = cursor /\ cursor < End

(* The screen, its last line and one line more fit the 16-bit cursor. *)
LEMMA Sizes ==
  /\ End \in Nat /\ SCRWIDTH \in Nat /\ SCRWIDTH > 0 /\ End + SCRWIDTH < UINT16 /\ UINT16 \in Nat
  /\ SCRWIDTH * (SCRHEIGHT - 1) \in Nat /\ SCRWIDTH * (SCRHEIGHT - 1) = End - SCRWIDTH
  /\ TABSTOP \in 1..SCRWIDTH
  BY ScreenFits DEF End

(* A step of thread p keeps the invariant when p itself leaves the cursor  *)
(* on the screen or is going to scroll, and tidies up.                     *)
LEMMA OneStep ==
  ASSUME ConsoleInv, NEW p \in Printer, NEW at, NEW next \in Pc, NEW screen, NEW shown,
         Step(p, at, next, screen, shown), screen \in [0..(End - 1) -> BOOLEAN],
         cursor' \in 0..(UINT16 - 1), r' \in [Printer -> 0..(UINT16 - 1)], msg' \in [Printer -> Msg],
         \A q \in Printer \ {p} : r'[q] = r[q] /\ msg'[q] = msg[q],
         msg[p] # "no_setup", msg'[p] # "no_setup", next # "out" => msg'[p] \in {"yes", "nl"},
         cursor' >= End => Scrolling(p)' \/ (cursor >= End /\ ~Scrolling(p)),
         ~raced' /\ Tidy(p) => Tidy(p)'
  PROVE  ConsoleInv'
  <1>1. /\ pc' = [pc EXCEPT ![p] = next] /\ vid' = IF raced' THEN Blank ELSE screen
        /\ raced' = (raced \/ \E q \in Printer \ {p} : InMsg(q))
    BY DEF Step, InMsg
  <1>2. ConsoleTypeOK /\ pc \in [Printer -> Pc] /\ msg \in [Printer -> Msg]
    BY DEF ConsoleInv, ConsoleTypeOK, Pc, Msg
  <1>3. ConsoleTypeOK'
    <2>1. pc' \in [Printer -> Pc]
      BY <1>1, <1>2
    <2>2. vid' \in [0..(End - 1) -> BOOLEAN]
      BY <1>1 DEF Blank
    <2>3. raced' \in BOOLEAN
      BY <1>1, <1>2 DEF ConsoleTypeOK
    <2> QED BY <2>1, <2>2, <2>3 DEF ConsoleTypeOK, Pc, Msg
  <1>4. pc'[p] = next /\ \A q \in Printer \ {p} : pc'[q] = pc[q]
    BY <1>1, <1>2
  <1>5. \A q \in Printer : pc'[q] # "out" => InMsg(q)'
    BY <1>4 DEF ConsoleInv, InMsg
  <1>6. SetUp /\ SetUp'
    BY DEF ConsoleInv, SetUp
  <1>7. \A a, q \in Printer : msg'[a] = "no_setup" => msg'[q] = "no_setup"
    BY <1>6 DEF SetUp
  <1>8. cursor' >= End => \E q \in Printer : Scrolling(q)'
    <2>1. CASE Scrolling(p)' \/ ~(cursor' >= End)
      BY <2>1
    <2>2. CASE cursor >= End /\ ~Scrolling(p)
      <3>1. PICK q \in Printer \ {p} : Scrolling(q)
        BY <2>2 DEF ConsoleInv
      <3>2. Scrolling(q)'
        BY <1>4, <3>1 DEF Scrolling
      <3> QED BY <3>2
    <2> QED BY <2>1, <2>2
  <1>9. ASSUME ~raced'
        PROVE  ~raced /\ \A q \in Printer \ {p} : ~InMsg(q) /\ ~InMsg(q)' /\ pc'[q] = "out" /\ pc[q] = "out"
    <2>1. ~raced /\ \A q \in Printer \ {p} : ~InMsg(q)
      BY Zenon, <1>1, <1>9
    <2>2. \A q \in Printer \ {p} : pc[q] = "out" /\ ~InMsg(q)'
      BY <2>1 DEF ConsoleInv, InMsg
    <2> QED BY <1>4, <2>1, <2>2
  <1>10. ~raced' => \A a, q \in Printer : InMsg(a)' /\ InMsg(q)' => a = q
    BY <1>9
  <1>11. ASSUME ~raced'
         PROVE  /\ (\A q \in Printer : pc'[q] = "out") =>
                     BlankFrom(cursor)' /\ hw' = cursor' /\ cursor' < End
                /\ \A q \in Printer : AloneAt(q)'
    <2>1. Tidy(p)
      BY <1>6, <1>9, <1>11 DEF ConsoleInv, Tidy
    <2>2. Tidy(p)'
      BY <1>11, <2>1
    <2>3. \A q \in Printer \ {p} : AloneAt(q)'
      BY <1>9, <1>11 DEF AloneAt
    <2>4. AloneAt(p)' /\ (pc'[p] = "out" => BlankFrom(cursor)' /\ hw' = cursor' /\ cursor' < End)
      BY <2>2 DEF Tidy
    <2> QED BY <2>3, <2>4
  <1> QED BY <1>3, <1>5, <1>7, <1>8, <1>10, <1>11 DEF ConsoleInv

(* A thread is in __log while it is in printc. *)
LEMMA Facts ==
  ASSUME ConsoleInv, NEW p \in Printer
  PROVE  /\ cursor \in 0..(UINT16 - 1) /\ vid \in [0..(End - 1) -> BOOLEAN]
         /\ r \in [Printer -> 0..(UINT16 - 1)] /\ msg \in [Printer -> Msg] /\ pc[p] \in Pc
         /\ pc[p] # "out" => msg[p] \in {"yes", "nl"}
         /\ pc \in [Printer -> Pc]
  BY DEF ConsoleInv, ConsoleTypeOK, Pc, Msg, InMsg

(* __log and its conversions move nothing. *)
LEMMA LogSteps ==
  ASSUME ConsoleInv, NEW p \in Printer, Log(p) \/ Convert(p) \/ EndLog(p)
  PROVE  ConsoleInv'
  <1>1. /\ Step(p, "out", "out", vid, hw) /\ UNCHANGED <<cursor, r>>
        /\ \E m \in {"no", "yes"} : msg' = [msg EXCEPT ![p] = m]
        /\ msg[p] \in {"no", "yes", "nl"}
    <2>1. CASE Log(p)
      BY <2>1 DEF Log
    <2>2. CASE Convert(p)
      BY <2>2, Facts DEF Convert
    <2>3. CASE EndLog(p)
      BY <2>3 DEF EndLog
    <2> QED BY <2>1, <2>2, <2>3
  <1>2. /\ msg' \in [Printer -> Msg] /\ msg'[p] # "no_setup"
        /\ \A q \in Printer \ {p} : r'[q] = r[q] /\ msg'[q] = msg[q]
    BY <1>1, Facts DEF Msg
  <1>3. pc[p] = "out" /\ pc' = [pc EXCEPT ![p] = "out"]
    BY <1>1 DEF Step
  <1>4. ~Scrolling(p)
    BY <1>3 DEF Scrolling
  <1>5. ASSUME ~raced', Tidy(p) PROVE Tidy(p)'
    <2>1. vid' = vid /\ hw' = hw /\ cursor' = cursor /\ pc'[p] = "out"
      BY <1>1, <1>3, <1>5, Facts DEF Step
    <2> QED BY <1>3, <1>5, <2>1 DEF Tidy, AloneAt, BlankFrom
  <1> QED BY Zenon, <1>1, <1>2, <1>4, <1>5, Facts, OneStep DEF Pc

(* printc loads the cursor for a character: the thread is inside a         *)
(* message, and alone there if nothing raced.                              *)
LEMMA PrintCharStep ==
  ASSUME ConsoleInv, NEW p \in Printer, PrintChar(p)
  PROVE  ConsoleInv'
  <1>1. /\ Step(p, "out", "put", vid, hw) /\ UNCHANGED <<cursor, msg>> /\ msg[p] = "yes"
        /\ r' = [r EXCEPT ![p] = cursor]
    BY DEF PrintChar
  <1>2. /\ r' \in [Printer -> 0..(UINT16 - 1)] /\ r'[p] = cursor
        /\ \A q \in Printer \ {p} : r'[q] = r[q] /\ msg'[q] = msg[q]
    BY <1>1, Facts
  <1>3. pc[p] = "out" /\ pc'[p] = "put"
    BY <1>1, Facts DEF Step
  <1>4. ~Scrolling(p)
    BY <1>3 DEF Scrolling
  <1>5. ASSUME ~raced', Tidy(p) PROVE Tidy(p)'
    <2>1. vid' = vid
      BY <1>1, <1>5 DEF Step
    <2> QED BY <1>1, <1>2, <1>3, <1>5, <2>1 DEF Tidy, AloneAt, BlankFrom
  <1> QED BY Zenon, <1>1, <1>2, <1>4, <1>5, Facts, OneStep DEF Pc

(* The position after a newline or a tab. *)
LEMMA NextStop ==
  ASSUME NEW c \in Nat, NEW w \in 1..SCRWIDTH
  PROVE  /\ (c - (c % w) + w) % UINT16 \in 0..(UINT16 - 1)
         /\ c < End => (c - (c % w) + w) % UINT16 > c
  <1>1. c % w \in 0..(w - 1) /\ w \in Nat
    BY Sizes
  <1>2. PICK x \in Int : x = c - (c % w) + w
    BY <1>1
  <1>3. x > c /\ x <= c + w
    BY <1>1, <1>2
  <1>4. x % UINT16 \in 0..(UINT16 - 1)
    BY Sizes
  <1>5. c < End => x % UINT16 = x
    BY <1>3, Sizes
  <1> QED BY <1>2, <1>3, <1>4, <1>5

(* printc loads the cursor for a tab or a newline: it moves by one line at *)
(* most, over cells that are blank.                                        *)
LEMMA AdvanceStep ==
  ASSUME ConsoleInv, NEW p \in Printer, NEW w \in 1..SCRWIDTH, NEW then \in {"yes", "nl"},
         Advance(p, w, then)
  PROVE  ConsoleInv'
  <1>1. PICK x : x = (cursor - (cursor % w) + w) % UINT16
    BY Zenon
  <1>2. /\ Step(p, "out", "store", vid, hw) /\ UNCHANGED cursor /\ msg[p] = "yes"
        /\ r' = [r EXCEPT ![p] = x] /\ msg' = [msg EXCEPT ![p] = then]
    BY <1>1 DEF Advance
  <1>3. x \in 0..(UINT16 - 1) /\ (cursor < End => x > cursor) /\ cursor \in Nat
    <2>1. cursor \in Nat
      BY Facts, Sizes
    <2> QED BY Zenon, <1>1, <2>1, NextStop
  <1>4. /\ r' \in [Printer -> 0..(UINT16 - 1)] /\ r'[p] = x /\ msg' \in [Printer -> Msg] /\ msg'[p] = then
        /\ \A q \in Printer \ {p} : r'[q] = r[q] /\ msg'[q] = msg[q]
    BY <1>2, <1>3, Facts DEF Msg
  <1>5. pc[p] = "out" /\ pc'[p] = "store"
    BY <1>2, Facts DEF Step
  <1>6. ~Scrolling(p)
    BY <1>5 DEF Scrolling
  <1>7. ASSUME ~raced', Tidy(p) PROVE Tidy(p)'
    <2>1. vid' = vid
      BY <1>2, <1>7 DEF Step
    <2>2. BlankFrom(cursor) /\ cursor < End
      BY <1>5, <1>7 DEF Tidy
    <2>3. BlankFrom(r[p])'
      BY <1>3, <1>4, <2>1, <2>2, Sizes DEF BlankFrom
    <2> QED BY <1>5, <2>3 DEF Tidy, AloneAt
  <1> QED BY Zenon, <1>2, <1>3, <1>4, <1>6, <1>7, Facts, OneStep DEF Pc

(* printc loads the cursor for a character that writes no cell. *)
LEMMA PrintControlStep ==
  ASSUME ConsoleInv, NEW p \in Printer, PrintControl(p)
  PROVE  ConsoleInv'
  <1>1. /\ Step(p, "out", "test", vid, hw) /\ UNCHANGED <<cursor, msg>> /\ msg[p] = "yes"
        /\ r' = [r EXCEPT ![p] = cursor]
    BY DEF PrintControl
  <1>2. /\ r' \in [Printer -> 0..(UINT16 - 1)] /\ r'[p] = cursor
        /\ \A q \in Printer \ {p} : r'[q] = r[q] /\ msg'[q] = msg[q]
    BY <1>1, Facts
  <1>3. pc[p] = "out" /\ pc'[p] = "test"
    BY <1>1, Facts DEF Step
  <1>4. ~Scrolling(p)
    BY <1>3 DEF Scrolling
  <1>5. ASSUME ~raced', Tidy(p) PROVE Tidy(p)'
    <2>1. vid' = vid
      BY <1>1, <1>5 DEF Step
    <2> QED BY Zenon, <1>1, <1>2, <1>3, <1>5, <2>1 DEF Tidy, AloneAt, BlankFrom
  <1> QED BY Zenon, <1>1, <1>2, <1>4, <1>5, Facts, OneStep DEF Pc

(* printc writes the cell under the loaded cursor; those after it stay     *)
(* blank.                                                                  *)
LEMMA PutStep ==
  ASSUME ConsoleInv, NEW p \in Printer, Put(p)
  PROVE  ConsoleInv'
  <1>7. PICK screen : screen = [c \in DOMAIN vid |-> vid[c] \/ c = r[p]]
    BY Zenon
  <1>1. PICK v \in {r[p], cursor} :
           /\ screen = [c \in DOMAIN vid |-> vid[c] \/ c = r[p]]
           /\ Step(p, "put", "store", screen, hw) /\ UNCHANGED <<cursor, msg>>
           /\ r' = [r EXCEPT ![p] = (v + 1) % UINT16]
    BY Zenon, <1>7 DEF Put
  <1>2. /\ v \in 0..(UINT16 - 1) /\ (v + 1) % UINT16 \in 0..(UINT16 - 1)
        /\ v < End => (v + 1) % UINT16 = v + 1
    <2>1. v \in 0..(UINT16 - 1)
      BY <1>1, Facts
    <2> QED BY <2>1, Sizes
  <1>3. /\ r' \in [Printer -> 0..(UINT16 - 1)] /\ r'[p] = (v + 1) % UINT16
        /\ \A q \in Printer \ {p} : r'[q] = r[q] /\ msg'[q] = msg[q]
    BY <1>1, <1>2, Facts
  <1>4. pc[p] = "put" /\ pc'[p] = "store" /\ msg[p] \in {"yes", "nl"}
    BY <1>1, Facts DEF Step
  <1>5. ~Scrolling(p) /\ screen \in [0..(End - 1) -> BOOLEAN]
    BY <1>1, <1>4, Facts DEF Scrolling
  <1>6. ASSUME ~raced', Tidy(p) PROVE Tidy(p)'
    <2>1. vid' = screen
      BY <1>1, <1>6 DEF Step
    <2>2. BlankFrom(cursor) /\ cursor < End /\ v = cursor /\ r[p] = cursor /\ cursor \in Nat
      BY <1>1, <1>4, <1>6, Facts, Sizes DEF Tidy, AloneAt
    <2>3. r'[p] = cursor + 1
      BY <1>2, <1>3, <2>2
    <2>4. \A x \in (cursor + 1)..(End - 1) : x \in DOMAIN vid /\ ~vid[x] /\ x # r[p]
      BY <2>2, Facts, Sizes DEF BlankFrom
    <2>5. BlankFrom(r[p])'
      BY Zenon, <1>1, <2>1, <2>3, <2>4 DEF BlankFrom
    <2> QED BY <1>4, <2>5 DEF Tidy, AloneAt
  <1> QED BY Zenon, <1>1, <1>3, <1>4, <1>5, <1>6, Facts, OneStep DEF Pc

(* The thread that stores a cursor off the screen finds it in its own      *)
(* register.                                                               *)
LEMMA StoreStep ==
  ASSUME ConsoleInv, NEW p \in Printer, Store(p)
  PROVE  ConsoleInv'
  <1>1. /\ Step(p, "store", "test", vid, hw) /\ UNCHANGED <<r, msg>> /\ cursor' = r[p]
    BY DEF Store
  <1>2. pc[p] = "store" /\ pc'[p] = "test" /\ msg[p] \in {"yes", "nl"} /\ cursor' \in 0..(UINT16 - 1)
    BY <1>1, Facts DEF Step
  <1>3. cursor' >= End => Scrolling(p)'
    BY <1>1, <1>2 DEF Scrolling
  <1>4. ASSUME ~raced', Tidy(p) PROVE Tidy(p)'
    <2>1. vid' = vid
      BY <1>1, <1>4 DEF Step
    <2> QED BY <1>1, <1>2, <1>4, <2>1 DEF Tidy, AloneAt, BlankFrom
  <1> QED BY Zenon, <1>1, <1>2, <1>3, <1>4, Facts, OneStep DEF Pc

(* scroll tests the register or the cursor itself. *)
LEMMA TestStep ==
  ASSUME ConsoleInv, NEW p \in Printer, Test(p)
  PROVE  ConsoleInv'
  <1>7. PICK v \in {r[p], cursor} :
           /\ Step(p, "test", IF v >= End THEN "shift" ELSE "move", vid, hw)
           /\ UNCHANGED <<cursor, msg>> /\ r' = [r EXCEPT ![p] = 0]
    BY DEF Test, scrolls
  <1>1. PICK next :
           /\ next = IF v >= End THEN "shift" ELSE "move"
           /\ Step(p, "test", next, vid, hw) /\ UNCHANGED <<cursor, msg>>
           /\ r' = [r EXCEPT ![p] = 0]
    BY <1>7
  <1>2. /\ r' \in [Printer -> 0..(UINT16 - 1)] /\ v \in 0..(UINT16 - 1)
        /\ \A q \in Printer \ {p} : r'[q] = r[q] /\ msg'[q] = msg[q]
    BY <1>1, Facts, Sizes
  <1>3. pc[p] = "test" /\ pc'[p] = next /\ msg[p] \in {"yes", "nl"} /\ next \in {"shift", "move"}
    BY <1>1, Facts DEF Step
  <1>4. cursor' >= End => Scrolling(p)' \/ (cursor >= End /\ ~Scrolling(p))
    BY Zenon, <1>1, <1>2, <1>3, Facts, Sizes DEF Scrolling
  <1>5. ASSUME ~raced', Tidy(p) PROVE Tidy(p)'
    <2>1. vid' = vid
      BY <1>1, <1>5 DEF Step
    <2>2. v = cursor /\ BlankFrom(cursor) /\ cursor \in Nat
      BY <1>1, <1>3, <1>5, Facts, Sizes DEF Tidy, AloneAt
    <2>3. BlankFrom(cursor)' /\ (next = "move" => cursor' < End)
      BY <1>1, <2>1, <2>2, Sizes DEF BlankFrom
    <2> QED BY <1>3, <2>3 DEF Tidy, AloneAt
  <1>6. next \in Pc
    BY <1>3 DEF Pc
  <1> QED BY Zenon, <1>1, <1>2, <1>3, <1>4, <1>5, <1>6, Facts, OneStep

(* scroll moves the lines up and blanks the last one. *)
LEMMA ShiftStep ==
  ASSUME ConsoleInv, NEW p \in Printer, Shift(p)
  PROVE  ConsoleInv'
  <1>1. PICK screen : /\ screen = shifted(vid) /\ Step(p, "shift", "reset", screen, hw)
                      /\ UNCHANGED <<cursor, r, msg>>
    BY DEF Shift
  <1>2. pc[p] = "shift" /\ pc'[p] = "reset" /\ msg[p] \in {"yes", "nl"}
    BY <1>1, Facts DEF Step
  <1>3. screen \in [0..(End - 1) -> BOOLEAN]
    BY <1>1, Facts DEF shifted
  <1>4. Scrolling(p)'
    BY <1>2 DEF Scrolling
  <1>5. ASSUME ~raced', Tidy(p) PROVE Tidy(p)'
    <2>1. vid' = screen
      BY <1>1, <1>5 DEF Step
    <2>2. \A x \in (SCRWIDTH * (SCRHEIGHT - 1))..(End - 1) : x \in DOMAIN vid /\ ~(x + SCRWIDTH < End)
      BY Facts, Sizes
    <2>3. BlankFrom(SCRWIDTH * (SCRHEIGHT - 1))'
      BY Zenon, <1>1, <2>1, <2>2 DEF BlankFrom, shifted
    <2> QED BY <1>2, <2>3 DEF Tidy, AloneAt
  <1> QED BY Zenon, <1>1, <1>2, <1>3, <1>4, <1>5, Facts, OneStep DEF Pc

(* scroll puts the cursor at the start of the last line, which is on the   *)
(* screen.                                                                 *)
LEMMA ResetStep ==
  ASSUME ConsoleInv, NEW p \in Printer, Reset(p)
  PROVE  ConsoleInv'
  <1>1. /\ Step(p, "reset", "move", vid, hw) /\ UNCHANGED <<r, msg>>
        /\ cursor' = SCRWIDTH * (SCRHEIGHT - 1)
    BY DEF Reset
  <1>2. pc[p] = "reset" /\ pc'[p] = "move" /\ msg[p] \in {"yes", "nl"}
    BY <1>1, Facts DEF Step
  <1>3. cursor' \in 0..(UINT16 - 1) /\ cursor' < End
    BY <1>1, Sizes
  <1>4. ASSUME ~raced', Tidy(p) PROVE Tidy(p)'
    <2>1. vid' = vid
      BY <1>1, <1>4 DEF Step
    <2> QED BY <1>1, <1>2, <1>3, <1>4, <2>1 DEF Tidy, AloneAt, BlankFrom
  <1>5. ~(cursor' >= End)
    BY <1>3, Sizes
  <1> QED BY Zenon, <1>1, <1>2, <1>3, <1>4, <1>5, Facts, OneStep DEF Pc

(* printc tells the hardware where the cursor is, and leaves. *)
LEMMA MoveStep ==
  ASSUME ConsoleInv, NEW p \in Printer, Move(p)
  PROVE  ConsoleInv'
  <1>1. Step(p, "move", "out", vid, cursor) /\ UNCHANGED <<cursor, r, msg>>
    BY DEF Move
  <1>2. pc[p] = "move" /\ pc'[p] = "out" /\ msg[p] \in {"yes", "nl"}
    BY <1>1, Facts DEF Step
  <1>3. ~Scrolling(p)
    BY <1>2 DEF Scrolling
  <1>4. ASSUME ~raced', Tidy(p) PROVE Tidy(p)'
    <2>1. vid' = vid /\ hw' = cursor
      BY <1>1, <1>4 DEF Step
    <2> QED BY <1>1, <1>2, <1>4, <2>1 DEF Tidy, AloneAt, BlankFrom
  <1> QED BY Zenon, <1>1, <1>2, <1>3, <1>4, Facts, OneStep DEF Pc

(* __init_log: an empty screen, before anybody is in __log. *)
LEMMA InitLogStep ==
  ASSUME ConsoleInv, InitLog
  PROVE  ConsoleInv'
  <1>1. /\ vid' = Blank /\ cursor' = 0 /\ hw' = 0 /\ msg' = [p \in Printer |-> "no"]
        /\ UNCHANGED <<pc, r, raced>> /\ \A p \in Printer : msg[p] = "no_setup"
    BY DEF InitLog
  <1>2. \A p \in Printer : pc[p] = "out" /\ pc'[p] = "out" /\ msg'[p] = "no"
    BY <1>1 DEF ConsoleInv, InMsg
  <1>3. ConsoleTypeOK'
    BY <1>1, Sizes DEF ConsoleInv, ConsoleTypeOK, Blank
  <1>4. ~(cursor' >= End) /\ cursor' < End
    BY <1>1, Sizes
  <1>5. BlankFrom(cursor)' /\ \A p \in Printer : AloneAt(p)'
    BY <1>1, <1>2 DEF BlankFrom, Blank, AloneAt
  <1>6. \A p \in Printer : ~InMsg(p)'
    BY <1>2 DEF InMsg
  <1> QED BY <1>1, <1>2, <1>3, <1>4, <1>5, <1>6 DEF ConsoleInv

(* At the start no thread prints, and the cursor is on the screen. *)
LEMMA ConsoleInits ==
  ASSUME ConsoleInit
  PROVE  ConsoleInv
  <1>1. ConsoleTypeOK
    <2>1. cursor \in 0..(UINT16 - 1) /\ r \in [Printer -> 0..(UINT16 - 1)]
      BY Sizes DEF ConsoleInit
    <2>2. vid \in [0..(End - 1) -> BOOLEAN] /\ raced \in BOOLEAN
      BY Zenon DEF ConsoleInit
    <2>3. /\ pc \in [Printer -> {"out", "put", "store", "test", "shift", "reset", "move"}]
          /\ msg \in [Printer -> {"no_setup", "no", "yes", "nl"}]
      BY DEF ConsoleInit
    <2> QED BY <2>1, <2>2, <2>3 DEF ConsoleTypeOK
  <1>2. ~(cursor >= End) /\ ~SetUp
    BY Sizes, SomePrinter DEF ConsoleInit, SetUp
  <1> QED BY <1>1, <1>2 DEF ConsoleInit, ConsoleInv, InMsg

(* Every step of every thread keeps the invariant. *)
LEMMA ConsoleSteps ==
  ASSUME ConsoleInv, [ConsoleNext]_cvars
  PROVE  ConsoleInv'
  <1>1. CASE UNCHANGED cvars
    BY <1>1 DEF cvars, ConsoleInv, ConsoleTypeOK, InMsg, SetUp, BlankFrom, Scrolling, AloneAt
  <1>2. CASE InitLog
    BY <1>2, InitLogStep
  <1>3. ASSUME NEW p \in Printer,
               \/ Log(p) \/ Convert(p) \/ EndLog(p)
               \/ PrintChar(p) \/ PrintControl(p) \/ Advance(p, TABSTOP, "yes")
               \/ Advance(p, SCRWIDTH, "yes") \/ Advance(p, SCRWIDTH, "nl")
               \/ Put(p) \/ Store(p) \/ Test(p) \/ Shift(p) \/ Reset(p) \/ Move(p)
        PROVE  ConsoleInv'
    <2>1. TABSTOP \in 1..SCRWIDTH /\ SCRWIDTH \in 1..SCRWIDTH
      BY Sizes
    <2>2. CASE \E w \in 1..SCRWIDTH, then \in {"yes", "nl"} : Advance(p, w, then)
      BY <2>2, AdvanceStep
    <2>3. CASE Log(p) \/ Convert(p) \/ EndLog(p)
      BY <2>3, LogSteps
    <2> QED BY Zenon, <1>3, <2>1, <2>2, <2>3, PrintCharStep, PrintControlStep, PutStep, StoreStep,
               TestStep, ShiftStep, ResetStep, MoveStep
  <1> QED BY <1>1, <1>2, <1>3 DEF ConsoleNext

(* printc, scroll and __log keep the invariant, whatever the size of the   *)
(* screen and the number of threads that print.                            *)
THEOREM ConsoleHolds == ConsoleSpec => []ConsoleInv
  <1>1. ConsoleInit => ConsoleInv
    BY ConsoleInits
  <1>2. ConsoleInv /\ [ConsoleNext]_cvars => ConsoleInv'
    BY ConsoleSteps
  <1> QED BY <1>1, <1>2, PTL DEF ConsoleSpec

(* scroll: a cursor off the screen is always some thread's to bring back,  *)
(* although printc takes no lock and may load cursor twice.                *)
THEOREM CursorComesBack == ConsoleSpec => []CursorSettled
  <1>1. ConsoleInv => CursorSettled
    BY Zenon DEF ConsoleInv, CursorSettled, Scrolling
  <1> QED BY <1>1, ConsoleHolds, PTL

(* printc and scroll: as long as no two messages mix, the cells from the   *)
(* cursor on are blank between two characters, and the hardware's cursor   *)
(* is where the next one goes.                                             *)
THEOREM TextIsKept == ConsoleSpec => []TextKept
  <1>1. ConsoleInv => TextKept
    BY DEF ConsoleInv, TextKept, SetUp, BlankFrom
  <1> QED BY <1>1, ConsoleHolds, PTL

=============================================================================
