-------------------------- MODULE WriteFifoProofs --------------------------
(***************************************************************************)
(* For every depth, every set of dwords and every interleaving of the two  *)
(* clocks: the types, the order of the pointers round the ring, that the   *)
(* two ports of the memory never meet on a row, what a pop takes, and that *)
(* the FIFO is a queue with commits (FifoImplementsQueue).                 *)
(*                                                                         *)
(* PointerOrder is inductive with the types.  PortsNeverMeet is not: that  *)
(* the address register is on another row than the writer rests on where   *)
(* the register was left by the last clk edge, which IndexPlace records,   *)
(* and HeadReady for a pop.                                                *)
(*                                                                         *)
(* Then, for every width of a pointer: what crosses Gray-coded is a        *)
(* pointer the reader has had (SeenIsPast).  GrayCrossing's functions are  *)
(* recursive over the bits; HoldsAll and Follows, proved from the library's*)
(* minimum of a well-founded set, stand for induction over them.           *)
(***************************************************************************)
EXTENDS WriteFifo, GrayCrossing, SequenceTheorems, WellFoundedInduction, TLAPS

(***************************************************************************)
(* The address register is on the head, and then an entry waits, or on the *)
(* row behind it.                                                          *)
(***************************************************************************)
IndexPlace ==
  \/ committed /\ read_index = Row(read_pointer)
  \/ read_index = Row(Pred(read_pointer))

(* An sclk edge, whatever it brings. *)
SclkTick ==
  \/ \E swap \in BOOLEAN : SclkIdle(swap) \/ SclkDrop(swap)
  \/ \E dword \in Dwords, swap \in BOOLEAN : SclkWrite(dword, swap)

LEMMA NextSplit == Next <=> SclkTick \/ \E pop \in BOOLEAN : ClkTick(pop)
BY DEF Next, SclkTick

-----------------------------------------------------------------------------
(* The arithmetic of the ring.                                             *)

LEMMA RingTypes ==
  ASSUME NEW p \in Pointers, NEW q \in Pointers
  PROVE  /\ Succ(p) \in Pointers
         /\ Pred(p) \in Pointers
         /\ Ahead(p, q) \in Pointers
         /\ Row(p) \in Rows
BY DepthAssumption DEF Pointers, Rows, Succ, Pred, Ahead, Row

(* A pointer behind another, seen from s, may take one step towards it.    *)
LEMMA StepTowards ==
  ASSUME NEW p \in Pointers, NEW q \in Pointers, NEW s \in Pointers,
         p # q, Ahead(p, s) <= Ahead(q, s)
  PROVE  /\ Ahead(Succ(p), s) = Ahead(p, s) + 1
         /\ Ahead(Succ(p), s) <= Ahead(q, s)
BY DepthAssumption DEF Pointers, Ahead, Succ

-----------------------------------------------------------------------------
LEMMA TypeCorrectInit == Init => TypeOK
<1> SUFFICES ASSUME Init PROVE TypeOK
  OBVIOUS
<1>1. 0 \in Pointers /\ DEPTH - 1 \in Rows /\ 0 \in 0 .. DROPPED_MAX
  BY DepthAssumption, DroppedAssumption DEF Pointers, Rows
<1>2. entries \in [Rows -> Dwords \union {Zero}]
  BY DEF Init
<1> QED
  BY <1>1, <1>2 DEF Init, TypeOK

(***************************************************************************)
(* Type correctness of the write FIFO: pointers stay POINTER_W bits wide,  *)
(* the address register names a row, rows hold dwords                      *)
(* (csp_write_fifo.sv:82-178).                                             *)
(***************************************************************************)
THEOREM TypeCorrect == Spec => []TypeOK
<1>1. Init => TypeOK
  BY TypeCorrectInit
<1>2. TypeOK /\ [Next]_vars => TypeOK'
  <2> SUFFICES ASSUME TypeOK, [Next]_vars PROVE TypeOK'
    OBVIOUS
  <2> USE DEF TypeOK
  <2>1. ASSUME NEW swap \in BOOLEAN, SclkIdle(swap) PROVE TypeOK'
    BY <2>1 DEF SclkIdle, Synchronise, Swap, clk_vars
  <2>2. ASSUME NEW dword \in Dwords, NEW swap \in BOOLEAN,
               SclkWrite(dword, swap)
        PROVE  TypeOK'
    BY <2>2, RingTypes DEF SclkWrite, Synchronise, Swap, clk_vars
  <2>3. ASSUME NEW swap \in BOOLEAN, SclkDrop(swap) PROVE TypeOK'
    BY <2>3, DroppedAssumption DEF SclkDrop, Synchronise, Swap, clk_vars
  <2>4. ASSUME NEW pop \in BOOLEAN, ClkTick(pop) PROVE TypeOK'
    <3>1. PointerStep(pop) \in BOOLEAN
      BY DEF PointerStep, committed
    <3>2. /\ read_pointer' \in Pointers
          /\ committed_pointer' \in Pointers
          /\ read_index' \in Rows
      BY <2>4, RingTypes DEF ClkTick, ReadIndex
    <3>3. /\ pop_pipe' \in BOOLEAN \X BOOLEAN
          /\ {toggle_meta', toggle_sync', toggle_seen', reading'} \subseteq BOOLEAN
      BY <2>4, <3>1 DEF ClkTick, ReadIndex, committed
    <3>4. {read_stage', head_dword'} \subseteq Dwords \union {Zero}
      BY <2>4 DEF ClkTick, ReadIndex
    <3> QED
      BY <2>4, <3>2, <3>3, <3>4 DEF ClkTick, ReadIndex, sclk_vars
  <2>5. CASE UNCHANGED vars
    BY <2>5 DEF vars, sclk_vars, clk_vars
  <2> QED
    BY <2>1, <2>2, <2>3, <2>4, <2>5 DEF Next
<1> QED
  BY <1>1, <1>2, PTL DEF Spec

-----------------------------------------------------------------------------
(* What one sclk edge, whatever it brings, does to the pointers.           *)
LEMMA SclkPointers ==
  ASSUME TypeOK, SclkTick
  PROVE  /\ read_meta' = read_pointer
         /\ read_sync' = read_meta
         /\ UNCHANGED <<read_pointer, committed_pointer, read_index>>
         /\ \/ write_pointer' = write_pointer
            \/ ~full /\ write_pointer' = Succ(write_pointer)
         /\ commit_pointer' \in {commit_pointer, write_pointer'}
BY DEF SclkTick, SclkIdle, SclkDrop, SclkWrite, Synchronise, Swap, clk_vars

(* What one clk edge does to them.                                         *)
LEMMA ClkPointers ==
  ASSUME TypeOK, NEW pop \in BOOLEAN, ClkTick(pop)
  PROVE  /\ UNCHANGED <<write_pointer, commit_pointer, read_meta, read_sync>>
         /\ committed_pointer' \in {committed_pointer, commit_pointer}
         /\ \/ read_pointer' = read_pointer
            \/ committed /\ read_pointer' = Succ(read_pointer)
         /\ \/ /\ read_pointer' # committed_pointer
               /\ read_index' = Row(read_pointer')
            \/ read_index' = Row(Pred(read_pointer'))
BY DEF ClkTick, ReadIndex, sclk_vars, PointerStep

LEMMA OrderStep ==
  ASSUME TypeOK, PointerOrder, [Next]_vars
  PROVE  PointerOrder'
<1>1. CASE SclkTick
  BY <1>1, SclkPointers, DepthAssumption
     DEF TypeOK, PointerOrder, Ahead, Succ, Pointers, full
<1>2. ASSUME NEW pop \in BOOLEAN, ClkTick(pop) PROVE PointerOrder'
  <2> DEFINE at(p) == Ahead(p, read_sync)
  <2>1. at(read_pointer') \in {at(read_pointer), at(read_pointer) + 1}
    BY <1>2, ClkPointers, StepTowards DEF TypeOK, PointerOrder, committed
  <2>2. at(read_pointer') <= at(committed_pointer)
    BY <1>2, ClkPointers, StepTowards DEF TypeOK, PointerOrder, committed
  <2>3. \A p \in Pointers : at(p) \in Int
    <3>1. read_sync \in Pointers
      BY DEF TypeOK
    <3> QED
      BY <3>1, RingTypes DEF Pointers
  <2>4. /\ at(committed_pointer) <= at(committed_pointer')
        /\ at(committed_pointer') <= at(commit_pointer)
    BY <1>2, <2>3, ClkPointers DEF TypeOK, PointerOrder
  <2>5. at(read_pointer) \in Int /\ at(read_meta) \in Int /\ at(committed_pointer) \in Int
        /\ at(committed_pointer') \in Int
    BY <1>2, <2>3, ClkPointers DEF TypeOK
  <2> QED
    BY <1>2, <2>1, <2>2, <2>4, <2>5, ClkPointers DEF PointerOrder
<1>3. CASE UNCHANGED vars
  BY <1>3 DEF vars, sclk_vars, clk_vars, PointerOrder
<1> QED
  BY <1>1, <1>2, <1>3, NextSplit

LEMMA IndexStep ==
  ASSUME TypeOK, PointerOrder, IndexPlace, [Next]_vars
  PROVE  IndexPlace'
<1> USE DepthAssumption DEF TypeOK, IndexPlace
<1>1. CASE SclkTick
  BY <1>1, SclkPointers DEF committed
<1>2. ASSUME NEW pop \in BOOLEAN, ClkTick(pop) PROVE IndexPlace'
  <2>1. CASE read_index' = Row(Pred(read_pointer'))
    BY <2>1
  <2>2. CASE read_pointer' # committed_pointer /\ read_index' = Row(read_pointer')
    <3>1. read_pointer' # committed_pointer'
      BY <1>2, <2>2, ClkPointers
         DEF PointerOrder, Ahead, Succ, Pointers, committed
    <3> QED
      BY <2>2, <3>1 DEF committed
  <2> QED
    BY <1>2, <2>1, <2>2, ClkPointers
<1>3. CASE UNCHANGED vars
  BY <1>3 DEF vars, sclk_vars, clk_vars, committed
<1> QED
  BY <1>1, <1>2, <1>3, NextSplit

(***************************************************************************)
(* The order of the pointers, for every depth: no committed entry is       *)
(* overwritten or read early (csp_write_fifo.sv:82-156).                   *)
(***************************************************************************)
THEOREM PointersOrdered == Spec => []PointerOrder
<1>1. Init => PointerOrder
  BY DepthAssumption DEF Init, PointerOrder, Ahead
<1>2. TypeOK /\ PointerOrder /\ [Next]_vars => PointerOrder'
  BY OrderStep
<1> QED
  BY <1>1, <1>2, TypeCorrect, PTL DEF Spec

(***************************************************************************)
(* The two ports of the block never meet on a row, for every depth: when   *)
(* sclk could write, clk's address register is elsewhere                   *)
(* (csp_write_fifo.sv:88-93, 163-170).                                     *)
(***************************************************************************)
THEOREM PortsApart == Spec => []PortsNeverMeet
<1>1. Init => IndexPlace
  BY DepthAssumption DEF Init, IndexPlace, Row, Pred
<1>2. TypeOK /\ PointerOrder /\ IndexPlace /\ [Next]_vars => IndexPlace'
  BY IndexStep
<1>3. TypeOK /\ PointerOrder /\ IndexPlace => PortsNeverMeet
  BY DepthAssumption
     DEF TypeOK, PointerOrder, IndexPlace, PortsNeverMeet, committed, full,
         Ahead, Row, Pred, Pointers
<1> QED
  BY <1>1, <1>2, <1>3, TypeCorrect, PointersOrdered, PTL DEF Spec

-----------------------------------------------------------------------------
(***************************************************************************)
(* Unless a commit crossed in the clock of a batch's last pop, a reader    *)
(* that may pop has its address register on the head.                      *)
(***************************************************************************)
HeadReady ==
  reading /\ committed /\ ~crossed => read_index = Row(read_pointer)

LEMMA HeadReadyStep ==
  ASSUME TypeOK, HeadReady, [Next]_vars
  PROVE  HeadReady'
<1>1. CASE SclkTick
  BY <1>1 DEF SclkTick, SclkIdle, SclkDrop, SclkWrite, Synchronise, clk_vars,
              HeadReady, committed
<1>2. ASSUME NEW pop \in BOOLEAN, ClkTick(pop) PROVE HeadReady'
  <2> SUFFICES ASSUME reading', committed', ~crossed'
               PROVE  read_index' = Row(read_pointer')
    BY DEF HeadReady
  <2>1. read_pointer # committed_pointer
    BY <1>2 DEF ClkTick, ReadIndex, committed
  <2>2. read_pointer' # committed_pointer
    <3> SUFFICES ASSUME read_pointer' = committed_pointer PROVE FALSE
      OBVIOUS
    <3>1. PointerStep(pop) /\ read_pointer' = Succ(read_pointer)
      BY <1>2, <2>1 DEF ClkTick, ReadIndex
    <3>2. ~crossing
      BY <1>2, <3>1 DEF ClkTick, ReadIndex, LastPop
    <3> QED
      BY <1>2, <3>2 DEF ClkTick, ReadIndex, committed
  <2> QED
    BY <1>2, <2>2 DEF ClkTick, ReadIndex
<1>3. CASE UNCHANGED vars
  BY <1>3 DEF vars, clk_vars, HeadReady, committed
<1> QED
  BY <1>1, <1>2, <1>3, NextSplit

(* Only a clk edge pops, and it latches the row the register was on.       *)
LEMMA PopLatches ==
  ASSUME [Next]_vars, Popped
  PROVE  reading /\ committed /\ read_stage' = entries[read_index]
<1>1. CASE SclkTick
  BY <1>1 DEF SclkTick, SclkIdle, SclkDrop, SclkWrite, Synchronise, clk_vars,
              Popped
<1>2. ASSUME NEW pop \in BOOLEAN, ClkTick(pop)
      PROVE  reading /\ committed /\ read_stage' = entries[read_index]
  BY <1>2 DEF ClkTick, ReadIndex, PointerStep, Popped
<1>3. CASE UNCHANGED vars
  BY <1>3 DEF vars, clk_vars, Popped
<1> QED
  BY <1>1, <1>2, <1>3, NextSplit

(***************************************************************************)
(* Every pop takes the head's dword, for every depth, unless the clk edge  *)
(* before was a batch's last pop with a commit crossing: the wait of       *)
(* `reading` is otherwise enough (csp_write_fifo.sv:128-133).              *)
(***************************************************************************)
THEOREM PopsTakeTheHead == Spec => PopTakesHead
<1>1. Init => HeadReady
  BY DEF Init, HeadReady
<1>2. TypeOK /\ HeadReady /\ [Next]_vars => HeadReady'
  BY HeadReadyStep
<1>3. HeadReady /\ [Next]_vars
        => [Popped /\ ~crossed => read_stage' = entries[Row(read_pointer)]]_vars
  BY PopLatches DEF HeadReady
<1> QED
  BY <1>1, <1>2, <1>3, TypeCorrect, PTL DEF Spec, PopTakesHead

(***************************************************************************)
(* Wherever commits cross, a pop takes the head or the row consumed last,  *)
(* for every depth: a dword lost to a crossing is replaced by the previous *)
(* one, never by a row that was not committed (csp_write_fifo.sv:163-170). *)
(***************************************************************************)
THEOREM PopsTakeHeadOrLast == Spec => PopTakesHeadOrLast
<1>1. Init => IndexPlace
  BY DepthAssumption DEF Init, IndexPlace, Row, Pred
<1>2. TypeOK /\ PointerOrder /\ IndexPlace /\ [Next]_vars => IndexPlace'
  BY IndexStep
<1>3. IndexPlace /\ [Next]_vars
        => [Popped => read_stage' \in {entries[Row(read_pointer)],
                                       entries[Row(Pred(read_pointer))]}]_vars
  BY PopLatches DEF IndexPlace
<1> QED
  BY <1>1, <1>2, <1>3, TypeCorrect, PointersOrdered, PTL
     DEF Spec, PopTakesHeadOrLast

-----------------------------------------------------------------------------
(* The rows from the reader to the writer, as the entries of the queue.    *)

Entries == Dwords \union {Zero}

(* The pointer that is k places past another.                              *)
LEMMA RoundTheRing ==
  ASSUME NEW b \in Nat \ {0}, NEW a \in 0 .. 2 * b - 1
  PROVE  a % b = IF a < b THEN a ELSE a - b
OBVIOUS

LEMMA PlacePast ==
  ASSUME NEW p \in Pointers, NEW k \in 0 .. DEPTH
  PROVE  (p + k) % (2 * DEPTH)
           = IF p + k < 2 * DEPTH THEN p + k ELSE p + k - 2 * DEPTH
<1> DEFINE b == 2 * DEPTH
           a == p + k
<1>1. b \in Nat \ {0} /\ a \in 0 .. 2 * b - 1
  BY DepthAssumption DEF Pointers
<1> HIDE DEF a, b
<1>2. a % b = IF a < b THEN a ELSE a - b
  BY <1>1, RoundTheRing
<1> QED
  BY <1>1, <1>2, DepthAssumption DEF a, b, Pointers

LEMMA PlaceArithmetic ==
  ASSUME NEW p \in Pointers, NEW q \in Pointers, Ahead(q, p) <= DEPTH - 1
  PROVE  /\ Ahead(q, p) \in 0 .. DEPTH - 1
         /\ \A k \in 0 .. Ahead(q, p) : Row((p + k) % (2 * DEPTH)) \in Rows
         /\ (p + Ahead(q, p)) % (2 * DEPTH) = q
         /\ \A k \in 0 .. Ahead(q, p) - 1 :
              Row((p + k) % (2 * DEPTH)) # Row(q)
         /\ p % (2 * DEPTH) = p
         /\ \A k \in 0 .. DEPTH - 1 :
              (Succ(p) + k) % (2 * DEPTH) = (p + (k + 1)) % (2 * DEPTH)
<1> USE DepthAssumption
<1>1. Ahead(q, p) \in 0 .. DEPTH - 1
  BY DEF Pointers, Ahead
<1>2. Succ(p) \in Pointers
  BY RingTypes
<1>3. ASSUME NEW k \in 0 .. Ahead(q, p)
      PROVE  /\ Row((p + k) % (2 * DEPTH)) \in Rows
             /\ k < Ahead(q, p) => Row((p + k) % (2 * DEPTH)) # Row(q)
             /\ k = Ahead(q, p) => (p + k) % (2 * DEPTH) = q
  <2>1. k \in 0 .. DEPTH
    BY <1>1
  <2>2. (p + k) % (2 * DEPTH)
           = IF p + k < 2 * DEPTH THEN p + k ELSE p + k - 2 * DEPTH
    BY <2>1, PlacePast
  <2> QED
    BY <1>1, <2>2 DEF Pointers, Rows, Row, Ahead
<1>4. ASSUME NEW k \in 0 .. DEPTH - 1
      PROVE  (Succ(p) + k) % (2 * DEPTH) = (p + (k + 1)) % (2 * DEPTH)
  <2>1. k \in 0 .. DEPTH /\ k + 1 \in 0 .. DEPTH
    OBVIOUS
  <2>2. (Succ(p) + k) % (2 * DEPTH)
           = IF Succ(p) + k < 2 * DEPTH THEN Succ(p) + k ELSE Succ(p) + k - 2 * DEPTH
    BY <1>2, <2>1, PlacePast
  <2>3. (p + (k + 1)) % (2 * DEPTH)
           = IF p + (k + 1) < 2 * DEPTH THEN p + (k + 1) ELSE p + (k + 1) - 2 * DEPTH
    BY <2>1, PlacePast
  <2> QED
    BY <2>2, <2>3 DEF Succ, Pointers
<1>5. p % (2 * DEPTH) = p
  <2>1. (p + 0) % (2 * DEPTH)
           = IF p + 0 < 2 * DEPTH THEN p + 0 ELSE p + 0 - 2 * DEPTH
    BY PlacePast
  <2> QED
    BY <2>1 DEF Pointers
<1> QED
  BY <1>1, <1>3, <1>4, <1>5

(* How far the pointers are from the reader, in their order.               *)
LEMMA Spans ==
  ASSUME TypeOK, PointerOrder
  PROVE  /\ Ahead(write_pointer, read_pointer) \in 0 .. DEPTH - 1
         /\ Ahead(commit_pointer, read_pointer)
              \in 0 .. Ahead(write_pointer, read_pointer)
         /\ Ahead(committed_pointer, read_pointer)
              \in 0 .. Ahead(commit_pointer, read_pointer)
         /\ ~full => Ahead(write_pointer, read_pointer) < DEPTH - 1
         /\ committed <=> Ahead(committed_pointer, read_pointer) > 0
BY DepthAssumption DEF TypeOK, PointerOrder, Ahead, Pointers, full, committed

ContentsFit ==
  /\ Contents \in Seq(Entries)
  /\ Len(Contents) = Ahead(write_pointer, read_pointer)
  /\ \A i \in 1 .. Len(Contents) :
       Contents[i] = entries[Row((read_pointer + i - 1) % (2 * DEPTH))]

LEMMA ContentsAre == TypeOK /\ PointerOrder => ContentsFit
<1> SUFFICES ASSUME TypeOK, PointerOrder PROVE ContentsFit
  OBVIOUS
<1> DEFINE n == Ahead(write_pointer, read_pointer)
<1>1. n \in Nat /\ read_pointer \in Pointers /\ write_pointer \in Pointers
  BY Spans DEF TypeOK
<1>2. \A i \in 1 .. n :
        entries[Row((read_pointer + i - 1) % (2 * DEPTH))] \in Entries
  <2> TAKE i \in 1 .. n
  <2>1. i - 1 \in 0 .. n /\ read_pointer + (i - 1) = read_pointer + i - 1
    BY <1>1 DEF Pointers
  <2>2. Row((read_pointer + (i - 1)) % (2 * DEPTH)) \in Rows
    BY <1>1, <2>1, Spans, PlaceArithmetic
  <2> QED
    BY <2>1, <2>2 DEF TypeOK, Entries
<1> HIDE DEF n
<1>3. [i \in 1 .. n |-> entries[Row((read_pointer + i - 1) % (2 * DEPTH))]]
        \in [1 .. n -> Entries]
  BY <1>2
<1>4. Contents \in [1 .. n -> Entries]
  BY <1>3 DEF Contents, n
<1>5. Contents \in Seq(Entries) /\ Len(Contents) = n
  BY <1>1, <1>4
<1> QED
  BY <1>5 DEF Contents, ContentsFit, n

(* A step of the sclk side that writes nothing.                            *)
LEMMA NothingWritten ==
  ASSUME TypeOK, PointerOrder, PointerOrder', NEW swap \in BOOLEAN,
         SclkIdle(swap) \/ SclkDrop(swap)
  PROVE  Queue!WriterStep
<1>1. /\ UNCHANGED <<write_pointer, read_pointer, entries, committed_pointer,
                     pop_pipe, read_stage, head_dword>>
      /\ commit_pointer' \in {commit_pointer, write_pointer}
  BY DEF SclkIdle, SclkDrop, Synchronise, Swap, clk_vars
<1>2. Contents' = Contents
  BY <1>1 DEF Contents
<1>3. Ahead(commit_pointer', read_pointer')
        \in {Ahead(commit_pointer, read_pointer), Len(Contents')}
  BY <1>1, <1>2, ContentsAre DEF ContentsFit
<1> QED
  BY <1>1, <1>2, <1>3 DEF Queue!WriterStep

(* A dword written is appended to the contents.                            *)
LEMMA DwordAppended ==
  ASSUME TypeOK, TypeOK', PointerOrder, PointerOrder',
         NEW dword \in Dwords, NEW swap \in BOOLEAN, SclkWrite(dword, swap)
  PROVE  Queue!WriterStep
<1> DEFINE n == Ahead(write_pointer, read_pointer)
<1>1. /\ UNCHANGED <<read_pointer, committed_pointer,
                     pop_pipe, read_stage, head_dword>>
      /\ commit_pointer' \in {commit_pointer, write_pointer'}
      /\ write_pointer' = Succ(write_pointer)
      /\ entries' = [entries EXCEPT ![Row(write_pointer)] = dword]
      /\ ~full
  BY DEF SclkWrite, Synchronise, Swap, clk_vars
<1>2. /\ n \in 0 .. DEPTH - 1 /\ n < DEPTH - 1
      /\ Ahead(write_pointer', read_pointer') = n + 1
  BY <1>1, Spans, DepthAssumption DEF TypeOK, Ahead, Succ, Pointers
<1>3. /\ Contents \in Seq(Entries) /\ Len(Contents) = n
      /\ \A i \in 1 .. n :
           Contents[i] = entries[Row((read_pointer + i - 1) % (2 * DEPTH))]
  BY ContentsAre DEF ContentsFit
<1>4. /\ Contents' \in Seq(Entries) /\ Len(Contents') = n + 1
      /\ \A i \in 1 .. n + 1 :
           Contents'[i] = entries'[Row((read_pointer + i - 1) % (2 * DEPTH))]
  <2>1. ContentsFit'
    BY ContentsAre, PTL
  <2> QED
    BY <1>1, <1>2, <2>1 DEF ContentsFit
<1>5. \A i \in 1 .. n + 1 : Contents'[i] = IF i <= n THEN Contents[i] ELSE dword
  <2> TAKE i \in 1 .. n + 1
  <2>1. read_pointer \in Pointers /\ write_pointer \in Pointers /\ n <= DEPTH - 1
        /\ i - 1 \in 0 .. n /\ read_pointer + (i - 1) = read_pointer + i - 1
    BY <1>2 DEF TypeOK, Pointers
  <2>2. Row(write_pointer) \in Rows
    BY <2>1, RingTypes
  <2>3. CASE i <= n
    <3>1. i - 1 \in 0 .. n - 1 /\ i \in 1 .. n
      BY <1>2, <2>3
    <3>2. Row((read_pointer + (i - 1)) % (2 * DEPTH)) \in Rows \ {Row(write_pointer)}
      BY <2>1, <3>1, PlaceArithmetic
    <3>3. entries'[Row((read_pointer + (i - 1)) % (2 * DEPTH))]
            = entries[Row((read_pointer + (i - 1)) % (2 * DEPTH))]
      BY <1>1, <3>2 DEF TypeOK
    <3> QED
      BY <1>3, <1>4, <2>1, <2>3, <3>1, <3>3
  <2>4. CASE ~(i <= n)
    <3>1. i - 1 = n
      BY <1>2, <2>4
    <3>2. (read_pointer + (i - 1)) % (2 * DEPTH) = write_pointer
      BY <2>1, <3>1, PlaceArithmetic
    <3>3. entries'[Row(write_pointer)] = dword
      BY <1>1, <2>2 DEF TypeOK
    <3> QED
      BY <1>4, <2>1, <2>4, <3>2, <3>3
  <2> QED
    BY <2>3, <2>4
<1>6. Contents' = Append(Contents, dword)
  <2>1. dword \in Entries
    BY DEF Entries
  <2>2. /\ Append(Contents, dword) \in Seq(Entries)
        /\ Len(Append(Contents, dword)) = n + 1
        /\ \A i \in 1 .. n + 1 :
             Append(Contents, dword)[i] = IF i <= n THEN Contents[i] ELSE dword
    BY <1>2, <1>3, <2>1, AppendProperties
  <2> QED
    BY <1>4, <1>5, <2>2, SeqEqual
<1>7. Ahead(commit_pointer', read_pointer')
        \in {Ahead(commit_pointer, read_pointer), Len(Contents')}
  BY <1>1, <1>2, <1>4
<1> QED
  BY <1>1, <1>2, <1>3, <1>6, <1>7 DEF Queue!WriterStep

(* A clk edge that pops nothing moves the pipe, and may learn of a commit. *)
LEMMA PipeMoves ==
  ASSUME TypeOK, PointerOrder, NEW pop \in BOOLEAN, ClkTick(pop), ~PointerStep(pop)
  PROVE  Queue!ReaderStep
<1>1. /\ UNCHANGED <<read_pointer, write_pointer, commit_pointer, entries>>
      /\ committed_pointer' \in {committed_pointer, commit_pointer}
      /\ pop_pipe' = <<FALSE, pop_pipe[1]>> /\ head_dword' = read_stage
  BY DEF ClkTick, sclk_vars, PointerStep
<1>2. Contents' = Contents
  BY <1>1 DEF Contents
<1>3. <<Stage(pop_pipe'[1], read_stage'), Stage(pop_pipe'[2], head_dword')>>
        = <<Zero, Stage(pop_pipe[1], read_stage)>>
  BY <1>1 DEF Stage
<1>4. Ahead(committed_pointer', read_pointer')
        \in {Ahead(committed_pointer, read_pointer), Ahead(commit_pointer, read_pointer)}
  BY <1>1
<1> QED
  BY <1>1, <1>2, <1>3, <1>4 DEF Queue!ReaderStep

(* A pop takes the first of the contents into the pipe.                    *)
LEMMA HeadTaken ==
  ASSUME TypeOK, TypeOK', PointerOrder, PointerOrder', HeadReady, ~crossed,
         NEW pop \in BOOLEAN, ClkTick(pop), PointerStep(pop)
  PROVE  Queue!ReaderStep
<1> DEFINE n == Ahead(write_pointer, read_pointer)
<1>1. /\ UNCHANGED <<write_pointer, commit_pointer, entries>>
      /\ read_pointer' = Succ(read_pointer)
      /\ committed_pointer' \in {committed_pointer, commit_pointer}
      /\ pop_pipe' = <<TRUE, pop_pipe[1]>> /\ head_dword' = read_stage
      /\ read_stage' = entries[Row(read_pointer)]
      /\ committed
  BY DEF ClkTick, sclk_vars, PointerStep, HeadReady
<1>2. /\ n \in 1 .. DEPTH - 1 /\ Ahead(committed_pointer, read_pointer) > 0
      /\ Ahead(write_pointer, Succ(read_pointer)) = n - 1
      /\ Ahead(commit_pointer, Succ(read_pointer))
           = Ahead(commit_pointer, read_pointer) - 1
      /\ Ahead(committed_pointer, Succ(read_pointer))
           = Ahead(committed_pointer, read_pointer) - 1
  BY <1>1, Spans, DepthAssumption DEF TypeOK, Ahead, Succ, Pointers
<1>3. /\ Contents \in Seq(Entries) /\ Len(Contents) = n
      /\ \A i \in 1 .. n :
           Contents[i] = entries[Row((read_pointer + i - 1) % (2 * DEPTH))]
  BY ContentsAre DEF ContentsFit
<1>4. /\ Contents' \in Seq(Entries) /\ Len(Contents') = n - 1
      /\ \A i \in 1 .. n - 1 :
           Contents'[i] = entries[Row((Succ(read_pointer) + i - 1) % (2 * DEPTH))]
  <2>1. ContentsFit'
    BY ContentsAre, PTL
  <2> QED
    BY <1>1, <1>2, <2>1 DEF ContentsFit
<1>5. read_pointer \in Pointers /\ write_pointer \in Pointers /\ n <= DEPTH - 1
  BY <1>2 DEF TypeOK
<1>6. \A i \in 1 .. n - 1 : Contents'[i] = Contents[i + 1]
  <2> TAKE i \in 1 .. n - 1
  <2>1. /\ i - 1 \in 0 .. DEPTH - 1 /\ i \in 1 .. n /\ i + 1 \in 1 .. n
        /\ Succ(read_pointer) + (i - 1) = Succ(read_pointer) + i - 1
        /\ read_pointer + ((i - 1) + 1) = read_pointer + (i + 1) - 1
    <3>1. read_pointer \in Int /\ Succ(read_pointer) \in Int
      BY <1>5, RingTypes DEF Pointers
    <3>2. i \in Int /\ 1 <= i /\ i <= n - 1 /\ n \in Int
      BY <1>2
    <3> QED
      BY <1>5, <3>1, <3>2, DepthAssumption
  <2>2. (Succ(read_pointer) + (i - 1)) % (2 * DEPTH)
          = (read_pointer + ((i - 1) + 1)) % (2 * DEPTH)
    BY <1>5, <2>1, PlaceArithmetic
  <2> QED
    BY <1>3, <1>4, <2>1, <2>2
<1>7. Contents' = Tail(Contents)
  <2>1. Contents # <<>>
    BY <1>2, <1>3, EmptySeq
  <2>2. /\ Tail(Contents) \in Seq(Entries)
        /\ Len(Tail(Contents)) = n - 1
        /\ \A i \in 1 .. n - 1 : Tail(Contents)[i] = Contents[i + 1]
    BY <1>2, <1>3, <2>1, HeadTailProperties
  <2> QED
    BY <1>4, <1>6, <2>2, SeqEqual
<1>8. read_stage' = Head(Contents)
  <2>1. read_pointer % (2 * DEPTH) = read_pointer
    BY <1>5, PlaceArithmetic
  <2>2. read_pointer + 1 - 1 = read_pointer
    BY <1>5 DEF Pointers
  <2>3. 1 \in 1 .. n
    BY <1>2
  <2>4. Head(Contents) = Contents[1]
    BY <1>3
  <2> QED
    BY <1>1, <1>3, <2>1, <2>2, <2>3, <2>4
<1>9. <<Stage(pop_pipe'[1], read_stage'), Stage(pop_pipe'[2], head_dword')>>
        = <<Head(Contents), Stage(pop_pipe[1], read_stage)>>
  BY <1>1, <1>8 DEF Stage
<1>10. Ahead(committed_pointer', read_pointer')
         \in {Ahead(committed_pointer, read_pointer) - 1,
              Ahead(commit_pointer, read_pointer) - 1}
  BY <1>1, <1>2
<1> QED
  BY <1>1, <1>2, <1>7, <1>9, <1>10 DEF Queue!ReaderStep

(***************************************************************************)
(* The FIFO implements the commit queue, for every depth, whatever the     *)
(* dwords and however the two clocks fall: every entry committed is        *)
(* delivered once, in order, a batch becoming visible at once, every step  *)
(* but the pop that PopTakesHead excepts being one of the queue's          *)
(* (csp_write_fifo.sv:1-43, 82-178).                                       *)
(***************************************************************************)
THEOREM FifoImplementsQueue == Spec => ImplementsQueue
<1>1. Init => HeadReady /\ PointerOrder
  BY DepthAssumption DEF Init, HeadReady, PointerOrder, Ahead
<1>2. Init => Queue!Init
  <2> SUFFICES ASSUME Init PROVE Queue!Init
    OBVIOUS
  <2>1. Ahead(write_pointer, read_pointer) = 0
        /\ Ahead(commit_pointer, read_pointer) = 0
        /\ Ahead(committed_pointer, read_pointer) = 0
    BY DepthAssumption DEF Init, Ahead
  <2>2. TypeOK /\ PointerOrder
    BY <1>1, TypeCorrectInit
  <2>3. Contents = <<>>
    BY <2>1, <2>2, ContentsAre, EmptySeq DEF ContentsFit
  <2>4. <<Stage(pop_pipe[1], read_stage), Stage(pop_pipe[2], head_dword)>>
          = <<Zero, Zero>>
    BY DEF Init, Stage
  <2> QED
    BY <2>1, <2>3, <2>4 DEF Queue!Init
<1>3. TypeOK /\ TypeOK' /\ PointerOrder /\ PointerOrder' /\ HeadReady /\ [Next]_vars
        => [~crossed => [Queue!Next]_(Queue!vars)]_vars
  <2> SUFFICES ASSUME TypeOK, TypeOK', PointerOrder, PointerOrder', HeadReady,
                      Next, ~crossed
               PROVE  Queue!Next
    BY DEF Queue!vars, vars
  <2>1. ASSUME NEW swap \in BOOLEAN, SclkIdle(swap) \/ SclkDrop(swap)
        PROVE  Queue!Next
    BY <2>1, NothingWritten DEF Queue!Next
  <2>2. ASSUME NEW dword \in Dwords, NEW swap \in BOOLEAN, SclkWrite(dword, swap)
        PROVE  Queue!Next
    BY <2>2, DwordAppended DEF Queue!Next
  <2>3. ASSUME NEW pop \in BOOLEAN, ClkTick(pop) PROVE Queue!Next
    BY <2>3, PipeMoves, HeadTaken DEF Queue!Next
  <2> QED
    BY <2>1, <2>2, <2>3 DEF Next
<1>4. TypeOK /\ HeadReady /\ [Next]_vars => HeadReady'
  BY HeadReadyStep
<1> QED
  BY <1>1, <1>2, <1>3, <1>4, TypeCorrect, PointersOrdered, PTL
  DEF Spec, ImplementsQueue

-----------------------------------------------------------------------------
(***************************************************************************)
(* The read pointer's way to sclk (GrayCrossing).                          *)
(***************************************************************************)
(* A set of numbers that holds the first and each next one holds all.      *)
LEMMA HoldsAll ==
  ASSUME NEW n \in Nat, NEW S, 0 \in S, \A k \in 1 .. n : k - 1 \in S => k \in S
  PROVE  \A k \in 0 .. n : k \in S
<1> DEFINE Left == {k \in 0 .. n : k \notin S}
           Less == {p \in Nat \X Nat : p[1] < p[2]}
<1> SUFFICES ASSUME Left # {} PROVE FALSE
  OBVIOUS
<1>1. IsWellFoundedOn(Less, Nat)
  BY NatLessThanWellFounded, Zenon DEF OpToRel
<1>2. Left \in SUBSET Nat
  OBVIOUS
<1>3. PICK d \in Left : \A e \in Left : ~ (<<e, d>> \in Less)
  <2> HIDE DEF Less, Left
  <2> QED
    BY <1>1, <1>2, WFMin
<1>4. d \in 0 .. n /\ d \notin S
  OBVIOUS
<1>5. d - 1 \in Nat /\ d - 1 \in 0 .. n /\ d \in 1 .. n
  BY <1>4
<1>6. d - 1 \in Left
  BY <1>4, <1>5
<1>7. <<d - 1, d>> \in Less
  BY <1>4, <1>5
<1> QED
  BY <1>3, <1>6, <1>7

(* A function whose values follow from each other exists.                  *)
LEMMA Follows ==
  ASSUME NEW n \in Nat, NEW first \in Nat, NEW next \in [(1 .. n) \X Nat -> Nat]
  PROVE  \E f \in [0 .. n -> Nat] : f[0] = first /\ \A k \in 1 .. n : f[k] = next[<<k, f[k - 1]>>]
<1> DEFINE Made(f, m) == f[0] = first /\ \A k \in 1 .. m : f[k] = next[<<k, f[k - 1]>>]
           S == {m \in 0 .. n : \E f \in [0 .. m -> Nat] : Made(f, m)}
<1>1. 0 \in S
  <2>1. PICK f : f = [k \in 0 .. 0 |-> first]
    OBVIOUS
  <2>2. f \in [0 .. 0 -> Nat] /\ Made(f, 0) /\ 0 \in 0 .. n
    BY <2>1
  <2> HIDE DEF Made
  <2> QED
    BY <2>2
<1>2. \A m \in 1 .. n : m - 1 \in S => m \in S
  <2> SUFFICES ASSUME NEW m \in 1 .. n, m - 1 \in S PROVE m \in S
    OBVIOUS
  <2>1. PICK f \in [0 .. m - 1 -> Nat] : Made(f, m - 1)
    OBVIOUS
  <2> DEFINE g == [k \in 0 .. m |-> IF k = m THEN next[<<m, f[m - 1]>>] ELSE f[k]]
  <2>2. f[m - 1] \in Nat /\ next[<<m, f[m - 1]>>] \in Nat
    <3>1. f[m - 1] \in Nat
      OBVIOUS
    <3> QED
      BY <3>1
  <2>3. g \in [0 .. m -> Nat]
    BY <2>2
  <2>4. g[m] = next[<<m, f[m - 1]>>] /\ \A k \in 0 .. m - 1 : g[k] = f[k]
    OBVIOUS
  <2>5. Made(g, m)
    <3>1. g[0] = first
      BY <2>1, <2>4
    <3>2. ASSUME NEW k \in 1 .. m PROVE g[k] = next[<<k, g[k - 1]>>]
      <4>1. k - 1 \in 0 .. m - 1 /\ g[k - 1] = f[k - 1]
        BY <2>4
      <4>2. CASE k = m
        BY <2>4, <4>1, <4>2
      <4>3. CASE k # m
        <5>1. k \in 1 .. m - 1 /\ k \in 0 .. m - 1
          BY <4>3
        <5>2. f[k] = next[<<k, f[k - 1]>>]
          BY <2>1, <5>1
        <5>3. g[k] = f[k]
          BY <2>4, <5>1
        <5> HIDE DEF g
        <5> QED
          BY <4>1, <5>2, <5>3
      <4> QED
        BY <4>2, <4>3
    <3> QED
      BY <3>1, <3>2
  <2> HIDE DEF g
  <2>6. m \in 0 .. n
    OBVIOUS
  <2> QED
    BY <2>3, <2>5, <2>6
<1>3. n \in S
  <2> HIDE DEF S
  <2> QED
    BY <1>1, <1>2, HoldsAll
<1> QED
  BY <1>3

-----------------------------------------------------------------------------
(* Powers of two, and shifted pointers.                                    *)
LEMMA PowerIs ==
  /\ power \in [0 .. POINTER_W -> Nat] /\ power[0] = 1
  /\ \A k \in 0 .. POINTER_W : power[k] >= 1
  /\ \A k \in 1 .. POINTER_W : power[k] = 2 * power[k - 1]
<1> DEFINE next == [x \in (1 .. POINTER_W) \X Nat |-> 2 * x[2]]
           Is(f) == f = [k \in 0 .. POINTER_W |-> IF k = 0 THEN 1 ELSE 2 * f[k - 1]]
<1>1. PICK f \in [0 .. POINTER_W -> Nat] :
        f[0] = 1 /\ \A k \in 1 .. POINTER_W : f[k] = next[<<k, f[k - 1]>>]
  <2>1. next \in [(1 .. POINTER_W) \X Nat -> Nat]
    OBVIOUS
  <2>2. POINTER_W \in Nat /\ 1 \in Nat
    BY WidthAssumption
  <2> HIDE DEF next
  <2> QED
    BY <2>1, <2>2, Follows, ZenonT(40)
<1>2. \A k \in 1 .. POINTER_W : f[k] = 2 * f[k - 1]
  <2> TAKE k \in 1 .. POINTER_W
  <2>1. f[k - 1] \in Nat
    BY WidthAssumption
  <2>2. next[<<k, f[k - 1]>>] = 2 * f[k - 1]
    BY <2>1
  <2> QED
    BY <1>1, <2>2
<1>3. Is(f)
  <2> HIDE DEF next
  <2>3. f[0] = 1
    BY <1>1
  <2>1. \A k \in 0 .. POINTER_W : f[k] = IF k = 0 THEN 1 ELSE 2 * f[k - 1]
    BY <1>2, <2>3, WidthAssumption
  <2>2. f = [k \in 0 .. POINTER_W |-> f[k]]
    OBVIOUS
  <2> QED
    BY <2>1, <2>2
<1>4. Is(power)
  BY <1>3, Zenon DEF power
<1>5. \A k \in 0 .. POINTER_W : power[k] = IF k = 0 THEN 1 ELSE 2 * power[k - 1]
  BY <1>4
<1>6. \A k \in 0 .. POINTER_W : power[k] \in Nat /\ power[k] >= 1
  <2> DEFINE S == {k \in 0 .. POINTER_W : power[k] \in Nat /\ power[k] >= 1}
  <2>1. 0 \in S
    BY <1>5, WidthAssumption
  <2>2. ASSUME NEW k \in 1 .. POINTER_W, k - 1 \in S PROVE k \in S
    <3>1. k \in 0 .. POINTER_W /\ k # 0
      BY WidthAssumption
    <3>2. power[k] = 2 * power[k - 1] /\ power[k - 1] \in Nat /\ power[k - 1] >= 1
      BY <1>5, <2>2, <3>1
    <3> QED
      BY <3>1, <3>2
  <2> HIDE DEF S
  <2>3. \A k \in 0 .. POINTER_W : k \in S
    BY <2>1, <2>2, HoldsAll, WidthAssumption
  <2> QED
    BY <2>3 DEF S
<1>7. power \in [0 .. POINTER_W -> Nat]
  <2>1. power = [k \in 0 .. POINTER_W |-> power[k]]
    BY <1>4, <1>5
  <2> QED
    BY <1>6, <2>1
<1>8. power[0] = 1 /\ \A k \in 1 .. POINTER_W : power[k] = 2 * power[k - 1]
  BY <1>5, WidthAssumption
<1> QED
  BY <1>6, <1>7, <1>8

LEMMA ShiftedIs ==
  ASSUME NEW n \in Nat
  PROVE  /\ shifted(n) \in [0 .. POINTER_W -> Nat] /\ shifted(n)[0] = n
         /\ \A k \in 1 .. POINTER_W : shifted(n)[k] = shifted(n)[k - 1] \div 2
<1> DEFINE next == [x \in (1 .. POINTER_W) \X Nat |-> x[2] \div 2]
           Is(f) == f = [k \in 0 .. POINTER_W |-> IF k = 0 THEN n ELSE f[k - 1] \div 2]
           right == shifted(n)
<1>1. PICK f \in [0 .. POINTER_W -> Nat] :
        f[0] = n /\ \A k \in 1 .. POINTER_W : f[k] = next[<<k, f[k - 1]>>]
  <2>1. next \in [(1 .. POINTER_W) \X Nat -> Nat]
    OBVIOUS
  <2>2. POINTER_W \in Nat
    BY WidthAssumption
  <2> HIDE DEF next
  <2> QED
    BY <2>1, <2>2, Follows, Zenon
<1>2. \A k \in 1 .. POINTER_W : f[k] = f[k - 1] \div 2
  <2> TAKE k \in 1 .. POINTER_W
  <2>1. f[k - 1] \in Nat
    BY WidthAssumption
  <2>2. next[<<k, f[k - 1]>>] = f[k - 1] \div 2
    BY <2>1
  <2> QED
    BY <1>1, <2>2
<1>3. Is(f)
  <2> HIDE DEF next
  <2>3. f[0] = n
    BY <1>1
  <2>1. \A k \in 0 .. POINTER_W : f[k] = IF k = 0 THEN n ELSE f[k - 1] \div 2
    BY <1>2, <2>3, WidthAssumption
  <2>2. f = [k \in 0 .. POINTER_W |-> f[k]]
    OBVIOUS
  <2> QED
    BY <2>1, <2>2
<1>4. Is(right)
  BY <1>3, Zenon DEF shifted
<1> HIDE DEF right
<1>5. \A k \in 0 .. POINTER_W : right[k] = IF k = 0 THEN n ELSE right[k - 1] \div 2
  BY <1>4
<1>6. \A k \in 0 .. POINTER_W : right[k] \in Nat
  <2> DEFINE S == {k \in 0 .. POINTER_W : right[k] \in Nat}
  <2>1. 0 \in S
    BY <1>5, WidthAssumption
  <2>2. ASSUME NEW k \in 1 .. POINTER_W, k - 1 \in S PROVE k \in S
    <3>1. k \in 0 .. POINTER_W /\ k # 0
      BY WidthAssumption
    <3>2. right[k] = right[k - 1] \div 2 /\ right[k - 1] \in Nat
      BY <1>5, <2>2, <3>1
    <3> QED
      BY <3>1, <3>2
  <2> HIDE DEF S
  <2>3. \A k \in 0 .. POINTER_W : k \in S
    BY <2>1, <2>2, HoldsAll, WidthAssumption
  <2> QED
    BY <2>3 DEF S
<1>7. right \in [0 .. POINTER_W -> Nat]
  <2>1. right = [k \in 0 .. POINTER_W |-> right[k]]
    BY <1>4, <1>5
  <2> QED
    BY <1>6, <2>1
<1>8. right[0] = n /\ \A k \in 1 .. POINTER_W : right[k] = right[k - 1] \div 2
  BY <1>5, WidthAssumption
<1> QED
  BY <1>7, <1>8 DEF right

(* A pointer shifted by k bits has k bits fewer; by all of them, none.     *)
LEMMA ShiftedBelow ==
  ASSUME NEW n \in GrayPointers
  PROVE  /\ n \in Nat
         /\ \A k \in 0 .. POINTER_W : shifted(n)[k] < power[POINTER_W - k]
         /\ shifted(n)[POINTER_W] = 0
<1>1. n \in Nat /\ n < power[POINTER_W]
  BY PowerIs, WidthAssumption DEF GrayPointers, Wrap
<1> DEFINE right == shifted(n)
           S == {k \in 0 .. POINTER_W : right[k] < power[POINTER_W - k]}
<1>2. /\ right \in [0 .. POINTER_W -> Nat] /\ right[0] = n
      /\ \A k \in 1 .. POINTER_W : right[k] = right[k - 1] \div 2
  BY <1>1, ShiftedIs
<1> HIDE DEF right
<1>3. 0 \in S
  BY <1>1, <1>2, WidthAssumption
<1>4. \A k \in 1 .. POINTER_W : k - 1 \in S => k \in S
  <2> SUFFICES ASSUME NEW k \in 1 .. POINTER_W, k - 1 \in S PROVE k \in S
    OBVIOUS
  <2>1. POINTER_W - k \in 0 .. POINTER_W /\ POINTER_W - (k - 1) \in 1 .. POINTER_W
        /\ (POINTER_W - (k - 1)) - 1 = POINTER_W - k
    BY WidthAssumption
  <2>2. power[POINTER_W - (k - 1)] = 2 * power[POINTER_W - k] /\ power[POINTER_W - k] \in Nat
    BY <2>1, PowerIs
  <2>3. right[k - 1] \in Nat /\ right[k] = right[k - 1] \div 2 /\ right[k - 1] < power[POINTER_W - (k - 1)]
    BY <1>2, WidthAssumption
  <2> QED
    BY <2>2, <2>3, WidthAssumption
<1>5. \A k \in 0 .. POINTER_W : k \in S
  <2> HIDE DEF S
  <2> QED
    BY <1>3, <1>4, HoldsAll, WidthAssumption
<1>6. right[POINTER_W] < power[POINTER_W - POINTER_W] /\ right[POINTER_W] \in Nat
  BY <1>2, <1>5, WidthAssumption
<1>7. right[POINTER_W] = 0
  BY <1>6, PowerIs, WidthAssumption
<1> QED
  BY <1>1, <1>5, <1>7 DEF right

(* A code has a bit for each bit of the pointer.                           *)
LEMMA CodeType ==
  ASSUME NEW n \in Nat
  PROVE  /\ to_gray(n) \in Codes
         /\ \A i \in Bits : to_gray(n)[i] = (shifted(n)[i] + shifted(n)[i + 1]) % 2
<1>1. ASSUME NEW i \in Bits
      PROVE  /\ (shifted(n)[i] + shifted(n)[i + 1]) % 2 \in {0, 1}
             /\ to_gray(n)[i] = (shifted(n)[i] + shifted(n)[i + 1]) % 2
  <2>1. i \in 0 .. POINTER_W /\ i + 1 \in 0 .. POINTER_W
    BY WidthAssumption DEF Bits
  <2>2. shifted(n)[i] \in Nat /\ shifted(n)[i + 1] \in Nat
    BY <2>1, ShiftedIs
  <2> QED
    BY <2>2 DEF to_gray
<1>2. to_gray(n) = [i \in Bits |-> (shifted(n)[i] + shifted(n)[i + 1]) % 2]
  BY DEF to_gray
<1>3. to_gray(n) \in Codes
  <2> HIDE DEF to_gray
  <2> QED
    BY <1>1, <1>2 DEF Codes
<1> QED
  BY <1>1, <1>3

(* What is coded is decoded: from the top bit down, the decoder has the    *)
(* pointer shifted by the bits still to come.                              *)
LEMMA Decoded ==
  ASSUME NEW n \in GrayPointers
  PROVE  from_gray(to_gray(n)) = n
<1> DEFINE gray == to_gray(n)
           right == shifted(n)
           Is(f) == f = [k \in 0 .. POINTER_W |->
                           IF k = 0 THEN 0 ELSE (2 * f[k - 1]) + ((f[k - 1] + gray[POINTER_W - k]) % 2)]
           down == CHOOSE f : Is(f)
           d == [k \in 0 .. POINTER_W |-> right[POINTER_W - k]]
<1>1. from_gray(gray) = down[POINTER_W]
  BY Zenon DEF from_gray
<1>2. /\ n \in Nat
      /\ right \in [0 .. POINTER_W -> Nat] /\ right[0] = n /\ right[POINTER_W] = 0
      /\ \A k \in 1 .. POINTER_W : right[k] = right[k - 1] \div 2
  BY ShiftedBelow, ShiftedIs
<1>3. \A i \in Bits : gray[i] = (right[i] + right[i + 1]) % 2
  BY <1>2, CodeType
<1> HIDE DEF right, gray
<1>4. ASSUME NEW k \in 1 .. POINTER_W, NEW a, a = right[POINTER_W - (k - 1)]
      PROVE  right[POINTER_W - k] = (2 * a) + ((a + gray[POINTER_W - k]) % 2)
  <2>1. /\ POINTER_W - k \in Bits /\ POINTER_W - k \in 0 .. POINTER_W
        /\ POINTER_W - (k - 1) \in 1 .. POINTER_W
        /\ (POINTER_W - (k - 1)) - 1 = POINTER_W - k
        /\ (POINTER_W - k) + 1 = POINTER_W - (k - 1)
    BY WidthAssumption DEF Bits
  <2> DEFINE b == right[POINTER_W - k]
  <2>2. b \in Nat /\ a = b \div 2
    BY <1>2, <1>4, <2>1
  <2>3. gray[POINTER_W - k] = (b + a) % 2
    BY <1>3, <1>4, <2>1
  <2> HIDE DEF b
  <2>4. b = (2 * a) + ((a + ((b + a) % 2)) % 2)
    BY <2>2
  <2> QED
    BY <2>3, <2>4 DEF b
<1>5. Is(d)
  <2>1. \A k \in 0 .. POINTER_W : d[k] = right[POINTER_W - k]
    OBVIOUS
  <2>2. d[0] = 0
    BY <1>2, <2>1, WidthAssumption
  <2> HIDE DEF d
  <2>3. ASSUME NEW k \in 1 .. POINTER_W
        PROVE  d[k] = (2 * d[k - 1]) + ((d[k - 1] + gray[POINTER_W - k]) % 2)
    <3>1. d[k - 1] = right[POINTER_W - (k - 1)] /\ d[k] = right[POINTER_W - k]
      BY <2>1, WidthAssumption
    <3> QED
      BY <1>4, <3>1
  <2>4. \A k \in 0 .. POINTER_W :
          d[k] = IF k = 0 THEN 0 ELSE (2 * d[k - 1]) + ((d[k - 1] + gray[POINTER_W - k]) % 2)
    BY <2>2, <2>3, WidthAssumption
  <2>5. d = [k \in 0 .. POINTER_W |-> d[k]]
    BY DEF d
  <2> QED
    BY <2>4, <2>5
<1>6. Is(down)
  <2> HIDE DEF Is, d
  <2> QED
    BY <1>5
<1> HIDE DEF down
<1>7. \A k \in 0 .. POINTER_W :
        down[k] = IF k = 0 THEN 0 ELSE (2 * down[k - 1]) + ((down[k - 1] + gray[POINTER_W - k]) % 2)
  BY <1>6
<1> DEFINE S == {k \in 0 .. POINTER_W : down[k] = right[POINTER_W - k]}
<1>8. 0 \in S
  BY <1>2, <1>7, WidthAssumption
<1>9. \A k \in 1 .. POINTER_W : k - 1 \in S => k \in S
  <2> SUFFICES ASSUME NEW k \in 1 .. POINTER_W, k - 1 \in S PROVE k \in S
    OBVIOUS
  <2>1. down[k] = (2 * down[k - 1]) + ((down[k - 1] + gray[POINTER_W - k]) % 2)
    BY <1>7, WidthAssumption
  <2>2. down[k - 1] = right[POINTER_W - (k - 1)]
    OBVIOUS
  <2> QED
    BY <1>4, <2>1, <2>2, WidthAssumption
<1>10. \A k \in 0 .. POINTER_W : k \in S
  <2> HIDE DEF S
  <2> QED
    BY <1>8, <1>9, HoldsAll, WidthAssumption
<1>11. down[POINTER_W] = right[POINTER_W - POINTER_W]
  BY <1>10, WidthAssumption
<1> QED
  BY <1>1, <1>2, <1>11, WidthAssumption DEF gray

-----------------------------------------------------------------------------
(* The codes of a pointer and the next differ in one bit.                  *)
OneBit(a, b) ==
  \A i, j \in Bits : a[i] # b[i] /\ a[j] # b[j] => i = j

(* Below the wrap: the carry of + 1 runs up from the lowest bit and stops, *)
(* and only where it stops is the code's bit another.                      *)
LEMMA CarryStops ==
  ASSUME NEW n \in Nat
  PROVE  OneBit(to_gray(n), to_gray(n + 1))
<1> DEFINE s == shifted(n)
           t == shifted(n + 1)
           a == to_gray(n)
           b == to_gray(n + 1)
<1>1. /\ s \in [0 .. POINTER_W -> Nat] /\ s[0] = n
      /\ \A k \in 1 .. POINTER_W : s[k] = s[k - 1] \div 2
      /\ t \in [0 .. POINTER_W -> Nat] /\ t[0] = n + 1
      /\ \A k \in 1 .. POINTER_W : t[k] = t[k - 1] \div 2
  BY ShiftedIs
<1>2. \A i \in Bits : a[i] = (s[i] + s[i + 1]) % 2 /\ b[i] = (t[i] + t[i + 1]) % 2
  BY CodeType
<1> HIDE DEF s, t, a, b
<1>3. \A k \in 0 .. POINTER_W : t[k] = s[k] \/ t[k] = s[k] + 1
  <2> DEFINE S == {k \in 0 .. POINTER_W : t[k] = s[k] \/ t[k] = s[k] + 1}
  <2>1. 0 \in S
    BY <1>1, WidthAssumption
  <2>2. \A k \in 1 .. POINTER_W : k - 1 \in S => k \in S
    <3> SUFFICES ASSUME NEW k \in 1 .. POINTER_W, k - 1 \in S PROVE k \in S
      OBVIOUS
    <3>1. /\ s[k - 1] \in Nat /\ t[k - 1] \in Nat
          /\ s[k] = s[k - 1] \div 2 /\ t[k] = t[k - 1] \div 2
      BY <1>1, WidthAssumption
    <3>2. t[k - 1] = s[k - 1] \/ t[k - 1] = s[k - 1] + 1
      OBVIOUS
    <3>3. t[k] = s[k] \/ t[k] = s[k] + 1
      BY <3>1, <3>2
    <3> QED
      BY <3>3, WidthAssumption
  <2>3. \A k \in 0 .. POINTER_W : k \in S
    <3> HIDE DEF S
    <3> QED
      BY <2>1, <2>2, HoldsAll, WidthAssumption
  <2> QED
    BY <2>3
<1>4. ASSUME NEW i \in 0 .. POINTER_W, t[i] = s[i], NEW j \in 0 .. POINTER_W, i <= j
      PROVE  t[j] = s[j]
  <2> DEFINE S == {k \in 0 .. POINTER_W : i <= k => t[k] = s[k]}
  <2>1. 0 \in S
    BY <1>4, WidthAssumption
  <2>2. \A k \in 1 .. POINTER_W : k - 1 \in S => k \in S
    <3> SUFFICES ASSUME NEW k \in 1 .. POINTER_W, k - 1 \in S, i <= k PROVE t[k] = s[k]
      BY WidthAssumption
    <3>1. CASE i = k
      BY <1>4, <3>1
    <3>2. CASE i # k
      <4>1. t[k - 1] = s[k - 1]
        BY <3>2
      <4> QED
        BY <1>1, <4>1
    <3> QED
      BY <3>1, <3>2
  <2>3. \A k \in 0 .. POINTER_W : k \in S
    <3> HIDE DEF S
    <3> QED
      BY <2>1, <2>2, HoldsAll, WidthAssumption
  <2> QED
    BY <1>4, <2>3
<1>5. ASSUME NEW i \in Bits, a[i] # b[i]
      PROVE  t[i] = s[i] + 1 /\ t[i + 1] = s[i + 1]
  <2>1. i \in 0 .. POINTER_W /\ i + 1 \in 0 .. POINTER_W /\ i <= i + 1
    BY WidthAssumption DEF Bits
  <2>2. s[i] \in Nat /\ t[i] \in Nat /\ s[i + 1] \in Nat /\ t[i + 1] \in Nat
    BY <1>1, <2>1
  <2>3. (s[i] + s[i + 1]) % 2 # (t[i] + t[i + 1]) % 2
    BY <1>2, <1>5
  <2>4. t[i] = s[i] => t[i + 1] = s[i + 1]
    BY <1>4, <2>1
  <2>5. (t[i] = s[i] \/ t[i] = s[i] + 1) /\ (t[i + 1] = s[i + 1] \/ t[i + 1] = s[i + 1] + 1)
    BY <1>3, <2>1
  <2> QED
    BY <2>2, <2>3, <2>4, <2>5
<1>6. ASSUME NEW i \in Bits, NEW j \in Bits, a[i] # b[i], a[j] # b[j], i < j
      PROVE  FALSE
  <2>1. t[i + 1] = s[i + 1] /\ t[j] = s[j] + 1
    BY <1>5, <1>6
  <2>2. i + 1 \in 0 .. POINTER_W /\ j \in 0 .. POINTER_W /\ i + 1 <= j
    BY <1>6, WidthAssumption DEF Bits
  <2>3. t[j] = s[j] /\ s[j] \in Nat
    BY <1>1, <1>4, <2>1, <2>2
  <2> QED
    BY <2>1, <2>3
<1>7. OneBit(a, b)
  <2> SUFFICES ASSUME NEW i \in Bits, NEW j \in Bits, a[i] # b[i], a[j] # b[j] PROVE i = j
    BY DEF OneBit
  <2>1. ~ (i < j) /\ ~ (j < i)
    BY <1>6
  <2> QED
    BY <2>1, WidthAssumption DEF Bits
<1> QED
  BY <1>7 DEF a, b

(* At the wrap: every shift of the last pointer is all ones, so its code   *)
(* has the top bit alone, and the code of 0 has none.                      *)
LEMMA WrapStops ==
  OneBit(to_gray(Wrap - 1), to_gray(0))
<1> DEFINE last == Wrap - 1
           s == shifted(last)
           t == shifted(0)
           a == to_gray(last)
           b == to_gray(0)
           S == {k \in 0 .. POINTER_W : s[k] = power[POINTER_W - k] - 1 /\ t[k] = 0
                                        /\ power[POINTER_W - k] >= 1}
<1>1. last \in Nat /\ last = power[POINTER_W] - 1 /\ \A k \in 0 .. POINTER_W : power[k] >= 1
  <2>1. power[POINTER_W] >= 1 /\ power[POINTER_W] \in Nat
    BY PowerIs, WidthAssumption
  <2> QED
    BY <2>1, PowerIs DEF Wrap
<1> HIDE DEF last
<1>2. /\ s \in [0 .. POINTER_W -> Nat] /\ s[0] = last
      /\ \A k \in 1 .. POINTER_W : s[k] = s[k - 1] \div 2
      /\ t \in [0 .. POINTER_W -> Nat] /\ t[0] = 0
      /\ \A k \in 1 .. POINTER_W : t[k] = t[k - 1] \div 2
  BY <1>1, ShiftedIs
<1>3. \A i \in Bits : a[i] = (s[i] + s[i + 1]) % 2 /\ b[i] = (t[i] + t[i + 1]) % 2
  BY <1>1, CodeType
<1> HIDE DEF s, t, a, b
<1>4. 0 \in S
  BY <1>1, <1>2, WidthAssumption
<1>5. \A k \in 1 .. POINTER_W : k - 1 \in S => k \in S
  <2> SUFFICES ASSUME NEW k \in 1 .. POINTER_W, k - 1 \in S PROVE k \in S
    OBVIOUS
  <2>1. POINTER_W - k \in 0 .. POINTER_W /\ POINTER_W - (k - 1) \in 1 .. POINTER_W
        /\ (POINTER_W - (k - 1)) - 1 = POINTER_W - k
    BY WidthAssumption
  <2>2. /\ power[POINTER_W - (k - 1)] = 2 * power[POINTER_W - k]
        /\ power[POINTER_W - k] \in Nat /\ power[POINTER_W - k] >= 1
    BY <1>1, <2>1, PowerIs
  <2>3. /\ s[k] = s[k - 1] \div 2 /\ t[k] = t[k - 1] \div 2
        /\ s[k - 1] = power[POINTER_W - (k - 1)] - 1 /\ t[k - 1] = 0
    BY <1>2
  <2>4. s[k] = power[POINTER_W - k] - 1 /\ t[k] = 0
    BY <2>2, <2>3
  <2> QED
    BY <2>2, <2>4, WidthAssumption
<1>6. \A k \in 0 .. POINTER_W : k \in S
  <2> HIDE DEF S
  <2> QED
    BY <1>4, <1>5, HoldsAll, WidthAssumption
<1>7. ASSUME NEW i \in Bits, i # POINTER_W - 1
      PROVE  a[i] = b[i]
  <2>1. /\ i \in 0 .. POINTER_W /\ i + 1 \in 0 .. POINTER_W
        /\ POINTER_W - i \in 1 .. POINTER_W /\ POINTER_W - (i + 1) \in 1 .. POINTER_W
        /\ (POINTER_W - i) - 1 \in 0 .. POINTER_W /\ (POINTER_W - (i + 1)) - 1 \in 0 .. POINTER_W
    BY <1>7, WidthAssumption DEF Bits
  <2>2. /\ s[i] = power[POINTER_W - i] - 1 /\ s[i + 1] = power[POINTER_W - (i + 1)] - 1
        /\ t[i] = 0 /\ t[i + 1] = 0
    BY <1>6, <2>1
  <2> DEFINE x == power[(POINTER_W - i) - 1]
             y == power[(POINTER_W - (i + 1)) - 1]
  <2>3. power[POINTER_W - i] = 2 * x /\ power[POINTER_W - (i + 1)] = 2 * y /\ x \in Nat /\ y \in Nat
        /\ x >= 1 /\ y >= 1
    BY <1>1, <2>1, PowerIs
  <2>4. a[i] = ((2 * x) - 1 + ((2 * y) - 1)) % 2 /\ b[i] = (0 + 0) % 2
    <3> HIDE DEF x, y
    <3> QED
      BY <1>3, <2>2, <2>3
  <2> HIDE DEF x, y
  <2>5. ((2 * x) - 1 + ((2 * y) - 1)) % 2 = 0
    BY <2>3
  <2> QED
    BY <2>4, <2>5
<1>8. OneBit(a, b)
  BY <1>7 DEF OneBit
<1> QED
  BY <1>8 DEF a, b, last

(* So whatever mixture of the old bits and the new a sample catches, it is *)
(* the old code or the new.                                                *)
LEMMA CaughtWhole ==
  ASSUME NEW o \in GrayPointers, NEW caught \in Codes,
         \A i \in Bits : caught[i] = to_gray(Stepped(o))[i] \/ caught[i] = to_gray(o)[i]
  PROVE  caught = to_gray(o) \/ caught = to_gray(Stepped(o))
<1>1. /\ o \in Nat /\ Stepped(o) \in Nat
      /\ OneBit(to_gray(o), to_gray(Stepped(o)))
  <2>1. o \in Nat
    BY ShiftedBelow
  <2>2. CASE o = Wrap - 1
    BY <2>1, <2>2, WrapStops DEF Stepped
  <2>3. CASE o # Wrap - 1
    BY <2>1, <2>3, CarryStops DEF Stepped
  <2> QED
    BY <2>1, <2>2, <2>3
<1> DEFINE a == to_gray(o)
           b == to_gray(Stepped(o))
<1>2. a \in Codes /\ b \in Codes
  BY <1>1, CodeType
<1>3. OneBit(a, b) /\ \A i \in Bits : caught[i] = b[i] \/ caught[i] = a[i]
  BY <1>1
<1> HIDE DEF a, b
<1>4. caught = a \/ caught = b
  <2>1. CASE \A i \in Bits : caught[i] = a[i]
    BY <1>2, <2>1 DEF Codes
  <2>2. CASE \E i \in Bits : caught[i] # a[i]
    <3>1. PICK i \in Bits : caught[i] # a[i]
      BY <2>2
    <3>2. \A j \in Bits : caught[j] = b[j]
      BY <1>3, <3>1 DEF OneBit
    <3> QED
      BY <1>2, <3>2 DEF Codes
  <2> QED
    BY <2>1, <2>2
<1> QED
  BY <1>4 DEF a, b

-----------------------------------------------------------------------------
(***************************************************************************)
(* The crossing's inductive invariant.  Every register is the code of a    *)
(* pointer; while read_gray settles, the pointer has moved on by one, and  *)
(* neither stage is ahead of where it stood; and the pointer keeps less    *)
(* than half its range from the stage the writer reads.                    *)
(***************************************************************************)
GrayIInv ==
  /\ gray_pointer \in GrayPointers /\ settling \in BOOLEAN
  /\ read_gray = to_gray(gray_pointer)
  /\ \E o, m, s \in GrayPointers :
       /\ old_gray = to_gray(o) /\ read_gray_meta = to_gray(m) /\ read_gray_sync = to_gray(s)
       /\ Distance(m, s) <= Distance(gray_pointer, s)
       /\ Distance(gray_pointer, s) < Half
       /\ settling => /\ gray_pointer = Stepped(o)
                      /\ Distance(m, s) <= Distance(o, s)
                      /\ Distance(o, s) <= Distance(gray_pointer, s)

LEMMA Halves == Half \in Nat /\ Half >= 1 /\ Wrap = 2 * Half
BY PowerIs, WidthAssumption DEF Half, Wrap

LEMMA GrayIInvInit == GrayInit => GrayIInv
<1> SUFFICES ASSUME GrayInit PROVE GrayIInv
  OBVIOUS
<1>1. 0 \in GrayPointers /\ Distance(0, 0) = 0 /\ 0 < Half
  BY Halves DEF GrayPointers, Distance
<1>2. /\ gray_pointer = 0 /\ settling = FALSE /\ read_gray = to_gray(0) /\ old_gray = to_gray(0)
      /\ read_gray_meta = to_gray(0) /\ read_gray_sync = to_gray(0)
  BY DEF GrayInit
<1>3. \E o, m, s \in GrayPointers :
        /\ old_gray = to_gray(o) /\ read_gray_meta = to_gray(m) /\ read_gray_sync = to_gray(s)
        /\ Distance(m, s) <= Distance(gray_pointer, s)
        /\ Distance(gray_pointer, s) < Half
        /\ settling => /\ gray_pointer = Stepped(o)
                       /\ Distance(m, s) <= Distance(o, s)
                       /\ Distance(o, s) <= Distance(gray_pointer, s)
  <2> USE <1>1
  <2> WITNESS 0 \in GrayPointers, 0 \in GrayPointers, 0 \in GrayPointers
  <2> QED
    BY <1>1, <1>2
<1> QED
  BY <1>1, <1>2, <1>3 DEF GrayIInv

LEMMA GrayIInvNext == GrayIInv /\ [GrayNext]_gray_vars => GrayIInv'
<1> SUFFICES ASSUME GrayIInv, [GrayNext]_gray_vars PROVE GrayIInv'
  OBVIOUS
<1>0. gray_pointer \in GrayPointers /\ settling \in BOOLEAN /\ read_gray = to_gray(gray_pointer)
  BY DEF GrayIInv
<1>1. PICK o \in GrayPointers, m \in GrayPointers, s \in GrayPointers :
       /\ old_gray = to_gray(o) /\ read_gray_meta = to_gray(m) /\ read_gray_sync = to_gray(s)
       /\ Distance(m, s) <= Distance(gray_pointer, s)
       /\ Distance(gray_pointer, s) < Half
       /\ settling => /\ gray_pointer = Stepped(o)
                      /\ Distance(m, s) <= Distance(o, s)
                      /\ Distance(o, s) <= Distance(gray_pointer, s)
  BY DEF GrayIInv
<1>2. CASE GrayPop
  <2> DEFINE p == gray_pointer
             q == Stepped(gray_pointer)
  <2>1. /\ gray_pointer' = q /\ read_gray' = to_gray(q) /\ old_gray' = to_gray(p)
        /\ settling' = TRUE /\ read_gray_meta' = to_gray(m) /\ read_gray_sync' = to_gray(s)
    BY <1>0, <1>1, <1>2 DEF GrayPop
  <2>2. Distance(q, s) < Half
    BY <1>1, <1>2, Decoded DEF GrayPop
  <2>3. q \in GrayPointers /\ Distance(p, s) <= Distance(q, s) /\ Distance(m, s) <= Distance(q, s)
    BY <1>0, <1>1, <2>2, Halves DEF GrayPointers, Stepped, Distance
  <2> QED
    BY <1>0, <1>1, <2>1, <2>2, <2>3 DEF GrayIInv
<1>3. CASE Settle
  BY <1>0, <1>1, <1>3 DEF Settle, GrayIInv
<1>4. CASE SclkSample
  <2>1. PICK caught \in Codes :
          /\ \A i \in Bits :
               \/ caught[i] = read_gray[i]
               \/ settling /\ caught[i] = old_gray[i]
          /\ read_gray_meta' = caught
    BY <1>4 DEF SclkSample
  <2>2. /\ gray_pointer' = gray_pointer /\ read_gray' = to_gray(gray_pointer) /\ old_gray' = to_gray(o)
        /\ settling' = FALSE /\ read_gray_sync' = to_gray(m)
    BY <1>0, <1>1, <1>4 DEF SclkSample
  <2>3. ASSUME caught = to_gray(gray_pointer)
        PROVE  GrayIInv'
    <3>1. /\ Distance(gray_pointer, m) <= Distance(gray_pointer, m)
          /\ Distance(gray_pointer, m) < Half
      BY <1>0, <1>1, Halves DEF GrayPointers, Distance
    <3> QED
      BY <1>0, <1>1, <2>1, <2>2, <2>3, <3>1 DEF GrayIInv
  <2>4. ASSUME settling, caught = to_gray(o)
        PROVE  GrayIInv'
    <3>1. Distance(o, m) <= Distance(gray_pointer, m) /\ Distance(gray_pointer, m) < Half
      BY <1>0, <1>1, <2>4, Halves DEF GrayPointers, Distance, Stepped
    <3> QED
      BY <1>0, <1>1, <2>1, <2>2, <2>4, <3>1 DEF GrayIInv
  <2>5. CASE settling
    <3>1. caught = to_gray(o) \/ caught = to_gray(gray_pointer)
      BY <1>0, <1>1, <2>1, <2>5, CaughtWhole
    <3> QED
      BY <2>3, <2>4, <2>5, <3>1
  <2>6. CASE ~settling
    <3>1. to_gray(gray_pointer) \in Codes
      BY <1>0, CodeType, ShiftedBelow
    <3>2. caught = to_gray(gray_pointer)
      BY <1>0, <2>1, <2>6, <3>1 DEF Codes
    <3> QED
      BY <2>3, <3>2
  <2> QED
    BY <2>5, <2>6
<1>5. CASE UNCHANGED gray_vars
  BY <1>0, <1>1, <1>5 DEF gray_vars, GrayIInv
<1> QED
  BY <1>2, <1>3, <1>4, <1>5 DEF GrayNext

(* csp_write_fifo.sv:32-35, 85-90: for every width of the pointer, however *)
(* the sclk edges fall on the changing register, the pointer the full flag *)
(* is worked out from is one the reader has had, not ahead of the stage    *)
(* behind it, and less than half the range behind the reader.              *)
THEOREM SeenIsPast == GraySpec => []SeenPointerIsPast
<1>1. GrayIInv => SeenPointerIsPast
  <2> SUFFICES ASSUME GrayIInv PROVE SeenPointerIsPast
    OBVIOUS
  <2>1. PICK m \in GrayPointers, s \in GrayPointers :
          /\ read_gray_meta = to_gray(m) /\ read_gray_sync = to_gray(s)
          /\ Distance(m, s) <= Distance(gray_pointer, s)
          /\ Distance(gray_pointer, s) < Half
    BY DEF GrayIInv
  <2>2. from_gray(read_gray_meta) = m /\ from_gray(read_gray_sync) = s
    BY <2>1, Decoded
  <2> QED
    BY <2>1, <2>2 DEF SeenPointerIsPast
<1> QED
  BY <1>1, GrayIInvInit, GrayIInvNext, PTL DEF GraySpec
=============================================================================
