--------------------------- MODULE CspPassProofs ---------------------------
(***************************************************************************)
(* Proofs about the pass on the chip, for any length of the pass, of the   *)
(* program and of the window that keep the distances of PassAssumption, any*)
(* registers and sink words, and whatever the program writes and the FIFO  *)
(* gives; and, in the second half, about the wire it is written over, for  *)
(* nonets, dwords, bursts, maps and requests of any size.                  *)
(***************************************************************************)
EXTENDS CspPass, SpiBus, SequenceTheorems, TLAPS

Last == CYCLES_PER_PASS - 1

(* A word on its way to DMEM, and one on its way to the pages.             *)
RegisterWrites == [address : Registers, word : Words, both : BOOLEAN]
SinkWrites == [address : SinkWords, word : Words, both : BOOLEAN]

TypeOK ==
  /\ slot \in 0 .. Last /\ cycle \in 0 .. Last
  /\ pass_counter \in Words /\ running \in BOOLEAN
  /\ delivery[1] \in Dwords \union {Nothing} /\ delivery[2] \in Dwords \union {Nothing}
  /\ head_q \in Dwords \union {Nothing} /\ e5 \in Results \union {Nothing}
  /\ write_q \in RegisterWrites \union {Nothing} /\ bank \in [Registers -> Words]
  /\ sink_q \in SinkWrites \union {Nothing}
  /\ written_q.write \in SinkWrites \union {Nothing}
  /\ written_q.pages \subseteq {0, 1}
  /\ pages \in [{0, 1} -> [SinkWords -> Words]]
  /\ active_page \in {0, 1} /\ read_page \in {0, 1}
  /\ page_word \in [{0, 1} -> Words]
  /\ probe_pins_q \in BOOLEAN /\ probe_words_q \in BOOLEAN
  /\ probe_register_asked \in Registers \union {Zero}
  /\ probe_register \in Registers \union {Zero}
  /\ probe_pins_q => probe_register_asked \in Registers
  /\ published \in [SinkWords -> Words] /\ landing \subseteq Dwords
  /\ ended \in [Registers -> Words]

(* The cycle is the slot's, a clock behind it.                             *)
InStep ==
  /\ slot # 0 => cycle = slot - 1
  /\ slot = 0 => cycle \in {0, Last}

(* Where in the pass a word may be on its way: all are in the memories as  *)
(* it ends.                                                                *)
OnTime ==
  /\ e5 # Nothing => cycle < RUN_END + E5_STAGE
  /\ delivery[1] # Nothing => cycle \in WINDOW_START + 1 .. WINDOW_END
  /\ delivery[2] # Nothing => cycle \in WINDOW_START + 2 .. WINDOW_END + 1
  /\ head_q # Nothing => cycle \in WINDOW_START + 3 .. WINDOW_END + 2
  /\ sink_q # Nothing => cycle <= COUNTER_CYCLE
  /\ write_q # Nothing => cycle <= PROBE_CYCLE
  /\ written_q.write # Nothing => cycle <= PROBE_CYCLE

NothingOnItsWay ==
  /\ e5 = Nothing /\ delivery[1] = Nothing /\ delivery[2] = Nothing
  /\ head_q = Nothing /\ sink_q = Nothing /\ write_q = Nothing
  /\ written_q.write = Nothing

Timed == InStep /\ OnTime /\ (slot = 0 => NothingOnItsWay)

PassInv == TypeOK /\ Timed

-----------------------------------------------------------------------------
LEMMA Sizes ==
  /\ WINDOW_START \in Nat /\ WINDOW_END \in Nat /\ RUN_END \in Nat
  /\ E5_STAGE \in Nat /\ COUNTER_CYCLE \in Nat /\ PROBE_CYCLE \in Nat
  /\ CYCLES_PER_PASS \in Nat /\ WORDS \in Nat /\ WORDS > 0
  /\ 0 < RUN_END /\ 0 < WINDOW_START /\ WINDOW_START < WINDOW_END
  /\ RUN_END + E5_STAGE <= WINDOW_START + 3
  /\ COUNTER_CYCLE = WINDOW_END + 3 /\ PROBE_CYCLE = WINDOW_END + 4
  /\ CYCLES_PER_PASS = WINDOW_END + 6 /\ Last = WINDOW_END + 5
BY PassAssumption DEF Last

LEMMA Addresses ==
  /\ Nothing \notin Dwords /\ Nothing \notin Results
  /\ Nothing \notin RegisterWrites /\ Nothing \notin SinkWrites
  /\ Nothing.address \notin Registers \union SinkWords \union Elsewhere
  /\ Registers \intersect SinkWords = {} /\ IoBase \in Registers
  /\ Zero \notin Registers \union SinkWords
BY PassAssumption DEF Nothing, Dwords, Results, RegisterWrites, SinkWrites

LEMMA LandedTyped ==
  ASSUME NEW D, NEW memory \in [D -> Words], NEW w, w.address \in D => w.word \in Words
  PROVE  /\ Landed(memory, w) \in [D -> Words]
         /\ w.address \notin D => Landed(memory, w) = memory
         /\ \A a \in D : Landed(memory, w)[a] = IF w.address = a THEN w.word ELSE memory[a]
BY DEF Landed

LEMMA LandedInTyped ==
  ASSUME NEW D, NEW both \in [{0, 1} -> [D -> Words]], NEW w,
         w.address \in D => w.word \in Words, NEW which
  PROVE  /\ LandedIn(both, which, w) \in [{0, 1} -> [D -> Words]]
         /\ w.address \notin D => LandedIn(both, which, w) = both
         /\ which = {} => LandedIn(both, which, w) = both
<1>1. \A page \in {0, 1} : both[page] \in [D -> Words]
  OBVIOUS
<1>2. \A page \in {0, 1} : /\ Landed(both[page], w) \in [D -> Words]
                           /\ w.address \notin D => Landed(both[page], w) = both[page]
  BY <1>1, LandedTyped
<1> QED
  BY <1>1, <1>2 DEF LandedIn

(* The word a clock hands on to the memories.                              *)
LEMMA WStage ==
  ASSUME PassInv
  PROVE  /\ w_stage \in RegisterWrites \union SinkWrites \union {Nothing}
         /\ w_stage # Nothing => cycle <= COUNTER_CYCLE
         /\ w_stage.address \in SinkWords => cycle < COUNTER_CYCLE
         /\ head_q # Nothing => e5 = Nothing
         /\ counter_write_now => e5 = Nothing /\ head_q = Nothing
<1> USE Sizes, Addresses
<1>1. /\ head_q # Nothing => cycle > WINDOW_START + 2 /\ cycle < COUNTER_CYCLE
      /\ e5 # Nothing => cycle < RUN_END + E5_STAGE
      /\ cycle \in Nat
  BY DEF PassInv, Timed, OnTime, TypeOK, Last
<1>2. /\ head_q # Nothing => e5 = Nothing
      /\ counter_write_now => e5 = Nothing /\ head_q = Nothing
  BY <1>1 DEF counter_write_now
<1>3. (pass_counter + 1) % WORDS \in Words
  BY DEF PassInv, TypeOK, Words
<1>4. /\ head_q \in Dwords \union {Nothing} /\ e5 \in Results \union {Nothing}
  BY DEF PassInv, TypeOK
<1>5. CASE counter_write_now
  <2>1. w_stage = Write(IoBase, (pass_counter + 1) % WORDS) \/ w_stage = e5
    BY <1>5 DEF w_stage, pass_write
  <2>2. w_stage = Write(IoBase, (pass_counter + 1) % WORDS) \/ w_stage = Nothing
    BY <2>1, <1>2, <1>5
  <2>3. Write(IoBase, (pass_counter + 1) % WORDS) \in RegisterWrites
    BY <1>3 DEF Write, RegisterWrites
  <2>4. w_stage.address \notin SinkWords
    BY <2>2 DEF Write
  <2>5. cycle <= COUNTER_CYCLE
    BY <1>1, <1>5 DEF counter_write_now
  <2> QED
    BY <1>2, <1>5, <2>2, <2>3, <2>4, <2>5
<1>6. CASE ~counter_write_now /\ head_q.address \in Registers \ {IoBase}
  <2>1. head_q # Nothing /\ head_q \in RegisterWrites
    BY <1>4, <1>6 DEF Dwords, RegisterWrites
  <2>2. w_stage = head_q
    BY <1>6, <2>1 DEF w_stage, pass_write
  <2> QED
    BY <1>1, <1>2, <1>6, <2>1, <2>2 DEF RegisterWrites
<1>7. CASE ~counter_write_now /\ head_q.address \in SinkWords
  <2>1. head_q # Nothing /\ head_q \in Dwords
    BY <1>4, <1>7
  <2>2. [head_q EXCEPT !.both = TRUE] \in SinkWrites
    BY <1>7, <2>1 DEF Dwords, SinkWrites
  <2>3. w_stage = [head_q EXCEPT !.both = TRUE]
    BY <1>7, <2>1, <2>2 DEF w_stage, pass_write
  <2> QED
    BY <1>1, <1>2, <1>7, <2>1, <2>2, <2>3
<1>8. CASE ~counter_write_now /\ head_q.address \notin Registers \ {IoBase}
           /\ head_q.address \notin SinkWords
  <2>1. w_stage = e5
    BY <1>8 DEF w_stage, pass_write
  <2>2. e5 \in RegisterWrites \union SinkWrites \union {Nothing}
    BY <1>4 DEF Results, RegisterWrites, SinkWrites
  <2> QED
    BY <1>1, <1>2, <1>8, <2>1, <2>2
<1> QED
  BY <1>5, <1>6, <1>7, <1>8

-----------------------------------------------------------------------------
(* A clock, its inputs named.                                              *)
Input(result, dword, address, held, asked) ==
  /\ result \in {Nothing} \union Results /\ dword \in {Nothing} \union Dwords
  /\ address \in SinkWords /\ held \in MayBeHeld /\ asked \in Asked

LEMMA InStepStep ==
  ASSUME PassInv, NEW held \in MayBeHeld, PassEdge(held)
  PROVE  /\ slot' \in 0 .. Last /\ cycle' \in 0 .. Last /\ InStep'
         /\ pass_counter' \in Words /\ running' \in BOOLEAN
         /\ slot = 0 => cycle' = 0 /\ slot' = 1
         /\ slot # 0 => /\ cycle' = cycle + 1 /\ cycle < Last
                        /\ running' = running /\ pass_counter' = pass_counter
         /\ slot' = 0 => slot = Last /\ cycle = PROBE_CYCLE
<1> USE Sizes
<1>1. /\ slot \in 0 .. Last /\ cycle \in 0 .. Last /\ pass_counter \in Words
      /\ running \in BOOLEAN
      /\ slot # 0 => cycle = slot - 1
  BY DEF PassInv, TypeOK, Timed, InStep
<1>2. slot' = IF slot = Last THEN 0 ELSE slot + 1
  <2>1. slot' = (slot + 1) % CYCLES_PER_PASS /\ CYCLES_PER_PASS = Last + 1
    BY DEF PassEdge
  <2> QED
    BY <1>1, <2>1
<1>3. CASE slot = 0
  <2>1. cycle' = 0 /\ pass_counter' = (pass_counter + 1) % WORDS /\ running' = ~held
    BY <1>3 DEF PassEdge, pass_start
  <2>2. pass_counter' \in Words
    BY <1>1, <2>1 DEF Words
  <2>3. running' \in BOOLEAN
    BY <2>1 DEF MayBeHeld
  <2> QED
    BY <1>2, <1>3, <2>1, <2>2, <2>3 DEF InStep
<1>4. CASE slot # 0
  <2>1. /\ cycle' = IF cycle = CYCLES_PER_PASS - 1 THEN cycle ELSE cycle + 1
        /\ pass_counter' = pass_counter /\ running' = running
    BY <1>4 DEF PassEdge, pass_start
  <2>2. cycle < Last /\ cycle' = cycle + 1
    BY <1>1, <1>4, <2>1 DEF Last
  <2> QED
    BY <1>1, <1>2, <1>4, <2>1, <2>2 DEF InStep
<1> QED
  BY <1>3, <1>4

(* Nothing is popped and no result comes as a pass starts.                 *)
LEMMA StartIsClear ==
  ASSUME PassInv, slot = 0
  PROVE  /\ ~window_open /\ ~MayResult /\ ~counter_write_now /\ ~probe_request
         /\ w_stage = Nothing /\ NothingOnItsWay
<1> USE Sizes
<1>1. cycle \in {0, Last} /\ NothingOnItsWay
  BY DEF PassInv, Timed, InStep
<1>2. ~window_open /\ ~MayResult /\ ~counter_write_now /\ ~probe_request
  BY <1>1 DEF window_open, MayResult, pass_start, counter_write_now, probe_request
<1>3. pass_write = Nothing
  BY <1>1, <1>2, Addresses DEF pass_write, NothingOnItsWay
<1> QED
  BY <1>1, <1>2, <1>3 DEF w_stage, NothingOnItsWay

LEMMA OnTimeStep ==
  ASSUME PassInv,
         NEW result, NEW dword, NEW address, NEW held, NEW asked,
         Input(result, dword, address, held, asked),
         Clock(result, dword, address, held, asked)
  PROVE  Timed'
<1> USE Sizes
<1>1. /\ cycle \in 0 .. Last
      /\ e5' = result /\ (result # Nothing => MayResult)
      /\ delivery' = <<dword, delivery[1]>> /\ head_q' = delivery[2]
      /\ dword # Nothing => window_open
      /\ write_q' = IF w_stage.address \in Registers THEN w_stage ELSE Nothing
      /\ sink_q' = IF w_stage.address \in SinkWords THEN w_stage ELSE Nothing
      /\ written_q'.write = sink_q
  BY DEF Clock, WindowEdge, WriteEdge, SinkEdge, PassInv, TypeOK
<1>2. /\ InStep'
      /\ slot = 0 => cycle' = 0 /\ slot' = 1
      /\ slot # 0 => cycle' = cycle + 1
      /\ slot' = 0 => slot = Last /\ cycle = PROBE_CYCLE
  BY InStepStep DEF Input, Clock
<1>3. CASE slot = 0
  <2>1. NothingOnItsWay'
    BY <1>1, <1>3, StartIsClear, Addresses DEF NothingOnItsWay
  <2>2. OnTime'
    BY <2>1 DEF NothingOnItsWay, OnTime
  <2> QED
    BY <1>2, <1>3, <2>2 DEF Timed
<1>4. CASE slot # 0
  <2>1. OnTime
    BY DEF PassInv, Timed
  <2>2. /\ e5' # Nothing => cycle' < RUN_END + E5_STAGE
        /\ delivery'[1] # Nothing => cycle' \in WINDOW_START + 1 .. WINDOW_END
    BY <1>1, <1>2, <1>4 DEF MayResult, window_open
  <2>3. /\ delivery'[2] # Nothing => cycle' \in WINDOW_START + 2 .. WINDOW_END + 1
        /\ head_q' # Nothing => cycle' \in WINDOW_START + 3 .. WINDOW_END + 2
    BY <1>1, <1>2, <1>4, <2>1 DEF OnTime
  <2>4. /\ sink_q' # Nothing => cycle' <= COUNTER_CYCLE
        /\ write_q' # Nothing => cycle' <= PROBE_CYCLE
    BY <1>1, <1>2, <1>4, WStage, Addresses
  <2>5. written_q'.write # Nothing => cycle' <= PROBE_CYCLE
    BY <1>1, <1>2, <1>4, <2>1 DEF OnTime
  <2>6. OnTime'
    BY <2>2, <2>3, <2>4, <2>5 DEF OnTime
  <2>7. slot' = 0 => cycle' = Last
    BY <1>2, <1>4
  <2>8. slot' = 0 => NothingOnItsWay'
    BY <2>6, <2>7 DEF OnTime, NothingOnItsWay
  <2> QED
    BY <1>2, <2>6, <2>8 DEF Timed
<1> QED
  BY <1>3, <1>4

LEMMA WriteTypes ==
  ASSUME PassInv,
         NEW result \in {Nothing} \union Results, NEW dword \in {Nothing} \union Dwords,
         WindowEdge(dword), WriteEdge(result)
  PROVE  /\ delivery'[1] \in Dwords \union {Nothing}
         /\ delivery'[2] \in Dwords \union {Nothing}
         /\ head_q' \in Dwords \union {Nothing} /\ e5' \in Results \union {Nothing}
         /\ write_q' \in RegisterWrites \union {Nothing}
         /\ sink_q' \in SinkWrites \union {Nothing}
         /\ bank' \in [Registers -> Words]
<1>1. /\ delivery[1] \in Dwords \union {Nothing} /\ delivery[2] \in Dwords \union {Nothing}
      /\ write_q \in RegisterWrites \union {Nothing} /\ bank \in [Registers -> Words]
  BY DEF PassInv, TypeOK
<1>2. /\ delivery'[1] \in Dwords \union {Nothing} /\ delivery'[2] \in Dwords \union {Nothing}
      /\ head_q' \in Dwords \union {Nothing} /\ e5' \in Results \union {Nothing}
  BY <1>1 DEF WindowEdge, WriteEdge
<1>3. /\ write_q' = IF w_stage.address \in Registers THEN w_stage ELSE Nothing
      /\ sink_q' = IF w_stage.address \in SinkWords THEN w_stage ELSE Nothing
      /\ bank' = Landed(bank, write_q)
  BY DEF WriteEdge
<1>4. w_stage \in RegisterWrites \union SinkWrites \union {Nothing}
  BY WStage
<1>5. write_q' \in RegisterWrites \union {Nothing}
  BY <1>3, <1>4, Addresses DEF SinkWrites
<1>6. sink_q' \in SinkWrites \union {Nothing}
  BY <1>3, <1>4, Addresses DEF RegisterWrites
<1>7. write_q.address \in Registers => write_q.word \in Words
  BY <1>1, Addresses DEF RegisterWrites
<1>8. bank' \in [Registers -> Words]
  BY <1>1, <1>3, <1>7, LandedTyped
<1> QED
  BY <1>2, <1>5, <1>6, <1>8

LEMMA SinkTypes ==
  ASSUME PassInv, NEW address \in SinkWords, SinkEdge(address)
  PROVE  /\ written_q'.write \in SinkWrites \union {Nothing}
         /\ written_q'.pages \subseteq {0, 1}
         /\ pages' \in [{0, 1} -> [SinkWords -> Words]]
         /\ active_page' \in {0, 1} /\ read_page' \in {0, 1}
         /\ page_word' \in [{0, 1} -> Words]
<1>1. /\ sink_q \in SinkWrites \union {Nothing}
      /\ written_q.write \in SinkWrites \union {Nothing}
      /\ pages \in [{0, 1} -> [SinkWords -> Words]] /\ active_page \in {0, 1}
  BY DEF PassInv, TypeOK
<1>2. /\ written_q' = [write |-> sink_q,
                       pages |-> IF sink_q = Nothing THEN {} ELSE Shadow(sink_q)]
      /\ pages' = LandedIn(pages, written_q.pages, written_q.write)
      /\ active_page' = IF pass_start THEN 1 - active_page ELSE active_page
      /\ read_page' = active_page
      /\ page_word' = [page \in {0, 1} |-> pages[page][address]]
  BY DEF SinkEdge, PageRead
<1>3. Shadow(sink_q) \subseteq {0, 1}
  BY <1>1 DEF Shadow
<1>4. written_q.write.address \in SinkWords => written_q.write.word \in Words
  BY <1>1, Addresses DEF SinkWrites
<1>5. pages' \in [{0, 1} -> [SinkWords -> Words]]
  BY <1>1, <1>2, <1>4, LandedInTyped
<1>6. active_page' \in {0, 1} /\ read_page' \in {0, 1}
  BY <1>1, <1>2
<1> QED
  BY <1>1, <1>2, <1>3, <1>5, <1>6

LEMMA ProbeTypes ==
  ASSUME PassInv, NEW asked \in Asked, ProbeEdge(asked)
  PROVE  /\ probe_pins_q' \in BOOLEAN /\ probe_words_q' \in BOOLEAN
         /\ probe_register_asked' \in Registers \union {Zero}
         /\ probe_register' \in Registers \union {Zero}
         /\ probe_pins_q' => probe_register_asked' \in Registers
<1>1. asked \in Registers
  BY Addresses DEF Asked
<1> QED
  BY <1>1 DEF ProbeEdge, probe_request, PassInv, TypeOK

(* The memories with all that is on its way to them.                       *)
LEMMA MemoryTypes ==
  ASSUME TypeOK
  PROVE  Bank \in [Registers -> Words] /\ Pages \in [{0, 1} -> [SinkWords -> Words]]
<1>1. /\ write_q.address \in Registers => write_q.word \in Words
      /\ e5.address \in Registers \union SinkWords => e5.word \in Words
      /\ sink_q.address \in SinkWords => sink_q.word \in Words
      /\ written_q.write.address \in SinkWords => written_q.write.word \in Words
  BY Addresses DEF TypeOK, RegisterWrites, SinkWrites, Results
<1>2. Landed(bank, write_q) \in [Registers -> Words]
  BY <1>1, LandedTyped DEF TypeOK
<1>3. Bank \in [Registers -> Words]
  BY <1>1, <1>2, LandedTyped DEF Bank
<1> DEFINE p1 == LandedIn(pages, written_q.pages, written_q.write)
           on == IF sink_q = Nothing THEN {} ELSE Shadow(sink_q)
           p2 == LandedIn(p1, on, sink_q)
<1>4. p1 \in [{0, 1} -> [SinkWords -> Words]]
  BY <1>1, LandedInTyped DEF TypeOK
<1> HIDE DEF p1, on
<1>5. p2 \in [{0, 1} -> [SinkWords -> Words]]
  BY <1>1, <1>4, LandedInTyped
<1> HIDE DEF p2
<1>6. LandedIn(p2, Shadow(e5), e5) \in [{0, 1} -> [SinkWords -> Words]]
  BY <1>1, <1>5, LandedInTyped
<1>7. Pages = LandedIn(p2, Shadow(e5), e5)
  BY DEF Pages, p1, p2, on
<1> QED
  BY <1>3, <1>6, <1>7

LEMMA HistoryTypes ==
  ASSUME PassInv,
         NEW dword \in {Nothing} \union Dwords, NEW address, HistoryEdge(dword, address)
  PROVE  /\ published' \in [SinkWords -> Words] /\ landing' \subseteq Dwords
         /\ ended' \in [Registers -> Words]
<1>1. /\ published \in [SinkWords -> Words] /\ landing \subseteq Dwords
      /\ ended \in [Registers -> Words] /\ active_page \in {0, 1}
  BY DEF PassInv, TypeOK
<1>2. Bank \in [Registers -> Words] /\ Pages \in [{0, 1} -> [SinkWords -> Words]]
  BY MemoryTypes DEF PassInv
<1>3. Pages[1 - active_page] \in [SinkWords -> Words]
  BY <1>1, <1>2
<1>4. dword.address \in SinkWords => dword \in Dwords
  BY Addresses
<1> QED
  BY <1>1, <1>2, <1>3, <1>4 DEF HistoryEdge

LEMMA PassStep == PassInv /\ [Next]_vars => PassInv'
<1> SUFFICES ASSUME PassInv, [Next]_vars PROVE PassInv'
  OBVIOUS
<1>1. ASSUME NEW result, NEW dword, NEW address, NEW held, NEW asked,
             Input(result, dword, address, held, asked),
             Clock(result, dword, address, held, asked)
      PROVE  PassInv'
  <2>1. /\ result \in {Nothing} \union Results /\ dword \in {Nothing} \union Dwords
        /\ address \in SinkWords /\ held \in MayBeHeld /\ asked \in Asked
    BY <1>1 DEF Input
  <2>2. /\ PassEdge(held) /\ WindowEdge(dword) /\ WriteEdge(result)
        /\ SinkEdge(address) /\ ProbeEdge(asked) /\ HistoryEdge(dword, address)
    BY <1>1 DEF Clock
  <2>3. TypeOK'
    BY <2>1, <2>2, InStepStep, WriteTypes, SinkTypes, ProbeTypes, HistoryTypes
    DEF TypeOK
  <2> QED
    BY <1>1, <2>3, OnTimeStep DEF PassInv
<1>2. CASE UNCHANGED vars
  BY <1>2 DEF vars, pass_vars, write_vars, sink_vars, probe_vars, history, PassInv,
              TypeOK, Timed, InStep, OnTime, NothingOnItsWay
<1> QED
  BY <1>1, <1>2 DEF Next, Input

LEMMA PassStarts == Init => PassInv
<1> SUFFICES ASSUME Init PROVE PassInv
  OBVIOUS
<1>1. 0 \in Words /\ 0 \in 0 .. Last
  BY Sizes DEF Words
<1>2. TypeOK
  BY <1>1 DEF Init, TypeOK, Nothing
<1>3. Timed
  BY DEF Init, Timed, InStep, OnTime, NothingOnItsWay
<1> QED
  BY <1>2, <1>3 DEF PassInv

(* Type correctness of the pass, and that what is on its way is where the  *)
(* pass's timing has it: all has landed as the pass ends                   *)
(* (csp_pass.sv:60-130).                                                   *)
THEOREM WritesOnTime == Spec => []PassInv
<1>1. Init => PassInv
  BY PassStarts
<1>2. PassInv /\ [Next]_vars => PassInv'
  BY PassStep
<1> QED
  BY <1>1, <1>2, PTL DEF Spec

-----------------------------------------------------------------------------
(* What the reading port's page holds is the last pass's or the window's,  *)
(* and so is what is on its way to that page.                              *)
OfWindow(w) == \E l \in landing : l.address = w.address /\ l.word = w.word

WindowsWords ==
  /\ \A w \in {delivery[1], delivery[2], head_q} : w.address \in SinkWords => w \in landing
  /\ sink_q.both => OfWindow(sink_q)
  /\ active_page \in written_q.pages => OfWindow(written_q.write)

Answers(s) == {published[s]} \union {w.word : w \in {l \in landing : l.address = s}}

ActiveSettled == \A s \in SinkWords : pages[active_page][s] \in Answers(s)

(* The probe's read is of the clock in which the pass ends.                *)
ProbeInStep ==
  /\ probe_pins_q => slot = 0
  /\ probe_words_q =>
       /\ slot = 1 /\ probe_register_asked \in Registers
       /\ read_pair = ended[probe_register_asked]
  /\ slot = 0 /\ ~probe_pins_q => probe_register = Zero
  /\ slot = 1 /\ ~probe_words_q => probe_register = Zero

ReadersInv == WindowsWords /\ ActiveSettled /\ ProbeInStep /\ ReadersSeeOnePass

(* With nothing on its way the memories are what they will be.             *)
LEMMA MemoriesAtRest ==
  ASSUME PassInv, NothingOnItsWay
  PROVE  Bank = bank /\ Pages = pages
<1>1. /\ bank \in [Registers -> Words] /\ pages \in [{0, 1} -> [SinkWords -> Words]]
      /\ write_q = Nothing /\ e5 = Nothing /\ sink_q = Nothing
      /\ written_q.write = Nothing
  BY DEF PassInv, TypeOK, NothingOnItsWay
<1>2. Landed(bank, Nothing) = bank
  BY <1>1, Addresses, LandedTyped
<1>3. \A which : LandedIn(pages, which, Nothing) = pages
  BY <1>1, Addresses, LandedInTyped
<1> QED
  BY <1>1, <1>2, <1>3 DEF Bank, Pages

LEMMA WindowsWordsStep ==
  ASSUME PassInv, ReadersInv,
         NEW result, NEW dword, NEW address, NEW held, NEW asked,
         Input(result, dword, address, held, asked),
         Clock(result, dword, address, held, asked)
  PROVE  WindowsWords' /\ ActiveSettled'
<1>1. /\ delivery' = <<dword, delivery[1]>> /\ head_q' = delivery[2]
      /\ dword # Nothing => window_open
      /\ sink_q' = IF w_stage.address \in SinkWords THEN w_stage ELSE Nothing
      /\ written_q' = [write |-> sink_q,
                       pages |-> IF sink_q = Nothing THEN {} ELSE Shadow(sink_q)]
      /\ pages' = LandedIn(pages, written_q.pages, written_q.write)
      /\ active_page' = IF pass_start THEN 1 - active_page ELSE active_page
      /\ published' = IF pass_start THEN Pages[1 - active_page] ELSE published
      /\ landing' = IF pass_start THEN {}
                    ELSE IF dword.address \in SinkWords THEN landing \union {dword}
                    ELSE landing
  BY DEF Clock, WindowEdge, WriteEdge, SinkEdge, HistoryEdge
<1>2. /\ active_page \in {0, 1} /\ pages \in [{0, 1} -> [SinkWords -> Words]]
      /\ sink_q \in SinkWrites \union {Nothing}
      /\ written_q.write \in SinkWrites \union {Nothing}
      /\ head_q \in Dwords \union {Nothing} /\ e5 \in Results \union {Nothing}
  BY DEF PassInv, TypeOK
<1>3. CASE slot = 0
  <2>1. /\ NothingOnItsWay /\ w_stage = Nothing /\ dword = Nothing /\ pass_start
    BY <1>1, <1>3, StartIsClear DEF pass_start
  <2>2. WindowsWords'
    <3>1. /\ delivery'[1] = Nothing /\ delivery'[2] = Nothing /\ head_q' = Nothing
          /\ sink_q' = Nothing /\ written_q'.pages = {}
      BY <1>1, <2>1 DEF NothingOnItsWay
    <3> QED
      BY <3>1, Addresses DEF WindowsWords, Nothing
  <2>3. pages' = pages
    BY <1>1, <1>2, <2>1, Addresses, LandedInTyped DEF NothingOnItsWay
  <2>4. published' = pages[1 - active_page] /\ active_page' = 1 - active_page
    BY <1>1, <2>1, MemoriesAtRest
  <2> QED
    BY <2>2, <2>3, <2>4 DEF ActiveSettled, Answers
<1>4. CASE slot # 0
  <2>1. /\ active_page' = active_page /\ published' = published
        /\ landing \subseteq landing'
        /\ dword.address \in SinkWords => dword \in landing'
    BY <1>1, <1>4 DEF pass_start
  <2>3. \A w \in {delivery'[1], delivery'[2], head_q'} :
          w.address \in SinkWords => w \in landing'
    BY <1>1, <2>1 DEF WindowsWords, ReadersInv
  <2>4. sink_q'.both =>
          \E l \in landing' : l.address = sink_q'.address /\ l.word = sink_q'.word
    <3> SUFFICES ASSUME sink_q'.both
                 PROVE  \E l \in landing' : l.address = sink_q'.address
                                            /\ l.word = sink_q'.word
      OBVIOUS
    <3>1. w_stage.address \in SinkWords /\ sink_q' = w_stage /\ w_stage.both
      BY <1>1 DEF Nothing
    <3>2. CASE w_stage = e5
      <4>1. e5 \in Results => e5.both = FALSE
        BY DEF Results
      <4>2. e5 = Nothing => e5.both = FALSE
        BY DEF Nothing
      <4> QED
        BY <1>2, <3>1, <3>2, <4>1, <4>2
    <3>3. CASE w_stage # e5
      <4>1. w_stage = pass_write
        BY <3>3 DEF w_stage
      <4>2. head_q.address \in SinkWords /\ w_stage = [head_q EXCEPT !.both = TRUE]
        BY <3>1, <4>1, Addresses, <1>2 DEF pass_write, Write, Nothing, Dwords
      <4>3. head_q \in landing /\ head_q \in Dwords
        BY <1>2, <4>2, Addresses DEF WindowsWords, ReadersInv
      <4>4. w_stage.address = head_q.address /\ w_stage.word = head_q.word
        BY <4>2, <4>3 DEF Dwords
      <4> QED
        BY <2>1, <3>1, <4>3, <4>4
    <3> QED
      BY <3>2, <3>3
  <2>5. active_page' \in written_q'.pages => OfWindow(written_q.write)'
    <3> SUFFICES ASSUME active_page \in written_q'.pages PROVE OfWindow(sink_q)
      <4>1. written_q'.write = sink_q
        BY <1>1
      <4> QED
        BY <2>1, <4>1 DEF OfWindow
    <3>1. active_page \in Shadow(sink_q)
      BY <1>1
    <3>2. sink_q.both
      BY <1>2, <3>1 DEF Shadow
    <3> QED
      BY <3>2 DEF WindowsWords, ReadersInv
  <2>6. WindowsWords'
    BY <2>3, <2>4, <2>5 DEF WindowsWords, OfWindow
  <2>7. ASSUME NEW s \in SinkWords PROVE pages'[active_page][s] \in Answers(s)'
    <3>1. Answers(s) \subseteq Answers(s)'
      BY <2>1 DEF Answers
    <3>2. CASE active_page \notin written_q.pages
      <4>1. pages'[active_page] = pages[active_page]
        BY <1>1, <1>2, <3>2 DEF LandedIn
      <4> QED
        BY <3>1, <4>1 DEF ActiveSettled, ReadersInv
    <3>3. CASE active_page \in written_q.pages
      <4>1. pages'[active_page] = Landed(pages[active_page], written_q.write)
        BY <1>1, <1>2, <3>3 DEF LandedIn
      <4>2. pages[active_page] \in [SinkWords -> Words]
        BY <1>2
      <4>3. pages'[active_page][s] = IF written_q.write.address = s
                                     THEN written_q.write.word
                                     ELSE pages[active_page][s]
        BY <4>1, <4>2 DEF Landed
      <4>4. written_q.write.address = s => written_q.write.word \in Answers(s)
        BY <3>3 DEF WindowsWords, ReadersInv, OfWindow, Answers
      <4> QED
        BY <3>1, <4>3, <4>4 DEF ActiveSettled, ReadersInv
    <3> QED
      BY <3>2, <3>3
  <2>8. ActiveSettled'
    BY <2>1, <2>7 DEF ActiveSettled
  <2> QED
    BY <2>6, <2>8
<1> QED
  BY <1>3, <1>4

(* The port answers a clock behind its address, from the page active then. *)
LEMMA SinksStep ==
  ASSUME PassInv, ReadersInv,
         NEW result, NEW dword, NEW address, NEW held, NEW asked,
         Input(result, dword, address, held, asked),
         Clock(result, dword, address, held, asked)
  PROVE  SinksOfOnePass'
<1>1. /\ address \in SinkWords
      /\ read_page' = active_page
      /\ page_word' = [page \in {0, 1} |-> pages[page][address]]
      /\ due' = {published[address]}
                \union {w.word : w \in {w \in landing : w.address = address}}
  BY DEF Clock, Input, SinkEdge, PageRead, HistoryEdge
<1>2. read_data' = pages[active_page][address]
  BY <1>1 DEF read_data, PassInv, TypeOK
<1>3. due' = Answers(address)
  BY <1>1 DEF Answers
<1> QED
  BY <1>1, <1>2, <1>3 DEF ReadersInv, ActiveSettled, SinksOfOnePass

LEMMA ProbeStep ==
  ASSUME PassInv, ReadersInv,
         NEW result, NEW dword, NEW address, NEW held, NEW asked,
         Input(result, dword, address, held, asked),
         Clock(result, dword, address, held, asked)
  PROVE  ProbeInStep' /\ ProbeIsOfPassEnd'
<1> USE Sizes
<1>1. /\ probe_pins_q' = (cycle = PROBE_CYCLE) /\ probe_words_q' = probe_pins_q
      /\ probe_register_asked'
           = IF cycle = PROBE_CYCLE THEN asked ELSE probe_register_asked
      /\ read_pair' = IF probe_pins_q THEN bank[probe_register_asked] ELSE read_pair
      /\ IF probe_words_q
         THEN probe_pair' = read_pair /\ probe_register' = probe_register_asked
         ELSE probe_pair' = probe_pair /\ probe_register' = probe_register
      /\ ended' = IF slot = 0 THEN Bank ELSE ended
  BY DEF Clock, ProbeEdge, HistoryEdge, probe_request, pass_start
<1>2. /\ slot \in 0 .. Last /\ cycle \in 0 .. Last
      /\ slot # 0 => cycle = slot - 1
      /\ slot = 0 => cycle \in {0, Last}
      /\ probe_pins_q \in BOOLEAN /\ probe_words_q \in BOOLEAN
      /\ probe_pins_q => probe_register_asked \in Registers
  BY DEF PassInv, TypeOK, Timed, InStep
<1>3. /\ slot = 0 => cycle' = 0 /\ slot' = 1
      /\ slot # 0 => cycle' = cycle + 1
      /\ slot' = 0 => slot = Last /\ cycle = PROBE_CYCLE
      /\ slot' \in 0 .. Last
      /\ slot' # 0 => cycle' = slot' - 1
  BY InStepStep DEF Input, Clock, InStep
<1>4. ProbeInStep /\ ProbeIsOfPassEnd
  BY DEF ReadersInv, ReadersSeeOnePass
<1>5. slot = 0 => Bank = bank
  BY MemoriesAtRest, StartIsClear
<1>6. CASE slot = 0
  <2>1. ~probe_words_q /\ ~probe_pins_q'
    BY <1>1, <1>2, <1>4, <1>6 DEF ProbeInStep
  <2>2. probe_pins_q => read_pair' = ended'[probe_register_asked']
    BY <1>1, <1>2, <1>5, <1>6
  <2>3. ~probe_pins_q => probe_register' = Zero
    BY <1>1, <1>4, <1>6, <2>1 DEF ProbeInStep
  <2>4. probe_pins_q => probe_register_asked' \in Registers
    BY <1>1, <1>2, <1>6
  <2> QED
    BY <1>1, <1>3, <1>6, <2>1, <2>2, <2>3, <2>4 DEF ProbeInStep, ProbeIsOfPassEnd
<1>7. CASE slot = 1
  <2>1. slot' # 0 /\ slot' # 1 /\ ~probe_pins_q' /\ ~probe_words_q' /\ ended' = ended
    BY <1>1, <1>2, <1>3, <1>4, <1>7 DEF ProbeInStep
  <2>2. CASE probe_words_q
    BY <1>1, <1>4, <2>1, <2>2 DEF ProbeInStep, ProbeIsOfPassEnd, pass_start
  <2>3. CASE ~probe_words_q
    BY <1>1, <1>4, <1>7, <2>1, <2>3 DEF ProbeInStep, ProbeIsOfPassEnd, pass_start
  <2> QED
    BY <2>2, <2>3
<1>8. CASE slot \notin {0, 1}
  <2>1. /\ ~probe_words_q /\ ~probe_words_q' /\ ended' = ended /\ slot' # 1
        /\ probe_pair' = probe_pair /\ probe_register' = probe_register
    BY <1>1, <1>2, <1>3, <1>4, <1>8 DEF ProbeInStep
  <2>2. probe_pins_q' <=> slot' = 0
    <3>1. slot' = IF slot = Last THEN 0 ELSE slot + 1
      BY <1>2, <1>3, <1>8
    <3>2. cycle = PROBE_CYCLE <=> slot = Last
      BY <1>2, <1>8
    <3>3. probe_pins_q' <=> cycle = PROBE_CYCLE
      BY <1>1, Zenon
    <3> QED
      BY <1>2, <3>1, <3>2, <3>3
  <2>3. ProbeInStep'
    BY <2>1, <2>2 DEF ProbeInStep
  <2>4. cycle > 0 /\ ~pass_start
    BY <1>2, <1>8 DEF pass_start
  <2> QED
    BY <1>4, <2>1, <2>3, <2>4 DEF ProbeIsOfPassEnd
<1> QED
  BY <1>6, <1>7, <1>8

LEMMA ReadersStep == PassInv /\ ReadersInv /\ [Next]_vars => ReadersInv'
<1> SUFFICES ASSUME PassInv, ReadersInv, [Next]_vars PROVE ReadersInv'
  OBVIOUS
<1>1. ASSUME NEW result, NEW dword, NEW address, NEW held, NEW asked,
             Input(result, dword, address, held, asked),
             Clock(result, dword, address, held, asked)
      PROVE  ReadersInv'
  BY <1>1, WindowsWordsStep, SinksStep, ProbeStep DEF ReadersInv, ReadersSeeOnePass
<1>2. CASE UNCHANGED vars
  BY <1>2 DEF vars, pass_vars, write_vars, sink_vars, probe_vars, history, ReadersInv,
              ReadersSeeOnePass, SinksOfOnePass, ProbeIsOfPassEnd, read_data, pass_start,
              WindowsWords, OfWindow, ActiveSettled, Answers, ProbeInStep
<1> QED
  BY <1>1, <1>2 DEF Next, Input

(* Who reads beside the program sees one pass: the partials' port, across  *)
(* the flip of the pages, and the probe, whatever the firmware asks of it  *)
(* and when (csp_sink_area.sv:56-60, csp_pass.sv:29-32).                   *)
THEOREM ReadersOfOnePass == Spec => []ReadersSeeOnePass
<1>1. Init => ReadersInv
  BY Addresses DEF Init, ReadersInv, ReadersSeeOnePass, SinksOfOnePass, ProbeIsOfPassEnd,
     read_data, WindowsWords, ActiveSettled, Answers, ProbeInStep, Nothing, pass_start
<1>2. PassInv /\ ReadersInv /\ [Next]_vars => ReadersInv'
  BY ReadersStep
<1>3. ReadersInv => ReadersSeeOnePass
  BY DEF ReadersInv
<1>4. Spec => []PassInv
  BY WritesOnTime
<1> QED
  BY <1>1, <1>2, <1>3, <1>4, PTL DEF Spec

-----------------------------------------------------------------------------
(* The clock's word lands behind those before it, and the program's result *)
(* behind that.                                                            *)
LEMMA MemoriesStep ==
  ASSUME PassInv, slot # 0,
         NEW result, NEW dword, NEW address, NEW held, NEW asked,
         Input(result, dword, address, held, asked),
         Clock(result, dword, address, held, asked)
  PROVE  /\ pass_write = Nothing =>
              /\ Bank' = Landed(Bank, result)
              /\ Pages' = LandedIn(Pages, Shadow(result), result)
         /\ pass_write # Nothing /\ e5 = Nothing /\ result = Nothing =>
              /\ Bank' = Landed(Bank, pass_write)
              /\ Pages' = LandedIn(Pages, Shadow(pass_write), pass_write)
<1>1. /\ e5' = result /\ active_page' = active_page
      /\ write_q' = IF w_stage.address \in Registers THEN w_stage ELSE Nothing
      /\ sink_q' = IF w_stage.address \in SinkWords THEN w_stage ELSE Nothing
      /\ bank' = Landed(bank, write_q)
      /\ written_q' = [write |-> sink_q,
                       pages |-> IF sink_q = Nothing THEN {} ELSE Shadow(sink_q)]
      /\ pages' = LandedIn(pages, written_q.pages, written_q.write)
  BY DEF Clock, WriteEdge, SinkEdge, pass_start
<1>2. /\ bank \in [Registers -> Words] /\ pages \in [{0, 1} -> [SinkWords -> Words]]
      /\ write_q.address \in Registers => write_q.word \in Words
      /\ sink_q.address \in SinkWords => sink_q.word \in Words
      /\ written_q.write.address \in SinkWords => written_q.write.word \in Words
  BY Addresses DEF PassInv, TypeOK, RegisterWrites, SinkWrites
<1> DEFINE b1 == Landed(bank, write_q)
           p1 == LandedIn(pages, written_q.pages, written_q.write)
           on == IF sink_q = Nothing THEN {} ELSE Shadow(sink_q)
           p2 == LandedIn(p1, on, sink_q)
           onto == IF sink_q' = Nothing THEN {} ELSE Shadow(w_stage)
<1>3. b1 \in [Registers -> Words]
  BY <1>2, LandedTyped
<1>4. p1 \in [{0, 1} -> [SinkWords -> Words]]
  BY <1>2, LandedInTyped
<1>5. Bank = Landed(b1, e5) /\ Pages = LandedIn(p2, Shadow(e5), e5)
  BY DEF Bank, Pages
<1>6. Bank' = Landed(Landed(b1, write_q'), result)
  BY <1>1 DEF Bank
<1>7. sink_q' # Nothing => Shadow(sink_q)' = Shadow(w_stage)
  BY <1>1 DEF Shadow
<1>8. Shadow(e5)' = Shadow(result)
  BY <1>1 DEF Shadow
<1>9. Pages' = LandedIn(LandedIn(p2, onto, sink_q'), Shadow(result), result)
  BY <1>1, <1>7, <1>8 DEF Pages
<1> HIDE DEF p1, on, b1
<1>10. p2 \in [{0, 1} -> [SinkWords -> Words]]
  BY <1>2, <1>4, LandedInTyped
<1> HIDE DEF p2
<1>11. Landed(b1, write_q') = Landed(b1, w_stage)
  BY <1>1, <1>3, Addresses DEF Landed
<1>12. LandedIn(p2, onto, sink_q') = LandedIn(p2, Shadow(w_stage), w_stage)
  <2>1. CASE w_stage.address \in SinkWords
    BY <1>1, <2>1, Addresses
  <2>2. CASE w_stage.address \notin SinkWords
    <3>1. sink_q' = Nothing /\ onto = {}
      BY <1>1, <2>2
    <3>2. LandedIn(p2, onto, sink_q') = p2
      BY <1>10, <3>1, Addresses, LandedInTyped
    <3>3. LandedIn(p2, Shadow(w_stage), w_stage) = p2
      BY <1>10, <2>2, LandedInTyped
    <3> QED
      BY <3>2, <3>3
  <2> QED
    BY <2>1, <2>2
<1> HIDE DEF onto
<1>13. /\ Bank' = Landed(Landed(b1, w_stage), result)
       /\ Pages' = LandedIn(LandedIn(p2, Shadow(w_stage), w_stage), Shadow(result), result)
  BY <1>6, <1>9, <1>11, <1>12
<1>14. CASE pass_write = Nothing
  BY <1>5, <1>13, <1>14 DEF w_stage
<1>15. CASE pass_write # Nothing /\ e5 = Nothing /\ result = Nothing
  <2>1. Bank = b1 /\ Pages = p2
    BY <1>3, <1>5, <1>10, <1>15, Addresses, LandedTyped, LandedInTyped
  <2>2. w_stage = pass_write
    BY <1>15 DEF w_stage
  <2>3. Bank \in [Registers -> Words] /\ Pages \in [{0, 1} -> [SinkWords -> Words]]
    BY <1>3, <1>10, <2>1
  <2>4. /\ pass_write.address \in Registers \union SinkWords => pass_write.word \in Words
    BY <2>2, WStage, Addresses DEF RegisterWrites, SinkWrites
  <2>5. /\ Landed(Bank, pass_write) \in [Registers -> Words]
        /\ LandedIn(Pages, Shadow(pass_write), pass_write)
             \in [{0, 1} -> [SinkWords -> Words]]
    BY <2>3, <2>4, LandedTyped, LandedInTyped
  <2>6. /\ Landed(Landed(Bank, pass_write), Nothing) = Landed(Bank, pass_write)
        /\ LandedIn(LandedIn(Pages, Shadow(pass_write), pass_write), Shadow(Nothing), Nothing)
             = LandedIn(Pages, Shadow(pass_write), pass_write)
    BY <2>5, Addresses, LandedTyped, LandedInTyped
  <2> QED
    BY <1>13, <1>15, <2>1, <2>2, <2>6
<1> QED
  BY <1>14, <1>15

(* The three places of a popped word are a queue.                          *)
Rest == Popped(delivery[2]) \o Popped(delivery[1])

LEMMA PoppedTyped ==
  ASSUME NEW w \in Dwords \union {Nothing}
  PROVE  /\ Popped(w) \in Seq(Model!Dwords)
         /\ w # Nothing => [address |-> w.address, word |-> w.word] \in Model!Dwords
<1>1. w # Nothing => [address |-> w.address, word |-> w.word] \in Model!Dwords
  BY DEF Dwords, Model!Dwords, Words, Model!Words
<1> QED
  BY <1>1 DEF Popped

LEMMA QueueIs ==
  ASSUME PassInv
  PROVE  /\ Rest \in Seq(Model!Dwords)
         /\ head_q = Nothing => Queue = Rest
         /\ head_q # Nothing =>
              /\ Queue # <<>> /\ Tail(Queue) = Rest
              /\ Head(Queue) = [address |-> head_q.address, word |-> head_q.word]
<1>1. /\ Popped(head_q) \in Seq(Model!Dwords) /\ Popped(delivery[2]) \in Seq(Model!Dwords)
      /\ Popped(delivery[1]) \in Seq(Model!Dwords)
  BY PoppedTyped DEF PassInv, TypeOK
<1>2. Rest \in Seq(Model!Dwords)
  BY <1>1, ConcatProperties DEF Rest
<1>3. Queue = Popped(head_q) \o Rest
  <2> HIDE DEF Popped
  <2>1. (Popped(head_q) \o Popped(delivery[2])) \o Popped(delivery[1])
          = Popped(head_q) \o (Popped(delivery[2]) \o Popped(delivery[1]))
    BY <1>1, ConcatAssociative, SMTT(60)
  <2> QED
    BY <2>1 DEF Queue, Rest
<1>4. CASE head_q = Nothing
  BY <1>2, <1>3, <1>4, ConcatEmptySeq DEF Popped
<1>5. CASE head_q # Nothing
  <2> DEFINE x == [address |-> head_q.address, word |-> head_q.word]
  <2>1. Queue = <<x>> \o Rest /\ x \in Model!Dwords
    BY <1>3, <1>5, PoppedTyped DEF Popped, PassInv, TypeOK
  <2> HIDE DEF x
  <2>2. Queue # <<>> /\ Head(Queue) = x /\ Tail(Queue) = Rest
    BY <1>2, <2>1
  <2> QED
    BY <1>2, <1>5, <2>2 DEF x
<1> QED
  BY <1>2, <1>4, <1>5

LEMMA QueueStep ==
  ASSUME PassInv, NEW dword \in {Nothing} \union Dwords, WindowEdge(dword)
  PROVE  /\ Queue' = Rest \/ \E d \in Model!Dwords : Queue' = Append(Rest, d)
         /\ dword = Nothing => Queue' = Rest
<1>1. Queue' = Rest \o Popped(dword)
  BY DEF Queue, Rest, WindowEdge, Popped
<1>2. Rest \in Seq(Model!Dwords)
  BY QueueIs
<1>3. CASE dword = Nothing
  BY <1>1, <1>2, <1>3, ConcatEmptySeq DEF Popped
<1>4. CASE dword # Nothing
  <2> DEFINE d == [address |-> dword.address, word |-> dword.word]
  <2>1. d \in Model!Dwords /\ Queue' = Rest \o <<d>>
    BY <1>1, <1>4, PoppedTyped DEF Popped
  <2> HIDE DEF d
  <2>2. Queue' = Append(Rest, d)
    BY <1>2, <2>1, AppendIsConcat
  <2> QED
    BY <1>4, <2>1, <2>2
<1> QED
  BY <1>3, <1>4

(* Where in the pass a clock is.                                           *)
LEMMA PhaseStep ==
  ASSUME PassInv, slot # 0, NEW held \in MayBeHeld, PassEdge(held)
  PROVE  /\ cycle < COUNTER_CYCLE =>
              /\ Phase \in {"program", "window"} /\ Phase' \in {Phase, "window"}
         /\ cycle < COUNTER_CYCLE /\ cycle >= RUN_END + E5_STAGE =>
              Phase = "window" /\ Phase' = "window"
         /\ cycle + 1 < RUN_END + E5_STAGE => Phase = "program" /\ Phase' = "program"
         /\ cycle = COUNTER_CYCLE => Phase \in {"program", "window"} /\ Phase' = "counted"
         /\ cycle > COUNTER_CYCLE => Phase = "counted" /\ Phase' = "counted"
<1> USE Sizes
<1>1. /\ cycle' = cycle + 1 /\ cycle < Last
      /\ slot' = 0 => cycle = PROBE_CYCLE
      /\ cycle \in Nat
  BY InStepStep DEF PassInv, TypeOK
<1>2. Phase = IF cycle > COUNTER_CYCLE THEN "counted"
              ELSE IF cycle >= RUN_END + E5_STAGE THEN "window" ELSE "program"
  BY DEF Phase, pass_start
<1>3. Phase' = IF slot' = 0 \/ cycle + 1 > COUNTER_CYCLE THEN "counted"
               ELSE IF cycle + 1 >= RUN_END + E5_STAGE THEN "window" ELSE "program"
  BY <1>1 DEF Phase, pass_start
<1> QED
  BY <1>1, <1>2, <1>3

(* A clock of the pass is a step of the reference model, or none.          *)
LEMMA ClockStep ==
  ASSUME PassInv, slot # 0,
         NEW result, NEW dword, NEW address, NEW held, NEW asked,
         Input(result, dword, address, held, asked),
         Clock(result, dword, address, held, asked)
  PROVE  [Model!Next]_(Model!vars)
<1> USE Sizes
<1>1. /\ result \in {Nothing} \union Results /\ dword \in {Nothing} \union Dwords
      /\ held \in MayBeHeld
      /\ PassEdge(held) /\ WindowEdge(dword)
      /\ result # Nothing => MayResult
      /\ dword # Nothing => window_open
      /\ active_page' = active_page
  BY DEF Input, Clock, WriteEdge, WindowEdge, SinkEdge, pass_start
<1>2. /\ cycle' = cycle + 1 /\ cycle \in Nat
      /\ running' = running /\ pass_counter' = pass_counter
  BY <1>1, InStepStep DEF PassInv, TypeOK
<1>3. /\ Bank \in [Registers -> Words] /\ Pages \in [{0, 1} -> [SinkWords -> Words]]
      /\ active_page \in {0, 1} /\ running \in BOOLEAN
      /\ e5 \in Results \union {Nothing} /\ head_q \in Dwords \union {Nothing}
  BY MemoryTypes DEF PassInv, TypeOK
<1>4. /\ result # Nothing => running /\ cycle + 1 < RUN_END + E5_STAGE
      /\ head_q # Nothing => cycle < COUNTER_CYCLE /\ cycle >= RUN_END + E5_STAGE
      /\ dword # Nothing => cycle < WINDOW_END
      /\ cycle >= COUNTER_CYCLE => Rest = <<>> /\ head_q = Nothing
    <2>1. OnTime
      BY DEF PassInv, Timed
    <2>2. cycle >= COUNTER_CYCLE =>
            delivery[1] = Nothing /\ delivery[2] = Nothing /\ head_q = Nothing
      BY <1>2, <2>1 DEF OnTime
    <2>3. Popped(Nothing) \o Popped(Nothing) = <<>>
      BY ConcatEmptySeq, EmptySeq DEF Popped
    <2>4. head_q # Nothing => cycle < COUNTER_CYCLE /\ cycle >= RUN_END + E5_STAGE
      BY <1>2, <2>1 DEF OnTime
    <2>5. result # Nothing => running /\ cycle + 1 < RUN_END + E5_STAGE
      BY <1>1, <1>2 DEF MayResult
    <2> QED
      BY <1>1, <1>2, <2>2, <2>3, <2>4, <2>5 DEF Rest, window_open
<1>5. /\ Landed(Bank, Nothing) = Bank
      /\ LandedIn(Pages, Shadow(Nothing), Nothing) = Pages
  BY <1>3, Addresses, LandedTyped, LandedInTyped
<1>q. /\ Queue' = Rest \/ \E d \in Model!Dwords : Queue' = Append(Rest, d)
      /\ dword = Nothing => Queue' = Rest
  BY <1>1, QueueStep
(* The program writes.                                                     *)
<1>6. CASE result # Nothing
  <2>1. Phase = "program" /\ Phase' = "program" /\ running
    BY <1>1, <1>2, <1>4, <1>6, PhaseStep
  <2>0. cycle + 1 < RUN_END + E5_STAGE
    BY <1>4, <1>6
  <2>2. head_q = Nothing /\ ~counter_write_now
    <3>1. cycle < RUN_END + E5_STAGE /\ cycle < COUNTER_CYCLE
      BY <1>2, <2>0
    <3>2. ~counter_write_now
      BY <1>2, <3>1 DEF counter_write_now
    <3>3. head_q # Nothing => ~(cycle < RUN_END + E5_STAGE)
      BY <1>2, <1>4, SMTT(60)
    <3> QED
      BY <3>1, <3>2, <3>3
  <2>3. pass_write = Nothing
    BY <2>2, Addresses DEF pass_write
  <2>4. /\ Bank' = Landed(Bank, result)
        /\ Pages' = LandedIn(Pages, Shadow(result), result)
    BY <2>3, MemoriesStep
  <2> DEFINE w == [address |-> result.address, word |-> result.word]
  <2>5. w \in Model!ProgramWrites /\ result.both = FALSE
    <3>1. result \in Results
      BY <1>1, <1>6
    <3> QED
      BY <3>1 DEF Results, Model!ProgramWrites, Words, Model!Words
  <2>6. /\ Bank' = Model!Landed(Bank, w)
        /\ Pages' = Model!LandedIn(Pages, {1 - active_page}, w)
    BY <2>4, <2>5 DEF Landed, Model!Landed, LandedIn, Model!LandedIn, Shadow
  <2> HIDE DEF w
  <2>7. Model!write_register
    BY <1>1, <1>2, <2>1, <2>5, <2>6 DEF Model!write_register
  <2>8. Model!Taken(Queue)
    BY <1>q, <2>2, QueueIs DEF Model!Taken
  <2> QED
    BY <2>7, <2>8 DEF Model!Next
(* A dword leaves the queue, for the memories or for nowhere.              *)
<1>7. CASE result = Nothing /\ head_q # Nothing
  <2>1. Phase = "window" /\ Phase' = "window"
    BY <1>1, <1>4, <1>7, PhaseStep
  <2>2. e5 = Nothing /\ ~counter_write_now
    BY <1>7, WStage
  <2> DEFINE w == [address |-> head_q.address, word |-> head_q.word]
  <2>3. Queue # <<>> /\ Head(Queue) = w /\ Tail(Queue) = Rest
    BY <1>7, QueueIs
  <2>4. head_q \in Dwords
    BY <1>3, <1>7
  <2>5. CASE head_q.address \in Registers \ {IoBase}
    <3>1. pass_write = head_q
      BY <2>2, <2>5 DEF pass_write
    <3>2. Bank' = Landed(Bank, head_q) /\ Pages' = LandedIn(Pages, Shadow(head_q), head_q)
      BY <1>7, <2>2, <3>1, MemoriesStep
    <3>3. Pages' = Pages
      BY <1>3, <2>5, <3>2, Addresses, LandedInTyped
    <3>4. Model!LandedIn(Pages, {0, 1}, w) = Pages
      BY <1>3, <2>5, Addresses DEF Model!LandedIn, Model!Landed
    <3>5. Bank' = Model!Landed(Bank, w) /\ Model!Lands(w)
      BY <2>5, <3>2 DEF Landed, Model!Landed, Model!Lands
    <3> HIDE DEF w
    <3>6. Model!apply
      BY <1>1, <1>2, <2>1, <2>3, <3>3, <3>4, <3>5 DEF Model!apply
    <3> QED
      BY <1>q, <2>3, <3>6 DEF Model!Next, Model!Taken
  <2>6. CASE head_q.address \in SinkWords
    <3>1. pass_write = [head_q EXCEPT !.both = TRUE]
      BY <2>2, <2>6, Addresses DEF pass_write
    <3>2. /\ pass_write.address = head_q.address /\ pass_write.word = head_q.word
          /\ pass_write.both = TRUE /\ pass_write # Nothing
      BY <2>4, <2>6, <3>1, Addresses DEF Dwords
    <3>3. /\ Bank' = Landed(Bank, pass_write)
          /\ Pages' = LandedIn(Pages, {0, 1}, pass_write)
      BY <1>7, <2>2, <3>2, MemoriesStep DEF Shadow
    <3>4. Bank' = Model!Landed(Bank, w) /\ Pages' = Model!LandedIn(Pages, {0, 1}, w)
      BY <3>2, <3>3 DEF Landed, Model!Landed, LandedIn, Model!LandedIn
    <3>5. Model!Lands(w)
      BY <2>6 DEF Model!Lands
    <3> HIDE DEF w
    <3>6. Model!apply
      BY <1>1, <1>2, <2>1, <2>3, <3>4, <3>5 DEF Model!apply
    <3> QED
      BY <1>q, <2>3, <3>6 DEF Model!Next, Model!Taken
  <2>7. CASE head_q.address \notin (Registers \ {IoBase}) \union SinkWords
    <3>1. pass_write = Nothing
      BY <2>2, <2>7 DEF pass_write
    <3>2. Bank' = Bank /\ Pages' = Pages
      BY <1>5, <1>7, <3>1, MemoriesStep
    <3>3. ~Model!Lands(w)
      BY <2>7 DEF Model!Lands
    <3> HIDE DEF w
    <3>4. Model!apply
      BY <1>1, <1>2, <2>1, <2>3, <3>2, <3>3 DEF Model!apply
    <3> QED
      BY <1>q, <2>3, <3>4 DEF Model!Next, Model!Taken
  <2> QED
    BY <2>5, <2>6, <2>7
(* The pass is counted, if a program runs.                                 *)
<1>8. CASE result = Nothing /\ cycle = COUNTER_CYCLE
  <2>1. Phase \in {"program", "window"} /\ Phase' = "counted"
    BY <1>1, <1>8, PhaseStep
  <2>2. /\ head_q = Nothing /\ dword = Nothing /\ Rest = <<>>
    BY <1>2, <1>4, <1>8
  <2>3. Queue = <<>> /\ Queue' = <<>>
    BY <1>q, <2>2, QueueIs
  <2>4. /\ Bank' = IF ~running THEN Bank
                   ELSE [Bank EXCEPT ![IoBase] = (pass_counter + 1) % WORDS]
        /\ Pages' = Pages
    <3>1. CASE running
      <4>1. counter_write_now /\ e5 = Nothing
        BY <1>8, <3>1, WStage DEF counter_write_now
      <4>2. pass_write = Write(IoBase, (pass_counter + 1) % WORDS)
        BY <4>1 DEF pass_write
      <4>3. /\ pass_write.address = IoBase /\ pass_write.word = (pass_counter + 1) % WORDS
            /\ pass_write # Nothing
        BY <4>2, Addresses DEF Write
      <4>4. /\ Bank' = Landed(Bank, pass_write)
            /\ Pages' = LandedIn(Pages, Shadow(pass_write), pass_write)
        BY <1>8, <4>1, <4>3, MemoriesStep
      <4>5. Pages' = Pages
        BY <1>3, <4>3, <4>4, Addresses, LandedInTyped
      <4>6. Bank' = [Bank EXCEPT ![IoBase] = (pass_counter + 1) % WORDS]
        BY <1>3, <4>3, <4>4, Addresses DEF Landed
      <4> QED
        BY <3>1, <4>5, <4>6
    <3>2. CASE ~running
      <4>1. pass_write = Nothing
        BY <2>2, <3>2, Addresses DEF pass_write, counter_write_now
      <4> QED
        BY <1>5, <1>8, <3>2, <4>1, MemoriesStep
    <3> QED
      BY <3>1, <3>2
  <2>5. Model!count
    BY <1>1, <1>2, <2>1, <2>3, <2>4 DEF Model!count
  <2> QED
    BY <2>3, <2>5 DEF Model!Next
(* Between the two, and behind the count, nothing but a pop.               *)
<1>9. CASE result = Nothing /\ head_q = Nothing /\ cycle # COUNTER_CYCLE
  <2>1. pass_write = Nothing
    BY <1>9, Addresses DEF pass_write, counter_write_now
  <2>2. Bank' = Bank /\ Pages' = Pages
    BY <1>5, <1>9, <2>1, MemoriesStep
  <2>3. Queue = Rest
    BY <1>9, QueueIs
  <2>4. CASE cycle < COUNTER_CYCLE
    <3>1. Phase \in {"program", "window"} /\ Phase' \in {Phase, "window"}
      BY <1>1, <2>4, PhaseStep
    <3> QED
      BY <1>1, <1>2, <1>q, <2>2, <2>3, <3>1 DEF Model!Next, Model!Taken
  <2>5. CASE cycle > COUNTER_CYCLE
    <3>1. Phase = "counted" /\ Phase' = "counted"
      BY <1>1, <2>5, PhaseStep
    <3>2. dword = Nothing
      BY <1>2, <1>4, <2>5
    <3>3. Queue' = Queue
      BY <1>q, <2>3, <3>2
    <3> QED
      BY <1>1, <1>2, <2>2, <3>1, <3>3 DEF Model!vars
  <2> QED
    BY <1>2, <1>9, <2>4, <2>5
<1> QED
  BY <1>6, <1>7, <1>8, <1>9

(* The pages flip as a pass starts.                                        *)
LEMMA FlipStep ==
  ASSUME PassInv, slot = 0,
         NEW result, NEW dword, NEW address, NEW held, NEW asked,
         Input(result, dword, address, held, asked),
         Clock(result, dword, address, held, asked)
  PROVE  Model!Next
<1> USE Sizes
<1>1. /\ NothingOnItsWay /\ w_stage = Nothing /\ ~window_open /\ ~MayResult
  BY StartIsClear
<1>2. dword = Nothing /\ result = Nothing
  BY <1>1 DEF Clock, WindowEdge, WriteEdge
<1>3. /\ PassEdge(held) /\ WindowEdge(dword) /\ dword \in {Nothing} \union Dwords
  BY <1>2 DEF Clock
<1>4. /\ cycle' = 0 /\ slot' = 1 /\ held \in MayBeHeld
      /\ active_page' = 1 - active_page
      /\ pass_counter' = (pass_counter + 1) % WORDS /\ running' \in BOOLEAN
  BY <1>3, InStepStep DEF Input, Clock, PassEdge, SinkEdge, pass_start
<1>5. Phase = "counted" /\ Phase' = "program"
  BY <1>4 DEF Phase, pass_start
<1>6. Queue = <<>> /\ Queue' = <<>>
  <2>1. Rest = <<>>
    BY <1>1, ConcatEmptySeq, EmptySeq DEF NothingOnItsWay, Rest, Popped
  <2>2. Queue = Rest
    BY <1>1, QueueIs DEF NothingOnItsWay
  <2>3. Queue' = Rest
    BY <1>2, <1>3, QueueStep
  <2> QED
    BY <2>1, <2>2, <2>3
<1>7. Bank = bank /\ Pages = pages
  BY <1>1, MemoriesAtRest
<1>8. NothingOnItsWay' /\ bank' = bank /\ pages' = pages
  <2>1. /\ bank \in [Registers -> Words] /\ pages \in [{0, 1} -> [SinkWords -> Words]]
    BY DEF PassInv, TypeOK
  <2>2. bank' = bank
    BY <1>1, <2>1, Addresses, LandedTyped DEF Clock, WriteEdge, NothingOnItsWay
  <2>3. pages' = pages
    BY <1>1, <2>1, Addresses, LandedInTyped DEF Clock, SinkEdge, NothingOnItsWay
  <2>4. NothingOnItsWay'
    BY <1>1, <1>2, Addresses DEF NothingOnItsWay, Clock, WindowEdge, WriteEdge, SinkEdge
  <2> QED
    BY <2>2, <2>3, <2>4
<1>9. Bank' = Bank /\ Pages' = Pages
  <2>1. PassInv'
    BY PassStep DEF Next, Input
  <2>2. (Bank = bank /\ Pages = pages)'
    BY <1>8, <2>1, MemoriesAtRest, PTL
  <2> QED
    BY <1>7, <1>8, <2>2
<1>10. Model!flip
  BY <1>4, <1>5, <1>6, <1>9 DEF Model!flip
<1> QED
  BY <1>6, <1>10 DEF Model!Next

(* The clocked pass is the reference model's: every word the program writes*)
(* and every dword the window pops lands, in order, the window's behind the*)
(* program's and the pass's number behind both, all of it before the next  *)
(* pass, whatever the pass's length (csp_pass.sv:60-130, csp_core.sv's W   *)
(* stage, csp_sink_area.sv against processor.cpp's pass).                  *)
THEOREM PassIsTheModels == Spec => ImplementsPass
<1>1. Init => Model!Init
  <2> SUFFICES ASSUME Init PROVE Model!Init
    OBVIOUS
  <2>1. PassInv /\ NothingOnItsWay
    BY PassStarts DEF Init, NothingOnItsWay
  <2>2. Bank = bank /\ Pages = pages
    BY <2>1, MemoriesAtRest
  <2>3. Queue = <<>>
    BY ConcatEmptySeq, EmptySeq DEF Init, Queue, Popped
  <2>4. Phase = "counted"
    BY DEF Init, Phase, pass_start
  <2> QED
    BY <2>2, <2>3, <2>4 DEF Init, Model!Init
<1>2. PassInv /\ [Next]_vars => [Model!Next]_(Model!vars)
  <2> SUFFICES ASSUME PassInv, [Next]_vars PROVE [Model!Next]_(Model!vars)
    OBVIOUS
  <2>1. ASSUME NEW result, NEW dword, NEW address, NEW held, NEW asked,
               Input(result, dword, address, held, asked),
               Clock(result, dword, address, held, asked)
        PROVE  [Model!Next]_(Model!vars)
    BY <2>1, ClockStep, FlipStep
  <2>2. CASE UNCHANGED vars
    BY <2>2 DEF vars, pass_vars, write_vars, sink_vars, Model!vars, Bank, Pages, Shadow,
                Queue, Popped, Phase, pass_start
  <2> QED
    BY <2>1, <2>2 DEF Next, Input
<1>3. Spec => []PassInv
  BY WritesOnTime
<1> QED
  BY <1>1, <1>2, <1>3, PTL DEF Spec, ImplementsPass, Model!Spec

-----------------------------------------------------------------------------
(***************************************************************************)
(* The wire (SpiBus).                                                      *)
(***************************************************************************)
(* Quotients and remainders.                                               *)
LEMMA Scaled ==
  ASSUME NEW n \in Nat, NEW a \in Nat, NEW b \in Nat, a < b
  PROVE  n * a + n <= n * b /\ n * a \in Nat /\ n * b \in Nat
<1>1. PICK c \in Nat : b = a + 1 + c
  <2>1. b - a - 1 \in Nat /\ b = a + 1 + (b - a - 1)
    OBVIOUS
  <2> QED
    BY <2>1
<1>2. n * b = n * a + n + n * c /\ n * c \in Nat /\ n * a \in Nat
  BY <1>1
<1> QED
  BY <1>2

LEMMA DivMod ==
  ASSUME NEW n \in Nat, n >= 1, NEW x \in Nat
  PROVE  x \div n \in Nat /\ x % n \in 0 .. n - 1 /\ x = n * (x \div n) + (x % n)
OBVIOUS

LEMMA DivIs ==
  ASSUME NEW n \in Nat, n >= 1, NEW x \in Nat,
         NEW q \in Nat, NEW j \in 0 .. n - 1, x = n * q + j
  PROVE  x \div n = q /\ x % n = j
<1> DEFINE p == x \div n
           i == x % n
<1>1. p \in Nat /\ i \in 0 .. n - 1 /\ x = n * p + i
  BY DivMod
<1> HIDE DEF p, i
<1>2. ~ (p < q) /\ ~ (q < p)
  <2>1. n * p \in Nat /\ n * q \in Nat
    BY <1>1
  <2> QED
    BY <1>1, <2>1, Scaled
<1>3. p = q
  BY <1>1, <1>2
<1> QED
  BY <1>1, <1>3 DEF p, i

(* The next number's.                                                      *)
LEMMA DivNext ==
  ASSUME NEW n \in Nat, n >= 1, NEW x \in Nat
  PROVE  /\ x % n # n - 1 => (x + 1) \div n = x \div n /\ (x + 1) % n = (x % n) + 1
         /\ x % n = n - 1 => (x + 1) \div n = (x \div n) + 1 /\ (x + 1) % n = 0
         /\ ((x % n) + 1) % n = (x + 1) % n
<1> DEFINE q == x \div n
           j == x % n
<1>1. q \in Nat /\ j \in 0 .. n - 1 /\ x = n * q + j
  BY DivMod
<1> HIDE DEF q, j
<1>2. CASE j # n - 1
  <2>1. x + 1 = n * q + (j + 1) /\ j + 1 \in 0 .. n - 1
    BY <1>1, <1>2
  <2>2. (x + 1) \div n = q /\ (x + 1) % n = j + 1
    BY <1>1, <2>1, DivIs
  <2>3. (j + 1) % n = j + 1
    BY <2>1, DivIs
  <2> QED
    BY <1>2, <2>2, <2>3 DEF q, j
<1>3. CASE j = n - 1
  <2>1. x + 1 = n * (q + 1) + 0 /\ 0 \in 0 .. n - 1 /\ q + 1 \in Nat
    BY <1>1, <1>3
  <2>2. (x + 1) \div n = q + 1 /\ (x + 1) % n = 0
    BY <2>1, DivIs
  <2>3. (j + 1) % n = 0
    <3>1. j + 1 = n * 1 + 0 /\ j + 1 \in Nat
      BY <1>1, <1>3
    <3> QED
      BY <2>1, <3>1, DivIs
  <2> QED
    BY <1>3, <2>2, <2>3 DEF q, j
<1> QED
  BY <1>2, <1>3

LEMMA DivBelow ==
  ASSUME NEW n \in Nat, n >= 1, NEW x \in Nat, NEW c \in Nat, x < n * c
  PROVE  x \div n < c
<1> DEFINE p == x \div n
           i == x % n
<1>1. p \in Nat /\ i \in 0 .. n - 1 /\ x = n * p + i
  BY DivMod
<1> HIDE DEF p, i
<1>2. p = c \/ c < p => FALSE
  <2>1. n * p \in Nat /\ n * c \in Nat
    BY <1>1
  <2>2. CASE p = c
    BY <1>1, <2>1, <2>2
  <2>3. CASE c < p
    BY <1>1, <2>1, <2>3, Scaled
  <2> QED
    BY <2>2, <2>3
<1> QED
  BY <1>1, <1>2 DEF p

(* n more is one more.                                                    *)
LEMMA DivOneMore ==
  ASSUME NEW n \in Nat, n >= 1, NEW x \in Nat
  PROVE  (x + n) \div n = (x \div n) + 1 /\ (x + n) % n = x % n
<1> DEFINE q == x \div n
           j == x % n
<1>1. q \in Nat /\ j \in 0 .. n - 1 /\ x = n * q + j
  BY DivMod
<1> HIDE DEF q, j
<1>2. x + n = n * (q + 1) + j /\ q + 1 \in Nat
  BY <1>1
<1>3. (x + n) \div n = q + 1 /\ (x + n) % n = j
  BY <1>1, <1>2, DivIs
<1> QED
  BY <1>3 DEF q, j

-----------------------------------------------------------------------------
(* The frames.                                                             *)
LEMMA WireSizes ==
  /\ NONETS_PER_DWORD \in Nat /\ NONETS_PER_DWORD >= 2 /\ NONET \in Nat /\ NONET >= 1
  /\ burst_max \in Nat /\ NONET * NONET \in Nat /\ NONET * NONET >= 1
<1>1. NONET \in Nat /\ NONET >= 1
  BY SpiAssumption
<1>2. NONET * 0 + NONET <= NONET * NONET /\ NONET * NONET \in Nat /\ NONET * 0 = 0
  BY <1>1, Scaled
<1> QED
  BY <1>1, <1>2, SpiAssumption

LEMMA SeqOfLength ==
  ASSUME NEW S, NEW n \in Nat, NEW f
  PROVE  f \in [1 .. n -> S] <=> f \in Seq(S) /\ Len(f) = n
<1>1. ASSUME f \in [1 .. n -> S] PROVE f \in Seq(S) /\ Len(f) = n
  BY <1>1
<1>2. ASSUME f \in Seq(S), Len(f) = n PROVE f \in [1 .. n -> S]
  BY <1>2, LenProperties
<1> QED
  BY <1>1, <1>2

WireParts == [dword : WireDwords, part : 0 .. NONETS_PER_DWORD]

LEMMA FrameIs ==
  ASSUME NEW r \in Requests
  PROVE  LET N == NONETS_PER_DWORD
             c == Capped(DwordsOf(r))
             L == 3 + N * (IF r.read THEN 1 + c ELSE c)
         IN  /\ c \in Nat /\ c <= DwordsOf(r) /\ L \in Nat
             /\ DOMAIN Frame(r) = 1 .. L /\ Len(Frame(r)) = L
             /\ L >= 3
             /\ Frame(r)[1] = [read |-> r.read, auto_increment |-> r.auto_increment]
             /\ Frame(r)[2] = r.address \div NONET
             /\ Frame(r)[3] = r.address % NONET
             /\ \A i \in 4 .. L :
                  /\ Frame(r)[i] \in WireParts
                  /\ ~r.read => /\ (i - 4) \div N \in 0 .. c - 1
                                /\ Frame(r)[i] = Part(r.dwords[((i - 4) \div N) + 1], ((i - 4) % N) + 1)
<1> DEFINE N == NONETS_PER_DWORD
           c == Capped(DwordsOf(r))
           M == N * (IF r.read THEN 1 + c ELSE c)
           S == WireParts \union {header(r)[1], header(r)[2], header(r)[3]}
           body == IF r.read THEN [k \in 1 .. N * (1 + c) |-> Blank]
                   ELSE [k \in 1 .. N * c |-> Part(r.dwords[((k - 1) \div N) + 1], ((k - 1) % N) + 1)]
<1>1. /\ r.read \in BOOLEAN /\ r.address \in Nat /\ r.count \in Nat /\ r.dwords \in Seq(WireDwords)
  BY RequestsAssumption
<1>2. c \in Nat /\ c <= DwordsOf(r)
  <2>1. DwordsOf(r) \in Nat
    BY <1>1 DEF DwordsOf
  <2> QED
    BY <2>1, WireSizes DEF Capped
<1>3. M \in Nat
  BY <1>2, WireSizes
<1>4. Frame(r) = header(r) \o body
  BY <1>1 DEF Frame, read_frame, write_frame, DwordsOf
<1>5. header(r) \in Seq(S) /\ Len(header(r)) = 3
  BY DEF header
<1>6. ASSUME NEW k \in 1 .. M
      PROVE  /\ k \in DOMAIN body /\ body[k] \in WireParts
             /\ ~r.read => /\ (k - 1) \div N \in 0 .. c - 1
                           /\ body[k] = Part(r.dwords[((k - 1) \div N) + 1], ((k - 1) % N) + 1)
  <2>1. CASE r.read
    <3>1. k \in 1 .. N * (1 + c)
      BY <2>1
    <3>2. body[k] = Blank /\ k \in DOMAIN body
      BY <2>1, <3>1
    <3> QED
      BY <2>1, <3>2, SpiAssumption DEF Blank, Part, WireParts
  <2>2. CASE ~r.read
    <3>1. k \in 1 .. N * c
      BY <2>2
    <3>2. body[k] = Part(r.dwords[((k - 1) \div N) + 1], ((k - 1) % N) + 1) /\ k \in DOMAIN body
      BY <2>2, <3>1
    <3>3. k - 1 \in Nat /\ k - 1 < N * c
      BY <1>2, <1>3, <3>1, WireSizes
    <3>4. (k - 1) \div N \in 0 .. c - 1 /\ (k - 1) % N \in 0 .. N - 1
      <4>1. N \in Nat /\ N >= 1
        BY WireSizes
      <4>2. (k - 1) \div N \in Nat /\ (k - 1) % N \in 0 .. N - 1
        BY <3>3, <4>1, DivMod
      <4>3. (k - 1) \div N < c
        BY <1>2, <3>3, <4>1, DivBelow
      <4> QED
        BY <1>2, <4>2, <4>3
    <3> DEFINE d == ((k - 1) \div N) + 1
               p == ((k - 1) % N) + 1
    <3>5. d \in 1 .. Len(r.dwords) /\ p \in 0 .. N
      BY <1>1, <1>2, <2>2, <3>4, WireSizes DEF DwordsOf
    <3> HIDE DEF d, p
    <3>6. Part(r.dwords[d], p) \in WireParts
      BY <1>1, <3>5 DEF Part, WireParts
    <3> QED
      BY <3>2, <3>4, <3>6 DEF d, p
  <2> QED
    BY <1>1, <2>1, <2>2
<1>7. DOMAIN body = 1 .. M
  OBVIOUS
<1> HIDE DEF body, M, S
<1>8. body \in Seq(WireParts) /\ Len(body) = M
  <2>1. body = [k \in 1 .. M |-> body[k]]
    <3>1. CASE r.read
      BY <3>1 DEF body, M
    <3>2. CASE ~r.read
      BY <3>2 DEF body, M
    <3> QED
      BY <3>1, <3>2
  <2>2. \A k \in 1 .. M : body[k] \in WireParts
    BY <1>6
  <2>3. body \in [1 .. M -> WireParts]
    BY <2>1, <2>2
  <2> QED
    BY <1>3, <2>3
<1>9. body \in Seq(S)
  BY <1>8 DEF S
<1>10. /\ Frame(r) \in Seq(S) /\ Len(Frame(r)) = 3 + M
       /\ \A i \in 1 .. 3 + M : Frame(r)[i] = IF i <= 3 THEN header(r)[i] ELSE body[i - 3]
  <2> DEFINE h == header(r)
  <2>1. h \in Seq(S) /\ body \in Seq(S) /\ Len(h) = 3 /\ Len(body) = M /\ Frame(r) = h \o body
    BY <1>4, <1>5, <1>8, <1>9
  <2> HIDE DEF h
  <2>2. /\ h \o body \in Seq(S) /\ Len(h \o body) = Len(h) + Len(body)
        /\ \A i \in 1 .. Len(h) + Len(body) :
             (h \o body)[i] = IF i <= Len(h) THEN h[i] ELSE body[i - Len(h)]
    BY <2>1, ConcatProperties
  <2>3. /\ Frame(r) \in Seq(S) /\ Len(Frame(r)) = 3 + M
        /\ \A i \in 1 .. 3 + M : Frame(r)[i] = IF i <= 3 THEN h[i] ELSE body[i - 3]
    BY <2>1, <2>2
  <2> QED
    BY <2>3 DEF h
<1>11. /\ Frame(r)[1] = [read |-> r.read, auto_increment |-> r.auto_increment]
       /\ Frame(r)[2] = r.address \div NONET
       /\ Frame(r)[3] = r.address % NONET
  BY <1>3, <1>10 DEF header
<1>12. \A i \in 4 .. 3 + M : i - 3 \in 1 .. M /\ Frame(r)[i] = body[i - 3] /\ (i - 3) - 1 = i - 4
  BY <1>3, <1>10
<1>13. \A i \in 4 .. 3 + M :
                  /\ Frame(r)[i] \in WireParts
                  /\ ~r.read => /\ (i - 4) \div N \in 0 .. c - 1
                                /\ Frame(r)[i] = Part(r.dwords[((i - 4) \div N) + 1], ((i - 4) % N) + 1)
  BY <1>6, <1>12
<1>14. 3 + M \in Nat /\ 3 + M >= 3 /\ DOMAIN Frame(r) = 1 .. 3 + M
  BY <1>3, <1>10
<1> QED
  BY <1>2, <1>10, <1>11, <1>13, <1>14 DEF M

-----------------------------------------------------------------------------
(***************************************************************************)
(* The inductive invariant.  Where a frame is, by the nonets that have     *)
(* gone each way, gives the phase, the index and the address; behind it    *)
(* are the parts of the dword arriving, the dwords that were read, and the *)
(* dwords staged for the partial being written.                            *)
(***************************************************************************)
Nonets == {ID_NONET} \union WireParts
StatusAddresses == (MAP_STORED_DWORDS .. MAP_SYSTEM_DWORDS - 1) \ {MAP_PROBE_ADDRESS}

WireTypeOK ==
  /\ request \in Requests \union {None}
  /\ frame = IF request = None THEN <<>> ELSE Frame(request)
  /\ rx \in Seq(Nonets) /\ Len(rx) <= Len(frame)
  /\ frame_phase \in {"command", "address_high", "address_low", "turnaround", "data"}
  /\ is_read \in BOOLEAN /\ auto_increment \in BOOLEAN
  /\ dword_address \in Nat /\ nonet_index \in 0 .. NONETS_PER_DWORD - 1
  /\ partial_dword \in Seq(WireParts) /\ Len(partial_dword) = NONETS_PER_DWORD - 1
  /\ stream_dword \in WireDwords
  /\ system_dword \in [0 .. MAP_STORED_DWORDS - 1 -> WireDwords]
  /\ system_probe_register \in WireDwords
  /\ pointer_stage \in Seq(WireDwords) /\ Len(pointer_stage) = 3
  /\ pointer_entry \in [0 .. NUM_PARTIALS - 1 -> Seq(WireDwords)]

(* The nonets gone by, and the dwords: a read's turnaround is its first.   *)
Gone == Len(rx)
DwordsGone == (Gone - 3) \div NONETS_PER_DWORD

FrameInv ==
  /\ Gone = 0 => frame_phase = "command"
  /\ Gone = 1 => frame_phase = "address_high"
  /\ Gone = 2 => /\ frame_phase = "address_low"
                 /\ dword_address \div NONET = request.address \div NONET
  /\ Gone >= 3 =>
       /\ frame_phase = IF request.read /\ Gone < 3 + NONETS_PER_DWORD THEN "turnaround" ELSE "data"
       /\ nonet_index = (Gone - 3) % NONETS_PER_DWORD
       /\ Gone < Len(frame) => dword_address = At(request, DwordsGone)
  /\ Gone >= 1 => is_read = request.read /\ auto_increment = request.auto_increment

Arriving ==
  Gone >= 3 /\ ~request.read =>
    \A i \in 1 .. NONETS_PER_DWORD - 1 :
      LET at == Gone - (NONETS_PER_DWORD - 1) + i
      IN  at > 3 => partial_dword[i] = frame[at]

Reads(address) == IF in_system(address) THEN system_at(address) ELSE ZeroDword

Streaming ==
  Gone >= 3 + NONETS_PER_DWORD /\ request.read =>
    /\ stream_dword = Reads(At(request, DwordsGone - 1))
    /\ \A i \in 4 + NONETS_PER_DWORD .. Gone :
         rx[i] = Part(Reads(At(request, ((i - 4) \div NONETS_PER_DWORD) - 1)),
                      ((i - 4) % NONETS_PER_DWORD) + 1)

Offset == At(request, DwordsGone) - MAP_PARTIAL_BASE

Staged ==
  /\ Gone >= 3 /\ ~request.read /\ request.auto_increment
  /\ Offset \in 0 .. NUM_PARTIALS * MAP_PARTIAL_STRIDE - 1
  /\ Offset % MAP_PARTIAL_STRIDE \in 1 .. 3
  /\ Offset % MAP_PARTIAL_STRIDE <= DwordsGone
  => \A k \in 1 .. Offset % MAP_PARTIAL_STRIDE :
       pointer_stage[k] = request.dwords[DwordsGone - (Offset % MAP_PARTIAL_STRIDE) + k]

WireInv == WireTypeOK /\ FrameInv /\ Arriving /\ Streaming /\ Staged

LEMMA WireInvInit == WireInit => WireInv
<1> SUFFICES ASSUME WireInit PROVE WireInv
  OBVIOUS
<1> USE DEF WireInit
<1>1. WireTypeOK
  <2>1. Blank \in WireParts
    BY SpiAssumption DEF Blank, Part, WireParts
  <2>2. partial_dword \in Seq(WireParts) /\ Len(partial_dword) = NONETS_PER_DWORD - 1
    BY <2>1, WireSizes
  <2>3. 0 \in 0 .. NONETS_PER_DWORD - 1
    BY WireSizes
  <2>4. ZeroDword \in WireDwords
    BY SpiAssumption
  <2>5. <<>> \in Seq(Nonets) /\ Len(<<>>) = 0
    OBVIOUS
  <2>6. pointer_stage \in Seq(WireDwords) /\ Len(pointer_stage) = 3
    BY <2>4
  <2>7. pointer_entry \in [0 .. NUM_PARTIALS - 1 -> Seq(WireDwords)]
    <3>1. <<ZeroDword, ZeroDword, ZeroDword, ZeroDword>> \in Seq(WireDwords)
      BY <2>4
    <3> QED
      BY <3>1
  <2>8. system_dword \in [0 .. MAP_STORED_DWORDS - 1 -> WireDwords]
    BY <2>4
  <2>9. /\ request = None /\ frame = <<>> /\ rx = <<>> /\ frame_phase = "command"
        /\ is_read = FALSE /\ auto_increment = FALSE /\ dword_address = 0 /\ nonet_index = 0
        /\ stream_dword = ZeroDword /\ system_probe_register = ZeroDword
    OBVIOUS
  <2> HIDE DEF WireInit
  <2>10. /\ rx \in Seq(Nonets) /\ Len(rx) <= Len(frame)
         /\ frame = IF request = None THEN <<>> ELSE Frame(request)
    BY <2>5, <2>9
  <2> QED
    BY <2>2, <2>3, <2>4, <2>6, <2>7, <2>8, <2>9, <2>10 DEF WireTypeOK
<1>2. Gone = 0
  BY DEF Gone
<1> QED
  BY <1>1, <1>2, WireSizes DEF WireInv, FrameInv, Arriving, Streaming, Staged

(* A nonet each way.                                                       *)
LEMMA ExchangeIs ==
  ASSUME WireTypeOK, Exchanged
  PROVE  /\ request \in Requests /\ request' = request /\ frame' = frame /\ frame = Frame(request)
         /\ Gone \in Nat /\ Gone < Len(frame) /\ Gone' = Gone + 1 /\ Len(frame) \in Nat
         /\ rx_nonet = frame[Gone + 1]
         /\ rx' \in Seq(Nonets)
         /\ \A i \in 1 .. Gone : rx'[i] = rx[i]
         /\ rx'[Gone + 1] = tx_nonet
<1>1. request \in Requests
  BY DEF WireTypeOK, Exchanged
<1>2. request # None /\ frame = Frame(request) /\ Len(frame) \in Nat
  BY <1>1, RequestsAssumption, FrameIs DEF WireTypeOK
<1>3. tx_nonet \in Nonets
  <2>1. stream_dword \in WireDwords /\ nonet_index + 1 \in 0 .. NONETS_PER_DWORD
    BY WireSizes DEF WireTypeOK
  <2>2. Part(stream_dword, nonet_index + 1) \in WireParts
    BY <2>1 DEF Part, WireParts
  <2>3. Blank \in WireParts
    BY SpiAssumption DEF Blank, Part, WireParts
  <2> QED
    BY <2>2, <2>3 DEF tx_nonet, Nonets
<1>4. rx \in Seq(Nonets) /\ rx' = Append(rx, tx_nonet)
  BY DEF WireTypeOK, Exchanged
<1>5. /\ rx' \in Seq(Nonets) /\ Len(rx') = Len(rx) + 1 /\ Len(rx) \in Nat
      /\ \A i \in 1 .. Len(rx) : rx'[i] = rx[i]
      /\ rx'[Len(rx) + 1] = tx_nonet
  <2> HIDE DEF tx_nonet
  <2> QED
    BY <1>3, <1>4, AppendProperties
<1> QED
  BY <1>1, <1>2, <1>5 DEF Exchanged, Gone, rx_nonet

(* A dword's address and the next one's.                                   *)
LEMMA AtNext ==
  ASSUME NEW r \in Requests, NEW k \in Nat
  PROVE  /\ At(r, k) \in Nat
         /\ r.auto_increment /\ k + 1 <= DwordsOf(r) =>
              (At(r, k) + 1) % (NONET * NONET) = At(r, k + 1)
         /\ ~r.auto_increment => At(r, k) = At(r, k + 1)
         /\ r.auto_increment => At(r, k + 1) = At(r, k) + 1
<1>1. /\ r.auto_increment \in BOOLEAN /\ r.address \in Nat /\ DwordsOf(r) \in Nat
      /\ At(r, DwordsOf(r)) < NONET * NONET
  BY RequestsAssumption DEF DwordsOf
<1>2. ASSUME r.auto_increment, k + 1 <= DwordsOf(r)
      PROVE  (At(r, k) + 1) % (NONET * NONET) = At(r, k + 1)
  <2> DEFINE M == NONET * NONET
             a == r.address + k + 1
  <2>1. a \in Nat /\ M \in Nat /\ a < M /\ 1 <= M
    BY <1>1, <1>2, WireSizes DEF At
  <2>2. At(r, k) + 1 = a /\ At(r, k + 1) = a
    BY <1>1, <1>2 DEF At
  <2> HIDE DEF M, a
  <2>3. a = M * 0 + a /\ a \in 0 .. M - 1 /\ 0 \in Nat
    BY <2>1
  <2>4. a % M = a
    BY <2>1, <2>3, DivIs
  <2> QED
    BY <2>2, <2>4 DEF M
<1>3. At(r, k) \in Nat
  BY <1>1 DEF At
<1>4. ~r.auto_increment => At(r, k) = At(r, k + 1)
  BY DEF At
<1>5. r.auto_increment => At(r, k + 1) = At(r, k) + 1
  BY <1>1 DEF At
<1> QED
  BY <1>2, <1>3, <1>4, <1>5

(* Past the header: the dwords gone by, before and after a nonet.          *)
LEMMA DwordsNext ==
  ASSUME WireInv, Exchanged, Gone >= 3
  PROVE  LET N == NONETS_PER_DWORD
             c == Capped(DwordsOf(request))
             all == IF request.read THEN 1 + c ELSE c
             last == (Gone - 3) % N = N - 1
         IN  /\ DwordsGone \in Nat /\ DwordsGone < all /\ (Gone - 3) % N \in 0 .. N - 1
             /\ Gone - 3 = N * DwordsGone + ((Gone - 3) % N)
             /\ last_nonet_of_dword <=> last
             /\ (nonet_index + 1) % N = (Gone' - 3) % N
             /\ last => DwordsGone' = DwordsGone + 1 /\ (Gone' - 3) % N = 0
             /\ ~last => DwordsGone' = DwordsGone /\ (Gone' - 3) % N = ((Gone - 3) % N) + 1
             /\ dword_address = At(request, DwordsGone)
             /\ Gone' < Len(frame) => DwordsGone' < all
             /\ request.read => (DwordsGone = 0 <=> Gone < 3 + N)
             /\ request.read => (DwordsGone' = 0 <=> Gone' < 3 + N)
<1> DEFINE N == NONETS_PER_DWORD
           c == Capped(DwordsOf(request))
           all == IF request.read THEN 1 + c ELSE c
           x == Gone - 3
           d == x \div N
           j == x % N
           d2 == (x + 1) \div N
           j2 == (x + 1) % N
<1> USE DEF WireInv
<1>1. /\ request \in Requests /\ frame = Frame(request)
      /\ Gone \in Nat /\ Gone < Len(frame) /\ Gone' = Gone + 1
  BY ExchangeIs
<1>2. c \in Nat /\ Len(frame) = 3 + N * all /\ all \in Nat
  <2>1. c \in Nat /\ Len(Frame(request)) = 3 + N * all
    BY <1>1, FrameIs, Zenon
  <2> HIDE DEF c
  <2> QED
    BY <1>1, <2>1
<1>3. N \in Nat /\ N >= 2 /\ N >= 1
  BY WireSizes
<1>4. /\ x \in Nat /\ x < N * all /\ x + 1 \in Nat /\ Gone' - 3 = x + 1
      /\ Gone' < Len(frame) => x + 1 < N * all
  BY <1>1, <1>2, <1>3
<1>5. nonet_index = j /\ dword_address = At(request, d)
  BY <1>1 DEF FrameInv, DwordsGone
<1>6. DwordsGone = d /\ DwordsGone' = d2
  BY <1>4 DEF DwordsGone
<1> HIDE DEF x, c, all
<1>7. d \in Nat /\ j \in 0 .. N - 1 /\ x = N * d + j /\ d2 \in Nat /\ j2 \in 0 .. N - 1 /\ x + 1 = N * d2 + j2
  BY <1>3, <1>4, DivMod
<1>8. d < all /\ (Gone' < Len(frame) => d2 < all)
  <2>1. d < all
    BY <1>2, <1>3, <1>4, DivBelow
  <2>2. Gone' < Len(frame) => d2 < all
    BY <1>2, <1>3, <1>4, DivBelow
  <2> QED
    BY <2>1, <2>2
<1>9. /\ j # N - 1 => d2 = d /\ j2 = j + 1
      /\ j = N - 1 => d2 = d + 1 /\ j2 = 0
      /\ (j + 1) % N = j2
  BY <1>3, <1>4, DivNext
<1>10. ASSUME NEW q \in Nat, NEW i \in 0 .. N - 1, NEW y \in Nat, y = N * q + i
       PROVE  q = 0 <=> y < N
  <2>1. CASE q = 0
    BY <1>3, <1>10, <2>1
  <2>2. CASE q # 0
    <3>1. N * 0 + N <= N * q /\ N * q \in Nat /\ N * 0 = 0
      BY <1>3, <2>2, Scaled
    <3> QED
      BY <1>3, <1>10, <2>2, <3>1
  <2> QED
    BY <2>1, <2>2
<1>11. (d = 0 <=> x < N) /\ (d2 = 0 <=> x + 1 < N)
  <2> HIDE DEF d, j, d2, j2
  <2> QED
    BY <1>4, <1>7, <1>10
<1> HIDE DEF d, j, d2, j2
<1>12. (x < N <=> Gone < 3 + N) /\ (x + 1 < N <=> Gone' < 3 + N)
  BY <1>1, <1>3 DEF x
<1>13. last_nonet_of_dword <=> j = N - 1
  BY <1>5 DEF last_nonet_of_dword
<1>14. (nonet_index + 1) % N = j2
  BY <1>5, <1>9
<1>15. j = (Gone - 3) % N /\ j2 = (Gone' - 3) % N
  BY <1>4 DEF x, j, j2
<1> QED
  BY <1>4, <1>5, <1>6, <1>7, <1>8, <1>9, <1>11, <1>12, <1>13, <1>14, <1>15 DEF x, c, all

(* In the data phase: past the header, and of a read past the turnaround.  *)
LEMMA InData ==
  ASSUME WireInv, Exchanged, frame_phase = "data"
  PROVE  /\ Gone >= 3 /\ is_read = request.read
         /\ request.read => Gone >= 3 + NONETS_PER_DWORD
         /\ rx_nonet \in WireParts
<1>1. Gone \in Nat /\ request \in Requests /\ frame = Frame(request) /\ rx_nonet = frame[Gone + 1]
      /\ Gone < Len(frame)
  BY ExchangeIs DEF WireInv
<1>2. Gone >= 3 /\ is_read = request.read /\ (request.read => Gone >= 3 + NONETS_PER_DWORD)
  BY <1>1, WireSizes DEF WireInv, FrameInv
<1>3. rx_nonet \in WireParts
  <2> DEFINE L == 3 + NONETS_PER_DWORD * (IF request.read THEN 1 + Capped(DwordsOf(request)) ELSE Capped(DwordsOf(request)))
  <2>1. L \in Nat /\ Len(frame) = L /\ \A i \in 4 .. L : frame[i] \in WireParts
    BY <1>1, FrameIs, Zenon
  <2> HIDE DEF L
  <2>2. Gone + 1 \in 4 .. L
    BY <1>1, <1>2, <2>1
  <2> QED
    BY <1>1, <2>1, <2>2
<1> QED
  BY <1>2, <1>3

(* The last nonet makes the dword whole.                                   *)
LEMMA DwordArrives ==
  ASSUME WireInv, Exchanged, frame_phase = "data", ~is_read, last_nonet_of_dword
  PROVE  /\ Gone >= 3 /\ request \in Requests /\ ~request.read
         /\ DwordsGone \in Nat /\ DwordsGone < Len(request.dwords)
         /\ dword_data = request.dwords[DwordsGone + 1] /\ dword_data \in WireDwords
         /\ dword_address = At(request, DwordsGone) /\ dword_address \in Nat
         /\ DwordsGone' = DwordsGone + 1
<1> DEFINE N == NONETS_PER_DWORD
           d == DwordsGone
           c == Capped(DwordsOf(request))
           P == Append(partial_dword, rx_nonet)
           D == request.dwords[d + 1]
<1>1. /\ Gone >= 3 /\ ~request.read /\ rx_nonet \in WireParts
  BY InData
<1>2. /\ request \in Requests /\ frame = Frame(request) /\ Gone \in Nat /\ Gone < Len(frame)
      /\ rx_nonet = frame[Gone + 1]
  BY ExchangeIs DEF WireInv
<1>3. /\ d \in Nat /\ d < c /\ Gone - 3 = N * d + (N - 1) /\ DwordsGone' = d + 1
      /\ dword_address = At(request, d)
  BY <1>1, DwordsNext, Zenon
<1>4. /\ c \in Nat /\ c <= Len(request.dwords) /\ Len(frame) = 3 + N * c /\ Len(request.dwords) \in Nat
      /\ \A i \in 4 .. 3 + N * c : frame[i] = Part(request.dwords[((i - 4) \div N) + 1], ((i - 4) % N) + 1)
  <2>1. DwordsOf(request) = Len(request.dwords) /\ request.dwords \in Seq(WireDwords)
    BY <1>1, <1>2, RequestsAssumption DEF DwordsOf
  <2> DEFINE L == 3 + N * (IF request.read THEN 1 + c ELSE c)
  <2>2. /\ c \in Nat /\ c <= DwordsOf(request) /\ Len(Frame(request)) = L
        /\ \A i \in 4 .. L :
             ~request.read => Frame(request)[i] = Part(request.dwords[((i - 4) \div N) + 1], ((i - 4) % N) + 1)
    BY <1>2, FrameIs, Zenon
  <2>3. L = 3 + N * c
    BY <1>1
  <2>4. Len(request.dwords) \in Nat
    BY <2>1
  <2> HIDE DEF c, L
  <2> QED
    BY <1>1, <1>2, <2>1, <2>2, <2>3, <2>4
<1>5. N \in Nat /\ N >= 2 /\ N * d \in Nat
  BY <1>3, WireSizes
<1>6. request.dwords \in Seq(WireDwords) /\ D \in WireDwords
  BY <1>2, <1>3, <1>4, RequestsAssumption
<1> HIDE DEF c, d, D
<1>7. partial_dword \in Seq(WireParts) /\ Len(partial_dword) = N - 1
  BY DEF WireInv, WireTypeOK
<1>8. /\ P \in Seq(WireParts) /\ Len(P) = N
      /\ P[N] = rx_nonet /\ \A i \in 1 .. N - 1 : P[i] = partial_dword[i]
  BY <1>1, <1>5, <1>7, AppendProperties
<1> HIDE DEF P
<1>9. \A i \in 1 .. N : P[i] = frame[3 + N * d + i]
  <2>1. P[N] = frame[3 + N * d + N]
    <3>1. P[N] = frame[Gone + 1]
      BY <1>2, <1>8
    <3>2. Gone + 1 = 3 + N * d + N
      <4> DEFINE x == N * d
      <4>1. x \in Nat /\ Gone - 3 = x + (N - 1)
        BY <1>3, <1>5
      <4> HIDE DEF x
      <4>2. Gone + 1 = 3 + x + N
        BY <1>2, <1>5, <4>1
      <4> QED
        BY <4>2 DEF x
    <3> QED
      BY <3>1, <3>2
  <2>2. ASSUME NEW i \in 1 .. N - 1 PROVE P[i] = frame[3 + N * d + i]
    <3>1. Gone - (N - 1) + i = 3 + N * d + i /\ 3 + N * d + i > 3
      BY <1>2, <1>3, <1>5
    <3> QED
      BY <1>1, <1>8, <3>1 DEF WireInv, Arriving
  <2> QED
    BY <1>5, <2>1, <2>2
<1>10. ASSUME NEW i \in 1 .. N PROVE frame[3 + N * d + i] = Part(D, i)
  <2>1. (3 + N * d + i) - 4 = N * d + (i - 1) /\ i - 1 \in 0 .. N - 1 /\ N * d + (i - 1) \in Nat
    BY <1>5
  <2>2. (N * d + (i - 1)) \div N = d /\ (N * d + (i - 1)) % N = i - 1
    <3> DEFINE x == N * d + (i - 1)
    <3>1. x \in Nat /\ x = N * d + (i - 1) /\ N >= 1
      BY <1>5, <2>1
    <3> HIDE DEF x
    <3>2. x \div N = d /\ x % N = i - 1
      BY <1>3, <1>5, <2>1, <3>1, DivIs
    <3> QED
      BY <3>1, <3>2
  <2>3. 3 + N * d + i \in 4 .. 3 + N * c
    <3>1. N * d + N <= N * c /\ N * c \in Nat
      BY <1>3, <1>4, <1>5, Scaled
    <3> QED
      BY <1>5, <3>1
  <2> QED
    BY <1>4, <2>1, <2>2, <2>3 DEF D
<1>11. P = Parts(D)
  <2>1. \A i \in 1 .. N : P[i] = Part(D, i)
    BY <1>9, <1>10
  <2>2. P = [i \in 1 .. N |-> P[i]]
    BY <1>5, <1>8
  <2> QED
    BY <2>1, <2>2 DEF Parts
<1>12. P[1].dword = D
  <2>1. P[1] = Part(D, 1)
    BY <1>5, <1>9, <1>10
  <2> QED
    BY <2>1 DEF Part
<1>13. dword_data = D
  BY <1>11, <1>12 DEF dword_data, Whole, P
<1>14. At(request, d) \in Nat
  BY <1>2, <1>3, AtNext
<1>15. d < Len(request.dwords)
  BY <1>3, <1>4
<1> QED
  BY <1>1, <1>2, <1>3, <1>6, <1>13, <1>14, <1>15 DEF d, D

-----------------------------------------------------------------------------
(* Partials and their dwords.                                              *)
LEMMA PartialIs ==
  ASSUME dword_address \in Nat, in_partial
  PROVE  /\ partial_offset \in Nat /\ partial_offset \div MAP_PARTIAL_STRIDE \in 0 .. NUM_PARTIALS - 1
         /\ pointer_dword \in 0 .. MAP_PARTIAL_STRIDE - 1
         /\ dword_address = Base(partial_offset \div MAP_PARTIAL_STRIDE) + pointer_dword
<1> DEFINE S == MAP_PARTIAL_STRIDE
           o == partial_offset
<1>1. S \in Nat /\ S >= 1 /\ NUM_PARTIALS \in Nat /\ MAP_PARTIAL_BASE \in Nat
  BY SpiAssumption
<1>2. o \in Nat /\ o < S * NUM_PARTIALS /\ dword_address = MAP_PARTIAL_BASE + o
  BY <1>1 DEF in_partial, partial_offset
<1> HIDE DEF o
<1>3. o \div S \in Nat /\ o % S \in 0 .. S - 1 /\ o = S * (o \div S) + (o % S)
  BY <1>1, <1>2, DivMod
<1>4. o \div S < NUM_PARTIALS
  BY <1>1, <1>2, DivBelow
<1> DEFINE q == o \div S
           j == o % S
<1> HIDE DEF q, j
<1>5. dword_address = Base(q) + j
  BY <1>1, <1>2, <1>3 DEF Base, q, j
<1> QED
  BY <1>1, <1>2, <1>3, <1>4, <1>5 DEF o, q, j, pointer_dword

LEMMA ReadsType ==
  ASSUME WireTypeOK, NEW address \in Nat
  PROVE  Reads(address) \in WireDwords
<1>1. /\ MAP_STORED_DWORDS \in Nat /\ MAP_SYSTEM_DWORDS \in Nat /\ MAP_PROBE_ADDRESS \in Nat
      /\ Status \in [StatusAddresses -> WireDwords] /\ ZeroDword \in WireDwords
  BY SpiAssumption DEF StatusAddresses
<1>2. CASE ~in_system(address)
  BY <1>1, <1>2 DEF Reads
<1>3. CASE in_system(address) /\ address < MAP_STORED_DWORDS
  BY <1>1, <1>3 DEF Reads, system_at, WireTypeOK
<1>4. CASE in_system(address) /\ ~(address < MAP_STORED_DWORDS) /\ address = MAP_PROBE_ADDRESS
  BY <1>1, <1>4 DEF Reads, system_at, WireTypeOK
<1>5. CASE in_system(address) /\ ~(address < MAP_STORED_DWORDS) /\ address # MAP_PROBE_ADDRESS
  <2>1. address \in StatusAddresses
    BY <1>1, <1>5 DEF in_system, StatusAddresses
  <2> QED
    BY <1>1, <1>5, <2>1 DEF Reads, system_at
<1> QED
  BY <1>2, <1>3, <1>4, <1>5

LEMMA DataTypes ==
  ASSUME WireInv, Data
  PROVE  /\ partial_dword' \in Seq(WireParts) /\ Len(partial_dword') = NONETS_PER_DWORD - 1
         /\ nonet_index' \in 0 .. NONETS_PER_DWORD - 1
         /\ dword_address' \in Nat /\ stream_dword' \in WireDwords
<1> USE DEF WireInv
<1>1. Exchanged /\ frame_phase = "data"
  BY DEF Data
<1>2. rx_nonet \in WireParts
  BY <1>1, InData
<1>3. partial_dword \in Seq(WireParts) /\ Len(partial_dword) = NONETS_PER_DWORD - 1 /\ partial_dword # <<>>
  BY WireSizes DEF WireTypeOK
<1>4. partial_dword' \in Seq(WireParts) /\ Len(partial_dword') = NONETS_PER_DWORD - 1
  <2>1. /\ Tail(partial_dword) \in Seq(WireParts)
        /\ Len(Tail(partial_dword)) = Len(partial_dword) - 1
    BY <1>3, HeadTailProperties
  <2>2. partial_dword' = Append(Tail(partial_dword), rx_nonet)
    BY DEF Data
  <2> QED
    BY <1>2, <1>3, <2>1, <2>2, AppendProperties, WireSizes
<1>5. nonet_index' \in 0 .. NONETS_PER_DWORD - 1
  <2>1. nonet_index + 1 \in Nat /\ NONETS_PER_DWORD \in Nat /\ NONETS_PER_DWORD >= 1
    BY WireSizes DEF WireTypeOK
  <2>2. (nonet_index + 1) % NONETS_PER_DWORD \in 0 .. NONETS_PER_DWORD - 1
    BY <2>1, DivMod
  <2> QED
    BY <2>2 DEF Data
<1>6. Stepped \in Nat
  <2>1. dword_address + 1 \in Nat /\ NONET * NONET \in Nat /\ NONET * NONET >= 1
    BY WireSizes DEF WireTypeOK
  <2>2. (dword_address + 1) % (NONET * NONET) \in 0 .. (NONET * NONET) - 1
    <3> DEFINE M == NONET * NONET
    <3> HIDE DEF M
    <3> QED
      BY <2>1, DivMod DEF M
  <2> QED
    BY <2>1, <2>2 DEF Stepped, WireTypeOK
<1>7. dword_address' \in Nat
  BY <1>6 DEF Data, WireTypeOK
<1>8. stream_dword' \in WireDwords
  <2>1. addressed_data = Reads(dword_address) /\ dword_address \in Nat
    BY DEF addressed_data, Reads, WireTypeOK
  <2>2. addressed_data \in WireDwords
    BY <2>1, ReadsType
  <2> QED
    BY <2>2 DEF Data, WireTypeOK
<1> QED
  BY <1>4, <1>5, <1>7, <1>8

-----------------------------------------------------------------------------
(* The types and the position are kept.                                    *)
LEMMA BeginIs ==
  ASSUME Begin
  PROVE  /\ request' \in Requests /\ request' # None /\ frame' = Frame(request')
         /\ Len(frame') \in Nat /\ Len(frame') >= 3
         /\ rx' = <<>> /\ Gone' = 0
<1>1. request' \in Requests /\ frame' = Frame(request') /\ rx' = <<>>
  BY DEF Begin
<1>2. Len(frame') \in Nat /\ Len(frame') >= 3
  BY <1>1, FrameIs
<1> QED
  BY <1>1, <1>2, RequestsAssumption DEF Gone

LEMMA ExchangeTypes ==
  ASSUME WireInv, Exchanged
  PROVE  /\ request' \in Requests \union {None}
         /\ frame' = IF request' = None THEN <<>> ELSE Frame(request')
         /\ rx' \in Seq(Nonets) /\ Len(rx') <= Len(frame')
<1>1. /\ request \in Requests /\ request' = request /\ frame' = frame /\ frame = Frame(request)
      /\ Gone \in Nat /\ Gone < Len(frame) /\ Gone' = Gone + 1 /\ Len(frame) \in Nat /\ rx' \in Seq(Nonets)
  BY ExchangeIs DEF WireInv
<1>2. Len(rx') = Gone'
  BY DEF Gone
<1>3. Len(rx') <= Len(frame')
  BY <1>1, <1>2
<1>4. request' # None
  BY <1>1, RequestsAssumption
<1>5. frame' = Frame(request')
  BY <1>1
<1> QED
  BY <1>1, <1>3, <1>4, <1>5

(* The header's nonets, each in its phase.                                 *)
LEMMA HeaderIs ==
  ASSUME WireInv, Exchanged
  PROVE  /\ frame_phase = "command" =>
              Gone = 0 /\ rx_nonet = [read |-> request.read, auto_increment |-> request.auto_increment]
         /\ frame_phase = "address_high" => Gone = 1 /\ rx_nonet = request.address \div NONET
         /\ frame_phase = "address_low" => Gone = 2 /\ rx_nonet = request.address % NONET
         /\ frame_phase = "turnaround" => Gone >= 3
<1>1. request \in Requests /\ frame = Frame(request) /\ Gone \in Nat /\ rx_nonet = frame[Gone + 1]
  BY ExchangeIs DEF WireInv
<1>2. /\ frame[1] = [read |-> request.read, auto_increment |-> request.auto_increment]
      /\ frame[2] = request.address \div NONET /\ frame[3] = request.address % NONET
  BY <1>1, FrameIs, Zenon
<1>3. Gone = 0 \/ Gone = 1 \/ Gone = 2 \/ Gone >= 3
  BY <1>1
<1>4. /\ frame_phase = "command" => Gone = 0
      /\ frame_phase = "address_high" => Gone = 1
      /\ frame_phase = "address_low" => Gone = 2
      /\ frame_phase = "turnaround" => Gone >= 3
  BY <1>1, <1>3 DEF WireInv, FrameInv
<1> QED
  BY <1>1, <1>2, <1>4

LEMMA WireTypeNext ==
  ASSUME WireInv, [WireNext]_wire_vars
  PROVE  WireTypeOK'
<1> USE DEF WireInv
<1>0. Exchanged => /\ request' \in Requests \union {None}
                   /\ frame' = IF request' = None THEN <<>> ELSE Frame(request')
                   /\ rx' \in Seq(Nonets) /\ Len(rx') <= Len(frame')
  BY ExchangeTypes, Zenon
<1>1. CASE Begin
  <2>1. rx' \in Seq(Nonets) /\ Len(rx') = 0
    BY <1>1, BeginIs
  <2> QED
    BY <1>1, <2>1, BeginIs DEF Begin, slave_vars, WireTypeOK
<1>2. CASE Deselect
  <2>1. rx' \in Seq(Nonets) /\ Len(rx') = 0 /\ Len(frame') = 0
    BY <1>2 DEF Deselect
  <2>2. 0 \in 0 .. NONETS_PER_DWORD - 1
    BY WireSizes
  <2> QED
    BY <1>2, <2>1, <2>2 DEF Deselect, WireTypeOK
<1>3. CASE Command
  <2>1. Gone = 0 /\ rx_nonet = [read |-> request.read, auto_increment |-> request.auto_increment]
        /\ request \in Requests
    <3>1. Exchanged /\ frame_phase = "command"
      BY <1>3 DEF Command
    <3> QED
      BY <3>1, HeaderIs, ExchangeIs
  <2>2. is_read' \in BOOLEAN /\ auto_increment' \in BOOLEAN
    BY <1>3, <2>1, RequestsAssumption DEF Command
  <2> QED
    BY <1>0, <1>3, <2>2 DEF Command, map_vars, WireTypeOK
<1>4. CASE AddressHigh
  <2>1. rx_nonet = request.address \div NONET /\ request \in Requests
    <3>1. Exchanged /\ frame_phase = "address_high"
      BY <1>4 DEF AddressHigh
    <3> QED
      BY <3>1, HeaderIs, ExchangeIs
  <2>2. dword_address' \in Nat
    <3>1. request.address \in Nat /\ dword_address \in Nat
      BY <2>1, RequestsAssumption DEF WireTypeOK
    <3>2. request.address \div NONET \in Nat /\ dword_address % NONET \in 0 .. NONET - 1
      BY <3>1, WireSizes, DivMod
    <3>3. rx_nonet * NONET \in Nat
      BY <2>1, <3>2, WireSizes
    <3> QED
      BY <1>4, <3>2, <3>3, WireSizes DEF AddressHigh
  <2> QED
    BY <1>0, <1>4, <2>2 DEF AddressHigh, map_vars, WireTypeOK
<1>5. CASE AddressLow
  <2>1. rx_nonet = request.address % NONET /\ request \in Requests
    <3>1. Exchanged /\ frame_phase = "address_low"
      BY <1>5 DEF AddressLow
    <3> QED
      BY <3>1, HeaderIs, ExchangeIs
  <2>2. dword_address' \in Nat
    <3>1. request.address \in Nat /\ dword_address \in Nat
      BY <2>1, RequestsAssumption DEF WireTypeOK
    <3>2. dword_address \div NONET \in Nat /\ request.address % NONET \in 0 .. NONET - 1
      BY <3>1, WireSizes, DivMod
    <3>3. (dword_address \div NONET) * NONET \in Nat
      BY <3>2, WireSizes
    <3> QED
      BY <1>5, <2>1, <3>2, <3>3, WireSizes DEF AddressLow
  <2>3. 0 \in 0 .. NONETS_PER_DWORD - 1
    BY WireSizes
  <2> QED
    BY <1>0, <1>5, <2>2, <2>3 DEF AddressLow, map_vars, WireTypeOK
<1>6. CASE Turnaround
  <2>1. nonet_index' \in 0 .. NONETS_PER_DWORD - 1
    <3>1. nonet_index + 1 \in Nat /\ NONETS_PER_DWORD \in Nat /\ NONETS_PER_DWORD >= 1
      BY WireSizes DEF WireTypeOK
    <3>2. (nonet_index + 1) % NONETS_PER_DWORD \in 0 .. NONETS_PER_DWORD - 1
      BY <3>1, DivMod
    <3> QED
      BY <1>6, <3>2 DEF Turnaround
  <2>2. addressed_data \in WireDwords
    <3>1. addressed_data = Reads(dword_address) /\ dword_address \in Nat
      BY DEF addressed_data, Reads, WireTypeOK
    <3> QED
      BY <3>1, ReadsType
  <2>3. Stepped \in Nat
    <3>1. dword_address \in Nat /\ dword_address + 1 \in Nat /\ NONET * NONET \in Nat /\ NONET * NONET >= 1
      BY WireSizes DEF WireTypeOK
    <3>2. (dword_address + 1) % (NONET * NONET) \in 0 .. (NONET * NONET) - 1
      <4> DEFINE M == NONET * NONET
      <4> HIDE DEF M
      <4> QED
        BY <3>1, DivMod DEF M
    <3> QED
      BY <3>1, <3>2 DEF Stepped
  <2>4. /\ stream_dword' \in WireDwords /\ dword_address' \in Nat
        /\ frame_phase' \in {"command", "address_high", "address_low", "turnaround", "data"}
    BY <1>6, <2>2, <2>3 DEF Turnaround, Ahead, WireTypeOK
  <2> QED
    BY <1>0, <1>6, <2>1, <2>4 DEF Turnaround, map_vars, WireTypeOK
<1>7. CASE DataNonet
  <2>1. Data
    BY <1>7 DEF DataNonet
  <2>2. Exchanged /\ UNCHANGED <<frame_phase, is_read, auto_increment>>
    BY <2>1 DEF Data
  <2>3. UNCHANGED map_vars
    BY <1>7 DEF DataNonet
  <2> QED
    BY <1>0, <2>1, <2>2, <2>3, DataTypes DEF map_vars, WireTypeOK
<1>8. CASE DataDword
  <2>1. Data
    BY <1>8 DEF DataDword
  <2>2. Exchanged /\ UNCHANGED <<frame_phase, is_read, auto_increment>>
    BY <2>1 DEF Data
  <2>3. dword_data \in WireDwords /\ dword_address \in Nat
    BY <1>8, <2>1, DwordArrives DEF Data, DataDword
  <2>4. Land
    BY <1>8 DEF DataDword
  <2> DEFINE w == dword_data
  <2>5. [w EXCEPT !.swap = FALSE] \in WireDwords
    BY <2>3 DEF WireDwords
  <2> HIDE DEF w
  <2>6. system_dword' \in [0 .. MAP_STORED_DWORDS - 1 -> WireDwords]
    BY <2>3, <2>4, <2>5, SpiAssumption DEF Land, WireTypeOK, w
  <2>7. system_probe_register' \in WireDwords
    BY <2>3, <2>4 DEF Land, WireTypeOK
  <2>8. pointer_stage' \in Seq(WireDwords) /\ Len(pointer_stage') = 3
    <3>1. CASE in_partial /\ pointer_dword < 3
      <4>1. pointer_dword + 1 \in 1 .. 3
        BY <2>3, <3>1, PartialIs, SpiAssumption
      <4>2. pointer_stage' = [pointer_stage EXCEPT ![pointer_dword + 1] = w]
        BY <2>4, <3>1 DEF Land, w
      <4>3. pointer_stage \in [1 .. 3 -> WireDwords]
        BY SeqOfLength DEF WireTypeOK
      <4> HIDE DEF pointer_dword, WireInv
      <4>4. pointer_stage' \in [1 .. 3 -> WireDwords]
        BY <2>3, <4>1, <4>2, <4>3 DEF w
      <4> QED
        BY <4>4, SeqOfLength
    <3>2. CASE ~(in_partial /\ pointer_dword < 3)
      BY <2>4, <3>2 DEF Land, WireTypeOK
    <3> QED
      BY <3>1, <3>2
  <2>9. pointer_entry' \in [0 .. NUM_PARTIALS - 1 -> Seq(WireDwords)]
    <3>1. CASE in_partial /\ pointer_dword = 3
      <4> DEFINE q == partial_offset \div MAP_PARTIAL_STRIDE
                 e == Append(pointer_stage, w)
      <4>1. q \in 0 .. NUM_PARTIALS - 1
        BY <2>3, <3>1, PartialIs
      <4>2. pointer_entry' = [pointer_entry EXCEPT ![q] = e]
        BY <2>4, <3>1 DEF Land, w
      <4>3. e \in Seq(WireDwords)
        BY <2>3, AppendProperties DEF WireTypeOK, w
      <4> HIDE DEF q, e
      <4> QED
        BY <4>1, <4>2, <4>3 DEF WireTypeOK
    <3>2. CASE ~(in_partial /\ pointer_dword = 3)
      BY <2>4, <3>2 DEF Land, WireTypeOK
    <3> QED
      BY <3>1, <3>2
  <2> QED
    BY <1>0, <2>1, <2>2, <2>6, <2>7, <2>8, <2>9, DataTypes DEF WireTypeOK
<1>9. CASE UNCHANGED wire_vars
  BY <1>9 DEF wire_vars, master_vars, slave_vars, map_vars, WireTypeOK
<1> QED
  BY <1>1, <1>2, <1>3, <1>4, <1>5, <1>6, <1>7, <1>8, <1>9 DEF WireNext

(* The address after a dword, if the frame goes on, is the next dword's.   *)
LEMMA SteppedIs ==
  ASSUME WireInv, Exchanged, Gone >= 3, last_nonet_of_dword, Gone' < Len(frame)
  PROVE  Stepped = At(request, DwordsGone')
<1> DEFINE c == Capped(DwordsOf(request))
           d == DwordsGone
<1>1. /\ d \in Nat /\ DwordsGone' = d + 1 /\ DwordsGone' < (IF request.read THEN 1 + c ELSE c)
      /\ dword_address = At(request, d)
  BY DwordsNext, Zenon
<1>2. request \in Requests
  BY ExchangeIs DEF WireInv
<1>3. c \in Nat /\ c <= DwordsOf(request) /\ DwordsOf(request) \in Nat
  <2>1. c \in Nat /\ c <= DwordsOf(request)
    BY <1>2, FrameIs, Zenon
  <2>2. DwordsOf(request) \in Nat
    BY <1>2, RequestsAssumption DEF DwordsOf
  <2> QED
    BY <2>1, <2>2
<1>4. d + 1 <= DwordsOf(request)
  <2> HIDE DEF c, d
  <2> QED
    BY <1>1, <1>3
<1>5. auto_increment = request.auto_increment /\ request.auto_increment \in BOOLEAN
  <2>1. Gone >= 1
    BY ExchangeIs DEF WireInv
  <2> QED
    BY <1>2, <2>1, RequestsAssumption DEF WireInv, FrameInv
<1> HIDE DEF d
<1>6. CASE request.auto_increment
  BY <1>1, <1>2, <1>4, <1>5, <1>6, AtNext DEF Stepped
<1>7. CASE ~request.auto_increment
  BY <1>1, <1>2, <1>5, <1>7, AtNext DEF Stepped
<1> QED
  BY <1>6, <1>7

LEMMA PositionNext ==
  ASSUME WireInv, [WireNext]_wire_vars
  PROVE  FrameInv'
<1> USE DEF WireInv
<1>0. Gone \in Nat
  BY LenProperties DEF WireTypeOK, Gone
<1>1. CASE Begin
  <2>1. request = None /\ frame = <<>>
    BY <1>1 DEF Begin, WireTypeOK
  <2>2. Gone = 0 /\ Gone' = 0
    BY <1>0, <1>1, <2>1, BeginIs DEF WireTypeOK, Gone
  <2>3. frame_phase' = "command"
    BY <1>1, <2>2 DEF Begin, slave_vars, FrameInv
  <2> QED
    BY <2>2, <2>3 DEF FrameInv
<1>2. CASE Deselect
  <2>1. Gone' = 0 /\ frame_phase' = "command"
    BY <1>2 DEF Deselect, Gone
  <2> QED
    BY <2>1 DEF FrameInv
<1>3. CASE Command
  <2>1. Exchanged /\ frame_phase = "command"
    BY <1>3 DEF Command
  <2>2. Gone' = 1 /\ request' = request
    BY <2>1, HeaderIs, ExchangeIs
  <2>3. is_read' = request.read /\ auto_increment' = request.auto_increment
    BY <1>3, <2>1, HeaderIs DEF Command
  <2>4. frame_phase' = "address_high"
    BY <1>3 DEF Command
  <2> QED
    BY <2>2, <2>3, <2>4 DEF FrameInv
<1>4. CASE AddressHigh
  <2>1. Exchanged /\ frame_phase = "address_high"
    BY <1>4 DEF AddressHigh
  <2>2. /\ Gone = 1 /\ Gone' = 2 /\ request' = request /\ request \in Requests
        /\ rx_nonet = request.address \div NONET
    BY <2>1, HeaderIs, ExchangeIs
  <2>3. dword_address' \div NONET = request.address \div NONET
    <3> DEFINE h == request.address \div NONET
               l == dword_address % NONET
               a == h * NONET + l
    <3>1. h \in Nat /\ l \in 0 .. NONET - 1
      BY <2>2, RequestsAssumption, WireSizes, DivMod DEF WireTypeOK
    <3>2. dword_address' = a
      BY <1>4, <2>2 DEF AddressHigh
    <3> HIDE DEF h, l
    <3>3. a \in Nat /\ a = NONET * h + l
      BY <3>1, WireSizes
    <3> HIDE DEF a
    <3>4. a \div NONET = h
      BY <3>1, <3>3, WireSizes, DivIs
    <3> QED
      BY <3>2, <3>4 DEF h
  <2>4. frame_phase' = "address_low" /\ is_read' = is_read /\ auto_increment' = auto_increment
    BY <1>4 DEF AddressHigh
  <2> QED
    BY <2>2, <2>3, <2>4 DEF FrameInv
<1>5. CASE AddressLow
  <2>1. Exchanged /\ frame_phase = "address_low"
    BY <1>5 DEF AddressLow
  <2>2. /\ Gone = 2 /\ Gone' = 3 /\ request' = request /\ request \in Requests
        /\ rx_nonet = request.address % NONET
    BY <2>1, HeaderIs, ExchangeIs
  <2>3. dword_address' = request.address /\ request.address \in Nat
    <3>1. request.address = NONET * (request.address \div NONET) + (request.address % NONET)
          /\ request.address \div NONET \in Nat /\ request.address \in Nat
      BY <2>2, RequestsAssumption, WireSizes, DivMod
    <3>2. dword_address \div NONET = request.address \div NONET
      BY <2>2 DEF FrameInv
    <3>3. dword_address' = (request.address \div NONET) * NONET + (request.address % NONET)
      BY <1>5, <2>2, <3>2 DEF AddressLow
    <3> QED
      BY <3>1, <3>3, WireSizes
  <2>4. DwordsGone' = 0 /\ (Gone' - 3) % NONETS_PER_DWORD = 0 /\ Gone' < 3 + NONETS_PER_DWORD
    <3> DEFINE n == NONETS_PER_DWORD
    <3>0. n \in Nat /\ n >= 1
      BY WireSizes
    <3> HIDE DEF n
    <3>1. 0 = n * 0 + 0 /\ 0 \in 0 .. n - 1
      BY <3>0
    <3>2. 0 \div n = 0 /\ 0 % n = 0
      BY <3>0, <3>1, DivIs
    <3>3. Gone' - 3 = 0 /\ Gone' < 3 + n
      BY <2>2, <3>0
    <3> QED
      BY <3>2, <3>3 DEF DwordsGone, n
  <2>5. dword_address' = At(request, 0)
    BY <2>2, <2>3, RequestsAssumption DEF At
  <2>6. /\ is_read = request.read /\ auto_increment = request.auto_increment
        /\ is_read' = is_read /\ auto_increment' = auto_increment /\ nonet_index' = 0
        /\ frame_phase' = IF is_read THEN "turnaround" ELSE "data"
    BY <1>5, <2>2 DEF AddressLow, FrameInv
  <2> QED
    BY <2>2, <2>4, <2>5, <2>6 DEF FrameInv
<1>6. ASSUME Exchanged, Gone >= 3,
             nonet_index' = (nonet_index + 1) % NONETS_PER_DWORD,
             dword_address' = IF last_nonet_of_dword THEN Stepped ELSE dword_address,
             is_read' = is_read, auto_increment' = auto_increment,
             frame_phase' = IF last_nonet_of_dword THEN "data" ELSE frame_phase
      PROVE  FrameInv'
  <2>1. /\ request' = request /\ frame' = frame /\ Gone' = Gone + 1
    BY <1>6, ExchangeIs
  <2>2. /\ DwordsGone \in Nat
        /\ last_nonet_of_dword => DwordsGone' = DwordsGone + 1
        /\ ~last_nonet_of_dword => DwordsGone' = DwordsGone
        /\ (nonet_index + 1) % NONETS_PER_DWORD = (Gone' - 3) % NONETS_PER_DWORD
        /\ dword_address = At(request, DwordsGone)
        /\ request.read => (DwordsGone = 0 <=> Gone < 3 + NONETS_PER_DWORD)
        /\ request.read => (DwordsGone' = 0 <=> Gone' < 3 + NONETS_PER_DWORD)
    BY <1>6, DwordsNext, Zenon
  <2>3. Gone' < Len(frame') => dword_address' = At(request', DwordsGone')
    BY <1>6, <2>1, <2>2, SteppedIs
  <2>4. frame_phase' = IF request'.read /\ Gone' < 3 + NONETS_PER_DWORD THEN "turnaround" ELSE "data"
    <3>1. frame_phase = IF request.read /\ Gone < 3 + NONETS_PER_DWORD THEN "turnaround" ELSE "data"
      BY <1>6 DEF FrameInv
    <3>2. CASE last_nonet_of_dword
      <4>1. ~(request.read /\ Gone' < 3 + NONETS_PER_DWORD)
        BY <2>2, <3>2
      <4> QED
        BY <1>6, <2>1, <3>2, <4>1
    <3>3. CASE ~last_nonet_of_dword
      BY <1>6, <2>1, <2>2, <3>1, <3>3
    <3> QED
      BY <3>2, <3>3
  <2>5. is_read' = request'.read /\ auto_increment' = request'.auto_increment
    BY <1>0, <1>6, <2>1 DEF FrameInv
  <2>6. nonet_index' = (Gone' - 3) % NONETS_PER_DWORD
    BY <1>6, <2>2
  <2>7. Gone' >= 4
    BY <1>0, <1>6, <2>1
  <2> QED
    BY <2>3, <2>4, <2>5, <2>6, <2>7 DEF FrameInv
<1>7. CASE Turnaround
  <2>1. Exchanged /\ frame_phase = "turnaround"
    BY <1>7 DEF Turnaround
  <2>2. Gone >= 3
    BY <2>1, HeaderIs
  <2> QED
    BY <1>6, <1>7, <2>1, <2>2 DEF Turnaround, Ahead
<1>8. CASE Data
  <2>1. Exchanged /\ frame_phase = "data"
    BY <1>8 DEF Data
  <2>2. Gone >= 3
    BY <2>1, InData
  <2>3. frame_phase' = IF last_nonet_of_dword THEN "data" ELSE frame_phase
    BY <1>8, <2>1 DEF Data
  <2> QED
    BY <1>6, <1>8, <2>1, <2>2, <2>3 DEF Data
<1>9. CASE UNCHANGED wire_vars
  BY <1>9 DEF wire_vars, master_vars, slave_vars, map_vars, FrameInv, Gone, DwordsGone, At
<1> QED
  BY <1>1, <1>2, <1>3, <1>4, <1>5, <1>7, <1>8, <1>9 DEF WireNext, DataNonet, DataDword

(* Outside the turnaround and the data the frame has not passed its header. *)
LEMMA NoDataYet ==
  ASSUME WireInv, Begin \/ Deselect \/ Command \/ AddressHigh \/ AddressLow
  PROVE  /\ Gone' \in 0 .. 3
         /\ Gone' = 3 => DwordsGone' = 0
<1>1. Gone' \in 0 .. 3
  <2>1. CASE Begin
    BY <2>1, BeginIs
  <2>2. CASE Deselect
    BY <2>2 DEF Deselect, Gone
  <2>3. CASE Command
    BY <2>3, HeaderIs, ExchangeIs DEF Command, WireInv
  <2>4. CASE AddressHigh
    BY <2>4, HeaderIs, ExchangeIs DEF AddressHigh, WireInv
  <2>5. CASE AddressLow
    BY <2>5, HeaderIs, ExchangeIs DEF AddressLow, WireInv
  <2> QED
    BY <2>1, <2>2, <2>3, <2>4, <2>5
<1>2. ASSUME Gone' = 3 PROVE DwordsGone' = 0
  <2> DEFINE n == NONETS_PER_DWORD
  <2>1. n \in Nat /\ n >= 1
    BY WireSizes
  <2> HIDE DEF n
  <2>2. 0 = n * 0 + 0 /\ 0 \in 0 .. n - 1
    BY <2>1
  <2>3. 0 \div n = 0
    BY <2>1, <2>2, DivIs
  <2>4. Gone' - 3 = 0
    BY <1>2
  <2> QED
    BY <2>3, <2>4 DEF DwordsGone, n
<1> QED
  BY <1>1, <1>2

LEMMA TurnaroundIs ==
  ASSUME WireInv, Turnaround
  PROVE  /\ Exchanged /\ Gone >= 3 /\ request.read /\ request' = request /\ request \in Requests
         /\ DwordsGone = 0 /\ Gone < 3 + NONETS_PER_DWORD
         /\ DwordsGone' = 0 => Gone' < 3 + NONETS_PER_DWORD
         /\ last_nonet_of_dword => Gone' = 3 + NONETS_PER_DWORD /\ DwordsGone' = 1
         /\ ~last_nonet_of_dword => DwordsGone' = 0
         /\ dword_address = At(request, 0)
<1>1. Exchanged /\ frame_phase = "turnaround"
  BY DEF Turnaround
<1>2. Gone >= 3 /\ request' = request /\ request \in Requests /\ Gone' = Gone + 1 /\ Gone \in Nat
  BY <1>1, HeaderIs, ExchangeIs DEF WireInv
<1>3. request.read /\ Gone < 3 + NONETS_PER_DWORD
  BY <1>1, <1>2 DEF WireInv, FrameInv
<1>4. /\ last_nonet_of_dword => DwordsGone' = DwordsGone + 1
      /\ last_nonet_of_dword => (Gone - 3) % NONETS_PER_DWORD = NONETS_PER_DWORD - 1
      /\ ~last_nonet_of_dword => DwordsGone' = DwordsGone
      /\ Gone - 3 = NONETS_PER_DWORD * DwordsGone + ((Gone - 3) % NONETS_PER_DWORD)
      /\ dword_address = At(request, DwordsGone)
      /\ request.read => (DwordsGone = 0 <=> Gone < 3 + NONETS_PER_DWORD)
      /\ request.read => (DwordsGone' = 0 <=> Gone' < 3 + NONETS_PER_DWORD)
  BY <1>1, <1>2, DwordsNext, Zenon
<1>5. DwordsGone = 0
  BY <1>3, <1>4
<1>6. last_nonet_of_dword => Gone' = 3 + NONETS_PER_DWORD /\ DwordsGone' = 1
  BY <1>2, <1>4, <1>5, WireSizes
<1> QED
  BY <1>1, <1>2, <1>3, <1>4, <1>5, <1>6

LEMMA ArrivingNext ==
  ASSUME WireInv, [WireNext]_wire_vars
  PROVE  Arriving'
<1> DEFINE n == NONETS_PER_DWORD
<1>1. n \in Nat /\ n >= 2
  BY WireSizes
<1>2. CASE Begin \/ Deselect \/ Command \/ AddressHigh \/ AddressLow
  <2>1. Gone' \in 0 .. 3
    BY <1>2, NoDataYet
  <2> DEFINE g == Gone'
  <2>2. ASSUME NEW i \in 1 .. n - 1 PROVE ~ (g - (n - 1) + i > 3)
    <3>1. g \in 0 .. 3
      BY <2>1
    <3> HIDE DEF g, n
    <3> QED
      BY <1>1, <3>1
  <2> QED
    BY <2>2 DEF Arriving
<1>3. CASE Turnaround
  BY <1>3, TurnaroundIs DEF Arriving
<1>4. CASE Data
  <2> SUFFICES ASSUME ~request'.read, NEW i \in 1 .. n - 1, Gone' - (n - 1) + i > 3
               PROVE  partial_dword'[i] = frame'[Gone' - (n - 1) + i]
    BY DEF Arriving
  <2>1. Exchanged /\ frame_phase = "data"
    BY <1>4 DEF Data
  <2>2. /\ Gone >= 3 /\ rx_nonet \in WireParts /\ Gone \in Nat /\ Gone' = Gone + 1
        /\ request' = request /\ frame' = frame /\ rx_nonet = frame[Gone + 1]
    BY <2>1, InData, ExchangeIs DEF WireInv
  <2> DEFINE T == Tail(partial_dword)
  <2>3. T \in Seq(WireParts) /\ Len(T) = n - 2 /\ \A k \in 1 .. n - 2 : T[k] = partial_dword[k + 1]
    <3>1. partial_dword \in Seq(WireParts) /\ Len(partial_dword) = n - 1 /\ partial_dword # <<>>
      BY <1>1 DEF WireInv, WireTypeOK
    <3> QED
      BY <1>1, <3>1, HeadTailProperties
  <2>4. partial_dword' = Append(T, rx_nonet)
    BY <1>4 DEF Data
  <2> HIDE DEF T, n
  <2>5. partial_dword'[n - 1] = rx_nonet /\ \A k \in 1 .. n - 2 : partial_dword'[k] = partial_dword[k + 1]
    BY <1>1, <2>2, <2>3, <2>4, AppendProperties, SMTT(30)
  <2>6. CASE i = n - 1
    BY <1>1, <2>2, <2>5, <2>6
  <2>7. CASE i # n - 1
    <3>1. i \in 1 .. n - 2 /\ i + 1 \in 1 .. n - 1 /\ Gone - (n - 1) + (i + 1) = Gone' - (n - 1) + i
      BY <1>1, <2>2, <2>7
    <3>2. partial_dword[i + 1] = frame[Gone - (n - 1) + (i + 1)]
      BY <2>2, <3>1 DEF WireInv, Arriving, n
    <3> QED
      BY <2>2, <2>5, <3>1, <3>2
  <2> QED
    BY <2>6, <2>7
<1>5. CASE UNCHANGED wire_vars
  BY <1>5 DEF wire_vars, master_vars, slave_vars, map_vars, WireInv, Arriving, Gone
<1> QED
  BY <1>2, <1>3, <1>4, <1>5 DEF WireNext, DataNonet, DataDword

LEMMA StreamingNext ==
  ASSUME WireInv, [WireNext]_wire_vars
  PROVE  Streaming'
<1> DEFINE n == NONETS_PER_DWORD
<1>1. n \in Nat /\ n >= 2
  BY WireSizes
<1>2. CASE Begin \/ Deselect \/ Command \/ AddressHigh \/ AddressLow
  <2>1. Gone' \in 0 .. 3
    BY <1>2, NoDataYet
  <2> QED
    BY <1>1, <2>1 DEF Streaming
<1>3. CASE Turnaround
  <2>1. CASE ~last_nonet_of_dword
    <3>1. Gone' < 3 + n /\ Gone' \in Nat
      BY <1>3, <2>1, TurnaroundIs, ExchangeIs DEF WireInv
    <3> QED
      BY <1>1, <3>1 DEF Streaming
  <2>2. CASE last_nonet_of_dword
    <3>1. /\ Gone' = 3 + n /\ DwordsGone' - 1 = 0 /\ request' = request /\ dword_address = At(request, 0)
          /\ request \in Requests
      BY <1>3, <2>2, TurnaroundIs
    <3>2. UNCHANGED map_vars /\ stream_dword' = addressed_data
      BY <1>3, <2>2 DEF Turnaround
    <3>3. Reads(At(request, 0))' = Reads(At(request, 0))
      BY <3>1, <3>2 DEF map_vars, Reads, in_system, system_at, At
    <3>4. stream_dword' = Reads(At(request, 0))
      BY <3>1, <3>2 DEF addressed_data, Reads
    <3>5. Reads(At(request, DwordsGone - 1))' = Reads(At(request, 0))'
      BY <3>1 DEF Reads, At, in_system, system_at
    <3>6. 4 + n .. Gone' = {}
      BY <1>1, <3>1
    <3> QED
      BY <3>3, <3>4, <3>5, <3>6 DEF Streaming
  <2> QED
    BY <2>1, <2>2
<1>4. CASE DataDword
  <2>1. ~request'.read
    <3>1. Data /\ ~is_read
      BY <1>4 DEF DataDword
    <3> QED
      BY <3>1, InData, ExchangeIs DEF Data, WireInv
  <2> QED
    BY <2>1 DEF Streaming
<1>5. CASE DataNonet
  <2>1. Data /\ UNCHANGED map_vars
    BY <1>5 DEF DataNonet
  <2>2. Exchanged /\ frame_phase = "data"
    BY <2>1 DEF Data
  <2>3. /\ Gone \in Nat /\ Gone' = Gone + 1 /\ request' = request /\ Gone >= 3 /\ request \in Requests
        /\ \A i \in 1 .. Gone : rx'[i] = rx[i]
        /\ rx'[Gone + 1] = tx_nonet
        /\ is_read = request.read /\ (request.read => Gone >= 3 + n)
    BY <2>2, InData, ExchangeIs DEF WireInv
  <2>4. CASE ~request.read
    BY <2>3, <2>4 DEF Streaming
  <2>5. CASE request.read
    <3>1. /\ DwordsGone \in Nat /\ dword_address = At(request, DwordsGone)
          /\ last_nonet_of_dword => DwordsGone' = DwordsGone + 1
          /\ ~last_nonet_of_dword => DwordsGone' = DwordsGone
      BY <2>2, <2>3, DwordsNext, Zenon
    <3>2. /\ stream_dword = Reads(At(request, DwordsGone - 1))
          /\ \A i \in 4 + n .. Gone :
               rx[i] = Part(Reads(At(request, ((i - 4) \div n) - 1)), ((i - 4) % n) + 1)
      BY <2>3, <2>5 DEF WireInv, Streaming
    <3>3. \A k : Reads(At(request, k))' = Reads(At(request, k))
      BY <2>1, <2>3 DEF map_vars, Reads, in_system, system_at, At
    <3>4. tx_nonet = Part(stream_dword, nonet_index + 1)
      <4>1. frame_phase # "command" /\ is_read
        BY <2>2, <2>3, <2>5
      <4> QED
        BY <2>2, <4>1, Zenon DEF tx_nonet
    <3>5. nonet_index = (Gone - 3) % n /\ DwordsGone = (Gone - 3) \div n
      BY <2>3 DEF WireInv, FrameInv, DwordsGone
    <3>6. \A i \in 4 + n .. Gone' :
            rx'[i] = Part(Reads(At(request, ((i - 4) \div n) - 1)), ((i - 4) % n) + 1)
      <4> TAKE i \in 4 + n .. Gone'
      <4>1. CASE i = Gone + 1
        <5>1. i - 4 = Gone - 3
          BY <2>3, <4>1
        <5> QED
          BY <2>3, <3>2, <3>4, <3>5, <4>1, <5>1
      <4>2. CASE i # Gone + 1
        <5>1. i \in 4 + n .. Gone /\ i \in 1 .. Gone
          BY <1>1, <2>3, <4>2
        <5> QED
          BY <2>3, <3>2, <5>1
      <4> QED
        BY <4>1, <4>2
    <3>7. stream_dword' = Reads(At(request, DwordsGone' - 1))
      <4>1. CASE last_nonet_of_dword
        <5>1. DwordsGone' - 1 = DwordsGone
          BY <3>1, <4>1
        <5>2. stream_dword' = addressed_data
          BY <2>1, <2>3, <2>5, <4>1 DEF Data
        <5> QED
          BY <3>1, <5>1, <5>2 DEF addressed_data, Reads
      <4>2. CASE ~last_nonet_of_dword
        BY <2>1, <3>1, <3>2, <4>2 DEF Data
      <4> QED
        BY <4>1, <4>2
    <3> QED
      BY <2>3, <3>3, <3>6, <3>7 DEF Streaming
  <2> QED
    BY <2>4, <2>5
<1>6. CASE UNCHANGED wire_vars
  BY <1>6 DEF wire_vars, master_vars, slave_vars, map_vars, WireInv, Streaming, Gone, DwordsGone, At,
       Reads, in_system, system_at
<1> QED
  BY <1>2, <1>3, <1>4, <1>5, <1>6 DEF WireNext

LEMMA StagedNext ==
  ASSUME WireInv, [WireNext]_wire_vars
  PROVE  Staged'
<1> DEFINE S == MAP_PARTIAL_STRIDE
<1>1. S \in Nat /\ S > 3 /\ S >= 1 /\ MAP_PARTIAL_BASE \in Nat /\ NUM_PARTIALS \in Nat
  BY SpiAssumption
<1>2. CASE Begin \/ Deselect \/ Command \/ AddressHigh \/ AddressLow
  <2> SUFFICES ASSUME Gone' >= 3, (Offset % MAP_PARTIAL_STRIDE)' \in 1 .. 3,
                      (Offset % MAP_PARTIAL_STRIDE)' <= DwordsGone'
               PROVE  FALSE
    BY DEF Staged
  <2>1. DwordsGone' = 0
    BY <1>2, NoDataYet
  <2> QED
    BY <2>1
<1>3. CASE Turnaround
  BY <1>3, TurnaroundIs DEF Staged
<1>4. CASE DataNonet
  <2>1. Data /\ UNCHANGED map_vars /\ (is_read \/ ~last_nonet_of_dword)
    BY <1>4 DEF DataNonet
  <2>2. Exchanged /\ frame_phase = "data"
    BY <2>1 DEF Data
  <2>3. Gone >= 3 /\ is_read = request.read /\ request' = request
    BY <2>2, InData, ExchangeIs DEF WireInv
  <2>4. CASE request.read
    BY <2>3, <2>4 DEF Staged
  <2>5. CASE ~request.read
    <3>1. DwordsGone' = DwordsGone
      BY <2>1, <2>2, <2>3, <2>5, DwordsNext, Zenon
    <3>2. Offset' = Offset /\ pointer_stage' = pointer_stage
      BY <2>1, <2>3, <3>1 DEF Offset, At, map_vars
    <3> QED
      BY <2>3, <3>1, <3>2 DEF WireInv, Staged
  <2> QED
    BY <2>4, <2>5
<1>5. CASE DataDword
  <2>1. Data /\ Land /\ ~is_read /\ last_nonet_of_dword
    BY <1>5 DEF DataDword
  <2>2. Exchanged /\ frame_phase = "data"
    BY <2>1 DEF Data
  <2> DEFINE d == DwordsGone
             o == Offset
             m == Offset % S
             next == Offset' % S
  <2>3. /\ Gone >= 3 /\ request \in Requests /\ ~request.read /\ request' = request
        /\ d \in Nat /\ d < Len(request.dwords) /\ DwordsGone' = d + 1
        /\ dword_data = request.dwords[d + 1]
        /\ dword_address = At(request, d) /\ dword_address \in Nat
    BY <2>1, <2>2, DwordArrives, ExchangeIs DEF WireInv
  <2> SUFFICES ASSUME request.auto_increment,
                      Offset' \in 0 .. NUM_PARTIALS * S - 1,
                      next \in 1 .. 3, next <= d + 1,
                      NEW k \in 1 .. next
               PROVE  pointer_stage'[k] = request.dwords[(d + 1) - next + k]
    BY <2>3 DEF Staged
  <2>4. Offset' = o + 1 /\ o \in Int
    <3>1. At(request, d + 1) = At(request, d) + 1 /\ At(request, d) \in Nat
      BY <2>3, AtNext
    <3>2. Offset' = At(request, d + 1) - MAP_PARTIAL_BASE /\ o = At(request, d) - MAP_PARTIAL_BASE
      BY <2>3 DEF Offset, At
    <3> QED
      BY <1>1, <3>1, <3>2
  <2> HIDE DEF d, o
  <2>5. o \in 0 .. NUM_PARTIALS * S - 1 /\ o \in Nat
    <3>1. 0 % S = 0
      <4>1. 0 = S * 0 + 0 /\ 0 \in 0 .. S - 1 /\ S >= 1
        BY <1>1
      <4> QED
        BY <1>1, <4>1, DivIs
    <3>2. Offset' # 0
      BY <3>1
    <3>3. NUM_PARTIALS * S \in Nat
      BY <1>1
    <3> QED
      BY <2>4, <3>2, <3>3
  <2>6. m \in 0 .. S - 1 /\ m = o % S
    BY <1>1, <2>5, DivMod DEF o
  <2>7. next = m + 1 /\ m \in 0 .. 2
    <3> DEFINE o2 == (o + 1) % S
    <3>1. /\ o % S # S - 1 => o2 = (o % S) + 1
          /\ o % S = S - 1 => o2 = 0
      BY <1>1, <2>5, DivNext
    <3>2. next = o2
      BY <2>4
    <3> HIDE DEF o2, next, m
    <3> QED
      BY <1>1, <2>6, <3>1, <3>2
  <2>8. in_partial /\ pointer_dword = m
    <3>1. partial_offset = o
      BY <2>3 DEF partial_offset, o, d, Offset
    <3> QED
      BY <2>5, <2>6, <3>1 DEF in_partial, pointer_dword
  <2>9. pointer_stage' = [pointer_stage EXCEPT ![m + 1] = request.dwords[d + 1]]
    <3>1. pointer_stage' = [pointer_stage EXCEPT ![pointer_dword + 1] = dword_data]
      BY <2>1, <2>7, <2>8 DEF Land
    <3> QED
      BY <2>3, <2>8, <3>1
  <2>10. pointer_stage \in Seq(WireDwords) /\ Len(pointer_stage) = 3
    BY DEF WireInv, WireTypeOK
  <2>11. ASSUME m >= 1 PROVE \A j \in 1 .. m : pointer_stage[j] = request.dwords[d - m + j]
    <3>1. m \in 1 .. 3 /\ m <= d
      BY <2>3, <2>7, <2>11
    <3>2. /\ Offset \in 0 .. NUM_PARTIALS * MAP_PARTIAL_STRIDE - 1
          /\ Offset % MAP_PARTIAL_STRIDE \in 1 .. 3
          /\ Offset % MAP_PARTIAL_STRIDE <= DwordsGone
      BY <2>5, <3>1 DEF o, d
    <3> QED
      BY <2>3, <3>2 DEF WireInv, Staged, d
  <2> HIDE DEF m, next
  <2>12. CASE k = m + 1
    <3>1. (d + 1) - next + k = d + 1
      BY <2>3, <2>7, <2>12
    <3>2. DOMAIN pointer_stage = 1 .. 3
      BY <2>10, LenProperties
    <3>3. pointer_stage'[m + 1] = request.dwords[d + 1]
      BY <2>7, <2>9, <3>2
    <3> QED
      BY <2>12, <3>1, <3>3
  <2>13. CASE k # m + 1
    <3>1. k \in 1 .. m /\ m >= 1 /\ (d + 1) - next + k = d - m + k /\ k \in 1 .. 3
      BY <2>3, <2>7, <2>13
    <3>2. pointer_stage'[k] = pointer_stage[k]
      BY <2>9, <2>10, <2>13, <3>1, LenProperties
    <3> QED
      BY <2>11, <3>1, <3>2
  <2> QED
    BY <2>12, <2>13
<1>6. CASE UNCHANGED wire_vars
  BY <1>6 DEF wire_vars, master_vars, slave_vars, map_vars, WireInv, Staged, Gone, DwordsGone, At, Offset
<1> QED
  BY <1>2, <1>3, <1>4, <1>5, <1>6 DEF WireNext

LEMMA WireInvNext == WireInv /\ [WireNext]_wire_vars => WireInv'
<1> SUFFICES ASSUME WireInv, [WireNext]_wire_vars PROVE WireInv'
  OBVIOUS
<1>1. WireTypeOK'
  BY WireTypeNext
<1>2. FrameInv'
  BY PositionNext
<1>3. Arriving' /\ Streaming' /\ Staged'
  BY ArrivingNext, StreamingNext, StagedNext
<1> QED
  BY <1>1, <1>2, <1>3 DEF WireInv

-----------------------------------------------------------------------------
(* What the reply holds, and how many dwords of the request are done.      *)
LEMMA ReplyIs ==
  ASSUME WireInv
  PROVE  Reply = IF request # None /\ request.read /\ Gone >= 3 + NONETS_PER_DWORD
                 THEN [k \in 1 .. DwordsGone - 1 |-> Reads(At(request, k - 1))] ELSE <<>>
<1> DEFINE n == NONETS_PER_DWORD
           from == 3 + n
           count == IF request = None \/ ~request.read \/ Len(rx) < from THEN 0
                    ELSE (Len(rx) - from) \div n
           at(k) == from + n * (k - 1)
<1>1. n \in Nat /\ n >= 2 /\ n >= 1
  BY WireSizes
<1>2. Gone \in Nat /\ Len(rx) = Gone /\ rx \in Seq(Nonets)
  BY LenProperties DEF WireInv, WireTypeOK, Gone
<1>3. Reply = [k \in 1 .. count |-> Whole(SubSeq(rx, at(k) + 1, at(k) + n))]
  BY Zenon DEF Reply
<1>4. CASE ~ (request # None /\ request.read /\ Gone >= from)
  <2>1. count = 0
    BY <1>1, <1>2, <1>4
  <2> HIDE DEF count
  <2>2. 1 .. count = {}
    BY <2>1
  <2>3. Reply = <<>>
    <3> HIDE DEF at
    <3> QED
      BY <1>3, <2>2
  <2> QED
    BY <1>4, <2>3
<1>5. CASE request # None /\ request.read /\ Gone >= from
  <2> DEFINE x == Gone - from
  <2>1. x \in Nat /\ count = x \div n /\ Gone - 3 = x + n
    BY <1>1, <1>2, <1>5
  <2> HIDE DEF count, x
  <2>2. count = DwordsGone - 1 /\ count \in Nat
    <3>1. (x + n) \div n = (x \div n) + 1 /\ x \div n \in Nat
      BY <1>1, <2>1, DivOneMore, DivMod
    <3> QED
      BY <2>1, <3>1 DEF DwordsGone
  <2>3. n * count <= x /\ n * count \in Nat
    <3>1. x = n * (x \div n) + (x % n) /\ x % n \in 0 .. n - 1 /\ x \div n \in Nat
      BY <1>1, <2>1, DivMod
    <3> DEFINE q == x \div n
               j == x % n
    <3>2. n * q \in Nat
      BY <1>1, <3>1
    <3> HIDE DEF q, j
    <3> QED
      BY <2>1, <3>1, <3>2 DEF q, j
  <2>4. ASSUME NEW k \in 1 .. count
        PROVE  Whole(SubSeq(rx, at(k) + 1, at(k) + n)) = Reads(At(request, k - 1))
    <3> DEFINE D == Reads(At(request, k - 1))
               s == SubSeq(rx, at(k) + 1, at(k) + n)
               b == n * (k - 1)
    <3>1. b \in Nat /\ at(k) = from + b /\ n * k = b + n /\ b + n <= n * count
      <4>1. k - 1 \in Nat /\ count \in Nat /\ k - 1 < count /\ k = (k - 1) + 1
        BY <2>2
      <4>2. n * (k - 1) + n <= n * count /\ n * (k - 1) \in Nat
        BY <1>1, <4>1, Scaled
      <4>3. n * k = n * (k - 1) + n
        BY <1>1
      <4> QED
        BY <4>2, <4>3
    <3> HIDE DEF b
    <3>2. at(k) + 1 \in 1 .. Gone + 1 /\ at(k) + n \in 0 .. Gone /\ from \in Nat
      BY <1>1, <1>2, <2>1, <2>3, <3>1 DEF x
    <3> HIDE DEF at, from
    <3>3. /\ Len(s) = n /\ s \in Seq(Nonets)
          /\ \A i \in 1 .. n : s[i] = rx[at(k) + i]
      <4>1. at(k) \in Int /\ at(k) + n >= at(k) + 1
        BY <1>1, <3>1, <3>2
      <4>2. /\ s \in Seq(Nonets)
            /\ Len(s) = (at(k) + n) - (at(k) + 1) + 1
            /\ \A i \in 1 .. (at(k) + n) - (at(k) + 1) + 1 : s[i] = rx[(at(k) + 1) + i - 1]
        <5> DEFINE u == at(k) + 1
                   v == at(k) + n
        <5>1. u \in 1 .. Len(rx) + 1 /\ v \in 0 .. Len(rx) /\ u <= v
          BY <1>2, <3>2, <4>1
        <5> HIDE DEF u, v
        <5>2. /\ SubSeq(rx, u, v) \in Seq(Nonets) /\ Len(SubSeq(rx, u, v)) = v - u + 1
              /\ \A i \in 1 .. v - u + 1 : SubSeq(rx, u, v)[i] = rx[u + i - 1]
          BY <1>2, <5>1, SubSeqProperties
        <5> QED
          BY <5>2 DEF u, v
      <4>3. (at(k) + n) - (at(k) + 1) + 1 = n
        BY <1>1, <4>1
      <4>4. \A i \in 1 .. n : (at(k) + 1) + i - 1 = at(k) + i
        BY <1>1, <4>1
      <4> QED
        BY <4>2, <4>3, <4>4
    <3> HIDE DEF s
    <3>4. \A i \in 1 .. n : s[i] = Part(D, i)
      <4> TAKE i \in 1 .. n
      <4>1. at(k) + i \in 4 + n .. Gone /\ (at(k) + i) - 4 = n * k + (i - 1)
            /\ n * k + (i - 1) \in Nat /\ i - 1 \in 0 .. n - 1 /\ k \in Nat
        BY <1>1, <1>2, <2>1, <2>3, <3>1, <3>2 DEF at, from, x
      <4>2. (n * k + (i - 1)) \div n = k /\ (n * k + (i - 1)) % n = i - 1
        <5> DEFINE y == n * k + (i - 1)
        <5>1. y \in Nat /\ y = n * k + (i - 1)
          BY <4>1
        <5> HIDE DEF y
        <5>2. y \div n = k /\ y % n = i - 1
          BY <1>1, <4>1, <5>1, DivIs
        <5> QED
          BY <5>1, <5>2
      <4>3. \A a \in 4 + n .. Gone :
               rx[a] = Part(Reads(At(request, ((a - 4) \div n) - 1)), ((a - 4) % n) + 1)
        BY <1>5 DEF WireInv, Streaming, from
      <4>4. rx[at(k) + i] = Part(Reads(At(request, k - 1)), (i - 1) + 1)
        BY <4>1, <4>2, <4>3
      <4>5. (i - 1) + 1 = i
        BY <4>1
      <4> HIDE DEF at
      <4> QED
        BY <3>3, <4>4, <4>5
    <3>5. s = Parts(D)
      <4>1. s = [i \in 1 .. n |-> s[i]]
        BY <1>1, <3>3
      <4> HIDE DEF D
      <4> QED
        BY <3>4, <4>1 DEF Parts
    <3>6. s[1].dword = D
      <4>1. s[1] = Part(D, 1)
        BY <1>1, <3>4
      <4> HIDE DEF D
      <4> QED
        BY <4>1 DEF Part
    <3> HIDE DEF D
    <3>7. Whole(s) = D
      BY <3>5, <3>6 DEF Whole
    <3> QED
      BY <3>7 DEF s, D
  <2>5. Reply = [k \in 1 .. count |-> Reads(At(request, k - 1))]
    <3> HIDE DEF at
    <3> QED
      BY <1>3, <2>4
  <2> QED
    BY <1>5, <2>2, <2>5
<1> QED
  BY <1>4, <1>5

LEMMA DoneIs ==
  ASSUME WireInv
  PROVE  /\ request = None \/ Gone < 3 => Done = 0
         /\ request # None /\ Gone >= 3 /\ ~request.read => Done = DwordsGone
         /\ request # None /\ request.read /\ Gone < 3 + NONETS_PER_DWORD => Done = 0
         /\ request # None /\ request.read /\ Gone >= 3 + NONETS_PER_DWORD => Done = DwordsGone - 1
<1>1. Gone \in Nat /\ Len(rx) = Gone /\ NONETS_PER_DWORD \in Nat /\ NONETS_PER_DWORD >= 2
  BY LenProperties, WireSizes DEF WireInv, WireTypeOK, Gone
<1>2. ASSUME request # None, request.read, Gone < 3 + NONETS_PER_DWORD PROVE Done = 0
  <2>1. Reply = <<>>
    BY <1>1, <1>2, ReplyIs
  <2> QED
    BY <1>2, <2>1 DEF Done
<1>3. ASSUME request # None, request.read, Gone >= 3 + NONETS_PER_DWORD PROVE Done = DwordsGone - 1
  <2>1. Reply = [k \in 1 .. DwordsGone - 1 |-> Reads(At(request, k - 1))]
    BY <1>3, ReplyIs
  <2>2. DwordsGone - 1 \in Nat
    <3> DEFINE x == Gone - 3 - NONETS_PER_DWORD
    <3>1. x \in Nat /\ Gone - 3 = x + NONETS_PER_DWORD
      BY <1>1, <1>3
    <3> HIDE DEF x
    <3>2. NONETS_PER_DWORD >= 1
      BY <1>1
    <3>3. (x + NONETS_PER_DWORD) \div NONETS_PER_DWORD = (x \div NONETS_PER_DWORD) + 1
          /\ x \div NONETS_PER_DWORD \in Nat
      BY <1>1, <3>1, <3>2, DivOneMore, DivMod
    <3> QED
      BY <3>1, <3>3 DEF DwordsGone
  <2> DEFINE c == DwordsGone - 1
             f == [k \in 1 .. c |-> Reads(At(request, k - 1))]
  <2>3. Len(f) = c
    <3>1. c \in Nat
      BY <2>2
    <3> HIDE DEF c
    <3> QED
      BY <3>1
  <2>4. ~ (request = None \/ Len(rx) < 3)
    BY <1>1, <1>3
  <2> QED
    BY <1>3, <2>1, <2>3, <2>4 DEF Done
<1>4. request = None \/ Gone < 3 => Done = 0
  BY <1>1 DEF Done
<1>5. request # None /\ Gone >= 3 /\ ~request.read => Done = DwordsGone
  BY <1>1 DEF Done, DwordsGone
<1> QED
  BY <1>2, <1>3, <1>4, <1>5

(* The map as the memory map has it.                                       *)
LEMMA ReadsAsMapped ==
  ASSUME NEW address \in Nat
  PROVE  Reads(address) = IF address \in Kept THEN System[address]
                          ELSE IF address \in DOMAIN Status THEN Status[address] ELSE ZeroDword
<1>1. /\ MAP_STORED_DWORDS \in Nat /\ MAP_SYSTEM_DWORDS \in Nat /\ MAP_PROBE_ADDRESS \in Nat
      /\ MAP_PROBE_ADDRESS >= MAP_STORED_DWORDS /\ MAP_PROBE_ADDRESS < MAP_SYSTEM_DWORDS
      /\ DOMAIN Status = (MAP_STORED_DWORDS .. MAP_SYSTEM_DWORDS - 1) \ {MAP_PROBE_ADDRESS}
  BY SpiAssumption
<1>2. CASE address \in Kept
  <2>1. System[address] = system_at(address)
    BY <1>2 DEF System
  <2>2. in_system(address)
    BY <1>1, <1>2 DEF Kept, in_system
  <2> QED
    BY <1>2, <2>1, <2>2 DEF Reads
<1>3. CASE address \notin Kept
  <2>1. ~ (address < MAP_STORED_DWORDS) /\ address # MAP_PROBE_ADDRESS
    BY <1>1, <1>3 DEF Kept
  <2>2. in_system(address) <=> address \in DOMAIN Status
    BY <1>1, <2>1 DEF in_system
  <2> QED
    BY <1>3, <2>1, <2>2 DEF Reads, system_at
<1> QED
  BY <1>2, <1>3

(* A dword that lands in the system dwords changes one address.            *)
LEMMA SystemLands ==
  ASSUME WireInv, Land, dword_address \in Nat, dword_data \in WireDwords
  PROVE  System' = IF dword_address \in Kept
                   THEN [System EXCEPT ![dword_address] =
                           [dword_data EXCEPT !.swap = dword_data.swap /\ dword_address # MAP_CTRL]]
                   ELSE System
<1> DEFINE a == dword_address
           w == dword_data
           v == [w EXCEPT !.swap = w.swap /\ a # MAP_CTRL]
<1>1. /\ MAP_STORED_DWORDS \in Nat /\ MAP_PROBE_ADDRESS \in Nat /\ MAP_CTRL \in Nat
      /\ MAP_PROBE_ADDRESS >= MAP_STORED_DWORDS /\ MAP_CTRL < MAP_STORED_DWORDS
  BY SpiAssumption
<1>2. v = IF a = MAP_CTRL THEN [w EXCEPT !.swap = FALSE] ELSE w
  <2>1. CASE a = MAP_CTRL
    <3>1. (w.swap /\ a # MAP_CTRL) = FALSE
      BY <2>1
    <3> QED
      BY <2>1, <3>1
  <2>2. CASE a # MAP_CTRL /\ w.swap = TRUE
    <3>1. (w.swap /\ a # MAP_CTRL) = TRUE
      BY <2>2
    <3>2. [w EXCEPT !.swap = TRUE] = w
      BY <2>2 DEF WireDwords
    <3> QED
      BY <2>2, <3>1, <3>2
  <2>3. CASE a # MAP_CTRL /\ w.swap = FALSE
    <3>1. (w.swap /\ a # MAP_CTRL) = FALSE
      BY <2>3
    <3>2. [w EXCEPT !.swap = FALSE] = w
      BY <2>3 DEF WireDwords
    <3> QED
      BY <2>3, <3>1, <3>2
  <2>4. w.swap = TRUE \/ w.swap = FALSE
    BY DEF WireDwords
  <2> QED
    BY <2>1, <2>2, <2>3, <2>4
<1> DEFINE d == system_dword
           p == system_probe_register
<1>3. /\ d' = IF a < MAP_STORED_DWORDS
               THEN [d EXCEPT ![a] = IF a = MAP_CTRL THEN [w EXCEPT !.swap = FALSE] ELSE w] ELSE d
      /\ p' = IF a = MAP_PROBE_ADDRESS THEN w ELSE p
  BY DEF Land, to_ctrl
<1>4. d \in [0 .. MAP_STORED_DWORDS - 1 -> WireDwords]
  BY DEF WireInv, WireTypeOK
<1> HIDE DEF v, w, a
<1>5. a \in Nat
  BY DEF a
<1>6. d' = IF a < MAP_STORED_DWORDS THEN [d EXCEPT ![a] = v] ELSE d
  BY <1>2, <1>3
<1>7. p' = IF a = MAP_PROBE_ADDRESS THEN v ELSE p
  <2>1. a = MAP_PROBE_ADDRESS => a # MAP_CTRL
    BY <1>1
  <2> QED
    BY <1>2, <1>3, <2>1
<1>8. ASSUME NEW b \in Kept
      PROVE  system_at(b)' = IF b = a THEN v ELSE system_at(b)
  <2>1. CASE b < MAP_STORED_DWORDS
    <3>1. b \in 0 .. MAP_STORED_DWORDS - 1
      BY <1>1, <2>1 DEF Kept
    <3>2. d'[b] = IF b = a THEN v ELSE d[b]
      BY <1>1, <1>4, <1>5, <1>6, <3>1
    <3> QED
      BY <2>1, <3>2 DEF system_at
  <2>2. CASE ~ (b < MAP_STORED_DWORDS)
    <3>1. b = MAP_PROBE_ADDRESS
      BY <1>1, <2>2 DEF Kept
    <3> QED
      BY <1>7, <2>2, <3>1 DEF system_at
  <2> QED
    BY <2>1, <2>2
<1>9. System' = [b \in Kept |-> IF b = a THEN v ELSE system_at(b)]
  <2>1. System' = [b \in Kept |-> system_at(b)']
    BY DEF System, Kept
  <2> QED
    BY <1>8, <2>1
<1>10. System' = IF a \in Kept THEN [System EXCEPT ![a] = v] ELSE System
  BY <1>9 DEF System
<1> QED
  BY <1>10 DEF v, w, a

(* The entries by their bases.                                             *)
LEMMA BaseIs ==
  ASSUME NEW i \in 0 .. NUM_PARTIALS - 1
  PROVE  /\ Base(i) \in Bases /\ Base(i) \in Nat
         /\ (Base(i) - MAP_PARTIAL_BASE) \div MAP_PARTIAL_STRIDE = i
         /\ Base(i) + 3 - MAP_PARTIAL_BASE \in 0 .. NUM_PARTIALS * MAP_PARTIAL_STRIDE - 1
         /\ (Base(i) + 3 - MAP_PARTIAL_BASE) \div MAP_PARTIAL_STRIDE = i
         /\ (Base(i) + 3 - MAP_PARTIAL_BASE) % MAP_PARTIAL_STRIDE = 3
<1> DEFINE S == MAP_PARTIAL_STRIDE
           x == S * i
<1>1. S \in Nat /\ S >= 1 /\ S > 3 /\ MAP_PARTIAL_BASE \in Nat /\ NUM_PARTIALS \in Nat /\ i \in Nat
  BY SpiAssumption
<1>2. /\ x \in Nat /\ Base(i) = MAP_PARTIAL_BASE + x
      /\ x + S <= S * NUM_PARTIALS /\ S * NUM_PARTIALS = NUM_PARTIALS * S /\ NUM_PARTIALS * S \in Nat
  <2>1. i < NUM_PARTIALS
    BY <1>1
  <2>2. S * i + S <= S * NUM_PARTIALS /\ S * i \in Nat /\ S * NUM_PARTIALS \in Nat
    BY <1>1, <2>1, Scaled
  <2>3. i * S = S * i /\ NUM_PARTIALS * S = S * NUM_PARTIALS
    BY <1>1
  <2> QED
    BY <2>2, <2>3 DEF Base
<1>3. x \div S = i
  <2>1. x = S * i + 0 /\ 0 \in 0 .. S - 1
    BY <1>1, <1>2
  <2> HIDE DEF x, S
  <2> QED
    BY <1>1, <1>2, <2>1, DivIs
<1>4. (x + 3) \div S = i /\ (x + 3) % S = 3
  <2>1. x + 3 = S * i + 3 /\ 3 \in 0 .. S - 1 /\ x + 3 \in Nat
    BY <1>1, <1>2
  <2> HIDE DEF x, S
  <2> QED
    BY <1>1, <2>1, DivIs
<1> HIDE DEF x
<1>5. Base(i) - MAP_PARTIAL_BASE = x /\ Base(i) + 3 - MAP_PARTIAL_BASE = x + 3 /\ Base(i) \in Nat
  BY <1>1, <1>2
<1>6. Base(i) + 3 - MAP_PARTIAL_BASE \in 0 .. NUM_PARTIALS * MAP_PARTIAL_STRIDE - 1
  BY <1>1, <1>2, <1>5
<1> QED
  BY <1>3, <1>4, <1>5, <1>6 DEF Bases

LEMMA Appended ==
  ASSUME NEW S, NEW s \in Seq(S), NEW x \in S
  PROVE  /\ Append(s, x) \in Seq(S) /\ Len(Append(s, x)) = Len(s) + 1
         /\ \A k \in 1 .. Len(s) : Append(s, x)[k] = s[k]
         /\ Append(s, x)[Len(s) + 1] = x
BY AppendProperties

(* The fourth dword of a partial's: its pointers are the staged three, and *)
(* they are this request's.                                                *)
LEMMA PointersOfOneRequest ==
  ASSUME WireInv, Exchanged, frame_phase = "data", ~is_read, last_nonet_of_dword,
         in_partial, pointer_dword = 3
  PROVE  Append(pointer_stage, dword_data)
           = SubSeq(request.dwords, DwordsGone - 2, DwordsGone + 1)
<1> DEFINE d == DwordsGone
           q == request.dwords
           w == dword_data
<1>1. /\ Gone >= 3 /\ request \in Requests /\ ~request.read
      /\ d \in Nat /\ d < Len(q) /\ w = q[d + 1] /\ w \in WireDwords
      /\ dword_address = At(request, d) /\ dword_address \in Nat
  BY DwordArrives
<1>2. q \in Seq(WireDwords)
  BY <1>1, RequestsAssumption
<1>3. request.auto_increment /\ d >= 3
  <2>1. /\ partial_offset \div MAP_PARTIAL_STRIDE \in 0 .. NUM_PARTIALS - 1
        /\ dword_address = Base(partial_offset \div MAP_PARTIAL_STRIDE) + 3
    BY <1>1, PartialIs
  <2>2. dword_address - 3 \in Bases
    <3> DEFINE i == partial_offset \div MAP_PARTIAL_STRIDE
    <3> HIDE DEF i
    <3>1. i \in 0 .. NUM_PARTIALS - 1 /\ dword_address = Base(i) + 3
      BY <2>1 DEF i
    <3>2. Base(i) \in Bases /\ Base(i) \in Nat
      BY <3>1, BaseIs
    <3>3. dword_address - 3 = Base(i)
      BY <3>1, <3>2
    <3> QED
      BY <3>2, <3>3
  <2> HIDE DEF d
  <2>3. d + 1 \in 1 .. Len(q) /\ (d + 1) - 1 = d
    BY <1>1, <1>2, LenProperties
  <2>4. \A k \in 1 .. Len(q) : At(request, k - 1) - 3 \in Bases => request.auto_increment /\ k > 3
    BY <1>1, RequestsAssumption
  <2>5. request.auto_increment /\ d + 1 > 3
    BY <1>1, <2>2, <2>3, <2>4
  <2> QED
    BY <1>1, <2>5
<1>4. pointer_stage \in Seq(WireDwords) /\ Len(pointer_stage) = 3
  BY DEF WireInv, WireTypeOK
<1>5. \A k \in 1 .. 3 : pointer_stage[k] = q[d - 3 + k]
  <2>1. Offset \in 0 .. NUM_PARTIALS * MAP_PARTIAL_STRIDE - 1 /\ Offset % MAP_PARTIAL_STRIDE = 3
    BY <1>1 DEF Offset, in_partial, pointer_dword, partial_offset
  <2>2. /\ Offset % MAP_PARTIAL_STRIDE \in 1 .. 3
        /\ Offset % MAP_PARTIAL_STRIDE <= DwordsGone
    BY <1>1, <1>3, <2>1
  <2>3. \A k \in 1 .. Offset % MAP_PARTIAL_STRIDE :
          pointer_stage[k] = request.dwords[DwordsGone - (Offset % MAP_PARTIAL_STRIDE) + k]
    BY <1>1, <1>3, <2>1, <2>2 DEF WireInv, Staged
  <2> QED
    BY <2>1, <2>3
<1> DEFINE f == Append(pointer_stage, w)
           g == SubSeq(q, d - 2, d + 1)
<1> HIDE DEF d, q, w
<1>6. /\ f \in Seq(WireDwords) /\ Len(f) = 4 /\ f[4] = w
      /\ \A k \in 1 .. 3 : f[k] = pointer_stage[k]
  <2>1. w \in WireDwords
    BY <1>1
  <2>2. /\ f \in Seq(WireDwords) /\ Len(f) = Len(pointer_stage) + 1
        /\ \A k \in 1 .. Len(pointer_stage) : f[k] = pointer_stage[k]
        /\ f[Len(pointer_stage) + 1] = w
    BY <1>4, <2>1, Appended, ZenonT(40)
  <2>3. Len(pointer_stage) + 1 = 4
    BY <1>4
  <2> HIDE DEF f
  <2> QED
    BY <1>4, <2>2, <2>3
<1>7. /\ g \in Seq(WireDwords) /\ Len(g) = 4
      /\ \A k \in 1 .. 4 : g[k] = q[d - 3 + k]
  <2> DEFINE u == d - 2
             v == d + 1
  <2>1. u \in 1 .. Len(q) + 1 /\ v \in 0 .. Len(q) /\ u <= v /\ v - u + 1 = 4
        /\ \A k \in 1 .. 4 : u + k - 1 = d - 3 + k
    BY <1>1, <1>2, <1>3, LenProperties
  <2> HIDE DEF u, v
  <2>2. /\ SubSeq(q, u, v) \in Seq(WireDwords) /\ Len(SubSeq(q, u, v)) = v - u + 1
        /\ \A k \in 1 .. v - u + 1 : SubSeq(q, u, v)[k] = q[u + k - 1]
    BY <1>2, <2>1, SubSeqProperties, SMTT(30)
  <2> QED
    BY <2>1, <2>2 DEF u, v
<1> HIDE DEF f, g
<1>8. \A k \in 1 .. 4 : f[k] = g[k]
  <2> TAKE k \in 1 .. 4
  <2>1. CASE k = 4
    <3>1. d - 3 + 4 = d + 1
      BY <1>1
    <3> QED
      BY <1>1, <1>6, <1>7, <2>1, <3>1
  <2>2. CASE k \in 1 .. 3
    BY <1>5, <1>6, <1>7, <2>2
  <2> QED
    BY <2>1, <2>2
<1>9. f = g
  BY <1>6, <1>7, <1>8, SeqEqual
<1> QED
  BY <1>9 DEF f, g, d, q, w

LEMMA EntriesLand ==
  ASSUME WireInv, Land, Exchanged, frame_phase = "data", ~is_read, last_nonet_of_dword
  PROVE  Entries' = IF dword_address - 3 \in Bases
                    THEN [Entries EXCEPT ![dword_address - 3] =
                            SubSeq(request.dwords, DwordsGone - 2, DwordsGone + 1)]
                    ELSE Entries
<1> DEFINE a == dword_address
           S == MAP_PARTIAL_STRIDE
           j == partial_offset \div S
           v == SubSeq(request.dwords, DwordsGone - 2, DwordsGone + 1)
           e == pointer_entry
<1>1. a \in Nat /\ MAP_PARTIAL_BASE \in Nat
  BY DwordArrives, SpiAssumption
<1>2. in_partial => j \in 0 .. NUM_PARTIALS - 1 /\ a = Base(j) + pointer_dword
  BY <1>1, PartialIs
<1>3. ASSUME NEW i \in 0 .. NUM_PARTIALS - 1
      PROVE  a - 3 = Base(i) <=> in_partial /\ pointer_dword = 3 /\ i = j
  <2>1. Base(i) \in Nat
    BY BaseIs
  <2>2. ASSUME a - 3 = Base(i) PROVE in_partial /\ pointer_dword = 3 /\ i = j
    <3>1. partial_offset = Base(i) + 3 - MAP_PARTIAL_BASE
      BY <1>1, <2>1, <2>2 DEF partial_offset
    <3> QED
      BY <3>1, BaseIs DEF in_partial, pointer_dword
  <2>3. ASSUME in_partial, pointer_dword = 3, i = j PROVE a - 3 = Base(i)
    <3> HIDE DEF j
    <3>1. a = Base(i) + 3
      BY <1>2, <2>3
    <3> QED
      BY <2>1, <3>1
  <2> QED
    BY <2>2, <2>3
<1>4. e' = IF in_partial /\ pointer_dword = 3 THEN [e EXCEPT ![j] = v] ELSE e
  <2>1. e' = IF in_partial /\ pointer_dword = 3
             THEN [e EXCEPT ![j] = Append(pointer_stage, dword_data)] ELSE e
    BY DEF Land
  <2>2. in_partial /\ pointer_dword = 3 => Append(pointer_stage, dword_data) = v
    BY PointersOfOneRequest
  <2> QED
    BY <2>1, <2>2
<1>5. e \in [0 .. NUM_PARTIALS - 1 -> Seq(WireDwords)]
  BY DEF WireInv, WireTypeOK
<1> HIDE DEF v, j, a, e
<1>6. ASSUME NEW b \in Bases
      PROVE  e'[(b - MAP_PARTIAL_BASE) \div S] =
               IF b = a - 3 THEN v ELSE e[(b - MAP_PARTIAL_BASE) \div S]
  <2>1. PICK i \in 0 .. NUM_PARTIALS - 1 : b = Base(i)
    BY DEF Bases
  <2>2. (b - MAP_PARTIAL_BASE) \div S = i
    BY <2>1, BaseIs
  <2>3. e'[i] = IF in_partial /\ pointer_dword = 3 /\ i = j THEN v ELSE e[i]
    BY <1>2, <1>4, <1>5
  <2> QED
    BY <1>3, <2>1, <2>2, <2>3
<1>7. Entries' = [b \in Bases |-> IF b = a - 3 THEN v ELSE e[(b - MAP_PARTIAL_BASE) \div S]]
  <2>1. Entries' = [b \in Bases |-> e'[(b - MAP_PARTIAL_BASE) \div S]]
    BY DEF Entries, e
  <2> QED
    BY <1>6, <2>1
<1>8. Entries = [b \in Bases |-> e[(b - MAP_PARTIAL_BASE) \div S]]
  BY DEF Entries, e
<1>9. Entries' = IF a - 3 \in Bases THEN [Entries EXCEPT ![a - 3] = v] ELSE Entries
  BY <1>7, <1>8
<1> QED
  BY <1>9 DEF v, a

-----------------------------------------------------------------------------
(* What of the request is done, in both states of a step.                  *)
MapPosition ==
  /\ request = None \/ Gone < 3 => Done = 0 /\ Reply = <<>>
  /\ request # None /\ Gone >= 3 /\ ~request.read => Done = DwordsGone /\ Reply = <<>>
  /\ request # None /\ request.read /\ Gone < 3 + NONETS_PER_DWORD => Done = 0 /\ Reply = <<>>
  /\ request # None /\ request.read /\ Gone >= 3 + NONETS_PER_DWORD =>
       Done = DwordsGone - 1 /\ Reply = [k \in 1 .. DwordsGone - 1 |-> Reads(At(request, k - 1))]

LEMMA MapPositionIs == WireInv => MapPosition
<1> SUFFICES ASSUME WireInv PROVE MapPosition
  OBVIOUS
<1>1. Gone \in Nat /\ NONETS_PER_DWORD \in Nat
  BY LenProperties, WireSizes DEF WireInv, WireTypeOK, Gone
<1>2. ~ (request # None /\ request.read /\ Gone >= 3 + NONETS_PER_DWORD) => Reply = <<>>
  BY ReplyIs
<1>3. request # None /\ request.read /\ Gone >= 3 + NONETS_PER_DWORD =>
        Reply = [k \in 1 .. DwordsGone - 1 |-> Reads(At(request, k - 1))]
  BY ReplyIs
<1>4. Gone < 3 => ~ (Gone >= 3 + NONETS_PER_DWORD)
  BY <1>1
<1>5. Gone < 3 + NONETS_PER_DWORD => ~ (Gone >= 3 + NONETS_PER_DWORD)
  BY <1>1
<1> HIDE DEF Gone, Done, Reply, DwordsGone
<1> QED
  BY <1>2, <1>3, <1>4, <1>5, DoneIs DEF MapPosition

LEMMA MapPositionNext == WireInv' => MapPosition'
  BY MapPositionIs, PTL

LEMMA MapKept ==
  ASSUME UNCHANGED <<system_dword, system_probe_register, pointer_entry>>
  PROVE  System' = System /\ Entries' = Entries /\ \A a : Reads(a)' = Reads(a)
<1>1. system_dword' = system_dword /\ system_probe_register' = system_probe_register
      /\ pointer_entry' = pointer_entry
  OBVIOUS
<1>2. \A a : system_at(a)' = system_at(a)
  BY <1>1 DEF system_at
<1>3. \A a : Reads(a)' = Reads(a)
  BY <1>2 DEF Reads, in_system
<1>4. System' = System
  BY <1>2 DEF System, Kept
<1>5. Entries' = Entries
  BY <1>1 DEF Entries
<1> QED
  BY <1>3, <1>4, <1>5

(* A step of the wire is one of the map's: the frame's begin and end, and  *)
(* the last nonet of a dword.  Any other leaves the map's side as it is.   *)
LEMMA AskStep ==
  ASSUME WireInv, Begin
  PROVE  Map!Ask
<1>1. request = None /\ request' \in Requests /\ rx' = <<>> /\ strobes' = <<>>
      /\ UNCHANGED <<system_dword, system_probe_register, pointer_entry>>
  BY DEF Begin
<1>2. Done' = 0
  BY <1>1 DEF Done
<1>3. MapPosition'
  BY MapPositionNext, WireInvNext DEF WireNext
<1>4. Reply' = <<>>
  <2>1. Gone' < 3
    BY <1>1 DEF Gone
  <2> HIDE DEF Gone, Reply
  <2> QED
    BY <1>3, <2>1 DEF MapPosition
<1>5. System' = System /\ Entries' = Entries
  BY <1>1, MapKept
<1> QED
  BY <1>1, <1>2, <1>4, <1>5 DEF Map!Ask

LEMMA FinishStep ==
  ASSUME WireInv, Deselect
  PROVE  Map!Finish
<1>1. request # None /\ request' = None /\ strobes' = <<>>
      /\ UNCHANGED <<system_dword, system_probe_register, pointer_entry>>
  BY DEF Deselect
<1>2. MapPosition'
  BY MapPositionNext, WireInvNext DEF WireNext
<1>3. Done' = 0 /\ Reply' = <<>>
  BY <1>1, <1>2 DEF MapPosition
<1>4. System' = System /\ Entries' = Entries
  BY <1>1, MapKept
<1> QED
  BY <1>1, <1>3, <1>4 DEF Map!Finish

LEMMA HeaderStep ==
  ASSUME WireInv, Command \/ AddressHigh \/ AddressLow
  PROVE  UNCHANGED Map!vars
<1>1. /\ Exchanged /\ frame_phase \in {"command", "address_high", "address_low"}
      /\ UNCHANGED map_vars
  BY DEF Command, AddressHigh, AddressLow
<1>2. request' = request /\ Gone \in {0, 1, 2}
  BY <1>1, HeaderIs DEF Exchanged
<1>3. MapPosition /\ MapPosition'
  BY MapPositionIs, MapPositionNext, WireInvNext DEF WireNext
<1>4. Done = 0 /\ Reply = <<>>
  BY <1>2, <1>3 DEF MapPosition
<1>5. Gone' \in 0 .. 3 /\ (Gone' = 3 => DwordsGone' = 0)
  BY NoDataYet
<1>6. NONETS_PER_DWORD \in Nat /\ NONETS_PER_DWORD >= 2
  BY WireSizes
<1>7. Done' = 0 /\ Reply' = <<>>
  <2>1. CASE Gone' < 3
    BY <1>3, <2>1 DEF MapPosition
  <2>2. CASE Gone' = 3
    <3>1. Gone' >= 3 /\ Gone' < 3 + NONETS_PER_DWORD /\ ~ (Gone' < 3)
      BY <1>6, <2>2
    <3> QED
      BY <1>3, <1>5, <2>2, <3>1 DEF MapPosition
  <2> QED
    BY <1>5, <2>1, <2>2
<1>8. System' = System /\ Entries' = Entries /\ strobes' = strobes
  BY <1>1, MapKept DEF map_vars
<1> QED
  BY <1>2, <1>4, <1>7, <1>8 DEF Map!vars

LEMMA TurnaroundStep ==
  ASSUME WireInv, Turnaround
  PROVE  UNCHANGED Map!vars
<1>1. /\ Exchanged /\ Gone >= 3 /\ request.read /\ request' = request /\ request \in Requests
      /\ Gone < 3 + NONETS_PER_DWORD
      /\ last_nonet_of_dword => Gone' = 3 + NONETS_PER_DWORD /\ DwordsGone' = 1
      /\ ~last_nonet_of_dword => DwordsGone' = 0
      /\ DwordsGone' = 0 => Gone' < 3 + NONETS_PER_DWORD
  BY TurnaroundIs
<1>2. request # None
  BY <1>1, RequestsAssumption
<1>3. MapPosition /\ MapPosition'
  BY MapPositionIs, MapPositionNext, WireInvNext DEF WireNext
<1>4. Done = 0 /\ Reply = <<>>
  BY <1>1, <1>2, <1>3 DEF MapPosition
<1>5. Done' = 0 /\ Reply' = <<>>
  <2>1. CASE ~last_nonet_of_dword
    <3>1. Gone' < 3 + NONETS_PER_DWORD
      BY <1>1, <2>1
    <3> QED
      BY <1>1, <1>2, <1>3, <3>1 DEF MapPosition
  <2>2. CASE last_nonet_of_dword
    <3>1. Gone' >= 3 + NONETS_PER_DWORD
      BY <1>1, <2>2, WireSizes
    <3>2. Done' = DwordsGone' - 1
          /\ Reply' = [k \in 1 .. DwordsGone' - 1 |-> Reads(At(request, k - 1))']
      BY <1>1, <1>2, <1>3, <3>1 DEF MapPosition
    <3>3. DwordsGone' - 1 = 0 /\ 1 .. DwordsGone' - 1 = {}
      BY <1>1, <2>2
    <3> HIDE DEF DwordsGone
    <3> QED
      BY <3>2, <3>3
  <2> QED
    BY <2>1, <2>2
<1>6. UNCHANGED map_vars
  BY DEF Turnaround
<1>7. System' = System /\ Entries' = Entries /\ strobes' = strobes
  BY <1>6, MapKept DEF map_vars
<1> QED
  BY <1>1, <1>4, <1>5, <1>7 DEF Map!vars

LEMMA PartialStep ==
  ASSUME WireInv, DataNonet, ~ (request.read /\ last_nonet_of_dword)
  PROVE  UNCHANGED Map!vars
<1> DEFINE N == NONETS_PER_DWORD
<1>1. Data /\ UNCHANGED map_vars /\ (is_read \/ ~last_nonet_of_dword)
  BY DEF DataNonet
<1>2. Exchanged /\ frame_phase = "data"
  BY <1>1 DEF Data
<1>3. /\ Gone >= 3 /\ is_read = request.read
      /\ request.read => Gone >= 3 + N
      /\ request' = request /\ request \in Requests /\ Gone' = Gone + 1 /\ Gone \in Nat
  BY <1>2, InData, ExchangeIs DEF WireInv
<1>4. ~last_nonet_of_dword
  BY <1>1, <1>3
<1>5. DwordsGone' = DwordsGone
  BY <1>2, <1>3, <1>4, DwordsNext, Zenon
<1>6. request # None
  BY <1>3, RequestsAssumption
<1>7. MapPosition /\ MapPosition'
  BY MapPositionIs, MapPositionNext, WireInvNext DEF WireNext
<1>8. Gone' >= 3 /\ (request.read => Gone' >= 3 + N)
  BY <1>3, WireSizes
<1>9. /\ System' = System /\ Entries' = Entries /\ strobes' = strobes
      /\ \A a : Reads(a)' = Reads(a)
  BY <1>1, MapKept DEF map_vars
<1>10. Done' = Done /\ Reply' = Reply
  <2>1. CASE ~request.read
    BY <1>3, <1>5, <1>6, <1>7, <1>8, <2>1 DEF MapPosition
  <2>2. CASE request.read
    <3>1. Done = DwordsGone - 1 /\ Done' = DwordsGone' - 1
      BY <1>3, <1>6, <1>7, <1>8, <2>2 DEF MapPosition
    <3>2. Reply = [k \in 1 .. DwordsGone - 1 |-> Reads(At(request, k - 1))]
      BY <1>3, <1>6, <1>7, <2>2 DEF MapPosition
    <3>3. Reply' = [k \in 1 .. DwordsGone' - 1 |-> Reads(At(request, k - 1))']
      BY <1>3, <1>6, <1>7, <1>8, <2>2 DEF MapPosition
    <3>4. \A k : Reads(At(request, k - 1))' = Reads(At(request, k - 1))
      <4>1. \A k : At(request, k - 1)' = At(request, k - 1)
        BY <1>3 DEF At
      <4>2. UNCHANGED <<system_dword, system_probe_register>>
        BY <1>1 DEF map_vars
      <4> QED
        BY <4>1, <4>2 DEF Reads, in_system, system_at
    <3> HIDE DEF DwordsGone, Reply, Done
    <3> QED
      BY <1>5, <3>1, <3>2, <3>3, <3>4
  <2> QED
    BY <2>1, <2>2
<1> QED
  BY <1>3, <1>9, <1>10 DEF Map!vars

LEMMA ReadStep ==
  ASSUME WireInv, DataNonet, request.read, last_nonet_of_dword
  PROVE  Map!ReadDword
<1> DEFINE N == NONETS_PER_DWORD
           d == DwordsGone - 1
           c == Capped(DwordsOf(request))
<1>1. Data /\ UNCHANGED map_vars
  BY DEF DataNonet
<1>2. Exchanged /\ frame_phase = "data"
  BY <1>1 DEF Data
<1>3. /\ Gone >= 3 /\ Gone >= 3 + N
      /\ request' = request /\ request \in Requests /\ Gone' = Gone + 1 /\ Gone \in Nat
  BY <1>2, InData, ExchangeIs DEF WireInv
<1>4. /\ DwordsGone \in Nat /\ DwordsGone' = DwordsGone + 1
      /\ DwordsGone < 1 + c
      /\ DwordsGone = 0 <=> Gone < 3 + N
  <2>1. last_nonet_of_dword <=> (Gone - 3) % N = N - 1
    BY <1>2, <1>3, DwordsNext, Zenon
  <2>2. DwordsGone' = DwordsGone + 1
    BY <1>2, <1>3, <2>1, DwordsNext, Zenon
  <2>3. DwordsGone \in Nat /\ DwordsGone < (IF request.read THEN 1 + c ELSE c)
        /\ (request.read => (DwordsGone = 0 <=> Gone < 3 + N))
    BY <1>2, <1>3, DwordsNext, Zenon
  <2> QED
    BY <2>2, <2>3
<1>5. c \in Nat /\ c <= DwordsOf(request) /\ DwordsOf(request) = request.count /\ request.count \in Nat
  BY <1>3, FrameIs, RequestsAssumption DEF DwordsOf
<1>6. DwordsGone # 0
  BY <1>3, <1>4, WireSizes
<1>7. d \in Nat /\ d < request.count
  <2> HIDE DEF DwordsGone, c
  <2> QED
    BY <1>4, <1>5, <1>6
<1>8. request # None
  BY <1>3, RequestsAssumption
<1>9. MapPosition /\ MapPosition'
  BY MapPositionIs, MapPositionNext, WireInvNext DEF WireNext
<1>10. Gone' >= 3 + N
  BY <1>3, WireSizes
<1>11. /\ Done = d /\ Reply = [k \in 1 .. d |-> Reads(At(request, k - 1))]
       /\ Done' = DwordsGone' - 1 /\ Reply' = [k \in 1 .. DwordsGone' - 1 |-> Reads(At(request, k - 1))']
  BY <1>3, <1>8, <1>9, <1>10 DEF MapPosition
<1>12. \A k : Reads(At(request, k - 1))' = Reads(At(request, k - 1))
  <2>1. \A k : At(request, k - 1)' = At(request, k - 1)
    BY <1>3 DEF At
  <2>2. UNCHANGED <<system_dword, system_probe_register>>
    BY <1>1 DEF map_vars
  <2> QED
    BY <2>1, <2>2 DEF Reads, in_system, system_at
<1>13. DwordsGone' - 1 = d + 1 /\ Done' = d + 1
  <2> HIDE DEF DwordsGone, Done
  <2> QED
    BY <1>4, <1>11
<1>14. Map!Contents = Reads(At(request, d))
  <2>1. Map!Address = At(request, d)
    BY <1>11 DEF Map!Address, At
  <2>2. At(request, d) \in Nat
    BY <1>3, <1>5, <1>7, RequestsAssumption DEF At
  <2> HIDE DEF d
  <2>3. Reads(At(request, d)) =
          IF At(request, d) \in Kept THEN System[At(request, d)]
          ELSE IF At(request, d) \in DOMAIN Status THEN Status[At(request, d)] ELSE ZeroDword
    BY <2>2, ReadsAsMapped
  <2> QED
    BY <2>1, <2>3 DEF Map!Contents
<1>15. Reply' = Append(Reply, Map!Contents)
  <2> DEFINE R(k) == Reads(At(request, k - 1))
  <2>1. Reply = [k \in 1 .. d |-> R(k)] /\ Reply' = [k \in 1 .. d + 1 |-> R(k)]
    <3> HIDE DEF d, DwordsGone, Reply, Done
    <3> QED
      BY <1>11, <1>12, <1>13
  <2>2. Map!Contents = R(d + 1)
    <3>1. (d + 1) - 1 = d
      BY <1>7
    <3> QED
      BY <1>14, <3>1
  <2> HIDE DEF R, d, Reply
  <2>3. Append([k \in 1 .. d |-> R(k)], R(d + 1)) = [k \in 1 .. d + 1 |-> R(k)]
    BY <1>7
  <2> QED
    BY <2>1, <2>2, <2>3
<1>16. /\ System' = System /\ Entries' = Entries /\ strobes' = strobes
  BY <1>1, MapKept DEF map_vars
<1>17. Done < request.count /\ Done' = Done + 1
  BY <1>7, <1>11, <1>13
<1> HIDE DEF d
<1> QED
  BY <1>3, <1>8, <1>15, <1>16, <1>17 DEF Map!ReadDword

LEMMA WriteStep ==
  ASSUME WireInv, DataDword
  PROVE  Map!WriteDword
<1> DEFINE d == DwordsGone
           w == dword_data
           a == dword_address
<1>1. Data /\ Land /\ ~is_read /\ last_nonet_of_dword
  BY DEF DataDword
<1>2. Exchanged /\ frame_phase = "data"
  BY <1>1 DEF Data
<1>3. /\ Gone >= 3 /\ request \in Requests /\ ~request.read
      /\ d \in Nat /\ d < Len(request.dwords)
      /\ w = request.dwords[d + 1] /\ w \in WireDwords
      /\ a = At(request, d) /\ a \in Nat
      /\ DwordsGone' = d + 1
  BY <1>1, <1>2, DwordArrives
<1>4. request # None /\ request' = request /\ Gone' >= 3
  BY <1>2, <1>3, RequestsAssumption, ExchangeIs DEF WireInv
<1>5. MapPosition /\ MapPosition'
  BY MapPositionIs, MapPositionNext, WireInvNext DEF WireNext
<1>6. Done = d /\ Reply = <<>> /\ Done' = d + 1 /\ Reply' = <<>>
  BY <1>3, <1>4, <1>5 DEF MapPosition
<1>7. /\ Map!Address = a
      /\ request.dwords[Done + 1] = w
      /\ SubSeq(request.dwords, Done - 2, Done + 1)
           = SubSeq(request.dwords, DwordsGone - 2, DwordsGone + 1)
  BY <1>3, <1>6 DEF Map!Address, At
<1>8. System' = IF a \in Kept
                THEN [System EXCEPT ![a] = [w EXCEPT !.swap = w.swap /\ a # MAP_CTRL]]
                ELSE System
  BY <1>1, <1>3, SystemLands
<1>9. Entries' = IF a - 3 \in Bases
                 THEN [Entries EXCEPT ![a - 3] =
                         SubSeq(request.dwords, DwordsGone - 2, DwordsGone + 1)]
                 ELSE Entries
  BY <1>1, <1>2, EntriesLand
<1>10. strobes' = CASE a = MAP_FIFO_DOOR -> Append(strobes, w)
                    [] a = MAP_CTRL /\ w.swap -> Append(strobes, "swap")
                    [] OTHER -> strobes
  BY <1>1 DEF Land, swap, to_ctrl
<1>11. Done < Len(request.dwords) /\ Done' = Done + 1
  BY <1>3, <1>6
<1> HIDE DEF d, w, a, Done, Reply, System, Entries
<1>12. /\ System' = IF Map!Address \in Kept
                    THEN [System EXCEPT ![Map!Address] =
                            [request.dwords[Done + 1] EXCEPT !.swap =
                               request.dwords[Done + 1].swap /\ Map!Address # MAP_CTRL]]
                    ELSE System
       /\ Entries' = IF Map!Address - 3 \in Bases
                     THEN [Entries EXCEPT ![Map!Address - 3] =
                             SubSeq(request.dwords, Done - 2, Done + 1)]
                     ELSE Entries
  BY <1>7, <1>8, <1>9
<1>13. strobes' = CASE Map!Address = MAP_FIFO_DOOR -> Append(strobes, request.dwords[Done + 1])
                    [] Map!Address = MAP_CTRL /\ request.dwords[Done + 1].swap
                         -> Append(strobes, "swap")
                    [] OTHER -> strobes
  BY <1>7, <1>10
<1> QED
  BY <1>3, <1>4, <1>6, <1>11, <1>12, <1>13 DEF Map!WriteDword

-----------------------------------------------------------------------------
LEMMA MapInitially == WireInit => Map!Init
<1> SUFFICES ASSUME WireInit PROVE Map!Init
  OBVIOUS
<1>1. request = None /\ strobes = <<>>
  BY DEF WireInit
<1>2. MapPosition
  BY WireInvInit, MapPositionIs
<1>3. Done = 0 /\ Reply = <<>>
  BY <1>1, <1>2 DEF MapPosition
<1>4. System = [address \in Kept |-> ZeroDword]
  <2>1. ASSUME NEW address \in Kept PROVE system_at(address) = ZeroDword
    <3>1. /\ system_dword = [k \in 0 .. MAP_STORED_DWORDS - 1 |-> ZeroDword]
          /\ system_probe_register = ZeroDword
      BY DEF WireInit
    <3>2. CASE address = MAP_PROBE_ADDRESS
      <4>1. ~ (address < MAP_STORED_DWORDS)
        BY <3>2, SpiAssumption
      <4> QED
        BY <3>1, <3>2, <4>1 DEF system_at
    <3>3. CASE address # MAP_PROBE_ADDRESS
      <4>1. address \in 0 .. MAP_STORED_DWORDS - 1
        BY <3>3 DEF Kept
      <4>2. address < MAP_STORED_DWORDS
        <5>1. MAP_STORED_DWORDS \in Nat
          BY SpiAssumption
        <5> QED
          BY <4>1, <5>1
      <4> QED
        BY <3>1, <4>1, <4>2 DEF system_at
    <3> QED
      BY <3>2, <3>3
  <2> QED
    BY <2>1 DEF System
<1>5. Entries = [base \in Bases |-> <<ZeroDword, ZeroDword, ZeroDword, ZeroDword>>]
  <2>1. \A base \in Bases :
          pointer_entry[(base - MAP_PARTIAL_BASE) \div MAP_PARTIAL_STRIDE]
            = <<ZeroDword, ZeroDword, ZeroDword, ZeroDword>>
    <3> TAKE base \in Bases
    <3>1. PICK i \in 0 .. NUM_PARTIALS - 1 : base = Base(i)
      BY DEF Bases
    <3>2. (base - MAP_PARTIAL_BASE) \div MAP_PARTIAL_STRIDE = i
      BY <3>1, BaseIs
    <3> QED
      BY <3>2 DEF WireInit
  <2> QED
    BY <2>1 DEF Entries
<1> QED
  BY <1>1, <1>3, <1>4, <1>5 DEF Map!Init

LEMMA MapSteps == WireInv /\ [WireNext]_wire_vars => [Map!Next]_Map!vars
<1> SUFFICES ASSUME WireInv, [WireNext]_wire_vars PROVE [Map!Next]_Map!vars
  OBVIOUS
<1>1. CASE Begin
  BY <1>1, AskStep DEF Map!Next
<1>2. CASE Deselect
  BY <1>2, FinishStep DEF Map!Next
<1>3. CASE Command \/ AddressHigh \/ AddressLow
  BY <1>3, HeaderStep
<1>4. CASE Turnaround
  BY <1>4, TurnaroundStep
<1>5. CASE DataNonet
  BY <1>5, PartialStep, ReadStep DEF Map!Next
<1>6. CASE DataDword
  BY <1>6, WriteStep DEF Map!Next
<1>7. CASE UNCHANGED wire_vars
  <2>1. request' = request /\ rx' = rx /\ strobes' = strobes
        /\ UNCHANGED <<system_dword, system_probe_register, pointer_entry>>
    BY <1>7 DEF wire_vars, master_vars, map_vars
  <2>2. System' = System /\ Entries' = Entries
    BY <2>1, MapKept
  <2>3. Reply' = Reply
    BY <2>1 DEF Reply
  <2>4. Done' = Done
    BY <2>1, <2>3 DEF Done
  <2> QED
    BY <2>1, <2>2, <2>3, <2>4 DEF Map!vars
<1> QED
  BY <1>1, <1>2, <1>3, <1>4, <1>5, <1>6, <1>7 DEF WireNext

(* The wire is the memory map: each nonet of a frame is a dword of its     *)
(* request written or read whole at its address, or nothing yet            *)
(* (spi_bus.sv, spi_link.cpp).                                             *)
THEOREM WireImplementsMap == WireSpec => MapAsWritten
<1>1. WireInit => Map!Init /\ WireInv
  BY MapInitially, WireInvInit
<1>2. WireInv /\ [WireNext]_wire_vars => WireInv'
  BY WireInvNext
<1>3. WireInv /\ [WireNext]_wire_vars => [Map!Next]_Map!vars
  BY MapSteps
<1> QED
  BY <1>1, <1>2, <1>3, PTL DEF WireSpec, MapAsWritten, Map!Spec
=============================================================================
