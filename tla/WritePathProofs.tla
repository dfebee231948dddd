-------------------------- MODULE WritePathProofs --------------------------
(***************************************************************************)
(* For every number of registers and any traffic: at the link's rate the   *)
(* FIFO never drops a write, what the image believes of the chip is true   *)
(* or on its way, a stage asked for is never lost, and the words of a      *)
(* note-on land together.                                                  *)
(*                                                                         *)
(* NothingDropped needs to know how far the FIFO may have filled           *)
(* (Backlog): by no more than a tick's words, the dwords since the last    *)
(* window and the pops this window still owes.                             *)
(***************************************************************************)
EXTENDS WritePath, TLAPS

Backlog ==
  /\ Len(fifo) <= WRITES_PER_TICK + arrived + left
  /\ Len(fifo) <= WRITES_PER_TICK + arrived + PER_PASS
  /\ Len(fifo) - committed <= (IF sending THEN sent ELSE 0)

LEMMA Sizes ==
  /\ FIFO_HOLDS \in Nat /\ WRITES_PER_TICK \in Nat /\ POPS \in Nat
  /\ PER_PASS \in Nat /\ MaxAsks \in Nat
BY SizeAssumption

LEMMA AddressTypes ==
  /\ \A v \in Voices : StageOf(v) \in Addresses /\ NoteOf(v) \in Addresses
  /\ Channel \subseteq Addresses
BY SizeAssumption DEF Voices, Channel, Addresses, StageOf, NoteOf

(* What set does, whichever words change.                                  *)
LEMMA SetEffect ==
  ASSUME TypeOK, NEW writes, set(writes),
         \A w \in writes : w.address \in Addresses /\ w.raw \in Raw
  PROVE  /\ value' \in [Addresses -> Raw]
         /\ known' \subseteq known
         /\ pending \subseteq pending' /\ pending' \subseteq Addresses
         /\ \A a \in known' : value'[a] = value[a]
         /\ \A w \in writes : w.force => w.address \in pending'
<1> DEFINE changed == {w.address : w \in Changed(writes)}
<1>1. changed \subseteq Addresses
  BY DEF Changed
<1>2. \A a \in changed : (CHOOSE w \in writes : w.address = a).raw \in Raw
  BY DEF Changed
<1>3. value' = [a \in Addresses |->
        IF a \in changed THEN (CHOOSE w \in writes : w.address = a).raw
                         ELSE value[a]]
  BY DEF set
<1>4. known' = known \ changed /\ pending' = pending \union changed
  BY DEF set
<1>5. \A w \in writes : w.force => w.address \in changed
  BY DEF Changed
<1> HIDE DEF changed
<1> QED
  BY <1>1, <1>2, <1>3, <1>4, <1>5 DEF TypeOK

(* The words a strike, a release or an edit writes.                        *)
LEMMA WritesTyped ==
  /\ \A v \in Voices, note \in Notes : \A w \in NoteOnWrites(v, note) :
       w.address \in Addresses /\ w.raw \in Raw
  /\ \A v \in Voices : \A w \in {Write(StageOf(v), Released, TRUE)} :
       w.address \in Addresses /\ w.raw \in Raw
  /\ \A c \in Channel, raw \in Notes : \A w \in {Write(c, raw, FALSE)} :
       w.address \in Addresses /\ w.raw \in Raw
BY AddressTypes DEF NoteOnWrites, Write, Raw

(* Every ask of the voice task is one write_all, and says what it owes.    *)
Ask(writes, owing) ==
  /\ write_all(writes)
  /\ owed' = owed \union owing
  /\ owing \subseteq Voices
  /\ \A w \in writes : w.address \in Addresses /\ w.raw \in Raw
  /\ \A v \in owing : \E w \in writes : w.force /\ w.address = StageOf(v)

LEMMA NextSplit ==
  ASSUME Next
  PROVE  \/ \E writes, owing : Ask(writes, owing)
         \/ resend_all \/ pause \/ StartTick \/ SendWord \/ Swap
         \/ OpenWindow \/ WindowIdle \/ WindowPop
         \/ \E v \in Voices : AttackEnds(v)
<1>1. ASSUME NEW v \in Voices, NEW note \in Notes, note_on(v, note)
      PROVE  \E writes, owing : Ask(writes, owing)
  <2>1. \E w \in NoteOnWrites(v, note) : w.force /\ w.address = StageOf(v)
    BY DEF NoteOnWrites, Write
  <2>2. Ask(NoteOnWrites(v, note), {v})
    BY <1>1, <2>1, WritesTyped DEF note_on, Ask
  <2> QED
    BY <2>2
<1>2. ASSUME NEW v \in Voices, release(v)
      PROVE  \E writes, owing : Ask(writes, owing)
  <2>1. \E w \in {Write(StageOf(v), Released, TRUE)} :
          w.force /\ w.address = StageOf(v)
    BY DEF Write
  <2>2. Ask({Write(StageOf(v), Released, TRUE)}, {v})
    BY <1>2, <2>1, WritesTyped DEF release, Ask
  <2> QED
    BY <2>2
<1>3. ASSUME NEW c \in Channel, NEW raw \in Notes, edit(c, raw)
      PROVE  \E writes, owing : Ask(writes, owing)
  <2>1. Ask({Write(c, raw, FALSE)}, {})
    BY <1>3, WritesTyped DEF edit, Ask
  <2> QED
    BY <2>1
<1> QED
  BY <1>1, <1>2, <1>3 DEF Next

-----------------------------------------------------------------------------
(* The row the window parked on is there while the window is open, and the *)
(* chip has its word: popping it once more changes no register.  A commit  *)
(* that crossed has it, an entry to pop, and parted words.                 *)
RowParked ==
  /\ parked # <<>> => left > 0 /\ chip[parked[1].address] = parked[1].raw
  /\ crossed => parked # <<>> /\ committed > 0 /\ split

LEMMA PopEffect ==
  ASSUME TypeOK, RowParked, WindowPop
  PROVE  /\ Len(fifo) \in Nat /\ Len(fifo) > 0 /\ fifo[1] \in Entry
         /\ chip' = IF crossed THEN chip
                    ELSE [chip EXCEPT ![fifo[1].address] = fifo[1].raw]
<1>1. Len(fifo) \in Nat /\ Len(fifo) > 0 /\ fifo[1] \in Entry
  BY DEF WindowPop, TypeOK
<1>2. CASE crossed
  <2>1. /\ chip[parked[1].address] = parked[1].raw
        /\ chip' = [chip EXCEPT ![parked[1].address] = parked[1].raw]
    BY <1>2 DEF RowParked, WindowPop
  <2> QED
    BY <1>1, <1>2, <2>1 DEF TypeOK
<1>3. CASE ~crossed
  BY <1>1, <1>3 DEF WindowPop
<1> QED
  BY <1>1, <1>2, <1>3 DEF TypeOK

LEMMA RowStep == TypeOK /\ RowParked /\ [Next]_vars => RowParked'
<1> SUFFICES ASSUME TypeOK, RowParked, [Next]_vars PROVE RowParked'
  OBVIOUS
<1>1. ASSUME NEW writes, NEW owing, Ask(writes, owing) PROVE RowParked'
  BY <1>1 DEF Ask, write_all, window_vars, RowParked
<1>2. CASE resend_all \/ pause \/ StartTick \/ SendWord \/ UNCHANGED vars
  BY <1>2 DEF resend_all, pause, StartTick, SendWord, vars, window_vars, RowParked
<1>3. CASE Swap
  <2>1. /\ UNCHANGED <<parked, left, chip>> /\ committed' = Len(fifo)
        /\ crossed' => crossed \/ (parked # <<>> /\ committed' > 0)
    BY <1>3 DEF Swap
  <2>2. parked # <<>> => split'
    <3>1. parked # <<>> => left # 0
      BY DEF RowParked, TypeOK
    <3> QED
      BY <1>3, <3>1, Zenon DEF Swap
  <2>3. crossed => committed' > 0
    BY <2>1 DEF RowParked, TypeOK
  <2> QED
    BY <2>1, <2>2, <2>3 DEF RowParked
<1>4. CASE WindowIdle
  BY <1>4 DEF WindowIdle, RowParked
<1>5. CASE WindowPop
  <2>1. /\ crossed' = FALSE
        /\ parked' = IF committed' = 0 /\ left' > 0 /\ ~crossed
                     THEN <<fifo[1]>> ELSE <<>>
    BY <1>5 DEF WindowPop
  <2>2. CASE parked' = <<>>
    BY <2>1, <2>2 DEF RowParked
  <2>3. CASE parked' # <<>>
    <3>1. parked' = <<fifo[1]>> /\ left' > 0 /\ ~crossed
      BY <2>1, <2>3
    <3>2. chip' = [chip EXCEPT ![fifo[1].address] = fifo[1].raw]
          /\ fifo[1] \in Entry
      BY <1>5, <3>1, PopEffect
    <3> QED
      BY <2>1, <3>1, <3>2 DEF RowParked, TypeOK, Entry
  <2> QED
    BY <2>2, <2>3
<1>6. CASE OpenWindow \/ \E v \in Voices : AttackEnds(v)
  <2>1. parked = <<>> /\ ~crossed
    BY <1>6 DEF OpenWindow, AttackEnds, RowParked, TypeOK
  <2> QED
    BY <1>6, <2>1 DEF OpenWindow, AttackEnds, window_vars, RowParked
<1> QED
  BY <1>1, <1>2, <1>3, <1>4, <1>5, <1>6, NextSplit

(* TypeOK: the shape of the path's state, whatever the sizes.              *)
LEMMA TypeStart == Init => TypeOK /\ RowParked
<1>0. Init => RowParked
  BY DEF Init, RowParked
<1>1. Init => TypeOK
  <2> SUFFICES ASSUME Init PROVE TypeOK
    OBVIOUS
  <2>1. /\ value \in [Addresses -> Raw] /\ chip \in [Addresses -> Raw]
        /\ known \subseteq Addresses /\ pending \subseteq Addresses
    BY DEF Init, Raw
  <2>2. fifo \in Seq(Entry) /\ Len(fifo) = 0
    BY DEF Init
  <2>3. /\ sending \in BOOLEAN /\ dropped \in BOOLEAN /\ owed \subseteq Voices
        /\ split \in BOOLEAN /\ paused \in BOOLEAN /\ crossed \in BOOLEAN
        /\ parked = <<>> /\ skipped \subseteq Addresses
    BY DEF Init
  <2>4. /\ sent \in 0 .. WRITES_PER_TICK /\ left \in 0 .. POPS
        /\ arrived \in 0 .. PER_PASS /\ asks \in 0 .. MaxAsks
    BY Sizes DEF Init
  <2>5. Len(fifo) <= FIFO_HOLDS /\ committed \in 0 .. Len(fifo)
    BY <2>2, Sizes DEF Init
  <2> QED
    BY <2>1, <2>2, <2>3, <2>4, <2>5 DEF TypeOK
<1> QED
  BY <1>0, <1>1

LEMMA TypeStep == TypeOK /\ RowParked /\ [Next]_vars => TypeOK'
<1> SUFFICES ASSUME TypeOK, RowParked, [Next]_vars PROVE TypeOK'
  OBVIOUS
<1> USE SizeAssumption
<1>1. ASSUME NEW writes, NEW owing, Ask(writes, owing) PROVE TypeOK'
  <2>1. set(writes)
    BY <1>1 DEF Ask, write_all
  <2>2. /\ value' \in [Addresses -> Raw]
        /\ known' \subseteq Addresses /\ pending' \subseteq Addresses
    BY <1>1, <2>1, SetEffect DEF Ask, TypeOK
  <2>3. asks' \in 0 .. MaxAsks
    BY <1>1 DEF Ask, write_all, TypeOK
  <2> QED
    BY <1>1, <2>2, <2>3 DEF Ask, write_all, link_vars, window_vars, TypeOK
<1>2. CASE resend_all
  BY <1>2, SMTT(30) DEF resend_all, link_vars, window_vars, TypeOK
<1>2a. CASE pause
  BY <1>2a DEF pause, image_vars, window_vars, TypeOK
<1>3. CASE StartTick
  BY <1>3 DEF StartTick, image_vars, window_vars, TypeOK
<1>4. CASE SendWord
  <2>1. PICK a \in pending :
          /\ IF Len(fifo) < FIFO_HOLDS
             THEN /\ fifo' = Append(fifo, [address |-> a, raw |-> value[a]])
                  /\ UNCHANGED dropped
             ELSE dropped' = TRUE /\ UNCHANGED fifo
          /\ pending' = pending \ {a}
          /\ known' = known \union {a}
    BY <1>4 DEF SendWord
  <2>2. [address |-> a, raw |-> value[a]] \in Entry
    BY <2>1 DEF TypeOK, Entry
  <2>3. /\ fifo' \in Seq(Entry) /\ Len(fifo') <= FIFO_HOLDS
        /\ committed' \in 0 .. Len(fifo')
        /\ dropped' \in BOOLEAN
    <3>1. CASE Len(fifo) < FIFO_HOLDS
      <4>1. fifo' = Append(fifo, [address |-> a, raw |-> value[a]])
        BY <2>1, <3>1
      <4>2. fifo' \in Seq(Entry) /\ Len(fifo') = Len(fifo) + 1
        BY <2>2, <4>1 DEF TypeOK
      <4> QED
        BY <1>4, <2>1, <3>1, <4>2, SMTT(30) DEF TypeOK, SendWord
    <3>2. CASE ~(Len(fifo) < FIFO_HOLDS)
      BY <1>4, <2>1, <3>2 DEF TypeOK, SendWord
    <3> QED
      BY <3>1, <3>2
  <2>4. sent' \in 0 .. WRITES_PER_TICK /\ arrived' \in 0 .. PER_PASS
    BY <1>4, SMTT(30) DEF SendWord, MaySend, TypeOK
  <2>5. known' \subseteq Addresses /\ pending' \subseteq Addresses
    BY <2>1 DEF TypeOK
  <2>6. /\ value' \in [Addresses -> Raw] /\ chip' \in [Addresses -> Raw]
        /\ sending' \in BOOLEAN /\ left' \in 0 .. POPS
        /\ asks' \in 0 .. MaxAsks /\ owed' \subseteq Voices
        /\ split' \in BOOLEAN /\ paused' \in BOOLEAN
        /\ UNCHANGED <<parked, crossed, skipped>>
    BY <1>4 DEF SendWord, window_vars, TypeOK
  <2>7. Len(fifo') <= FIFO_HOLDS
    BY <2>3
  <2> QED
    BY <2>3, <2>4, <2>5, <2>6, <2>7 DEF TypeOK
<1>5. CASE Swap
  <2>1. committed' = Len(fifo)
    BY <1>5 DEF Swap
  <2>1a. sending' \in BOOLEAN
    BY <1>5 DEF Swap
  <2>1b. split' \in BOOLEAN
    BY <1>5, Zenon DEF Swap
  <2>1c. crossed' \in BOOLEAN
    <3>1. crossed' = crossed \/ crossed' = TRUE
      BY <1>5 DEF Swap
    <3> QED
      BY <3>1 DEF TypeOK
  <2>2. Len(fifo) \in Nat
    BY DEF TypeOK
  <2>3. UNCHANGED <<value, known, pending, asks, sent, paused, fifo, dropped,
                    parked, left, skipped, arrived, chip, owed>>
    BY <1>5 DEF Swap, image_vars
  <2> QED
    BY <2>1, <2>1a, <2>1b, <2>1c, <2>2, <2>3, SMTT(30) DEF TypeOK
<1>6. CASE OpenWindow
  BY <1>6 DEF OpenWindow, image_vars, link_vars, TypeOK
<1>7. CASE WindowIdle
  BY <1>7 DEF WindowIdle, image_vars, link_vars, TypeOK
<1>8. CASE WindowPop
  <2>1. fifo # <<>> /\ fifo[1] \in Entry
    BY <1>8, SMTT(30) DEF WindowPop, TypeOK
  <2>2. fifo' \in Seq(Entry) /\ Len(fifo') = Len(fifo) - 1
    BY <1>8, <2>1 DEF WindowPop, TypeOK
  <2>3. chip' \in [Addresses -> Raw]
    BY <1>8, PopEffect DEF TypeOK, Entry
  <2>4. split' \in BOOLEAN
    <3>1. \/ split' = FALSE
          \/ split' = (split \/ (left = 1 /\ committed' > 0))
      BY <1>8 DEF WindowPop
    <3> QED
      BY <3>1, Zenon
  <2>5. /\ UNCHANGED <<value, known, pending, asks, sending, sent, dropped,
                        arrived>>
        /\ committed' = committed - 1 /\ committed > 0
        /\ left' = left - 1 /\ left > 0 /\ owed' \subseteq owed
        /\ crossed' = FALSE /\ UNCHANGED paused
        /\ parked' \in {<<>>, <<fifo[1]>>}
        /\ skipped' \subseteq skipped \union {fifo[1].address}
    BY <1>8 DEF WindowPop, image_vars, link_vars
  <2>6. /\ committed' \in 0 .. Len(fifo') /\ left' \in 0 .. POPS
        /\ Len(fifo') <= FIFO_HOLDS /\ owed' \subseteq Voices
    <3>1. /\ committed \in 0 .. Len(fifo) /\ Len(fifo) \in Nat
          /\ left \in 0 .. POPS /\ Len(fifo) <= FIFO_HOLDS /\ owed \subseteq Voices
      BY DEF TypeOK
    <3>2. committed' \in 0 .. Len(fifo')
      BY <2>2, <2>5, <3>1
    <3>3. left' \in 0 .. POPS
      BY <2>5, <3>1, Sizes
    <3>4. Len(fifo') <= FIFO_HOLDS
      BY <2>2, <3>1, Sizes
    <3> QED
      BY <2>5, <3>1, <3>2, <3>3, <3>4
  <2>7. /\ parked' \in {<<>>} \union {<<e>> : e \in Entry}
        /\ skipped' \subseteq Addresses
    <3>1. <<fifo[1]>> \in {<<e>> : e \in Entry}
      BY <2>1
    <3>2. fifo[1].address \in Addresses
      BY <2>1 DEF Entry
    <3> QED
      BY <2>5, <3>1, <3>2, Zenon DEF TypeOK
  <2> QED
    BY <2>2, <2>3, <2>4, <2>5, <2>6, <2>7 DEF TypeOK
<1>9. ASSUME NEW v \in Voices, AttackEnds(v) PROVE TypeOK'
  <2>1. chip' \in [Addresses -> Raw]
    BY <1>9, AddressTypes DEF AttackEnds, TypeOK, Raw
  <2> QED
    BY <1>9, <2>1 DEF AttackEnds, image_vars, link_vars, window_vars, TypeOK
<1>10. CASE UNCHANGED vars
  BY <1>10 DEF vars, image_vars, link_vars, window_vars, TypeOK
<1> QED
  BY <1>1, <1>2, <1>2a, <1>3, <1>4, <1>5, <1>6, <1>7, <1>8, <1>9, <1>10, NextSplit

LEMMA TypeAndRow == Spec => [](TypeOK /\ RowParked)
BY TypeStart, TypeStep, RowStep, PTL DEF Spec

THEOREM TypeCorrect == Spec => []TypeOK
BY TypeAndRow, PTL
-----------------------------------------------------------------------------
(***************************************************************************)
(* The backlog: what the FIFO holds beyond a tick's words arrived since the*)
(* last window opened or is for this window to pop.                        *)
(***************************************************************************)
LEMMA BacklogInvariant ==
  TypeOK /\ Backlog /\ [Next]_vars => Backlog'
<1> SUFFICES ASSUME TypeOK, Backlog, [Next]_vars PROVE Backlog'
  OBVIOUS
<1> USE Sizes, RateAssumption
<1>0. /\ Len(fifo) \in Nat /\ committed \in Nat /\ committed <= Len(fifo)
      /\ sent \in Nat /\ sent <= WRITES_PER_TICK
      /\ arrived \in Nat /\ arrived <= PER_PASS /\ left \in Nat /\ left <= POPS
  BY DEF TypeOK
<1>1. ASSUME NEW writes, NEW owing, Ask(writes, owing) PROVE Backlog'
  BY <1>1 DEF Ask, write_all, link_vars, window_vars, Backlog
<1>2. CASE resend_all
  BY <1>2 DEF resend_all, link_vars, window_vars, Backlog
<1>2a. CASE pause
  BY <1>2a DEF pause, window_vars, Backlog
<1>3. CASE StartTick
  BY <1>0, <1>3 DEF StartTick, window_vars, Backlog
<1>4. CASE SendWord
  <2>1. Len(fifo') \in {Len(fifo), Len(fifo) + 1}
    <3>1. PICK a \in pending :
            IF Len(fifo) < FIFO_HOLDS
            THEN fifo' = Append(fifo, [address |-> a, raw |-> value[a]])
            ELSE fifo' = fifo
      BY <1>4 DEF SendWord
    <3> QED
      BY <3>1 DEF TypeOK
  <2> QED
    BY <1>0, <1>4, <2>1 DEF SendWord, window_vars, Backlog
<1>5. CASE Swap
  BY <1>0, <1>5 DEF Swap, Backlog
<1>6. CASE OpenWindow
  BY <1>0, <1>6 DEF OpenWindow, link_vars, Backlog
<1>7. CASE WindowIdle
  BY <1>0, <1>7 DEF WindowIdle, link_vars, Backlog
<1>8. CASE WindowPop
  <2>1. Len(fifo') = Len(fifo) - 1
    BY <1>0, <1>8 DEF WindowPop, TypeOK
  <2> QED
    BY <1>0, <1>8, <2>1 DEF WindowPop, link_vars, Backlog
<1>9. ASSUME NEW v \in Voices, AttackEnds(v) PROVE Backlog'
  BY <1>9 DEF AttackEnds, link_vars, window_vars, Backlog
<1>10. CASE UNCHANGED vars
  BY <1>10 DEF vars, link_vars, window_vars, Backlog
<1> QED
  BY <1>1, <1>2, <1>2a, <1>3, <1>4, <1>5, <1>6, <1>7, <1>8, <1>9, <1>10, NextSplit

LEMMA BacklogStart == Init => Backlog
BY Sizes DEF Init, Backlog

(* A word that is sent finds room.                                         *)
LEMMA RoomToSend ==
  ASSUME TypeOK, Backlog, SendWord
  PROVE  Len(fifo) < FIFO_HOLDS
BY Sizes, RateAssumption DEF TypeOK, Backlog, SendWord

LEMMA NoDropStep ==
  TypeOK /\ Backlog /\ NothingDropped /\ [Next]_vars => NothingDropped'
<1> SUFFICES ASSUME TypeOK, Backlog, NothingDropped, [Next]_vars
             PROVE  NothingDropped'
  OBVIOUS
<1>1. CASE SendWord
  BY <1>1, RoomToSend DEF SendWord, NothingDropped
<1>2. CASE ~SendWord
  BY <1>2, NextSplit
  DEF Ask, write_all, resend_all, pause, StartTick, Swap, OpenWindow,
      WindowIdle, WindowPop, AttackEnds, vars, NothingDropped
<1> QED
  BY <1>1, <1>2

(***************************************************************************)
(* NothingDropped, for every FIFO, tick and rate that meet RateAssumption. *)
(***************************************************************************)
THEOREM NoWriteDropped == Spec => []NothingDropped
<1>1. Init => NothingDropped
  BY DEF Init, NothingDropped
<1> QED
  BY <1>1, BacklogStart, BacklogInvariant, NoDropStep, TypeCorrect, PTL DEF Spec
-----------------------------------------------------------------------------
(* What is on its way stays on its way as the FIFO moves.                  *)

LEMMA LandsAppended ==
  ASSUME TypeOK, NEW a \in Addresses, NEW raw \in Raw,
         NEW b \in Addresses, NEW word \in Raw,
         fifo' = Append(fifo, [address |-> b, raw |-> word]), chip' = chip,
         IF a = b THEN raw = word ELSE Lands(a, raw)
  PROVE  Lands(a, raw)'
<1> DEFINE entry == [address |-> b, raw |-> word]
<1>1. /\ Len(fifo) \in Nat /\ Len(fifo') = Len(fifo) + 1
      /\ fifo'[Len(fifo) + 1] = entry
      /\ \A i \in 1 .. Len(fifo) : fifo'[i] = fifo[i]
      /\ DOMAIN fifo = 1 .. Len(fifo) /\ DOMAIN fifo' = 1 .. Len(fifo')
  BY DEF TypeOK, Entry
<1>2. CASE a = b
  <2>1. /\ Len(fifo') \in DOMAIN fifo'
        /\ fifo'[Len(fifo')] = [address |-> a, raw |-> raw]
        /\ \A j \in Len(fifo') + 1 .. Len(fifo') : fifo'[j].address # a
    BY <1>1, <1>2
  <2> QED
    BY <2>1 DEF Lands
<1>3. CASE a # b
  <2>1. fifo'[Len(fifo')].address # a
    BY <1>1, <1>3
  <2>2. CASE ~InFifo(a) /\ chip[a] = raw
    BY <1>1, <2>1, <2>2 DEF Lands, InFifo
  <2>3. CASE \E i \in DOMAIN fifo :
               /\ fifo[i] = [address |-> a, raw |-> raw]
               /\ \A j \in i + 1 .. Len(fifo) : fifo[j].address # a
    <3>1. PICK i \in DOMAIN fifo :
               /\ fifo[i] = [address |-> a, raw |-> raw]
               /\ \A j \in i + 1 .. Len(fifo) : fifo[j].address # a
      BY <2>3
    <3>2. /\ i \in DOMAIN fifo' /\ fifo'[i] = [address |-> a, raw |-> raw]
          /\ \A j \in i + 1 .. Len(fifo') : fifo'[j].address # a
      BY <1>1, <2>1, <3>1
    <3> QED
      BY <3>2 DEF Lands
  <2> QED
    BY <1>3, <2>2, <2>3 DEF Lands
<1> QED
  BY <1>2, <1>3

(* What lands still does after a pop, unless the pop skips its word.       *)
Held(a, raw) == Lands(a, raw) \/ (a \in skipped /\ ~InFifo(a))

LEMMA AppendMiss ==
  ASSUME TypeOK, NEW a \in Addresses, NEW b \in Addresses, NEW word \in Raw,
         fifo' = Append(fifo, [address |-> b, raw |-> word]), a # b, ~InFifo(a)
  PROVE  ~InFifo(a)'
BY DEF TypeOK, Entry, InFifo

LEMMA HeldPopped ==
  ASSUME TypeOK, RowParked, NEW a \in Addresses, NEW raw, Held(a, raw), WindowPop
  PROVE  Held(a, raw)'
<1>1. /\ Len(fifo) \in Nat /\ Len(fifo) > 0 /\ Len(fifo') = Len(fifo) - 1
      /\ \A i \in 1 .. Len(fifo') : fifo'[i] = fifo[i + 1]
      /\ DOMAIN fifo = 1 .. Len(fifo) /\ DOMAIN fifo' = 1 .. Len(fifo')
  BY DEF TypeOK, WindowPop
<1>2. chip'[a] = IF a = fifo[1].address /\ ~crossed THEN fifo[1].raw ELSE chip[a]
  BY PopEffect DEF TypeOK, Entry
<1>2a. skipped' = IF crossed THEN skipped \union {fifo[1].address}
                             ELSE skipped \ {fifo[1].address}
  BY DEF WindowPop
<1>3. CASE ~InFifo(a)
  <2>1. a # fifo[1].address /\ ~InFifo(a)'
    BY <1>1, <1>3 DEF InFifo
  <2>2. chip'[a] = chip[a] /\ (a \in skipped => a \in skipped')
    BY <1>2, <1>2a, <2>1
  <2>3. chip[a] = raw \/ a \in skipped
    BY <1>3 DEF Held, Lands, InFifo
  <2> QED
    BY <2>1, <2>2, <2>3 DEF Held, Lands
<1>4. CASE \E i \in DOMAIN fifo :
             /\ fifo[i] = [address |-> a, raw |-> raw]
             /\ \A j \in i + 1 .. Len(fifo) : fifo[j].address # a
  <2>1. PICK i \in DOMAIN fifo :
             /\ fifo[i] = [address |-> a, raw |-> raw]
             /\ \A j \in i + 1 .. Len(fifo) : fifo[j].address # a
    BY <1>4
  <2>2. CASE i = 1
    <3>1. ~InFifo(a)'
      BY <1>1, <2>1, <2>2 DEF InFifo
    <3>2. IF crossed THEN a \in skipped' ELSE chip'[a] = raw
      BY <1>2, <1>2a, <2>1, <2>2
    <3> QED
      BY <3>1, <3>2 DEF Held, Lands
  <2>3. CASE i # 1
    <3>1. /\ i - 1 \in DOMAIN fifo' /\ fifo'[i - 1] = [address |-> a, raw |-> raw]
          /\ \A j \in (i - 1) + 1 .. Len(fifo') : fifo'[j].address # a
      BY <1>1, <2>1, <2>3
    <3>2. Lands(a, raw)'
      BY <3>1 DEF Lands
    <3> QED
      BY <3>2 DEF Held
  <2> QED
    BY <2>2, <2>3
<1> QED
  BY <1>3, <1>4 DEF Held, Lands

(***************************************************************************)
(* KnownIsTrue, for every number of registers and any traffic: the image   *)
(* withholds no write the chip needs, but for a word the FIFO skipped.     *)
(***************************************************************************)
LEMMA KnownStep ==
  TypeOK /\ RowParked /\ Backlog /\ KnownIsTrue /\ [Next]_vars => KnownIsTrue'
<1> SUFFICES ASSUME TypeOK, RowParked, Backlog, KnownIsTrue, [Next]_vars,
                    NEW a \in known' \ Stages
             PROVE  Held(a, value[a])'
  BY DEF KnownIsTrue, Held, Stages, StageOf, Voices
<1>1. ASSUME a \in known, value'[a] = value[a], fifo' = fifo,
             chip'[a] = chip[a], skipped' = skipped
      PROVE  Held(a, value[a])'
  <2>1. Held(a, value[a])
    BY <1>1 DEF KnownIsTrue, Held
  <2> QED
    BY <1>1, <2>1 DEF Held, Lands, InFifo
<1>2. ASSUME NEW writes, NEW owing, Ask(writes, owing)
      PROVE  Held(a, value[a])'
  <2>1. a \in known /\ value'[a] = value[a]
    BY <1>2, SetEffect DEF Ask, write_all
  <2> QED
    BY <1>1, <1>2, <2>1 DEF Ask, write_all, window_vars
<1>3. CASE resend_all
  BY <1>3 DEF resend_all
<1>4. CASE SendWord
  <2>1. PICK b \in pending :
          /\ IF Len(fifo) < FIFO_HOLDS
             THEN fifo' = Append(fifo, [address |-> b, raw |-> value[b]])
             ELSE fifo' = fifo
          /\ known' = known \union {b}
    BY <1>4 DEF SendWord
  <2>2. fifo' = Append(fifo, [address |-> b, raw |-> value[b]])
    BY <1>4, <2>1, RoomToSend
  <2>3. b \in Addresses /\ value[b] \in Raw /\ a \in Addresses /\ value[a] \in Raw
    BY <2>1 DEF TypeOK
  <2>4. chip' = chip /\ value' = value
    BY <1>4 DEF SendWord
  <2>5. CASE a = b \/ Lands(a, value[a])
    <3>1. \A raw \in Raw : raw = value[a] => Lands(a, raw)'
      BY <2>2, <2>3, <2>4, <2>5, LandsAppended
    <3> QED
      BY <2>3, <2>4, <3>1 DEF Held, Lands, InFifo
  <2>6. CASE a # b /\ a \in skipped /\ ~InFifo(a)
    <3>1. ~InFifo(a)'
      BY <2>2, <2>3, <2>6, AppendMiss
    <3> QED
      BY <1>4, <2>6, <3>1 DEF SendWord, window_vars, Held
  <2> QED
    BY <2>1, <2>5, <2>6 DEF KnownIsTrue
<1>5. CASE WindowPop
  <2>1. a \in known /\ value' = value /\ a \in Addresses
    BY <1>5 DEF WindowPop, image_vars, TypeOK
  <2>2. \A raw : raw = value[a] => Held(a, raw)'
    BY <1>5, <2>1, HeldPopped DEF KnownIsTrue, Held
  <2> QED
    BY <2>1, <2>2 DEF Held, Lands, InFifo
<1>6. ASSUME NEW v \in Voices, AttackEnds(v) PROVE Held(a, value[a])'
  <2>1. chip'[a] = chip[a]
    BY <1>6 DEF AttackEnds, TypeOK, Stages, image_vars
  <2> QED
    BY <1>1, <1>6, <2>1 DEF AttackEnds, image_vars, window_vars
<1>7. CASE pause \/ StartTick \/ Swap \/ OpenWindow \/ WindowIdle \/ UNCHANGED vars
  BY <1>1, <1>7
  DEF pause, StartTick, Swap, OpenWindow, WindowIdle, vars, image_vars,
      window_vars
<1> QED
  BY <1>2, <1>3, <1>4, <1>5, <1>6, <1>7, NextSplit

(* A word the image believes known is in the register or the last of its   *)
(* address on the way to it, unless the FIFO has skipped it in a crossing  *)
(* and none is on the way (engine_image.cpp, engine_link.cpp's tick,       *)
(* csp_write_fifo.sv:128-150).                                             *)
THEOREM KnownHolds == Spec => []KnownIsTrue
<1>1. Init => KnownIsTrue
  BY DEF Init, KnownIsTrue, Lands, InFifo
<1> QED
  BY <1>1, BacklogStart, BacklogInvariant, KnownStep, TypeAndRow, PTL DEF Spec
Coming(v) ==
  StageOf(v) \in pending \/ InFifo(StageOf(v)) \/ StageOf(v) \in skipped

(***************************************************************************)
(* StageOnItsWay, for any number of voices: a strike or a release is not   *)
(* forgotten between the image and the chip, unless the FIFO skips it.     *)
(***************************************************************************)
LEMMA StageStep ==
  TypeOK /\ Backlog /\ StageOnItsWay /\ [Next]_vars => StageOnItsWay'
<1> SUFFICES ASSUME TypeOK, Backlog, StageOnItsWay, [Next]_vars,
                    NEW v \in owed'
             PROVE  Coming(v)'
  BY DEF StageOnItsWay, Coming
<1>1. ASSUME v \in owed, pending \subseteq pending', fifo' = fifo,
             skipped' = skipped
      PROVE  Coming(v)'
  BY <1>1 DEF StageOnItsWay, Coming, InFifo
<1>2. ASSUME NEW writes, NEW owing, Ask(writes, owing)
      PROVE  Coming(v)'
  <2>1. /\ set(writes) /\ fifo' = fifo /\ skipped' = skipped
        /\ owed' = owed \union owing
    BY <1>2 DEF Ask, write_all, window_vars
  <2>2. /\ pending \subseteq pending'
        /\ \A w \in writes : w.force => w.address \in pending'
    BY <1>2, <2>1, SetEffect DEF Ask
  <2> QED
    BY <1>1, <1>2, <2>1, <2>2 DEF Ask, Coming
<1>3. CASE resend_all
  BY <1>1, <1>3 DEF resend_all, window_vars
<1>4. CASE SendWord
  <2>1. PICK b \in pending :
          /\ IF Len(fifo) < FIFO_HOLDS
             THEN fifo' = Append(fifo, [address |-> b, raw |-> value[b]])
             ELSE fifo' = fifo
          /\ pending' = pending \ {b}
    BY <1>4 DEF SendWord
  <2>2. fifo' = Append(fifo, [address |-> b, raw |-> value[b]])
    BY <1>4, <2>1, RoomToSend
  <2>3. /\ DOMAIN fifo' = 1 .. Len(fifo) + 1 /\ DOMAIN fifo = 1 .. Len(fifo)
        /\ Len(fifo) \in Nat
        /\ fifo'[Len(fifo) + 1] = [address |-> b, raw |-> value[b]]
        /\ \A i \in 1 .. Len(fifo) : fifo'[i] = fifo[i]
    BY <2>1, <2>2 DEF TypeOK, Entry
  <2>4. InFifo(b)' /\ \A a : InFifo(a) => InFifo(a)'
    BY <2>3 DEF InFifo
  <2>5. v \in owed /\ skipped' = skipped
    BY <1>4 DEF SendWord, window_vars
  <2> QED
    BY <2>1, <2>4, <2>5 DEF StageOnItsWay, Coming
<1>5. CASE WindowPop
  <2>1. /\ v \in owed /\ pending' = pending
        /\ \/ StageOf(v) # fifo[1].address
           \/ crossed
           \/ StageOf(v) \in pending
           \/ \E i \in 2 .. Len(fifo) : fifo[i].address = StageOf(v)
    BY <1>5 DEF WindowPop, image_vars
  <2>2. /\ DOMAIN fifo' = 1 .. Len(fifo) - 1 /\ DOMAIN fifo = 1 .. Len(fifo)
        /\ Len(fifo) \in Nat
        /\ \A i \in 1 .. Len(fifo) - 1 : fifo'[i] = fifo[i + 1]
    BY <1>5 DEF WindowPop, TypeOK
  <2>2a. skipped' = IF crossed THEN skipped \union {fifo[1].address}
                               ELSE skipped \ {fifo[1].address}
    BY <1>5 DEF WindowPop
  <2>3. CASE StageOf(v) \in pending
    BY <2>1, <2>3 DEF Coming
  <2>3a. CASE StageOf(v) = fifo[1].address /\ crossed
    BY <2>2a, <2>3a DEF Coming
  <2>3b. CASE StageOf(v) # fifo[1].address /\ StageOf(v) \in skipped
    BY <2>2a, <2>3b DEF Coming
  <2>4. CASE \E i \in 2 .. Len(fifo) : fifo[i].address = StageOf(v)
    <3>1. PICK i \in 2 .. Len(fifo) : fifo[i].address = StageOf(v)
      BY <2>4
    <3>2. i - 1 \in DOMAIN fifo' /\ fifo'[i - 1].address = StageOf(v)
      BY <2>2, <3>1
    <3> QED
      BY <3>2 DEF Coming, InFifo
  <2>5. CASE StageOf(v) # fifo[1].address /\ InFifo(StageOf(v))
    <3>1. \E i \in 2 .. Len(fifo) : fifo[i].address = StageOf(v)
      BY <2>2, <2>5 DEF InFifo
    <3> QED
      BY <2>4, <3>1
  <2> QED
    BY <2>1, <2>3, <2>3a, <2>3b, <2>4, <2>5 DEF StageOnItsWay
<1>6. CASE pause \/ StartTick \/ Swap \/ OpenWindow \/ WindowIdle \/ UNCHANGED vars
           \/ \E w \in Voices : AttackEnds(w)
  BY <1>1, <1>6
  DEF pause, StartTick, Swap, OpenWindow, WindowIdle, AttackEnds, vars,
      image_vars, window_vars
<1> QED
  BY <1>2, <1>3, <1>4, <1>5, <1>6, NextSplit

(* A stage forced by a note-on or a release is pending or in the FIFO until*)
(* it lands or is skipped in a crossing (engine_image.cpp's set, render.cpp*)
(* forcing its words, csp_write_fifo.sv:128-150).                          *)
THEOREM StagesStay == Spec => []StageOnItsWay
<1>1. Init => StageOnItsWay
  BY DEF Init, StageOnItsWay
<1> QED
  BY <1>1, BacklogStart, BacklogInvariant, StageStep, TypeCorrect, PTL DEF Spec

-----------------------------------------------------------------------------
(***************************************************************************)
(* What NoteOnLandsTogether needs: the image never has an attack beside    *)
(* another note; a word that is not pending lands as the image has it, an  *)
(* attack included; and unless parted, the chip's registers agree on every *)
(* attack once the committed entries have landed, and while the program    *)
(* runs as well.                                                           *)
(***************************************************************************)

(* The register at a will hold raw when the first k entries have landed.   *)
LandsBy(k, a, raw) ==
  \/ /\ \A i \in 1 .. k : fifo[i].address # a
     /\ chip[a] = raw
  \/ \E i \in 1 .. k :
       /\ fifo[i] = [address |-> a, raw |-> raw]
       /\ \A j \in i + 1 .. k : fifo[j].address # a

(* The last word for a that left the FIFO was skipped, and none of the     *)
(* first k entries is for a.                                               *)
SkippedBy(k, a) == a \in skipped /\ \A i \in 1 .. k : fifo[i].address # a

Together(k) ==
  \A v \in Voices :
    \/ SkippedBy(k, StageOf(v)) \/ SkippedBy(k, NoteOf(v))
    \/ \A note \in Notes :
         LandsBy(k, StageOf(v), Attack(note)) => LandsBy(k, NoteOf(v), note)

ImageTogether ==
  \A v \in Voices, note \in Notes :
    value[StageOf(v)] = Attack(note) => value[NoteOf(v)] = note

SentLands ==
  \A a \in Addresses \ (pending \union Stages) :
    LandsBy(Len(fifo), a, value[a]) \/ SkippedBy(Len(fifo), a)

SentAttackLands ==
  \A v \in Voices, note \in Notes :
    StageOf(v) \notin pending /\ LandsBy(Len(fifo), StageOf(v), Attack(note))
      => value[StageOf(v)] = Attack(note) \/ SkippedBy(Len(fifo), StageOf(v))

CommittedTogether ==
  ~split => Together(committed) /\ (left = 0 => Together(0))

LEMMA Distinct ==
  \A note \in Notes : /\ Attack(note) # Released /\ Attack(note) # Decayed
                      /\ Attack(note) # Rest
                      /\ \A other \in Notes : Attack(note) = Attack(other) => note = other
BY RestAssumption DEF Attack, Released, Decayed

LEMMA AddressesApart ==
  /\ \A v, w \in Voices : /\ StageOf(v) # NoteOf(w)
                          /\ v # w => StageOf(v) # StageOf(w) /\ NoteOf(v) # NoteOf(w)
  /\ \A c \in Channel, v \in Voices : c # StageOf(v) /\ c # NoteOf(v)
BY SizeAssumption DEF Voices, Channel, StageOf, NoteOf

(* An append leaves what lands before it, and says what lands after it.    *)
LEMMA AppendLands ==
  ASSUME TypeOK, NEW b \in Addresses, NEW word \in Raw,
         fifo' = Append(fifo, [address |-> b, raw |-> word]), UNCHANGED chip,
         NEW a \in Addresses, NEW raw \in Raw, NEW n \in Nat, n = Len(fifo)
  PROVE  /\ Len(fifo') = n + 1
         /\ \A k \in 0 .. n : LandsBy(k, a, raw)' <=> LandsBy(k, a, raw)
         /\ LandsBy(n + 1, a, raw)'
              <=> IF a = b THEN raw = word ELSE LandsBy(n, a, raw)
<1> DEFINE entry == [address |-> b, raw |-> word]
<1>1. /\ n \in Nat /\ Len(fifo') = n + 1
      /\ fifo'[n + 1] = entry
      /\ \A i \in 1 .. n : fifo'[i] = fifo[i]
  BY DEF TypeOK, Entry
<1>2. ASSUME NEW k \in 0 .. n PROVE LandsBy(k, a, raw)' <=> LandsBy(k, a, raw)
  <2>1. \A i \in 1 .. k : fifo'[i] = fifo[i]
    BY <1>1
  <2> QED
    BY <1>1, <2>1 DEF LandsBy
<1>3. CASE a = b
  <2>1. LandsBy(n + 1, a, raw)' => raw = word
    <3> SUFFICES ASSUME NEW i \in 1 .. n + 1,
                        fifo'[i] = [address |-> a, raw |-> raw],
                        \A j \in i + 1 .. n + 1 : fifo'[j].address # a
                 PROVE  raw = word
      <4>1. fifo'[n + 1].address = a /\ n + 1 \in 1 .. n + 1
        BY <1>1, <1>3
      <4> QED
        BY <4>1 DEF LandsBy
    <3>1. i = n + 1
      BY <1>1, <1>3
    <3> QED
      BY <1>1, <3>1
  <2>2. raw = word => LandsBy(n + 1, a, raw)'
    <3> SUFFICES ASSUME raw = word PROVE LandsBy(n + 1, a, raw)'
      OBVIOUS
    <3>1. /\ n + 1 \in 1 .. n + 1 /\ fifo'[n + 1] = [address |-> a, raw |-> raw]
          /\ \A j \in (n + 1) + 1 .. n + 1 : fifo'[j].address # a
      BY <1>1, <1>3
    <3> QED
      BY <3>1 DEF LandsBy
  <2> QED
    BY <1>1, <1>2, <1>3, <2>1, <2>2
<1>4. CASE a # b
  <2>1. fifo'[n + 1].address # a
    BY <1>1, <1>4
  <2>2. (\A i \in 1 .. n + 1 : fifo'[i].address # a)
          <=> \A i \in 1 .. n : fifo[i].address # a
    BY <1>1, <2>1
  <2>3. ASSUME NEW i \in 1 .. n + 1, fifo'[i] = [address |-> a, raw |-> raw],
               \A j \in i + 1 .. n + 1 : fifo'[j].address # a
        PROVE  i \in 1 .. n /\ fifo[i] = [address |-> a, raw |-> raw]
               /\ \A j \in i + 1 .. n : fifo[j].address # a
    <3>1. i # n + 1
      BY <2>1, <2>3
    <3> QED
      BY <1>1, <2>3, <3>1
  <2>4. ASSUME NEW i \in 1 .. n, fifo[i] = [address |-> a, raw |-> raw],
               \A j \in i + 1 .. n : fifo[j].address # a
        PROVE  i \in 1 .. n + 1 /\ fifo'[i] = [address |-> a, raw |-> raw]
               /\ \A j \in i + 1 .. n + 1 : fifo'[j].address # a
    BY <1>1, <2>1, <2>4
  <2>5. LandsBy(n + 1, a, raw)' <=> LandsBy(n, a, raw)
    BY <2>2, <2>3, <2>4 DEF LandsBy
  <2> QED
    BY <1>1, <1>2, <1>4, <2>5
<1> QED
  BY <1>3, <1>4

LEMMA AppendSkips ==
  ASSUME TypeOK, NEW b \in Addresses, NEW word \in Raw,
         fifo' = Append(fifo, [address |-> b, raw |-> word]), UNCHANGED skipped,
         NEW a, NEW n \in Nat, n = Len(fifo)
  PROVE  /\ \A k \in 0 .. n : SkippedBy(k, a)' <=> SkippedBy(k, a)
         /\ a # b /\ SkippedBy(n, a) => SkippedBy(n + 1, a)'
<1>1. /\ fifo'[n + 1] = [address |-> b, raw |-> word]
      /\ \A i \in 1 .. n : fifo'[i] = fifo[i]
  BY DEF TypeOK, Entry
<1>2. ASSUME NEW k \in 0 .. n PROVE SkippedBy(k, a)' <=> SkippedBy(k, a)
  <2>1. \A i \in 1 .. k : fifo'[i] = fifo[i]
    BY <1>1
  <2> QED
    BY <2>1 DEF SkippedBy
<1>3. ASSUME a # b, SkippedBy(n, a) PROVE SkippedBy(n + 1, a)'
  <2>1. \A i \in 1 .. n + 1 : fifo'[i].address # a
    BY <1>1, <1>3 DEF SkippedBy
  <2> QED
    BY <1>3, <2>1 DEF SkippedBy
<1> QED
  BY <1>2, <1>3

(* A pop moves the first entry into the chip: what lands is the same, one  *)
(* entry earlier.                                                          *)
LEMMA PopLands ==
  ASSUME TypeOK, WindowPop, ~crossed, NEW a \in Addresses, NEW raw,
         NEW k \in 1 .. Len(fifo)
  PROVE  LandsBy(k - 1, a, raw)' <=> LandsBy(k, a, raw)
<1>1. /\ Len(fifo) \in Nat /\ Len(fifo) > 0 /\ Len(fifo') = Len(fifo) - 1
      /\ \A i \in 1 .. Len(fifo') : fifo'[i] = fifo[i + 1]
      /\ fifo[1] \in Entry
  BY DEF TypeOK, WindowPop
<1>2. chip'[a] = IF a = fifo[1].address THEN fifo[1].raw ELSE chip[a]
  BY DEF TypeOK, WindowPop
<1>3. \A i \in 2 .. k : i - 1 \in 1 .. k - 1 /\ fifo'[i - 1] = fifo[i]
  BY <1>1
<1>4. \A i \in 1 .. k - 1 : i + 1 \in 2 .. k /\ fifo'[i] = fifo[i + 1]
  BY <1>1
<1>5. ASSUME LandsBy(k, a, raw) PROVE LandsBy(k - 1, a, raw)'
  <2>1. CASE (\A i \in 1 .. k : fifo[i].address # a) /\ chip[a] = raw
    <3>1. \A i \in 1 .. k - 1 : fifo'[i].address # a
      BY <1>4, <2>1, SMTT(30)
    <3>2. chip'[a] = raw
      BY <1>2, <2>1
    <3> QED
      BY <3>1, <3>2 DEF LandsBy
  <2>2. ASSUME NEW i \in 1 .. k, fifo[i] = [address |-> a, raw |-> raw],
               \A j \in i + 1 .. k : fifo[j].address # a
        PROVE  LandsBy(k - 1, a, raw)'
    <3>1. CASE i = 1
      <4>1. \A j \in 1 .. k - 1 : fifo'[j].address # a
        BY <1>4, <2>2, <3>1
      <4>2. chip'[a] = raw
        BY <1>2, <2>2, <3>1
      <4> QED
        BY <4>1, <4>2 DEF LandsBy
    <3>2. CASE i # 1
      <4>1. i - 1 \in 1 .. k - 1 /\ fifo'[i - 1] = [address |-> a, raw |-> raw]
        BY <1>1, <1>3, <2>2, <3>2
      <4>2. \A j \in (i - 1) + 1 .. k - 1 : j + 1 \in i + 1 .. k /\ j \in 1 .. k - 1
        BY <1>1, <2>2, <3>2
      <4>3. \A j \in (i - 1) + 1 .. k - 1 : fifo'[j].address # a
        BY <1>4, <2>2, <4>2
      <4> QED
        BY <4>1, <4>3 DEF LandsBy
    <3> QED
      BY <3>1, <3>2
  <2> QED
    BY <1>5, <2>1, <2>2 DEF LandsBy
<1>6. ASSUME LandsBy(k - 1, a, raw)' PROVE LandsBy(k, a, raw)
  <2>1. CASE (\A i \in 1 .. k - 1 : fifo'[i].address # a) /\ chip'[a] = raw
    <3>1. \A i \in 2 .. k : fifo[i].address # a
      BY <1>3, <2>1
    <3>2. CASE a = fifo[1].address
      <4>1. fifo[1] = [address |-> a, raw |-> raw]
        BY <1>1, <1>2, <2>1, <3>2 DEF Entry
      <4>2. 1 \in 1 .. k /\ \A j \in 1 + 1 .. k : fifo[j].address # a
        BY <3>1
      <4> QED
        BY <4>1, <4>2 DEF LandsBy
    <3>3. CASE a # fifo[1].address
      <4>1. \A i \in 1 .. k : fifo[i].address # a
        BY <3>1, <3>3
      <4> QED
        BY <1>2, <2>1, <3>3, <4>1 DEF LandsBy
    <3> QED
      BY <3>2, <3>3
  <2>2. ASSUME NEW i \in 1 .. k - 1, fifo'[i] = [address |-> a, raw |-> raw],
               \A j \in i + 1 .. k - 1 : fifo'[j].address # a
        PROVE  LandsBy(k, a, raw)
    <3>1. /\ i + 1 \in 1 .. k /\ fifo[i + 1] = [address |-> a, raw |-> raw]
          /\ \A j \in (i + 1) + 1 .. k : fifo[j].address # a
      <4>1. i + 1 \in 1 .. k /\ fifo[i + 1] = [address |-> a, raw |-> raw]
        BY <1>3, <1>4, <2>2
      <4>2. ASSUME NEW j \in (i + 1) + 1 .. k PROVE fifo[j].address # a
        <5>1. j - 1 \in i + 1 .. k - 1 /\ fifo'[j - 1] = fifo[j]
          BY <1>3, <1>4, <2>2, SMTT(30)
        <5> QED
          BY <2>2, <5>1
      <4> QED
        BY <4>1, <4>2
    <3> QED
      BY <3>1 DEF LandsBy
  <2> QED
    BY <1>6, <2>1, <2>2 DEF LandsBy
<1> QED
  BY <1>5, <1>6

(* What the first k entries leave skipped, a pop later.                    *)
LEMMA PopSkips ==
  ASSUME TypeOK, WindowPop, NEW a, NEW k \in 1 .. Len(fifo)
  PROVE  /\ SkippedBy(k, a) => SkippedBy(k - 1, a)'
         /\ ~crossed /\ SkippedBy(k - 1, a)' => SkippedBy(k, a)
<1>1. /\ Len(fifo) \in Nat /\ Len(fifo) > 0 /\ Len(fifo') = Len(fifo) - 1
      /\ \A i \in 1 .. Len(fifo') : fifo'[i] = fifo[i + 1]
  BY DEF TypeOK, WindowPop
<1>2. skipped' = IF crossed THEN skipped \union {fifo[1].address}
                            ELSE skipped \ {fifo[1].address}
  BY DEF WindowPop
<1>3. ASSUME SkippedBy(k, a) PROVE SkippedBy(k - 1, a)'
  <2>1. a \in skipped /\ \A i \in 1 .. k : fifo[i].address # a
    BY <1>3 DEF SkippedBy
  <2>2. a \in skipped'
    BY <1>2, <2>1
  <2>3. \A i \in 1 .. k - 1 : fifo'[i].address # a
    BY <1>1, <2>1
  <2> QED
    BY <2>2, <2>3 DEF SkippedBy
<1>4. ASSUME ~crossed, SkippedBy(k - 1, a)' PROVE SkippedBy(k, a)
  <2>1. a \in skipped' /\ \A i \in 1 .. k - 1 : fifo'[i].address # a
    BY <1>4 DEF SkippedBy
  <2>2. a \in skipped /\ a # fifo[1].address
    BY <1>2, <1>4, <2>1
  <2>3. \A i \in 2 .. k : i - 1 \in 1 .. k - 1 /\ fifo'[i - 1] = fifo[i]
    BY <1>1
  <2>4. \A i \in 1 .. k : fifo[i].address # a
    BY <2>1, <2>2, <2>3
  <2> QED
    BY <2>2, <2>4 DEF SkippedBy
<1> QED
  BY <1>3, <1>4

(* A crossed pop changes what lands at one address only, and says so.      *)
LEMMA CrossedLands ==
  ASSUME TypeOK, RowParked, WindowPop, crossed, NEW a \in Addresses, NEW raw,
         NEW k \in 1 .. Len(fifo)
  PROVE  \/ SkippedBy(k - 1, a)'
         \/ LandsBy(k - 1, a, raw)' <=> LandsBy(k, a, raw)
<1>1. /\ Len(fifo) \in Nat /\ Len(fifo) > 0 /\ Len(fifo') = Len(fifo) - 1
      /\ \A i \in 1 .. Len(fifo') : fifo'[i] = fifo[i + 1]
  BY DEF TypeOK, WindowPop
<1>2. chip' = chip /\ skipped' = skipped \union {fifo[1].address}
  BY PopEffect DEF WindowPop
<1>3. /\ \A i \in 2 .. k : i - 1 \in 1 .. k - 1 /\ fifo'[i - 1] = fifo[i]
      /\ \A i \in 1 .. k - 1 : i + 1 \in 2 .. k /\ fifo'[i] = fifo[i + 1]
  BY <1>1
<1>4. CASE \A i \in 2 .. k : fifo[i].address # a
  <2>1. \A i \in 1 .. k - 1 : fifo'[i].address # a
    BY <1>3, <1>4
  <2>2. CASE a = fifo[1].address
    BY <1>2, <2>1, <2>2 DEF SkippedBy
  <2>3. CASE a # fifo[1].address
    <3>1. \A i \in 1 .. k : fifo[i].address # a
      BY <1>4, <2>3
    <3>2. LandsBy(k, a, raw) <=> chip[a] = raw
      BY <3>1 DEF LandsBy
    <3>3. LandsBy(k - 1, a, raw)' <=> chip'[a] = raw
      BY <2>1 DEF LandsBy
    <3> QED
      BY <1>2, <3>2, <3>3
  <2> QED
    BY <2>2, <2>3
<1>5. ASSUME NEW m \in 2 .. k, fifo[m].address = a
      PROVE  LandsBy(k - 1, a, raw)' <=> LandsBy(k, a, raw)
  <2>1. m - 1 \in 1 .. k - 1 /\ fifo'[m - 1].address = a
    BY <1>3, <1>5
  <2>2. ASSUME LandsBy(k, a, raw) PROVE LandsBy(k - 1, a, raw)'
    <3>1. PICK i \in 1 .. k : /\ fifo[i] = [address |-> a, raw |-> raw]
                              /\ \A j \in i + 1 .. k : fifo[j].address # a
      BY <1>5, <2>2 DEF LandsBy
    <3>2. i # 1
      BY <1>5, <3>1
    <3>3. i - 1 \in 1 .. k - 1 /\ fifo'[i - 1] = [address |-> a, raw |-> raw]
      BY <1>3, <3>1, <3>2
    <3>4. \A j \in (i - 1) + 1 .. k - 1 : j + 1 \in i + 1 .. k /\ j \in 1 .. k - 1
      BY <1>1, <3>2
    <3>5. \A j \in (i - 1) + 1 .. k - 1 : fifo'[j].address # a
      BY <1>3, <3>1, <3>4
    <3> QED
      BY <3>3, <3>5 DEF LandsBy
  <2>3. ASSUME LandsBy(k - 1, a, raw)' PROVE LandsBy(k, a, raw)
    <3>1. PICK i \in 1 .. k - 1 :
            /\ fifo'[i] = [address |-> a, raw |-> raw]
            /\ \A j \in i + 1 .. k - 1 : fifo'[j].address # a
      BY <2>1, <2>3 DEF LandsBy
    <3>2. i + 1 \in 1 .. k /\ fifo[i + 1] = [address |-> a, raw |-> raw]
      BY <1>3, <3>1
    <3>3. ASSUME NEW j \in (i + 1) + 1 .. k PROVE fifo[j].address # a
      <4>1. j - 1 \in i + 1 .. k - 1 /\ fifo'[j - 1] = fifo[j]
        BY <1>3, <3>1, SMTT(30)
      <4> QED
        BY <3>1, <4>1
    <3> QED
      BY <3>2, <3>3 DEF LandsBy
  <2> QED
    BY <2>2, <2>3
<1> QED
  BY <1>4, <1>5

-----------------------------------------------------------------------------
(* What a list of writes leaves in the image, one word an address.         *)
LEMMA SetValues ==
  ASSUME TypeOK, NEW writes, set(writes),
         \A w \in writes : w.address \in Addresses /\ w.force \in BOOLEAN,
         \A w, x \in writes : w.address = x.address => w = x
  PROVE  /\ \A w \in writes : value'[w.address] = w.raw
         /\ \A a \in Addresses : (\A w \in writes : w.address # a) =>
              value'[a] = value[a]
<1> DEFINE changed == {w.address : w \in Changed(writes)}
<1>1. value' = [a \in Addresses |->
        IF a \in changed THEN (CHOOSE w \in writes : w.address = a).raw
                         ELSE value[a]]
  BY DEF set
<1>2. \A w \in writes : (CHOOSE x \in writes : x.address = w.address) = w
  OBVIOUS
<1>3. \A w \in writes : w.address \notin changed => value[w.address] = w.raw
  BY DEF Changed
<1>4. \A a \in changed : \E w \in writes : w.address = a
  BY DEF Changed
<1> HIDE DEF changed
<1> QED
  BY <1>1, <1>2, <1>3, <1>4

(* A word that is not pending afterwards was not before, and is unchanged. *)
LEMMA SetKeeps ==
  ASSUME TypeOK, NEW writes, set(writes)
  PROVE  \A a \in Addresses \ pending' : a \notin pending /\ value'[a] = value[a]
BY DEF set, TypeOK

LEMMA ImageStart == Init => ImageTogether
BY AddressTypes, RestAssumption DEF Init, ImageTogether

LEMMA ImageStep ==
  TypeOK /\ ImageTogether /\ [Next]_vars => ImageTogether'
<1> SUFFICES ASSUME TypeOK, ImageTogether, [Next]_vars PROVE ImageTogether'
  OBVIOUS
<1>1. ASSUME NEW v \in Voices, NEW note \in Notes, note_on(v, note)
      PROVE  ImageTogether'
  <2> DEFINE writes == NoteOnWrites(v, note)
  <2>1. set(writes)
    BY <1>1 DEF note_on, write_all
  <2>2. /\ Write(NoteOf(v), note, FALSE) \in writes
        /\ Write(StageOf(v), Attack(note), TRUE) \in writes
        /\ \A w \in writes : w.address \in {StageOf(v), NoteOf(v)}
    BY DEF NoteOnWrites, Write
  <2>3. /\ \A w \in writes : w.address \in Addresses /\ w.force \in BOOLEAN
        /\ \A w, x \in writes : w.address = x.address => w = x
    BY AddressTypes, AddressesApart DEF NoteOnWrites, Write
  <2> HIDE DEF writes
  <2>4. /\ \A w \in writes : value'[w.address] = w.raw
        /\ \A a \in Addresses : (\A w \in writes : w.address # a) =>
             value'[a] = value[a]
    BY <2>1, <2>3, SetValues
  <2>5. value'[StageOf(v)] = Attack(note) /\ value'[NoteOf(v)] = note
    BY <2>2, <2>4 DEF Write
  <2>6. \A w \in Voices \ {v} : value'[StageOf(w)] = value[StageOf(w)]
                                /\ value'[NoteOf(w)] = value[NoteOf(w)]
    BY <2>2, <2>4, AddressTypes, AddressesApart
  <2> QED
    BY <2>5, <2>6, Distinct DEF ImageTogether
<1>2. ASSUME NEW v \in Voices, release(v) PROVE ImageTogether'
  <2> DEFINE writes == {Write(StageOf(v), Released, TRUE)}
  <2>1. set(writes)
    BY <1>2 DEF release, write_all
  <2>2. /\ \A w \in writes : w.address \in Addresses /\ w.force \in BOOLEAN
        /\ \A w, x \in writes : w.address = x.address => w = x
        /\ \A w \in writes : w.address = StageOf(v)
        /\ Write(StageOf(v), Released, TRUE) \in writes
    BY AddressTypes DEF Write
  <2> HIDE DEF writes
  <2>3. /\ \A w \in writes : value'[w.address] = w.raw
        /\ \A a \in Addresses : (\A w \in writes : w.address # a) =>
             value'[a] = value[a]
    BY <2>1, <2>2, SetValues
  <2>4. value'[StageOf(v)] = Released
    BY <2>2, <2>3 DEF Write
  <2>5. \A a \in Addresses \ {StageOf(v)} : value'[a] = value[a]
    BY <2>2, <2>3
  <2> QED
    BY <2>4, <2>5, Distinct, AddressTypes, AddressesApart DEF ImageTogether
<1>3. ASSUME NEW c \in Channel, NEW raw \in Notes, edit(c, raw)
      PROVE  ImageTogether'
  <2> DEFINE writes == {Write(c, raw, FALSE)}
  <2>1. set(writes)
    BY <1>3 DEF edit, write_all
  <2>2. /\ \A w \in writes : w.address \in Addresses /\ w.force \in BOOLEAN
        /\ \A w, x \in writes : w.address = x.address => w = x
        /\ \A w \in writes : w.address = c
    BY AddressTypes DEF Write
  <2> HIDE DEF writes
  <2>3. \A a \in Addresses : (\A w \in writes : w.address # a) =>
          value'[a] = value[a]
    BY <2>1, <2>2, SetValues
  <2>4. \A v \in Voices : value'[StageOf(v)] = value[StageOf(v)]
                          /\ value'[NoteOf(v)] = value[NoteOf(v)]
    BY <2>2, <2>3, AddressTypes, AddressesApart
  <2> QED
    BY <2>4 DEF ImageTogether
<1>4. CASE UNCHANGED value
  BY <1>4 DEF ImageTogether
<1> QED
  BY <1>1, <1>2, <1>3, <1>4
  DEF Next, AttackEnds, resend_all, pause, StartTick, SendWord, Swap, OpenWindow,
      WindowIdle, WindowPop, vars, image_vars

-----------------------------------------------------------------------------
(* Where the words that are not pending land.                              *)

SentInv == SentLands /\ SentAttackLands

LEMMA SentStart == Init => SentInv
<1> SUFFICES ASSUME Init PROVE SentInv
  OBVIOUS
<1>1. Len(fifo) = 0 /\ \A a \in Addresses : chip[a] = value[a]
  BY DEF Init
<1> QED
  BY <1>1, AddressTypes DEF SentInv, SentLands, SentAttackLands, LandsBy

(* Words, FIFO and chip as they were, and none newly sent.                 *)
LEMMA SentKept ==
  ASSUME SentInv, UNCHANGED <<fifo, chip, skipped>>,
         \A a \in Addresses \ pending' : a \notin pending /\ value'[a] = value[a]
  PROVE  SentInv'
BY AddressTypes DEF SentInv, SentLands, SentAttackLands, LandsBy, SkippedBy

LEMMA SentStep ==
  TypeOK /\ RowParked /\ Backlog /\ SentInv /\ [Next]_vars => SentInv'
<1> SUFFICES ASSUME TypeOK, RowParked, Backlog, SentInv, [Next]_vars
             PROVE  SentInv'
  OBVIOUS
<1>1. ASSUME NEW writes, NEW owing, Ask(writes, owing) PROVE SentInv'
  BY <1>1, SetKeeps, SentKept DEF Ask, write_all, window_vars
<1>2. CASE resend_all \/ pause \/ StartTick \/ Swap \/ OpenWindow \/ WindowIdle \/ UNCHANGED vars
  <2>1. UNCHANGED <<fifo, chip, skipped, value>> /\ pending \subseteq pending'
    BY <1>2 DEF resend_all, pause, StartTick, Swap, OpenWindow, WindowIdle, vars,
                image_vars, window_vars
  <2> QED
    BY <2>1, SentKept
<1>3. CASE SendWord
  <2>1. PICK b \in pending :
          /\ IF Len(fifo) < FIFO_HOLDS
             THEN fifo' = Append(fifo, [address |-> b, raw |-> value[b]])
             ELSE fifo' = fifo
          /\ pending' = pending \ {b}
    BY <1>3 DEF SendWord
  <2>2. fifo' = Append(fifo, [address |-> b, raw |-> value[b]])
    BY <1>3, <2>1, RoomToSend
  <2>3. /\ b \in Addresses /\ value[b] \in Raw
        /\ UNCHANGED <<chip, value, skipped>>
    BY <1>3, <2>1 DEF TypeOK, SendWord, window_vars
  <2> DEFINE word == value[b]
  <2>4. PICK n \in Nat : n = Len(fifo)
    BY DEF TypeOK
  <2>5. /\ Len(fifo') = n + 1
        /\ \A a \in Addresses, raw \in Raw :
             LandsBy(n + 1, a, raw)'
               <=> IF a = b THEN raw = value[b] ELSE LandsBy(n, a, raw)
    <3>1. \A x \in Raw : x = value[b] =>
            /\ Len(fifo') = n + 1
            /\ \A a \in Addresses, raw \in Raw :
                 LandsBy(n + 1, a, raw)'
                   <=> IF a = b THEN raw = x ELSE LandsBy(n, a, raw)
      BY <2>2, <2>3, <2>4, AppendLands
    <3> QED
      BY <2>3, <3>1
  <2>5a. \A a : a # b /\ SkippedBy(n, a) => SkippedBy(n + 1, a)'
    <3>1. \A x \in Raw : x = value[b] =>
            \A a : a # b /\ SkippedBy(n, a) => SkippedBy(n + 1, a)'
      BY <2>2, <2>3, <2>4, AppendSkips
    <3> QED
      BY <2>3, <3>1
  <2>6. ASSUME NEW a \in Addresses \ (pending' \union Stages), NEW raw \in Raw,
               raw = value[a]
        PROVE  LandsBy(n + 1, a, raw)' \/ SkippedBy(n + 1, a)'
    <3>1. a # b => LandsBy(n, a, raw) \/ SkippedBy(n, a)
      BY <2>1, <2>4, <2>6 DEF SentInv, SentLands
    <3> QED
      BY <2>5, <2>5a, <2>6, <3>1
  <2>7. SentLands'
    <3> SUFFICES ASSUME NEW a \in Addresses \ (pending' \union Stages)
                 PROVE  (LandsBy(Len(fifo), a, value[a]) \/ SkippedBy(Len(fifo), a))'
      BY DEF SentLands, Stages, StageOf, Voices
    <3>1. value[a] \in Raw /\ value'[a] = value[a]
      BY <2>3 DEF TypeOK
    <3>2. \A raw \in Raw : raw = value[a] =>
            LandsBy(n + 1, a, raw)' \/ SkippedBy(n + 1, a)'
      BY <2>6
    <3> QED
      BY <2>5, <3>1, <3>2 DEF LandsBy, SkippedBy
  <2>8. SentAttackLands'
    <3> SUFFICES ASSUME NEW v \in Voices, NEW note \in Notes,
                        StageOf(v) \notin pending',
                        LandsBy(n + 1, StageOf(v), Attack(note))'
                 PROVE  value'[StageOf(v)] = Attack(note)
                        \/ SkippedBy(n + 1, StageOf(v))'
      BY <2>5 DEF SentAttackLands, LandsBy, SkippedBy
    <3>1. StageOf(v) \in Addresses /\ Attack(note) \in Raw
      BY AddressTypes DEF Raw
    <3>2. CASE StageOf(v) = b
      BY <2>3, <2>5, <3>1, <3>2
    <3>3. CASE StageOf(v) # b
      <4>1. LandsBy(n, StageOf(v), Attack(note)) /\ StageOf(v) \notin pending
        BY <2>1, <2>5, <3>1, <3>3
      <4> QED
        BY <2>3, <2>4, <2>5a, <3>3, <4>1 DEF SentInv, SentAttackLands
    <3> QED
      BY <3>2, <3>3
  <2> QED
    BY <2>7, <2>8 DEF SentInv
<1>4. CASE WindowPop
  <2>1. PICK n \in Nat : n = Len(fifo)
    BY DEF TypeOK
  <2>2. n > 0 /\ Len(fifo') = n - 1 /\ UNCHANGED <<value, pending>>
    BY <1>4, <2>1 DEF WindowPop, TypeOK, image_vars
  <2>3. \A a \in Addresses : \A raw :
          \/ SkippedBy(n - 1, a)'
          \/ LandsBy(n - 1, a, raw)' <=> LandsBy(n, a, raw)
    BY <1>4, <2>1, <2>2, PopLands, CrossedLands
  <2>3a. \A a : SkippedBy(n, a) => SkippedBy(n - 1, a)'
    BY <1>4, <2>1, <2>2, PopSkips
  <2>4. SentLands'
    <3> SUFFICES ASSUME NEW a \in Addresses \ (pending \union Stages)
                 PROVE  (LandsBy(Len(fifo), a, value[a]) \/ SkippedBy(Len(fifo), a))'
      BY <2>2 DEF SentLands, Stages, StageOf, Voices
    <3>1. \A raw : raw = value[a] =>
            LandsBy(n - 1, a, raw)' \/ SkippedBy(n - 1, a)'
      BY <2>1, <2>3, <2>3a DEF SentInv, SentLands
    <3> QED
      BY <2>2, <3>1 DEF LandsBy, SkippedBy
  <2>5. SentAttackLands'
    <3> SUFFICES ASSUME NEW v \in Voices, NEW note \in Notes,
                        StageOf(v) \notin pending,
                        LandsBy(n - 1, StageOf(v), Attack(note))'
                 PROVE  value[StageOf(v)] = Attack(note)
                        \/ SkippedBy(n - 1, StageOf(v))'
      BY <2>2 DEF SentAttackLands, LandsBy, SkippedBy
    <3> QED
      BY <2>1, <2>3, <2>3a, AddressTypes DEF SentInv, SentAttackLands
  <2> QED
    BY <2>4, <2>5 DEF SentInv
<1>5. ASSUME NEW u \in Voices, AttackEnds(u) PROVE SentInv'
  <2>1. /\ UNCHANGED <<fifo, value, pending, skipped>>
        /\ chip' = [chip EXCEPT ![StageOf(u)] = Decayed]
    BY <1>5 DEF AttackEnds, image_vars, window_vars
  <2>2. SentLands'
    <3>1. \A a \in Addresses \ Stages : chip'[a] = chip[a]
      BY <2>1 DEF TypeOK, Stages
    <3> QED
      BY <2>1, <3>1
      DEF SentInv, SentLands, LandsBy, SkippedBy, Stages, StageOf, Voices
  <2>3. SentAttackLands'
    <3>1. \A v \in Voices, note \in Notes : chip'[StageOf(v)] = Attack(note)
            => chip[StageOf(v)] = Attack(note)
      BY <2>1, AddressTypes, Distinct DEF TypeOK
    <3> QED
      BY <2>1, <3>1 DEF SentInv, SentAttackLands, LandsBy, SkippedBy
  <2> QED
    BY <2>2, <2>3 DEF SentInv
<1> QED
  BY <1>1, <1>2, <1>3, <1>4, <1>5, NextSplit

-----------------------------------------------------------------------------
(* With nothing pending, the registers agree on every attack once all that *)
(* is in the FIFO has landed.                                              *)

AllTogether == Together(Len(fifo))

LEMMA AllLandsTogether ==
  TypeOK /\ ImageTogether /\ SentInv /\ pending = {} => AllTogether
<1> SUFFICES ASSUME TypeOK, ImageTogether, SentInv, pending = {},
                    NEW v \in Voices, NEW note \in Notes,
                    ~SkippedBy(Len(fifo), StageOf(v)),
                    ~SkippedBy(Len(fifo), NoteOf(v)),
                    LandsBy(Len(fifo), StageOf(v), Attack(note))
             PROVE  LandsBy(Len(fifo), NoteOf(v), note)
  BY DEF AllTogether, Together
<1>1. value[StageOf(v)] = Attack(note)
  BY DEF SentInv, SentAttackLands
<1>2. value[NoteOf(v)] = note
  BY <1>1 DEF ImageTogether
<1>3. NoteOf(v) \in Addresses \ Stages
  BY AddressTypes, AddressesApart DEF Stages
<1> QED
  BY <1>2, <1>3 DEF SentInv, SentLands

LEMMA TogetherStep ==
  /\ TypeOK /\ TypeOK' /\ RowParked /\ Backlog /\ ImageTogether /\ ImageTogether'
  /\ SentInv /\ SentInv' /\ CommittedTogether /\ [Next]_vars
  => CommittedTogether'
<1> SUFFICES ASSUME TypeOK, TypeOK', RowParked, Backlog, ImageTogether,
                    ImageTogether', SentInv, SentInv', CommittedTogether, [Next]_vars, ~split'
             PROVE  Together(committed)' /\ (left' = 0 => Together(0)')
  BY DEF CommittedTogether
<1>1. ASSUME UNCHANGED <<fifo, chip, skipped, committed>>, ~split,
             left' = 0 => left = 0 \/ committed = 0
      PROVE  Together(committed)' /\ (left' = 0 => Together(0)')
  <2>1. \A k : Together(k) => Together(k)'
    BY <1>1 DEF Together, LandsBy, SkippedBy
  <2>2. PICK m : m = committed
    OBVIOUS
  <2>3. Together(m)' /\ (left' = 0 => Together(0)')
    BY <1>1, <2>1, <2>2 DEF CommittedTogether
  <2> QED
    BY <1>1, <2>2, <2>3 DEF Together
<1>2. ASSUME NEW writes, NEW owing, Ask(writes, owing)
      PROVE  Together(committed)' /\ (left' = 0 => Together(0)')
  BY <1>1, <1>2 DEF Ask, write_all, window_vars
<1>3. CASE resend_all \/ pause \/ StartTick \/ OpenWindow \/ WindowIdle \/ UNCHANGED vars
  BY <1>1, <1>3 DEF resend_all, pause, StartTick, OpenWindow, WindowIdle, vars,
                    window_vars
<1>4. CASE SendWord
  <2>1. PICK b \in pending :
          IF Len(fifo) < FIFO_HOLDS
          THEN fifo' = Append(fifo, [address |-> b, raw |-> value[b]])
          ELSE fifo' = fifo
    BY <1>4 DEF SendWord
  <2>2. fifo' = Append(fifo, [address |-> b, raw |-> value[b]])
    BY <1>4, <2>1, RoomToSend
  <2>3. /\ b \in Addresses /\ value[b] \in Raw
        /\ UNCHANGED <<chip, skipped, committed, left>> /\ ~split
    BY <1>4, <2>1 DEF TypeOK, SendWord, window_vars
  <2>4. PICK n \in Nat : n = Len(fifo)
    BY DEF TypeOK
  <2>5. \A k \in 0 .. n, a \in Addresses, raw \in Raw :
          LandsBy(k, a, raw)' <=> LandsBy(k, a, raw)
    <3>1. \A word \in Raw : word = value[b] =>
            \A k \in 0 .. n, a \in Addresses, raw \in Raw :
              LandsBy(k, a, raw)' <=> LandsBy(k, a, raw)
      BY <2>2, <2>3, <2>4, AppendLands
    <3> QED
      BY <2>3, <3>1
  <2>5a. \A k \in 0 .. n, a \in Addresses : SkippedBy(k, a)' <=> SkippedBy(k, a)
    <3>1. \A word \in Raw : word = value[b] =>
            \A k \in 0 .. n, a \in Addresses : SkippedBy(k, a)' <=> SkippedBy(k, a)
      BY <2>2, <2>3, <2>4, AppendSkips
    <3> QED
      BY <2>3, <3>1
  <2>6. \A k \in 0 .. n : Together(k) => Together(k)'
    BY <2>5, <2>5a, AddressTypes DEF Together, Raw
  <2>7. PICK m \in 0 .. n : m = committed
    BY <2>4 DEF TypeOK
  <2>8. Together(m)' /\ (left' = 0 => Together(0)')
    BY <2>3, <2>6, <2>7 DEF CommittedTogether
  <2> QED
    BY <2>3, <2>7, <2>8 DEF Together
<1>5. CASE Swap
  <2>1. ~split /\ left = 0 /\ pending = {}
    BY <1>5, Zenon DEF Swap
  <2>2. UNCHANGED <<fifo, chip, skipped, left>> /\ committed' = Len(fifo)
    BY <1>5 DEF Swap
  <2>3. AllTogether
    BY <2>1, AllLandsTogether
  <2>4. Together(0)
    BY <2>1 DEF CommittedTogether
  <2> QED
    BY <2>2, <2>3, <2>4 DEF AllTogether, Together, LandsBy, SkippedBy
<1>6. CASE WindowPop
  <2>1. PICK n \in Nat : n = Len(fifo)
    BY DEF TypeOK
  <2>2. PICK m \in 1 .. n : m = committed
    BY <1>6, <2>1 DEF TypeOK, WindowPop
  <2>3. /\ n > 0 /\ Len(fifo') = n - 1 /\ committed' = m - 1
        /\ left' = left - 1 /\ left > 0 /\ left \in Nat
    BY <1>6, <2>1, <2>2 DEF WindowPop, TypeOK
  <2>4. CASE fifo' = <<>> /\ pending = {}
    <3>1. (pending = {})'
      BY <1>6, <2>4 DEF WindowPop, image_vars
    <3>2. AllTogether'
      BY <3>1, AllLandsTogether, PTL
    <3>3. Len(fifo') = 0 /\ committed' = 0
      BY <2>2, <2>3, <2>4 DEF TypeOK
    <3> QED
      BY <3>2, <3>3 DEF AllTogether, Together
  <2>5. CASE ~(fifo' = <<>> /\ pending = {})
    <3>1. ~split /\ ~(left = 1 /\ committed' > 0)
      BY <1>6, <2>5, Zenon DEF WindowPop
    <3>1a. ~crossed
      BY <3>1 DEF RowParked
    <3>2. \A a \in Addresses : \A raw :
            LandsBy(m - 1, a, raw)' <=> LandsBy(m, a, raw)
      BY <1>6, <2>1, <2>2, <3>1a, PopLands
    <3>2a. \A a \in Addresses : SkippedBy(m - 1, a)' <=> SkippedBy(m, a)
      BY <1>6, <2>1, <2>2, <3>1a, PopSkips
    <3>3. Together(m)
      BY <2>2, <3>1 DEF CommittedTogether
    <3>4. Together(m - 1)'
      BY <3>2, <3>2a, <3>3, AddressTypes DEF Together
    <3>5. left' = 0 => m - 1 = 0
      BY <2>2, <2>3, <3>1
    <3> QED
      BY <2>3, <3>4, <3>5 DEF Together
  <2> QED
    BY <2>4, <2>5
<1>7. ASSUME NEW u \in Voices, AttackEnds(u)
      PROVE  Together(committed)' /\ (left' = 0 => Together(0)')
  <2>1. /\ UNCHANGED <<fifo, skipped, committed, left>> /\ ~split /\ left = 0
        /\ chip' = [chip EXCEPT ![StageOf(u)] = Decayed]
    BY <1>7 DEF AttackEnds, window_vars
  <2>2. \A v \in Voices, note \in Notes :
          /\ chip'[StageOf(v)] = Attack(note) => chip[StageOf(v)] = Attack(note)
          /\ chip'[NoteOf(v)] = chip[NoteOf(v)]
    BY <2>1, AddressTypes, AddressesApart, Distinct DEF TypeOK
  <2>3. \A k : \A v \in Voices, note \in Notes :
          /\ LandsBy(k, StageOf(v), Attack(note))' => LandsBy(k, StageOf(v), Attack(note))
          /\ LandsBy(k, NoteOf(v), note) => LandsBy(k, NoteOf(v), note)'
    BY <2>1, <2>2 DEF LandsBy
  <2>4. \A k : Together(k) => Together(k)'
    BY <2>1, <2>3 DEF Together, SkippedBy
  <2>5. Together(committed) /\ Together(0)
    BY <2>1 DEF CommittedTogether
  <2>6. PICK m : m = committed
    OBVIOUS
  <2>7. Together(m)' /\ Together(0)'
    BY <2>4, <2>5, <2>6
  <2> QED
    BY <2>1, <2>6, <2>7 DEF Together
<1> QED
  BY <1>2, <1>3, <1>4, <1>5, <1>6, <1>7, NextSplit

(***************************************************************************)
(* A note-on lands together, for every number of voices, FIFO, tick and    *)
(* rate: a program that runs on registers not parted by the tick's limit,  *)
(* by a swap in an open window or by a window's end sees no voice in attack*)
(* with another note than its own, but for a voice whose last stage or note*)
(* a crossing has skipped (csp_write_fifo.sv:3-9, 128-150,                 *)
(* engine_link.cpp:338-365).                                               *)
(***************************************************************************)
THEOREM NoteOnsLandTogether == Spec => []NoteOnLandsTogether
<1>1. Init => CommittedTogether
  <2> SUFFICES ASSUME Init PROVE CommittedTogether
    OBVIOUS
  <2>1. \A v \in Voices, note \in Notes : ~LandsBy(0, StageOf(v), Attack(note))
    BY AddressTypes, RestAssumption DEF Init, LandsBy
  <2> QED
    BY <2>1 DEF Init, CommittedTogether, Together
<1>2. CommittedTogether => NoteOnLandsTogether
  <2> SUFFICES ASSUME Together(0)
                PROVE  \A v \in Voices : \/ StageOf(v) \in skipped
                                       \/ NoteOf(v) \in skipped
                                       \/ AttackHasItsNote(v)
    BY DEF CommittedTogether, NoteOnLandsTogether
  <2>1. \A a, raw : LandsBy(0, a, raw) <=> chip[a] = raw
    BY DEF LandsBy
  <2> QED
    BY <2>1 DEF Together, SkippedBy, AttackHasItsNote
<1> QED
  BY <1>1, <1>2, ImageStart, ImageStep, SentStart, SentStep, TogetherStep,
     BacklogStart, BacklogInvariant, TypeAndRow, PTL DEF Spec
=============================================================================
