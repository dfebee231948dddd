----------------------------- MODULE WritePath -----------------------------
(***************************************************************************)
(* A register write's way from the voice task to the CSP's registers:      *)
(*   app/main/engine_image.cpp   the image: value, known and pending words *)
(*   app/main/engine_link.cpp    the 1 kHz tick that sends the pending ones*)
(*   rtl/csp/csp_write_fifo.sv   the FIFO, as CommitQueue abstracts it, and*)
(*                               the pop after a crossing WriteFifo finds  *)
(*   rtl/csp/csp_pass.sv         the window at each pass's end             *)
(*   app/main/render.cpp         what a strike and a release write         *)
(*                                                                         *)
(* A voice's record is two words here, in the code's order: the stage of   *)
(* its envelopes (registers 2 and 10 of the record) and, after it, its     *)
(* note (register 14; the velocity's amounts, 4 and 13, go with it).  The  *)
(* channel's words come before the voices'.  An attack's word carries the  *)
(* note it is for: in the chip it does not, it is there to say which       *)
(* strike a word belongs to.  Of the console's commands, one sends the     *)
(* image again and some stop the tick; what the lab and the self-test then *)
(* write beside the image is EngineBoot's.                                 *)
(***************************************************************************)
EXTENDS Integers, Sequences

CONSTANTS VOICE_COUNT,     \* voices (32)
          CHANNEL_WORDS,   \* words of the channel's sound
          FIFO_HOLDS,      \* what the FIFO holds (511)
          WRITES_PER_TICK, \* the most a tick sends (480)
          POPS,            \* the window's clocks, a pop in each (48)
          PER_PASS,        \* dwords the SPI link brings in a pass (12 at 10 MHz)
          Notes,           \* notes, and as well values of a channel word
          Rest,            \* what a word holds before it is first written
          MaxAsks          \* bound: writes asked for in a behaviour

ASSUME SizeAssumption ==
  {VOICE_COUNT, CHANNEL_WORDS, FIFO_HOLDS, WRITES_PER_TICK, POPS,
   PER_PASS, MaxAsks} \subseteq Nat

(* A tick's words fit, with those of the passes before it that have not    *)
(* landed: 480 + 2 * 12 <= 511, and 12 <= 48.                              *)
ASSUME RateAssumption ==
  /\ WRITES_PER_TICK + (2 * PER_PASS) <= FIFO_HOLDS
  /\ PER_PASS <= POPS

VARIABLES
  value, known, pending,   \* the image; known and pending as sets of addresses
  sending, sent,           \* the tick holds the lock; words it has sent
  paused,                  \* the tick sends nothing
  fifo, committed,         \* the FIFO's entries; how many a swap has committed
  dropped,                 \* a write came to a full FIFO
  parked,                  \* <<entry>> if the window's last clock popped it, the last
                           \* committed one: the row the reader is on; else <<>>
  crossed,                 \* the commit that waits crossed in that very clock
  left,                    \* window clocks left; 0: the program runs
  arrived,                 \* dwords since the last window opened
  chip,                    \* the CSP's registers
  (* history *)
  asks,                    \* writes asked for so far
  owed,                    \* voices whose last stage has not landed
  skipped,                 \* addresses whose last entry popped was not written
  split                    \* a tick's limit, a swap in an open window or a
                           \* window's end has parted words asked for
                           \* together, and not all has landed since

image_vars == <<value, known, pending, asks>>
link_vars  == <<sending, sent, paused>>
window_vars == <<parked, crossed, left, skipped>>
vars == <<image_vars, link_vars, fifo, committed, dropped, window_vars,
          arrived, chip, owed, split>>

Voices    == 0 .. VOICE_COUNT - 1
Channel   == 0 .. CHANNEL_WORDS - 1
Addresses == 0 .. CHANNEL_WORDS + (2 * VOICE_COUNT) - 1
StageOf(v) == CHANNEL_WORDS + (2 * v)
NoteOf(v)  == CHANNEL_WORDS + (2 * v) + 1
Stages     == {StageOf(v) : v \in Voices}

Attack(note) == <<"attack", note>>
Released == <<"release">>
Decayed  == <<"decay">>
Raw == Notes \union {Rest, Released, Decayed} \union {Attack(n) : n \in Notes}

(* No word is in attack before it is first written.                        *)
ASSUME RestAssumption == \A note \in Notes : Rest # Attack(note)

Write(address, raw, force) == [address |-> address, raw |-> raw, force |-> force]

InFifo(a) == \E i \in DOMAIN fifo : fifo[i].address = a

(* The register at a will hold raw when the FIFO has drained: the last     *)
(* entry for it says so or, with none, it does already.                    *)
Lands(a, raw) ==
  \/ /\ ~InFifo(a)
     /\ chip[a] = raw
  \/ \E i \in DOMAIN fifo :
       /\ fifo[i] = [address |-> a, raw |-> raw]
       /\ \A j \in i + 1 .. Len(fifo) : fifo[j].address # a

Init ==
  /\ value = [a \in Addresses |-> Rest]
  /\ known \in {{}, Addresses}
  /\ pending = {}
  /\ sending = FALSE /\ sent = 0 /\ paused = FALSE
  /\ fifo = <<>> /\ committed = 0 /\ dropped = FALSE
  /\ parked = <<>> /\ crossed = FALSE /\ skipped = {}
  /\ left = 0 /\ arrived = 0
  /\ chip = [a \in Addresses |-> Rest]
  /\ asks = 0 /\ owed = {} /\ split = FALSE

-----------------------------------------------------------------------------
(***************************************************************************)
(* The voice task.  engine_link_write_all sets a list of words in the image*)
(* under the link's lock.  A word the FPGA already has is not sent again,  *)
(* unless the write is forced.                                             *)
(***************************************************************************)
Changed(writes) ==
  {w \in writes : w.force \/ w.address \notin known
                          \/ value[w.address] # w.raw}

(* Mutant: a word set again stays known.                                   *)
set_stays_known(writes) ==
  LET changed == {w.address : w \in Changed(writes)} IN
  /\ value' = [a \in Addresses |->
       IF a \in changed THEN (CHOOSE w \in writes : w.address = a).raw
                        ELSE value[a]]
  /\ pending' = pending \union changed
  /\ UNCHANGED known

set(writes) ==
  LET changed == {w.address : w \in Changed(writes)} IN
  /\ value' = [a \in Addresses |->
       IF a \in changed THEN (CHOOSE w \in writes : w.address = a).raw
                        ELSE value[a]]
  /\ known' = known \ changed
  /\ pending' = pending \union changed

write_all(writes) ==
  /\ ~sending
  /\ asks < MaxAsks
  /\ asks' = asks + 1
  /\ set(writes)
  /\ UNCHANGED <<link_vars, fifo, committed, dropped, window_vars, arrived,
                 chip, split>>

NoteOnWrites(v, note) ==
  {Write(NoteOf(v), note, FALSE), Write(StageOf(v), Attack(note), TRUE)}

note_on(v, note) ==
  write_all(NoteOnWrites(v, note)) /\ owed' = owed \union {v}

release(v) ==
  /\ write_all({Write(StageOf(v), Released, TRUE)})
  /\ owed' = owed \union {v}

edit(c, raw) ==
  write_all({Write(c, raw, FALSE)}) /\ UNCHANGED owed

(* The console's resend: every known word once more.                       *)
resend_all ==
  /\ ~sending
  /\ asks < MaxAsks
  /\ asks' = asks + 1
  /\ known' = {}
  /\ pending' = pending \union known
  /\ UNCHANGED <<value, link_vars, fifo, committed, dropped, window_vars,
                 arrived, chip, owed, split>>

(* The console's freeze, hold and self-test, the first two without the     *)
(* lock.  No command starts the tick again.                                *)
pause ==
  /\ paused' = TRUE
  /\ UNCHANGED <<image_vars, sending, sent, fifo, committed, dropped,
                 window_vars, arrived, chip, owed, split>>

-----------------------------------------------------------------------------
(***************************************************************************)
(* The tick, holding the lock: the pending words in ascending order, each  *)
(* known once it is sent, then one swap.  The FIFO drops what does not fit.*)
(***************************************************************************)
StartTick ==
  /\ ~sending /\ ~paused
  /\ pending # {}
  /\ sending' = TRUE
  /\ sent' = 0
  /\ UNCHANGED <<image_vars, paused, fifo, committed, dropped, window_vars,
                 arrived, chip, owed, split>>

(* Mutant: the tick's limit is forgotten.                                  *)
MaySend_all == pending # {}

MaySend == pending # {} /\ sent < WRITES_PER_TICK

(* Mutant: a word is there for the window as soon as it is in the FIFO.    *)
SendWord_visible ==
  /\ sending
  /\ MaySend
  /\ arrived < PER_PASS
  /\ \E a \in pending :
       /\ \A b \in pending : a <= b
       /\ IF Len(fifo) < FIFO_HOLDS
          THEN /\ fifo' = Append(fifo, [address |-> a, raw |-> value[a]])
               /\ UNCHANGED dropped
          ELSE dropped' = TRUE /\ UNCHANGED fifo
       /\ pending' = pending \ {a}
       /\ known' = known \union {a}
  /\ sent' = sent + 1
  /\ arrived' = arrived + 1
  /\ committed' = Len(fifo')
  /\ UNCHANGED <<value, asks, sending, paused, window_vars, chip, owed, split>>

SendWord ==
  /\ sending
  /\ MaySend
  /\ arrived < PER_PASS
  /\ \E a \in pending :
       /\ \A b \in pending : a <= b
       /\ IF Len(fifo) < FIFO_HOLDS
          THEN /\ fifo' = Append(fifo, [address |-> a, raw |-> value[a]])
               /\ UNCHANGED dropped
          ELSE dropped' = TRUE /\ UNCHANGED fifo
       /\ pending' = pending \ {a}
       /\ known' = known \union {a}
  /\ sent' = sent + 1
  /\ arrived' = arrived + 1
  /\ UNCHANGED <<value, asks, sending, paused, committed, window_vars, chip,
                 owed, split>>

(* Mutant: only a full tick is committed.                                  *)
Swap_full_tick ==
  /\ sending
  /\ ~MaySend
  /\ committed' = IF sent = WRITES_PER_TICK THEN Len(fifo) ELSE committed
  /\ sending' = FALSE
  /\ UNCHANGED <<image_vars, sent, paused, fifo, dropped, window_vars, arrived,
                 chip, owed, split>>

(* The commit may cross in the clock that popped the last one's end.       *)
Swap ==
  /\ sending
  /\ ~MaySend
  /\ committed' = Len(fifo)
  /\ sending' = FALSE
  /\ split' = (split \/ left # 0 \/ pending # {})
  /\ \/ UNCHANGED crossed
     \/ parked # <<>> /\ committed = 0 /\ committed' > 0 /\ crossed' = TRUE
  /\ UNCHANGED <<image_vars, sent, paused, fifo, dropped, parked, left, skipped,
                 arrived, chip, owed>>

-----------------------------------------------------------------------------
(***************************************************************************)
(* The pass: the program runs, then the window opens for POPS clocks, each *)
(* popping a committed entry into its register if there is one.  The pop   *)
(* after a crossing takes the parked row once more and the head is gone    *)
(* (csp_write_fifo.sv:147-169).                                            *)
(***************************************************************************)
OpenWindow ==
  /\ left = 0
  /\ left' = POPS
  /\ arrived' = 0
  /\ UNCHANGED <<image_vars, link_vars, fifo, committed, dropped, parked,
                 crossed, skipped, chip, owed, split>>

WindowIdle ==
  /\ left > 0 /\ committed = 0
  /\ left' = left - 1 /\ parked' = <<>>
  /\ UNCHANGED <<image_vars, link_vars, fifo, committed, dropped, crossed,
                 skipped, arrived, chip, owed, split>>

(* Mutant: the window writes an entry and keeps it for the next clock.     *)
WindowPop_keeps ==
  /\ left > 0 /\ committed > 0
  /\ left' = left - 1
  /\ chip' = [chip EXCEPT ![fifo[1].address] = fifo[1].raw]
  /\ UNCHANGED <<image_vars, link_vars, fifo, committed, dropped, parked,
                 crossed, skipped, arrived, owed, split>>

WindowPop ==
  LET head  == fifo[1]
      taken == IF crossed THEN parked[1] ELSE head
      Landed(v) == /\ ~crossed /\ StageOf(v) = head.address
                   /\ StageOf(v) \notin pending
                   /\ \A i \in 2 .. Len(fifo) : fifo[i].address # head.address
  IN
  /\ left > 0 /\ committed > 0
  /\ left' = left - 1
  /\ fifo' = Tail(fifo)
  /\ committed' = committed - 1
  /\ parked' = IF committed' = 0 /\ left' > 0 /\ ~crossed THEN <<head>> ELSE <<>>
  /\ crossed' = FALSE
  /\ chip' = [chip EXCEPT ![taken.address] = taken.raw]
  /\ skipped' = IF crossed THEN skipped \union {head.address}
                           ELSE skipped \ {head.address}
  /\ owed' = {v \in owed : ~Landed(v)}
  /\ split' = IF fifo' = <<>> /\ pending = {} THEN FALSE
              ELSE split \/ (left = 1 /\ committed' > 0)
  /\ UNCHANGED <<image_vars, link_vars, dropped, arrived>>

(* The program moves an attack that has reached full scale on to decay.    *)
AttackEnds(v) ==
  /\ left = 0
  /\ \E note \in Notes : chip[StageOf(v)] = Attack(note)
  /\ chip' = [chip EXCEPT ![StageOf(v)] = Decayed]
  /\ UNCHANGED <<image_vars, link_vars, fifo, committed, dropped, window_vars,
                 arrived, owed, split>>

Next ==
  \/ \E v \in Voices : \/ \E note \in Notes : note_on(v, note)
                       \/ release(v)
                       \/ AttackEnds(v)
  \/ \E c \in Channel, raw \in Notes : edit(c, raw)
  \/ resend_all \/ pause
  \/ StartTick \/ SendWord \/ Swap
  \/ OpenWindow \/ WindowIdle \/ WindowPop

Spec == Init /\ [][Next]_vars

(* The tick, unless the console has stopped it, and the passes come round  *)
(* by hardware timers; nobody has to play, and nobody to use the console.  *)
FairSpec ==
  /\ Spec
  /\ WF_vars(StartTick) /\ WF_vars(SendWord) /\ WF_vars(Swap)
  /\ WF_vars(OpenWindow) /\ WF_vars(WindowIdle \/ WindowPop)

-----------------------------------------------------------------------------
Entry == [address : Addresses, raw : Raw]

TypeOK ==
  /\ value \in [Addresses -> Raw] /\ chip \in [Addresses -> Raw]
  /\ known \subseteq Addresses /\ pending \subseteq Addresses
  /\ {sending, paused, dropped, crossed} \subseteq BOOLEAN
  /\ parked \in {<<>>} \union {<<e>> : e \in Entry}
  /\ skipped \subseteq Addresses
  /\ sent \in 0 .. WRITES_PER_TICK
  /\ fifo \in Seq(Entry) /\ Len(fifo) <= FIFO_HOLDS
  /\ committed \in 0 .. Len(fifo)
  /\ left \in 0 .. POPS
  /\ arrived \in 0 .. PER_PASS
  /\ asks \in 0 .. MaxAsks
  /\ owed \subseteq Voices
  /\ split \in BOOLEAN

(***************************************************************************)
(* No write is ever dropped, ticks back to back included: the tick's limit,*)
(* the link's rate and the window's pops leave room for the next word      *)
(* (engine_link.cpp:40-43).                                                *)
(***************************************************************************)
NothingDropped == ~dropped

(***************************************************************************)
(* What the image believes the FPGA holds is there or on its way, the last *)
(* word on its way included, for every register the program leaves alone:  *)
(* so a write dropped as "already there" was not needed.  A word is not    *)
(* where it is believed to be if the FIFO skipped it in a crossing and no  *)
(* later one is on its way, and in no other case (engine_image.cpp:14-26,  *)
(* 46-75, csp_write_fifo.sv:128-150).                                      *)
(***************************************************************************)
KnownIsTrue ==
  \A a \in known \ Stages : Lands(a, value[a]) \/ (a \in skipped /\ ~InFifo(a))

(***************************************************************************)
(* A stage asked for is never lost to the image: until it lands it is      *)
(* pending or in the FIFO, though the image may think the chip has it, or  *)
(* the FIFO has skipped it (render.cpp:463-477).                           *)
(***************************************************************************)
StageOnItsWay ==
  \A v \in owed : \/ StageOf(v) \in pending \/ InFifo(StageOf(v))
                  \/ StageOf(v) \in skipped

(***************************************************************************)
(* And it lands, unless the FIFO skips it or the console stops the tick    *)
(* (engine_link.cpp:338-365).                                              *)
(***************************************************************************)
StageLands ==
  \A v \in Voices : (v \in owed) ~> (v \notin owed \/ StageOf(v) \in skipped \/ paused)

(***************************************************************************)
(* In the end the registers hold the image, for those the program leaves   *)
(* alone, but for a word the FIFO has skipped, which nothing but a resend  *)
(* makes good, and unless the console stops the tick                       *)
(* (engine_image.cpp:1-7).                                                 *)
(***************************************************************************)
ChipFollowsImage ==
  \A a \in Addresses \ Stages :
    (chip[a] # value[a]) ~> (chip[a] = value[a] \/ a \in skipped \/ paused)

(***************************************************************************)
(* A note-on lands together: a program that sees a voice in attack sees    *)
(* the note of that attack, unless the note-on's words were parted by the  *)
(* tick's limit, by a swap in an open window or by the window's end, or    *)
(* the FIFO skipped the voice's last stage or its last note                *)
(* (csp_write_fifo.sv:3-9, 128-150, engine_link.cpp:338-365).              *)
(***************************************************************************)
AttackHasItsNote(v) ==
  \A note \in Notes : chip[StageOf(v)] = Attack(note) => chip[NoteOf(v)] = note

NoteOnLandsTogether ==
  left = 0 /\ ~split =>
    \A v \in Voices : \/ StageOf(v) \in skipped \/ NoteOf(v) \in skipped
                      \/ AttackHasItsNote(v)
=============================================================================
