------------------------------- MODULE CspPass -------------------------------
(***************************************************************************)
(* The CSP's pass on the chip, a clock at a time: csp_pass.sv (the cycle,  *)
(* the write window, the pass counter, the probe), the W stage of          *)
(* csp_core.sv that its words share with the program's, the write register *)
(* in front of a block of csp_dmem.sv, and csp_sink_area.sv.               *)
(*                                                                         *)
(* The FIFO gives any dword, or none; the program writes any, or none, in  *)
(* the clocks in which a row of it may be in E5.  The copies of DMEM and   *)
(* the sink area's replicas are alike, so there is one of each, with the   *)
(* probe's read, of one word for a pair, and one reading port.             *)
(***************************************************************************)
EXTENDS Integers, Sequences

CONSTANTS CYCLES_PER_PASS,                          \* 3072
          RUN_END,                                  \* 3008: rows are fetched before it
          E5_STAGE,                                 \* 12 clocks from a row's fetch to E5
          WINDOW_START, WINDOW_END,                 \* 3018, 3066
          COUNTER_CYCLE, PROBE_CYCLE,               \* 3069, 3070
          Registers, IoBase, SinkWords, WORDS,
          Elsewhere, Zero          \* where nothing lands; register 0 is there

ASSUME PassAssumption ==
  /\ {CYCLES_PER_PASS, RUN_END, E5_STAGE, WINDOW_START, WINDOW_END,
      COUNTER_CYCLE, PROBE_CYCLE} \subseteq Nat
  /\ 0 < RUN_END /\ RUN_END + E5_STAGE <= WINDOW_START + 3
  /\ 0 < WINDOW_START
  /\ WINDOW_START < WINDOW_END /\ WINDOW_END + 3 = COUNTER_CYCLE
  /\ COUNTER_CYCLE + 1 = PROBE_CYCLE /\ PROBE_CYCLE + 2 = CYCLES_PER_PASS
  /\ IoBase \in Registers /\ WORDS \in Nat \ {0}
  /\ Registers \intersect SinkWords = {}
  /\ Zero \in Elsewhere /\ Elsewhere \intersect (Registers \union SinkWords) = {}
  /\ "none" \notin Registers \union SinkWords \union Elsewhere

VARIABLES
  slot,                      \* the timebase's, which starts the pass
  cycle, pass_counter,
  running,                   \* program_ran: the hold as the pass started
  delivery,                  \* the FIFO's two clocks from a pop to its head
  head_q,                    \* head_dword_q
  e5,                        \* the program's write, in E5
  write_q, bank,             \* DMEM: the write register, the words
  sink_q,                    \* sink_write_*, the core's
  written_q, pages, active_page,
  read_page, page_word,      \* the reading port, a clock behind its address
  probe_pins_q, probe_words_q, probe_register_asked, read_pair,
  probe_pair, probe_register,
  (* history *)
  published,                 \* the sinks the last pass left
  landing,                   \* the sink words of this pass's window
  due,                       \* what the port's address may be answered with
  ended                      \* the registers as the last pass left them

pass_vars == <<slot, cycle, pass_counter, running>>
write_vars == <<delivery, head_q, e5, write_q, bank, sink_q>>
sink_vars == <<written_q, pages, active_page, read_page, page_word>>
probe_vars == <<probe_pins_q, probe_words_q, probe_register_asked, read_pair,
                probe_pair, probe_register>>
history == <<published, landing, due, ended>>
vars == <<pass_vars, write_vars, sink_vars, probe_vars, history>>

Words == 0 .. WORDS - 1
Nothing == [address |-> "none", word |-> 0, both |-> FALSE]
Write(address, word) == [address |-> address, word |-> word, both |-> FALSE]

Landed(memory, w) ==
  IF w.address \in DOMAIN memory THEN [memory EXCEPT ![w.address] = w.word] ELSE memory
LandedIn(memory, which, w) ==
  [page \in {0, 1} |-> IF page \in which THEN Landed(memory[page], w) ELSE memory[page]]

Init ==
  /\ slot = 0 /\ cycle = 0 /\ pass_counter = 0 /\ running = FALSE
  /\ delivery = <<Nothing, Nothing>> /\ head_q = Nothing /\ e5 = Nothing
  /\ write_q = Nothing /\ bank = [r \in Registers |-> 0]
  /\ sink_q = Nothing /\ written_q = [write |-> Nothing, pages |-> {}]
  /\ pages = [page \in {0, 1} |-> [s \in SinkWords |-> 0]]
  /\ active_page = 0 /\ read_page = 0 /\ page_word = [page \in {0, 1} |-> 0]
  /\ probe_pins_q = FALSE /\ probe_words_q = FALSE
  /\ probe_register_asked = Zero /\ read_pair = 0
  /\ probe_pair = 0 /\ probe_register = Zero
  /\ published = [s \in SinkWords |-> 0] /\ landing = {} /\ due = {0}
  /\ ended = [r \in Registers |-> 0]

-----------------------------------------------------------------------------
pass_start == slot = 0

PassEdge(held) ==
  /\ slot' = (slot + 1) % CYCLES_PER_PASS
  /\ IF pass_start
     THEN cycle' = 0 /\ pass_counter' = (pass_counter + 1) % WORDS /\ running' = ~held
     ELSE /\ cycle' = IF cycle = CYCLES_PER_PASS - 1 THEN cycle ELSE cycle + 1
          /\ UNCHANGED <<pass_counter, running>>

(* Mutant: the window closes a clock late.                                 *)
window_open_late == cycle >= WINDOW_START /\ cycle <= WINDOW_END

window_open == cycle >= WINDOW_START /\ cycle < WINDOW_END

(* A dword the FIFO has committed is popped, to be in head_q three clocks  *)
(* on.                                                                     *)
Dwords == [address : Registers \union SinkWords \union Elsewhere, word : Words,
           both : {FALSE}]
WindowEdge(dword) ==
  /\ dword # Nothing => window_open
  /\ delivery' = <<dword, delivery[1]>>
  /\ head_q' = delivery[2]

(* What csp_pass asks the core to write: the counter, or the head.  A      *)
(* register is a row of DMEM, an input is not written, a sink word goes to *)
(* both pages.                                                             *)
counter_write_now == cycle = COUNTER_CYCLE /\ running
pass_write ==
  IF counter_write_now THEN Write(IoBase, (pass_counter + 1) % WORDS)
  ELSE IF head_q.address \in Registers \ {IoBase} THEN head_q
  ELSE IF head_q.address \in SinkWords THEN [head_q EXCEPT !.both = TRUE]
  ELSE Nothing

(* The core's E5 gives way to it.                                          *)
w_stage == IF pass_write # Nothing THEN pass_write ELSE e5
MayResult ==
  running /\ ~pass_start /\ cycle + 1 \in E5_STAGE .. RUN_END - 1 + E5_STAGE
Results == [address : (Registers \ {IoBase}) \union SinkWords, word : Words,
            both : {FALSE}]
WriteEdge(result) ==
  /\ result # Nothing => MayResult
  /\ e5' = result
  /\ write_q' = IF w_stage.address \in Registers THEN w_stage ELSE Nothing
  /\ sink_q' = IF w_stage.address \in SinkWords THEN w_stage ELSE Nothing
  /\ bank' = Landed(bank, write_q)

(* The pages a sink word is for.                                           *)
Shadow(w) == IF w.both THEN {0, 1} ELSE {1 - active_page}

(* Mutant: the page the data come from is the active one by then.          *)
PageRead_unregistered == IF pass_start THEN 1 - active_page ELSE active_page

(* The page a read is made from goes with it.                              *)
PageRead == active_page

SinkEdge(address) ==
  /\ active_page' = IF pass_start THEN 1 - active_page ELSE active_page
  /\ written_q' = [write |-> sink_q,
                   pages |-> IF sink_q = Nothing THEN {} ELSE Shadow(sink_q)]
  /\ pages' = LandedIn(pages, written_q.pages, written_q.write)
  /\ read_page' = PageRead
  /\ page_word' = [page \in {0, 1} |-> pages[page][address]]
read_data == page_word[read_page]

(* The probe: asked, its pins driven, its words out.  The R copy's pins    *)
(* are on its row in the one clock between.                                *)
probe_request == cycle = PROBE_CYCLE

ProbeEdge(asked) ==
  /\ probe_pins_q' = probe_request
  /\ probe_words_q' = probe_pins_q
  /\ probe_register_asked' = IF probe_request THEN asked ELSE probe_register_asked
  /\ read_pair' = IF probe_pins_q THEN bank[probe_register_asked] ELSE read_pair
  /\ IF probe_words_q
     THEN probe_pair' = read_pair /\ probe_register' = probe_register_asked
     ELSE UNCHANGED <<probe_pair, probe_register>>

-----------------------------------------------------------------------------
(* The memories as they will be when what is on its way has landed.        *)
Bank == Landed(Landed(bank, write_q), e5)
Pages ==
  LandedIn(LandedIn(LandedIn(pages, written_q.pages, written_q.write),
                    IF sink_q = Nothing THEN {} ELSE Shadow(sink_q), sink_q),
           Shadow(e5), e5)

HistoryEdge(dword, address) ==
  /\ published' = IF pass_start THEN Pages[1 - active_page] ELSE published
  /\ ended' = IF pass_start THEN Bank ELSE ended
  /\ landing' = IF pass_start THEN {}
                ELSE IF dword.address \in SinkWords THEN landing \union {dword}
                ELSE landing
  /\ due' = {published[address]} \union {w.word : w \in {w \in landing : w.address = address}}

Clock(result, dword, address, held, asked) ==
  /\ PassEdge(held) /\ WindowEdge(dword) /\ WriteEdge(result)
  /\ SinkEdge(address) /\ ProbeEdge(asked) /\ HistoryEdge(dword, address)

(* The hold matters as a pass starts and the probe's address as it is      *)
(* asked for and named: in the other clocks they are whatever they are.    *)
MayBeHeld == IF pass_start THEN BOOLEAN ELSE {FALSE}
Asked == IF probe_request \/ probe_words_q THEN Registers ELSE {IoBase}

Next ==
  \E result \in {Nothing} \union Results, dword \in {Nothing} \union Dwords,
     address \in SinkWords, held \in MayBeHeld, asked \in Asked :
    Clock(result, dword, address, held, asked)

Spec == Init /\ [][Next]_vars

-----------------------------------------------------------------------------
(***************************************************************************)
(* PROPERTY.  The clocked pass is the reference model's (processor.cpp,    *)
(* pass): every word the program writes and every dword the window pops    *)
(* lands, in order, the window's behind the program's, the pass's number   *)
(* behind both, all of it before the next pass, and the pages flip.        *)
(***************************************************************************)
Popped(w) == IF w = Nothing THEN <<>> ELSE <<[address |-> w.address, word |-> w.word]>>
Queue == Popped(head_q) \o Popped(delivery[2]) \o Popped(delivery[1])

Phase == IF pass_start \/ cycle > COUNTER_CYCLE THEN "counted"
         ELSE IF cycle >= RUN_END + E5_STAGE THEN "window" ELSE "program"

Model == INSTANCE PassModel WITH
  registers_ <- Bank, sink_pages_ <- Pages, active_page_ <- active_page,
  pass_count_ <- pass_counter, held_ <- ~running, queue_ <- Queue, phase <- Phase

ImplementsPass == Model!Spec

(***************************************************************************)
(* PROPERTY.  Who reads beside the program sees one pass.  The partials,   *)
(* through a whole pass and across the flip, read what the last pass       *)
(* published or the firmware's word of this window: never a word the       *)
(* program is still writing, nor one of the pass before                    *)
(* (csp_sink_area.sv:6-13, 56-60).  The probe shows what the register it   *)
(* names held when the last pass ended, its number and the window's words  *)
(* included, however often the firmware changes its mind                   *)
(* (csp_pass.sv:29-32).                                                    *)
(***************************************************************************)
SinksOfOnePass == read_data \in due

ProbeIsOfPassEnd ==
  cycle > 0 /\ ~pass_start /\ probe_register # Zero =>
    probe_pair = ended[probe_register]

ReadersSeeOnePass == SinksOfOnePass /\ ProbeIsOfPassEnd
=============================================================================
