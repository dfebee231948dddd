----------------------------- MODULE WriteFifo -----------------------------
(***************************************************************************)
(* rtl/csp/csp_write_fifo.sv: the clock-crossing FIFO between the SPI bus  *)
(* (sclk) and the CSP's write window (clk).  Writes collect and stay       *)
(* invisible to the reader until a swap commits them.                      *)
(*                                                                         *)
(* One step is one rising edge of one of the two clocks; their interleaving*)
(* is arbitrary, which is how a synchroniser sees either the old or the    *)
(* new value of the single bit that is changing.  A pointer is POINTER_W   *)
(* bits: one bit more than a row number, so it counts modulo 2 * DEPTH.    *)
(* The read pointer crosses Gray-coded; GrayCrossing shows that a sample of*)
(* it is the old or the new pointer, so here it crosses as itself.         *)
(***************************************************************************)
EXTENDS Integers, Sequences

CONSTANTS DEPTH,             \* rows of the FIFO (512 in csp_pkg.sv)
          DROPPED_MAX,       \* where the drop counter saturates (65535)
          Dwords,            \* the dwords the firmware may write
          Zero               \* what the rows and the output hold at power-up

ASSUME DepthAssumption == DEPTH \in Nat /\ DEPTH >= 2
ASSUME DroppedAssumption == DROPPED_MAX \in Nat
ASSUME DwordsAssumption == Zero \notin Dwords

VARIABLES
  (* the sclk side *)
  write_pointer, commit_pointer, commit_toggle, dropped,
  read_meta, read_sync,      \* read_gray_meta, read_gray_sync, decoded
  (* the clk side *)
  read_pointer, committed_pointer, toggle_meta, toggle_sync, toggle_seen,
  reading, read_index, pop_pipe,
  (* the block memory *)
  entries, read_stage, head_dword,
  (* history: the last clk edge popped the last visible entry just as a     *)
  (* commit crossed                                                         *)
  crossed

sclk_vars == <<write_pointer, commit_pointer, commit_toggle, dropped,
               read_meta, read_sync>>
clk_vars  == <<read_pointer, committed_pointer, toggle_meta, toggle_sync,
               toggle_seen, reading, read_index, pop_pipe, read_stage,
               head_dword, crossed>>
vars == <<sclk_vars, clk_vars, entries>>

Pointers == 0 .. 2 * DEPTH - 1
Rows     == 0 .. DEPTH - 1

(* Pointer arithmetic modulo 2 * DEPTH, and the row a pointer names. *)
Succ(p)     == IF p = 2 * DEPTH - 1 THEN 0 ELSE p + 1
Pred(p)     == IF p = 0 THEN 2 * DEPTH - 1 ELSE p - 1
Ahead(p, q) == IF p >= q THEN p - q ELSE p + 2 * DEPTH - q
Row(p)      == IF p < DEPTH THEN p ELSE p - DEPTH

(* Mutant: full only at the last row, the one the parked reader sits on. *)
full_at_depth == Ahead(write_pointer, read_sync) >= DEPTH

(* Full one entry early, against the reader as the sclk side sees it. *)
full == Ahead(write_pointer, read_sync) >= DEPTH - 1

(* A committed entry waits. *)
committed == read_pointer # committed_pointer

(* Mutant: the toggle read as a pulse, so every second commit goes unseen. *)
crossing_rising == toggle_sync /\ ~toggle_seen

(* A commit has reached the clk side and is taken up at this clock. *)
crossing == toggle_sync # toggle_seen

Init ==
  /\ write_pointer = 0 /\ commit_pointer = 0 /\ commit_toggle = FALSE
  /\ dropped = 0 /\ read_meta = 0 /\ read_sync = 0
  /\ read_pointer = 0 /\ committed_pointer = 0
  /\ toggle_meta = FALSE /\ toggle_sync = FALSE /\ toggle_seen = FALSE
  /\ reading = FALSE
  /\ read_index = DEPTH - 1            \* one behind row 0
  /\ pop_pipe = <<FALSE, FALSE>>
  /\ entries = [row \in Rows |-> Zero]
  /\ read_stage = Zero /\ head_dword = Zero
  /\ crossed = FALSE

-----------------------------------------------------------------------------
(***************************************************************************)
(* An sclk edge that brings no dword, the edge that brings one into a row, *)
(* and the edge that brings one to a full FIFO; each may be the swap.  A   *)
(* swap's frame is dozens of sclk cycles and the synchroniser a few clk    *)
(* cycles, so the previous commit has been taken up by then (Spaced).      *)
(***************************************************************************)
Spaced == toggle_seen = commit_toggle

Synchronise ==
  /\ read_meta' = read_pointer
  /\ read_sync' = read_meta
  /\ UNCHANGED clk_vars

(* Mutant: the write of the swap's own cycle is left out of the commit. *)
Swap_before_write(swap) ==
  /\ swap => Spaced
  /\ commit_pointer' = IF swap THEN write_pointer ELSE commit_pointer
  /\ commit_toggle' = (commit_toggle # swap)

Swap(swap) ==
  /\ swap => Spaced
  /\ commit_pointer' = IF swap THEN write_pointer' ELSE commit_pointer
  /\ commit_toggle' = (commit_toggle # swap)

SclkIdle(swap) ==
  /\ Synchronise
  /\ UNCHANGED <<write_pointer, entries, dropped>>
  /\ Swap(swap)

SclkWrite(dword, swap) ==
  /\ ~full
  /\ Synchronise
  /\ entries' = [entries EXCEPT ![Row(write_pointer)] = dword]
  /\ write_pointer' = Succ(write_pointer)
  /\ UNCHANGED dropped
  /\ Swap(swap)

SclkDrop(swap) ==
  /\ full
  /\ Synchronise
  /\ dropped' = IF dropped = DROPPED_MAX THEN dropped ELSE dropped + 1
  /\ UNCHANGED <<write_pointer, entries>>
  /\ Swap(swap)

(* The pop out of empty waits a clock.                                     *)
PointerStep(pop) == pop /\ committed /\ reading

LastPop(pop) == PointerStep(pop) /\ Succ(read_pointer) = committed_pointer

(* Mutant: the empty reader parks behind the pointer of before this pop.   *)
ReadIndex_old_parking(pointer_next) ==
  Row(IF pointer_next # committed_pointer THEN pointer_next
                                          ELSE Pred(read_pointer))

(* The row read next.                                                      *)
ReadIndex(pointer_next) ==
  Row(IF pointer_next # committed_pointer THEN pointer_next
                                          ELSE Pred(pointer_next))

(***************************************************************************)
(* A clk edge.  `pop` is the window's request; it moves the pointer only   *)
(* when a committed entry waits and has waited a clock (`reading`).  The   *)
(* next read index is the head if an entry waits after this pop, by the    *)
(* committed pointer of BEFORE this edge, and the row behind it otherwise. *)
(* The block's two registers and the valid pipe move at every edge.        *)
(***************************************************************************)
ClkTick(pop) ==
  LET pointer_next == IF PointerStep(pop) THEN Succ(read_pointer)
                                          ELSE read_pointer
  IN
  /\ toggle_meta' = commit_toggle
  /\ toggle_sync' = toggle_meta
  /\ reading' = committed
  /\ toggle_seen' = toggle_sync
  /\ committed_pointer' = IF crossing THEN commit_pointer ELSE committed_pointer
  /\ read_pointer' = pointer_next
  /\ read_index' = ReadIndex(pointer_next)
  /\ pop_pipe' = <<PointerStep(pop), pop_pipe[1]>>
  /\ read_stage' = entries[read_index]
  /\ head_dword' = read_stage
  /\ crossed' = (LastPop(pop) /\ crossing)
  /\ UNCHANGED <<sclk_vars, entries>>

Next ==
  \/ \E swap \in BOOLEAN : SclkIdle(swap)
  \/ \E dword \in Dwords, swap \in BOOLEAN : SclkWrite(dword, swap)
  \/ \E swap \in BOOLEAN : SclkDrop(swap)
  \/ \E pop \in BOOLEAN : ClkTick(pop)

(***************************************************************************)
(* clk never stops and the write window opens in every pass, so a clock    *)
(* that offers a pop comes again and again; one that offers none need not. *)
(* sclk runs only in frames and is not fair.                               *)
(***************************************************************************)
Spec == Init /\ [][Next]_vars
FairSpec == Spec /\ WF_vars(ClkTick(TRUE))

-----------------------------------------------------------------------------
TypeOK ==
  /\ {write_pointer, commit_pointer, read_meta, read_sync,
      read_pointer, committed_pointer} \subseteq Pointers
  /\ dropped \in 0 .. DROPPED_MAX
  /\ {commit_toggle, toggle_meta, toggle_sync, toggle_seen, reading,
      crossed} \subseteq BOOLEAN
  /\ read_index \in Rows
  /\ pop_pipe \in BOOLEAN \X BOOLEAN
  /\ entries \in [Rows -> Dwords \union {Zero}]
  /\ {read_stage, head_dword} \subseteq Dwords \union {Zero}

(***************************************************************************)
(* The six pointers keep their order round the ring, the reader as sclk    *)
(* sees it last and the writer first, and span less than the FIFO: what    *)
(* one side knows of the other is old, never wrong, so no committed entry  *)
(* is overwritten and none is read before it is written (the pointers and  *)
(* `full`, csp_write_fifo.sv:82-156).                                      *)
(***************************************************************************)
PointerOrder ==
  LET at(p) == Ahead(p, read_sync)
  IN  /\ at(read_meta) <= at(read_pointer)
      /\ at(read_pointer) <= at(committed_pointer)
      /\ at(committed_pointer) <= at(commit_pointer)
      /\ at(commit_pointer) <= at(write_pointer)
      /\ at(write_pointer) <= DEPTH - 1

(***************************************************************************)
(* The two ports never meet on a row: whenever the sclk side could write,  *)
(* the clk side's address register is on another row, whether it follows   *)
(* the head or is parked (the comment at csp_write_fifo.sv:14-25).         *)
(***************************************************************************)
PortsNeverMeet == ~full => Row(write_pointer) # read_index

(***************************************************************************)
(* A pop takes the entry its pointer names, out of empty included, unless  *)
(* the clk edge before it popped the last visible entry just as a commit   *)
(* crossed (csp_write_fifo.sv:26-31, 128-133).                             *)
(***************************************************************************)
Popped == read_pointer' # read_pointer
PopTakesHead ==
  [][Popped /\ ~crossed => read_stage' = entries[Row(read_pointer)]]_vars

(***************************************************************************)
(* The comment's claim: the address register is on the head at every pop   *)
(* (csp_write_fifo.sv:128-132).                                            *)
(***************************************************************************)
EveryPopTakesHead ==
  [][Popped => read_stage' = entries[Row(read_pointer)]]_vars

(***************************************************************************)
(* Whenever commits cross, a pop takes the head's                          *)
(* row or the one behind it, the last row consumed, never one that may be  *)
(* being written (csp_write_fifo.sv:163-170).                              *)
(***************************************************************************)
PopTakesHeadOrLast ==
  [][Popped => read_stage' \in {entries[Row(read_pointer)],
                                entries[Row(Pred(read_pointer))]}]_vars

(***************************************************************************)
(* Everything committed is popped in the end: the read pointer reaches     *)
(* every commit (the toggle's crossing and the pops, :144-156).            *)
(***************************************************************************)
CommittedIsPopped ==
  \A p \in Pointers : (commit_pointer = p) ~> (read_pointer = p)

(***************************************************************************)
(* The FIFO implements the commit queue: its contents are the rows from    *)
(* the read pointer to the write pointer, and the delivery pipe is the two *)
(* block registers where the valid pipe marks them.  So every entry is     *)
(* delivered once, in order, two clocks after its pop, and never before    *)
(* its commit (csp_write_fifo.sv:1-43), every step but the one PopTakesHead*)
(* excepts being a step of the queue.                                      *)
(***************************************************************************)
Contents ==
  [i \in 1 .. Ahead(write_pointer, read_pointer) |->
     entries[Row((read_pointer + i - 1) % (2 * DEPTH))]]
Stage(valid, dword) == IF valid THEN dword ELSE Zero

Queue == INSTANCE CommitQueue WITH
  Entries  <- Dwords,
  Capacity <- DEPTH - 1,
  Nothing  <- Zero,
  pending  <- Contents,
  marked   <- Ahead(commit_pointer, read_pointer),
  visible  <- Ahead(committed_pointer, read_pointer),
  delivery <- <<Stage(pop_pipe[1], read_stage), Stage(pop_pipe[2], head_dword)>>

ImplementsQueue ==
  /\ Queue!Init
  /\ [][~crossed => [Queue!Next]_(Queue!vars)]_vars
=============================================================================
