---------------------------- MODULE GrayCrossing ----------------------------
(***************************************************************************)
(* rtl/csp/csp_write_fifo.sv: the read pointer's way from clk to sclk.     *)
(* clk keeps the pointer Gray-coded in read_gray; sclk samples that        *)
(* register into a two-stage synchroniser and decodes the second stage.    *)
(*                                                                         *)
(* The clocks are unrelated, so an sclk edge may fall where read_gray is   *)
(* changing: then every bit of the sample is, on its own, the old bit or   *)
(* the new one.  WriteFifo lets the pointer cross as itself; this module   *)
(* is the reason it may.                                                   *)
(***************************************************************************)
EXTENDS Integers

CONSTANT POINTER_W       \* bits of a pointer (10 in csp_pkg.sv)

ASSUME WidthAssumption == POINTER_W \in Nat /\ POINTER_W >= 1

VARIABLES gray_pointer,  \* clk: read_pointer, in binary
          read_gray,     \* clk: its code
          old_gray,      \* the code before the clk edge now settling
          settling,      \* read_gray is changing
          read_gray_meta, read_gray_sync     \* sclk: the two stages

gray_vars == <<gray_pointer, read_gray, old_gray, settling,
               read_gray_meta, read_gray_sync>>

Bits  == 0 .. POINTER_W - 1
Codes == [Bits -> {0, 1}]

(* Powers of two, and a pointer shifted right by every number of bits.     *)
power[k \in 0 .. POINTER_W] == IF k = 0 THEN 1 ELSE 2 * power[k - 1]

shifted(n) ==
  LET right[k \in 0 .. POINTER_W] == IF k = 0 THEN n ELSE right[k - 1] \div 2
  IN  right

Wrap         == power[POINTER_W]
GrayPointers == 0 .. Wrap - 1
Half         == power[POINTER_W - 1]

(* Mutant: the pointer crosses in binary. *)
to_gray_binary(binary) == [i \in Bits |-> shifted(binary)[i] % 2]

to_gray(binary) == [i \in Bits |-> (shifted(binary)[i] + shifted(binary)[i + 1]) % 2]

(* From the top bit down: each binary bit is the gray bit xor the one above. *)
from_gray(gray) ==
  LET down[k \in 0 .. POINTER_W] ==      \* the top k bits, decoded
        IF k = 0 THEN 0
        ELSE (2 * down[k - 1]) + ((down[k - 1] + gray[POINTER_W - k]) % 2)
  IN  down[POINTER_W]

Stepped(p)     == IF p = Wrap - 1 THEN 0 ELSE p + 1
Distance(p, q) == IF p >= q THEN p - q ELSE p + Wrap - q

GrayInit ==
  /\ gray_pointer = 0
  /\ read_gray = to_gray(0) /\ old_gray = to_gray(0)
  /\ settling = FALSE
  /\ read_gray_meta = to_gray(0) /\ read_gray_sync = to_gray(0)

(***************************************************************************)
(* A pop.  The reader never passes the writer, and the writer is less than *)
(* half the pointer's range ahead of the reader it has seen.               *)
(***************************************************************************)
GrayPop ==
  LET pointer_next == Stepped(gray_pointer) IN
  /\ ~settling
  /\ Distance(pointer_next, from_gray(read_gray_sync)) < Half
  /\ gray_pointer' = pointer_next
  /\ read_gray' = to_gray(pointer_next)
  /\ old_gray' = read_gray
  /\ settling' = TRUE
  /\ UNCHANGED <<read_gray_meta, read_gray_sync>>

(* The register has settled: a clk period has passed. *)
Settle ==
  /\ settling
  /\ settling' = FALSE
  /\ UNCHANGED <<gray_pointer, read_gray, old_gray,
                 read_gray_meta, read_gray_sync>>

(* An sclk edge.  By the next one the register has long settled. *)
SclkSample ==
  /\ \E caught \in Codes :
       /\ \A i \in Bits :
            \/ caught[i] = read_gray[i]
            \/ settling /\ caught[i] = old_gray[i]
       /\ read_gray_meta' = caught
  /\ read_gray_sync' = read_gray_meta
  /\ settling' = FALSE
  /\ UNCHANGED <<gray_pointer, read_gray, old_gray>>

GrayNext == GrayPop \/ Settle \/ SclkSample

GraySpec == GrayInit /\ [][GrayNext]_gray_vars

-----------------------------------------------------------------------------
(***************************************************************************)
(* Whatever an sclk edge catches, what sclk decodes is a pointer the       *)
(* reader has had, and each stage is no newer than the one before it: the  *)
(* full flag can err by being late, never by freeing a row still unread    *)
(* (csp_write_fifo.sv:32-35, 85-90).                                       *)
(***************************************************************************)
SeenPointerIsPast ==
  LET seen == from_gray(read_gray_sync)
  IN  /\ Distance(from_gray(read_gray_meta), seen) <= Distance(gray_pointer, seen)
      /\ Distance(gray_pointer, seen) < Half
=============================================================================
