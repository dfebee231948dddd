-------------------------------- MODULE Csp ---------------------------------
(***************************************************************************)
(* The CSP's instruction word, operands and control words                  *)
(* (app/main/csp/csp.hpp, csp.cpp): what the program builder lays down in  *)
(* an image and the processor reads back from it.                          *)
(*                                                                         *)
(* The widths and latencies are constants, so that a small machine can be  *)
(* checked; the chip's values stand beside them.                           *)
(***************************************************************************)
EXTENDS Integers, Sequences, FiniteSets, SequencesExt, Bitwise

CONSTANTS register_count,      \* 2048
          address_space,       \* 4096; from register_count on, the sink area
          io_base, io_count,   \* 0x40 and 32: inputs, read only
          direct_reach,        \* 1024: a field's values, 0 .. direct_reach - 1
          program_limit,       \* 2047 rows, END included
          op_count,            \* 256 rows of the decode ROM
          pass_cycle_limit,    \* 3008
          vector_round,        \* 16 elements
          result_latency,      \* 9
          state_latency,       \* 6
          index_latency,       \* 5
          jump_penalty         \* 4

(* What the constants must satisfy, whoever gives them their values.       *)
CspAssumption ==
  /\ {register_count, io_base, io_count, program_limit, op_count,
      pass_cycle_limit, vector_round, result_latency, state_latency,
      index_latency, jump_penalty} \subseteq Nat \ {0}
  /\ register_count <= address_space
  /\ \E bits \in 1 .. 10 : direct_reach = 2 ^ bits /\ direct_reach <= address_space
  /\ op_count > 3

RegisterAddresses == 0 .. register_count - 1
IndexRegisters == {"i", "j"}
is_input(address) == address \in io_base .. io_base + io_count - 1

-----------------------------------------------------------------------------
(* Operands: a mode and a field.                                           *)
direct(address)  == [mode |-> "direct", value |-> address]
indexed(w, offset) == [mode |-> w, value |-> offset]
immediate        == [mode |-> "immediate", value |-> 0]
is_indexed(operand) == operand.mode \in IndexRegisters

(* The address an index register and an offset name: bits beside bits.     *)
Beside(base, offset) == (base | offset) % address_space

(* A field holds what fits it; a stride is read back signed.               *)
Field(value) == value % direct_reach
sign_extend(field) == IF 2 * field >= direct_reach THEN field - direct_reach ELSE field

-----------------------------------------------------------------------------
(* An instruction, before and after its encoding.  For an index that is    *)
(* set from a register, imm is what the register holds.                    *)
NOP == [op |-> "nop", wide |-> FALSE, a_source |-> "zero", which |-> "i",
        r |-> immediate, x |-> immediate, y |-> immediate,
        count |-> 0, imm |-> 0, end |-> 0, open |-> FALSE]

SetsFlags == {"mac", "macw", "add3", "cmp", "abs", "min", "max", "andxor", "shift"}
WritesRegister == SetsFlags \union {"sel"}
Accumulates == {"mac", "macw", "add3", "andxor", "shift"}
MultiplyAdd == {"mac", "macw", "add3", "cmp", "abs"}
Logic == {"min", "max", "sel", "andxor"}

(* The control word of an operation in a variant.                          *)
unit(op) == CASE op \in MultiplyAdd -> "multiply_add" [] op \in Logic -> "logic"
              [] op = "shift" -> "shift" [] op \in {"loop", "vloop"} -> "loop"
              [] op = "idx" -> "index" [] OTHER -> "none"

sub(op, w) == CASE op \in {"mac", "macw"} -> "mac"
                [] op \in {"loop", "vloop", "idx"} -> <<op, w>>
                [] OTHER -> op

control_of(e) ==
  [unit |-> unit(e.op), sub |-> sub(e.op, e.which), wrap |-> e.op = "macw",
   writes |-> CASE e.op = "idx" -> e.which
                [] e.op \in WritesRegister -> IF e.wide THEN "pair" ELSE "word"
                [] OTHER -> "nothing",
   a_source |-> IF e.op \in Accumulates THEN e.a_source ELSE "zero",
   reads_x |-> e.op \in (WritesRegister \union {"idx"}) \ {"shift"},
   reads_y |-> e.op \in (WritesRegister \union {"idx"}) \ {"abs"},
   y_wide |-> e.wide /\ e.op \in {"mac", "macw", "add3"},
   cond |-> CASE e.op = "sel" -> "select" [] e.op \in SetsFlags -> "flags"
              [] OTHER -> "none"]

(* The operation a control word names.                                     *)
op_of(control) ==
  CASE control.unit = "none" -> IF control.sub = "end" THEN "end" ELSE "nop"
    [] control.unit \in {"loop", "index"} -> control.sub[1]
    [] control.sub = "mac" -> IF control.wrap THEN "macw" ELSE "mac"
    [] OTHER -> control.sub

(* A word as the image holds it: op is its control word's row, last a      *)
(* loop's last body row.  Rows count from 1 here, from 0 in the code.      *)
encode(e, row, last) ==
  [op |-> row, r |-> e.r,
   x |-> IF e.op \in {"loop", "vloop"} THEN [immediate EXCEPT !.value = Field(e.count)]
                                       ELSE e.x,
   y |-> IF e.op \in {"loop", "vloop"} THEN [immediate EXCEPT !.value = Field(e.imm)]
                                       ELSE e.y,
   imm |-> IF e.op \in {"loop", "vloop"} THEN last ELSE e.imm]
=============================================================================
