----------------------------- MODULE Processor ------------------------------
(***************************************************************************)
(* tools/csp/processor.cpp: the CSP's reference model, one pass over an    *)
(* image.  It does not wait, as the chip does not: it counts the cycle     *)
(* every row issues in, keeps a scoreboard of when each value is ready,    *)
(* and reports a row that reads one before.  Values are left out but for   *)
(* the index registers'.                                                   *)
(***************************************************************************)
EXTENDS Csp

CONSTANTS Held,            \* the address every register an IDX reads holds
          Carried          \* i and j as the pass before left them

VARIABLES image,           \* rows and decode ROM
          state,           \* PassState, the index registers with it
          vector,          \* the vector loop in progress, or None
          ran              \* history: the instructions run, with i and j

CONSTANT None

processor_vars == <<image, state, vector, ran>>

Start == [pc |-> 1, cycle |-> 0, index |-> Carried,
          register_ready |-> [a \in RegisterAddresses |-> 0], state_ready |-> 0,
          index_ready |-> [w \in IndexRegisters |-> 0],
          loops |-> <<>>, stopped |-> FALSE, errors |-> {}]

ProcessorInit == image = None /\ state = Start /\ vector = None /\ ran = <<>>

LOCAL Other(w) == IF w = "i" THEN "j" ELSE "i"

-----------------------------------------------------------------------------
(* The row at the program counter: the word, and the operation its control *)
(* word names.                                                             *)
decode(row) ==
  LET word == image.rows[row]
      control == image.rom[word.op]
  IN  [word |-> word, control |-> control, op |-> op_of(control)]

Which(d) == d.control.sub[2]          \* of a loop or an IDX

resolve(operand, s) ==
  IF operand.mode = "direct" THEN operand.value
  ELSE Beside(s.index[operand.mode], operand.value)

(* resolve_checked: the index is ready, and the offset's bits are beside it. *)
index_errors(operand, s) ==
  IF ~is_indexed(operand) THEN {} ELSE
  (IF s.index_ready[operand.mode] > s.cycle THEN {"early"} ELSE {})
  \union (IF s.index[operand.mode] & operand.value # 0 THEN {"overlap"} ELSE {})

Pair(address, wide) == {address} \union IF wide THEN {address + 1} ELSE {}

(* The operands a row reads, and whether as a pair.                        *)
operands(d) ==
  LET c == d.control IN
  {o \in (IF c.a_source = "result" THEN {<<d.word.r, c.writes = "pair">>} ELSE {})
         \union (IF c.reads_x THEN {<<d.word.x, FALSE>>} ELSE {})
         \union (IF c.reads_y THEN {<<d.word.y, c.y_wide>>} ELSE {}) :
     o[1].mode # "immediate"}

read_errors(o, s) ==
  LET address == resolve(o[1], s) IN
  index_errors(o[1], s)
  \union (IF address >= register_count \/ (o[2] /\ address % 2 # 0) THEN {"outside"}
          ELSE IF \E a \in Pair(address, o[2]) \ {0} : s.register_ready[a] > s.cycle
          THEN {"early"} ELSE {})

writes_register(d) ==
  d.control.writes \in {"word", "pair"} /\ d.word.r.mode # "immediate"

write_errors(d, s) ==
  LET address == resolve(d.word.r, s)
      wide    == d.control.writes = "pair" IN
  IF ~writes_register(d) THEN {} ELSE
  index_errors(d.word.r, s)
  \union (IF \/ is_input(address)
             \/ wide /\ address # 0 /\ (address % 2 # 0 \/ address + 1 >= register_count)
          THEN {"outside"} ELSE {})

(* What a row writes, ready its latency after its issue.                   *)
written(d, s) ==
  IF ~writes_register(d) THEN {} ELSE
  (Pair(resolve(d.word.r, s), d.control.writes = "pair") \intersect RegisterAddresses)
    \ (IF resolve(d.word.r, s) = 0 THEN RegisterAddresses ELSE {})

note_writes(d, s) ==
  [s EXCEPT
    !.register_ready = [a \in RegisterAddresses |-> IF a \in written(d, s)
                                                    THEN s.cycle + result_latency ELSE @[a]],
    !.state_ready = IF d.control.cond = "flags" THEN s.cycle + state_latency ELSE @,
    !.index_ready = IF d.op = "idx" THEN [@ EXCEPT ![Which(d)] = s.cycle + index_latency]
                                    ELSE @]

-----------------------------------------------------------------------------
(* One row, but for the vector loop's, and its step of the index registers.*)
execute(d, s) ==
  LET early == IF d.control.cond = "select" /\ s.state_ready > s.cycle
               THEN {"early"} ELSE {}
      found == early \union write_errors(d, s)
                 \union UNION {read_errors(o, s) : o \in operands(d)}
      sum   == IF d.word.x = immediate THEN d.word.imm ELSE Held
      count == d.word.x.value
      begun == [which |-> Which(d), start |-> s.pc, end |-> d.word.imm + 1,
                remaining |-> count, stride |-> sign_extend(d.word.y.value)]
      base  == [s EXCEPT !.errors = @ \union found]
  IN  CASE d.op = "end" -> [base EXCEPT !.stopped = TRUE]
        [] d.op = "idx" -> [base EXCEPT !.index[Which(d)] = sum % address_space]
        [] d.op = "loop" /\ begun.end <= s.pc -> [base EXCEPT !.errors = @ \union {"empty"}]
        [] d.op = "loop" /\ begun.end > s.pc ->
             IF count <= 0 THEN [base EXCEPT !.pc = begun.end]
                           ELSE [base EXCEPT !.loops = Append(@, begun)]
        [] OTHER -> base

Stepped(value, by) == (value + by) % address_space

RECURSIVE end_loops(_)
end_loops(s) ==
  IF s.loops = <<>> \/ s.pc # Last(s.loops).end THEN s ELSE
  LET loop == Last(s.loops)
      left == [s EXCEPT !.index[loop.which] = Stepped(@, loop.stride)]
  IN  IF loop.remaining > 1
      THEN [left EXCEPT !.pc = loop.start, !.cycle = @ + jump_penalty,
                        !.loops[Len(s.loops)].remaining = @ - 1]
      ELSE end_loops([left EXCEPT !.loops = Front(@)])

(* What a row did, as the program says it.                                 *)
Did(d, s) ==
  IF d.op \in {"nop", "end", "loop", "vloop"} THEN <<>> ELSE
  << [op |-> d.op, wide |-> d.control.writes = "pair",
      a_source |-> d.control.a_source, r |-> d.word.r, x |-> d.word.x, y |-> d.word.y,
      imm |-> d.word.imm, index |-> s.index] >>

Long(s) == s.cycle >= pass_cycle_limit
Stop(s) == [s EXCEPT !.stopped = TRUE, !.errors = @ \union {"long"}]

Running == image # None /\ ~state.stopped

pass_row ==
  /\ Running /\ vector = None
  /\ LET d    == decode(state.pc)
         next == [state EXCEPT !.pc = @ + 1]
         done == note_writes(d, execute(d, next))
     IN  IF Long(state) THEN state' = Stop(state) /\ UNCHANGED ran
         ELSE /\ d.op # "vloop"
              /\ state' = end_loops([done EXCEPT !.cycle = @ + 1])
              /\ ran' = ran \o Did(d, state)
  /\ UNCHANGED <<image, vector>>

-----------------------------------------------------------------------------
(***************************************************************************)
(* A vector loop: the body row by row, each for every element of a round.  *)
(* The loop's index register steps per element; each element has its own   *)
(* copy of the other index register and its own flags.                     *)
(***************************************************************************)
run_vector ==
  /\ Running /\ vector = None /\ ~Long(state)
  /\ LET d     == decode(state.pc)
         own   == Which(d)
         count == d.word.x.value
     IN  /\ d.op = "vloop"
         /\ state' = [state EXCEPT !.cycle = @ + 1, !.pc = @ + 1]
         /\ vector' =
              [own |-> own, start |-> state.pc + 1, end |-> d.word.imm, count |-> count,
               stride |-> sign_extend(d.word.y.value), base |-> state.index[own],
               first |-> 0, element |-> 0, writers |-> {}, readers |-> {},
               mine |-> [k \in 0 .. count - 1 |->
                 [other |-> state.index[Other(own)], state_ready |-> state.state_ready,
                  index_ready |-> state.index_ready[Other(own)]]]]
  /\ UNCHANGED <<image, ran>>

(* The element's state, put in place of the processor's.                   *)
As(v, s) ==
  [s EXCEPT !.index = [w \in IndexRegisters |->
                         IF w = v.own THEN Stepped(v.base, v.element * v.stride)
                                      ELSE v.mine[v.element].other],
            !.state_ready = v.mine[v.element].state_ready,
            !.index_ready[Other(v.own)] = v.mine[v.element].index_ready]

(* Elements that write a register one of the others reads or writes.       *)
Shared(v) ==
  \E w \in v.writers, r \in v.readers :
    w[1] = r[1] /\ \E u \in v.writers : u[1] = w[1] /\ (u[2] # w[2] \/ u[2] # r[2])

Leave(v, s) ==
  LET last  == v.mine[v.count - 1]
      Latest(f(_)) == CHOOSE n \in {f(v.mine[k]) : k \in DOMAIN v.mine} :
                        \A k \in DOMAIN v.mine : n >= f(v.mine[k])
  IN  [s EXCEPT !.index[v.own] = Stepped(v.base, v.count * v.stride),
                !.index[Other(v.own)] = last.other,
                !.state_ready = Latest(LAMBDA m : m.state_ready),
                !.index_ready[Other(v.own)] = Latest(LAMBDA m : m.index_ready),
                !.errors = @ \union (IF Shared(v) THEN {"shared"} ELSE {}),
                !.pc = v.end + 1]

vector_element ==
  /\ Running /\ vector # None
  /\ LET v    == vector
         s    == As(v, state)
         d    == decode(s.pc)
         done == note_writes(d, execute(d, s))
         bubble == IF v.first = 0 /\ s.pc = v.start /\ v.element = 0 THEN 1 ELSE 0
         noted == [v EXCEPT
           !.mine[v.element] = [other |-> done.index[Other(v.own)],
                                state_ready |-> done.state_ready,
                                index_ready |-> done.index_ready[Other(v.own)]],
           !.writers = @ \union {<<a, v.element>> : a \in written(d, s)},
           !.readers = @ \union {<<a, v.element>> : a \in
                         UNION {Pair(resolve(o[1], s), o[2]) : o \in operands(d)}}]
         after == [done EXCEPT !.cycle = @ + 1 + bubble]
         round_last == IF v.first + vector_round < v.count THEN v.first + vector_round - 1
                                                           ELSE v.count - 1
         To(pc, element, first) ==
           /\ state' = [after EXCEPT !.pc = pc]
           /\ vector' = [noted EXCEPT !.element = element, !.first = first]
     IN  IF Long(state) THEN state' = Stop(state) /\ UNCHANGED <<vector, ran>>
         ELSE /\ ran' = ran \o Did(d, s)
              /\ CASE v.element < round_last -> To(s.pc, v.element + 1, v.first)
                   [] v.element = round_last /\ s.pc < v.end -> To(s.pc + 1, v.first, v.first)
                   [] s.pc = v.end /\ v.element = round_last /\ round_last < v.count - 1 ->
                        To(v.start, round_last + 1, round_last + 1)
                   [] s.pc = v.end /\ v.element = v.count - 1 ->
                        state' = end_loops(Leave(noted, after)) /\ vector' = None
  /\ UNCHANGED image

pass == pass_row \/ run_vector \/ vector_element
=============================================================================
