--------------------------- MODULE ProgramBuilder ---------------------------
(***************************************************************************)
(* app/main/csp/program_builder.cpp: CSP programs emitted, checked,        *)
(* scheduled and encoded.  The chip has no interlock: the builder places   *)
(* every instruction so that what it reads has been written, with NOP rows *)
(* before it where the program's order does not leave the latency.         *)
(***************************************************************************)
EXTENDS Csp

VARIABLES instructions,    \* the entries, in the program's order
          issue            \* an emitting call found an error

builder_vars == <<instructions, issue>>

LOCAL Greatest(set) == CHOOSE n \in set : \A m \in set : n >= m
LOCAL Ceil(a, b) == (a + b - 1) \div b
Repeated(row, n) == [k \in 1 .. n |-> row]
wait_nop == 0              \* a placed row is an entry's position, or a wait

-----------------------------------------------------------------------------
(***************************************************************************)
(* Emitting.                                                               *)
(***************************************************************************)
check_operand(operand, wide, result) ==
  \/ operand.mode = "immediate"
  \/ /\ operand.value \in 0 .. direct_reach - 1
     /\ wide => operand.value % 2 = 0
     /\ ~(operand.mode = "direct" /\ result /\ is_input(operand.value))

BuilderInit == instructions = <<>> /\ issue = FALSE

emit(e, fine) ==
  /\ instructions' = Append(instructions, e)
  /\ issue' = (issue \/ ~fine)

arithmetic(e) ==
  emit(e, /\ e.wide => e.a_source = "result"
          /\ check_operand(e.r, e.wide, TRUE)
          /\ check_operand(e.x, FALSE, FALSE)
          /\ check_operand(e.y, e.wide /\ e.op # "shift", FALSE))

open_loop(w, count, stride, vector) ==
  emit([NOP EXCEPT !.op = IF vector THEN "vloop" ELSE "loop", !.which = w,
                   !.count = count, !.imm = stride, !.open = TRUE],
       /\ count \in 0 .. direct_reach - 1
       /\ sign_extend(Field(stride)) = stride)

IsLoop(e) == e.op \in {"loop", "vloop"}

close_loop(at, end) ==
  IF at \in DOMAIN instructions /\ IsLoop(instructions[at]) /\ end > at + 1
  THEN /\ instructions' = [instructions EXCEPT ![at].end = end, ![at].open = FALSE]
       /\ UNCHANGED issue
  ELSE issue' = TRUE /\ UNCHANGED instructions

-----------------------------------------------------------------------------
(***************************************************************************)
(* The whole-program checks: at most two loops deep, on different index    *)
(* registers, the inner inside the outer; no loop in a vector body.        *)
(***************************************************************************)
Misnested(p, outer, at) ==
  LET inner == p[at] IN
  \/ inner.op = "idx" /\ inner.which = outer.which
  \/ /\ IsLoop(inner)
     /\ \/ outer.op = "vloop" \/ inner.which = outer.which \/ inner.end > outer.end
        \/ \E third \in at + 1 .. inner.end - 1 : third <= Len(p) /\ IsLoop(p[third])

Wrong(p, at) ==
  /\ IsLoop(p[at])
  /\ \/ p[at].open \/ p[at].end <= at + 1 \/ p[at].end > Len(p) + 1
     \/ \E k \in at + 1 .. p[at].end - 1 : k <= Len(p) /\ Misnested(p, p[at], k)

-----------------------------------------------------------------------------
(***************************************************************************)
(* The scoreboard: when each register, and the flags, may next be read, as *)
(* cycles.  An access through an index whose base is not known may name    *)
(* any register.                                                           *)
(***************************************************************************)
Unknown == -1

Reads(e) ==
  (IF e.op \in Accumulates /\ e.a_source = "result" THEN {<<e.r, e.wide>>} ELSE {})
  \union (IF control_of(e).reads_x THEN {<<e.x, FALSE>>} ELSE {})
  \union (IF control_of(e).reads_y THEN {<<e.y, control_of(e).y_wide>>} ELSE {})

Anywhere(operand, known) == is_indexed(operand) /\ known[operand.mode] = Unknown

(* The registers an access may name.                                       *)
access_of(operand, pair, known) ==
  LET address == IF operand.mode = "direct" THEN operand.value
                 ELSE Beside(known[operand.mode], operand.value) IN
  CASE operand.mode = "immediate" -> {}
    [] Anywhere(operand, known) -> RegisterAddresses
    [] OTHER -> RegisterAddresses \intersect ({address} \union IF pair THEN {address + 1} ELSE {})

ReadSet(e, known) == UNION {access_of(read[1], read[2], known) : read \in Reads(e)}
ReadsAMemory(e) == \E read \in Reads(e) : read[1].mode # "immediate"

earliest(e, s, not_before) ==
  Greatest({not_before} \union {s.ready[a] : a \in ReadSet(e, s.known)}
           \union (IF ReadsAMemory(e) THEN {s.unknown} ELSE {})
           \union (IF e.op = "sel" THEN {s.state} ELSE {}))

Writes(e) == e.op \in WritesRegister /\ e.r.mode # "immediate"
WriteSet(e, known) ==
  IF Writes(e) /\ ~Anywhere(e.r, known) /\ 0 \notin access_of(e.r, FALSE, known)
  THEN access_of(e.r, e.wide, known) ELSE {}

note_writes(e, s, cycle) ==
  [s EXCEPT
    !.ready = [a \in RegisterAddresses |-> IF a \in WriteSet(e, s.known)
                                           THEN cycle + result_latency ELSE @[a]],
    !.unknown = IF Writes(e) /\ Anywhere(e.r, s.known)
                THEN Greatest({@, cycle + result_latency}) ELSE @,
    !.state = IF e.op \in SetsFlags THEN Greatest({@, cycle + state_latency}) ELSE @,
    !.known = IF e.op # "idx" THEN @
              ELSE [@ EXCEPT ![e.which] = IF e.x = immediate /\ e.y = direct(0)
                                          THEN Beside(e.imm, 0) ELSE Unknown]]

Forget(s, w) == [s EXCEPT !.known[w] = Unknown]

-----------------------------------------------------------------------------
(***************************************************************************)
(* The schedule: entries from .. to - 1 of p placed behind s.  found is the*)
(* waits each needed, minimum the least it is given, from an earlier pass  *)
(* over a loop's body; last is a loop's last body row.                     *)
(***************************************************************************)
Nowhere(p) ==
  [next |-> 0, rows |-> <<>>, ready |-> [a \in RegisterAddresses |-> 0], state |-> 0,
   unknown |-> 0, known |-> [w \in IndexRegisters |-> Unknown],
   found |-> [k \in DOMAIN p |-> 0], minimum |-> [k \in DOMAIN p |-> 0],
   last |-> [k \in DOMAIN p |-> 0]]

Scalar(p, at, s, cycle) ==
  note_writes(p[at],
    [s EXCEPT !.found[at] = cycle - s.next,
       !.rows = @ \o Repeated(wait_nop, cycle - s.next) \o <<at>>
                  \o Repeated(wait_nop, IF p[at].op = "idx" THEN index_latency - 1 ELSE 0),
       !.next = cycle + IF p[at].op = "idx" THEN index_latency ELSE 1],
    cycle)

place_scalar(p, at, s) ==
  Scalar(p, at, s, Greatest({earliest(p[at], s, s.next), s.next + s.minimum[at]}))

(***************************************************************************)
(* A vector loop: each body row is issued for every element of a round     *)
(* before the next, so an element's dependent rows are a round apart; v    *)
(* holds the row that last wrote each register, the flags and the indexes. *)
(***************************************************************************)
never == -1

NoRows(s) == [row |-> 0, ready |-> [a \in RegisterAddresses |-> never], unknown |-> never,
              state |-> never, index |-> [w \in IndexRegisters |-> never],
              known |-> s.known, rows |-> <<>>, found |-> s.found]

Behind(rows, latency, elements) ==
  {row + Ceil(latency, elements) : row \in rows \ {never}}

NeedRow(e, s, v, body_cycle, elements) ==
  Greatest({v.row, Ceil(earliest(e, [s EXCEPT !.known = v.known], body_cycle) - body_cycle,
                        elements)}
    \union Behind({v.ready[a] : a \in ReadSet(e, v.known)}
                  \union (IF ReadsAMemory(e) THEN {v.unknown} ELSE {}),
                  result_latency, elements)
    \union (IF e.op = "sel" THEN Behind({v.state}, state_latency, elements) ELSE {})
    \union Behind({v.index[o.mode] : o \in {o \in {e.r, e.x, e.y} : is_indexed(o)}},
                  index_latency, elements))

PutRow(e, at, v, row) ==
  [v EXCEPT !.row = row + 1, !.found[at] = row - v.row,
     !.rows = @ \o Repeated(wait_nop, row - v.row) \o <<at>>,
     !.ready = [a \in RegisterAddresses |-> IF a \in WriteSet(e, v.known) THEN row ELSE @[a]],
     !.unknown = IF Writes(e) /\ Anywhere(e.r, v.known) THEN row ELSE @,
     !.state = IF e.op \in SetsFlags THEN row ELSE @,
     !.index = IF e.op = "idx" THEN [@ EXCEPT ![e.which] = row] ELSE @,
     !.known = IF e.op = "idx" THEN [@ EXCEPT ![e.which] = Unknown] ELSE @]

place_rows(p, from, to, s, before, body_cycle, elements) ==
  FoldLeft(LAMBDA v, at : PutRow(p[at], at, v, NeedRow(p[at], s, v, body_cycle, elements)),
           before, [k \in 1 .. to - from |-> from + k - 1])

Vectored(p, at, s, v, end_cycle) ==
  [Forget(FoldLeft(LAMBDA b, k : note_writes(p[k], b, end_cycle - 1),
                   [s EXCEPT !.known = v.known],
                   [k \in 1 .. p[at].end - 1 - at |-> at + k]),
          p[at].which) EXCEPT
     !.next = end_cycle, !.found = v.found, !.rows = @ \o <<at>> \o v.rows,
     !.last[at] = Len(s.rows) + 1 + Len(v.rows)]

(* A bubble behind the first row's first element, which the mutant forgets. *)
Bubbled_not(p, at, s, v) == Vectored(p, at, s, v, s.next + 1 + v.row * p[at].count)
Bubbled(p, at, s, v) == Vectored(p, at, s, v, s.next + 2 + v.row * p[at].count)

place_vloop(p, at, s) ==
  LET inside   == Forget(s, p[at].which)
      elements == IF p[at].count < vector_round THEN p[at].count ELSE vector_round
  IN  Bubbled(p, at, s, place_rows(p, at + 1, p[at].end, inside, NoRows(inside),
                                   s.next + 1, elements))

(***************************************************************************)
(* A scalar loop: its body is scheduled from the loop's entry, then from   *)
(* its own end as the next iteration sees it, with the larger waits, until *)
(* none grows; four times at most.                                         *)
(***************************************************************************)
Later(s, cycles) ==
  [s EXCEPT !.ready = [a \in RegisterAddresses |-> @[a] + cycles],
            !.state = @ + cycles, !.unknown = @ + cycles]

RECURSIVE place(_, _, _, _), Settle(_, _, _, _)

(* A round: the body as first laid, and again from its own end.            *)
Grown(again, body) == {k \in body : again.found[k] > again.minimum[k]}
Raise(again, body) == [k \in DOMAIN again.found |->
                         IF k \in Grown(again, body) THEN again.found[k] ELSE again.minimum[k]]

Round(p, at, entry, round, first, again) ==
  LET body == at + 1 .. p[at].end - 1
      laid == [first EXCEPT !.found = again.found, !.minimum = Raise(again, body)]
  IN  CASE Grown(again, body) = {} -> laid
        [] Grown(again, body) # {} /\ round < 4 ->
             Settle(p, at, [entry EXCEPT !.minimum = laid.minimum], round + 1)
        [] OTHER -> [laid EXCEPT !.ready = entry.ready, !.state = entry.state,
                                 !.unknown = entry.unknown, !.known = entry.known]

Again(p, at, entry, round, first) ==
  Round(p, at, entry, round, first,
        place(p, at + 1, p[at].end, [first EXCEPT !.next = @ + jump_penalty]))

(* Mutant: the body is laid once, not as the next iteration sees it.       *)
Settle_once(p, at, entry, round) == place(p, at + 1, p[at].end, entry)

Settle(p, at, entry, round) ==
  Again(p, at, entry, round, place(p, at + 1, p[at].end, entry))

(* The body count times, a jump between iterations.  The mutant does not   *)
(* count the LOOP's own row before the body.                               *)
Iterate_one_short(p, at, s, body, cycles) ==
  LET later == (p[at].count - 1) * (cycles + jump_penalty)
      base  == Len(s.rows) + 1
  IN  [Later(Forget(body, p[at].which), later) EXCEPT
         !.next = s.next + 1 + later + cycles,
         !.rows = s.rows \o <<at>> \o @,
         !.last = [k \in DOMAIN p |-> CASE k = at -> Len(s.rows) + Len(body.rows)
                     [] k \in at + 1 .. p[at].end - 1 /\ IsLoop(p[k]) -> @[k] + base
                     [] OTHER -> @[k]]]

Iterate(p, at, s, body, cycles) ==
  LET later == (p[at].count - 1) * (cycles + jump_penalty)
      base  == Len(s.rows) + 1
  IN  [Later(Forget(body, p[at].which), later) EXCEPT
         !.next = s.next + 1 + later + cycles,
         !.rows = s.rows \o <<at>> \o @,
         !.last = [k \in DOMAIN p |-> CASE k = at -> base + Len(body.rows)
                     [] k \in at + 1 .. p[at].end - 1 /\ IsLoop(p[k]) -> @[k] + base
                     [] OTHER -> @[k]]]

Looped(p, at, s, body) == Iterate(p, at, s, body, body.next - (s.next + 1))

place_loop(p, at, s) ==
  Looped(p, at, s,
    Settle(p, at, [Forget(s, p[at].which) EXCEPT !.next = @ + 1, !.rows = <<>>], 1))

(* A loop that runs nothing is not assembled: not its row, not its body.   *)
place(p, from, to, s) ==
  IF from >= to THEN s ELSE
  LET e == p[from] IN
  CASE IsLoop(e) /\ e.count = 0 -> place(p, e.end, to, s)
    [] e.op = "loop" /\ e.count > 0 -> place(p, e.end, to, place_loop(p, from, s))
    [] e.op = "vloop" /\ e.count > 0 -> place(p, e.end, to, place_vloop(p, from, s))
    [] OTHER -> place(p, from + 1, to, place_scalar(p, from, s))

-----------------------------------------------------------------------------
(***************************************************************************)
(* The image: the rows placed, END behind them, and the decode ROM with a  *)
(* row for each control word they need.                                    *)
(***************************************************************************)
vector_loop(w) == [NOP EXCEPT !.op = "vloop", !.which = w]
END == [NOP EXCEPT !.op = "end"]

rom_reserved == <<control_of(NOP), control_of(vector_loop("i")), control_of(vector_loop("j"))>>

rom_row(rom, control) == IF Contains(rom, control) THEN rom ELSE Append(rom, control)

Refused == [ok |-> FALSE, rows |-> <<>>, rom |-> <<>>, cycles |-> 0]

Encoded(p, last, rows, placed, rom) ==
  [k \in DOMAIN rows |->
     encode(rows[k], CHOOSE n \in DOMAIN rom : rom[n] = control_of(rows[k]),
            IF IsLoop(rows[k]) THEN last[placed[k]] ELSE 0)]

ROM(rows) == FoldLeft(LAMBDA r, e : rom_row(r, control_of(e)), rom_reserved, rows)

Image(p, s, rows, rom) ==
  IF \/ s.next + 1 > pass_cycle_limit \/ Len(rows) > program_limit \/ Len(rom) > op_count
  THEN Refused
  ELSE [ok |-> TRUE, rows |-> Encoded(p, s.last, rows, s.rows, rom), rom |-> rom,
        cycles |-> s.next + 1]

WithROM(p, s, rows) == Image(p, s, rows, ROM(rows))

Laid(p, s) ==
  WithROM(p, s, [k \in DOMAIN s.rows |-> IF s.rows[k] = wait_nop THEN NOP ELSE p[s.rows[k]]]
                \o <<END>>)

build(p) ==
  IF issue \/ \E at \in DOMAIN p : Wrong(p, at) THEN Refused
  ELSE Laid(p, place(p, 1, Len(p) + 1, Nowhere(p)))
=============================================================================
