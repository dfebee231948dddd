----------------------------- MODULE CspSchedule ------------------------------
(***************************************************************************)
(* A control program from its emission to its pass: instructions emitted   *)
(* and loops closed in any order a caller may use, the builder's schedule, *)
(* and the reference model's run of the image.  The chip has no interlock, *)
(* so what the builder says of time must be what the pass does.            *)
(***************************************************************************)
EXTENDS ProgramBuilder

CONSTANTS Menu,              \* the arithmetic instructions emitted
          Indexes,           \* the IDX instructions
          Loops,             \* [op, which, count, imm] of the loops opened
          MaxInstructions,   \* bound
          Held, Carried, None

VARIABLES built,             \* what build() returned, or None
          image, state, vector, ran

P == INSTANCE Processor

vars == <<instructions, issue, built, image, state, vector, ran>>

Init == BuilderInit /\ built = None /\ P!ProcessorInit

Emitting == built = None /\ Len(instructions) < MaxInstructions
Left == UNCHANGED <<built, image, state, vector, ran>>

EmitArithmetic == Emitting /\ (\E e \in Menu \union Indexes : arithmetic(e)) /\ Left

OpenLoop ==
  /\ Emitting
  /\ \E l \in Loops : open_loop(l.which, l.count, l.imm, l.op = "vloop")
  /\ Left

CloseLoop ==
  /\ built = None
  /\ \E at \in DOMAIN instructions :
       instructions[at].open /\ close_loop(at, Len(instructions) + 1)
  /\ Left

Build ==
  /\ built = None /\ instructions # <<>>
  /\ built' = build(instructions)
  /\ image' = IF built'.ok THEN [rows |-> built'.rows, rom |-> built'.rom] ELSE None
  /\ UNCHANGED <<instructions, issue, state, vector, ran>>

Pass == P!pass /\ UNCHANGED <<instructions, issue, built>>

Next == EmitArithmetic \/ OpenLoop \/ CloseLoop \/ Build \/ Pass

Spec == Init /\ [][Next]_vars

-----------------------------------------------------------------------------
(***************************************************************************)
(* What a program means, apart from any schedule: its instructions in      *)
(* order, a scalar loop's body count times, a vector loop's row by row for *)
(* the elements of each round, and the index registers each sees.          *)
(***************************************************************************)
LOCAL Does(e, index) ==
  [op |-> e.op, wide |-> e.wide, a_source |-> control_of(e).a_source,
   r |-> e.r, x |-> e.x, y |-> e.y, imm |-> e.imm, index |-> index]

LOCAL Set(e, index) ==
  IF e.op # "idx" THEN index
  ELSE [index EXCEPT ![e.which] = (IF e.x = immediate THEN e.imm ELSE Held) % address_space]

LOCAL Walk(index, e, times) ==
  [index EXCEPT ![e.which] = (@ + (times * e.imm)) % address_space]

(* One element of a vector loop: its i and j at every row of the body.     *)
LOCAL Element(p, at, index, n) ==
  [k \in at .. p[at].end - 1 |->
     FoldLeft(LAMBDA seen, q : Set(p[q], seen), Walk(index, p[at], n),
              [q \in 1 .. k - at - 1 |-> at + q])]

LOCAL RoundOf(p, at, index, first) ==
  LET e == p[at]
      elements == IF e.count - first < vector_round THEN e.count - first ELSE vector_round
      rows == e.end - 1 - at
  IN  [n \in 1 .. rows * elements |->
         LET k == at + 1 + (n - 1) \div elements IN
         Does(p[k], Element(p, at, index, first + ((n - 1) % elements))[k])]

LOCAL Vector(p, at, did) ==
  LET e == p[at]
      rounds == (e.count + vector_round - 1) \div vector_round
      lastly == Element(p, at, did.index, e.count - 1)
  IN  [ran |-> did.ran \o FlattenSeq([n \in 1 .. rounds |->
                            RoundOf(p, at, did.index, (n - 1) * vector_round)]),
       index |-> [w \in IndexRegisters |->
                    IF w = e.which THEN Walk(did.index, e, e.count)[w]
                    ELSE Set(p[e.end - 1], lastly[e.end - 1])[w]]]

RECURSIVE Meaning(_, _, _, _)
Meaning(p, from, to, did) ==
  IF from >= to THEN did ELSE
  LET e == p[from]
      Once(d, n) == LET inside == Meaning(p, from + 1, e.end, d)
                    IN  [inside EXCEPT !.index = Walk(@, e, 1)]
  IN  CASE e.op = "loop" -> Meaning(p, e.end, to,
                              FoldLeft(Once, did, [n \in 1 .. e.count |-> n]))
        [] e.op = "vloop" -> Meaning(p, e.end, to,
                              IF e.count = 0 THEN did ELSE Vector(p, from, did))
        [] OTHER -> Meaning(p, from + 1, to,
                      [ran |-> Append(did.ran, Does(e, did.index)), index |-> Set(e, did.index)])

Finished == built # None /\ built.ok /\ state.stopped

Program == instructions
Inside(inner, outer) == inner \in outer + 1 .. Program[outer].end - 1
Runs(at) == IsLoop(Program[at]) /\ Program[at].count > 0

(* An outer loop that holds nothing but loops of count 0: its body has no  *)
(* row.  build() accepts it (close_loop refuses a body only for having no  *)
(* entry, program_builder.cpp:238), lays out the loop's row with itself as *)
(* its last, and the processor runs on into what is behind it              *)
(* (processor.cpp:560), where the document has a loop of count 0 leave     *)
(* nothing behind (docs/csp2_isa.md:166-169).                              *)
HoldsOnlyOmitted ==
  \E at \in DOMAIN Program :
    /\ Runs(at)
    /\ \A k \in at + 1 .. Program[at].end - 1 :
         \E loop \in at + 1 .. k : Program[loop].count = 0 /\ IsLoop(Program[loop])
                                   /\ k < Program[loop].end

(***************************************************************************)
(* PROPERTY.  The image runs the program: the instructions it executes,    *)
(* each with the i and j it sees, are the program's, whatever rows the     *)
(* schedule put between them, wherever loops begin and end, and whichever  *)
(* of them are omitted (program_builder.cpp, place and the rows), but for a*)
(* program with a loop that holds only omitted ones, which build() accepts *)
(* and the processor runs otherwise.                                       *)
(***************************************************************************)
RunsTheProgram ==
  Finished /\ ~HoldsOnlyOmitted =>
    ran = Meaning(Program, 1, Len(Program) + 1, [ran |-> <<>>, index |-> Carried]).ran

(***************************************************************************)
(* PROPERTY.  A pass takes the cycles its program was built to take, so    *)
(* that the limit build() enforces is the limit the pass keeps             *)
(* (program_builder.cpp:789-799); but for a program with a loop that holds *)
(* only omitted ones.                                                      *)
(***************************************************************************)
CyclesAsScheduled ==
  Finished /\ ~HoldsOnlyOmitted => state.cycle = built.cycles /\ "long" \notin state.errors

(***************************************************************************)
(* PROPERTY.  No row of a built image reads a register, the flags or an    *)
(* index before it is ready (program_builder.cpp:4-16), but for programs   *)
(* that are wrong themselves and for four that the builder gets wrong:     *)
(* a vector loop whose last round is a part of one; a loop in a loop, with *)
(* something behind the inner one that writes; an IDX in a vector body     *)
(* whose index is used behind it; a vector loop in a loop, whose rows read *)
(* what they wrote in the outer loop's iteration before (a vector body is  *)
(* given no minimum_wait, program_builder.cpp:585-760).                    *)
(***************************************************************************)
OwnFault == state.errors \intersect {"shared", "outside", "overlap", "empty"} # {}

PartLastRound ==
  \E at \in DOMAIN Program :
    /\ Program[at].op = "vloop" /\ Program[at].count > vector_round
    /\ Program[at].count % vector_round # 0

WritesBehindInner ==
  \E outer, inner, k \in DOMAIN Program :
    /\ Runs(outer) /\ Runs(inner) /\ Inside(inner, outer) /\ Inside(k, outer)
    /\ k >= Program[inner].end /\ Program[k].op \in WritesRegister

IndexBehindVector ==
  \E at, k, use \in DOMAIN Program :
    /\ Program[at].op = "vloop" /\ Runs(at) /\ Inside(k, at) /\ Program[k].op = "idx"
    /\ use >= Program[at].end
    /\ \E operand \in {Program[use].r, Program[use].x, Program[use].y} :
         operand.mode = Program[k].which

(* A row of a vector body that read, in this run of the program, a register*)
(* that it or a row behind it wrote in an iteration before.                *)
VectorReadsBack ==
  \E outer, inner, writer, reader \in DOMAIN Program :
    /\ Program[outer].op = "loop" /\ Runs(outer)
    /\ Program[inner].op = "vloop" /\ Inside(inner, outer)
    /\ Inside(writer, inner) /\ Inside(reader, inner) /\ reader <= writer
    /\ \E m, n \in DOMAIN ran :
         /\ m < n /\ ran[m] = Does(Program[writer], ran[m].index)
         /\ ran[n] = Does(Program[reader], ran[n].index)
         /\ WriteSet(Program[writer], ran[m].index)
              \intersect ReadSet(Program[reader], ran[n].index) # {}

ScheduleIsSafe ==
  Finished /\ ~OwnFault /\ ~PartLastRound /\ ~WritesBehindInner /\ ~IndexBehindVector
    /\ ~VectorReadsBack => "early" \notin state.errors

(***************************************************************************)
(* PROPERTY.  What the builder's comment says of every program             *)
(* (program_builder.cpp:6-9): an instruction issues when everything it     *)
(* reads is ready.                                                         *)
(***************************************************************************)
ScheduleIsAlwaysSafe == Finished /\ ~OwnFault => "early" \notin state.errors
=============================================================================
