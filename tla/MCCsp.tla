------------------------------- MODULE MCCsp ---------------------------------
(***************************************************************************)
(* Checks three parts of the processor in one run: the programs the        *)
(* builder makes for it (CspSchedule), its pass (CspPass) and the wire it  *)
(* is written over (SpiBus).  They share no state: a behaviour is one of   *)
(* them.                                                                   *)
(***************************************************************************)
EXTENDS CspPass, SpiBus

CONSTANTS register_count, address_space, io_base, io_count, direct_reach, program_limit,
          op_count, pass_cycle_limit, vector_round, result_latency, state_latency,
          index_latency, jump_penalty,
          MaxInstructions, Held

VARIABLES
  part,
  instructions, issue, built, image, state, vector, ran

program_vars == <<instructions, issue, built, image, state, vector, ran>>

Menus == INSTANCE MCCspMenus

ASSUME MenusAssumption == Menus!CspAssumption

Programs == INSTANCE CspSchedule WITH
  Menu <- Menus!MCMenu, Indexes <- Menus!MCIndexes, Loops <- Menus!MCLoops,
  Carried <- Menus!MCCarried

(* Dwords of two nonets.  Stored dwords at 0 and 1, CTRL the latter, a     *)
(* status dword at 2, the probe's address at 3, the FIFO's door at 4, two  *)
(* partials.                                                               *)
Plain == [swap |-> FALSE, value |-> 1]
Swapping == [swap |-> TRUE, value |-> 1]
write(address, inc, dwords) ==
  [read |-> FALSE, auto_increment |-> inc, address |-> address, dwords |-> dwords, count |-> 0]
read(address, count) ==
  [read |-> TRUE, auto_increment |-> TRUE, address |-> address, dwords |-> <<>>, count |-> count]

MCRequests ==
  {write(0, TRUE, <<Plain, Swapping, Plain, Plain>>),
   write(4, FALSE, <<Plain, Swapping>>),
   write(6, TRUE, [k \in 1 .. 4 |-> Plain]), write(11, TRUE, [k \in 1 .. 4 |-> Swapping]),
   read(1, 3)}

MCStatus == [address \in {2} |-> Swapping]
MCZero == [swap |-> FALSE, value |-> 0]

CspInit == part \in {"program", "pass", "wire"} /\ Programs!Init /\ Init /\ WireInit

CspNext ==
  /\ UNCHANGED part
  /\ \/ part = "program" /\ Programs!Next /\ UNCHANGED <<vars, wire_vars>>
     \/ part = "pass" /\ Next /\ UNCHANGED <<program_vars, wire_vars>>
     \/ part = "wire" /\ WireNext /\ UNCHANGED <<program_vars, vars>>

CspSpec == CspInit /\ [][CspNext]_<<part, program_vars, vars, wire_vars>>

(* PROPERTY.  A built image runs the program it was built from, whatever   *)
(* rows the schedule put between its instructions, but for a program with a*)
(* loop that holds only loops of count 0 (CspSchedule).                    *)
RunsTheProgram == Programs!RunsTheProgram

(* PROPERTY.  It takes the cycles it was built to take, with the same      *)
(* exception (CspSchedule).                                                *)
CyclesAsScheduled == Programs!CyclesAsScheduled

(* PROPERTY.  None of its rows reads what is not ready, but in four named  *)
(* cases (CspSchedule).                                                    *)
ScheduleIsSafe == Programs!ScheduleIsSafe
=============================================================================
