------------------------------- MODULE MidiIn -------------------------------
(***************************************************************************)
(* app/main/midi_in.c: the task of a MIDI port.  It reads a byte at a time *)
(* with a time-out of 50 ms, feeds its parser, and keeps the Active Sensing*)
(* rule: a port that has sent FE and is then silent for 500 ms has lost its*)
(* link, and the notes are turned off by a CC 123 of the firmware's own.   *)
(*                                                                         *)
(* `delivered` is what goes to the bus and to midi_sysex.  `wire` is not   *)
(* the program's: it is all the port has seen, silences of 50 ms included, *)
(* from which what should be delivered can be read off.                    *)
(***************************************************************************)
EXTENDS MidiParser

CONSTANTS SILENCES,        \* MIDI_SOURCE_TIMEOUT_MS / MIDI_PARTIAL_TIMEOUT_MS (10)
          MaxWire          \* bound: bytes and silences in a behaviour

ASSUME WireAssumption == SILENCES \in Nat \ {0} /\ MaxWire \in Nat

VARIABLES sensing,         \* FE seen: silence now means a broken link
          idle,            \* idle_ms, in silences
          wire             \* history: what the port has seen

midi_vars == <<parser_vars, delivered, sensing, idle, wire>>

Gap      == Plain("gap")
NotesOff == [kind |-> "notes_off", type |-> NoStatus, bytes |-> <<123, 0>>]

MidiInit == midi_parser_init /\ sensing = FALSE /\ idle = 0 /\ wire = <<>>

Seen(byte) == Len(wire) < MaxWire /\ wire' = Append(wire, byte)

Receive(byte) ==
  /\ Seen(byte)
  /\ sensing' = (sensing \/ byte.class = "sense")
  /\ idle' = 0
  /\ midi_parser_feed(byte)

(* The read times out.                                                     *)
Silence ==
  /\ Seen(Gap)
  /\ idle' = (idle + 1) % SILENCES
  /\ IF idle + 1 = SILENCES /\ sensing
     THEN midi_parser_reset /\ Deliver(NotesOff) /\ sensing' = FALSE
     ELSE midi_parser_reset_partial /\ UNCHANGED <<delivered, sensing>>

midi_in_task == Silence \/ \E byte \in Bytes : Receive(byte)

MidiNext == midi_in_task

MidiSpec == MidiInit /\ [][MidiNext]_midi_vars

-----------------------------------------------------------------------------
(***************************************************************************)
(* The wire read as MIDI 1.0, position by position and without the state   *)
(* of a parser or a task: what, if anything, is complete at position i.    *)
(***************************************************************************)
IsGap(k) == wire[k].class = "gap"

(* A silence of 500 ms since a byte ends here, a byte before it having been*)
(* FE: unless a silence between has broken the link already.               *)
QuietAt(k) == /\ k > SILENCES /\ ~IsGap(k - SILENCES)
              /\ \A j \in k - SILENCES + 1 .. k : IsGap(j)

BreaksAt(k) ==
  /\ QuietAt(k)
  /\ \E s \in 1 .. k - 1 : /\ wire[s].class = "sense"
                           /\ \A j \in s + 1 .. k - 1 : ~QuietAt(j)

LastOf(to, classes) ==      \* the last position of these classes, or 0
  Max({0} \union {k \in 1 .. to : wire[k].class \in classes})

(* Where the data bytes after from are, up to to; and the n-th of them.    *)
DataAt(from, to) == {k \in from + 1 .. to : wire[k].class = "data"}
Nth(at, n) == Min({k \in at : Cardinality({j \in at : j <= k}) = n})

(* A data byte belongs to the last status, if nothing since has cancelled  *)
(* it.  Whole messages follow each other from there or from a silence.     *)
Owner(to)   == LastOf(to, {"status", "reset", "sysex", "eox", "common"})
Running(to) ==
  LET owner == Owner(to)
  IN  IF /\ owner # 0 /\ wire[owner].class = "status"
         /\ \A k \in owner .. to : ~BreaksAt(k)
      THEN wire[owner].value ELSE NoStatus

Since(to) == LastOf(to, {"status", "reset", "sysex", "eox", "common", "gap"})

MessageAt(i) ==
  LET type   == Running(i - 1)
      before == DataAt(Since(i - 1), i - 1)
      bytes  == IF DataLen(type) = 1 THEN <<wire[i].value>>
                                     ELSE <<wire[Max(before)].value, wire[i].value>>
  IN  IF /\ wire[i].class = "data" /\ type # NoStatus
         /\ (Cardinality(before) + 1) % DataLen(type) = 0
      THEN <<Normalised(type, bytes)>> ELSE <<>>

(* A frame runs from its F0 to its F7 with data between, real time aside.  *)
Opening(to) == LastOf(to, {"status", "sysex", "eox", "common", "gap"})

FrameAt(i) ==
  LET open  == Opening(i - 1)
      at    == DataAt(open, i - 1)
      bytes == [n \in 1 .. Cardinality(at) |-> wire[Nth(at, n)].value]
  IN  IF /\ wire[i].class = "eox"
         /\ open # 0 /\ wire[open].class = "sysex"
         /\ Cardinality(at) <= SYSEX_MAX
      THEN <<Frame(bytes)>> ELSE <<>>

NotesOffAt(i) == IF BreaksAt(i) THEN <<NotesOff>> ELSE <<>>

(* What the last byte, or silence, of the wire completes.                  *)
Completed == LET i == Len(wire) IN MessageAt(i) \o FrameAt(i) \o NotesOffAt(i)

(***************************************************************************)
(* What the port delivers is exactly the messages and frames on its wire,  *)
(* each as its last byte comes, and one notes-off for each link that broke:*)
(* running status, real-time bytes inside a message, cut and overlong      *)
(* frames, and silences of any length included (midi_parser.h:1-17,        *)
(* midi_in.c:37-50).                                                       *)
(***************************************************************************)
DeliversTheWire ==
  [][wire' # wire /\ delivered' = delivered \o Completed']_midi_vars
=============================================================================
