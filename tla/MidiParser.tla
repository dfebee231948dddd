----------------------------- MODULE MidiParser -----------------------------
(***************************************************************************)
(* app/main/midi_parser.c: the byte parser each MIDI port owns.            *)
(*                                                                         *)
(* A byte is a record of its class and, for the bytes that carry one, its  *)
(* value: a status's message type, a data byte's seven bits.               *)
(***************************************************************************)
EXTENDS Integers, Sequences, FiniteSetsExt, SequencesExt

CONSTANTS DataBytes,       \* seven-bit values, 0 among them
          SYSEX_MAX        \* bytes a SysEx frame may carry (64)

ASSUME BytesAssumption == DataBytes \subseteq 0 .. 127 /\ SYSEX_MAX \in Nat

VARIABLES running_status,  \* the status that data bytes belong to, or NoStatus
          data,            \* data bytes of the message under way
          in_sysex, sysex_overflow, sysex,
          delivered        \* the callbacks made, messages and frames

parser_vars == <<running_status, data, in_sysex, sysex_overflow, sysex>>

Types    == {"note_on", "program"}    \* a status of two data bytes, of one
NoStatus == "none"

Status(type) == [class |-> "status", value |-> type]
Data(d)      == [class |-> "data", value |-> d]
Plain(class) == [class |-> class, value |-> NoStatus]

(* F8..FD; FE; FF; F0; F7; the other system commons F1..F6.                *)
PlainBytes == {Plain("realtime"), Plain("sense"), Plain("reset"),
               Plain("sysex"), Plain("eox"), Plain("common")}
Bytes == PlainBytes \union {Status(t) : t \in Types}
                    \union {Data(d) : d \in DataBytes}

DataLen(type) == IF type = "program" THEN 1 ELSE 2

Message(type, bytes) == [kind |-> "message", type |-> type, bytes |-> bytes]
Frame(bytes) == [kind |-> "sysex", type |-> NoStatus, bytes |-> bytes]

(* A note-on of velocity 0 is a note-off.                                  *)
Normalised(type, bytes) ==
  IF type = "note_on" /\ bytes[2] = 0 THEN Message("note_off", bytes)
                                      ELSE Message(type, bytes)

midi_parser_init ==
  /\ running_status = NoStatus /\ data = <<>>
  /\ in_sysex = FALSE /\ sysex_overflow = FALSE /\ sysex = <<>>
  /\ delivered = <<>>

-----------------------------------------------------------------------------
Deliver(callback) == delivered' = Append(delivered, callback)

(* F8..FF: nothing but a reset's end of running status.                    *)
FeedRealTime(byte) ==
  /\ byte.class \in {"realtime", "sense", "reset"}
  /\ IF byte.class = "reset"
     THEN running_status' = NoStatus /\ data' = <<>>
     ELSE UNCHANGED <<running_status, data>>
  /\ UNCHANGED <<in_sysex, sysex_overflow, sysex, delivered>>

(* F0 opens a frame, F7 delivers it if it fitted, another cuts it short.   *)
FeedCommon(byte) ==
  /\ byte.class \in {"sysex", "eox", "common"}
  /\ running_status' = NoStatus /\ data' = <<>>
  /\ in_sysex' = (byte.class = "sysex")
  /\ IF byte.class = "sysex" THEN sysex_overflow' = FALSE /\ sysex' = <<>>
                             ELSE UNCHANGED <<sysex_overflow, sysex>>
  /\ IF byte.class = "eox" /\ in_sysex /\ ~sysex_overflow
     THEN Deliver(Frame(sysex)) ELSE UNCHANGED delivered

FeedSysexByte(byte) ==
  /\ byte.class = "data" /\ in_sysex
  /\ IF Len(sysex) < SYSEX_MAX
     THEN sysex' = Append(sysex, byte.value) /\ UNCHANGED sysex_overflow
     ELSE sysex_overflow' = TRUE /\ UNCHANGED sysex
  /\ UNCHANGED <<running_status, data, in_sysex, delivered>>

FeedStatus(byte) ==
  /\ byte.class = "status"
  /\ in_sysex' = FALSE
  /\ running_status' = byte.value /\ data' = <<>>
  /\ UNCHANGED <<sysex_overflow, sysex, delivered>>

FeedData(byte) ==
  LET bytes == Append(data, byte.value)
      whole == Len(bytes) = DataLen(running_status) IN
  /\ byte.class = "data" /\ ~in_sysex
  /\ \/ running_status = NoStatus /\ UNCHANGED <<data, delivered>>
     \/ running_status # NoStatus /\ whole
        /\ Deliver(Normalised(running_status, bytes)) /\ data' = <<>>
     \/ running_status # NoStatus /\ ~whole
        /\ data' = bytes /\ UNCHANGED delivered
  /\ UNCHANGED <<running_status, in_sysex, sysex_overflow, sysex>>

midi_parser_feed(byte) ==
  \/ FeedRealTime(byte) \/ FeedCommon(byte) \/ FeedSysexByte(byte)
  \/ FeedStatus(byte) \/ FeedData(byte)

(* Mutant: only a frame is dropped at a silence, not a message's bytes.    *)
midi_parser_reset_partial_sysex_only ==
  /\ in_sysex' = FALSE
  /\ UNCHANGED <<running_status, data, sysex_overflow, sysex>>

midi_parser_reset_partial ==
  /\ data' = <<>> /\ in_sysex' = FALSE
  /\ UNCHANGED <<running_status, sysex_overflow, sysex>>

midi_parser_reset ==
  /\ running_status' = NoStatus /\ data' = <<>> /\ in_sysex' = FALSE
  /\ UNCHANGED <<sysex_overflow, sysex>>
=============================================================================
