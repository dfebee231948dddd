------------------------------- MODULE SpiBus --------------------------------
(***************************************************************************)
(* The SPI wire in nines: app/main/spi_link.cpp, which makes a request a   *)
(* frame of nonets and takes a reply out of what comes back, and           *)
(* rtl/spi/spi_bus.sv, the slave.  A step is a nonet each way; the edges   *)
(* within one are the shift registers' own.                                *)
(*                                                                         *)
(* A nonet of data is a part of a dword, an address two nonets of          *)
(* NONET values each.  The master may stop anywhere: a reset of the        *)
(* firmware cuts its frame off, and the slave sees CS rise.  IMEM, the ROM *)
(* and the lab's counters, which only pass the address on, are left out,   *)
(* and so are the write trap and the levels that follow CTRL.              *)
(***************************************************************************)
EXTENDS Integers, Sequences

CONSTANTS Requests,                      \* the frames the firmware sends
          burst_max,                     \* dwords of a frame, the rest left out
          NONET,                         \* 512
          NONETS_PER_DWORD,              \* 4
          ID_NONET,
          MAP_CTRL, MAP_STORED_DWORDS,   \* 8
          MAP_SYSTEM_DWORDS,             \* 16
          MAP_PROBE_ADDRESS, MAP_FIFO_DOOR,
          MAP_PARTIAL_BASE, MAP_PARTIAL_STRIDE, NUM_PARTIALS,
          Status, Values, ZeroDword, None

(* A dword is CTRL's swap bit and the others.                              *)
WireDwords == [swap : BOOLEAN, value : Values]

ASSUME SpiAssumption ==
  /\ {burst_max, NONET, NONETS_PER_DWORD, MAP_CTRL, MAP_STORED_DWORDS, MAP_SYSTEM_DWORDS,
      MAP_PROBE_ADDRESS, MAP_FIFO_DOOR, MAP_PARTIAL_BASE, MAP_PARTIAL_STRIDE, NUM_PARTIALS}
       \subseteq Nat
  /\ NONET >= 1 /\ NONETS_PER_DWORD > 1
  /\ MAP_CTRL < MAP_STORED_DWORDS
  /\ MAP_PROBE_ADDRESS \in MAP_STORED_DWORDS .. MAP_SYSTEM_DWORDS - 1
  /\ MAP_PARTIAL_STRIDE > 3 /\ burst_max > 3
  /\ ZeroDword \in WireDwords
  /\ Status \in [(MAP_STORED_DWORDS .. MAP_SYSTEM_DWORDS - 1) \ {MAP_PROBE_ADDRESS} -> WireDwords]

(* Where a request's dword goes that has k before it.                      *)
At(r, k) == IF r.auto_increment THEN r.address + k ELSE r.address
DwordsOf(r) == IF r.read THEN r.count ELSE Len(r.dwords)

Base(index) == MAP_PARTIAL_BASE + index * MAP_PARTIAL_STRIDE
Bases == {Base(index) : index \in 0 .. NUM_PARTIALS - 1}

(* Requests stay in the address space, and send a partial's pointers whole *)
(* (engine_link.cpp:674).                                                  *)
ASSUME RequestsAssumption ==
  /\ None \notin Requests
  /\ \A r \in Requests :
       /\ r.read \in BOOLEAN /\ r.auto_increment \in BOOLEAN
       /\ r.address \in Nat /\ r.count \in Nat /\ r.dwords \in Seq(WireDwords)
       /\ At(r, DwordsOf(r)) < NONET * NONET
       /\ \A k \in 1 .. Len(r.dwords) :
            ~r.read /\ At(r, k - 1) - 3 \in Bases => r.auto_increment /\ k > 3

VARIABLES
  (* the master *)
  request, frame, rx,
  (* the slave *)
  frame_phase, is_read, auto_increment, dword_address, nonet_index,
  partial_dword, stream_dword, system_dword, system_probe_register,
  pointer_stage, pointer_entry,
  strobes                                \* history: the FIFO's, in this frame

master_vars == <<request, frame, rx>>
slave_vars == <<frame_phase, is_read, auto_increment, dword_address, nonet_index,
                partial_dword, stream_dword>>
map_vars == <<system_dword, system_probe_register, pointer_stage, pointer_entry, strobes>>
wire_vars == <<master_vars, slave_vars, map_vars>>

Part(dword, k) == [dword |-> dword, part |-> k]
Parts(dword) == [k \in 1 .. NONETS_PER_DWORD |-> Part(dword, k)]
Blank == Part(ZeroDword, 0)

(* Parts that are one dword's make it again.                               *)
Whole(parts) == IF parts = Parts(parts[1].dword) THEN parts[1].dword ELSE None

WireInit ==
  /\ request = None /\ frame = <<>> /\ rx = <<>>
  /\ frame_phase = "command" /\ is_read = FALSE /\ auto_increment = FALSE
  /\ dword_address = 0 /\ nonet_index = 0
  /\ partial_dword = [k \in 1 .. NONETS_PER_DWORD - 1 |-> Blank] /\ stream_dword = ZeroDword
  /\ system_dword = [address \in 0 .. MAP_STORED_DWORDS - 1 |-> ZeroDword]
  /\ system_probe_register = ZeroDword                                \* PARK_REGISTER
  /\ pointer_stage = <<ZeroDword, ZeroDword, ZeroDword>>
  /\ pointer_entry = [index \in 0 .. NUM_PARTIALS - 1 |-> <<ZeroDword, ZeroDword, ZeroDword, ZeroDword>>]
  /\ strobes = <<>>

-----------------------------------------------------------------------------
(* spi_link.cpp: write_frame and read_frame.                               *)
Capped(count) == IF count > burst_max THEN burst_max ELSE count

header(r) ==
  << [read |-> r.read, auto_increment |-> r.auto_increment],
     r.address \div NONET, r.address % NONET >>

write_frame(r) ==
  header(r) \o
    [k \in 1 .. NONETS_PER_DWORD * Capped(Len(r.dwords)) |->
       Part(r.dwords[((k - 1) \div NONETS_PER_DWORD) + 1], ((k - 1) % NONETS_PER_DWORD) + 1)]

read_frame(r) ==
  header(r) \o [k \in 1 .. NONETS_PER_DWORD * (1 + Capped(r.count)) |-> Blank]

Frame(r) == IF r.read THEN read_frame(r) ELSE write_frame(r)

(* The ID, the address and the turnaround are skipped.                     *)
Reply ==
  LET from == 3 + NONETS_PER_DWORD
      count ==
        IF request = None \/ ~request.read \/ Len(rx) < from THEN 0
        ELSE (Len(rx) - from) \div NONETS_PER_DWORD
      at(k) == from + NONETS_PER_DWORD * (k - 1)
  IN  [k \in 1 .. count |-> Whole(SubSeq(rx, at(k) + 1, at(k) + NONETS_PER_DWORD))]

Begin ==
  /\ request = None /\ request' \in Requests
  /\ frame' = Frame(request')
  /\ rx' = <<>> /\ strobes' = <<>>
  /\ UNCHANGED <<slave_vars, system_dword, system_probe_register, pointer_stage,
                 pointer_entry>>

(* CS rises, at the frame's end or wherever it is cut off.  What the slave *)
(* keeps between frames stays as it is.                                    *)
Deselect ==
  /\ request # None
  /\ request' = None /\ frame' = <<>> /\ rx' = <<>> /\ strobes' = <<>>
  /\ frame_phase' = "command" /\ nonet_index' = 0
  /\ UNCHANGED <<is_read, auto_increment, dword_address, partial_dword, stream_dword,
                 system_dword, system_probe_register, pointer_stage, pointer_entry>>

-----------------------------------------------------------------------------
(* spi_bus.sv.                                                             *)
in_system(address) == address < MAP_SYSTEM_DWORDS
system_at(address) ==
  IF address < MAP_STORED_DWORDS THEN system_dword[address]
  ELSE IF address = MAP_PROBE_ADDRESS THEN system_probe_register ELSE Status[address]
addressed_data == IF in_system(dword_address) THEN system_at(dword_address) ELSE ZeroDword

last_nonet_of_dword == nonet_index = NONETS_PER_DWORD - 1
Stepped == IF auto_increment THEN (dword_address + 1) % (NONET * NONET) ELSE dword_address

tx_nonet ==
  CASE frame_phase = "command" -> ID_NONET
    [] frame_phase = "data" /\ is_read -> Part(stream_dword, nonet_index + 1)
    [] OTHER -> Blank

(* A nonet each way: the frame's next, and tx_nonet.                       *)
rx_nonet == frame[Len(rx) + 1]
Exchanged ==
  /\ Len(rx) < Len(frame)
  /\ rx' = Append(rx, tx_nonet)
  /\ UNCHANGED <<request, frame>>

Command ==
  /\ frame_phase = "command" /\ Exchanged
  /\ is_read' = rx_nonet.read /\ auto_increment' = rx_nonet.auto_increment
  /\ frame_phase' = "address_high"
  /\ UNCHANGED <<dword_address, nonet_index, partial_dword, stream_dword, map_vars>>

AddressHigh ==
  /\ frame_phase = "address_high" /\ Exchanged
  /\ dword_address' = rx_nonet * NONET + (dword_address % NONET)
  /\ frame_phase' = "address_low"
  /\ UNCHANGED <<is_read, auto_increment, nonet_index, partial_dword, stream_dword, map_vars>>

AddressLow ==
  /\ frame_phase = "address_low" /\ Exchanged
  /\ dword_address' = (dword_address \div NONET) * NONET + rx_nonet
  /\ nonet_index' = 0
  /\ frame_phase' = IF is_read THEN "turnaround" ELSE "data"
  /\ UNCHANGED <<is_read, auto_increment, partial_dword, stream_dword, map_vars>>

(* Mutant: the address stays on the dword streaming.                       *)
Ahead_not == dword_address

(* Reads run one dword ahead.                                              *)
Ahead == Stepped

Turnaround ==
  /\ frame_phase = "turnaround" /\ Exchanged
  /\ nonet_index' = (nonet_index + 1) % NONETS_PER_DWORD
  /\ IF last_nonet_of_dword
     THEN stream_dword' = addressed_data /\ dword_address' = Ahead /\ frame_phase' = "data"
     ELSE UNCHANGED <<stream_dword, dword_address, frame_phase>>
  /\ UNCHANGED <<is_read, auto_increment, partial_dword, map_vars>>

Data ==
  /\ frame_phase = "data" /\ Exchanged
  /\ partial_dword' = Append(Tail(partial_dword), rx_nonet)
  /\ nonet_index' = (nonet_index + 1) % NONETS_PER_DWORD
  /\ dword_address' = IF last_nonet_of_dword THEN Stepped ELSE dword_address
  /\ stream_dword' = IF last_nonet_of_dword /\ is_read THEN addressed_data ELSE stream_dword
  /\ UNCHANGED <<frame_phase, is_read, auto_increment>>

(* A dword completes at its last nonet, and lands where its address says.  *)
dword_data == Whole(Append(partial_dword, rx_nonet))
to_ctrl == dword_address = MAP_CTRL
swap == to_ctrl /\ dword_data.swap

partial_offset == dword_address - MAP_PARTIAL_BASE
in_partial == partial_offset \in 0 .. NUM_PARTIALS * MAP_PARTIAL_STRIDE - 1
pointer_dword == partial_offset % MAP_PARTIAL_STRIDE

Land ==
  /\ system_dword' = IF dword_address < MAP_STORED_DWORDS
                     THEN [system_dword EXCEPT ![dword_address] =
                             IF to_ctrl THEN [dword_data EXCEPT !.swap = FALSE] ELSE dword_data]
                     ELSE system_dword
  /\ system_probe_register' = IF dword_address = MAP_PROBE_ADDRESS THEN dword_data
                                                            ELSE system_probe_register
  /\ pointer_stage' = IF in_partial /\ pointer_dword < 3
                      THEN [pointer_stage EXCEPT ![pointer_dword + 1] = dword_data]
                      ELSE pointer_stage
  /\ pointer_entry' = IF in_partial /\ pointer_dword = 3
                      THEN [pointer_entry EXCEPT ![partial_offset \div MAP_PARTIAL_STRIDE] =
                              Append(pointer_stage, dword_data)]
                      ELSE pointer_entry
  /\ strobes' = CASE dword_address = MAP_FIFO_DOOR -> Append(strobes, dword_data)
                  [] swap -> Append(strobes, "swap")
                  [] OTHER -> strobes

DataNonet == Data /\ (is_read \/ ~last_nonet_of_dword) /\ UNCHANGED map_vars
DataDword == Data /\ ~is_read /\ last_nonet_of_dword /\ Land

WireNext ==
  \/ Begin \/ Deselect
  \/ Command \/ AddressHigh \/ AddressLow \/ Turnaround \/ DataNonet \/ DataDword

WireSpec == WireInit /\ [][WireNext]_wire_vars

-----------------------------------------------------------------------------
(***************************************************************************)
(* PROPERTY.  The wire is the memory map: every dword of a frame lands     *)
(* whole at its address, or is read from it, in order; a frame cut off has *)
(* done the dwords before the cut; and a partial's entry is four dwords of *)
(* one frame, though they are staged one by one and a cut leaves the stage *)
(* half full (spi_bus.sv:18-35, 317-332, spi_link.cpp:155-215).            *)
(***************************************************************************)
Kept == (0 .. MAP_STORED_DWORDS - 1) \union {MAP_PROBE_ADDRESS}

Done ==
  IF request = None \/ Len(rx) < 3 THEN 0
  ELSE IF request.read THEN Len(Reply) ELSE (Len(rx) - 3) \div NONETS_PER_DWORD
System == [address \in Kept |-> system_at(address)]
Entries == [base \in Bases |->
              pointer_entry[(base - MAP_PARTIAL_BASE) \div MAP_PARTIAL_STRIDE]]

Map == INSTANCE MemoryMap WITH
  CTRL <- MAP_CTRL, Stored <- Kept, DOOR <- MAP_FIFO_DOOR, Zero <- ZeroDword,
  Partials <- Bases, done <- Done, reply <- Reply, system <- System, entries <- Entries

MapAsWritten == Map!Spec
=============================================================================
