------------------------------ MODULE MemoryMap ------------------------------
(***************************************************************************)
(* What the SPI link promises the firmware: dwords written to and read     *)
(* from the memory map one at a time, each whole, at the addresses of the  *)
(* request (docs/memory_map.md).  A frame that is cut off has done a first *)
(* part of its dwords and no more; a partial's pointers change all four    *)
(* dwords at once, to those of one request.                                *)
(***************************************************************************)
EXTENDS Integers, Sequences

CONSTANTS Requests,            \* the frames the firmware sends
          CTRL, Stored,        \* dwords that are kept and read back, CTRL one
          Status,              \* what the other addresses read, if not zero
          DOOR, Partials,      \* the base addresses of the partials' pointers
          Zero

VARIABLES request,             \* the request under way, or None
          done,                \* the dwords of it that are done
          reply,               \* those read
          system, entries,
          strobes              \* what the FIFO was given: dwords and swaps

CONSTANT None

vars == <<request, done, reply, system, entries, strobes>>

Init ==
  /\ request = None /\ done = 0 /\ reply = <<>> /\ strobes = <<>>
  /\ system = [address \in Stored |-> Zero]
  /\ entries = [base \in Partials |-> <<Zero, Zero, Zero, Zero>>]

Ask ==
  /\ request = None /\ request' \in Requests
  /\ done' = 0 /\ reply' = <<>> /\ strobes' = <<>>
  /\ UNCHANGED <<system, entries>>

(* The address of the next dword.                                          *)
Address == IF request.auto_increment THEN request.address + done ELSE request.address
Contents == IF Address \in Stored THEN system[Address]
            ELSE IF Address \in DOMAIN Status THEN Status[Address] ELSE Zero

WriteDword ==
  LET dword == request.dwords[done + 1]
  IN  /\ request # None /\ ~request.read /\ done < Len(request.dwords)
      /\ done' = done + 1
      /\ system' = IF Address \in Stored
                   THEN [system EXCEPT ![Address] = [dword EXCEPT !.swap =
                                                       dword.swap /\ Address # CTRL]]
                   ELSE system
      /\ entries' = IF Address - 3 \in Partials
                    THEN [entries EXCEPT ![Address - 3] = SubSeq(request.dwords, done - 2, done + 1)]
                    ELSE entries
      /\ strobes' = CASE Address = DOOR -> Append(strobes, dword)
                      [] Address = CTRL /\ dword.swap -> Append(strobes, "swap")
                      [] OTHER -> strobes
      /\ UNCHANGED <<request, reply>>

ReadDword ==
  /\ request # None /\ request.read /\ done < request.count
  /\ done' = done + 1
  /\ reply' = Append(reply, Contents)
  /\ UNCHANGED <<request, system, entries, strobes>>

(* The frame ends, or is cut off, anywhere.                                *)
Finish ==
  /\ request # None /\ request' = None
  /\ done' = 0 /\ reply' = <<>> /\ strobes' = <<>>
  /\ UNCHANGED <<system, entries>>

Next == Ask \/ WriteDword \/ ReadDword \/ Finish
Spec == Init /\ [][Next]_vars
=============================================================================
