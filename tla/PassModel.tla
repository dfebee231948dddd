----------------------------- MODULE PassModel ------------------------------
(***************************************************************************)
(* A pass as the reference model makes it (tools/csp/processor.cpp, pass,  *)
(* apply_window): the program writes registers and the page of sinks that  *)
(* is not active; then the words taken from the queue land, a sink word in *)
(* both pages; then the next pass's number, if a program ran; and the      *)
(* pages flip.                                                             *)
(***************************************************************************)
EXTENDS Integers, Sequences

CONSTANTS Registers,   \* register 0, which is never written, left out
          IoBase,      \* the input register of the pass's number
          SinkWords,
          WORDS,       \* words are 0 .. WORDS - 1
          Elsewhere    \* the addresses at which nothing lands

VARIABLES registers_, sink_pages_, active_page_, pass_count_, held_,
          queue_,      \* taken and not yet applied, oldest first
          phase        \* "program", "window", or "counted"

vars == <<registers_, sink_pages_, active_page_, pass_count_, held_, queue_, phase>>

Words == 0 .. WORDS - 1
Written(address, word) == [address |-> address, word |-> word]

(* A write as it lands in a memory, which may not have its address.        *)
Landed(memory, w) ==
  IF w.address \in DOMAIN memory THEN [memory EXCEPT ![w.address] = w.word] ELSE memory
LandedIn(pages, which, w) ==
  [page \in {0, 1} |-> IF page \in which THEN Landed(pages[page], w) ELSE pages[page]]

(* The image writes no input and neither does the window.                  *)
ProgramWrites == [address : (Registers \ {IoBase}) \union SinkWords, word : Words]
Dwords == [address : Registers \union SinkWords \union Elsewhere, word : Words]
Lands(w) == w.address \in (Registers \ {IoBase}) \union SinkWords

Init ==
  /\ registers_ = [r \in Registers |-> 0]
  /\ sink_pages_ = [page \in {0, 1} |-> [s \in SinkWords |-> 0]]
  /\ active_page_ = 0 /\ pass_count_ = 0 /\ held_ = TRUE
  /\ queue_ = <<>> /\ phase = "counted"

write_register ==
  /\ phase = "program" /\ ~held_
  /\ \E w \in ProgramWrites :
       /\ registers_' = Landed(registers_, w)
       /\ sink_pages_' = LandedIn(sink_pages_, {1 - active_page_}, w)
  /\ UNCHANGED <<active_page_, pass_count_, held_, phase>>

apply ==
  /\ queue_ # <<>> /\ phase' = "window" /\ phase \in {"program", "window"}
  /\ IF Lands(Head(queue_))
     THEN /\ registers_' = Landed(registers_, Head(queue_))
          /\ sink_pages_' = LandedIn(sink_pages_, {0, 1}, Head(queue_))
     ELSE UNCHANGED <<registers_, sink_pages_>>
  /\ UNCHANGED <<active_page_, pass_count_, held_>>

count ==
  /\ queue_ = <<>> /\ phase \in {"program", "window"} /\ phase' = "counted"
  /\ registers_' = IF held_ THEN registers_
                   ELSE [registers_ EXCEPT ![IoBase] = (pass_count_ + 1) % WORDS]
  /\ UNCHANGED <<sink_pages_, active_page_, pass_count_, held_>>

flip ==
  /\ queue_ = <<>> /\ phase = "counted" /\ phase' = "program"
  /\ active_page_' = 1 - active_page_
  /\ pass_count_' = (pass_count_ + 1) % WORDS
  /\ held_' \in BOOLEAN
  /\ UNCHANGED <<registers_, sink_pages_>>

(* The queue may have given one more dword by then.                        *)
Taken(rest) == queue_' = rest \/ \E dword \in Dwords : queue_' = Append(rest, dword)

Next ==
  \/ write_register /\ Taken(queue_)
  \/ apply /\ Taken(Tail(queue_))
  \/ (count \/ flip) /\ UNCHANGED queue_
  \/ /\ phase \in {"program", "window"} /\ Taken(queue_)
     /\ UNCHANGED <<registers_, sink_pages_, active_page_, pass_count_, held_>>
     /\ phase' \in {phase, "window"}

Spec == Init /\ [][Next]_vars
=============================================================================
