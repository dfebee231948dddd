---------------------------- MODULE CommitQueue ----------------------------
(***************************************************************************)
(* What the write FIFO promises the two clocks that share it: a queue      *)
(* whose entries become visible to the reader a batch at a time.           *)
(*                                                                         *)
(* The writer appends entries and, at a commit, marks everything it has    *)
(* appended.  The reader sees the marks some time later, all of a batch at *)
(* once, and takes visible entries from the front, in order, each exactly  *)
(* once.  A taken entry travels down a delivery pipe of two stages, one    *)
(* stage per step of the reader, so it is at the end of the pipe two       *)
(* reader steps after it was taken.                                        *)
(***************************************************************************)
EXTENDS Naturals, Sequences

CONSTANTS Entries,     \* what the queue carries
          Capacity,    \* the most it holds
          Nothing      \* an empty stage of the delivery pipe

VARIABLES pending,     \* entries written and not yet taken, oldest first
          marked,      \* how many of them the writer has committed
          visible,     \* how many of those the reader knows of
          delivery     \* <<stage one, stage two>> of the delivery pipe

vars == <<pending, marked, visible, delivery>>

Init ==
  /\ pending = <<>>
  /\ marked = 0
  /\ visible = 0
  /\ delivery = <<Nothing, Nothing>>

(***************************************************************************)
(* A step of the writer appends at most one entry and may commit; an entry *)
(* appended in the committing step is committed with it.  An entry that    *)
(* does not fit is not appended.                                           *)
(***************************************************************************)
WriterStep ==
  /\ \/ pending' = pending
     \/ \E entry \in Entries : /\ Len(pending) < Capacity
                               /\ pending' = Append(pending, entry)
  /\ marked' \in {marked, Len(pending')}
  /\ UNCHANGED <<visible, delivery>>

(***************************************************************************)
(* A step of the reader takes at most one entry, the oldest visible one,   *)
(* and may learn of the committed ones.  The pipe always moves.            *)
(***************************************************************************)
ReaderStep ==
  /\ \/ /\ visible > 0
        /\ pending' = Tail(pending)
        /\ delivery' = <<Head(pending), delivery[1]>>
        /\ marked' = marked - 1
        /\ visible' \in {visible - 1, marked - 1}
     \/ /\ delivery' = <<Nothing, delivery[1]>>
        /\ visible' \in {visible, marked}
        /\ UNCHANGED <<pending, marked>>

Next == WriterStep \/ ReaderStep

Spec == Init /\ [][Next]_vars
=============================================================================
