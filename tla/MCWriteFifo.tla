---------------------------- MODULE MCWriteFifo ----------------------------
(***************************************************************************)
(* The write FIFO on a ring of four rows and, beside it, the crossing of   *)
(* its read pointer bit by bit: WriteFifo takes from GrayCrossing that the *)
(* pointer crosses as itself.  They share no state: a behaviour is one of  *)
(* them.                                                                   *)
(***************************************************************************)
EXTENDS WriteFifo, GrayCrossing, TLC

VARIABLE part

CrossingInit == part \in {"fifo", "gray"} /\ Init /\ GrayInit

FifoStep == part = "fifo" /\ Next /\ UNCHANGED <<part, gray_vars>>
GrayStep == part = "gray" /\ GrayNext /\ UNCHANGED <<part, vars>>

CrossingSpec == CrossingInit /\ [][FifoStep \/ GrayStep]_<<part, vars, gray_vars>>

FairCrossingSpec ==
  /\ CrossingSpec
  /\ WF_<<part, vars, gray_vars>>(part = "fifo" /\ ClkTick(TRUE) /\ UNCHANGED <<part, gray_vars>>)

(* Dwords are only stored and handed on: any permutation of them is sound  *)
(* for the run that checks no liveness.                                    *)
DwordSymmetry == Permutations(Dwords)
=============================================================================
