----------------------------- MODULE AtomicFile -----------------------------
(***************************************************************************)
(* What safe_file promises of a saved file: it always holds one whole text,*)
(* the last one saved or, once power was lost in the middle of a save, that*)
(* save's text; and it is changed in one step.                             *)
(***************************************************************************)
CONSTANTS Texts, None

VARIABLES stored,     \* the text the file holds, None before the first save
          under_way   \* the text of a save not yet settled, or None

vars == <<stored, under_way>>

Init == stored = None /\ under_way = None

Begin(text) == under_way = None /\ under_way' = text /\ UNCHANGED stored

TakeEffect == under_way # None /\ stored' = under_way /\ under_way' = None

GiveUp == under_way # None /\ under_way' = None /\ UNCHANGED stored

Next == (\E text \in Texts : Begin(text)) \/ TakeEffect \/ GiveUp

Spec == Init /\ [][Next]_vars
=============================================================================
