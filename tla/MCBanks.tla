------------------------------ MODULE MCBanks -------------------------------
(* Two banks of at most two programs, of two presets that a folder holds.  *)
EXTENDS Banks

CONSTANTS p, q

MCFolder == <<p, q>>
=============================================================================
