------------------------------ MODULE MCInputs ------------------------------
(***************************************************************************)
(* Checks the MIDI input and the console, which share no state, in one     *)
(* run: a behaviour is one of them.  The console's are of two kinds, of    *)
(* which each has a bound on what the other is about: at most one line     *)
(* comes out where much is typed, at most one character is typed, and no   *)
(* history or SS3 key pressed, where much is printed and the scrollback is *)
(* full.  Memory for a line that the screen shows runs out in the latter.  *)
(***************************************************************************)
EXTENDS MidiIn, Console

VARIABLE part

(* What completion offers: of the first argument, and of another.          *)
CommandTexts == << <<"x">>, <<"x", "lead", "cont">>, <<"lead", "cont">> >>
WordTexts    == << <<"x">>, <<"lead", "cont">> >>

InputsInit == part \in {"midi", "typing", "printing"} /\ MidiInit /\ ConsoleInit

Typing ==
  /\ ConsoleNext /\ print_vars' = print_vars
  /\ Total' <= 1 /\ ahead' = 0 /\ params' \in {0, 3}

Printing ==
  /\ ConsoleNext /\ line' \in {<<>>, <<"x">>} /\ params' # 3
  /\ hist_at' = 0 /\ state' # "SS3"

InputsNext ==
  /\ UNCHANGED part
  /\ \/ part = "midi" /\ MidiNext /\ UNCHANGED console_vars
     \/ part = "typing" /\ Typing /\ UNCHANGED midi_vars
     \/ part = "printing" /\ Printing /\ UNCHANGED midi_vars

InputsSpec == InputsInit /\ [][InputsNext]_<<part, midi_vars, console_vars>>
=============================================================================
