---------------------------- MODULE MCVoiceAlloc ----------------------------
(***************************************************************************)
(* The voice allocator on a small table, and the reading of its table that *)
(* shows it keeps the promise of Keystrokes: the held voices in the order  *)
(* of their strikes, the releasing ones in the order of their release.     *)
(***************************************************************************)
EXTENDS VoiceAlloc, TLC, SequencesExt

(* Notes are only compared for equality. *)
NoteSymmetry == Permutations(Notes)

(* The voices of a set by an age, oldest first.                            *)
ByAge(S, age) ==
  CHOOSE order \in SetToSeqs(S) :
    \A i, j \in DOMAIN order : i < j => age[order[i]] < age[order[j]]

Strikes  == [v \in Voices |-> s_voices[v].alloc_seq]
Releases == [v \in Voices |-> s_voices[v].released_at]

HeldInOrder ==
  LET order == ByAge(In("HELD"), Strikes)
  IN  [i \in DOMAIN order |-> [note |-> s_voices[order[i]].note,
                               sustained |-> s_voices[order[i]].sustained]]
TailsInOrder ==
  LET order == ByAge(In("RELEASING"), Releases)
  IN  [i \in DOMAIN order |-> s_voices[order[i]].note]

Abstract == INSTANCE Keystrokes WITH
  Polyphony <- VOICE_COUNT, held <- HeldInOrder, tails <- TailsInOrder,
  pedal <- s_sustain_pedal

(***************************************************************************)
(* The table of voices implements the keystrokes: of those that sound, a   *)
(* strike beyond the polyphony costs the tail released first, and only     *)
(* with no tail left the strike held longest; a key-up reaches the oldest  *)
(* strike of its note (voice_alloc.cpp:233-349, 404-427).                  *)
(***************************************************************************)
ImplementsKeystrokes == Abstract!Spec
=============================================================================
