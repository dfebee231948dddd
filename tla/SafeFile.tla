------------------------------ MODULE SafeFile ------------------------------
(***************************************************************************)
(* app/main/safe_file.cpp: one file, saved by way of <path>.new, with the  *)
(* recovery at the next mount (storage.c:75-81) after a power loss.        *)
(*                                                                         *)
(* The medium is the FAT volume, external: a remove and a rename are atomic*)
(* and durable when they return, and what was written but not yet flushed  *)
(* when power is lost may be there, be there in part, or be missing.       *)
(***************************************************************************)
CONSTANTS Texts,        \* texts to save
          None,         \* no file; no save
          CutShort      \* what a text that was cut off reads as

ASSUME TextsAssumption ==
  None \notin Texts /\ CutShort \notin Texts \union {None}

VARIABLES file,         \* the text of <path>, or None
          new,          \* <path>.new
          pc,           \* the step the save, the power or the mount is at
          saving,       \* the text of the save under way, or None
          (* history *)
          last,         \* the text of the last save that returned true
          tried,        \* texts of saves since that did not
          failed        \* a remove, a rename or a recovery's read has failed
                        \* (a medium error)

vars == <<file, new, pc, saving, last, tried, failed>>

Whole(text) == [text |-> text, whole |-> TRUE]
Torn  == [text |-> CutShort, whole |-> FALSE]   \* no "# end" line
NoNew == [text |-> None, whole |-> FALSE]       \* there is no .new file

(* Mutant: a .new file is complete if it reads.                            *)
complete_any == new # NoNew

complete == new.whole

Init ==
  /\ file = None /\ new = NoNew
  /\ pc = "idle" /\ saving = None
  /\ last = None /\ tried = {} /\ failed = FALSE

-----------------------------------------------------------------------------
(* save: create the .new file and write it; an old .new's text is gone with*)
(* the flush at the latest.  A .new that cannot be created changes nothing.*)
(* Mutant: the old file is deleted first.                                  *)
Create_removes_first(text) ==
  /\ pc = "idle"
  /\ pc' = "writing" /\ saving' = text
  /\ tried' = tried \union {text}
  /\ file' = None
  /\ UNCHANGED <<new, last, failed>>

Create(text) ==
  /\ pc = "idle"
  /\ pc' = "writing" /\ saving' = text
  /\ tried' = tried \union {text}
  /\ UNCHANGED <<file, new, last, failed>>

WriteFails ==
  /\ pc = "writing"
  /\ \/ new' = NoNew /\ UNCHANGED failed         \* it is deleted,
     \/ new' \in {Torn, Whole(saving)} /\ failed' = TRUE   \* or stays
  /\ pc' = "idle" /\ saving' = None
  /\ UNCHANGED <<file, last, tried>>

Write ==
  /\ pc = "writing"
  /\ new' = Whole(saving)
  /\ pc' = "written"
  /\ UNCHANGED <<file, saving, last, tried, failed>>

(* The old file is deleted; the code does not look at the result.          *)
RemoveFile ==
  \/ file' = None /\ UNCHANGED failed
  \/ file # None /\ failed' = TRUE /\ UNCHANGED file

Remove ==
  /\ pc = "written"
  /\ RemoveFile
  /\ pc' = "removed"
  /\ UNCHANGED <<new, saving, last, tried>>

(* The .new file takes its name, which must be free.                       *)
RenameError ==
  \/ file = None /\ failed' = TRUE
  \/ file # None /\ UNCHANGED failed

Rename ==
  /\ pc = "removed" /\ file = None
  /\ file' = new.text /\ new' = NoNew
  /\ last' = saving /\ tried' = {}
  /\ pc' = "idle" /\ saving' = None
  /\ UNCHANGED failed

RenameFails ==
  /\ pc = "removed"
  /\ RenameError
  /\ pc' = "idle" /\ saving' = None
  /\ UNCHANGED <<file, new, last, tried>>

-----------------------------------------------------------------------------
(* Power is lost, in a save or in a recovery.                              *)
PowerLoss ==
  /\ pc # "off"
  /\ new' \in {new} \union IF pc = "writing" THEN {Torn, Whole(saving)} ELSE {}
  /\ pc' = "off" /\ saving' = None
  /\ UNCHANGED <<file, last, tried, failed>>

(* recover, at the mount.                                                  *)
Mount ==
  /\ pc = "off"
  /\ pc' = IF new = NoNew THEN "idle" ELSE "recovering"
  /\ UNCHANGED <<file, new, saving, last, tried, failed>>

(* Mutant: a .new file is undone, whatever it is.                          *)
RecoverUndo_always ==
  /\ pc = "recovering"
  /\ new' = NoNew
  /\ pc' = "idle"
  /\ UNCHANGED <<file, saving, last, tried, failed>>

RecoverUndo ==
  /\ pc = "recovering"
  /\ \/ ~complete /\ new' = NoNew /\ UNCHANGED failed
     \/ failed' = TRUE /\ new' \in {NoNew, new}  \* it cannot be read, or deleted
  /\ pc' = "idle"
  /\ UNCHANGED <<file, saving, last, tried>>

RecoverRemove ==
  /\ pc = "recovering" /\ complete
  /\ RemoveFile
  /\ pc' = "finishing"
  /\ UNCHANGED <<new, saving, last, tried>>

RecoverRename ==
  /\ pc = "finishing"
  /\ \/ file = None /\ file' = new.text /\ new' = NoNew
        /\ UNCHANGED failed
     \/ RenameError /\ UNCHANGED <<file, new>>
  /\ pc' = "idle"
  /\ UNCHANGED <<saving, last, tried>>

Next ==
  \/ \E text \in Texts : Create(text)
  \/ WriteFails \/ Write \/ Remove \/ Rename \/ RenameFails
  \/ PowerLoss \/ Mount \/ RecoverUndo \/ RecoverRemove \/ RecoverRename

Spec == Init /\ [][Next]_vars

-----------------------------------------------------------------------------
Steps == {"idle", "writing", "written", "removed", "off", "recovering", "finishing"}

TypeOK ==
  /\ file \in Texts \union {None} /\ last \in Texts \union {None}
  /\ new \in {Whole(text) : text \in Texts} \union {Torn, NoNew}
  /\ pc \in Steps
  /\ saving \in Texts \union {None}
  /\ pc \in {"writing", "written", "removed"} <=> saving # None
  /\ tried \subseteq Texts
  /\ failed \in BOOLEAN

(***************************************************************************)
(* Once a save has returned true, at every moment, power lost or not, the  *)
(* medium has a whole text of the file: in its place or in the .new file   *)
(* (safe_file.hpp:6-12), for as long as no remove, no rename and no read of*)
(* the .new file at a recovery has failed.                                 *)
(***************************************************************************)
SavedIsKept == last # None /\ ~failed => file # None \/ complete

(* The header's claim: at every moment, without that condition (:6-12).    *)
SavedIsAlwaysKept == last # None => file # None \/ complete

(***************************************************************************)
(* What is read at <path> at any moment, if anything is, is the last text  *)
(* saved or that of a save that did not finish: never an older one, never  *)
(* one cut short, whatever steps fail (safe_file.cpp:64-68, 94-101).       *)
(***************************************************************************)
NeverOlder == file \in {None, last} \union tried

(***************************************************************************)
(* With the volume mounted and no save under way, the file holds the last  *)
(* text saved, or that of a save cut off since: never another, never none, *)
(* unless a remove, a rename or a recovery's read has failed               *)
(* (docs/storage_format.md "Saving").                                      *)
(***************************************************************************)
OldOrNew == pc = "idle" /\ ~failed => file \in {last} \union tried

(* A save is under way until the .new file alone holds a whole text, or is *)
(* gone; with no file in its place, the complete .new file is the file.    *)
Atomic == INSTANCE AtomicFile WITH
  stored <- IF file = None /\ complete THEN new.text ELSE file,
  under_way <- IF pc = "writing" THEN saving
               ELSE IF complete /\ file # None THEN new.text
               ELSE None

(* safe_file implements a file that changes in one step, power losses and  *)
(* interrupted recoveries included, until a remove, a rename or a          *)
(* recovery's read fails.                                                  *)
ImplementsAtomicFile ==
  Atomic!Init /\ [][~failed' => [Atomic!Next]_(Atomic!vars)]_vars
=============================================================================
