--------------------------- MODULE SafeFileProofs ---------------------------
(***************************************************************************)
(* Proofs about safe_file for any texts, and about banks.toml, the file of *)
(* it that Banks models, for any banks, presets and number of programs.    *)
(*                                                                         *)
(* safe_file: Inv holds whatever steps of the medium fail.  Settled, and   *)
(* with it all that says a text is kept, holds for as long as every remove *)
(* and rename, and every read of a .new file at a recovery, has done what  *)
(* it was asked.  Nothing of Banks is used in it: it cites TextsAssumption *)
(* alone.                                                                  *)
(*                                                                         *)
(* Banks: its steps are safe_file's (FileIsSafe), so what is shown of a    *)
(* file holds of banks.toml; and every text the file can hold, or come to  *)
(* hold, has each bank as its own edits made it (TextsKept).               *)
(***************************************************************************)
EXTENDS Banks, SequenceTheorems, TLAPS

(* From the flush to the rename the .new file is the save's, and whatever  *)
(* .new is complete is of a save that has not returned true.               *)
Ours ==
  /\ saving # None => saving \in tried
  /\ pc \in {"written", "removed"} => new = Whole(saving)
  /\ pc = "finishing" => complete
  /\ complete => new.text \in tried

(* TypeOK in two parts, the second its history of failures.                *)
Texted ==
  /\ file \in Texts \union {None} /\ last \in Texts \union {None}
  /\ new \in {Whole(text) : text \in Texts} \union {Torn, NoNew}
  /\ pc \in Steps
  /\ saving \in Texts \union {None}
  /\ pc \in {"writing", "written", "removed"} <=> saving # None
  /\ tried \subseteq Texts

Flagged == failed \in BOOLEAN

Inv == Texted /\ Ours /\ NeverOlder

LEMMA InvStep == Inv /\ [Next]_vars => Inv'
<1> SUFFICES ASSUME Inv, [Next]_vars PROVE Inv'
  OBVIOUS
<1> USE TextsAssumption
    DEF Inv, Texted, Ours, NeverOlder, Steps, Whole, Torn, NoNew, complete
<1>1. ASSUME NEW text \in Texts, Create(text) PROVE Inv'
  BY <1>1 DEF Create
<1>2. CASE WriteFails
  BY <1>2 DEF WriteFails
<1>3. CASE Write
  BY <1>3 DEF Write
<1>4. CASE Remove
  BY <1>4 DEF Remove, RemoveFile
<1>5. CASE Rename
  BY <1>5 DEF Rename
<1>6. CASE RenameFails
  BY <1>6 DEF RenameFails, RenameError
<1>7. CASE PowerLoss
  BY <1>7 DEF PowerLoss
<1>8. CASE Mount
  BY <1>8 DEF Mount
<1>9. CASE RecoverUndo
  BY <1>9 DEF RecoverUndo
<1>10. CASE RecoverRemove
  BY <1>10 DEF RecoverRemove, RemoveFile
<1>11. CASE RecoverRename
  BY <1>11 DEF RecoverRename, RenameError
<1>12. CASE UNCHANGED vars
  BY <1>12 DEF vars
<1> QED
  BY <1>1, <1>2, <1>3, <1>4, <1>5, <1>6, <1>7, <1>8, <1>9, <1>10, <1>11,
     <1>12 DEF Next

LEMMA Invariance == Spec => []Inv
<1>1. Init => Inv
  BY TextsAssumption
  DEF Init, Inv, Texted, Ours, NeverOlder, NoNew, Steps, complete
<1> QED
  BY <1>1, InvStep, PTL DEF Spec

(* Type correctness: a text cut short is never anywhere but in a .new file.*)
THEOREM TypeCorrect == Spec => []TypeOK
<1>1. Init => Flagged
  BY DEF Init, Flagged
<1>2. Flagged /\ [Next]_vars => Flagged'
  <2>1. [Next]_vars => failed' = failed \/ failed' = TRUE
    BY DEF Next, Create, WriteFails, Write, Remove, RemoveFile, Rename,
           RenameError, RenameFails, PowerLoss, Mount, RecoverUndo,
           RecoverRemove, RecoverRename, vars
  <2> QED
    BY <2>1, Zenon DEF Flagged
<1>3. Inv /\ Flagged => TypeOK
  BY Zenon DEF Inv, Texted, Flagged, TypeOK
<1> QED
  BY <1>1, <1>2, <1>3, Invariance, PTL DEF Spec

(* What is read at the path is never an older text than the last saved and *)
(* never one cut short, though any step of a save may fail.                *)
THEOREM NothingOlder == Spec => []NeverOlder
  BY Invariance, PTL DEF Inv

-----------------------------------------------------------------------------
(* With removes and renames that do what they are asked, a .new file is    *)
(* there only between a flush and its rename or across a power loss, and   *)
(* while the file is away the .new file is complete.                       *)
Present == file \in {last} \union tried

Settled == ~failed =>
  /\ pc \in {"idle", "writing"} => Present /\ new = NoNew
  /\ pc = "written" => Present
  /\ pc \in {"removed", "finishing"} => file = None
  /\ pc = "recovering" => new # NoNew
  /\ pc \in {"off", "recovering"} => Present \/ (file = None /\ complete)

LEMMA Settles == Spec => []Settled
<1>1. Init => Settled
  BY DEF Init, Settled, Present
<1>2. Inv /\ Settled /\ [Next]_vars => Settled'
  <2> SUFFICES ASSUME Inv, Settled, [Next]_vars PROVE Settled'
    OBVIOUS
  <2> USE TextsAssumption
      DEF Inv, Texted, Ours, Settled, Present, Steps, Whole, Torn, NoNew,
          complete
  <2>1. ASSUME NEW text \in Texts, Create(text) PROVE Settled'
    BY <2>1 DEF Create
  <2>2. CASE WriteFails
    BY <2>2 DEF WriteFails
  <2>3. CASE Write
    BY <2>3 DEF Write
  <2>4. CASE Remove
    BY <2>4 DEF Remove, RemoveFile
  <2>5. CASE Rename
    BY <2>5 DEF Rename
  <2>6. CASE RenameFails
    BY <2>6 DEF RenameFails, RenameError
  <2>7. CASE PowerLoss
    BY <2>7 DEF PowerLoss
  <2>8. CASE Mount
    BY <2>8 DEF Mount
  <2>9. CASE RecoverUndo
    BY <2>9 DEF RecoverUndo
  <2>10. CASE RecoverRemove
    BY <2>10 DEF RecoverRemove, RemoveFile
  <2>11. CASE RecoverRename
    BY <2>11 DEF RecoverRename, RenameError
  <2>12. CASE UNCHANGED vars
    BY <2>12 DEF vars
  <2> QED
    BY <2>1, <2>2, <2>3, <2>4, <2>5, <2>6, <2>7, <2>8, <2>9, <2>10, <2>11,
       <2>12 DEF Next
<1> QED
  BY <1>1, <1>2, Invariance, PTL DEF Spec

(* Once a save has returned true the medium always has a whole text of the *)
(* file, power lost or not.                                                *)
THEOREM Kept == Spec => []SavedIsKept
<1>1. Inv /\ Settled => SavedIsKept
  BY TextsAssumption
  DEF Inv, Texted, Ours, Settled, Present, SavedIsKept, Steps, Whole, NoNew,
      complete
<1> QED
  BY <1>1, Invariance, Settles, PTL

(* Mounted and at rest, the file is there, with the last text saved or that*)
(* of a save cut off since.                                                *)
THEOREM OldOrNewAtRest == Spec => []OldOrNew
<1>1. Settled => OldOrNew
  BY DEF Settled, Present, OldOrNew
<1> QED
  BY <1>1, Settles, PTL

-----------------------------------------------------------------------------
(* safe_file implements AtomicFile: a save takes effect when the old file  *)
(* is deleted or, with no old file, when its .new file is flushed; a power *)
(* loss and a recovery change nothing else.                                *)
THEOREM FileIsAtomic == Spec => ImplementsAtomicFile
<1>1. Init => Atomic!Init
  BY TextsAssumption DEF Init, Atomic!Init, NoNew, complete
<1>2. Inv /\ Settled /\ [Next]_vars => [~failed' => [Atomic!Next]_(Atomic!vars)]_vars
  <2> SUFFICES ASSUME Inv, Settled, [Next]_vars, ~failed'
               PROVE  Atomic!Next \/ UNCHANGED Atomic!vars
    OBVIOUS
  <2> USE TextsAssumption
      DEF Inv, Texted, Ours, Settled, Present, Steps, Whole, Torn, NoNew,
          complete, Atomic!Next, Atomic!vars, Atomic!Begin,
          Atomic!TakeEffect, Atomic!GiveUp
  <2>1. ASSUME NEW text \in Texts, Create(text) PROVE Atomic!Next \/ UNCHANGED Atomic!vars
    BY <2>1 DEF Create
  <2>2. CASE WriteFails
    BY <2>2 DEF WriteFails
  <2>3. CASE Write
    BY <2>3 DEF Write
  <2>4. CASE Remove
    BY <2>4 DEF Remove, RemoveFile
  <2>5. CASE Rename
    BY <2>5 DEF Rename
  <2>6. CASE RenameFails
    BY <2>6 DEF RenameFails, RenameError
  <2>7. CASE PowerLoss
    BY <2>7 DEF PowerLoss
  <2>8. CASE Mount
    BY <2>8 DEF Mount
  <2>9. CASE RecoverUndo
    BY <2>9 DEF RecoverUndo
  <2>10. CASE RecoverRemove
    BY <2>10 DEF RecoverRemove, RemoveFile
  <2>11. CASE RecoverRename
    BY <2>11 DEF RecoverRename, RenameError
  <2>12. CASE UNCHANGED vars
    BY <2>12 DEF vars
  <2> QED
    BY <2>1, <2>2, <2>3, <2>4, <2>5, <2>6, <2>7, <2>8, <2>9, <2>10, <2>11,
       <2>12 DEF Next
<1> QED
  BY <1>1, <1>2, Invariance, Settles, PTL DEF Spec, ImplementsAtomicFile

-----------------------------------------------------------------------------
(* Banks.                                                                  *)

all_vars == <<vars, bank_vars>>

Requests == [pc : {"idle", "reading", "done"}, bank : Numbers \cup {0},
             program : Nat, text : Maps \cup {None}, found : Presets \cup {None},
             listed : BOOLEAN, window : BOOLEAN]

(* What of the banks' state the proofs need typed; the file is SafeFile's. *)
BanksTyped ==
  /\ may \in [Numbers -> SUBSET Bank] /\ loader \in Requests
  /\ loader.pc # "idle" => loader.bank \in Numbers

(* Every text a save has tried since the last that returned, and that last,*)
(* has each bank as that bank's own edits made it, or deleted by a command *)
(* that could not open the file.                                           *)
AsEdited(text, n) ==
  \/ read(text)[n] \in may[n]
  \/ n \in blind /\ read(text)[n] = NoBank

TextsKept ==
  ~failed => \A text \in tried \cup {last} : \A n \in Numbers : AsEdited(text, n)

(* The loader looks in a text that has the program, if it was listed.      *)
TextHasProgram ==
  ~failed /\ loader.listed /\ ~loader.window =>
    /\ loader.pc = "reading"
         => /\ loader.text # None
            /\ loader.program < Len(loader.text[loader.bank].programs)
    /\ loader.pc = "done" => loader.found # None

-----------------------------------------------------------------------------
(* The sequences a bank may be.                                            *)
LEMMA ProgramLists ==
  SE!SeqOf(Presets, MAX_PROGRAMS) = {s \in Seq(Presets) : Len(s) <= MAX_PROGRAMS}
<1>1. ASSUME NEW s \in Seq(Presets), Len(s) <= MAX_PROGRAMS
      PROVE  s \in SE!SeqOf(Presets, MAX_PROGRAMS)
  BY <1>1, BanksAssumption DEF SE!SeqOf
<1>2. ASSUME NEW s \in SE!SeqOf(Presets, MAX_PROGRAMS)
      PROVE  s \in Seq(Presets) /\ Len(s) <= MAX_PROGRAMS
  BY <1>2, BanksAssumption DEF SE!SeqOf
<1> QED
  BY <1>1, <1>2

LEMMA Inserted ==
  ASSUME NEW s \in Seq(Presets), NEW at \in 1 .. Len(s) + 1, NEW e \in Presets
  PROVE  /\ SE!InsertAt(s, at, e) \in Seq(Presets)
         /\ Len(SE!InsertAt(s, at, e)) = Len(s) + 1
<1> DEFINE before == SubSeq(s, 1, at - 1)
           after == SubSeq(s, at, Len(s))
<1>1. /\ before \in Seq(Presets) /\ Len(before) = at - 1
      /\ after \in Seq(Presets) /\ Len(after) = Len(s) - at + 1
  BY SubSeqProperties
<1>2. <<e>> \in Seq(Presets) /\ Len(<<e>>) = 1
  OBVIOUS
<1>3. SE!InsertAt(s, at, e) = (before \o <<e>>) \o after
  BY DEF SE!InsertAt
<1> HIDE DEF before, after
<1>4. before \o <<e>> \in Seq(Presets) /\ Len(before \o <<e>>) = at
  BY <1>1, <1>2
<1> QED
  BY <1>1, <1>3, <1>4

LEMMA Removed ==
  ASSUME NEW s \in Seq(Presets), NEW at \in 1 .. Len(s)
  PROVE  /\ SE!RemoveAt(s, at) \in Seq(Presets)
         /\ Len(SE!RemoveAt(s, at)) = Len(s) - 1
<1> DEFINE before == SubSeq(s, 1, at - 1)
           after == SubSeq(s, at + 1, Len(s))
<1>1. /\ before \in Seq(Presets) /\ Len(before) = at - 1
      /\ after \in Seq(Presets) /\ Len(after) = Len(s) - at
  BY SubSeqProperties
<1>2. SE!RemoveAt(s, at) = before \o after
  BY DEF SE!RemoveAt
<1> HIDE DEF before, after
<1> QED
  BY <1>1, <1>2

(* What a command makes of a bank is a bank, or none.                      *)
MapBanks == {NoBank} \cup {b \in Bank : b.exists}

LEMMA MapBanksAreBanks ==
  ASSUME NEW bank \in MapBanks
  PROVE  /\ bank \in Bank
         /\ bank.programs \in Seq(Presets) /\ Len(bank.programs) <= MAX_PROGRAMS
<1>1. <<>> \in Seq(Presets) /\ Len(<<>>) <= MAX_PROGRAMS
  BY BanksAssumption, EmptySeq
<1>2. CASE bank = NoBank
  <2>1. <<>> \in SE!SeqOf(Presets, MAX_PROGRAMS)
    BY <1>1, ProgramLists
  <2> QED
    BY <1>1, <1>2, <2>1 DEF NoBank, Bank
<1>3. CASE bank \in Bank
  BY <1>3, ProgramLists DEF Bank
<1> QED
  BY <1>2, <1>3 DEF MapBanks

LEMMA EditsAreBanks ==
  ASSUME NEW bank \in MapBanks, NEW edit \in Edited(bank)
  PROVE  edit \in MapBanks
<1>0. <<>> \in Seq(Presets) /\ Len(<<>>) <= MAX_PROGRAMS /\ MAX_PROGRAMS \in Nat
  BY BanksAssumption, EmptySeq
<1>1. bank.programs \in Seq(Presets) /\ Len(bank.programs) <= MAX_PROGRAMS
  BY MapBanksAreBanks
<1>2. ASSUME NEW programs \in Seq(Presets), Len(programs) <= MAX_PROGRAMS
      PROVE  [exists |-> TRUE, programs |-> programs] \in MapBanks
  BY <1>2, ProgramLists DEF MapBanks, Bank
<1>3. NoBank \in MapBanks /\ [exists |-> TRUE, programs |-> <<>>] \in MapBanks
  BY <1>0, <1>2 DEF MapBanks
<1>4. [exists |-> TRUE, programs |-> Folder] \in MapBanks
  BY <1>2, BanksAssumption
<1>5. ASSUME Len(bank.programs) < MAX_PROGRAMS,
             NEW at \in 1 .. Len(bank.programs) + 1, NEW preset \in Presets
      PROVE  [exists |-> TRUE, programs |-> SE!InsertAt(bank.programs, at, preset)]
               \in MapBanks
  <2>1. /\ SE!InsertAt(bank.programs, at, preset) \in Seq(Presets)
        /\ Len(SE!InsertAt(bank.programs, at, preset)) = Len(bank.programs) + 1
    BY <1>1, Inserted
  <2>2. Len(SE!InsertAt(bank.programs, at, preset)) <= MAX_PROGRAMS
    BY <1>0, <1>1, <1>5, <2>1
  <2> QED
    BY <1>2, <2>1, <2>2
<1>6. ASSUME NEW at \in 1 .. Len(bank.programs)
      PROVE  [exists |-> TRUE, programs |-> SE!RemoveAt(bank.programs, at)] \in MapBanks
  BY <1>1, <1>2, Removed, BanksAssumption
<1> DEFINE size == Len(bank.programs)
           With(programs) == [exists |-> TRUE, programs |-> programs]
<1>7. \/ edit \in {NoBank, With(<<>>), With(Folder)}
      \/ \E at \in 1 .. size : edit = With(SE!RemoveAt(bank.programs, at))
      \/ /\ size < MAX_PROGRAMS
         /\ \E at \in 1 .. size + 1, preset \in Presets :
              edit = With(SE!InsertAt(bank.programs, at, preset))
  BY DEF Edited
<1> QED
  BY <1>3, <1>4, <1>5, <1>6, <1>7

LEMMA ReadIsMap ==
  ASSUME NEW text \in Texts \cup {None}
  PROVE  read(text) \in [Numbers -> MapBanks]
  BY MapsAssumption DEF read, Maps, MapBanks

-----------------------------------------------------------------------------
(* Every step of the banks is one of the file's, or none of them.          *)
LEMMA StepIsFiles == Texted /\ [BanksNext]_all_vars => [Next]_vars
<1> SUFFICES ASSUME Texted, [BanksNext]_all_vars
             PROVE  [Next]_vars
  OBVIOUS
<1>1. CASE cmd_bank
  <2>1. PICK n \in Numbers, text \in opened : \E bank \in Edited(read(text)[n]) :
               Create([read(text) EXCEPT ![n] = bank])
    BY <1>1 DEF cmd_bank
  <2>2. PICK bank \in Edited(read(text)[n]) : Create([read(text) EXCEPT ![n] = bank])
    BY <2>1
  <2>3. read(text) \in [Numbers -> MapBanks]
    BY ReadIsMap DEF Texted, opened
  <2>4. bank \in MapBanks
    BY <2>3, EditsAreBanks
  <2>5. [read(text) EXCEPT ![n] = bank] \in Texts
    BY <2>3, <2>4, MapsAssumption DEF Maps, MapBanks
  <2> QED
    BY <2>2, <2>5 DEF Next
<1>2. CASE SaveReturns
  BY <1>2 DEF SaveReturns, Next
<1>3. CASE SaveGoesOn
  BY <1>3 DEF SaveGoesOn, Next
<1>4. CASE LoaderOpens \/ LoaderReads \/ LoaderGoesOn
  BY <1>4 DEF LoaderOpens, LoaderReads, LoaderGoesOn
<1>5. CASE Restarted
  BY <1>5 DEF Restarted, Next
<1>6. CASE UNCHANGED all_vars
  BY <1>6 DEF all_vars
<1> QED
  BY <1>1, <1>2, <1>3, <1>4, <1>5, <1>6 DEF BanksNext

(* banks.toml, under the console's commands and the loader's reads, is a   *)
(* file saved by safe_file and nothing else.                               *)
THEOREM FileIsSafe == BanksSpec => Spec
<1>1. BanksInit => Init /\ Inv
  BY TextsAssumption
  DEF BanksInit, Init, Inv, Texted, Ours, NeverOlder, NoNew, Steps, complete
<1>2. Inv => Texted
  BY DEF Inv
<1>3. Texted /\ [BanksNext]_all_vars => [Next]_vars
  BY StepIsFiles
<1>4. Inv /\ [Next]_vars => Inv'
  BY InvStep
<1>5. BanksSpec => BanksInit /\ [][BanksNext]_all_vars
  BY DEF BanksSpec, all_vars
<1> QED
  BY <1>1, <1>2, <1>3, <1>4, <1>5, PTL DEF Spec

(* What is read of banks.toml is never older than the last save that       *)
(* returned, and never cut short.                                          *)
THEOREM BanksNeverOlder == BanksSpec => []NeverOlder
  BY FileIsSafe, NothingOlder

(* banks.toml changes in one step, power losses and recoveries included.   *)
THEOREM BanksFileIsAtomic == BanksSpec => ImplementsAtomicFile
  BY FileIsSafe, FileIsAtomic

-----------------------------------------------------------------------------
(* What the loader finds in its text is a preset, or nothing.              *)
LEMMA FoundIsPreset ==
  ASSUME BanksTyped, loader.pc = "reading"
  PROVE  /\ program_path(read(loader.text), loader.bank, loader.program)
              \in Presets \cup {None}
         /\ loader.text # None
            /\ loader.program < Len(loader.text[loader.bank].programs)
            => program_path(read(loader.text), loader.bank, loader.program) # None
<1> DEFINE programs == read(loader.text)[loader.bank].programs
<1>1. /\ loader.bank \in Numbers /\ loader.program \in Nat
      /\ loader.text \in Texts \cup {None}
  BY MapsAssumption DEF BanksTyped, Requests
<1>2. read(loader.text)[loader.bank] \in MapBanks
  BY <1>1, ReadIsMap
<1>3. programs \in Seq(Presets)
  BY <1>2, MapBanksAreBanks
<1>4. program_path(read(loader.text), loader.bank, loader.program)
        = IF loader.program < Len(programs) THEN programs[loader.program + 1] ELSE None
  BY DEF program_path
<1>5. loader.text # None => programs = loader.text[loader.bank].programs
  BY DEF read
<1> HIDE DEF programs
<1>6. loader.program < Len(programs) => programs[loader.program + 1] \in Presets
  BY <1>1, <1>3
<1> QED
  BY <1>4, <1>5, <1>6, BanksAssumption

LEMMA BanksTypedStep ==
  BanksTyped /\ Inv /\ [BanksNext]_all_vars => BanksTyped'
<1> SUFFICES ASSUME BanksTyped, Inv, [BanksNext]_all_vars
             PROVE  BanksTyped'
  OBVIOUS
<1>t. /\ may \in [Numbers -> SUBSET Bank] /\ loader \in Requests
      /\ loader.pc # "idle" => loader.bank \in Numbers
      /\ file \in Maps \cup {None} /\ saving \in Maps \cup {None}
  BY MapsAssumption DEF BanksTyped, Inv, Texted
<1>b. MapBanks \subseteq Bank
  BY MapBanksAreBanks
<1>n. NoRequest \in Requests /\ NoRequest.pc = "idle"
  BY DEF NoRequest, Requests
<1>1. CASE cmd_bank
  <2>0. PICK n \in Numbers, text \in opened : \E bank \in Edited(read(text)[n]) :
               may' = [may EXCEPT ![n] = @ \cup {bank}] /\ loader' = loader
    BY <1>1 DEF cmd_bank
  <2>1. PICK bank \in Edited(read(text)[n]) :
               may' = [may EXCEPT ![n] = @ \cup {bank}] /\ loader' = loader
    BY <2>0
  <2>2. bank \in Bank
    BY <1>b, <2>1, ReadIsMap, EditsAreBanks DEF Inv, Texted, opened
  <2> QED
    BY <1>t, <2>1, <2>2 DEF BanksTyped
<1>2. CASE SaveReturns
  <2>1. may' = [may EXCEPT ![edited] = {saving[edited]}] /\ loader' = loader
    BY <1>2 DEF SaveReturns
  <2>2. saving \in Maps
    BY <1>2, <1>t DEF SaveReturns, Rename, Inv, Texted
  <2>3. edited \in Numbers => saving[edited] \in Bank
    BY <1>b, <2>2 DEF Maps, MapBanks
  <2> QED
    BY <1>t, <2>1, <2>3 DEF BanksTyped
<1>3. CASE SaveGoesOn
  BY <1>3, <1>t DEF SaveGoesOn, bank_vars, BanksTyped
<1>4. CASE LoaderOpens
  <2>1. PICK n \in Numbers, program \in 0 .. MAX_PROGRAMS, text \in opened :
          loader' = [pc |-> IF text = None THEN "done" ELSE "reading", bank |-> n,
                     program |-> program, text |-> text, found |-> None,
                     listed |-> n \notin blind /\ Listed(n, program),
                     window |-> pc = "removed" \/ text # file]
    BY <1>4 DEF LoaderOpens
  <2>2. /\ (n \notin blind /\ Listed(n, program)) \in BOOLEAN
        /\ (pc = "removed" \/ text # file) \in BOOLEAN
    BY DEF Listed
  <2>3. program \in Nat /\ text \in Maps \cup {None}
    BY <1>t, BanksAssumption DEF opened
  <2>4. loader' \in Requests /\ loader'.bank \in Numbers
    BY <1>t, <2>1, <2>2, <2>3 DEF Requests
  <2> QED
    BY <1>4, <1>t, <2>4 DEF LoaderOpens, BanksTyped
<1>5. CASE LoaderReads
  <2>1. program_path(read(loader.text), loader.bank, loader.program)
          \in Presets \cup {None}
    BY <1>5, FoundIsPreset DEF LoaderReads
  <2> DEFINE found == program_path(read(loader.text), loader.bank, loader.program)
  <2>2. \/ loader' = [loader EXCEPT !.pc = "done", !.text = None, !.found = found]
        \/ loader' = [loader EXCEPT !.pc = "done", !.text = None, !.window = TRUE]
    BY <1>5 DEF LoaderReads
  <2> HIDE DEF found
  <2>3. loader' \in Requests /\ loader'.bank = loader.bank
    <3>1. CASE loader' = [loader EXCEPT !.pc = "done", !.text = None, !.found = found]
      BY ONLY <1>t, <2>1, <3>1 DEF BanksTyped, Requests, found
    <3>2. CASE loader' = [loader EXCEPT !.pc = "done", !.text = None, !.window = TRUE]
      BY ONLY <1>t, <3>2 DEF BanksTyped, Requests
    <3> QED
      BY <2>2, <3>1, <3>2
  <2> QED
    BY <1>5, <1>t, <2>3 DEF LoaderReads, BanksTyped
<1>6. CASE LoaderGoesOn
  BY <1>6, <1>t, <1>n DEF LoaderGoesOn, BanksTyped
<1>7. CASE Restarted
  BY <1>7, <1>t, <1>n DEF Restarted, bank_vars, BanksTyped
<1>8. CASE UNCHANGED all_vars
  BY <1>8, <1>t DEF all_vars, bank_vars, BanksTyped
<1> QED
  BY <1>1, <1>2, <1>3, <1>4, <1>5, <1>6, <1>7, <1>8 DEF BanksNext

(* A medium that has not failed now had not failed before.                 *)
LEMMA NotFailedBefore ==
  ASSUME Inv, [BanksNext]_all_vars, ~failed'
  PROVE  ~failed
<1>1. [Next]_vars
  BY StepIsFiles DEF Inv
<1> QED
  BY <1>1 DEF Next, Create, WriteFails, Write, Remove, RemoveFile, Rename,
     RenameError, RenameFails, PowerLoss, Mount, RecoverUndo, RecoverRemove,
     RecoverRename, vars

LEMMA TextsKeptStep ==
  BanksTyped /\ Inv /\ Settled /\ TextsKept /\ [BanksNext]_all_vars => TextsKept'
<1> SUFFICES ASSUME BanksTyped, Inv, Settled, TextsKept, [BanksNext]_all_vars,
                    ~failed', NEW t \in tried' \cup {last'}, NEW m \in Numbers
             PROVE  \/ read(t)[m] \in may'[m]
                    \/ m \in blind' /\ read(t)[m] = NoBank
  BY DEF TextsKept, AsEdited, read, NoBank
<1>1. \A x \in tried \cup {last} : \A n \in Numbers : AsEdited(x, n)
  BY NotFailedBefore DEF TextsKept
<1>t. may \in [Numbers -> SUBSET Bank]
  BY DEF BanksTyped
<1>2. CASE UNCHANGED <<tried, last, may, blind>>
  BY <1>1, <1>2 DEF AsEdited
<1>3. CASE cmd_bank
  <2>0. PICK n \in Numbers, text \in opened : \E bank \in Edited(read(text)[n]) :
               /\ Create([read(text) EXCEPT ![n] = bank])
               /\ may' = [may EXCEPT ![n] = @ \cup {bank}]
               /\ blind' = IF text = file THEN blind ELSE blind \cup (Numbers \ {n})
    BY <1>3 DEF cmd_bank
  <2>1. PICK bank \in Edited(read(text)[n]) :
               /\ Create([read(text) EXCEPT ![n] = bank])
               /\ may' = [may EXCEPT ![n] = @ \cup {bank}]
               /\ blind' = IF text = file THEN blind ELSE blind \cup (Numbers \ {n})
    BY <2>0
  <2> DEFINE map == [read(text) EXCEPT ![n] = bank]
  <2>2. tried' = tried \cup {map} /\ last' = last /\ pc = "idle"
    BY <2>1 DEF Create
  <2>3. may[m] \subseteq may'[m] /\ bank \in may'[n] /\ blind \subseteq blind'
    BY <1>t, <2>1
  <2>4. CASE t \in tried \cup {last}
    BY <1>1, <2>3, <2>4 DEF AsEdited
  <2>5. CASE t = map
    <3>1. read(text) \in [Numbers -> MapBanks] /\ bank \in MapBanks
      BY <2>1, ReadIsMap, EditsAreBanks DEF Inv, Texted, opened
    <3>2. map \in Texts
      BY <3>1, MapsAssumption DEF Maps, MapBanks
    <3>3. read(t) = map
      BY <2>5, <3>2, TextsAssumption DEF read
    <3>4. map[m] = (IF m = n THEN bank ELSE read(text)[m])
      BY <3>1
    <3>5. CASE text = file
      <4>1. file \in tried \cup {last}
        BY <2>2, NotFailedBefore DEF Settled, Present
      <4> QED
        BY <1>1, <2>3, <3>3, <3>4, <3>5, <4>1 DEF AsEdited
    <3>6. CASE text # file
      <4>1. read(text)[m] = NoBank
        BY <3>6 DEF opened, read
      <4>2. m # n => m \in blind'
        BY <2>1, <3>6
      <4> QED
        BY <2>3, <3>3, <3>4, <4>1, <4>2
    <3> QED
      BY <3>5, <3>6
  <2> QED
    BY <2>2, <2>4, <2>5
<1>4. CASE SaveReturns
  <2>1. /\ last' = saving /\ tried' = {} /\ pc = "removed"
        /\ may' = [may EXCEPT ![edited] = {saving[edited]}]
        /\ blind' = blind \ {edited}
    BY <1>4 DEF SaveReturns, Rename
  <2>2. saving \in Texts /\ saving \in tried
    BY <2>1 DEF Inv, Texted, Ours
  <2>3. read(saving) = saving
    BY <2>2, TextsAssumption DEF read
  <2>4. may'[m] = IF m = edited THEN {saving[edited]} ELSE may[m]
    BY <1>t, <2>1
  <2> QED
    BY <1>1, <2>1, <2>2, <2>3, <2>4 DEF AsEdited
<1>5. CASE SaveGoesOn
  BY <1>2, <1>5 DEF SaveGoesOn, bank_vars, WriteFails, Write, Remove, RenameFails
<1>6. CASE LoaderOpens \/ LoaderReads \/ LoaderGoesOn
  BY <1>2, <1>6 DEF LoaderOpens, LoaderReads, LoaderGoesOn, vars
<1>7. CASE Restarted
  BY <1>2, <1>7
  DEF Restarted, bank_vars, PowerLoss, Mount, RecoverUndo, RecoverRemove, RecoverRename
<1>8. CASE UNCHANGED all_vars
  BY <1>2, <1>8 DEF all_vars, bank_vars, vars
<1> QED
  BY <1>3, <1>4, <1>5, <1>6, <1>7, <1>8 DEF BanksNext

LEMMA TextsAreKept == BanksSpec => [](BanksTyped /\ TextsKept)
<1>1. BanksInit => BanksTyped /\ TextsKept
  <2>1. NoBank \in Bank
    BY ProgramLists, BanksAssumption, EmptySeq DEF Bank, NoBank
  <2>2. NoRequest \in Requests /\ NoRequest.pc = "idle"
    BY DEF NoRequest, Requests
  <2> QED
    BY <2>1, <2>2 DEF BanksInit, Init, BanksTyped, TextsKept, AsEdited, read
<1>2. BanksTyped /\ Inv /\ [BanksNext]_all_vars => BanksTyped'
  BY BanksTypedStep
<1>3. BanksTyped /\ Inv /\ Settled /\ TextsKept /\ [BanksNext]_all_vars => TextsKept'
  BY TextsKeptStep
<1>4. BanksSpec => BanksInit /\ [][BanksNext]_all_vars
  BY DEF BanksSpec, all_vars
<1> QED
  BY <1>1, <1>2, <1>3, <1>4, FileIsSafe, Invariance, Settles, PTL

(* An edit of one bank never changes another: mounted and at rest, each    *)
(* bank of the file is what that bank's own edits made it, whatever saves  *)
(* and recoveries were cut off, until the medium fails; only a command that*)
(* cannot open the file deletes the others (banks.cpp:91-94).              *)
THEOREM OthersAreKept == BanksSpec => []BanksKept
<1>1. Settled /\ TextsKept => BanksKept
  BY DEF Settled, Present, TextsKept, AsEdited, BanksKept
<1> QED
  BY <1>1, TextsAreKept, FileIsSafe, Settles, PTL

-----------------------------------------------------------------------------
LEMMA TextHasProgramStep ==
  /\ BanksTyped /\ Inv /\ Settled /\ TextsKept /\ TextHasProgram
  /\ [BanksNext]_all_vars
  => TextHasProgram'
<1> SUFFICES ASSUME BanksTyped, Inv, Settled, TextsKept, TextHasProgram,
                    [BanksNext]_all_vars, ~failed', loader'.listed, ~loader'.window
             PROVE  /\ loader'.pc = "reading"
                         => /\ loader'.text # None
                            /\ loader'.program < Len(loader'.text[loader'.bank].programs)
                    /\ loader'.pc = "done" => loader'.found # None
  BY DEF TextHasProgram
<1>f. ~failed
  BY NotFailedBefore
<1>1. CASE loader' = loader
  BY <1>1, <1>f DEF TextHasProgram
<1>2. CASE loader' = NoRequest
  BY <1>2 DEF NoRequest
<1>3. CASE LoaderOpens
  <2>1. PICK n \in Numbers, program \in 0 .. MAX_PROGRAMS, text \in opened :
          loader' = [pc |-> IF text = None THEN "done" ELSE "reading", bank |-> n,
                     program |-> program, text |-> text, found |-> None,
                     listed |-> n \notin blind /\ Listed(n, program),
                     window |-> pc = "removed" \/ text # file]
    BY <1>3 DEF LoaderOpens
  <2>2. /\ pc # "removed" /\ loader'.text = file /\ loader'.bank = n
        /\ loader'.program = program
        /\ loader'.pc = (IF file = None THEN "done" ELSE "reading")
    BY <2>1
  <2>3. /\ n \notin blind
        /\ \A bank \in may[n] : program < Len(bank.programs)
    BY <2>1 DEF Listed
  <2>4. file \in tried \cup {last}
    BY <1>3, <1>f, <2>2 DEF LoaderOpens, Up, Settled, Present
  <2>5. program < Len(read(file)[n].programs)
    BY <1>f, <2>3, <2>4 DEF TextsKept, AsEdited
  <2>6. file # None
    <3> SUFFICES ASSUME file = None
                 PROVE  FALSE
      OBVIOUS
    <3>1. read(file)[n].programs = <<>>
      BY DEF read, NoBank
    <3>2. program < 0 /\ program \in Nat
      BY <2>5, <3>1, BanksAssumption
    <3> QED
      BY <3>2
  <2> QED
    BY <2>2, <2>5, <2>6 DEF read
<1>4. CASE LoaderReads
  <2>1. /\ loader.pc = "reading"
        /\ loader' = [loader EXCEPT !.pc = "done", !.text = None,
              !.found = program_path(read(loader.text), loader.bank, loader.program)]
    BY <1>4 DEF LoaderReads, BanksTyped, Requests
  <2>2. /\ loader'.pc = "done" /\ loader.listed /\ ~loader.window
        /\ loader'.found = program_path(read(loader.text), loader.bank, loader.program)
    BY <2>1 DEF BanksTyped, Requests
  <2>3. /\ loader.text # None
        /\ loader.program < Len(loader.text[loader.bank].programs)
    BY <1>f, <2>1, <2>2 DEF TextHasProgram
  <2> QED
    BY <2>1, <2>2, <2>3, FoundIsPreset
<1>5. CASE cmd_bank \/ SaveReturns \/ SaveGoesOn
  BY <1>1, <1>5 DEF cmd_bank, SaveReturns, SaveGoesOn, bank_vars
<1>6. CASE LoaderGoesOn
  BY <1>2, <1>6 DEF LoaderGoesOn
<1>7. CASE Restarted
  BY <1>1, <1>2, <1>7 DEF Restarted, bank_vars
<1>8. CASE UNCHANGED all_vars
  BY <1>1, <1>8 DEF all_vars, bank_vars
<1> QED
  BY <1>3, <1>4, <1>5, <1>6, <1>7, <1>8 DEF BanksNext

(* A program that is there before and after the save under way is found by *)
(* a Program Change, but for one that opens the file, or fails to read it, *)
(* between the remove and the rename or cannot open it, and for a bank that*)
(* a command that could not open it has deleted.                           *)
THEOREM ListedAreFound == BanksSpec => []ProgramsAreFound
<1>1. BanksInit => TextHasProgram
  BY DEF BanksInit, TextHasProgram, NoRequest
<1>2. /\ BanksTyped /\ Inv /\ Settled /\ TextsKept /\ TextHasProgram
      /\ [BanksNext]_all_vars
      => TextHasProgram'
  BY TextHasProgramStep
<1>3. TextHasProgram => ProgramsAreFound
  BY DEF TextHasProgram, ProgramsAreFound
<1>4. BanksSpec => BanksInit /\ [][BanksNext]_all_vars
  BY DEF BanksSpec, all_vars
<1> QED
  BY <1>1, <1>2, <1>3, <1>4, TextsAreKept, FileIsSafe, Invariance, Settles, PTL

=============================================================================
