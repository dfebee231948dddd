------------------------------- MODULE Banks --------------------------------
(***************************************************************************)
(* banks.toml and its two users (app/main/banks.cpp, cli_banks.cpp): the   *)
(* console's `bank` commands, each of which reads the file, edits the map  *)
(* and saves it by way of safe_file, and the loader, which reads the file  *)
(* for every Program Change (voice_alloc.cpp:562) while such a save is     *)
(* perhaps under way.                                                      *)
(*                                                                         *)
(* A text is the map it parses to, and to_text and parse are inverse: what *)
(* is cut short is the medium's (SafeFile).  A file that cannot be opened  *)
(* (no memory, too many open) reads as one that is not there; one that     *)
(* cannot be read makes a command refuse.  The file system lets a file be  *)
(* deleted while it is read (CONFIG_FATFS_FS_LOCK=0): the reader then gets *)
(* the old text or an error.                                               *)
(***************************************************************************)
EXTENDS SafeFile, Integers, Sequences

SE == INSTANCE SequencesExt

CONSTANTS Numbers,         \* bank numbers (0 .. max_bank)
          Presets,         \* preset files that read
          Folder,          \* the presets of a folder, in path order
          MAX_PROGRAMS,    \* 128
          MaxEdits         \* bound: commands that save

ASSUME BanksAssumption ==
  /\ Folder \in Seq(Presets) /\ Len(Folder) <= MAX_PROGRAMS
  /\ {MAX_PROGRAMS, MaxEdits} \subseteq Nat /\ None \notin Presets

VARIABLES loader,          \* the Program Change being looked up
          edited,          \* the bank the save under way edits
          edits,           \* history: commands so far
          may,             \* history: what each bank may be, after its own edits
          blind            \* history: banks whose file a command could not open, and
                           \* saved the edit of another over

bank_vars == <<loader, edited, edits, may, blind>>

Bank == [exists : BOOLEAN, programs : SE!SeqOf(Presets, MAX_PROGRAMS)]
NoBank == [exists |-> FALSE, programs |-> <<>>]
Maps == [Numbers -> {NoBank} \union {b \in Bank : b.exists}]

ASSUME MapsAssumption == Texts = Maps

(* What opening the file gives: it, or nothing, for whatever reason.       *)
opened == {file, None}

(* "A missing file is an empty map, not an error" (banks.hpp:38).          *)
read(text) == IF text = None THEN [n \in Numbers |-> NoBank] ELSE text

program_path(map, n, program) ==
  IF program < Len(map[n].programs) THEN map[n].programs[program + 1] ELSE None

NoRequest == [pc |-> "idle", bank |-> 0, program |-> 0, text |-> None,
              found |-> None, listed |-> FALSE, window |-> FALSE]

BanksInit ==
  /\ Init
  /\ loader = NoRequest /\ edited = 0 /\ edits = 0
  /\ may = [n \in Numbers |-> {NoBank}] /\ blind = {}

-----------------------------------------------------------------------------
(* cmd_bank: what it may make of a bank, or it refuses.                    *)
Edited(bank) ==
  LET size == Len(bank.programs)
      With(programs) == [exists |-> TRUE, programs |-> programs]
      made   == IF bank.exists THEN {} ELSE {With(<<>>)}
      build  == IF size = 0 THEN {With(Folder)} ELSE {}
      insert == {With(SE!InsertAt(bank.programs, at, preset)) :
                   at \in 1 .. size + 1, preset \in Presets}
      rm     == {With(SE!RemoveAt(bank.programs, at)) : at \in 1 .. size}
  IN  made \union build
      \union IF bank.exists THEN {NoBank} \union rm ELSE {}
      \union IF bank.exists /\ size < MAX_PROGRAMS THEN insert ELSE {}

cmd_bank ==
  /\ edits < MaxEdits /\ edits' = edits + 1
  /\ \E n \in Numbers, text \in opened : \E bank \in Edited(read(text)[n]) :
       /\ Create([read(text) EXCEPT ![n] = bank])
       /\ edited' = n /\ may' = [may EXCEPT ![n] = @ \union {bank}]
       /\ blind' = IF text = file THEN blind ELSE blind \union (Numbers \ {n})
  /\ UNCHANGED loader

SaveReturns ==             \* true: the bank is what the command said
  /\ Rename
  /\ may' = [may EXCEPT ![edited] = {saving[edited]}]
  /\ blind' = blind \ {edited}
  /\ UNCHANGED <<loader, edited, edits>>

SaveGoesOn ==
  /\ WriteFails \/ Write \/ Remove \/ RenameFails
  /\ UNCHANGED bank_vars

-----------------------------------------------------------------------------
(* The loader: banks_program_path.                                         *)
Up == pc \in {"idle", "writing", "written", "removed"}

Listed(n, program) == \A bank \in may[n] : program < Len(bank.programs)

LoaderOpens ==
  /\ Up /\ loader.pc = "idle"
  /\ \E n \in Numbers, program \in 0 .. MAX_PROGRAMS, text \in opened :
       loader' = [pc |-> IF text = None THEN "done" ELSE "reading", bank |-> n,
                  program |-> program, text |-> text, found |-> None,
                  listed |-> n \notin blind /\ Listed(n, program),
                  window |-> pc = "removed" \/ text # file]
  /\ UNCHANGED <<vars, edited, edits, may, blind>>

LoaderReads ==
  /\ Up /\ loader.pc = "reading"
  /\ \/ loader' = [loader EXCEPT !.pc = "done", !.text = None,
                     !.found = program_path(read(loader.text), loader.bank, loader.program)]
     \/ /\ file # loader.text \/ pc = "removed"
        /\ loader' = [loader EXCEPT !.pc = "done", !.text = None, !.window = TRUE]
  /\ UNCHANGED <<vars, edited, edits, may, blind>>

LoaderGoesOn ==
  /\ Up /\ loader.pc = "done" /\ loader' = NoRequest
  /\ UNCHANGED <<vars, edited, edits, may, blind>>

Restarted ==               \* the loader's request is lost with the power
  \/ PowerLoss /\ loader' = NoRequest /\ UNCHANGED <<edited, edits, may, blind>>
  \/ Mount /\ UNCHANGED bank_vars
  \/ RecoverUndo /\ UNCHANGED bank_vars
  \/ RecoverRemove /\ UNCHANGED bank_vars
  \/ RecoverRename /\ UNCHANGED bank_vars

BanksNext == \/ cmd_bank \/ SaveReturns \/ SaveGoesOn
             \/ LoaderOpens \/ LoaderReads \/ LoaderGoesOn
             \/ Restarted

BanksSpec == BanksInit /\ [][BanksNext]_<<vars, bank_vars>>

-----------------------------------------------------------------------------
(* An edit of one bank never changes another, whatever saves and recoveries*)
(* were cut off in between: each bank is what its own edits made it        *)
(* (docs/storage_format.md:440), until the medium fails; but a command that*)
(* cannot open the file deletes all the banks but its own                  *)
(* (banks.cpp:91-94).                                                      *)
BanksKept ==
  pc = "idle" /\ ~failed =>
    \A n \in Numbers : \/ read(file)[n] \in may[n]
                       \/ n \in blind /\ read(file)[n] = NoBank

(* A program that is there before and after the save under way is found by *)
(* a Program Change, but for one that opens the file between the remove and*)
(* the rename or cannot open it, and for a bank that a command that could  *)
(* not open it has deleted.                                                *)
ProgramsAreFound ==
  loader.pc = "done" /\ loader.listed /\ ~loader.window /\ ~failed
    => loader.found # None
=============================================================================
