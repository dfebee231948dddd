----------------------------- MODULE EngineBoot -----------------------------
(***************************************************************************)
(* The SPI link's users against the chip: the boot (engine_link_init), the *)
(* self-test (engine_selftest.cpp), the 1 kHz tick, the voice task's direct*)
(* writes and the console's commands (cli_csp.cpp), which after the boot   *)
(* are the main task's.                                                    *)
(*                                                                         *)
(* What the main task does is a script: the transactions and waits still   *)
(* before it.  A transaction takes two steps, so that another can come     *)
(* between them; a locked one holds the link's lock from one to the other. *)
(*                                                                         *)
(* The chip keeps its state over a restart of the firmware.  A program is  *)
(* its rows and its decode ROM, each loaded whole: "control", "test" (the  *)
(* self-test's), "lab" or "none"; a word is whose it is: the image's, the  *)
(* test's, or what another run left.                                       *)
(***************************************************************************)
EXTENDS Integers, Sequences, FiniteSets, SequencesExt

CONSTANTS Set,             \* the registers the image sets, of those below
          Counter,         \* the self-test's counters, one register
          CAPACITY,        \* queue_depth (511)
          ATTEMPTS,        \* boot_image_attempts (3)
          MaxLosses        \* bound: words the queue loses in a boot (issue #222)

Regs == Set \union {Counter}

ASSUME BootAssumption ==
  /\ IsFiniteSet(Set) /\ Set \subseteq Nat \ {0}    \* 0 reads zero, always
  /\ Counter \in Nat \ (Set \union {0})
  /\ CAPACITY \in Nat \ {0, 1} /\ ATTEMPTS \in Nat \ {0} /\ MaxLosses \in Nat

VARIABLES
  hold, rows, rom, regs, fifo, committed,     \* the chip
  image, pending, paused, running,            \* the link
  lock,                                       \* who has it, or "free"
  bus,                                        \* the tasks in a transaction
  script, attempts,                           \* the main task
  tick, voice,                                \* the transactions they are in
  losses,                                     \* history: words still to lose
  past                                        \* history, see Init

chip == <<hold, rows, rom, regs, fifo, committed>>
link == <<image, pending, paused, running>>
tasks == <<lock, bus, script, attempts, tick, voice>>
vars == <<chip, link, tasks, losses, past>>

-----------------------------------------------------------------------------
(* The steps of a script.                                                  *)
Step(op, arg) == [op |-> op, arg |-> arg, locked |-> FALSE]
Ctrl(bits)    == Step("ctrl", bits)        \* the CTRL dword, at once
Release       == Step("free", 0)           \* the same, of no bit, from the console
Queue(r, v)   == Step("queue", <<r, v>>)   \* a word through the FIFO's door
Rows(program) == Step("rows", program)
Rom(program)  == Step("rom", program)
Touch         == Step("touch", 0)          \* a read, or a write of no word of these
Wait          == Step("wait", 0)
Pause         == Step("pause", 0)

Locked(steps) ==           \* engine_link_raw_write and its like
  [i \in DOMAIN steps |-> [steps[i] EXCEPT !.locked = @ \/
                             steps[i].op \notin {"wait", "pause"}]]

(* A pair read through the probe: asked for, some passes later read.       *)
probe_pair(read) == Locked(<<Touch, Wait, read>>)

SelfTest(leave_running) ==
  <<Ctrl({"hold"}), Rows("test"), Rom("test"), Queue(Counter, "zero"),
    Ctrl({"hold", "swap"}), Wait, Ctrl({}), Wait>>
  \o probe_pair(Step("check", 0))
  \o (IF leave_running THEN <<>> ELSE <<Ctrl({"hold"})>>)

(* Every register to zero: those left, and the words since a commit.       *)
Clear(left, since_commit) ==
  Step("clear", [left |-> left, since_commit |-> since_commit])
clear_registers == <<Clear(Regs, 0)>>

load_program == <<Rows("control"), Rom("control")>>

Drain == <<Ctrl({"hold", "swap"}), Wait>>

(* Mutants: what the queue held is left there; the registers are cleared   *)
(* before the self-test.                                                   *)
engine_link_init_no_drain ==
  <<Ctrl({"hold"})>> \o SelfTest(FALSE) \o clear_registers \o load_program
  \o <<Step("setup", 0), Step("send", 0), Step("verify", 0), Step("release", {})>>
engine_link_init_clears_first ==
  <<Ctrl({"hold"})>> \o Drain \o clear_registers \o SelfTest(FALSE) \o load_program
  \o <<Step("setup", 0), Step("send", 0), Step("verify", 0), Step("release", {})>>

engine_link_init ==
  <<Ctrl({"hold"})>> \o Drain \o SelfTest(FALSE) \o clear_registers \o load_program
  \o <<Step("setup", 0), Step("send", 0), Step("verify", 0), Step("release", {})>>

(* Before it, the link is tried on the scratch dwords.                     *)
spi_link_boot_check == <<Touch, Touch>>
app_main == spi_link_boot_check \o engine_link_init

-----------------------------------------------------------------------------
(* The console's commands, and what they call.  Those that count or compare*)
(* what they read are what they do on the link.                            *)
engine_link_selftest(leave_running) ==
  Locked(<<Step("pause_hold", {"hold"})>>) \o SelfTest(leave_running)
engine_link_data_stream == Locked(<<Release>>)
engine_link_peek == probe_pair(Touch)
engine_link_spi_frequency == Locked(<<Touch>>)

cmd_freeze == <<Pause>> \o Locked(<<Ctrl({"hold"}), Wait>>)
cmd_thaw   == Locked(<<Release>>)
cmd_step   == Locked(<<Touch, Release, Wait, Ctrl({"hold"}), Touch, Wait>>)

(* Mutant: the tick is not paused.                                         *)
cmd_hold_ticking ==
  Locked(<<Ctrl({"hold"}), Ctrl({"hold", "swap"}), Wait, Rows("none"), Rom("none")>>)

cmd_hold ==
  <<Pause>> \o Locked(<<Ctrl({"hold"}), Ctrl({"hold", "swap"}), Wait,
                        Rows("none"), Rom("none")>>)

cmd_row   == Locked(<<Rows("lab")>>)      \* a lab's rows, one command each
cmd_rom   == Locked(<<Rom("lab")>>)       \* and so on
cmd_const == Locked(<<Queue(Counter, "lab")>>)
cmd_go    == Locked(<<Ctrl({"hold", "swap"}), Wait, Release>>)
cmd_burst == Locked(<<Queue(Counter, "lab"), Ctrl({"hold", "swap"}), Wait>>)
cmd_peek   == engine_link_peek
cmd_dump   == engine_link_peek \o engine_link_peek       \* every pair in turn
cmd_pairwatch == engine_link_peek \o engine_link_peek    \* one pair, again and again
cmd_verify == engine_link_peek \o engine_link_peek       \* every pair the image knows
cmd_poke   == <<Step("write", 0)>>
cmd_raw    == Locked(<<Touch>>)
cmd_diag   == Locked(<<Touch, Touch>>)
cmd_trap(armed) == IF armed THEN Locked(<<Touch>>)
                   ELSE Locked(<<Touch, Touch>>)
cmd_spitest == Locked(<<Touch, Touch>>)
cmd_spiclk == engine_link_spi_frequency
cmd_stream == engine_link_data_stream
cmd_resend == Locked(<<Step("resend", 0)>>)
cmd_selftest(leave_running) == engine_link_selftest(leave_running)

Commands ==
  {cmd_freeze, cmd_thaw, cmd_step, cmd_hold, cmd_row, cmd_rom, cmd_const, cmd_go,
   cmd_burst, cmd_peek, cmd_dump, cmd_pairwatch, cmd_verify, cmd_poke, cmd_raw, cmd_diag,
   cmd_trap(TRUE), cmd_trap(FALSE), cmd_spitest, cmd_spiclk, cmd_stream,
   cmd_resend, cmd_selftest(TRUE), cmd_selftest(FALSE)}

-----------------------------------------------------------------------------
(* What has happened since the boot began, or released the processor.      *)
Nothing ==
  [freed |-> FALSE,       \* the test tone released a held processor, or the
                          \* console one with half a program
   complained |-> FALSE,  \* the boot gave the image up
   spoilt |-> FALSE,      \* the self-test's word has not got into the queue
   unclear |-> {}]        \* the registers whose zero the queue lost

(* The chip finds itself as another run of the firmware left it, its queue *)
(* full perhaps.                                                           *)
Init ==
  /\ hold \in BOOLEAN /\ rows = "control" /\ rom = "control"
  /\ regs = [r \in Regs |-> "old"]
  /\ \E n \in 0 .. CAPACITY : fifo = [i \in 1 .. n |-> <<Counter, "old">>]
  /\ committed = 0
  /\ image = [r \in Regs |-> "unset"] /\ pending = {}
  /\ paused = FALSE /\ running = FALSE
  /\ lock = "free" /\ bus = {} /\ script = app_main /\ attempts = 0
  /\ tick = "idle" /\ voice = "idle" /\ losses = MaxLosses
  /\ past = Nothing

(* The firmware restarts, wherever it is.                                  *)
Restart ==
  /\ image' = [r \in Regs |-> "unset"] /\ pending' = {}
  /\ paused' = FALSE /\ running' = FALSE
  /\ lock' = "free" /\ bus' = {} /\ script' = app_main /\ attempts' = 0
  /\ tick' = "idle" /\ voice' = "idle"
  /\ past' = [past EXCEPT !.complained = FALSE, !.spoilt = FALSE, !.unclear = {}]
  /\ losses' = MaxLosses /\ UNCHANGED chip

(* A pass: the program, if it runs, then what is committed.                *)
Computed ==
  IF ~hold /\ rows = "test" /\ rom = "test"
  THEN [regs EXCEPT ![Counter] = "test"] ELSE regs

Applied(file, words) ==            \* a register's last word of them
  LET At(r) == {i \in DOMAIN words : words[i][1] = r} IN
  [r \in Regs |-> IF At(r) = {} THEN file[r] ELSE words[Max(At(r))][2]]

Pass ==
  /\ ~hold \/ committed > 0
  /\ regs' = Applied(Computed, SubSeq(fifo, 1, committed))
  /\ fifo' = SubSeq(fifo, committed + 1, Len(fifo)) /\ committed' = 0
  /\ UNCHANGED <<hold, rows, rom, link, tasks, losses, past>>

FirstOf(words, n) == SubSeq(words, 1, IF n < Len(words) THEN n ELSE Len(words))
Queued(words) == fifo \o FirstOf(words, CAPACITY - Len(fifo))

WriteWords(words) ==
  fifo' = Queued(words) /\ UNCHANGED <<hold, rows, rom, regs, committed>>

WriteCtrl(bits, words) ==         \* after these words, if any
  /\ fifo' = Queued(words)
  /\ hold' = ("hold" \in bits)
  /\ committed' = IF "swap" \in bits THEN Len(fifo') ELSE committed
  /\ UNCHANGED <<rows, rom, regs>>

-----------------------------------------------------------------------------
(* The numbers of a set, lowest first.                                     *)
InOrder(numbers) ==
  {s \in [1 .. Cardinality(numbers) -> numbers] :
     \A i, j \in DOMAIN s : i < j => s[i] < s[j]}

(* Pending words out, lowest first, and committed.                         *)
WordsOut(limit) ==
  {LET first == FirstOf(order, limit)
   IN  [i \in DOMAIN first |-> <<first[i], image[first[i]]>>] : order \in InOrder(pending)}

Sent(words) == {words[i][1] : i \in DOMAIN words}

Lossy(words) ==            \* what is left when the queue loses some
  {[i \in DOMAIN kept |-> words[kept[i]]] :
     kept \in UNION {InOrder(DOMAIN words \ lost) :
                       lost \in {l \in SUBSET DOMAIN words : Cardinality(l) <= losses}}}

Known(r) == image[r] # "unset" /\ r \notin pending
verify_image == {r \in Regs : Known(r) /\ regs[r] # image[r]}
resend_all == pending' = pending \union {r \in Regs : image[r] # "unset"}

-----------------------------------------------------------------------------
(***************************************************************************)
(* The main task: the head of its script.                                  *)
(***************************************************************************)
next == Head(script)
OnBus == {"ctrl", "free", "queue", "clear", "rows", "rom", "touch", "check",
          "pause_hold", "send", "release"}

MainBegins ==
  /\ script # <<>> /\ next.op \in OnBus /\ "main" \notin bus
  /\ next.locked => lock = "free"
  /\ lock' = IF next.locked THEN "main" ELSE lock
  /\ bus' = bus \union {"main"}
  /\ UNCHANGED <<chip, link, script, attempts, tick, voice, losses, past>>

Leaves(t) == bus' = bus \ {t} /\ lock' = IF lock = t THEN "free" ELSE lock
Goes == script' = Tail(script)
MainRest == UNCHANGED <<attempts, tick, voice>>

(* A word through the door: the queue may lose it, or be full.  The self-  *)
(* test's finds it full when the console has filled it (csp-const).        *)
QueuesOne ==
  /\ next.op = "queue"
  /\ \E kept \in Lossy(<<next.arg>>) :
       /\ WriteWords(kept) /\ losses' = losses - (1 - Len(kept))
       /\ past' = [past EXCEPT !.spoilt = (kept = <<>>) \/ (running /\ Len(fifo) >= CAPACITY)]
  /\ Goes /\ UNCHANGED link

(* Half a program: the processor released with it, or its rows or ROM typed*)
(* on while the tick may release, or has.                                  *)
Releases == past' = [past EXCEPT !.freed = @ \/ rows # rom]
LoadsOnto(program) ==
  past' = IF program = "lab" /\ ~(hold /\ paused)
          THEN [past EXCEPT !.freed = TRUE] ELSE past

(* A register cleared; a chunk of them is committed and waited for.        *)
ClearsOne ==
  /\ next.op = "clear"
  /\ \E r \in next.arg.left :
       LET left == next.arg.left \ {r}
           since_commit == next.arg.since_commit + 1
           commits == left = {} \/ since_commit >= CAPACITY \div 2
       IN  /\ \A other \in left : r < other
           /\ \E kept \in Lossy(<<<<r, "zero">>>>) :
                /\ WriteWords(kept) /\ losses' = losses - (1 - Len(kept))
                /\ past' = IF kept = <<>>
                           THEN [past EXCEPT !.unclear = @ \union {r}] ELSE past
           /\ script' = (IF commits THEN Drain ELSE <<>>)
                        \o (IF left = {} THEN <<>>
                            ELSE <<Clear(left, IF commits THEN 0 ELSE since_commit)>>)
                        \o Tail(script)
  /\ UNCHANGED link

(* A chunk of the boot's image; again while words are pending.             *)
SendsHeld ==
  /\ next.op = "send"
  /\ \E words \in WordsOut(CAPACITY \div 2) :
       /\ \E kept \in Lossy(words) :
            /\ WriteCtrl({"hold", "swap"}, kept)
            /\ losses' = losses - (Len(words) - Len(kept))
       /\ pending' = pending \ Sent(words)
  /\ script' = <<Wait>> \o (IF pending' = {} THEN Tail(script) ELSE script)
  /\ UNCHANGED <<image, paused, running, past>>

(* A load lasts many passes: what is committed is applied meanwhile.       *)
MainEnds ==
  /\ "main" \in bus /\ Leaves("main") /\ MainRest
  /\ \/ /\ next.op \in {"ctrl", "pause_hold"} /\ WriteCtrl(next.arg, <<>>) /\ Goes
        /\ paused' = (paused \/ next.op = "pause_hold")
        /\ UNCHANGED <<image, pending, running, losses, past>>
     \/ /\ next.op = "free" /\ WriteCtrl({}, <<>>) /\ Releases /\ Goes
        /\ UNCHANGED <<link, losses>>
     \/ QueuesOne
     \/ /\ next.op = "rows" /\ committed = 0 /\ rows' = next.arg /\ Goes
        /\ LoadsOnto(next.arg)
        /\ UNCHANGED <<hold, rom, regs, fifo, committed, link, losses>>
     \/ /\ next.op = "rom" /\ committed = 0 /\ rom' = next.arg /\ Goes
        /\ LoadsOnto(next.arg)
        /\ UNCHANGED <<hold, rows, regs, fifo, committed, link, losses>>
     \/ /\ next.op \in {"touch", "check"} /\ Goes
        /\ UNCHANGED <<chip, link, losses, past>>
     \/ ClearsOne
     \/ SendsHeld
     \/ /\ next.op = "release" /\ WriteCtrl({}, <<>>) /\ Goes
        /\ running' = TRUE /\ past' = Nothing /\ losses' = 0
        /\ UNCHANGED <<image, pending, paused>>

(* A wait is long enough for what is committed to be applied.              *)
MainWaits ==
  /\ script # <<>> /\ next.op = "wait" /\ committed = 0 /\ Goes
  /\ UNCHANGED <<chip, link, lock, bus, attempts, tick, voice, losses, past>>

MainPauses ==              \* engine_link_pause: the lock is not taken
  /\ script # <<>> /\ next.op = "pause" /\ paused' = TRUE /\ Goes
  /\ UNCHANGED <<chip, image, pending, running, lock, bus, attempts, tick, voice,
                 losses, past>>

MainSetsUp ==              \* render::setup
  /\ script # <<>> /\ next.op = "setup" /\ Goes
  /\ image' = [r \in Regs |-> IF r \in Set THEN "image" ELSE "unset"] /\ pending' = Set
  /\ UNCHANGED <<chip, paused, running, lock, bus, attempts, tick, voice, losses, past>>

MainResends ==
  /\ script # <<>> /\ next.op = "resend" /\ lock = "free"
  /\ resend_all /\ Goes
  /\ UNCHANGED <<chip, image, paused, running, lock, bus, attempts, tick, voice,
                 losses, past>>

MainWrites ==              \* engine_link_write, engine_link_write_forced
  /\ script # <<>> /\ next.op = "write" /\ lock = "free" /\ Goes
  /\ \E r \in Regs : image' = [image EXCEPT ![r] = "image"] /\ pending' = pending \union {r}
  /\ UNCHANGED <<chip, paused, running, lock, bus, attempts, tick, voice, losses, past>>

(* Mutant: the image is taken for whole once it has been sent again.       *)
MainVerifies_once ==
  /\ script # <<>> /\ next.op = "verify"
  /\ IF verify_image = {} \/ attempts > 0
     THEN Goes /\ UNCHANGED <<pending, attempts, past>>
     ELSE /\ attempts' = attempts + 1 /\ resend_all
          /\ script' = <<Step("send", 0)>> \o script
          /\ UNCHANGED past
  /\ UNCHANGED <<chip, image, paused, running, lock, bus, tick, voice, losses>>

(* Read back and, if it differs, sent again: after the last attempt too,   *)
(* which is not read back.                                                 *)
MainVerifies ==            \* verify_boot_image, to its return
  /\ script # <<>> /\ next.op = "verify"
  /\ LET last == attempts + 1 = ATTEMPTS IN
     IF verify_image = {}
     THEN Goes /\ attempts' = 0 /\ UNCHANGED <<pending, past>>
     ELSE /\ attempts' = (IF last THEN 0 ELSE attempts + 1) /\ resend_all
          /\ script' = <<Step("send", 0)>> \o (IF last THEN Tail(script) ELSE script)
          /\ past' = [past EXCEPT !.complained = last]
  /\ UNCHANGED <<chip, image, paused, running, lock, bus, tick, voice, losses>>

Console ==
  /\ running /\ script = <<>> /\ script' \in Commands
  /\ UNCHANGED <<chip, link, lock, bus, attempts, tick, voice, losses, past>>

-----------------------------------------------------------------------------
(***************************************************************************)
(* The tick and the voice task, once the link runs.                        *)
(***************************************************************************)
(* Mutant: the health check reads without the lock.                        *)
TickBegins_unlocked ==
  /\ running /\ tick = "idle" /\ committed = 0
  /\ \/ lock = "free" /\ ~paused /\ pending # {} /\ tick' = "send" /\ lock' = "tick"
     \/ tick' = "check_gateware_health" /\ UNCHANGED lock
  /\ bus' = bus \union {"tick"}
  /\ UNCHANGED <<chip, link, script, attempts, voice, losses, past>>

TickBegins ==              \* the last tick's words have been applied
  /\ running /\ lock = "free" /\ tick = "idle" /\ committed = 0
  /\ \/ ~paused /\ pending # {} /\ tick' = "send"
     \/ tick' = "check_gateware_health"
  /\ lock' = "tick" /\ bus' = bus \union {"tick"}
  /\ UNCHANGED <<chip, link, script, attempts, voice, losses, past>>

check_gateware_health == UNCHANGED <<chip, link>>   \* reads, and the log

TickEnds ==
  /\ tick # "idle" /\ tick' = "idle" /\ Leaves("tick")
  /\ IF tick = "send"
     THEN /\ \E words \in WordsOut(CAPACITY) :
               WriteCtrl({"swap"}, words) /\ pending' = pending \ Sent(words)
          /\ UNCHANGED <<image, paused, running>>
     ELSE check_gateware_health
  /\ UNCHANGED <<script, attempts, voice, losses, past>>

VoiceBegins ==
  /\ running /\ lock = "free" /\ voice = "idle"
  /\ voice' = "writes"
  /\ lock' = "voice" /\ bus' = bus \union {"voice"}
  /\ UNCHANGED <<chip, link, script, attempts, tick, losses, past>>

engine_link_point == UNCHANGED <<chip, past>>       \* pointers, no word of these
engine_link_test_tone ==
  WriteCtrl({}, <<>>) /\ past' = [past EXCEPT !.freed = @ \/ hold]

VoiceEnds ==
  /\ voice # "idle" /\ voice' = "idle" /\ Leaves("voice")
  /\ engine_link_point \/ engine_link_test_tone
  /\ UNCHANGED <<link, script, attempts, tick, losses>>

VoiceWrites ==             \* engine_link_write_all, of a changed or forced value
  /\ running /\ lock = "free"
  /\ \E r \in Set : pending' = pending \union {r}
  /\ UNCHANGED <<chip, image, paused, running, tasks, losses, past>>

MainTask == \/ MainBegins \/ MainEnds \/ MainWaits \/ MainPauses \/ MainSetsUp
            \/ MainResends \/ MainWrites \/ MainVerifies \/ Console
engine_task == TickBegins \/ TickEnds
VoiceTask == VoiceBegins \/ VoiceEnds \/ VoiceWrites

Next == Pass \/ MainTask \/ engine_task \/ VoiceTask \/ Restart

Spec == Init /\ [][Next]_vars

-----------------------------------------------------------------------------
(* A processor that runs has one program's rows with the same one's ROM:   *)
(* neither the tick, nor the boot, nor the self-test, nor csp-hold releases*)
(* it in the middle of a load.  Two do, as their CTRL dword has no hold    *)
(* whatever the chip is at: the test tone's CC (voice_alloc.cpp:400), and  *)
(* csp-stream, csp-thaw, csp-step and csp-go typed between two of a lab's  *)
(* rows (engine_link.cpp:699, cli_csp.cpp:435-559); and a row typed without*)
(* csp-hold is a load into a program that runs.                            *)
RunsWholeProgram == hold \/ rows = rom \/ past.freed

Releasing == script # <<>> /\ next.op = "release"

(* When the boot releases the processor each register holds what the image *)
(* says, lost words made good, or it has said that it gave up.             *)
ReleasedAsSent ==
  Releasing => past.complained \/ \A r \in Regs : Known(r) => regs[r] = image[r]

(* Then, too, what the image does not set is zero: nothing of the self-test*)
(* or of the last run is left, in the registers or in the queue - but for a*)
(* register whose zero the queue lost, which nobody misses: what is read   *)
(* back is what the image knows (verify_image).                            *)
NothingLeftOver ==
  Releasing => /\ fifo = <<>> /\ pending = {} /\ rows = "control"
               /\ \A r \in Regs :
                    image[r] = "unset" => regs[r] = "zero" \/ r \in past.unclear

(* The self-test's counters are its own: nothing queued before it is       *)
(* applied over them, if the zeros it queues get there.                    *)
SelfTestIsItsOwn ==
  script # <<>> /\ next.op = "check"
    => fifo = <<>> /\ (regs[Counter] \in {"zero", "test"} \/ past.spoilt)

(* The link has one user at a time, but while the console runs the         *)
(* self-test, which does not take the lock.                                *)
OneTransaction ==
  Cardinality(bus) > 1 => running /\ script # <<>> /\ ~next.locked
=============================================================================
