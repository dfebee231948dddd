# Noaidi synth: TLA+ models, model checking and proofs

This directory holds TLA+ models of the control of the Noaidi synthesiser: an
ESP32-C3 firmware (`src/app/main`) that plays a sound engine in an FPGA
(`src/rtl`) over SPI. The modules are written from the source. What a module
says of the code is what the lines named in `PROJECT.json` (`map`) do.

To check a run: `tlc -config MCVoiceAlloc.cfg MCVoiceAlloc`. To check a proof:
`tlapm VoiceAllocProofs.tla`.

## 1. The system

```
 DIN, panel UART        BLE central            console
       | bytes               | packets            | commands
   midi_in tasks        ble_midi ring, task       |
   + midi_parser        + midi_parser             |
       +----------+----------+                    |
                  v event_bus (drops when full)   | preset_request (waits)
             s_queue  <---------------------------+<---------+
                  v                                          |
            voice task (voice_alloc)  --s_program_queue--> loader --> banks, presets
                  | render: lists of writes                          (safe_file)
                  v engine_link_write_all (lock)
            engine image  --1 kHz tick, lock-->  SPI link
                                                   | FIFO door, swap     10 MHz
 ================================================= | =========================
                         csp_write_fifo  <---------+        sclk | clk
                               | 48 pops in the window of a pass
                          CSP registers --> control program --> sink area (two pages)
                                                                   v
                                              partial pipeline, filters --> I2S, S/PDIF
```

### Components, their state and what makes them hard

| component | state | operations | what is hard |
|---|---|---|---|
| MIDI parser (`midi_parser.c`) | running status, data count, SysEx frame | feed, partial reset, reset | real-time bytes inside a message, cut-off frames, running status across a silence |
| MIDI ports (`midi_in.c`) | `sensing`, idle time | byte, silence of 50 ms, of 500 ms | Active Sensing: counted across silences, judged once |
| BLE MIDI (`ble_midi.c`) | link, MTU, subscription; ring; parser | packet, connect, disconnect, subscribe, notify | drops, a reset sentinel that may itself be dropped |
| MIDI out, SysEx (`midi_out.cpp`, `midi_sysex.cpp`) | queue, packet | collect, send, retry; state request | a flag and a size sampled once a drain, a link that changes under a packet |
| event bus (`event_bus.c`) | subscribers' queues | publish | a full queue drops |
| voice allocator, notes (`voice_alloc.cpp`) | voice table, pedal | note on, note off, pedal, CC 123, CC 120 | the same key struck twice, the pedal, steals: a note nobody will release |
| voice allocator, preset | active preset, dirty bits, two queues | CC edit, flush, Program Change, preset request; the loader | three tasks, pointers into a waiting task's frame, a storm of changes |
| engine image and link | value, known, pending; tick, lock, pause | set, resend, send and swap; boot, verify, probe, raw access | what the image believes against what the chip holds; back-to-back ticks; who may write CTRL |
| boot and self-test (`engine_link.cpp`, `engine_selftest.cpp`) | the chip's leftovers | hold, drain, test, clear, load, send, verify, release | a chip that outlives a restart, words lost on the way |
| CSP commands (`cli_csp.cpp`) | none of their own | freeze, step, hold, load, go, burst, reads | raw access beside the tick and the voice task |
| write FIFO (`csp_write_fifo.sv`) | two clock domains of pointers and synchronisers | write, swap, pop | crossings in any alignment, full and empty |
| CSP pass (`csp_pass.sv`) | cycle, window, counter, probe | pass start, pop, write, probe | a swap inside the open window; writes three clocks from the memory when the window shuts |
| program builder (`csp/program_builder.cpp`, `csp.cpp`) | the entries | emit, loop, build | a chip without interlocks: every latency is the builder's to keep |
| reference processor (`tools/csp/processor.cpp`) | index registers, loops, scoreboard | a row, a vector round | the definition the builder is held to |
| console (`console.c`) | line, history, scrollback, view | keys, sequences, print | UTF-8 by bytes, printing from any task, a view that must not move |
| storage (`safe_file.cpp`, `storage.c`, `banks.cpp`, `preset_file.cpp`) | a file and its `.new`, the banks | save, recover, read, edit | power loss at any step, a step that fails, a reader beside a save |
| sink area (`csp_sink_area.sv`) | two pages, which is active | write, read, flip | writes and reads in flight at the flip |
| CSP core, memories | pipelines | rows, loads | generations of loops |
| SPI wire (`spi_link.cpp`, `spi_bus.sv`) | frame phase, address, staging | frames of nonets | frames cut off, reads a dword ahead, pointers staged |
| audio datapath, outputs, conversions, tools | data | arithmetic | numerical; compared with references by the benches |

What makes each correct is what the properties of section 3 state. The hazards
behind them, and those no property covers, are the `hazards` of
`PROJECT.json`, each at its line.

## 2. The modules

A component has one module, with the properties it is checked for at its
end. An `MC` module is there only where a run needs symmetry, constants that a
`.cfg` cannot write, or two parts in one run. Definitions called `X_something`
with the comment *Mutant* are not part of a model: each is `X` as a plausible
bug would have it, there to show that a property of a run notices.

**`WriteFifo`** (`csp_write_fifo.sv`). Every register of both clock domains is a
variable. An action is one edge of one clock: `SclkIdle`, `SclkWrite`,
`SclkDrop`, each with or without the swap, and `ClkTick` with or without a pop.
The two clocks interleave freely. Two facts come from outside the file. A swap is
not given again before the last was taken up (`Spaced`): swaps are CTRL frames
of dozens of sclk cycles and the synchroniser takes a few clk cycles. The
read pointer crosses as itself; **`GrayCrossing`** is the reason it may: it
models the Gray code bit by bit, each bit of a sample taken while the register
settles being the old or the new one on its own. `MCWriteFifo` checks both.
**`CommitQueue`** is what the FIFO promises: a queue of whose entries only those
committed may be taken, in order, and no write lost unless the queue is full.

**`VoiceAlloc`** (`voice_alloc.cpp`, the notes). An action is one event the
voice task handles whole. `keys` is a history variable: the keys the surfaces
hold, which the code does not know. The code's time stamps are numbers of
releases. **`Keystrokes`** is the abstract allocator: a set of strikes, key-ups
that pair with the oldest strike, and a pedal, without voices' numbers or ages of tails.

**`MidiParser`** (`midi_parser.c`) is the parser, byte class by byte class;
**`MidiIn`** (`midi_in.c`) the task of a port that feeds it: a read that returns
a byte or times out, and the Active Sensing rule. `wire` is a history of
all the port has seen; `DeliversTheWire` reads messages, frames and broken links off it
position by position, by a definition with no state machine in it: each step delivers what the last byte or silence completes, and nothing else.

**`Surfaces`** (`ble_midi.c`, `midi_out.cpp`, `midi_sysex.cpp`, and the CCs of
`voice_alloc.cpp`). A central connects, subscribes, writes packets, leaves and
comes back. Between it and the preset are four queues and four tasks: the host's
callbacks, `ble_rx_task`, the voice task and `midi_out_task`. The preset is one CC; a packet
is a whole CC, a half of one, or a SysEx frame, and carries its connection's number so that
mixing can be seen. What the surface shows is the central's own state. `past` records what has
come about: drops, edits that crossed an answer, a link changed under a packet.

**`WritePath`** (`engine_image.cpp`, the tick and the writes of `engine_link.cpp`,
`render.cpp`'s note-on and release, `csp_pass.sv`'s window). The FIFO is a
sequence and a count of committed entries, as `CommitQueue` has it, and what `WriteFifo` found beside it (finding 1):
a commit may cross in the clock that pops the last visible entry (`parked`, `crossed`), and the pop after it writes the parked row again and takes the head
away. `skipped` is the history of that: the addresses whose last popped entry was not written. The image holds such a word for known, and only `csp-resend` sends it again, which is the trouble of #222 and #237. The lock is
`sending`: no write enters the image while the tick sends. `pause` is `csp-freeze`, `csp-hold` or `csp-selftest`: the tick sends nothing from then on, and no command of the console starts it again. The program, external,
runs while the window is closed and moves an attack on to decay. A voice has two
words, the stage and the note, the stage at the lower address, as in the voice
record (stage_a 2, note 14). Two facts are assumptions on the constants
(`RateAssumption`): the SPI link at 10 MHz brings at most 12 dwords in a pass
of 41.7 µs (8 of them in a frame of 31.5 µs), which is no more than the window's 48
pops, and a tick's 480 words with two passes' arrivals fit the 511 of the FIFO.

**`EngineBoot`** (`engine_link.cpp`, `engine_selftest.cpp`, `main.c`,
`cli_csp.cpp`, `spi_link.cpp`). What the main task does is a script, a
sequence of link transactions and waits, which `app_main` and each console
command is written as; calls are concatenation (`engine_link_init` contains
`SelfTest`, as the code does). A transaction takes two steps so that another can
come between, and holds the lock from one to the other if the code does. The tick, with its
health check, and the voice task's direct writes run beside it. A restart may come anywhere, and the chip keeps its queue,
registers and memories. A program is its rows and its decode ROM, each loaded
whole, a word is known by whose it is. `clear_registers` is one step
of a script that clears the lowest register left and writes its own rest back, with a commit and a wait where a chunk ends. `MaxLosses` words may be lost
on the way to the registers in a boot, the clearing's and the self-test's as well as the image's, as in the issue the code verifies the image for (#222);
what is lost once the boot is done is `WritePath`'s matter. Every console command is a script of its own: a lab is loaded by `csp-hold`, rows, ROM, constants and `csp-go` typed one
after another, or without some of them, or with any other command between. `past` records what the properties except: that the test tone or the console released the processor with half a
program (`freed`), the complaint, a self-test's word that did not get into the queue (`spoilt`), the registers whose zero was lost (`unclear`).

**`PresetLoader`** (`voice_alloc.cpp`, the active preset; `event_bus.c`). The voice
task's turn is one action per kind of event, the flush at the turn's end
included. The loader and the console are processes with a step each for what they may be
interrupted between. A queued request carries its task's name for the pointers
into that task's frame.

**`SafeFile`** (`safe_file.cpp`, `storage.c`'s recovery) and **`AtomicFile`**, what it promises. An
action is one file operation; power is lost between any two, in the recovery as
well. FAT is external: a remove or rename that returned is durable, and text
not flushed may be there, in part, or not; a recovery that cannot open or read the `.new` file deletes it. **`Banks`** (`banks.cpp`, `cli_banks.cpp`, the
loader's look-up) extends it: a text is a map of banks, `bank` commands edit what they read
and save it, and the loader opens and reads the file for a Program Change while a
save is under way. FAT is built without file locks, so a file may be
deleted while it is read: the reader then has the old text or an error. A file that cannot be opened, for whatever reason (four files are open at most, `storage.c:49`),
reads as no banks (`banks.cpp:91-94`, `docs/storage_format.md:455`), and a bank command that meets it saves its own bank and no other: `blind` is the history of the banks deleted so.

**`Csp`** (`csp/csp.hpp`, `csp/csp.cpp`) is the instruction set: operands,
fields, control words. **`ProgramBuilder`** (`csp/program_builder.cpp`) emits, checks,
schedules and encodes, the scoreboard and every pass over a loop's body as in the
code. **`Processor`** (`tools/csp/processor.cpp`) runs an image for one pass: rows, loops,
vector rounds, index registers, and the errors it reports. Values are left out but for the
indexes'. **`CspSchedule`** composes the two and states, apart from both, what a
program means (`Meaning`).

**`CspPass`** (`csp_pass.sv`, `csp_sink_area.sv`, the write stage of `csp_core.sv`, `csp_dmem.sv`'s write
register, the pass's start in `timebase.sv`) is a clock at a time: every register between the FIFO's pop,
or the program's result, and the memories, the pages and their flip, the counter's write and the probe. Which words the program and the
FIFO give is left open. **`PassModel`** is the same pass as the reference processor makes it (`processor.cpp`: `pass`,
`apply_window`, `write_register`), in steps of a word. The mapping takes the
memories as they will be when what is in the registers has landed, which is what makes a word of the window in the wrong pass show.

**`SpiBus`** (`spi_link.cpp`, `spi_bus.sv`) is the wire, a nonet each way at a time: the firmware's frames, the slave's phases, address and
staging, and CS rising anywhere, after which the slave's registers stay. **`MemoryMap`** is what the firmware takes it for: dwords
at addresses, one at a time, a partial's four pointers' dwords at once. `MCCsp` runs `CspSchedule`, `CspPass` and `SpiBus` side by side.

**`Console`** (`console.c`). Keys and the parts of escape sequences are actions, printing a
character is another that any task may take between them. A byte of text is a lead byte, a continuation
byte, a space or another. A printed character is its number, so that lost, repeated and
reordered ones show. There may be no memory for a line of the scrollback (`console.c:112-115`): it is on the screen and not kept, and the oldest lines have gone for it
(`ahead`, `unstored`). A list of candidates or an echo is a line of zeros, the console's own. `MCInputs` runs it, in behaviours of two kinds, beside `MidiIn`.

The theorems about a module are in the module of its name with `Proofs` behind it: `WriteFifoProofs` (of `GrayCrossing` too), `VoiceAllocProofs` (of `MidiIn` too, whose notes it plays),
`WritePathProofs`, `SafeFileProofs` (of `Banks` too), `PresetLoaderProofs` (of `Console` too, whose task is one of the loader's requesters), `SurfacesProofs`, `EngineBootProofs`, `CspPassProofs` (of `SpiBus` too).

## 3. What the runs check and show

| run | size | shows |
|---|---|---|
| `write_fifo` | depth 4, two dwords; 5-bit Gray pointers | writer and parked reader never on one row (`PortsNeverMeet`); a pop takes the head or the entry before it (`PopTakesHeadOrLast`); every step but the pop after a crossing commit is one of `CommitQueue` (`ImplementsQueue`); what is committed is popped (`CommittedIsPopped`); what sclk decodes is a past pointer (`SeenPointerIsPast`) |
| `write_fifo_crossing` | the same | **violated**: with such a commit a pop takes the parked row (finding 1) |
| `voice_alloc` | 3 voices, 2 notes, 5 strikes | `NoStuckNote`, `KeysHoldVoices`, `StealsOnlyWhenAllHeld`; implements `Keystrokes` |
| `inputs` | 5 bytes or silences; a line of 3 bytes; a scrollback of 2 lines and 4 submitted | the port delivers exactly what is on the wire (`DeliversTheWire`); the cursor is never inside a character (`CursorNeverInsideCharacter`); the screen shows what the console takes it to, and is ahead of it only by live lines there was no memory for (`ScreenMatchesView`); lines are the characters printed, in order, none lost but with the oldest or with such a line (`LinesAsPrinted`) |
| `surfaces` | queues of 2, packets of 1 or 2, 2 connections, 3 packets or edits | `NoMessageOfTwoLinks`, unless the ring did not take the reset; a surface that has been told shows the preset when all is at rest (`SurfaceFollows`); one that asks is told (`AskersAreTold`) |
| `write_path` | 1 voice, 2 channel words, FIFO 5, tick 3, window 2 | nothing is dropped; a word the image knows is in the register or on its way, unless skipped (`KnownIsTrue`); a note-on whose words nothing parts and of which none is skipped lands in one window (`NoteOnLandsTogether`); every stage lands (`StageLands`) and the registers come to hold the image (`ChipFollowsImage`), but for a word skipped and while the console lets the tick run |
| `preset_loader` | 2 parts, 3 programs, queues of 2 and 2, 4 events | `SoundFollowsPreset`, `RequestsHaveWaiters`; the last program not lost on the way wins (`LastProgramWins`); whoever asks for a preset gets back to work (`RequestersReturn`) |
| `banks` | 2 banks of up to 2 programs, 3 edits, steps may fail | nothing older and nothing cut short is ever read (`NeverOlder`); until a remove, a rename or a recovery's read fails, the file changes in one step (`ImplementsAtomicFile`) and every bank is what its own edits made it, or deleted by a command that could not open the file (`BanksKept`); a listed program is found but in the window without a file, or by a reader that cannot open it (`ProgramsAreFound`) |
| `safe_file_failing` | 3 texts | **violated**: after a rename that failed the next save destroys the only copy (finding 2) |
| `engine_boot` | 3 registers, queue 2, 3 attempts, 3 words lost a boot | the processor runs a whole program, unless a dword of the test tone or of the console released it with half of one (`RunsWholeProgram`); the boot releases it with the registers as the image has them, or a complaint (`ReleasedAsSent`), and nothing of an earlier run left but where the zero itself was lost (`NothingLeftOver`); the self-test's counters are its own if its zero got into the queue (`SelfTestIsItsOwn`); one transaction at a time but for the console's self-test (`OneTransaction`) |
| `csp_schedule` | 4 entries of a menu of 3 instructions, 2 IDX, 6 loops; a pass of 9 clocks; 5 frames of dwords of 2 nonets | an image runs what the program means (`RunsTheProgram`) in the cycles it was built for (`CyclesAsScheduled`), unless a loop of it holds only omitted loops (`HoldsOnlyOmitted`), and reads nothing early but in four cases (`ScheduleIsSafe`); the clocked pass is the reference processor's (`ImplementsPass`), and the partials and the probe see one pass (`ReadersSeeOnePass`); the wire is the memory map (`MapAsWritten`) |
| `csp_schedule_always` | the programs of `csp_schedule` | **violated**: without those cases (finding 3) |

Where the code has a case in which a promise fails, the model keeps a history
variable that says the case has come about (`crossed`, `skipped`, `paused`, `split`, `lost`,
`failed`, `blind`, `unstored`, the fields of `past`), or a predicate on the program names it. The property a passing
run checks excepts that case and no other.

### The bounds, and why they are enough

- `DEPTH` 4 (512 in the chip) has full, one short of full, empty, parked and every
  wrap of row and pointer. Two dwords tell a repeated entry from the right one.
  `DROPPED_MAX` 0 is the counter always at its limit.
- `POINTER_W` 5 has 32 pointers and every carry.
- Three voices and two notes have an idle, a released and a held voice at once,
  two strikes of a key and a steal of either. `MaxStrikes` 5 has two
  steals after all voices are used.
- `MaxWire` 5 holds a frame with a byte too many, or a message, cut by anything, and
  the next message under its running status; with `SILENCES` 2, a link that breaks twice.
- The console's behaviours are of two kinds, with the same sizes. *Typing*: a line of three bytes, which a
  two-byte character fills or overfills, one line of history, and commands whose completion inserts, lists or
  does nothing; one line comes out. *Printing*: three characters or newlines into lines of two, a scrollback that drops by
  lines and by bytes, four lines out, for any of which there may be no memory; no more than one character is typed, and the history is not browsed.
- In `Surfaces`, two connections, so that a second meets what the first left in every queue;
  queues of two fill; a packet of one message, then of two.
- In `write_path` the sizes are the least that meet `RateAssumption` with a tick
  shorter than what may be pending, a window that a tick's words outlast, and one
  that holds a note-on. `MaxAsks` 3 lets a note be struck twice with an edit, a release or a
  resend between.
- `MaxEvents` in `PresetLoader` is above the queues it fills.
- In `Banks`, three edits of two banks have a save interrupted, another of the other bank, and one
  after it. `SafeFile` alone has no bound: it has finitely many states.
- In `EngineBoot` a queue of two takes the image and the clearing in several chunks; with three losses a boot
  every one of its three attempts can fail, or a zero and two attempts. Restarts are not bounded, and each boot may lose as many again.
- In `csp_schedule` a vector round is four elements (16), the latencies 4, 3 and 2 (9, 6 and 5), so that a body of one or two rows is shorter than the
  latency in full and in part rounds; four entries hold two nested loops with an instruction on either side.
  The outer loop's strides are 2 and 3, so that an instruction in a vector loop reads, through the index, what an earlier turn wrote.
  The pass has one row and two pops (3008 and 48) and the chip's distances where they matter: three clocks from the window's end to the
  counter's write, one more to the probe, two more to the end (3066, 3069, 3070, 3072); `PassAssumption` states them. Words of
  one bit tell an old word from a new. The frames are a burst over every kind of system dword, CTRL with a swap
  among them, the door twice, two partials and a read burst; any may stop anywhere.

`CHECK_DEADLOCK FALSE` is said where the bound itself stops the model: `inputs`, `surfaces`
and the two `csp_schedule` runs, in which a pass ends.

### Fairness

- `WriteFifo`: both clocks tick and pops come: weak fairness of the clk edge with a pop alone. Nothing makes
  the SPI side write.
- `WritePath`: the tick is an `esp_timer` and the pass a counter in the chip, so
  the tick's steps and the window's are weakly fair, the tick's while the console has not paused it (`StartTick`'s guard, `engine_link.cpp:345`):
  `StageLands` and `ChipFollowsImage` end in their promise or in a pause. Nobody has to play.
- `PresetLoader`: each task runs when it can: FreeRTOS is preemptive, the voice task is above
  the others and yields a tick after 2 ms of unbroken work; time passes. Nobody has to publish.

Fairness of the actions taken together is all that is used; no strong fairness is. The other modules state safety only: their
promises are about what is at rest, released or finished.

## 4. What is proved

The theorems hold for every value of the constants that meets the named
assumptions.

- **`WriteFifoProofs`**, any depth of at least 2. The invariant relates
  the pointers by distances round the ring: sclk's old copies of the read pointer,
  the read pointer, the committed, the commit and the write pointer, each no
  further on than the next, all within `DEPTH - 1` of the oldest copy
  (`PointerOrder` is itself inductive); `IndexPlace` adds that the read index is
  on the head or one behind it, and `HeadReady` that it is on the head when a pop may
  come and no commit has just crossed with the last visible pop.
  From it: `PointersOrdered`, `PortsApart`, `PopsTakeHeadOrLast` and `PopsTakeTheHead`. With it each edge of either
  clock maps to a step of `CommitQueue` or to none, the pop after a crossing commit excepted (`FifoImplementsQueue`): the
  entries are the rows from the read pointer to the write pointer, and each edge moves only its own end.
  For every width of a pointer the Gray crossing gives what `WriteFifo` takes from it (`SeenIsPast`): the codes of
  a pointer and the next differ in one bit (`CarryStops`; `WrapStops` at the wrap), so a sample of the changing register, each bit
  old or new on its own, is one of the two codes (`CaughtWhole`), and each code decodes to its pointer (`Decoded`).
  The invariant `GrayIInv` says which pointers the three registers are codes of and in which order. That a pop keeps within half the range of
  the pointer seen, `GrayPop`'s guard, is `PointerOrder` in `WriteFifo`.
  The lemmas `HoldsAll` and `Follows` are induction and recursion over the bits, from the library's theorem of minima.
- **`VoiceAllocProofs`**, any number of voices and notes. The invariant counts:
  the voices held by a note's key are no more than the keys down
  on it, and a sustained voice is held with the pedal down. From it:
  `NothingSticks`, `KeysHold`, `PedalHolds`, `StealsLast`.
  `TableImplementsKeystrokes` maps every step of the table to one of `Keystrokes` or to none. It rests on `AgesApart`: no two held
  voices have the same strike, no two releasing ones the same release, and none is newer than the counters
  (checked by TLC first). So the voices of either kind have exactly one order: one, by counting the older (`OrderExists`),
  and no other (`OrderUnique`). On those orders a strike drops the oldest and appends itself (`StrikeMoves`), a release takes
  voices out of one and appends them to the other (`ReleaseMoves`), a key-up under the pedal marks one in its
  place (`MarkMoves`). The counters are taken not to wrap: `s_alloc_seq`
  has 32 bits in the code, some four thousand million strikes since the start.
  Of `MidiIn`, any data bytes, size of frame and number of silences: `WireIsDelivered`. The invariant (`PortInv`) says of each thing the
  parser and the task hold what it is on the wire: sensing, that the link is alive, and the idle count the silences at
  the end (`LinkAsWired`); the running status and the bytes held (`MessageAsWired`); the frame and whether it has overrun
  (`FrameAsWired`). TLC checked it first, with 5 and 6 bytes. Most of the proof is what a byte more changes on the wire (`LastGrows`, `DataGrows`,
  `QuietIs`, `RunningGrows`) and in the numbers of a frame's bytes (`NthGrows`, `NthOf`). That `delivered` is all the wire has
  completed so far follows, since it starts empty.
- **`WritePathProofs`**, any sizes with the assumed rates. `NothingDropped` is not
  inductive: the strengthening (`Backlog`) bounds what is in the FIFO by what the
  tick has sent, what is committed, and what has arrived since the last window.
  `KnownIsTrue` rests on the image changing only with the lock free, and on what a pop does to `skipped`: a head is written, or its address is skipped (`SkippedBy`);
  the parked row that is written in its place is the last that landed, so it changes no register (`RowParked`, `CrossedLands`). `NoteOnLandsTogether` needs
  what the registers will hold when the first entries of the FIFO have landed (`LandsBy`): the image never has an attack with
  another note, what is not pending lands as the image has it, and unless parted the registers agree once
  the committed entries have landed (`CommittedTogether`). `RestAssumption` says that no word is in attack
  before it is first written.
- **`SafeFileProofs`**, of `SafeFile` for any texts. `Inv` (whatever is complete in `.new` is of an unfinished
  save) needs nothing of the medium and gives `NothingOlder`. `Settled`, which follows a save step by step
  until a remove, a rename or a recovery's read fails, gives `Kept`, `OldOrNewAtRest` and
  the refinement `FileIsAtomic`: a save takes effect when the old file is deleted or, with
  none, when the `.new` is flushed.
  Of `Banks`, for any banks, presets and number of programs: `FileIsSafe` is a refinement: every step of the commands and of the
  loader is a step of `SafeFile` or leaves the file alone, so that `SafeFile`'s theorems hold of banks.toml. `TextsKept` says
  of every text a save has tried since the last that returned that each bank in it is what its own edits made it, or deleted by a command that could not open the file (`blind`), and gives
  `OthersAreKept`; `TextHasProgram`, that the text the loader reads has the program, gives `ListedAreFound`.
- **`PresetLoaderProofs`**, any parts, programs, queues and number of events. `SoundFollowsPreset` and
  `RequestsHaveWaiters` are inductive with the types. `LastProgramWins` is not: `OnItsWay` says where the last program asked for is, in
  the loader's queue, in its hand, in the frame it hands over or in the active preset.
  Of `Console`, any keys and texts, any sizes of line, history, scrollback and screen: `CursorBetweenCharacters` rests on
  `EditInv`. Neither the line nor a remembered one begins with a continuation byte; the byte behind the cursor is none; and while
  the keyboard owes the rest of a character its beginning is right before the cursor, or the line is full and refuses both. The lemmas say
  it of each edit (`Replaced`, `Deleted`, `LeftBetween`, `RightBetween`, `WordStartsBefore`) and of completion (`Completes`), whose
  common part may end inside a character: what follows the cursor begins one all the same.
  `ScreenIsTheView` is inductive with types (`ViewInv`), given that the scrollback
  drops oldest lines and no others (`KeepsTheNewest`); a live line there is no memory for puts the screen one ahead until it is drawn again. `LinesAreWhatWasPrinted` takes the scrollback and the line being printed as
  one sequence (`PrintInv`): each printed character is in its place, the next printed behind it or at the head of a later line, and
  a line of the console's own, entered or listed, goes before the one being printed (`OldestGo`, `OwnLineComes`, `LineEnds`, `CharacterComes`).
- **`SurfacesProofs`**, any ring, queues, packets and number of connections. `NoMessageOfTwoLinks`: a reset stands between two
  connections' packets in the ring, between the ring and what the parser holds, and before what comes next (`NotJoined`). `AskersAreTold`: the answer is on its way, as the request, the sync event, the queued message or the packet
  (`AnswerOnItsWay`). `SurfaceFollows`: the newest value on its way to the surface is the preset's (`ShowsNewest`,
  `NewestIsPreset`), with what a drain and the two halves of a message have under way (`DrainForBle`, `HalvesMeet`).
- **`EngineBootProofs`**, any registers, any queue of 2 or more, any attempts and losses, in the clearing and the self-test as well. `LinkInv`: the tick and the voice task hold the lock for as
  long as they are on the link, and are there only when it runs; the main task is on it with a transaction at the head of its script,
  and holds the lock if that one takes it. Two at once are then the main task, out of the lock, and another (`OneOnTheLink`).
  The other four theorems rest on `LinkInv` with `EngineInv`, which says of every place the main task can be what the chip then
  holds. The script left is a suffix of `app_main` or of a command. Before the link runs (`BootInv`) the boot is in one of four stretches: up to the end of the
  self-test (`BootTests`: behind the drain the queue holds only the test's words); clearing (`BootClears`: of the registers done each is
  zero, its zero is queued, or its zero was lost and it is in `unclear`, which is why no chunk may be longer than the queue); loading (`BootLoads`: all zero but those, queue
  empty); sending and verifying (`BootSends`: what is not pending and differs was lost, and only a verification that finds nothing, or the
  complaint, leads to the release). Once it runs (`RunInv`) every step of a
  command keeps the processor's program whole, or is a release or a load that `past` records (`Quiet`, `RunsQuietly`, `WholeSoFar`);
  `csp-hold`, and the self-test (`RunsTest`), have paused the tick from before they hold the processor
  (`RunsHold`, `TickAway`), which is why no tick releases it; the counters are the test's from its drain on (`CountersOwn`). A restart of the firmware keeps the chip, and so finds
  the boot's first stretch with whatever program was half loaded held. From it: `ProgramIsWhole`, `BootSendsImage`, `BootLeavesNothing` and
  `TestCountsItsOwn`. TLC checked `EngineInv` first, with queues of 2 and 5. The proof showed that `SelfTestIsItsOwn` holds
  whether or not the test tone's CC has come between, which it used to except.
- **`CspPassProofs`**, any pass, program and window that keep the distances of `PassAssumption`, any registers, sinks and
  words. `OnTime` bounds by the cycle when each register between the FIFO or the program and the memories may
  hold a word, so that they are empty as the pass ends (`WritesOnTime`). `ReadersOfOnePass`: of the page that is read every word
  is the last pass's or landed in this window (`WindowsWords`, `ActiveSettled`), and the probe
  reads in the one clock in which all has landed and the next pass has written nothing (`ProbeInStep`). `PassIsTheModels` takes each clock in turn: a
  result is a write of the program, a popped dword joins the queue, a head is applied, the counter's clock counts, the pass's
  start flips, any other clock leaves the memories as they will be alone.
  `WireImplementsMap`, for nonets, dwords, bursts, maps and requests of any size that meet `SpiAssumption` and `RequestsAssumption`,
  has no state of the slave to map but what is kept: the dwords done are counted from the nonets gone by. `WireInv` gives from them the phase, the
  nonet's index and the address (`FrameInv`, by the lemmas on quotients), the parts behind the dword that arrives (`Arriving`),
  the dwords the reply is made of, read one ahead (`Streaming`), and the staged pointers as this request's (`Staged`), whatever a
  frame cut off before left in the stage.

Invariants the proofs need and no run lists (`TypeOK`, `PointerOrder`, `PopTakesHead`,
`PedalHoldsVoices`, `StageOnItsWay`, `SavedIsKept`, `OldOrNew`) are proved, which is more than a run would show.

The assumptions are on the constants alone. `RateAssumption` is argued in section 2, `PassAssumption` with the run's pass in section 3; `MapsAssumption` says that the texts
`Banks` saves are its maps, and `BanksAssumption` that no preset is the value that stands for none.
`ConsoleAssumption` says that sizes are natural numbers, the line's and the history's not zero, and that no key and no text offered by completion
begins with a continuation byte: a keyboard sends whole characters. `SpiAssumption` gives the memory map's order.
`RequestsAssumption` keeps the firmware's requests in the address space and has a frame that reaches a partial's last pointer dword begin at or before
its first, as the one call that writes them does (`engine_link.cpp:674`): a frame that began at the second would commit a dword of an older one.

Only model-checked:

- liveness (`CommittedIsPopped`, `StageLands`, `ChipFollowsImage`, `RequestersReturn`), which rests on fairness and `ENABLED`, out of
  the proof system's reach;
- `CspSchedule`, whose builder and meaning are recursive.

## 5. Findings

1. **A write is lost and the one before it repeated** (`csp_write_fifo.sv:147`). The wait of #237 comes
   from `reading`, last cycle's `committed`. A commit that crosses in the clock that pops
   the last visible entry parks the read index without `committed` ever falling.
2. **After a rename that failed, the next save can lose both texts** (`safe_file.cpp:66`).
3. **The builder places instructions before what they read is ready** (`program_builder.cpp:757`), in four cases,
   which `CspSchedule` names. `IndexBehindVector`: an IDX in a vector body, the index it sets used behind the loop.
   `PartLastRound`: rows spaced for a full round (line 596), a last round of fewer elements.
   `WritesBehindInner`: a loop in a loop and, behind the inner one, a write the inner one reads in the outer's next iteration
   (lines 539-548: the wait found is not measured when the inner body is laid out).
   `VectorReadsBack`: a vector loop in a loop, and in its body a read through an index of what an earlier turn of the outer one wrote: the waits that
   a loop's second layout finds are given to rows, and a vector loop's rows are placed without them (lines 585-760). With the chip's own latencies
   `LOOP.j 2 stride 3 { LOOP.vi 2 stride 2 { ABS [i+1] = |[j+0]| } }` is such a program. Each also shows outside the model: such a program, built by
   `ProgramBuilder` and run by `csp::Processor`, both as in the repository, makes the processor report the early read. The
   programs the firmware ships do not run into them: their vector loops count 1, 16 and 32, none is in another loop, and an
   index is set again before it is used behind one (`tools/csp/programs`).

Divergences met on the way, in which the model has the code's side and no run asks for the other:

- A note-on may be split over two passes by a swap in the open window (`csp_pass.sv:83`), against
  `docs/memory_map.md:79-83` and `voice_alloc.cpp:279-280`; `NoteOnLandsTogether` excepts it.
- A loop that holds only omitted loops (count 0) is accepted (`program_builder.cpp:238`) and laid out with itself as its last row, and the processor runs on past it
  (`processor.cpp:560`), against `docs/csp2_isa.md:47-49` and `166-169`; `HoldsOnlyOmitted` is the exception of `RunsTheProgram` and `CyclesAsScheduled`.
- A clearing word the queue loses is not noticed: `verify_image` reads back what the image knows, and a cleared register is not of it (`engine_link.cpp:95-101`).
  Nor are the sinks' words, which the probe does not reach (`engine_link.cpp:268-269`). A word skipped after the boot is not looked for at all.
- A `banks.toml` that is there and cannot be opened counts as no banks, as `docs/storage_format.md:455` has it, and the next bank command then deletes the others without a word.
- A storm of Program Changes longer than the loader's queue ends in an early one (`voice_alloc.cpp:596`),
  against `voice_alloc.cpp:560`; `LastProgramWins` excepts it.
- After the third attempt the boot's image is sent again but not read again, and the log still says it is
  not as sent (`engine_link.cpp:301-336`).
- The test tone's CC 119 writes CTRL without the hold bit and releases a held processor (`voice_alloc.cpp:400`). So do `csp-stream`, `csp-thaw`, `csp-step` and `csp-go`, typed
  between a lab's rows with half of it loaded; and rows typed without `csp-hold` go into a program that runs. No command
  resumes the tick, `csp-thaw` included; `csp-burst` holds the processor without pausing the tick, whose swap releases it.
- A surface that subscribes is not sent the state until it asks, though `voice_alloc.cpp:605-606` says so; a message
  passed over before it subscribed is not repeated (`missed`).
- `docs/csp2_isa.md:178-179` has the assembler check that a vector loop's elements share no register; only the processor does.
- A bank command after a rename that failed reads no banks and saves only the new one.
- Browsing the console's history down to the newest shows an empty line, where `console.c:345` says the line being typed;
  two tasks' prints may mix within a line; the common prefix of two candidates may cut a UTF-8 character.
- The tick's "48 passes" (`engine_link.cpp:41`) are 24 at the 24 kHz pass of today; `voice_alloc.cpp:637-640` describes an idle
  sweep that is not there any more; a preset a Program Change asked for may land on a newer
  load from the console, and on CC edits made meanwhile: nothing says which should win.

## 6. What could be added

1. The CSP core's front end (generations, `csp_core.sv:214-215`) and its trap latch; `SpiBus`'s ports to IMEM, the ROM and the lab.
2. `WritePath` shown to use the FIFO only as `CommitQueue`, and `CspPass` and `WriteFifo` in one model.
3. Start-up: subscriptions and the order of `app_main`'s tasks.

## 7. Not modelled

The arithmetic of the oscillators, filters, decimator and limiter, and of `render.cpp`, the CC conversions: numerical,
and compared with references by the repository's benches and tests. The values the reference processor computes. The CSP core in front of its write stage, whose co-simulation against the
reference processor is in the repository. The bits within a nonet, the outputs. The generated
programs and images. The assembler, a front end of the builder. `src/tools/lab`, `src/tools/netlist`, `src/scripts`: measurement
and build. ESP-IDF, FreeRTOS, NimBLE, FAT and tomlc17 are external.
