# A TLA+ model of JingOS

JingOS is a small x86-64 kernel in Rust with a command monitor, a cooperative
task table, system calls, and short programs it runs in ring 3, plus a host
program that starts it in QEMU. This directory models both from their
source, checks the models with TLC and proves the central facts with TLAPS.

Run everything from this directory:

    tlc -config MCTaskTable.cfg TaskTable       # one line per run below
    tlapm TaskTableProofs.tla                   # one line per proof module

## 1. The system and its parts

| Part | State | Operations | Talks to |
|---|---|---|---|
| Scheduler, `kernel/src/task.rs` | 8 slots, `next_id`, `next_rr_index`, one lock | spawn, step, sleep, wake, remove, set_priority, snapshot, list | called by monitor commands with a tick it is given |
| Interrupts, `interrupts.rs` | `TICKS`, `KEYBOARD_IRQS`, ring of 128 scancodes, `PICS`, PIT rate | timer and keyboard handlers, pop_scancode, keyboard_counters, set_pit_hz | the loop, through a spin lock |
| System calls, `syscall.rs` | memory summary, clock, rate (read only), syscall stage | dispatch, register encoding, int 0x80 and `syscall` entries | ring 0 (`userdemo`, `syscall`) and ring 3 |
| Ring 3 sessions, `usermode.rs` | pending kind, last report, exit expected, user pages | three launches, exit interrupt | entry stubs; restarts the monitor |
| User program, `user_program.rs` | none | five system calls in a row | int 0x80 |
| Monitor, `main.rs` | window, taskauto, line, history, decoder | `input_loop`, about 30 commands | everything |
| Line editor and history, `main.rs` | bytes, cursor, ring of lines | edit keys, browse, complete | monitor |
| Keyboard decoder, `keyboard.rs` | modifiers, E0 prefix | feed | scancode ring, monitor |
| Memory, `memory.rs`, `heap.rs` | frame counter, page tables, heap | allocate, map, walk, init_heap | boot, user pages |
| Console, `framebuffer.rs` | cursor | write, newline, scroll | every print |
| Boot, `main.rs`, `gdt.rs` | none of its own | `kernel_main` | initialises all parts, goes on when one fails |
| Host launcher, `src/main.rs` | script, ready marker | forwarder and sender threads, wait | QEMU's serial line |

What is hard to test here, and what is asked of the models:

* Interrupts arrive between any two instructions of the loop; handlers and loop
  share a spin lock. Nobody may spin for ever, lose a scancode uncounted, or
  sleep on one that has come.
* A ring 3 session never returns to the command that launched it. The exit
  interrupt starts a new loop on another stack, so everything the old call had
  left to do is gone. Nothing of it may linger in statics, locks or registers.
* The two system call paths return their status in different registers and
  swap stacks and gs base. The report of a session must be that session's.
* Wake-ups, the input window and taskauto all compare ticks that were read
  earlier than they are used.
* Ids, slots and one round-robin pointer outlive any order of spawn and remove.
* Boot goes on after any failure, with half-mapped areas and before a fault
  handler exists.
* A byte lost on its way from the keyboard changes what the next ones mean.
* The launcher's threads race with a guest that clears its serial input, splits
  its output over reads and may end at any moment.

`PROJECT.json` lists the hazards with the source line where each bites.

## 2. Modules

* **TaskTable**: the scheduler. Each public function holds the lock for the
  whole call, so each is one action. `now_ticks` is the tick the caller read;
  it is read by an action of its own and may be stale. `result` records the
  last call and its answer.
* **ScancodeBuffer**: the ring as a record with `push` and `pop`, and its
  reading as a queue (`Contents`). **BoundedFifo** is the promise: scancodes
  come out once, in order, and are lost only at a full queue, counted.
* **Interrupts**: both handlers, step by step, against the loop that pops,
  handles, prints counters and halts. The timer chip, the keyboard and the
  interrupt controller are external and behave as the handlers assume.
* **Syscall**: `dispatch` and the register encoding as pure functions.
  **UserDemo** drives them from ring 0: the `syscall` command, `timerhz`, and
  `run_user_demo` with ticks between its calls.
* **Usermode**: ring 3 sessions: boot outcomes, launch, the user programs one
  instruction per step, the int 0x80, `syscall` and int 0x81 entries, and the
  return to the monitor. Registers, stacks, gs bases and the interrupt flag are
  variables. **Session** is the promise: a launch is refused, or returns once
  with its own verdict, or (with `syscall`) loses the machine.
* **Monitor**: `input_loop` with its window, taskauto, taskstep, taskrun and
  sessions. It extends TaskTable, and each of its steps is one call of the
  scheduler or none. Of a session only the outcomes of Session remain.
* **Pit**: `program_pit` with its two roundings and two byte writes, `timerhz`
  and `uptime`. UserDemo extends it, so that the system calls read a clock whose
  rate changes between them.
* **Memory**: frame allocator and page walk as pure functions, the memory map and
  the pages of the three areas that the kernel maps. **Boot**:
  `kernel_main` call by call, one frame taken per step, with `map_demo_page`,
  `init_heap`, `init_memory`, the GDT, the fast-syscall set-up, the wait for the
  timer, and the commands whose fate boot decides (`heap`, `vm`, `usermode`).
  A fault before the IDT is loaded resets the machine.
* **KeyboardDecoder**: `feed` as a function. **Keyboard** composes it with keys
  that are pressed and released in any order, the interrupt, a buffer that drops
  bytes, and sessions that replace the decoder.
* **InputLine**, **CommandHistory**: byte array and ring as functions.
  **Editor**: `handle_key_event` on both, one action per key. **TextBuffer** is
  the promise: a text with a cursor, and a list of past lines.
* **Console**: the framebuffer writer on character cells. **ConsolePaper**
  prints on it and on an endless roll of paper beside it. **Prompt** composes
  Editor and Console: each key with all it draws.
* **LauncherInput**: the argument loop of the host program, one argument per
  step, and `load_serial_script` as a function of the file. **Launcher**: the
  program from its arguments to its exit code, with the forwarder, the sender,
  and the guest as far as the serial line shows it.
* **MCBoot, MCKeyboard, MCPrompt, MCLauncher** give constants to their modules.
* **TaskTableProofs** (with the monitor), **InterruptsProofs** (with the ring),
  **CodecProofs** (PIT, system calls, keyboard decoder), **EditorProofs** (with
  line and history), **UsermodeProofs, MemoryProofs, BootProofs** and
  **LauncherProofs** (with its input): theorems and proofs.

Definitions keep the names of the functions they translate. Operators with a
capitalised suffix (`spawn_CountsTasks`) are mutants: wrong variants that no
specification uses, each of which some property refutes.

### Abstractions

* Formatting, wording and pixels are left out. Task kinds are model values, a
  script line is a sequence of tokens, and any text but prompt and line is one
  word.
* Boot: the memory map is cut at page boundaries above the first megabyte and its
  regions are disjoint, as the bootloader makes it (`RegionsAssumption`). It has
  mapped nothing under the level 4 entries of the demo, heap and user areas and
  keeps its own tables out of usable memory (`BootEntriesAssumption`), so the
  "already mapped" answer of `map_page_with_flags` is modelled but never met. It
  has mapped physical memory with huge pages (`PhysicalMemoryAssumption`: the
  entries, not the walk, which is what is proved). Page table flags are left
  out. Boot may find no physical memory offset, although the bootloader is asked
  for one, because the code handles it.
* Launcher: the script file does not change while the launcher runs. A typed
  command is one element of the pipe, and so is a raw file, which is sent in one
  piece. A `sleep` may end before or after anything the guest does meanwhile. Two
  history variables record what a script cannot expect to survive: `fellBack`, that
  it went out without the marker, and `hurried`, that a command was typed with a
  session ahead of it, because the guest was in one, had been told to enter one, or
  had `taskauto` on, which enters one by itself. An error of `child.wait()` is left
  out.
* Prompt: the row is long enough for prompt and line (a row they fill exactly
  included); a longer line wraps and `redraw_prompt_with_line` redraws only its
  last row.
* A command and the renewal of the window before it see one tick, except where
  a command steps tasks. `taskrun` and `taskauto` are stepwise.
* u64 is `0 .. U64` or `0 .. U64_MAX` with a small maximum. Sums saturate, wrap
  or fail as in the code. `KEYBOARD_IRQS` and `dropped` are bounded by the
  number of bytes sent.
* A session assumes what the code arranges: `MONITOR_CONTEXT` is set, and the
  user pages, once mapped, stay mapped.
* The CPU, the 8259, the 8253 and the keyboard controller are modelled from how
  the code uses them and are marked external in `PROJECT.json`.

## 3. Runs

| Run | Module, configuration | Question | States |
|---|---|---|---|
| task_table | TaskTable, MCTaskTable.cfg | Do all sequences of calls keep the table sound, and does each change only what it should? | 114,040 |
| task_table_live | TaskTable, LiveTaskTable.cfg | Does a ready task of the top class run, does a sleeper wake? | 10,400 |
| interrupts | Interrupts, Interrupts.cfg | Do handlers ever spin, is a scancode ever lost or reordered silently, or slept on? | 122,854 |
| usermode | Usermode, Usermode.cfg | Does each launch get its own answer and leave no trace? | 13,181 |
| monitor | Monitor, Monitor.cfg | Do window, taskauto and table survive sessions, do due steps run and expired windows close? | 234,588 |
| userdemo | UserDemo, UserDemo.cfg | Do registers lose nothing, do figures agree and does uptime behave while the rate changes? | 406,896 |
| boot | MCBoot, MCBoot.cfg | Wherever the frames run out: are frames, tables and recorded outcomes right, and does boot end? | 22,194 |
| keyboard | MCKeyboard, MCKeyboard.cfg | Does the decoder follow overlapping keys, and recover from a loss? | 4,948,523 |
| prompt | MCPrompt, MCPrompt.cfg | Is the line a text with a cursor, and is that what the row shows? | 114,126 |
| console | ConsolePaper, MCConsole.cfg | Is the screen a window on what was printed? | 63,510 |
| launcher | MCLauncher, MCLauncher.cfg | Is what was asked for started, typed in order, lost only when typed too early, and its outcome reported? | 124,902 |
| launcher_log | MCLauncher, LogLauncher.cfg | Is the log complete when the launcher reports success? | violated |

The first eleven pass. Each property is stated with a comment beside it. A
property that is a conjunction names its parts (`TableIsSound` is types, unique
ids, the bootstrap task, timed sleepers and no visible Running task), each with
its own comment and, where it is proved, its own theorem.

**launcher_log** is a finding. After `child.wait()` the launcher exits at once,
without joining the thread that forwards the guest's output, so the last words of
the guest can be lost although the exit code is 0. `scripts/regression-suite.sh`
searches the log for such lines. In the counterexample the guest prints and ends,
and `wait` returns before the forwarder's next read.

### Bounds

* **task_table**: three slots are the fewest with two tasks besides the
  bootstrap one; ids to 4 let a full table lose a task and get another; u64::MAX
  is 5 so that a long sleep saturates; `RUN_COUNT_MAX` is 0, so the run counter
  is always at its limit (it influences nothing else).
* **interrupts**: four bytes against a ring of two fill it, drop, and wrap the
  indices; `U64_MAX` 1 wraps the tick counter.
* **usermode**: three ticks can fall before, between and after the two calls;
  three register contents on entry; words of six bits, so that 40 + 2 fits and
  the unknown number 60 and u64::MAX + 1 keep their meaning.
* **monitor**: a window of two ticks in three and input until tick 2, so that the
  window can be renewed by events and by a session and still run out, and an
  automatic step can be missed and taken late. At the last tick the timer still
  ends `hlt` but the clock stays.
* **userdemo**: words of six bits, the two ends of the range as arguments. The PIT
  divides 6 Hz by 1 to 6 and a "byte" holds three values, so that requests outside
  the range, divisors that do not divide and divisors of two bytes all occur.
* **boot**: maps with none to more than enough frames, in one region, in two, in
  one that begins below the first megabyte; three heap pages and three user pages,
  so that each call can fail on its first page and later. Page tables have four
  entries and the bootloader's have 1 GiB and 2 MiB pages.
* **keyboard**: four presses of seven keys (both bytes of an extended key, both
  keys of a pair, a toggle, a letter, keys with and without prefix under one code)
  against a buffer of two, with one byte lost or one decoder replaced.
* **prompt**: a line of two bytes and two past lines, all keys, a row that prompt
  and line fill, notices that wrap, two rows so that the screen scrolls. The
  theorems on the editor hold for all sizes.
* **console**: seven characters on three columns and two rows: every mix of
  wrapping, erasing, returning and scrolling.
* **launcher**: every command line of up to four arguments from seven with no
  script file, and every kind of script file with one command line. A marker of
  three bytes that begins with a repeated one, reads of one or two bytes, noise
  that is the marker's beginning. Three commands fit in the pipe, as many as a
  script has. The scripts enter sessions with a pause behind them and without, and
  pauses may be too short or long enough, so that commands are swallowed in some
  behaviours and arrive in others. All lines of up to five tokens are compared with their text when the
  module is loaded (`LinesAreTheirText`).

### Fairness

* TaskTable: with `taskauto on` the loop comes round after each timer interrupt
  and steps: weak fairness of the clock and of `step`.
* Interrupts: a running CPU executes, an offered interrupt is taken, the timer
  chip runs. Strong fairness of the thread says that handlers do not eat all
  the time between two ticks. Nothing is assumed of the keyboard.
* Usermode: the CPU executes the next instruction, in ring 3 and in handlers.
* Monitor: clock and thread as above. A user may type for ever but slower than
  the loop, which therefore finds its queues empty again and again (strong
  fairness of `ReadNow`).
* Boot: the CPU executes `kernel_main`. Nothing is assumed of the timer.
* Launcher: the host runs each thread, `recv_timeout` returns, a monitor that has
  input reads it and a session returns. Nothing says that boot ends or that a
  guest stops.

Deadlock is not checked where the program may stop: the machine is switched off or
lost (usermode, monitor, boot), the launcher exits, or the bound on presses or
characters is reached (keyboard, console, prompt after `exit`).

## 4. Proofs

TLC checks the instances above; the theorems hold for all constants that meet
the named assumptions.

* **TaskTableProofs** (`TableAssumption`, `HorizonAssumption`,
  `NoneAssumption`): types, unique ids, the bootstrap task, timed sleepers, no
  visible Running task. The inductive invariant is TypeOK, UniqueIds,
  BootstrapStays, "every task is settled" (not Running, and asleep exactly when
  it has a tick) and "the last call was not refused because a task is running".
  Ids below `next_id` keep a new task's id unique. `remove` refuses id 1, and
  with id 1 in slot 0 the slot it finds for another id is never slot 0.
  Settledness rules out the "task is running" refusals and yields the last two
  theorems.
  Horizons state that a machine is switched off before it has counted 2^64
  ticks or ids.
  The three action properties follow from the same invariant: each call is first
  reduced to one shape (`NextShape`: the table swept or not, then at most one slot
  edited), and the shape yields that no task wakes early or late, that bystanders
  are left alone, and, with the distance of a slot from the round-robin pointer
  (`ScanDistance`), that a task passed over gets nearer to its turn.
* **TaskTableProofs**, the monitor (also `MonitorAssumption`): the window closes
  only when it has been quiet, taskauto enters ring 3 at most once between two
  events, automatic steps are an interval apart, and the monitor implements
  TaskTable. The invariant has three parts. `Windowed`: the deadline belongs to
  the last event and the loop's tick is not ahead of the clock. `Attended`: only
  an enabled taskauto steps tasks, and after its session it is disabled until the
  next event. `Planned`: the next step is planned from the last. The
  implementation needs no invariant: each step of the monitor is one whole call of
  the scheduler or none. Hence all that is proved of the table holds while the
  monitor drives it and sessions abandon its calls (`TableUnderTheMonitor`).
* **InterruptsProofs** (`BufferAssumption`, `InterruptsAssumption`): on a
  consistent ring `push` appends to the queue or counts a drop, `pop` takes the
  oldest (the work is the arithmetic of indices modulo the size). Then types, no handler spins,
  nothing is lost uncounted, no byte is left behind at the port, the counters
  hide no loss, and the refinement `Spec => IsFifo`. The invariant adds to the
  properties where interrupts are masked and who owns each lock (`Locking`),
  which handler is at which step (`Handling`), one request per offered byte
  (`Requests`) and `count <= KEYBOARD_IRQS` (`Counting`). HandlersNeverSpin
  follows from Locking: a handler runs only where the thread holds no lock.
* **CodecProofs**, the timer (`PitAssumption`): for every input frequency, range of rates and
  request, the rate the kernel keeps is the one the divisor in the chip gives,
  asking for the reported rate changes nothing, no rate is slower than asked, and
  uptime goes back only by `timerhz`. The lemmas are about integer division:
  `f div (f div d)` is the largest divisor with d's quotient, hence a fixpoint.
* **CodecProofs**, the calls (also `WidthAssumption`, `DemoAssumption`): the register path
  equals `dispatch` for words of any width; the `syscall` command prints that
  answer; `userdemo` cannot fail and its figures fit together. The invariant
  `Coherent` states the latter for every prefix of the five calls and rests on
  the monotonicity of division. `TimerIsThePit` shows that the composition
  implements Pit, so that the theorems on the timer hold in it.
* **CodecProofs**, the keyboard (`KeysAssumption`): for any keys, any number of
  presses and disturbances and any buffer, the decoder understands overlapping
  keys as long as nothing disturbs it, and tapping the modifiers brings it back
  whatever was lost. Both speak of the decoder as it will be when it has read the
  bytes under way (`Settled`), which the interrupt and the input loop do not
  change and a key changes by its own one or two bytes: lemmas say what `feed`
  makes of these for each kind of key. The invariant is the types, the first
  property, and `Tapped`: once a key was pressed since the disturbance no prefix
  is pending, and a modifier that was pressed and released since is up for the
  decoder too. The second property is the case where that is said of every
  modifier.
* **EditorProofs**, the line (`LineAssumption`): each operation on the byte array keeps
  `len` and `cursor` in range and is, on the texts before and behind the cursor,
  what its name says. Word boundaries are described as least elements, which gives
  that a walk stops and where.
* **EditorProofs**, the keys (also `HistoryAssumption`, `NamesAssumption`): types; word jumps
  never end inside a word; the line shows the entry that is browsed; the history
  has no empty line and no repeats; and `Spec => ImplementsTextBuffer`. TypeOK is
  inductive by itself. One lemma per key shows it to be a step of TextBuffer or a
  stutter; `Pushes` and `PushEntries` show that the wrapped ring is a list that
  forgets its oldest element.
* **UsermodeProofs** (`UsermodeAssumption`, `NoneAssumption`): a report is of its
  own session, the machine is sound whenever control changes hands, sessions end,
  and every step is a step of Session or leaves its state alone. The invariant
  says what the registers hold before each instruction of each program (`Holds`),
  where a program can be under the kind that was launched (`SessionInv`), what
  stack, flag and gs bases are in each phase (`MachineInv`), and that outside a
  session the statics are clean (`StaticsInv`). None of the properties is
  inductive alone: that the report is right depends on what every instruction
  since the launch left in the registers. Words have any width that holds 42, and
  entry registers, ticks and launches are arbitrary.
* **MemoryProofs, BootProofs** (`MemoryAssumption`, `RegionsAssumption`, `BoundsAssumption`,
  `BootEntriesAssumption`, `PhysicalMemoryAssumption`): frames are handed out once,
  in usable memory, and counted right; walks find what was mapped; nothing resets
  the machine; what is reported ready is ready. `UsableFrames` shows by induction
  over the regions that the frames ascend, lie in the regions and are no more than
  the memory summary counts. The invariant `TablesInv` names, for each page of the
  three areas, the tables on the way to it that exist so far: each is where the
  entry before says (`Linked`), the last entry holds the frame given (`Leaves`),
  two pages share tables exactly as far as their indices agree (`Apart`), and no
  frame that may still be handed out is a table (`Unused`). `Apart` and `Unused`
  are what makes it inductive: a new table or page touches no other way. With
  `GivenInv` (pages are given in the order of the calls) a finished call has all
  its pages, so that its writes do not fault, and with `ResultInv` (a call fails
  only when frames have run out) success comes in the order of the calls.
* **LauncherProofs** (`U64_MAX_Assumption`, `ArgListsAssumption`, and those of
  Launcher, among them `MarkerAssumption`): QEMU is started with what the whole
  command line says; the marker is seen in any cut; QEMU is orphaned only by a bad
  script; types; no command is lost that was typed on the marker and with no session
  ahead; the forwarder drops nothing. The invariant: `opts` says what the arguments read so far say
  (`ArgsInv`), the window is the end of the log until the marker is in the log
  (`FwdInv`), printed = log and pipe (`OutInv`), and as long as nothing was
  typed too early the pipe is empty whenever the guest is not at a plain monitor,
  and only its last command may lead out of one (`SndInv`). The last clause makes
  it inductive: the command that starts a session is read last.

Functions defined by recursion over a sequence of any length (the frames of a
memory map, the marker window, the actions of a script) are reasoned about through
two lemmas: `UpTo`, induction over a set from the well-foundedness of Nat, and
`RecursiveFunction`, that such a function exists and meets its equations.

Only model-checked: liveness and everything under fairness (out of the prover's
reach), hence `BootEnds`, `ScriptEnds`, `OutcomeIsReported`, `AutoRunsOnTime`,
`QueuedIsTaken` and the like, and the liveness part of `KeepsPromise`; that the
guest receives the text of the script file in order (`TypedInOrder`, which
compares two recursions over the characters of each line); Console and Prompt,
whose texts are written by folds over `write_char`.

## 5. Not modelled

* Commands that only read state and print it (`help`, `status`, `mem`, `maps`,
  `vmmap`, `sysabi`, `echo`, `history` and the like): nothing happens in them but
  formatting. Parsing of the arguments of the other commands, likewise.
* The `fault` command, which stops the machine on purpose, and the breakpoint
  handler, which does nothing the rest depends on.
* Contents of the TSS, of the MSRs and of page table flags, pixel formats and
  fonts: constants or output.
* The heap allocator, `Mapper::map_to`, the UART and PIC crates, QEMU and the
  bootloader: libraries and programs outside the repository, modelled only from
  how the code uses them.
* The QEMU command line beyond its options and the download of firmware, and the
  image build: no state the rest depends on.
* The spin lock around the task table: a call is one step. No interrupt handler
  takes it, and no call holds it while a task's payload runs.
* More than one disturbance of the keyboard, and lines wider than the screen.
