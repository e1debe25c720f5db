# TLA+ models and proofs for uiuc_ece_projects

The repository collects several course projects. The two with the most behaviour worth
verifying are the **ECE391 operating system** (a small multi-terminal x86 kernel in C)
and the **ECE411 RISC-V processor** (a pipelined core with a two-level cache hierarchy
in SystemVerilog); the **ECE408 convolution kernels** (CUDA) run many threads
over shared memory. This directory models the kernel from its boot and interrupts to the
commands of its shell, the processor's pipeline and whole memory hierarchy, and the four
GPU implementations of a convolution; checks them with TLC on small instances; and
proves with TLAPS, for every value of the constants, the safety of the kernel's
scheduler, terminals, clock, files and interrupts, and that the processor and its memory
hierarchy implement their abstract specifications.

Paths below are relative to `src/`; `os/` stands for `ECE391 Operating
System/student-distrib/`, `user/` for `ECE391 Operating System/syscalls/`, `rv/` for
`ECE411 RISCV/mp3/hdl/` and `nn/` for `ECE408 Neural Network/ece408_src/`.

## 1. Inventory

| Component | State | Operations | Interacts with | Hard part | What makes it correct |
|---|---|---|---|---|---|
| **Processes and terminals** (`os/system_call.c`, `scheduling.c`, `pcb.c`, parts of `keyboard.c`, `paging.c`) | `pids[]`, PCBs, `terminal_arr[]`, `cur_pcb`, `cur_terminal`, `cur_terminal_running`, `boot_num_shells`, TSS, page at 128MB, `video_mem`, page at 136MB | `execute`, `halt`, `vidmap`, exceptions, PIT tick (`switch_tasks`), Alt+Fn, Ctrl+C | everything: it decides who runs and where output goes | interrupts on in the middle of `execute()` and `halt()`, stacks shared between processes | every table names the same running process; the terminals' process chains partition the pids; a process sees only its own memory; round robin |
| **Terminal input** (`os/keyboard.c`, `terminal_read`) | `keyboard_buffer`, `buffer_pos`, `enter_pressed` per terminal | keys, `terminal_read` | the scheduler (which terminal is shown) | keyboard interrupts during `terminal_read` | a read returns the line that was typed |
| **Terminal output** (`terminal_write`, `set_cursor` in `terminal_read`, `putc` and friends of `os/lib.c`, the messages of the exception handlers, `make_terminal_active`) | screen, off-screen pages, cursors, `printf`'s own row | write, read, exception, echo, erase, clear, scroll, switch | scheduler, keyboard | output of hidden terminals, erase against output, wrap and scroll, a cursor loaded and stored with interrupts on | each terminal's page shows its text |
| **Real-time clock** (`os/rtc.c`) | divider and count per terminal, one flag, `rtc_devices` | open, read, write, interrupt | scheduler (which terminal is shown) | a flag up for one tick, shared by all; a number of devices tested and counted with interrupts on | a read returns for a tick that came after it began, and returns; dividers fit their counts |
| **File system and descriptors** (`os/filesys.c`, `open`, `close`, `read`) | `fdt` per process, one `index_dir` | open, close, file_read, dir_read, what `execute`/`halt` do to them | processes | one directory index for all processes, never locked | a file is read once, in order; a listing is complete |
| **Boot and interrupts** (`os/kernel.c`, `idt.c`, `i8259.c`, `pit.c`, linkage in `*.S`) | the 8259s' registers, the interrupt flag, what each kernel stack is in the middle of | the steps of `entry()`, `enable_irq`, `send_eoi`, gates, the three handlers | all handlers: `Scheduler`, `TerminalInput`, `Screen`, `Rtc` take up what they do | interrupts on in the middle of the boot; task switches inside a handler; two controllers in a row | no handler runs before its device is set up; nothing stays in service; every device is served |
| **Commands** (`user/ece391shell.c`, `cat`, `grep`, `ls`; `parse_command`, `read_dentry_by_name`, `copy_program`, `getargs`) | the shell's buffer, `execute()`'s arrays, grep's buffer | a line read, parsed, its program found, loaded and run; a shell within the shell, its end | terminal, file system, processes | words that fill their arrays, lines cut by reads, what is left in buffers | the program named runs with its argument; it prints what is in the file; lines for `cat`, `grep`, `ls` or no program are answered |
| Descriptor and page tables (`os/x86_desc.*`, `paging.c`) | tables written once | – | – | – | not modelled, but for which page of a process and of the screen is mapped (`Scheduler`) |
| Other user programs (`user/`, `ECE391 Operating System/fish`) | – | start, wait for a line or for ticks, end | kernel | `pingpong` never ends | clients: in `Commands` they begin, wait and end as in their code; in the kernel's models any call may come at any time |
| **RISC-V memory hierarchy** (`rv/cache`, `rv/arbiter`, `rv/mp3.sv`) | two L1 caches, L2 cache, arbiter with prefetcher, cacheline adaptor | one clock cycle | pipeline above, burst memory below | responses, write-backs and prefetches that overlap | the pipeline sees one memory and is answered |
| **RISC-V pipeline** (`rv/datapath`, `rv/control`) | the four stage registers, PC, register file | one clock cycle | memory hierarchy, which answers when it likes | stalls, forwarding and squashing at once | it executes the program an instruction at a time, and goes on |
| RISC-V bench (`ECE411 RISCV/mp3/hvl`) | memory image, burst | `memread`, `memwrite` | memory hierarchy | – | its assertions are a property here |
| AES accelerator (`ECE385 Advanced Encryption System`) | round controller, registers | start/done handshake, rounds | software over Avalon | handshake with polling software | ten rounds in order, one answer a start |
| Chess game (`ECE385 AI 1-piece Chess`) | turn controller, positions | turns, moves | keyboard, video | delays against moves | turns alternate |
| **Convolution kernels** (`nn/new-forward*`) | tiles in shared memory, one accumulator a thread, the output | launch, load, multiply, `__syncthreads()`, store | host code | barriers between threads that share a tile; dimensions that do not fill it | the output of the CPU's loops (`new-forward.h`), no race, no thread left at a barrier |
| Robot scripts (`ECE470 Basketball Fetch Robot`) | the simulator's | trajectories | simulator | – | numerical |

`PROJECT.json` has the same list with the status of each part, the line at which each
hazard bites and the property that covers it. What is hard to test and no property
covers is this:

* `os/keyboard.c:335`: the 256 with which Ctrl+C halts a program passes through a
  `uint8_t` and arrives as 0. `Scheduler` has the conversion; nothing in the code says
  what Ctrl+C should report.
* `os/terminal.c:65`: two processes reading the same terminal may both see
  `enter_pressed` before either clears it. `TerminalInput` has it, but no terminal runs
  two programs that read at once.
* `os/keyboard.c:484`: interrupts are on in the last third of the boot (`os/rtc.c:53`),
  before `cur_pcb` is set, so Alt+Fn or Ctrl+C there follows a null pointer. `Interrupts`
  has it (`fault`), and `InterruptsKeys.cfg` finds it.
* `os/kernel.c:168`: a key typed before `i8259_init()` is forgotten with its data unread,
  after which the keyboard sends no other. `RaiseKeyboard` starts after `i8259_init()`.
* `os/terminal.c:83`: a read that was overtaken moves a cursor. `Screen` has it
  (`overtaken`, `moved`), `ShowsText` leaves that terminal out from there on, and
  `ScreenCursor.cfg` finds it. Likewise a backspace after a program's output
  (`os/lib.c:96`, `erased`, `ScreenErase.cfg`).
* `user/ece391grep.c:33`: `data[BUFSIZE]` is read after a full read and nothing sets it.
  `Commands` has it as a choice (`leftover`). `PrintsTheText` speaks of the case where it
  is no newline and fails for a newline; nothing in the repository says more.
* `os/system_call.c:645` says that the rest of a line is the argument; the code passes
  one word of it. `RunsTheCommand` says of such lines only that the argument begins with
  the second word; `CommandsRest.cfg` finds the difference.
* `os/keyboard.c:332`: a Ctrl+C in the launch window of a shell leaves
  `boot_num_shells` wrong for ever. `ShellsCounted` is about launches that nothing
  interrupts.
* `os/filesys.c:184`: `read_dentry_by_name` walks as many entries as there are inodes,
  not as there are directory entries. The free entries of the boot block have an empty
  name, which is nobody's file, so `Commands` walks the entries in use.
* `nn/new-forward1.c:132` and `new-forward2-constmem.cuh:134` loop over one image too
  many and write beyond the output. `Convolution` has the extra image; what it
  overwrites is outside the code.
* `nn/new-forward2-constmem.cuh` copies the filters to an array of a fixed length
  without comparing.

## 2. Modules

| Module | What it is |
|---|---|
| `Scheduler` | processes, terminals, interrupts and kernel stacks |
| `AbstractTerminals` | what `Scheduler` promises: one stack of programs per terminal |
| `SchedulerProperties` | invariants, refinement and liveness of `Scheduler` |
| `SchedulerProofs` | TLAPS proofs about `Scheduler`, its refinement of `AbstractTerminals` included |
| `TerminalInput`, `TerminalInputProofs` | keyboard handlers and `terminal_read`; TLAPS proofs about them |
| `Screen`, `ScreenProofs` | terminal output, echo, erase, scroll, terminal switch; TLAPS proofs of it and of `Commands` |
| `Rtc` | the clock's dividers and flag; its proofs are at the end of `InterruptsProofs` |
| `FileSystem`, `MCFileSystem`, `FileSystemProofs` | descriptors, `file_read`, `dir_read`; sizes and bounds for TLC; TLAPS proofs |
| `Cache`, `CacheProofs` | the two-way write-back cache, as operators on a record; lemmas about a cycle of it |
| `MemoryHierarchy` | two `Cache` L1s, the arbiter, a `Cache` L2, the adaptor and the memory, composed cycle by cycle |
| `AbstractMemory` | what `MemoryHierarchy` promises: one memory that answers both ports |
| `MemoryHierarchyProofs` | TLAPS proofs that it keeps the promise, and answers in time |
| `Isa` | what a processor promises a program: one instruction at a time |
| `Pipeline`, `MCPipeline` | the five stages, which implement `Isa`; instructions for TLC; the proof of the implementation is at the end of `MemoryHierarchyProofs` |
| `Interrupts`, `InterruptsProofs` | boot, gates, the two 8259s, end of interrupt, task switches in handlers; TLAPS proofs |
| `Commands`, `MCCommands` | from a typed line to what `cat`, `grep` and `ls` print; a small file system |
| `Convolution`, `MCConvolution`, `ConvolutionProofs` | the GPU implementations of a convolution; shapes for TLC; TLAPS proofs |

Definitions whose name ends in a suffix after an underscore (`VideoOf_NextPage`) stand
before the definition they vary and are faulty versions of it. Nothing uses them but the
mutation test of `PROJECT.json`: each property of a passing run is violated when the
named definition is replaced by its faulty version.

### Scheduler

There is one CPU, so an action is the code between two points at which interrupts are
enabled. These points, the values of `pc`, are user mode (`user`; system calls that
change none of this state are part of it), the wait of `halt()` between its `sti()` and
`cli()` (`halting`, then `halt_ready` when the loop has been left but `cli()` not
executed), and the *launch window* of `execute()` between the `sti()` at the end of
`make_terminal_active()` and the `iret` of `context_switch()` (`launch`, `launched`). At
each of them the timer (`SwitchTasks`) and the keyboard (`AltFnShow`, `AltFnLaunch`,
`CtrlC`) may interrupt. System calls enter through a trap gate, so they do not disable
interrupts themselves; `execute` and `halt` do, in the assembly linkage, and `write` and
`vidmap` in their bodies.

Besides the kernel's variables there is some of the machine: on which kernel stack and
how deep a process runs (`kstack`), which processes are suspended in the frame their PCB
names (`saved`), and which of those frames another process may have overwritten
(`lost`). Resuming a lost frame may stop the machine (`crashed`), which is why the cfgs
allow deadlock. The frame of the parent of a free PCB is not read, so `parent_pid` of a
free pid is normalised to `None`. `MinShells` bounds how often Ctrl+C hits a launch
window: each such Ctrl+C costs one count of `boot_num_shells`, without limit.

### TerminalInput

A key is one action, for interrupts are off in the handler. `terminal_read()` is cut at
every access to a variable the handlers write: the wait for `enter_pressed`, its reset,
the test of each character for newline (in the *displayed* terminal's buffer), its copy
(from the *caller's* terminal), and the wiping of the buffer. History variables keep
what was typed and which line was entered.

### Screen

`write()` disables interrupts, but the model takes a character at a time, so that what
is shown does not depend on how a program splits its output. `term` has the pages (the
screen and one off-screen page a terminal) and the cursors; the history `text` is what
each terminal was given to show, and `ShowsText` compares the two.

At its end `terminal_read()` calls `set_cursor()` with the displayed terminal's cursor as
arguments, with interrupts on: `GetCurTerminal`, `GetScreen`, `StoreX` and `StoreY` are
its loads and stores in the order of the build, and the displayed terminal may be another
at each of them. A read in which nobody else changes a cursor or the screen stores what
is there. One that was `overtaken` by an echo, output or a switch may undo it, or put one
terminal's cursor on another; `moved` says that it has, and `ShowsText` then leaves the
terminal out until Ctrl+L clears it. The read's wait is in `TerminalInput`.

The exception handlers write with `printf()`, whose `putc()` has a row and column of its
own for all terminals (`screen_y`; the column is always 0 between messages) and no
colour. A message stands over the text (`Exception`, glyph `Message`) on the page that
the running process writes to, and changes no terminal's cursor. `putc()` takes the row
modulo the rows behind a character only, so that a message's first character may go one
row below the page, where nothing is shown. "Invalid Scancode!" (`os/keyboard.c:278`) and
the message of the control protection exception, which this processor never raises, are
left out, and so are the VGA registers of the blinking cursor.

### Rtc

`Interrupt` counts the displayed terminal's count towards its divider and raises the
flag for one tick; `Read`, `ClearFlag`, `SeesFlag` are the steps of `rtc_read()`.
`rtc_open()` turns interrupts off only for the chip's register, so what comes before is
cut: its look at each terminal's divider (`Scan`), the test of `rtc_devices`
(`TestDevices`), and the load and the store of `rtc_devices++`. Terminals that pass the
test together take it past the limit of three: with two of them to 4, with three to 6,
and in general by one for each pair (`DevicesBound`), for a store of an old number lets
the others pass the test again.
`close()` never calls `rtc_close()`, so that it is no action. The count wraps at
2^`CountWidth`, 2^32 in the code.

### FileSystem

`open`, `close`, and the reads of regular files and of the directory by several
processes, with interrupts on. A byte is named by its block and its position, so that
reading it twice, skipping it or reading past the end is visible without modelling
contents. `dir_read()` is cut at the test of `index_dir`, the read of the entry, and the
load and the store of `index_dir++` (two instructions in the unoptimised build of the
Makefile). `Halt` and `RestartShell` are the two ends of a program, the one closing
descriptors, the other only freeing them; either may come by Ctrl+C wherever the program
is.

### MemoryHierarchy

One step is one clock cycle: wires are operators of the current state, registers are the
variables. Both caches are one machine with different numbers of sets, so `Cache` has
the operators and `MemoryHierarchy` the instances `L1` and `L2`. The pipeline (`core`)
holds one fetch and at most one data access until `stall` is down, like
`pipelinedatapath.sv:66`. The memory takes any number of cycles and then sends or takes
four beats, like `hvl/param_memory.sv`. A word of memory is named by its place and the
value last stored there.

### Pipeline

One step is one clock cycle; the stage registers are the variables and the wires
operators, under the names of `pipelinedatapath.sv` (`stall`, `Squash`, `IdExReset`,
`Hazard`, `PcMuxSel`). The program and what loads return are chosen as they are fetched,
so the model runs every program at once: in each cycle either both caches answer
(`Answered`) or something stalls. Addresses count instructions modulo `W`. One operation
stands for each shape of operands (`add`, `addi`, `slti`, `lui`, `auipc`, a load, a
store, `beq`, `jal`, `jalr`).

The refinement to `Isa` takes the memory stage as the point where an instruction is
executed: the abstract PC is that of the oldest instruction not yet through it
(`OldestPc`), the abstract registers are the register file with what writeback is about
to write, and `last` is the instruction in writeback with the access it made, for which
`stored` keeps what a store gave the cache. An instruction fetched behind a taken branch
never reaches `last`.

The pipeline does not do this for every program. `Unforwarded` names the three sequences
of instructions it gets wrong, and with `PaddedCode` only programs without them are
fetched, as a compiler that pads them would have it; see Findings.

### Interrupts

`boot` walks the steps of `entry()` (`BootSteps`), `enable_irq` as the read and the
write of a mask register. An interrupt is a frame on the kernel stack of the current
task: it ends its interrupt (`Eoi`), does its work (`KeyboardInterrupt`, `RtcInterrupt`,
`SwitchTasks`), pops the flags and returns; `SwitchTasks` may go on with another task's
frames, which is where an end of interrupt sent too late, or to one controller only,
would block the others. What the handlers do to processes and terminals is left to the
other modules of the kernel; `shells` is what they need of it. Alt+Fn or Ctrl+C before
there is a process sets `fault` and ends the behaviour. `PcbExists`, that this never
happens, is a property of its own: `HandlersReady` holds whatever is pressed, `PcbExists`
only if `BootKeys` has no such key.

Devices request between any two instructions, but none twice without the CPU having run
something other than handlers in between (`recent`): the PIT's period is 20 ms, the
RTC's about 1 ms, and keys are slower. Instructions of the boot and of processes clear
it.

### Commands

One terminal from `ReadLine` to `Answer`: the shell's buffer, which is not cleared
between lines; `ParseCommand` into two arrays of `execute()` that the compiler may have
placed apart or next to each other in either order (`layout`), because a word that fills
its array is terminated one byte behind it; the search for the file; the load of the
image by halves of a KB; `getargs`; and the programs' own loops over their buffers. The
arrays hold characters, for their length and their terminators are what these properties
are about; the sizes are constants. A text file's contents are chosen when it is opened.

The other programs begin, wait and end as theirs do (`Start`, `Awaited`, `Statuses`):
`testprint` returns at once, `sigtest` without an argument too; `hello`, `counter`,
`syserr` and `fish` wait for a line or for ticks, and `pingpong` for ever. A shell as a
command (`StartShell`) leaves the one that started it in `outer`, whose buffer is as it
was when it goes on (`ShellEnds`). `Shells` bounds how many there are within the first,
as the process table does. Ctrl+C (`Interrupted`) meets a prompt or a program that waits;
in the middle of a listing it is `FileSystem`'s.

### Convolution

`Round` lists the statements of a thread for each implementation: it loads its cell of
the tiles `Ads` and `Bds`, waits at `__syncthreads()`, adds one product at a time from
them, and waits again. The constant-memory version has no `Ads`, and the simple one no
tile at all. A value is the index of the element it came from, and a sum the sequence of
its products in the order in which they are added. `image` is the host's loop over the
images.

## 3. Runs

| Run | Instance | What it shows |
|---|---|---|
| `scheduler_safety` | 2 terminals, 4 pids | In every order of programs, exceptions, keys and ticks the tables agree (`CpuMatches`, `ChainsPartition`), memory is isolated (`UserPageIsolated`), frames are fresh, output goes where it should, and every step is a step of `AbstractTerminals` (`ImplementsStacks`) |
| `scheduler_live` | 3 terminals, 3 pids, launches not interrupted (`NoneRaced`) | `boot_num_shells` is right (`ShellsCounted`); every terminal with a shell gets the CPU; `halt()` gets from its wait through the release of its pid to another process once its terminal stays shown |
| `scheduler_execute_result` (violated) | 2 terminals, 3 pids | 256 of an exception goes to whichever `execute()` returns first |
| `input` | 2 terminals, 1 reader, lines of 2 | the buffer holds what was typed and an undisturbed read returns it exactly |
| `screen` | 2 terminals of 2x2, one of which reads and raises exceptions | the page of every terminal shows the end of its text, through reads that nothing overtakes and under messages |
| `rtc` | 2 terminals that both open the clock, 2-bit counts | `rtc_devices` stays within its bound, which is above the code's limit; reads return, for ticks after they began |
| `memory` | 5 lines, L1 of one set, L2 of two | the hierarchy is one memory, no dirty line is dropped, bursts are steady, both ports are answered within a bound |
| `files` | 2 processes, 2 descriptors each, blocks of 2 bytes, files of 5 and 2, 3 entries | files are read once and in order; an undisturbed listing is complete |
| `pipeline` | 11 instructions, x0 and one more register, addresses and words modulo 3 | every program without the sequences of `Unforwarded` is executed as `Isa` does (`ImplementsIsa`), and the stages never wait for each other (`Completes`) |
| `interrupts` | 2 tasks, every initial mask, all three devices | nothing is left in service by nested handlers and task switches (`InServiceIsHandled`), handlers find their device set up (`HandlersReady`), all devices keep being served (`DevicesServed`) |
| `commands` | arrays of 3, 5 and 4 bytes in 3 layouts, a buffer of 3, 20 lines, one shell within the first, texts of up to 4 characters | the named program runs with its argument, whole (`RunsTheCommand`); `cat` finds and prints the file and `grep` its matching lines (`PrintsTheText`); every line for `cat`, `grep`, `ls` or no program is answered (`EveryLineAnswered`) |
| `convolution` | 5 shapes, tiles of 2x2, 4 implementations | the CPU's output (`ComputesConvolution`) without races (`RaceFree`), and every call ends (`Finishes`) |

Eight more configurations state what a comment or document says and the code does not do;
TLC finds a counterexample with each of them (`tlc -config <cfg> <module>`). They are
the other disagreements under Findings:

| Configuration | Module | Property |
|---|---|---|
| `SchedulerLaunch.cfg` | `SchedulerProperties` | `LaunchUninterrupted` |
| `TerminalInputEnter.cfg` | `TerminalInput` | `EnterEndsTyping` |
| `ScreenErase.cfg` | `Screen` | `ErasesTypedOnly` |
| `ScreenCursor.cfg` | `Screen` | `ReadKeepsCursor` |
| `RtcWait.cfg` | `Rtc` | `WaitBounded` |
| `InterruptsKeys.cfg` | `Interrupts` | `PcbExists` |
| `CommandsRest.cfg` | `MCCommands` | `RestIsTheArgument` |
| `PipelineProgram.cfg` | `MCPipeline` | `ImplementsIsa` for all programs |

One passes: `CommandsShells.cfg` (`MCCommands`) checks `RunsTheCommand` with two shells
within the first and every program that waits, ended by a line, a tick, an exception,
`exit` or Ctrl+C in every order.

### Bounds

* Two terminals give one that is shown and one that is not, one that runs and one that
  does not; four pids give a chain of three programs besides the other shell, and a full
  table. Three terminals matter for the round robin only, and are in `scheduler_live`.
* `input` leaves the hidden terminal's buffer empty (`OthersEmpty`), as only the shown
  one is edited; a buffer of three cells has a first, a last and a reserved cell.
* `screen` has 2x2 cells, which have every wrap and scroll. It does not go on from a state
  in which a terminal has been disturbed (`NoneDisturbed`), after which `ShowsText` speaks
  of the other one only, as proved for any number of them in section 4; and it takes reads with no message on a page and `printf()`'s row in one place
  (`ReadsApart`), for neither looks at the other's state.
* `rtc` has both terminals open the clock, so that `rtc_devices` reaches 4. Its dividers
  are 0, 1 and 3 of 2-bit counts: truncated to zero, lower than a count under way, and
  the one put in place of zero; a count that has passed its divider wraps.
* `memory` has one set in each L1 cache, so that two ways and three data lines force
  evictions, and two in the L2 cache, so that an instruction line and a data line
  conflict in one and not in the other. One word is ever stored to, with one value: the
  hierarchy moves words without looking at them, so other words and values behave alike.
* `files` limits the open descriptors to two at a time, whoever opened them, and
  `index_dir`, which has no bound in the code, to one more than the directory has
  entries. Its `VIEW` drops the history of listings once they have overlapped, of which
  no property speaks.
* `pipeline` has three words, so that a value, its successor and the one that wraps
  differ, and so do a branch, its target and the instruction behind it. With one
  register besides x0, instructions depend on each other whenever they can.
* `interrupts` has two tasks, one running and one suspended in the timer's handler; all
  tasks but the current one are alike. Stacks need no bound: `recent` keeps a device
  from interrupting its own handlers' returns for ever. `BootKeys` leaves Alt+Fn and
  Ctrl+C out of the boot, where they stop the machine by following a null pointer
  (`InterruptsKeys.cfg` has them); `HandlersReady` is proved with them.
* `commands` has for each array words shorter, as long and longer than it; a buffer of
  three cuts texts of four characters at every place, with lines of three that fill it
  and of four that do not fit. `HALF_KB` is two, so that an image of three bytes takes
  two reads. A shell within the first is explored where grep has not run and with five
  lines (`MCNested`): what either has left behind is the same for every shell.
* `convolution` has dimensions that fill a tile of four and that do not, two rounds of
  the tile, two channels, filters and images, and two blocks side by side.

### Fairness

`Scheduler`: weak fairness of booting, strong fairness of the timer and of each kernel
step of each process. The timer chip ticks for ever and a slice is many instructions
long, so a step that is possible slice after slice is taken; and the timer does not for
ever miss the moments at which two shells are counted. Nor does Ctrl+C for ever hit the
few instructions between the end of `halt()`'s wait and its `cli()`, which the strong
fairness of `HaltReleases` says. Programs and keys have no
fairness: they need not do anything. `Rtc`: strong fairness of the clock's tick, of the
steps of `rtc_open()` and `rtc_read()`, and of the poll while the flag is up (a waiting process polls many
times in a tick), and finitely many `rtc_write()`s and Ctrl+Cs, without which a program
may postpone another's tick for ever. `MemoryHierarchy` needs none: instead of liveness it has
`AnsweredInTime`, a bound on the cycles a request waits, the waits of the memory apart.
`Pipeline`: weak fairness of the cycle in which both caches answer, which is what
`AnsweredInTime` gives it. `Interrupts`: weak fairness of the CPU, taking an interrupt
or an instruction, and of the two clocks' requests; keys and system calls have none.
`Commands`: weak fairness of the steps that compute (`Computes`); a line typed, a
program that waits for one or for ticks, and Ctrl+C have none. `Convolution`: weak
fairness of the next step, hardware that runs some thread while one can run.

### Findings

The violated run and the eight configurations beside the runs each stop at a disagreement
of the code with its comments or documents:

* `scheduler_execute_result`: `os/system_call.c:26` says that `execute()` returns 256 on
  an exception; `exception_raised` is one flag of all terminals, so that another
  terminal's `execute()` may return it.
* `SchedulerLaunch.cfg`: `os/system_call.c:168` says that interrupts are turned on
  inside `context_switch`; `make_terminal_active()` has turned them on before
  (`os/scheduling.c:78`), and a tick there leaves two processes on one stack.
* `TerminalInputEnter.cfg`: `os/keyboard.c:215` says "enter ends typing"; keys pressed
  after Enter overwrite the line before `terminal_read()` has copied it
  (`os/keyboard.c:409`).
* `ScreenErase.cfg`: `os/lib.c:85` says "Should only be allowed to erase keyboard buffer
  and not anything on the screen"; a backspace after a program's output erases that
  (`os/lib.c:96`).
* `ScreenCursor.cfg`: `os/terminal.c:49` says "SIDE EFFECT: none" of `terminal_read()`;
  it loads a cursor and stores it back with interrupts on (`os/terminal.c:83`), so that a
  key echoed in between is overwritten by the next character.
* `InterruptsKeys.cfg`: `os/keyboard.c:440` says of Alt+Fn "If pressed for the first time,
  it spawns a shell"; pressed between `os/rtc.c:53` and the first `execute()` it follows
  `cur_pcb`, which is null (`os/keyboard.c:484`), and so does Ctrl+C.
* `CommandsRest.cfg`: `os/system_call.c:645` says "the rest is the argument"; the loop
  under it stops at the first blank, so that of `grep b a` the argument is `b`.
* `RtcWait.cfg`: `os/rtc.c:119` says that a read returns if the clock interrupts; a
  divider written below the count delays it until the count wraps (`os/rtc.c:170`).
* `PipelineProgram.cfg`: `ECE411 RISCV/mp3/README.rst:344` asks for hazard detection and
  forwarding for all control hazards. A taken branch in memory is lost when a load is in
  execute and the instruction that needs it in decode, for `hazard` holds the PC while
  `squash` clears the stages (`rv/datapath/pipelinedatapath.sv:82`); a load whose
  address is the result of the load before it is not held back
  (`hazard_detector.sv:24`); and after `lui` or `slt` the ALU's output is forwarded
  instead of the result (`forwarding_units.sv:13`).

Two more disagreements are covered by the words of a passing property. The first is the
listing of files: `os/filesys.c:340` says that reads go through "successive directory
entry until last is reached", but `index_dir` belongs to all processes and is set back
only by an `execute()` that finds it at the end. So a listing killed by Ctrl+C leaves
the next one to begin in the middle, two listings at once share the entries between
them, and a command started on another terminal just before a listing learns of its end
starts it over. `ListingComplete` excludes exactly these (`orderly`). The second is
`execute()` of an image shorter than 28 bytes, which returns -1 with the page of the
program it did not start still mapped: `UserPageIsolated` says what is left, that it is
no live process's page.

## 4. Proofs

The theorems hold for every value of the constants that the modules' assumptions allow:
any number of terminals, pids, processes, descriptors, cache sets, lines and registers,
lines and files of any length, arbitrary interleavings. Each property that a theorem
names is checked by TLC on the instance of section 3 as well.

| Module | Theorem | Property |
|---|---|---|
| `SchedulerProofs` | `TypeCorrect` | `TypeOK` |
| | `CpuConsistent` | `CpuMatches`: PCB, TSS and `active_pid` name the same process |
| | `UserPagesIsolated` | `UserPageIsolated`: nobody runs with another live process's memory |
| | `FramesFresh` | `FreshFrames`: no process is resumed in a frame of an earlier suspension |
| | `OutputConsistent` | `OutputFollowsScreen` |
| | `VidmapIsolated` | `VidmapNotForeign` |
| | `FramesKept` | `FramesSafe`: no suspended frame is overwritten unless a launch was interrupted |
| | `CountKept` | `ShellsCounted`: `boot_num_shells` is right unless a launch was interrupted |
| | `ChainsKept` | `ChainsPartition`: the terminals' chains of processes partition the pids |
| | `StacksImplemented` | `ImplementsStacks`: `Scheduler` implements `AbstractTerminals` |
| `TerminalInputProofs` | `Types` | `TypeOK`: `buffer_pos` leaves a cell for the newline |
| | `LineHeld` | `BufferHoldsLine`: what Enter would submit is what was typed |
| | `LinesIntact` | `LineIntact`: an undisturbed read returns the line |
| `ScreenProofs` | `ScreenTypeCorrect` | `TypeOK`: cursors stay on their pages, those that reads have in registers included |
| | `ScreenShowsText` | `ShowsText`: each terminal shows the text it was given, through reads and under messages, until a read that was overtaken moves its cursor or a backspace erases output |
| | `ShellRunsTheCommand` | `RunsTheCommand`: the program the line names, whole, with an argument that begins with the second word |
| | `ProgramsPrintTheText` | `PrintsTheText`: `cat` finds and prints the file, `grep` its matching lines |
| `FileSystemProofs` | `Types` | `TypeOK` |
| | `StreamsIntact` | `StreamIntact`: the bytes of a file in order, none twice, none left out |
| | `ListingsComplete` | `ListingComplete`: an undisturbed listing has every entry once |
| `InterruptsProofs` | `InServiceHandled` | `InServiceIsHandled` |
| | `DevicesReady` | `HandlersReady`: a device's handler finds the device set up, whatever is pressed during the boot |
| | `ClockTypes` | `TypeOK` of `Rtc`: dividers and counts stay within their registers, and `rtc_devices` within its bound, above the code's limit |
| | `ClockReadsFresh` | `ReadIsFresh` of `Rtc`: a read returns for a tick that came after it began |
| `MemoryHierarchyProofs` | `Types` | `TypeOK` |
| | `InvalidWays` | `InvalidWayFirst` |
| | `SteadyBursts` | `BurstSteady` |
| | `CleanCopies` | `CleanCopiesAgree` |
| | `Implementation` | `ImplementsMemory`: the hierarchy implements `AbstractMemory` |
| | `AnswersInTime` | `AnsweredInTime`: the pipeline is stalled for `MaxStall` cycles at most |
| | `PipelineImplementation` | `ImplementsIsa` of `Pipeline`, for code without the sequences of `Unforwarded` |
| `ConvolutionProofs` | `ConvolutionRaceFree` | `RaceFree`: no two threads race for a cell of a tile |
| | `ConvolutionComputes` | `ComputesConvolution`: the kernels give the sums of the CPU's loops |

### Assumptions

* `RtcDevicesAssumption`: there are not so many terminals that `rtc_devices`, an
  `int8_t`, overflows (16 that open the clock take it to 123).
* `SchedulerAssumption`, `RtcAssumption`, `InputAssumption`, `ScreenAssumption`,
  `InterruptsAssumption` and `PipelineAssumption` give the constants their types, and a
  count of the clock room for the highest frequency.
* `ConvolutionAssumption`: the tensors of a shape have positive dimensions and the filter
  fits the image, as `H_out` and `W_out` suppose.
* `FileSystemAssumption`: blocks and the directory are not empty, the length of a read
  is a natural number, as `read_data()` declares it.
* `CommandsAssumption`: entries have distinct names that fit their cells; a program's name
  is shorter than `execute()`'s array for it, and an entry's than that for the argument;
  a text has no `nul` and does not begin as an executable does; a line fits the
  terminal's buffer.
* `ProgramAssumption`: the program stores to no line that it fetches from, for nothing
  keeps the instruction cache coherent. `NoneAssumption` says that the value for "no
  answer" is no answer. That the program stores to a beat of a line is part of the first.
* `PipelineImplementation` assumes `PaddedCode`: without it the property is
  false, as `PipelineProgram.cfg` shows.

### The inductive invariants

**Scheduler.** `CpuMatches` and `FreshFrames` are not inductive: `halt()` makes the
parent active, so one must know that the parent is live and active in no other terminal.
That follows from the shape of the process forest, which `IInv` adds: active processes
are live, distinct and do not wait (`ActiveOk`), a parent is live, waits, and waits for
one child only (`Forest`), and there is nothing before the first shell (`BootOk`).
`NextIInv` has one lemma an action; a launch of a shell, which boot, Alt+Fn and the
restart of a base shell share, has two of its own (`LaunchTypes`, `LaunchStructure`).
The two theorems on output are inductive by themselves (`OutputStep`), given the range
of the terminals. `StacksOk` says where each process's kernel stack is as long as no
launch was interrupted, and `CountOk` which terminals are counted.

The chains of a terminal are followed along `parent_pid` from its active process, by a
recursive function. `AncestorDef` proves that it satisfies its recursion, and `Linked`
that the chains end in base shells, are disjoint, cover the pids in use, and consist of
waiting processes but for their heads. Each action changes the chains of one terminal
by one process at its head or not at all (`NextImplements`), which gives `ChainsKept`
and, step by step, `StacksImplemented`.

**Rtc.** `DividerInRange` bounds the truncating division of `rtc_write()`, including the
divider of zero that it may give; `ClockTypingStep` has one step an action. That
`rtc_devices` has a bound at all, though any terminal may store a number it loaded long
ago, is `Counting`. A terminal with a *ticket* is past the test, and may still count once.
A *stale* one loaded 1, and will store 2 when it likes; that gives every other a new test
to pass, but it does so once, for nobody loads 1 again after the first store. So the
room above the limit is for one ticket a terminal at first, and one less after each stale
store (`Room`); `CountsTest`, `CountsLoad` and `CountsStore` are the three steps.
`ReadIsFresh` is inductive given the types (`ClockFreshStep`): only `rtc_interrupt()`
raises the flag, for everybody who waits, and nobody begins to wait but by clearing it.

**TerminalInput.** `LineIntact` speaks of the end of a read. `Quiet` says what holds of a
terminal until it is disturbed: the line typed is at the head of its buffer, a line that
was entered stays there with its newline (`Holds`), one process at most is reading it,
on the terminal that is shown, and what that process has copied is the beginning of the
line (`Copies`).

**Screen.** `ShowsText` is not inductive. A backspace in the first column goes to the end
of the row above and erases the character there, so if what it erases was typed, that
row must be full: `Flows` says so of every row that the characters typed began in.
`Showing` is that and `ShowsText` of one terminal, its page compared with the text cell
by cell (`Shown`; `RenderShows` is that this is what `Render` gives). Each way to change
a page has a lemma: `TypedShows` with the wrap, `NewlineShows`, `ScrollShows`,
`ErasedShows`; and `OthersShow` that it is one terminal's page only. `Fresh` says that a
read that nothing has overtaken has loaded the displayed terminal's cursor as it is, so
that its stores change nothing (`StoreIInv`); a message may stand in any cell that
`Shown` looks at (`ExceptionIInv`).

**FileSystem.** A `read()` under way holds bytes that `file_pos` does not count yet, so
`Streams` relates the descriptor, the bytes in flight and what the program has been
given. What `read_data()` returns is the value of a recursive function: `LoopFrom` gives
it in closed form, by induction on the bytes left. `Listing` follows an undisturbed
listing through the steps of `dir_read()`: `index_dir` is the number of entries listed,
also in the register in which it is being incremented, and 0 or the number of entries
when nobody lists.

**Interrupts.** `Booting` says what `entry()` has masked and set up at each step, the mask
that `enable_irq` has read and not yet written back included. `Nesting` says where on the
stacks of all tasks a handler may be that has not ended its interrupt: on top of the one
in use, with interrupts off. `Serving` ties the in-service registers to that frame.

**Pipeline.** An instruction is executed, for `Isa`, when it leaves the memory stage. The
invariant says what the stages before it know at that moment: `Computed`, that the memory
stage holds what the architectural registers give; `Fetched`, that an operand read in
decode is right unless it is forwarded; `Padded`, that a result forwarded too early is
not used; `Chained`, that each stage holds the successor of the one ahead; and
`NoLostJump`, that a load hazard does not hold the PC when a jump leaves.

**MemoryHierarchy.** `CacheProofs` has what one cycle does to a cache of any size, as
lemmas about the operators of `Cache`, and `MemoryHierarchyProofs` instantiates them for
both sizes. The invariant follows a line down: `Coherent`, that what may be dropped from
a cache is what the level below has; `Bursting` and `Transferred`, that the adaptor and
the memory are at the same beat of a burst, and what of it has arrived; and `Arbitrated`,
that a cache that the arbiter serves is still waiting. `AnswersInTime` is a liveness
property turned into safety by the history `stalled`, and its proof is that of a ranking
function: `Left` counts the cycles of the access that the L2 cache is in (`L2Left`, and
of its burst `CadLeft`) and 17 for each access that the L1 caches still need. `LeftStep`
shows that every cycle of waiting lowers it, unless the memory waits.

**Convolution.** That the nested loops of the CPU add one sequence, the columns of the
unrolled matrices, is `SumOfProducts`: `Joined` flattens one loop after the other, by
quotient and remainder. `Covers` says that every element of the output is some thread's.
While a kernel runs, `Together` says between which barriers the threads of a block are,
from which `RaceFree` follows; `Placed`, that a thread that has loaded its element of a
tile finds it there, as nobody overwrites it in this round; `Summed`, that a thread's
sum has the products of the columns it has been through; and `Stored`, that a thread
that is done has stored it. `Written` carries the images that are finished from launch
to launch, past what the extra image overwrites.

**Commands.** `Parsed` has what `parse_command` leaves in its two arrays: `TwoStrings`
what two strings written one after the other into a frame give when they are read again,
in each of the layouts and with a word that fills its array, and `DividedWords` that the
name and the argument found in the buffer are the line's words, by what `ReadLine` has put
behind the line (`BufferHolds`). `CommandRuns` carries that through the load of the
image, and through shells that are started and end: those that wait (`Suspended`) need nothing but the types of
their buffers, as `BufferHolds` is about the line read last. `CutIs` gives the argument
when its array is too short for the word.
For `cat`, `CatPrints` says what has been printed at each read. For `grep`, `GrepRuns` says
where in the file the buffer lies (`InBuffer`) and that what has been printed is what the
reference has up to the next line's first byte (`StartsAt`). A read that is cut in a line
moves the line and keeps that position (`KeepRuns`); a line that is searched moves it behind
the newline (`Searched`), or, with a full buffer, in front of it, and the empty line that
grep sees then has no pattern. `FlatExists` and `UptoExists` show by induction that the
recursive functions of the two references exist, and `ReferenceIs` that the invariant's is
the one in `PrintsTheText`.

### Induction

The library's theorems of induction take the predicate as an operator, with which the
provers cannot work. Where a proof needs induction over the naturals (the chains of
`Scheduler`, the loop of `read_data()`, the sums of `Convolution`), it is over a set: `LeastNatural` has the least
element of a set of naturals from the well-foundedness of `<`, and `Induction` that a set
with 0 that is closed under successor has them all.

### What is only model-checked

* Liveness: `EveryTerminalRuns`, `HaltCompletes`, `ReadReturns`, `Completes`,
  `DevicesServed`, `EveryLineAnswered`, `Finishes`. Fairness and `ENABLED` are out of the
  prover's reach.

## 5. Not modelled, and why

* The contents of descriptor and page tables, and port writes to the PIT and the CMOS
  (NMI mask): written in a fixed order, without state in the kernel.
* `itoa`, the memory functions of `os/lib.c` and what `printf` prints during the boot:
  sequential. The messages of exceptions are in `Screen`.
  File names and command lines have characters in `Commands` only; elsewhere a name is a
  model value. The image of the file system is taken to be well formed.
* `rst` of the processor beyond the initial state, and `plru.sv`, which nothing
  instantiates. A program that stores to its own code: nothing keeps the instruction
  cache coherent, so `ProgramAssumption` rules it out.
* What `hello`, `counter`, `pingpong`, `syserr`, `sigtest`, `testprint` and `fish` print
  and call while they run: `Commands` has how they start, wait and end. `emulate` is built
  for another host.
* Byte and halfword lanes, and the arithmetic of `alu.sv` and `cmp.sv`, in `Pipeline`;
  floats in `Convolution`.
* The AES accelerator and the chess game: not yet, see the plan.
* Robot scripts, sprites and video timing: numerical or pictures.

## 6. Plan

Done, in this order: `Scheduler` with its abstract specification, properties and proofs;
`TerminalInput`, `Screen`, `Rtc`; `Cache` and `MemoryHierarchy` with `AbstractMemory`;
`FileSystem`; `Pipeline` with `Isa`; `Convolution`; `Interrupts`; `Commands`; the proofs
about all of them.

Next:

1. **AES accelerator** (`AesController`): the round controller with the registers that
   the software polls; the rounds in order, and one answer for each start.
2. **Chess turn controller** (`Turns`): the turn machine with the movers of `ball.sv`
   and `mummy.sv` that answer it.
