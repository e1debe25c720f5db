------------------------------ MODULE Scheduler ------------------------------
(***************************************************************************)
(* Processes and terminals of the ECE391 kernel: execute() and halt()      *)
(* (system_call.c), the PIT scheduler switch_tasks() and                   *)
(* make_terminal_active() (scheduling.c), Alt+Fn and Ctrl+C (keyboard.c)   *)
(* and the exception handlers.                                             *)
(*                                                                         *)
(* There is one CPU.  An action runs from one point where interrupts are   *)
(* enabled to the next, so between two actions the PIT, the keyboard or    *)
(* the running process may go first.  Those points are user mode, the two  *)
(* steps of halt()'s wait (sti .. cli), and the stretch of execute()       *)
(* between the sti() at the end of make_terminal_active() and the iret of  *)
(* context_switch(), called the launch window below.                       *)
(***************************************************************************)
EXTENDS Integers, FiniteSets

CONSTANTS
  MAX_NUM_PROCESSES,     \* entries of pids[]
  MAX_BOOT_NUM_SHELLS,   \* terminals
  ExitStatus,            \* statuses user programs pass to halt()
  MinShells              \* bound: Ctrl+C hits no launch when fewer shells are counted

ASSUME SchedulerAssumption ==
  /\ MAX_NUM_PROCESSES \in Nat \ {0}
  /\ MAX_BOOT_NUM_SHELLS \in Nat \ {0}
  /\ ExitStatus \subseteq 0 .. 255
  /\ MinShells \in Int

Pids      == 0 .. MAX_NUM_PROCESSES - 1
Terminals == 1 .. MAX_BOOT_NUM_SHELLS
None      == -1
Screen    == 0           \* VIDMEM; t > 0 is the off-screen page of terminal t

Locations == {"free",         \* pids[p] = -1
              "user",         \* user mode, or a system call that changes nothing here
              "wait",         \* suspended in execute() until its child halts
              "launch",       \* in execute(), before boot_num_shells++
              "launched",     \* in context_switch(), before iret
              "halting",      \* halt(): while (running != displayed);
              "halt_ready"}   \* halt(): loop left, cli() not yet executed

VARIABLES
  cur_terminal,          \* terminal on the screen
  cur_terminal_running,  \* terminal whose process has the CPU
  terminals,             \* terminals whose terminals[] entry is not -1
  active_pid,            \* terminal_arr[t].active_pid
  num_process,           \* terminal_arr[t].num_process_this_terminal
  pids,                  \* pids in use
  parent_pid,            \* PCB field; None for a free pid, whose PCB is not read
  cur_pcb,               \* pid of the PCB that cur_pcb points to
  tss_esp0,              \* pid whose kernel stack a trap from user mode enters
  user_page,             \* pid whose 4MB frame is mapped at 128MB
  video_mem,             \* page that kernel output goes to
  vidmap_page,           \* page mapped at 136MB for user programs
  boot_num_shells,
  exception_raised,
  \* the machine: where each process stands, and what the stacks hold
  pc,
  kstack,                \* kernel stack a process is on, and how deeply nested
  saved,                 \* processes suspended in the frame their PCB esp names
  lost,                  \* suspended processes whose frame may be overwritten
  crashed,               \* an overwritten frame was resumed and the kernel died
  \* history
  halt_call,             \* why and with which argument a process is in halt()
  ret,                   \* what execute() returned in the last step, and to whom
  raced                  \* an interrupt was taken in a launch window

tables == <<terminals, active_pid, num_process, pids, parent_pid, boot_num_shells>>
cpu    == <<cur_terminal_running, cur_pcb, tss_esp0, user_page>>
video  == <<cur_terminal, video_mem, vidmap_page>>
stacks == <<kstack, saved, lost, crashed>>
exits  == <<exception_raised, halt_call>>
vars   == <<tables, cpu, video, stacks, exits, ret, pc, raced>>

NoCall    == [cause |-> "none", arg |-> 0]
NoReturn  == ret' = [pid |-> None, val |-> 0]
Returns(p, v) == ret' = [pid |-> p, val |-> v]

Own(p)       == [on |-> p, depth |-> 0]
Above(s)     == [on |-> s.on, depth |-> s.depth + 1]
InWindow(p)  == pc[p] \in {"launch", "launched"}

\* Faulty variants of a definition stand before it under its name and a suffix;
\* nothing uses them but the check that the properties notice such a bug.
VideoOf_NextPage(running, disp) == IF running = disp THEN Screen ELSE running + 1
VideoOf_Displayed(running, disp) == IF running = disp THEN Screen ELSE disp
\* Where output of the running terminal goes when disp is on the screen.
VideoOf(running, disp) == IF running = disp THEN Screen ELSE running

Init ==
  /\ cur_terminal = 1 /\ cur_terminal_running = 1
  /\ terminals = {1}
  /\ active_pid  = [t \in Terminals |-> None]
  /\ num_process = [t \in Terminals |-> 0]
  /\ pids = {}
  /\ parent_pid = [p \in Pids |-> None]
  /\ cur_pcb = None /\ tss_esp0 = 0 /\ user_page = None
  /\ video_mem = Screen /\ vidmap_page = None
  /\ boot_num_shells = 0 /\ exception_raised = 0
  /\ pc = [p \in Pids |-> "free"]
  /\ kstack = [p \in Pids |-> Own(p)]
  /\ saved = {} /\ lost = {} /\ crashed = FALSE
  /\ halt_call = [p \in Pids |-> NoCall]
  /\ ret = [pid |-> None, val |-> 0]
  /\ raced = FALSE

-----------------------------------------------------------------------------
(* Helpers of the source. *)

IsAvailable_Unchecked(p, used) == \A q \in Pids : p <= q
\* get_available_pid: p is the lowest pid not in used.
IsAvailable(p, used) == p \notin used /\ \A q \in Pids \ used : p <= q

ScanOrder_FromFirst(t) == t - 1
\* get_next_active_terminal: scan from the slot after the running terminal.
ScanOrder(t) == (t - 1 + MAX_BOOT_NUM_SHELLS - cur_terminal_running) % MAX_BOOT_NUM_SHELLS
IsNextActive(t) ==
  /\ boot_num_shells > 1
  /\ t \in terminals
  /\ \A u \in terminals : ScanOrder(t) <= ScanOrder(u)

RunProcess_NoTss(p) == cur_pcb' = p /\ user_page' = p /\ UNCHANGED tss_esp0
RunProcess_NoPage(p) == cur_pcb' = p /\ tss_esp0' = p /\ UNCHANGED user_page
\* The CPU now runs p: cur_pcb, tss.esp0 and the page at 128MB.
RunProcess(p) == cur_pcb' = p /\ tss_esp0' = p /\ user_page' = p

\* Frames of q on the stack that the frame f of another process may overwrite:
\* those at least as deep on the same stack.
Overwritten(f, suspended) ==
  {q \in suspended : kstack[q].on = f.on /\ kstack[q].depth >= f.depth}

ShowTerminal_NoVideo(t, r) ==
  cur_terminal' = t /\ vidmap_page' = VideoOf(r, t) /\ UNCHANGED video_mem
\* make_terminal_active(t) while terminal r runs: show t, redirect r's output.
ShowTerminal(t, r) ==
  /\ cur_terminal' = t
  /\ video_mem' = VideoOf(r, t)
  /\ vidmap_page' = VideoOf(r, t)

\* execute("shell") for the empty terminal t, up to the sti() at the end of
\* make_terminal_active(): used and shells are pids[] and boot_num_shells on
\* entry, f the stack it runs on, pcs and suspended the other processes.
LaunchShell(p, t, used, shells, f, pcs, suspended) ==
  /\ IsAvailable(p, used)
  /\ pids' = used \cup {p}
  /\ active_pid' = [active_pid EXCEPT ![t] = p]
  /\ num_process' = [num_process EXCEPT ![t] = 1]
  /\ parent_pid' = [parent_pid EXCEPT ![p] = None]
  /\ cur_terminal_running' = t
  /\ RunProcess(p)
  /\ ShowTerminal(IF shells = 0 THEN cur_terminal ELSE t, t)
  /\ boot_num_shells' = shells
  /\ pc' = [pcs EXCEPT ![p] = "launch"]
  /\ kstack' = [kstack EXCEPT ![p] = f]
  /\ saved' = suspended
  /\ lost' = lost \cup Overwritten(f, suspended)
  /\ UNCHANGED crashed

-----------------------------------------------------------------------------
(* The kernel's code, run by the process that has the CPU. *)

Runs(p, location) == ~crashed /\ cur_pcb = p /\ pc[p] = location

\* kernel.c entry(): the first shell, on the boot stack, which is pid 0's.
Boot ==
  /\ cur_pcb = None
  /\ \E p \in Pids : LaunchShell(p, 1, {}, 0, Own(0), pc, {})
  /\ NoReturn
  /\ UNCHANGED <<terminals, exits, raced>>

\* execute(): boot_num_shells++ after make_terminal_active() returned.
CountShell(p) ==
  /\ Runs(p, "launch")
  /\ boot_num_shells' = boot_num_shells + 1
  /\ pc' = [pc EXCEPT ![p] = "launched"]
  /\ NoReturn
  /\ UNCHANGED <<terminals, active_pid, num_process, pids, parent_pid,
                 cpu, video, stacks, exits, raced>>

EnterUser_SameStack(p) ==
  /\ Runs(p, "launched")
  /\ pc' = [pc EXCEPT ![p] = "user"]
  /\ NoReturn
  /\ UNCHANGED <<tables, cpu, video, stacks, exits, raced>>

\* context_switch(): iret to user mode; the next trap enters p's own stack.
EnterUser(p) ==
  /\ Runs(p, "launched")
  /\ pc' = [pc EXCEPT ![p] = "user"]
  /\ kstack' = [kstack EXCEPT ![p] = Own(p)]
  /\ NoReturn
  /\ UNCHANGED <<tables, cpu, video, saved, lost, crashed, exits, raced>>

Enters_Displayed(t, c) ==
  /\ active_pid' = [active_pid EXCEPT ![cur_terminal] = c]
  /\ num_process' = [num_process EXCEPT ![cur_terminal] = @ + 1]
\* c becomes the active process of t.
Enters(t, c) ==
  /\ active_pid' = [active_pid EXCEPT ![t] = c]
  /\ num_process' = [num_process EXCEPT ![t] = @ + 1]

\* execute() of a valid program from user mode: no sti before the iret.
ExecuteChild(p, c) ==
  /\ Runs(p, "user")
  /\ IsAvailable(c, pids)
  /\ RunProcess(c)
  /\ parent_pid' = [parent_pid EXCEPT ![c] = p]
  /\ pids' = pids \cup {c}
  /\ Enters(cur_terminal_running, c)
  /\ pc' = [pc EXCEPT ![p] = "wait", ![c] = "user"]
  /\ kstack' = [kstack EXCEPT ![c] = Own(c)]
  /\ lost' = lost \cup Overwritten(Own(c), saved)
  /\ NoReturn
  /\ UNCHANGED <<terminals, boot_num_shells, cur_terminal_running, video,
                 saved, crashed, exits, raced>>

\* execute() that returns to its caller: every pid taken; no such program; or
\* an image too short for its entry point, found out after the page is mapped.
ExecuteFails(p) ==
  /\ Runs(p, "user")
  /\ \/ /\ Pids \subseteq pids
        /\ Returns(p, 2)
        /\ UNCHANGED user_page
     \/ /\ \E c \in Pids : IsAvailable(c, pids) /\ user_page' \in {user_page, c}
        /\ Returns(p, -1)
  /\ UNCHANGED <<tables, cur_terminal_running, cur_pcb, tss_esp0, video, stacks,
                 exception_raised, halt_call, pc, raced>>

\* vidmap(): maps the screen, whichever terminal the caller belongs to.
Vidmap(p) ==
  /\ Runs(p, "user")
  /\ vidmap_page' = Screen
  /\ NoReturn
  /\ UNCHANGED <<tables, cpu, cur_terminal, video_mem, stacks, exits, pc, raced>>

\* halt(status) called by the program.
Exit(p) ==
  /\ Runs(p, "user")
  /\ \E s \in ExitStatus : halt_call' = [halt_call EXCEPT ![p] = [cause |-> "exit", arg |-> s]]
  /\ pc' = [pc EXCEPT ![p] = "halting"]
  /\ NoReturn
  /\ UNCHANGED <<tables, cpu, video, stacks, exception_raised, raced>>

\* An exception in user mode: set_exception_raised(1); halt((uint8_t)256).
Exception(p) ==
  /\ Runs(p, "user")
  /\ exception_raised' = 1
  /\ halt_call' = [halt_call EXCEPT ![p] = [cause |-> "exception", arg |-> 256]]
  /\ pc' = [pc EXCEPT ![p] = "halting"]
  /\ NoReturn
  /\ UNCHANGED <<tables, cpu, video, stacks, raced>>

HaltSeesScreen_Inverted(p) ==
  /\ Runs(p, "halting")
  /\ cur_terminal_running # cur_terminal
  /\ pc' = [pc EXCEPT ![p] = "halt_ready"]
  /\ NoReturn
  /\ UNCHANGED <<tables, cpu, video, stacks, exits, raced>>

\* halt(): the wait loop sees its terminal on the screen; cli() comes later.
HaltSeesScreen(p) ==
  /\ Runs(p, "halting")
  /\ cur_terminal_running = cur_terminal
  /\ pc' = [pc EXCEPT ![p] = "halt_ready"]
  /\ NoReturn
  /\ UNCHANGED <<tables, cpu, video, stacks, exits, raced>>

HaltBaseShell_NoDecrement(p) ==
  /\ Runs(p, "halt_ready")
  /\ num_process[cur_terminal_running] = 1
  /\ \E q \in Pids : LaunchShell(q, cur_terminal_running, pids \ {p}, boot_num_shells,
                                 kstack[p], [pc EXCEPT ![p] = "free"], saved)
  /\ halt_call' = [halt_call EXCEPT ![p] = NoCall]
  /\ NoReturn
  /\ UNCHANGED <<terminals, exception_raised, raced>>

\* halt() of a base shell: its slot is freed and a new shell started on the
\* stack of the old one.
HaltBaseShell(p) ==
  /\ Runs(p, "halt_ready")
  /\ num_process[cur_terminal_running] = 1
  /\ \E q \in Pids : LaunchShell(q, cur_terminal_running, pids \ {p}, boot_num_shells - 1,
                                 kstack[p], [pc EXCEPT ![p] = "free"], saved)
  /\ halt_call' = [halt_call EXCEPT ![p] = NoCall]
  /\ NoReturn
  /\ UNCHANGED <<terminals, exception_raised, raced>>

\* The value that execute() returns for a child that halted with arg.
ReturnValue(arg) == IF exception_raised = 1 THEN 256 ELSE arg % 256

\* halt() of any other process: back into the parent's execute().
HaltToParent(p) ==
  LET q == parent_pid[p] IN
  /\ Runs(p, "halt_ready")
  /\ num_process[cur_terminal_running] # 1
  /\ q # None
  /\ pids' = pids \ {p}
  /\ active_pid' = [active_pid EXCEPT ![cur_terminal_running] = q]
  /\ num_process' = [num_process EXCEPT ![cur_terminal_running] = @ - 1]
  /\ RunProcess(q)
  /\ pc' = [pc EXCEPT ![p] = "free", ![q] = "user"]
  /\ lost' = lost \cup Overwritten(kstack[q], saved)
  /\ Returns(q, ReturnValue(halt_call[p].arg))
  /\ exception_raised' = 0
  /\ parent_pid' = [parent_pid EXCEPT ![p] = None]
  /\ halt_call' = [halt_call EXCEPT ![p] = NoCall]
  /\ UNCHANGED <<terminals, boot_num_shells, cur_terminal_running, video,
                 kstack, saved, crashed, raced>>

-----------------------------------------------------------------------------
(* Interrupts, taken on the stack of the running process. *)

InterruptTaken ==
  /\ ~crashed /\ cur_pcb # None
  /\ raced' = (raced \/ InWindow(cur_pcb))

\* PIT, switch_tasks(): suspend the running process in this frame and resume
\* the active process of the next terminal in the frame its PCB names.
SwitchTasks ==
  /\ InterruptTaken
  /\ \E t \in Terminals :
       LET p == active_pid[t] IN
       /\ IsNextActive(t)
       /\ cur_terminal_running' = t
       /\ RunProcess(p)
       /\ video_mem' = VideoOf(t, cur_terminal)
       /\ vidmap_page' = VideoOf(t, cur_terminal)
       /\ saved' = (saved \cup {cur_pcb}) \ {p}
       /\ lost' = (lost \ {p}) \cup Overwritten(kstack[p], saved')
       /\ crashed' \in IF p \in lost \/ p \notin saved \cup {cur_pcb} THEN BOOLEAN ELSE {FALSE}
  /\ NoReturn
  /\ UNCHANGED <<tables, cur_terminal, kstack, exits, pc>>

\* Alt+Fn on a terminal that has a shell: make_terminal_active(n).
AltFnShow(n) ==
  /\ InterruptTaken
  /\ n # cur_terminal /\ n \in terminals
  /\ ShowTerminal(n, cur_terminal_running)
  /\ NoReturn
  /\ UNCHANGED <<tables, cpu, stacks, exits, pc>>

AltFnLaunch_NoSave(n) ==
  /\ InterruptTaken
  /\ n # cur_terminal /\ n \notin terminals
  /\ terminals' = terminals \cup {n}
  /\ \E p \in Pids : LaunchShell(p, n, pids, boot_num_shells, Above(kstack[cur_pcb]), pc, saved)
  /\ NoReturn
  /\ UNCHANGED exits

\* Alt+Fn on a new terminal: suspend the interrupted process in alt_fn's frame
\* and launch a shell on top of it.
AltFnLaunch(n) ==
  /\ InterruptTaken
  /\ n # cur_terminal /\ n \notin terminals
  /\ terminals' = terminals \cup {n}
  /\ \E p \in Pids : LaunchShell(p, n, pids, boot_num_shells, Above(kstack[cur_pcb]),
                                 pc, saved \cup {cur_pcb})
  /\ NoReturn
  /\ UNCHANGED exits

\* Ctrl+C: int 0x80 with halt(256) on behalf of whichever process is running.
\* In a launch it costs one count of boot_num_shells, so MinShells bounds it.
CtrlC ==
  /\ InterruptTaken
  /\ InWindow(cur_pcb) => boot_num_shells >= MinShells
  /\ halt_call' = [halt_call EXCEPT ![cur_pcb] = [cause |-> "ctrl_c", arg |-> 256]]
  /\ pc' = [pc EXCEPT ![cur_pcb] = "halting"]
  /\ NoReturn
  /\ UNCHANGED <<tables, cpu, video, stacks, exception_raised>>

-----------------------------------------------------------------------------
UserStep(p)   == \/ \E c \in Pids : ExecuteChild(p, c)
                 \/ ExecuteFails(p) \/ Vidmap(p) \/ Exit(p) \/ Exception(p)
KernelStep(p) == CountShell(p) \/ EnterUser(p) \/ HaltSeesScreen(p)
                 \/ HaltBaseShell(p) \/ HaltToParent(p)
Keyboard      == CtrlC \/ \E n \in Terminals : AltFnShow(n) \/ AltFnLaunch(n)

Next == Boot \/ SwitchTasks \/ Keyboard \/ \E p \in Pids : UserStep(p) \/ KernelStep(p)

Spec == Init /\ [][Next]_vars

HaltReleases(p) == HaltBaseShell(p) \/ HaltToParent(p)

\* The CPU keeps executing and the PIT keeps ticking.  A process runs many
\* instructions in a time slice, so a kernel step that is possible in slice
\* after slice is taken; likewise the PIT does not miss for ever the moments
\* at which two shells are counted, and Ctrl+C does not hit for ever the few
\* instructions between halt()'s wait loop and its cli().
Fairness ==
  /\ WF_vars(Boot) /\ SF_vars(SwitchTasks)
  /\ \A p \in Pids : SF_vars(KernelStep(p)) /\ SF_vars(HaltReleases(p))
LiveSpec == Spec /\ Fairness
=============================================================================
