------------------------- MODULE SchedulerProperties -------------------------
(***************************************************************************)
(* What should be true of the processes and terminals of Scheduler.        *)
(***************************************************************************)
EXTENDS Scheduler

Launches == [on : Pids, depth : Nat]
Causes   == {"none", "exit", "ctrl_c", "exception"}

\* What a launch of a shell writes.
LaunchTyped ==
  /\ cur_terminal \in Terminals /\ cur_terminal_running \in Terminals
  /\ active_pid \in [Terminals -> Pids \cup {None}]
  /\ num_process \in [Terminals -> Nat]
  /\ pids \subseteq Pids
  /\ parent_pid \in [Pids -> Pids \cup {None}]
  /\ cur_pcb \in Pids \cup {None} /\ user_page \in Pids \cup {None} /\ tss_esp0 \in Pids
  /\ video_mem \in Terminals \cup {Screen}
  /\ vidmap_page \in Terminals \cup {Screen, None}
  /\ boot_num_shells \in Int
  /\ pc \in [Pids -> Locations]
  /\ kstack \in [Pids -> Launches]
  /\ saved \subseteq Pids /\ lost \subseteq Pids
  /\ crashed \in BOOLEAN

\* Every variable has values of its type.
TypeOK ==
  /\ LaunchTyped
  /\ terminals \subseteq Terminals
  /\ exception_raised \in {0, 1}
  /\ halt_call \in [Pids -> [cause : Causes, arg : ExitStatus \cup {0, 256}]]
  /\ ret \in [pid : Pids \cup {None}, val : {-1, 0, 2, 256} \cup ExitStatus]
  /\ raced \in BOOLEAN

\* Bound of the runs with three terminals: what follows an interrupt in a launch
\* window is explored with two terminals only.
NoneRaced == ~raced

-----------------------------------------------------------------------------
(* The processes of a terminal, base shell first, along parent_pid. *)

Ancestor(active, parent) ==
  LET up[n \in Nat] == IF n = 0 THEN active ELSE parent[up[n - 1]]
  IN  up
ChainOf(active, n, parent) == [i \in 1 .. n |-> Ancestor(active, parent)[n - i]]
Chain(t)   == ChainOf(active_pid[t], num_process[t], parent_pid)
Members(t) == {Chain(t)[i] : i \in DOMAIN Chain(t)}

\* The PCB, the kernel stack for traps and the running terminal's active_pid
\* always name the same process, whatever interrupted execute() or halt().
CpuMatches ==
  cur_pcb # None =>
    cur_pcb = active_pid[cur_terminal_running] /\ tss_esp0 = cur_pcb

\* The user page is the running process's own, or, after an execute() that
\* failed late, that of a pid nobody holds: never another live process's.
UserPageIsolated == user_page \notin pids \ {cur_pcb}

\* Kernel output goes to the screen exactly when the running terminal is shown.
OutputFollowsScreen ==
  cur_pcb # None => video_mem = VideoOf(cur_terminal_running, cur_terminal)

\* The page at 136MB is never the off-screen page of another terminal.
VidmapNotForeign == cur_pcb # None => vidmap_page \in {Screen, cur_terminal_running}

\* The terminals' process chains partition the pids in use: each has
\* num_process_this_terminal members and ends in a shell without a parent, all
\* above the active process wait in execute(), the active one does not.
ChainsPartition ==
  /\ \A t \in Terminals : num_process[t] > 0 =>
       /\ parent_pid[Chain(t)[1]] = None
       /\ \A i \in 1 .. num_process[t] : (pc[Chain(t)[i]] = "wait") = (i < num_process[t])
       /\ Cardinality(Members(t)) = num_process[t]
  /\ \A t, u \in Terminals : t # u => Members(t) \cap Members(u) = {}
  /\ pids = UNION {Members(t) : t \in Terminals}
  /\ \A p \in Pids : p \in pids <=> pc[p] # "free"

\* The active process of every terminal that is off the CPU was suspended
\* since it last ran: its PCB's esp is not left over from an earlier switch.
FreshFrames ==
  \A t \in terminals : active_pid[t] \notin {cur_pcb, None} => active_pid[t] \in saved

\* boot_num_shells, which alone decides whether the scheduler switches, counts
\* the terminals whose shell has left execute(), unless a launch was interrupted.
ShellsCounted ==
  ~raced => boot_num_shells = Cardinality({t \in terminals :
                                active_pid[t] # None /\ pc[active_pid[t]] # "launch"})

\* No suspended frame is ever overwritten, unless a launch was interrupted.
FramesSafe == ~raced => lost = {} /\ ~crashed

-----------------------------------------------------------------------------
(* The abstract specification. *)

Abstract == INSTANCE AbstractTerminals WITH
  Pid <- Pids, Terminal <- Terminals,
  stack <- [t \in Terminals |-> Chain(t)],
  onCpu <- cur_terminal_running, onScreen <- cur_terminal

\* Every step of the kernel is a step of the abstract process stacks.
ImplementsStacks == Abstract!ASpec

-----------------------------------------------------------------------------
(* Liveness. *)

\* Round robin: a terminal with a shell gets the CPU, unless a launch was
\* interrupted (the shell count that enables switching may then be wrong).
EveryTerminalRuns ==
  \A t \in Terminals : (t \in terminals) ~> (cur_terminal_running = t \/ raced \/ crashed)

\* halt() ends, with the process table entry given back and the parent or a new
\* shell in its place, once its terminal is and stays on the screen, and whether
\* or not Alt+Fn or Ctrl+C comes between its wait loop and its cli(); unless a
\* launch was interrupted.
InHalt(t) == active_pid[t] # None /\ pc[active_pid[t]] \in {"halting", "halt_ready"}

HaltCompletes == \A t \in Terminals : InHalt(t) ~> (~InHalt(t) \/ cur_terminal # t \/ raced \/ crashed)

-----------------------------------------------------------------------------
(* Statements of comments that the code does not keep. *)

\* "Returns -1 on failure, 256 on exeception and 0-255 for success"
\* (execute(), system_call.c): 256 for a child that raised an exception, the
\* status of halt() for one that called it.
ExecuteResult ==
  [][\A p \in Pids : (HaltToParent(p) /\ halt_call[p].cause # "ctrl_c") =>
       ret'.val = IF halt_call[p].cause = "exception" THEN 256 ELSE halt_call[p].arg]_vars

\* "IMP: We do sti inside context_switch" (execute(), system_call.c): interrupts
\* stay off until the new shell leaves the stack it was launched on, so the
\* frames on that stack are safe.
LaunchUninterrupted == lost = {}
=============================================================================
