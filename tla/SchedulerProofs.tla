--------------------------- MODULE SchedulerProofs ---------------------------
(***************************************************************************)
(* Proofs about Scheduler for every number of pids and terminals.          *)
(*                                                                         *)
(* CpuMatches and FreshFrames are not inductive: halt() makes the parent   *)
(* active, so one must know that the parent is active nowhere else.  That  *)
(* follows from the shape of the process forest, Forest below: exactly the *)
(* processes with a child wait, and each has one child.                    *)
(*                                                                         *)
(* The same shape, followed along parent_pid from the active processes,    *)
(* gives the chains of the terminals: Linked, the inductive invariant from *)
(* which the partition of the pids and the refinement of                   *)
(* AbstractTerminals follow.  Chain is defined by recursion; what it       *)
(* satisfies is proved by induction over the natural numbers.              *)
(***************************************************************************)
EXTENDS SchedulerProperties, FiniteSetTheorems, SequenceTheorems, WellFoundedInduction, TLAPS

\* The active processes of the terminals are live, counted, distinct and not waiting.
ActiveOk ==
  /\ cur_pcb # None => \A t \in terminals : active_pid[t] # None
  /\ \A t \in Terminals : active_pid[t] # None =>
        active_pid[t] \in pids /\ pc[active_pid[t]] # "wait" /\ num_process[t] >= 1
  /\ \A t, u \in Terminals : active_pid[t] = active_pid[u] /\ active_pid[t] # None => t = u

\* A parent is live and waits, for one child only.
Forest ==
  /\ \A p \in pids : parent_pid[p] # None =>
        parent_pid[p] \in pids /\ pc[parent_pid[p]] = "wait"
  /\ \A p, q \in pids : parent_pid[p] = parent_pid[q] /\ parent_pid[p] # None => p = q

\* Before the first shell there is no process.
BootOk == cur_pcb = None =>
  pids = {} /\ terminals = {1} /\ \A t \in Terminals : active_pid[t] = None

IInv == TypeOK /\ CpuMatches /\ UserPageIsolated /\ FreshFrames /\ ActiveOk /\ Forest /\ BootOk

-----------------------------------------------------------------------------
\* The helpers have the types their callers expect.
LEMMA HelperTypes ==
  /\ None \notin Pids
  /\ 1 \in Terminals /\ 0 \in Pids
  /\ \A r \in Terminals, d \in Terminals : VideoOf(r, d) \in Terminals \cup {Screen}
  /\ \A p \in Pids : Own(p) \in Launches
  /\ \A f \in Launches : Above(f) \in Launches
BY SchedulerAssumption DEF None, Pids, Terminals, VideoOf, Screen, Own, Above, Launches

\* halt()'s argument reaches execute() as one byte.
LEMMA ReturnType ==
  ASSUME NEW arg \in ExitStatus \cup {0, 256}
  PROVE  ReturnValue(arg) \in {-1, 0, 2, 256} \cup ExitStatus
<1>1. CASE arg \in ExitStatus
  <2>1. arg \in 0 .. 255 BY <1>1, SchedulerAssumption
  <2>2. arg % 256 = arg BY <2>1
  <2> QED BY <1>1, <2>2 DEF ReturnValue
<1>2. CASE arg \in {0, 256}
  BY <1>2 DEF ReturnValue
<1> QED BY <1>1, <1>2

Returned == [pid : Pids \cup {None}, val : {-1, 0, 2, 256} \cup ExitStatus]

LEMMA NoReturnType == NoReturn => ret' \in Returned
BY DEF NoReturn, Returned

\* Launching a base shell keeps the types of what it writes.
LEMMA LaunchTypes ==
  ASSUME TypeOK, NEW p \in Pids, NEW t \in Terminals, NEW used \in SUBSET Pids,
         NEW shells \in Int, NEW f \in Launches, NEW pcs \in [Pids -> Locations],
         NEW suspended \in SUBSET Pids,
         LaunchShell(p, t, used, shells, f, pcs, suspended)
  PROVE  LaunchTyped'
<1>1. VideoOf(t, IF shells = 0 THEN cur_terminal ELSE t) \in Terminals \cup {Screen}
  BY HelperTypes DEF TypeOK, LaunchTyped
<1>2. "launch" \in Locations BY DEF Locations
<1>3. Overwritten(f, suspended) \subseteq Pids BY DEF Overwritten
<1>4. crashed' \in BOOLEAN
  BY DEF LaunchShell, TypeOK, LaunchTyped
<1> QED BY <1>1, <1>2, <1>3, <1>4 DEF LaunchShell, RunProcess, ShowTerminal, TypeOK, LaunchTyped

-----------------------------------------------------------------------------
LEMMA InitIInv == Init => IInv
<1> SUFFICES ASSUME Init PROVE IInv
  OBVIOUS
<1> USE HelperTypes DEF Init
<1>1. TypeOK
  <2>1. halt_call \in [Pids -> [cause : Causes, arg : ExitStatus \cup {0, 256}]]
    BY DEF Causes, NoCall
  <2>2. ret \in [pid : Pids \cup {None}, val : {-1, 0, 2, 256} \cup ExitStatus]
    OBVIOUS
  <2>3. pc \in [Pids -> Locations] /\ kstack \in [Pids -> Launches]
    BY DEF Locations
  <2>4. /\ active_pid \in [Terminals -> Pids \cup {None}]
        /\ num_process \in [Terminals -> Nat]
        /\ parent_pid \in [Pids -> Pids \cup {None}]
    OBVIOUS
  <2>5. /\ cur_terminal \in Terminals /\ cur_terminal_running \in Terminals
        /\ terminals \subseteq Terminals /\ pids \subseteq Pids
        /\ saved \subseteq Pids /\ lost \subseteq Pids
        /\ boot_num_shells \in Int /\ exception_raised \in {0, 1}
    OBVIOUS
  <2>6. /\ cur_pcb \in Pids \cup {None} /\ user_page \in Pids \cup {None} /\ tss_esp0 \in Pids
        /\ video_mem \in Terminals \cup {Screen}
        /\ vidmap_page \in Terminals \cup {Screen, None}
    OBVIOUS
  <2>7. crashed \in BOOLEAN /\ raced \in BOOLEAN
    OBVIOUS
  <2> HIDE DEF Init
  <2> QED BY <2>1, <2>2, <2>3, <2>4, <2>5, <2>6, <2>7 DEF TypeOK, LaunchTyped
<1>2. CpuMatches /\ UserPageIsolated /\ FreshFrames /\ ActiveOk /\ Forest /\ BootOk
  BY DEF CpuMatches, UserPageIsolated, FreshFrames, ActiveOk, Forest, BootOk
<1> QED BY <1>1, <1>2 DEF IInv

\* What a launch leaves behind, given that the processes in used are those of
\* the other terminals.
LEMMA LaunchStructure ==
  ASSUME TypeOK, ActiveOk, Forest,
         NEW p \in Pids, NEW t \in Terminals, NEW used \in SUBSET pids,
         NEW shells, NEW f, NEW pcs \in [Pids -> Locations], NEW suspended,
         LaunchShell(p, t, used, shells, f, pcs, suspended),
         terminals' \subseteq terminals \cup {t},
         \A u \in Terminals \ {t} : active_pid[u] # None => active_pid[u] \in used,
         \A u \in terminals \ {t} : active_pid[u] # None,
         \A q \in used : parent_pid[q] # None => parent_pid[q] \in used,
         \A q \in used : pcs[q] = pc[q],
         \A u \in terminals \ {t} : active_pid[u] \in suspended
  PROVE  CpuMatches' /\ UserPageIsolated' /\ FreshFrames' /\ ActiveOk' /\ Forest' /\ BootOk'
<1> USE HelperTypes DEF LaunchShell, RunProcess, IsAvailable
<1>1. CpuMatches' BY DEF CpuMatches, TypeOK, LaunchTyped
<1>2. UserPageIsolated' BY DEF UserPageIsolated
<1>3. FreshFrames' BY DEF FreshFrames, TypeOK, LaunchTyped
<1>4. ActiveOk'
  <2>1. \A u \in Terminals : active_pid'[u] = IF u = t THEN p ELSE active_pid[u] BY DEF TypeOK, LaunchTyped
  <2>2. \A q \in Pids : pc'[q] = IF q = p THEN "launch" ELSE pcs[q] OBVIOUS
  <2>3. \A u \in Terminals : active_pid'[u] # None =>
           active_pid'[u] \in pids' /\ pc'[active_pid'[u]] # "wait" /\ num_process'[u] >= 1
    <3>1. \A u \in Terminals : num_process'[u] = IF u = t THEN 1 ELSE num_process[u]
      BY DEF TypeOK, LaunchTyped
    <3> QED BY <2>1, <2>2, <3>1 DEF ActiveOk, TypeOK, LaunchTyped
  <2>4. \A u, v \in Terminals : active_pid'[u] = active_pid'[v] /\ active_pid'[u] # None => u = v
    BY <2>1 DEF ActiveOk, TypeOK, LaunchTyped
  <2>5. \A u \in terminals' : active_pid'[u] # None
    BY <2>1 DEF ActiveOk, TypeOK, LaunchTyped
  <2> QED BY <2>3, <2>4, <2>5 DEF ActiveOk
<1>5. Forest'
  <2>1. \A q \in Pids : parent_pid'[q] = IF q = p THEN None ELSE parent_pid[q] BY DEF TypeOK, LaunchTyped
  <2>2. \A q \in used : pc'[q] = pc[q] BY DEF TypeOK, LaunchTyped
  <2> QED BY <2>1, <2>2 DEF Forest, TypeOK, LaunchTyped
<1>6. BootOk' BY DEF BootOk
<1> QED BY <1>1, <1>2, <1>3, <1>4, <1>5, <1>6

-----------------------------------------------------------------------------
\* Steps that change no table, no register and no suspended frame.
Inert == UNCHANGED <<terminals, active_pid, num_process, pids, parent_pid,
                     cur_terminal_running, cur_pcb, tss_esp0, saved>>

\* A step between two kinds of location that are not "wait" disturbs nothing.
LEMMA InertStructure ==
  ASSUME TypeOK, CpuMatches, FreshFrames, ActiveOk, Forest, BootOk, Inert,
         \A p \in pids : pc'[p] = "wait" <=> pc[p] = "wait"
  PROVE  CpuMatches' /\ FreshFrames' /\ ActiveOk' /\ Forest' /\ BootOk'
<1> USE DEF Inert
<1>1. CpuMatches' BY DEF CpuMatches
<1>2. FreshFrames' BY DEF FreshFrames
<1>3. ActiveOk' BY DEF ActiveOk, TypeOK, LaunchTyped
<1>4. Forest' BY DEF Forest, TypeOK, LaunchTyped
<1>5. BootOk' BY DEF BootOk
<1> QED BY <1>1, <1>2, <1>3, <1>4, <1>5

LEMMA BootStep == IInv /\ Boot => IInv'
<1> SUFFICES ASSUME IInv, Boot PROVE IInv'
  OBVIOUS
<1> USE HelperTypes
<1>1. PICK p \in Pids : LaunchShell(p, 1, {}, 0, Own(0), pc, {})
  BY DEF Boot
<1>2. TypeOK /\ Own(0) \in Launches /\ pc \in [Pids -> Locations]
  BY DEF IInv, TypeOK, LaunchTyped
<1>3. UNCHANGED <<terminals, exception_raised, halt_call, raced>> /\ ret' \in Returned
  BY NoReturnType DEF Boot, exits
<1>4. TypeOK'
  BY <1>1, <1>2, <1>3, LaunchTypes DEF TypeOK, Returned
<1>5. pids = {} /\ terminals = {1} /\ \A t \in Terminals : active_pid[t] = None
  BY DEF IInv, BootOk, Boot
<1>6. CpuMatches' /\ UserPageIsolated' /\ FreshFrames' /\ ActiveOk' /\ Forest' /\ BootOk'
  BY <1>1, <1>2, <1>3, <1>5, LaunchStructure DEF IInv
<1> QED BY <1>4, <1>6 DEF IInv

\* The steps of one process, and the interrupts, that change nothing shared.
LEMMA InertSteps ==
  ASSUME IInv, NEW p \in Pids,
         \/ CountShell(p) \/ EnterUser(p) \/ ExecuteFails(p) \/ Vidmap(p)
         \/ Exit(p) \/ Exception(p) \/ HaltSeesScreen(p)
         \/ CtrlC \/ \E n \in Terminals : AltFnShow(n)
  PROVE  IInv'
<1> USE HelperTypes
<1>1. TypeOK /\ LaunchTyped BY DEF IInv, TypeOK
<1>2. Inert
  BY DEF CountShell, EnterUser, ExecuteFails, Vidmap, Exit, Exception, HaltSeesScreen, CtrlC,
         AltFnShow, Inert, tables, cpu, stacks
<1>3. pc' \in [Pids -> Locations] /\ \A q \in pids : pc'[q] = "wait" <=> pc[q] = "wait"
  <2>1. ASSUME NEW q \in Pids, NEW l \in Locations \ {"wait"}, pc[q] # "wait",
               pc' = [pc EXCEPT ![q] = l]
        PROVE  pc' \in [Pids -> Locations] /\ \A r \in pids : pc'[r] = "wait" <=> pc[r] = "wait"
    BY <1>1, <2>1 DEF LaunchTyped
  <2>2. {"user", "launched", "halting", "halt_ready"} \subseteq Locations \ {"wait"}
    BY DEF Locations
  <2>3. CASE CountShell(p) \/ EnterUser(p) \/ Exit(p) \/ Exception(p) \/ HaltSeesScreen(p)
    BY <2>1, <2>2, <2>3 DEF CountShell, EnterUser, Exit, Exception, HaltSeesScreen, Runs
  <2>4. CASE CtrlC
    <3>1. cur_pcb \in Pids /\ pc[cur_pcb] # "wait"
      BY <1>1, <2>4 DEF CtrlC, InterruptTaken, LaunchTyped, IInv, CpuMatches, ActiveOk
    <3> QED BY <2>1, <2>2, <2>4, <3>1 DEF CtrlC
  <2>5. CASE ExecuteFails(p) \/ Vidmap(p) \/ \E n \in Terminals : AltFnShow(n)
    BY <1>1, <2>5 DEF ExecuteFails, Vidmap, AltFnShow, LaunchTyped
  <2> QED BY <2>3, <2>4, <2>5
<1>4. CpuMatches' /\ FreshFrames' /\ ActiveOk' /\ Forest' /\ BootOk'
  BY <1>1, <1>2, <1>3, InertStructure DEF IInv
<1>5. user_page' \in Pids \cup {None} /\ UserPageIsolated'
  BY <1>1 DEF CountShell, EnterUser, ExecuteFails, Vidmap, Exit, Exception, HaltSeesScreen, CtrlC,
         AltFnShow, cpu, tables, UserPageIsolated, IsAvailable, LaunchTyped, IInv
<1>6. ret' \in Returned
  <2>1. CASE ExecuteFails(p) BY <2>1 DEF ExecuteFails, Returns, Returned
  <2>2. CASE ~ExecuteFails(p)
    BY <2>2, NoReturnType DEF CountShell, EnterUser, Vidmap, Exit, Exception, HaltSeesScreen,
       CtrlC, AltFnShow
  <2> QED BY <2>1, <2>2
<1>7. /\ cur_terminal' \in Terminals
      /\ video_mem' \in Terminals \cup {Screen} /\ vidmap_page' \in Terminals \cup {Screen, None}
  BY <1>1 DEF CountShell, EnterUser, ExecuteFails, Vidmap, Exit, Exception, HaltSeesScreen, CtrlC,
         AltFnShow, ShowTerminal, video, LaunchTyped
<1>8. /\ boot_num_shells' \in Int /\ num_process' = num_process
      /\ kstack' \in [Pids -> Launches] /\ lost' = lost /\ crashed' = crashed
  BY <1>1 DEF CountShell, EnterUser, ExecuteFails, Vidmap, Exit, Exception, HaltSeesScreen, CtrlC,
         AltFnShow, tables, stacks, LaunchTyped
<1>9. LaunchTyped' BY <1>1, <1>2, <1>3, <1>5, <1>7, <1>8 DEF LaunchTyped, Inert
<1>10. /\ exception_raised' \in {0, 1}
       /\ halt_call' \in [Pids -> [cause : Causes, arg : ExitStatus \cup {0, 256}]]
  <2>1. cur_pcb \in Pids \/ ~CtrlC BY <1>1 DEF CtrlC, InterruptTaken, LaunchTyped
  <2> QED BY <1>1, <2>1 DEF CountShell, EnterUser, ExecuteFails, Vidmap, Exit, Exception,
         HaltSeesScreen, CtrlC, AltFnShow, exits, TypeOK, Causes
<1>11. raced' \in BOOLEAN
  BY <1>1 DEF CountShell, EnterUser, ExecuteFails, Vidmap, Exit, Exception, HaltSeesScreen, CtrlC,
         AltFnShow, InterruptTaken, TypeOK
<1>12. TypeOK' BY <1>1, <1>2, <1>6, <1>9, <1>10, <1>11 DEF TypeOK, Inert, Returned
<1> QED BY <1>4, <1>5, <1>12 DEF IInv

LEMMA ExecuteChildStep == ASSUME IInv, NEW p \in Pids, NEW c \in Pids, ExecuteChild(p, c) PROVE IInv'
<1> USE HelperTypes
<1> DEFINE r == cur_terminal_running
<1>1. TypeOK /\ LaunchTyped BY DEF IInv, TypeOK
<1>2. /\ p = active_pid[r] /\ p \in pids /\ c \notin pids /\ pc[p] = "user"
      /\ r \in Terminals /\ p # None
  BY <1>1 DEF IInv, CpuMatches, ActiveOk, ExecuteChild, Runs, IsAvailable, LaunchTyped
<1>3. TypeOK'
  <2>1. "wait" \in Locations /\ "user" \in Locations BY DEF Locations
  <2>2. Overwritten(Own(c), saved) \subseteq Pids BY <1>1 DEF Overwritten, LaunchTyped
  <2>3. crashed' \in BOOLEAN BY <1>1 DEF ExecuteChild, Enters, LaunchTyped
  <2>4. LaunchTyped'
    BY <1>1, <2>1, <2>2, <2>3 DEF ExecuteChild, Enters, RunProcess, video, LaunchTyped
  <2>5. ret' \in Returned BY NoReturnType DEF ExecuteChild
  <2> QED BY <1>1, <2>4, <2>5 DEF ExecuteChild, Enters, exits, TypeOK, Returned
<1>4. \A t \in Terminals : active_pid'[t] = IF t = r THEN c ELSE active_pid[t]
  BY <1>1 DEF ExecuteChild, Enters, LaunchTyped
<1>5. \A q \in Pids : pc'[q] = IF q = c THEN "user" ELSE IF q = p THEN "wait" ELSE pc[q]
  BY <1>1 DEF ExecuteChild, Enters, LaunchTyped
<1>6. \A q \in Pids : parent_pid'[q] = IF q = c THEN p ELSE parent_pid[q]
  BY <1>1 DEF ExecuteChild, Enters, LaunchTyped
<1>7. /\ cur_pcb = p /\ cur_pcb' = c /\ tss_esp0' = c /\ user_page' = c /\ pids' = pids \cup {c}
      /\ UNCHANGED <<terminals, cur_terminal_running, saved>>
  BY DEF ExecuteChild, Enters, RunProcess, Runs
<1>8. pids \subseteq Pids /\ terminals \subseteq Terminals BY <1>1 DEF LaunchTyped, TypeOK
<1>9. CpuMatches' /\ UserPageIsolated' /\ BootOk'
  BY <1>2, <1>4, <1>7 DEF CpuMatches, UserPageIsolated, BootOk
<1>10. FreshFrames'
  BY <1>2, <1>4, <1>7, <1>8 DEF FreshFrames, IInv, ActiveOk
<1>11. ActiveOk'
  <2>1. \A t \in Terminals : num_process'[t] = IF t = r THEN num_process[t] + 1 ELSE num_process[t]
    BY <1>1 DEF ExecuteChild, Enters, LaunchTyped
  <2>2. \A t \in Terminals : active_pid'[t] # None => num_process'[t] >= 1
    BY <1>1, <1>2, <1>4, <2>1 DEF ActiveOk, IInv, LaunchTyped
  <2> QED BY <1>2, <1>4, <1>5, <1>7, <1>8, <2>2 DEF ActiveOk, IInv
<1>12. Forest'
  BY <1>2, <1>5, <1>6, <1>7, <1>8 DEF Forest, IInv
<1> QED BY <1>3, <1>9, <1>10, <1>11, <1>12 DEF IInv

LEMMA HaltToParentStep == ASSUME IInv, NEW p \in Pids, HaltToParent(p) PROVE IInv'
<1> USE HelperTypes
<1> DEFINE r == cur_terminal_running
           q == parent_pid[p]
<1>1. TypeOK /\ LaunchTyped BY DEF IInv, TypeOK
<1>2. /\ p = active_pid[r] /\ p \in pids /\ pc[p] = "halt_ready" /\ r \in Terminals /\ p # None
  BY <1>1 DEF IInv, CpuMatches, ActiveOk, HaltToParent, Runs, LaunchTyped
<1>3. q \in pids /\ q \in Pids /\ pc[q] = "wait" /\ q # p
  BY <1>1, <1>2 DEF IInv, Forest, HaltToParent, LaunchTyped
<1>counted. num_process[r] \in Nat /\ num_process[r] >= 2
  BY <1>1, <1>2 DEF IInv, ActiveOk, HaltToParent, LaunchTyped
<1>4. TypeOK'
  <2>1. "free" \in Locations /\ "user" \in Locations BY DEF Locations
  <2>2. Overwritten(kstack[q], saved) \subseteq Pids BY <1>1 DEF Overwritten, LaunchTyped
  <2>3. crashed' \in BOOLEAN BY <1>1 DEF HaltToParent, LaunchTyped
  <2>4. LaunchTyped'
    <3>1. num_process' \in [Terminals -> Nat]
      BY <1>1, <1>2, <1>counted DEF HaltToParent, LaunchTyped
    <3> QED BY <1>1, <1>3, <2>1, <2>2, <2>3, <3>1 DEF HaltToParent, RunProcess, video, LaunchTyped
  <2>5. ret' \in Returned
    <3>1. halt_call[p].arg \in ExitStatus \cup {0, 256} BY <1>1 DEF TypeOK
    <3>2. ReturnValue(halt_call[p].arg) \in {-1, 0, 2, 256} \cup ExitStatus
      BY <3>1, ReturnType
    <3>3. ret' = [pid |-> q, val |-> ReturnValue(halt_call[p].arg)]
      BY DEF HaltToParent, Returns
    <3> QED BY <1>3, <3>2, <3>3 DEF Returned
  <2>6. NoCall \in [cause : Causes, arg : ExitStatus \cup {0, 256}] BY DEF NoCall, Causes
  <2>7. halt_call' \in [Pids -> [cause : Causes, arg : ExitStatus \cup {0, 256}]]
    BY <1>1, <2>6 DEF HaltToParent, TypeOK
  <2>8. raced' \in BOOLEAN BY <1>1 DEF HaltToParent, TypeOK
  <2> QED BY <1>1, <2>4, <2>5, <2>7, <2>8 DEF HaltToParent, TypeOK, Returned
<1>5. \A t \in Terminals : active_pid'[t] = IF t = r THEN q ELSE active_pid[t]
  BY <1>1 DEF HaltToParent, LaunchTyped
<1>6. \A s \in Pids : pc'[s] = IF s = q THEN "user" ELSE IF s = p THEN "free" ELSE pc[s]
  BY <1>1 DEF HaltToParent, LaunchTyped
<1>7. \A s \in Pids : parent_pid'[s] = IF s = p THEN None ELSE parent_pid[s]
  BY <1>1 DEF HaltToParent, LaunchTyped
<1>8. /\ cur_pcb = p /\ cur_pcb' = q /\ tss_esp0' = q /\ user_page' = q /\ pids' = pids \ {p}
      /\ UNCHANGED <<terminals, cur_terminal_running, saved>>
  BY DEF HaltToParent, RunProcess, Runs
<1>9. pids \subseteq Pids /\ terminals \subseteq Terminals BY <1>1 DEF LaunchTyped, TypeOK
<1>10. CpuMatches' /\ UserPageIsolated' /\ BootOk'
  BY <1>2, <1>3, <1>5, <1>8 DEF CpuMatches, UserPageIsolated, BootOk
<1>11. FreshFrames'
  BY <1>2, <1>3, <1>5, <1>8, <1>9 DEF FreshFrames, IInv, ActiveOk
<1>12. ActiveOk'
  <2>1. \A t \in Terminals : num_process'[t] = IF t = r THEN num_process[t] - 1 ELSE num_process[t]
    BY <1>1 DEF HaltToParent, LaunchTyped
  <2>2. \A t \in Terminals : active_pid'[t] # None => num_process'[t] >= 1
    BY <1>1, <1>2, <1>5, <1>counted, <2>1 DEF ActiveOk, IInv, LaunchTyped
  <2> QED BY <1>2, <1>3, <1>5, <1>6, <1>8, <1>9, <2>2 DEF ActiveOk, IInv
<1>13. Forest'
  <2>1. \A s \in pids : s # p => parent_pid[s] # q
    BY <1>2, <1>3 DEF Forest, IInv
  <2>2. \A s \in pids : parent_pid[s] # p
    BY <1>2 DEF Forest, IInv
  <2> QED BY <1>2, <1>3, <1>6, <1>7, <1>8, <1>9, <2>1, <2>2 DEF Forest, IInv
<1> QED BY <1>4, <1>10, <1>11, <1>12, <1>13 DEF IInv

LEMMA HaltBaseShellStep == ASSUME IInv, NEW p \in Pids, HaltBaseShell(p) PROVE IInv'
<1> USE HelperTypes
<1> DEFINE r == cur_terminal_running
<1>1. TypeOK /\ LaunchTyped BY DEF IInv, TypeOK
<1>2. /\ p = active_pid[r] /\ p \in pids /\ pc[p] = "halt_ready" /\ r \in Terminals /\ p # None
      /\ cur_pcb = p
  BY <1>1 DEF IInv, CpuMatches, ActiveOk, HaltBaseShell, Runs, LaunchTyped
<1>3. PICK q \in Pids : LaunchShell(q, r, pids \ {p}, boot_num_shells - 1, kstack[p],
                                   [pc EXCEPT ![p] = "free"], saved)
  BY DEF HaltBaseShell
<1>4. /\ pids \ {p} \in SUBSET Pids /\ boot_num_shells - 1 \in Int /\ kstack[p] \in Launches
      /\ [pc EXCEPT ![p] = "free"] \in [Pids -> Locations] /\ saved \in SUBSET Pids
  BY <1>1 DEF LaunchTyped, Locations
<1>5. LaunchTyped' BY <1>1, <1>2, <1>3, <1>4, LaunchTypes
<1>6. TypeOK'
  <2>1. NoCall \in [cause : Causes, arg : ExitStatus \cup {0, 256}] BY DEF NoCall, Causes
  <2>2. halt_call' \in [Pids -> [cause : Causes, arg : ExitStatus \cup {0, 256}]]
    BY <1>1, <2>1 DEF HaltBaseShell, TypeOK
  <2>3. raced' \in BOOLEAN BY <1>1 DEF HaltBaseShell, TypeOK
  <2>4. ret' \in Returned BY NoReturnType DEF HaltBaseShell
  <2> QED BY <1>1, <1>5, <2>2, <2>3, <2>4 DEF HaltBaseShell, TypeOK, Returned
<1>7. terminals' = terminals BY DEF HaltBaseShell
<1>8. \A u \in Terminals \ {r} : active_pid[u] # None => active_pid[u] \in pids \ {p}
  BY <1>2 DEF IInv, ActiveOk
<1>9. \A u \in terminals \ {r} : active_pid[u] # None /\ active_pid[u] \in saved
  BY <1>1, <1>2 DEF IInv, ActiveOk, FreshFrames, TypeOK
<1>10. \A s \in pids \ {p} : parent_pid[s] # None => parent_pid[s] \in pids \ {p}
  BY <1>2 DEF IInv, Forest
<1>11. \A s \in pids \ {p} : [pc EXCEPT ![p] = "free"][s] = pc[s]
  BY <1>1 DEF LaunchTyped
<1>12. TypeOK /\ ActiveOk /\ Forest BY DEF IInv
<1>13. pids \ {p} \in SUBSET pids OBVIOUS
<1>14. CpuMatches' /\ UserPageIsolated' /\ FreshFrames' /\ ActiveOk' /\ Forest' /\ BootOk'
  <2>1. PICK used \in SUBSET pids, pcs \in [Pids -> Locations] :
           used = pids \ {p} /\ pcs = [pc EXCEPT ![p] = "free"]
    BY <1>4, <1>13
  <2>2. LaunchShell(q, r, used, boot_num_shells - 1, kstack[p], pcs, saved)
    BY <1>3, <2>1
  <2>3. /\ terminals' \subseteq terminals \cup {r}
        /\ \A u \in Terminals \ {r} : active_pid[u] # None => active_pid[u] \in used
        /\ \A s \in used : parent_pid[s] # None => parent_pid[s] \in used
        /\ \A s \in used : pcs[s] = pc[s]
    BY <1>7, <1>8, <1>10, <1>11, <2>1
  <2> QED BY <1>2, <1>9, <1>12, <2>2, <2>3, LaunchStructure
<1> QED BY <1>6, <1>14 DEF IInv

LEMMA AltFnLaunchStep == ASSUME IInv, NEW n \in Terminals, AltFnLaunch(n) PROVE IInv'
<1> USE HelperTypes
<1>1. TypeOK /\ LaunchTyped BY DEF IInv, TypeOK
<1>2. cur_pcb \in Pids BY <1>1 DEF AltFnLaunch, InterruptTaken, LaunchTyped
<1>3. PICK p \in Pids : LaunchShell(p, n, pids, boot_num_shells, Above(kstack[cur_pcb]),
                                   pc, saved \cup {cur_pcb})
  BY DEF AltFnLaunch
<1>4. /\ pids \in SUBSET Pids /\ boot_num_shells \in Int /\ Above(kstack[cur_pcb]) \in Launches
      /\ pc \in [Pids -> Locations] /\ saved \cup {cur_pcb} \in SUBSET Pids
  BY <1>1, <1>2 DEF LaunchTyped
<1>5. LaunchTyped' BY <1>1, <1>3, <1>4, LaunchTypes
<1>6. TypeOK'
  <2>1. raced' \in BOOLEAN BY <1>1 DEF AltFnLaunch, InterruptTaken, TypeOK
  <2>2. ret' \in Returned BY NoReturnType DEF AltFnLaunch
  <2> QED BY <1>1, <1>5, <2>1, <2>2 DEF AltFnLaunch, exits, TypeOK, Returned
<1>7. terminals' = terminals \cup {n} /\ cur_pcb # None
  BY DEF AltFnLaunch, InterruptTaken
<1>8. \A u \in Terminals : active_pid[u] # None => active_pid[u] \in pids
  BY DEF IInv, ActiveOk
<1>9. \A u \in terminals : active_pid[u] # None /\ active_pid[u] \in saved \cup {cur_pcb}
  BY <1>7 DEF IInv, ActiveOk, FreshFrames
<1>10. \A s \in pids : parent_pid[s] # None => parent_pid[s] \in pids
  BY DEF IInv, Forest
<1>11. CpuMatches' /\ UserPageIsolated' /\ FreshFrames' /\ ActiveOk' /\ Forest' /\ BootOk'
  BY <1>1, <1>3, <1>4, <1>7, <1>8, <1>9, <1>10, LaunchStructure DEF IInv
<1> QED BY <1>6, <1>11 DEF IInv

LEMMA SwitchTasksStep == ASSUME IInv, SwitchTasks PROVE IInv'
<1> USE HelperTypes
<1>1. TypeOK /\ LaunchTyped BY DEF IInv, TypeOK
<1> DEFINE P(t) == active_pid[t]
<1>2. PICK t \in Terminals :
        /\ t \in terminals /\ cur_terminal_running' = t /\ RunProcess(P(t))
        /\ video_mem' = VideoOf(t, cur_terminal) /\ vidmap_page' = VideoOf(t, cur_terminal)
        /\ saved' = (saved \cup {cur_pcb}) \ {P(t)}
        /\ lost' = (lost \ {P(t)}) \cup Overwritten(kstack[P(t)], saved')
        /\ crashed' \in BOOLEAN
  BY DEF SwitchTasks, IsNextActive
<1>3. cur_pcb \in Pids /\ P(t) # None /\ P(t) \in Pids /\ P(t) \in pids
  BY <1>1, <1>2 DEF SwitchTasks, InterruptTaken, IInv, ActiveOk, LaunchTyped
<1>4. UNCHANGED <<tables, cur_terminal, kstack, exits, pc>> /\ NoReturn
  BY DEF SwitchTasks
<1>5. LaunchTyped'
  <2>1. saved' \subseteq Pids /\ lost' \subseteq Pids
    BY <1>1, <1>2, <1>3 DEF Overwritten, LaunchTyped
  <2> QED BY <1>1, <1>2, <1>3, <1>4, <2>1 DEF LaunchTyped, RunProcess, tables
<1>6. TypeOK'
  <2>1. raced' \in BOOLEAN BY <1>1 DEF SwitchTasks, InterruptTaken, TypeOK
  <2> QED BY <1>1, <1>4, <1>5, <2>1, NoReturnType DEF tables, exits, TypeOK, Returned
<1>7. CpuMatches' /\ UserPageIsolated' /\ BootOk'
  BY <1>2, <1>3, <1>4 DEF CpuMatches, UserPageIsolated, BootOk, RunProcess, tables
<1>8. FreshFrames'
  BY <1>1, <1>2, <1>3, <1>4 DEF FreshFrames, RunProcess, tables, IInv, ActiveOk, TypeOK
<1>9. ActiveOk' /\ Forest'
  BY <1>2, <1>3, <1>4 DEF ActiveOk, Forest, IInv, tables, RunProcess, SwitchTasks, InterruptTaken
<1> QED BY <1>6, <1>7, <1>8, <1>9 DEF IInv

-----------------------------------------------------------------------------
LEMMA NextIInv == IInv /\ [Next]_vars => IInv'
<1> SUFFICES ASSUME IInv, [Next]_vars PROVE IInv'
  OBVIOUS
<1>1. CASE Boot BY <1>1, BootStep
<1>2. CASE SwitchTasks BY <1>2, SwitchTasksStep
<1>3. CASE Keyboard
  <2>1. 0 \in Pids BY HelperTypes
  <2> QED BY <1>3, <2>1, InertSteps, AltFnLaunchStep DEF Keyboard
<1>4. CASE \E p \in Pids : UserStep(p) \/ KernelStep(p)
  BY <1>4, InertSteps, ExecuteChildStep, HaltBaseShellStep, HaltToParentStep
  DEF UserStep, KernelStep
<1>5. CASE UNCHANGED vars
  BY <1>5 DEF IInv, TypeOK, LaunchTyped, CpuMatches, UserPageIsolated, FreshFrames, ActiveOk, Forest,
     BootOk, vars, tables, cpu, video, stacks, exits
<1> QED BY <1>1, <1>2, <1>3, <1>4, <1>5 DEF Next

\* The inductive invariant, for any number of pids and terminals.
THEOREM Invariance == Spec => []IInv
BY InitIInv, NextIInv, PTL DEF Spec

\* Every variable keeps its type, for any number of pids and terminals.
THEOREM TypeCorrect == Spec => []TypeOK
<1>1. IInv => TypeOK BY DEF IInv
<1> QED BY <1>1, Invariance, PTL

\* Whatever interrupts execute() or halt(), the PCB in use, the kernel stack for
\* traps and the running terminal's active process are the same process.
THEOREM CpuConsistent == Spec => []CpuMatches
<1>1. IInv => CpuMatches BY DEF IInv
<1> QED BY <1>1, Invariance, PTL

\* No process ever runs with the memory of another live process mapped.
THEOREM UserPagesIsolated == Spec => []UserPageIsolated
<1>1. IInv => UserPageIsolated BY DEF IInv
<1> QED BY <1>1, Invariance, PTL

\* switch_tasks() never resumes a process in a frame of an earlier suspension.
THEOREM FramesFresh == Spec => []FreshFrames
<1>1. IInv => FreshFrames BY DEF IInv
<1> QED BY <1>1, Invariance, PTL

-----------------------------------------------------------------------------
(* Where output goes: inductive by itself, given the range of terminals. *)

OutputOk == OutputFollowsScreen /\ VidmapNotForeign

\* Redirecting output to where VideoOf says is what is wanted.
LEMMA OutputRedirected ==
  ASSUME cur_terminal_running' \in Terminals,
         video_mem' = VideoOf(cur_terminal_running', cur_terminal'),
         vidmap_page' = VideoOf(cur_terminal_running', cur_terminal')
  PROVE  OutputOk'
BY DEF OutputOk, OutputFollowsScreen, VidmapNotForeign, VideoOf

\* A launch redirects output for the terminal it gives the CPU to.
LEMMA OutputLaunched ==
  ASSUME NEW p, NEW t \in Terminals, NEW used, NEW shells, NEW f, NEW pcs, NEW suspended,
         LaunchShell(p, t, used, shells, f, pcs, suspended)
  PROVE  OutputOk'
BY OutputRedirected DEF LaunchShell, ShowTerminal

LEMMA OutputStep == TypeOK /\ OutputOk /\ [Next]_vars => OutputOk'
<1> SUFFICES ASSUME TypeOK, OutputOk, [Next]_vars PROVE OutputOk'
  OBVIOUS
<1> DEFINE Steady == UNCHANGED <<cur_terminal, cur_terminal_running, video_mem>>
                       /\ vidmap_page' \in {vidmap_page, Screen}
                       /\ cur_pcb # None
<1>1. ASSUME Steady PROVE OutputOk'
  BY <1>1 DEF OutputOk, OutputFollowsScreen, VidmapNotForeign
<1>2. CASE Boot
  BY <1>2, OutputLaunched, HelperTypes DEF Boot
<1>3. CASE SwitchTasks
  BY <1>3, OutputRedirected DEF SwitchTasks
<1>4. CASE Keyboard
  <2>1. CASE CtrlC
    BY <2>1, <1>1 DEF CtrlC, InterruptTaken, cpu, video
  <2>2. ASSUME NEW n \in Terminals, AltFnShow(n) PROVE OutputOk'
    BY <2>2, OutputRedirected DEF AltFnShow, ShowTerminal, cpu, TypeOK, LaunchTyped
  <2>3. ASSUME NEW n \in Terminals, AltFnLaunch(n) PROVE OutputOk'
    BY <2>3, OutputLaunched DEF AltFnLaunch
  <2> QED BY <1>4, <2>1, <2>2, <2>3 DEF Keyboard
<1>5. ASSUME NEW p \in Pids, UserStep(p) PROVE OutputOk'
  <2>1. p # None BY HelperTypes
  <2> QED BY <1>5, <2>1, <1>1 DEF UserStep, ExecuteChild, ExecuteFails, Vidmap, Exit, Exception,
               Runs, cpu, video
<1>6. ASSUME NEW p \in Pids, KernelStep(p) PROVE OutputOk'
  <2>1. CASE HaltBaseShell(p)
    BY <2>1, OutputLaunched DEF HaltBaseShell, TypeOK, LaunchTyped
  <2>2. p # None BY HelperTypes
  <2>3. CASE CountShell(p) \/ EnterUser(p) \/ HaltSeesScreen(p) \/ HaltToParent(p)
    BY <2>3, <2>2, <1>1 DEF CountShell, EnterUser, HaltSeesScreen, HaltToParent, Runs, cpu, video
  <2> QED BY <1>6, <2>1, <2>3 DEF KernelStep
<1>7. CASE UNCHANGED vars
  BY <1>7 DEF vars, cpu, video, OutputOk, OutputFollowsScreen, VidmapNotForeign
<1> QED BY <1>2, <1>3, <1>4, <1>5, <1>6, <1>7 DEF Next

\* Kernel output goes to the screen exactly when the running terminal is shown.
THEOREM OutputConsistent == Spec => []OutputFollowsScreen
<1>1. Init => OutputOk
  BY DEF Init, OutputOk, OutputFollowsScreen, VidmapNotForeign
<1>2. OutputOk => OutputFollowsScreen BY DEF OutputOk
<1> QED BY <1>1, <1>2, OutputStep, TypeCorrect, PTL DEF Spec

\* No process can write the off-screen page of another terminal through vidmap.
THEOREM VidmapIsolated == Spec => []VidmapNotForeign
<1>1. Init => OutputOk
  BY DEF Init, OutputOk, OutputFollowsScreen, VidmapNotForeign
<1>2. OutputOk => VidmapNotForeign BY DEF OutputOk
<1> QED BY <1>1, <1>2, OutputStep, TypeCorrect, PTL DEF Spec

-----------------------------------------------------------------------------
(* Kernel stacks, as long as no launch is interrupted: a process that has left
   execute() is on its own stack, one that has not is the running one, and the
   suspended processes are live, do not wait for a child and are not running. *)

StacksOk == ~raced =>
  /\ lost = {} /\ ~crashed
  /\ \A p \in pids : IF InWindow(p) THEN p = cur_pcb ELSE kstack[p] = Own(p)
  /\ \A p \in saved : p \in pids /\ pc[p] # "wait" /\ p # cur_pcb

\* The terminals whose shell has left execute().
Counted == {t \in terminals : active_pid[t] # None /\ pc[active_pid[t]] # "launch"}
CountOk ==
  /\ cur_pcb # None => cur_terminal_running \in terminals
  /\ ~raced => boot_num_shells = Cardinality(Counted)

\* A frame at the bottom of a stack nobody else is suspended on, or above one
\* that is, overwrites nothing.
LEMMA NothingOverwritten ==
  ASSUME NEW f \in Launches, NEW suspended, \A s \in suspended : kstack[s] = Own(s),
         f.on \notin suspended \/ f.depth > 0
  PROVE  Overwritten(f, suspended) = {}
<1>1. ASSUME NEW s \in suspended
      PROVE  kstack[s].on = s /\ kstack[s].depth = 0
  <2>1. kstack[s] = [on |-> s, depth |-> 0]
    BY DEF Own
  <2> QED BY <2>1
<1>2. \A s \in suspended : ~(kstack[s].on = f.on /\ kstack[s].depth >= f.depth)
  BY <1>1 DEF Launches
<1> QED BY <1>2 DEF Overwritten

\* A launch on such a frame keeps the stacks in order.
LEMMA LaunchStacks ==
  ASSUME TypeOK, lost = {}, ~crashed,
         NEW p \in Pids, NEW t \in Terminals, NEW used \in SUBSET pids,
         NEW shells, NEW f \in Launches, NEW pcs \in [Pids -> Locations],
         NEW suspended \in SUBSET used,
         LaunchShell(p, t, used, shells, f, pcs, suspended),
         \A s \in used : pcs[s] = pc[s] /\ ~InWindow(s) /\ kstack[s] = Own(s),
         \A s \in suspended : pc[s] # "wait",
         f.on \notin suspended \/ f.depth > 0
  PROVE  StacksOk'
<1>1. p \notin used /\ pids' = used \cup {p} /\ cur_pcb' = p /\ saved' = suspended
  BY DEF LaunchShell, IsAvailable, RunProcess
<1>2. lost' = {} /\ ~crashed'
  BY NothingOverwritten DEF LaunchShell
<1>3. used \subseteq Pids
  BY DEF TypeOK, LaunchTyped
<1>4. \A s \in used : pc'[s] = pc[s] /\ kstack'[s] = Own(s)
  BY <1>1, <1>3 DEF LaunchShell, TypeOK, LaunchTyped
<1>5. pc'[p] = "launch"
  BY DEF LaunchShell
<1> QED BY <1>1, <1>2, <1>3, <1>4, <1>5 DEF StacksOk, InWindow

\* Steps that suspend and create nobody, and move the running process only.
LEMMA InertStacks ==
  ASSUME TypeOK, StacksOk, ~raced, cur_pcb \in Pids,
         \A q \in Pids \ {cur_pcb} : pc'[q] = pc[q] /\ kstack'[q] = kstack[q],
         pc'[cur_pcb] \in {"launch", "launched"} \/ kstack'[cur_pcb] = Own(cur_pcb),
         UNCHANGED <<pids, cur_pcb, saved, lost, crashed>>
  PROVE  StacksOk'
<1>1. pids \subseteq Pids /\ saved \subseteq Pids
  BY DEF TypeOK, LaunchTyped
<1>2. \A q \in saved' : q \in pids' /\ pc'[q] # "wait" /\ q # cur_pcb'
  BY <1>1 DEF StacksOk
<1>3. \A q \in pids' : IF InWindow(q)' THEN q = cur_pcb' ELSE kstack'[q] = Own(q)
  BY <1>1 DEF StacksOk, InWindow
<1> QED BY <1>2, <1>3 DEF StacksOk

\* What was interrupted stays so.
LEMMA RacedStays == [Next]_vars /\ raced => raced'
<1> SUFFICES ASSUME [Next]_vars, raced PROVE raced'
  OBVIOUS
<1>1. CASE Boot \/ SwitchTasks \/ Keyboard
  BY <1>1 DEF Boot, SwitchTasks, Keyboard, CtrlC, AltFnShow, AltFnLaunch, InterruptTaken
<1>2. ASSUME NEW p \in Pids, UserStep(p) \/ KernelStep(p)
      PROVE  raced'
  BY <1>2 DEF UserStep, KernelStep, ExecuteChild, ExecuteFails, Vidmap, Exit, Exception,
     CountShell, EnterUser, HaltSeesScreen, HaltBaseShell, HaltToParent
<1>3. CASE UNCHANGED vars
  BY <1>3 DEF vars
<1> QED BY <1>1, <1>2, <1>3 DEF Next

LEMMA StacksStep == IInv /\ StacksOk /\ [Next]_vars => StacksOk'
<1> SUFFICES ASSUME IInv, StacksOk, [Next]_vars, ~raced, ~raced' PROVE StacksOk'
  BY RacedStays DEF StacksOk
<1> USE HelperTypes
<1> DEFINE r == cur_terminal_running
<1>1. TypeOK /\ LaunchTyped /\ pids \subseteq Pids /\ saved \subseteq pids
  BY DEF IInv, TypeOK, LaunchTyped, StacksOk
<1>2. /\ lost = {} /\ ~crashed
      /\ \A q \in pids : IF InWindow(q) THEN q = cur_pcb ELSE kstack[q] = Own(q)
      /\ \A q \in saved : q \in pids /\ pc[q] # "wait" /\ q # cur_pcb
  BY DEF StacksOk
<1>3. cur_pcb # None => cur_pcb = active_pid[r] /\ cur_pcb \in pids /\ pc[cur_pcb] # "wait"
  BY <1>1 DEF IInv, CpuMatches, ActiveOk, LaunchTyped
<1>4. \A s \in saved : kstack[s] = Own(s) /\ ~InWindow(s)
  BY <1>2
<1>5. CASE Boot
  <2>1. PICK p \in Pids : LaunchShell(p, 1, {}, 0, Own(0), pc, {})
    BY <1>5 DEF Boot
  <2>2. pc \in [Pids -> Locations]
    BY <1>1 DEF LaunchTyped
  <2> QED BY <1>1, <1>2, <2>1, <2>2, LaunchStacks
<1>6. CASE SwitchTasks
  <2> DEFINE P(t) == active_pid[t]
  <2>1. PICK t \in Terminals :
          /\ t \in terminals /\ RunProcess(P(t))
          /\ saved' = (saved \cup {cur_pcb}) \ {P(t)}
          /\ lost' = (lost \ {P(t)}) \cup Overwritten(kstack[P(t)], saved')
          /\ crashed' \in IF P(t) \in lost \/ P(t) \notin saved \cup {cur_pcb}
                          THEN BOOLEAN ELSE {FALSE}
    BY <1>6 DEF SwitchTasks, IsNextActive
  <2>2. cur_pcb # None /\ ~InWindow(cur_pcb) /\ UNCHANGED <<tables, kstack, pc>>
    BY <1>6 DEF SwitchTasks, InterruptTaken
  <2>3. P(t) \in pids /\ P(t) # None /\ P(t) \in saved \cup {cur_pcb}
    BY <1>1, <2>1, <2>2 DEF IInv, ActiveOk, FreshFrames
  <2>4. \A q \in pids : ~InWindow(q) /\ kstack[q] = Own(q)
    BY <1>2, <2>2
  <2>5. \A q \in saved' : q \in pids /\ pc[q] # "wait" /\ q # P(t)
    BY <1>2, <1>3, <2>1, <2>2
  <2>6. Overwritten(kstack[P(t)], saved') = {}
    <3>1. kstack[P(t)] = Own(P(t)) /\ Own(P(t)) \in Launches
      BY <1>1, <2>3, <2>4
    <3> QED BY <2>4, <2>5, <3>1, NothingOverwritten DEF Own
  <2>7. lost' = {} /\ ~crashed'
    BY <1>2, <2>1, <2>3, <2>6
  <2>8. cur_pcb' = P(t) /\ pids' = pids /\ pc' = pc /\ kstack' = kstack
    BY <2>1, <2>2 DEF RunProcess, tables
  <2> QED BY <2>4, <2>5, <2>7, <2>8 DEF StacksOk, InWindow
<1>7. CASE CtrlC
  <2>1. cur_pcb \in Pids /\ ~InWindow(cur_pcb) /\ pc' = [pc EXCEPT ![cur_pcb] = "halting"]
        /\ UNCHANGED <<pids, cur_pcb, kstack, saved, lost, crashed>>
    BY <1>1, <1>3, <1>7 DEF CtrlC, InterruptTaken, tables, cpu, stacks
  <2> QED BY <1>1, <1>2, <1>3, <2>1, InertStacks DEF LaunchTyped
<1>8. ASSUME NEW n \in Terminals, AltFnShow(n)
      PROVE  StacksOk'
  BY <1>8 DEF AltFnShow, tables, cpu, stacks, StacksOk, InWindow
<1>9. ASSUME NEW n \in Terminals, AltFnLaunch(n)
      PROVE  StacksOk'
  <2>1. PICK p \in Pids : LaunchShell(p, n, pids, boot_num_shells, Above(kstack[cur_pcb]),
                                     pc, saved \cup {cur_pcb})
    BY <1>9 DEF AltFnLaunch
  <2>2. cur_pcb # None /\ ~InWindow(cur_pcb)
    BY <1>9 DEF AltFnLaunch, InterruptTaken
  <2>3. cur_pcb \in pids /\ pc[cur_pcb] # "wait" /\ kstack[cur_pcb] = Own(cur_pcb)
    BY <1>2, <1>3, <2>2
  <2>4. /\ saved \cup {cur_pcb} \in SUBSET pids
        /\ \A s \in saved \cup {cur_pcb} : pc[s] # "wait"
    BY <1>1, <1>2, <2>3
  <2>5. \A s \in pids : pc[s] = pc[s] /\ ~InWindow(s) /\ kstack[s] = Own(s)
    BY <1>2, <2>2
  <2>6. Above(kstack[cur_pcb]) \in Launches /\ Above(kstack[cur_pcb]).depth > 0
    BY <1>1, <2>3 DEF Above, Own, Launches
  <2>7. pc \in [Pids -> Locations] /\ pids \in SUBSET pids
    BY <1>1 DEF LaunchTyped
  <2> QED BY <1>1, <1>2, <2>1, <2>4, <2>5, <2>6, <2>7, LaunchStacks
<1>10. ASSUME NEW p \in Pids, NEW c \in Pids, ExecuteChild(p, c)
       PROVE  StacksOk'
  <2>1. cur_pcb = p /\ p \in pids /\ pc[p] = "user" /\ c \notin pids /\ c \notin saved /\ p # c
    BY <1>1, <1>3, <1>10 DEF ExecuteChild, Runs, IsAvailable
  <2>2. /\ \A q \in Pids : pc'[q] = IF q = c THEN "user" ELSE IF q = p THEN "wait" ELSE pc[q]
        /\ \A q \in Pids : kstack'[q] = IF q = c THEN Own(c) ELSE kstack[q]
    BY <1>1, <1>10 DEF ExecuteChild, LaunchTyped
  <2>3. Overwritten(Own(c), saved) = {}
    BY <1>4, <2>1, NothingOverwritten DEF Own
  <2>4. lost' = {} /\ ~crashed' /\ saved' = saved /\ pids' = pids \cup {c} /\ cur_pcb' = c
    BY <1>2, <1>10, <2>3 DEF ExecuteChild, RunProcess
  <2>5. \A q \in pids : q # p => ~InWindow(q) /\ kstack[q] = Own(q)
    BY <1>2, <2>1
  <2>6. kstack[p] = Own(p)
    BY <1>2, <2>1 DEF InWindow
  <2>7. \A q \in pids' : ~InWindow(q)' /\ kstack'[q] = Own(q)
    BY <1>1, <2>1, <2>2, <2>4, <2>5, <2>6 DEF InWindow
  <2>8. \A q \in saved' : q \in pids' /\ pc'[q] # "wait" /\ q # cur_pcb'
    BY <1>1, <1>2, <2>1, <2>2, <2>4
  <2> QED BY <2>4, <2>7, <2>8 DEF StacksOk
<1>11. ASSUME NEW p \in Pids, ExecuteFails(p) \/ Vidmap(p)
       PROVE  StacksOk'
  BY <1>11 DEF ExecuteFails, Vidmap, tables, cpu, stacks, StacksOk, InWindow
<1>12. ASSUME NEW p \in Pids,
              CountShell(p) \/ EnterUser(p) \/ Exit(p) \/ Exception(p) \/ HaltSeesScreen(p)
       PROVE  StacksOk'
  <2>1. /\ cur_pcb = p /\ p \in pids
        /\ UNCHANGED <<pids, cur_pcb, saved, lost, crashed>>
    BY <1>3, <1>12 DEF CountShell, EnterUser, Exit, Exception, HaltSeesScreen, Runs, tables,
       cpu, stacks
  <2>2. \A q \in Pids \ {p} : pc'[q] = pc[q] /\ kstack'[q] = kstack[q]
    BY <1>1, <1>12 DEF CountShell, EnterUser, Exit, Exception, HaltSeesScreen, stacks, LaunchTyped
  <2>3. pc'[p] \in {"launch", "launched"} \/ kstack'[p] = Own(p)
    <3>1. CASE CountShell(p)
      BY <1>1, <3>1 DEF CountShell, LaunchTyped
    <3>2. CASE EnterUser(p)
      BY <1>1, <3>2 DEF EnterUser, LaunchTyped
    <3>3. CASE Exit(p) \/ Exception(p) \/ HaltSeesScreen(p)
      <4>1. kstack' = kstack /\ ~InWindow(p)
        BY <3>3 DEF Exit, Exception, HaltSeesScreen, Runs, stacks, InWindow
      <4> QED BY <1>2, <2>1, <4>1
    <3> QED BY <1>12, <3>1, <3>2, <3>3
  <2> QED BY <1>1, <2>1, <2>2, <2>3, InertStacks
<1>13. ASSUME NEW p \in Pids, HaltBaseShell(p)
       PROVE  StacksOk'
  <2>1. PICK q \in Pids : LaunchShell(q, r, pids \ {p}, boot_num_shells - 1, kstack[p],
                                     [pc EXCEPT ![p] = "free"], saved)
    BY <1>13 DEF HaltBaseShell
  <2>2. cur_pcb = p /\ p \in pids /\ pc[p] = "halt_ready"
    BY <1>3, <1>13 DEF HaltBaseShell, Runs
  <2>3. kstack[p] = Own(p) /\ Own(p) \in Launches /\ Own(p).on = p
    BY <1>2, <2>2 DEF InWindow, Own
  <2>4. PICK used \in SUBSET pids, pcs \in [Pids -> Locations] :
           used = pids \ {p} /\ pcs = [pc EXCEPT ![p] = "free"]
    BY <1>1 DEF LaunchTyped, Locations
  <2>5. \A s \in used : pcs[s] = pc[s] /\ ~InWindow(s) /\ kstack[s] = Own(s)
    BY <1>1, <1>2, <2>2, <2>4 DEF LaunchTyped
  <2>6. saved \in SUBSET used /\ p \notin saved /\ \A s \in saved : pc[s] # "wait"
    BY <1>1, <1>2, <2>2, <2>4
  <2>7. LaunchShell(q, r, used, boot_num_shells - 1, Own(p), pcs, saved) /\ r \in Terminals
    BY <1>1, <2>1, <2>3, <2>4 DEF LaunchTyped
  <2> QED BY <1>1, <1>2, <2>3, <2>5, <2>6, <2>7, LaunchStacks
<1>14. ASSUME NEW p \in Pids, HaltToParent(p)
       PROVE  StacksOk'
  <2>1. PICK q : q = parent_pid[p]
    OBVIOUS
  <2>2. cur_pcb = p /\ p \in pids /\ pc[p] = "halt_ready"
    BY <1>3, <1>14 DEF HaltToParent, Runs
  <2>3. q \in pids /\ pc[q] = "wait" /\ q # p
    BY <1>14, <2>1, <2>2 DEF IInv, Forest, HaltToParent
  <2>4. \A s \in Pids : pc'[s] = IF s = q THEN "user" ELSE IF s = p THEN "free" ELSE pc[s]
    BY <1>1, <1>14, <2>1, <2>3 DEF HaltToParent, LaunchTyped
  <2>5. Overwritten(kstack[q], saved) = {}
    <3>1. kstack[q] = Own(q) /\ q \notin saved
      BY <1>2, <2>2, <2>3 DEF InWindow
    <3> QED BY <1>1, <1>4, <2>3, <3>1, NothingOverwritten DEF Own
  <2>6. /\ lost' = {} /\ ~crashed' /\ saved' = saved /\ pids' = pids \ {p} /\ cur_pcb' = q
        /\ kstack' = kstack
    BY <1>2, <1>14, <2>1, <2>5 DEF HaltToParent, RunProcess
  <2>7. \A s \in pids' : ~InWindow(s)' /\ kstack'[s] = Own(s)
    BY <1>1, <1>2, <2>2, <2>3, <2>4, <2>6 DEF InWindow
  <2>8. \A s \in saved' : s \in pids' /\ pc'[s] # "wait" /\ s # cur_pcb'
    BY <1>1, <1>2, <2>2, <2>3, <2>4, <2>6
  <2> QED BY <2>6, <2>7, <2>8 DEF StacksOk
<1>15. CASE UNCHANGED vars
  BY <1>15 DEF vars, tables, cpu, stacks, StacksOk, InWindow
<1> QED BY <1>5, <1>6, <1>7, <1>8, <1>9, <1>10, <1>11, <1>12, <1>13, <1>14, <1>15
        DEF Next, Keyboard, UserStep, KernelStep

\* As long as no launch is interrupted, no suspended frame is overwritten and
\* switch_tasks() never resumes one that was.
THEOREM FramesKept == Spec => []FramesSafe
<1>1. Init => StacksOk
  BY DEF Init, StacksOk
<1>2. StacksOk => FramesSafe
  BY DEF StacksOk, FramesSafe
<1> QED BY <1>1, <1>2, StacksStep, Invariance, PTL DEF Spec

-----------------------------------------------------------------------------
(* boot_num_shells.  Only the running terminal's entry of Counted ever changes. *)

\* The counted terminals other than r stay the same when nothing else moves.
LEMMA CountedElsewhere ==
  ASSUME TypeOK, NEW r \in Terminals, terminals' \subseteq Terminals,
         \A u \in Terminals \ {r} :
            /\ u \in terminals' <=> u \in terminals
            /\ active_pid'[u] = active_pid[u]
            /\ active_pid[u] # None => pc'[active_pid[u]] = pc[active_pid[u]]
  PROVE  Counted' \ {r} = Counted \ {r}
<1>1. \A u : u \in Counted' \ {r} <=> u \in Counted \ {r}
  BY DEF Counted, TypeOK
<1> QED BY <1>1

LEMMA CountedFinite ==
  ASSUME TypeOK
  PROVE  IsFiniteSet(Counted) /\ Cardinality(Counted) \in Nat
<1>1. IsFiniteSet(Terminals)
  BY SchedulerAssumption, FS_Interval DEF Terminals
<1>2. Counted \subseteq Terminals
  BY DEF Counted, TypeOK
<1> QED BY <1>1, <1>2, FS_Subset, FS_CardinalityType

\* The entry of r decides what becomes of the number.
LEMMA CountedMoves ==
  ASSUME TypeOK, NEW r \in Terminals, Counted' \ {r} = Counted \ {r}
  PROVE  /\ (r \in Counted' <=> r \in Counted) => Cardinality(Counted') = Cardinality(Counted)
         /\ r \in Counted' /\ r \notin Counted => Cardinality(Counted') = Cardinality(Counted) + 1
         /\ r \notin Counted' /\ r \in Counted => Cardinality(Counted') = Cardinality(Counted) - 1
<1>1. ASSUME r \in Counted' <=> r \in Counted
      PROVE  Cardinality(Counted') = Cardinality(Counted)
  <2>1. Counted' = Counted
    BY <1>1
  <2> QED BY <2>1
<1>2. ASSUME r \in Counted', r \notin Counted
      PROVE  Cardinality(Counted') = Cardinality(Counted) + 1
  <2>1. Counted' = Counted \cup {r}
    BY <1>2
  <2> QED BY <1>2, <2>1, CountedFinite, FS_AddElement
<1>3. ASSUME r \notin Counted', r \in Counted
      PROVE  Cardinality(Counted') = Cardinality(Counted) - 1
  <2>1. Counted' = Counted \ {r}
    BY <1>3
  <2> QED BY <1>3, <2>1, CountedFinite, FS_RemoveElement
<1> QED BY <1>1, <1>2, <1>3

\* A launch on terminal t, which is not counted until its shell leaves execute().
LEMMA LaunchCounted ==
  ASSUME TypeOK, ActiveOk,
         NEW p \in Pids, NEW t \in Terminals, NEW used \in SUBSET pids,
         NEW shells, NEW f, NEW pcs \in [Pids -> Locations], NEW suspended,
         LaunchShell(p, t, used, shells, f, pcs, suspended),
         terminals' = terminals \cup {t},
         \A u \in Terminals \ {t} : active_pid[u] # None => active_pid[u] \in used,
         \A q \in used : pcs[q] = pc[q]
  PROVE  /\ cur_terminal_running' \in terminals' /\ boot_num_shells' = shells
         /\ t \notin Counted' /\ Counted' \ {t} = Counted \ {t}
<1>1. p \notin used /\ boot_num_shells' = shells /\ cur_terminal_running' = t
  BY DEF LaunchShell, IsAvailable
<1>2. /\ \A u \in Terminals : active_pid'[u] = IF u = t THEN p ELSE active_pid[u]
      /\ \A q \in Pids : pc'[q] = IF q = p THEN "launch" ELSE pcs[q]
  BY DEF LaunchShell, TypeOK, LaunchTyped
<1>3. t \notin Counted'
  BY <1>2 DEF Counted
<1>4. used \subseteq Pids /\ terminals' \subseteq Terminals
  BY DEF TypeOK, LaunchTyped
<1>5. \A u \in Terminals \ {t} : active_pid[u] # None => pc'[active_pid[u]] = pc[active_pid[u]]
  BY <1>1, <1>2, <1>4
<1> QED BY <1>1, <1>2, <1>3, <1>4, <1>5, CountedElsewhere

LEMMA CountStep == IInv /\ CountOk /\ [Next]_vars => CountOk'
<1> SUFFICES ASSUME IInv, CountOk, [Next]_vars PROVE CountOk'
  OBVIOUS
<1> USE HelperTypes
<1>1. PICK r \in Terminals : r = cur_terminal_running
  BY DEF IInv, TypeOK, LaunchTyped
<1>2. TypeOK /\ LaunchTyped /\ ActiveOk /\ terminals \subseteq Terminals
  BY DEF IInv, TypeOK
<1>3. cur_pcb # None =>
        /\ r \in terminals /\ cur_pcb = active_pid[r] /\ cur_pcb \in pids
        /\ \A u \in Terminals \ {r} : active_pid[u] # cur_pcb
  BY <1>1, <1>2 DEF IInv, CountOk, CpuMatches, ActiveOk, LaunchTyped
<1>4. \A u \in Terminals : active_pid[u] # None => active_pid[u] \in pids /\ pc[active_pid[u]] # "wait"
  BY <1>2 DEF ActiveOk
<1>5. ~raced => boot_num_shells = Cardinality(Counted)
  BY DEF CountOk
<1>6. Cardinality(Counted) \in Nat
  BY <1>2, CountedFinite
<1>7. ASSUME UNCHANGED <<terminals, cur_terminal_running, boot_num_shells, raced>>,
             cur_pcb # None, Counted' \ {r} = Counted \ {r}, r \in Counted' <=> r \in Counted
      PROVE  CountOk'
  BY <1>1, <1>2, <1>3, <1>5, <1>7, CountedMoves DEF CountOk
<1>8. CASE Boot
  <2>1. PICK p \in Pids : LaunchShell(p, 1, {}, 0, Own(0), pc, {})
    BY <1>8 DEF Boot
  <2>2. terminals = {1} /\ terminals' = {1} /\ \A u \in Terminals : active_pid[u] = None
    BY <1>8 DEF Boot, IInv, BootOk
  <2>3. Counted = {}
    BY <1>2, <2>2 DEF Counted
  <2>4. terminals' = terminals \cup {1} /\ \A u \in Terminals \ {1} : active_pid[u] = None
    BY <2>2
  <2>5. 1 \notin Counted' /\ Counted' \ {1} = {} /\ boot_num_shells' = 0
        /\ cur_terminal_running' \in terminals'
    BY <1>2, <2>1, <2>3, <2>4, LaunchCounted DEF LaunchTyped
  <2>6. Counted' = {}
    BY <2>5
  <2> QED BY <2>5, <2>6, FS_EmptySet DEF CountOk
<1>9. CASE SwitchTasks
  <2>1. PICK t \in Terminals : t \in terminals /\ cur_terminal_running' = t
    BY <1>9 DEF SwitchTasks, IsNextActive
  <2>2. UNCHANGED <<terminals, active_pid, pc, boot_num_shells>> /\ (raced => raced')
    BY <1>9 DEF SwitchTasks, InterruptTaken, tables
  <2>3. Counted' = Counted
    BY <2>2 DEF Counted
  <2> QED BY <1>5, <2>1, <2>2, <2>3 DEF CountOk
<1>10. CASE CtrlC
  <2>1. /\ cur_pcb # None /\ UNCHANGED <<terminals, active_pid, cur_terminal_running, boot_num_shells>>
        /\ pc' = [pc EXCEPT ![cur_pcb] = "halting"]
        /\ raced' = (raced \/ InWindow(cur_pcb))
    BY <1>10 DEF CtrlC, InterruptTaken, tables, cpu
  <2>2. \A u \in Terminals \ {r} : active_pid[u] # None => pc'[active_pid[u]] = pc[active_pid[u]]
    BY <1>2, <1>3, <1>4, <2>1 DEF LaunchTyped
  <2>3. Counted' \ {r} = Counted \ {r}
    BY <1>2, <2>1, <2>2, CountedElsewhere
  <2>4. CASE raced'
    BY <1>1, <1>3, <2>1, <2>4 DEF CountOk
  <2>5. CASE ~raced'
    <3>1. pc[cur_pcb] # "launch" /\ pc'[cur_pcb] # "launch" /\ raced' = raced
      BY <1>2, <1>3, <2>1, <2>5 DEF InWindow, LaunchTyped, TypeOK
    <3>2. r \in Counted' /\ r \in Counted
      BY <1>3, <2>1, <3>1 DEF Counted
    <3> QED BY <1>7, <2>1, <2>3, <3>1, <3>2
  <2> QED BY <2>4, <2>5
<1>11. ASSUME NEW n \in Terminals, AltFnShow(n)
       PROVE  CountOk'
  <2>1. UNCHANGED <<terminals, active_pid, pc, cur_terminal_running, boot_num_shells, cur_pcb>>
        /\ (raced => raced')
    BY <1>11 DEF AltFnShow, InterruptTaken, tables, cpu
  <2> QED BY <2>1 DEF CountOk, Counted
<1>12. ASSUME NEW n \in Terminals, AltFnLaunch(n)
       PROVE  CountOk'
  <2>1. PICK p \in Pids : LaunchShell(p, n, pids, boot_num_shells, Above(kstack[cur_pcb]),
                                     pc, saved \cup {cur_pcb})
    BY <1>12 DEF AltFnLaunch
  <2>2. n \notin terminals /\ terminals' = terminals \cup {n} /\ (raced => raced')
    BY <1>12 DEF AltFnLaunch, InterruptTaken
  <2>3. \A u \in Terminals \ {n} : active_pid[u] # None => active_pid[u] \in pids
    BY <1>4
  <2>4. /\ n \notin Counted' /\ Counted' \ {n} = Counted \ {n} /\ boot_num_shells' = boot_num_shells
        /\ cur_terminal_running' \in terminals'
    BY <1>2, <2>1, <2>2, <2>3, LaunchCounted DEF LaunchTyped
  <2>5. n \notin Counted
    BY <2>2 DEF Counted
  <2>6. Cardinality(Counted') = Cardinality(Counted)
    BY <1>2, <2>4, <2>5, CountedMoves
  <2> QED BY <1>5, <2>2, <2>4, <2>6 DEF CountOk
<1>13. ASSUME NEW p \in Pids, NEW c \in Pids, ExecuteChild(p, c)
       PROVE  CountOk'
  <2>1. cur_pcb = p /\ p # None /\ pc[p] = "user" /\ c \notin pids /\ c # None
        /\ UNCHANGED <<terminals, cur_terminal_running, boot_num_shells, raced>>
    BY <1>13 DEF ExecuteChild, Runs, IsAvailable
  <2>2. /\ \A u \in Terminals : active_pid'[u] = IF u = r THEN c ELSE active_pid[u]
        /\ \A q \in Pids : pc'[q] = IF q = c THEN "user" ELSE IF q = p THEN "wait" ELSE pc[q]
    BY <1>1, <1>2, <1>13 DEF ExecuteChild, Enters, LaunchTyped
  <2>3. \A u \in Terminals \ {r} :
          active_pid[u] # None => active_pid[u] # p /\ active_pid[u] # c /\ active_pid[u] \in Pids
    BY <1>2, <1>3, <1>4, <2>1 DEF LaunchTyped
  <2>4. Counted' \ {r} = Counted \ {r}
    BY <1>2, <2>1, <2>2, <2>3, CountedElsewhere
  <2>5. r \in Counted' /\ r \in Counted
    BY <1>3, <2>1, <2>2 DEF Counted
  <2> QED BY <1>7, <2>1, <2>4, <2>5
<1>14. ASSUME NEW p \in Pids,
              \/ ExecuteFails(p) \/ Vidmap(p) \/ Exit(p) \/ Exception(p)
              \/ EnterUser(p) \/ HaltSeesScreen(p)
       PROVE  CountOk'
  <2>1. /\ cur_pcb = p /\ p # None /\ pc[p] # "launch"
        /\ UNCHANGED <<terminals, active_pid, cur_terminal_running, boot_num_shells, raced>>
    BY <1>14 DEF ExecuteFails, Vidmap, Exit, Exception, EnterUser, HaltSeesScreen, Runs, tables, cpu
  <2>2. \A q \in Pids : IF q = p THEN pc'[q] # "launch" ELSE pc'[q] = pc[q]
    BY <1>2, <1>14, <2>1 DEF ExecuteFails, Vidmap, Exit, Exception, EnterUser, HaltSeesScreen, LaunchTyped
  <2>3. \A u \in Terminals \ {r} : active_pid[u] # None => pc'[active_pid[u]] = pc[active_pid[u]]
    BY <1>2, <1>3, <1>4, <2>1, <2>2 DEF LaunchTyped
  <2>4. Counted' \ {r} = Counted \ {r}
    BY <1>2, <2>1, <2>3, CountedElsewhere
  <2>5. r \in Counted' /\ r \in Counted
    BY <1>3, <2>1, <2>2 DEF Counted
  <2> QED BY <1>7, <2>1, <2>4, <2>5
<1>15. ASSUME NEW p \in Pids, CountShell(p)
       PROVE  CountOk'
  <2>1. /\ cur_pcb = p /\ p # None /\ pc[p] = "launch" /\ boot_num_shells' = boot_num_shells + 1
        /\ UNCHANGED <<terminals, active_pid, cur_terminal_running, raced>>
        /\ \A q \in Pids : pc'[q] = IF q = p THEN "launched" ELSE pc[q]
    BY <1>2, <1>15 DEF CountShell, Runs, cpu, LaunchTyped
  <2>2. \A u \in Terminals \ {r} : active_pid[u] # None => pc'[active_pid[u]] = pc[active_pid[u]]
    BY <1>2, <1>3, <1>4, <2>1 DEF LaunchTyped
  <2>3. Counted' \ {r} = Counted \ {r}
    BY <1>2, <2>1, <2>2, CountedElsewhere
  <2>4. r \in Counted' /\ r \notin Counted
    BY <1>3, <2>1 DEF Counted
  <2> QED BY <1>1, <1>2, <1>3, <1>5, <2>1, <2>3, <2>4, CountedMoves DEF CountOk
<1>16. ASSUME NEW p \in Pids, HaltBaseShell(p)
       PROVE  CountOk'
  <2>1. PICK q \in Pids : LaunchShell(q, r, pids \ {p}, boot_num_shells - 1, kstack[p],
                                     [pc EXCEPT ![p] = "free"], saved)
    BY <1>1, <1>16 DEF HaltBaseShell
  <2>2. cur_pcb = p /\ p # None /\ pc[p] = "halt_ready" /\ UNCHANGED <<terminals, raced>>
    BY <1>16 DEF HaltBaseShell, Runs
  <2>3. PICK used \in SUBSET pids, pcs \in [Pids -> Locations] :
           used = pids \ {p} /\ pcs = [pc EXCEPT ![p] = "free"]
    BY <1>2 DEF LaunchTyped, Locations
  <2>4. \A s \in used : pcs[s] = pc[s]
    BY <1>2, <2>3 DEF LaunchTyped
  <2>5. \A u \in Terminals \ {r} : active_pid[u] # None => active_pid[u] \in used
    BY <1>3, <1>4, <2>2, <2>3
  <2>6. PICK shells, f : shells = boot_num_shells - 1 /\ LaunchShell(q, r, used, shells, f, pcs, saved)
    BY <2>1, <2>3
  <2>7. terminals' = terminals \cup {r}
    BY <1>3, <2>2
  <2>8. /\ r \notin Counted' /\ Counted' \ {r} = Counted \ {r}
        /\ boot_num_shells' = shells /\ cur_terminal_running' \in terminals'
    BY <1>2, <2>4, <2>5, <2>6, <2>7, LaunchCounted
  <2>9. r \in Counted
    BY <1>3, <2>2 DEF Counted
  <2> QED BY <1>2, <1>5, <2>2, <2>6, <2>8, <2>9, CountedMoves DEF CountOk
<1>17. ASSUME NEW p \in Pids, HaltToParent(p)
       PROVE  CountOk'
  <2>1. PICK q : q = parent_pid[p]
    OBVIOUS
  <2>2. /\ cur_pcb = p /\ p # None /\ pc[p] = "halt_ready" /\ q # None
        /\ UNCHANGED <<terminals, cur_terminal_running, boot_num_shells, raced>>
    BY <1>17, <2>1 DEF HaltToParent, Runs
  <2>3. q \in pids /\ q \in Pids /\ pc[q] = "wait"
    BY <1>2, <1>3, <2>1, <2>2 DEF IInv, Forest, LaunchTyped
  <2>4. /\ \A u \in Terminals : active_pid'[u] = IF u = r THEN q ELSE active_pid[u]
        /\ \A s \in Pids : pc'[s] = IF s = q THEN "user" ELSE IF s = p THEN "free" ELSE pc[s]
    BY <1>1, <1>2, <1>17, <2>1, <2>3 DEF HaltToParent, LaunchTyped
  <2>5. \A u \in Terminals \ {r} :
          active_pid[u] # None => active_pid[u] # p /\ active_pid[u] # q /\ active_pid[u] \in Pids
    BY <1>2, <1>3, <1>4, <2>2, <2>3 DEF LaunchTyped
  <2>6. Counted' \ {r} = Counted \ {r}
    BY <1>2, <2>2, <2>4, <2>5, CountedElsewhere
  <2>7. r \in Counted' /\ r \in Counted
    BY <1>3, <2>2, <2>3, <2>4 DEF Counted
  <2> QED BY <1>7, <2>2, <2>6, <2>7
<1>18. CASE UNCHANGED vars
  BY <1>18 DEF vars, tables, cpu, CountOk, Counted
<1> QED BY <1>8, <1>9, <1>10, <1>11, <1>12, <1>13, <1>14, <1>15, <1>16, <1>17, <1>18
        DEF Next, Keyboard, UserStep, KernelStep

\* As long as no launch is interrupted, boot_num_shells, which decides whether
\* switch_tasks() switches, is the number of terminals whose shell has left execute().
THEOREM CountKept == Spec => []ShellsCounted
<1>1. Init => CountOk
  <2>1. ASSUME Init PROVE Counted = {} /\ cur_pcb = None /\ boot_num_shells = 0
    BY <2>1, HelperTypes DEF Init, Counted
  <2> QED BY <2>1, FS_EmptySet DEF Init, CountOk
<1>2. CountOk => ShellsCounted
  BY DEF CountOk, ShellsCounted, Counted
<1> QED BY <1>1, <1>2, CountStep, Invariance, PTL DEF Spec

-----------------------------------------------------------------------------
(* Induction, and the function that Ancestor defines by recursion. *)

\* A non-empty set of natural numbers has a least element.
LEMMA LeastNatural ==
  ASSUME NEW S \in SUBSET Nat, S # {}
  PROVE  \E n \in S : \A m \in S : n <= m
<1> DEFINE R == OpToRel(<, Nat)
<1>1. PICK n \in S : \A m \in S : <<m, n>> \notin R
  <2>1. IsWellFoundedOn(R, Nat)
    BY NatLessThanWellFounded
  <2> HIDE DEF R
  <2> QED BY <2>1, WFMin
<1>2. \A m \in S : ~(m < n)
  BY <1>1 DEF OpToRel
<1> QED BY <1>2

\* What holds of 0 and of every successor holds of all natural numbers.
LEMMA Induction ==
  ASSUME NEW S, 0 \in S, \A n \in Nat : n \in S => n + 1 \in S
  PROVE  Nat \subseteq S
<1> SUFFICES ASSUME Nat \ S # {} PROVE FALSE
  OBVIOUS
<1>1. PICK n \in Nat \ S : \A m \in Nat \ S : n <= m
  BY LeastNatural
<1>2. n # 0 /\ n - 1 \in Nat
  BY <1>1
<1>3. n - 1 \in S
  BY <1>1, <1>2
<1> QED BY <1>1, <1>2, <1>3

\* The equation of Ancestor has a solution.
Steps(active, parent, n, g) ==
  g = [k \in 0 .. n |-> IF k = 0 THEN active ELSE parent[g[k - 1]]]

LEMMA StepsExist ==
  ASSUME NEW active, NEW parent
  PROVE  \A n \in Nat : \E g : Steps(active, parent, n, g)
<1> DEFINE S == {n \in Nat : \E g : Steps(active, parent, n, g)}
<1>1. 0 \in S
  <2> DEFINE g == [k \in 0 .. 0 |-> active]
  <2>1. Steps(active, parent, 0, g)
    BY DEF Steps
  <2> QED BY <2>1
<1>2. ASSUME NEW n \in Nat, n \in S
      PROVE  n + 1 \in S
  <2>1. PICK g : Steps(active, parent, n, g)
    BY <1>2
  <2> DEFINE h == [k \in 0 .. n + 1 |-> IF k = 0 THEN active ELSE parent[g[k - 1]]]
  <2>2. \A k \in 0 .. n : h[k] = g[k]
    BY <2>1 DEF Steps
  <2>3. h = [k \in 0 .. n + 1 |-> IF k = 0 THEN active ELSE parent[h[k - 1]]]
    <3>1. \A k \in 0 .. n + 1 : k # 0 => h[k - 1] = g[k - 1]
      BY <2>2
    <3> QED BY <3>1
  <2>4. Steps(active, parent, n + 1, h)
    BY <2>3 DEF Steps
  <2> QED BY <2>4
<1> HIDE DEF S
<1>3. Nat \subseteq S
  BY <1>1, <1>2, Induction
<1> QED BY <1>3 DEF S

LEMMA StepsAgree ==
  ASSUME NEW active, NEW parent, NEW n \in Nat, NEW g, Steps(active, parent, n, g),
         NEW m \in Nat, n <= m, NEW h, Steps(active, parent, m, h)
  PROVE  \A k \in 0 .. n : g[k] = h[k]
<1> DEFINE S == {k \in Nat : k <= n => g[k] = h[k]}
<1>1. 0 \in S
  BY DEF Steps
<1>2. ASSUME NEW k \in Nat, k \in S
      PROVE  k + 1 \in S
  BY <1>2 DEF Steps
<1> HIDE DEF S
<1>3. Nat \subseteq S
  BY <1>1, <1>2, Induction
<1> QED BY <1>3 DEF S

LEMMA AncestorDef ==
  ASSUME NEW active, NEW parent
  PROVE  Ancestor(active, parent) =
           [n \in Nat |-> IF n = 0 THEN active ELSE parent[Ancestor(active, parent)[n - 1]]]
<1> DEFINE G(n) == CHOOSE g : Steps(active, parent, n, g)
           u == [n \in Nat |-> G(n)[n]]
           U == CHOOSE v : v = [n \in Nat |-> IF n = 0 THEN active ELSE parent[v[n - 1]]]
<1>1. \A n \in Nat : Steps(active, parent, n, G(n))
  BY StepsExist
<1>2. \A n \in Nat : u[n] = IF n = 0 THEN active ELSE parent[u[n - 1]]
  <2> SUFFICES ASSUME NEW n \in Nat PROVE u[n] = IF n = 0 THEN active ELSE parent[u[n - 1]]
    OBVIOUS
  <2>1. u[n] = G(n)[n]
    OBVIOUS
  <2> HIDE DEF G
  <2>2. G(n)[n] = IF n = 0 THEN active ELSE parent[G(n)[n - 1]]
    BY <1>1 DEF Steps
  <2>3. ASSUME n # 0 PROVE G(n)[n - 1] = u[n - 1]
    <3>1. n - 1 \in Nat /\ n - 1 <= n /\ n - 1 \in 0 .. n - 1
      BY <2>3
    <3>2. G(n - 1)[n - 1] = G(n)[n - 1]
      BY <1>1, <3>1, StepsAgree
    <3> QED BY <3>1, <3>2
  <2> QED BY <2>1, <2>2, <2>3
<1>3. u = [n \in Nat |-> IF n = 0 THEN active ELSE parent[u[n - 1]]]
  <2> HIDE DEF G
  <2>1. \A n \in Nat : u[n] = [m \in Nat |-> IF m = 0 THEN active ELSE parent[u[m - 1]]][n]
    BY <1>2
  <2> QED BY <2>1
<1> HIDE DEF u
<1>4. U = [n \in Nat |-> IF n = 0 THEN active ELSE parent[U[n - 1]]]
  BY <1>3
<1>5. Ancestor(active, parent) = U
  BY DEF Ancestor
<1> QED BY <1>4, <1>5

-----------------------------------------------------------------------------
(* The process chains of the terminals. *)

\* s lists n processes, the last active, each the parent of the next.
Follows(s, active, n, parent) ==
  /\ s = [i \in 1 .. n |-> s[i]]
  /\ n > 0 => s[n] = active
  /\ \A i, j \in 1 .. n : j = i + 1 => s[i] = parent[s[j]]

LEMMA ChainShape ==
  ASSUME NEW active, NEW parent, NEW n \in Nat, NEW s, s = ChainOf(active, n, parent)
  PROVE  Follows(s, active, n, parent)
<1> DEFINE A == Ancestor(active, parent)
<1>1. A = [k \in Nat |-> IF k = 0 THEN active ELSE parent[A[k - 1]]]
  BY AncestorDef
<1> HIDE DEF A
<1>2. s = [i \in 1 .. n |-> A[n - i]]
  BY DEF ChainOf, A
<1>3. A[0] = active /\ \A k \in Nat : A[k + 1] = parent[A[k]]
  BY <1>1
<1>4. n > 0 => s[n] = active
  BY <1>2, <1>3
<1>5. ASSUME NEW i \in 1 .. n, NEW j \in 1 .. n, j = i + 1
      PROVE  s[i] = parent[s[j]]
  <2>1. s[i] = A[n - i] /\ s[j] = A[n - j]
    BY <1>2
  <2>2. n - j \in Nat /\ n - i = (n - j) + 1
    BY <1>5
  <2> QED BY <1>3, <2>1, <2>2
<1> QED BY <1>2, <1>4, <1>5 DEF Follows

\* Nothing else has that shape.
LEMMA ChainUnique ==
  ASSUME NEW active, NEW parent, NEW n \in Nat, NEW s, Follows(s, active, n, parent)
  PROVE  ChainOf(active, n, parent) = s
<1> DEFINE c == ChainOf(active, n, parent)
           S == {k \in Nat : k < n => c[n - k] = s[n - k]}
<1>1. Follows(c, active, n, parent)
  BY ChainShape
<1> USE DEF Follows
<1> HIDE DEF c
<1>2. 0 \in S
  BY <1>1
<1>3. ASSUME NEW k \in Nat, k \in S
      PROVE  k + 1 \in S
  <2>1. CASE k + 1 < n
    <3>1. PICK i, j \in 1 .. n : i = n - (k + 1) /\ j = n - k /\ j = i + 1
      BY <2>1
    <3>2. c[j] = s[j]
      BY <1>3, <2>1, <3>1
    <3>3. c[i] = s[i]
      BY <1>1, <3>1, <3>2
    <3> QED BY <3>1, <3>3
  <2> QED BY <2>1
<1> HIDE DEF S
<1>4. Nat \subseteq S
  BY <1>2, <1>3, Induction
<1>5. ASSUME NEW i \in 1 .. n
      PROVE  c[i] = s[i]
  <2>1. n - i \in Nat /\ n - i < n /\ n - (n - i) = i
    OBVIOUS
  <2> QED BY <1>4, <2>1 DEF S
<1>6. c = s
  BY <1>1, <1>5
<1> QED BY <1>6 DEF c

\* The chains are disjoint, without repetition, and hold the pids in use; all
\* but the innermost process wait, and the outermost has no parent.
Linked ==
  /\ \A t \in Terminals :
        /\ num_process[t] = 0 <=> active_pid[t] = None
        /\ t \notin terminals => num_process[t] = 0
        /\ num_process[t] > 0 => parent_pid[Chain(t)[1]] = None
        /\ \A i \in 1 .. num_process[t] :
              Chain(t)[i] \in pids /\ (pc[Chain(t)[i]] = "wait" <=> i < num_process[t])
  /\ \A t, u \in Terminals : \A i \in 1 .. num_process[t], j \in 1 .. num_process[u] :
        Chain(t)[i] = Chain(u)[j] => t = u /\ i = j
  /\ \A p \in pids : \E t \in Terminals : \E i \in 1 .. num_process[t] : Chain(t)[i] = p
  /\ \A p \in Pids : p \in pids <=> pc[p] # "free"

\* A chain whose members keep their parents stays as it is.
LEMMA ChainKept ==
  ASSUME NEW t \in Terminals, num_process[t] \in Nat, num_process'[t] = num_process[t],
         active_pid'[t] = active_pid[t],
         \A i \in 1 .. num_process[t] : parent_pid'[Chain(t)[i]] = parent_pid[Chain(t)[i]]
  PROVE  Chain(t)' = Chain(t)
<1> PICK n \in Nat : n = num_process[t]
  OBVIOUS
<1>1. PICK a, p, s : a = active_pid[t] /\ p = parent_pid /\ s = Chain(t)
  OBVIOUS
<1>2. PICK q : q = parent_pid'
  OBVIOUS
<1>3. s = ChainOf(a, n, p)
  BY <1>1 DEF Chain
<1>4. Follows(s, a, n, p)
  BY <1>3, ChainShape
<1>5. \A i \in 1 .. n : q[s[i]] = p[s[i]]
  BY <1>1, <1>2
<1>6. Follows(s, a, n, q)
  BY <1>4, <1>5 DEF Follows
<1>7. ChainOf(a, n, q) = s
  BY <1>6, ChainUnique
<1>8. Chain(t)' = ChainOf(active_pid'[t], num_process'[t], parent_pid')
  BY DEF Chain
<1>9. active_pid'[t] = a /\ num_process'[t] = n /\ parent_pid' = q /\ Chain(t) = s
  BY <1>1, <1>2
<1> QED BY <1>7, <1>8, <1>9

\* A step that moves no process into or out of a wait and changes no table.
LEMMA LinkedSame ==
  ASSUME TypeOK, Linked,
         UNCHANGED <<terminals, active_pid, num_process, pids, parent_pid>>,
         \A p \in Pids : /\ pc'[p] = "wait" <=> pc[p] = "wait"
                         /\ pc'[p] = "free" <=> pc[p] = "free"
  PROVE  Linked' /\ \A t \in Terminals : Chain(t)' = Chain(t) /\ num_process'[t] = num_process[t]
<1>1. ASSUME NEW t \in Terminals
      PROVE  Chain(t)' = Chain(t)
  BY DEF Chain
<1>2. pids \subseteq Pids
  BY DEF TypeOK, LaunchTyped
<1> QED BY <1>1, <1>2 DEF Linked

\* The chain of a terminal with one process.
LEMMA ChainOfOne ==
  ASSUME NEW t \in Terminals, num_process'[t] = 1
  PROVE  Chain(t)'[1] = active_pid'[t]
<1>1. PICK n \in Nat : n = 1
  OBVIOUS
<1>2. PICK a, q, s : a = active_pid'[t] /\ q = parent_pid' /\ s = ChainOf(a, n, q)
  OBVIOUS
<1>3. s[1] = a
  BY <1>1, <1>2, ChainShape DEF Follows
<1>4. Chain(t)' = ChainOf(active_pid'[t], num_process'[t], parent_pid')
  BY DEF Chain
<1> QED BY <1>1, <1>2, <1>3, <1>4

\* The terminals other than t hold the processes used, which pcs locates.
HeldElsewhere(t, used) ==
  /\ \A u \in Terminals \ {t} : \A i \in 1 .. num_process[u] : Chain(u)[i] \in used
  /\ \A q \in used : \E u \in Terminals \ {t} : \E i \in 1 .. num_process[u] : Chain(u)[i] = q
Locates(pcs, used) ==
  /\ \A q \in used : pcs[q] = pc[q]
  /\ \A q \in Pids \ used : pcs[q] = "free"

\* A launch: t's chain is the new shell, the others, which hold what is used, stay.
LEMMA LaunchLinked ==
  ASSUME TypeOK, Linked,
         NEW p \in Pids, NEW t \in Terminals, NEW used \in SUBSET pids,
         NEW shells, NEW f, NEW pcs \in [Pids -> Locations], NEW suspended,
         LaunchShell(p, t, used, shells, f, pcs, suspended),
         terminals' = terminals \cup {t},
         HeldElsewhere(t, used), Locates(pcs, used)
  PROVE  /\ Linked'
         /\ num_process'[t] = 1 /\ Chain(t)'[1] = p
         /\ \A u \in Terminals \ {t} : Chain(u)' = Chain(u) /\ num_process'[u] = num_process[u]
<1> USE DEF HeldElsewhere, Locates
<1>1. p \notin used /\ pids' = used \cup {p} /\ used \subseteq Pids
  BY DEF LaunchShell, IsAvailable, TypeOK, LaunchTyped
<1>2. /\ \A u \in Terminals : /\ active_pid'[u] = IF u = t THEN p ELSE active_pid[u]
                              /\ num_process'[u] = IF u = t THEN 1 ELSE num_process[u]
      /\ \A q \in Pids : /\ parent_pid'[q] = IF q = p THEN None ELSE parent_pid[q]
                         /\ pc'[q] = IF q = p THEN "launch" ELSE pcs[q]
  BY DEF LaunchShell, TypeOK, LaunchTyped
<1>3. Chain(t)'[1] = p
  BY <1>2, ChainOfOne
<1>4. ASSUME NEW u \in Terminals \ {t}
      PROVE  Chain(u)' = Chain(u) /\ num_process'[u] = num_process[u]
  <2>1. num_process[u] \in Nat
    BY DEF TypeOK, LaunchTyped
  <2>2. \A i \in 1 .. num_process[u] : parent_pid'[Chain(u)[i]] = parent_pid[Chain(u)[i]]
    BY <1>1, <1>2
  <2> QED BY <1>2, <2>1, <2>2, ChainKept
<1>5. ASSUME NEW u \in Terminals
      PROVE  /\ num_process'[u] = 0 <=> active_pid'[u] = None
             /\ u \notin terminals' => num_process'[u] = 0
             /\ num_process'[u] > 0 => parent_pid'[Chain(u)'[1]] = None
             /\ \A i \in 1 .. num_process'[u] :
                   Chain(u)'[i] \in pids' /\ (pc'[Chain(u)'[i]] = "wait" <=> i < num_process'[u])
  <2>1. CASE u = t
    BY <1>1, <1>2, <1>3, <2>1, HelperTypes
  <2>2. CASE u # t
    <3>1. num_process[u] \in Nat
      BY DEF TypeOK, LaunchTyped
    <3>2. num_process[u] > 0 => 1 \in 1 .. num_process[u]
      BY <3>1
    <3>3. \A i \in 1 .. num_process[u] : /\ Chain(u)[i] \in used
                                         /\ pc'[Chain(u)[i]] = pc[Chain(u)[i]]
                                         /\ parent_pid'[Chain(u)[i]] = parent_pid[Chain(u)[i]]
      BY <1>1, <1>2, <2>2
    <3> QED BY <1>1, <1>2, <1>4, <2>2, <3>1, <3>2, <3>3 DEF Linked
  <2> QED BY <2>1, <2>2
<1>6. ASSUME NEW u \in Terminals, NEW v \in Terminals,
             NEW i \in 1 .. num_process'[u], NEW j \in 1 .. num_process'[v],
             Chain(u)'[i] = Chain(v)'[j]
      PROVE  u = v /\ i = j
  <2>1. CASE u # t /\ v # t
    BY <1>4, <1>6, <2>1 DEF Linked
  <2>2. ASSUME u = t \/ v = t, u # v PROVE FALSE
    BY <1>1, <1>2, <1>3, <1>4, <1>6, <2>2
  <2>3. CASE u = t /\ v = t
    BY <1>2, <2>3
  <2> QED BY <2>1, <2>2, <2>3
<1>7. ASSUME NEW q \in pids'
      PROVE  \E u \in Terminals : \E i \in 1 .. num_process'[u] : Chain(u)'[i] = q
  BY <1>1, <1>2, <1>3, <1>4
<1>8. \A q \in Pids : q \in pids' <=> pc'[q] # "free"
  BY <1>1, <1>2 DEF Linked
<1>9. Linked'
  BY <1>5, <1>6, <1>7, <1>8 DEF Linked
<1> QED BY <1>2, <1>3, <1>4, <1>9

Extend(s, n, c) == [i \in 1 .. n + 1 |-> IF i = n + 1 THEN c ELSE s[i]]
Shorten(s, n)   == [i \in 1 .. n - 1 |-> s[i]]

\* A chain whose active process gets a child, and one that loses it.
LEMMA ChainExtended ==
  ASSUME NEW n \in Nat \ {0}, NEW s, NEW a, NEW p, Follows(s, a, n, p),
         NEW c, NEW q, q[c] = a, \A i \in 1 .. n : q[s[i]] = p[s[i]]
  PROVE  ChainOf(c, n + 1, q) = Extend(s, n, c)
<1>1. PICK s2 : s2 = Extend(s, n, c)
  OBVIOUS
<1>2. PICK m \in Nat : m = n + 1
  OBVIOUS
<1>3. s2 = [i \in 1 .. m |-> s2[i]] /\ s2[m] = c /\ \A i \in 1 .. n : s2[i] = s[i]
  BY <1>1, <1>2 DEF Extend
<1>4. ASSUME NEW i \in 1 .. m, NEW j \in 1 .. m, j = i + 1
      PROVE  s2[i] = q[s2[j]]
  <2>1. i \in 1 .. n /\ s2[i] = s[i]
    BY <1>2, <1>3, <1>4
  <2>2. CASE j = m
    <3>1. s2[j] = c /\ i = n /\ s[n] = a
      BY <1>2, <1>3, <1>4, <2>2 DEF Follows
    <3> QED BY <2>1, <3>1
  <2>3. CASE j # m
    <3>1. j \in 1 .. n /\ s2[j] = s[j]
      BY <1>2, <1>3, <2>3
    <3>2. s[i] = p[s[j]]
      BY <1>4, <2>1, <3>1 DEF Follows
    <3> QED BY <2>1, <3>1, <3>2
  <2> QED BY <2>2, <2>3
<1>5. Follows(s2, c, m, q)
  BY <1>3, <1>4 DEF Follows
<1> QED BY <1>1, <1>2, <1>5, ChainUnique

LEMMA ChainShortened ==
  ASSUME NEW n \in Nat \ {0, 1}, NEW s, NEW a, NEW p, Follows(s, a, n, p),
         NEW b, b = p[a], NEW q, \A i \in 1 .. n - 1 : q[s[i]] = p[s[i]]
  PROVE  ChainOf(b, n - 1, q) = Shorten(s, n)
<1>1. PICK s2 : s2 = Shorten(s, n)
  OBVIOUS
<1>2. PICK m \in Nat \ {0} : m = n - 1
  OBVIOUS
<1>3. s2 = [i \in 1 .. m |-> s2[i]] /\ \A i \in 1 .. m : s2[i] = s[i]
  BY <1>1, <1>2 DEF Shorten
<1>4. s2[m] = b
  <2>1. s[n] = a /\ n = m + 1 /\ m \in 1 .. n /\ n \in 1 .. n /\ s2[m] = s[m]
    BY <1>2, <1>3 DEF Follows
  <2>2. s[m] = p[s[n]]
    BY <2>1 DEF Follows
  <2> QED BY <2>1, <2>2
<1>5. ASSUME NEW i \in 1 .. m, NEW j \in 1 .. m, j = i + 1
      PROVE  s2[i] = q[s2[j]]
  <2>1. i \in 1 .. n /\ j \in 1 .. n - 1 /\ j \in 1 .. n
    BY <1>2
  <2>2. s2[i] = s[i] /\ s2[j] = s[j] /\ q[s[j]] = p[s[j]]
    BY <1>3, <2>1
  <2>3. s[i] = p[s[j]]
    BY <1>5, <2>1 DEF Follows
  <2> QED BY <2>2, <2>3
<1>6. Follows(s2, b, m, q)
  BY <1>3, <1>4, <1>5 DEF Follows
<1> QED BY <1>1, <1>2, <1>6, ChainUnique

\* execute() appends the child to the chain of the running terminal.
LEMMA ChildLinked ==
  ASSUME IInv, Linked, NEW p \in Pids, NEW c \in Pids, ExecuteChild(p, c),
         NEW r \in Terminals, r = cur_terminal_running
  PROVE  /\ Linked'
         /\ c \notin pids /\ num_process[r] > 0
         /\ num_process'[r] = num_process[r] + 1
         /\ Chain(r)' = Extend(Chain(r), num_process[r], c)
         /\ \A u \in Terminals \ {r} : Chain(u)' = Chain(u) /\ num_process'[u] = num_process[u]
<1> USE HelperTypes
<1>1. TypeOK /\ LaunchTyped /\ pids \subseteq Pids
  BY DEF IInv, TypeOK, LaunchTyped
<1>2. /\ cur_pcb = p /\ p = active_pid[r] /\ p \in pids /\ pc[p] = "user"
      /\ c \notin pids /\ pids' = pids \cup {c} /\ terminals' = terminals
  BY <1>1 DEF IInv, CpuMatches, ActiveOk, ExecuteChild, Runs, IsAvailable, LaunchTyped
<1>3. /\ \A u \in Terminals : /\ active_pid'[u] = IF u = r THEN c ELSE active_pid[u]
                              /\ num_process'[u] = IF u = r THEN num_process[u] + 1 ELSE num_process[u]
      /\ \A q \in Pids :
           /\ parent_pid'[q] = IF q = c THEN p ELSE parent_pid[q]
           /\ pc'[q] = IF q = c THEN "user" ELSE IF q = p THEN "wait" ELSE pc[q]
  BY <1>1 DEF ExecuteChild, Enters, LaunchTyped
<1>4. PICK n \in Nat \ {0} : n = num_process[r]
  BY <1>1, <1>2 DEF IInv, ActiveOk, LaunchTyped
<1>5. PICK s : s = Chain(r)
  OBVIOUS
<1>6. Follows(s, p, n, parent_pid)
  BY <1>2, <1>4, <1>5, ChainShape DEF Chain
<1>7. \A i \in 1 .. n : s[i] \in pids
  BY <1>4, <1>5 DEF Linked
<1>8. Chain(r)' = Extend(s, n, c)
  <2>1. PICK q : q = parent_pid'
    OBVIOUS
  <2>2. q[c] = p /\ \A i \in 1 .. n : q[s[i]] = parent_pid[s[i]]
    BY <1>1, <1>2, <1>3, <1>7, <2>1
  <2>3. ChainOf(c, n + 1, q) = Extend(s, n, c)
    BY <1>6, <2>2, ChainExtended
  <2>4. Chain(r)' = ChainOf(active_pid'[r], num_process'[r], parent_pid')
    BY DEF Chain
  <2> QED BY <1>3, <1>4, <2>1, <2>3, <2>4
<1>9. ASSUME NEW u \in Terminals \ {r}
      PROVE  Chain(u)' = Chain(u) /\ num_process'[u] = num_process[u]
  <2>1. \A i \in 1 .. num_process[u] : Chain(u)[i] \in pids
    BY DEF Linked
  <2>2. \A i \in 1 .. num_process[u] : parent_pid'[Chain(u)[i]] = parent_pid[Chain(u)[i]]
    BY <1>1, <1>2, <1>3, <2>1
  <2> QED BY <1>1, <1>3, <2>2, ChainKept DEF LaunchTyped
<1>10. /\ num_process'[r] = n + 1
       /\ \A i \in 1 .. n + 1 : Chain(r)'[i] = IF i = n + 1 THEN c ELSE s[i]
  BY <1>3, <1>4, <1>8 DEF Extend
<1>11. s[n] = p
  BY <1>6 DEF Follows
<1>12. ASSUME NEW u \in Terminals
       PROVE  /\ num_process'[u] = 0 <=> active_pid'[u] = None
              /\ u \notin terminals' => num_process'[u] = 0
              /\ num_process'[u] > 0 => parent_pid'[Chain(u)'[1]] = None
              /\ \A i \in 1 .. num_process'[u] :
                    Chain(u)'[i] \in pids' /\ (pc'[Chain(u)'[i]] = "wait" <=> i < num_process'[u])
  <2>1. CASE u = r
    <3>1. u \in terminals /\ parent_pid[s[1]] = None
          /\ \A i \in 1 .. n : pc[s[i]] = "wait" <=> i < n
      BY <1>4, <1>5, <2>1 DEF Linked
    <3>2. 1 \in 1 .. n /\ Chain(u)'[1] = s[1] /\ parent_pid'[s[1]] = None
      BY <1>1, <1>2, <1>3, <1>7, <1>10, <2>1, <3>1
    <3>3. \A i \in 1 .. n : \A j \in 1 .. n : s[i] = s[j] => i = j
      BY <1>4, <1>5 DEF Linked
    <3>4. \A i \in 1 .. n : pc'[s[i]] = "wait"
      BY <1>1, <1>2, <1>3, <1>7, <1>11, <3>1, <3>3
    <3>5. ASSUME NEW i \in 1 .. n + 1
          PROVE  Chain(u)'[i] \in pids' /\ (pc'[Chain(u)'[i]] = "wait" <=> i < n + 1)
      <4>1. CASE i = n + 1
        BY <1>2, <1>3, <1>10, <2>1, <4>1
      <4>2. CASE i # n + 1
        BY <1>2, <1>7, <1>10, <2>1, <3>4, <4>2
      <4> QED BY <4>1, <4>2
    <3> QED BY <1>2, <1>3, <1>10, <2>1, <3>1, <3>2, <3>5
  <2>2. CASE u # r
    <3>1. num_process[u] \in Nat
      BY <1>1 DEF LaunchTyped
    <3>2. num_process[u] > 0 => 1 \in 1 .. num_process[u]
      BY <3>1
    <3>3. \A i \in 1 .. num_process[u] : Chain(u)[i] \in pids /\ Chain(u)[i] # p
      BY <1>4, <1>5, <1>11, <2>2 DEF Linked
    <3>4. \A i \in 1 .. num_process[u] : /\ pc'[Chain(u)[i]] = pc[Chain(u)[i]]
                                         /\ parent_pid'[Chain(u)[i]] = parent_pid[Chain(u)[i]]
      BY <1>1, <1>2, <1>3, <3>3
    <3> QED BY <1>2, <1>3, <1>9, <2>2, <3>1, <3>2, <3>3, <3>4 DEF Linked
  <2> QED BY <2>1, <2>2
<1>13. ASSUME NEW u \in Terminals, NEW v \in Terminals,
              NEW i \in 1 .. num_process'[u], NEW j \in 1 .. num_process'[v],
              Chain(u)'[i] = Chain(v)'[j]
       PROVE  u = v /\ i = j
  <2>1. \A w \in Terminals \ {r} : \A k \in 1 .. num_process'[w] : Chain(w)'[k] \in pids
    BY <1>9 DEF Linked
  <2>2. \A w \in Terminals \ {r} : \A k \in 1 .. num_process'[w], l \in 1 .. n : Chain(w)'[k] # s[l]
    BY <1>4, <1>5, <1>9 DEF Linked
  <2>3. CASE u # r /\ v # r
    BY <1>9, <1>13, <2>3 DEF Linked
  <2>4. CASE u = r /\ v = r
    <3>1. \A k, l \in 1 .. n : s[k] = s[l] => k = l
      BY <1>4, <1>5 DEF Linked
    <3> QED BY <1>2, <1>7, <1>10, <1>13, <2>4, <3>1
  <2>5. ASSUME u = r, v # r PROVE FALSE
    BY <1>2, <1>10, <1>13, <2>1, <2>2, <2>5
  <2>6. ASSUME u # r, v = r PROVE FALSE
    BY <1>2, <1>10, <1>13, <2>1, <2>2, <2>6
  <2> QED BY <2>3, <2>4, <2>5, <2>6
<1>14. ASSUME NEW q \in pids'
       PROVE  \E u \in Terminals : \E i \in 1 .. num_process'[u] : Chain(u)'[i] = q
  <2>1. CASE q = c
    <3>1. n + 1 \in 1 .. n + 1
      OBVIOUS
    <3> QED BY <1>10, <2>1, <3>1
  <2>2. CASE q # c
    <3>1. PICK u \in Terminals : \E i \in 1 .. num_process[u] : Chain(u)[i] = q
      BY <1>2, <2>2 DEF Linked
    <3>2. PICK i \in 1 .. num_process[u] : Chain(u)[i] = q
      BY <3>1
    <3> QED BY <1>4, <1>5, <1>9, <1>10, <3>2
  <2> QED BY <2>1, <2>2
<1>15. \A q \in Pids : q \in pids' <=> pc'[q] # "free"
  BY <1>2, <1>3 DEF Linked
<1>16. Linked'
  BY <1>12, <1>13, <1>14, <1>15 DEF Linked
<1> QED BY <1>2, <1>4, <1>5, <1>8, <1>9, <1>10, <1>16

\* halt() of a process with a parent takes it off the chain of the running terminal.
LEMMA ParentLinked ==
  ASSUME IInv, Linked, NEW p \in Pids, HaltToParent(p),
         NEW r \in Terminals, r = cur_terminal_running
  PROVE  /\ Linked'
         /\ num_process[r] > 1
         /\ num_process'[r] = num_process[r] - 1
         /\ Chain(r)' = Shorten(Chain(r), num_process[r])
         /\ \A u \in Terminals \ {r} : Chain(u)' = Chain(u) /\ num_process'[u] = num_process[u]
<1> USE HelperTypes
<1>1. TypeOK /\ LaunchTyped /\ pids \subseteq Pids
  BY DEF IInv, TypeOK, LaunchTyped
<1>2. PICK b : b = parent_pid[p]
  OBVIOUS
<1>3. /\ cur_pcb = p /\ p = active_pid[r] /\ p \in pids /\ pc[p] = "halt_ready"
      /\ b \in Pids /\ b # p /\ pids' = pids \ {p} /\ terminals' = terminals
  BY <1>1, <1>2 DEF IInv, CpuMatches, ActiveOk, Forest, HaltToParent, Runs, LaunchTyped
<1>4. /\ \A u \in Terminals : /\ active_pid'[u] = IF u = r THEN b ELSE active_pid[u]
                              /\ num_process'[u] = IF u = r THEN num_process[u] - 1 ELSE num_process[u]
      /\ \A q \in Pids :
           /\ parent_pid'[q] = IF q = p THEN None ELSE parent_pid[q]
           /\ pc'[q] = IF q = b THEN "user" ELSE IF q = p THEN "free" ELSE pc[q]
  BY <1>1, <1>2, <1>3 DEF HaltToParent, LaunchTyped
<1>5. PICK n \in Nat \ {0, 1} : n = num_process[r]
  BY <1>1, <1>3 DEF IInv, ActiveOk, LaunchTyped, HaltToParent
<1>6. PICK s : s = Chain(r)
  OBVIOUS
<1>7. Follows(s, p, n, parent_pid)
  BY <1>3, <1>5, <1>6, ChainShape DEF Chain
<1>8. /\ \A i \in 1 .. n : s[i] \in pids
      /\ \A i, j \in 1 .. n : s[i] = s[j] => i = j
  BY <1>5, <1>6 DEF Linked
<1>9. PICK m \in Nat \ {0} : m = n - 1
  OBVIOUS
<1>10. s[n] = p /\ s[m] = b /\ n \in 1 .. n /\ m \in 1 .. n
  <2>1. n \in 1 .. n /\ m \in 1 .. n /\ n = m + 1
    BY <1>9
  <2> QED BY <1>2, <1>7, <2>1 DEF Follows
<1>11. \A i \in 1 .. m : i \in 1 .. n /\ s[i] \in pids /\ s[i] # p
  BY <1>8, <1>9, <1>10
<1>12. Chain(r)' = Shorten(s, n)
  <2>1. PICK q : q = parent_pid'
    OBVIOUS
  <2>2. \A i \in 1 .. n - 1 : q[s[i]] = parent_pid[s[i]]
    BY <1>1, <1>4, <1>9, <1>11, <2>1
  <2>3. ChainOf(b, n - 1, q) = Shorten(s, n)
    BY <1>2, <1>7, <2>2, ChainShortened
  <2>4. Chain(r)' = ChainOf(active_pid'[r], num_process'[r], parent_pid')
    BY DEF Chain
  <2> QED BY <1>4, <1>5, <2>1, <2>3, <2>4
<1>13. ASSUME NEW u \in Terminals \ {r}
       PROVE  /\ Chain(u)' = Chain(u) /\ num_process'[u] = num_process[u]
              /\ \A i \in 1 .. num_process[u] :
                    Chain(u)[i] \in pids /\ Chain(u)[i] # p /\ Chain(u)[i] # b
  <2>1. \A i \in 1 .. num_process[u] : Chain(u)[i] \in pids /\ Chain(u)[i] # p /\ Chain(u)[i] # b
    BY <1>5, <1>6, <1>10 DEF Linked
  <2>2. \A i \in 1 .. num_process[u] : parent_pid'[Chain(u)[i]] = parent_pid[Chain(u)[i]]
    BY <1>1, <1>4, <2>1
  <2> QED BY <1>1, <1>4, <2>1, <2>2, ChainKept DEF LaunchTyped
<1>14. num_process'[r] = m /\ \A i \in 1 .. m : Chain(r)'[i] = s[i]
  BY <1>4, <1>5, <1>9, <1>12 DEF Shorten
<1>15. ASSUME NEW u \in Terminals
       PROVE  /\ num_process'[u] = 0 <=> active_pid'[u] = None
              /\ u \notin terminals' => num_process'[u] = 0
              /\ num_process'[u] > 0 => parent_pid'[Chain(u)'[1]] = None
              /\ \A i \in 1 .. num_process'[u] :
                    Chain(u)'[i] \in pids' /\ (pc'[Chain(u)'[i]] = "wait" <=> i < num_process'[u])
  <2>1. CASE u = r
    <3>1. u \in terminals /\ parent_pid[s[1]] = None
          /\ \A i \in 1 .. n : pc[s[i]] = "wait" <=> i < n
      BY <1>5, <1>6, <2>1 DEF Linked
    <3>2. 1 \in 1 .. m /\ Chain(u)'[1] = s[1] /\ parent_pid'[s[1]] = None
      BY <1>1, <1>4, <1>9, <1>11, <1>14, <2>1, <3>1
    <3>3. ASSUME NEW i \in 1 .. m
          PROVE  Chain(u)'[i] \in pids' /\ (pc'[Chain(u)'[i]] = "wait" <=> i < m)
      <4>1. Chain(u)'[i] = s[i] /\ s[i] \in pids /\ s[i] # p /\ s[i] \in Pids /\ i \in 1 .. n
        BY <1>1, <1>11, <1>14, <2>1
      <4>2. CASE i = m
        BY <1>3, <1>4, <1>10, <4>1, <4>2
      <4>3. CASE i # m
        <5>1. s[i] # b /\ i < m /\ i < n
          BY <1>8, <1>9, <1>10, <4>1, <4>3
        <5>2. pc'[s[i]] = "wait"
          BY <1>4, <3>1, <4>1, <5>1
        <5> QED BY <1>3, <4>1, <5>1, <5>2
      <4> QED BY <4>2, <4>3
    <3> QED BY <1>3, <1>4, <1>14, <2>1, <3>1, <3>2, <3>3
  <2>2. CASE u # r
    <3>1. num_process[u] \in Nat
      BY <1>1 DEF LaunchTyped
    <3>2. num_process[u] > 0 => 1 \in 1 .. num_process[u]
      BY <3>1
    <3>3. \A i \in 1 .. num_process[u] : /\ pc'[Chain(u)[i]] = pc[Chain(u)[i]]
                                         /\ parent_pid'[Chain(u)[i]] = parent_pid[Chain(u)[i]]
                                         /\ Chain(u)[i] \in pids'
      BY <1>1, <1>3, <1>4, <1>13, <2>2
    <3> QED BY <1>3, <1>4, <1>13, <2>2, <3>1, <3>2, <3>3 DEF Linked
  <2> QED BY <2>1, <2>2
<1>16. ASSUME NEW u \in Terminals, NEW v \in Terminals,
              NEW i \in 1 .. num_process'[u], NEW j \in 1 .. num_process'[v],
              Chain(u)'[i] = Chain(v)'[j]
       PROVE  u = v /\ i = j
  <2>1. \A w \in Terminals : \A k \in 1 .. num_process'[w] :
           k \in 1 .. num_process[w] /\ Chain(w)'[k] = Chain(w)[k]
    BY <1>5, <1>6, <1>11, <1>13, <1>14
  <2> QED BY <1>16, <2>1 DEF Linked
<1>17. ASSUME NEW q \in pids'
       PROVE  \E u \in Terminals : \E i \in 1 .. num_process'[u] : Chain(u)'[i] = q
  <2>1. PICK u \in Terminals : \E i \in 1 .. num_process[u] : Chain(u)[i] = q
    BY <1>3 DEF Linked
  <2>2. PICK i \in 1 .. num_process[u] : Chain(u)[i] = q
    BY <2>1
  <2>3. CASE u = r
    <3>1. i \in 1 .. m
      BY <1>3, <1>5, <1>6, <1>9, <1>10, <2>2, <2>3
    <3> QED BY <1>6, <1>14, <2>2, <2>3, <3>1
  <2>4. CASE u # r
    BY <1>13, <2>2, <2>4
  <2> QED BY <2>3, <2>4
<1>18. \A q \in Pids : q \in pids' <=> pc'[q] # "free"
  <2>1. b \in pids
    BY <1>8, <1>10
  <2> QED BY <1>3, <1>4, <2>1 DEF Linked
<1>19. Linked'
  BY <1>15, <1>16, <1>17, <1>18 DEF Linked
<1> QED BY <1>4, <1>5, <1>6, <1>12, <1>13, <1>19

\* The chains as the stacks of the abstract terminals.
LEMMA ChainIsSequence ==
  ASSUME NEW s, NEW n \in Nat, NEW S, s = [i \in 1 .. n |-> s[i]], \A i \in 1 .. n : s[i] \in S
  PROVE  s \in Seq(S) /\ Len(s) = n /\ DOMAIN s = 1 .. n
<1>1. s \in [1 .. n -> S]
  OBVIOUS
<1> QED BY <1>1

LEMMA MappedStacks ==
  ASSUME TypeOK, Linked
  PROVE  /\ \A t \in Terminals : /\ Chain(t) \in Seq(Pids)
                                 /\ Len(Chain(t)) = num_process[t]
                                 /\ DOMAIN Chain(t) = 1 .. num_process[t]
         /\ Abstract!InUse = pids
<1>1. ASSUME NEW t \in Terminals
      PROVE  /\ Chain(t) \in Seq(Pids) /\ Len(Chain(t)) = num_process[t]
             /\ DOMAIN Chain(t) = 1 .. num_process[t]
  <2>1. PICK n \in Nat : n = num_process[t]
    BY DEF TypeOK, LaunchTyped
  <2>2. PICK s : s = Chain(t)
    OBVIOUS
  <2>3. Follows(s, active_pid[t], n, parent_pid)
    BY <2>1, <2>2, ChainShape DEF Chain
  <2>4. \A i \in 1 .. n : s[i] \in Pids
    BY <2>1, <2>2 DEF Linked, TypeOK, LaunchTyped
  <2>5. s = [i \in 1 .. n |-> s[i]]
    BY <2>3 DEF Follows
  <2>6. s \in Seq(Pids) /\ Len(s) = n /\ DOMAIN s = 1 .. n
    BY <2>4, <2>5, ChainIsSequence
  <2> QED BY <2>1, <2>2, <2>6
<1>2. \A q : q \in Abstract!InUse <=> \E t \in Terminals : \E i \in 1 .. num_process[t] : Chain(t)[i] = q
  BY <1>1 DEF Abstract!InUse, Abstract!ToSet
<1>3. \A q : q \in Abstract!InUse <=> q \in pids
  BY <1>2 DEF Linked
<1> QED BY <1>1, <1>3

LEMMA ExtendIsAppend ==
  ASSUME NEW S, NEW s \in Seq(S), NEW c \in S
  PROVE  Extend(s, Len(s), c) = Append(s, c)
<1>1. PICK n \in Nat : n = Len(s)
  OBVIOUS
<1>2. PICK e : e = Append(s, c)
  OBVIOUS
<1>3. Len(e) = n + 1 /\ e \in Seq(S) /\ \A i \in 1 .. n + 1 : e[i] = IF i = n + 1 THEN c ELSE s[i]
  BY <1>1, <1>2, AppendProperties
<1>4. e \in [1 .. n + 1 -> S]
  BY <1>3
<1>5. e = [i \in 1 .. n + 1 |-> IF i = n + 1 THEN c ELSE s[i]]
  BY <1>3, <1>4
<1> QED BY <1>1, <1>2, <1>5 DEF Extend

\* A step that keeps the chains, the running terminal and the displayed one.
LEMMA StackStutter ==
  ASSUME \A t \in Terminals : Chain(t)' = Chain(t),
         cur_terminal_running' = cur_terminal_running, cur_terminal' = cur_terminal
  PROVE  UNCHANGED Abstract!avars
BY DEF Abstract!avars

\* What a step does to one chain it does to the abstract stacks.
LEMMA StackUpdate ==
  ASSUME NEW t \in Terminals, NEW s, Chain(t)' = s,
         \A u \in Terminals \ {t} : Chain(u)' = Chain(u)
  PROVE  [u \in Terminals |-> Chain(u)]' = [[u \in Terminals |-> Chain(u)] EXCEPT ![t] = s]
OBVIOUS

LEMMA ChainIsSingle ==
  ASSUME NEW t \in Terminals, num_process'[t] = 1, NEW p, Chain(t)'[1] = p
  PROVE  Chain(t)' = <<p>>
<1>1. PICK n \in Nat : n = 1
  OBVIOUS
<1>2. PICK a, q, s : a = active_pid'[t] /\ q = parent_pid' /\ s = ChainOf(a, n, q)
  OBVIOUS
<1>3. Chain(t)' = ChainOf(active_pid'[t], num_process'[t], parent_pid')
  BY DEF Chain
<1>4. Follows(s, a, n, q) /\ s = Chain(t)'
  BY <1>1, <1>2, <1>3, ChainShape
<1>5. s = [i \in 1 .. 1 |-> s[i]] /\ s[1] = p
  BY <1>1, <1>4 DEF Follows
<1>6. s = <<p>>
  BY <1>5
<1> QED BY <1>4, <1>6

\* A launch on a terminal without processes opens it; one in place of the only
\* process restarts it.
LEMMA LaunchImplements ==
  ASSUME TypeOK, Linked,
         NEW p \in Pids, NEW t \in Terminals, NEW used, NEW shells, NEW f, NEW pcs, NEW suspended,
         LaunchShell(p, t, used, shells, f, pcs, suspended),
         num_process'[t] = 1, Chain(t)'[1] = p,
         \A u \in Terminals \ {t} : Chain(u)' = Chain(u)
  PROVE  /\ num_process[t] = 0 /\ p \notin pids => Abstract!Open(t)
         /\ /\ num_process[t] = 1 /\ t = cur_terminal_running
            /\ p \notin pids \/ p = Chain(t)[1]
            => Abstract!Restart
<1> DEFINE st == [u \in Terminals |-> Chain(u)]
<1>1. st' = [st EXCEPT ![t] = <<p>>]
  <2>1. Chain(t)' = <<p>>
    BY ChainIsSingle
  <2> QED BY <2>1, StackUpdate
<1>2. cur_terminal_running' = t /\ cur_terminal' \in {cur_terminal, t}
  BY DEF LaunchShell, ShowTerminal
<1>3. /\ Chain(t) \in Seq(Pids) /\ Len(Chain(t)) = num_process[t]
      /\ Abstract!InUse = pids
  BY MappedStacks
<1>4. st[t] = Chain(t)
  OBVIOUS
<1> HIDE DEF st
<1>5. ASSUME num_process[t] = 0, p \notin pids
      PROVE  Abstract!Open(t)
  <2>1. st[t] = <<>>
    BY <1>3, <1>4, <1>5
  <2> QED BY <1>1, <1>2, <1>3, <1>5, <2>1 DEF Abstract!Open, st
<1>6. ASSUME num_process[t] = 1, t = cur_terminal_running, p \notin pids \/ p = Chain(t)[1]
      PROVE  Abstract!Restart
  <2>1. Len(st[t]) = 1 /\ Abstract!Last(st[t]) = Chain(t)[1]
    BY <1>3, <1>4, <1>6 DEF Abstract!Last
  <2> QED BY <1>1, <1>2, <1>3, <1>6, <2>1 DEF Abstract!Restart, Abstract!Top, st
<1> QED BY <1>5, <1>6

LEMMA NextImplements ==
  IInv /\ Linked /\ [Next]_vars => Linked' /\ [Abstract!ANext]_(Abstract!avars)
<1> SUFFICES ASSUME IInv, Linked, [Next]_vars
             PROVE  Linked' /\ [Abstract!ANext]_(Abstract!avars)
  OBVIOUS
<1> USE HelperTypes
<1>1. TypeOK /\ LaunchTyped /\ pids \subseteq Pids /\ pc \in [Pids -> Locations]
  BY DEF IInv, TypeOK, LaunchTyped
<1>2. PICK r \in Terminals : r = cur_terminal_running
  BY <1>1 DEF LaunchTyped
<1>3. /\ \A t \in Terminals : Chain(t) \in Seq(Pids) /\ Len(Chain(t)) = num_process[t]
      /\ Abstract!InUse = pids
  BY <1>1, MappedStacks
<1>4. \A q \in Pids : q \in pids <=> pc[q] # "free"
  BY DEF Linked
<1>5. ASSUME UNCHANGED <<terminals, active_pid, num_process, pids, parent_pid>>,
             \A p \in Pids : /\ pc'[p] = "wait" <=> pc[p] = "wait"
                             /\ pc'[p] = "free" <=> pc[p] = "free"
      PROVE  /\ Linked' /\ \A t \in Terminals : Chain(t)' = Chain(t)
             /\ UNCHANGED <<cur_terminal_running, cur_terminal>> => UNCHANGED Abstract!avars
  <2>1. Linked' /\ \A t \in Terminals : Chain(t)' = Chain(t)
    BY <1>1, <1>5, LinkedSame
  <2> QED BY <2>1, StackStutter
<1>6. CASE Boot
  <2>1. PICK p \in Pids : LaunchShell(p, 1, {}, 0, Own(0), pc, {})
    BY <1>6 DEF Boot
  <2>2. /\ terminals = {1} /\ terminals' = {1} /\ pids = {}
        /\ \A t \in Terminals : num_process[t] = 0
    BY <1>6 DEF Boot, IInv, BootOk, Linked
  <2>3. terminals' = terminals \cup {1} /\ HeldElsewhere(1, {}) /\ Locates(pc, {})
    BY <1>4, <2>2 DEF HeldElsewhere, Locates
  <2>4. /\ Linked' /\ num_process'[1] = 1 /\ Chain(1)'[1] = p
        /\ \A u \in Terminals \ {1} : Chain(u)' = Chain(u)
    BY <1>1, <2>1, <2>2, <2>3, LaunchLinked
  <2>5. Abstract!Open(1)
    BY <1>1, <2>1, <2>2, <2>4, LaunchImplements
  <2> QED BY <2>4, <2>5 DEF Abstract!ANext
<1>7. CASE SwitchTasks
  <2>1. PICK t \in Terminals : t \in terminals /\ cur_terminal_running' = t
    BY <1>7 DEF SwitchTasks, IsNextActive
  <2>2. cur_pcb # None /\ UNCHANGED <<tables, cur_terminal, pc>>
    BY <1>7 DEF SwitchTasks, InterruptTaken
  <2>3. Linked' /\ \A u \in Terminals : Chain(u)' = Chain(u)
    BY <1>5, <2>2 DEF tables
  <2>4. Chain(t) # <<>>
    <3>1. num_process[t] # 0
      BY <2>1, <2>2 DEF IInv, ActiveOk, Linked
    <3> QED BY <1>3, <3>1
  <2>5. Abstract!Schedule
    BY <2>1, <2>2, <2>3, <2>4 DEF Abstract!Schedule
  <2> QED BY <2>3, <2>5 DEF Abstract!ANext
<1>8. CASE CtrlC
  <2>1. /\ cur_pcb # None /\ UNCHANGED <<tables, cur_terminal, cur_terminal_running>>
        /\ pc' = [pc EXCEPT ![cur_pcb] = "halting"]
    BY <1>8 DEF CtrlC, InterruptTaken, cpu, video
  <2>2. cur_pcb \in pids /\ pc[cur_pcb] # "wait"
    BY <1>1, <2>1 DEF IInv, CpuMatches, ActiveOk, LaunchTyped
  <2>3. \A p \in Pids : /\ pc'[p] = "wait" <=> pc[p] = "wait"
                        /\ pc'[p] = "free" <=> pc[p] = "free"
    BY <1>1, <1>4, <2>1, <2>2
  <2> QED BY <1>5, <2>1, <2>3 DEF tables
<1>9. ASSUME NEW n \in Terminals, AltFnShow(n)
      PROVE  Linked' /\ Abstract!Show
  <2>1. /\ cur_pcb # None /\ UNCHANGED <<tables, cur_terminal_running, pc>>
        /\ n \in terminals /\ cur_terminal' = n
    BY <1>9 DEF AltFnShow, InterruptTaken, ShowTerminal, cpu
  <2>2. Linked' /\ \A u \in Terminals : Chain(u)' = Chain(u)
    BY <1>5, <2>1 DEF tables
  <2>3. Chain(n) # <<>>
    <3>1. num_process[n] # 0
      BY <2>1 DEF IInv, ActiveOk, Linked
    <3> QED BY <1>3, <3>1
  <2> QED BY <2>1, <2>2, <2>3 DEF Abstract!Show
<1>10. ASSUME NEW n \in Terminals, AltFnLaunch(n)
       PROVE  Linked' /\ Abstract!Open(n)
  <2> PICK p \in Pids : \E shells, f, suspended : LaunchShell(p, n, pids, shells, f, pc, suspended)
    BY <1>10 DEF AltFnLaunch
  <2>1. PICK shells, f, suspended : LaunchShell(p, n, pids, shells, f, pc, suspended)
    OBVIOUS
  <2>2. n \notin terminals /\ terminals' = terminals \cup {n} /\ p \notin pids
    BY <1>10, <2>1 DEF AltFnLaunch, LaunchShell, IsAvailable
  <2>3. num_process[n] = 0
    BY <2>2 DEF Linked
  <2>4. HeldElsewhere(n, pids)
    BY <2>3 DEF Linked, HeldElsewhere
  <2>5. Locates(pc, pids)
    BY <1>4 DEF Locates
  <2>6. /\ Linked' /\ num_process'[n] = 1 /\ Chain(n)'[1] = p
        /\ \A u \in Terminals \ {n} : Chain(u)' = Chain(u)
    BY <1>1, <2>1, <2>2, <2>4, <2>5, LaunchLinked
  <2> QED BY <1>1, <2>1, <2>2, <2>3, <2>6, LaunchImplements
<1>11. ASSUME NEW p \in Pids, NEW c \in Pids, ExecuteChild(p, c)
       PROVE  Linked' /\ Abstract!Push
  <2>1. /\ Linked' /\ c \notin pids /\ num_process[r] > 0
        /\ Chain(r)' = Extend(Chain(r), num_process[r], c)
        /\ \A u \in Terminals \ {r} : Chain(u)' = Chain(u)
    BY <1>2, <1>11, ChildLinked
  <2>2. UNCHANGED <<cur_terminal_running, cur_terminal>>
    BY <1>11 DEF ExecuteChild, video
  <2> DEFINE st == [u \in Terminals |-> Chain(u)]
  <2>3. PICK s \in Seq(Pids) : s = Chain(r) /\ Len(s) = num_process[r]
    BY <1>3
  <2>4. Extend(s, Len(s), c) = Append(s, c)
    BY ExtendIsAppend
  <2>5. st' = [st EXCEPT ![r] = Append(s, c)]
    <3>1. Chain(r)' = Append(s, c)
      BY <2>1, <2>3, <2>4
    <3> QED BY <2>1, <3>1, StackUpdate
  <2>6. st[r] = s /\ s # <<>>
    BY <2>1, <2>3
  <2> QED BY <1>2, <1>3, <2>1, <2>2, <2>5, <2>6 DEF Abstract!Push
<1>12. ASSUME NEW p \in Pids, HaltToParent(p)
       PROVE  Linked' /\ Abstract!Pop
  <2>1. /\ Linked' /\ num_process[r] > 1
        /\ Chain(r)' = Shorten(Chain(r), num_process[r])
        /\ \A u \in Terminals \ {r} : Chain(u)' = Chain(u)
    BY <1>2, <1>12, ParentLinked
  <2>2. UNCHANGED <<cur_terminal_running, cur_terminal>>
    BY <1>12 DEF HaltToParent, video
  <2> DEFINE st == [u \in Terminals |-> Chain(u)]
  <2>3. PICK s \in Seq(Pids) : s = Chain(r) /\ Len(s) = num_process[r]
    BY <1>3
  <2>4. Shorten(s, Len(s)) = Abstract!Front(s)
    BY <2>1, <2>3 DEF Shorten, Abstract!Front
  <2>5. st' = [st EXCEPT ![r] = Abstract!Front(s)]
    <3>1. Chain(r)' = Abstract!Front(s)
      BY <2>1, <2>3, <2>4
    <3> QED BY <2>1, <3>1, StackUpdate
  <2>6. st[r] = s /\ Len(s) > 1
    BY <2>1, <2>3
  <2> QED BY <1>2, <2>1, <2>2, <2>5, <2>6 DEF Abstract!Pop
<1>13. ASSUME NEW p \in Pids, HaltBaseShell(p)
       PROVE  Linked' /\ Abstract!Restart
  <2> PICK q \in Pids : \E shells, f, suspended :
         LaunchShell(q, r, pids \ {p}, shells, f, [pc EXCEPT ![p] = "free"], suspended)
    BY <1>2, <1>13 DEF HaltBaseShell
  <2>1. PICK shells, f, suspended :
          LaunchShell(q, r, pids \ {p}, shells, f, [pc EXCEPT ![p] = "free"], suspended)
    OBVIOUS
  <2>2. /\ cur_pcb = p /\ p = active_pid[r] /\ p \in pids /\ num_process[r] = 1
        /\ terminals' = terminals
    BY <1>1, <1>2, <1>13 DEF HaltBaseShell, Runs, IInv, CpuMatches, ActiveOk, LaunchTyped
  <2>3. Chain(r)[1] = p
    <3>1. PICK n \in Nat : n = 1
      OBVIOUS
    <3>2. PICK s : s = ChainOf(p, n, parent_pid)
      OBVIOUS
    <3>3. s[1] = p
      BY <3>1, <3>2, ChainShape DEF Follows
    <3> QED BY <2>2, <3>1, <3>2, <3>3 DEF Chain
  <2>4. PICK used \in SUBSET pids, pcs \in [Pids -> Locations] :
           used = pids \ {p} /\ pcs = [pc EXCEPT ![p] = "free"]
    BY <1>1 DEF Locations
  <2>5. Locates(pcs, used)
    BY <1>1, <1>4, <2>2, <2>4 DEF Locates
  <2>6. HeldElsewhere(r, used)
    <3>1. 1 \in 1 .. num_process[r] /\ \A i \in 1 .. num_process[r] : i = 1
      BY <2>2
    <3> QED BY <2>3, <2>4, <3>1 DEF Linked, HeldElsewhere
  <2>7. terminals' = terminals \cup {r}
    <3>1. r \in terminals
      BY <2>2 DEF Linked
    <3> QED BY <2>2, <3>1
  <2>8. LaunchShell(q, r, used, shells, f, pcs, suspended)
    BY <2>1, <2>4
  <2>9. /\ Linked' /\ num_process'[r] = 1 /\ Chain(r)'[1] = q
        /\ \A u \in Terminals \ {r} : Chain(u)' = Chain(u)
    BY <1>1, <2>5, <2>6, <2>7, <2>8, LaunchLinked
  <2>10. q \notin pids \/ q = Chain(r)[1]
    BY <2>3, <2>4, <2>8 DEF LaunchShell, IsAvailable
  <2>11. Abstract!Restart
    BY <1>1, <1>2, <2>2, <2>8, <2>9, <2>10, LaunchImplements
  <2> QED BY <2>9, <2>11
<1>14. ASSUME NEW p \in Pids,
              \/ ExecuteFails(p) \/ Vidmap(p) \/ Exit(p) \/ Exception(p)
              \/ CountShell(p) \/ EnterUser(p) \/ HaltSeesScreen(p)
       PROVE  Linked' /\ UNCHANGED Abstract!avars
  <2>1. /\ cur_pcb = p /\ p # None
        /\ UNCHANGED <<terminals, active_pid, num_process, pids, parent_pid>>
        /\ UNCHANGED <<cur_terminal_running, cur_terminal>>
    BY <1>14 DEF ExecuteFails, Vidmap, Exit, Exception, CountShell, EnterUser, HaltSeesScreen,
       Runs, tables, cpu, video
  <2>2. \A q \in Pids : pc'[q] = pc[q] \/ (pc[q] \notin {"wait", "free"} /\ pc'[q] \notin {"wait", "free"})
    BY <1>1, <1>14 DEF ExecuteFails, Vidmap, Exit, Exception, CountShell, EnterUser, HaltSeesScreen, Runs
  <2>3. \A q \in Pids : /\ pc'[q] = "wait" <=> pc[q] = "wait"
                        /\ pc'[q] = "free" <=> pc[q] = "free"
    BY <2>2
  <2> QED BY <1>5, <2>1, <2>3
<1>15. CASE UNCHANGED vars
  BY <1>5, <1>15 DEF vars, tables, cpu, video
<1>16. CASE Keyboard
  BY <1>8, <1>9, <1>10, <1>16 DEF Keyboard, Abstract!ANext
<1>17. ASSUME NEW p \in Pids, UserStep(p) \/ KernelStep(p)
       PROVE  Linked' /\ [Abstract!ANext]_(Abstract!avars)
  BY <1>11, <1>12, <1>13, <1>14, <1>17 DEF UserStep, KernelStep, Abstract!ANext
<1> QED BY <1>6, <1>7, <1>15, <1>16, <1>17 DEF Next

\* A list without repetition has as many members as entries.
LEMMA ListMembers ==
  ASSUME NEW n \in Nat, NEW s, NEW m, m = {s[i] : i \in 1 .. n},
         \A i, j \in 1 .. n : s[i] = s[j] => i = j
  PROVE  Cardinality(m) = n
<1>1. Cardinality(1 .. n) = n /\ IsFiniteSet(1 .. n)
  <2>1. /\ IsFiniteSet(1 .. n)
        /\ Cardinality(1 .. n) = IF 1 > n THEN 0 ELSE n - 1 + 1
    BY 1 \in Int, n \in Int, FS_Interval
  <2>2. (IF 1 > n THEN 0 ELSE n - 1 + 1) = n
    OBVIOUS
  <2> QED BY <2>1, <2>2
<1> DEFINE f == [i \in 1 .. n |-> s[i]]
<1>2. f \in Bijection(1 .. n, m)
  BY DEF Bijection, Injection, Surjection, IsInjective
<1>3. ExistsBijection(1 .. n, m)
  BY <1>2 DEF ExistsBijection
<1> QED BY <1>1, <1>3, FS_Bijection

LEMMA LinkedPartitions == TypeOK /\ Linked => ChainsPartition
<1> SUFFICES ASSUME TypeOK, Linked
             PROVE  ChainsPartition
  OBVIOUS
<1>1. ASSUME NEW t \in Terminals
      PROVE  /\ num_process[t] \in Nat
             /\ \A q : q \in Members(t) <=> \E i \in 1 .. num_process[t] : Chain(t)[i] = q
  <2>1. num_process[t] \in Nat /\ DOMAIN Chain(t) = 1 .. num_process[t]
    BY MappedStacks DEF TypeOK, LaunchTyped
  <2> QED BY <2>1 DEF Members
<1>2. ASSUME NEW t \in Terminals
      PROVE  Cardinality(Members(t)) = num_process[t]
  <2>1. PICK n \in Nat : n = num_process[t]
    BY <1>1
  <2>2. PICK s, m : s = Chain(t) /\ m = Members(t)
    OBVIOUS
  <2>3. m = {s[i] : i \in 1 .. n}
    BY <1>1, <2>1, <2>2
  <2>4. \A i, j \in 1 .. n : s[i] = s[j] => i = j
    BY <2>1, <2>2 DEF Linked
  <2> QED BY <2>1, <2>2, <2>3, <2>4, ListMembers
<1>3. ASSUME NEW t \in Terminals, num_process[t] > 0
      PROVE  /\ parent_pid[Chain(t)[1]] = None
             /\ \A i \in 1 .. num_process[t] : (pc[Chain(t)[i]] = "wait") = (i < num_process[t])
             /\ Cardinality(Members(t)) = num_process[t]
  BY <1>1, <1>2, <1>3 DEF Linked
<1>4. ASSUME NEW t \in Terminals, NEW u \in Terminals, t # u
      PROVE  Members(t) \cap Members(u) = {}
  BY <1>1, <1>4 DEF Linked
<1>5. pids = UNION {Members(t) : t \in Terminals}
  BY <1>1 DEF Linked
<1>6. \A p \in Pids : p \in pids <=> pc[p] # "free"
  BY DEF Linked
<1> QED BY <1>3, <1>4, <1>5, <1>6 DEF ChainsPartition

\* At boot the chains are empty.
LEMMA InitLinked == Init => Linked /\ Abstract!AInit
<1> SUFFICES ASSUME Init
             PROVE  Linked /\ Abstract!AInit
  OBVIOUS
<1>1. \A t \in Terminals : num_process[t] = 0 /\ active_pid[t] = None
  BY DEF Init
<1>2. TypeOK
  BY InitIInv DEF IInv
<1>3. Linked
  BY <1>1, HelperTypes DEF Init, Linked
<1>4. \A t \in Terminals : Chain(t) = <<>>
  BY <1>1, <1>2, <1>3, MappedStacks
<1> QED BY <1>3, <1>4, <1>2 DEF Abstract!AInit, Init, TypeOK, LaunchTyped

\* At every moment the terminals' chains of processes partition the pids in
\* use, and just the processes above the active one wait in execute().
THEOREM ChainsKept == Spec => []ChainsPartition
<1>1. IInv => TypeOK
  BY DEF IInv
<1> QED BY <1>1, InitLinked, NextImplements, LinkedPartitions, Invariance, PTL DEF Spec

\* execute(), halt(), the keyboard and the PIT do to the terminals' processes
\* what the abstract stacks allow, however they interleave.
THEOREM StacksImplemented == Spec => ImplementsStacks
BY InitLinked, NextImplements, Invariance, PTL DEF Spec, ImplementsStacks, Abstract!ASpec
=============================================================================
