-------------------------- MODULE AbstractTerminals --------------------------
(***************************************************************************)
(* What the process layer of the ECE391 kernel promises.  Every terminal   *)
(* owns a stack of processes, a base shell at the bottom; only the top of  *)
(* the stack of the running terminal executes.  It may push a program or   *)
(* leave, and when a base shell leaves another takes its place.  The CPU   *)
(* may be given to any terminal that has a shell, and the screen too.      *)
(***************************************************************************)
EXTENDS Integers, SequencesExt

CONSTANTS Pid, Terminal

VARIABLES stack,    \* processes of each terminal, base shell first
          onCpu,    \* terminal whose process runs
          onScreen  \* terminal that is displayed

avars == <<stack, onCpu, onScreen>>

InUse == UNION {ToSet(stack[t]) : t \in Terminal}
Top(t) == Last(stack[t])

AInit == /\ stack = [t \in Terminal |-> <<>>]
         /\ onCpu \in Terminal
         /\ onScreen = onCpu

\* A terminal gets its first shell and the CPU; it may be shown at once.
Open(t) == /\ stack[t] = <<>>
           /\ \E p \in Pid \ InUse : stack' = [stack EXCEPT ![t] = <<p>>]
           /\ onCpu' = t
           /\ onScreen' \in {onScreen, t}

\* The running process starts a program and waits for it.
Push == /\ stack[onCpu] # <<>>
        /\ \E p \in Pid \ InUse : stack' = [stack EXCEPT ![onCpu] = Append(@, p)]
        /\ UNCHANGED <<onCpu, onScreen>>

\* The running process ends and the one below it goes on.
Pop == /\ Len(stack[onCpu]) > 1
       /\ stack' = [stack EXCEPT ![onCpu] = Front(@)]
       /\ UNCHANGED <<onCpu, onScreen>>

\* A base shell ends and is replaced, possibly under the same pid.
Restart == /\ Len(stack[onCpu]) = 1
           /\ \E p \in (Pid \ InUse) \cup {Top(onCpu)} : stack' = [stack EXCEPT ![onCpu] = <<p>>]
           /\ onScreen' \in {onScreen, onCpu}
           /\ UNCHANGED onCpu

Schedule == /\ \E t \in Terminal : stack[t] # <<>> /\ onCpu' = t
            /\ UNCHANGED <<stack, onScreen>>

Show == /\ \E t \in Terminal : stack[t] # <<>> /\ onScreen' = t
        /\ UNCHANGED <<stack, onCpu>>

ANext == (\E t \in Terminal : Open(t)) \/ Push \/ Pop \/ Restart \/ Schedule \/ Show

ASpec == AInit /\ [][ANext]_avars
=============================================================================
