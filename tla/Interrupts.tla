---- MODULE Interrupts ----
(***************************************************************************)
(* How the kernel boots and takes interrupts: entry() and the init         *)
(* functions it calls, the IDT's gates, the two 8259s and send_eoi(), and  *)
(* the three device handlers as far as the end of interrupt, the device    *)
(* and the interrupt flag go.  What handlers do to processes, terminals    *)
(* and the screen is in Scheduler, TerminalInput, Screen and Rtc.          *)
(*                                                                         *)
(* An instruction of the kernel's here is a stretch without a change of    *)
(* the interrupt flag; devices raise requests between any two of them.     *)
(***************************************************************************)
EXTENDS Integers, Sequences, SequencesExt

CONSTANTS
    Tasks,          \* processes that the scheduler switches between, 1 first
    BootKeys        \* kinds of keys pressed before the first shell runs

ASSUME InterruptsAssumption ==
    /\ Tasks \subseteq Nat /\ 1 \in Tasks
    /\ BootKeys \subseteq {"char", "alt_fn", "ctrl_c"}

None == -1
PIT_IRQ == 0
KEYBOARD_IRQ == 1
RTC_IRQ == 8
Devices == {PIT_IRQ, KEYBOARD_IRQ, RTC_IRQ}
Lines == Devices \cup {2}       \* of those, what hangs on the slave is 8 and up

VARIABLES
    boot,           \* the step of entry() that is next
    value,          \* what enable_irq has read
    initialised,    \* devices whose data structures are set up
    shells,         \* boot_num_shells is at least this: 0, 1 or 2
    eflags,         \* the CPU's interrupt flag
    current,        \* the task whose kernel stack is in use
    stacks,         \* task -> its frames, the last on top
    masked, irr, isr,       \* both 8259s
    unread,         \* devices that wait for their data to be read
    key,            \* the kind of key that waits
    recent,         \* devices that requested since the last instruction outside handlers
    fault           \* history: cur_pcb was followed while NULL

kernel == <<boot, value, initialised, shells, fault>>
pic == <<masked, irr, isr>>
devices == <<unread, key, recent>>
vars == <<kernel, eflags, current, stacks, pic, devices>>

---------------------------------------------------------------------------
(* init_idt.  A trap gate leaves the interrupt flag alone. *)

INTEL_RESERVED == 32
PIT_VECTOR == 32
KEYBOARD_VECTOR == 33
RTC_VECTOR == 40
SYSTEM_CALL_VECTOR == 128

\* Mutant: every gate is filled like the first ones.
TrapGate_All(vector) == TRUE
TrapGate(vector) == vector < INTEL_RESERVED \/ vector = SYSTEM_CALL_VECTOR

\* The device a vector's linkage handles.
Handler(vector) ==
    CASE vector = KEYBOARD_VECTOR -> KEYBOARD_IRQ
      [] vector = RTC_VECTOR -> RTC_IRQ
      [] vector = PIT_VECTOR -> PIT_IRQ
      [] OTHER -> None

---------------------------------------------------------------------------
(* The 8259s: a request passes if it is not masked and no request of its
   priority or above is in service; the slave's pass through line 2. *)

Slave(irq) == irq >= 8

Outranked(irq, served) == \E other \in served : Slave(irq) = Slave(other) /\ other <= irq

Passes(irq) ==
    /\ irq \in irr \ masked
    /\ ~Outranked(irq, isr)
    /\ Slave(irq) => 2 \notin masked /\ ~Outranked(2, isr)

\* Priorities 0, 1, 8 .. 15 (in the place of 2).
Pending == {irq \in Devices : Passes(irq) /\ \A other \in Devices : Passes(other) => irq <= other}

Accept(irq) ==
    /\ irr' = irr \ {irq}
    /\ isr' = isr \cup {irq} \cup (IF Slave(irq) THEN {2} ELSE {})

ICW2_MASTER == 32
ICW2_SLAVE == 40
Vector(irq) == IF Slave(irq) THEN ICW2_SLAVE + irq - 8 ELSE ICW2_MASTER + irq

\* Mutant: the master is not told of a slave's end of interrupt.
send_eoi_SlaveOnly(irq) == isr' = isr \ {irq}
send_eoi(irq) == isr' = isr \ (IF irq > 7 THEN {irq, 2} ELSE {irq})

\* The master or slave lines of mask register value with irq's bit cleared.
MaskRegister(irq) == {line \in Lines : Slave(line) = Slave(irq)}

---------------------------------------------------------------------------
(* entry() *)

\* Mutant: interrupts are turned on before the keyboard's data is set up.
BootSteps_KeyboardLast ==
    <<"init_idt", "i8259_init", "read_2", "write_2", "rtc_init", "sti", "read_8", "write_8",
      "cli", "pit_init", "sti", "read_0", "write_0", "read_1", "write_1", "keyboard_init",
      "clear", "cli", "execute">>
\* enable_irq reads the mask of a line's 8259 and writes it back.
BootSteps ==
    <<"init_idt", "i8259_init", "read_2", "write_2", "read_1", "write_1", "keyboard_init",
      "cli", "rtc_init", "sti", "read_8", "write_8",
      "cli", "pit_init", "sti", "read_0", "write_0", "clear", "cli", "execute">>

Booted == boot > Len(BootSteps)

LineOf(step) ==
    CASE step \in {"read_0", "write_0"} -> 0
      [] step \in {"read_1", "write_1"} -> 1
      [] step \in {"read_2", "write_2"} -> 2
      [] step \in {"read_8", "write_8"} -> 8
      [] OTHER -> None

DeviceOf(step) ==
    CASE step = "keyboard_init" -> KEYBOARD_IRQ
      [] step = "rtc_init" -> RTC_IRQ
      [] step = "pit_init" -> PIT_IRQ
      [] OTHER -> None

\* Interrupts are off where the boot loader starts the kernel, the 8259s in
\* the state the firmware left them in.
Init ==
    /\ boot = 1 /\ value = {} /\ initialised = {} /\ shells = 0
    /\ eflags = FALSE
    /\ current = 1 /\ stacks = [t \in Tasks |-> <<>>]
    /\ masked \in SUBSET Lines /\ irr \in SUBSET {PIT_IRQ} /\ isr = {}
    /\ unread = {} /\ key = "none" /\ recent = {}
    /\ fault = FALSE

\* The next step of entry(), with no interrupt being handled.
Boot ==
    LET step == BootSteps[boot]
        irq == LineOf(step)
        reading == step \in {"read_0", "read_1", "read_2", "read_8"}
        writing == irq # None /\ ~reading
    IN  /\ ~Booted /\ stacks[current] = <<>>
        /\ boot' = boot + 1
        /\ initialised' = initialised \cup ({DeviceOf(step)} \ {None})
        /\ value' = IF reading THEN masked \cap MaskRegister(irq) ELSE value
        /\ masked' = IF step = "i8259_init" THEN Lines \ {2}
                     ELSE IF writing THEN (masked \ MaskRegister(irq)) \cup (value \ {irq})
                     ELSE masked
        /\ irr' = IF step = "i8259_init" THEN {} ELSE irr
        /\ isr' = IF step = "i8259_init" THEN {} ELSE isr
        \* execute() ends in the first iret to user mode.
        /\ eflags' = CASE step \in {"sti", "execute"} -> TRUE
                   [] step = "cli" -> FALSE
                   [] OTHER -> eflags
        /\ shells' = IF step = "execute" THEN 1 ELSE shells
        /\ recent' = {}
        /\ UNCHANGED <<current, stacks, unread, key, fault>>

---------------------------------------------------------------------------
(* The CPU takes an interrupt, and the kernel a system call *)

Top == Last(stacks[current])
Push(frame) == stacks' = [stacks EXCEPT ![current] = Append(@, frame)]
SetTop(at) == stacks' = [stacks EXCEPT ![current][Len(stacks[current])].at = at]
TopAt(handler, at) ==
    stacks[current] # <<>> /\ Top.handler = handler /\ Top.at = at

Deliver(irq) ==
    /\ eflags /\ irq \in Pending
    /\ Accept(irq)
    /\ Push([handler |-> Handler(Vector(irq)), irq |-> irq, at |-> "eoi", flags |-> eflags])
    /\ eflags' = (eflags /\ TrapGate(Vector(irq)))
    /\ UNCHANGED <<kernel, current, masked, devices>>

UserInstruction ==
    /\ Booted /\ stacks[current] = <<>>
    /\ recent' = {}
    /\ UNCHANGED <<kernel, eflags, current, stacks, pic, unread, key>>

\* From user mode.  halt() and execute() turn interrupts off before anything
\* else; what they do then is in Scheduler.
SystemCall ==
    /\ Booted /\ stacks[current] = <<>>
    /\ Push([handler |-> SYSTEM_CALL_VECTOR, irq |-> None, at |-> "set_cli", flags |-> eflags])
    /\ eflags' = (eflags /\ TrapGate(SYSTEM_CALL_VECTOR))
    /\ recent' = {}
    /\ UNCHANGED <<kernel, current, pic, unread, key>>

SetCli ==
    /\ TopAt(SYSTEM_CALL_VECTOR, "set_cli")
    /\ SetTop("iret")
    /\ eflags' \in {eflags, FALSE}
    /\ UNCHANGED <<kernel, current, pic, devices>>

---------------------------------------------------------------------------
(* The handlers: end of interrupt, cli(), the device, then popfl and iret *)

Eoi(irq) ==
    /\ TopAt(irq, "eoi")
    /\ send_eoi(irq)
    /\ eflags' = FALSE
    /\ SetTop("body")
    /\ UNCHANGED <<kernel, current, masked, irr, devices>>

\* Alt+Fn ends in make_terminal_active(), which turns interrupts on; it and
\* Ctrl+C follow cur_pcb.
KeyboardInterrupt ==
    /\ TopAt(KEYBOARD_IRQ, "body")
    /\ SetTop("popfl")
    /\ eflags' = (key = "alt_fn")
    /\ fault' = (fault \/ (shells = 0 /\ key \in {"alt_fn", "ctrl_c"}))
    /\ unread' = unread \ {KEYBOARD_IRQ} /\ key' = "none"
    /\ UNCHANGED <<boot, value, initialised, shells, current, pic, recent>>

RtcInterrupt ==
    /\ TopAt(RTC_IRQ, "body")
    /\ SetTop("popfl")
    /\ eflags' = TRUE
    /\ unread' = unread \ {RTC_IRQ}
    /\ UNCHANGED <<kernel, current, pic, key, recent>>

\* get_next_active_terminal, and the process there.
NextActive == IF shells <= 1 THEN {} ELSE {t \in Tasks : t # current}

SwitchTasks ==
    /\ TopAt(PIT_IRQ, "body")
    /\ SetTop("popfl")
    /\ eflags' = TRUE
    /\ IF NextActive = {} THEN UNCHANGED <<current, fault>>
       ELSE current' \in NextActive /\ fault' = (fault \/ shells = 0)
    /\ UNCHANGED <<boot, value, initialised, shells, pic, devices>>

\* The flags pushed by pushfl are those after the gate.
Popfl(irq) ==
    /\ TopAt(irq, "popfl")
    /\ SetTop("iret")
    /\ eflags' = (Top.flags /\ TrapGate(Vector(Top.irq)))
    /\ UNCHANGED <<kernel, current, pic, devices>>

Iret ==
    /\ stacks[current] # <<>> /\ Top.at = "iret"
    /\ stacks' = [stacks EXCEPT ![current] = Front(@)]
    /\ eflags' = Top.flags
    /\ UNCHANGED <<kernel, current, pic, devices>>

\* The other terminals' shells: they have been started, and suspended by the
\* PIT since.
StartShells ==
    /\ shells = 1
    /\ shells' = 2
    /\ stacks' = [t \in Tasks |->
                    IF t = current THEN stacks[t]
                    ELSE <<[handler |-> PIT_IRQ, irq |-> PIT_IRQ, at |-> "popfl", flags |-> TRUE]>>]
    /\ UNCHANGED <<boot, value, initialised, fault, eflags, current, pic, devices>>

---------------------------------------------------------------------------
(* Devices.  None interrupts again before the CPU has run something other
   than handlers: their periods are longer than what the handlers take. *)

Request(irq) ==
    /\ irq \notin recent /\ irq \notin irr
    /\ recent' = recent \cup {irq} /\ irr' = irr \cup {irq}
    /\ UNCHANGED <<kernel, eflags, current, stacks, masked, isr>>

\* The reload value of the firmware runs the PIT before pit_init does.
RaisePit == Request(PIT_IRQ) /\ UNCHANGED <<unread, key>>

\* Periodic interrupts are on after rtc_init.
RaiseRtc ==
    /\ RTC_IRQ \in initialised \ unread
    /\ Request(RTC_IRQ)
    /\ unread' = unread \cup {RTC_IRQ} /\ UNCHANGED key

\* Nothing is typed before the 8259s are set up, which forgets a request.
RaiseKeyboard ==
    /\ boot > 2 /\ KEYBOARD_IRQ \notin unread
    /\ Request(KEYBOARD_IRQ)
    /\ unread' = unread \cup {KEYBOARD_IRQ}
    /\ key' \in IF Booted THEN {"char", "alt_fn"} ELSE BootKeys

---------------------------------------------------------------------------

Interrupted == eflags /\ Pending # {}

\* What the CPU does when it takes no interrupt.
Instruction ==
    \/ Boot \/ UserInstruction \/ SetCli \/ Iret
    \/ \E irq \in Devices : Eoi(irq) \/ Popfl(irq)
    \/ KeyboardInterrupt \/ RtcInterrupt \/ SwitchTasks

\* What the CPU does after a page fault at boot is left out: there is no process to halt.
Next ==
    \/ ~fault /\ ~Interrupted /\ (Instruction \/ SystemCall \/ StartShells)
    \/ ~fault /\ \E irq \in Devices : Deliver(irq)
    \/ RaisePit \/ RaiseRtc \/ RaiseKeyboard

\* The CPU does not stop, and the clocks tick.
Fairness ==
    /\ WF_vars(~fault /\ ((\E irq \in Devices : Deliver(irq)) \/ (~Interrupted /\ Instruction)))
    /\ WF_vars(RaisePit) /\ WF_vars(RaiseRtc)

Spec == Init /\ [][Next]_vars /\ Fairness

---------------------------------------------------------------------------
(* Properties *)

Frames == UNION {{stacks[t][i] : i \in DOMAIN stacks[t]} : t \in Tasks}

\* A handler that has not ended its interrupt is the one that runs, with
\* interrupts off, and is for the line in service; otherwise nothing is in
\* service, whichever tasks are suspended inside a handler.
InServiceIsHandled ==
    LET open == {f \in Frames : f.at = "eoi"} IN
    /\ \A f \in open : stacks[current] # <<>> /\ f = Top /\ f.handler = f.irq /\ ~eflags
    /\ boot > 2 => isr = UNION {{f.irq} \cup (IF Slave(f.irq) THEN {2} ELSE {}) : f \in open}

\* A device is handled only when its data structures have been set up, although
\* rtc_init() turns interrupts on in the middle of the boot, with masks still to
\* be read and written back, whichever keys are pressed.
HandlersReady == \A f \in Frames : f.handler \in Devices => f.handler \in initialised

\* No interrupt follows cur_pcb before there is a process: "If pressed for the
\* first time, it spawns a shell" (alt_fn(), keyboard.c).  A claim about what is
\* pressed during the last third of the boot: with BootKeys = {"char"} it cannot fail.
PcbExists == ~fault

\* The end of an interrupt of any device lets the next one in, in whatever
\* order, depth and task they are handled: both clocks keep being served, and
\* every key is read.
DevicesServed ==
    /\ []<>TopAt(PIT_IRQ, "body") /\ []<>TopAt(RTC_IRQ, "body")
    /\ (KEYBOARD_IRQ \in unread) ~> (KEYBOARD_IRQ \notin unread)
====
