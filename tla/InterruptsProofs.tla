-------------------------- MODULE InterruptsProofs --------------------------
(***************************************************************************)
(* Proofs about Interrupts, for any number of tasks, interrupted at any    *)
(* depth.  IInv is the inductive invariant:                                *)
(*   - Booting says what entry() has masked and set up at each step, the   *)
(*     mask that enable_irq has read and not yet written back included;    *)
(*   - Nesting says where on the stacks a handler can be that has not      *)
(*     ended its interrupt: on top of the one in use, interrupts off;      *)
(*   - Serving ties the 8259s' in-service registers to that frame.         *)
(*                                                                         *)
(* The proofs about Rtc, the driver behind one of the lines, are at the    *)
(* end: for every number of terminals, every scale of the frequencies and  *)
(* every width of the counters.                                            *)
(***************************************************************************)
EXTENDS Interrupts, Rtc, SequenceTheorems, FiniteSetTheorems, TLAPS

FrameSet ==
    [handler : Devices, irq : Devices, at : {"eoi", "body", "popfl", "iret"}, flags : BOOLEAN]
    \cup [handler : {SYSTEM_CALL_VECTOR}, irq : {None}, at : {"set_cli", "iret"}, flags : BOOLEAN]

Typing ==
    /\ boot \in 1 .. 21
    /\ value \subseteq Lines /\ masked \subseteq Lines /\ irr \subseteq Devices /\ isr \subseteq Lines
    /\ initialised \subseteq Devices
    /\ shells \in {0, 1, 2} /\ eflags \in BOOLEAN /\ fault \in BOOLEAN
    /\ current \in Tasks /\ stacks \in [Tasks -> Seq(FrameSet)]

\* PIT_IRQ stays masked to the end of enable_irq(PIT_IRQ), the last of entry(),
\* and RTC_IRQ to that of its own; neither device was set up before.
Booting ==
    /\ boot <= 10 => ~eflags /\ \A t \in Tasks : stacks[t] = <<>>
    /\ boot \in 3 .. 17 => PIT_IRQ \in masked
    /\ boot \in 3 .. 12 => RTC_IRQ \in masked
    /\ boot \in {4, 6} => PIT_IRQ \in value
    /\ boot >= 8 => KEYBOARD_IRQ \in initialised
    /\ boot >= 10 => RTC_IRQ \in initialised
    /\ boot >= 15 => PIT_IRQ \in initialised
    /\ shells # 0 <=> boot = 21

\* A frame of a device is for that device, which is set up.
Handles(f, set) == f.handler \in Devices => f.handler = f.irq /\ f.handler \in set

Nesting ==
    \A t \in Tasks : \A i \in 1 .. Len(stacks[t]) :
        /\ Handles(stacks[t][i], initialised)
        /\ stacks[t][i].at = "eoi" => t = current /\ i = Len(stacks[t]) /\ ~eflags

LinesOf(irq) == {irq} \cup (IF Slave(irq) THEN {2} ELSE {})

InService == stacks[current] # <<>> /\ Top.at = "eoi"

Serving == isr = IF InService THEN LinesOf(Top.irq) ELSE {}

IInv == Typing /\ Booting /\ Nesting /\ Serving

---------------------------------------------------------------------------
(* Vectors and the steps of entry() *)

\* The gate of a device leads to its handler and turns interrupts off.
LEMMA Vectors ==
  ASSUME NEW irq \in Devices
  PROVE  Handler(Vector(irq)) = irq /\ ~TrapGate(Vector(irq))
<1>1. CASE irq = 0
  BY <1>1 DEF Vector, Slave, Handler, TrapGate, ICW2_MASTER, ICW2_SLAVE, PIT_VECTOR,
     KEYBOARD_VECTOR, RTC_VECTOR, SYSTEM_CALL_VECTOR, INTEL_RESERVED, PIT_IRQ, KEYBOARD_IRQ, RTC_IRQ
<1>2. CASE irq = 1
  BY <1>2 DEF Vector, Slave, Handler, TrapGate, ICW2_MASTER, ICW2_SLAVE, PIT_VECTOR,
     KEYBOARD_VECTOR, RTC_VECTOR, SYSTEM_CALL_VECTOR, INTEL_RESERVED, PIT_IRQ, KEYBOARD_IRQ, RTC_IRQ
<1>3. CASE irq = 8
  BY <1>3 DEF Vector, Slave, Handler, TrapGate, ICW2_MASTER, ICW2_SLAVE, PIT_VECTOR,
     KEYBOARD_VECTOR, RTC_VECTOR, SYSTEM_CALL_VECTOR, INTEL_RESERVED, PIT_IRQ, KEYBOARD_IRQ, RTC_IRQ
<1> QED BY <1>1, <1>2, <1>3 DEF Devices, PIT_IRQ, KEYBOARD_IRQ, RTC_IRQ

\* entry() as a table of its 20 steps.
LEMMA Steps ==
  /\ Len(BootSteps) = 20
  /\ BootSteps[1] = "init_idt" /\ BootSteps[2] = "i8259_init"
  /\ BootSteps[3] = "read_2" /\ BootSteps[4] = "write_2"
  /\ BootSteps[5] = "read_1" /\ BootSteps[6] = "write_1"
  /\ BootSteps[7] = "keyboard_init" /\ BootSteps[8] = "cli" /\ BootSteps[9] = "rtc_init"
  /\ BootSteps[10] = "sti" /\ BootSteps[11] = "read_8" /\ BootSteps[12] = "write_8"
  /\ BootSteps[13] = "cli" /\ BootSteps[14] = "pit_init" /\ BootSteps[15] = "sti"
  /\ BootSteps[16] = "read_0" /\ BootSteps[17] = "write_0" /\ BootSteps[18] = "clear"
  /\ BootSteps[19] = "cli" /\ BootSteps[20] = "execute"
BY DEF BootSteps

\* The mask that a step of entry() leaves.
Mask(step, mask, read) ==
    IF step = "i8259_init" THEN Lines \ {2}
    ELSE IF LineOf(step) # None /\ step \notin {"read_0", "read_1", "read_2", "read_8"}
    THEN (mask \ MaskRegister(LineOf(step))) \cup (read \ {LineOf(step)})
    ELSE mask

Reads(step) == step \in {"read_0", "read_1", "read_2", "read_8"}

\* What Boot does, with the constants of its step named.
LEMMA BootDoes ==
  ASSUME NEW step, step = BootSteps[boot], Typing, Boot
  PROVE  /\ boot <= 20 /\ boot' = boot + 1 /\ stacks[current] = <<>>
         /\ initialised' = initialised \cup ({DeviceOf(step)} \ {None})
         /\ value' = IF Reads(step) THEN masked \cap MaskRegister(LineOf(step)) ELSE value
         /\ masked' = Mask(step, masked, value)
         /\ irr' \subseteq irr
         /\ isr' = IF step = "i8259_init" THEN {} ELSE isr
         /\ step \in {"sti", "execute"} => eflags'
         /\ step \notin {"sti", "execute"} => eflags' \in {eflags, FALSE}
         /\ shells' = IF step = "execute" THEN 1 ELSE shells
         /\ UNCHANGED <<current, stacks, key, fault>>
<1>1. ~(boot > 20)
  BY Steps DEF Boot, Booted
<1>2. boot <= 20
  BY <1>1 DEF Typing
<1>3. PICK irq : irq = LineOf(step)
  OBVIOUS
<1>4. masked' = Mask(step, masked, value)
  BY <1>3 DEF Boot, Mask
<1>5. value' = IF Reads(step) THEN masked \cap MaskRegister(LineOf(step)) ELSE value
  BY <1>3 DEF Boot, Reads
<1>6. /\ step \in {"sti", "execute"} => eflags'
      /\ step \notin {"sti", "execute"} => eflags' \in {eflags, FALSE}
  <2>1. eflags' = CASE step \in {"sti", "execute"} -> TRUE
                    [] step = "cli" -> FALSE
                    [] OTHER -> eflags
    BY DEF Boot
  <2>2. CASE step \in {"sti", "execute"}
    BY <2>1, <2>2
  <2>3. CASE step = "cli"
    BY <2>1, <2>3
  <2>4. CASE step \notin {"sti", "execute", "cli"}
    BY <2>1, <2>4
  <2> QED BY <2>2, <2>3, <2>4
<1>7. /\ boot' = boot + 1 /\ stacks[current] = <<>>
      /\ initialised' = initialised \cup ({DeviceOf(step)} \ {None})
      /\ isr' = IF step = "i8259_init" THEN {} ELSE isr
      /\ shells' = IF step = "execute" THEN 1 ELSE shells
      /\ UNCHANGED <<current, stacks, key, fault>>
  BY DEF Boot
<1>8. irr' \subseteq irr
  BY DEF Boot
<1> QED BY <1>2, <1>4, <1>5, <1>6, <1>7, <1>8

\* What the writes of enable_irq leave masked.
LEMMA Masks ==
  ASSUME NEW mask \in SUBSET Lines, NEW read \in SUBSET Lines
  PROVE  /\ PIT_IRQ \in Mask("i8259_init", mask, read) /\ RTC_IRQ \in Mask("i8259_init", mask, read)
         /\ \A step \in {"write_1", "write_2"} :
               /\ PIT_IRQ \in read => PIT_IRQ \in Mask(step, mask, read)
               /\ RTC_IRQ \in mask => RTC_IRQ \in Mask(step, mask, read)
         /\ PIT_IRQ \in mask => PIT_IRQ \in Mask("write_8", mask, read)
         /\ \A step : step \notin {"i8259_init", "write_0", "write_1", "write_2", "write_8"}
               => Mask(step, mask, read) = mask
         /\ \A step : Mask(step, mask, read) \in SUBSET Lines
<1>1. \A step \in {"i8259_init", "write_0", "write_1", "write_2", "write_8"} : ~Reads(step)
  BY DEF Reads
<1>2. /\ LineOf("write_1") = 1 /\ LineOf("write_2") = 2 /\ LineOf("write_8") = 8
      /\ LineOf("i8259_init") = -1
  BY DEF LineOf, None
<1>3. /\ MaskRegister(1) = {0, 1, 2} /\ MaskRegister(2) = {0, 1, 2} /\ MaskRegister(8) = {8}
  BY DEF MaskRegister, Slave, Lines, Devices, PIT_IRQ, KEYBOARD_IRQ, RTC_IRQ
<1>4. PIT_IRQ \in Mask("i8259_init", mask, read) /\ RTC_IRQ \in Mask("i8259_init", mask, read)
  BY DEF Mask, Lines, Devices, PIT_IRQ, KEYBOARD_IRQ, RTC_IRQ
<1>5. Mask("write_1", mask, read) = (mask \ {0, 1, 2}) \cup (read \ {1})
  BY <1>2, <1>3 DEF Mask, None
<1>6. Mask("write_2", mask, read) = (mask \ {0, 1, 2}) \cup (read \ {2})
  BY <1>2, <1>3 DEF Mask, None
<1>7. Mask("write_8", mask, read) = (mask \ {8}) \cup (read \ {8})
  BY <1>2, <1>3 DEF Mask, None
<1>8. ASSUME NEW step, step \notin {"i8259_init", "write_0", "write_1", "write_2", "write_8"}
      PROVE  Mask(step, mask, read) = mask
  <2>1. LineOf(step) = None \/ Reads(step)
    BY <1>8 DEF LineOf, Reads, None
  <2> QED BY <1>8, <2>1 DEF Mask, Reads
<1>9. \A step : Mask(step, mask, read) \in SUBSET Lines
  BY DEF Mask
<1> QED BY <1>4, <1>5, <1>6, <1>7, <1>8, <1>9 DEF PIT_IRQ, RTC_IRQ

LEMMA BootBooting ==
  ASSUME Typing, Booting, Boot
  PROVE  Typing' /\ Booting'
<1>1. PICK step : step = BootSteps[boot]
  OBVIOUS
<1>2. /\ boot <= 20 /\ boot' = boot + 1 /\ stacks[current] = <<>>
      /\ initialised' = initialised \cup ({DeviceOf(step)} \ {None})
      /\ value' = IF Reads(step) THEN masked \cap MaskRegister(LineOf(step)) ELSE value
      /\ masked' = Mask(step, masked, value)
      /\ irr' \subseteq irr
      /\ isr' = IF step = "i8259_init" THEN {} ELSE isr
      /\ step \in {"sti", "execute"} => eflags'
      /\ step \notin {"sti", "execute"} => eflags' \in {eflags, FALSE}
      /\ shells' = IF step = "execute" THEN 1 ELSE shells
      /\ UNCHANGED <<current, stacks, key, fault>>
  BY <1>1, BootDoes
<1>3. masked \in SUBSET Lines /\ value \in SUBSET Lines /\ boot \in 1 .. 20
  BY <1>2 DEF Typing
<1>4. Typing'
  <2>1. eflags' \in BOOLEAN
    BY <1>2 DEF Typing, Boot
  <2>2. masked' \subseteq Lines /\ value' \subseteq Lines
    BY <1>2, <1>3, Masks
  <2>3. initialised' \subseteq Devices
    <3>1. {DeviceOf(step)} \ {None} \subseteq Devices
      BY DEF DeviceOf, Devices
    <3> QED BY <1>2, <3>1 DEF Typing
  <2> QED BY <1>2, <1>3, <2>1, <2>2, <2>3 DEF Typing
<1>5. boot' <= 10 => ~eflags' /\ \A t \in Tasks : stacks'[t] = <<>>
  <2>1. ASSUME boot <= 9
        PROVE  step \notin {"sti", "execute"}
    BY <1>1, <1>3, <2>1, Steps
  <2>2. boot' <= 10 => boot <= 9
    BY <1>2, <1>3
  <2>3. ASSUME boot <= 9
        PROVE  ~eflags' /\ \A t \in Tasks : stacks'[t] = <<>>
    <3>1. ~eflags /\ \A t \in Tasks : stacks[t] = <<>>
      BY <1>3, <2>3 DEF Booting
    <3>2. step \notin {"sti", "execute"} => eflags' \in {eflags, FALSE}
      BY <1>2
    <3>3. ~eflags'
      BY <2>1, <2>3, <3>1, <3>2
    <3>4. stacks' = stacks
      BY <1>2
    <3> QED BY <3>1, <3>3, <3>4
  <2> QED BY <2>2, <2>3
<1>6. boot' \in 3 .. 17 => PIT_IRQ \in masked'
  <2>1. CASE boot = 2
    BY <1>1, <1>2, <1>3, <2>1, Steps, Masks
  <2>2. CASE boot \in {4, 6}
    <3>1. step \in {"write_1", "write_2"} /\ PIT_IRQ \in value
      BY <1>1, <2>2, Steps DEF Booting
    <3> QED BY <1>2, <1>3, <3>1, Masks
  <2>3. CASE boot = 12
    <3>1. step = "write_8" /\ PIT_IRQ \in masked
      BY <1>1, <2>3, Steps DEF Booting
    <3> QED BY <1>2, <1>3, <3>1, Masks
  <2>4. CASE boot \in 3 .. 16 /\ boot \notin {4, 6, 12}
    <3>1. step \notin {"i8259_init", "write_0", "write_1", "write_2", "write_8"}
      BY <1>1, <2>4, Steps
    <3>2. PIT_IRQ \in masked
      BY <2>4 DEF Booting
    <3> QED BY <1>2, <1>3, <3>1, <3>2, Masks
  <2> QED BY <1>2, <1>3, <2>1, <2>2, <2>3, <2>4
<1>7. boot' \in 3 .. 12 => RTC_IRQ \in masked'
  <2>1. CASE boot = 2
    BY <1>1, <1>2, <1>3, <2>1, Steps, Masks
  <2>2. CASE boot \in {4, 6}
    <3>1. step \in {"write_1", "write_2"} /\ RTC_IRQ \in masked
      BY <1>1, <2>2, Steps DEF Booting
    <3> QED BY <1>2, <1>3, <3>1, Masks
  <2>3. CASE boot \in 3 .. 11 /\ boot \notin {4, 6}
    <3>1. step \notin {"i8259_init", "write_0", "write_1", "write_2", "write_8"}
      BY <1>1, <2>3, Steps
    <3>2. RTC_IRQ \in masked
      BY <2>3 DEF Booting
    <3> QED BY <1>2, <1>3, <3>1, <3>2, Masks
  <2> QED BY <1>2, <1>3, <2>1, <2>2, <2>3
<1>8. boot' \in {4, 6} => PIT_IRQ \in value'
  <2>1. ASSUME boot \in {3, 5}
        PROVE  Reads(step) /\ LineOf(step) \in {1, 2} /\ PIT_IRQ \in masked
    BY <1>1, <2>1, Steps DEF Booting, Reads, LineOf
  <2>2. PIT_IRQ \in MaskRegister(1) /\ PIT_IRQ \in MaskRegister(2)
    BY DEF MaskRegister, Slave, Lines, Devices, PIT_IRQ
  <2> QED BY <1>2, <1>3, <2>1, <2>2
<1>9. boot' >= 8 => KEYBOARD_IRQ \in initialised'
  <2>1. ASSUME boot = 7
        PROVE  DeviceOf(step) = KEYBOARD_IRQ /\ KEYBOARD_IRQ # None
    BY <1>1, <2>1, Steps DEF DeviceOf, None, KEYBOARD_IRQ
  <2> QED BY <1>2, <1>3, <2>1 DEF Booting
<1>10. boot' >= 10 => RTC_IRQ \in initialised'
  <2>1. ASSUME boot = 9
        PROVE  DeviceOf(step) = RTC_IRQ /\ RTC_IRQ # None
    BY <1>1, <2>1, Steps DEF DeviceOf, None, RTC_IRQ
  <2> QED BY <1>2, <1>3, <2>1 DEF Booting
<1>11. boot' >= 15 => PIT_IRQ \in initialised'
  <2>1. ASSUME boot = 14
        PROVE  DeviceOf(step) = PIT_IRQ /\ PIT_IRQ # None
    BY <1>1, <2>1, Steps DEF DeviceOf, None, PIT_IRQ
  <2> QED BY <1>2, <1>3, <2>1 DEF Booting
<1>12. shells' # 0 <=> boot' = 21
  <2>1. shells = 0
    BY <1>2, <1>3 DEF Booting
  <2>2. step = "execute" <=> boot = 20
    BY <1>1, <1>3, Steps
  <2> QED BY <1>2, <1>3, <2>1, <2>2
<1> QED BY <1>4, <1>5, <1>6, <1>7, <1>8, <1>9, <1>10, <1>11, <1>12 DEF Booting

---------------------------------------------------------------------------
(* The stack in use *)

LEMMA TopIs ==
  ASSUME Typing, stacks[current] # <<>>
  PROVE  /\ Len(stacks[current]) \in Nat \ {0}
         /\ Top = stacks[current][Len(stacks[current])] /\ Top \in FrameSet
<1>1. PICK s : s = stacks[current]
  OBVIOUS
<1>2. s \in Seq(FrameSet) /\ s # <<>>
  BY <1>1 DEF Typing
<1>3. Len(s) \in Nat \ {0}
  BY <1>2, EmptySeq, LenProperties
<1>4. s[Len(s)] \in FrameSet
  BY <1>2, <1>3, ElementOfSeq
<1> QED BY <1>1, <1>3, <1>4 DEF Top, Last

\* What every step but entry()'s own does with the rest of the kernel.
Keeps ==
    /\ UNCHANGED <<boot, value, initialised, shells, masked>>
    /\ fault' \in BOOLEAN /\ eflags' \in BOOLEAN /\ current' \in Tasks
    /\ irr' \subseteq Devices

IsTop(s, f) == s # <<>> /\ f = s[Len(s)]

\* The stack s becomes new, of which only the frame on top may differ or be added.
Replaces(new, s) ==
    /\ new \in Seq(FrameSet)
    /\ \A i \in 1 .. Len(new) : i # Len(new) =>
          i \in 1 .. Len(s) /\ new[i] = s[i] /\ s[i].at # "eoi"
    /\ \A f : IsTop(new, f) =>
          /\ Handles(f, initialised)
          /\ f.at = "eoi" => current' = current /\ ~eflags'
    /\ isr' = IF \E f : IsTop(new, f) /\ f.at = "eoi" THEN LinesOf(new[Len(new)].irq) ELSE {}

LEMMA LinesIn ==
  ASSUME NEW irq \in Devices
  PROVE  LinesOf(irq) \subseteq Lines
BY DEF LinesOf, Lines

LEMMA StackStep ==
  ASSUME IInv, Keeps, boot > 10, NEW new, Replaces(new, stacks[current]),
         stacks' = [stacks EXCEPT ![current] = new]
  PROVE  IInv'
<1>1. Typing /\ Nesting /\ Booting
  BY DEF IInv
<1>2. new \in Seq(FrameSet) /\ Len(new) \in Nat
  BY LenProperties DEF Replaces
<1>3. PICK s : s = stacks[current]
  OBVIOUS
<1>4. stacks'[current] = new /\ \A t \in Tasks \ {current} : stacks'[t] = stacks[t]
  BY <1>1 DEF Typing
<1>5. new # <<>> => Len(new) \in 1 .. Len(new) /\ new[Len(new)] \in FrameSet
  <2>1. ASSUME new # <<>>
        PROVE  Len(new) \in 1 .. Len(new)
    BY <1>2, <2>1, EmptySeq
  <2> QED BY <1>2, <2>1, ElementOfSeq
<1>6. Typing'
  <2>1. isr' \subseteq Lines
    <3>1. CASE \E f : IsTop(new, f) /\ f.at = "eoi"
      <4>1. new # <<>> /\ new[Len(new)].at = "eoi"
        BY <3>1 DEF IsTop
      <4>2. new[Len(new)].irq \in Devices
        BY <1>5, <4>1 DEF FrameSet
      <4> QED BY <3>1, <4>2, LinesIn DEF Replaces
    <3>2. CASE ~ \E f : IsTop(new, f) /\ f.at = "eoi"
      BY <3>2 DEF Replaces
    <3> QED BY <3>1, <3>2
  <2>2. stacks' \in [Tasks -> Seq(FrameSet)]
    BY <1>1, <1>2 DEF Typing
  <2> QED BY <1>1, <2>1, <2>2 DEF Typing, Keeps
<1>7. Booting'
  <2>1. ~(boot' <= 10)
    BY <1>1 DEF Typing, Keeps
  <2> QED BY <1>1, <2>1 DEF Booting, Keeps
<1>8. ASSUME NEW t \in Tasks, NEW i \in 1 .. Len(stacks'[t])
      PROVE  /\ Handles(stacks'[t][i], initialised')
             /\ stacks'[t][i].at = "eoi" => t = current' /\ i = Len(stacks'[t]) /\ ~eflags'
  <2>1. initialised' = initialised
    BY DEF Keeps
  <2>2. CASE t # current
    <3>1. stacks'[t] = stacks[t]
      BY <1>4, <2>2
    <3>2. Handles(stacks[t][i], initialised) /\ stacks[t][i].at # "eoi"
      BY <1>1, <1>8, <2>2, <3>1 DEF Nesting
    <3> QED BY <2>1, <3>1, <3>2
  <2>3. CASE t = current /\ i # Len(new)
    <3>1. i \in 1 .. Len(s) /\ new[i] = s[i] /\ s[i].at # "eoi"
      BY <1>3, <1>4, <1>8, <2>3 DEF Replaces
    <3>2. Handles(s[i], initialised)
      BY <1>1, <1>3, <3>1 DEF Nesting, Typing
    <3>3. stacks'[t][i] = s[i]
      BY <1>4, <2>3, <3>1
    <3> QED BY <2>1, <3>1, <3>2, <3>3
  <2>4. CASE t = current /\ i = Len(new)
    <3>1. new # <<>>
      BY <1>2, <1>4, <1>8, <2>4, EmptySeq
    <3>2. IsTop(new, new[i]) /\ stacks'[t] = new
      BY <1>4, <2>4, <3>1 DEF IsTop
    <3>3. /\ Handles(new[i], initialised)
          /\ new[i].at = "eoi" => current' = current /\ ~eflags'
      BY <3>2 DEF Replaces
    <3> QED BY <2>1, <2>4, <3>2, <3>3
  <2> QED BY <2>2, <2>3, <2>4
<1>9. Nesting'
  BY <1>8 DEF Nesting
<1>10. Serving'
  <2>1. CASE new # <<>> /\ new[Len(new)].at = "eoi"
    <3>1. IsTop(new, new[Len(new)])
      BY <2>1 DEF IsTop
    <3>2. isr' = LinesOf(new[Len(new)].irq) /\ current' = current
      BY <2>1, <3>1 DEF Replaces
    <3>3. stacks'[current'] = new
      BY <1>4, <3>2
    <3>4. Top' = new[Len(new)]
      BY <3>3 DEF Top, Last
    <3> QED BY <2>1, <3>2, <3>3, <3>4 DEF Serving, InService
  <2>2. CASE ~(new # <<>> /\ new[Len(new)].at = "eoi")
    <3>1. ~ \E f : IsTop(new, f) /\ f.at = "eoi"
      BY <2>2 DEF IsTop
    <3>2. isr' = {}
      BY <3>1 DEF Replaces
    <3>3. ASSUME InService'
          PROVE  FALSE
      <4>1. stacks'[current'] # <<>> /\ Top'.at = "eoi"
        BY <3>3 DEF InService
      <4>2. Top' = stacks'[current'][Len(stacks'[current'])]
        BY DEF Top, Last
      <4>3. CASE current' = current
        BY <1>4, <2>2, <4>1, <4>2, <4>3
      <4>4. CASE current' # current
        <5>1. current' \in Tasks /\ stacks'[current'] = stacks[current']
          BY <1>4, <4>4 DEF Keeps
        <5>2. PICK u : u = stacks[current']
          OBVIOUS
        <5>3. u \in Seq(FrameSet) /\ u # <<>>
          BY <1>1, <4>1, <5>1, <5>2 DEF Typing
        <5>4. Len(u) \in 1 .. Len(u)
          BY <5>3, EmptySeq, LenProperties
        <5> QED BY <1>1, <4>1, <4>2, <4>4, <5>1, <5>2, <5>4 DEF Nesting
      <4> QED BY <4>3, <4>4
    <3> QED BY <3>2, <3>3 DEF Serving
  <2> QED BY <2>1, <2>2
<1> QED BY <1>6, <1>7, <1>9, <1>10 DEF IInv

\* A stack in use is one of a booting or booted kernel that takes interrupts.
LEMMA InUseBooted ==
  ASSUME IInv, stacks[current] # <<>> \/ eflags
  PROVE  boot > 10
<1>1. current \in Tasks /\ boot \in Int
  BY DEF IInv, Typing
<1>2. ~(boot <= 10)
  BY <1>1 DEF IInv, Booting
<1> QED BY <1>1, <1>2

LEMMA PushStep ==
  ASSUME IInv, Keeps, boot > 10, ~InService, NEW f \in FrameSet, Push(f),
         Handles(f, initialised), f.at = "eoi" => current' = current /\ ~eflags',
         isr' = IF f.at = "eoi" THEN LinesOf(f.irq) ELSE {}
  PROVE  IInv'
<1>1. PICK s : s = stacks[current]
  OBVIOUS
<1>2. s \in Seq(FrameSet) /\ Len(s) \in Nat
  BY <1>1, LenProperties DEF IInv, Typing
<1>3. PICK new : new = Append(s, f)
  OBVIOUS
<1>4. /\ new \in Seq(FrameSet) /\ Len(new) = Len(s) + 1 /\ new[Len(s) + 1] = f
      /\ \A i \in 1 .. Len(s) : new[i] = s[i]
  BY <1>2, <1>3, AppendProperties
<1>5. ASSUME NEW i \in 1 .. Len(new), i # Len(new)
      PROVE  i \in 1 .. Len(s) /\ new[i] = s[i] /\ s[i].at # "eoi"
  <2>1. i \in 1 .. Len(s)
    BY <1>2, <1>4, <1>5
  <2>2. s # <<>>
    BY <1>2, <2>1, EmptySeq
  <2>3. Top = s[Len(s)]
    BY <1>1 DEF Top, Last
  <2>4. s[i].at = "eoi" => i = Len(s)
    BY <1>1, <2>1 DEF IInv, Nesting, Typing
  <2>5. s[i].at # "eoi"
    BY <1>1, <2>2, <2>3, <2>4 DEF InService
  <2> QED BY <1>4, <2>1, <2>5
<1>6. new # <<>> /\ new[Len(new)] = f
  BY <1>2, <1>4, EmptySeq
<1>7. Replaces(new, s)
  <2>1. \A g : IsTop(new, g) <=> g = f
    BY <1>6 DEF IsTop
  <2> QED BY <1>4, <1>5, <1>6, <2>1 DEF Replaces
<1>8. stacks' = [stacks EXCEPT ![current] = new]
  BY <1>1, <1>3 DEF Push, IInv, Typing
<1> QED BY <1>1, <1>7, <1>8, StackStep

LEMMA SetTopStep ==
  ASSUME IInv, Keeps, stacks[current] # <<>>, NEW at, at # "eoi", SetTop(at),
         [Top EXCEPT !.at = at] \in FrameSet, isr' = {}
  PROVE  IInv'
<1>1. PICK s, n : s = stacks[current] /\ n = Len(s)
  OBVIOUS
<1>2. s \in Seq(FrameSet) /\ n \in Nat \ {0} /\ Top = s[n] /\ Top \in FrameSet
  BY <1>1, TopIs DEF IInv, Typing
<1>3. PICK f : f = [Top EXCEPT !.at = at]
  OBVIOUS
<1>4. f \in FrameSet /\ f.at = at /\ f.handler = Top.handler /\ f.irq = Top.irq
  BY <1>2, <1>3 DEF FrameSet
<1>5. PICK new : new = [s EXCEPT ![n] = f]
  OBVIOUS
<1>6. s \in [1 .. n -> FrameSet]
  BY <1>1, <1>2, LenProperties
<1>7. new \in [1 .. n -> FrameSet] /\ new[n] = f /\ \A i \in 1 .. n : i # n => new[i] = s[i]
  BY <1>2, <1>4, <1>5, <1>6
<1>8. new \in Seq(FrameSet) /\ Len(new) = n /\ new # <<>>
  <2>1. new \in Seq(FrameSet)
    BY <1>2, <1>7, SeqDef
  <2>2. Len(new) = n
    BY <1>2, <1>7, <2>1, LenProperties
  <2> QED BY <1>2, <2>1, <2>2, EmptySeq
<1>9. ASSUME NEW i \in 1 .. Len(new), i # Len(new)
      PROVE  i \in 1 .. Len(s) /\ new[i] = s[i] /\ s[i].at # "eoi"
  <2>1. i \in 1 .. n /\ i # n
    BY <1>8, <1>9
  <2>2. s[i].at # "eoi"
    BY <1>1, <2>1 DEF IInv, Nesting, Typing
  <2> QED BY <1>1, <1>7, <2>1, <2>2
<1>10. Handles(f, initialised)
  <2>1. n \in 1 .. Len(stacks[current]) /\ current \in Tasks
    BY <1>1, <1>2 DEF IInv, Typing
  <2>2. Handles(Top, initialised)
    BY <1>1, <1>2, <2>1 DEF IInv, Nesting
  <2> QED BY <1>4, <2>2 DEF Handles
<1>11. Replaces(new, s)
  <2>1. \A g : IsTop(new, g) <=> g = f
    BY <1>7, <1>8 DEF IsTop
  <2> QED BY <1>4, <1>8, <1>9, <1>10, <2>1 DEF Replaces
<1>12. stacks' = [stacks EXCEPT ![current] = new]
  <2>1. stacks' = [stacks EXCEPT ![current][n].at = at]
    BY <1>1 DEF SetTop
  <2>2. f = [s[n] EXCEPT !.at = at]
    BY <1>2, <1>3
  <2> QED BY <1>1, <1>5, <2>1, <2>2
<1>13. boot > 10
  BY InUseBooted
<1> QED BY <1>1, <1>11, <1>12, <1>13, StackStep

---------------------------------------------------------------------------
(* The steps *)

LEMMA NotInService ==
  ASSUME IInv, ~InService
  PROVE  isr = {}
BY DEF IInv, Serving

LEMMA BootStep ==
  ASSUME IInv, Boot
  PROVE  IInv'
<1>1. Typing /\ Booting /\ Nesting /\ Serving
  BY DEF IInv
<1>2. PICK step : step = BootSteps[boot]
  OBVIOUS
<1>3. /\ boot <= 20 /\ boot' = boot + 1 /\ stacks[current] = <<>>
      /\ initialised' = initialised \cup ({DeviceOf(step)} \ {None})
      /\ isr' = IF step = "i8259_init" THEN {} ELSE isr
      /\ UNCHANGED <<current, stacks, key, fault>>
  BY <1>1, <1>2, BootDoes
<1>4. Typing' /\ Booting'
  BY <1>1, BootBooting
<1>5. ASSUME NEW t \in Tasks, NEW i \in 1 .. Len(stacks'[t])
      PROVE  Handles(stacks'[t][i], initialised') /\ stacks'[t][i].at # "eoi"
  <2>1. t # current
    <3>1. Len(<<>>) = 0
      OBVIOUS
    <3>2. ASSUME t = current
          PROVE  Len(stacks'[t]) = 0
      BY <1>3, <3>1, <3>2
    <3> QED BY <1>5, <3>2
  <2>2. Handles(stacks[t][i], initialised) /\ stacks[t][i].at # "eoi"
    BY <1>1, <1>3, <1>5, <2>1 DEF Nesting
  <2> QED BY <1>3, <2>2 DEF Handles
<1>6. Nesting'
  BY <1>5 DEF Nesting
<1>7. Serving'
  <2>1. ~InService /\ ~InService'
    BY <1>3 DEF InService
  <2>2. isr = {}
    BY <2>1, NotInService
  <2> QED BY <1>3, <2>1, <2>2 DEF Serving
<1> QED BY <1>4, <1>6, <1>7 DEF IInv

LEMMA UserInstructionStep ==
  ASSUME IInv, UserInstruction
  PROVE  IInv'
BY DEF IInv, UserInstruction, Typing, Booting, Nesting, Serving, InService, Top, kernel, pic

LEMMA DeliverStep ==
  ASSUME IInv, NEW irq \in Devices, Deliver(irq)
  PROVE  IInv'
<1>1. eflags /\ Passes(irq)
  BY DEF Deliver, Pending
<1>2. boot > 10 /\ boot \in 1 .. 21
  BY <1>1, InUseBooted DEF IInv, Typing
<1>3. irq \in initialised
  <2>1. irq \notin masked
    BY <1>1 DEF Passes
  <2>2. CASE irq = PIT_IRQ
    <3>1. ~(boot \in 3 .. 17)
      BY <2>1, <2>2 DEF IInv, Booting
    <3> QED BY <1>2, <2>2, <3>1 DEF IInv, Booting
  <2>3. CASE irq \in {KEYBOARD_IRQ, RTC_IRQ}
    BY <1>2, <2>3 DEF IInv, Booting
  <2> QED BY <2>2, <2>3 DEF Devices
<1>4. ~InService
  <2>1. ASSUME InService
        PROVE  FALSE
    <3>1. stacks[current] # <<>> /\ Top.at = "eoi"
      BY <2>1 DEF InService
    <3>2. /\ Len(stacks[current]) \in 1 .. Len(stacks[current]) /\ current \in Tasks
          /\ Top = stacks[current][Len(stacks[current])]
      BY <3>1, TopIs DEF IInv, Typing
    <3> QED BY <1>1, <3>1, <3>2 DEF IInv, Nesting
  <2> QED BY <2>1
<1>5. PICK f : f = [handler |-> Handler(Vector(irq)), irq |-> irq, at |-> "eoi", flags |-> eflags]
  OBVIOUS
<1>6. f \in FrameSet /\ f.at = "eoi" /\ f.irq = irq /\ Handles(f, initialised)
  <2>1. eflags \in BOOLEAN
    BY DEF IInv, Typing
  <2>2. f = [handler |-> irq, irq |-> irq, at |-> "eoi", flags |-> eflags]
    BY <1>5, Vectors
  <2>3. f \in FrameSet
    BY <2>1, <2>2 DEF FrameSet
  <2>4. f.at = "eoi" /\ f.irq = irq /\ f.handler = irq
    BY <2>2
  <2> QED BY <1>3, <2>3, <2>4 DEF Handles
<1>7. Push(f) /\ current' = current /\ ~eflags'
  <2>1. eflags' = (eflags /\ TrapGate(Vector(irq))) /\ current' = current
    BY DEF Deliver
  <2> QED BY <1>5, <2>1, Vectors DEF Deliver
<1>8. isr' = LinesOf(f.irq)
  <2>1. isr = {}
    BY <1>4, NotInService
  <2> QED BY <1>6, <2>1 DEF Deliver, Accept, LinesOf
<1>9. Keeps
  <2>1. eflags' \in BOOLEAN
    BY <1>7 DEF Deliver
  <2>2. irr' \subseteq Devices /\ current' \in Tasks /\ fault' \in BOOLEAN
    BY <1>7 DEF Deliver, Accept, IInv, Typing, kernel
  <2> QED BY <2>1, <2>2 DEF Keeps, Deliver, kernel
<1> QED BY <1>2, <1>4, <1>6, <1>7, <1>8, <1>9, PushStep

LEMMA SystemCallStep ==
  ASSUME IInv, SystemCall
  PROVE  IInv'
<1>1. boot > 10
  <2>1. boot > 20 /\ boot \in 1 .. 21
    BY Steps DEF SystemCall, Booted, IInv, Typing
  <2> QED BY <2>1
<1>2. ~InService /\ isr = {}
  BY NotInService DEF SystemCall, InService
<1>3. PICK f : f = [handler |-> SYSTEM_CALL_VECTOR, irq |-> None, at |-> "set_cli", flags |-> eflags]
  OBVIOUS
<1>4. f \in FrameSet /\ f.at # "eoi" /\ Handles(f, initialised)
  <2>1. eflags \in BOOLEAN
    BY DEF IInv, Typing
  <2>2. f \in FrameSet /\ f.at # "eoi" /\ f.handler = SYSTEM_CALL_VECTOR
    BY <1>3, <2>1 DEF FrameSet
  <2>3. SYSTEM_CALL_VECTOR \notin Devices
    BY DEF SYSTEM_CALL_VECTOR, Devices, PIT_IRQ, KEYBOARD_IRQ, RTC_IRQ
  <2> QED BY <2>2, <2>3 DEF Handles
<1>5. Push(f) /\ isr' = {}
  BY <1>2, <1>3 DEF SystemCall, pic
<1>6. Keeps
  <2>1. eflags' \in BOOLEAN
    BY DEF SystemCall
  <2> QED BY <2>1 DEF SystemCall, Keeps, kernel, pic, IInv, Typing
<1> QED BY <1>1, <1>2, <1>4, <1>5, <1>6, PushStep

\* The frame of a device's handler, ...
LEMMA DeviceTop ==
  ASSUME IInv, stacks[current] # <<>>, Top.handler \in Devices
  PROVE  /\ Top.irq = Top.handler
         /\ \A at \in {"body", "popfl", "iret"} : [Top EXCEPT !.at = at] \in FrameSet
<1>1. /\ Len(stacks[current]) \in 1 .. Len(stacks[current]) /\ current \in Tasks
      /\ Top = stacks[current][Len(stacks[current])] /\ Top \in FrameSet
  BY TopIs DEF IInv, Typing
<1>2. Top.irq = Top.handler
  BY <1>1 DEF IInv, Nesting, Handles
<1>3. PICK f : f = Top
  OBVIOUS
<1>4. f \in [handler : Devices, irq : Devices, at : {"eoi", "body", "popfl", "iret"},
             flags : BOOLEAN]
  <2>1. f \in FrameSet /\ f.handler \in Devices
    BY <1>1, <1>3
  <2>2. SYSTEM_CALL_VECTOR \notin Devices
    BY DEF SYSTEM_CALL_VECTOR, Devices, PIT_IRQ, KEYBOARD_IRQ, RTC_IRQ
  <2> QED BY <2>1, <2>2 DEF FrameSet
<1>5. ASSUME NEW at \in {"body", "popfl", "iret"}
      PROVE  [f EXCEPT !.at = at] \in FrameSet
  BY <1>4 DEF FrameSet
<1> QED BY <1>2, <1>3, <1>5

\* ... whose step leaves at there.
LEMMA HandlerStep ==
  ASSUME IInv, Keeps, stacks[current] # <<>>, Top.handler \in Devices,
         NEW at \in {"body", "popfl", "iret"}, SetTop(at), isr' = {}
  PROVE  IInv'
<1>1. [Top EXCEPT !.at = at] \in FrameSet /\ at # "eoi"
  BY DeviceTop
<1> QED BY <1>1, SetTopStep

LEMMA TopAtNot ==
  ASSUME IInv, NEW handler, NEW at, TopAt(handler, at), at # "eoi"
  PROVE  stacks[current] # <<>> /\ Top.handler = handler /\ isr = {}
BY NotInService DEF TopAt, InService

LEMMA SetCliStep ==
  ASSUME IInv, SetCli
  PROVE  IInv'
<1>1. stacks[current] # <<>> /\ Top.handler = SYSTEM_CALL_VECTOR /\ isr = {}
  BY TopAtNot DEF SetCli
<1>2. [Top EXCEPT !.at = "iret"] \in FrameSet
  <2>1. PICK f : f = Top
    OBVIOUS
  <2>2. f \in FrameSet /\ f.handler = SYSTEM_CALL_VECTOR
    BY <1>1, <2>1, TopIs DEF IInv
  <2>3. SYSTEM_CALL_VECTOR \notin Devices
    BY DEF SYSTEM_CALL_VECTOR, Devices, PIT_IRQ, KEYBOARD_IRQ, RTC_IRQ
  <2>4. [f EXCEPT !.at = "iret"] \in FrameSet
    BY <2>2, <2>3 DEF FrameSet
  <2> QED BY <2>1, <2>4
<1>3. Keeps
  <2>1. eflags' \in BOOLEAN
    BY DEF SetCli, IInv, Typing
  <2> QED BY <2>1 DEF SetCli, Keeps, kernel, pic, IInv, Typing
<1>4. SetTop("iret") /\ isr' = {}
  BY <1>1 DEF SetCli, pic
<1> QED BY <1>1, <1>2, <1>3, <1>4, SetTopStep

LEMMA EoiStep ==
  ASSUME IInv, NEW irq \in Devices, Eoi(irq)
  PROVE  IInv'
<1>1. stacks[current] # <<>> /\ Top.handler = irq /\ Top.at = "eoi" /\ SetTop("body")
  BY DEF Eoi, TopAt
<1>2. Top.irq = irq
  BY <1>1, DeviceTop
<1>3. isr = LinesOf(irq)
  BY <1>1, <1>2 DEF IInv, Serving, InService
<1>4. irq >= 8 <=> irq > 7
  BY DEF Devices, PIT_IRQ, KEYBOARD_IRQ, RTC_IRQ
<1>5. isr' = {}
  BY <1>3, <1>4 DEF Eoi, send_eoi, LinesOf, Slave
<1>6. Keeps
  BY DEF Eoi, Keeps, kernel, devices, IInv, Typing
<1> QED BY <1>1, <1>5, <1>6, HandlerStep

LEMMA KeyboardStep ==
  ASSUME IInv, KeyboardInterrupt
  PROVE  IInv'
<1>1. stacks[current] # <<>> /\ Top.handler = KEYBOARD_IRQ /\ isr = {}
  BY TopAtNot DEF KeyboardInterrupt
<1>2. Keeps
  <2>1. eflags' \in BOOLEAN /\ fault' \in BOOLEAN
    BY DEF KeyboardInterrupt
  <2> QED BY <2>1 DEF KeyboardInterrupt, Keeps, pic, IInv, Typing
<1>3. SetTop("popfl") /\ isr' = {}
  BY <1>1 DEF KeyboardInterrupt, pic
<1> QED BY <1>1, <1>2, <1>3, HandlerStep DEF Devices

LEMMA RtcStep ==
  ASSUME IInv, RtcInterrupt
  PROVE  IInv'
<1>1. stacks[current] # <<>> /\ Top.handler = RTC_IRQ /\ isr = {}
  BY TopAtNot DEF RtcInterrupt
<1>2. Keeps
  <2>1. eflags' \in BOOLEAN
    BY DEF RtcInterrupt
  <2> QED BY <2>1 DEF RtcInterrupt, Keeps, kernel, pic, IInv, Typing
<1>3. SetTop("popfl") /\ isr' = {}
  BY <1>1 DEF RtcInterrupt, pic
<1> QED BY <1>1, <1>2, <1>3, HandlerStep DEF Devices

LEMMA SwitchStep ==
  ASSUME IInv, SwitchTasks
  PROVE  IInv'
<1>1. stacks[current] # <<>> /\ Top.handler = PIT_IRQ /\ isr = {}
  BY TopAtNot DEF SwitchTasks
<1>2. current' \in Tasks /\ fault' \in BOOLEAN
  BY DEF SwitchTasks, NextActive, IInv, Typing
<1>3. Keeps
  <2>1. eflags' \in BOOLEAN
    BY DEF SwitchTasks
  <2> QED BY <1>2, <2>1 DEF SwitchTasks, Keeps, pic, devices, IInv, Typing
<1>4. SetTop("popfl") /\ isr' = {}
  BY <1>1 DEF SwitchTasks, pic
<1> QED BY <1>1, <1>3, <1>4, HandlerStep DEF Devices

LEMMA PopflStep ==
  ASSUME IInv, NEW irq \in Devices, Popfl(irq)
  PROVE  IInv'
<1>1. stacks[current] # <<>> /\ Top.handler = irq /\ isr = {}
  BY TopAtNot DEF Popfl
<1>2. Keeps
  <2>1. eflags' \in BOOLEAN
    BY DEF Popfl
  <2> QED BY <2>1 DEF Popfl, Keeps, kernel, pic, devices, IInv, Typing
<1>3. SetTop("iret") /\ isr' = {}
  BY <1>1 DEF Popfl, pic
<1> QED BY <1>1, <1>2, <1>3, HandlerStep

LEMMA IretStep ==
  ASSUME IInv, Iret
  PROVE  IInv'
<1>1. PICK s, n : s = stacks[current] /\ n = Len(s)
  OBVIOUS
<1>2. s \in Seq(FrameSet) /\ n \in Nat \ {0} /\ Top = s[n] /\ Top \in FrameSet /\ Top.at = "iret"
  BY <1>1, TopIs DEF IInv, Typing, Iret
<1>3. isr = {}
  BY <1>2, NotInService DEF InService
<1>4. PICK new : new = SubSeq(s, 1, n - 1)
  OBVIOUS
<1>5. new \in Seq(FrameSet) /\ Len(new) = n - 1 /\ \A i \in 1 .. n - 1 : new[i] = s[i]
  <2>1. 1 \in 1 .. n + 1 /\ n - 1 \in 0 .. n
    BY <1>2
  <2>2. new \in Seq(FrameSet)
    BY <1>1, <1>2, <1>4, <2>1, SubSeqProperties
  <2>3. Len(new) = n - 1 /\ \A i \in 1 .. n - 1 : new[i] = s[1 + i - 1]
    BY <1>1, <1>2, <1>4, <2>1, SubSeqProperties
  <2> QED BY <1>2, <2>2, <2>3
<1>6. ASSUME NEW i \in 1 .. n - 1
      PROVE  /\ i \in 1 .. Len(s) /\ new[i] = s[i] /\ s[i].at # "eoi"
             /\ Handles(s[i], initialised)
  <2>1. i \in 1 .. Len(stacks[current]) /\ i # Len(stacks[current]) /\ current \in Tasks
    BY <1>1, <1>2, <1>6 DEF IInv, Typing
  <2> QED BY <1>1, <1>5, <1>6, <2>1 DEF IInv, Nesting
<1>7. ASSUME NEW f, IsTop(new, f)
      PROVE  Handles(f, initialised) /\ f.at # "eoi"
  <2>1. new # <<>> /\ f = new[n - 1]
    BY <1>5, <1>7 DEF IsTop
  <2>2. n - 1 \in 1 .. n - 1
    BY <1>2, <1>5, <2>1, EmptySeq
  <2> QED BY <1>6, <2>1, <2>2
<1>8. isr' = {}
  BY <1>3 DEF Iret, pic
<1>9. Replaces(new, s)
  <2>1. \A i \in 1 .. Len(new) : i \in 1 .. Len(s) /\ new[i] = s[i] /\ s[i].at # "eoi"
    BY <1>5, <1>6
  <2> QED BY <1>5, <1>7, <1>8, <2>1 DEF Replaces
<1>10. stacks' = [stacks EXCEPT ![current] = new]
  BY <1>1, <1>4 DEF Iret, Front, IInv, Typing
<1>11. Keeps
  <2>1. eflags' \in BOOLEAN
    BY <1>2 DEF Iret, FrameSet
  <2> QED BY <2>1 DEF Iret, Keeps, kernel, pic, devices, IInv, Typing
<1>12. boot > 10
  BY <1>1, <1>2, InUseBooted, EmptySeq DEF Iret
<1> QED BY <1>1, <1>9, <1>10, <1>11, <1>12, StackStep

LEMMA StartShellsStep ==
  ASSUME IInv, StartShells
  PROVE  IInv'
<1>1. Typing /\ Booting /\ Nesting /\ Serving
  BY DEF IInv
<1>2. boot = 21
  BY <1>1 DEF StartShells, Booting
<1>3. PICK f : f = [handler |-> PIT_IRQ, irq |-> PIT_IRQ, at |-> "popfl", flags |-> TRUE]
  OBVIOUS
<1>4. f \in FrameSet /\ f.at # "eoi" /\ Handles(f, initialised)
  <2>1. f \in FrameSet /\ f.at # "eoi"
    BY <1>3 DEF FrameSet, Devices
  <2>2. PIT_IRQ \in initialised
    BY <1>1, <1>2 DEF Booting
  <2> QED BY <1>3, <2>1, <2>2 DEF Handles
<1>5. PICK new : new = <<f>>
  OBVIOUS
<1>6. new \in Seq(FrameSet) /\ Len(new) = 1 /\ new[1] = f
  BY <1>4, <1>5
<1>7. stacks' = [t \in Tasks |-> IF t = current THEN stacks[t] ELSE new]
  BY <1>3, <1>5 DEF StartShells
<1>8. stacks'[current] = stacks[current] /\ \A t \in Tasks \ {current} : stacks'[t] = new
  BY <1>1, <1>7 DEF Typing
<1>9. UNCHANGED <<boot, value, initialised, fault, eflags, current, masked, irr, isr>> /\ shells' = 2
  BY DEF StartShells, pic
<1>10. Typing'
  <2>1. stacks' \in [Tasks -> Seq(FrameSet)]
    BY <1>1, <1>6, <1>7 DEF Typing
  <2> QED BY <1>1, <1>9, <2>1 DEF Typing
<1>11. Booting'
  BY <1>1, <1>2, <1>9 DEF Booting
<1>12. ASSUME NEW t \in Tasks, NEW i \in 1 .. Len(stacks'[t])
       PROVE  /\ Handles(stacks'[t][i], initialised')
              /\ stacks'[t][i].at = "eoi" => t = current' /\ i = Len(stacks'[t]) /\ ~eflags'
  <2>1. CASE t = current
    BY <1>1, <1>8, <1>9, <1>12, <2>1 DEF Nesting
  <2>2. CASE t # current
    <3>1. stacks'[t] = new
      BY <1>8, <2>2
    <3>2. i \in 1 .. Len(new)
      BY <3>1
    <3>3. i = 1
      BY <1>6, <3>2
    <3>4. stacks'[t][i] = f
      BY <1>6, <3>1, <3>3
    <3> QED BY <1>4, <1>9, <3>4
  <2> QED BY <2>1, <2>2
<1>13. Nesting'
  BY <1>12 DEF Nesting
<1>14. Serving'
  <2>1. stacks'[current'] = stacks[current] /\ isr' = isr
    BY <1>8, <1>9
  <2>2. Top' = Top
    BY <2>1 DEF Top
  <2> QED BY <1>1, <2>1, <2>2 DEF Serving, InService
<1> QED BY <1>10, <1>11, <1>13, <1>14 DEF IInv

\* A device requests.
LEMMA RequestStep ==
  ASSUME IInv, NEW irq \in Devices, Request(irq)
  PROVE  IInv'
<1>1. /\ UNCHANGED <<boot, value, initialised, shells, fault, eflags, current, stacks, masked, isr>>
      /\ irr' = irr \cup {irq}
  BY DEF Request, kernel
<1>2. Typing'
  BY <1>1 DEF IInv, Typing
<1>3. Booting' /\ Nesting'
  BY <1>1 DEF IInv, Booting, Nesting
<1>4. Serving'
  BY <1>1 DEF IInv, Serving, InService, Top
<1> QED BY <1>2, <1>3, <1>4 DEF IInv

LEMMA InitIInv == Init => IInv
<1> SUFFICES ASSUME Init PROVE IInv
  OBVIOUS
<1>1. current \in Tasks
  BY InterruptsAssumption DEF InterruptsAssumption, Init
<1>2. \A t \in Tasks : stacks[t] = <<>>
  BY DEF Init
<1>3. Typing
  <2>1. stacks \in [Tasks -> Seq(FrameSet)]
    <3>1. <<>> \in Seq(FrameSet)
      OBVIOUS
    <3> QED BY <3>1 DEF Init
  <2>2. irr \subseteq Devices
    BY DEF Init, Devices
  <2>3. value \subseteq Lines /\ masked \subseteq Lines /\ isr \subseteq Lines
        /\ initialised \subseteq Devices
    BY DEF Init
  <2>4. boot \in 1 .. 21 /\ shells \in {0, 1, 2}
    BY DEF Init
  <2>5. eflags \in BOOLEAN /\ fault \in BOOLEAN
    <3>1. eflags = FALSE /\ fault = FALSE
      BY DEF Init
    <3> QED BY <3>1
  <2> QED BY <1>1, <2>1, <2>2, <2>3, <2>4, <2>5 DEF Typing
<1>4. Booting
  BY <1>2 DEF Init, Booting
<1>5. Nesting
  BY <1>2 DEF Nesting
<1>6. Serving
  BY <1>1, <1>2 DEF Init, Serving, InService
<1> QED BY <1>3, <1>4, <1>5, <1>6 DEF IInv

LEMMA NextIInv == IInv /\ [Next]_vars => IInv'
<1> SUFFICES ASSUME IInv, [Next]_vars PROVE IInv'
  OBVIOUS
<1>1. ASSUME Instruction
      PROVE  IInv'
  <2>1. ASSUME NEW irq \in Devices, Eoi(irq) \/ Popfl(irq)
        PROVE  IInv'
    BY <2>1, EoiStep, PopflStep
  <2>2. CASE Boot \/ UserInstruction \/ SetCli \/ Iret
    BY <2>2, BootStep, UserInstructionStep, SetCliStep, IretStep
  <2>3. CASE KeyboardInterrupt \/ RtcInterrupt \/ SwitchTasks
    BY <2>3, KeyboardStep, RtcStep, SwitchStep
  <2> QED BY <1>1, <2>1, <2>2, <2>3 DEF Instruction
<1>2. CASE SystemCall \/ StartShells
  BY <1>2, SystemCallStep, StartShellsStep
<1>3. ASSUME NEW irq \in Devices, Deliver(irq)
      PROVE  IInv'
  BY <1>3, DeliverStep
<1>4. CASE RaisePit \/ RaiseRtc \/ RaiseKeyboard
  BY <1>4, RequestStep DEF RaisePit, RaiseRtc, RaiseKeyboard, Devices
<1>5. CASE UNCHANGED vars
  <2>1. UNCHANGED <<boot, value, initialised, shells, fault, eflags, current, stacks, masked, irr, isr>>
    BY <1>5 DEF vars, kernel, pic
  <2>2. Typing' /\ Booting' /\ Nesting'
    BY <2>1 DEF IInv, Typing, Booting, Nesting
  <2>3. Serving'
    BY <2>1 DEF IInv, Serving, InService, Top
  <2> QED BY <2>2, <2>3 DEF IInv
<1> QED BY <1>1, <1>2, <1>3, <1>4, <1>5 DEF Next

---------------------------------------------------------------------------
(* The theorems *)

\* IInv holds in every state, for any number of tasks, nested to any depth.
THEOREM Invariance == Spec => []IInv
BY InitIInv, NextIInv, PTL DEF Spec

LEMMA FramesAre ==
  ASSUME Typing, NEW f \in Frames
  PROVE  f \in FrameSet /\ \E t \in Tasks : \E i \in 1 .. Len(stacks[t]) : f = stacks[t][i]
<1>1. PICK t \in Tasks : f \in {stacks[t][i] : i \in DOMAIN stacks[t]}
  BY DEF Frames
<1>2. PICK s : s = stacks[t]
  OBVIOUS
<1>3. s \in Seq(FrameSet) /\ DOMAIN s = 1 .. Len(s)
  <2>1. s \in Seq(FrameSet)
    BY <1>2 DEF Typing
  <2> QED BY <2>1, LenProperties
<1>4. PICK i \in 1 .. Len(s) : f = s[i]
  BY <1>1, <1>2, <1>3
<1>5. f \in FrameSet
  BY <1>3, <1>4, ElementOfSeq
<1> QED BY <1>2, <1>4, <1>5

\* A handler that has not ended its interrupt runs, with interrupts off, for the
\* line in service, and no other line is in service, whatever the tasks that
\* are suspended inside handlers.
THEOREM InServiceHandled == Spec => []InServiceIsHandled
<1>1. ASSUME IInv, NEW f \in Frames, f.at = "eoi"
      PROVE  InService /\ f = Top /\ f.handler = f.irq /\ ~eflags
  <2>1. PICK t \in Tasks : \E i \in 1 .. Len(stacks[t]) : f = stacks[t][i]
    BY <1>1, FramesAre DEF IInv
  <2>2. PICK i \in 1 .. Len(stacks[t]) : f = stacks[t][i]
    BY <2>1
  <2>3. t = current /\ i = Len(stacks[t]) /\ ~eflags /\ Handles(f, initialised)
    BY <1>1, <2>2 DEF IInv, Nesting
  <2>4. f = Top
    BY <2>2, <2>3 DEF Top, Last
  <2>5. stacks[current] # <<>>
    <3>1. Len(<<>>) = 0
      OBVIOUS
    <3>2. ASSUME stacks[current] = <<>>
          PROVE  FALSE
      BY <2>2, <2>3, <3>1, <3>2
    <3> QED BY <3>2
  <2>6. f.handler \in Devices
    <3>1. f \in FrameSet
      BY <1>1, FramesAre DEF IInv
    <3> QED BY <1>1, <3>1 DEF FrameSet
  <2> QED BY <1>1, <2>3, <2>4, <2>5, <2>6 DEF InService, Handles
<1>2. ASSUME IInv, InService
      PROVE  Top \in Frames /\ Top.at = "eoi"
  <2>1. PICK s : s = stacks[current]
    OBVIOUS
  <2>2. s \in Seq(FrameSet) /\ Len(s) \in 1 .. Len(s) /\ Top = s[Len(s)] /\ current \in Tasks
    BY <1>2, <2>1, TopIs DEF IInv, Typing, InService
  <2>3. DOMAIN s = 1 .. Len(s)
    BY <2>2, LenProperties
  <2>4. Top \in {stacks[current][i] : i \in DOMAIN stacks[current]}
    BY <2>1, <2>2, <2>3
  <2> QED BY <1>2, <2>2, <2>4 DEF Frames, InService
<1>3. ASSUME IInv
      PROVE  isr = UNION {LinesOf(f.irq) : f \in {f \in Frames : f.at = "eoi"}}
  <2>1. CASE InService
    <3>1. {f \in Frames : f.at = "eoi"} = {Top}
      BY <1>1, <1>2, <1>3, <2>1
    <3>2. isr = LinesOf(Top.irq)
      BY <1>3, <2>1 DEF IInv, Serving
    <3> QED BY <3>1, <3>2
  <2>2. CASE ~InService
    <3>1. {f \in Frames : f.at = "eoi"} = {}
      BY <1>1, <1>3, <2>2
    <3>2. isr = {}
      BY <1>3, <2>2, NotInService
    <3> QED BY <3>1, <3>2
  <2> QED BY <2>1, <2>2
<1>4. IInv => InServiceIsHandled
  BY <1>1, <1>3 DEF InServiceIsHandled, InService, LinesOf
<1> QED BY <1>4, Invariance, PTL

\* A device's handler runs only when its data structures have been set up,
\* whatever is pressed while the kernel boots.
THEOREM DevicesReady == Spec => []HandlersReady
<1>1. ASSUME IInv, NEW f \in Frames, f.handler \in Devices
      PROVE  f.handler \in initialised
  <2>1. PICK t \in Tasks : \E i \in 1 .. Len(stacks[t]) : f = stacks[t][i]
    BY <1>1, FramesAre DEF IInv
  <2>2. PICK i \in 1 .. Len(stacks[t]) : f = stacks[t][i]
    BY <2>1
  <2> QED BY <1>1, <2>2 DEF IInv, Nesting, Handles
<1>2. IInv => HandlersReady
  BY <1>1 DEF HandlersReady
<1> QED BY <1>2, Invariance, PTL

-----------------------------------------------------------------------------
(* The clock behind RTC_IRQ *)

\* The divider that rtc_write() computes with a truncating division, and the one
\* that rtc_interrupt() supplies, are in the range of the highest frequency.
LEMMA DividerInRange ==
  ASSUME NEW n \in Nat, NEW d \in Nat, d > 0
  PROVE  n \div d \in 0 .. n
<1>1. n \div d \in Int /\ d * (n \div d) <= n /\ n < d * (n \div d) + d
  BY SMT
<1> DEFINE q == n \div d
<1> HIDE DEF q
<1>2. q >= 0
  <2> SUFFICES ASSUME q <= -1 PROVE FALSE
    BY <1>1 DEF q
  <2> QED BY <1>1, SMT DEF q
<1>3. q <= n
  <2> SUFFICES ASSUME q >= n + 1 PROVE FALSE
    BY <1>1 DEF q
  <2> QED BY <1>1, SMT DEF q
<1> QED BY <1>1, <1>2, <1>3 DEF q

\* What rtc_open() has in hand; the bounds of rtc_devices aside, the types.
Opening == {"scan", "test", "load", "store", "rate"}

ClockTyping ==
  /\ cur_terminal \in Terminals
  /\ count \in [Terminals -> 0 .. 2 ^ CountWidth - 1]
  /\ req_count \in [Terminals -> 0 .. RTC1024]
  /\ proc \in [Terminals -> [at : Places, left : SUBSET Terminals, val : Nat]]
  /\ \A p \in Terminals :
       /\ At(p, "rate") => proc[p].val \in {2, RTC1024}
       /\ proc[p].at \notin {"rate", "store"} => proc[p].val = 0
       /\ proc[p].at \in Opening => p \in Openers
       /\ At(p, "store") => proc[p].val > 0
  /\ fresh \in [Terminals -> BOOLEAN]
  /\ RTC_IRQF \in {0, 1} /\ rate \in {2, RTC1024}
  /\ rtc_devices \in Nat /\ rtc_devices > 0

\* Processes that loaded 1, before anyone stored, and store 2 when it may be long
\* out of date, and the others: only these can count on from where they are, and
\* those with a ticket, past the test, without passing it again.
Stale == {p \in Openers : At(p, "store") /\ proc[p].val = 1}
Live == Openers \ Stale
Tickets == {p \in Live : proc[p].at \in {"load", "store"}}

\* Twice the number that k processes get to: k tickets at first, and k - 1, the last
\* being kept to count on from there, each time that one more stale one stores.
Room(k) == 6 + k * (k - 1)

Counting ==
  /\ rtc_devices = 1 => \A p \in Terminals : At(p, "store") => proc[p].val = 1
  /\ rtc_devices > 1 => Live # {}
  /\ rtc_devices = 2 =>
       \A p \in Tickets : At(p, "store") =>
         2 * (proc[p].val + Cardinality(Live)) <= Room(Cardinality(Live))
  /\ rtc_devices > 2 =>
       /\ 2 * (rtc_devices + Cardinality(Tickets)) <= Room(Cardinality(Live))
       /\ \A p \in Tickets : At(p, "store") =>
            2 * (proc[p].val + Cardinality(Tickets)) <= Room(Cardinality(Live))

ClockInv == ClockTyping /\ Counting

LEMMA RoomGrows ==
  ASSUME NEW k \in Nat
  PROVE  Room(k) \in Int /\ Room(k + 1) = Room(k) + 2 * k /\ (k > 0 => 2 * (2 + k) <= Room(k))
<1>1. k * (k - 1) \in Int /\ (k + 1) * (k + 1 - 1) = k * (k - 1) + 2 * k
  BY SMT
<1>2. k = 1 => k * (k - 1) = 0
  BY SMT
<1>3. k > 1 => k * (k - 1) >= 2 * (k - 1)
  BY SMT
<1> DEFINE square == k * (k - 1)
           above == (k + 1) * (k + 1 - 1)
<1>4. Room(k) = 6 + square /\ Room(k + 1) = 6 + above
  BY DEF Room
<1>5. /\ square \in Int /\ above = square + 2 * k /\ (k = 1 => square = 0)
      /\ (k > 1 => square >= 2 * (k - 1))
  BY <1>1, <1>2, <1>3
<1> HIDE DEF square, above
<1> QED BY <1>4, <1>5, SMT

LEMMA RoomOrder ==
  ASSUME NEW k \in Nat, NEW n \in Nat, k <= n
  PROVE  k * (k - 1) <= n * (n - 1)
<1>1. CASE k = 0
  <2>1. n * (n - 1) >= 0
    <3>1. CASE n = 0
      BY <3>1, SMT
    <3>2. CASE n > 0
      BY <3>2, SMT
    <3> QED BY <3>1, <3>2, SMT
  <2> QED BY <1>1, <2>1, SMT
<1>2. CASE k > 0
  <2>1. k * (k - 1) <= n * (k - 1)
    BY <1>2, SMT
  <2>2. n * (k - 1) <= n * (n - 1)
    BY <1>2, SMT
  <2> DEFINE a == k * (k - 1)
             b == n * (k - 1)
             c == n * (n - 1)
  <2>3. a \in Int /\ b \in Int /\ c \in Int /\ a <= b /\ b <= c
    BY <2>1, <2>2, SMT
  <2> HIDE DEF a, b, c
  <2>4. a <= c
    BY <2>3, SMT
  <2> QED BY <2>4 DEF a, c
<1> QED BY <1>1, <1>2, SMT

LEMMA Counts ==
  /\ Tickets \subseteq Live /\ Live \subseteq Openers
  /\ IsFiniteSet(Openers) /\ IsFiniteSet(Live) /\ IsFiniteSet(Tickets)
  /\ Cardinality(Openers) \in Nat /\ Cardinality(Live) \in Nat /\ Cardinality(Tickets) \in Nat
  /\ Cardinality(Tickets) <= Cardinality(Live) /\ Cardinality(Live) <= Cardinality(Openers)
  /\ Live # {} => Cardinality(Live) > 0
  /\ \A p \in Tickets : Cardinality(Tickets) > 0
<1>1. Tickets \subseteq Live /\ Live \subseteq Openers
  BY DEF Tickets, Live
<1>2. IsFiniteSet(Openers)
  BY RtcAssumption, FS_Subset
<1>3. IsFiniteSet(Live) /\ Cardinality(Live) <= Cardinality(Openers)
  BY <1>1, <1>2, FS_Subset
<1>4. IsFiniteSet(Tickets) /\ Cardinality(Tickets) <= Cardinality(Live)
  BY <1>1, <1>3, FS_Subset
<1>5. /\ Cardinality(Openers) \in Nat /\ Cardinality(Live) \in Nat /\ Cardinality(Tickets) \in Nat
  BY <1>2, <1>3, <1>4, FS_CardinalityType
<1>6. (Cardinality(Live) = 0 <=> Live = {}) /\ (Cardinality(Tickets) = 0 <=> Tickets = {})
  BY <1>3, <1>4, FS_EmptySet
<1>7. Live # {} => Cardinality(Live) > 0
  BY <1>5, <1>6
<1>8. \A p \in Tickets : Cardinality(Tickets) > 0
  BY <1>5, <1>6
<1> QED BY <1>1, <1>2, <1>3, <1>4, <1>5, <1>7, <1>8

\* A set that one element joins or leaves.
LEMMA OneMore ==
  ASSUME NEW S, NEW R, NEW p, IsFiniteSet(S), \A q : q # p => (q \in R <=> q \in S)
  PROVE  /\ IsFiniteSet(R)
         /\ (p \in R <=> p \in S) => Cardinality(R) = Cardinality(S)
         /\ p \in R /\ p \notin S => Cardinality(R) = Cardinality(S) + 1
         /\ p \notin R /\ p \in S => Cardinality(R) = Cardinality(S) - 1
<1>1. CASE p \in R <=> p \in S
  <2>1. R = S
    BY <1>1
  <2> QED BY <1>1, <2>1
<1>2. CASE p \in R /\ p \notin S
  <2>1. R = S \cup {p}
    BY <1>2
  <2> QED BY <1>2, <2>1, FS_AddElement
<1>3. CASE p \notin R /\ p \in S
  <2>1. R = S \ {p}
    BY <1>3
  <2> QED BY <1>3, <2>1, FS_RemoveElement
<1> QED BY <1>1, <1>2, <1>3

\* Process p takes a step: which sets it joins and leaves.
LEMMA Moves ==
  ASSUME ClockTyping, NEW p \in Terminals, NEW next, proc' = [proc EXCEPT ![p] = next]
  PROVE  /\ proc'[p] = next /\ \A q \in Terminals \ {p} : proc'[q] = proc[q]
         /\ \A q : q # p => (q \in Live' <=> q \in Live) /\ (q \in Tickets' <=> q \in Tickets)
         /\ p \in Live' <=> p \in Openers /\ ~(next.at = "store" /\ next.val = 1)
         /\ p \in Tickets' <=> p \in Live' /\ next.at \in {"load", "store"}
<1>1. proc'[p] = next /\ \A q \in Terminals \ {p} : proc'[q] = proc[q]
  BY DEF ClockTyping
<1>2. Openers \subseteq Terminals
  BY RtcAssumption
<1>3. \A q : q # p => (q \in Live' <=> q \in Live) /\ (q \in Tickets' <=> q \in Tickets)
  BY <1>1, <1>2 DEF Live, Stale, Tickets, At
<1>4. p \in Live' <=> p \in Openers /\ ~(next.at = "store" /\ next.val = 1)
  BY <1>1 DEF Live, Stale, At
<1>5. p \in Tickets' <=> p \in Live' /\ next.at \in {"load", "store"}
  BY <1>1 DEF Tickets
<1> QED BY <1>1, <1>3, <1>4, <1>5

\* The numbers of a step, without the sets: k live processes, of them m with tickets.
LEMMA MovesCount ==
  ASSUME ClockTyping, NEW p \in Terminals, NEW next, proc' = [proc EXCEPT ![p] = next]
  PROVE  /\ Cardinality(Live') \in Nat /\ Cardinality(Tickets') \in Nat
         /\ Cardinality(Tickets') <= Cardinality(Live')
         /\ Live' # {} => Cardinality(Live') > 0
         /\ (p \in Live' <=> p \in Live) => Cardinality(Live') = Cardinality(Live)
         /\ p \in Live' /\ p \notin Live => Cardinality(Live') = Cardinality(Live) + 1
         /\ p \notin Live' /\ p \in Live => Cardinality(Live') = Cardinality(Live) - 1
         /\ (p \in Tickets' <=> p \in Tickets) => Cardinality(Tickets') = Cardinality(Tickets)
         /\ p \in Tickets' /\ p \notin Tickets => Cardinality(Tickets') = Cardinality(Tickets) + 1
         /\ p \notin Tickets' /\ p \in Tickets => Cardinality(Tickets') = Cardinality(Tickets) - 1
<1>1. IsFiniteSet(Live) /\ IsFiniteSet(Tickets)
  BY Counts
<1>2. \A q : q # p => (q \in Live' <=> q \in Live) /\ (q \in Tickets' <=> q \in Tickets)
  BY Moves
<1> DEFINE live == Live'
           tickets == Tickets'
<1>3. \A q : q # p => (q \in live <=> q \in Live) /\ (q \in tickets <=> q \in Tickets)
  BY <1>2
<1>4. tickets \subseteq live
  BY DEF Tickets
<1> HIDE DEF live, tickets
<1>5. /\ IsFiniteSet(live)
      /\ (p \in live <=> p \in Live) => Cardinality(live) = Cardinality(Live)
      /\ p \in live /\ p \notin Live => Cardinality(live) = Cardinality(Live) + 1
      /\ p \notin live /\ p \in Live => Cardinality(live) = Cardinality(Live) - 1
  BY <1>1, <1>3, OneMore
<1>6. /\ IsFiniteSet(tickets)
      /\ (p \in tickets <=> p \in Tickets) => Cardinality(tickets) = Cardinality(Tickets)
      /\ p \in tickets /\ p \notin Tickets => Cardinality(tickets) = Cardinality(Tickets) + 1
      /\ p \notin tickets /\ p \in Tickets => Cardinality(tickets) = Cardinality(Tickets) - 1
  BY <1>1, <1>3, OneMore
<1>7. Cardinality(live) \in Nat /\ Cardinality(tickets) \in Nat /\ (Cardinality(live) = 0 <=> live = {})
  BY <1>5, <1>6, FS_CardinalityType, FS_EmptySet
<1>8. Cardinality(tickets) <= Cardinality(live)
  BY <1>4, <1>5, FS_Subset
<1>9. live # {} => Cardinality(live) > 0
  BY <1>7
<1> QED BY <1>5, <1>6, <1>7, <1>8, <1>9 DEF live, tickets

\* What a step that ends a process's counting, or has nothing to do with it, leaves true.
LEMMA CountsOn ==
  ASSUME ClockInv, NEW p \in Terminals, NEW next, proc' = [proc EXCEPT ![p] = next],
         next.at \notin {"load", "store"}, rtc_devices' = rtc_devices
  PROVE  Counting'
<1> DEFINE k == Cardinality(Live)
           m == Cardinality(Tickets)
           k2 == Cardinality(Live')
           m2 == Cardinality(Tickets')
<1>1. ClockTyping
  BY DEF ClockInv
<1>2. (p \in Openers => p \in Live') /\ p \notin Tickets' /\ Live \subseteq Openers
  BY <1>1, Moves, Counts
<1>3. /\ k \in Nat /\ m \in Nat /\ k2 \in Nat /\ m2 \in Nat
      /\ k2 = k \/ k2 = k + 1
      /\ m2 = m \/ m2 = m - 1
  <2>1. (p \in Live' <=> p \in Live) \/ (p \in Live' /\ p \notin Live)
    BY <1>2
  <2>2. (p \in Tickets' <=> p \in Tickets) \/ (p \notin Tickets' /\ p \in Tickets)
    BY <1>2
  <2> QED BY <1>1, <2>1, <2>2, Counts, MovesCount
<1>4. /\ Room(k) \in Int
      /\ (k2 = k /\ Room(k2) = Room(k)) \/ (k2 = k + 1 /\ Room(k2) = Room(k) + 2 * k)
  BY <1>3, RoomGrows
<1>5. \A q \in Terminals : proc'[q].at = "store" =>
        q # p /\ proc[q].at = "store" /\ proc'[q].val = proc[q].val /\ proc[q].val \in Nat
  BY <1>1, Moves DEF ClockTyping
<1>6. \A q \in Tickets' : q \in Tickets /\ q \in Terminals /\ k > 0
  <2> SUFFICES ASSUME NEW q \in Tickets' PROVE q \in Tickets /\ q \in Terminals /\ k > 0
    OBVIOUS
  <2>1. q # p /\ q \in Tickets
    BY <1>1, <1>2, Moves
  <2> QED BY <2>1, Counts, RtcAssumption
<1>7. rtc_devices' = 1 => \A q \in Terminals : At(q, "store")' => proc'[q].val = 1
  BY <1>5 DEF ClockInv, Counting, At
<1>8. rtc_devices' > 1 => Live' # {}
  BY <1>1, <1>2, Moves DEF ClockInv, Counting
<1>9. ASSUME rtc_devices = 2, NEW q \in Tickets', proc'[q].at = "store"
      PROVE  2 * (proc'[q].val + k2) <= Room(k2)
  <2>1. 2 * (proc[q].val + k) <= Room(k)
    BY <1>5, <1>6, <1>9 DEF ClockInv, Counting, At
  <2>2. proc'[q].val = proc[q].val /\ proc[q].val \in Nat /\ k > 0
    BY <1>5, <1>6, <1>9
  <2> HIDE DEF k, k2
  <2> QED BY <1>3, <1>4, <2>1, <2>2, SMT
<1>10. ASSUME rtc_devices > 2
       PROVE  2 * (rtc_devices + m2) <= Room(k2)
  <2>1. 2 * (rtc_devices + m) <= Room(k) /\ rtc_devices \in Nat
    BY <1>1, <1>10 DEF ClockInv, Counting, ClockTyping
  <2> HIDE DEF k, k2, m, m2
  <2> QED BY <1>3, <1>4, <2>1, SMT
<1>11. ASSUME rtc_devices > 2, NEW q \in Tickets', proc'[q].at = "store"
       PROVE  2 * (proc'[q].val + m2) <= Room(k2)
  <2>1. 2 * (proc[q].val + m) <= Room(k)
    BY <1>5, <1>6, <1>11 DEF ClockInv, Counting, At
  <2>2. proc'[q].val = proc[q].val /\ proc[q].val \in Nat
    BY <1>5, <1>6, <1>11
  <2> HIDE DEF k, k2, m, m2
  <2> QED BY <1>3, <1>4, <2>1, <2>2, SMT
<1> QED BY <1>7, <1>8, <1>9, <1>10, <1>11 DEF Counting, At

\* A ticket: the test is passed while rtc_devices is 1 or 2.
LEMMA CountsTest ==
  ASSUME ClockInv, NEW p \in Terminals, proc[p].at = "test", rtc_devices < MAX_DEVICES,
         NEW next, proc' = [proc EXCEPT ![p] = next], next.at = "load",
         rtc_devices' = rtc_devices
  PROVE  Counting'
<1>1. ClockTyping /\ p \in Openers /\ rtc_devices \in {1, 2}
  BY DEF ClockInv, ClockTyping, Opening, At, MAX_DEVICES
<1>2. p \in Live /\ p \in Live'
  BY <1>1, Moves DEF Live, Stale, At
<1>3. Cardinality(Live') = Cardinality(Live)
  BY <1>1, <1>2, MovesCount
<1>4. \A q \in Terminals : proc'[q].at = "store" => q # p /\ proc'[q] = proc[q]
  BY <1>1, Moves
<1>5. \A q \in Tickets' : q \in Terminals /\ (q # p => q \in Tickets)
  <2> SUFFICES ASSUME NEW q \in Tickets' PROVE q \in Terminals /\ (q # p => q \in Tickets)
    OBVIOUS
  <2>1. q # p => q \in Tickets
    BY <1>1, Moves
  <2> QED BY <2>1, Counts, RtcAssumption
<1>6. rtc_devices = 1 => \A q \in Terminals : proc'[q].at = "store" => proc'[q].val = 1
  BY <1>4 DEF ClockInv, Counting, At
<1>7. ASSUME rtc_devices = 2, NEW q \in Tickets', proc'[q].at = "store"
      PROVE  2 * (proc'[q].val + Cardinality(Live')) <= Room(Cardinality(Live'))
  BY <1>3, <1>4, <1>5, <1>7 DEF ClockInv, Counting, At
<1> QED BY <1>1, <1>2, <1>6, <1>7 DEF Counting, At

\* A process that loads 1 is stale from then on; the others keep their tickets.
LEMMA CountsLoad ==
  ASSUME ClockInv, NEW p \in Terminals, proc[p].at = "load",
         NEW next, proc' = [proc EXCEPT ![p] = next], next.at = "store", next.val = rtc_devices,
         rtc_devices' = rtc_devices
  PROVE  Counting'
<1> DEFINE k == Cardinality(Live)
           m == Cardinality(Tickets)
<1>1. /\ ClockTyping /\ p \in Openers /\ rtc_devices \in Nat /\ rtc_devices > 0
      /\ \A q \in Terminals : proc[q].val \in Nat
  BY DEF ClockInv, ClockTyping, Opening, At
<1>2. p \in Live /\ p \in Tickets /\ k > 0 /\ k \in Nat /\ m \in Nat
  <2>1. p \in Live
    BY <1>1 DEF Live, Stale, At
  <2>2. p \in Tickets
    BY <2>1 DEF Tickets
  <2> QED BY <2>1, <2>2, Counts
<1>3. /\ proc'[p].at = "store" /\ proc'[p].val = rtc_devices
      /\ \A q \in Terminals : q # p => proc'[q] = proc[q]
  BY <1>1, Moves
<1>4. CASE rtc_devices = 1
  <2>1. \A q \in Terminals : proc[q].at = "store" => proc[q].val = 1
    BY <1>4 DEF ClockInv, Counting, At
  <2>2. \A q \in Terminals : proc'[q].at = "store" => proc'[q].val = 1
    BY <1>3, <1>4, <2>1
  <2>3. rtc_devices' = 1 /\ ~(rtc_devices' > 1) /\ rtc_devices' # 2 /\ ~(rtc_devices' > 2)
    BY <1>4
  <2> QED BY ONLY <2>2, <2>3 DEF Counting, At
<1>5. CASE rtc_devices > 1
  <2>1. p \in Live' /\ p \in Tickets'
    <3>1. next.val # 1
      BY <1>5
    <3>2. p \in Live'
      BY <1>1, <3>1, Moves
    <3> QED BY <1>1, <3>2, Moves
  <2>2. Cardinality(Live') = k /\ Cardinality(Tickets') = m
    <3>1. (p \in Live' <=> p \in Live) /\ (p \in Tickets' <=> p \in Tickets)
      BY <1>2, <2>1
    <3>2. Cardinality(Live') = k
      BY <1>1, <3>1, MovesCount
    <3>3. Cardinality(Tickets') = m
      BY <1>1, <3>1, MovesCount
    <3> QED BY <3>2, <3>3
  <2>3. \A q \in Tickets' : q \in Terminals /\ (q # p => q \in Tickets)
    <3> SUFFICES ASSUME NEW q \in Tickets' PROVE q \in Terminals /\ (q # p => q \in Tickets)
      OBVIOUS
    <3>1. q # p => q \in Tickets
      BY <1>1, Moves
    <3> QED BY <3>1, Counts, RtcAssumption
  <2>4. 2 * (2 + k) <= Room(k)
    BY <1>2, RoomGrows
  <2>5. ASSUME rtc_devices = 2, NEW q \in Tickets', proc'[q].at = "store"
        PROVE  2 * (proc'[q].val + k) <= Room(k)
    <3>1. CASE q = p
      BY <1>3, <2>4, <2>5, <3>1
    <3>2. CASE q # p
      BY <1>3, <2>3, <2>5, <3>2 DEF ClockInv, Counting, At
    <3> QED BY <3>1, <3>2
  <2>6. ASSUME rtc_devices > 2 PROVE 2 * (rtc_devices + m) <= Room(k)
    BY <2>6 DEF ClockInv, Counting
  <2>7. ASSUME rtc_devices > 2, NEW q \in Tickets', proc'[q].at = "store"
        PROVE  2 * (proc'[q].val + m) <= Room(k)
    <3>1. CASE q = p
      BY <1>3, <2>6, <2>7, <3>1
    <3>2. CASE q # p
      BY <1>3, <2>3, <2>7, <3>2 DEF ClockInv, Counting, At
    <3> QED BY <3>1, <3>2
  <2> HIDE DEF k, m
  <2> QED BY <1>5, <2>1, <2>2, <2>5, <2>6, <2>7 DEF Counting, At
<1> QED BY <1>1, <1>4, <1>5

\* A stale process sets rtc_devices back to 2, from where it may count on; another
\* uses its ticket.
LEMMA CountsStore ==
  ASSUME ClockInv, NEW p \in Terminals, proc[p].at = "store",
         NEW next, proc' = [proc EXCEPT ![p] = next], next.at = "rate",
         rtc_devices' = proc[p].val + 1
  PROVE  Counting'
<1> DEFINE k == Cardinality(Live)
           m == Cardinality(Tickets)
           k2 == Cardinality(Live')
           m2 == Cardinality(Tickets')
<1>1. /\ ClockTyping /\ p \in Openers /\ rtc_devices \in Nat /\ rtc_devices > 0
      /\ proc[p].val > 0 /\ \A q \in Terminals : proc[q].val \in Nat
  BY DEF ClockInv, ClockTyping, Opening, At
<1>2. p \in Live' /\ p \notin Tickets'
  BY <1>1, Moves
<1>3. \A q \in Terminals : proc'[q].at = "store" => q # p /\ proc'[q] = proc[q]
  BY <1>1, Moves
<1>4. \A q \in Tickets' : q \in Tickets /\ q \in Terminals /\ m > 0 /\ k > 0
  <2> SUFFICES ASSUME NEW q \in Tickets'
               PROVE  q \in Tickets /\ q \in Terminals /\ m > 0 /\ k > 0
    OBVIOUS
  <2>1. q \in Tickets
    BY <1>1, <1>2, Moves
  <2> QED BY <2>1, Counts, RtcAssumption
<1>5. k \in Nat /\ m \in Nat /\ m <= k /\ Room(k) \in Int /\ Room(k + 1) = Room(k) + 2 * k
  BY Counts, RoomGrows
<1>6. CASE rtc_devices = 1
  <2>1. rtc_devices' = 2 /\ \A q \in Tickets' : ~At(q, "store")'
    <3>1. proc[p].val = 1
      BY <1>6 DEF ClockInv, Counting, At
    <3>2. \A q \in Tickets' : proc'[q].at = "store" => proc[q].at = "store" /\ proc[q].val = 1
      BY <1>3, <1>4, <1>6 DEF ClockInv, Counting, At
    <3>3. \A q \in Tickets : ~(proc[q].at = "store" /\ proc[q].val = 1)
      BY DEF Tickets, Live, Stale, At
    <3> QED BY <1>4, <3>1, <3>2, <3>3 DEF At
  <2> QED BY <1>2, <2>1 DEF Counting
<1>7. CASE rtc_devices > 1 /\ proc[p].val = 1
  <2>1. k2 = k + 1
    <3>1. p \notin Live
      BY <1>1, <1>7 DEF Live, Stale, At
    <3> QED BY <1>1, <1>2, <3>1, MovesCount
  <2>2. ASSUME NEW q \in Tickets', proc'[q].at = "store"
        PROVE  2 * (proc'[q].val + k2) <= Room(k2)
    <3>1. proc'[q].val = proc[q].val /\ proc[q].at = "store" /\ proc[q].val \in Nat /\ m > 0 /\ k > 0
      BY <1>1, <1>3, <1>4, <2>2
    <3>2. 2 * (proc[q].val + k) <= Room(k) \/ 2 * (proc[q].val + m) <= Room(k)
      BY <1>1, <1>4, <1>7, <2>2, <3>1 DEF ClockInv, Counting, At
    <3>3. Room(k2) = Room(k) + 2 * k
      BY <1>5, <2>1
    <3> HIDE DEF k, k2, m
    <3> QED BY <1>5, <2>1, <3>1, <3>2, <3>3, SMT
  <2>3. rtc_devices' = 2
    BY <1>7
  <2> QED BY <1>2, <2>2, <2>3 DEF Counting, At
<1>8. CASE rtc_devices > 1 /\ proc[p].val > 1
  <2>1. p \in Live /\ p \in Tickets
    <3>1. p \in Live
      BY <1>1, <1>8 DEF Live, Stale, At
    <3> QED BY <3>1 DEF Tickets
  <2>2. k2 = k /\ m2 = m - 1
    BY <1>1, <1>2, <2>1, MovesCount
  <2>3. ASSUME NEW q \in Tickets, proc[q].at = "store"
        PROVE  2 * (proc[q].val + m) <= Room(k)
    <3>1. 2 * (proc[q].val + k) <= Room(k) \/ 2 * (proc[q].val + m) <= Room(k)
      BY <1>1, <1>8, <2>3 DEF ClockInv, Counting, At
    <3>2. proc[q].val \in Nat
      BY <1>1, <2>3, Counts, RtcAssumption
    <3> HIDE DEF k, m
    <3> QED BY <1>5, <3>1, <3>2, SMT
  <2>4. 2 * (rtc_devices' + m2) <= Room(k2)
    <3>1. 2 * (proc[p].val + m) <= Room(k) /\ proc[p].val \in Nat
      BY <1>1, <2>1, <2>3
    <3> HIDE DEF k, k2, m, m2
    <3> QED BY <1>5, <2>2, <3>1, SMT
  <2>5. ASSUME NEW q \in Tickets', proc'[q].at = "store"
        PROVE  2 * (proc'[q].val + m2) <= Room(k2)
    <3>1. proc'[q].val = proc[q].val /\ proc[q].at = "store" /\ proc[q].val \in Nat /\ q \in Tickets
      BY <1>1, <1>3, <1>4, <2>5
    <3>2. 2 * (proc[q].val + m) <= Room(k)
      BY <2>3, <3>1
    <3> HIDE DEF k, k2, m, m2
    <3> QED BY <1>5, <2>2, <3>1, <3>2, SMT
  <2>6. rtc_devices' > 2
    BY <1>1, <1>8
  <2> HIDE DEF k2, m2
  <2> QED BY <1>2, <2>4, <2>5, <2>6 DEF Counting, At, k2, m2
<1> QED BY <1>1, <1>6, <1>7, <1>8

\* Every step of the driver, the clock and the keyboard keeps the types: a divider
\* never leaves 0 .. RTC1024, and a count never the width of its counter.
LEMMA ClockTypingStep ==
  ASSUME ClockTyping, [RtcNext]_rtc_vars
  PROVE  ClockTyping'
<1> USE RtcAssumption DEF ClockTyping, Opening, At, Places
<1>1. ASSUME NEW p \in Terminals, Open(p) PROVE ClockTyping'
  BY <1>1 DEF Open
<1>2. ASSUME NEW p \in Terminals, Scan(p) PROVE ClockTyping'
  <2>1. CASE proc' = [proc EXCEPT ![p] = [at |-> "rate", left |-> {}, val |-> 2]]
    BY <1>2, <2>1 DEF Scan
  <2>2. CASE proc' = [proc EXCEPT ![p] = [at |-> "test", left |-> {}, val |-> 0]]
    BY <1>2, <2>2 DEF Scan
  <2>3. ASSUME NEW t, proc' = [proc EXCEPT ![p].left = @ \ {t}] PROVE ClockTyping'
    BY <1>2, <2>3 DEF Scan
  <2> QED BY <1>2, <2>1, <2>2, <2>3 DEF Scan
<1>3. ASSUME NEW p \in Terminals, TestDevices(p) PROVE ClockTyping'
  <2>1. CASE proc' = [proc EXCEPT ![p].at = "load"]
    BY <1>3, <2>1 DEF TestDevices
  <2>2. CASE proc' = [proc EXCEPT ![p] = [at |-> "rate", left |-> {}, val |-> RTC1024]]
    BY <1>3, <2>2 DEF TestDevices
  <2> QED BY <1>3, <2>1, <2>2 DEF TestDevices, Goto
<1>4. ASSUME NEW p \in Terminals, LoadDevices(p) PROVE ClockTyping'
  BY <1>4 DEF LoadDevices
<1>5. ASSUME NEW p \in Terminals, StoreDevices(p) PROVE ClockTyping'
  BY <1>5 DEF StoreDevices
<1>6. ASSUME NEW p \in Terminals, SetRate(p) PROVE ClockTyping'
  BY <1>6 DEF SetRate, Idle
<1>7. ASSUME NEW p \in Terminals, Write(p) PROVE ClockTyping'
  <2>1. PICK freq \in Frequencies :
          /\ freq \in LOWEST_ALLOWED_FREQ .. HIGHEST_ALLOWED_FREQ
          /\ req_count' = [req_count EXCEPT ![cur_terminal] = RTC1024 \div (freq * rtc_devices)]
    BY <1>7 DEF Write
  <2>2. freq * rtc_devices \in Nat /\ freq * rtc_devices > 0
    <3>1. freq \in Nat /\ freq > 0 /\ rtc_devices \in Nat /\ rtc_devices > 0
      BY <2>1 DEF LOWEST_ALLOWED_FREQ, HIGHEST_ALLOWED_FREQ
    <3> QED BY ONLY <3>1, SMT
  <2>3. RTC1024 \div (freq * rtc_devices) \in 0 .. RTC1024
    BY <2>2, DividerInRange
  <2> QED BY <1>7, <2>1, <2>3 DEF Write
<1>8. ASSUME NEW p \in Terminals, Read(p) PROVE ClockTyping'
  BY <1>8 DEF Read, Goto
<1>9. ASSUME NEW p \in Terminals, ClearFlag(p) PROVE ClockTyping'
  BY <1>9 DEF ClearFlag, Goto
<1>10. ASSUME NEW p \in Terminals, SeesFlag(p) PROVE ClockTyping'
  BY <1>10 DEF SeesFlag, Goto
<1>11. ASSUME Interrupt PROVE ClockTyping'
  <2> DEFINE c == (count[cur_terminal] + 1) % 2 ^ CountWidth
             d == Divide(c, req_count[cur_terminal])
  <2>1. c \in 0 .. 2 ^ CountWidth - 1
    <3>1. count[cur_terminal] + 1 \in Nat
      OBVIOUS
    <3>2. \A m \in Nat, w \in Nat : w > 0 => m % w \in 0 .. w - 1
      BY SMT
    <3>3. 2 ^ CountWidth \in Nat /\ 2 ^ CountWidth > 0
      OBVIOUS
    <3> QED BY <3>1, <3>2, <3>3
  <2>2. RTC1024 \div FREQ_SCALE \in 0 .. RTC1024
    <3>1. RTC1024 \in Nat /\ FREQ_SCALE \in Nat /\ FREQ_SCALE > 0
      OBVIOUS
    <3> QED BY ONLY <3>1, DividerInRange
  <2> HIDE DEF c
  <2>3. d.count \in 0 .. 2 ^ CountWidth - 1 /\ d.req \in 0 .. RTC1024 /\ d.flag \in {0, 1}
    BY <2>1, <2>2 DEF Divide
  <2>4. /\ count' = [count EXCEPT ![cur_terminal] = d.count]
        /\ req_count' = [req_count EXCEPT ![cur_terminal] = d.req]
        /\ RTC_IRQF' = d.flag
        /\ fresh' = [p \in Terminals |-> fresh[p] \/ (proc[p].at = "wait" /\ d.flag = 1)]
        /\ UNCHANGED <<cur_terminal, rtc_devices, rate, proc>>
    BY <1>11 DEF Interrupt, c
  <2>5. fresh' \in [Terminals -> BOOLEAN]
    BY <2>4
  <2> HIDE DEF d
  <2> QED BY <2>3, <2>4, <2>5
<1>12. ASSUME NEW t \in Terminals, AltFn(t) PROVE ClockTyping'
  BY <1>12 DEF AltFn
<1>13. ASSUME NEW p \in Terminals, CtrlC(p) PROVE ClockTyping'
  BY <1>13 DEF CtrlC, Idle
<1>14. CASE UNCHANGED rtc_vars
  BY <1>14 DEF rtc_vars
<1> QED BY <1>1, <1>2, <1>3, <1>4, <1>5, <1>6, <1>7, <1>8, <1>9, <1>10, <1>11, <1>12, <1>13, <1>14
        DEF RtcNext, Step

\* Every step keeps the count of the devices within its room.
LEMMA CountingStep ==
  ASSUME ClockInv, [RtcNext]_rtc_vars
  PROVE  Counting'
<1> USE DEF At, Goto
<1>1. ASSUME NEW p \in Terminals, Open(p) PROVE Counting'
  <2> DEFINE next == [at |-> "scan", left |-> Terminals, val |-> 0]
  <2>1. /\ proc' = [proc EXCEPT ![p] = next] /\ rtc_devices' = rtc_devices
        /\ next.at \notin {"load", "store"}
    BY <1>1 DEF Open
  <2> QED BY <2>1, CountsOn
<1>2. ASSUME NEW p \in Terminals, Scan(p) PROVE Counting'
  <2>1. PICK next : /\ proc' = [proc EXCEPT ![p] = next] /\ rtc_devices' = rtc_devices
                    /\ next.at \notin {"load", "store"}
    <3>1. proc[p] \in [at : Places, left : SUBSET Terminals, val : Nat]
      BY DEF ClockInv, ClockTyping
    <3>2. proc[p].at = "scan" /\ rtc_devices' = rtc_devices
      BY <1>2 DEF Scan
    <3>3. CASE proc' = [proc EXCEPT ![p] = [at |-> "rate", left |-> {}, val |-> 2]]
      BY <1>2, <3>3 DEF Scan
    <3>4. CASE proc' = [proc EXCEPT ![p] = [at |-> "test", left |-> {}, val |-> 0]]
      BY <1>2, <3>4 DEF Scan
    <3>5. ASSUME NEW t, proc' = [proc EXCEPT ![p].left = @ \ {t}]
          PROVE  \E next : /\ proc' = [proc EXCEPT ![p] = next] /\ rtc_devices' = rtc_devices
                            /\ next.at \notin {"load", "store"}
      <4> DEFINE after == [proc[p] EXCEPT !.left = @ \ {t}]
      <4>1. proc' = [proc EXCEPT ![p] = after] /\ after.at = "scan"
        BY <3>1, <3>2, <3>5
      <4> HIDE DEF after
      <4> QED BY <3>2, <4>1
    <3> QED BY <1>2, <3>3, <3>4, <3>5 DEF Scan
  <2> QED BY <2>1, CountsOn
<1>3. ASSUME NEW p \in Terminals, TestDevices(p) PROVE Counting'
  <2> DEFINE full == [at |-> "rate", left |-> {}, val |-> RTC1024]
             next == [proc[p] EXCEPT !.at = "load"]
  <2>1. CASE proc' = [proc EXCEPT ![p] = full]
    <3>1. full.at \notin {"load", "store"} /\ rtc_devices' = rtc_devices
      BY <1>3 DEF TestDevices
    <3> QED BY <2>1, <3>1, CountsOn
  <2>2. CASE rtc_devices < MAX_DEVICES /\ proc' = [proc EXCEPT ![p].at = "load"]
    <3>1. proc[p] \in [at : Places, left : SUBSET Terminals, val : Nat]
      BY DEF ClockInv, ClockTyping
    <3>2. proc' = [proc EXCEPT ![p] = next] /\ next.at = "load"
      BY <2>2, <3>1
    <3>3. proc[p].at = "test" /\ rtc_devices' = rtc_devices
      BY <1>3 DEF TestDevices
    <3> QED BY <2>2, <3>2, <3>3, CountsTest
  <2> QED BY <1>3, <2>1, <2>2 DEF TestDevices
<1>4. ASSUME NEW p \in Terminals, LoadDevices(p) PROVE Counting'
  <2> DEFINE next == [at |-> "store", left |-> {}, val |-> rtc_devices]
  <2>1. /\ proc' = [proc EXCEPT ![p] = next] /\ rtc_devices' = rtc_devices /\ proc[p].at = "load"
        /\ next.at = "store" /\ next.val = rtc_devices
    BY <1>4 DEF LoadDevices
  <2> QED BY <2>1, CountsLoad
<1>5. ASSUME NEW p \in Terminals, StoreDevices(p) PROVE Counting'
  <2> DEFINE next == [at |-> "rate", left |-> {}, val |-> RTC1024]
  <2>1. /\ proc' = [proc EXCEPT ![p] = next] /\ rtc_devices' = proc[p].val + 1
        /\ proc[p].at = "store" /\ next.at = "rate"
    BY <1>5 DEF StoreDevices
  <2> QED BY <2>1, CountsStore
<1>6. ASSUME NEW p \in Terminals, SetRate(p) \/ CtrlC(p) PROVE Counting'
  <2>1. /\ proc' = [proc EXCEPT ![p] = Idle] /\ rtc_devices' = rtc_devices
        /\ Idle.at \notin {"load", "store"}
    BY <1>6 DEF SetRate, CtrlC, Idle
  <2> QED BY <2>1, CountsOn
<1>7. ASSUME NEW p \in Terminals, NEW place \in {"clear", "wait", "idle"},
             proc' = [proc EXCEPT ![p].at = place], rtc_devices' = rtc_devices
      PROVE  Counting'
  <2> DEFINE next == [proc[p] EXCEPT !.at = place]
  <2>1. proc[p] \in [at : Places, left : SUBSET Terminals, val : Nat]
    BY DEF ClockInv, ClockTyping
  <2>2. /\ proc' = [proc EXCEPT ![p] = next] /\ next.at \notin {"load", "store"}
    BY <1>7, <2>1
  <2> QED BY <1>7, <2>2, CountsOn
<1>8. ASSUME NEW p \in Terminals, Read(p) \/ ClearFlag(p) \/ SeesFlag(p) PROVE Counting'
  BY <1>7, <1>8 DEF Read, ClearFlag, SeesFlag
<1>9. ASSUME UNCHANGED <<proc, rtc_devices>> PROVE Counting'
  BY <1>9 DEF ClockInv, Counting, Live, Stale, Tickets
<1> QED BY <1>1, <1>2, <1>3, <1>4, <1>5, <1>6, <1>8, <1>9
        DEF RtcNext, Step, Write, Interrupt, AltFn, rtc_vars

\* The room of all who open the clock bounds what is counted.
LEMMA ClockInvTypes == ClockInv => TypeOK
<1> SUFFICES ASSUME ClockInv PROVE TypeOK
  OBVIOUS
<1> DEFINE N == Cardinality(Openers)
           k == Cardinality(Live)
           m == Cardinality(Tickets)
           half == (N * (N - 1)) \div 2
<1>1. ClockTyping
  BY DEF ClockInv
<1>2. N \in Nat /\ k \in Nat /\ m \in Nat /\ k <= N
  BY Counts
<1>3. \A x \in Nat : 2 * x <= Room(k) => x <= DevicesBound
  <2> SUFFICES ASSUME NEW x \in Nat, 2 * x <= Room(k) PROVE x <= DevicesBound
    OBVIOUS
  <2> DEFINE product == N * (N - 1)
             lower == k * (k - 1)
  <2>1. product \in Int /\ lower \in Int /\ lower <= product
    <3>1. product \in Int /\ lower \in Int
      BY <1>2
    <3> QED BY <1>2, <3>1, RoomOrder
  <2>2. half \in Int /\ product < 2 * half + 2
    <3> HIDE DEF product
    <3>1. product \div 2 \in Int /\ product < 2 * (product \div 2) + 2
      BY <2>1, SMT
    <3> QED BY <3>1 DEF product
  <2>3. 2 * x <= 6 + lower
    BY DEF Room
  <2>4. DevicesBound = 3 + half
    BY DEF DevicesBound, MAX_DEVICES
  <2> HIDE DEF product, lower, half
  <2> QED BY <2>1, <2>2, <2>3, <2>4, SMT
<1>4. DevicesBound \in Nat /\ 3 <= DevicesBound
  <2>1. 2 * 3 <= Room(0) /\ DevicesBound \in Int
    <3>1. half \in Int
      <4>1. N * (N - 1) \in Int
        BY <1>2
      <4> QED BY <4>1, SMT
    <3>2. Room(0) = 6
      BY DEF Room
    <3> QED BY <3>1, <3>2 DEF DevicesBound, MAX_DEVICES
  <2>2. 2 * 3 <= Room(k)
    <3>1. 0 * (0 - 1) <= k * (k - 1) /\ k * (k - 1) \in Int
      BY <1>2, RoomOrder
    <3> DEFINE lower == k * (k - 1)
    <3>2. lower \in Int /\ lower >= 0
      BY <3>1
    <3>3. Room(k) = 6 + lower
      BY DEF Room
    <3> HIDE DEF lower
    <3> QED BY <3>2, <3>3
  <2> QED BY <1>3, <2>1, <2>2
<1>5. rtc_devices \in 1 .. DevicesBound
  <2>1. CASE rtc_devices > 2
    <3>1. 2 * (rtc_devices + m) <= Room(k) /\ rtc_devices + m \in Nat
      BY <1>1, <1>2, <2>1 DEF ClockInv, Counting, ClockTyping
    <3>2. rtc_devices + m <= DevicesBound
      BY <1>3, <3>1
    <3> HIDE DEF m
    <3> QED BY <1>1, <1>2, <1>4, <3>2 DEF ClockTyping
  <2>2. CASE rtc_devices <= 2
    BY <1>1, <1>4, <2>2 DEF ClockTyping
  <2> QED BY <1>1, <2>1, <2>2 DEF ClockTyping
<1>6. \A p \in Terminals : proc[p].val \in 0 .. DevicesBound \cup {2, RTC1024}
  <2> SUFFICES ASSUME NEW p \in Terminals PROVE proc[p].val \in 0 .. DevicesBound \cup {2, RTC1024}
    OBVIOUS
  <2>1. CASE proc[p].at = "store"
    <3>1. p \in Openers /\ proc[p].val \in Nat /\ proc[p].val > 0
      BY <1>1, <2>1 DEF ClockTyping, Opening, At
    <3>2. CASE proc[p].val = 1
      BY <1>4, <3>2
    <3>3. CASE proc[p].val > 1
      <4>1. p \in Live
        BY <2>1, <3>1, <3>3 DEF Live, Stale, At
      <4>2. p \in Tickets
        BY <2>1, <4>1 DEF Tickets
      <4>3. rtc_devices # 1 /\ rtc_devices \in Nat /\ rtc_devices > 0
        BY <1>1, <2>1, <3>3 DEF ClockInv, Counting, ClockTyping, At
      <4>4. 2 * (proc[p].val + k) <= Room(k) \/ 2 * (proc[p].val + m) <= Room(k)
        BY <2>1, <4>2, <4>3 DEF ClockInv, Counting, At
      <4>5. proc[p].val + k <= DevicesBound \/ proc[p].val + m <= DevicesBound
        BY <1>2, <1>3, <3>1, <4>4
      <4> HIDE DEF k, m
      <4> QED BY <1>2, <1>4, <3>1, <4>5
    <3> QED BY <3>1, <3>2, <3>3
  <2>2. CASE proc[p].at = "rate"
    BY <1>1, <2>2 DEF ClockTyping, At
  <2>3. CASE proc[p].at \notin {"store", "rate"}
    BY <1>1, <1>4, <2>3 DEF ClockTyping
  <2> QED BY <2>1, <2>2, <2>3
<1>7. proc \in [Terminals -> [at : Places, left : SUBSET Terminals,
                             val : 0 .. DevicesBound \cup {2, RTC1024}]]
  <2>1. \A p \in Terminals : proc[p] \in [at : Places, left : SUBSET Terminals, val : Nat]
    BY <1>1 DEF ClockTyping
  <2>2. \A p \in Terminals : proc[p] \in [at : Places, left : SUBSET Terminals,
                                         val : 0 .. DevicesBound \cup {2, RTC1024}]
    BY <1>6, <2>1
  <2> QED BY <1>1, <2>2 DEF ClockTyping
<1> QED BY <1>1, <1>5, <1>7 DEF ClockTyping, TypeOK

\* rtc_devices is never 0 and never more than 3 and one for each pair of openers,
\* however their tests, loads and stores of it interleave.
THEOREM ClockTypes == RtcSpec => []TypeOK
<1>1. RtcInit => ClockInv
  <2> SUFFICES ASSUME RtcInit PROVE ClockInv
    OBVIOUS
  <2>1. ClockTyping
    BY RtcAssumption DEF RtcInit, ClockTyping, Idle, Places, At, Opening
  <2>2. rtc_devices = 1 /\ \A p \in Terminals : ~At(p, "store")
    BY DEF RtcInit, Idle, At
  <2>3. Counting
    BY <2>2 DEF Counting
  <2> QED BY <2>1, <2>3 DEF ClockInv
<1>2. ClockInv /\ [RtcNext]_rtc_vars => ClockInv'
  BY ClockTypingStep, CountingStep DEF ClockInv
<1> QED BY <1>1, <1>2, ClockInvTypes, PTL DEF RtcSpec

-----------------------------------------------------------------------------
\* Whoever waits and sees the flag, sees it for a tick since its read began: the
\* clock marks all who wait when it raises the flag, and a process begins to wait
\* by clearing it.
LEMMA ClockFreshStep == TypeOK /\ ReadIsFresh /\ [RtcNext]_rtc_vars => ReadIsFresh'
<1> SUFFICES ASSUME TypeOK, ReadIsFresh, [RtcNext]_rtc_vars,
                    NEW q \in Terminals, proc'[q].at = "wait", RTC_IRQF' = 1
             PROVE  fresh'[q]
  BY DEF ReadIsFresh
<1> USE DEF TypeOK
<1>1. CASE proc[q].at = "wait" /\ RTC_IRQF = 1 /\ fresh'[q] = fresh[q]
  BY <1>1 DEF ReadIsFresh
<1>2. ASSUME NEW p \in Terminals, Open(p) PROVE fresh'[q]
  BY <1>1, <1>2 DEF Open
<1>3. ASSUME NEW p \in Terminals, SetRate(p) PROVE fresh'[q]
  BY <1>1, <1>3 DEF SetRate, Idle
<1>4. ASSUME NEW p \in Terminals, Write(p) PROVE fresh'[q]
  BY <1>1, <1>4 DEF Write
<1>5. ASSUME NEW p \in Terminals, Read(p) PROVE fresh'[q]
  BY <1>1, <1>5 DEF Read, Goto
<1>6. ASSUME NEW p \in Terminals, ClearFlag(p) PROVE fresh'[q]
  BY <1>6 DEF ClearFlag
<1>7. ASSUME NEW p \in Terminals, SeesFlag(p) PROVE fresh'[q]
  <2>1. p # q
    BY <1>7 DEF SeesFlag, Goto
  <2> QED BY <1>1, <1>7, <2>1 DEF SeesFlag, Goto
<1>8. ASSUME Interrupt PROVE fresh'[q]
  BY <1>8 DEF Interrupt
<1>9. ASSUME NEW t \in Terminals, AltFn(t) PROVE fresh'[q]
  BY <1>1, <1>9 DEF AltFn
<1>10. ASSUME NEW p \in Terminals,
              Scan(p) \/ TestDevices(p) \/ LoadDevices(p) \/ StoreDevices(p)
       PROVE  fresh'[q]
  <2>1. p # q \/ proc'[p].at # "wait"
    BY <1>10 DEF Scan, TestDevices, LoadDevices, StoreDevices, At, Goto
  <2>2. proc[q].at = "wait" /\ RTC_IRQF = 1 /\ fresh'[q] = fresh[q]
    BY <1>10, <2>1 DEF Scan, TestDevices, LoadDevices, StoreDevices, At, Goto
  <2> QED BY <1>1, <2>2
<1>11. ASSUME NEW p \in Terminals, CtrlC(p) PROVE fresh'[q]
  BY <1>1, <1>11 DEF CtrlC, Idle
<1>12. CASE UNCHANGED rtc_vars
  BY <1>1, <1>12 DEF rtc_vars
<1> QED BY <1>2, <1>3, <1>4, <1>5, <1>6, <1>7, <1>8, <1>9, <1>10, <1>11, <1>12 DEF RtcNext, Step

\* rtc_read() returns only for a tick of the clock that came after it began,
\* whichever processes of whichever terminals share the flag with it.
THEOREM ClockReadsFresh == RtcSpec => []ReadIsFresh
<1>1. RtcInit => ReadIsFresh
  BY DEF RtcInit, ReadIsFresh, Idle
<1> QED BY <1>1, ClockFreshStep, ClockTypes, PTL DEF RtcSpec
=============================================================================
