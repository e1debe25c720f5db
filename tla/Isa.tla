---- MODULE Isa ----
(***************************************************************************)
(* What a RISC-V processor promises a program: instructions are executed   *)
(* one at a time, each with the registers the one before it left, at the   *)
(* address the one before it gave.  The instruction and what a load        *)
(* returns come from memory and may be anything here.                      *)
(***************************************************************************)
EXTENDS Naturals

CONSTANTS
    W,          \* words, and addresses counted in instructions, are 0 .. W - 1
    Regs,       \* register numbers; 0 always reads 0
    Instrs,     \* records [op, rd, rs1, rs2, imm]
    None

Word == 0 .. W - 1
Plus(a, b) == (a + b) % W

VARIABLES
    pc, regs,
    last        \* the instruction just executed, and what it told the memory

vars == <<pc, regs, last>>

\* The value an instruction writes to rd, with a and b in its source registers.
Result(i, at, a, b, data) ==
    CASE i.op = "lui" -> i.imm
      [] i.op = "auipc" -> Plus(at, i.imm)
      [] i.op \in {"jal", "jalr"} -> Plus(at, 1)
      [] i.op = "load" -> data
      [] i.op = "slti" -> IF a < i.imm THEN 1 ELSE 0
      [] i.op = "addi" -> Plus(a, i.imm)
      [] i.op = "add" -> Plus(a, b)
      [] OTHER -> 0

Writes(i) == i.op \notin {"none", "br", "store"} /\ i.rd # 0

Target(i, at, a, b) ==
    CASE i.op = "jalr" -> Plus(a, i.imm)
      [] i.op = "jal" \/ (i.op = "br" /\ a = b) -> Plus(at, i.imm)
      [] OTHER -> Plus(at, 1)

Access(i, a, b, data) ==
    CASE i.op = "load" -> [addr |-> Plus(a, i.imm), data |-> data]
      [] i.op = "store" -> [addr |-> Plus(a, i.imm), data |-> b]
      [] OTHER -> None

Init ==
    /\ pc = 0
    /\ regs = [r \in Regs |-> 0]
    /\ last = None

Exec(i, data) ==
    LET a == regs[i.rs1]
        b == regs[i.rs2]
    IN  /\ last' = [instr |-> i, pc |-> pc, access |-> Access(i, a, b, data)]
        /\ regs' = IF Writes(i) THEN [regs EXCEPT ![i.rd] = Result(i, pc, a, b, data)]
                   ELSE regs
        /\ pc' = Target(i, pc, a, b)

\* Between two instructions the memory may be told nothing.
Idle == last' = None /\ UNCHANGED <<pc, regs>>

Next == Idle \/ \E i \in Instrs, data \in Word : Exec(i, data)
Spec == Init /\ [][Next]_vars
====
