---- MODULE Pipeline ----
(***************************************************************************)
(* The five stage pipeline of the RISC-V processor: its stage registers,   *)
(* hazard detection, forwarding and the squashing of what was fetched      *)
(* behind a taken branch.  The caches answer when they like.               *)
(***************************************************************************)
EXTENDS Naturals

CONSTANTS
    W, Regs, Instrs, Nothing,   \* as in Isa
    PaddedCode                  \* whether the code avoids what Unforwarded names

ASSUME PipelineAssumption ==
    /\ W \in Nat /\ W > 1
    /\ 0 \in Regs
    /\ \A i \in Instrs :
          /\ i.op \in {"lui", "auipc", "jal", "jalr", "br", "load", "store",
                       "addi", "slti", "add"}
          /\ {i.rd, i.rs1, i.rs2} \subseteq Regs
          /\ i.imm \in 0 .. W - 1
    /\ PaddedCode \in BOOLEAN

Word == 0 .. W - 1
Plus(a, b) == (a + b) % W

VARIABLES
    pc,             \* fetch
    if_id, id_ex, ex_mem, mem_wb,
    regfile,        \* the register file
    stored          \* history: what the instruction in writeback stored

pipeline_vars == <<pc, if_id, id_ex, ex_mem, mem_wb, regfile, stored>>

\* A stage register that was reset decodes to no operation.
Bubble == [op |-> "none", rd |-> 0, rs1 |-> 0, rs2 |-> 0, imm |-> 0]
IfId0 == [pc |-> 0, instr |-> Bubble]
IdEx0 == [pc |-> 0, instr |-> Bubble, rs1 |-> 0, rs2 |-> 0]
ExMem0 == [pc |-> 0, instr |-> Bubble, alu_out |-> 0, br_en |-> FALSE, rs2 |-> 0]
MemWb0 == [pc |-> 0, instr |-> Bubble, alu_out |-> 0, br_en |-> FALSE, mem |-> 0]

PipelineInit ==
    /\ pc = 0
    /\ if_id = IfId0 /\ id_ex = IdEx0 /\ ex_mem = ExMem0 /\ mem_wb = MemWb0
    /\ regfile = [r \in Regs |-> 0]
    /\ stored = 0

---------------------------------------------------------------------------
(* control_rom *)

LoadRegfile(i) ==
    i.op \in {"lui", "auipc", "jal", "jalr", "load", "addi", "slti", "add"}
AllowJmp(i) == i.op \in {"jal", "jalr"}
UsesMemory(i) == i.op \in {"load", "store"}

---------------------------------------------------------------------------
(* Writeback *)

RegfileMux ==
    LET i == mem_wb.instr IN
    CASE i.op = "lui" -> i.imm
      [] i.op \in {"jal", "jalr"} -> Plus(mem_wb.pc, 1)
      [] i.op = "load" -> mem_wb.mem
      [] i.op = "slti" -> IF mem_wb.br_en THEN 1 ELSE 0
      [] OTHER -> mem_wb.alu_out

\* The register file is transparent: what is being written is read.
Regfile(r) ==
    IF r = 0 THEN 0
    ELSE IF LoadRegfile(mem_wb.instr) /\ r = mem_wb.instr.rd THEN RegfileMux
    ELSE regfile[r]

---------------------------------------------------------------------------
(* forwarding_units *)

Forwards(stage, r) ==
    LoadRegfile(stage.instr) /\ stage.instr.rd # 0 /\ r = stage.instr.rd

\* Mutant: the older result is preferred.
ExForward_Oldest(r, value) ==
    IF Forwards(mem_wb, r) THEN RegfileMux
    ELSE IF Forwards(ex_mem, r) THEN ex_mem.alu_out
    ELSE value
ExForward(r, value) ==
    IF Forwards(ex_mem, r) THEN ex_mem.alu_out
    ELSE IF Forwards(mem_wb, r) THEN RegfileMux
    ELSE value

\* What a store writes may come from the instruction before it.
MemForward(r, value) == IF Forwards(mem_wb, r) THEN RegfileMux ELSE value

---------------------------------------------------------------------------
(* Execute *)

Alu(i, at, a, b) ==
    CASE i.op \in {"auipc", "jal", "br"} -> Plus(at, i.imm)
      [] i.op = "add" -> Plus(a, b)
      [] OTHER -> Plus(a, i.imm)

\* Only a branch and a slti look at what the comparator says.
BrEn(i, a, b) ==
    CASE i.op = "slti" -> a < i.imm
      [] i.op = "br" -> a = b
      [] OTHER -> FALSE

Execute ==
    LET i == id_ex.instr
        a == ExForward(i.rs1, id_ex.rs1)
        b == ExForward(i.rs2, id_ex.rs2)
    IN  [pc |-> id_ex.pc, instr |-> i, alu_out |-> Alu(i, id_ex.pc, a, b),
         br_en |-> BrEn(i, a, b), rs2 |-> b]

---------------------------------------------------------------------------
(* hazard_detector, and the assignments of datapath *)

HazardDetector(curr, prev) ==
    /\ prev.op = "load"
    /\ \/ curr.op \in {"br", "add"} /\ prev.rd \in {curr.rs1, curr.rs2}
       \/ curr.op \in {"jalr", "store", "addi", "slti"} /\ prev.rd = curr.rs1

Hazard == HazardDetector(if_id.instr, id_ex.instr)
PcMuxSel == (ex_mem.br_en /\ ex_mem.instr.op = "br") \/ AllowJmp(ex_mem.instr)

\* Mutant: the answer of the data cache is not looked at.
Stalls_NoAnswer(inst_resp, data_resp) == ~inst_resp \/ UsesMemory(ex_mem.instr)
Stalls(inst_resp, data_resp) == ~inst_resp \/ (UsesMemory(ex_mem.instr) /\ ~data_resp)

Squash(stall) == PcMuxSel /\ ~stall

IdExReset(stall) == Squash(stall) \/ (Hazard /\ ~stall)

---------------------------------------------------------------------------
(* What the pipeline does not do.  The result of a lui or a slti is not what
   the ALU computes, and is not forwarded to the next instruction; a load is
   not held back for its address; and a jump is lost when the instruction
   that should follow its two shadows is fetched while the second of them waits
   for the first.  prev and before are the two instructions fetched last. *)

UsesInExecute(i, r) ==
    \/ i.op \in {"br", "add"} /\ r \in {i.rs1, i.rs2}
    \/ i.op \in {"jalr", "store", "load", "addi", "slti"} /\ r = i.rs1

Unforwarded(i, prev, before) ==
    \/ prev.op \in {"lui", "slti"} /\ prev.rd # 0 /\ UsesInExecute(i, prev.rd)
    \/ prev.op = "load" /\ i.op = "load" /\ prev.rd # 0 /\ i.rs1 = prev.rd
    \/ before.op \in {"br", "jal", "jalr"} /\ HazardDetector(i, prev)

---------------------------------------------------------------------------
(* One clock cycle *)

\* What a store in the memory stage gives the data cache.
MemWData ==
    IF ex_mem.instr.op = "store" THEN MemForward(ex_mem.instr.rs2, ex_mem.rs2) ELSE 0

Clock(inst_resp, instr, data_resp, rdata) ==
    LET stall == Stalls(inst_resp, data_resp)
        hold == stall \/ Hazard
    IN  /\ pc' = IF hold THEN pc ELSE IF PcMuxSel THEN ex_mem.alu_out ELSE Plus(pc, 1)
        /\ if_id' = IF Squash(stall) THEN IfId0
                    ELSE IF hold THEN if_id
                    ELSE [pc |-> pc, instr |-> instr]
        /\ id_ex' = IF IdExReset(stall) THEN IdEx0
                    ELSE IF stall THEN id_ex
                    ELSE [pc |-> if_id.pc, instr |-> if_id.instr,
                          rs1 |-> Regfile(if_id.instr.rs1),
                          rs2 |-> Regfile(if_id.instr.rs2)]
        /\ ex_mem' = IF Squash(stall) THEN ExMem0
                     ELSE IF stall THEN ex_mem
                     ELSE Execute
        /\ mem_wb' = IF stall THEN mem_wb
                     ELSE [pc |-> ex_mem.pc, instr |-> ex_mem.instr,
                           alu_out |-> ex_mem.alu_out, br_en |-> ex_mem.br_en,
                           mem |-> rdata]
        /\ regfile' = IF stall \/ ~Forwards(mem_wb, mem_wb.instr.rd) THEN regfile
                      ELSE [regfile EXCEPT ![mem_wb.instr.rd] = RegfileMux]
        /\ stored' = IF stall THEN stored ELSE MemWData

Fetchable(instr) == PaddedCode => ~Unforwarded(instr, if_id.instr, id_ex.instr)
DataRead == IF ex_mem.instr.op = "load" THEN Word ELSE {0}

\* Both caches answer.
Answered ==
    \E instr \in Instrs, rdata \in DataRead :
        Fetchable(instr) /\ Clock(TRUE, instr, TRUE, rdata)

PipelineNext ==
    \/ Answered
    \/ \E inst_resp, data_resp \in BOOLEAN :
          Stalls(inst_resp, data_resp) /\ Clock(inst_resp, Bubble, data_resp, 0)

PipelineSpec == PipelineInit /\ [][PipelineNext]_pipeline_vars /\ WF_pipeline_vars(Answered)

---------------------------------------------------------------------------
(* Properties *)

\* The oldest instruction that has not been through memory yet.
OldestPc ==
    IF ex_mem.instr # Bubble THEN ex_mem.pc
    ELSE IF id_ex.instr # Bubble THEN id_ex.pc
    ELSE IF if_id.instr # Bubble THEN if_id.pc
    ELSE pc

\* The instruction that has just been through memory.
Executed ==
    LET i == mem_wb.instr IN
    IF i = Bubble THEN Nothing
    ELSE [instr |-> i, pc |-> mem_wb.pc,
          access |-> CASE i.op = "load" -> [addr |-> mem_wb.alu_out, data |-> mem_wb.mem]
                       [] i.op = "store" -> [addr |-> mem_wb.alu_out, data |-> stored]
                       [] OTHER -> Nothing]

Sequential == INSTANCE Isa WITH
    pc <- OldestPc, regs <- [r \in Regs |-> Regfile(r)], last <- Executed, None <- Nothing

\* Whatever the caches' delays, and however instructions depend on each other,
\* branch, or wait in the pipeline behind loads, but for the three cases that
\* Unforwarded names (what is forwarded of a lui or slt, a load addressed by the
\* load before it, a jump with a load and its use behind it), in which the code
\* goes wrong and which PaddedCode keeps out, they are executed as if one at a
\* time in program order: each at the address its predecessor gave, with the
\* registers its predecessors left, storing what it should; and none that was
\* fetched behind a taken branch leaves a trace.
ImplementsIsa == Sequential!Spec

\* The stages never wait for each other: as long as the caches answer,
\* instructions keep entering the pipeline and keep leaving it.
Completes == []<><<pc' # pc>>_pipeline_vars /\ []<>(mem_wb.instr # Bubble)
====
