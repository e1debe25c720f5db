---- MODULE MCPipeline ----
(***************************************************************************)
(* Instructions over one register besides x0, and a few with x0 where the  *)
(* pipeline must not take it for a register.                               *)
(***************************************************************************)
EXTENDS Pipeline

I(op, rd, rs1, rs2, imm) == [op |-> op, rd |-> rd, rs1 |-> rs1, rs2 |-> rs2, imm |-> imm]

MCInstrs ==
    {I("addi", 1, 1, 0, 1), I("addi", 0, 1, 0, 1), I("add", 1, 1, 1, 0), I("slti", 1, 1, 0, 1),
     I("lui", 1, 1, 1, 1), I("auipc", 1, 0, 0, 1), I("load", 1, 1, 0, 0), I("store", 0, 0, 1, 0),
     I("br", 0, 1, 0, 2), I("jal", 1, 0, 0, 2), I("jalr", 1, 1, 0, 0)}
====
