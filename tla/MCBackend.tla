------------------------------ MODULE MCBackend ------------------------------
(***************************************************************************)
(* Instances of Backend for TLC.                                           *)
(***************************************************************************)
EXTENDS Backend, TLC

CONSTANTS r1, v1, v2, nv

In(t, a, b, c, d) ==
    [type |-> t, src |-> [o \in Operands |->
        CASE o = "rs1" -> a [] o = "rs2" -> b [] o = "rs3" -> c [] OTHER -> d]]

(* One register: every kind of instruction, reading and writing r1.        *)
OneReg ==
    {In(t, r1, x0, x0, r1) : t \in {"ALU", "SYSTEM", "TRAP", "LOAD", "MULDIV", "CONTROL"}}
    \union {In(t, r1, r1, x0, x0) : t \in {"STORE", "SFENCE", "XRET"}}
    \union {In("ATOMIC", r1, x0, x0, r1), In("FLOAT", x0, x0, r1, r1), In("PSIMD", x0, x0, x0, r1)}

(* The instructions that show what becomes of operand d.                   *)
SimdInstrs ==
    {In("ALU", x0, x0, x0, r1), In("MULDIV", x0, x0, x0, r1), In("PSIMD", x0, x0, x0, r1)}

(* A faulting load, a trap and two writers of the same register.           *)
WawInstrs ==
    {In("LOAD", x0, x0, x0, r1), In("LOAD", x0, x0, x0, x0), In("TRAP", x0, x0, x0, r1),
     In("ALU", r1, x0, x0, x0)}

(* Every way an instruction can wait, on one register.                     *)
LiveInstrs ==
    {In("ALU", r1, x0, x0, r1), In("LOAD", r1, x0, x0, r1), In("TRAP", x0, x0, x0, r1),
     In("CONTROL", r1, x0, x0, x0)}

Symm == Permutations({v1, v2})
=============================================================================
