----------------------------- MODULE Encodings -------------------------------
(***************************************************************************)
(* The tables of the test environment's encoding.h: instructions, control  *)
(* and status registers, trap causes and interrupts.  A 32-bit word is the *)
(* record of its fields: q (bits 1:0), op (6:2), rd, f3, rs1, rs2, f7.     *)
(***************************************************************************)
EXTENDS Integers, Sequences, FiniteSets, TLC

(* A row: op and f3 (Free where MASK leaves it out); v is what f7 \div d     *)
(* modulo r must be; rs2 (Free or its value); the registers that must be 0. *)
Free == -1
Row(op, f3, d, r, v, rs2, zero) ==
  [op |-> op, f3 |-> f3, d |-> d, r |-> r, v |-> v, rs2 |-> rs2, zero |-> zero]

OP(op)                == Row(op, Free, 1, 1, 0, Free, {})             \* MASK 0x7f
F3(op, f3)            == Row(op, f3, 1, 1, 0, Free, {})              \* 0x707f
F7(op, f3, f7)        == Row(op, f3, 1, 128, f7, Free, {})           \* 0xfe00707f
F6(op, f3, f6)        == Row(op, f3, 2, 64, f6, Free, {})            \* 0xfc00707f
F5(op, f3, f5)        == Row(op, f3, 4, 32, f5, Free, {})            \* 0xf800707f
F5R(op, f3, f5)       == Row(op, f3, 4, 32, f5, 0, {})              \* 0xf9f0707f
F7R(op, f3, f7, rs2)  == Row(op, f3, 1, 128, f7, rs2, {})           \* 0xfff0707f
F7D(op, f3, f7)       == Row(op, f3, 1, 128, f7, Free, {"rd"})       \* 0xfe007fff
RM(op, f7)            == Row(op, Free, 1, 128, f7, Free, {})          \* 0xfe00007f
RM2(op, f7, rs2)      == Row(op, Free, 1, 128, f7, rs2, {})          \* 0xfff0007f
FMT(op, fmt)          == Row(op, Free, 1, 4, fmt, Free, {})           \* 0x600007f
EXACT(op, f7, rs2)    == Row(op, 0, 1, 128, f7, rs2, {"rs1", "rd"}) \* 0xffffffff

Matches(row, w) == /\ w.q = 3 /\ w.op = row.op /\ row.f3 \in {Free, w.f3}
                   /\ (w.f7 \div row.d) % row.r = row.v
                   /\ row.rs2 \in {Free, w.rs2}
                   /\ \A x \in row.zero : w[x] = 0

Rows_I == [
  BEQ |-> F3(24,0), BNE |-> F3(24,1), BLT |-> F3(24,4), BGE |-> F3(24,5), BLTU |-> F3(24,6),
  BGEU |-> F3(24,7), JALR |-> F3(25,0), JAL |-> OP(27), LUI |-> OP(13), AUIPC |-> OP(5),
  ADDI |-> F3(4,0), SLLI |-> F6(4,1,0), SLTI |-> F3(4,2), SLTIU |-> F3(4,3), XORI |-> F3(4,4),
  SRLI |-> F6(4,5,0), SRAI |-> F6(4,5,16), ORI |-> F3(4,6), ANDI |-> F3(4,7), ADD |-> F7(12,0,0),
  SUB |-> F7(12,0,32), SLL |-> F7(12,1,0), SLT |-> F7(12,2,0), SLTU |-> F7(12,3,0),
  XOR |-> F7(12,4,0), SRL |-> F7(12,5,0), SRA |-> F7(12,5,32), OR |-> F7(12,6,0),
  AND |-> F7(12,7,0), ADDIW |-> F3(6,0), SLLIW |-> F7(6,1,0), SRLIW |-> F7(6,5,0),
  SRAIW |-> F7(6,5,32), ADDW |-> F7(14,0,0), SUBW |-> F7(14,0,32), SLLW |-> F7(14,1,0),
  SRLW |-> F7(14,5,0), SRAW |-> F7(14,5,32), LB |-> F3(0,0), LH |-> F3(0,1), LW |-> F3(0,2),
  LD |-> F3(0,3), LBU |-> F3(0,4), LHU |-> F3(0,5), LWU |-> F3(0,6), SB |-> F3(8,0),
  SH |-> F3(8,1), SW |-> F3(8,2), SD |-> F3(8,3), FENCE |-> F3(3,0), FENCE_I |-> F3(3,1)]

Rows_M == [
  MUL |-> F7(12,0,1), MULH |-> F7(12,1,1), MULHSU |-> F7(12,2,1), MULHU |-> F7(12,3,1),
  DIV |-> F7(12,4,1), DIVU |-> F7(12,5,1), REM |-> F7(12,6,1), REMU |-> F7(12,7,1),
  MULW |-> F7(14,0,1), DIVW |-> F7(14,4,1), DIVUW |-> F7(14,5,1), REMW |-> F7(14,6,1),
  REMUW |-> F7(14,7,1)]

Rows_A == [
  AMOADD_W |-> F5(11,2,0), AMOXOR_W |-> F5(11,2,4), AMOOR_W |-> F5(11,2,8),
  AMOAND_W |-> F5(11,2,12), AMOMIN_W |-> F5(11,2,16), AMOMAX_W |-> F5(11,2,20),
  AMOMINU_W |-> F5(11,2,24), AMOMAXU_W |-> F5(11,2,28), AMOSWAP_W |-> F5(11,2,1),
  LR_W |-> F5R(11,2,2), SC_W |-> F5(11,2,3), AMOADD_D |-> F5(11,3,0), AMOXOR_D |-> F5(11,3,4),
  AMOOR_D |-> F5(11,3,8), AMOAND_D |-> F5(11,3,12), AMOMIN_D |-> F5(11,3,16),
  AMOMAX_D |-> F5(11,3,20), AMOMINU_D |-> F5(11,3,24), AMOMAXU_D |-> F5(11,3,28),
  AMOSWAP_D |-> F5(11,3,1), LR_D |-> F5R(11,3,2), SC_D |-> F5(11,3,3)]

Rows_Priv == [
  ECALL |-> EXACT(28,0,0), EBREAK |-> EXACT(28,0,1), URET |-> EXACT(28,0,2),
  SRET |-> EXACT(28,8,2), MRET |-> EXACT(28,24,2), DRET |-> EXACT(28,61,18),
  SFENCE_VMA |-> F7D(28,0,9), WFI |-> EXACT(28,8,5), CSRRW |-> F3(28,1), CSRRS |-> F3(28,2),
  CSRRC |-> F3(28,3), CSRRWI |-> F3(28,5), CSRRSI |-> F3(28,6), CSRRCI |-> F3(28,7)]

Rows_F == [
  FADD_S |-> RM(20,0), FSUB_S |-> RM(20,4), FMUL_S |-> RM(20,8), FDIV_S |-> RM(20,12),
  FSGNJ_S |-> F7(20,0,16), FSGNJN_S |-> F7(20,1,16), FSGNJX_S |-> F7(20,2,16),
  FMIN_S |-> F7(20,0,20), FMAX_S |-> F7(20,1,20), FSQRT_S |-> RM2(20,44,0)]

Rows_D == [
  FADD_D |-> RM(20,1), FSUB_D |-> RM(20,5), FMUL_D |-> RM(20,9), FDIV_D |-> RM(20,13),
  FSGNJ_D |-> F7(20,0,17), FSGNJN_D |-> F7(20,1,17), FSGNJX_D |-> F7(20,2,17),
  FMIN_D |-> F7(20,0,21), FMAX_D |-> F7(20,1,21), FCVT_S_D |-> RM2(20,32,1),
  FCVT_D_S |-> RM2(20,33,0), FSQRT_D |-> RM2(20,45,0)]

Rows_Q == [
  FADD_Q |-> RM(20,3), FSUB_Q |-> RM(20,7), FMUL_Q |-> RM(20,11), FDIV_Q |-> RM(20,15),
  FSGNJ_Q |-> F7(20,0,19), FSGNJN_Q |-> F7(20,1,19), FSGNJX_Q |-> F7(20,2,19),
  FMIN_Q |-> F7(20,0,23), FMAX_Q |-> F7(20,1,23), FCVT_S_Q |-> RM2(20,32,3),
  FCVT_Q_S |-> RM2(20,35,0), FCVT_D_Q |-> RM2(20,33,3), FCVT_Q_D |-> RM2(20,35,1),
  FSQRT_Q |-> RM2(20,47,0)]

Rows_FCmp == [
  FLE_S |-> F7(20,0,80), FLT_S |-> F7(20,1,80), FEQ_S |-> F7(20,2,80), FLE_D |-> F7(20,0,81),
  FLT_D |-> F7(20,1,81), FEQ_D |-> F7(20,2,81), FLE_Q |-> F7(20,0,83), FLT_Q |-> F7(20,1,83),
  FEQ_Q |-> F7(20,2,83)]

Rows_FCvt == [
  FCVT_W_S |-> RM2(20,96,0), FCVT_WU_S |-> RM2(20,96,1), FCVT_L_S |-> RM2(20,96,2),
  FCVT_LU_S |-> RM2(20,96,3), FMV_X_W |-> F7R(20,0,112,0), FCLASS_S |-> F7R(20,1,112,0),
  FCVT_W_D |-> RM2(20,97,0), FCVT_WU_D |-> RM2(20,97,1), FCVT_L_D |-> RM2(20,97,2),
  FCVT_LU_D |-> RM2(20,97,3), FMV_X_D |-> F7R(20,0,113,0), FCLASS_D |-> F7R(20,1,113,0),
  FCVT_W_Q |-> RM2(20,99,0), FCVT_WU_Q |-> RM2(20,99,1), FCVT_L_Q |-> RM2(20,99,2),
  FCVT_LU_Q |-> RM2(20,99,3), FMV_X_Q |-> F7R(20,0,115,0), FCLASS_Q |-> F7R(20,1,115,0),
  FCVT_S_W |-> RM2(20,104,0), FCVT_S_WU |-> RM2(20,104,1), FCVT_S_L |-> RM2(20,104,2),
  FCVT_S_LU |-> RM2(20,104,3), FMV_W_X |-> F7R(20,0,120,0), FCVT_D_W |-> RM2(20,105,0),
  FCVT_D_WU |-> RM2(20,105,1), FCVT_D_L |-> RM2(20,105,2), FCVT_D_LU |-> RM2(20,105,3),
  FMV_D_X |-> F7R(20,0,121,0), FCVT_Q_W |-> RM2(20,107,0), FCVT_Q_WU |-> RM2(20,107,1),
  FCVT_Q_L |-> RM2(20,107,2), FCVT_Q_LU |-> RM2(20,107,3), FMV_Q_X |-> F7R(20,0,123,0)]

Rows_FMem == [
  FLW |-> F3(1,2), FLD |-> F3(1,3), FLQ |-> F3(1,4), FSW |-> F3(9,2), FSD |-> F3(9,3),
  FSQ |-> F3(9,4)]

Rows_FMA == [
  FMADD_S |-> FMT(16,0), FMSUB_S |-> FMT(17,0), FNMSUB_S |-> FMT(18,0), FNMADD_S |-> FMT(19,0),
  FMADD_D |-> FMT(16,1), FMSUB_D |-> FMT(17,1), FNMSUB_D |-> FMT(18,1), FNMADD_D |-> FMT(19,1),
  FMADD_Q |-> FMT(16,3), FMSUB_Q |-> FMT(17,3), FNMSUB_Q |-> FMT(18,3), FNMADD_Q |-> FMT(19,3)]

(* The four spaces left to custom instructions, by the operands they name. *)
Rows_Custom == {F3(op, f3) : op \in {2, 10, 22, 30}, f3 \in {0, 2, 3, 4, 6, 7}}

(* Every row, as DECLARE_INSN lists them. *)
Rows == Rows_I @@ Rows_M @@ Rows_A @@ Rows_Priv @@ Rows_F @@ Rows_D @@ Rows_Q @@ Rows_FCmp
        @@ Rows_FCvt @@ Rows_FMem @@ Rows_FMA

(* A compressed row is the set of the fields <<lowest bit, width, value>>  *)
(* MASK selects.                                                           *)
C3(q, f3)      == {<<0, 2, q>>, <<13, 3, f3>>}                      \* 0xe003
C4(q, f4)      == {<<0, 2, q>>, <<12, 4, f4>>}                      \* 0xf003
C4Z(q, f4)     == C4(q, f4) \cup {<<2, 5, 0>>}                      \* 0xf07f
C5(q, f3, f2)  == C3(q, f3) \cup {<<10, 2, f2>>}                    \* 0xec03
C6(q, f6, f2)  == {<<0, 2, q>>, <<10, 6, f6>>, <<5, 2, f2>>}        \* 0xfc63
CD(q, f3, rd)  == C3(q, f3) \cup {<<7, 5, rd>>}                     \* 0xef83
CX(h)          == {<<0, 16, h>>}                                    \* 0xffff

CMatches(row, h) == \A f \in row : (h \div 2^f[1]) % 2^f[2] = f[3]

Rows_C == [
  C_NOP |-> CX(1), C_ADDI16SP |-> CD(1,3,2), C_JR |-> C4Z(2,8), C_JALR |-> C4Z(2,9),
  C_EBREAK |-> CX(36866), C_LD |-> C3(0,3), C_SD |-> C3(0,7), C_ADDIW |-> C3(1,1),
  C_LDSP |-> C3(2,3), C_SDSP |-> C3(2,7), C_ADDI4SPN |-> C3(0,0), C_FLD |-> C3(0,1),
  C_LW |-> C3(0,2), C_FLW |-> C3(0,3), C_FSD |-> C3(0,5), C_SW |-> C3(0,6), C_FSW |-> C3(0,7),
  C_ADDI |-> C3(1,0), C_JAL |-> C3(1,1), C_LI |-> C3(1,2), C_LUI |-> C3(1,3),
  C_SRLI |-> C5(1,4,0), C_SRAI |-> C5(1,4,1), C_ANDI |-> C5(1,4,2), C_SUB |-> C6(1,35,0),
  C_XOR |-> C6(1,35,1), C_OR |-> C6(1,35,2), C_AND |-> C6(1,35,3), C_SUBW |-> C6(1,39,0),
  C_ADDW |-> C6(1,39,1), C_J |-> C3(1,5), C_BEQZ |-> C3(1,6), C_BNEZ |-> C3(1,7),
  C_SLLI |-> C3(2,0), C_FLDSP |-> C3(2,1), C_LWSP |-> C3(2,2), C_FLWSP |-> C3(2,3),
  C_MV |-> C4(2,8), C_ADD |-> C4(2,9), C_FSDSP |-> C3(2,5), C_SWSP |-> C3(2,6),
  C_FSWSP |-> C3(2,7)]

(* The registers by the lowest privilege that may name them. *)
Csr_Counters == 3072 .. 3103                            \* cycle .. hpmcounter31
Csr_CountersHigh == 3200 .. 3231
Csr_MachineCountersHigh == {2944} \cup (2946 .. 2975)
Csr_User == (1 .. 3) \cup Csr_Counters \cup Csr_CountersHigh
Csr_Supervisor == {256, 260, 261, 262, 384} \cup (320 .. 324)
Csr_Machine == (768 .. 774) \cup (832 .. 836) \cup (928 .. 931) \cup (944 .. 959)
               \cup (1952 .. 1955) \cup (1968 .. 1970)
               \cup {2816} \cup (2818 .. 2847) \cup {800} \cup (803 .. 831)
               \cup (3857 .. 3860) \cup Csr_MachineCountersHigh
Csr_ReadOnly == Csr_Counters \cup Csr_CountersHigh \cup (3857 .. 3860)
Csr_Declared == Csr_User \cup Csr_Supervisor \cup Csr_Machine    \* DECLARE_CSR

Cause == [ILLEGAL_INSTRUCTION |-> 2, BREAKPOINT |-> 3, USER_ECALL |-> 8,
          SUPERVISOR_ECALL |-> 9, MACHINE_ECALL |-> 11]

PRV_U == 0
PRV_S == 1
PRV_M == 3
IRQ == [S_SOFT |-> 1, M_SOFT |-> 3, S_TIMER |-> 5, M_TIMER |-> 7, S_EXT |-> 9, M_EXT |-> 11]
=============================================================================
