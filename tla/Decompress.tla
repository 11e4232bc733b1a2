------------------------------ MODULE Decompress -----------------------------
(***************************************************************************)
(* decompress.bsv, RV64 with spfpu: stage1 expands a halfword whose two    *)
(* lowest bits are not 3 into the word the decoder is given.               *)
(***************************************************************************)
EXTENDS Decoder, FiniteSetsExt

At(h, hi, lo) == (h \div 2^lo) % 2^(hi - lo + 1)        \* inst[hi:lo]

RVC(h, n) == 8 + At(h, n + 2, n)                        \* RS1_P (n = 7), RS2_P, RD_P (n = 2)
SPreg == 2
RA == 1

(* The three layouts a word is put together in. *)
I_(imm, rs1, f3, rd, op) == Word(3, op, f3, imm \div 32, imm % 32, rs1, rd)
R_(f7, rs2, rs1, f3, rd, op) == Word(3, op, f3, f7, rs2, rs1, rd)

IMM_4SP(h)   == At(h,10,7) * 64 + At(h,12,11) * 16 + At(h,5,5) * 8 + At(h,6,6) * 4
IMM_16SP(h)  == At(h,12,12) * 3584 + At(h,4,3) * 128 + At(h,5,5) * 64 + At(h,2,2) * 32
                + At(h,6,6) * 16
IMM_MEMLD(h) == At(h,6,5) * 64 + At(h,12,10) * 8
IMM_MEMLW(h) == At(h,5,5) * 64 + At(h,12,10) * 8 + At(h,6,6) * 4
IMM_MEMSD_hi(h)  == At(h,6,5) * 2 + At(h,12,12)
IMM_MEMSD_low(h) == At(h,11,10) * 8
IMM_MEMSW_hi(h)  == At(h,5,5) * 2 + At(h,12,12)
IMM_MEMSW_low(h) == At(h,11,10) * 8 + At(h,6,6) * 4
IMM_IOP(h)   == At(h,12,12) * 4064 + At(h,6,2)
SHAMT(h)     == At(h,12,12) * 32 + At(h,6,2)
IMM_BRANCH_hi(h)  == At(h,12,12) * 120 + At(h,6,5) * 2 + At(h,2,2)
IMM_BRANCH_low(h) == At(h,11,10) * 8 + At(h,4,3) * 2 + At(h,12,12)
IMM_DSP(h)   == At(h,4,2) * 64 + At(h,12,12) * 32 + At(h,6,5) * 8
IMM_WSP(h)   == At(h,3,2) * 64 + At(h,12,12) * 32 + At(h,6,4) * 4
IMM_MEMDSP_hi(h) == At(h,9,7) * 2 + At(h,12,12)
IMM_MEMDSP_lo(h) == At(h,11,10) * 8
IMM_MEMWSP_hi(h) == At(h,8,7) * 2 + At(h,12,12)
IMM_MEMWSP_lo(h) == At(h,11,9) * 4

(* Twenty bits above rd: IMM_J for a jump, IMM_LUI. *)
bug_J_swaps_6_7(h, rd) ==
  Word(3, 27, At(h,12,12) * 7,
       At(h,12,12) * 64 + At(h,8,8) * 32 + At(h,10,9) * 8 + At(h,7,7) * 4 + At(h,6,6) * 2 + At(h,2,2),
       At(h,11,11) * 16 + At(h,5,3) * 2 + At(h,12,12), At(h,12,12) * 31, rd)
J_(h, rd) ==
  Word(3, 27, At(h,12,12) * 7,
       At(h,12,12) * 64 + At(h,8,8) * 32 + At(h,10,9) * 8 + At(h,6,6) * 4 + At(h,7,7) * 2 + At(h,2,2),
       At(h,11,11) * 16 + At(h,5,3) * 2 + At(h,12,12), At(h,12,12) * 31, rd)
LUI_(h, rd) ==
  Word(3, 13, At(h,4,2), At(h,12,12) * 127, At(h,12,12) * 31, At(h,12,12) * 28 + At(h,6,5), rd)

(* default: the halfword itself, which the decoder refuses. *)
ZeroExtended(h) == Word(h % 4, At(h,6,2), At(h,14,12), 0, 0, At(h,15,15), At(h,11,7))

Quad0(h) ==
  LET rs1 == RVC(h, 7)
      r2  == RVC(h, 2)
  IN  CASE At(h,15,13) = 0 /\ At(h,12,5) # 0 -> I_(IMM_4SP(h), SPreg, 0, r2, 4)
        [] At(h,15,13) = 1 -> I_(IMM_MEMLD(h), rs1, 3, r2, 1)
        [] At(h,15,13) = 2 -> I_(IMM_MEMLW(h), rs1, 2, r2, 0)
        [] At(h,15,13) = 3 -> I_(IMM_MEMLD(h), rs1, 3, r2, 0)
        [] At(h,15,13) = 5 -> R_(IMM_MEMSD_hi(h), r2, rs1, 3, IMM_MEMSD_low(h), 9)
        [] At(h,15,13) = 6 -> R_(IMM_MEMSW_hi(h), r2, rs1, 2, IMM_MEMSW_low(h), 8)
        [] At(h,15,13) = 7 -> R_(IMM_MEMSD_hi(h), r2, rs1, 3, IMM_MEMSD_low(h), 8)
        [] OTHER -> ZeroExtended(h)

Quad1(h) ==
  LET rd  == At(h,11,7)
      rs1 == RVC(h, 7)
      r2  == RVC(h, 2)
      imm == SHAMT(h)                                   \* inst[12], inst[6:2]
      f3  == At(h,15,13)
  IN  CASE f3 = 0 -> I_(IMM_IOP(h), rd, 0, rd, 4)
        [] f3 = 1 /\ rd # 0 -> I_(IMM_IOP(h), rd, 0, rd, 6)
        [] f3 = 2 -> I_(IMM_IOP(h), 0, 0, rd, 4)
        [] f3 = 3 /\ imm # 0 ->
             IF rd = SPreg THEN I_(IMM_16SP(h), SPreg, 0, SPreg, 4) ELSE LUI_(h, rd)
        [] f3 = 4 /\ At(h,11,10) = 0 -> I_(imm, rs1, 5, rs1, 4)
        [] f3 = 4 /\ At(h,11,10) = 1 -> I_(1024 + imm, rs1, 5, rs1, 4)
        [] f3 = 4 /\ At(h,11,10) = 2 -> I_(IMM_IOP(h), rs1, 7, rs1, 4)
        [] f3 = 4 /\ At(h,12,10) = 3 ->
             LET k == At(h,6,5) + 1
             IN  R_(<<32, 0, 0, 0>>[k], r2, rs1, <<0, 4, 6, 7>>[k], rs1, 12)
        [] f3 = 4 /\ At(h,12,10) = 7 /\ At(h,6,5) < 2 ->
             R_(IF At(h,6,5) = 0 THEN 32 ELSE 0, r2, rs1, 0, rs1, 14)
        [] f3 = 5 -> J_(h, 0)
        [] f3 \in {6, 7} -> R_(IMM_BRANCH_hi(h), 0, rs1, f3 - 6, IMM_BRANCH_low(h), 24)
        [] OTHER -> ZeroExtended(h)

Quad2(h) ==
  LET rd == At(h,11,7)
      r2 == At(h,6,2)
  IN  CASE At(h,15,13) = 0 -> I_(SHAMT(h), rd, 1, rd, 4)
        [] At(h,15,13) = 1 -> I_(IMM_DSP(h), SPreg, 3, rd, 1)
        [] At(h,15,13) = 2 /\ rd # 0 -> I_(IMM_WSP(h), SPreg, 2, rd, 0)
        [] At(h,15,13) = 3 -> I_(IMM_DSP(h), SPreg, 3, rd, 0)
        [] At(h,15,12) = 8 /\ r2 = 0 /\ rd # 0 -> I_(0, rd, 0, 0, 25)
        [] At(h,15,12) = 8 /\ r2 # 0 -> R_(0, r2, 0, 0, rd, 12)
        [] At(h,15,12) = 9 /\ r2 = 0 /\ rd = 0 -> I_(1, 0, 0, 0, 28)
        [] At(h,15,12) = 9 /\ r2 = 0 /\ rd # 0 -> I_(0, rd, 0, RA, 25)
        [] At(h,15,12) = 9 /\ r2 # 0 -> R_(0, r2, rd, 0, rd, 12)
        [] At(h,15,13) = 5 -> R_(IMM_MEMDSP_hi(h), r2, SPreg, 3, IMM_MEMDSP_lo(h), 9)
        [] At(h,15,13) = 6 -> R_(IMM_MEMWSP_hi(h), r2, SPreg, 2, IMM_MEMWSP_lo(h), 8)
        [] At(h,15,13) = 7 -> R_(IMM_MEMDSP_hi(h), r2, SPreg, 3, IMM_MEMDSP_lo(h), 8)
        [] OTHER -> ZeroExtended(h)

fn_decompress(h) ==
  CASE h % 4 = 0 -> Quad0(h) [] h % 4 = 1 -> Quad1(h) [] h % 4 = 2 -> Quad2(h)

(* Every halfword that is not the start of a 32-bit instruction. *)
Expand == \E h \in {x \in 0 .. 65535 : x % 4 # 3} :
  dec' = [kind |-> "half", h |-> h,
          out |-> decoder_func(fn_decompress(h), Csrs0, TRUE, Quiet), w |-> fn_decompress(h)]

(***************************************************************************)
(* Properties                                                              *)
(***************************************************************************)
(* The rows of an RV64 machine; the row of a halfword is the one of those  *)
(* that match it whose MASK has most bits.                                 *)
Rows64 == DOMAIN Rows_C \ {"C_JAL", "C_FLW", "C_FSW", "C_FLWSP", "C_FSWSP"}
Bits == [n \in Rows64 |-> MapThenSumSet(LAMBDA f : f[2], Rows_C[n])]
RowsMatching(h) == {n \in Rows64 : CMatches(Rows_C[n], h)}
RowOf(h) == CHOOSE n \in RowsMatching(h) : \A k \in RowsMatching(h) : Bits[k] <= Bits[n]

(* Bits s of the halfword at places p of the immediate: pairs <<s, p>>.    *)
(* A signed one repeats bit 12 from a place on.                            *)
Placed(h, pairs) == {p[2] : p \in {q \in pairs : Bit(h, q[1]) = 1}}
Signed(h, pairs, from) == Placed(h, pairs) \cup (IF Bit(h, 12) = 1 THEN from .. 31 ELSE {})

Word_  == {<<6,2>>, <<10,3>>, <<11,4>>, <<12,5>>, <<5,6>>}
Double == {<<10,3>>, <<11,4>>, <<12,5>>, <<5,6>>, <<6,7>>}
Five(at) == {<<s, s - 2 + at>> : s \in 2 .. 6}

M(row, rd, rs1, rs2, imm) == [row |-> row, rd |-> rd, rs1 |-> rs1, rs2 |-> rs2, imm |-> imm]
NoImm == {-1}

(* The base instruction, registers and immediate a compressed instruction  *)
(* stands for.                                                             *)
Meaning(n, h) ==
  LET d  == At(h,11,7)
      s2 == At(h,6,2)
      p1 == RVC(h, 7)
      p2 == RVC(h, 2)
  IN CASE n = "C_ADDI4SPN" -> M("ADDI", p2, 2, 0, Placed(h, {<<6,2>>, <<5,3>>, <<11,4>>, <<12,5>>,
                                              <<7,6>>, <<8,7>>, <<9,8>>, <<10,9>>}))
       [] n = "C_LW"  -> M("LW", p2, p1, 0, Placed(h, Word_))
       [] n = "C_LD"  -> M("LD", p2, p1, 0, Placed(h, Double))
       [] n = "C_FLD" -> M("FLD", p2, p1, 0, Placed(h, Double))
       [] n = "C_SW"  -> M("SW", 0, p1, p2, Placed(h, Word_))
       [] n = "C_SD"  -> M("SD", 0, p1, p2, Placed(h, Double))
       [] n = "C_FSD" -> M("FSD", 0, p1, p2, Placed(h, Double))
       [] n \in {"C_NOP", "C_ADDI"} -> M("ADDI", d, d, 0, Signed(h, Five(0), 5))
       [] n = "C_ADDIW" -> M("ADDIW", d, d, 0, Signed(h, Five(0), 5))
       [] n = "C_LI" -> M("ADDI", d, 0, 0, Signed(h, Five(0), 5))
       [] n = "C_ADDI16SP" -> M("ADDI", 2, 2, 0,
                                Signed(h, {<<6,4>>, <<2,5>>, <<5,6>>, <<3,7>>, <<4,8>>}, 9))
       [] n = "C_LUI" -> M("LUI", d, 0, 0, Signed(h, Five(12), 17))
       [] n = "C_SRLI" -> M("SRLI", p1, p1, 0, Placed(h, Five(0) \cup {<<12,5>>}))
       [] n = "C_SRAI" -> M("SRAI", p1, p1, 0, Placed(h, Five(0) \cup {<<12,5>>}) \cup {10})
       [] n = "C_ANDI" -> M("ANDI", p1, p1, 0, Signed(h, Five(0), 5))
       [] n = "C_SUB" -> M("SUB", p1, p1, p2, NoImm)
       [] n = "C_XOR" -> M("XOR", p1, p1, p2, NoImm)
       [] n = "C_OR"  -> M("OR", p1, p1, p2, NoImm)
       [] n = "C_AND" -> M("AND", p1, p1, p2, NoImm)
       [] n = "C_SUBW" -> M("SUBW", p1, p1, p2, NoImm)
       [] n = "C_ADDW" -> M("ADDW", p1, p1, p2, NoImm)
       [] n = "C_J" -> M("JAL", 0, 0, 0, Signed(h, {<<3,1>>, <<4,2>>, <<5,3>>, <<11,4>>, <<2,5>>,
                                         <<7,6>>, <<6,7>>, <<9,8>>, <<10,9>>, <<8,10>>}, 11))
       [] n \in {"C_BEQZ", "C_BNEZ"} ->
            M(IF n = "C_BEQZ" THEN "BEQ" ELSE "BNE", 0, p1, 0,
              Signed(h, {<<3,1>>, <<4,2>>, <<10,3>>, <<11,4>>, <<2,5>>, <<5,6>>, <<6,7>>}, 8))
       [] n = "C_SLLI" -> M("SLLI", d, d, 0, Placed(h, Five(0) \cup {<<12,5>>}))
       [] n = "C_LWSP" -> M("LW", d, 2, 0, Placed(h, {<<4,2>>, <<5,3>>, <<6,4>>, <<12,5>>, <<2,6>>, <<3,7>>}))
       [] n \in {"C_LDSP", "C_FLDSP"} ->
            M(IF n = "C_LDSP" THEN "LD" ELSE "FLD", d, 2, 0,
              Placed(h, {<<5,3>>, <<6,4>>, <<12,5>>, <<2,6>>, <<3,7>>, <<4,8>>}))
       [] n = "C_SWSP" -> M("SW", 0, 2, s2, Placed(h, {<<9,2>>, <<10,3>>, <<11,4>>, <<12,5>>, <<7,6>>, <<8,7>>}))
       [] n \in {"C_SDSP", "C_FSDSP"} ->
            M(IF n = "C_SDSP" THEN "SD" ELSE "FSD", 0, 2, s2,
              Placed(h, {<<10,3>>, <<11,4>>, <<12,5>>, <<7,6>>, <<8,7>>, <<9,8>>}))
       [] n = "C_JR"   -> M("JALR", 0, d, 0, {})
       [] n = "C_JALR" -> M("JALR", 1, d, 0, {})
       [] n = "C_MV"   -> M("ADD", d, 0, s2, NoImm)
       [] n = "C_ADD"  -> M("ADD", d, d, s2, NoImm)
       [] n = "C_EBREAK" -> M("EBREAK", 0, 0, 0, NoImm)

(* The halfwords the ISA reserves in a row.  It reserves c.ldsp with rd=0  *)
(* too, which the expansion lets through as a load of x0.                  *)
Reserved(n, h) == \/ n = "C_ADDI4SPN" /\ At(h,12,5) = 0
                  \/ n \in {"C_ADDIW", "C_LWSP", "C_JR"} /\ At(h,11,7) = 0
                  \/ n \in {"C_LUI", "C_ADDI16SP"} /\ At(h,12,12) = 0 /\ At(h,6,2) = 0

(* Expanding and then decoding a halfword gives the operation, registers   *)
(* and immediate of the compressed instruction encoding.h names for it; a  *)
(* halfword that is reserved or in no row is an illegal instruction.       *)
ExpansionKeepsMeaning ==
  dec.kind = "half" =>
    LET h == dec.h
        n == RowOf(h)
        m == Meaning(n, h)
    IN  IF RowsMatching(h) = {} \/ Reserved(n, h)
          THEN dec.out.inst_type = "TRAP" /\ dec.out.funct_cause = Cause.ILLEGAL_INSTRUCTION
          ELSE /\ Matches(Rows[m.row], dec.w)
               /\ dec.out.rd = m.rd /\ dec.out.rs1 = m.rs1 /\ dec.out.rs2 = m.rs2
               /\ m.imm # NoImm => dec.out.imm = m.imm
               /\ IF n = "C_EBREAK" THEN dec.out.funct_cause = Cause.BREAKPOINT
                  ELSE dec.out.inst_type # "TRAP"
=============================================================================
