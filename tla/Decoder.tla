------------------------------- MODULE Decoder -------------------------------
(***************************************************************************)
(* decoder.bsv with the patterns of decoder.defines, as configured for     *)
(* RV64 with A, D, F, M, P (psimd), S, U and zicsr.  A word is the record  *)
(* of its fields (see Encodings); csrs holds what CSRtoDecode carries:     *)
(* misa (the set of enabled extensions), fs, frm, prv, tvm, tw, tsr.       *)
(* An immediate is the set of its one bits.  One behaviour decodes one     *)
(* instruction; the decoder keeps no state of its own.                     *)
(***************************************************************************)
EXTENDS Encodings

VARIABLE dec          \* what the decoder was given and what it answered

Bit(x, n) == (x \div 2^n) % 2
csr_addr(w) == w.f7 * 32 + w.rs2                        \* inst[31:20]

(* inst[n] *)
InstBit(w, n) == CASE n \in 0 .. 1   -> Bit(w.q, n)
                   [] n \in 2 .. 6   -> Bit(w.op, n - 2)
                   [] n \in 7 .. 11  -> Bit(w.rd, n - 7)
                   [] n \in 12 .. 14 -> Bit(w.f3, n - 12)
                   [] n \in 15 .. 19 -> Bit(w.rs1, n - 15)
                   [] n \in 20 .. 24 -> Bit(w.rs2, n - 20)
                   [] n \in 25 .. 31 -> Bit(w.f7, n - 25)

(***************************************************************************)
(* Control registers: who may access them, which interrupt is taken.       *)
(***************************************************************************)
hasCSRPermission(a, write, prv) == prv >= (a \div 256) % 4 /\ ~(write /\ a \div 1024 = 3)

valid_csr_access(a, operand, operation, tvm, prv) ==
  /\ hasCSRPermission(a, operand # 0 \/ operation = 1, prv)
  /\ ~(a = 384 /\ tvm /\ prv = PRV_S)

(* csrbox_decoder (generated): the implemented registers; 1 .. 3 need fs. *)
address_valid(a, c) == /\ a \in Csr_Declared
                       /\ a \in 1 .. 3 => c.fs

(* <<cause, taken>>; i.mip and i.mie are sets of causes.  Of the pending   *)
(* ones the first in this order is taken, whatever its destination.        *)
Priority == <<11, 3, 7, 9, 1, 5, 8, 0, 4>>
bug_pending_no_mie(prv, i) ==
  {n \in i.mie \cap i.mip : n \in i.mideleg => prv = PRV_U \/ (i.sstatus_sie /\ prv = PRV_S)}
Pending(prv, i) ==
  LET m_enabled == prv # PRV_M \/ i.mstatus_mie
      s_enabled == prv = PRV_U \/ (i.sstatus_sie /\ prv = PRV_S)
  IN  {n \in i.mie \cap i.mip : IF n \in i.mideleg THEN s_enabled ELSE m_enabled}
chk_interrupt(prv, i) ==
  LET pending == Pending(prv, i)
      first   == CHOOSE k \in 1 .. Len(Priority) :
                   Priority[k] \in pending /\ \A j \in 1 .. k - 1 : Priority[j] \notin pending
  IN  IF pending = {} THEN <<-1, FALSE>> ELSE <<Priority[first], TRUE>>

(***************************************************************************)
(* Operands.  Opcodes 0 .. 3 match LOAD_op, 4 .. 7 IMM_ARITH_op, 16 .. 19  *)
(* R4_op and 20 .. 23 FN_op; 13 LUI, 5 AUIPC, 27 JAL, 25 JALR, 28 SYSTEM,  *)
(* 8 STORE, 9 FSTORE, 24 BRANCH, 11 ATOMIC, 3 FENCE.                       *)
(***************************************************************************)
fn_decode_rs1(w) == IF w.op \in {13, 5, 27} \/ (w.op = 28 /\ w.f3 >= 4) THEN 0 ELSE w.rs1
fn_decode_rs1type(w) ==
  IF w.op \in {27, 25, 5} THEN "PC"
  ELSE IF w.op \in 16 .. 19 \/ (w.op \in 20 .. 23 /\ w.f7 \div 8 \notin {13, 15})
         THEN "FRF" ELSE "IRF"

fn_decode_rs2(w) ==
  LET reads == CASE w.op \in {27, 25, 13} \cup 0 .. 7 -> FALSE
                 [] w.op = 28 -> w.f3 = 0 /\ w.f7 \in {9, 17, 49}
                 [] w.op \in 20 .. 23 -> Bit(w.f7, 5) = 0
                 [] OTHER -> TRUE
  IN  IF reads THEN w.rs2 ELSE 0
fn_decode_rs2type(w, compressed) ==
  CASE w.op \in {27, 25, 3} -> IF compressed THEN "Constant2" ELSE "Constant4"
    [] w.op \in {13} \cup 4 .. 7 -> "Immediate"
    [] w.op \in {9} \cup 16 .. 19 -> "FRF"
    [] w.op \in 20 .. 23 -> IF Bit(w.f7, 5) = 0 THEN "FRF" ELSE "IRF"
    [] OTHER -> "IRF"

fn_decode_rd(w) == IF w.op \in {24, 8, 9} THEN 0 ELSE w.rd
(* These three match whole words, so inst[1:0] must be 3. *)
R4_TYPE(w) == w.q = 3 /\ w.op \in 16 .. 19
fn_decode_rdtype(w) ==
  IF \/ w.q = 3 /\ w.op = 1
     \/ w.q = 3 /\ w.op = 20 /\ w.f7 \div 8 \notin {10, 12, 14}
     \/ R4_TYPE(w)
    THEN "FRF" ELSE "IRF"
fn_decode_rs3(w) == IF R4_TYPE(w) THEN w.f7 \div 4 ELSE 0
fn_decode_rs3type(w) == IF R4_TYPE(w) THEN "FRF" ELSE "IRF"

(* For each bit of the immediate the bit of the word it is, -1 for zero. *)
ImmSource(w, misa) ==
  LET stype == w.op = 8 \/ (w.op = 9 /\ "F" \in misa)
      btype == w.op = 24
      utype == w.op \in {13, 5}
      jtype == w.op = 27
      atomictype == w.op = 11
  IN  [n \in 0 .. 31 |->
        IF atomictype THEN -1
        ELSE CASE n = 0 -> IF stype THEN 7 ELSE IF btype \/ utype \/ jtype THEN -1 ELSE 20
               [] n \in 1 .. 4 -> IF stype \/ btype THEN n + 7 ELSE IF utype THEN -1 ELSE n + 20
               [] n \in 5 .. 10 -> IF utype THEN -1 ELSE n + 20
               [] n = 11 -> IF btype THEN 7 ELSE IF utype THEN -1 ELSE IF jtype THEN 20 ELSE 31
               [] n \in 12 .. 19 -> IF utype \/ jtype \/ w.op = 28 THEN n ELSE 31
               [] n \in 20 .. 30 -> IF utype THEN n ELSE 31
               [] n = 31 -> 31]
fn_decode_immediate(w, misa) ==
  LET src == ImmSource(w, misa)
  IN  {n \in 0 .. 31 : src[n] # -1 /\ InstBit(w, src[n]) = 1}

fn_decode_mem_access(w) ==
  CASE w.op \in {8, 9} -> "Store"
    [] w.op = 3 -> IF Bit(w.f3, 0) = 1 THEN "FenceI" ELSE "Fence"
    [] w.op = 11 -> "Atomic"
    [] w.op = 28 /\ w.f7 = 9 /\ w.f3 = 0 -> "SFence"
    [] OTHER -> "Load"

(***************************************************************************)
(* The type of an instruction: the patterns of decoder.defines under the   *)
(* conditions of fn_decode_insttype.  What matches none is a TRAP.         *)
(***************************************************************************)
IsALU(w) ==
  \/ w.op \in {13, 5}
  \/ w.op = 4 /\ (w.f3 = 1 => w.f7 \div 2 = 0) /\ (w.f3 = 5 => w.f7 \div 2 \in {0, 16})
  \/ w.op = 12 /\ w.f7 \in {0, 32} /\ (w.f7 = 32 => w.f3 \in {0, 5})
  \/ w.op = 6 /\ (w.f3 = 0 \/ (w.f3 = 1 /\ w.f7 = 0) \/ (w.f3 = 5 /\ w.f7 \in {0, 32}))
  \/ w.op = 14 /\ w.f7 \in {0, 32} /\ (w.f3 \in {0, 5} \/ (w.f3 = 1 /\ w.f7 = 0))

bug_lr_any_rs2(w, c) ==
  \/ w.op = 0 /\ w.f3 # 7
  \/ w.op = 8 /\ w.f3 < 4
  \/ w.op = 3 /\ w.f3 \in {0, 1}
  \/ w.op = 28 /\ w.f3 = 0 /\ w.f7 = 9 /\ w.rd = 0 /\ (~c.tvm \/ c.prv = PRV_M)
  \/ w.op = 11 /\ w.f3 \in {2, 3} /\ "A" \in c.misa
       /\ w.f7 \div 4 \in {0, 1, 2, 3, 4, 8, 12, 16, 20, 24, 28}
  \/ w.op \in {1, 9} /\ w.f3 \in {2, 3} /\ "F" \in c.misa /\ c.fs
       /\ (w.f3 = 3 => "D" \in c.misa)
IsMEMORY(w, c) ==
  \/ w.op = 0 /\ w.f3 # 7
  \/ w.op = 8 /\ w.f3 < 4
  \/ w.op = 3 /\ w.f3 \in {0, 1}
  \/ w.op = 28 /\ w.f3 = 0 /\ w.f7 = 9 /\ w.rd = 0 /\ (~c.tvm \/ c.prv = PRV_M)
  \/ w.op = 11 /\ w.f3 \in {2, 3} /\ "A" \in c.misa
       /\ \/ w.f7 \div 4 \in {0, 1, 3, 4, 8, 12, 16, 20, 24, 28}
          \/ w.f7 \div 4 = 2 /\ w.rs2 = 0
  \/ w.op \in {1, 9} /\ w.f3 \in {2, 3} /\ "F" \in c.misa /\ c.fs
       /\ (w.f3 = 3 => "D" \in c.misa)

IsRet(w, c) == /\ w.f3 = 0 /\ w.rs1 = 0 /\ w.rd = 0
               /\ \/ csr_addr(w) = 2 /\ "N" \in c.misa
                  \/ csr_addr(w) = 258 /\ "S" \in c.misa
                       /\ (c.prv = PRV_M \/ (c.prv = PRV_S /\ ~c.tsr))
                  \/ csr_addr(w) = 770 /\ c.prv = PRV_M
IsSYSTEM(w, c) ==
  w.op = 28 /\ \/ IsRet(w, c)
               \/ /\ w.f3 \notin {0, 4} /\ address_valid(csr_addr(w), c)
                  /\ valid_csr_access(csr_addr(w), w.rs1, w.f3 % 4, c.tvm, c.prv)
IsWFI(w, c) == /\ w.op = 28 /\ w.f3 = 0 /\ w.rs1 = 0 /\ w.rd = 0
               /\ csr_addr(w) = 261 /\ (c.prv = PRV_M \/ ~c.tw)

valid_rounding(w, c) == IF w.f3 = 7 THEN c.frm \notin {5, 6, 7} ELSE w.f3 \notin {5, 6}
IsFLOAT(w, c) ==
  LET D == "D" \in c.misa
      f6 == w.f7 \div 2                                 \* funct7 without its last bit
      double == w.f7 % 2 = 1
  IN  /\ w.op \in 16 .. 20 /\ "F" \in c.misa /\ c.fs
      /\ IF w.op # 20 THEN f6 % 2 = 0 /\ valid_rounding(w, c) /\ D        \* FUSED
         ELSE \/ f6 \in {0, 2, 4, 6} /\ valid_rounding(w, c) /\ D         \* FLOAT_ARITH
              \/ f6 = 22 /\ w.rs2 = 0 /\ valid_rounding(w, c) /\ (double => D)  \* FSQRT
              \/ f6 = 8 /\ w.f3 \in 0 .. 2 /\ D                           \* FSGN
              \/ f6 = 10 /\ w.f3 \in 0 .. 1 /\ D                          \* FMIN_MAX
              \/ f6 = 40 /\ w.f3 \in 0 .. 2 /\ D                          \* FCMP
              \/ f6 \in {56, 60} /\ w.rs2 = 0 /\ D                        \* FMV_CLASS
                   /\ (w.f3 = 0 \/ (w.f3 = 1 /\ f6 = 56))
              \/ f6 \in {48, 52} /\ w.rs2 < 4 /\ valid_rounding(w, c) /\ (double => D)
              \/ f6 = 16 /\ w.rs2 < 2 /\ w.f7 % 2 # w.rs2                 \* FCVT2
                   /\ valid_rounding(w, c) /\ D

fn_decode_insttype(w, c) ==
  IF w.q # 3 THEN "TRAP" ELSE
  CASE w.op = 27 -> "JAL"
    [] w.op = 25 /\ w.f3 = 0 -> "JALR"
    [] w.op = 24 /\ w.f3 \notin {2, 3} -> "BRANCH"
    [] IsALU(w) -> "ALU"
    [] IsMEMORY(w, c) -> "MEMORY"
    [] IsWFI(w, c) -> "WFI"
    [] IsSYSTEM(w, c) -> "SYSTEM_INSTR"
    [] w.op = 12 /\ w.f7 = 1 /\ "M" \in c.misa -> "MULDIV"
    [] w.op = 14 /\ w.f7 = 1 /\ "M" \in c.misa /\ w.f3 \notin 1 .. 3 -> "MULDIV"
    [] w.op = 29 /\ "P" \in c.misa -> "PSIMD"
    [] IsFLOAT(w, c) -> "FLOAT"
    [] OTHER -> "TRAP"

(* ALU functions: FNADD 0, FNSEQ 2, FNSNE 3, FNSUB 10, FNSRA 11, FNSLT 12, *)
(* FNSLTU 14.  An atomic's function comes from bits 31:27.                 *)
ArithFn(w) == CASE w.f3 = 2 -> 12 [] w.f3 = 3 -> 14
                [] w.f3 = 5 -> IF Bit(w.f7, 5) = 1 THEN 11 ELSE 5
                [] OTHER -> w.f3
fn_decode_fn(w, misa) ==
  LET f5 == w.f7 \div 4
  IN  CASE w.op = 11 /\ w.f3 \in {2, 3} ->
             IF f5 % 4 # 0 THEN (f5 % 8) * 2 + 1 ELSE (f5 \div 4) * 2 + (f5 % 2)
        [] w.op = 24 -> IF w.f3 < 4 THEN 2 + (w.f3 % 2) ELSE 8 + w.f3
        [] w.op \in {4, 6} -> ArithFn(w)
        [] w.op \in {12, 14} /\ w.f7 \in {0, 32} ->
             IF w.f3 = 0 /\ w.f7 = 32 THEN 10 ELSE ArithFn(w)
        [] w.op \in 16 .. 23 -> IF misa \cap {"F", "D"} # {} THEN w.op % 16 ELSE 0
        [] OTHER -> 0

fn_decode_trapcause(w, c) ==
  IF w.q # 3 \/ ~(w.op = 28 /\ w.f7 = 0 /\ w.rs2 \in {0, 1} /\ w.rs1 = 0 /\ w.f3 = 0 /\ w.rd = 0)
    THEN Cause.ILLEGAL_INSTRUCTION
  ELSE IF w.rs2 = 1 THEN Cause.BREAKPOINT
  ELSE IF "U" \in c.misa /\ c.prv = PRV_U THEN Cause.USER_ECALL
  ELSE IF "S" \in c.misa /\ c.prv = PRV_S THEN Cause.SUPERVISOR_ECALL
  ELSE Cause.MACHINE_ECALL

decode_word32(w) == \/ w.op \in {6, 14, 29}
                    \/ w.op \in {10, 11} /\ w.f3 % 2 = 0
                    \/ w.op \in 16 .. 23 /\ w.f7 % 2 = 0

fn_decode(w, c, compressed) ==
  LET type == fn_decode_insttype(w, c)
      access == fn_decode_mem_access(w)
      funct3 == IF type = "FLOAT" /\ w.f3 = 7 THEN c.frm ELSE w.f3
  IN  [rs1 |-> fn_decode_rs1(w), rs1type |-> fn_decode_rs1type(w),
       rs2 |-> fn_decode_rs2(w), rs2type |-> fn_decode_rs2type(w, compressed),
       rs3 |-> fn_decode_rs3(w), rs3type |-> fn_decode_rs3type(w),
       rd |-> fn_decode_rd(w), rdtype |-> fn_decode_rdtype(w),
       imm |-> fn_decode_immediate(w, c.misa), memaccess |-> access, inst_type |-> type,
       funct_cause |-> IF type = "TRAP" THEN fn_decode_trapcause(w, c)
                       ELSE fn_decode_fn(w, c.misa) * 8 + funct3,
       interrupt |-> FALSE,
       microtrap |-> access \in {"Fence", "FenceI", "SFence"} \/ type = "SYSTEM_INSTR"]

(* e: what stage2 passes besides the word: a fetch trap and its cause, the *)
(* micro-trap left by the previous instruction, the interrupt registers.   *)
decoder_func(w, c, compressed, e) ==
  LET r == fn_decode(w, c, compressed)
      int == chk_interrupt(c.prv, e)
  IN  IF e.is_microtrap
        THEN [r EXCEPT !.inst_type = "TRAP", !.funct_cause = e.mcause, !.microtrap = FALSE]
      ELSE IF int[2] /\ r.inst_type # "WFI"
        THEN [r EXCEPT !.inst_type = "TRAP", !.funct_cause = int[1], !.interrupt = TRUE]
      ELSE IF e.trap THEN [r EXCEPT !.inst_type = "TRAP", !.funct_cause = e.cause]
      ELSE r

(***************************************************************************)
(* One instruction per behaviour: every funct field of every opcode under  *)
(* the control registers that matter to it.                                *)
(***************************************************************************)
Full == {"A", "D", "F", "M", "P", "S", "U"}
Csrs0 == [misa |-> Full, fs |-> TRUE, frm |-> 0, prv |-> PRV_M,
          tvm |-> FALSE, tw |-> FALSE, tsr |-> FALSE]
Quiet == [trap |-> FALSE, cause |-> 0, is_microtrap |-> FALSE, mcause |-> 0,
          mip |-> {}, mie |-> {}, mideleg |-> {}, mstatus_mie |-> TRUE, sstatus_sie |-> TRUE]
Nothing == [kind |-> "none"]

Word(q, op, f3, f7, rs2, rs1, rd) ==
  [q |-> q, op |-> op, f3 |-> f3, f7 |-> f7, rs2 |-> rs2, rs1 |-> rs1, rd |-> rd]

(* The word of row n with the bits of x where MASK has none. *)
Canonical(n, x) ==
  LET r == Rows[n]
      reg(f, v) == IF f \in r.zero THEN 0 ELSE v
  IN  Word(3, r.op, IF r.f3 = Free THEN x.f3 ELSE r.f3,
           (x.f7 \div (r.d * r.r)) * (r.d * r.r) + r.v * r.d + (x.f7 % r.d),
           IF r.rs2 = Free THEN x.rs2 ELSE r.rs2, reg("rs1", x.rs1), reg("rd", x.rd))
Fill == Word(3, 0, 0, 0, 3, 2, 1)

Answer(row, w, c, e) ==
  dec' = [kind |-> "word", row |-> row, w |-> w, c |-> c, e |-> e,
          out |-> decoder_func(w, c, FALSE, e)]

DecodeInteger ==
  \E op \in 0 .. 31 \ {1, 9, 16, 17, 18, 19, 20, 28}, f3 \in 0 .. 7, f7 \in 0 .. 127,
     rs2 \in {0, 1}, on \in BOOLEAN :
    /\ op # 11 => rs2 = 0
    /\ op \notin {4, 6, 11, 12, 14} => f7 \in {0, 127}
    /\ on \/ op \in {11, 12, 14, 29}
    /\ Answer("", Word(3, op, f3, f7, rs2, 1, 2),
              [Csrs0 EXCEPT !.misa = IF on THEN Full ELSE Full \ {"A", "M", "P"}], Quiet)
DecodeFloat ==
  \E op \in {1, 9, 16, 17, 18, 19, 20}, f3 \in 0 .. 7, f7 \in 0 .. 127, rs2 \in 0 .. 4,
     off \in {{}, {"D"}, {"D", "F"}}, fs \in BOOLEAN, frm \in {4, 5} :
    /\ (frm = 5 => f3 = 7) /\ (~fs => off = {})
    /\ op \in {1, 9} => rs2 = 0 /\ f7 \in {0, 127}
    /\ op \in 16 .. 19 => rs2 = 0 /\ f7 < 8
    /\ Answer("", Word(3, op, f3, f7, rs2, 1, 2),
              [Csrs0 EXCEPT !.misa = Full \ off, !.fs = fs, !.frm = frm], Quiet)

(* The system opcode.  The traps of a virtualised machine are all on, or   *)
(* all off with fs on; rd and the N extension vary where they matter.      *)
SystemAddresses == Csr_Declared \cup 0 .. 5 \cup 256 .. 261 \cup {770, 1970}
                   \cup 288 .. 290 \cup 2047 .. 2049 \cup {4095}
SystemInput(a, f3, rd, trap, ext) ==
  /\ f3 # 0 => ext = {} /\ (rd = 0 \/ a = 1)
  /\ trap => f3 = 0 \/ a \in {384, 1}
SystemWord(a, f3, rs1, rd) == Word(3, 28, f3, a \div 32, a % 32, rs1, rd)
SystemCsrs(prv, misa, trap) ==
  [Csrs0 EXCEPT !.prv = prv, !.fs = ~trap, !.misa = misa, !.tvm = trap, !.tw = trap, !.tsr = trap]
DecodeSystem ==
  \E a \in SystemAddresses, f3 \in 0 .. 7, rs1 \in {0, 1}, rd \in {0, 1},
     prv \in {PRV_U, PRV_S, PRV_M}, trap \in BOOLEAN, ext \in SUBSET {"N"} :
    /\ SystemInput(a, f3, rd, trap, ext)
    /\ Answer("", SystemWord(a, f3, rs1, rd), SystemCsrs(prv, Full \cup ext, trap), Quiet)
DecodeCanonical ==
  \E n \in DOMAIN Rows, ones \in BOOLEAN :
    Answer(n, Canonical(n, IF ones THEN Word(3, 31, 7, 127, 31, 31, 31) ELSE Fill),
           [Csrs0 EXCEPT !.misa = Full \cup {"N"}], Quiet)

(* An instruction met by interrupts, a fetch fault or a micro-trap. *)
DecodeDisturbed ==
  \E n \in {"ADDI", "WFI", "CSRRW"}, prv \in {PRV_U, PRV_S, PRV_M},
     mip \in SUBSET {1, 3, 5, 7, 9, 11}, mideleg \in SUBSET {1, 5, 9},
     mstatus_mie, sstatus_sie, trap, micro \in BOOLEAN :
    /\ trap \/ micro => mideleg = {} /\ mip \in SUBSET {7}
    /\ Answer("", Canonical(n, Fill), [Csrs0 EXCEPT !.prv = prv],
              [trap |-> trap, cause |-> 12, is_microtrap |-> micro, mcause |-> 3,
               mip |-> mip, mie |-> mip, mideleg |-> mideleg,
               mstatus_mie |-> mstatus_mie, sstatus_sie |-> sstatus_sie])

Decode == \/ DecodeInteger \/ DecodeFloat \/ DecodeSystem \/ DecodeCanonical
          \/ DecodeDisturbed

(***************************************************************************)
(* Properties                                                              *)
(***************************************************************************)
IsWord == dec.kind = "word"
Undisturbed == IsWord /\ dec.e = Quiet
Accepted == dec.out.inst_type # "TRAP"

RowsOf == [op \in 0 .. 31 |-> {n \in DOMAIN Rows : Rows[n].op = op}]
FloatRows == DOMAIN Rows_F \cup DOMAIN Rows_D \cup DOMAIN Rows_Q \cup DOMAIN Rows_FCmp
             \cup DOMAIN Rows_FCvt \cup DOMAIN Rows_FMem \cup DOMAIN Rows_FMA
Format(w) == IF w.op \in {1, 9} THEN w.f3 - 2 ELSE w.f7 % 4      \* 0 single, 1 double
Extension(n, w) ==
  (IF n \in DOMAIN Rows_M THEN {"M"} ELSE {}) \cup (IF n \in DOMAIN Rows_A THEN {"A"} ELSE {})
  \cup (IF n \in FloatRows THEN {"F"} ELSE {}) \cup (IF n = "SRET" THEN {"S"} ELSE {})
  \cup (IF n \in FloatRows /\ (Format(w) = 1 \/ n \in DOMAIN Rows_D) THEN {"D"} ELSE {})
  \cup (IF n \in FloatRows /\ (Format(w) > 1 \/ n \in DOMAIN Rows_Q) THEN {"Q"} ELSE {})
  \cup (IF n = "URET" THEN {"N"} ELSE {})
Rounds(n) == n \in FloatRows /\ Rows[n].f3 = Free

(* The privilege a row needs.  sfence.vma is refused with TVM below        *)
(* machine mode only: in user mode it is accepted with TVM clear.          *)
LowestPrv(a) == IF a \in Csr_User THEN PRV_U ELSE IF a \in Csr_Supervisor THEN PRV_S ELSE PRV_M
Permitted(n, w, c) ==
  CASE n = "MRET" -> c.prv = PRV_M
    [] n = "SRET" -> c.prv = PRV_M \/ (c.prv = PRV_S /\ ~c.tsr)
    [] n = "WFI"  -> c.prv = PRV_M \/ ~c.tw
    [] n = "SFENCE_VMA" -> c.prv = PRV_M \/ ~c.tvm
    [] n = "DRET" -> FALSE                              \* only in debug mode
    [] n \in {"ECALL", "EBREAK"} -> FALSE
    [] n \in {"CSRRW", "CSRRS", "CSRRC", "CSRRWI", "CSRRSI", "CSRRCI"} ->
         LET a == csr_addr(w)
         IN  /\ a \in Csr_Declared
             /\ c.prv >= LowestPrv(a)
             /\ a \in Csr_ReadOnly => n \notin {"CSRRW", "CSRRWI"} /\ w.rs1 = 0
             /\ a \in 1 .. 3 => c.fs
             /\ ~(a = 384 /\ c.prv = PRV_S /\ c.tvm)
    [] OTHER -> TRUE

Defined(w, c) ==
  \E n \in RowsOf[w.op] :
    /\ Matches(Rows[n], w) /\ Extension(n, w) \subseteq c.misa /\ Permitted(n, w, c)
    /\ n \in FloatRows => c.fs
    /\ Rounds(n) => w.f3 \notin {5, 6} /\ (w.f3 = 7 => c.frm \notin {5, 6, 7})

(* The decoder accepts a word exactly if encoding.h has a row for it whose *)
(* extension is on and whose privilege, rounding mode and register check   *)
(* out, never in the custom spaces (packed SIMD has no rows).  A build     *)
(* with dpfpu in which D alone is turned off also refuses single-precision *)
(* arithmetic.                                                             *)
AcceptedIsDefined ==
  Undisturbed /\ dec.w.op # 29 =>
    /\ Accepted => Defined(dec.w, dec.c)
    /\ Defined(dec.w, dec.c) /\ ("F" \in dec.c.misa => "D" \in dec.c.misa) => Accepted
    /\ (\E r \in Rows_Custom : Matches(r, dec.w)) => ~Accepted

(* What the later stages use of an answer: an ALU operation reads its      *)
(* function from funct_cause and a shift amount from the immediate.        *)
Control(w, c) ==
  LET r == fn_decode(w, c, FALSE)
  IN  [r EXCEPT !.imm = CASE r.inst_type = "MULDIV" \/ w.op \in {12, 14} -> {}
                          [] w.op \in {4, 6} -> r.imm \cap 0 .. 5
                          [] OTHER -> r.imm]
      @@ [word32 |-> decode_word32(w)]

(* Later stages see the decoder's answer, not the word: two instructions   *)
(* of encoding.h that are both accepted with the same operands never get   *)
(* the same answer.                                                        *)
RowsDistinguished ==
  Undisturbed /\ dec.row # "" /\ Accepted =>
    \A n \in DOMAIN Rows \ {dec.row} :
      LET w == Canonical(n, Fill)
      IN  fn_decode_insttype(w, dec.c) # "TRAP"
            => Control(w, dec.c) # Control(Canonical(dec.row, Fill), dec.c)

(* The immediate is the one the ISA's formats define (the case statement   *)
(* kept as a comment in fn_decode_immediate); of a CSR instruction only    *)
(* the register address is fixed.                                          *)
ImmediateFields ==
  IsWord =>
    LET w == dec.w
        b(n) == InstBit(w, n) = 1
        sign(from) == IF b(31) THEN from .. 31 ELSE {}
        field(lo, hi, at) == {n - lo + at : n \in {k \in lo .. hi : b(k)}}
        imm == dec.out.imm
    IN  CASE w.op \in {8} \cup (IF "F" \in dec.c.misa THEN {9} ELSE {}) ->
               imm = field(7, 11, 0) \cup field(25, 30, 5) \cup sign(11)
          [] w.op = 24 -> imm = field(8, 11, 1) \cup field(25, 30, 5) \cup field(7, 7, 11) \cup sign(12)
          [] w.op \in {13, 5} -> imm = field(12, 31, 12)
          [] w.op = 27 -> imm = field(21, 30, 1) \cup field(20, 20, 11) \cup field(12, 19, 12) \cup sign(20)
          [] w.op = 11 -> imm = {}
          [] w.op = 28 -> imm \cap 0 .. 11 = field(20, 31, 0)
          [] OTHER -> imm = field(20, 30, 0) \cup sign(11)

(* fn_decode agrees with encoding.h: it accepts what the tables define,    *)
(* tells their rows apart and takes the immediate from its format's bits.  *)
AgreesWithTables == AcceptedIsDefined /\ RowsDistinguished /\ ImmediateFields

(* An interrupt is taken if and only if one is pending whose destination   *)
(* is more privileged than the hart, or as privileged and enabled there,   *)
(* and neither a micro-trap nor a WFI is in the way; of those with the     *)
(* same destination external comes before software before timer.           *)
InterruptTaken ==
  IsWord =>
    LET e == dec.e
        dest(n) == IF n \in e.mideleg THEN PRV_S ELSE PRV_M
        on(n) == IF n \in e.mideleg THEN e.sstatus_sie ELSE e.mstatus_mie
        ready == {n \in e.mip \cap e.mie :
                    dec.c.prv < dest(n) \/ (dec.c.prv = dest(n) /\ on(n))}
        kind(n) == CASE n \in {IRQ.M_EXT, IRQ.S_EXT} -> 0
                     [] n \in {IRQ.M_SOFT, IRQ.S_SOFT} -> 1
                     [] n \in {IRQ.M_TIMER, IRQ.S_TIMER} -> 2
        wfi == fn_decode_insttype(dec.w, dec.c) = "WFI"
        machine == {IRQ.M_EXT, IRQ.M_SOFT, IRQ.M_TIMER}
    IN  /\ dec.out.interrupt <=> ready # {} /\ ~e.is_microtrap /\ ~wfi
        /\ dec.out.interrupt =>
             /\ dec.out.inst_type = "TRAP" /\ dec.out.funct_cause \in ready
             /\ \A n \in ready :
                  dest(n) = dest(dec.out.funct_cause) /\ (n \in machine
                    <=> dec.out.funct_cause \in machine)
                    => kind(dec.out.funct_cause) <= kind(n)
        /\ e.trap /\ ~e.is_microtrap /\ ~dec.out.interrupt
             => dec.out.inst_type = "TRAP" /\ dec.out.funct_cause = e.cause
=============================================================================
