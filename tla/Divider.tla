------------------------------- MODULE Divider -------------------------------
(***************************************************************************)
(* The restoring divider of the mbox, on words of XLEN bits written as     *)
(* naturals.  The control around it is module Mbox.                        *)
(***************************************************************************)
EXTENDS Integers

CONSTANTS
    XLEN,        \* `xlen
    WLEN,        \* width of a word operation, 32 in the code
    DIVSTAGES,   \* `DIVSTAGES, clocks one division takes
    CountMod     \* 2 ^ TLog#(TAdd#(`DIVSTAGES, 1)): the range of rg_count

VARIABLES
    rg_count, partial, rg_op2, rg_in1, quotient_remainder, rg_complement,
    rg_sign_op1, rg_valid, rg_result, rg_wordop,
    req          \* history: the operation in progress

vars == <<rg_count, partial, rg_op2, rg_in1, quotient_remainder, rg_complement,
          rg_sign_op1, rg_valid, rg_result, rg_wordop, req>>

M == 2^XLEN
Words == 0..(M - 1)
Msb(w) == w \div 2^(XLEN - 1)
Neg(w) == (M - w) % M

(* Width conversions: the low WLEN bits, extended back to XLEN.            *)
ZeroExt(w) == w % 2^WLEN
SignExt(w) == LET z == ZeroExt(w)
              IN  IF z >= 2^(WLEN - 1) THEN M - 2^WLEN + z ELSE z

(* funct3 of the four divisions.                                           *)
DIV == 4
DIVU == 5
REM == 6
REMU == 7
Signed(f) == f \in {DIV, REM}
IsRem(f) == f \in {REM, REMU}

(* One iteration of fn_single_div on p = {remainder, quotient}.  The sum   *)
(* adds the sign extension of the negated divisor in XLEN + 1 bits.        *)
iterate(p, d) ==
    LET x   == (2 * (p[1] * M + p[2])) % (2 * M * M)
        rem == x \div M
        quo == x % M
        neg == Neg(d)
        sub == (rem + neg + (IF Msb(neg) = 1 THEN M ELSE 0)) % (2 * M)
    IN  IF rem % M >= d THEN <<sub, quo + 1>> ELSE <<rem, quo>>

fn_single_div(p, d) ==
    LET it[i \in 0..(XLEN \div DIVSTAGES)] ==
            IF i = 0 THEN p ELSE iterate(it[i - 1], d)
    IN  it[XLEN \div DIVSTAGES]

(* Operands made positive, and whether the result has to be negated.       *)
Widened(w, f, wordop) ==
    IF ~wordop THEN w ELSE IF Signed(f) THEN SignExt(w) ELSE ZeroExt(w)

bug_fix_inputs(in1, in2, f, wordop) ==
    LET a == Widened(in1, f, wordop)
        b == Widened(in2, f, wordop)
    IN  [op1 |-> IF Signed(f) /\ Msb(a) = 1 THEN Neg(a) ELSE a,
         op2 |-> IF Signed(f) /\ Msb(b) = 1 THEN Neg(b) ELSE b,
         complement |-> f \in {DIV, REM} /\ Msb(a) # Msb(b),
         sign |-> Msb(a)]

fn_fix_inputs(in1, in2, f, wordop) ==
    LET a == Widened(in1, f, wordop)
        b == Widened(in2, f, wordop)
    IN  [op1 |-> IF Signed(f) /\ Msb(a) = 1 THEN Neg(a) ELSE a,
         op2 |-> IF Signed(f) /\ Msb(b) = 1 THEN Neg(b) ELSE b,
         complement |-> f = REM \/ (f = DIV /\ Msb(a) # Msb(b)),
         sign |-> Msb(a)]

Trunc(w) == IF rg_wordop THEN SignExt(w) ELSE w

Init ==
    /\ rg_count = 0 /\ partial = <<0, 0>> /\ rg_op2 = 0 /\ rg_in1 = 0
    /\ quotient_remainder = FALSE /\ rg_complement = FALSE /\ rg_sign_op1 = 0
    /\ rg_valid = FALSE /\ rg_result = 0 /\ rg_wordop = FALSE
    /\ req = [busy |-> FALSE, in1 |-> 0, in2 |-> 0, f |-> DIV, wordop |-> FALSE]

mv_ready == rg_count = 0 /\ ~rg_valid

ma_inputs(in1, in2, f, wordop) ==
    LET fix == fn_fix_inputs(in1, in2, f, wordop)
    IN  /\ mv_ready
        /\ partial' = <<0, fix.op1>> /\ rg_op2' = fix.op2 /\ rg_in1' = in1
        /\ rg_count' = (rg_count + 1) % CountMod
        /\ rg_complement' = fix.complement /\ rg_sign_op1' = fix.sign
        /\ quotient_remainder' = IsRem(f) /\ rg_wordop' = wordop
        /\ req' = [busy |-> TRUE, in1 |-> in1, in2 |-> in2, f |-> f, wordop |-> wordop]
        /\ UNCHANGED <<rg_valid, rg_result>>

(* The sign of the result; rg_upperbits always equals quotient_remainder.  *)
Negate(w) == /\ rg_complement
             /\ quotient_remainder => Msb(w) # rg_sign_op1


single_step_div ==
    /\ rg_count # 0 /\ ~rg_valid
    /\ partial' = fn_single_div(partial, rg_op2)
    /\ \/ /\ rg_op2 = 0
          /\ rg_result' = Trunc(IF quotient_remainder THEN rg_in1 ELSE M - 1)
          /\ rg_count' = 0 /\ rg_valid' = TRUE
       \/ /\ rg_op2 # 0 /\ rg_count = (DIVSTAGES + 1) % CountMod
          /\ LET w == IF quotient_remainder THEN partial[1] % M ELSE partial[2]
             IN  rg_result' = Trunc(IF Negate(w) THEN Neg(w) ELSE w)
          /\ rg_count' = 0 /\ rg_valid' = TRUE
       \/ /\ rg_op2 # 0 /\ rg_count # (DIVSTAGES + 1) % CountMod
          /\ rg_count' = (rg_count + 1) % CountMod
          /\ UNCHANGED <<rg_result, rg_valid>>
    /\ UNCHANGED <<rg_op2, rg_in1, quotient_remainder, rg_complement, rg_sign_op1,
                   rg_wordop, req>>

mv_output ==
    /\ rg_valid
    /\ rg_valid' = FALSE /\ req' = [req EXCEPT !.busy = FALSE]
    /\ UNCHANGED <<rg_count, partial, rg_op2, rg_in1, quotient_remainder,
                   rg_complement, rg_sign_op1, rg_result, rg_wordop>>

Next == \/ \E a, b \in Words, f \in DIV..REMU, w \in BOOLEAN : ma_inputs(a, b, f, w)
        \/ single_step_div
        \/ mv_output

Spec == Init /\ [][Next]_vars

(***************************************************************************)
(* Reference: division as the RISC-V M extension defines it, on integers.  *)
(***************************************************************************)
Value(w, f) == IF Signed(f) /\ Msb(w) = 1 THEN w - M ELSE w
Abs(n) == IF n < 0 THEN -n ELSE n
Quotient(a, b) == LET q == Abs(a) \div Abs(b) IN IF (a < 0) # (b < 0) THEN -q ELSE q

Reference(in1, in2, f, wordop) ==
    LET a == Value(Widened(in1, f, wordop), f)
        b == Value(Widened(in2, f, wordop), f)
        n == CASE b = 0 /\ IsRem(f)  -> a
               [] b = 0 /\ ~IsRem(f) -> -1
               [] b # 0 /\ IsRem(f)  -> a - b * Quotient(a, b)
               [] OTHER              -> Quotient(a, b)
    IN  IF wordop THEN SignExt(n % M) ELSE n % M

(* The divider's answer is the quotient or remainder the ISA defines:      *)
(* DIV, DIVU, REM, REMU and their word forms, with signed operands, the    *)
(* most negative dividend and a zero divisor, although the code compares   *)
(* truncated remainders and subtracts in two's complement (restoring_div   *)
(* fn_single_div, fn_fix_inputs, single_step_div).                         *)
ResultIsReference ==
    rg_valid => rg_result = Reference(req.in1, req.in2, req.f, req.wordop)

(* A divider that accepts a new operation has answered the last one: the   *)
(* counter does not come back to zero on its own (restoring_div.bsv,       *)
(* mv_ready and the width of rg_count).                                    *)
ReadyMeansAnswered == mv_ready => ~req.busy
=============================================================================
