----------------------------- MODULE Multiplier ------------------------------
(***************************************************************************)
(* The combinational block of the retimed multiplier (mkcombo_mul): the    *)
(* operands are widened by one sign bit, multiplied as signed numbers, and *)
(* half of the product is kept.  One register before the block and one     *)
(* after it; the retiming pipeline itself is module Mbox.                  *)
(***************************************************************************)
EXTENDS Integers

CONSTANTS XLEN, WLEN   \* `xlen, and the width of a word operation

VARIABLES
    rg_in,       \* rg_op1, rg_op2, rg_fn3, rg_wordop of the last input stage
    rg_output,   \* rg_output[0]
    req          \* history: the operands as given

vars == <<rg_in, rg_output, req>>

M == 2^XLEN
Words == 0..(M - 1)
Msb(w) == w \div 2^(XLEN - 1)
SignExt(w) == LET z == w % 2^WLEN
              IN  IF z >= 2^(WLEN - 1) THEN M - 2^WLEN + z ELSE z

(* funct3 of the four multiplications.                                     *)
MUL == 0
MULH == 1
MULHSU == 2
MULHU == 3

(* {sign & msb, in} read as a signed number of XLEN + 1 bits.              *)
Widen(w, sign) == IF sign /\ Msb(w) = 1 THEN w - M ELSE w


(* sign1 = funct3[1] ^ funct3[0], sign2 = (funct3[1:0] == 1)               *)
sign1(f) == f \in {MULH, MULHSU}
sign2(f) == f = MULH

Init == /\ rg_in = [valid |-> FALSE, op1 |-> 0, op2 |-> 0, fn3 |-> MUL, wordop |-> FALSE]
        /\ rg_output = [valid |-> FALSE, w |-> 0]
        /\ req = [in1 |-> 0, in2 |-> 0, fn3 |-> MUL, wordop |-> FALSE]

(* Word operations exist for MUL only.                                     *)
ma_inputs(in1, in2, f, wordop) ==
    /\ ~rg_in.valid /\ ~rg_output.valid
    /\ wordop => f = MUL
    /\ rg_in' = [valid |-> TRUE, op1 |-> Widen(in1, sign1(f)), op2 |-> Widen(in2, sign2(f)),
                 fn3 |-> f, wordop |-> wordop]
    /\ req' = [in1 |-> in1, in2 |-> in2, fn3 |-> f, wordop |-> wordop]
    /\ UNCHANGED rg_output

rl_perform_mul_0 ==
    /\ rg_in.valid /\ ~rg_output.valid
    /\ LET out == (rg_in.op1 * rg_in.op2) % (M * M)
           w   == IF rg_in.fn3 # MUL THEN out \div M ELSE out % M
       IN  rg_output' = [valid |-> TRUE, w |-> IF rg_in.wordop THEN SignExt(w) ELSE w]
    /\ rg_in' = [rg_in EXCEPT !.valid = FALSE]
    /\ UNCHANGED req

mv_output == /\ rg_output.valid
             /\ rg_output' = [rg_output EXCEPT !.valid = FALSE]
             /\ UNCHANGED <<rg_in, req>>

Next == \/ \E a, b \in Words, f \in MUL..MULHU, w \in BOOLEAN : ma_inputs(a, b, f, w)
        \/ rl_perform_mul_0
        \/ mv_output

Spec == Init /\ [][Next]_vars

(* Reference: MUL, MULH, MULHSU, MULHU and MULW of the ISA.                *)
SignedValue(w) == IF Msb(w) = 1 THEN w - M ELSE w

Product(r) ==
    LET a == IF r.fn3 \in {MULH, MULHSU} THEN SignedValue(r.in1) ELSE r.in1
        b == IF r.fn3 = MULH THEN SignedValue(r.in2) ELSE r.in2
    IN  IF r.wordop
        THEN SignExt(((r.in1 % 2^WLEN) * (r.in2 % 2^WLEN)) % 2^WLEN)
        ELSE IF r.fn3 = MUL THEN (SignedValue(r.in1) * SignedValue(r.in2)) % M
                            ELSE (a * b) \div M % M

(* The half of the product the multiplier returns is the one the ISA       *)
(* defines for the signedness of each operand (combo.bsv, ma_inputs and    *)
(* rl_perform_mul).                                                        *)
ProductIsReference == rg_output.valid => rg_output.w = Product(req)
=============================================================================
