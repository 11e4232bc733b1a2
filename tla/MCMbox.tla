------------------------------- MODULE MCMbox --------------------------------
(***************************************************************************)
(* The multiply/divide unit for TLC: its control on tokens (unit "mbox"),  *)
(* and the divider and the multiplier alone on every operand (units "div"  *)
(* and "mul").  The three share no state, so a behaviour exercises one.    *)
(***************************************************************************)
EXTENDS Mbox

CONSTANTS XLEN, WLEN, DIVSTAGES, CountMod

(* The two staticAsserts of mkrestoring_div, and the width of rg_count.    *)
ASSUME StagesAssumption ==
    /\ XLEN \in Nat /\ WLEN \in 1..XLEN
    /\ \E k \in 0..XLEN : DIVSTAGES = 2^k
    /\ XLEN % DIVSTAGES = 0 /\ DIVSTAGES <= XLEN
    /\ \E k \in 0..XLEN : CountMod = 2^k
    /\ CountMod >= DIVSTAGES + 1 /\ CountMod < 2 * (DIVSTAGES + 1)

VARIABLES
    unit,
    div_count, div_valid, div_req, partial, rg_op2, rg_in1, quotient_remainder,
    rg_complement, rg_sign_op1, rg_result, rg_wordop,                 \* Divider
    mul_req, rg_in, rg_output                                         \* Multiplier

Div == INSTANCE Divider WITH rg_count <- div_count, rg_valid <- div_valid, req <- div_req
Mul == INSTANCE Multiplier WITH req <- mul_req

div_vars == <<div_count, div_valid, div_req, partial, rg_op2, rg_in1, quotient_remainder,
              rg_complement, rg_sign_op1, rg_result, rg_wordop>>
mul_vars == <<mul_req, rg_in, rg_output>>

MCInit == /\ unit \in {"mbox", "div", "mul"} /\ Init /\ Div!Init /\ Mul!Init
          /\ unit # "mbox" => div.tok = CHOOSE t \in Tokens : TRUE

MCNext == \/ unit = "mbox" /\ Next /\ UNCHANGED <<unit, div_vars, mul_vars>>
          \/ unit = "div" /\ Div!Next /\ UNCHANGED <<unit, vars, mul_vars>>
          \/ unit = "mul" /\ Mul!Next /\ UNCHANGED <<unit, vars, div_vars>>

MCSpec == /\ MCInit /\ [][MCNext]_<<unit, vars, div_vars, mul_vars>>
          /\ Fairness

(* The divider returns the quotient or the remainder the ISA defines,      *)
(* division by zero and overflow included, and is ready only between       *)
(* divisions (restoring_div.bsv); the multiplier returns the half of the   *)
(* product the ISA defines (combo.bsv).                                    *)
UnitsCorrect == Div!ResultIsReference /\ Div!ReadyMeansAnswered /\ Mul!ProductIsReference
=============================================================================
