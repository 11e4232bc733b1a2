-------------------------------- MODULE Mbox ---------------------------------
(***************************************************************************)
(* Control of the multiply/divide unit (mkmbox, mkcombo_mul,               *)
(* mkrestoring_div) between stage3, which issues to it, and stage4, which  *)
(* collects its results: results of two units of different latency must    *)
(* come out in issue order, and none may be lost although every FIFO of    *)
(* the unit is unguarded (mkUG...).  Arithmetic is in Divider and          *)
(* Multiplier; here an operation is a token.                               *)
(***************************************************************************)
EXTENDS Integers, Sequences

CONSTANTS
    Tokens,      \* what tells one operation's result from another's
    None,        \* an empty pipeline register
    MulIn,       \* `MULSTAGES_IN
    MulOut,      \* `MULSTAGES_OUT, at least 1 (schema.yaml)
    DivStages,   \* `DIVSTAGES
    IsbS3S4      \* `isb_s3s4: slots of ff_fuid and of ff_mbox_out

ASSUME MboxAssumption ==
    /\ None \notin Tokens
    /\ MulIn \in Nat /\ MulOut \in Nat \ {0} /\ DivStages \in Nat \ {0, 1}
    /\ IsbS3S4 \in Nat \ {0}

VARIABLES
    fuid,         \* ff_fuid of the s3-s4 buffer: kind and token of each entry
    mul,          \* rg_valid_in/rg_op and rg_valid_out/rg_output, in order
    rg_count,     \* of the divider
    rg_valid,     \* of the divider
    div,          \* the divider's operation: token and whether rg_op2 = 0
    ff_ordering,  \* TRUE for a multiplication
    ff_mbox_out   \* results, between mbox and stage4

vars == <<fuid, mul, rg_count, rg_valid, div, ff_ordering, ff_mbox_out>>

Stages == 1..(MulIn + MulOut)
Last == MulIn + MulOut
OrderingSize == IF Last > 2 THEN Last ELSE 2
Kinds == {"mul", "div", "other"}

TypeOK ==
    /\ fuid \in Seq([kind : Kinds, tok : Tokens]) /\ Len(fuid) <= IsbS3S4
    /\ mul \in [Stages -> Tokens \union {None}]
    /\ rg_count \in 0..(DivStages + 1) /\ rg_valid \in BOOLEAN
    /\ div \in [tok : Tokens, zero : BOOLEAN]
    /\ ff_ordering \in Seq(BOOLEAN) /\ Len(ff_ordering) <= OrderingSize
    /\ ff_mbox_out \in Seq(Tokens) /\ Len(ff_mbox_out) <= IsbS3S4

Init ==
    /\ fuid = <<>> /\ mul = [s \in Stages |-> None]
    /\ rg_count = 0 /\ rg_valid = FALSE /\ div \in [tok : Tokens, zero : {FALSE}]
    /\ ff_ordering = <<>> /\ ff_mbox_out = <<>>

mul_output_valid == mul[Last] # None
mul_ready == mul[1] = None /\ Len(ff_ordering) < OrderingSize

bug_div_ready == rg_count = 0 /\ Len(ff_ordering) < OrderingSize

div_ready == rg_count = 0 /\ ~rg_valid /\ Len(ff_ordering) < OrderingSize

(* rl_mbox of stage3 and the ma_inputs it drives in the same clock.  With  *)
(* MulIn = 0 the product enters the first output register at once.         *)
bug_issue_mul(t) ==
    /\ Len(fuid) < IsbS3S4 /\ mul[1] = None
    /\ fuid' = Append(fuid, [kind |-> "mul", tok |-> t])
    /\ mul' = [mul EXCEPT ![1] = t]
    /\ ff_ordering' = Append(ff_ordering, TRUE)
    /\ UNCHANGED <<rg_count, rg_valid, div, ff_mbox_out>>


issue_mul(t) ==
    /\ Len(fuid) < IsbS3S4 /\ mul_ready
    /\ fuid' = Append(fuid, [kind |-> "mul", tok |-> t])
    /\ mul' = [mul EXCEPT ![1] = t]
    /\ ff_ordering' = Append(ff_ordering, TRUE)
    /\ UNCHANGED <<rg_count, rg_valid, div, ff_mbox_out>>

issue_div(t, zero) ==
    /\ Len(fuid) < IsbS3S4 /\ div_ready
    /\ fuid' = Append(fuid, [kind |-> "div", tok |-> t])
    /\ rg_count' = rg_count + 1 /\ div' = [tok |-> t, zero |-> zero]
    /\ ff_ordering' = Append(ff_ordering, FALSE)
    /\ UNCHANGED <<mul, rg_valid, ff_mbox_out>>

(* Any other instruction stage3 hands to stage4.                           *)
issue_other(t) ==
    /\ Len(fuid) < IsbS3S4
    /\ fuid' = Append(fuid, [kind |-> "other", tok |-> t])
    /\ UNCHANGED <<mul, rg_count, rg_valid, div, ff_ordering, ff_mbox_out>>

(* A pipeline register moves into the next one when that is free.          *)
Move(i) ==
    /\ mul[i] # None /\ mul[i + 1] = None
    /\ mul' = [mul EXCEPT ![i] = None, ![i + 1] = mul[i]]
    /\ UNCHANGED <<fuid, rg_count, rg_valid, div, ff_ordering, ff_mbox_out>>

rl_move_inputs == \E i \in 1..(MulIn - 1) : Move(i)
rl_perform_mul_0 == MulIn > 0 /\ Move(MulIn)
rl_move_outputs == \E i \in (MulIn + 1)..(Last - 1) : Move(i)

bug_single_step_div ==
    /\ rg_count # 0 /\ ~rg_valid
    /\ rg_count' = 0 /\ rg_valid' = (rg_count = DivStages + 1)
    /\ UNCHANGED <<fuid, mul, div, ff_ordering, ff_mbox_out>>

single_step_div ==
    /\ rg_count # 0 /\ ~rg_valid
    /\ IF div.zero \/ rg_count = DivStages + 1
       THEN rg_count' = 0 /\ rg_valid' = TRUE
       ELSE rg_count' = rg_count + 1 /\ UNCHANGED rg_valid
    /\ UNCHANGED <<fuid, mul, div, ff_ordering, ff_mbox_out>>

(* rl_capture_output waits for the unit at the head of ff_ordering; the    *)
(* enq into ff_mbox_out blocks the rule when that is full.                 *)
capture_mul ==
    /\ ff_ordering # <<>> /\ Head(ff_ordering)
    /\ mul_output_valid /\ Len(ff_mbox_out) < IsbS3S4
    /\ ff_mbox_out' = Append(ff_mbox_out, mul[Last])
    /\ mul' = [mul EXCEPT ![Last] = None]
    /\ ff_ordering' = Tail(ff_ordering)
    /\ UNCHANGED <<fuid, rg_count, rg_valid, div>>

bug_capture_div ==
    /\ ff_ordering # <<>>
    /\ rg_valid /\ Len(ff_mbox_out) < IsbS3S4
    /\ ff_mbox_out' = Append(ff_mbox_out, div.tok)
    /\ rg_valid' = FALSE
    /\ ff_ordering' = Tail(ff_ordering)
    /\ UNCHANGED <<fuid, mul, rg_count, div>>

capture_div ==
    /\ ff_ordering # <<>> /\ ~Head(ff_ordering)
    /\ rg_valid /\ Len(ff_mbox_out) < IsbS3S4
    /\ ff_mbox_out' = Append(ff_mbox_out, div.tok)
    /\ rg_valid' = FALSE
    /\ ff_ordering' = Tail(ff_ordering)
    /\ UNCHANGED <<fuid, mul, rg_count, div>>

(* stage4 retires the head of ff_fuid, with the result of the mbox if the  *)
(* entry is a MULDIV.  A full s4-s5 buffer delays it.                      *)
rl_capture_muldiv ==
    /\ fuid # <<>> /\ Head(fuid).kind \in {"mul", "div"} /\ ff_mbox_out # <<>>
    /\ fuid' = Tail(fuid) /\ ff_mbox_out' = Tail(ff_mbox_out)
    /\ UNCHANGED <<mul, rg_count, rg_valid, div, ff_ordering>>

fwd_other ==
    /\ fuid # <<>> /\ Head(fuid).kind = "other"
    /\ fuid' = Tail(fuid)
    /\ UNCHANGED <<mul, rg_count, rg_valid, div, ff_ordering, ff_mbox_out>>

Unit == \/ rl_move_inputs \/ rl_perform_mul_0 \/ rl_move_outputs
        \/ single_step_div \/ capture_mul \/ capture_div

Next ==
    \/ \E t \in Tokens : issue_mul(t) \/ issue_other(t)
    \/ \E t \in Tokens, zero \in BOOLEAN : issue_div(t, zero)
    \/ rl_move_inputs \/ rl_perform_mul_0 \/ rl_move_outputs
    \/ single_step_div \/ capture_mul \/ capture_div
    \/ rl_capture_muldiv \/ fwd_other

Spec == Init /\ [][Next]_vars

(* A rule that is ready fires in that clock: no rule of the unit conflicts *)
(* with another, and write-back empties the s4-s5 buffer.                  *)
Fairness == WF_vars(Unit) /\ WF_vars(rl_capture_muldiv) /\ WF_vars(fwd_other)

(***************************************************************************)
(* Properties.                                                             *)
(***************************************************************************)
IsMuldiv(e) == e.kind \in {"mul", "div"}

(* The multiplications and divisions among the entries of s, in order.     *)
Selected(s) ==
    LET pick[i \in 0..Len(s)] ==
            IF i = 0 THEN <<>>
            ELSE IF IsMuldiv(s[i]) THEN Append(pick[i - 1], s[i]) ELSE pick[i - 1]
    IN  pick[Len(s)]

Muldivs == Selected(fuid)

(* The results waiting for stage4 are those of the oldest multiplications  *)
(* and divisions it has not collected, in issue order: a fast product      *)
(* never overtakes a slow quotient (ff_ordering in mbox.bsv; stage4.bsv    *)
(* expects outputs in the order of ff_fuid).                               *)
ResultsInIssueOrder ==
    \A i \in 1..Len(ff_mbox_out) :
        i <= Len(Muldivs) /\ ff_mbox_out[i] = Muldivs[i].tok

(* rl_fifo_full's assertions: when ff_mbox_out is full neither unit has a  *)
(* result to put into it.  ff_fuid bounds the operations in flight.        *)
FifoFullAsserts ==
    Len(ff_mbox_out) = IsbS3S4 => ~mul_output_valid /\ ~rg_valid

(* Each operation issued and not collected is in exactly one place: the    *)
(* unguarded FIFOs lose nothing, and the units hold what ff_ordering says; *)
(* the output FIFO has room for a result when there is one.                *)
MulsHeld == {s \in Stages : mul[s] # None}
NothingLost ==
    /\ Len(Muldivs) = Len(ff_mbox_out) + Len(ff_ordering)
    /\ \E f \in [MulsHeld -> {i \in 1..Len(ff_ordering) : ff_ordering[i]}] :
         /\ \A s, t \in MulsHeld : s # t => f[s] # f[t]
         /\ {f[s] : s \in MulsHeld} = {i \in 1..Len(ff_ordering) : ff_ordering[i]}
    /\ rg_count # 0 \/ rg_valid <=> \E i \in 1..Len(ff_ordering) : ~ff_ordering[i]
    /\ FifoFullAsserts

(* Every multiplication and division leaves the unit, whatever was issued  *)
(* before it and after it.                                                 *)
MuldivCompletes ==
    \A t \in Tokens : [](fuid # <<>> /\ Head(fuid).tok = t /\ IsMuldiv(Head(fuid))
                            => <>(ff_mbox_out # <<>> /\ Head(ff_mbox_out) = t))
=============================================================================
