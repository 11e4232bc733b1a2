-------------------------------- MODULE Fetch --------------------------------
(***************************************************************************)
(* Fetch and prediction: stage0 with the branch target buffer of gshare_fa *)
(* (compressed instructions enabled), the alignment state machine of       *)
(* stage1, the epoch check of stage2, and the control-transfer rule of     *)
(* stage3 that detects mispredictions and trains the predictor.            *)
(*                                                                         *)
(* An address is a halfword number; a word holds the halfwords 2w, 2w+1.   *)
(* A text gives, for every halfword, the instruction that decodes there.   *)
(* What the pattern history says of a conditional branch (BHT and global   *)
(* history) is arbitrary, and so is the top of the return-address stack,   *)
(* within Tops: they are hints.  rg_receiving_upper, which picks mtval     *)
(* only, is left out.                                                      *)
(* External: the instruction memory, which answers requests in order, and  *)
(* write-back, which redirects fetch after a trap or a fence.              *)
(***************************************************************************)
EXTENDS Integers, Sequences

CONSTANTS
    Words,        \* number of words of text; addresses wrap around
    Texts,        \* a sequence of texts: the code before and after a store
    Faults,       \* <<text, word>>: the words of a text whose fetch faults
    Entries,      \* addresses write-back may redirect fetch to
    Tops,         \* addresses the return-address stack may predict
    BtbDepth,     \* `btbdepth
    IsbS0S1, IsbS1S2,  \* `isb_s0s1, `isb_s1s2
    Toggle        \* software turns the predictor on and off

Addr == 0..(2 * Words - 1)
Kinds == {"alu", "branch", "jal", "ret"}
Instr == [wide : BOOLEAN, kind : Kinds, target : Addr]

ASSUME FetchAssumption ==
    /\ Words \in Nat \ {0} /\ BtbDepth \in Nat \ {0}
    /\ IsbS0S1 \in Nat \ {0} /\ IsbS1S2 \in Nat \ {0}
    /\ Texts \in Seq([Addr -> Instr]) /\ Texts # <<>>
    /\ Faults \subseteq (1..Len(Texts)) \X (0..(Words - 1)) /\ Entries \subseteq Addr
    /\ Tops \subseteq Addr /\ Tops # {}
    /\ Toggle \in BOOLEAN

VARIABLES
    rg_pc, rg_fence, rg_sfence, rg_delayed_redirect,    \* stage0
    btb, rg_allocate, rg_initialize, wr_bpu_enable,     \* the predictor
    isb01,                  \* requests and their responses, in order
    rg_action, rg_prev,                                 \* stage1
    isb12, rg_stall, isb23,                             \* stage2 and its buffers
    eEpoch, wEpoch,
    icache_text,            \* external: the text the instruction memory serves
    text,                   \* the text as software left it
    arch,                   \* history: the next instruction in program order
    inflight                \* an instruction of this wEpoch is past stage3

stage0 == <<rg_pc, rg_fence, rg_sfence, rg_delayed_redirect>>
bpu == <<btb, rg_allocate, rg_initialize, wr_bpu_enable>>
stage1 == <<rg_action, rg_prev>>
env == <<icache_text, text, arch, inflight>>
vars == <<stage0, bpu, isb01, stage1, isb12, rg_stall, isb23, eEpoch, wEpoch, env>>

epoch == <<eEpoch, wEpoch>>
Word(a) == a \div 2
Hi(a) == a % 2 = 1
Plus(a, n) == (a + n) % (2 * Words)
Stopped == -1

(* BTBResponse: hit, prediction[1] and hi; no prediction.                  *)
NoBtb == [hit |-> FALSE, pred |-> FALSE, hi |-> FALSE]
NoEntry == [valid |-> FALSE, word |-> 0, target |-> 0, ci |-> "Branch",
            instr16 |-> FALSE, hi |-> FALSE]

(* The reset value of the CSR bit behind wr_bpu_enable is the CSR file's.  *)
Init ==
    /\ rg_pc \in Entries /\ rg_fence = FALSE /\ rg_sfence = FALSE
    /\ rg_delayed_redirect = <<>>
    /\ btb = [i \in 0..(BtbDepth - 1) |-> NoEntry] /\ rg_allocate = 0
    /\ rg_initialize = FALSE /\ wr_bpu_enable \in BOOLEAN
    /\ isb01 = <<>> /\ rg_action = "None"
    /\ rg_prev = [word |-> 0, wide |-> FALSE, epoch |-> <<0, 0>>, btb |-> NoBtb, text |-> 1]
    /\ isb12 = <<>> /\ rg_stall = FALSE /\ isb23 = <<>>
    /\ eEpoch = 0 /\ wEpoch = 0
    /\ icache_text = 1 /\ text = 1 /\ arch = rg_pc /\ inflight = FALSE

(***************************************************************************)
(* The predictor.                                                          *)
(***************************************************************************)
Matches(pc) == {i \in DOMAIN btb : btb[i].valid /\ btb[i].word = Word(pc)}

(* mav_prediction_response without a fence.  p is what the history table   *)
(* says of a conditional branch, ras the top of the return-address stack.  *)
(* A half that stage1 will discard is not predicted.                       *)
Prediction(pc, p, ras) ==
    IF ~wr_bpu_enable \/ Matches(pc) = {}
    THEN [btb |-> NoBtb, instr16 |-> FALSE, target |-> pc]
    ELSE LET e    == btb[CHOOSE i \in Matches(pc) : TRUE]
             used == e.hi \/ ~Hi(pc)
         IN  [btb |-> [hit |-> TRUE, hi |-> e.hi,
                       pred |-> used /\ (e.ci = "Branch" => p)],
              instr16 |-> e.instr16,
              target |-> IF ~used THEN pc ELSE IF e.ci = "Ret" THEN ras ELSE e.target]

(* The choices that make a difference to Prediction: any direction, any    *)
(* address that may be on top of the return-address stack.                 *)
Hints(pc) ==
    LET cis == {btb[i].ci : i \in Matches(pc)}
    IN  [p : IF "Branch" \in cis THEN BOOLEAN ELSE {FALSE},
         ras : IF "Ret" \in cis THEN Tops ELSE {0}]

bug_train(pc, target, ci, instr16) ==
    LET e == [valid |-> TRUE, word |-> Word(pc), target |-> target, ci |-> ci,
              instr16 |-> instr16, hi |-> Hi(pc)]
    IN  IF ~wr_bpu_enable \/ rg_initialize THEN UNCHANGED <<btb, rg_allocate>>
        ELSE /\ btb' = [btb EXCEPT ![rg_allocate] = e]
             /\ rg_allocate' = (rg_allocate + 1) % BtbDepth

(* ma_train_bpu; the training of an instruction is lost while the          *)
(* predictor is disabled or being flushed.                                 *)
ma_train_bpu(pc, target, ci, instr16) ==
    LET e == [valid |-> TRUE, word |-> Word(pc), target |-> target, ci |-> ci,
              instr16 |-> instr16, hi |-> Hi(pc)]
    IN  IF ~wr_bpu_enable \/ rg_initialize THEN UNCHANGED <<btb, rg_allocate>>
        ELSE IF Matches(pc) # {}
        THEN /\ btb' = [i \in DOMAIN btb |-> IF i \in Matches(pc) THEN e ELSE btb[i]]
             /\ UNCHANGED rg_allocate
        ELSE /\ btb' = [btb EXCEPT ![rg_allocate] = e]
             /\ rg_allocate' = (rg_allocate + 1) % BtbDepth

(* The bhtdepth clocks of rl_initialize; every one clears all the tags.    *)
rl_initialize ==
    /\ rg_initialize
    /\ btb' = [i \in DOMAIN btb |-> NoEntry] /\ rg_allocate' = 0
    /\ rg_initialize' = FALSE
    /\ UNCHANGED <<stage0, wr_bpu_enable, isb01, stage1, isb12, rg_stall, isb23, eEpoch,
                   wEpoch, env>>

(***************************************************************************)
(* stage0: rl_gen_next_pc, in its three cases.                             *)
(***************************************************************************)
SeqPc == Plus(2 * Word(rg_pc), 2)

gen_fence ==
    /\ rg_fence /\ ~rg_sfence /\ ~rg_initialize /\ Len(isb01) < IsbS0S1
    /\ rg_fence' = FALSE /\ rg_initialize' = wr_bpu_enable
    /\ rg_delayed_redirect' = <<>>
    /\ icache_text' = text
    /\ UNCHANGED <<rg_pc, rg_sfence, btb, rg_allocate, wr_bpu_enable, isb01, stage1, isb12,
                   rg_stall, isb23, eEpoch, wEpoch, text, arch, inflight>>

(* The predictor is not consulted on an sfence.                            *)
gen_sfence ==
    /\ rg_sfence /\ Len(isb01) < IsbS0S1
    /\ rg_sfence' = FALSE /\ rg_fence' = FALSE
    /\ UNCHANGED <<rg_pc, rg_delayed_redirect, bpu, isb01, stage1, isb12, rg_stall, isb23,
                   eEpoch, wEpoch, env>>

bug_redirect(resp) ==
    /\ rg_pc' = IF resp.btb.pred THEN resp.target ELSE SeqPc
    /\ UNCHANGED rg_delayed_redirect

(* A predicted 32-bit instruction that starts in the upper half needs the  *)
(* next word too: its target waits one turn in rg_delayed_redirect.        *)
redirect(resp) ==
    LET edgecase == resp.btb.hi /\ ~resp.instr16
    IN  /\ rg_pc' = IF rg_delayed_redirect # <<>> THEN rg_delayed_redirect[1]
                    ELSE IF resp.btb.pred /\ resp.btb.hit /\ ~edgecase THEN resp.target
                    ELSE SeqPc
        /\ rg_delayed_redirect' =
               IF rg_delayed_redirect = <<>> /\ edgecase /\ resp.btb.pred
               THEN <<resp.target>> ELSE <<>>

gen_next_pc ==
    /\ ~rg_fence /\ ~rg_sfence /\ ~rg_initialize /\ Len(isb01) < IsbS0S1
    /\ \E h \in Hints(rg_pc) :
         LET resp == Prediction(rg_pc, h.p, h.ras)
         IN  /\ redirect(resp)
             /\ isb01' = Append(isb01, [word |-> Word(rg_pc), discard |-> Hi(rg_pc),
                                        btb |-> resp.btb, epoch |-> epoch,
                                        text |-> icache_text])
    /\ UNCHANGED <<rg_fence, rg_sfence, bpu, stage1, isb12, rg_stall, isb23, eEpoch, wEpoch,
                   env>>

(* ma_flush; the fence flags come from write-back.                         *)
ma_flush(pc, fence, sfence) ==
    /\ rg_pc' = pc /\ rg_fence' = fence /\ rg_sfence' = sfence
    /\ rg_delayed_redirect' = <<>>

(***************************************************************************)
(* stage1: process_instruction.  The low bits of a half tell whether a     *)
(* 32-bit instruction starts there; those of a faulting word say no.       *)
(***************************************************************************)
Fault(q) == <<q.text, q.word>> \in Faults
Wide(q, a) == ~Fault(q) /\ Texts[q.text][a].wide

(* fst is the text the half at pc was read from, text that of the word at  *)
(* hand.                                                                   *)
Packet(fst, q, pc, wide, snd, trap, b) ==
    [pc |-> pc, wide |-> wide, snd |-> snd, epoch |-> epoch, trap |-> trap,
     fst |-> fst, text |-> q.text, pred |-> b.pred]

(* The prediction of a word belongs to one of its halves.                  *)
ForHalf(b, hi) == IF b.hi = hi THEN b ELSE NoBtb
Prev(q) == [word |-> q.word, wide |-> Wide(q, 2 * q.word + 1), epoch |-> epoch, btb |-> q.btb,
            text |-> q.text]

drop_response ==
    /\ isb01 # <<>> /\ Len(isb12) < IsbS1S2
    /\ Head(isb01).epoch # epoch
    /\ isb01' = Tail(isb01)
    /\ rg_action' = "None"
    /\ rg_prev' = [rg_prev EXCEPT !.epoch = epoch]
    /\ UNCHANGED <<stage0, bpu, isb12, rg_stall, isb23, eEpoch, wEpoch, env>>

(* The upper half kept from the last word: the first part of a 32-bit      *)
(* instruction, or a 16-bit instruction, which leaves the response alone.  *)
check_prev(q) ==
    LET b  == ForHalf(rg_prev.btb, TRUE)
        pc == 2 * rg_prev.word + 1
    IN  \/ /\ rg_prev.wide
           /\ isb12' = Append(isb12, Packet(rg_prev.text, q, pc, TRUE, 2 * q.word, Fault(q), b))
           /\ isb01' = Tail(isb01) /\ rg_prev' = Prev(q)
           /\ rg_action' = IF b.pred THEN "None" ELSE "CheckPrev"
        \/ /\ ~rg_prev.wide
           /\ isb12' = Append(isb12, Packet(rg_prev.text, q, pc, FALSE, pc, FALSE, b))
           /\ rg_action' = "None"
           /\ rg_prev' = [rg_prev EXCEPT !.epoch = epoch]
           /\ UNCHANGED isb01

(* A jump to the upper half: the lower half is ignored.                    *)
discard_lower(q) ==
    LET pc == 2 * q.word + 1
    IN  /\ isb01' = Tail(isb01)
        /\ \/ /\ Wide(q, pc)
              /\ rg_prev' = Prev(q) /\ rg_action' = "CheckPrev"
              /\ UNCHANGED isb12
           \/ /\ ~Wide(q, pc)
              /\ isb12' = Append(isb12, Packet(q.text, q, pc, FALSE, pc, Fault(q), ForHalf(q.btb, TRUE)))
              /\ rg_action' = "None" /\ rg_prev' = [rg_prev EXCEPT !.epoch = epoch]

aligned(q) ==
    LET pc   == 2 * q.word
        jump == ~q.btb.hi /\ q.btb.pred
    IN  /\ isb01' = Tail(isb01)
        /\ \/ /\ Wide(q, pc)
              /\ isb12' = Append(isb12, Packet(q.text, q, pc, TRUE, pc + 1, Fault(q), q.btb))
              /\ rg_action' = "None" /\ rg_prev' = [rg_prev EXCEPT !.epoch = epoch]
           \/ /\ ~Wide(q, pc)
              /\ isb12' = Append(isb12, Packet(q.text, q, pc, FALSE, pc, Fault(q), ForHalf(q.btb, FALSE)))
              /\ rg_prev' = Prev(q)
              /\ rg_action' = IF jump THEN "None" ELSE "CheckPrev"

process_instruction ==
    /\ isb01 # <<>> /\ Len(isb12) < IsbS1S2
    /\ LET q    == Head(isb01)
           kept == rg_action = "CheckPrev" /\ rg_prev.epoch = epoch
       IN  /\ q.epoch = epoch
           /\ \/ kept /\ check_prev(q)
              \/ ~kept /\ q.discard /\ discard_lower(q)
              \/ ~kept /\ ~q.discard /\ aligned(q)
    /\ UNCHANGED <<stage0, bpu, rg_stall, isb23, eEpoch, wEpoch, env>>

(***************************************************************************)
(* stage2: drop what is of another epoch; stop after a trap.               *)
(***************************************************************************)
decode ==
    /\ ~rg_stall /\ isb12 # <<>> /\ isb23 = <<>>
    /\ isb12' = Tail(isb12)
    /\ IF Head(isb12).epoch = epoch
       THEN isb23' = <<Head(isb12)>> /\ rg_stall' = Head(isb12).trap
       ELSE UNCHANGED <<isb23, rg_stall>>
    /\ UNCHANGED <<stage0, bpu, isb01, stage1, eEpoch, wEpoch, env>>

(***************************************************************************)
(* stage3.                                                                 *)
(***************************************************************************)
Decoded(i) == Texts[i.text][i.pc]
Next16or32(i) == Plus(i.pc, IF i.wide THEN 2 ELSE 1)
Ready == isb23 # <<>> /\ isb23[1].epoch = epoch

rl_drop_instr ==
    /\ isb23 # <<>> /\ isb23[1].epoch # epoch
    /\ isb23' = <<>>
    /\ UNCHANGED <<stage0, bpu, isb01, stage1, isb12, rg_stall, eEpoch, wEpoch, env>>

(* Arithmetic, memory, and the trap found by stage1, after which nothing   *)
(* executes until write-back redirects.                                    *)
exe_other ==
    /\ Ready
    /\ LET i == isb23[1]
       IN  /\ i.trap \/ Decoded(i).kind = "alu"
           /\ arch' = IF i.trap THEN Stopped ELSE Next16or32(i)
    /\ isb23' = <<>> /\ inflight' = TRUE
    /\ UNCHANGED <<stage0, bpu, isb01, stage1, isb12, rg_stall, eEpoch, wEpoch, icache_text,
                   text>>

(* Conditional branches compare directions, the others the next pc.        *)
mispredicted(i, target, taken) ==
    IF Decoded(i).kind = "branch" THEN taken # i.pred ELSE Head(isb12).pc # target

(* rl_exe_base_control, with the decode of one more instruction of the     *)
(* wrong path in the clock of a redirect, which does not stall stage2.     *)
rl_exe_base_control ==
    /\ Ready /\ isb12 # <<>>
    /\ LET i == isb23[1]
           d == Decoded(i)
       IN  /\ ~i.trap /\ d.kind \in {"branch", "jal", "ret"}
           /\ \E taken \in IF d.kind = "branch" THEN BOOLEAN ELSE {TRUE},
                 target \in IF d.kind = "ret" THEN Entries ELSE {d.target} :
                LET next == IF taken THEN target ELSE Next16or32(i)
                IN  /\ arch' = next
                    /\ ma_train_bpu(i.pc, target,
                                    CASE d.kind = "branch" -> "Branch" [] d.kind = "jal" -> "JAL"
                                      [] OTHER -> "Ret", ~i.wide)
                    /\ \/ /\ ~mispredicted(i, target, taken)
                          /\ isb23' = <<>>
                          /\ UNCHANGED <<stage0, isb12, rg_stall, eEpoch>>
                       \/ /\ mispredicted(i, target, taken)
                          /\ eEpoch' = 1 - eEpoch /\ ma_flush(next, FALSE, FALSE)
                          /\ rg_stall' = FALSE
                          /\ \/ isb23' = <<>> /\ UNCHANGED isb12
                             \/ ~rg_stall /\ isb23' = <<Head(isb12)>> /\ isb12' = Tail(isb12)
    /\ inflight' = TRUE
    /\ UNCHANGED <<rg_initialize, wr_bpu_enable, isb01, stage1, wEpoch, icache_text, text>>

bug_flush_keeps_stall ==
    /\ inflight
    /\ \E pc \in Entries, fl \in {"none", "fence", "sfence"} :
         /\ ma_flush(pc, fl = "fence", fl = "sfence") /\ arch' = pc
         /\ text' \in IF fl = "fence" THEN text..Len(Texts) ELSE {text}
    /\ wr_bpu_enable' \in IF Toggle THEN BOOLEAN ELSE {wr_bpu_enable}
    /\ wEpoch' = 1 - wEpoch /\ inflight' = FALSE /\ UNCHANGED rg_stall
    /\ UNCHANGED <<btb, rg_allocate, rg_initialize, isb01, stage1, isb12, isb23, eEpoch,
                   icache_text>>

(***************************************************************************)
(* A redirect by write-back, on account of an instruction that is past     *)
(* stage3: a trap, an xret, a CSR access, a fence.  A fence.i follows the  *)
(* stores that changed the text; a CSR access may switch the predictor.    *)
(***************************************************************************)
wb_flush ==
    /\ inflight
    /\ \E pc \in Entries, fl \in {"none", "fence", "sfence"} :
         /\ ma_flush(pc, fl = "fence", fl = "sfence") /\ arch' = pc
         /\ text' \in IF fl = "fence" THEN text..Len(Texts) ELSE {text}
    /\ wr_bpu_enable' \in IF Toggle THEN BOOLEAN ELSE {wr_bpu_enable}
    /\ wEpoch' = 1 - wEpoch /\ rg_stall' = FALSE /\ inflight' = FALSE
    /\ UNCHANGED <<btb, rg_allocate, rg_initialize, isb01, stage1, isb12, isb23, eEpoch,
                   icache_text>>

Next ==
    \/ gen_next_pc \/ gen_fence \/ gen_sfence \/ rl_initialize
    \/ drop_response \/ process_instruction \/ decode
    \/ rl_drop_instr \/ exe_other \/ rl_exe_base_control
    \/ wb_flush

Spec == Init /\ [][Next]_vars

(* Every rule that stays ready fires; write-back redirects after a trap.   *)
FairSpec ==
    /\ Spec
    /\ WF_vars(gen_next_pc \/ gen_fence \/ gen_sfence) /\ WF_vars(rl_initialize)
    /\ WF_vars(drop_response \/ process_instruction) /\ WF_vars(decode)
    /\ WF_vars(rl_drop_instr \/ exe_other \/ rl_exe_base_control)
    /\ WF_vars(arch = Stopped /\ wb_flush)

(***************************************************************************)
(* What software keeps to: A is the set of addresses of a text X at which  *)
(* its instructions start.  Control stays inside A, write-back redirects   *)
(* into A, and no instruction starts inside another.  S gives A for every  *)
(* text.                                                                   *)
(***************************************************************************)
SizeOf(i) == IF i.wide THEN 2 ELSE 1
Disciplined(A, X) ==
    /\ A \subseteq Addr /\ Entries \subseteq A
    /\ \A a \in A :
         /\ X[a].kind \in {"alu", "branch"} => Plus(a, SizeOf(X[a])) \in A
         /\ X[a].kind \in {"branch", "jal"} => X[a].target \in A
         /\ X[a].wide => Plus(a, 1) \notin A
Starts(S) == \A t \in 1..Len(Texts) : Disciplined(S[t], Texts[t])

(***************************************************************************)
(* Properties.                                                             *)
(***************************************************************************)

(* What stage3 executes is the program: an instruction whose epoch matches *)
(* is the next one in program order, both of its halves come from its own  *)
(* address and from the text software last synchronised, whatever was      *)
(* predicted, evicted or in flight.  Wrong predictions cost time only.     *)
FollowsProgram ==
    Ready => LET i == isb23[1]
             IN  /\ i.pc = arch
                 /\ i.fst = text /\ i.text = text
                 /\ i.trap \/ i.wide = Decoded(i).wide
                 /\ i.wide => i.snd = Plus(i.pc, 1)

(* The dynamicAssert of gshare_fa: at most one entry matches a word.       *)
BtbOneHot ==
    \A i, j \in DOMAIN btb : btb[i].valid /\ btb[j].valid /\ btb[i].word = btb[j].word => i = j

(* The pipeline keeps executing instructions of the program.               *)
Executes == []<><<exe_other \/ rl_exe_base_control>>_vars
=============================================================================
