------------------------------- MODULE Backend -------------------------------
(***************************************************************************)
(* Issue, bypass and commit of the C-Class pipeline: the operand registers *)
(* of stage2, the execute rules of stage3 with the scoreboard and the      *)
(* bypass network, stage4, stage5, and the inter-stage buffers between     *)
(* them.                                                                   *)
(*                                                                         *)
(* A Bluespec rule is atomic and the rules that fire in one clock behave   *)
(* as if they fired one after the other, stage3 before stage2 before       *)
(* stage5 (CReg ports, ConfigRegs and FIFO methods fix that order).  One   *)
(* action stands for one rule; every order of rules is allowed, which      *)
(* covers every schedule and every stall.  The one pair of rules whose     *)
(* joint effect is not a sequence (a redirect in stage3 and the decode of  *)
(* one more wrong-path instruction in the same clock) is part of           *)
(* rl_exe_base_control.                                                    *)
(*                                                                         *)
(* The build has a branch predictor (bpu).  Of the s1-s2 buffer, which     *)
(* stage1 fills, only whether it is empty is kept; Fetch has the rest.     *)
(***************************************************************************)
EXTENDS Integers, Sequences

CONSTANTS
    Regs,         \* scoreboard indices: {rdtype, rd}
    x0,           \* index 0, the integer register that is never written
    Vals, NoVal,  \* register values; NoVal marks a result not computed yet
    Instrs,       \* decoded instructions stage2 may hand to stage3
    IsbS3S4,      \* `isb_s3s4
    IsbS4S5,      \* `isb_s4s5
    IdSpace,      \* 2 ^ `wawid, the number of rename ids
    NoWawStalls,  \* the macro no_wawstalls
    Spfpu         \* the macro spfpu

(* instr_type, with MEMORY split by memaccess and SYSTEM by funct3 = 0.    *)
(* LOAD also stands for Fence and FenceI, CONTROL for JAL, JALR, BRANCH.   *)
Types == {"ALU", "SYSTEM", "XRET", "TRAP", "LOAD", "STORE", "ATOMIC",
          "SFENCE", "CONTROL", "MULDIV", "FLOAT", "PSIMD"}

(* "rd" as an operand is rg_opd: PSIMD instructions also read rd.          *)
Operands == {"rs1", "rs2", "rs3", "rd"}

ASSUME ConstantsAssumption ==
    /\ x0 \in Regs
    /\ NoVal \notin Vals
    /\ NoWawStalls \in BOOLEAN /\ Spfpu \in BOOLEAN

ASSUME InstrsAssumption ==
    /\ Instrs \subseteq [type : Types, src : [Operands -> Regs]]
    /\ \A i \in Instrs : i.type \in {"STORE", "SFENCE", "XRET"} => i.src["rd"] = x0

(* configure.py: wawid = ceil(log2(isb_s3s4 + isb_s4s5))                   *)
ASSUME SizesAssumption ==
    /\ IsbS3S4 \in Nat \ {0} /\ IsbS4S5 \in Nat \ {0} /\ IdSpace \in Nat \ {0}
    /\ IsbS3S4 + IsbS4S5 <= IdSpace

VARIABLES
    board,       \* rg_rf_board: lock and rename id of each register
    renameid,    \* rg_renameid
    rf,          \* the register file
    rg_stall,    \* stage2 waits for a redirect after a trapped instruction
    eEpoch,      \* rg_eEpoch of stage3, eEpoch of stage2
    wEpoch,      \* rg_epoch of stage5, rg_wEpoch of stage3, wEpoch of stage2
    isb12,       \* the s1-s2 buffer holds an instruction: wr_next_pc is valid
    isb23,       \* the s2-s3 buffer with rg_op1, rg_op2, rg_op3, rg_opd
    isb34,       \* ff_fuid of s3-s4; a BASE entry also is in ff_baseout
    isb45        \* ff_fuid of s4-s5

vars == <<board, renameid, rf, rg_stall, eEpoch, wEpoch, isb12, isb23, isb34, isb45>>

Bit == {0, 1}

(* Functional units of an entry.  STORE, ATOMIC and IO in s4-s5 are        *)
(* MEMORY entries with a WBMemop packet.                                   *)
Units == {"BASE", "SYSTEM", "XRET", "TRAP", "LOAD", "STORE", "ATOMIC", "IO",
          "MULDIV", "FLOAT", "PSIMD"}

(* "dead" is a history field: an older instruction has redirected the pc   *)
(* since this one was fetched.                                             *)
Packet == [type : Types, src : [Operands -> Regs], val : [Operands -> Vals],
           e : Bit, w : Bit, dead : BOOLEAN]
Entry == [fu : Units, rd : Regs, id : 0 .. IdSpace - 1, ep : Bit,
          val : Vals \union {NoVal}, dead : BOOLEAN]

Init ==
    /\ board = [r \in Regs |-> [lock |-> FALSE, id |-> 0]]
    /\ renameid = 0
    /\ rf \in [Regs -> Vals]
    /\ rg_stall = FALSE
    /\ eEpoch = 0 /\ wEpoch = 0
    /\ isb12 = FALSE /\ isb23 = <<>> /\ isb34 = <<>> /\ isb45 = <<>>

-----------------------------------------------------------------------------
(* Scoreboard and bypass                                                   *)

(* The definitions named bug_... change the one after them the way a slip  *)
(* in the code would; only the mutants of PROJECT.json use them.           *)
bug_lock_one_bit_less(rd) ==
    /\ board' = IF rd = x0 THEN board
                ELSE [board EXCEPT ![rd] = [lock |-> TRUE, id |-> renameid]]
    /\ renameid' = (renameid + 1) % (IdSpace \div 2)

ma_lock_rd(rd) ==
    /\ board' = IF rd = x0 THEN board
                ELSE [board EXCEPT ![rd] =
                        [lock |-> TRUE,
                         id   |-> IF NoWawStalls THEN renameid ELSE @.id]]
    /\ renameid' = IF NoWawStalls THEN (renameid + 1) % IdSpace ELSE renameid

bug_release_any_id(rd, id) ==
    board' = IF rd = x0 THEN board ELSE [board EXCEPT ![rd].lock = FALSE]

ma_release_rd(rd, id) ==
    board' = IF rd = x0 THEN board
             ELSE [board EXCEPT ![rd].lock =
                     IF NoWawStalls /\ id # board[rd].id THEN @ ELSE FALSE]

(* Entry i of buffer s is the head of its ff_baseout.                      *)
IsBaseHead(s, i) == s[i].fu = "BASE" /\ \A j \in 1 .. i - 1 : s[j].fu # "BASE"

bug_forward_any_epoch(s, i, r) ==
    IsBaseHead(s, i) /\ r # x0 /\ s[i].rd = r /\ s[i].id = board[r].id

(* choice[...] of fn_bypass: the head of ff_baseout is the wanted result.  *)
Forwards(s, i, r) ==
    /\ IsBaseHead(s, i)
    /\ r # x0 /\ s[i].rd = r
    /\ s[i].ep = wEpoch
    /\ NoWawStalls => s[i].id = board[r].id

Hit(s, r) == \E i \in 1 .. Len(s) : Forwards(s, i, r)

HitData(s, r) == s[CHOOSE i \in 1 .. Len(s) : Forwards(s, i, r)].val

Available(r) == Hit(isb34, r) \/ Hit(isb45, r) \/ ~board[r].lock

fn_bypass(r, rfval) ==
    IF Hit(isb34, r) THEN HitData(isb34, r)
    ELSE IF Hit(isb45, r) THEN HitData(isb45, r)
    ELSE rfval

-----------------------------------------------------------------------------
(* Stage 2                                                                 *)

Fetched(i, stale) ==
    [type |-> i.type, src |-> i.src, val |-> [o \in Operands |-> rf[i.src[o]]],
     e |-> eEpoch, w |-> wEpoch, dead |-> stale]

(* stage1 hands over an instruction.                                       *)
process_instruction ==
    /\ ~isb12
    /\ isb12' = TRUE
    /\ UNCHANGED <<board, renameid, rf, rg_stall, eEpoch, wEpoch, isb23, isb34, isb45>>

(* An instruction of another epoch is dropped; others may wait behind it.  *)
decode_and_opfetch ==
    /\ ~rg_stall
    /\ isb12 /\ isb12' \in BOOLEAN
    /\ isb23 = <<>>
    /\ \/ \E i \in Instrs :
            /\ isb23' = <<Fetched(i, FALSE)>>
            /\ rg_stall' = (i.type = "TRAP")
       \/ UNCHANGED <<isb23, rg_stall>>
    /\ UNCHANGED <<board, renameid, rf, eEpoch, wEpoch, isb34, isb45>>

bug_follow_not_opd(p, rd, v) ==
    [p EXCEPT !.val = [o \in Operands |->
        IF rd # x0 /\ p.src[o] = rd /\ o # "rd" THEN v ELSE p.val[o]]]

(* The operand registers follow every retirement.  The       *)
(* branch built with spfpu leaves rg_opd alone.                            *)
FollowCommit(p, rd, v) ==
    [p EXCEPT !.val = [o \in Operands |->
        IF rd # x0 /\ p.src[o] = rd /\ (o = "rd" => ~Spfpu) THEN v ELSE p.val[o]]]

ma_commit_rd(s, rd, v) == [i \in 1 .. Len(s) |-> FollowCommit(s[i], rd, v)]

-----------------------------------------------------------------------------
(* Stage 3                                                                 *)

Pkt == isb23[1]

epochs_match == isb23 # <<>> /\ Pkt.e = eEpoch /\ Pkt.w = wEpoch

wr_waw_stall == ~NoWawStalls /\ board[Pkt.src["rd"]].lock

Ready(types, needs) ==
    /\ epochs_match
    /\ Pkt.type \in types
    /\ \A o \in needs : Available(Pkt.src[o])

bug_issue_when_full(fu, v) ==
    /\ Len(isb34) <= IsbS3S4
    /\ ma_lock_rd(Pkt.src["rd"])
    /\ isb34' = Append(isb34, [fu |-> fu, rd |-> Pkt.src["rd"], id |-> renameid,
                               ep |-> Pkt.w, val |-> v, dead |-> Pkt.dead])
    /\ UNCHANGED <<rf, wEpoch, isb45>>

Issue(fu, v) ==
    /\ Len(isb34) < IsbS3S4
    /\ ma_lock_rd(Pkt.src["rd"])
    /\ isb34' = Append(isb34, [fu |-> fu, rd |-> Pkt.src["rd"], id |-> renameid,
                               ep |-> Pkt.w, val |-> v, dead |-> Pkt.dead])
    /\ UNCHANGED <<rf, wEpoch, isb45>>

Deq23 == isb23' = <<>> /\ UNCHANGED <<rg_stall, eEpoch, isb12>>

rl_drop_instr ==
    /\ isb23 # <<>> /\ ~epochs_match
    /\ isb23' = <<>>
    /\ UNCHANGED <<board, renameid, rf, rg_stall, eEpoch, wEpoch, isb12, isb34, isb45>>

rl_system_instr ==
    /\ Ready({"SYSTEM", "XRET"}, {"rs1"}) /\ ~wr_waw_stall
    /\ Issue(Pkt.type, NoVal) /\ Deq23

(* No check for a WAW stall here.                                          *)
rl_trap_from_prev ==
    /\ Ready({"TRAP"}, {})
    /\ Issue("TRAP", NoVal) /\ Deq23

rl_exe_base_arith ==
    /\ Ready({"ALU"}, {"rs1", "rs2"}) /\ ~wr_waw_stall
    /\ \E v \in Vals : Issue("BASE", v)
    /\ Deq23

(* A misaligned access becomes a TRAP, an SFENCE a nop; anything else      *)
(* waits for the cache in stage4.                                          *)
rl_exe_base_memory ==
    /\ Ready({"LOAD", "STORE", "ATOMIC", "SFENCE"}, {"rs1", "rs2"}) /\ ~wr_waw_stall
    /\ \/ Pkt.type # "SFENCE" /\ Issue("TRAP", NoVal)
       \/ Pkt.type = "SFENCE" /\ Issue("BASE", NoVal)
       \/ Pkt.type # "SFENCE" /\ Issue(Pkt.type, NoVal)
    /\ Deq23

(* On a redirect the epoch registers change at the end of the clock, so    *)
(* stage2 may still refill the buffer with an instruction of the old path. *)
Redirect ==
    /\ eEpoch' = 1 - eEpoch
    /\ rg_stall' = FALSE
    /\ \/ isb23' = <<>> /\ UNCHANGED isb12
       \/ isb12' \in BOOLEAN /\ \E i \in Instrs : isb23' = <<Fetched(i, TRUE)>>

(* The pc of the next instruction, in s1-s2, tells whether the prediction  *)
(* was right: without one a control instruction waits.                     *)
rl_exe_base_control ==
    /\ Ready({"CONTROL"}, {"rs1", "rs2"}) /\ ~wr_waw_stall
    /\ isb12
    /\ \/ (\E v \in Vals : Issue("BASE", v)) /\ Deq23
       \/ (\E v \in Vals : Issue("BASE", v)) /\ Redirect
       \/ Issue("TRAP", NoVal) /\ Deq23

rl_mbox ==
    /\ Ready({"MULDIV"}, {"rs1", "rs2"}) /\ ~wr_waw_stall
    /\ Issue("MULDIV", NoVal) /\ Deq23

(* wr_fwd_opd is used, wr_opd_avail is not.                                *)
rl_pbox ==
    /\ Ready({"PSIMD"}, {"rs1", "rs2"}) /\ ~wr_waw_stall
    /\ Issue("PSIMD", NoVal) /\ Deq23

rl_fbox ==
    /\ Ready({"FLOAT"}, {"rs1", "rs2", "rs3"}) /\ ~wr_waw_stall
    /\ Issue("FLOAT", NoVal) /\ Deq23

Stage3 ==
    \/ rl_drop_instr \/ rl_system_instr \/ rl_trap_from_prev
    \/ rl_exe_base_arith \/ rl_exe_base_memory \/ rl_exe_base_control
    \/ rl_mbox \/ rl_pbox \/ rl_fbox

-----------------------------------------------------------------------------
(* Stage 4: the head of s3-s4 moves on once its functional unit answers.   *)

Forward(fus, fu, v) ==
    /\ isb34 # <<>> /\ Head(isb34).fu \in fus
    /\ Len(isb45) < IsbS4S5
    /\ isb34' = Tail(isb34)
    /\ isb45' = Append(isb45, [Head(isb34) EXCEPT !.fu = fu, !.val = v])
    /\ UNCHANGED <<board, renameid, rf, rg_stall, eEpoch, wEpoch, isb12, isb23>>

rl_fwd_baseout == Forward({"BASE"}, "BASE", Head(isb34).val)

rl_fwd_systemout == Forward({"SYSTEM", "XRET"}, Head(isb34).fu, NoVal)

rl_fwd_trapout == Forward({"TRAP"}, "TRAP", NoVal)

(* The response may be a fault, an entry held back in the store or io      *)
(* buffer until stage5 commits it, or the loaded word.  A response of      *)
(* another epoch than the head's is dropped, which changes nothing here.   *)
rl_handle_memory ==
    \/ Forward({"LOAD", "STORE", "ATOMIC"}, "TRAP", NoVal)
    \/ Forward({"LOAD", "STORE", "ATOMIC"}, "IO", NoVal)
    \/ Forward({"STORE"}, "STORE", NoVal)
    \/ \E v \in Vals : Forward({"ATOMIC"}, "ATOMIC", v)
    \/ \E v \in Vals : Forward({"LOAD", "ATOMIC"}, "BASE", v)

rl_capture_muldiv == \E v \in Vals : Forward({"MULDIV"}, "BASE", v)

rl_capture_float == \E v \in Vals : Forward({"FLOAT"}, "BASE", v)

rl_capture_psimd == \E v \in Vals : Forward({"PSIMD"}, "BASE", v)

Stage4 ==
    \/ rl_fwd_baseout \/ rl_fwd_systemout \/ rl_fwd_trapout \/ rl_handle_memory
    \/ rl_capture_muldiv \/ rl_capture_float \/ rl_capture_psimd

-----------------------------------------------------------------------------
(* Stage 5                                                                 *)

Cu == Head(isb45)

AtWB(fus) == isb45 # <<>> /\ Cu.fu \in fus

Kill(s) == [i \in 1 .. Len(s) |-> [s[i] EXCEPT !.dead = TRUE]]

(* wr_commit with unlock_only: only the scoreboard sees it.                *)
Unlock ==
    /\ ma_release_rd(Cu.rd, Cu.id)
    /\ UNCHANGED <<renameid, rf, eEpoch, isb12>>

(* wr_commit with data: register file, operand registers, scoreboard.      *)
Commit(v) ==
    /\ ma_release_rd(Cu.rd, Cu.id)
    /\ rf' = IF Cu.rd = x0 THEN rf ELSE [rf EXCEPT ![Cu.rd] = v]
    /\ isb23' = ma_commit_rd(isb23, Cu.rd, v)
    /\ isb45' = Tail(isb45)
    /\ UNCHANGED <<renameid, rg_stall, eEpoch, wEpoch, isb12, isb34>>

bug_flush_same_epoch ==
    /\ Unlock /\ wEpoch' = wEpoch /\ rg_stall' = FALSE
    /\ isb23' = Kill(isb23) /\ isb34' = Kill(isb34) /\ isb45' = Kill(Tail(isb45))

bug_flush_keeps_stall ==
    /\ Unlock /\ wEpoch' = 1 - wEpoch /\ rg_stall' = rg_stall
    /\ isb23' = Kill(isb23) /\ isb34' = Kill(isb34) /\ isb45' = Kill(Tail(isb45))

(* wr_flush: every stage flips its copy of the epoch, stage2 resumes.      *)
Flush ==
    /\ Unlock
    /\ wEpoch' = 1 - wEpoch
    /\ rg_stall' = FALSE
    /\ isb23' = Kill(isb23)
    /\ isb34' = Kill(isb34)
    /\ isb45' = Kill(Tail(isb45))

bug_drop_keeps_lock ==
    isb45' = Tail(isb45)
    /\ UNCHANGED <<board, renameid, rf, rg_stall, eEpoch, wEpoch, isb12, isb23, isb34>>

Drop == Unlock /\ isb45' = Tail(isb45) /\ UNCHANGED <<rg_stall, wEpoch, isb23, isb34>>

wb_epochs_match == wEpoch = Cu.ep

rl_writeback_trap ==
    /\ AtWB({"TRAP"})
    /\ IF wb_epochs_match THEN Flush ELSE Drop

(* xRET has rd = x0 and redirects; a CSR operation commits the old value.  *)
rl_writeback_system ==
    /\ AtWB({"SYSTEM", "XRET"})
    /\ IF ~wb_epochs_match THEN Drop
       ELSE IF Cu.fu = "XRET" THEN Flush
       ELSE \E v \in Vals : Commit(v)

bug_retire_any_epoch == AtWB({"BASE"}) /\ Commit(Cu.val)

rl_writeback_baseout ==
    /\ AtWB({"BASE"})
    /\ IF wb_epochs_match THEN Commit(Cu.val) ELSE Drop

(* A cached store is released from the store buffer and sends no           *)
(* wr_commit; an io operation may still fault.                             *)
rl_writeback_memop ==
    /\ AtWB({"STORE", "ATOMIC", "IO"})
    /\ \/ ~wb_epochs_match /\ Drop
       \/ /\ wb_epochs_match /\ Cu.fu = "STORE"
          /\ isb45' = Tail(isb45)
          /\ UNCHANGED <<board, renameid, rf, rg_stall, eEpoch, wEpoch, isb12, isb23, isb34>>
       \/ wb_epochs_match /\ Cu.fu = "ATOMIC" /\ Commit(Cu.val)
       \/ wb_epochs_match /\ Cu.fu = "IO" /\ \E v \in Vals : Commit(v)
       \/ wb_epochs_match /\ Cu.fu = "IO" /\ Flush

Stage5 ==
    \/ rl_writeback_trap \/ rl_writeback_system
    \/ rl_writeback_baseout \/ rl_writeback_memop

Next == process_instruction \/ decode_and_opfetch \/ Stage3 \/ Stage4 \/ Stage5

Spec == Init /\ [][Next]_vars

(* Every enabled rule of a stage fires within a clock; a functional unit   *)
(* and the data cache answer every request eventually.  Fetch refills an   *)
(* empty s1-s2 buffer, which is implied by Executes of module Fetch, where *)
(* the control rule has the same guard: all that executes came through it. *)
FairSpec ==
    /\ Spec
    /\ WF_vars(Stage3) /\ WF_vars(Stage4) /\ WF_vars(Stage5)
    /\ WF_vars(process_instruction)

-----------------------------------------------------------------------------
(* Properties                                                              *)

(* A computed BASE result or atomic value is a register value, and what    *)
(* never sends wr_commit with data has no register to release.             *)
EntriesOK(s) ==
    \A i \in 1 .. Len(s) :
        /\ s[i].fu = "BASE" /\ s[i].rd # x0 => s[i].val \in Vals
        /\ s[i].fu \in {"STORE", "XRET"} => s[i].rd = x0

(* Type invariant of the buffers, the scoreboard and the register file.    *)
TypeOK ==
    /\ board \in [Regs -> [lock : BOOLEAN, id : 0 .. IdSpace - 1]]
    /\ renameid \in 0 .. IdSpace - 1
    /\ rf \in [Regs -> Vals]
    /\ rg_stall \in BOOLEAN /\ eEpoch \in Bit /\ wEpoch \in Bit /\ isb12 \in BOOLEAN
    /\ isb23 \in Seq(Packet) /\ Len(isb23) \in {0, 1}
    /\ isb34 \in Seq(Entry) /\ Len(isb34) <= IsbS3S4 /\ EntriesOK(isb34)
    /\ isb45 \in Seq(Entry) /\ Len(isb45) <= IsbS4S5 /\ EntriesOK(isb45)
    /\ isb23 # <<>> /\ Pkt.type \in {"STORE", "SFENCE", "XRET"} => Pkt.src["rd"] = x0
    /\ \A i \in 1 .. Len(isb45) : isb45[i].fu = "ATOMIC" => isb45[i].val \in Vals

Writes(s, r) == \E i \in 1 .. Len(s) : s[i].rd = r

(* A register is locked exactly while an issued, not yet retired           *)
(* instruction has it as rd: no release is lost (the next reader would     *)
(* wait forever) and none comes early.                                     *)
LocksOwned ==
    \A r \in Regs \ {x0} :
        board[r].lock <=> Writes(isb34, r) \/ Writes(isb45, r)

(* The ids of the instructions in flight differ although rg_renameid       *)
(* wraps: fn_bypass and ma_release_rd compare nothing but the id.          *)
IdsDistinct ==
    /\ \A i, j \in 1 .. Len(isb34) : isb34[i].id = isb34[j].id => i = j
    /\ \A i, j \in 1 .. Len(isb45) : isb45[i].id = isb45[j].id => i = j
    /\ \A i \in 1 .. Len(isb34), j \in 1 .. Len(isb45) : isb34[i].id # isb45[j].id

(* What a sequential machine would read from r now: the result of the      *)
(* youngest instruction in flight that writes r and is not on a wrong      *)
(* path, or the register file when there is none.                          *)
LiveWriters(s, r) == {i \in 1 .. Len(s) : s[i].rd = r /\ ~s[i].dead}

LatestOf(s, r) == s[CHOOSE i \in LiveWriters(s, r) : \A j \in LiveWriters(s, r) : j <= i].val

Latest(r) ==
    IF r # x0 /\ LiveWriters(isb34, r) # {} THEN LatestOf(isb34, r)
    ELSE IF r # x0 /\ LiveWriters(isb45, r) # {} THEN LatestOf(isb45, r)
    ELSE rf[r]

Fresh(o) == fn_bypass(Pkt.src[o], Pkt.val[o]) = Latest(Pkt.src[o])

(* Whenever the bypass network reports an operand of the instruction in    *)
(* stage3 as available, the value it delivers is the latest one: rs1, rs2  *)
(* and rs3 as rl_perform_fwding computes them.                             *)
OperandsFresh ==
    epochs_match => \A o \in {"rs1", "rs2", "rs3"} : Available(Pkt.src[o]) => Fresh(o)

(* An older instruction has trapped: whatever stage3 holds is dropped.     *)
Doomed == \E s \in {isb34, isb45} : \E i \in 1 .. Len(s) : s[i].fu = "TRAP" /\ ~s[i].dead

(* The same for the instructions that may still retire.                    *)
RetiringOperandsFresh == ~Doomed => OperandsFresh

(* The same for operand d, the old value of rd that rg_opd holds.          *)
OpdFresh == epochs_match => (Available(Pkt.src["rd"]) => Fresh("rd"))

(* A PSIMD instruction that rl_pbox may issue gets the latest value of rd. *)
PboxOperandFresh ==
    Ready({"PSIMD"}, {"rs1", "rs2"}) /\ ~wr_waw_stall => Fresh("rd")

StaleIffDead(s) == \A i \in 1 .. Len(s) : s[i].dead <=> s[i].ep # wEpoch

(* The one-bit epoch of an instruction differs from the current one        *)
(* exactly when an older instruction redirected the pc after it was        *)
(* fetched: no wrong-path instruction can retire, no right-path one is     *)
(* dropped, although the bit wraps at every second flush.                  *)
EpochsTellWrongPath ==
    /\ isb23 # <<>> => (Pkt.dead <=> ~epochs_match)
    /\ StaleIffDead(isb34) /\ StaleIffDead(isb45)

(* The register file changes only by an instruction that is not on a wrong *)
(* path, and only in the register it has locked in the scoreboard.         *)
RetireInOrder ==
    [][rf' # rf => /\ isb45 # <<>> /\ ~Cu.dead
                   /\ \A r \in Regs : rf'[r] # rf[r] => r = Cu.rd /\ board[r].lock]_vars

(* Every instruction handed to stage3 leaves it: the operands it waits for *)
(* become available, buffers drain, and a jump or branch gets the next pc  *)
(* it is compared with, provided fetch keeps filling the s1-s2 buffer.     *)
Stage3Progress == isb23 # <<>> ~> isb23 = <<>>

(* A stage2 stalled behind a trapped instruction is always redirected.     *)
StallEnds == rg_stall ~> ~rg_stall
=============================================================================
