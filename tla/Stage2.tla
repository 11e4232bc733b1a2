-------------------------------- MODULE Stage2 -------------------------------
(***************************************************************************)
(* What stage2 holds back: rg_stall behind a trap, rg_wfi, and rg_microtrap*)
(* behind an instruction that changes control state, between a fetch that  *)
(* guesses and the stages 3 to 5 that redirect it.  Register values are in *)
(* Backend, the meaning of a word in Decoder.                              *)
(*                                                                         *)
(* The program is straight-line code of N instructions whose branches skip *)
(* one instruction; a trap handler is empty: an interrupt resumes at the   *)
(* instruction, an exception after it.  A clock in which a redirect meets  *)
(* a decode is one step; other rules of a clock touch different registers  *)
(* and are taken one after the other.                                      *)
(***************************************************************************)
EXTENDS Integers, Sequences

CONSTANTS N,            \* length of the program
          Kinds,        \* which of the kinds below the program is made of
          S3Depth,      \* the buffers in front of stage3 and of stage5
          S5Depth,
          MaxInt        \* interrupts that arrive (a bound)

(* "FAULT" faults in stage4, "ILL" is refused by the decoder. *)
AllKinds == {"ALU", "CSR", "BRANCH", "FAULT", "ILL", "WFI"}

ASSUME Stage2Assumption == /\ N \in Nat /\ Kinds \subseteq AllKinds
                           /\ S3Depth \in Nat /\ S5Depth \in Nat /\ MaxInt \in Nat

VARIABLES prog, fpc, pipe1,             \* program; stage0's pc; packet for stage2
          eEpoch, wEpoch, rg_epoch,     \* epochs of stages 0 to 3, and of stage5
          rg_stall, rg_wfi, rg_microtrap,
          s3, s5,                       \* packets for stage3 and stage5
          csr,                          \* control-state changes committed
          mip, ints,                    \* an enabled interrupt is pending; arrived so far
          apc, last                     \* next instruction to retire; the last that did

regs == <<rg_stall, rg_wfi, rg_microtrap>>
epochs == <<eEpoch, wEpoch, rg_epoch>>
vars == <<prog, fpc, pipe1, epochs, regs, s3, s5, csr, mip, ints, apc, last>>

Kind(p) == IF p \in 1 .. N THEN prog[p] ELSE "ALU"
After(p) == IF Kind(p) = "BRANCH" THEN p + 2 ELSE p + 1
End == N + 2                                            \* beyond it nothing is fetched

Init == /\ prog \in [1 .. N -> Kinds]
        /\ fpc = 1 /\ pipe1 = << >> /\ s3 = << >> /\ s5 = << >>
        /\ eEpoch = 0 /\ wEpoch = 0 /\ rg_epoch = 0
        /\ rg_stall = FALSE /\ rg_wfi = FALSE /\ rg_microtrap = FALSE
        /\ csr = 0 /\ mip = FALSE /\ ints = 0 /\ apc = 1 /\ last = 0

(* Stages 0 and 1: a branch is predicted either way. *)
Fetch == /\ pipe1 = << >> /\ fpc <= End
         /\ \E next \in IF Kind(fpc) = "BRANCH" THEN {fpc + 1, fpc + 2} ELSE {fpc + 1} :
              /\ pipe1' = <<[pc |-> fpc, e |-> eEpoch, w |-> wEpoch, next |-> next]>>
              /\ fpc' = next
         /\ UNCHANGED <<prog, epochs, regs, s3, s5, csr, mip, ints, apc, last>>

(***************************************************************************)
(* decode_and_opfetch, in a clock with a redirect or without.              *)
(***************************************************************************)
CanDecode == ~rg_stall /\ ~rg_wfi /\ pipe1 # << >> /\ Len(s3) < S3Depth

(* decoder_func: the type the packet is given. *)
Decoded(p) == IF rg_microtrap THEN "RERUN"
              ELSE IF mip /\ Kind(p) # "WFI" THEN "INTERRUPT"
              ELSE Kind(p)

Live == pipe1[1].e = eEpoch /\ pipe1[1].w = wEpoch

(* What it writes: <<rg_stall, rg_wfi, rg_microtrap, packets for stage3>>. *)
bug_decode_ignores_flush(flush) ==
  LET d == Decoded(pipe1[1].pc)
  IN  IF ~Live THEN <<rg_stall, rg_wfi, rg_microtrap, << >> >>
      ELSE <<d \in {"RERUN", "INTERRUPT", "ILL"}, d = "WFI",
             d # "RERUN" /\ Kind(pipe1[1].pc) = "CSR",
             <<[pc |-> pipe1[1].pc, e |-> eEpoch, w |-> wEpoch,
                next |-> pipe1[1].next, type |-> d, csr |-> csr]>> >>
bug_decode_no_microtrap(flush) ==
  LET d == Decoded(pipe1[1].pc)
  IN  IF ~Live THEN <<rg_stall, rg_wfi, rg_microtrap, << >> >>
      ELSE <<d \in {"RERUN", "INTERRUPT", "ILL"} /\ ~flush, d = "WFI" /\ ~flush, FALSE,
             <<[pc |-> pipe1[1].pc, e |-> eEpoch, w |-> wEpoch,
                next |-> pipe1[1].next, type |-> d, csr |-> csr]>> >>
DecodeWrites(flush) ==
  LET d == Decoded(pipe1[1].pc)
  IN  IF ~Live THEN <<rg_stall, rg_wfi, rg_microtrap, << >> >>
      ELSE <<d \in {"RERUN", "INTERRUPT", "ILL"} /\ ~flush,
             d = "WFI" /\ ~flush,
             d # "RERUN" /\ Kind(pipe1[1].pc) = "CSR" /\ ~flush,
             <<[pc |-> pipe1[1].pc, e |-> eEpoch, w |-> wEpoch,
                next |-> pipe1[1].next, type |-> d, csr |-> csr]>> >>

decode_and_opfetch ==
  /\ CanDecode
  /\ LET r == DecodeWrites(FALSE)
     IN  /\ rg_stall' = r[1] /\ rg_wfi' = r[2] /\ rg_microtrap' = r[3]
         /\ s3' = s3 \o r[4]
  /\ pipe1' = << >>
  /\ UNCHANGED <<prog, fpc, epochs, s5, csr, mip, ints, apc, last>>

rl_wait_for_interrupt == /\ rg_wfi /\ mip /\ rg_wfi' = FALSE
                         /\ UNCHANGED <<prog, fpc, pipe1, epochs, rg_stall, rg_microtrap,
                                        s3, s5, csr, mip, ints, apc, last>>

(***************************************************************************)
(* Stage3: drop, issue, and redirect after a wrong guess.                  *)
(***************************************************************************)
epochs_match == s3[1].e = eEpoch /\ s3[1].w = wEpoch

rl_drop_instr == /\ s3 # << >> /\ ~epochs_match /\ s3' = Tail(s3)
                 /\ UNCHANGED <<prog, fpc, pipe1, epochs, regs, s5, csr, mip, ints, apc, last>>

Guessed == s3[1].type # "BRANCH" \/ s3[1].next = After(s3[1].pc)
CanIssue == s3 # << >> /\ epochs_match /\ Len(s5) < S5Depth

Issue == /\ CanIssue /\ Guessed
         /\ s3' = Tail(s3) /\ s5' = Append(s5, s3[1])
         /\ UNCHANGED <<prog, fpc, pipe1, epochs, regs, csr, mip, ints, apc, last>>

(***************************************************************************)
(* Stage5.  Committing a trap, a rerun or a faulting instruction redirects.*)
(***************************************************************************)
Commits == s5 # << >> /\ s5[1].w = rg_epoch
Redirects == s5[1].type \in {"RERUN", "INTERRUPT", "ILL", "FAULT"}
bug_rerun_skips(pkt) == IF pkt.type = "INTERRUPT" THEN pkt.pc ELSE pkt.pc + 1
newpc(pkt) == IF pkt.type \in {"RERUN", "INTERRUPT"} THEN pkt.pc ELSE pkt.pc + 1

Writeback ==
  /\ s5 # << >> /\ (Commits => ~Redirects)
  /\ s5' = Tail(s5)
  /\ IF Commits
       THEN /\ apc' = After(s5[1].pc) /\ last' = s5[1].pc
            /\ csr' = IF s5[1].type = "CSR" THEN csr + 1 ELSE csr
       ELSE UNCHANGED <<apc, last, csr>>
  /\ UNCHANGED <<prog, fpc, pipe1, epochs, regs, s3, mip, ints>>

(***************************************************************************)
(* A clock with a redirect from stage3 (x), stage5 (w) or both, in which   *)
(* stage2 may decode as well (d).  Stage5's pc wins.  ma_clear_stall is    *)
(* ready only under rg_stall, so rg_microtrap alone survives a redirect.   *)
(***************************************************************************)
Flush(x, w, d) ==
  /\ x => CanIssue /\ ~Guessed
  /\ w => Commits /\ Redirects
  /\ d => CanDecode
  /\ LET r == IF d THEN DecodeWrites(TRUE)
              ELSE IF rg_stall THEN <<FALSE, FALSE, FALSE, << >> >>
              ELSE <<FALSE, FALSE, rg_microtrap, << >> >>
     IN  /\ rg_stall' = r[1] /\ rg_wfi' = r[2] /\ rg_microtrap' = r[3]
         /\ s3' = (IF x THEN Tail(s3) ELSE s3) \o r[4]
  /\ pipe1' = IF d THEN << >> ELSE pipe1
  /\ s5' = (IF w THEN Tail(s5) ELSE s5) \o (IF x THEN <<s3[1]>> ELSE << >>)
  /\ fpc' = IF w THEN newpc(s5[1]) ELSE After(s3[1].pc)
  /\ eEpoch' = IF x THEN 1 - eEpoch ELSE eEpoch
  /\ wEpoch' = IF w THEN 1 - wEpoch ELSE wEpoch
  /\ rg_epoch' = IF w THEN 1 - rg_epoch ELSE rg_epoch
  /\ mip' = (mip /\ ~(w /\ s5[1].type = "INTERRUPT"))
  /\ csr' = IF w /\ s5[1].type # "RERUN" THEN csr + 1 ELSE csr   \* mav_upd_on_trap
  /\ IF w /\ s5[1].type \in {"ILL", "FAULT"} THEN apc' = s5[1].pc + 1 /\ last' = s5[1].pc
     ELSE UNCHANGED <<apc, last>>
  /\ UNCHANGED <<prog, ints>>

Interrupt == /\ ~mip /\ ints < MaxInt /\ mip' = TRUE /\ ints' = ints + 1
             /\ UNCHANGED <<prog, fpc, pipe1, epochs, regs, s3, s5, csr, apc, last>>

exe_flush == \E d \in BOOLEAN : Flush(TRUE, FALSE, d)
wb_flush == \E x, d \in BOOLEAN : Flush(x, TRUE, d)

Next == \/ Fetch \/ decode_and_opfetch \/ rl_wait_for_interrupt
        \/ rl_drop_instr \/ Issue \/ Writeback \/ exe_flush \/ wb_flush
        \/ Interrupt

Spec == Init /\ [][Next]_vars

(* Every rule that stays ready fires; devices need not interrupt. *)
Fairness == /\ WF_vars(Fetch) /\ WF_vars(decode_and_opfetch) /\ WF_vars(rl_wait_for_interrupt)
            /\ WF_vars(rl_drop_instr) /\ WF_vars(Issue) /\ WF_vars(Writeback)
            /\ WF_vars(exe_flush) /\ WF_vars(wb_flush)
FairSpec == Spec /\ Fairness

(***************************************************************************)
(* Properties                                                              *)
(***************************************************************************)
(* What stage5 commits, reruns or traps on is always the next instruction  *)
(* of the program: a rerun repeats its instruction, none is lost or        *)
(* retired twice, whatever was redirected on the way.                      *)
RetiresProgram == Commits => s5[1].pc = apc

(* No instruction commits that was decoded under control state an older    *)
(* instruction has changed since (rg_microtrap).                           *)
DecodedFresh == Commits /\ s5[1].type # "RERUN" => s5[1].csr = csr

(* A WFI of the program's own, with no interrupt pending, may wait for ever. *)
Waiting == rg_wfi /\ ~mip /\ Kind(last) = "WFI" /\ last = apc - 1

(* The program advances, through reruns and stalls left by instructions of *)
(* a wrong path, unless it waits in a WFI of its own with no interrupt.    *)
Advances == \A p \in 1 .. N : apc = p ~> (apc # p \/ Waiting)
=============================================================================
