------------------------------ MODULE MCTestEnv ------------------------------
(***************************************************************************)
(* The test environments for TLC: the supervisor of env/v (unit "vm"), the *)
(* string library it is linked with (unit "strings"), and the simulation   *)
(* of one test program (unit "harness").  They run on different machines   *)
(* or at different times, so a behaviour exercises one of the three.       *)
(***************************************************************************)
EXTENDS Vm, Output

CONSTANTS Base, WordSize, Size,                     \* Strings
          TxDepth, FfDepth, SigWords, Junk          \* Harness

ASSUME TestEnvAssumption ==
  /\ Base \in Nat \ {0, 1} /\ WordSize \in {2, 4, 8} /\ Size \in Nat \ {0}
  /\ StrLen \in Nat /\ TxDepth \in Nat \ {0} /\ FfDepth \in Nat \ {0}
  /\ SigWords \subseteq Nat

(* The LFSR visits every frame before it repeats, from whichever it starts *)
(* with, at the width of the instance and at the one the environment is    *)
(* built with (riscv_test.h, MAX_TEST_PAGES 63).                           *)
ASSUME LfsrPeriod ==
  \A w \in {W, 6} : \A start \in 1 .. 2^w - 1 :
    {Random(w, start)[n] : n \in 0 .. 2^w - 2} = 1 .. 2^w - 1

VARIABLES unit,
          m, call,                                  \* Strings
          t, CLK, RST_N, hpc, k, j, mhpmevent, tx, wq,
          rg_start, rg_start_address, rg_end_address, rg_total_count, rg_cnt,
          reads, resps                              \* Harness

(* What atol is given: spaces, a sign or none, up to three digits. *)
Texts == {SubSeq(<<32, 32>>, 1, p[1]) \o p[2] \o p[3] :
            p \in (0 .. 2) \X {<< >>, <<43>>, <<45>>}
                           \X UNION {[1 .. n -> {48, 55, 57}] : n \in 0 .. 3}}

Str == INSTANCE Strings
Sim == INSTANCE Harness WITH pc <- hpc

str_vars == <<m, call>>
sim_vars == <<t, CLK, RST_N, finished, halt, sig, hpc, k, j, mhpmevent, tx, printed, wq,
              rg_start, rg_start_address, rg_end_address, rg_total_count, rg_cnt,
              reads, resps, dumped, bus_error>>

(* The two that do not run: a supervisor whose test has not begun, strings *)
(* nobody uses, a simulation that is over.                                 *)
MCInit == /\ unit \in {"vm", "strings", "harness"}
          /\ Init
          /\ unit # "vm" => mem = [q \in Phys |-> 0] /\ node[1].addr = MAX_TEST_PAGES + 1
          /\ IF unit = "strings" THEN Str!Init
             ELSE m = [a \in 0 .. Size - 1 |-> 0] /\ call = Str!None
          /\ IF unit = "harness" THEN Sim!Init
             ELSE /\ finished = TRUE /\ halt = "riscv_test" /\ sig = 0 /\ hpc = "end"
                  /\ t = 110 /\ CLK = 0 /\ RST_N = 1 /\ k = 1 /\ j = 4
                  /\ mhpmevent = [c \in 3 .. 31 |-> 0]
                  /\ tx = << >> /\ printed = << >> /\ wq = << >>
                  /\ rg_start = FALSE /\ rg_start_address = 7 /\ rg_end_address = 7
                  /\ rg_total_count = 0 /\ rg_cnt = 5
                  /\ reads = << >> /\ resps = << >> /\ dumped = << >> /\ bus_error = FALSE

MCNext == \/ unit = "vm" /\ Next /\ UNCHANGED <<unit, str_vars, sim_vars>>
          \/ unit = "strings" /\ Str!Next /\ UNCHANGED <<unit, vars, sim_vars>>
          \/ unit = "harness" /\ Sim!Next /\ UNCHANGED <<unit, vars, str_vars>>

MCSpec == /\ MCInit /\ [][MCNext]_<<unit, vars, str_vars, sim_vars>>
          /\ Fairness /\ Sim!Fairness

(* Strings!LibraryCorrect: memcpy, memset and strcpy write the bytes they  *)
(* should and no other, memcmp and strcmp order by the first byte that     *)
(* differs, strlen counts, atol returns the number that a text of spaces,  *)
(* a sign or none and digits denotes; whichever loop the alignment selects *)
(* (string.c).                                                             *)
LibraryCorrect == Str!LibraryCorrect

(* Harness!SimulationEnds: every simulation ends.                          *)
SimulationEnds == Sim!SimulationEnds
=============================================================================
