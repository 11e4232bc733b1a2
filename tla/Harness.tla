------------------------------ MODULE Harness --------------------------------
(***************************************************************************)
(* A test program on the simulated SoC: the simulation loop with its clock *)
(* and reset (sim_main.cpp), what the program does at its start and its    *)
(* end (compliance_model.h, env/p/riscv_test.h), the UART it prints to,    *)
(* and the device that dumps the signature and stops the simulation        *)
(* (sign_dump.bsv).  Addresses count words; of the words dumped only the   *)
(* addresses are kept, so that the fence.i before the stores, which is     *)
(* about their contents, does not appear.                                  *)
(***************************************************************************)
EXTENDS Output

CONSTANTS TxDepth,     \* characters the UART holds
          FfDepth,     \* reads the dump keeps in flight; 8 in sign_dump.bsv
          SigWords,    \* lengths of the signature, in words
          Junk         \* what a register may hold before the reset

VARIABLES t, CLK, RST_N,                          \* sim_main
          pc, k, j, mhpmevent,                    \* the program
          tx,                                     \* the UART
          wq, rg_start, rg_start_address, rg_end_address, rg_total_count, rg_cnt,
          reads, resps                            \* sign_dump

sim  == <<t, CLK, RST_N>>
cpu  == <<pc, k, j, mhpmevent>>
uart == <<tx, printed>>
dump == <<wq, rg_start, rg_start_address, rg_end_address, rg_total_count, rg_cnt,
          reads, resps, dumped, bus_error, finished>>
vars == <<sim, halt, sig, cpu, uart, dump>>

(* The stores that end the program, by the offset they write. *)
Stores == IF halt = "rvmodel" THEN <<12, 0, 8, 12>>     \* RVMODEL_HALT
                              ELSE <<0, 8, 12>>         \* RVTEST_CODE_BEGIN, shakti_end

(* A compliance test sets up and prints first; a riscv_test.h one does not. *)
Entry == IF halt = "rvmodel" THEN "init" ELSE "store"

(* Verilated::randReset(2): registers start with any value.  The first     *)
(* rising edge is one of the reset, which overwrites them all; of FIFOs    *)
(* that are not empty before it, one entry in each stands for all.         *)
Init == /\ t = 0 /\ CLK = 0 /\ RST_N = 1 /\ finished = FALSE
        /\ halt \in {"rvmodel", "riscv_test"} /\ sig \in SigWords
        /\ pc \in {"init", "put", "store"} /\ k = 1 /\ j \in 1 .. Len(Stores)
        /\ rg_start \in BOOLEAN /\ rg_start_address \in Junk /\ rg_end_address \in Junk
        /\ rg_total_count \in Junk /\ rg_cnt \in Junk
        /\ \E x \in Junk, full \in BOOLEAN :
             LET fifo == IF full THEN <<x>> ELSE << >>
             IN  /\ mhpmevent = [c \in 3 .. 31 |-> x]
                 /\ tx = fifo /\ wq = fifo /\ reads = fifo /\ resps = fifo
        /\ printed = << >> /\ dumped = << >> /\ bus_error = FALSE

Reset == /\ pc' = Entry /\ k' = 1 /\ j' = 1
         /\ mhpmevent' = [c \in 3 .. 31 |-> 0]
         /\ tx' = << >> /\ wq' = << >>
         /\ rg_start' = FALSE /\ rg_start_address' = 0 /\ rg_end_address' = 0
         /\ rg_total_count' = 0 /\ rg_cnt' = 0
         /\ reads' = << >> /\ resps' = << >>
         /\ UNCHANGED <<printed, dumped, bus_error, finished>>

(***************************************************************************)
(* The program, one instruction group at a time.                           *)
(***************************************************************************)
RVMODEL_IO_INIT == /\ pc = "init" /\ pc' = "char"
                   /\ mhpmevent' = [c \in 3 .. 31 |-> c - 2]
                   /\ UNCHANGED <<k, j, uart, dump>>

(* FN_WriteStr: bit 1 of the status tells that the UART has room. *)
NextChar == /\ pc = "char"
            /\ pc' = IF k > StrLen THEN "uart_end" ELSE "poll"
            /\ UNCHANGED <<k, j, mhpmevent, uart, dump>>
PollRoom == /\ pc = "poll" /\ Len(tx) < TxDepth
            /\ pc' = "put" /\ UNCHANGED <<k, j, mhpmevent, uart, dump>>
PutChar == /\ pc = "put"
           /\ tx' = IF Len(tx) < TxDepth THEN Append(tx, k) ELSE tx
           /\ k' = k + 1
           /\ pc' = "char" /\ UNCHANGED <<j, mhpmevent, printed, dump>>

(* RVMODEL_HALT: bit 0 tells that everything is sent; then the stores. *)
PollSent == /\ pc = "uart_end" /\ tx = << >>
            /\ pc' = "store" /\ UNCHANGED <<k, j, mhpmevent, uart, dump>>
Store == /\ pc = "store" /\ Len(wq) < 2
         /\ wq' = Append(wq, Stores[j]) /\ j' = j + 1
         /\ pc' = IF j = Len(Stores) THEN "end" ELSE "store"
         /\ UNCHANGED <<k, mhpmevent, uart, rg_start, rg_start_address, rg_end_address,
                        rg_total_count, rg_cnt, reads, resps, dumped, bus_error, finished>>

Program == RVMODEL_IO_INIT \/ NextChar \/ PollRoom \/ PutChar \/ PollSent \/ Store

Transmit == /\ tx # << >>
            /\ printed' = Append(printed, Head(tx)) /\ tx' = Tail(tx)
            /\ UNCHANGED <<cpu, dump>>

(***************************************************************************)
(* The rules of sign_dump, and the memory it reads.                        *)
(***************************************************************************)
open_file == /\ rg_cnt < 5 /\ rg_cnt' = rg_cnt + 1
             /\ UNCHANGED <<cpu, uart, wq, rg_start, rg_start_address, rg_end_address,
                            rg_total_count, reads, resps, dumped, bus_error, finished>>

Configure(o) ==
  /\ wq' = Tail(wq)
  /\ rg_start_address' = IF o = 0 THEN Begin ELSE rg_start_address
  /\ rg_end_address' = IF o = 8 THEN Begin + sig ELSE rg_end_address
  /\ rg_total_count' = IF o = 8 THEN Begin + sig - rg_start_address ELSE rg_total_count
  /\ rg_start' = (rg_start \/ (o = 8 /\ rg_start_address # Begin + sig))
  /\ finished' = (o = 12)
  /\ UNCHANGED <<cpu, uart, rg_cnt, reads, resps, dumped, bus_error>>

bug_configure_any_time == wq # << >> /\ Configure(Head(wq))
configure_registers == ~rg_start /\ wq # << >> /\ Configure(Head(wq))

send_request ==
  /\ rg_start /\ rg_start_address < rg_end_address /\ Len(reads) + Len(resps) < FfDepth
  /\ reads' = Append(reads, rg_start_address)
  /\ rg_start_address' = rg_start_address + 1
  /\ UNCHANGED <<cpu, uart, wq, rg_start, rg_end_address, rg_total_count, rg_cnt, resps,
                 dumped, bus_error, finished>>

Memory == /\ reads # << >>
          /\ \E ok \in BOOLEAN : resps' = Append(resps, [a |-> Head(reads), ok |-> ok])
          /\ reads' = Tail(reads)
          /\ UNCHANGED <<cpu, uart, wq, rg_start, rg_start_address, rg_end_address,
                         rg_total_count, rg_cnt, dumped, bus_error, finished>>

Receive(last) ==
  /\ rg_cnt >= 5 /\ rg_start /\ resps # << >>
  /\ resps' = Tail(resps) /\ dumped' = Append(dumped, Head(resps).a)
  /\ rg_total_count' = rg_total_count - 1
  /\ bus_error' = ~Head(resps).ok /\ finished' = ~Head(resps).ok
  /\ rg_start' = (rg_total_count # last)
  /\ UNCHANGED <<cpu, uart, wq, rg_start_address, rg_end_address, rg_cnt, reads>>

bug_count_to_zero == Receive(0)
receive_response == Receive(1)

Soc == \/ Program \/ Transmit \/ Memory
       \/ open_file \/ configure_registers \/ send_request \/ receive_response

(***************************************************************************)
(* The simulation loop.  What is clocked moves on a rising edge: a rule    *)
(* that is ready may fire, none on a cycle of latency.  t counts main_time *)
(* and, after the reset, only its phase.                                   *)
(***************************************************************************)
in_reset(u) == u > 1 /\ u < 107
Loop == /\ ~finished
        /\ t' = IF t = 119 THEN 110 ELSE t + 1
        /\ CLK' = IF t' % 10 = 5 THEN 1 ELSE IF t' % 10 = 0 THEN 0 ELSE CLK
        /\ RST_N' = IF in_reset(t') THEN 0 ELSE 1
        /\ UNCHANGED <<halt, sig>>
Rising == CLK = 0 /\ CLK' = 1

Between == Loop /\ ~Rising /\ UNCHANGED <<cpu, uart, dump>>
ResetEdge == Loop /\ Rising /\ RST_N' = 0 /\ Reset
ClockEdge == Loop /\ Rising /\ RST_N' = 1 /\ Soc
IdleEdge == Loop /\ Rising /\ RST_N' = 1 /\ UNCHANGED <<cpu, uart, dump>>
Exit == finished /\ UNCHANGED vars

Next == Between \/ ResetEdge \/ ClockEdge \/ IdleEdge \/ Exit

Spec == Init /\ [][Next]_vars

(* The loop runs; a latency ends. *)
Fairness == WF_vars(Between \/ ResetEdge \/ IdleEdge) /\ SF_vars(ClockEdge)

(* A simulation ends, whatever the length of the signature. *)
SimulationEnds == <>finished
=============================================================================
