---------------------------- MODULE HarnessProofs ----------------------------
(***************************************************************************)
(* What holds of Harness for every text, every signature, every depth of   *)
(* the UART and every number of reads in flight: when the simulation       *)
(* stops, what should have been written was.                               *)
(*                                                                         *)
(* The clock is a function of t, and the only rising edge out of reset is  *)
(* that from 114 to 115; before it nothing is printed or dumped, whatever  *)
(* the registers held.  From the first edge in reset on, the text printed  *)
(* and the text in the UART are the characters put so far, the stores in   *)
(* wq are those after the ones the device has taken, and the words dumped, *)
(* answered and asked for are the signature up to rg_start_address.        *)
(***************************************************************************)
EXTENDS Harness, Lemmas

TimeInv == t \in 0 .. 119 /\ CLK \in {0, 1} /\ (CLK = 1 <=> t % 10 >= 5)

(* Nothing has come out yet.                                               *)
Silent == printed = <<>> /\ dumped = <<>>

RespSet == [a : Nat, ok : BOOLEAN]
Types ==
    /\ halt \in {"rvmodel", "riscv_test"} /\ sig \in Nat
    /\ k \in Nat /\ j \in 1 .. 5
    /\ tx \in Seq(Nat) /\ printed \in Seq(Nat) /\ wq \in Seq(Nat)
    /\ rg_start \in BOOLEAN /\ rg_start_address \in Nat /\ rg_end_address \in Nat
    /\ rg_total_count \in Int
    /\ reads \in Seq(Nat) /\ resps \in Seq(RespSet) /\ dumped \in Seq(Nat)

(* A compliance test has put the characters before the k-th, and polls.    *)
Text ==
    /\ k \in 1 .. (StrLen + 1) /\ Len(printed) + Len(tx) = k - 1
    /\ \A i \in 1 .. Len(printed) : printed[i] = i
    /\ \A i \in 1 .. Len(tx) : tx[i] = Len(printed) + i
    /\ pc \in {"poll", "put"} => k <= StrLen
    /\ pc = "put" => Len(tx) < TxDepth
    /\ pc \in {"uart_end", "store", "end"} => k = StrLen + 1
    /\ pc \in {"store", "end"} => tx = <<>>
    /\ pc \in {"init", "char", "poll", "put", "uart_end", "store", "end"}

(* The device has taken that many of the stores; wq holds the next ones.   *)
Taken == (j - 1) - Len(wq)
Stopping ==
    /\ pc \notin {"store", "end"} => j = 1
    /\ pc = "store" => j <= Len(Stores)
    /\ Len(wq) <= j - 1
    /\ \A i \in 1 .. Len(wq) : wq[i] = Stores[Taken + i]

(* The dump, once it was started.                                          *)
Dumping ==
    /\ rg_end_address = Begin + sig /\ rg_start_address <= rg_end_address
    /\ Len(dumped) + Len(resps) + Len(reads) = rg_start_address - Begin
    /\ \A i \in 1 .. Len(dumped) : dumped[i] = Begin + i - 1
    /\ \A i \in 1 .. Len(resps) : resps[i].a = Begin + Len(dumped) + i - 1
    /\ \A i \in 1 .. Len(reads) : reads[i] = Begin + Len(dumped) + Len(resps) + i - 1
    /\ rg_total_count = sig - Len(dumped)
    /\ rg_start <=> Len(dumped) # sig

NoDump == ~rg_start /\ dumped = <<>> /\ reads = <<>> /\ resps = <<>>

Device ==
    \/ halt = "rvmodel" /\ Text /\ Taken = 0 /\ NoDump
    \/ /\ halt = "riscv_test" /\ pc \in {"store", "end"}
       /\ \/ Taken = 0 /\ NoDump
          \/ Taken = 1 /\ NoDump /\ rg_start_address = Begin
          \/ Taken = 2 /\ Dumping

Running == Types /\ Stopping /\ Device

IInv ==
    /\ TimeInv
    /\ finished => OutputComplete
    /\ ~finished => /\ t < 110 => Silent
                    /\ halt \in {"rvmodel", "riscv_test"} /\ sig \in Nat
                    /\ 5 <= t => Running

(***************************************************************************)
(* The clock.                                                              *)
(***************************************************************************)
LEMMA Phase ==
    ASSUME NEW u \in 0 .. 119, u % 10 = 5 PROVE u # 110 /\ ((1 < u /\ u < 107) \/ u = 115)
<1>1. u = 10 * (u \div 10) + 5 /\ u \div 10 \in 0 .. 11
  OBVIOUS
<1> QED
  BY <1>1

LEMMA LoopFacts ==
    ASSUME TimeInv, Loop
    PROVE  /\ TimeInv' /\ ~finished /\ halt' = halt /\ sig' = sig
           /\ Rising /\ RST_N' = 1 => t = 114 /\ t' = 115
           /\ Rising /\ RST_N' = 0 => t < 110 /\ t' < 110
           /\ ~Rising => (5 <= t' => 5 <= t) /\ (t' < 110 => t < 110)
<1>1. /\ t \in 0 .. 119 /\ CLK \in {0, 1} /\ (CLK = 1 <=> t % 10 >= 5)
      /\ t' = (IF t = 119 THEN 110 ELSE t + 1)
      /\ CLK' = (IF t' % 10 = 5 THEN 1 ELSE IF t' % 10 = 0 THEN 0 ELSE CLK)
      /\ RST_N' = (IF t' > 1 /\ t' < 107 THEN 0 ELSE 1)
  BY DEF TimeInv, Loop, in_reset
<1>2. t' \in 0 .. 119
  BY <1>1
<1>3. \/ t % 10 < 9 /\ t' % 10 = (t % 10) + 1
      \/ t % 10 = 9 /\ t' % 10 = 0
  BY <1>1
<1>4. CLK' \in {0, 1} /\ (CLK' = 1 <=> t' % 10 >= 5)
  BY <1>1, <1>2, <1>3
<1>5. Rising <=> t' % 10 = 5
  BY <1>1, <1>2, <1>3, <1>4 DEF Rising
<1>6. t' % 10 = 5 => t' # 110 /\ ((1 < t' /\ t' < 107) \/ t' = 115)
  BY <1>2, Phase
<1> QED
  BY <1>1, <1>2, <1>4, <1>5, <1>6 DEF TimeInv, Loop

LEMMA StoresFacts ==
    /\ halt = "rvmodel" => Len(Stores) = 4 /\ Stores[1] = 12
    /\ halt = "riscv_test" => /\ Len(Stores) = 3 /\ Stores[1] = 0 /\ Stores[2] = 8
                              /\ Stores[3] = 12
    /\ halt \in {"rvmodel", "riscv_test"} => \A i \in 1 .. Len(Stores) : Stores[i] \in Nat
  BY DEF Stores

LEMMA Lengths ==
    ASSUME Types
    PROVE  /\ Len(tx) \in Nat /\ Len(printed) \in Nat /\ Len(wq) \in Nat /\ Len(reads) \in Nat
           /\ Len(resps) \in Nat /\ Len(dumped) \in Nat
  BY LenProperties DEF Types

LEMMA Empty ==
    ASSUME NEW E PROVE <<>> \in Seq(E) /\ Len(<<>>) = 0
  OBVIOUS

LEMMA LenZero ==
    ASSUME NEW E, NEW s \in Seq(E), Len(s) = 0 PROVE s = <<>>
  BY EmptySeq

(* Reset puts everything into its first state.                             *)
LEMMA ResetRuns ==
    ASSUME StrLen \in Nat, Silent, halt \in {"rvmodel", "riscv_test"}, sig \in Nat,
           Reset, halt' = halt, sig' = sig
    PROVE  Running' /\ Silent' /\ finished' = finished
<1>1. /\ pc' = Entry /\ tx' = <<>> /\ wq' = <<>> /\ rg_start' = FALSE
      /\ reads' = <<>> /\ resps' = <<>> /\ printed' = <<>> /\ dumped' = <<>>
      /\ finished' = finished
  BY Zenon DEF Reset, Silent
<1>0. k' = 1 /\ j' = 1 /\ rg_start_address' = 0 /\ rg_end_address' = 0 /\ rg_total_count' = 0
  BY DEF Reset
<1>2. Len(Stores) \in {3, 4} /\ Stores' = Stores
  BY StoresFacts DEF Stores
<1>3. Types'
  <2>1. /\ tx' \in Seq(Nat) /\ printed' \in Seq(Nat) /\ wq' \in Seq(Nat)
        /\ reads' \in Seq(Nat) /\ resps' \in Seq(RespSet) /\ dumped' \in Seq(Nat)
    BY <1>1, Empty, Zenon
  <2>2. /\ k' \in Nat /\ j' \in 1 .. 5 /\ rg_start_address' \in Nat /\ rg_end_address' \in Nat
        /\ rg_total_count' \in Int
    BY <1>0
  <2>3. rg_start' \in BOOLEAN
    BY <1>1, Zenon
  <2> QED
    BY <2>1, <2>2, <2>3 DEF Types
<1>4. Len(tx') = 0 /\ Len(printed') = 0 /\ Len(wq') = 0
  BY <1>1, Empty
<1>5. Stopping' /\ Taken' = 0
  <2>1. Taken' = 0
    BY <1>0, <1>4 DEF Taken
  <2>2. j' = 1
    BY <1>0
  <2> QED
    BY <1>2, <1>4, <2>1, <2>2 DEF Stopping
<1>6. NoDump'
  BY <1>1 DEF NoDump
<1>7. CASE halt = "rvmodel"
  <2>1. pc' = "init"
    BY <1>1, <1>7 DEF Entry
  <2>2. Text'
    BY <1>0, <1>1, <1>4, <2>1 DEF Text
  <2> QED
    BY <1>1, <1>3, <1>5, <1>6, <1>7, <2>2 DEF Running, Device, Silent
<1>8. CASE halt = "riscv_test"
  <2>1. pc' = "store"
    BY <1>1, <1>8 DEF Entry
  <2> QED
    BY <1>1, <1>3, <1>5, <1>6, <1>8, <2>1 DEF Running, Device, Silent
<1> QED
  BY <1>7, <1>8

(***************************************************************************)
(* The program and the UART.                                               *)
(***************************************************************************)
LEMMA PollStep ==
    ASSUME StrLen \in Nat, TxDepth \in Nat, Running, UNCHANGED <<halt, sig>>,
           RVMODEL_IO_INIT \/ NextChar \/ PollRoom \/ PollSent
    PROVE  Running' /\ finished' = finished
<1>1. /\ UNCHANGED <<k, j, tx, printed, wq, rg_start, rg_start_address, rg_end_address,
                     rg_total_count, rg_cnt, reads, resps, dumped, bus_error, finished,
                     halt, sig>>
      /\ pc \in {"init", "char", "poll", "uart_end"}
      /\ \/ pc = "init" /\ pc' = "char"
         \/ pc = "char" /\ pc' = (IF k > StrLen THEN "uart_end" ELSE "poll")
         \/ pc = "poll" /\ Len(tx) < TxDepth /\ pc' = "put"
         \/ pc = "uart_end" /\ tx = <<>> /\ pc' = "store"
  BY DEF RVMODEL_IO_INIT, NextChar, PollRoom, PollSent, uart, dump
<1>2. Types /\ Stopping /\ Device
  BY DEF Running
<1>3. halt = "rvmodel" /\ Text /\ Taken = 0 /\ NoDump
  BY <1>1, <1>2 DEF Device
<1>4. Types'
  BY <1>1, <1>2 DEF Types, Stores
<1>5. Text'
  BY <1>1, <1>3 DEF Text
<1>6. Stopping' /\ Taken' = 0 /\ NoDump'
  <2>1. Len(Stores) = 4 /\ Stores' = Stores
    BY <1>1, <1>3, StoresFacts DEF Stores
  <2>2. Taken' = Taken /\ NoDump'
    BY <1>1, <1>3 DEF Taken, NoDump
  <2>3. j = 1
    BY <1>1, <1>2 DEF Stopping
  <2> QED
    BY <1>1, <1>2, <1>3, <2>1, <2>2, <2>3 DEF Stopping
<1> QED
  BY <1>1, <1>3, <1>4, <1>5, <1>6 DEF Running, Device

LEMMA PutStep ==
    ASSUME StrLen \in Nat, TxDepth \in Nat, Running, UNCHANGED <<halt, sig>>, PutChar
    PROVE  Running' /\ finished' = finished
<1>1. /\ UNCHANGED <<j, printed, wq, rg_start, rg_start_address, rg_end_address,
                     rg_total_count, rg_cnt, reads, resps, dumped, bus_error, finished,
                     halt, sig>>
      /\ pc = "put" /\ pc' = "char" /\ k' = k + 1
      /\ tx' = IF Len(tx) < TxDepth THEN Append(tx, k) ELSE tx
  BY DEF PutChar, dump
<1>2. Types /\ Stopping /\ Device
  BY DEF Running
<1>3. halt = "rvmodel" /\ Text /\ Taken = 0 /\ NoDump
  BY <1>1, <1>2 DEF Device
<1>4. k \in 1 .. StrLen /\ tx' = Append(tx, k) /\ k \in Nat /\ tx \in Seq(Nat)
  BY <1>1, <1>2, <1>3 DEF Text, Types
<1>5. /\ tx' \in Seq(Nat) /\ Len(tx) \in Nat /\ Len(tx') = Len(tx) + 1
      /\ \A i \in 1 .. Len(tx) : tx'[i] = tx[i]
      /\ tx'[Len(tx) + 1] = k
  BY <1>4, AppendFacts
<1>6. Types'
  BY <1>1, <1>2, <1>4, <1>5 DEF Types, Stores
<1>7. Text'
  <2>1. Len(printed) \in Nat /\ Len(printed) + Len(tx) = k - 1
    BY <1>2, <1>3, Lengths DEF Text
  <2>2. \A i \in 1 .. Len(tx') : tx'[i] = Len(printed) + i
    <3> SUFFICES ASSUME NEW i \in 1 .. Len(tx') PROVE tx'[i] = Len(printed) + i
      OBVIOUS
    <3>1. CASE i \in 1 .. Len(tx)
      BY <1>3, <1>5, <3>1 DEF Text
    <3>2. CASE i = Len(tx) + 1
      BY <1>4, <1>5, <2>1, <3>2
    <3> QED
      BY <1>5, <3>1, <3>2
  <2> QED
    BY <1>1, <1>3, <1>4, <1>5, <2>1, <2>2 DEF Text
<1>8. Stopping' /\ Taken' = 0 /\ NoDump'
  <2>1. Len(Stores) = 4 /\ Stores' = Stores
    BY <1>1, <1>3, StoresFacts DEF Stores
  <2>2. Taken' = Taken /\ NoDump'
    BY <1>1, <1>3 DEF Taken, NoDump
  <2>3. j = 1
    BY <1>1, <1>2 DEF Stopping
  <2> QED
    BY <1>1, <1>2, <1>3, <2>1, <2>2, <2>3 DEF Stopping
<1> QED
  BY <1>1, <1>3, <1>6, <1>7, <1>8 DEF Running, Device

LEMMA TransmitStep ==
    ASSUME StrLen \in Nat, TxDepth \in Nat, Running, UNCHANGED <<halt, sig>>, Transmit
    PROVE  Running' /\ finished' = finished
<1>1. /\ UNCHANGED <<pc, k, j, wq, rg_start, rg_start_address, rg_end_address,
                     rg_total_count, rg_cnt, reads, resps, dumped, bus_error, finished,
                     halt, sig>>
      /\ tx # <<>> /\ printed' = Append(printed, Head(tx)) /\ tx' = Tail(tx)
  BY DEF Transmit, cpu, dump
<1>2. Types /\ Stopping /\ Device
  BY DEF Running
<1>3. tx \in Seq(Nat) /\ printed \in Seq(Nat)
  BY <1>2 DEF Types
<1>4. /\ tx' \in Seq(Nat) /\ Len(tx) \in Nat \ {0} /\ Len(tx') = Len(tx) - 1
      /\ \A i \in 1 .. (Len(tx) - 1) : tx'[i] = tx[i + 1]
      /\ Head(tx) = tx[1] /\ tx[1] \in Nat
  BY <1>1, <1>3, TailFacts
<1>5. /\ printed' \in Seq(Nat) /\ Len(printed) \in Nat /\ Len(printed') = Len(printed) + 1
      /\ \A i \in 1 .. Len(printed) : printed'[i] = printed[i]
      /\ printed'[Len(printed) + 1] = tx[1]
  BY <1>1, <1>3, <1>4, AppendFacts
<1>6. Types'
  BY <1>1, <1>2, <1>4, <1>5 DEF Types, Stores
<1>7. Stopping' /\ Taken' = Taken /\ (NoDump => NoDump') /\ (Dumping => Dumping')
  BY <1>1, <1>2 DEF Stopping, Taken, Stores, NoDump, Dumping
<1>8. ASSUME halt = "rvmodel", Text PROVE Text'
  <2>1. tx[1] = Len(printed) + 1
    BY <1>4, <1>8 DEF Text
  <2>2. \A i \in 1 .. Len(printed') : printed'[i] = i
    <3> SUFFICES ASSUME NEW i \in 1 .. Len(printed') PROVE printed'[i] = i
      OBVIOUS
    <3>1. CASE i \in 1 .. Len(printed)
      BY <1>5, <1>8, <3>1 DEF Text
    <3>2. CASE i = Len(printed) + 1
      BY <1>5, <2>1, <3>2
    <3> QED
      BY <1>5, <3>1, <3>2
  <2>3. \A i \in 1 .. Len(tx') : tx'[i] = Len(printed') + i
    <3> SUFFICES ASSUME NEW i \in 1 .. Len(tx') PROVE tx'[i] = Len(printed') + i
      OBVIOUS
    <3>1. i \in 1 .. (Len(tx) - 1) /\ i + 1 \in 1 .. Len(tx)
      BY <1>4
    <3>2. tx[i + 1] = Len(printed) + (i + 1)
      BY <1>8, <3>1 DEF Text
    <3> QED
      BY <1>4, <1>5, <3>1, <3>2
  <2>4. Len(printed') + Len(tx') = k' - 1 /\ pc' \notin {"store", "end"}
    BY <1>1, <1>4, <1>5, <1>8 DEF Text
  <2> QED
    BY <1>1, <1>4, <1>8, <2>2, <2>3, <2>4 DEF Text
<1> QED
  BY <1>1, <1>2, <1>6, <1>7, <1>8 DEF Running, Device

LEMMA StoreStep ==
    ASSUME StrLen \in Nat, Running, UNCHANGED <<halt, sig>>, Store
    PROVE  Running' /\ finished' = finished
<1>1. /\ UNCHANGED <<k, tx, printed, rg_start, rg_start_address, rg_end_address,
                     rg_total_count, rg_cnt, reads, resps, dumped, bus_error, finished,
                     halt, sig>>
      /\ pc = "store" /\ wq' = Append(wq, Stores[j]) /\ j' = j + 1
      /\ pc' = IF j = Len(Stores) THEN "end" ELSE "store"
  BY DEF Store, uart
<1>2. Types /\ Stopping /\ Device
  BY DEF Running
<1>3. /\ j \in 1 .. Len(Stores) /\ Len(Stores) \in 1 .. 4 /\ Stores' = Stores
      /\ Stores[j] \in Nat /\ wq \in Seq(Nat) /\ Len(wq) <= j - 1
  <2>1. j \in 1 .. 5 /\ j <= Len(Stores) /\ wq \in Seq(Nat) /\ Len(wq) <= j - 1
    BY <1>1, <1>2 DEF Types, Stopping
  <2>2. halt \in {"rvmodel", "riscv_test"}
    BY <1>2 DEF Types
  <2>3. Len(Stores) \in 1 .. 4 /\ (\A i \in 1 .. Len(Stores) : Stores[i] \in Nat)
    BY <2>2, StoresFacts
  <2>4. Stores' = Stores
    BY <1>1 DEF Stores
  <2> QED
    BY <2>1, <2>3, <2>4
<1>4. /\ wq' \in Seq(Nat) /\ Len(wq) \in Nat /\ Len(wq') = Len(wq) + 1
      /\ \A i \in 1 .. Len(wq) : wq'[i] = wq[i]
      /\ wq'[Len(wq) + 1] = Stores[j]
  BY <1>1, <1>3, AppendFacts
<1>5. j' \in 1 .. 5 /\ pc' \in {"store", "end"} /\ (pc' = "store" => j' <= Len(Stores))
  BY <1>1, <1>3
<1>6. Types'
  BY <1>1, <1>2, <1>4, <1>5 DEF Types
<1>7. Taken \in Int /\ Taken' = Taken /\ Taken + Len(wq) + 1 = j
  BY <1>1, <1>3, <1>4 DEF Taken
<1>8. Stopping'
  <2>1. \A i \in 1 .. Len(wq') : wq'[i] = Stores[Taken + i]
    <3> SUFFICES ASSUME NEW i \in 1 .. Len(wq') PROVE wq'[i] = Stores[Taken + i]
      OBVIOUS
    <3>1. CASE i \in 1 .. Len(wq)
      BY <1>2, <1>4, <3>1 DEF Stopping
    <3>2. CASE i = Len(wq) + 1
      <4>1. Taken + i = j
        BY <1>4, <1>7, <3>2
      <4> QED
        BY <1>4, <3>2, <4>1
    <3> QED
      BY <1>4, <3>1, <3>2
  <2>2. Len(wq') <= j' - 1
    BY <1>1, <1>3, <1>4
  <2> QED
    BY <1>3, <1>5, <1>7, <2>1, <2>2 DEF Stopping
<1>9. (NoDump => NoDump') /\ (Dumping => Dumping')
  BY <1>1 DEF NoDump, Dumping
<1>10. ASSUME Text PROVE Text'
  BY <1>1, <1>5, <1>10 DEF Text
<1> QED
  BY <1>1, <1>2, <1>5, <1>6, <1>7, <1>8, <1>9, <1>10 DEF Running, Device

(***************************************************************************)
(* The device.                                                             *)
(***************************************************************************)
LEMMA OpenStep ==
    ASSUME Running, UNCHANGED <<halt, sig>>, open_file
    PROVE  Running' /\ finished' = finished
<1>1. UNCHANGED <<pc, k, j, tx, printed, wq, rg_start, rg_start_address, rg_end_address,
                  rg_total_count, reads, resps, dumped, bus_error, finished, halt, sig>>
  BY DEF open_file, cpu, uart
<1> QED
  BY <1>1 DEF Running, Types, Stopping, Taken, Stores, Device, Text, NoDump, Dumping

LEMMA ConfigureStep ==
    ASSUME StrLen \in Nat, sig \in Nat, Running, UNCHANGED <<halt, sig>>, configure_registers
    PROVE  (finished' => OutputComplete') /\ (~finished' => Running')
<1>1. /\ UNCHANGED <<pc, k, j, tx, printed, reads, resps, dumped, bus_error, halt, sig>>
      /\ wq # <<>> /\ wq' = Tail(wq) /\ ~rg_start
  BY DEF configure_registers, Configure, cpu, uart
<1>2. /\ rg_start_address' = IF Head(wq) = 0 THEN Begin ELSE rg_start_address
      /\ rg_end_address' = IF Head(wq) = 8 THEN Begin + sig ELSE rg_end_address
      /\ rg_total_count' = IF Head(wq) = 8 THEN Begin + sig - rg_start_address
                                           ELSE rg_total_count
      /\ rg_start' = (rg_start \/ (Head(wq) = 8 /\ rg_start_address # Begin + sig))
      /\ finished' = (Head(wq) = 12)
  BY DEF configure_registers, Configure
<1>3. Types /\ Stopping /\ Device
  BY DEF Running
<1>4. wq \in Seq(Nat) /\ j \in 1 .. 5 /\ Len(wq) <= j - 1
  BY <1>3 DEF Types, Stopping
<1>5. /\ wq' \in Seq(Nat) /\ Len(wq) \in Nat \ {0} /\ Len(wq') = Len(wq) - 1
      /\ \A i \in 1 .. (Len(wq) - 1) : wq'[i] = wq[i + 1]
      /\ Head(wq) = wq[1]
  BY <1>1, <1>4, TailFacts
<1>6. Taken \in 0 .. 4 /\ Taken' = Taken + 1 /\ Head(wq) = Stores[Taken + 1]
  <2>1. Taken \in 0 .. 4 /\ Taken' = Taken + 1
    BY <1>1, <1>4, <1>5 DEF Taken
  <2>2. wq[1] = Stores[Taken + 1]
    BY <1>3, <1>5 DEF Stopping
  <2> QED
    BY <1>5, <2>1, <2>2
<1>7. Stores' = Stores
  BY <1>1 DEF Stores
<1>8. Stopping'
  <2>1. \A i \in 1 .. Len(wq') : wq'[i] = Stores[Taken' + i]
    <3> SUFFICES ASSUME NEW i \in 1 .. Len(wq') PROVE wq'[i] = Stores[Taken' + i]
      OBVIOUS
    <3>1. i \in 1 .. (Len(wq) - 1) /\ i + 1 \in 1 .. Len(wq)
      BY <1>5
    <3>2. wq[i + 1] = Stores[Taken + (i + 1)]
      BY <1>3, <3>1 DEF Stopping
    <3>3. Taken + (i + 1) = Taken' + i
      BY <1>6, <3>1
    <3> QED
      BY <1>5, <3>1, <3>2, <3>3
  <2>2. Len(wq') <= j' - 1
    BY <1>1, <1>4, <1>5
  <2> QED
    BY <1>1, <1>3, <1>7, <2>1, <2>2 DEF Stopping
<1>9. Begin \in Nat /\ Begin + sig \in Nat
  BY DEF Begin
<1>10. Types'
  <2>1. /\ rg_start_address \in Nat /\ rg_end_address \in Nat /\ rg_total_count \in Int
    BY <1>3 DEF Types
  <2>2. /\ rg_start_address' \in Nat /\ rg_end_address' \in Nat /\ rg_total_count' \in Int
    BY <1>2, <1>9, <2>1
  <2>3. rg_start' \in BOOLEAN
    BY <1>2, <1>1
  <2> QED
    BY <1>1, <1>3, <1>5, <2>2, <2>3 DEF Types
<1>11. CASE halt = "rvmodel"
  <2>1. Text /\ NoDump /\ Taken = 0
    BY <1>3, <1>11 DEF Device
  <2>2. Head(wq) = 12
    BY <1>6, <1>11, <2>1, StoresFacts
  <2>3. pc \in {"store", "end"}
    BY <1>3, <1>4, <1>5 DEF Stopping
  <2>4. k = StrLen + 1 /\ tx = <<>>
    BY <2>1, <2>3 DEF Text
  <2>5. printed \in Seq(Nat) /\ Len(printed) = StrLen /\ Len(tx) = 0
    <3>1. Len(tx) = 0 /\ printed \in Seq(Nat) /\ Len(printed) \in Nat
      BY <1>3, <2>4, Empty, Lengths DEF Types
    <3> QED
      BY <2>1, <2>4, <3>1 DEF Text
  <2>6. printed = [n \in 1 .. StrLen |-> n]
    <3>1. printed = [n \in 1 .. StrLen |-> printed[n]]
      BY <2>5, SeqDef
    <3>2. \A n \in 1 .. StrLen : printed[n] = n
      BY <2>1, <2>5 DEF Text
    <3> QED
      BY <3>1, <3>2
  <2>7. dumped' = <<>>
    BY <1>1, <2>1 DEF NoDump
  <2> QED
    BY <1>1, <1>2, <1>11, <2>2, <2>6, <2>7 DEF OutputComplete, TextPrinted, DumpBeforeFinish
<1>12. CASE halt = "riscv_test" /\ Taken = 0 /\ NoDump /\ pc \in {"store", "end"}
  <2>1. Head(wq) = 0
    BY <1>6, <1>12, StoresFacts
  <2>2. rg_start_address' = Begin /\ ~rg_start' /\ ~finished' /\ Taken' = 1
    <3>1. rg_start_address' = Begin
      BY <1>2, <2>1
    <3>2. Taken' = 1
      BY <1>6, <1>12
    <3>3. Head(wq) # 8 /\ Head(wq) # 12
      BY <2>1
    <3>4. ~rg_start' /\ ~finished'
      BY <1>1, <1>2, <3>3
    <3> QED
      BY <3>1, <3>2, <3>4
  <2>3. NoDump'
    BY <1>1, <1>12, <2>2 DEF NoDump
  <2> QED
    BY <1>1, <1>8, <1>10, <1>12, <2>2, <2>3 DEF Running, Device
<1>13. CASE halt = "riscv_test" /\ Taken = 1 /\ NoDump /\ rg_start_address = Begin
            /\ pc \in {"store", "end"}
  <2>1. Head(wq) = 8
    BY <1>6, <1>13, StoresFacts
  <2>2. /\ rg_start_address' = Begin /\ rg_end_address' = Begin + sig
        /\ rg_total_count' = Begin + sig - Begin /\ (rg_start' <=> Begin # Begin + sig)
        /\ ~finished' /\ Taken' = 2
    <3>1. /\ rg_start_address' = Begin /\ rg_end_address' = Begin + sig
          /\ rg_total_count' = Begin + sig - Begin
      BY <1>2, <1>13, <2>1
    <3>2. Taken' = 2
      BY <1>6, <1>13
    <3>3. Head(wq) # 12
      BY <2>1
    <3>4. (rg_start' <=> Begin # Begin + sig) /\ ~finished'
      BY <1>1, <1>2, <1>13, <2>1, <3>3
    <3> QED
      BY <3>1, <3>2, <3>4
  <2>3. dumped' = <<>> /\ reads' = <<>> /\ resps' = <<>>
    BY <1>1, <1>13 DEF NoDump
  <2>4. Len(dumped') = 0 /\ Len(reads') = 0 /\ Len(resps') = 0
    BY <2>3, Empty
  <2>5. Dumping'
    BY <1>1, <1>9, <2>2, <2>4 DEF Dumping
  <2> QED
    BY <1>1, <1>8, <1>10, <1>13, <2>2, <2>5 DEF Running, Device
<1>14. CASE halt = "riscv_test" /\ Taken = 2 /\ Dumping
  <2>1. Head(wq) = 12
    BY <1>6, <1>14, StoresFacts
  <2>2. dumped \in Seq(Nat) /\ Len(dumped) = sig
    BY <1>1, <1>3, <1>14, Lengths DEF Dumping, Types
  <2>3. dumped = [n \in 1 .. sig |-> Begin + n - 1]
    <3>1. dumped = [n \in 1 .. sig |-> dumped[n]]
      BY <2>2, SeqDef
    <3>2. \A n \in 1 .. sig : dumped[n] = Begin + n - 1
      BY <1>14, <2>2 DEF Dumping
    <3> QED
      BY <3>1, <3>2
  <2> QED
    BY <1>1, <1>2, <1>14, <2>1, <2>3 DEF OutputComplete, TextPrinted, DumpBeforeFinish
<1> QED
  BY <1>3, <1>11, <1>12, <1>13, <1>14 DEF Device

LEMMA SendStep ==
    ASSUME sig \in Nat, Running, UNCHANGED <<halt, sig>>, send_request
    PROVE  Running' /\ finished' = finished
<1>1. /\ UNCHANGED <<pc, k, j, tx, printed, wq, rg_start, rg_end_address, rg_total_count,
                     resps, dumped, bus_error, finished, halt, sig>>
      /\ rg_start /\ rg_start_address < rg_end_address
      /\ reads' = Append(reads, rg_start_address) /\ rg_start_address' = rg_start_address + 1
  BY DEF send_request, cpu, uart
<1>2. Types /\ Stopping /\ Device
  BY DEF Running
<1>3. halt = "riscv_test" /\ pc \in {"store", "end"} /\ Taken = 2 /\ Dumping
  BY <1>1, <1>2 DEF Device, NoDump
<1>4. reads \in Seq(Nat) /\ rg_start_address \in Nat /\ rg_end_address \in Nat
  BY <1>2 DEF Types
<1>5. /\ reads' \in Seq(Nat) /\ Len(reads) \in Nat /\ Len(reads') = Len(reads) + 1
      /\ \A i \in 1 .. Len(reads) : reads'[i] = reads[i]
      /\ reads'[Len(reads) + 1] = rg_start_address
  BY <1>1, <1>4, AppendFacts
<1>6. Types'
  BY <1>1, <1>2, <1>4, <1>5 DEF Types
<1>7. Stopping' /\ Taken' = 2
  BY <1>1, <1>2, <1>3 DEF Stopping, Taken, Stores
<1>8. Dumping'
  <2>1. Len(dumped) \in Nat /\ Len(resps) \in Nat /\ Begin \in Nat
    BY <1>2, Lengths DEF Begin
  <2>2. Len(dumped) + Len(resps) + Len(reads) = rg_start_address - Begin
    BY <1>3 DEF Dumping
  <2>3. \A i \in 1 .. Len(reads') : reads'[i] = Begin + Len(dumped) + Len(resps) + i - 1
    <3> SUFFICES ASSUME NEW i \in 1 .. Len(reads')
                 PROVE  reads'[i] = Begin + Len(dumped) + Len(resps) + i - 1
      OBVIOUS
    <3>1. CASE i \in 1 .. Len(reads)
      BY <1>3, <1>5, <3>1 DEF Dumping
    <3>2. CASE i = Len(reads) + 1
      BY <1>4, <1>5, <2>1, <2>2, <3>2
    <3> QED
      BY <1>5, <3>1, <3>2
  <2>4. /\ Len(dumped) + Len(resps) + Len(reads') = rg_start_address' - Begin
        /\ rg_start_address' <= rg_end_address
    BY <1>1, <1>4, <1>5, <2>1, <2>2
  <2> QED
    BY <1>1, <1>3, <2>3, <2>4 DEF Dumping
<1> QED
  BY <1>1, <1>3, <1>6, <1>7, <1>8 DEF Running, Device

LEMMA MemoryStep ==
    ASSUME sig \in Nat, Running, UNCHANGED <<halt, sig>>, Memory
    PROVE  Running' /\ finished' = finished
<1>1. /\ UNCHANGED <<pc, k, j, tx, printed, wq, rg_start, rg_start_address, rg_end_address,
                     rg_total_count, dumped, bus_error, finished, halt, sig>>
      /\ reads # <<>> /\ reads' = Tail(reads)
  BY DEF Memory, cpu, uart
<1>2. Types /\ Stopping /\ Device
  BY DEF Running
<1>3. halt = "riscv_test" /\ pc \in {"store", "end"} /\ Taken = 2 /\ Dumping
  BY <1>1, <1>2 DEF Device, NoDump
<1>4. reads \in Seq(Nat) /\ resps \in Seq(RespSet)
  BY <1>2 DEF Types
<1>5. /\ reads' \in Seq(Nat) /\ Len(reads) \in Nat \ {0} /\ Len(reads') = Len(reads) - 1
      /\ \A i \in 1 .. (Len(reads) - 1) : reads'[i] = reads[i + 1]
      /\ Head(reads) = reads[1] /\ reads[1] \in Nat
  BY <1>1, <1>4, TailFacts
<1>6. PICK ok \in BOOLEAN : resps' = Append(resps, [a |-> Head(reads), ok |-> ok])
  BY DEF Memory
<1>7. PICK r \in RespSet : r.a = reads[1] /\ resps' = Append(resps, r)
  <2>1. [a |-> Head(reads), ok |-> ok] \in RespSet
    BY <1>5 DEF RespSet
  <2> QED
    BY <1>5, <1>6, <2>1
<1>8. /\ resps' \in Seq(RespSet) /\ Len(resps) \in Nat /\ Len(resps') = Len(resps) + 1
      /\ \A i \in 1 .. Len(resps) : resps'[i] = resps[i]
      /\ resps'[Len(resps) + 1] = r
  BY <1>4, <1>7, AppendFacts
<1>9. Types'
  BY <1>1, <1>2, <1>5, <1>8 DEF Types
<1>10. Stopping' /\ Taken' = 2
  BY <1>1, <1>2, <1>3 DEF Stopping, Taken, Stores
<1>11. Dumping'
  <2>1. Len(dumped) \in Nat /\ Begin \in Nat
    BY <1>2, Lengths DEF Begin
  <2>2. reads[1] = Begin + Len(dumped) + Len(resps)
    BY <1>3, <1>5, <1>8, <2>1 DEF Dumping
  <2>3. \A i \in 1 .. Len(resps') : resps'[i].a = Begin + Len(dumped) + i - 1
    <3> SUFFICES ASSUME NEW i \in 1 .. Len(resps')
                 PROVE  resps'[i].a = Begin + Len(dumped) + i - 1
      OBVIOUS
    <3>1. CASE i \in 1 .. Len(resps)
      BY <1>3, <1>8, <3>1 DEF Dumping
    <3>2. CASE i = Len(resps) + 1
      BY <1>7, <1>8, <2>1, <2>2, <3>2
    <3> QED
      BY <1>8, <3>1, <3>2
  <2>4. \A i \in 1 .. Len(reads') : reads'[i] = Begin + Len(dumped) + Len(resps') + i - 1
    <3> SUFFICES ASSUME NEW i \in 1 .. Len(reads')
                 PROVE  reads'[i] = Begin + Len(dumped) + Len(resps') + i - 1
      OBVIOUS
    <3>1. i \in 1 .. (Len(reads) - 1) /\ i + 1 \in 1 .. Len(reads)
      BY <1>5
    <3>2. reads[i + 1] = Begin + Len(dumped) + Len(resps) + (i + 1) - 1
      BY <1>3, <3>1 DEF Dumping
    <3> QED
      BY <1>5, <1>8, <2>1, <3>1, <3>2
  <2>5. Len(dumped) + Len(resps') + Len(reads') = rg_start_address - Begin
    BY <1>3, <1>5, <1>8, <2>1 DEF Dumping
  <2> QED
    BY <1>1, <1>3, <2>3, <2>4, <2>5 DEF Dumping
<1> QED
  BY <1>1, <1>3, <1>9, <1>10, <1>11 DEF Running, Device

LEMMA ReceiveStep ==
    ASSUME sig \in Nat, Running, UNCHANGED <<halt, sig>>, receive_response
    PROVE  (finished' => OutputComplete') /\ (~finished' => Running')
<1>1. /\ UNCHANGED <<pc, k, j, tx, printed, wq, rg_start_address, rg_end_address, reads,
                     halt, sig>>
      /\ rg_start /\ resps # <<>> /\ resps' = Tail(resps)
      /\ dumped' = Append(dumped, Head(resps).a)
  BY DEF receive_response, Receive, cpu, uart
<1>2. rg_total_count' = rg_total_count - 1 /\ rg_start' = (rg_total_count # 1)
  BY DEF receive_response, Receive
<1>3. finished' = bus_error'
  BY DEF receive_response, Receive
<1>4. Types /\ Stopping /\ Device
  BY DEF Running
<1>5. halt = "riscv_test" /\ pc \in {"store", "end"} /\ Taken = 2 /\ Dumping
  BY <1>1, <1>4 DEF Device, NoDump
<1>6. finished' => OutputComplete'
  BY <1>1, <1>3, <1>5 DEF OutputComplete, TextPrinted, DumpBeforeFinish
<1>7. resps \in Seq(RespSet) /\ dumped \in Seq(Nat) /\ rg_total_count \in Int
  BY <1>4 DEF Types
<1>8. /\ resps' \in Seq(RespSet) /\ Len(resps) \in Nat \ {0} /\ Len(resps') = Len(resps) - 1
      /\ \A i \in 1 .. (Len(resps) - 1) : resps'[i] = resps[i + 1]
      /\ Head(resps) = resps[1] /\ resps[1] \in RespSet
  BY <1>1, <1>7, TailFacts
<1>9. resps[1].a \in Nat
  BY <1>8 DEF RespSet
<1>10. /\ dumped' \in Seq(Nat) /\ Len(dumped) \in Nat /\ Len(dumped') = Len(dumped) + 1
       /\ \A i \in 1 .. Len(dumped) : dumped'[i] = dumped[i]
       /\ dumped'[Len(dumped) + 1] = resps[1].a
  BY <1>1, <1>7, <1>8, <1>9, AppendFacts
<1>11. Types'
  <2>1. rg_total_count' \in Int
    BY <1>2, <1>7
  <2>2. rg_start' \in BOOLEAN
    BY <1>2
  <2> QED
    BY <1>1, <1>4, <1>8, <1>10, <2>1, <2>2 DEF Types
<1>12. Stopping' /\ Taken' = 2
  BY <1>1, <1>4, <1>5 DEF Stopping, Taken, Stores
<1>13. Dumping'
  <2>1. Len(reads) \in Nat /\ Begin \in Nat
    BY <1>4, Lengths DEF Begin
  <2>2. resps[1].a = Begin + Len(dumped)
    BY <1>5, <1>8, <1>10, <2>1 DEF Dumping
  <2>3. \A i \in 1 .. Len(dumped') : dumped'[i] = Begin + i - 1
    <3> SUFFICES ASSUME NEW i \in 1 .. Len(dumped') PROVE dumped'[i] = Begin + i - 1
      OBVIOUS
    <3>1. CASE i \in 1 .. Len(dumped)
      BY <1>5, <1>10, <3>1 DEF Dumping
    <3>2. CASE i = Len(dumped) + 1
      BY <1>10, <2>1, <2>2, <3>2
    <3> QED
      BY <1>10, <3>1, <3>2
  <2>4. \A i \in 1 .. Len(resps') : resps'[i].a = Begin + Len(dumped') + i - 1
    <3> SUFFICES ASSUME NEW i \in 1 .. Len(resps')
                 PROVE  resps'[i].a = Begin + Len(dumped') + i - 1
      OBVIOUS
    <3>1. i \in 1 .. (Len(resps) - 1) /\ i + 1 \in 1 .. Len(resps)
      BY <1>8
    <3>2. resps[i + 1].a = Begin + Len(dumped) + (i + 1) - 1
      BY <1>5, <3>1 DEF Dumping
    <3> QED
      BY <1>8, <1>10, <2>1, <3>1, <3>2
  <2>5. Len(dumped') + Len(resps') = Len(dumped) + Len(resps)
    BY <1>8, <1>10
  <2>6. \A i \in 1 .. Len(reads) : reads[i] = Begin + Len(dumped') + Len(resps') + i - 1
    <3> SUFFICES ASSUME NEW i \in 1 .. Len(reads)
                 PROVE  reads[i] = Begin + Len(dumped') + Len(resps') + i - 1
      OBVIOUS
    <3>1. reads[i] = Begin + Len(dumped) + Len(resps) + i - 1
      BY <1>5 DEF Dumping
    <3> QED
      BY <1>8, <1>10, <2>1, <3>1
  <2>7. /\ Len(dumped') + Len(resps') + Len(reads) = rg_start_address - Begin
        /\ rg_end_address = Begin + sig /\ rg_start_address <= rg_end_address
    BY <1>5, <1>8, <1>10, <2>1, <2>5 DEF Dumping
  <2>8. rg_total_count' = sig - Len(dumped') /\ (rg_total_count # 1 <=> Len(dumped') # sig)
    BY <1>2, <1>5, <1>7, <1>10 DEF Dumping
  <2>9. rg_start' <=> Len(dumped') # sig
    BY <1>2, <2>8
  <2> QED
    BY <1>1, <2>3, <2>4, <2>6, <2>7, <2>8, <2>9 DEF Dumping
<1> QED
  BY <1>1, <1>5, <1>6, <1>11, <1>12, <1>13 DEF Running, Device

(***************************************************************************)
(* The simulation.                                                         *)
(***************************************************************************)
LEMMA SocStep ==
    ASSUME StrLen \in Nat, TxDepth \in Nat, sig \in Nat, Running, UNCHANGED <<halt, sig>>,
           ~finished, Soc
    PROVE  (finished' => OutputComplete') /\ (~finished' => Running')
<1>1. CASE RVMODEL_IO_INIT \/ NextChar \/ PollRoom \/ PollSent
  BY <1>1, PollStep
<1>2. CASE PutChar
  BY <1>2, PutStep
<1>3. CASE Store
  BY <1>3, StoreStep
<1>4. CASE Transmit
  BY <1>4, TransmitStep
<1>5. CASE Memory
  BY <1>5, MemoryStep
<1>6. CASE open_file
  BY <1>6, OpenStep
<1>7. CASE configure_registers
  BY <1>7, ConfigureStep
<1>8. CASE send_request
  BY <1>8, SendStep
<1>9. CASE receive_response
  BY <1>9, ReceiveStep
<1> QED
  BY <1>1, <1>2, <1>3, <1>4, <1>5, <1>6, <1>7, <1>8, <1>9 DEF Soc, Program

LEMMA StillRuns ==
    ASSUME UNCHANGED <<cpu, uart, dump, halt, sig>>
    PROVE  (Running => Running') /\ (Silent => Silent') /\ finished' = finished
<1>1. UNCHANGED <<pc, k, j, tx, printed, wq, rg_start, rg_start_address, rg_end_address,
                  rg_total_count, reads, resps, dumped, bus_error, finished, halt, sig>>
  BY DEF cpu, uart, dump
<1> QED
  BY <1>1 DEF Running, Types, Stopping, Taken, Stores, Device, Text, NoDump, Dumping, Silent

LEMMA InitInv == ASSUME SigWords \subseteq Nat, Init PROVE IInv
  BY DEF Init, IInv, TimeInv, Silent

LEMMA StepInv ==
    ASSUME StrLen \in Nat, TxDepth \in Nat, IInv, Next PROVE IInv'
<1>1. TimeInv
  BY DEF IInv
<1>2. CASE Exit
  BY <1>2 DEF Exit, vars, sim, cpu, uart, dump, IInv, TimeInv, OutputComplete, TextPrinted,
              DumpBeforeFinish
<1>3. ASSUME Loop
      PROVE  /\ TimeInv' /\ ~finished /\ UNCHANGED <<halt, sig>>
             /\ halt \in {"rvmodel", "riscv_test"} /\ sig \in Nat
             /\ t \in Nat /\ t' \in Nat /\ (t < 110 => Silent) /\ (5 <= t => Running)
             /\ Rising /\ RST_N' = 1 => t = 114 /\ t' = 115
             /\ Rising /\ RST_N' = 0 => t < 110 /\ t' < 110
             /\ ~Rising => (5 <= t' => 5 <= t) /\ (t' < 110 => t < 110)
  <2>1. /\ TimeInv' /\ ~finished /\ UNCHANGED <<halt, sig>>
        /\ Rising /\ RST_N' = 1 => t = 114 /\ t' = 115
        /\ Rising /\ RST_N' = 0 => t < 110 /\ t' < 110
        /\ ~Rising => (5 <= t' => 5 <= t) /\ (t' < 110 => t < 110)
    BY <1>1, <1>3, LoopFacts
  <2>2. t \in Nat /\ t' \in Nat
    BY <1>1, <2>1 DEF TimeInv
  <2>3. /\ halt \in {"rvmodel", "riscv_test"} /\ sig \in Nat
        /\ (t < 110 => Silent) /\ (5 <= t => Running)
    BY <2>1, Zenon DEF IInv
  <2> QED
    BY <2>1, <2>2, <2>3
<1>4. CASE Between
  <2>1. Loop /\ ~Rising /\ UNCHANGED <<cpu, uart, dump>>
    BY <1>4 DEF Between
  <2>2. UNCHANGED <<cpu, uart, dump, halt, sig>>
    BY <1>3, <2>1
  <2> QED
    BY <1>3, <2>1, <2>2, StillRuns DEF IInv
<1>5. CASE ResetEdge
  <2>1. Loop /\ Rising /\ RST_N' = 0 /\ Reset
    BY <1>5 DEF ResetEdge
  <2>2. Silent /\ t' < 110
    BY <1>3, <2>1
  <2>3. Running' /\ Silent' /\ finished' = finished
    BY <1>3, <2>1, <2>2, ResetRuns
  <2> QED
    BY <1>3, <2>1, <2>3 DEF IInv
<1>6. CASE ClockEdge
  <2>1. Loop /\ Rising /\ RST_N' = 1 /\ Soc
    BY <1>6 DEF ClockEdge
  <2>2. Running /\ t' = 115
    BY <1>3, <2>1
  <2>3. (finished' => OutputComplete') /\ (~finished' => Running')
    BY <1>3, <2>1, <2>2, SocStep
  <2> QED
    BY <1>3, <2>1, <2>2, <2>3 DEF IInv
<1>7. CASE IdleEdge
  <2>1. Loop /\ Rising /\ RST_N' = 1 /\ UNCHANGED <<cpu, uart, dump>>
    BY <1>7 DEF IdleEdge
  <2>2. UNCHANGED <<cpu, uart, dump, halt, sig>>
    BY <1>3, <2>1
  <2> QED
    BY <1>3, <2>1, <2>2, StillRuns DEF IInv
<1> QED
  BY <1>2, <1>4, <1>5, <1>6, <1>7 DEF Next

LEMMA StutterInv == ASSUME IInv, UNCHANGED vars PROVE IInv'
<1>1. UNCHANGED <<t, CLK, finished, cpu, uart, dump, halt, sig, printed, dumped, bus_error>>
  BY DEF vars, sim, uart, dump
<1>2. (Running => Running') /\ (Silent => Silent')
  BY <1>1, StillRuns
<1> QED
  BY <1>1, <1>2 DEF IInv, TimeInv, OutputComplete, TextPrinted, DumpBeforeFinish

(* The simulation is never stopped (the $finish of sign_dump, or an error  *)
(* on the bus) before the text of a compliance test is printed in full,    *)
(* once and in order, and the whole signature of a riscv_test.h program is *)
(* dumped, for every text, UART, signature and number of reads in flight,  *)
(* whatever the registers held before the reset.                           *)
THEOREM OutputIsComplete ==
    ASSUME StrLen \in Nat, TxDepth \in Nat, SigWords \subseteq Nat
    PROVE  Spec => []OutputComplete
<1>1. Init => IInv
  BY InitInv
<1>2. IInv /\ [Next]_vars => IInv'
  BY StepInv, StutterInv
<1>3. IInv => OutputComplete
  BY DEF IInv, OutputComplete, TextPrinted, DumpBeforeFinish
<1> QED
  BY <1>1, <1>2, <1>3, PTL DEF Spec
=============================================================================
