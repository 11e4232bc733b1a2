----------------------------- MODULE CcoreProofs -----------------------------
(***************************************************************************)
(* Proofs about Ccore, for lines of every length that fits the eight bits  *)
(* of rg_burst_count, any number of lines and channels of any depth: the   *)
(* burst registers, the I/O answers, the order of the write channels, the  *)
(* memory the writes leave and what a line fill returns.  The facts about  *)
(* the channels are stated of sequences and functions, not of variables,   *)
(* one lemma for each way a channel changes.                               *)
(***************************************************************************)
EXTENDS Ccore, Lemmas

Evictions == Seq([line : Lines, ver : Nat])

(* The strengthening of BurstInv: what the eviction FIFO holds.            *)
IInv ==
    /\ evictions \in Evictions
    /\ ver \in [Lines -> Nat]
    /\ BurstInv

(* The next word of a line lies within the range of rg_shift_amount.       *)
LEMMA ShiftStep ==
    ASSUME NEW c \in Beats, c # DBLOCKS - 1
    PROVE  (BeatBits * c + BeatBits) % ShiftMod = BeatBits * (c + 1)
<1>1. /\ DBLOCKS \in Nat /\ BeatBits \in Nat /\ BeatBits > 0 /\ ShiftMod \in Nat
      /\ c \in Nat /\ c + 1 <= DBLOCKS - 1 /\ ShiftMod >= BeatBits * DBLOCKS
  BY CcoreAssumption DEF Beats
<1>2. BeatBits * (c + 1) = BeatBits * c + BeatBits
  BY <1>1
<1>3. BeatBits * (c + 1) <= BeatBits * (DBLOCKS - 1)
  BY <1>1
<1>4. BeatBits * (DBLOCKS - 1) = BeatBits * DBLOCKS - BeatBits
  BY <1>1
<1>5. BeatBits * (c + 1) \in Nat /\ BeatBits * DBLOCKS \in Nat
  BY <1>1
<1>6. BeatBits * (c + 1) < ShiftMod
  BY <1>1, <1>3, <1>4, <1>5
<1>7. \A n \in Nat : n < ShiftMod => n % ShiftMod = n
  BY <1>1
<1> QED
  BY <1>2, <1>5, <1>6, <1>7

(* Appending to the eviction FIFO leaves its head alone, if it has one.    *)
LEMMA HeadOfAppend ==
    ASSUME NEW s \in Evictions, NEW e \in [line : Lines, ver : Nat]
    PROVE  /\ Append(s, e) \in Evictions
           /\ s # <<>> => Append(s, e) # <<>> /\ Head(Append(s, e)) = Head(s)
BY DEF Evictions

(* The steps that leave the burst registers and the FIFO alone.            *)
LEMMA Untouched ==
    ASSUME IInv, UNCHANGED <<evictions, ver, rg_burst_count, rg_shift_amount, wr_write_req>>
    PROVE  IInv'
BY DEF IInv, BurstInv

LEMMA EvictStep ==
    ASSUME IInv, NEW l \in Lines, dmem_evict(l)
    PROVE  IInv'
<1>1. /\ ver' = [ver EXCEPT ![l] = @ + 1]
      /\ evictions' = Append(evictions, [line |-> l, ver |-> ver[l] + 1])
      /\ UNCHANGED <<rg_burst_count, rg_shift_amount, wr_write_req>>
  BY DEF dmem_evict, regs
<1>2. ver' \in [Lines -> Nat]
  BY <1>1 DEF IInv
<1>3. [line |-> l, ver |-> ver[l] + 1] \in [line : Lines, ver : Nat]
  BY DEF IInv
<1>4. /\ evictions' \in Evictions
      /\ evictions # <<>> => evictions' # <<>> /\ Head(evictions') = Head(evictions)
  BY <1>1, <1>3, HeadOfAppend DEF IInv
<1> QED
  BY <1>1, <1>2, <1>4 DEF IInv, BurstInv

LEMMA WriteRequestStep ==
    ASSUME IInv, rl_handle_dmem_write_request
    PROVE  IInv'
<1>1. /\ rg_burst_count = 0 /\ rg_shift_amount = BeatBits /\ evictions # <<>>
      /\ UNCHANGED <<evictions, ver, rg_shift_amount>>
      /\ wr_write_req' = <<Head(evictions).line>>
      /\ rg_burst_count' = (rg_burst_count + 1) % 256
  BY DEF IInv, BurstInv, rl_handle_dmem_write_request, dmem
<1>2. rg_burst_count' = 1
  BY <1>1
<1>3. 1 \in Beats
  BY CcoreAssumption DEF Beats
<1>4. BeatBits = BeatBits * 1
  BY CcoreAssumption
<1> QED
  BY <1>1, <1>2, <1>3, <1>4 DEF IInv, BurstInv

LEMMA BurstStep ==
    ASSUME IInv, rl_dmem_burst_write_data
    PROVE  IInv'
<1>1. /\ rg_burst_count # 0 /\ rg_burst_count \in Beats /\ evictions # <<>>
      /\ wr_write_req = <<Head(evictions).line>>
      /\ rg_shift_amount = BeatBits * rg_burst_count
      /\ UNCHANGED ver
  BY DEF IInv, BurstInv, rl_dmem_burst_write_data
<1>2. CASE rg_burst_count = DBLOCKS - 1
  <2>1. /\ rg_burst_count' = 0 /\ rg_shift_amount' = BeatBits
        /\ wr_write_req' = <<>> /\ evictions' = Tail(evictions)
    BY <1>2 DEF rl_dmem_burst_write_data
  <2>2. Tail(evictions) \in Evictions
    BY <1>1 DEF IInv, Evictions
  <2>3. 0 \in Beats
    BY CcoreAssumption DEF Beats
  <2> QED
    BY <1>1, <2>1, <2>2, <2>3 DEF IInv, BurstInv
<1>3. CASE rg_burst_count # DBLOCKS - 1
  <2>1. /\ rg_burst_count' = (rg_burst_count + 1) % 256
        /\ rg_shift_amount' = (rg_shift_amount + BeatBits) % ShiftMod
        /\ UNCHANGED <<wr_write_req, evictions>>
    BY <1>3 DEF rl_dmem_burst_write_data
  <2>2. rg_burst_count' = rg_burst_count + 1 /\ rg_burst_count' \in Beats
        /\ rg_burst_count' # 0
    BY <1>1, <1>3, <2>1, CcoreAssumption DEF Beats
  <2>3. rg_shift_amount' = BeatBits * rg_burst_count'
    BY <1>1, <1>3, <2>1, <2>2, ShiftStep
  <2> QED
    BY <1>1, <2>1, <2>2, <2>3 DEF IInv, BurstInv
<1> QED
  BY <1>2, <1>3

(* Initially no line is being written.                                     *)
LEMMA BurstInit == Init => IInv
<1>1. 0 \in Beats
  BY CcoreAssumption DEF Beats
<1> QED
  BY <1>1 DEF Init, IInv, BurstInv, Evictions

(* Every rule, of the core, of its data memory and of the fabric, keeps    *)
(* the burst registers in step.                                            *)
LEMMA BurstNext == IInv /\ [Next]_vars => IInv'
<1> SUFFICES ASSUME IInv, [Next]_vars PROVE IInv'
  OBVIOUS
<1>1. ASSUME NEW l \in Lines, dmem_fill(l) PROVE IInv'
  BY <1>1, Untouched DEF dmem_fill, regs
<1>2. ASSUME NEW l \in Lines, dmem_evict(l) PROVE IInv'
  BY <1>2, EvictStep
<1>3. ASSUME NEW k \in {"read", "write"}, dmem_io(k) PROVE IInv'
  BY <1>3, Untouched DEF dmem_io, regs
<1>4. CASE rl_initiate_io
  BY <1>4, Untouched DEF rl_initiate_io, regs
<1>5. CASE rl_handle_io_read_response
  BY <1>5, Untouched DEF rl_handle_io_read_response, regs
<1>6. CASE rl_handle_io_write_resp
  BY <1>6, Untouched DEF rl_handle_io_write_resp, regs
<1>7. CASE rl_handle_dmem_line_read_request
  BY <1>7, Untouched DEF rl_handle_dmem_line_read_request
<1>8. CASE rl_handle_delayed_read
  BY <1>8, Untouched DEF rl_handle_delayed_read, dmem
<1>9. CASE rl_handle_dmem_line_resp
  BY <1>9, Untouched DEF rl_handle_dmem_line_resp, regs
<1>10. CASE rl_handle_dmem_write_request
  BY <1>10, WriteRequestStep
<1>11. CASE rl_dmem_burst_write_data
  BY <1>11, BurstStep
<1>12. CASE handle_dmem_line_write_resp
  BY <1>12, Untouched DEF handle_dmem_line_write_resp, dmem, regs
<1>13. CASE fabric_write
  BY <1>13, Untouched DEF fabric_write, dmem, regs
<1>14. CASE fabric_read
  BY <1>14, Untouched DEF fabric_read, dmem, regs
<1>15. CASE UNCHANGED vars
  BY <1>15, Untouched DEF vars, dmem, regs
<1> QED
  BY <1>1, <1>2, <1>3, <1>4, <1>5, <1>6, <1>7, <1>8, <1>9, <1>10, <1>11, <1>12, <1>13,
     <1>14, <1>15 DEF Next

(* BurstInv holds of every behaviour, for every line length and word size: *)
(* rg_burst_count, rg_shift_amount and wr_write_req stay in step with the  *)
(* eviction at the head of the FIFO (rl_handle_dmem_write_request,         *)
(* rl_dmem_burst_write_data).                                              *)
THEOREM BurstCorrect == Spec => []BurstInv
<1>1. IInv => BurstInv
  BY DEF IInv
<1> QED
  BY <1>1, BurstInit, BurstNext, PTL DEF Spec

(***************************************************************************)
(* The write channels.  A is the content of the address channel, W of the  *)
(* data channel, bt the beats of A[1] the fabric has taken, bc the value   *)
(* of rg_burst_count.  own says to which address each beat belongs, pos    *)
(* which beat of it it is, v which version of the line each address is.    *)
(***************************************************************************)
AwSet == [id : {0}, line : Lines, len : {DBLOCKS - 1}]
         \union [id : {1}, line : {-1}, len : {0}]
WSet == [id : {0, 1}, ver : Nat, word : Nat, last : BOOLEAN]

(* Each beat follows the one before it, within an address or into the      *)
(* next address.                                                           *)
Follows(A, W, own, pos) ==
    \A j, k \in 1..Len(W) : k = j + 1 =>
        \/ pos[j] = A[own[j]].len /\ own[k] = own[j] + 1 /\ pos[k] = 0
        \/ pos[j] # A[own[j]].len /\ own[k] = own[j] /\ pos[k] = pos[j] + 1

(* A beat is what its address calls for.                                   *)
Matches(A, W, own, pos, v) ==
    \A j \in 1..Len(W) :
        /\ W[j].id = A[own[j]].id
        /\ W[j].last <=> pos[j] = A[own[j]].len
        /\ pos[j] <= A[own[j]].len
        /\ W[j].id = 0 => W[j].word = pos[j] /\ W[j].ver = v[own[j]]

(* The oldest beat is the one the fabric waits for, and the newest beat is *)
(* the last of the newest address unless a burst is being sent.            *)
Ends(A, W, bt, bc, own, pos) ==
    /\ Len(W) # 0 => own[1] = 1 /\ pos[1] = bt /\ own[Len(W)] = Len(A)
    /\ Len(W) = 0 /\ bc = 0 => Len(A) = 0 /\ bt = 0
    /\ Len(W) = 0 /\ bc # 0 => Len(A) = 1 /\ bt = bc
    /\ Len(W) # 0 /\ bc = 0 => pos[Len(W)] = A[Len(A)].len
    /\ Len(W) # 0 /\ bc # 0 => pos[Len(W)] + 1 = bc
    /\ bc # 0 => Len(A) # 0 /\ A[Len(A)].id = 0

Chan(A, W, bt, bc, own, pos, v) ==
    /\ own \in [1..Len(W) -> 1..Len(A)]
    /\ pos \in [1..Len(W) -> Nat]
    /\ Follows(A, W, own, pos)
    /\ Matches(A, W, own, pos, v)
    /\ Ends(A, W, bt, bc, own, pos)

(* v with one more version at the end, and without its first.              *)
Added(A, v, x) == [i \in 1..(Len(A) + 1) |-> IF i = Len(A) + 1 THEN x ELSE v[i]]
Dropped(A, v) == [i \in 1..(Len(A) - 1) |-> v[i + 1]]

(* The length of a burst is that of a line, of an I/O write one beat.      *)
LEMMA AwFacts ==
    ASSUME NEW a \in AwSet
    PROVE  /\ a.len \in Nat /\ a.id \in {0, 1} /\ DBLOCKS - 1 \in Nat \ {0}
           /\ a.id = 0 => a.len = DBLOCKS - 1 /\ a.line \in Lines
           /\ a.id = 1 => a.len = 0 /\ a.line = -1 /\ a.line \notin Lines
BY CcoreAssumption DEF AwSet

(* Between two bursts an address and its first beat enter together.        *)
LEMMA ChanAppend ==
    ASSUME NEW A \in Seq(AwSet), NEW W \in Seq(WSet), NEW bt \in Nat,
           NEW own, NEW pos, NEW v, Chan(A, W, bt, 0, own, pos, v),
           NEW a \in AwSet, NEW x \in WSet, NEW y, NEW bc \in Nat,
           x.id = a.id, x.last <=> a.len = 0, x.id = 0 => x.word = 0 /\ x.ver = y,
           a.id = 1 => bc = 0, a.id = 0 => bc = 1
    PROVE  \E o, p : Chan(Append(A, a), Append(W, x), bt, bc, o, p, Added(A, v, y))
<1> DEFINE n == Len(W)
           m == Len(A)
           A2 == Append(A, a)
           W2 == Append(W, x)
           v2 == Added(A, v, y)
<1>1. /\ n \in Nat /\ Len(W2) = n + 1 /\ W2[n + 1] = x /\ \A i \in 1..n : W2[i] = W[i]
      /\ m \in Nat /\ Len(A2) = m + 1 /\ A2[m + 1] = a /\ \A i \in 1..m : A2[i] = A[i]
  BY AppendFacts
<1>0. Len(W2) = n + 1
  BY <1>1
<1>2. v2[m + 1] = y /\ \A i \in 1..m : v2[i] = v[i]
  BY <1>1 DEF Added
<1>3. a.len \in Nat /\ (a.id = 1 => a.len = 0) /\ (a.id = 0 => a.len # 0) /\ a.id \in {0, 1}
  BY AwFacts
<1> HIDE DEF n, m, A2, W2, v2
<1>4. own \in [1..n -> 1..m] /\ pos \in [1..n -> Nat]
      /\ Follows(A, W, own, pos) /\ Matches(A, W, own, pos, v) /\ Ends(A, W, bt, 0, own, pos)
  BY DEF Chan, n, m
<1>5. PICK o : o = [j \in 1..(n + 1) |-> IF j = n + 1 THEN m + 1 ELSE own[j]]
  OBVIOUS
<1>6. PICK p : p = [j \in 1..(n + 1) |-> IF j = n + 1 THEN 0 ELSE pos[j]]
  OBVIOUS
<1>7. /\ o[n + 1] = m + 1 /\ p[n + 1] = 0
      /\ \A j \in 1..n : o[j] = own[j] /\ p[j] = pos[j] /\ o[j] \in 1..m /\ A2[o[j]] = A[own[j]]
      /\ \A j \in 1..n : v2[o[j]] = v[own[j]]
  <2>1. o[n + 1] = m + 1 /\ p[n + 1] = 0
    BY <1>1, <1>5, <1>6
  <2>2. ASSUME NEW j \in 1..n
        PROVE  /\ o[j] = own[j] /\ p[j] = pos[j] /\ o[j] \in 1..m /\ A2[o[j]] = A[own[j]]
               /\ v2[o[j]] = v[own[j]]
    <3>1. o[j] = own[j] /\ p[j] = pos[j]
      BY <1>1, <1>5, <1>6
    <3>2. own[j] \in 1..m
      BY <1>4, Zenon
    <3> QED
      BY <1>1, <1>2, <3>1, <3>2
  <2> QED
    BY <2>1, <2>2
<1>8. o \in [1..(n + 1) -> 1..(m + 1)] /\ p \in [1..(n + 1) -> Nat]
  BY <1>1, <1>4, <1>5, <1>6
<1>9. n # 0 => own[n] = m /\ pos[n] = A[m].len
  BY <1>4 DEF Ends, n, m
<1>10. Follows(A2, W2, o, p)
  <2> SUFFICES ASSUME NEW j \in 1..(n + 1), NEW k \in 1..(n + 1), k = j + 1
               PROVE  \/ p[j] = A2[o[j]].len /\ o[k] = o[j] + 1 /\ p[k] = 0
                      \/ p[j] # A2[o[j]].len /\ o[k] = o[j] /\ p[k] = p[j] + 1
    BY <1>0, Zenon DEF Follows
  <2>1. j \in 1..n
    BY <1>1
  <2>2. CASE k = n + 1
    <3>1. j = n /\ n # 0
      BY <1>1, <2>1, <2>2
    <3>2. o[j] = m /\ p[j] = A2[o[j]].len
      BY <1>7, <1>9, <2>1, <3>1
    <3> QED
      BY <1>7, <2>2, <3>2
  <2>3. CASE k \in 1..n
    <3>1. \/ pos[j] = A[own[j]].len /\ own[k] = own[j] + 1 /\ pos[k] = 0
          \/ pos[j] # A[own[j]].len /\ own[k] = own[j] /\ pos[k] = pos[j] + 1
      BY <1>4, <2>1, <2>3 DEF Follows, n
    <3> QED
      BY <1>7, <2>1, <2>3, <3>1
  <2> QED
    BY <1>1, <2>2, <2>3
<1>11. Matches(A2, W2, o, p, v2)
  <2> SUFFICES ASSUME NEW j \in 1..(n + 1)
               PROVE  /\ W2[j].id = A2[o[j]].id
                      /\ W2[j].last <=> p[j] = A2[o[j]].len
                      /\ p[j] <= A2[o[j]].len
                      /\ W2[j].id = 0 => W2[j].word = p[j] /\ W2[j].ver = v2[o[j]]
    BY <1>0, Zenon DEF Matches
  <2>1. CASE j = n + 1
    BY <1>1, <1>2, <1>3, <1>7, <2>1
  <2>2. CASE j \in 1..n
    <3>1. /\ W[j].id = A[own[j]].id
          /\ W[j].last <=> pos[j] = A[own[j]].len
          /\ pos[j] <= A[own[j]].len
          /\ W[j].id = 0 => W[j].word = pos[j] /\ W[j].ver = v[own[j]]
      BY <1>4, <2>2 DEF Matches, n
    <3> QED
      BY <1>1, <1>7, <2>2, <3>1
  <2> QED
    BY <1>1, <2>1, <2>2
<1>12. Ends(A2, W2, bt, bc, o, p)
  <2>1. o[1] = 1 /\ p[1] = bt
    <3>1. CASE n = 0
      BY <1>1, <1>4, <1>7, <3>1 DEF Ends, n, m
    <3>2. CASE n # 0
      <4>1. 1 \in 1..n /\ own[1] = 1 /\ pos[1] = bt
        BY <1>1, <1>4, <3>2 DEF Ends, n, m
      <4> QED
        BY <1>7, <4>1
    <3> QED
      BY <3>1, <3>2
  <2>2. n + 1 # 0 /\ m + 1 # 0 /\ (bc = 0 => a.len = 0) /\ (bc # 0 => bc = 1 /\ a.id = 0)
    BY <1>1, <1>3
  <2> QED
    BY <1>1, <1>7, <2>1, <2>2 DEF Ends
<1>13. Chan(A2, W2, bt, bc, o, p, v2)
  BY <1>1, <1>8, <1>10, <1>11, <1>12 DEF Chan
<1> QED
  BY <1>13 DEF A2, W2, v2

(* Within a burst the next beat of the newest address enters.              *)
LEMMA ChanBurst ==
    ASSUME NEW A \in Seq(AwSet), NEW W \in Seq(WSet), NEW bt \in Nat,
           NEW bc \in 1..(DBLOCKS - 1), NEW own, NEW pos, NEW v,
           Chan(A, W, bt, bc, own, pos, v), NEW x \in WSet, NEW bc2,
           x.id = 0, x.last <=> bc = DBLOCKS - 1, x.word = bc, x.ver = v[Len(A)],
           bc2 = IF bc = DBLOCKS - 1 THEN 0 ELSE bc + 1
    PROVE  \E o, p : Chan(A, Append(W, x), bt, bc2, o, p, v)
<1> DEFINE n == Len(W)
           m == Len(A)
           W2 == Append(W, x)
<1>1. /\ n \in Nat /\ Len(W2) = n + 1 /\ W2[n + 1] = x /\ \A i \in 1..n : W2[i] = W[i]
      /\ m \in Nat
  BY AppendFacts
<1>0. Len(W2) = n + 1
  BY <1>1
<1> HIDE DEF n, m, W2
<1>2. own \in [1..n -> 1..m] /\ pos \in [1..n -> Nat]
      /\ Follows(A, W, own, pos) /\ Matches(A, W, own, pos, v) /\ Ends(A, W, bt, bc, own, pos)
  BY DEF Chan, n, m
<1>3. /\ bc \in Nat /\ bc # 0 /\ bc <= DBLOCKS - 1 /\ DBLOCKS - 1 \in Nat
  BY CcoreAssumption
<1>4. m # 0 /\ m \in 1..m /\ A[m].id = 0
  BY <1>1, <1>2, <1>3 DEF Ends, n, m
<1>5. A[m].len = DBLOCKS - 1
  <2>1. A[m] \in AwSet
    BY <1>4 DEF m
  <2> QED
    BY <1>4, <2>1, AwFacts
<1>6. PICK o : o = [j \in 1..(n + 1) |-> IF j = n + 1 THEN m ELSE own[j]]
  OBVIOUS
<1>7. PICK p : p = [j \in 1..(n + 1) |-> IF j = n + 1 THEN bc ELSE pos[j]]
  OBVIOUS
<1>8. /\ o[n + 1] = m /\ p[n + 1] = bc
      /\ \A j \in 1..n : o[j] = own[j] /\ p[j] = pos[j]
  BY <1>1, <1>6, <1>7
<1>9. o \in [1..(n + 1) -> 1..m] /\ p \in [1..(n + 1) -> Nat]
  BY <1>1, <1>2, <1>3, <1>4, <1>6, <1>7
<1>10. Follows(A, W2, o, p)
  <2> SUFFICES ASSUME NEW j \in 1..(n + 1), NEW k \in 1..(n + 1), k = j + 1
               PROVE  \/ p[j] = A[o[j]].len /\ o[k] = o[j] + 1 /\ p[k] = 0
                      \/ p[j] # A[o[j]].len /\ o[k] = o[j] /\ p[k] = p[j] + 1
    BY <1>0, Zenon DEF Follows
  <2>1. j \in 1..n
    BY <1>1
  <2>2. CASE k = n + 1
    <3>1. j = n /\ n # 0
      BY <1>1, <2>1, <2>2
    <3>2. own[n] = m /\ pos[n] + 1 = bc
      BY <1>2, <1>3, <3>1 DEF Ends, n, m
    <3>3. pos[n] \in Nat
      BY <1>2, <2>1, <3>1
    <3>4. o[j] = m /\ p[j] = pos[n]
      BY <1>8, <2>1, <3>1, <3>2
    <3>5. p[j] # A[o[j]].len
      BY <1>3, <1>5, <3>2, <3>3, <3>4
    <3> QED
      BY <1>8, <2>2, <3>2, <3>4, <3>5
  <2>3. CASE k \in 1..n
    <3>1. \/ pos[j] = A[own[j]].len /\ own[k] = own[j] + 1 /\ pos[k] = 0
          \/ pos[j] # A[own[j]].len /\ own[k] = own[j] /\ pos[k] = pos[j] + 1
      BY <1>2, <2>1, <2>3 DEF Follows, n
    <3> QED
      BY <1>8, <2>1, <2>3, <3>1
  <2> QED
    BY <1>1, <2>2, <2>3
<1>11. Matches(A, W2, o, p, v)
  <2> SUFFICES ASSUME NEW j \in 1..(n + 1)
               PROVE  /\ W2[j].id = A[o[j]].id
                      /\ W2[j].last <=> p[j] = A[o[j]].len
                      /\ p[j] <= A[o[j]].len
                      /\ W2[j].id = 0 => W2[j].word = p[j] /\ W2[j].ver = v[o[j]]
    BY <1>0, Zenon DEF Matches
  <2>1. CASE j = n + 1
    BY <1>1, <1>3, <1>4, <1>5, <1>8, <2>1 DEF m
  <2>2. CASE j \in 1..n
    <3>1. /\ W[j].id = A[own[j]].id
          /\ W[j].last <=> pos[j] = A[own[j]].len
          /\ pos[j] <= A[own[j]].len
          /\ W[j].id = 0 => W[j].word = pos[j] /\ W[j].ver = v[own[j]]
      BY <1>2, <2>2 DEF Matches, n
    <3> QED
      BY <1>1, <1>8, <2>2, <3>1
  <2> QED
    BY <1>1, <2>1, <2>2
<1>12. Ends(A, W2, bt, bc2, o, p)
  <2>1. o[1] = 1 /\ p[1] = bt
    <3>1. CASE n = 0
      <4>1. m = 1 /\ bt = bc
        BY <1>2, <1>3, <3>1 DEF Ends, n, m
      <4> QED
        BY <1>1, <1>8, <3>1, <4>1
    <3>2. CASE n # 0
      <4>1. 1 \in 1..n /\ own[1] = 1 /\ pos[1] = bt
        BY <1>1, <1>2, <3>2 DEF Ends, n, m
      <4> QED
        BY <1>8, <4>1
    <3> QED
      BY <3>1, <3>2
  <2>2. n + 1 # 0 /\ (bc2 = 0 => bc = DBLOCKS - 1) /\ (bc2 # 0 => bc2 = bc + 1)
    BY <1>1, <1>3
  <2> QED
    BY <1>1, <1>4, <1>5, <1>8, <2>1, <2>2 DEF Ends, m
<1>13. Chan(A, W2, bt, bc2, o, p, v)
  BY <1>1, <1>9, <1>10, <1>11, <1>12 DEF Chan, m
<1> QED
  BY <1>13 DEF W2

(* What the fabric finds at the head of the two channels.                  *)
LEMMA ChanHead ==
    ASSUME NEW A \in Seq(AwSet), NEW W \in Seq(WSet), NEW bt \in Nat, NEW bc \in Nat,
           NEW own, NEW pos, NEW v, Chan(A, W, bt, bc, own, pos, v), W # <<>>
    PROVE  /\ A # <<>> /\ A[1] \in AwSet /\ bt <= A[1].len
           /\ W[1].id = A[1].id /\ (W[1].last <=> bt = A[1].len)
           /\ A[1].id = 0 => W[1].word = bt /\ W[1].ver = v[1]
<1>1. Len(W) \in Nat \ {0} /\ 1 \in 1..Len(W)
  BY TailFacts
<1>2. own[1] = 1 /\ pos[1] = bt /\ own[1] \in 1..Len(A)
  BY <1>1 DEF Chan, Ends
<1>3. Len(A) \in Nat /\ 1 \in 1..Len(A)
  BY <1>2
<1>4. A # <<>> /\ A[1] \in AwSet
  BY <1>3
<1>5. /\ W[1].id = A[own[1]].id
      /\ W[1].last <=> pos[1] = A[own[1]].len
      /\ pos[1] <= A[own[1]].len
      /\ W[1].id = 0 => W[1].word = pos[1] /\ W[1].ver = v[own[1]]
  BY <1>1 DEF Chan, Matches
<1> QED
  BY <1>2, <1>4, <1>5

(* The fabric takes a beat that is not the last of its address.            *)
LEMMA ChanNextBeat ==
    ASSUME NEW A \in Seq(AwSet), NEW W \in Seq(WSet), NEW bt \in Nat, NEW bc \in Nat,
           NEW own, NEW pos, NEW v, Chan(A, W, bt, bc, own, pos, v),
           W # <<>>, bt # A[1].len
    PROVE  \E o, p : Chan(A, Tail(W), bt + 1, bc, o, p, v)
<1> DEFINE n == Len(W)
           m == Len(A)
           W2 == Tail(W)
<1>1. /\ n \in Nat \ {0} /\ Len(W2) = n - 1 /\ \A i \in 1..(n - 1) : W2[i] = W[i + 1]
      /\ m \in Nat
  BY TailFacts
<1>0. Len(W2) = n - 1
  BY <1>1
<1> HIDE DEF n, m, W2
<1>2. own \in [1..n -> 1..m] /\ pos \in [1..n -> Nat]
      /\ Follows(A, W, own, pos) /\ Matches(A, W, own, pos, v) /\ Ends(A, W, bt, bc, own, pos)
  BY DEF Chan, n, m
<1>3. own[1] = 1 /\ pos[1] = bt /\ own[n] = m
  BY <1>1, <1>2 DEF Ends, n, m
<1>4. PICK o : o = [j \in 1..(n - 1) |-> own[j + 1]]
  OBVIOUS
<1>5. PICK p : p = [j \in 1..(n - 1) |-> pos[j + 1]]
  OBVIOUS
<1>6. \A j \in 1..(n - 1) : j + 1 \in 1..n /\ o[j] = own[j + 1] /\ p[j] = pos[j + 1]
  BY <1>1, <1>4, <1>5
<1>7. o \in [1..(n - 1) -> 1..m] /\ p \in [1..(n - 1) -> Nat]
  BY <1>2, <1>4, <1>5, <1>6
<1>8. Follows(A, W2, o, p)
  <2> SUFFICES ASSUME NEW j \in 1..(n - 1), NEW k \in 1..(n - 1), k = j + 1
               PROVE  \/ p[j] = A[o[j]].len /\ o[k] = o[j] + 1 /\ p[k] = 0
                      \/ p[j] # A[o[j]].len /\ o[k] = o[j] /\ p[k] = p[j] + 1
    BY <1>0, Zenon DEF Follows
  <2>1. j + 1 \in 1..n /\ k + 1 \in 1..n /\ k + 1 = (j + 1) + 1
    BY <1>6
  <2>2. \/ pos[j + 1] = A[own[j + 1]].len /\ own[k + 1] = own[j + 1] + 1 /\ pos[k + 1] = 0
        \/ pos[j + 1] # A[own[j + 1]].len /\ own[k + 1] = own[j + 1] /\ pos[k + 1] = pos[j + 1] + 1
    BY <1>2, <2>1 DEF Follows, n
  <2> QED
    BY <1>6, <2>2
<1>9. Matches(A, W2, o, p, v)
  <2> SUFFICES ASSUME NEW j \in 1..(n - 1)
               PROVE  /\ W2[j].id = A[o[j]].id
                      /\ W2[j].last <=> p[j] = A[o[j]].len
                      /\ p[j] <= A[o[j]].len
                      /\ W2[j].id = 0 => W2[j].word = p[j] /\ W2[j].ver = v[o[j]]
    BY <1>0, Zenon DEF Matches
  <2>1. /\ W[j + 1].id = A[own[j + 1]].id
        /\ W[j + 1].last <=> pos[j + 1] = A[own[j + 1]].len
        /\ pos[j + 1] <= A[own[j + 1]].len
        /\ W[j + 1].id = 0 => W[j + 1].word = pos[j + 1] /\ W[j + 1].ver = v[own[j + 1]]
    BY <1>2, <1>6 DEF Matches, n
  <2> QED
    BY <1>1, <1>6, <2>1
<1>10. Ends(A, W2, bt + 1, bc, o, p)
  <2>1. CASE n = 1
    <3>1. m = 1 /\ bc # 0 /\ bt + 1 = bc /\ A[m].id = 0
      BY <1>1, <1>2, <1>3, <2>1 DEF Ends, n, m
    <3> QED
      BY <1>1, <2>1, <3>1 DEF Ends, m
  <2>2. CASE n # 1
    <3>1. 1 \in 1..n /\ 2 \in 1..n /\ 2 = 1 + 1 /\ 1 \in 1..(n - 1) /\ n - 1 \in 1..(n - 1)
          /\ (n - 1) + 1 = n /\ n - 1 # 0
      BY <1>1, <2>2
    <3>2. own[2] = 1 /\ pos[2] = bt + 1
      BY <1>2, <1>3, <3>1 DEF Follows, n
    <3>3. o[1] = 1 /\ p[1] = bt + 1 /\ o[n - 1] = m /\ p[n - 1] = pos[n]
      BY <1>3, <1>6, <3>1, <3>2
    <3> QED
      BY <1>1, <1>2, <3>1, <3>3 DEF Ends, n, m
  <2> QED
    BY <2>1, <2>2
<1>11. Chan(A, W2, bt + 1, bc, o, p, v)
  BY <1>1, <1>7, <1>8, <1>9, <1>10 DEF Chan, m
<1> QED
  BY <1>11 DEF W2

(* When the oldest beat is the last of its address, the later beats belong *)
(* to later addresses.                                                     *)
LEMMA LaterBeats ==
    ASSUME NEW A \in Seq(AwSet), NEW W \in Seq(WSet), NEW own, NEW pos,
           own \in [1..Len(W) -> 1..Len(A)], Follows(A, W, own, pos),
           Len(W) # 0, own[1] = 1, pos[1] = A[1].len
    PROVE  \A k \in 1..Len(W) : k # 1 => own[k] >= 2
<1> DEFINE n == Len(W)
           T == {i \in Nat : i + 2 <= n => own[i + 2] >= 2}
<1>1. n \in Nat
  OBVIOUS
<1>2. own \in [1..n -> 1..Len(A)]
  OBVIOUS
<1> HIDE DEF n
<1>3. 0 \in T
  <2> SUFFICES ASSUME 0 + 2 <= n PROVE own[0 + 2] >= 2
    OBVIOUS
  <2>1. 1 \in 1..n /\ 2 \in 1..n /\ 2 = 1 + 1 /\ 0 + 2 = 2
    BY <1>1
  <2>2. own[2] = own[1] + 1
    BY <2>1 DEF Follows, n
  <2> QED
    BY <2>1, <2>2
<1>4. ASSUME NEW i \in Nat, i \in T PROVE i + 1 \in T
  <2> SUFFICES ASSUME (i + 1) + 2 <= n PROVE own[(i + 1) + 2] >= 2
    OBVIOUS
  <2>1. i + 2 \in 1..n /\ (i + 1) + 2 \in 1..n /\ (i + 1) + 2 = (i + 2) + 1 /\ i + 2 <= n
    BY <1>1
  <2>2. own[i + 2] >= 2
    BY <1>4, <2>1
  <2>4. own[i + 2] \in Nat
    <3>1. Len(A) \in Nat
      OBVIOUS
    <3>2. own[i + 2] \in 1..Len(A)
      BY <1>2, <2>1, Zenon
    <3> QED
      BY <3>1, <3>2
  <2>3. own[(i + 1) + 2] = own[i + 2] + 1 \/ own[(i + 1) + 2] = own[i + 2]
    BY <2>1 DEF Follows, n
  <2> QED
    BY <2>2, <2>3, <2>4
<1> HIDE DEF T
<1>5. \A i \in Nat : i \in T
  BY <1>3, <1>4, InductionOnSet
<1>6. ASSUME NEW k \in 1..n, k # 1 PROVE own[k] >= 2
  <2>1. k - 2 \in Nat /\ (k - 2) + 2 = k /\ k <= n
    BY <1>1, <1>6
  <2> QED
    BY <1>5, <2>1 DEF T
<1> QED
  BY <1>6 DEF n

(* The fabric takes the last beat of an address.                           *)
LEMMA ChanNextAddress ==
    ASSUME NEW A \in Seq(AwSet), NEW W \in Seq(WSet), NEW bt \in Nat,
           NEW bc \in 0..(DBLOCKS - 1),
           NEW own, NEW pos, NEW v, Chan(A, W, bt, bc, own, pos, v),
           W # <<>>, bt = A[1].len
    PROVE  \E o, p : Chan(Tail(A), Tail(W), 0, bc, o, p, Dropped(A, v))
<1> DEFINE n == Len(W)
           m == Len(A)
           W2 == Tail(W)
           A2 == Tail(A)
           v2 == Dropped(A, v)
<1>0. A # <<>>
  <2>1. bc \in Nat
    BY CcoreAssumption
  <2> QED
    BY <2>1, ChanHead
<1>1. /\ n \in Nat \ {0} /\ Len(W2) = n - 1 /\ \A i \in 1..(n - 1) : W2[i] = W[i + 1]
      /\ m \in Nat \ {0} /\ Len(A2) = m - 1 /\ \A i \in 1..(m - 1) : A2[i] = A[i + 1]
      /\ A2 \in Seq(AwSet)
  BY <1>0, TailFacts
<1>14. Len(W2) = n - 1
  BY <1>1
<1>2. \A i \in 1..(m - 1) : v2[i] = v[i + 1]
  BY DEF Dropped
<1>3. own \in [1..n -> 1..m] /\ pos \in [1..n -> Nat]
      /\ Follows(A, W, own, pos) /\ Matches(A, W, own, pos, v) /\ Ends(A, W, bt, bc, own, pos)
  BY DEF Chan
<1>4. own[1] = 1 /\ pos[1] = A[1].len /\ own[n] = m
  BY <1>1, <1>3 DEF Ends
<1>5. \A k \in 1..n : k # 1 => own[k] >= 2
  BY <1>1, <1>3, <1>4, LaterBeats
<1> HIDE DEF n, m, W2, A2, v2
<1>6. PICK o : o = [j \in 1..(n - 1) |-> own[j + 1] - 1]
  OBVIOUS
<1>7. PICK p : p = [j \in 1..(n - 1) |-> pos[j + 1]]
  OBVIOUS
<1>8. ASSUME NEW j \in 1..(n - 1)
      PROVE  /\ j + 1 \in 1..n /\ o[j] = own[j + 1] - 1 /\ p[j] = pos[j + 1] /\ p[j] \in Nat
             /\ o[j] \in 1..(m - 1) /\ own[j + 1] = o[j] + 1
             /\ A2[o[j]] = A[own[j + 1]] /\ v2[o[j]] = v[own[j + 1]]
  <2>1. j + 1 \in 1..n /\ j + 1 # 1
    BY <1>1
  <2>2. own[j + 1] \in 1..m /\ own[j + 1] >= 2 /\ pos[j + 1] \in Nat
    BY <1>3, <1>5, <2>1
  <2>3. o[j] = own[j + 1] - 1 /\ p[j] = pos[j + 1]
    BY <1>6, <1>7
  <2>0. \A i \in 1..m : i >= 2 => i - 1 \in 1..(m - 1) /\ (i - 1) + 1 = i
    BY <1>1
  <2>4. o[j] \in 1..(m - 1) /\ own[j + 1] = o[j] + 1
    BY <2>0, <2>2, <2>3
  <2> QED
    BY <1>1, <1>2, <2>1, <2>2, <2>3, <2>4
<1>9. o \in [1..(n - 1) -> 1..(m - 1)] /\ p \in [1..(n - 1) -> Nat]
  BY <1>6, <1>7, <1>8
<1>10. Follows(A2, W2, o, p)
  <2> SUFFICES ASSUME NEW j \in 1..(n - 1), NEW k \in 1..(n - 1), k = j + 1
               PROVE  \/ p[j] = A2[o[j]].len /\ o[k] = o[j] + 1 /\ p[k] = 0
                      \/ p[j] # A2[o[j]].len /\ o[k] = o[j] /\ p[k] = p[j] + 1
    BY <1>14, Zenon DEF Follows
  <2>1. j + 1 \in 1..n /\ k + 1 \in 1..n /\ k + 1 = (j + 1) + 1
    BY <1>8
  <2>2. \/ pos[j + 1] = A[own[j + 1]].len /\ own[k + 1] = own[j + 1] + 1 /\ pos[k + 1] = 0
        \/ pos[j + 1] # A[own[j + 1]].len /\ own[k + 1] = own[j + 1] /\ pos[k + 1] = pos[j + 1] + 1
    BY <1>3, <2>1 DEF Follows, n
  <2>3. /\ o[j] \in 1..(m - 1) /\ own[j + 1] = o[j] + 1 /\ p[j] = pos[j + 1]
        /\ A2[o[j]] = A[own[j + 1]]
    BY <1>8
  <2>4. o[k] \in 1..(m - 1) /\ own[k + 1] = o[k] + 1 /\ p[k] = pos[k + 1]
    BY <1>8
  <2>5. own[k + 1] = own[j + 1] + 1 => o[k] = o[j] + 1
    BY <2>3, <2>4
  <2>6. own[k + 1] = own[j + 1] => o[k] = o[j]
    BY <2>3, <2>4
  <2> QED
    BY <2>2, <2>3, <2>4, <2>5, <2>6
<1>11. Matches(A2, W2, o, p, v2)
  <2> SUFFICES ASSUME NEW j \in 1..(n - 1)
               PROVE  /\ W2[j].id = A2[o[j]].id
                      /\ W2[j].last <=> p[j] = A2[o[j]].len
                      /\ p[j] <= A2[o[j]].len
                      /\ W2[j].id = 0 => W2[j].word = p[j] /\ W2[j].ver = v2[o[j]]
    BY <1>14, Zenon DEF Matches
  <2>1. /\ W[j + 1].id = A[own[j + 1]].id
        /\ W[j + 1].last <=> pos[j + 1] = A[own[j + 1]].len
        /\ pos[j + 1] <= A[own[j + 1]].len
        /\ W[j + 1].id = 0 => W[j + 1].word = pos[j + 1] /\ W[j + 1].ver = v[own[j + 1]]
    BY <1>3, <1>8 DEF Matches, n
  <2> QED
    BY <1>1, <1>8, <2>1
<1>12. Ends(A2, W2, 0, bc, o, p)
  <2>1. CASE n = 1
    <3>1. m = 1
      BY <1>4, <2>1
    <3>2. bc = 0
      <4> SUFFICES ASSUME bc # 0 PROVE FALSE
        OBVIOUS
      <4>1. pos[1] + 1 = bc /\ A[1].id = 0
        BY <1>1, <1>3, <2>1, <3>1 DEF Ends, n, m
      <4>2. A[1] \in AwSet
        BY <1>1 DEF m
      <4>3. A[1].len = DBLOCKS - 1 /\ DBLOCKS - 1 \in Nat
        BY <4>1, <4>2, AwFacts
      <4> QED
        BY <1>4, <4>1, <4>3
    <3> QED
      BY <1>1, <2>1, <3>1, <3>2 DEF Ends
  <2>2. CASE n # 1
    <3>1. 1 \in 1..n /\ 2 \in 1..n /\ 2 = 1 + 1 /\ 1 \in 1..(n - 1) /\ n - 1 \in 1..(n - 1)
          /\ (n - 1) + 1 = n /\ n - 1 # 0 /\ n # 0
      BY <1>1, <2>2
    <3>2. own[2] = 2 /\ pos[2] = 0
      BY <1>3, <1>4, <3>1 DEF Follows, n
    <3>3. o[1] = 1 /\ p[1] = 0 /\ o[n - 1] = m - 1 /\ p[n - 1] = pos[n]
      <4>1. o[1] = own[1 + 1] - 1 /\ p[1] = pos[1 + 1]
        BY <1>8, <3>1
      <4>2. o[n - 1] = own[(n - 1) + 1] - 1 /\ p[n - 1] = pos[(n - 1) + 1]
        BY <1>8, <3>1
      <4> QED
        BY <1>4, <3>1, <3>2, <4>1, <4>2
    <3>4. m - 1 \in 1..(m - 1) /\ m - 1 # 0
      BY <1>8, <3>1, <3>3
    <3>5. A2[m - 1] = A[m]
      BY <1>1, <3>4
    <3> QED
      BY <1>1, <1>3, <3>1, <3>3, <3>4, <3>5 DEF Ends, n, m
  <2> QED
    BY <2>1, <2>2
<1>13. Chan(A2, W2, 0, bc, o, p, v2)
  BY <1>1, <1>9, <1>10, <1>11, <1>12 DEF Chan
<1> QED
  BY <1>13 DEF A2, W2, v2

(***************************************************************************)
(* The memory.  M is its content, st the version of each line the core     *)
(* last began to write; A, bt and v as above.                              *)
(***************************************************************************)
MemSet == [Lines -> [Beats -> [ver : Nat, word : Nat]]]

(* A word is where it belongs.                                             *)
Words(M) == \A l \in Lines, k \in Beats : M[l][k].word = k

(* The beats of the oldest address that the fabric took are in memory.     *)
HeadWritten(A, bt, M, v) ==
    \A l \in Lines, k \in Beats :
        Len(A) # 0 /\ A[1].line = l /\ k < bt => M[l][k].ver = v[1]

(* A line with no write on its way is the one last begun, whole.           *)
Settled(A, M, st) ==
    \A l \in Lines : (\A i \in 1..Len(A) : A[i].line # l)
                        => \A k \in Beats : M[l][k].ver = st[l]

(* The newest write of a line is the one last begun.                       *)
Newest(A, st, v) ==
    \A i \in 1..Len(A), l \in Lines : A[i].line = l =>
        /\ v[i] <= st[l]
        /\ (\A h \in 1..Len(A) : i < h => A[h].line # l) => v[i] = st[l]

(* Memory and the writes of a line, in order, never go back in version.    *)
Rising(A, M, v) ==
    \A i \in 1..Len(A), l \in Lines : A[i].line = l =>
        /\ \A k \in Beats : M[l][k].ver <= v[i]
        /\ \A h \in 1..Len(A) : i < h /\ A[h].line = l => v[i] <= v[h]

Mem(A, bt, M, st, v) ==
    /\ v \in [1..Len(A) -> Nat]
    /\ Words(M)
    /\ HeadWritten(A, bt, M, v)
    /\ Settled(A, M, st)
    /\ Newest(A, st, v)
    /\ Rising(A, M, v)

(* A write of a line begins, or an I/O write enters the channel.           *)
LEMMA MemAppend ==
    ASSUME NEW A \in Seq(AwSet), NEW bt \in Nat, NEW M \in MemSet, NEW st \in [Lines -> Nat],
           NEW v, Mem(A, bt, M, st, v), Len(A) = 0 => bt = 0,
           NEW a \in AwSet, NEW y \in Nat, NEW st2,
           a.id = 0 => st2 = [st EXCEPT ![a.line] = y] /\ st[a.line] <= y,
           a.id = 1 => st2 = st
    PROVE  Mem(Append(A, a), bt, M, st2, Added(A, v, y))
<1> DEFINE m == Len(A)
           A2 == Append(A, a)
           v2 == Added(A, v, y)
<1>1. m \in Nat /\ Len(A2) = m + 1 /\ A2[m + 1] = a /\ \A i \in 1..m : A2[i] = A[i]
  BY AppendFacts
<1>0. Len(A2) = m + 1
  BY <1>1
<1>2. v2[m + 1] = y /\ (\A i \in 1..m : v2[i] = v[i]) /\ v2 \in [1..(m + 1) -> Nat]
  BY <1>1 DEF Added, Mem
<1>3. \A i \in 1..(m + 1) : i \in 1..m \/ i = m + 1
  BY <1>1
<1>4. 1..m \subseteq 1..(m + 1) /\ m + 1 \in 1..(m + 1)
  BY <1>1
<1>5. Words(M) /\ HeadWritten(A, bt, M, v) /\ Settled(A, M, st) /\ Newest(A, st, v)
      /\ Rising(A, M, v) /\ v \in [1..m -> Nat]
  BY DEF Mem
<1>6. /\ \A l \in Lines : st2[l] = (IF l = a.line THEN y ELSE st[l]) /\ st2[l] \in Nat
      /\ \A l \in Lines : l = a.line => st[l] <= y
      /\ \A l \in Lines : st[l] <= st2[l] /\ st[l] \in Nat
  BY AwFacts
<1> HIDE DEF m, A2, v2
<1>7. HeadWritten(A2, bt, M, v2)
  <2> SUFFICES ASSUME NEW l \in Lines, NEW k \in Beats, A2[1].line = l, k < bt
               PROVE  M[l][k].ver = v2[1]
    BY DEF HeadWritten
  <2>1. m # 0
    BY CcoreAssumption DEF m, Beats
  <2>2. 1 \in 1..m
    BY <1>1, <2>1
  <2> QED
    BY <1>1, <1>2, <1>5, <2>1, <2>2 DEF HeadWritten, m
<1>8. Settled(A2, M, st2)
  <2> SUFFICES ASSUME NEW l \in Lines, \A i \in 1..(m + 1) : A2[i].line # l, NEW k \in Beats
               PROVE  M[l][k].ver = st2[l]
    BY <1>0, Zenon DEF Settled
  <2>1. a.line # l
    BY <1>1, <1>4
  <2>2. \A i \in 1..m : A[i].line # l
    BY <1>1, <1>4
  <2>3. M[l][k].ver = st[l]
    BY <1>5, <2>2 DEF Settled, m
  <2> QED
    BY <1>6, <2>1, <2>3
<1>9. Newest(A2, st2, v2)
  <2> SUFFICES ASSUME NEW i \in 1..(m + 1), NEW l \in Lines, A2[i].line = l
               PROVE  /\ v2[i] <= st2[l]
                      /\ (\A h \in 1..(m + 1) : i < h => A2[h].line # l) => v2[i] = st2[l]
    BY <1>0 DEF Newest
  <2>1. CASE i = m + 1
    BY <1>1, <1>2, <1>6, <2>1
  <2>2. CASE i \in 1..m
    <3>1. /\ v[i] <= st[l]
          /\ (\A h \in 1..m : i < h => A[h].line # l) => v[i] = st[l]
          /\ v[i] \in Nat
      BY <1>1, <1>5, <2>2 DEF Newest, m
    <3>2. v2[i] = v[i] /\ v2[i] <= st2[l]
      BY <1>2, <1>6, <2>2, <3>1
    <3>3. ASSUME \A h \in 1..(m + 1) : i < h => A2[h].line # l PROVE v2[i] = st2[l]
      <4>1. i < m + 1
        BY <1>1, <2>2
      <4>2. a.line # l
        BY <1>1, <1>4, <3>3, <4>1
      <4>3. \A h \in 1..m : i < h => A[h].line # l
        BY <1>1, <1>4, <3>3
      <4> QED
        BY <1>6, <3>1, <3>2, <4>2, <4>3
    <3> QED
      BY <3>2, <3>3
  <2> QED
    BY <1>3, <2>1, <2>2
<1>10. Rising(A2, M, v2)
  <2>1. ASSUME NEW l \in Lines, a.line = l, NEW k \in Beats PROVE M[l][k].ver <= y
    <3>0. M[l][k].ver \in Nat
      BY DEF MemSet
    <3>1. CASE \E i \in 1..m : A[i].line = l
      <4>1. PICK i \in 1..m : A[i].line = l
        BY <3>1
      <4>2. M[l][k].ver <= v[i] /\ v[i] <= st[l] /\ v[i] \in Nat
        BY <1>5, <4>1 DEF Rising, Newest, m
      <4> QED
        BY <1>6, <2>1, <3>0, <4>2
    <3>2. CASE \A i \in 1..m : A[i].line # l
      <4>1. M[l][k].ver = st[l]
        BY <1>5, <3>2 DEF Settled, m
      <4> QED
        BY <1>6, <2>1, <4>1
    <3> QED
      BY <3>1, <3>2
  <2>2. ASSUME NEW i \in 1..m, NEW l \in Lines, A[i].line = l
        PROVE  /\ \A k \in Beats : M[l][k].ver <= v[i]
               /\ \A h \in 1..m : i < h /\ A[h].line = l => v[i] <= v[h]
               /\ a.line = l => v[i] <= y
    <3>1. /\ \A k \in Beats : M[l][k].ver <= v[i]
          /\ \A h \in 1..m : i < h /\ A[h].line = l => v[i] <= v[h]
      BY <1>5, <2>2 DEF Rising, m
    <3>2. v[i] <= st[l] /\ v[i] \in Nat
      BY <1>5, <2>2 DEF Newest, m
    <3> QED
      BY <1>6, <3>1, <3>2
  <2> SUFFICES ASSUME NEW i \in 1..(m + 1), NEW l \in Lines, A2[i].line = l
               PROVE  /\ \A k \in Beats : M[l][k].ver <= v2[i]
                      /\ \A h \in 1..(m + 1) : i < h /\ A2[h].line = l => v2[i] <= v2[h]
    BY <1>0, Zenon DEF Rising
  <2>3. CASE i = m + 1
    <3>1. \A h \in 1..(m + 1) : ~(m + 1 < h)
      BY <1>1
    <3> QED
      BY <1>1, <1>2, <2>1, <2>3, <3>1
  <2>4. CASE i \in 1..m
    BY <1>1, <1>2, <1>3, <2>2, <2>4
  <2> QED
    BY <1>3, <2>3, <2>4
<1> QED
  BY <1>1, <1>2, <1>5, <1>7, <1>8, <1>9, <1>10 DEF Mem, A2, v2

(* What the fabric writes for the oldest address.                          *)
Stored(A, bt, M, v, M2) ==
    \A l \in Lines, k \in Beats :
        M2[l][k] = IF A[1].line = l /\ k = bt THEN [ver |-> v[1], word |-> bt] ELSE M[l][k]

(* A write of the oldest address does not lower a version.                 *)
LEMMA StoredRises ==
    ASSUME NEW A \in Seq(AwSet), NEW bt \in Nat, NEW M \in MemSet, NEW M2,
           NEW v \in [1..Len(A) -> Nat], A # <<>>, Rising(A, M, v), Words(M),
           Stored(A, bt, M, v, M2)
    PROVE  /\ \A l \in Lines, k \in Beats : M[l][k].ver <= M2[l][k].ver /\ M2[l][k].ver \in Nat
           /\ Words(M2) /\ Rising(A, M2, v)
<1>1. Len(A) \in Nat \ {0} /\ 1 \in 1..Len(A) /\ v[1] \in Nat
  BY TailFacts
<1>2. ASSUME NEW l \in Lines, NEW k \in Beats
      PROVE  /\ M[l][k].ver <= M2[l][k].ver /\ M2[l][k].ver \in Nat /\ M2[l][k].word = k
             /\ M2[l][k].ver = M[l][k].ver \/ (A[1].line = l /\ M2[l][k].ver = v[1])
  <2>1. M[l][k].ver \in Nat
    BY DEF MemSet
  <2>2. CASE A[1].line = l /\ k = bt
    <3>1. M2[l][k] = [ver |-> v[1], word |-> bt]
      BY <2>2 DEF Stored
    <3>2. M[l][k].ver <= v[1]
      BY <1>1, <2>2 DEF Rising
    <3> QED
      BY <1>1, <2>2, <3>1, <3>2
  <2>3. CASE ~(A[1].line = l /\ k = bt)
    <3>1. M2[l][k] = M[l][k]
      BY <2>3 DEF Stored
    <3> QED
      BY <2>1, <3>1 DEF Words
  <2> QED
    BY <2>2, <2>3
<1>3. Rising(A, M2, v)
  <2> SUFFICES ASSUME NEW i \in 1..Len(A), NEW l \in Lines, A[i].line = l
               PROVE  /\ \A k \in Beats : M2[l][k].ver <= v[i]
                      /\ \A h \in 1..Len(A) : i < h /\ A[h].line = l => v[i] <= v[h]
    BY DEF Rising
  <2>1. /\ \A k \in Beats : M[l][k].ver <= v[i]
        /\ \A h \in 1..Len(A) : i < h /\ A[h].line = l => v[i] <= v[h]
    BY DEF Rising
  <2>2. A[1].line = l => v[1] <= v[i]
    <3>1. CASE i = 1
      BY <1>1, <3>1
    <3>2. CASE i # 1
      <4>1. 1 < i
        BY <1>1, <3>2
      <4> QED
        BY <1>1, <4>1 DEF Rising
    <3> QED
      BY <3>1, <3>2
  <2> QED
    BY <1>2, <2>1, <2>2
<1> QED
  BY <1>2, <1>3 DEF Words

(* The fabric writes a beat that is not the last of its address.           *)
LEMMA MemBeat ==
    ASSUME NEW A \in Seq(AwSet), NEW bt \in Nat, NEW M \in MemSet, NEW st, NEW v, NEW M2,
           A # <<>>, Mem(A, bt, M, st, v), Stored(A, bt, M, v, M2)
    PROVE  Mem(A, bt + 1, M2, st, v)
<1>1. v \in [1..Len(A) -> Nat] /\ Words(M) /\ HeadWritten(A, bt, M, v) /\ Settled(A, M, st)
      /\ Newest(A, st, v) /\ Rising(A, M, v)
  BY DEF Mem
<1>2. Words(M2) /\ Rising(A, M2, v)
  BY <1>1, StoredRises
<1>3. HeadWritten(A, bt + 1, M2, v)
  <2> SUFFICES ASSUME NEW l \in Lines, NEW k \in Beats, Len(A) # 0, A[1].line = l, k < bt + 1
               PROVE  M2[l][k].ver = v[1]
    BY DEF HeadWritten
  <2>1. k < bt \/ k = bt
    BY CcoreAssumption DEF Beats
  <2>2. CASE k = bt
    BY <2>2 DEF Stored
  <2>3. CASE k < bt /\ k # bt
    <3>1. M[l][k].ver = v[1]
      BY <1>1, <2>3 DEF HeadWritten
    <3>2. M2[l][k] = M[l][k]
      BY <2>3 DEF Stored
    <3> QED
      BY <3>1, <3>2
  <2> QED
    BY <2>1, <2>2, <2>3
<1>4. Settled(A, M2, st)
  <2> SUFFICES ASSUME NEW l \in Lines, \A i \in 1..Len(A) : A[i].line # l, NEW k \in Beats
               PROVE  M2[l][k].ver = st[l]
    BY DEF Settled
  <2>1. 1 \in 1..Len(A)
    BY TailFacts
  <2>2. M2[l][k] = M[l][k]
    BY <2>1 DEF Stored
  <2> QED
    BY <1>1, <2>2 DEF Settled
<1> QED
  BY <1>1, <1>2, <1>3, <1>4 DEF Mem

(* After the last beat of a line, memory holds the line whole.             *)
LEMMA LineWhole ==
    ASSUME NEW A \in Seq(AwSet), NEW bt \in Nat, NEW M, NEW v, NEW M2,
           A # <<>>, HeadWritten(A, bt, M, v), Stored(A, bt, M, v, M2), bt = A[1].len
    PROVE  \A l \in Lines, k \in Beats : A[1].line = l => M2[l][k].ver = v[1]
<1> SUFFICES ASSUME NEW l \in Lines, NEW k \in Beats, A[1].line = l
             PROVE  M2[l][k].ver = v[1]
  OBVIOUS
<1>1. A[1] \in AwSet /\ Len(A) # 0
  BY TailFacts
<1>2. bt = DBLOCKS - 1
  BY <1>1, AwFacts
<1>3. k < bt \/ k = bt
  BY <1>2, CcoreAssumption DEF Beats
<1>4. CASE k = bt
  BY <1>4 DEF Stored
<1>5. CASE k < bt /\ k # bt
  <2>1. M[l][k].ver = v[1]
    BY <1>1, <1>5 DEF HeadWritten
  <2>2. M2[l][k] = M[l][k]
    BY <1>5 DEF Stored
  <2> QED
    BY <2>1, <2>2
<1> QED
  BY <1>3, <1>4, <1>5

(* The fabric writes the last beat of an address.                          *)
LEMMA MemAddress ==
    ASSUME NEW A \in Seq(AwSet), NEW bt \in Nat, NEW M \in MemSet, NEW st, NEW v, NEW M2,
           A # <<>>, Mem(A, bt, M, st, v), Stored(A, bt, M, v, M2), bt = A[1].len
    PROVE  Mem(Tail(A), 0, M2, st, Dropped(A, v))
<1> DEFINE m == Len(A)
           A2 == Tail(A)
           v2 == Dropped(A, v)
<1>1. /\ m \in Nat \ {0} /\ Len(A2) = m - 1 /\ \A i \in 1..(m - 1) : A2[i] = A[i + 1]
      /\ A[1] \in AwSet
  BY TailFacts
<1>0. Len(A2) = m - 1
  BY <1>1
<1>2. v \in [1..m -> Nat] /\ Words(M) /\ HeadWritten(A, bt, M, v) /\ Settled(A, M, st)
      /\ Newest(A, st, v) /\ Rising(A, M, v)
  BY DEF Mem
<1>3. Words(M2) /\ Rising(A, M2, v)
  BY <1>2, StoredRises
<1>10. \A l \in Lines, k \in Beats : A[1].line = l => M2[l][k].ver = v[1]
  BY <1>2, LineWhole
<1>4. /\ \A i \in 1..(m - 1) : v2[i] = v[i + 1] /\ i + 1 \in 1..m
      /\ \A i \in 1..m : i = 1 \/ (i - 1 \in 1..(m - 1) /\ (i - 1) + 1 = i)
  BY <1>1 DEF Dropped
<1>5. v2 \in [1..(m - 1) -> Nat]
  BY <1>1, <1>2, <1>4 DEF Dropped
<1> HIDE DEF m, A2, v2
<1>6. HeadWritten(A2, 0, M2, v2)
  BY CcoreAssumption DEF HeadWritten, Beats
<1>7. Newest(A2, st, v2)
  <2> SUFFICES ASSUME NEW i \in 1..(m - 1), NEW l \in Lines, A2[i].line = l
               PROVE  /\ v2[i] <= st[l]
                      /\ (\A h \in 1..(m - 1) : i < h => A2[h].line # l) => v2[i] = st[l]
    BY <1>0 DEF Newest
  <2>1. i + 1 \in 1..m /\ A[i + 1].line = l /\ v2[i] = v[i + 1]
    BY <1>1, <1>4
  <2>2. /\ v[i + 1] <= st[l]
        /\ (\A h \in 1..m : i + 1 < h => A[h].line # l) => v[i + 1] = st[l]
    BY <1>2, <2>1 DEF Newest, m
  <2>3. ASSUME \A h \in 1..(m - 1) : i < h => A2[h].line # l,
               NEW h \in 1..m, i + 1 < h
        PROVE  A[h].line # l
    <3>1. h - 1 \in 1..(m - 1) /\ (h - 1) + 1 = h /\ i < h - 1
      BY <1>1, <2>3
    <3>2. A2[h - 1] = A[h]
      BY <1>1, <3>1
    <3> QED
      BY <2>3, <3>1, <3>2
  <2> QED
    BY <2>1, <2>2, <2>3
<1>8. Rising(A2, M2, v2)
  <2> SUFFICES ASSUME NEW i \in 1..(m - 1), NEW l \in Lines, A2[i].line = l
               PROVE  /\ \A k \in Beats : M2[l][k].ver <= v2[i]
                      /\ \A h \in 1..(m - 1) : i < h /\ A2[h].line = l => v2[i] <= v2[h]
    BY <1>0, Zenon DEF Rising
  <2>1. i + 1 \in 1..m /\ A[i + 1].line = l /\ v2[i] = v[i + 1]
    BY <1>1, <1>4
  <2>2. /\ \A k \in Beats : M2[l][k].ver <= v[i + 1]
        /\ \A h \in 1..m : i + 1 < h /\ A[h].line = l => v[i + 1] <= v[h]
    BY <1>3, <2>1 DEF Rising, m
  <2>3. ASSUME NEW h \in 1..(m - 1), i < h, A2[h].line = l PROVE v2[i] <= v2[h]
    <3>1. h + 1 \in 1..m /\ i + 1 < h + 1 /\ A[h + 1].line = l /\ v2[h] = v[h + 1]
      BY <1>1, <1>4, <2>3
    <3> QED
      BY <2>1, <2>2, <3>1
  <2> QED
    BY <2>1, <2>2, <2>3
<1>9. Settled(A2, M2, st)
  <2> SUFFICES ASSUME NEW l \in Lines, \A i \in 1..(m - 1) : A2[i].line # l, NEW k \in Beats
               PROVE  M2[l][k].ver = st[l]
    BY <1>0, Zenon DEF Settled
  <2>1. ASSUME NEW i \in 1..m, i # 1 PROVE A[i].line # l
    <3>1. i - 1 \in 1..(m - 1) /\ (i - 1) + 1 = i
      BY <1>4, <2>1
    <3>2. A2[i - 1] = A[i]
      BY <1>1, <3>1
    <3> QED
      BY <3>1, <3>2
  <2>2. CASE A[1].line # l
    <3>1. \A i \in 1..m : A[i].line # l
      BY <2>1, <2>2
    <3>2. M[l][k].ver = st[l]
      BY <1>2, <3>1 DEF Settled, m
    <3>3. M2[l][k] = M[l][k]
      BY <2>2 DEF Stored
    <3> QED
      BY <3>2, <3>3
  <2>3. CASE A[1].line = l
    <3>4. 1 \in 1..m /\ \A h \in 1..m : 1 < h => h # 1
      BY <1>1
    <3>5. v[1] = st[l]
      BY <1>2, <2>1, <2>3, <3>4 DEF Newest, m
    <3> QED
      BY <1>10, <2>3, <3>5
  <2> QED
    BY <2>2, <2>3
<1> QED
  BY <1>1, <1>3, <1>5, <1>6, <1>7, <1>8, <1>9 DEF Mem, A2, v2

(***************************************************************************)
(* The reads.  What a read x of a line must return is in memory or on its  *)
(* way there in a write that was sent whole before x; dn counts the writes *)
(* the fabric has completed.                                               *)
(***************************************************************************)
ArSet == [id : {0}, line : Lines, want : Nat, after : Nat]
         \union [id : {1}, line : {-1}, want : {0}, after : Nat]

Served(x, A, M, dn, v) ==
    x.id = 0 =>
        \/ \A k \in Beats : x.want <= M[x.line][k].ver
        \/ \E i \in 1..Len(A) : A[i].line = x.line /\ x.want <= v[i] /\ dn + i <= x.after

LEMMA ArFacts ==
    ASSUME NEW x \in ArSet
    PROVE  /\ x.id \in {0, 1} /\ x.want \in Nat /\ x.after \in Nat
           /\ x.id = 0 => x.line \in Lines
BY DEF ArSet

(* A write enters the channel.                                             *)
LEMMA ServedAppend ==
    ASSUME NEW A \in Seq(AwSet), NEW a \in AwSet, NEW M, NEW dn, NEW v, NEW y, NEW x,
           Served(x, A, M, dn, v)
    PROVE  Served(x, Append(A, a), M, dn, Added(A, v, y))
<1>1. Len(A) \in Nat /\ Len(Append(A, a)) = Len(A) + 1
      /\ \A i \in 1..Len(A) : Append(A, a)[i] = A[i]
  BY AppendFacts
<1>2. \A i \in 1..Len(A) : Added(A, v, y)[i] = v[i] /\ i \in 1..Len(Append(A, a))
  BY <1>1 DEF Added
<1> QED
  BY <1>1, <1>2 DEF Served

(* The fabric writes a beat.                                               *)
LEMMA ServedBeat ==
    ASSUME NEW A \in Seq(AwSet), NEW bt \in Nat, NEW M \in MemSet, NEW dn, NEW v, NEW M2,
           NEW st, NEW x \in ArSet,
           A # <<>>, Mem(A, bt, M, st, v), Stored(A, bt, M, v, M2), Served(x, A, M, dn, v)
    PROVE  Served(x, A, M2, dn, v)
<1>1. \A l \in Lines, k \in Beats : M[l][k].ver <= M2[l][k].ver /\ M2[l][k].ver \in Nat
  BY StoredRises DEF Mem
<1>2. \A l \in Lines, k \in Beats : M[l][k].ver \in Nat
  BY DEF MemSet
<1>3. x.want \in Nat /\ (x.id = 0 => x.line \in Lines)
  BY ArFacts
<1>4. ASSUME x.id = 0, \A k \in Beats : x.want <= M[x.line][k].ver
      PROVE  \A k \in Beats : x.want <= M2[x.line][k].ver
  BY <1>1, <1>2, <1>3, <1>4
<1> QED
  BY <1>4 DEF Served

(* The fabric completes a write.                                           *)
LEMMA ServedAddress ==
    ASSUME NEW A \in Seq(AwSet), NEW bt \in Nat, NEW M \in MemSet, NEW dn \in Nat, NEW v,
           NEW M2, NEW st, NEW x \in ArSet, bt = A[1].len,
           A # <<>>, Mem(A, bt, M, st, v), Stored(A, bt, M, v, M2), Served(x, A, M, dn, v)
    PROVE  Served(x, Tail(A), M2, dn + 1, Dropped(A, v))
<1> SUFFICES ASSUME x.id = 0
             PROVE  \/ \A k \in Beats : x.want <= M2[x.line][k].ver
                    \/ \E i \in 1..Len(Tail(A)) :
                         /\ Tail(A)[i].line = x.line /\ x.want <= Dropped(A, v)[i]
                         /\ (dn + 1) + i <= x.after
  BY DEF Served
<1>1. Served(x, A, M2, dn, v)
  BY ServedBeat
<1>2. x.want \in Nat /\ x.line \in Lines /\ x.after \in Nat
  BY ArFacts
<1>3. CASE \A k \in Beats : x.want <= M2[x.line][k].ver
  BY <1>3
<1>4. ASSUME NEW i \in 1..Len(A), A[i].line = x.line, x.want <= v[i], dn + i <= x.after
      PROVE  \/ \A k \in Beats : x.want <= M2[x.line][k].ver
             \/ \E j \in 1..Len(Tail(A)) :
                  /\ Tail(A)[j].line = x.line /\ x.want <= Dropped(A, v)[j]
                  /\ (dn + 1) + j <= x.after
  <2>1. CASE i = 1
    <3>1. \A k \in Beats : M2[x.line][k].ver = v[1]
      BY <1>2, <1>4, <2>1, LineWhole DEF Mem
    <3> QED
      BY <1>4, <2>1, <3>1
  <2>2. CASE i # 1
    <3>1. Len(A) \in Nat /\ Len(Tail(A)) = Len(A) - 1
          /\ \A j \in 1..(Len(A) - 1) : Tail(A)[j] = A[j + 1]
      BY TailFacts
    <3>2. PICK j : j = i - 1
      OBVIOUS
    <3>3. j \in 1..(Len(A) - 1) /\ j + 1 = i /\ (dn + 1) + j <= x.after
      BY <1>2, <1>4, <2>2, <3>1, <3>2
    <3>4. Dropped(A, v)[j] = v[i] /\ Tail(A)[j] = A[i]
      BY <3>1, <3>3 DEF Dropped
    <3> QED
      BY <1>4, <3>1, <3>3, <3>4
  <2> QED
    BY <2>1, <2>2
<1> QED
  BY <1>1, <1>3, <1>4 DEF Served

(* A set of positions that is not empty has a last one.                    *)
LEMMA LastPosition ==
    ASSUME NEW n \in Nat, NEW S, S \subseteq 1..n, S # {}
    PROVE  \E i \in S : \A j \in S : j <= i
<1> DEFINE T == {n - i : i \in S}
<1>0. \A i \in S : n - i \in Nat
  OBVIOUS
<1>1. T \subseteq Nat /\ T # {}
  BY <1>0, Zenon
<1>2. PICK t \in T : \A u \in T : t <= u
  BY <1>1, LeastNatural
<1>3. PICK i \in S : t = n - i
  OBVIOUS
<1>4. ASSUME NEW j \in S PROVE j <= i
  <2>1. n - i <= n - j
    BY <1>2, <1>3
  <2>2. i \in Nat /\ j \in Nat
    OBVIOUS
  <2> QED
    BY <2>1, <2>2
<1> QED
  BY <1>4

(* The writes sent whole are those completed and those in the channel, but *)
(* for the one being sent.                                                 *)
Counted(n, dn, A, bc) == n + (IF bc # 0 THEN 1 ELSE 0) = dn + Len(A)

(* A read the core lets pass.  If a burst is being sent it is not of the   *)
(* line that is read, so the newest write of the line was sent whole.      *)
LEMMA ServedNew ==
    ASSUME NEW A \in Seq(AwSet), NEW bt, NEW M, NEW st \in [Lines -> Nat], NEW dn \in Nat,
           NEW v, Mem(A, bt, M, st, v), NEW l \in Lines, NEW n \in Nat, NEW bc,
           bc # 0 => A[Len(A)].line # l,
           Counted(n, dn, A, bc)
    PROVE  Served([id |-> 0, line |-> l, want |-> st[l], after |-> n], A, M, dn, v)
<1> DEFINE S == {i \in 1..Len(A) : A[i].line = l}
           m == Len(A)
<1>1. m \in Nat
  OBVIOUS
<1>2. v \in [1..m -> Nat] /\ Settled(A, M, st) /\ Newest(A, st, v)
  BY DEF Mem
<1>3. CASE S = {}
  <2>1. \A k \in Beats : M[l][k].ver = st[l]
    BY <1>2, <1>3 DEF Settled
  <2> QED
    BY <2>1 DEF Served
<1>4. CASE S # {}
  <2>1. PICK i \in S : \A j \in S : j <= i
    BY <1>1, <1>4, LastPosition
  <2>2. i \in 1..m /\ A[i].line = l /\ \A h \in 1..m : i < h => A[h].line # l
    BY <1>1, <2>1
  <2>3. v[i] = st[l]
    BY <1>2, <2>2 DEF Newest
  <2>4. bc # 0 => i # m
    BY <2>2
  <2> HIDE DEF m
  <2>5. n + (IF bc # 0 THEN 1 ELSE 0) = dn + m
    BY DEF Counted, m
  <2>6. dn + i <= n
    BY <1>1, <2>2, <2>4, <2>5
  <2> QED
    BY <2>2, <2>3, <2>6 DEF Served, m
<1> QED
  BY <1>3, <1>4

(***************************************************************************)
(* The eviction FIFO E holds versions of a line in rising order, none of   *)
(* them older than the one last begun and none newer than the last one vr  *)
(* the data cache evicted.                                                 *)
(***************************************************************************)
Queued(E, st, vr) ==
    /\ \A l \in Lines : st[l] <= vr[l]
    /\ \A j \in 1..Len(E) : st[E[j].line] <= E[j].ver /\ E[j].ver <= vr[E[j].line]
    /\ \A j, h \in 1..Len(E) : j < h /\ E[j].line = E[h].line => E[j].ver <= E[h].ver

LEMMA EntryFacts ==
    ASSUME NEW E \in Evictions, NEW j \in 1..Len(E)
    PROVE  E[j].line \in Lines /\ E[j].ver \in Nat
<1>1. E[j] \in [line : Lines, ver : Nat]
  BY ElementOfSeq DEF Evictions
<1> QED
  BY <1>1

(* The data cache evicts a line.                                           *)
LEMMA QueuedAppend ==
    ASSUME NEW E \in Evictions, NEW st \in [Lines -> Nat], NEW vr \in [Lines -> Nat],
           Queued(E, st, vr), NEW l \in Lines
    PROVE  Queued(Append(E, [line |-> l, ver |-> vr[l] + 1]), st, [vr EXCEPT ![l] = @ + 1])
<1> DEFINE n == Len(E)
           e == [line |-> l, ver |-> vr[l] + 1]
           E2 == Append(E, e)
           vr2 == [vr EXCEPT ![l] = @ + 1]
<1>1. n \in Nat /\ Len(E2) = n + 1 /\ E2[n + 1] = e /\ \A i \in 1..n : E2[i] = E[i]
  BY AppendFacts DEF Evictions
<1>2. /\ \A k \in Lines : vr2[k] \in Nat /\ vr[k] \in Nat /\ st[k] \in Nat /\ vr[k] <= vr2[k]
      /\ vr2[l] = vr[l] + 1 /\ e.line = l /\ e.ver = vr[l] + 1
  OBVIOUS
<1>3. /\ \A k \in Lines : st[k] <= vr[k]
      /\ \A j \in 1..n : st[E[j].line] <= E[j].ver /\ E[j].ver <= vr[E[j].line]
      /\ \A j, h \in 1..n : j < h /\ E[j].line = E[h].line => E[j].ver <= E[h].ver
  BY DEF Queued
<1>4. \A j \in 1..n : E[j].line \in Lines /\ E[j].ver \in Nat
  BY EntryFacts
<1>5. \A j \in 1..(n + 1) : j \in 1..n \/ j = n + 1
  BY <1>1
<1> HIDE DEF n, e, E2, vr2
<1>6. ASSUME NEW k \in Lines PROVE st[k] <= vr2[k]
  <2>1. st[k] <= vr[k] /\ vr[k] <= vr2[k] /\ vr2[k] \in Nat /\ vr[k] \in Nat /\ st[k] \in Nat
    BY <1>2, <1>3
  <2> QED
    BY <2>1
<1>7. ASSUME NEW j \in 1..(n + 1)
      PROVE  st[E2[j].line] <= E2[j].ver /\ E2[j].ver <= vr2[E2[j].line]
  <2>1. CASE j = n + 1
    <3>1. E2[j].line = l /\ E2[j].ver = vr[l] + 1
      BY <1>1, <1>2, <2>1
    <3>2. st[l] <= vr[l] /\ vr[l] \in Nat /\ st[l] \in Nat
      BY <1>2, <1>3
    <3> QED
      BY <1>2, <3>1, <3>2
  <2>2. CASE j \in 1..n
    <3>1. E2[j] = E[j] /\ E[j].line \in Lines /\ E[j].ver \in Nat
      BY <1>1, <1>4, <2>2
    <3>2. st[E[j].line] <= E[j].ver /\ E[j].ver <= vr[E[j].line]
      BY <1>3, <2>2
    <3>3. vr[E[j].line] \in Nat /\ vr2[E[j].line] \in Nat /\ vr[E[j].line] <= vr2[E[j].line]
      BY <1>2, <3>1
    <3> QED
      BY <3>1, <3>2, <3>3
  <2> QED
    BY <1>5, <2>1, <2>2
<1>8. ASSUME NEW j \in 1..(n + 1), NEW h \in 1..(n + 1), j < h, E2[j].line = E2[h].line
      PROVE  E2[j].ver <= E2[h].ver
  <2>1. j \in 1..n
    BY <1>1, <1>8
  <2>2. CASE h \in 1..n
    BY <1>1, <1>3, <1>8, <2>1, <2>2
  <2>3. CASE h = n + 1
    <3>1. E2[h].line = l /\ E2[h].ver = vr[l] + 1
      BY <1>1, <1>2, <2>3
    <3>2. E2[j] = E[j] /\ E[j].ver <= vr[E[j].line] /\ E[j].ver \in Nat
      BY <1>1, <1>3, <1>4, <2>1
    <3>3. E[j].line = l
      BY <1>8, <3>1, <3>2
    <3> QED
      BY <1>2, <3>1, <3>2, <3>3
  <2> QED
    BY <1>5, <2>2, <2>3
<1>9. Queued(E2, st, vr2)
  BY <1>1, <1>6, <1>7, <1>8 DEF Queued
<1> QED
  BY <1>9 DEF E2, e, vr2

(* A line leaves the FIFO.                                                 *)
LEMMA QueuedTail ==
    ASSUME NEW E \in Evictions, E # <<>>, NEW st, NEW vr, Queued(E, st, vr)
    PROVE  Queued(Tail(E), st, vr)
<1>1. /\ Len(E) \in Nat /\ Len(Tail(E)) = Len(E) - 1
      /\ \A i \in 1..(Len(E) - 1) : Tail(E)[i] = E[i + 1]
  BY TailFacts DEF Evictions
<1>2. \A i \in 1..(Len(E) - 1) : i + 1 \in 1..Len(E)
  BY <1>1
<1>3. ASSUME NEW j \in 1..(Len(E) - 1)
      PROVE  st[Tail(E)[j].line] <= Tail(E)[j].ver /\ Tail(E)[j].ver <= vr[Tail(E)[j].line]
  BY <1>1, <1>2 DEF Queued
<1>4. ASSUME NEW j \in 1..(Len(E) - 1), NEW h \in 1..(Len(E) - 1), j < h,
             Tail(E)[j].line = Tail(E)[h].line
      PROVE  Tail(E)[j].ver <= Tail(E)[h].ver
  <2>1. j + 1 \in 1..Len(E) /\ h + 1 \in 1..Len(E) /\ j + 1 < h + 1
    BY <1>1, <1>2, <1>4
  <2>2. Tail(E)[j] = E[j + 1] /\ Tail(E)[h] = E[h + 1]
    BY <1>1
  <2> QED
    BY <1>4, <2>1, <2>2 DEF Queued
<1> QED
  BY <1>1, <1>3, <1>4 DEF Queued

(* The oldest line of the FIFO is begun.                                   *)
LEMMA QueuedStart ==
    ASSUME NEW E \in Evictions, E # <<>>, NEW st \in [Lines -> Nat], NEW vr \in [Lines -> Nat],
           Queued(E, st, vr)
    PROVE  /\ Queued(E, [st EXCEPT ![Head(E).line] = Head(E).ver], vr)
           /\ st[Head(E).line] <= Head(E).ver
           /\ Head(E).line \in Lines /\ Head(E).ver \in Nat
<1> DEFINE l == Head(E).line
           y == Head(E).ver
           st2 == [st EXCEPT ![l] = y]
<1>1. Len(E) \in Nat /\ 1 \in 1..Len(E) /\ Head(E) = E[1]
  BY TailFacts DEF Evictions
<1>2. l \in Lines /\ y \in Nat /\ st[l] <= y /\ y <= vr[l]
  BY <1>1, EntryFacts DEF Queued
<1>3. \A k \in Lines : st2[k] = IF k = l THEN y ELSE st[k]
  BY <1>2
<1> HIDE DEF l, y, st2
<1>4. \A k \in Lines : st2[k] <= vr[k]
  BY <1>2, <1>3 DEF Queued
<1>5. ASSUME NEW j \in 1..Len(E)
      PROVE  st2[E[j].line] <= E[j].ver /\ E[j].ver <= vr[E[j].line]
  <2>1. st[E[j].line] <= E[j].ver /\ E[j].ver <= vr[E[j].line] /\ E[j].line \in Lines
        /\ E[j].ver \in Nat
    BY EntryFacts DEF Queued
  <2>2. CASE E[j].line = l
    <3>1. y <= E[j].ver
      <4>1. CASE j = 1
        BY <1>1, <2>1, <4>1 DEF y
      <4>2. CASE j # 1
        <5>1. 1 < j
          BY <1>1, <4>2
        <5> QED
          BY <1>1, <2>2, <5>1 DEF Queued, y, l
      <4> QED
        BY <4>1, <4>2
    <3> QED
      BY <1>3, <2>1, <2>2, <3>1
  <2>3. CASE E[j].line # l
    BY <1>3, <2>1, <2>3
  <2> QED
    BY <2>2, <2>3
<1>6. Queued(E, st2, vr)
  BY <1>4, <1>5 DEF Queued
<1> QED
  BY <1>2, <1>6 DEF l, y, st2

(***************************************************************************)
(* The I/O operation.  S is the request channel and T the response channel *)
(* of its kind k; x is io.  At most one entry of the two is of an I/O      *)
(* operation, and write-back waits for it.                                 *)
(***************************************************************************)
Waiting(k) == [kind |-> k, state |-> "wait"]

One(S, T, x, k) ==
    /\ \A i, j \in 1..Len(S) : S[i].id = 1 /\ S[j].id = 1 => i = j
    /\ \A i, j \in 1..Len(T) : T[i].id = 1 /\ T[j].id = 1 => i = j
    /\ \A i \in 1..Len(S), j \in 1..Len(T) : S[i].id # 1 \/ T[j].id # 1
    /\ \A i \in 1..Len(S) : S[i].id = 1 => x = Waiting(k)
    /\ \A j \in 1..Len(T) : T[j].id = 1 => x = Waiting(k)

(* Without an operation of this kind the channels hold no I/O entry.       *)
LEMMA OneNone ==
    ASSUME NEW S, NEW T, NEW x, NEW k, One(S, T, x, k), x # Waiting(k), NEW y
    PROVE  One(S, T, y, k)
BY DEF One

(* The request of an operation is sent.                                    *)
LEMMA OneSend ==
    ASSUME NEW D, NEW S \in Seq(D), NEW T, NEW x, NEW k, One(S, T, x, k), x # Waiting(k),
           NEW e \in D
    PROVE  One(Append(S, e), T, Waiting(k), k)
<1>1. Len(S) \in Nat /\ Len(Append(S, e)) = Len(S) + 1
      /\ \A i \in 1..Len(S) : Append(S, e)[i] = S[i]
  BY AppendFacts
<1>2. \A i \in 1..(Len(S) + 1) : i \in 1..Len(S) \/ i = Len(S) + 1
  BY <1>1
<1>3. \A i \in 1..Len(S) : Append(S, e)[i].id # 1
  BY <1>1 DEF One
<1>4. \A j \in 1..Len(T) : T[j].id # 1
  BY DEF One
<1>5. \A i \in 1..Len(Append(S, e)) : Append(S, e)[i].id = 1 => i = Len(S) + 1
  BY <1>1, <1>2, <1>3
<1> QED
  BY <1>4, <1>5, Zenon DEF One

(* A request for a line is sent.                                           *)
LEMMA OneOther ==
    ASSUME NEW D, NEW S \in Seq(D), NEW T, NEW x, NEW k, One(S, T, x, k),
           NEW e \in D, e.id = 0
    PROVE  One(Append(S, e), T, x, k)
<1>1. Len(S) \in Nat /\ Len(Append(S, e)) = Len(S) + 1 /\ Append(S, e)[Len(S) + 1] = e
      /\ \A i \in 1..Len(S) : Append(S, e)[i] = S[i]
  BY AppendFacts
<1>2. \A i \in 1..(Len(S) + 1) : i \in 1..Len(S) \/ i = Len(S) + 1
  BY <1>1
<1>3. Append(S, e)[Len(S) + 1].id # 1
  BY <1>1
<1>4. \A i \in 1..Len(Append(S, e)) :
          Append(S, e)[i].id = 1 => i \in 1..Len(S) /\ S[i].id = 1
  BY <1>1, <1>2, <1>3
<1>5. /\ \A i, j \in 1..Len(S) : S[i].id = 1 /\ S[j].id = 1 => i = j
      /\ \A i, j \in 1..Len(T) : T[i].id = 1 /\ T[j].id = 1 => i = j
      /\ \A i \in 1..Len(S), j \in 1..Len(T) : S[i].id # 1 \/ T[j].id # 1
      /\ \A i \in 1..Len(S) : S[i].id = 1 => x = Waiting(k)
      /\ \A j \in 1..Len(T) : T[j].id = 1 => x = Waiting(k)
  BY DEF One
<1> QED
  BY <1>4, <1>5, Zenon DEF One

(* A response for a line is returned.                                      *)
LEMMA OnePass ==
    ASSUME NEW D, NEW S, NEW T \in Seq(D), NEW x, NEW k, One(S, T, x, k),
           NEW e \in D, e.id = 0
    PROVE  One(S, Append(T, e), x, k)
<1>1. One(T, S, x, k)
  BY Zenon DEF One
<1>2. One(Append(T, e), S, x, k)
  BY <1>1, OneOther
<1> QED
  BY <1>2, Zenon DEF One

(* An entry leaves the response channel.                                   *)
LEMMA OneTaken ==
    ASSUME NEW D, NEW S, NEW T \in Seq(D), NEW x, NEW k, One(S, T, x, k), T # <<>>
    PROVE  One(S, Tail(T), x, k)
<1>1. Len(T) \in Nat /\ Len(Tail(T)) = Len(T) - 1
      /\ \A i \in 1..(Len(T) - 1) : Tail(T)[i] = T[i + 1]
  BY TailFacts
<1>2. \A i \in 1..Len(Tail(T)) : i + 1 \in 1..Len(T) /\ Tail(T)[i] = T[i + 1]
  BY <1>1
<1>3. ASSUME NEW i \in 1..Len(Tail(T)), NEW j \in 1..Len(Tail(T)),
             Tail(T)[i].id = 1, Tail(T)[j].id = 1
      PROVE  i = j
  <2>1. i + 1 = j + 1
    BY <1>2, <1>3 DEF One
  <2>2. i \in Nat /\ j \in Nat
    BY <1>1
  <2> QED
    BY <2>1, <2>2
<1> QED
  BY <1>2, <1>3 DEF One

(* The answer of an operation is taken.                                    *)
LEMMA OneAnswer ==
    ASSUME NEW D, NEW S, NEW T \in Seq(D), NEW x, NEW k, One(S, T, x, k), T # <<>>,
           T[1].id = 1, NEW y
    PROVE  One(S, Tail(T), y, k) /\ x = Waiting(k)
<1>1. Len(T) \in Nat /\ Len(Tail(T)) = Len(T) - 1 /\ 1 \in 1..Len(T)
      /\ \A i \in 1..(Len(T) - 1) : Tail(T)[i] = T[i + 1]
  BY TailFacts
<1>2. \A i \in 1..Len(Tail(T)) : i + 1 \in 1..Len(T) /\ i + 1 # 1 /\ Tail(T)[i] = T[i + 1]
  BY <1>1
<1>3. \A i \in 1..Len(Tail(T)) : Tail(T)[i].id # 1
  BY <1>1, <1>2 DEF One
<1>4. \A i \in 1..Len(S) : S[i].id # 1
  BY <1>1 DEF One
<1>5. x = Waiting(k)
  BY <1>1 DEF One
<1> QED
  BY <1>3, <1>4, <1>5, Zenon DEF One

(* The fabric answers the oldest request.                                  *)
LEMMA OneMove ==
    ASSUME NEW C, NEW D, NEW S \in Seq(C), NEW T \in Seq(D), NEW x, NEW k, One(S, T, x, k),
           S # <<>>, NEW e \in D, e.id = S[1].id
    PROVE  One(Tail(S), Append(T, e), x, k)
<1>1. One(T, S, x, k)
  BY Zenon DEF One
<1>2. CASE e.id = 1
  <2>0. S[1].id = 1
    BY <1>2
  <2>1. One(T, Tail(S), NoIo, k) /\ x = Waiting(k)
    BY <1>1, <2>0, OneAnswer
  <2>2. NoIo # Waiting(k)
    BY DEF NoIo, Waiting
  <2>3. One(Append(T, e), Tail(S), Waiting(k), k)
    BY <2>1, <2>2, OneSend
  <2> QED
    BY <2>1, <2>3, Zenon DEF One
<1>3. CASE e.id # 1
  <2>1. One(T, Tail(S), x, k)
    BY <1>1, OneTaken
  <2>2. ASSUME NEW i \in 1..Len(Append(T, e)), Append(T, e)[i].id = 1
        PROVE  i \in 1..Len(T) /\ T[i].id = 1
    <3>1. Len(T) \in Nat /\ Len(Append(T, e)) = Len(T) + 1 /\ Append(T, e)[Len(T) + 1] = e
          /\ \A j \in 1..Len(T) : Append(T, e)[j] = T[j]
      BY AppendFacts
    <3>2. i # Len(T) + 1
      BY <1>3, <2>2, <3>1
    <3>3. i \in 1..Len(T)
      BY <3>1, <3>2
    <3> QED
      BY <2>2, <3>1, <3>3
  <2>3. /\ \A i, j \in 1..Len(T) : T[i].id = 1 /\ T[j].id = 1 => i = j
        /\ \A i, j \in 1..Len(Tail(S)) : Tail(S)[i].id = 1 /\ Tail(S)[j].id = 1 => i = j
        /\ \A i \in 1..Len(T), j \in 1..Len(Tail(S)) : T[i].id # 1 \/ Tail(S)[j].id # 1
        /\ \A i \in 1..Len(T) : T[i].id = 1 => x = Waiting(k)
        /\ \A j \in 1..Len(Tail(S)) : Tail(S)[j].id = 1 => x = Waiting(k)
    BY <2>1, Zenon DEF One
  <2> QED
    BY <2>2, <2>3, Zenon DEF One
<1> QED
  BY <1>2, <1>3

(***************************************************************************)
(* What the variables hold.                                                *)
(***************************************************************************)
RSet == [id : {0, 1}, line : Lines \union {-1}, want : Nat, last : BOOLEAN,
         data : [ver : Nat, word : Nat], beat : Beats]
BSet == [id : {0, 1}]
IoSet == [kind : {"none", "read", "write"}, state : {"idle", "request", "wait"}]

RequestTypes ==
    /\ io \in IoSet /\ rd_req \in Seq(Lines) /\ rg_read_line_req \in Seq(Lines)
    /\ sent \in Nat /\ started \in [Lines -> Nat]
ChannelTypes ==
    /\ ar \in Seq(ArSet) /\ aw \in Seq(AwSet) /\ w \in Seq(WSet)
    /\ r \in Seq(RSet) /\ b \in Seq(BSet)
SlaveTypes ==
    /\ mem \in MemSet /\ beat \in Nat /\ rbeat \in Beats /\ done \in Nat
Types == RequestTypes /\ ChannelTypes /\ SlaveTypes

LEMMA TypesInit == Init => Types
<1> SUFFICES ASSUME Init PROVE Types
  OBVIOUS
<1>1. 0 \in Beats /\ \A k \in Beats : k \in Nat
  BY CcoreAssumption DEF Beats
<1>2. mem \in MemSet
  BY <1>1 DEF Init, MemSet
<1>3. io \in IoSet
  BY DEF Init, NoIo, IoSet
<1> QED
  BY <1>1, <1>2, <1>3 DEF Init, Types, RequestTypes, ChannelTypes, SlaveTypes

(* An I/O request leaves write-back.                                       *)
LEMMA InitiateEffect ==
    ASSUME Types, rl_initiate_io
    PROVE  /\ rg_burst_count = 0 /\ io.state = "request"
           /\ UNCHANGED <<cached, evictions, rd_req, regs, r, b, slave, ver, started, ios>>
           /\ \/ /\ io' = Waiting("read")
                 /\ ar' = Append(ar, [id |-> 1, line |-> -1, want |-> 0, after |-> sent])
                 /\ UNCHANGED <<aw, w, sent>>
              \/ /\ io' = Waiting("write")
                 /\ aw' = Append(aw, [id |-> 1, line |-> -1, len |-> 0])
                 /\ w' = Append(w, [id |-> 1, ver |-> 0, word |-> 0, last |-> TRUE])
                 /\ sent' = sent + 1 /\ UNCHANGED ar
<1>1. io' = [io EXCEPT !.state = "wait"] /\ io \in IoSet
  BY DEF rl_initiate_io, Types, RequestTypes
<1>2. io.kind = "read" => io' = Waiting("read")
  BY <1>1 DEF IoSet, Waiting
<1>3. io.kind = "write" => io' = Waiting("write")
  BY <1>1 DEF IoSet, Waiting
<1> QED
  BY <1>2, <1>3, Zenon DEF rl_initiate_io

LEMMA TypesInitiate ==
    ASSUME Types, rl_initiate_io PROVE Types'
<1>1. /\ UNCHANGED <<cached, evictions, rd_req, regs, r, b, slave, ver, started, ios>>
  BY InitiateEffect
<1>2. CASE /\ io' = Waiting("read")
           /\ ar' = Append(ar, [id |-> 1, line |-> -1, want |-> 0, after |-> sent])
           /\ UNCHANGED <<aw, w, sent>>
  <2>1. [id |-> 1, line |-> -1, want |-> 0, after |-> sent] \in ArSet /\ ar \in Seq(ArSet)
    BY DEF ArSet, Types, RequestTypes, ChannelTypes
  <2>2. ar' \in Seq(ArSet)
    BY <1>2, <2>1, AppendFacts
  <2>3. io' \in IoSet
    BY <1>2 DEF IoSet, Waiting
  <2> QED
    BY <1>1, <1>2, <2>2, <2>3 DEF Types, RequestTypes, ChannelTypes, SlaveTypes, slave, regs
<1>3. CASE /\ io' = Waiting("write")
           /\ aw' = Append(aw, [id |-> 1, line |-> -1, len |-> 0])
           /\ w' = Append(w, [id |-> 1, ver |-> 0, word |-> 0, last |-> TRUE])
           /\ sent' = sent + 1 /\ UNCHANGED ar
  <2>1. [id |-> 1, line |-> -1, len |-> 0] \in AwSet /\ aw \in Seq(AwSet)
        /\ [id |-> 1, ver |-> 0, word |-> 0, last |-> TRUE] \in WSet /\ w \in Seq(WSet)
    BY DEF AwSet, WSet, Types, ChannelTypes
  <2>2. aw' \in Seq(AwSet) /\ w' \in Seq(WSet)
    BY <1>3, <2>1, AppendFacts
  <2>3. io' \in IoSet /\ sent' \in Nat
    BY <1>3 DEF IoSet, Waiting, Types, RequestTypes
  <2> QED
    BY <1>1, <1>3, <2>2, <2>3 DEF Types, RequestTypes, ChannelTypes, SlaveTypes, slave, regs
<1> QED
  BY <1>2, <1>3, InitiateEffect

(* A read of a line leaves the core, at once or after a delay.             *)
LEMMA TypesReadSent ==
    ASSUME Types, NEW l \in Lines
    PROVE  LineRead(l) \in ArSet /\ Append(ar, LineRead(l)) \in Seq(ArSet)
<1>1. LineRead(l) \in ArSet
  BY DEF LineRead, ArSet, Types, RequestTypes
<1> QED
  BY <1>1, AppendFacts DEF Types, ChannelTypes

LEMMA TypesReadRequest ==
    ASSUME Types, rl_handle_dmem_line_read_request PROVE Types'
<1>1. rd_req # <<>> /\ rd_req' = Tail(rd_req) /\ rg_read_line_req = <<>>
      /\ UNCHANGED <<io, aw, w, r, b, slave, started, sent>>
  BY DEF rl_handle_dmem_line_read_request
<1>2. Head(rd_req) \in Lines /\ Tail(rd_req) \in Seq(Lines)
  BY <1>1, TailFacts DEF Types, RequestTypes
<1>3. ar' = ar \/ ar' = Append(ar, LineRead(Head(rd_req)))
  BY Zenon DEF rl_handle_dmem_line_read_request
<1>4. ar' \in Seq(ArSet)
  BY <1>2, <1>3, TypesReadSent DEF Types, ChannelTypes
<1>5. rg_read_line_req' = rg_read_line_req \/ rg_read_line_req' = <<Head(rd_req)>>
  BY Zenon DEF rl_handle_dmem_line_read_request
<1>6. rg_read_line_req' \in Seq(Lines)
  <2>1. <<Head(rd_req)>> \in Seq(Lines)
    BY <1>2
  <2> QED
    BY <1>5, <2>1 DEF Types, RequestTypes
<1> QED
  BY <1>1, <1>2, <1>4, <1>6 DEF Types, RequestTypes, ChannelTypes, SlaveTypes, slave

LEMMA TypesDelayedRead ==
    ASSUME Types, rl_handle_delayed_read PROVE Types'
<1>1. rg_read_line_req # <<>> /\ rg_read_line_req' = <<>>
      /\ ar' = Append(ar, LineRead(rg_read_line_req[1]))
      /\ UNCHANGED <<io, rd_req, aw, w, r, b, slave, started, sent>>
  BY DEF rl_handle_delayed_read, dmem
<1>2. rg_read_line_req[1] \in Lines
  BY <1>1, TailFacts DEF Types, RequestTypes
<1>3. ar' \in Seq(ArSet)
  BY <1>1, <1>2, TypesReadSent
<1> QED
  BY <1>1, <1>3 DEF Types, RequestTypes, ChannelTypes, SlaveTypes, slave

(* The first beat of a line and its address enter the write channels.      *)
FirstBeat(e) == [id |-> 0, ver |-> e.ver, word |-> 0, last |-> FALSE]
LineWrite(e) == [id |-> 0, line |-> e.line, len |-> DBLOCKS - 1]

LEMMA WriteRequestEffect ==
    ASSUME IInv, Types, rl_handle_dmem_write_request
    PROVE  /\ rg_burst_count = 0 /\ evictions # <<>> /\ rg_burst_count' = 1
           /\ aw' = Append(aw, LineWrite(Head(evictions)))
           /\ w' = Append(w, FirstBeat(Head(evictions)))
           /\ started' = [started EXCEPT ![Head(evictions).line] = Head(evictions).ver]
           /\ Head(evictions).line \in Lines /\ Head(evictions).ver \in Nat
           /\ LineWrite(Head(evictions)) \in AwSet /\ FirstBeat(Head(evictions)) \in WSet
           /\ UNCHANGED <<dmem, rg_read_line_req, ar, r, b, slave, ver, sent>>
<1>1. /\ rg_burst_count = 0 /\ evictions # <<>>
      /\ aw' = Append(aw, LineWrite(Head(evictions)))
      /\ w' = Append(w, FirstBeat(Head(evictions)))
      /\ started' = [started EXCEPT ![Head(evictions).line] = Head(evictions).ver]
      /\ rg_burst_count' = (rg_burst_count + 1) % 256
      /\ UNCHANGED <<dmem, rg_read_line_req, ar, r, b, slave, ver, sent>>
  BY DEF rl_handle_dmem_write_request, LineWrite, FirstBeat, line_write_id
<1>2. rg_burst_count' = 1
  BY <1>1
<1>3. Head(evictions) \in [line : Lines, ver : Nat]
  BY <1>1, TailFacts DEF IInv, Evictions
<1>4. Head(evictions).line \in Lines /\ Head(evictions).ver \in Nat
  BY <1>3
<1>5. LineWrite(Head(evictions)) \in AwSet
  BY <1>4 DEF LineWrite, AwSet
<1>6. FirstBeat(Head(evictions)) \in WSet
  BY <1>4 DEF FirstBeat, WSet
<1> QED
  BY <1>1, <1>2, <1>4, <1>5, <1>6

LEMMA TypesWriteRequest ==
    ASSUME IInv, Types, rl_handle_dmem_write_request PROVE Types'
<1>0. /\ aw' = Append(aw, LineWrite(Head(evictions))) /\ LineWrite(Head(evictions)) \in AwSet
      /\ w' = Append(w, FirstBeat(Head(evictions))) /\ FirstBeat(Head(evictions)) \in WSet
      /\ aw \in Seq(AwSet) /\ w \in Seq(WSet)
  BY WriteRequestEffect DEF Types, ChannelTypes
<1>1. aw' \in Seq(AwSet) /\ w' \in Seq(WSet)
  BY <1>0, AppendFacts
<1>2. started' \in [Lines -> Nat]
  BY WriteRequestEffect DEF Types, RequestTypes
<1>3. UNCHANGED <<io, rd_req, rg_read_line_req, ar, r, b, slave, sent>>
  BY WriteRequestEffect DEF dmem
<1> QED
  BY <1>1, <1>2, <1>3 DEF Types, RequestTypes, ChannelTypes, SlaveTypes, slave

(* The next beat of the line being written.                                *)
NextBeat == [id |-> 0, ver |-> Head(evictions).ver, word |-> rg_burst_count,
             last |-> rg_burst_count = DBLOCKS - 1]

LEMMA BurstEffect ==
    ASSUME IInv, Types, rl_dmem_burst_write_data
    PROVE  /\ rg_burst_count \in 1..(DBLOCKS - 1) /\ evictions # <<>>
           /\ w' = Append(w, NextBeat) /\ NextBeat \in WSet
           /\ rg_burst_count = DBLOCKS - 1 =>
                rg_burst_count' = 0 /\ evictions' = Tail(evictions) /\ sent' = sent + 1
           /\ rg_burst_count # DBLOCKS - 1 =>
                rg_burst_count' = rg_burst_count + 1 /\ UNCHANGED <<evictions, sent>>
           /\ UNCHANGED <<io, rd_req, rg_read_line_req, ar, aw, r, b, slave, ver, started>>
<1>1. /\ rg_burst_count # 0 /\ rg_burst_count \in Beats
      /\ rg_shift_amount = BeatBits * rg_burst_count /\ evictions # <<>>
  BY DEF IInv, BurstInv, rl_dmem_burst_write_data
<1>2. rg_burst_count \in 1..(DBLOCKS - 1) /\ rg_burst_count \in Nat
  BY <1>1, CcoreAssumption DEF Beats
<1>3. rg_shift_amount \div BeatBits = rg_burst_count
  <2>1. BeatBits \in Nat /\ BeatBits > 0
    BY CcoreAssumption
  <2>2. \A n, c \in Nat : c > 0 => (c * n) \div c = n
    OBVIOUS
  <2> QED
    BY <1>1, <1>2, <2>1, <2>2
<1>4. w' = Append(w, [id |-> 0, ver |-> Head(evictions).ver,
                      word |-> rg_shift_amount \div BeatBits,
                      last |-> rg_burst_count = DBLOCKS - 1])
  BY DEF rl_dmem_burst_write_data
<1>5. w' = Append(w, NextBeat)
  BY <1>3, <1>4 DEF NextBeat
<1>6. Head(evictions) \in [line : Lines, ver : Nat]
  BY <1>1, TailFacts DEF IInv, Evictions
<1>7. Head(evictions).ver \in Nat
  BY <1>6
<1>8. NextBeat \in WSet
  BY <1>2, <1>7 DEF NextBeat, WSet
<1>9. UNCHANGED <<io, rd_req, rg_read_line_req, ar, aw, r, b, slave, ver, started>>
  BY DEF rl_dmem_burst_write_data
<1>10. ASSUME rg_burst_count = DBLOCKS - 1
       PROVE  rg_burst_count' = 0 /\ evictions' = Tail(evictions) /\ sent' = sent + 1
  BY <1>10 DEF rl_dmem_burst_write_data
<1>11. ASSUME rg_burst_count # DBLOCKS - 1
       PROVE  rg_burst_count' = rg_burst_count + 1 /\ UNCHANGED <<evictions, sent>>
  <2>1. rg_burst_count' = (rg_burst_count + 1) % 256 /\ UNCHANGED <<evictions, sent>>
    BY <1>11 DEF rl_dmem_burst_write_data
  <2>2. rg_burst_count + 1 < 256
    BY <1>2, <1>11, CcoreAssumption
  <2> QED
    BY <1>2, <2>1, <2>2
<1> QED
  BY <1>1, <1>2, <1>5, <1>8, <1>9, <1>10, <1>11

LEMMA TypesBurst ==
    ASSUME IInv, Types, rl_dmem_burst_write_data PROVE Types'
<1>1. w' \in Seq(WSet)
  BY BurstEffect, AppendFacts DEF Types, ChannelTypes
<1>2. sent' \in Nat
  BY BurstEffect DEF Types, RequestTypes
<1>3. UNCHANGED <<io, rd_req, rg_read_line_req, ar, aw, r, b, slave, started>>
  BY BurstEffect
<1> QED
  BY <1>1, <1>2, <1>3 DEF Types, RequestTypes, ChannelTypes, SlaveTypes, slave

(* The fabric takes a beat.                                                *)
LEMMA FabricWriteEffect ==
    ASSUME Types, fabric_write
    PROVE  /\ aw # <<>> /\ w # <<>> /\ w' = Tail(w)
           /\ aw[1] \in AwSet /\ w[1] \in WSet
           /\ aw[1].id = 1 => mem' = mem
           /\ aw[1].id = 0 => mem' = [mem EXCEPT ![aw[1].line][beat] =
                                         [ver |-> w[1].ver, word |-> w[1].word]]
           /\ beat = aw[1].len => /\ beat' = 0 /\ aw' = Tail(aw) /\ done' = done + 1
                                  /\ b' = Append(b, [id |-> aw[1].id])
           /\ beat # aw[1].len => beat' = beat + 1 /\ UNCHANGED <<aw, b, done>>
           /\ UNCHANGED <<dmem, regs, ar, r, rbeat, ver, started, sent>>
<1>1. aw # <<>> /\ w # <<>> /\ aw \in Seq(AwSet) /\ w \in Seq(WSet)
  BY DEF fabric_write, Types, ChannelTypes
<1>2. Head(aw) = aw[1] /\ Head(w) = w[1] /\ aw[1] \in AwSet /\ w[1] \in WSet
  BY <1>1, TailFacts
<1>3. w' = Tail(w) /\ UNCHANGED <<dmem, regs, ar, r, rbeat, ver, started, sent>>
  BY DEF fabric_write
<1>4. mem' = IF aw[1].id = 1 THEN mem
             ELSE [mem EXCEPT ![aw[1].line][beat] = [ver |-> w[1].ver, word |-> w[1].word]]
  BY <1>2 DEF fabric_write
<1>5. ASSUME beat = aw[1].len
      PROVE  /\ beat' = 0 /\ aw' = Tail(aw) /\ done' = done + 1
             /\ b' = Append(b, [id |-> aw[1].id])
  BY <1>2, <1>5 DEF fabric_write
<1>6. ASSUME beat # aw[1].len PROVE beat' = beat + 1 /\ UNCHANGED <<aw, b, done>>
  BY <1>2, <1>6 DEF fabric_write
<1> QED
  BY <1>1, <1>2, <1>3, <1>4, <1>5, <1>6

LEMMA TypesFabricWrite ==
    ASSUME Types, fabric_write PROVE Types'
<1>0. w # <<>> /\ w' = Tail(w) /\ w \in Seq(WSet)
  BY FabricWriteEffect DEF Types, ChannelTypes
<1>1. w' \in Seq(WSet)
  BY <1>0, TailFacts
<1>2. mem' \in MemSet
  <2>1. CASE aw[1].id = 1
    BY <2>1, FabricWriteEffect DEF Types, SlaveTypes
  <2>2. CASE aw[1].id # 1
    <3>1. aw[1].id = 0 /\ aw[1].line \in Lines
      BY <2>2, FabricWriteEffect, AwFacts
    <3>2. PICK e : e = [ver |-> w[1].ver, word |-> w[1].word]
      OBVIOUS
    <3>3. w[1] \in WSet
      BY FabricWriteEffect
    <3>4. e \in [ver : Nat, word : Nat]
      BY <3>2, <3>3 DEF WSet
    <3>5. mem' = [mem EXCEPT ![aw[1].line][beat] = e]
      BY <3>1, <3>2, FabricWriteEffect
    <3>6. mem \in MemSet
      BY DEF Types, SlaveTypes
    <3> QED
      BY <3>1, <3>4, <3>5, <3>6 DEF MemSet
  <2> QED
    BY <2>1, <2>2
<1>3. aw' \in Seq(AwSet) /\ b' \in Seq(BSet) /\ beat' \in Nat /\ done' \in Nat
  <2>0. aw \in Seq(AwSet) /\ b \in Seq(BSet) /\ beat \in Nat /\ done \in Nat
    BY DEF Types, ChannelTypes, SlaveTypes
  <2>1. CASE beat = aw[1].len
    <3>1. /\ beat' = 0 /\ aw' = Tail(aw) /\ done' = done + 1 /\ aw # <<>>
          /\ b' = Append(b, [id |-> aw[1].id]) /\ aw[1] \in AwSet
      BY <2>1, FabricWriteEffect
    <3>2. [id |-> aw[1].id] \in BSet
      BY <3>1, AwFacts DEF BSet
    <3>3. b' \in Seq(BSet)
      BY <2>0, <3>1, <3>2, AppendFacts
    <3>4. aw' \in Seq(AwSet)
      BY <2>0, <3>1, TailFacts
    <3> QED
      BY <2>0, <3>1, <3>3, <3>4
  <2>2. CASE beat # aw[1].len
    BY <2>0, <2>2, FabricWriteEffect
  <2> QED
    BY <2>1, <2>2
<1>4. UNCHANGED <<dmem, regs, ar, r, rbeat, started, sent>>
  BY FabricWriteEffect
<1> QED
  BY <1>1, <1>2, <1>3, <1>4 DEF Types, RequestTypes, ChannelTypes, SlaveTypes, dmem, regs

(* The fabric returns a beat.                                              *)
ReturnedLast == ar[1].id = 1 \/ rbeat = DBLOCKS - 1
Returned == [id |-> ar[1].id, line |-> ar[1].line, want |-> ar[1].want, last |-> ReturnedLast,
             data |-> IF ar[1].id = 1 THEN [ver |-> 0, word |-> 0] ELSE mem[ar[1].line][rbeat],
             beat |-> rbeat]

LEMMA FabricReadEffect ==
    ASSUME Types, fabric_read
    PROVE  /\ ar # <<>> /\ ar[1] \in ArSet /\ r' = Append(r, Returned) /\ Returned \in RSet
           /\ OrderedFabric => ar[1].after <= done
           /\ ReturnedLast => rbeat' = 0 /\ ar' = Tail(ar)
           /\ ~ReturnedLast => rbeat' = rbeat + 1 /\ ar' = ar
           /\ UNCHANGED <<dmem, regs, aw, w, b, mem, beat, done, ver, started, sent>>
<1>1. ar # <<>> /\ ar \in Seq(ArSet) /\ mem \in MemSet /\ rbeat \in Beats
  BY DEF fabric_read, Types, ChannelTypes, SlaveTypes
<1>2. Head(ar) = ar[1] /\ ar[1] \in ArSet
  BY <1>1, TailFacts
<1>3. r' = Append(r, Returned)
  BY <1>2, Zenon DEF fabric_read, Returned, ReturnedLast
<1>4. OrderedFabric => ar[1].after <= done
  BY <1>2 DEF fabric_read
<1>5. UNCHANGED <<dmem, regs, aw, w, b, mem, beat, done, ver, started, sent>>
  BY DEF fabric_read
<1>6. /\ rbeat' = IF ReturnedLast THEN 0 ELSE rbeat + 1
      /\ ar' = IF ReturnedLast THEN Tail(ar) ELSE ar
  BY <1>2, Zenon DEF fabric_read, ReturnedLast
<1>7. Returned \in RSet
  <2>1. ar[1].id \in {0, 1} /\ ar[1].want \in Nat /\ (ar[1].id = 0 => ar[1].line \in Lines)
    BY <1>2, ArFacts
  <2>2. ar[1].line \in Lines \union {-1}
    BY <1>2 DEF ArSet
  <2>3. ReturnedLast \in BOOLEAN
    BY DEF ReturnedLast
  <2>4. ASSUME ar[1].id # 1 PROVE mem[ar[1].line][rbeat] \in [ver : Nat, word : Nat]
    BY <1>1, <2>1, <2>4 DEF MemSet
  <2>5. PICK d : d = IF ar[1].id = 1 THEN [ver |-> 0, word |-> 0] ELSE mem[ar[1].line][rbeat]
    OBVIOUS
  <2>6. d \in [ver : Nat, word : Nat]
    BY <2>4, <2>5
  <2>7. Returned = [id |-> ar[1].id, line |-> ar[1].line, want |-> ar[1].want,
                    last |-> ReturnedLast, data |-> d, beat |-> rbeat]
    BY <2>5 DEF Returned
  <2> HIDE DEF ReturnedLast
  <2> QED
    BY <1>1, <2>1, <2>2, <2>3, <2>6, <2>7 DEF RSet
<1> HIDE DEF ReturnedLast, Returned
<1> QED
  BY <1>1, <1>2, <1>3, <1>4, <1>5, <1>6, <1>7

LEMMA TypesFabricRead ==
    ASSUME Types, fabric_read PROVE Types'
<1>1. r' \in Seq(RSet)
  <2>1. r' = Append(r, Returned) /\ Returned \in RSet /\ r \in Seq(RSet)
    BY FabricReadEffect DEF Types, ChannelTypes
  <2> QED
    BY <2>1, AppendFacts
<1>2. ar' \in Seq(ArSet) /\ rbeat' \in Beats
  <2>0. ar # <<>> /\ ar \in Seq(ArSet) /\ rbeat \in Beats
    BY FabricReadEffect DEF Types, ChannelTypes, SlaveTypes
  <2>1. CASE ReturnedLast
    <3>1. rbeat' = 0 /\ ar' = Tail(ar)
      BY <2>1, FabricReadEffect
    <3>2. Tail(ar) \in Seq(ArSet)
      BY <2>0, TailFacts
    <3>3. 0 \in Beats
      BY CcoreAssumption DEF Beats
    <3> QED
      BY <3>1, <3>2, <3>3
  <2>2. CASE ~ReturnedLast
    <3>1. rbeat' = rbeat + 1 /\ ar' = ar
      BY <2>2, FabricReadEffect
    <3>2. rbeat # DBLOCKS - 1
      BY <2>2 DEF ReturnedLast
    <3>3. rbeat + 1 \in Beats
      BY <2>0, <3>2, CcoreAssumption DEF Beats
    <3> QED
      BY <2>0, <3>1, <3>3
  <2> QED
    BY <2>1, <2>2
<1>3. UNCHANGED <<dmem, regs, aw, w, b, mem, beat, done, started, sent>>
  BY FabricReadEffect
<1> QED
  BY <1>1, <1>2, <1>3 DEF Types, RequestTypes, ChannelTypes, SlaveTypes, dmem, regs

(* The responses the core takes.                                           *)
LEMMA TypesResponse ==
    ASSUME Types,
           \/ r # <<>> /\ r' = Tail(r) /\ b' = b
           \/ b # <<>> /\ b' = Tail(b) /\ r' = r,
           io' \in IoSet,
           UNCHANGED <<rd_req, rg_read_line_req, sent, started, ar, aw, w, slave>>
    PROVE  Types'
<1>1. r \in Seq(RSet) /\ b \in Seq(BSet)
  BY DEF Types, ChannelTypes
<1>2. r' \in Seq(RSet) /\ b' \in Seq(BSet)
  BY <1>1, TailFacts
<1> QED
  BY <1>2 DEF Types, RequestTypes, ChannelTypes, SlaveTypes, slave

(* Every step keeps the types.                                             *)
LEMMA TypesNext == IInv /\ Types /\ [Next]_vars => Types'
<1> SUFFICES ASSUME IInv, Types, [Next]_vars PROVE Types'
  OBVIOUS
<1> USE DEF RequestTypes, ChannelTypes, SlaveTypes, slave, channels, regs, dmem
<1>0. NoIo \in IoSet
  BY DEF NoIo, IoSet
<1>1. ASSUME NEW l \in Lines, dmem_fill(l) PROVE Types'
  <2>1. rd_req' \in Seq(Lines)
    BY <1>1, AppendFacts DEF dmem_fill, Types
  <2> QED
    BY <1>1, <2>1 DEF dmem_fill, Types
<1>2. ASSUME NEW l \in Lines, dmem_evict(l) PROVE Types'
  BY <1>2 DEF dmem_evict, Types
<1>3. ASSUME NEW k \in {"read", "write"}, dmem_io(k) PROVE Types'
  <2>1. io' \in IoSet
    BY <1>3 DEF dmem_io, IoSet
  <2> QED
    BY <1>3, <2>1 DEF dmem_io, Types
<1>4. CASE rl_initiate_io
  BY <1>4, TypesInitiate
<1>5. CASE rl_handle_io_read_response
  BY <1>0, <1>5, TypesResponse DEF rl_handle_io_read_response
<1>6. CASE rl_handle_io_write_resp
  BY <1>0, <1>6, TypesResponse DEF rl_handle_io_write_resp
<1>7. CASE rl_handle_dmem_line_read_request
  BY <1>7, TypesReadRequest
<1>8. CASE rl_handle_delayed_read
  BY <1>8, TypesDelayedRead
<1>9. CASE rl_handle_dmem_line_resp
  BY <1>9, TypesResponse DEF rl_handle_dmem_line_resp, Types
<1>10. CASE rl_handle_dmem_write_request
  BY <1>10, TypesWriteRequest
<1>11. CASE rl_dmem_burst_write_data
  BY <1>11, TypesBurst
<1>12. CASE handle_dmem_line_write_resp
  BY <1>12, TypesResponse DEF handle_dmem_line_write_resp, Types
<1>13. CASE fabric_write
  BY <1>13, TypesFabricWrite
<1>14. CASE fabric_read
  BY <1>14, TypesFabricRead
<1>15. CASE UNCHANGED vars
  BY <1>15 DEF vars, Types
<1> QED
  BY <1>1, <1>2, <1>3, <1>4, <1>5, <1>6, <1>7, <1>8, <1>9, <1>10, <1>11, <1>12, <1>13,
     <1>14, <1>15 DEF Next

(***************************************************************************)
(* The I/O answers.                                                        *)
(***************************************************************************)
IoInv == One(ar, r, io, "read") /\ One(aw, b, io, "write")

(* The steps that touch neither io nor the four channels.                  *)
LEMMA IoUntouched ==
    ASSUME IoInv, UNCHANGED <<ar, r, aw, b, io>>
    PROVE  IoInv'
BY DEF IoInv, One

LEMMA IoRequested ==
    ASSUME IoInv, io.state # "wait", UNCHANGED <<ar, r, aw, b>>
    PROVE  IoInv'
<1>1. io # Waiting("read") /\ io # Waiting("write")
  BY DEF Waiting
<1>2. One(ar, r, io', "read") /\ One(aw, b, io', "write")
  BY <1>1, OneNone DEF IoInv
<1> QED
  BY <1>2 DEF IoInv

LEMMA IoInitiated ==
    ASSUME Types, IoInv, rl_initiate_io
    PROVE  IoInv'
<1>1. io.state = "request" /\ UNCHANGED <<r, b>>
  BY InitiateEffect
<1>2. io # Waiting("read") /\ io # Waiting("write")
  BY <1>1 DEF Waiting
<1>3. One(ar, r, io, "read") /\ One(aw, b, io, "write")
      /\ ar \in Seq(ArSet) /\ aw \in Seq(AwSet) /\ sent \in Nat
  BY DEF IoInv, Types, ChannelTypes, RequestTypes
<1>4. CASE /\ io' = Waiting("read")
           /\ ar' = Append(ar, [id |-> 1, line |-> -1, want |-> 0, after |-> sent])
           /\ UNCHANGED <<aw, w, sent>>
  <2>1. [id |-> 1, line |-> -1, want |-> 0, after |-> sent] \in ArSet
    BY <1>3 DEF ArSet
  <2>2. One(ar', r, io', "read")
    BY <1>2, <1>3, <1>4, <2>1, OneSend
  <2>3. One(aw, b, io', "write")
    BY <1>2, <1>3, OneNone
  <2> QED
    BY <1>1, <1>4, <2>2, <2>3 DEF IoInv
<1>5. CASE /\ io' = Waiting("write")
           /\ aw' = Append(aw, [id |-> 1, line |-> -1, len |-> 0])
           /\ w' = Append(w, [id |-> 1, ver |-> 0, word |-> 0, last |-> TRUE])
           /\ sent' = sent + 1 /\ UNCHANGED ar
  <2>1. [id |-> 1, line |-> -1, len |-> 0] \in AwSet
    BY DEF AwSet
  <2>2. One(aw', b, io', "write")
    BY <1>2, <1>3, <1>5, <2>1, OneSend
  <2>3. One(ar, r, io', "read")
    BY <1>2, <1>3, OneNone
  <2> QED
    BY <1>1, <1>5, <2>2, <2>3 DEF IoInv
<1> QED
  BY <1>4, <1>5, InitiateEffect

LEMMA IoReadAnswered ==
    ASSUME Types, IoInv, rl_handle_io_read_response
    PROVE  IoInv'
<1>1. r # <<>> /\ Head(r).id = 1 /\ r' = Tail(r) /\ UNCHANGED <<ar, aw, b>> /\ r \in Seq(RSet)
  BY DEF rl_handle_io_read_response, Types, ChannelTypes
<1>2. r[1].id = 1
  BY <1>1, TailFacts
<1>3. One(ar, Tail(r), io', "read") /\ io = Waiting("read")
  BY <1>1, <1>2, OneAnswer DEF IoInv
<1>4. io # Waiting("write")
  BY <1>3 DEF Waiting
<1>5. One(aw, b, io', "write")
  BY <1>4, OneNone DEF IoInv
<1> QED
  BY <1>1, <1>3, <1>5 DEF IoInv

LEMMA IoWriteAnswered ==
    ASSUME Types, IoInv, rl_handle_io_write_resp
    PROVE  IoInv'
<1>1. b # <<>> /\ Head(b).id = 1 /\ b' = Tail(b) /\ UNCHANGED <<ar, aw, r>> /\ b \in Seq(BSet)
  BY DEF rl_handle_io_write_resp, Types, ChannelTypes
<1>2. b[1].id = 1
  BY <1>1, TailFacts
<1>3. One(aw, Tail(b), io', "write") /\ io = Waiting("write")
  BY <1>1, <1>2, OneAnswer DEF IoInv
<1>4. io # Waiting("read")
  BY <1>3 DEF Waiting
<1>5. One(ar, r, io', "read")
  BY <1>4, OneNone DEF IoInv
<1> QED
  BY <1>1, <1>3, <1>5 DEF IoInv

LEMMA IoLineRead ==
    ASSUME Types, IoInv, NEW l \in Lines, ar' = Append(ar, LineRead(l)),
           UNCHANGED <<r, aw, b, io>>
    PROVE  IoInv'
<1>1. LineRead(l) \in ArSet /\ LineRead(l).id = 0 /\ ar \in Seq(ArSet)
  BY TypesReadSent DEF LineRead, Types, ChannelTypes
<1>2. One(ar', r, io, "read")
  BY <1>1, OneOther DEF IoInv
<1> QED
  BY <1>2 DEF IoInv

LEMMA IoResponse ==
    ASSUME Types, IoInv, UNCHANGED <<ar, aw, io>>,
           \/ r # <<>> /\ r' = Tail(r) /\ b' = b
           \/ b # <<>> /\ b' = Tail(b) /\ r' = r
    PROVE  IoInv'
<1>1. r \in Seq(RSet) /\ b \in Seq(BSet) /\ One(ar, r, io, "read") /\ One(aw, b, io, "write")
  BY DEF Types, ChannelTypes, IoInv
<1>2. r # <<>> => One(ar, Tail(r), io, "read")
  BY <1>1, OneTaken
<1>3. b # <<>> => One(aw, Tail(b), io, "write")
  BY <1>1, OneTaken
<1> QED
  BY <1>1, <1>2, <1>3 DEF IoInv

LEMMA IoFabricWrite ==
    ASSUME Types, IoInv, fabric_write
    PROVE  IoInv'
<1>1. UNCHANGED <<ar, r, io>>
  BY FabricWriteEffect DEF dmem
<1>2. One(aw, b, io, "write") /\ aw \in Seq(AwSet) /\ b \in Seq(BSet)
  BY DEF IoInv, Types, ChannelTypes
<1>3. One(aw', b', io, "write")
  <2>1. CASE beat = aw[1].len
    <3>1. /\ aw' = Tail(aw) /\ aw # <<>> /\ b' = Append(b, [id |-> aw[1].id])
          /\ aw[1] \in AwSet
      BY <2>1, FabricWriteEffect
    <3>2. [id |-> aw[1].id] \in BSet /\ [id |-> aw[1].id].id = aw[1].id
      BY <3>1, AwFacts DEF BSet
    <3> QED
      BY <1>2, <3>1, <3>2, OneMove
  <2>2. CASE beat # aw[1].len
    BY <1>2, <2>2, FabricWriteEffect
  <2> QED
    BY <2>1, <2>2
<1> QED
  BY <1>1, <1>3 DEF IoInv

LEMMA IoFabricRead ==
    ASSUME Types, IoInv, fabric_read
    PROVE  IoInv'
<1>1. UNCHANGED <<aw, b, io>> /\ ar # <<>> /\ r' = Append(r, Returned) /\ Returned \in RSet
      /\ ar[1] \in ArSet
  BY FabricReadEffect DEF dmem
<1>2. One(ar, r, io, "read") /\ ar \in Seq(ArSet) /\ r \in Seq(RSet)
  BY DEF IoInv, Types, ChannelTypes
<1>3. Returned.id = ar[1].id
  BY DEF Returned
<1>4. One(ar', r', io, "read")
  <2>1. CASE ReturnedLast
    <3>1. ar' = Tail(ar)
      BY <2>1, FabricReadEffect
    <3> QED
      BY <1>1, <1>2, <1>3, <3>1, OneMove
  <2>2. CASE ~ReturnedLast
    <3>1. ar' = ar
      BY <2>2, FabricReadEffect
    <3>2. Returned.id = 0
      BY <1>1, <1>3, <2>2, ArFacts DEF ReturnedLast
    <3> QED
      BY <1>1, <1>2, <3>1, <3>2, OnePass
  <2> QED
    BY <2>1, <2>2
<1> QED
  BY <1>1, <1>4 DEF IoInv

(* Every step keeps at most one I/O entry, of the operation write-back     *)
(* waits for.                                                              *)
LEMMA IoNext == IInv /\ Types /\ IoInv /\ [Next]_vars => IoInv'
<1> SUFFICES ASSUME IInv, Types, IoInv, [Next]_vars PROVE IoInv'
  OBVIOUS
<1>1. ASSUME NEW l \in Lines, dmem_fill(l) PROVE IoInv'
  BY <1>1, IoUntouched DEF dmem_fill, channels
<1>2. ASSUME NEW l \in Lines, dmem_evict(l) PROVE IoInv'
  BY <1>2, IoUntouched DEF dmem_evict, channels
<1>3. ASSUME NEW k \in {"read", "write"}, dmem_io(k) PROVE IoInv'
  <2>1. io = NoIo /\ UNCHANGED <<ar, r, aw, b>>
    BY <1>3 DEF dmem_io, channels
  <2>2. io.state # "wait"
    BY <2>1 DEF NoIo
  <2> QED
    BY <2>1, <2>2, IoRequested
<1>4. CASE rl_initiate_io
  BY <1>4, IoInitiated
<1>5. CASE rl_handle_io_read_response
  BY <1>5, IoReadAnswered
<1>6. CASE rl_handle_io_write_resp
  BY <1>6, IoWriteAnswered
<1>7. CASE rl_handle_dmem_line_read_request
  <2>1. rd_req # <<>> /\ UNCHANGED <<r, aw, b, io>>
    BY <1>7 DEF rl_handle_dmem_line_read_request
  <2>2. Head(rd_req) \in Lines
    BY <2>1, TailFacts DEF Types, RequestTypes
  <2>3. ar' = ar \/ ar' = Append(ar, LineRead(Head(rd_req)))
    BY <1>7, Zenon DEF rl_handle_dmem_line_read_request
  <2> QED
    BY <2>1, <2>2, <2>3, IoUntouched, IoLineRead
<1>8. CASE rl_handle_delayed_read
  <2>1. rg_read_line_req # <<>> /\ UNCHANGED <<r, aw, b, io>>
        /\ ar' = Append(ar, LineRead(rg_read_line_req[1]))
    BY <1>8 DEF rl_handle_delayed_read, dmem
  <2>2. rg_read_line_req[1] \in Lines
    BY <2>1, TailFacts DEF Types, RequestTypes
  <2> QED
    BY <2>1, <2>2, IoLineRead
<1>9. CASE rl_handle_dmem_line_resp
  BY <1>9, IoResponse DEF rl_handle_dmem_line_resp
<1>10. CASE rl_handle_dmem_write_request
  <2>1. UNCHANGED <<ar, r, b, io>> /\ LineWrite(Head(evictions)) \in AwSet
        /\ aw' = Append(aw, LineWrite(Head(evictions)))
    BY <1>10, WriteRequestEffect DEF dmem
  <2>2. LineWrite(Head(evictions)).id = 0
    BY DEF LineWrite
  <2>3. One(aw', b, io, "write")
    BY <2>1, <2>2, OneOther DEF IoInv, Types, ChannelTypes
  <2> QED
    BY <2>1, <2>3 DEF IoInv
<1>11. CASE rl_dmem_burst_write_data
  BY <1>11, IoUntouched DEF rl_dmem_burst_write_data
<1>12. CASE handle_dmem_line_write_resp
  BY <1>12, IoResponse DEF handle_dmem_line_write_resp, dmem
<1>13. CASE fabric_write
  BY <1>13, IoFabricWrite
<1>14. CASE fabric_read
  BY <1>14, IoFabricRead
<1>15. CASE UNCHANGED vars
  BY <1>15, IoUntouched DEF vars, channels, dmem
<1> QED
  BY <1>1, <1>2, <1>3, <1>4, <1>5, <1>6, <1>7, <1>8, <1>9, <1>10, <1>11, <1>12, <1>13,
     <1>14, <1>15 DEF Next

(* Every behaviour satisfies IoAnswersMatch: a response with the I/O       *)
(* identifier answers the operation write-back waits for, so the two I/O   *)
(* response rules (rl_handle_io_read_response, rl_handle_io_write_resp)    *)
(* are never ready together.                                               *)
THEOREM IoAnswersCorrect == Spec => []IoAnswersMatch
<1>1. Init => IoInv
  BY DEF Init, IoInv, One
<1>2. Types /\ IoInv => IoAnswersMatch
  <2> SUFFICES ASSUME Types, IoInv PROVE IoAnswersMatch
    OBVIOUS
  <2>1. r \in Seq(RSet) /\ b \in Seq(BSet)
    BY DEF Types, ChannelTypes
  <2>2. r # <<>> => Head(r) = r[1] /\ 1 \in 1..Len(r)
    BY <2>1, TailFacts
  <2>3. b # <<>> => Head(b) = b[1] /\ 1 \in 1..Len(b)
    BY <2>1, TailFacts
  <2> QED
    BY <2>2, <2>3, Zenon DEF IoInv, One, IoAnswersMatch, Waiting
<1> QED
  BY <1>1, <1>2, BurstInit, BurstNext, TypesInit, TypesNext, IoNext, PTL DEF Spec

(***************************************************************************)
(* The writes and what the reads wait for.                                 *)
(***************************************************************************)

(* The address being sent a burst is that of the line at the head of the   *)
(* eviction FIFO.                                                          *)
Current(A, v, bc, E) ==
    bc # 0 => A[Len(A)].line = Head(E).line /\ v[Len(A)] = Head(E).ver

Writes(v) ==
    /\ \E own, pos : Chan(aw, w, beat, rg_burst_count, own, pos, v)
    /\ Mem(aw, beat, mem, started, v)
    /\ Current(aw, v, rg_burst_count, evictions)
    /\ \A i \in 1..Len(ar) : Served(ar[i], aw, mem, done, v)

WInv ==
    /\ Queued(evictions, started, ver)
    /\ Counted(sent, done, aw, rg_burst_count)
    /\ \E v : Writes(v)

(* A step that leaves the writes alone and adds only reads whose data is   *)
(* in memory or on its way.                                                *)
LEMMA WritesKept ==
    ASSUME WInv,
           UNCHANGED <<aw, w, beat, mem, started, ver, sent, done, evictions, rg_burst_count>>,
           \A v : Writes(v) => \A i \in 1..Len(ar') : Served(ar'[i], aw, mem, done, v)
    PROVE  WInv'
<1>1. PICK v : Writes(v)
  BY DEF WInv
<1>2. \A i \in 1..Len(ar') : Served(ar'[i], aw, mem, done, v)
  BY <1>1
<1>4. /\ \E own, pos : Chan(aw, w, beat, rg_burst_count, own, pos, v)
      /\ Mem(aw, beat, mem, started, v)
      /\ Current(aw, v, rg_burst_count, evictions)
  BY <1>1 DEF Writes
<1>5. /\ \E own, pos : Chan(aw', w', beat', rg_burst_count', own, pos, v)
      /\ Mem(aw', beat', mem', started', v)
      /\ Current(aw', v, rg_burst_count', evictions')
      /\ \A i \in 1..Len(ar') : Served(ar'[i], aw', mem', done', v)
  BY <1>2, <1>4
<1>6. Writes(v)'
  BY <1>5 DEF Writes
<1>7. Queued(evictions, started, ver)' /\ Counted(sent, done, aw, rg_burst_count)'
  BY DEF WInv
<1> QED
  BY <1>6, <1>7 DEF WInv

LEMMA WritesUntouched ==
    ASSUME WInv,
           UNCHANGED <<aw, w, beat, mem, started, ver, sent, done, evictions, rg_burst_count,
                       ar>>
    PROVE  WInv'
BY WritesKept DEF Writes

(* The data cache evicts a line.                                           *)
LEMMA WritesEvict ==
    ASSUME IInv, Types, WInv, NEW l \in Lines, dmem_evict(l)
    PROVE  WInv'
<1>1. /\ ver' = [ver EXCEPT ![l] = @ + 1]
      /\ evictions' = Append(evictions, [line |-> l, ver |-> ver[l] + 1])
      /\ UNCHANGED <<aw, w, beat, mem, started, sent, done, rg_burst_count, ar>>
  BY DEF dmem_evict, regs, channels, slave
<1>2. evictions \in Evictions /\ ver \in [Lines -> Nat] /\ started \in [Lines -> Nat]
  BY DEF IInv, Types, RequestTypes
<1>3. Queued(evictions', started, ver')
  BY <1>1, <1>2, QueuedAppend DEF WInv
<1>4. PICK v : Writes(v)
  BY DEF WInv
<1>5. rg_burst_count # 0 => Head(evictions') = Head(evictions)
  <2>1. rg_burst_count # 0 => evictions # <<>>
    BY DEF IInv, BurstInv
  <2>2. [line |-> l, ver |-> ver[l] + 1] \in [line : Lines, ver : Nat]
    BY <1>2
  <2> QED
    BY <1>1, <1>2, <2>1, <2>2, HeadOfAppend
<1>6. Current(aw, v, rg_burst_count, evictions')
  BY <1>4, <1>5 DEF Writes, Current
<1>7. Writes(v)'
  BY <1>1, <1>4, <1>6 DEF Writes
<1> QED
  BY <1>1, <1>3, <1>7 DEF WInv

(* A line read enters the channel.  While a burst is being sent its line   *)
(* is the one wr_write_req names.                                          *)
LEMMA WritesLineRead ==
    ASSUME IInv, Types, WInv, NEW l \in Lines, ar' = Append(ar, LineRead(l)),
           wr_write_req # <<>> => wr_write_req[1] # l,
           UNCHANGED <<aw, w, beat, mem, started, ver, sent, done, evictions, rg_burst_count>>
    PROVE  WInv'
<1>1. ASSUME NEW v, Writes(v), NEW i \in 1..Len(ar')
      PROVE  Served(ar'[i], aw, mem, done, v)
  <2>1. LineRead(l) \in ArSet /\ ar \in Seq(ArSet)
    BY TypesReadSent DEF Types, ChannelTypes
  <2>2. /\ Len(ar) \in Nat /\ Len(ar') = Len(ar) + 1 /\ ar'[Len(ar) + 1] = LineRead(l)
        /\ \A j \in 1..Len(ar) : ar'[j] = ar[j]
    BY <2>1, AppendFacts
  <2>3. CASE i \in 1..Len(ar)
    BY <1>1, <2>2, <2>3 DEF Writes
  <2>4. CASE i = Len(ar) + 1
    <3>1. rg_burst_count # 0 => aw[Len(aw)].line # l
      <4>1. rg_burst_count # 0 => wr_write_req = <<Head(evictions).line>>
        BY DEF IInv, BurstInv
      <4>2. rg_burst_count # 0 => aw[Len(aw)].line = Head(evictions).line
        BY <1>1 DEF Writes, Current
      <4>3. \A x : <<x>> # <<>> /\ <<x>>[1] = x
        OBVIOUS
      <4> QED
        BY <4>1, <4>2, <4>3
    <3>2. aw \in Seq(AwSet) /\ started \in [Lines -> Nat] /\ done \in Nat /\ sent \in Nat
      BY DEF Types, ChannelTypes, RequestTypes, SlaveTypes
    <3>3. Counted(sent, done, aw, rg_burst_count)
      BY DEF WInv
    <3>4. Mem(aw, beat, mem, started, v)
      BY <1>1 DEF Writes
    <3>5. Served([id |-> 0, line |-> l, want |-> started[l], after |-> sent], aw, mem, done, v)
      BY <3>1, <3>2, <3>3, <3>4, ServedNew
    <3> QED
      BY <2>2, <2>4, <3>5 DEF LineRead
  <2> QED
    BY <2>2, <2>3, <2>4
<1> QED
  BY <1>1, WritesKept

LEMMA WritesReadRequest ==
    ASSUME IInv, Types, WInv, rl_handle_dmem_line_read_request
    PROVE  WInv'
<1>1. /\ rd_req # <<>>
      /\ UNCHANGED <<aw, w, beat, mem, started, ver, sent, done, evictions, rg_burst_count>>
  BY DEF rl_handle_dmem_line_read_request, slave
<1>2. Head(rd_req) \in Lines
  BY <1>1, TailFacts DEF Types, RequestTypes
<1>3. \/ ar' = ar
      \/ ~conflict(Head(rd_req)) /\ ar' = Append(ar, LineRead(Head(rd_req)))
  BY Zenon DEF rl_handle_dmem_line_read_request
<1>4. CASE ar' = ar
  BY <1>1, <1>4, WritesUntouched
<1>5. CASE ~conflict(Head(rd_req)) /\ ar' = Append(ar, LineRead(Head(rd_req)))
  <2>1. wr_write_req # <<>> => wr_write_req[1] # Head(rd_req)
    BY <1>5 DEF conflict
  <2> QED
    BY <1>1, <1>2, <1>5, <2>1, WritesLineRead
<1> QED
  BY <1>3, <1>4, <1>5

LEMMA WritesDelayedRead ==
    ASSUME IInv, Types, WInv, rl_handle_delayed_read
    PROVE  WInv'
<1>1. /\ rg_read_line_req # <<>> /\ wr_write_req = <<>>
      /\ ar' = Append(ar, LineRead(rg_read_line_req[1]))
      /\ UNCHANGED <<aw, w, beat, mem, started, ver, sent, done, evictions, rg_burst_count>>
  BY DEF rl_handle_delayed_read, slave, dmem
<1>2. rg_read_line_req[1] \in Lines
  BY <1>1, TailFacts DEF Types, RequestTypes
<1> QED
  BY <1>1, <1>2, WritesLineRead

(* The fabric returns a beat.                                              *)
LEMMA WritesFabricRead ==
    ASSUME IInv, Types, WInv, fabric_read
    PROVE  WInv'
<1>1. /\ ar # <<>> /\ ar \in Seq(ArSet) /\ (ar' = ar \/ ar' = Tail(ar))
      /\ UNCHANGED <<aw, w, beat, mem, started, ver, sent, done, evictions, rg_burst_count>>
  BY FabricReadEffect DEF dmem, regs, Types, ChannelTypes
<1>2. ASSUME ar' = Tail(ar), NEW v, Writes(v), NEW i \in 1..Len(ar')
      PROVE  Served(ar'[i], aw, mem, done, v)
  <2>1. /\ Len(ar) \in Nat /\ Len(ar') = Len(ar) - 1
        /\ \A j \in 1..(Len(ar) - 1) : ar'[j] = ar[j + 1]
    BY <1>1, <1>2, TailFacts
  <2>2. i + 1 \in 1..Len(ar) /\ ar'[i] = ar[i + 1]
    BY <2>1
  <2> QED
    BY <1>2, <2>2 DEF Writes
<1> QED
  BY <1>1, <1>2, WritesKept, WritesUntouched

(* With no address in the channel no beat is awaited, between bursts.      *)
LEMMA NoAddressNoBeat ==
    ASSUME NEW A \in Seq(AwSet), NEW W \in Seq(WSet), NEW bt, NEW own, NEW pos, NEW v,
           Chan(A, W, bt, 0, own, pos, v), Len(A) = 0
    PROVE  bt = 0
<1>1. Ends(A, W, bt, 0, own, pos) /\ own \in [1..Len(W) -> 1..Len(A)] /\ Len(W) \in Nat
  BY DEF Chan
<1>2. Len(W) # 0 => Len(W) \in 1..Len(W)
  BY <1>1
<1>3. Len(W) # 0 => own[Len(W)] \in 1..Len(A)
  BY <1>1, <1>2, Zenon
<1>4. Len(W) = 0
  BY <1>3
<1> QED
  BY <1>1, <1>4 DEF Ends

(* An I/O request leaves write-back.                                       *)
LEMMA WritesInitiate ==
    ASSUME IInv, Types, WInv, rl_initiate_io
    PROVE  WInv'
<1>1. /\ rg_burst_count = 0
      /\ UNCHANGED <<evictions, rg_burst_count, beat, mem, done, ver, started>>
  BY InitiateEffect DEF regs, slave
<1>2. CASE /\ io' = Waiting("read")
           /\ ar' = Append(ar, [id |-> 1, line |-> -1, want |-> 0, after |-> sent])
           /\ UNCHANGED <<aw, w, sent>>
  <2> DEFINE x == [id |-> 1, line |-> -1, want |-> 0, after |-> sent]
  <2>1. x \in ArSet /\ ar \in Seq(ArSet) /\ x.id # 0
    BY DEF ArSet, Types, RequestTypes, ChannelTypes
  <2> HIDE DEF x
  <2>2. /\ Len(ar) \in Nat /\ Len(ar') = Len(ar) + 1 /\ ar'[Len(ar) + 1] = x
        /\ \A j \in 1..Len(ar) : ar'[j] = ar[j]
    BY <1>2, <2>1, AppendFacts DEF x
  <2>3. ASSUME NEW v, Writes(v), NEW i \in 1..Len(ar')
        PROVE  Served(ar'[i], aw, mem, done, v)
    <3>1. CASE i \in 1..Len(ar)
      BY <2>2, <2>3, <3>1 DEF Writes
    <3>2. CASE i = Len(ar) + 1
      BY <2>1, <2>2, <3>2 DEF Served
    <3> QED
      BY <2>2, <3>1, <3>2
  <2> QED
    BY <1>1, <1>2, <2>3, WritesKept
<1>3. CASE /\ io' = Waiting("write")
           /\ aw' = Append(aw, [id |-> 1, line |-> -1, len |-> 0])
           /\ w' = Append(w, [id |-> 1, ver |-> 0, word |-> 0, last |-> TRUE])
           /\ sent' = sent + 1 /\ UNCHANGED ar
  <2>1. PICK v : Writes(v)
    BY DEF WInv
  <2>2. PICK own, pos : Chan(aw, w, beat, 0, own, pos, v)
    BY <1>1, <2>1 DEF Writes
  <2>3. PICK a : a = [id |-> 1, line |-> -1, len |-> 0]
    OBVIOUS
  <2>4. PICK x : x = [id |-> 1, ver |-> 0, word |-> 0, last |-> TRUE]
    OBVIOUS
  <2>5. /\ a \in AwSet /\ a.id = 1 /\ a.len = 0 /\ x \in WSet /\ x.id = 1 /\ x.last = TRUE
    BY <2>3, <2>4 DEF AwSet, WSet
  <2>6. /\ aw \in Seq(AwSet) /\ w \in Seq(WSet) /\ beat \in Nat /\ mem \in MemSet
        /\ started \in [Lines -> Nat] /\ sent \in Nat /\ done \in Nat
    BY DEF Types, ChannelTypes, SlaveTypes, RequestTypes
  <2>7. aw' = Append(aw, a) /\ w' = Append(w, x)
    BY <1>3, <2>3, <2>4
  <2>8. PICK v2 : v2 = Added(aw, v, 0)
    OBVIOUS
  <2>9. \E o, p : Chan(aw', w', beat, 0, o, p, v2)
    BY <2>2, <2>5, <2>6, <2>7, <2>8, ChanAppend
  <2>10. Mem(aw', beat, mem, started, v2)
    <3>1. Mem(aw, beat, mem, started, v)
      BY <2>1 DEF Writes
    <3>2. Len(aw) = 0 => beat = 0
      BY <2>2, <2>6, NoAddressNoBeat
    <3> QED
      BY <2>5, <2>6, <2>7, <2>8, <3>1, <3>2, MemAppend
  <2>11. \A i \in 1..Len(ar) : Served(ar[i], aw', mem, done, v2)
    BY <2>1, <2>5, <2>6, <2>7, <2>8, ServedAppend DEF Writes
  <2>12. Current(aw', v2, 0, evictions)
    BY DEF Current
  <2>13. Writes(v2)'
    BY <1>1, <1>3, <2>9, <2>10, <2>11, <2>12 DEF Writes
  <2>14. Counted(sent', done, aw', 0)
    <3>1. Len(aw') = Len(aw) + 1 /\ Len(aw) \in Nat
      BY <2>5, <2>6, <2>7, AppendFacts
    <3>2. sent = done + Len(aw)
      BY <1>1, <2>6 DEF WInv, Counted
    <3> QED
      BY <1>3, <2>6, <3>1, <3>2 DEF Counted
  <2> QED
    BY <1>1, <2>13, <2>14 DEF WInv
<1> QED
  BY <1>2, <1>3, InitiateEffect

(* A line begins to be written.                                            *)
LEMMA WritesRequest ==
    ASSUME IInv, Types, WInv, rl_handle_dmem_write_request
    PROVE  WInv'
<1>1. /\ rg_burst_count = 0 /\ rg_burst_count' = 1 /\ evictions # <<>>
      /\ UNCHANGED <<evictions, beat, mem, done, ver, sent, ar>>
  BY WriteRequestEffect DEF dmem, slave
<1>2. PICK v : Writes(v)
  BY DEF WInv
<1>3. PICK own, pos : Chan(aw, w, beat, 0, own, pos, v)
  BY <1>1, <1>2 DEF Writes
<1>4. PICK a : a = LineWrite(Head(evictions))
  OBVIOUS
<1>5. PICK x : x = FirstBeat(Head(evictions))
  OBVIOUS
<1>6. PICK y : y = Head(evictions).ver
  OBVIOUS
<1>7. /\ a \in AwSet /\ x \in WSet /\ y \in Nat /\ aw' = Append(aw, a) /\ w' = Append(w, x)
      /\ started' = [started EXCEPT ![a.line] = y] /\ a.line = Head(evictions).line
  BY <1>4, <1>5, <1>6, WriteRequestEffect DEF LineWrite
<1>8. /\ a.id = 0 /\ a.len = DBLOCKS - 1 /\ x.id = 0 /\ x.last = FALSE /\ x.word = 0
      /\ x.ver = y
  BY <1>4, <1>5, <1>6 DEF LineWrite, FirstBeat
<1>9. a.len # 0
  BY <1>8, CcoreAssumption
<1>10. /\ aw \in Seq(AwSet) /\ w \in Seq(WSet) /\ beat \in Nat /\ mem \in MemSet
       /\ started \in [Lines -> Nat] /\ sent \in Nat /\ done \in Nat
  BY DEF Types, ChannelTypes, SlaveTypes, RequestTypes
<1>11. PICK v2 : v2 = Added(aw, v, y)
  OBVIOUS
<1>12. \E o, p : Chan(aw', w', beat, 1, o, p, v2)
  BY <1>3, <1>7, <1>8, <1>9, <1>10, <1>11, ChanAppend
<1>13. Queued(evictions, started', ver) /\ started[a.line] <= y
  BY <1>1, <1>6, <1>7, <1>10, QueuedStart DEF IInv, WInv
<1>14. Mem(aw', beat, mem, started', v2)
  <2>1. Mem(aw, beat, mem, started, v)
    BY <1>2 DEF Writes
  <2>2. Len(aw) = 0 => beat = 0
    BY <1>3, <1>10, NoAddressNoBeat
  <2>3. started' = [started EXCEPT ![a.line] = y] /\ started[a.line] <= y /\ a.id # 1
    BY <1>7, <1>8, <1>13
  <2>4. Mem(Append(aw, a), beat, mem, started', Added(aw, v, y))
    BY <1>7, <1>10, <2>1, <2>2, <2>3, MemAppend
  <2> QED
    BY <1>7, <1>11, <2>4
<1>15. \A i \in 1..Len(ar) : Served(ar[i], aw', mem, done, v2)
  BY <1>2, <1>7, <1>10, <1>11, ServedAppend DEF Writes
<1>16. Len(aw') = Len(aw) + 1 /\ Len(aw) \in Nat /\ aw'[Len(aw) + 1] = a
  BY <1>7, <1>10, AppendFacts
<1>17. Current(aw', v2, 1, evictions)
  <2>1. v2[Len(aw) + 1] = y
    BY <1>11, <1>16 DEF Added
  <2> QED
    BY <1>6, <1>7, <1>16, <2>1 DEF Current
<1>18. Writes(v2)'
  BY <1>1, <1>12, <1>14, <1>15, <1>17 DEF Writes
<1>19. Counted(sent, done, aw', 1)
  <2>1. sent = done + Len(aw)
    BY <1>1, <1>10 DEF WInv, Counted
  <2> QED
    BY <1>10, <1>16, <2>1 DEF Counted
<1> QED
  BY <1>1, <1>13, <1>18, <1>19 DEF WInv

(* The next beat of the line.                                              *)
LEMMA WritesBurst ==
    ASSUME IInv, Types, WInv, rl_dmem_burst_write_data
    PROVE  WInv'
<1>1. /\ rg_burst_count \in 1..(DBLOCKS - 1) /\ evictions # <<>>
      /\ UNCHANGED <<ar, aw, beat, mem, done, ver, started>>
  BY BurstEffect DEF slave
<1>2. PICK v : Writes(v)
  BY DEF WInv
<1>3. PICK own, pos : Chan(aw, w, beat, rg_burst_count, own, pos, v)
  BY <1>2 DEF Writes
<1>4. /\ aw \in Seq(AwSet) /\ w \in Seq(WSet) /\ beat \in Nat /\ Len(aw) \in Nat
      /\ sent \in Nat /\ done \in Nat /\ DBLOCKS \in Nat /\ DBLOCKS > 1
  BY CcoreAssumption DEF Types, ChannelTypes, SlaveTypes, RequestTypes
<1>5. rg_burst_count # 0
  BY <1>1
<1>6. v[Len(aw)] = Head(evictions).ver
  BY <1>2, <1>5 DEF Writes, Current
<1>7. PICK x : x = NextBeat
  OBVIOUS
<1>8. /\ x \in WSet /\ w' = Append(w, x)
  BY <1>7, BurstEffect
<1>9. /\ x.id = 0 /\ x.word = rg_burst_count /\ x.ver = v[Len(aw)]
      /\ x.last = (rg_burst_count = DBLOCKS - 1)
  BY <1>6, <1>7 DEF NextBeat
<1>10. rg_burst_count' = IF rg_burst_count = DBLOCKS - 1 THEN 0 ELSE rg_burst_count + 1
  BY BurstEffect
<1>11. \E o, p : Chan(aw, w', beat, rg_burst_count', o, p, v)
  BY <1>1, <1>3, <1>4, <1>8, <1>9, <1>10, ChanBurst
<1>12. /\ Current(aw, v, rg_burst_count', evictions')
       /\ Queued(evictions', started, ver)
       /\ Counted(sent', done, aw, rg_burst_count')
  <2>0. sent + 1 = done + Len(aw)
    BY <1>5 DEF WInv, Counted
  <2>1. CASE rg_burst_count = DBLOCKS - 1
    <3>1. rg_burst_count' = 0 /\ evictions' = Tail(evictions) /\ sent' = sent + 1
      BY <2>1, BurstEffect
    <3>2. Queued(evictions', started, ver)
      BY <1>1, <3>1, QueuedTail DEF IInv, WInv
    <3> QED
      BY <1>4, <2>0, <3>1, <3>2 DEF Current, Counted
  <2>2. CASE rg_burst_count # DBLOCKS - 1
    <3>1. rg_burst_count' = rg_burst_count + 1 /\ UNCHANGED <<evictions, sent>>
      BY <2>2, BurstEffect
    <3>2. rg_burst_count' # 0
      BY <1>1, <3>1
    <3>3. Current(aw, v, rg_burst_count, evictions)
      BY <1>2 DEF Writes
    <3>4. Current(aw, v, rg_burst_count', evictions')
      BY <1>5, <3>1, <3>3 DEF Current
    <3>5. Counted(sent', done, aw, rg_burst_count')
      BY <2>0, <3>1, <3>2 DEF Counted
    <3> QED
      BY <3>1, <3>4, <3>5 DEF WInv
  <2> QED
    BY <2>1, <2>2
<1>13. Writes(v)'
  BY <1>1, <1>2, <1>11, <1>12 DEF Writes
<1> QED
  BY <1>1, <1>12, <1>13 DEF WInv

(* The fabric takes a beat: what it stores is the word and the version     *)
(* that its address calls for.                                             *)
LEMMA FabricStores ==
    ASSUME IInv, Types, NEW v, Writes(v), fabric_write
    PROVE  Stored(aw, beat, mem, v, mem')
<1>1. PICK own, pos : Chan(aw, w, beat, rg_burst_count, own, pos, v)
  BY DEF Writes
<1>2. /\ aw # <<>> /\ w # <<>> /\ aw[1] \in AwSet
      /\ aw[1].id = 1 => mem' = mem
      /\ aw[1].id = 0 => mem' = [mem EXCEPT ![aw[1].line][beat] =
                                    [ver |-> w[1].ver, word |-> w[1].word]]
  BY FabricWriteEffect
<1>3. /\ aw \in Seq(AwSet) /\ w \in Seq(WSet) /\ beat \in Nat /\ mem \in MemSet
      /\ rg_burst_count \in Nat
  BY CcoreAssumption DEF Types, ChannelTypes, SlaveTypes, IInv, BurstInv, Beats
<1>4. aw[1].id = 0 => w[1].word = beat /\ w[1].ver = v[1]
  BY <1>1, <1>2, <1>3, ChanHead
<1> SUFFICES ASSUME NEW l \in Lines, NEW k \in Beats
             PROVE  mem'[l][k] = IF aw[1].line = l /\ k = beat
                                 THEN [ver |-> v[1], word |-> beat] ELSE mem[l][k]
  BY DEF Stored
<1>5. CASE aw[1].id = 1
  BY <1>2, <1>5, AwFacts
<1>6. CASE aw[1].id = 0
  <2>1. PICK e : e = [ver |-> v[1], word |-> beat]
    OBVIOUS
  <2>2. mem' = [mem EXCEPT ![aw[1].line][beat] = e]
    BY <1>2, <1>4, <1>6, <2>1
  <2>3. mem \in [Lines -> [Beats -> [ver : Nat, word : Nat]]]
    BY <1>3 DEF MemSet
  <2>4. mem'[l][k] = IF aw[1].line = l /\ k = beat THEN e ELSE mem[l][k]
    BY <2>2, <2>3
  <2> QED
    BY <2>1, <2>4
<1> QED
  BY <1>2, <1>5, <1>6, AwFacts

LEMMA WritesFabricWrite ==
    ASSUME IInv, Types, WInv, fabric_write
    PROVE  WInv'
<1>1. /\ aw # <<>> /\ w # <<>> /\ w' = Tail(w) /\ aw[1] \in AwSet
      /\ UNCHANGED <<evictions, rg_burst_count, ar, ver, started, sent>>
  BY FabricWriteEffect DEF dmem, regs
<1>2. PICK v : Writes(v)
  BY DEF WInv
<1>3. PICK own, pos : Chan(aw, w, beat, rg_burst_count, own, pos, v)
  BY <1>2 DEF Writes
<1>4. /\ aw \in Seq(AwSet) /\ w \in Seq(WSet) /\ beat \in Nat /\ mem \in MemSet
      /\ ar \in Seq(ArSet) /\ done \in Nat /\ sent \in Nat
  BY DEF Types, ChannelTypes, SlaveTypes, RequestTypes
<1>5. rg_burst_count \in 0..(DBLOCKS - 1) /\ rg_burst_count \in Nat
  BY CcoreAssumption DEF IInv, BurstInv, Beats
<1>6. Stored(aw, beat, mem, v, mem')
  BY <1>2, FabricStores
<1>7. Mem(aw, beat, mem, started, v) /\ Current(aw, v, rg_burst_count, evictions)
      /\ \A i \in 1..Len(ar) : Served(ar[i], aw, mem, done, v)
  BY <1>2 DEF Writes
<1>8. \A i \in 1..Len(ar) : ar[i] \in ArSet
  BY <1>4, ElementOfSeq
<1>9. CASE beat # aw[1].len
  <2>1. beat' = beat + 1 /\ UNCHANGED <<aw, b, done>>
    BY <1>9, FabricWriteEffect
  <2>2. \E o, p : Chan(aw, Tail(w), beat + 1, rg_burst_count, o, p, v)
    BY <1>1, <1>3, <1>4, <1>5, <1>9, ChanNextBeat
  <2>3. Mem(aw, beat + 1, mem', started, v)
    BY <1>1, <1>4, <1>6, <1>7, MemBeat
  <2>4. \A i \in 1..Len(ar) : Served(ar[i], aw, mem', done, v)
    BY <1>1, <1>4, <1>6, <1>7, <1>8, ServedBeat
  <2>5. Writes(v)'
    BY <1>1, <1>7, <2>1, <2>2, <2>3, <2>4 DEF Writes
  <2> QED
    BY <1>1, <2>1, <2>5 DEF WInv
<1>10. CASE beat = aw[1].len
  <2>1. beat' = 0 /\ aw' = Tail(aw) /\ done' = done + 1
    BY <1>10, FabricWriteEffect
  <2>2. PICK v2 : v2 = Dropped(aw, v)
    OBVIOUS
  <2>3. \E o, p : Chan(Tail(aw), Tail(w), 0, rg_burst_count, o, p, v2)
    BY <1>1, <1>3, <1>4, <1>5, <1>10, <2>2, ChanNextAddress
  <2>4. Mem(Tail(aw), 0, mem', started, v2)
    BY <1>1, <1>4, <1>6, <1>7, <1>10, <2>2, MemAddress
  <2>5. \A i \in 1..Len(ar) : Served(ar[i], Tail(aw), mem', done + 1, v2)
    BY <1>1, <1>4, <1>6, <1>7, <1>8, <1>10, <2>2, ServedAddress
  <2>6. /\ Len(aw) \in Nat \ {0} /\ Len(Tail(aw)) = Len(aw) - 1
        /\ \A i \in 1..(Len(aw) - 1) : Tail(aw)[i] = aw[i + 1]
    BY <1>1, <1>4, TailFacts
  <2>7. Current(Tail(aw), v2, rg_burst_count, evictions)
    <3> SUFFICES ASSUME rg_burst_count # 0
                 PROVE  /\ Tail(aw)[Len(Tail(aw))].line = Head(evictions).line
                        /\ v2[Len(Tail(aw))] = Head(evictions).ver
      BY DEF Current
    <3>1. PICK o, p : Chan(Tail(aw), Tail(w), 0, rg_burst_count, o, p, v2)
      BY <2>3
    <3>2. Len(Tail(aw)) # 0
      BY <3>1 DEF Chan, Ends
    <3>3. PICK n : n = Len(aw) - 1
      OBVIOUS
    <3>4. n \in 1..(Len(aw) - 1) /\ n + 1 = Len(aw) /\ Len(Tail(aw)) = n
      BY <2>6, <3>2, <3>3
    <3>5. Tail(aw)[n] = aw[Len(aw)] /\ v2[n] = v[Len(aw)]
      BY <2>2, <2>6, <3>4 DEF Dropped
    <3> QED
      BY <1>7, <3>4, <3>5 DEF Current
  <2>8. Writes(v2)'
    BY <1>1, <2>1, <2>3, <2>4, <2>5, <2>7 DEF Writes
  <2>9. Counted(sent, done + 1, Tail(aw), rg_burst_count)
    <3>1. sent + (IF rg_burst_count # 0 THEN 1 ELSE 0) = done + Len(aw)
      BY DEF WInv, Counted
    <3>2. done + Len(aw) = (done + 1) + Len(Tail(aw))
      BY <1>4, <2>6
    <3> QED
      BY <3>1, <3>2 DEF Counted
  <2> QED
    BY <1>1, <2>1, <2>8, <2>9 DEF WInv
<1> QED
  BY <1>9, <1>10

LEMMA WritesInit == Init => WInv
<1> SUFFICES ASSUME Init PROVE WInv
  OBVIOUS
<1> USE DEF Init
<1>1. Len(aw) = 0 /\ Len(w) = 0 /\ Len(ar) = 0 /\ Len(evictions) = 0
  OBVIOUS
<1>2. PICK f : f = [i \in 1..0 |-> 0]
  OBVIOUS
<1>3. f \in [1..0 -> 1..0] /\ f \in [1..0 -> Nat]
  BY <1>2
<1>4. Chan(aw, w, beat, rg_burst_count, f, f, f)
  BY <1>1, <1>3 DEF Chan, Follows, Matches, Ends
<1>5. Mem(aw, beat, mem, started, f)
  BY <1>1, <1>3 DEF Mem, Words, HeadWritten, Settled, Newest, Rising
<1>6. Writes(f)
  BY <1>1, <1>4, <1>5 DEF Writes, Current
<1>7. Queued(evictions, started, ver)
  BY <1>1 DEF Queued
<1>8. Counted(sent, done, aw, rg_burst_count)
  BY <1>1 DEF Counted
<1> QED
  BY <1>6, <1>7, <1>8 DEF WInv

(* Every step keeps the write channels in order and what a read waits for  *)
(* in memory or on its way.                                                *)
LEMMA WritesNext == IInv /\ Types /\ WInv /\ [Next]_vars => WInv'
<1> SUFFICES ASSUME IInv, Types, WInv, [Next]_vars PROVE WInv'
  OBVIOUS
<1>1. ASSUME NEW l \in Lines, dmem_fill(l) PROVE WInv'
  BY <1>1, WritesUntouched DEF dmem_fill, channels, slave, regs
<1>2. ASSUME NEW l \in Lines, dmem_evict(l) PROVE WInv'
  BY <1>2, WritesEvict
<1>3. ASSUME NEW k \in {"read", "write"}, dmem_io(k) PROVE WInv'
  BY <1>3, WritesUntouched DEF dmem_io, channels, slave, regs
<1>4. CASE rl_initiate_io
  BY <1>4, WritesInitiate
<1>5. CASE rl_handle_io_read_response
  BY <1>5, WritesUntouched DEF rl_handle_io_read_response, slave, regs
<1>6. CASE rl_handle_io_write_resp
  BY <1>6, WritesUntouched DEF rl_handle_io_write_resp, slave, regs
<1>7. CASE rl_handle_dmem_line_read_request
  BY <1>7, WritesReadRequest
<1>8. CASE rl_handle_delayed_read
  BY <1>8, WritesDelayedRead
<1>9. CASE rl_handle_dmem_line_resp
  BY <1>9, WritesUntouched DEF rl_handle_dmem_line_resp, slave, regs
<1>10. CASE rl_handle_dmem_write_request
  BY <1>10, WritesRequest
<1>11. CASE rl_dmem_burst_write_data
  BY <1>11, WritesBurst
<1>12. CASE handle_dmem_line_write_resp
  BY <1>12, WritesUntouched DEF handle_dmem_line_write_resp, slave, regs, dmem
<1>13. CASE fabric_write
  BY <1>13, WritesFabricWrite
<1>14. CASE fabric_read
  BY <1>14, WritesFabricRead
<1>15. CASE UNCHANGED vars
  BY <1>15, WritesUntouched DEF vars, channels, slave, regs, dmem
<1> QED
  BY <1>1, <1>2, <1>3, <1>4, <1>5, <1>6, <1>7, <1>8, <1>9, <1>10, <1>11, <1>12, <1>13,
     <1>14, <1>15 DEF Next

(* Every behaviour satisfies WriteBeatsMatch: the write-data channel       *)
(* carries the beats of the write-address channel in its order, although   *)
(* the two rules that feed them and the I/O rule interleave.               *)
THEOREM BeatsCorrect == Spec => []WriteBeatsMatch
<1>1. IInv /\ Types /\ WInv => WriteBeatsMatch
  <2> SUFFICES ASSUME IInv, Types, WInv, aw # <<>>, w # <<>>
               PROVE  /\ Head(w).id = Head(aw).id
                      /\ Head(w).last <=> beat = Head(aw).len
                      /\ Head(aw).id = 0 => Head(w).word = beat
    BY DEF WriteBeatsMatch
  <2>1. /\ aw \in Seq(AwSet) /\ w \in Seq(WSet) /\ beat \in Nat /\ rg_burst_count \in Nat
    BY CcoreAssumption DEF Types, ChannelTypes, SlaveTypes, IInv, BurstInv, Beats
  <2>2. Head(aw) = aw[1] /\ Head(w) = w[1]
    BY <2>1, TailFacts
  <2>3. PICK v, own, pos : Chan(aw, w, beat, rg_burst_count, own, pos, v)
    BY DEF WInv, Writes
  <2>4. /\ w[1].id = aw[1].id /\ (w[1].last <=> beat = aw[1].len)
        /\ aw[1].id = 0 => w[1].word = beat
    BY <2>1, <2>3, ChanHead
  <2> QED
    BY <2>2, <2>4
<1> QED
  BY <1>1, BurstInit, BurstNext, TypesInit, TypesNext, WritesInit, WritesNext, PTL DEF Spec

(* Every behaviour satisfies EvictionsReachMemory: when the write channels *)
(* are empty and no burst is being sent, memory holds the last eviction    *)
(* begun of every line, whole.                                             *)
THEOREM EvictionsCorrect == Spec => []EvictionsReachMemory
<1>1. IInv /\ Types /\ WInv => EvictionsReachMemory
  <2> SUFFICES ASSUME IInv, Types, WInv, aw = <<>>, NEW l \in Lines
               PROVE  mem[l] = [k \in Beats |-> [ver |-> started[l], word |-> k]]
    BY DEF EvictionsReachMemory
  <2>1. PICK v : Mem(aw, beat, mem, started, v)
    BY DEF WInv, Writes
  <2>2. mem[l] \in [Beats -> [ver : Nat, word : Nat]]
    BY DEF Types, SlaveTypes, MemSet
  <2>3. Len(aw) = 0
    OBVIOUS
  <2>4. \A k \in Beats : mem[l][k].ver = started[l] /\ mem[l][k].word = k
    BY <2>1, <2>3 DEF Mem, Settled, Words
  <2>5. \A k \in Beats : mem[l][k] \in [ver : Nat, word : Nat]
    BY <2>2
  <2>6. \A k \in Beats : mem[l][k] = [ver |-> started[l], word |-> k]
    BY <2>4, <2>5
  <2> QED
    BY <2>2, <2>6
<1> QED
  BY <1>1, BurstInit, BurstNext, TypesInit, TypesNext, WritesInit, WritesNext, PTL DEF Spec

(* A beat the fabric returns is not older than what its read must return,  *)
(* if the fabric completed the writes sent before the read.                *)
LEMMA ReturnedCurrent ==
    ASSUME OrderedFabric, IInv, Types, WInv, fabric_read, ar[1].id = 0
    PROVE  Returned.data.ver >= Returned.want /\ Returned.data.word = Returned.beat
<1>1. ar # <<>> /\ ar[1] \in ArSet /\ ar[1].after <= done
  BY FabricReadEffect
<1>2. /\ ar \in Seq(ArSet) /\ mem \in MemSet /\ rbeat \in Beats /\ done \in Nat
      /\ aw \in Seq(AwSet)
  BY DEF Types, ChannelTypes, SlaveTypes
<1>3. 1 \in 1..Len(ar)
  BY <1>1, <1>2, TailFacts
<1>4. PICK v : Writes(v)
  BY DEF WInv
<1>5. Served(ar[1], aw, mem, done, v) /\ Words(mem)
  BY <1>3, <1>4 DEF Writes, Mem
<1>6. ar[1].line \in Lines /\ ar[1].want \in Nat /\ ar[1].after \in Nat
  BY <1>1, ArFacts
<1>7. \A i \in 1..Len(aw) : ~(done + i <= ar[1].after)
  <2>1. Len(aw) \in Nat
    BY <1>2
  <2> QED
    BY <1>1, <1>2, <1>6, <2>1
<1>8. ar[1].want <= mem[ar[1].line][rbeat].ver /\ mem[ar[1].line][rbeat].word = rbeat
  BY <1>2, <1>5, <1>6, <1>7 DEF Served, Words
<1>9. mem[ar[1].line][rbeat].ver \in Nat
  BY <1>2, <1>6 DEF MemSet
<1>10. Returned.data = mem[ar[1].line][rbeat] /\ Returned.want = ar[1].want
       /\ Returned.beat = rbeat
  BY DEF Returned
<1> QED
  BY <1>6, <1>8, <1>9, <1>10

LEMMA FillNext ==
    ASSUME OrderedFabric, IInv, Types, WInv, FillReturnsLastWrite, [Next]_vars
    PROVE  FillReturnsLastWrite'
<1> DEFINE Good(x) == x.id = 0 => x.data.ver >= x.want /\ x.data.word = x.beat
<1>0. r \in Seq(RSet) /\ \A i \in 1..Len(r) : Good(r[i])
  BY DEF Types, ChannelTypes, FillReturnsLastWrite
<1> HIDE DEF Good
<1>1. ASSUME r # <<>>, r' = Tail(r) PROVE \A i \in 1..Len(r') : Good(r'[i])
  <2>1. /\ Len(r) \in Nat /\ Len(r') = Len(r) - 1
        /\ \A j \in 1..(Len(r) - 1) : r'[j] = r[j + 1]
    BY <1>0, <1>1, TailFacts
  <2>2. ASSUME NEW i \in 1..Len(r') PROVE Good(r'[i])
    <3>1. i + 1 \in 1..Len(r) /\ r'[i] = r[i + 1]
      BY <2>1
    <3> QED
      BY <1>0, <3>1
  <2> QED
    BY <2>2
<1>2. ASSUME fabric_read PROVE \A i \in 1..Len(r') : Good(r'[i])
  <2>1. r' = Append(r, Returned) /\ Returned \in RSet
    BY <1>2, FabricReadEffect
  <2>2. /\ Len(r) \in Nat /\ Len(r') = Len(r) + 1 /\ r'[Len(r) + 1] = Returned
        /\ \A i \in 1..Len(r) : r'[i] = r[i]
    BY <1>0, <2>1, AppendFacts
  <2>3. Good(Returned)
    <3>1. Returned.id = ar[1].id
      BY DEF Returned
    <3> QED
      BY <1>2, <3>1, ReturnedCurrent DEF Good
  <2>4. \A i \in 1..(Len(r) + 1) : i \in 1..Len(r) \/ i = Len(r) + 1
    BY <2>2
  <2> QED
    BY <1>0, <2>2, <2>3, <2>4
<1>3. r' = r \/ (r # <<>> /\ r' = Tail(r)) \/ fabric_read
  <2> USE DEF channels
  <2>1. ASSUME NEW l \in Lines, dmem_fill(l) \/ dmem_evict(l) PROVE r' = r
    BY <2>1 DEF dmem_fill, dmem_evict
  <2>2. ASSUME NEW k \in {"read", "write"}, dmem_io(k) PROVE r' = r
    BY <2>2 DEF dmem_io
  <2>3. CASE rl_initiate_io
    BY <2>3 DEF rl_initiate_io
  <2>4. CASE rl_handle_io_read_response
    BY <2>4 DEF rl_handle_io_read_response
  <2>5. CASE rl_handle_io_write_resp
    BY <2>5 DEF rl_handle_io_write_resp
  <2>6. CASE rl_handle_dmem_line_read_request
    BY <2>6 DEF rl_handle_dmem_line_read_request
  <2>7. CASE rl_handle_delayed_read
    BY <2>7 DEF rl_handle_delayed_read
  <2>8. CASE rl_handle_dmem_line_resp
    BY <2>8 DEF rl_handle_dmem_line_resp
  <2>9. CASE rl_handle_dmem_write_request
    BY <2>9 DEF rl_handle_dmem_write_request
  <2>10. CASE rl_dmem_burst_write_data
    BY <2>10 DEF rl_dmem_burst_write_data
  <2>11. CASE handle_dmem_line_write_resp
    BY <2>11 DEF handle_dmem_line_write_resp
  <2>12. CASE fabric_write
    BY <2>12 DEF fabric_write
  <2>13. CASE UNCHANGED vars
    BY <2>13 DEF vars
  <2> QED
    BY <2>1, <2>2, <2>3, <2>4, <2>5, <2>6, <2>7, <2>8, <2>9, <2>10, <2>11, <2>12, <2>13
       DEF Next
<1>4. \A i \in 1..Len(r') : Good(r'[i])
  BY <1>0, <1>1, <1>2, <1>3
<1> QED
  BY <1>4 DEF FillReturnsLastWrite, Good

(* Over a fabric that completes a write it has received whole before it    *)
(* serves a read it receives later, every behaviour satisfies              *)
(* FillReturnsLastWrite: a line fill returns every word of a version not   *)
(* older than the one the core had begun to write out.  The comparison of  *)
(* regions in rl_handle_dmem_line_read_request is what it rests on.        *)
THEOREM FillCorrect == ASSUME OrderedFabric PROVE Spec => []FillReturnsLastWrite
<1>1. Init => FillReturnsLastWrite
  BY DEF Init, FillReturnsLastWrite
<1>2. IInv /\ Types /\ WInv /\ FillReturnsLastWrite /\ [Next]_vars => FillReturnsLastWrite'
  BY FillNext
<1> QED
  BY <1>1, <1>2, BurstInit, BurstNext, TypesInit, TypesNext, WritesInit, WritesNext, PTL
     DEF Spec
=============================================================================
