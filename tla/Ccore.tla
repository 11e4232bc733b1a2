-------------------------------- MODULE Ccore --------------------------------
(***************************************************************************)
(* The data side of mkccore_axi4: the rules that turn the requests of the  *)
(* data memory subsystem (line fills, line evictions, I/O) into AXI4       *)
(* transactions of memory_xactor, and route the responses back.            *)
(*                                                                         *)
(* External, modelled from how ccore.bsv uses it: the data memory          *)
(* subsystem (dmem), the five channels of the transactor, and the fabric   *)
(* with the memory behind it.  An eviction is a version number of a line;  *)
(* a beat of it is the version and the index of the word it carries.       *)
(***************************************************************************)
EXTENDS Integers, Sequences

CONSTANTS
    Lines,           \* line addresses
    LinesPerRegion,  \* lines that agree in address >> (`dwords + `dblocks)
    DBLOCKS,         \* `dblocks, beats of a line
    BeatBits,        \* `dwords * 8
    ShiftMod,        \* the range of rg_shift_amount
    Depth,           \* slots of a transactor channel
    MaxVer,          \* bound: evictions of a line
    MaxIo,           \* bound: I/O operations
    OrderedFabric    \* the fabric completes a write it has received whole
                     \* before it serves a read it receives later

ASSUME CcoreAssumption ==
    /\ Lines \subseteq Nat /\ LinesPerRegion \in Nat \ {0}
    /\ DBLOCKS \in 2..256 /\ BeatBits \in Nat \ {0}
    /\ ShiftMod \in Nat /\ ShiftMod >= BeatBits * DBLOCKS
    /\ Depth \in Nat \ {0} /\ MaxVer \in Nat /\ MaxIo \in Nat
    /\ OrderedFabric \in BOOLEAN

VARIABLES
    cached,            \* dmem: absent, filling or present, for each line
    evictions,         \* dmem: the eviction FIFO behind send_mem_wr_req
    rd_req,            \* dmem: line addresses behind send_mem_rd_req
    io,                \* dmem: the one I/O operation of the write-back stage
    rg_burst_count, rg_shift_amount,
    rg_read_line_req,  \* delayed read, a sequence of at most one address
    wr_write_req,      \* line being written, a sequence of at most one address
    ar, aw, w, r, b,   \* i_rd_addr, i_wr_addr, i_wr_data, o_rd_data, o_wr_resp
    mem,               \* the memory: version and word index of every beat
    beat, rbeat,       \* beats of the head of aw written, of ar read
    ver,               \* history: version of the last eviction of each line
    started,           \* history: version of the last eviction begun
    sent, done,        \* history: writes sent whole, writes completed
    ios                \* number of I/O operations so far

dmem == <<cached, evictions, rd_req, io>>
regs == <<rg_burst_count, rg_shift_amount, rg_read_line_req, wr_write_req>>
channels == <<ar, aw, w, r, b>>
slave == <<mem, beat, rbeat, done>>
vars == <<dmem, regs, channels, slave, ver, started, sent, ios>>

Beats == 0..(DBLOCKS - 1)
Region(line) == line \div LinesPerRegion
NoIo == [kind |-> "none", state |-> "idle"]

Init ==
    /\ cached = [l \in Lines |-> "absent"] /\ evictions = <<>> /\ rd_req = <<>> /\ io = NoIo
    /\ rg_burst_count = 0 /\ rg_shift_amount = BeatBits
    /\ rg_read_line_req = <<>> /\ wr_write_req = <<>>
    /\ ar = <<>> /\ aw = <<>> /\ w = <<>> /\ r = <<>> /\ b = <<>>
    /\ mem = [l \in Lines |-> [k \in Beats |-> [ver |-> 0, word |-> k]]]
    /\ beat = 0 /\ rbeat = 0
    /\ ver = [l \in Lines |-> 0] /\ started = [l \in Lines |-> 0]
    /\ sent = 0 /\ done = 0 /\ ios = 0

(***************************************************************************)
(* The data memory subsystem (external).  A line is evicted when it is in  *)
(* the cache and filled when it is not; write-back has one I/O operation   *)
(* outstanding at a time.                                                  *)
(***************************************************************************)
dmem_fill(l) ==
    /\ cached[l] = "absent" /\ Len(rd_req) < Depth
    /\ cached' = [cached EXCEPT ![l] = "filling"] /\ rd_req' = Append(rd_req, l)
    /\ UNCHANGED <<evictions, io, regs, channels, slave, ver, started, sent, ios>>

dmem_evict(l) ==
    /\ cached[l] = "present" /\ Len(evictions) < Depth /\ ver[l] < MaxVer
    /\ cached' = [cached EXCEPT ![l] = "absent"] /\ ver' = [ver EXCEPT ![l] = @ + 1]
    /\ evictions' = Append(evictions, [line |-> l, ver |-> ver[l] + 1])
    /\ UNCHANGED <<rd_req, io, regs, channels, slave, started, sent, ios>>

dmem_io(kind) ==
    /\ io = NoIo /\ ios < MaxIo
    /\ io' = [kind |-> kind, state |-> "request"] /\ ios' = ios + 1
    /\ UNCHANGED <<cached, evictions, rd_req, regs, channels, slave, ver, started, sent>>

(***************************************************************************)
(* The rules of mkccore_axi4.                                              *)
(***************************************************************************)
bug_initiate_io ==
    /\ io.state = "request"
    /\ io' = [io EXCEPT !.state = "wait"]
    /\ \/ /\ io.kind = "read" /\ Len(ar) < Depth
          /\ ar' = Append(ar, [id |-> 1, line |-> -1, want |-> 0, after |-> sent])
          /\ UNCHANGED <<aw, w, sent>>
       \/ /\ io.kind = "write" /\ Len(aw) < Depth /\ Len(w) < Depth
          /\ aw' = Append(aw, [id |-> 1, line |-> -1, len |-> 0])
          /\ w' = Append(w, [id |-> 1, ver |-> 0, word |-> 0, last |-> TRUE])
          /\ sent' = sent + 1
          /\ UNCHANGED ar
    /\ UNCHANGED <<cached, evictions, rd_req, regs, r, b, slave, ver, started, ios>>

rl_initiate_io ==
    /\ rg_burst_count = 0
    /\ io.state = "request"
    /\ io' = [io EXCEPT !.state = "wait"]
    /\ \/ /\ io.kind = "read" /\ Len(ar) < Depth
          /\ ar' = Append(ar, [id |-> 1, line |-> -1, want |-> 0, after |-> sent])
          /\ UNCHANGED <<aw, w, sent>>
       \/ /\ io.kind = "write" /\ Len(aw) < Depth /\ Len(w) < Depth
          /\ aw' = Append(aw, [id |-> 1, line |-> -1, len |-> 0])
          /\ w' = Append(w, [id |-> 1, ver |-> 0, word |-> 0, last |-> TRUE])
          /\ sent' = sent + 1
          /\ UNCHANGED ar
    /\ UNCHANGED <<cached, evictions, rd_req, regs, r, b, slave, ver, started, ios>>

rl_handle_io_read_response ==
    /\ r # <<>> /\ Head(r).id = 1
    /\ r' = Tail(r) /\ io' = NoIo
    /\ UNCHANGED <<cached, evictions, rd_req, regs, ar, aw, w, b, slave, ver, started,
                   sent, ios>>

rl_handle_io_write_resp ==
    /\ b # <<>> /\ Head(b).id = 1
    /\ b' = Tail(b) /\ io' = NoIo
    /\ UNCHANGED <<cached, evictions, rd_req, regs, ar, aw, w, r, slave, ver, started,
                   sent, ios>>

(* A line read; want and after are history.                                *)
LineRead(l) == [id |-> 0, line |-> l, want |-> started[l], after |-> sent]

bug_conflict(l) == FALSE

(* The address of the read and of the write in progress, compared without  *)
(* their low `dwords + `dblocks bits: more than one line may agree.        *)
conflict(l) == wr_write_req # <<>> /\ Region(wr_write_req[1]) = Region(l)

bug_read_request ==
    /\ rg_read_line_req = <<>> /\ rd_req # <<>>
    /\ rd_req' = Tail(rd_req)
    /\ \/ /\ conflict(Head(rd_req))
          /\ UNCHANGED <<rg_read_line_req, ar>>
       \/ /\ ~conflict(Head(rd_req)) /\ Len(ar) < Depth
          /\ ar' = Append(ar, LineRead(Head(rd_req)))
          /\ UNCHANGED rg_read_line_req
    /\ UNCHANGED <<cached, evictions, io, rg_burst_count, rg_shift_amount, wr_write_req,
                   aw, w, r, b, slave, ver, started, sent, ios>>

rl_handle_dmem_line_read_request ==
    /\ rg_read_line_req = <<>> /\ rd_req # <<>>
    /\ rd_req' = Tail(rd_req)
    /\ \/ /\ conflict(Head(rd_req))
          /\ rg_read_line_req' = <<Head(rd_req)>>
          /\ UNCHANGED ar
       \/ /\ ~conflict(Head(rd_req)) /\ Len(ar) < Depth
          /\ ar' = Append(ar, LineRead(Head(rd_req)))
          /\ UNCHANGED rg_read_line_req
    /\ UNCHANGED <<cached, evictions, io, rg_burst_count, rg_shift_amount, wr_write_req,
                   aw, w, r, b, slave, ver, started, sent, ios>>

rl_handle_delayed_read ==
    /\ rg_read_line_req # <<>> /\ wr_write_req = <<>> /\ Len(ar) < Depth
    /\ ar' = Append(ar, LineRead(rg_read_line_req[1]))
    /\ rg_read_line_req' = <<>>
    /\ UNCHANGED <<dmem, rg_burst_count, rg_shift_amount, wr_write_req, aw, w, r, b,
                   slave, ver, started, sent, ios>>

rl_handle_dmem_line_resp ==
    /\ r # <<>> /\ Head(r).id = 0
    /\ r' = Tail(r)
    /\ cached' = IF Head(r).last THEN [cached EXCEPT ![Head(r).line] = "present"] ELSE cached
    /\ UNCHANGED <<evictions, rd_req, io, regs, ar, aw, w, b, slave, ver, started, sent, ios>>

bug_write_id == 1

line_write_id == 0

(* The first beat of a line; the request stays in the eviction FIFO.  Its  *)
(* burst_len is DBLOCKS - 1.                                               *)
rl_handle_dmem_write_request ==
    /\ rg_burst_count = 0 /\ evictions # <<>>
    /\ Len(aw) < Depth /\ Len(w) < Depth
    /\ LET req == Head(evictions)
       IN  /\ aw' = Append(aw, [id |-> line_write_id, line |-> req.line, len |-> DBLOCKS - 1])
           /\ w' = Append(w, [id |-> 0, ver |-> req.ver, word |-> 0, last |-> FALSE])
           /\ wr_write_req' = <<req.line>>
           /\ started' = [started EXCEPT ![req.line] = req.ver]
    /\ rg_burst_count' = (rg_burst_count + 1) % 256
    /\ UNCHANGED <<dmem, rg_shift_amount, rg_read_line_req, ar, r, b, slave, ver, sent, ios>>

bug_burst_keeps_shift ==
    /\ rg_burst_count # 0 /\ evictions # <<>> /\ Len(w) < Depth
    /\ LET last == rg_burst_count = DBLOCKS - 1
       IN  /\ w' = Append(w, [id |-> 0, ver |-> Head(evictions).ver,
                              word |-> rg_shift_amount \div BeatBits, last |-> last])
           /\ rg_shift_amount' = (rg_shift_amount + BeatBits) % ShiftMod
           /\ IF last
              THEN /\ rg_burst_count' = 0
                   /\ wr_write_req' = <<>> /\ evictions' = Tail(evictions) /\ sent' = sent + 1
              ELSE /\ rg_burst_count' = (rg_burst_count + 1) % 256
                   /\ UNCHANGED <<wr_write_req, evictions, sent>>
    /\ UNCHANGED <<cached, rd_req, io, rg_read_line_req, ar, aw, r, b, slave, ver, started,
                   ios>>

bug_burst_keeps_req ==
    /\ rg_burst_count # 0 /\ evictions # <<>> /\ Len(w) < Depth
    /\ LET last == rg_burst_count = DBLOCKS - 1
       IN  /\ w' = Append(w, [id |-> 0, ver |-> Head(evictions).ver,
                              word |-> rg_shift_amount \div BeatBits, last |-> last])
           /\ IF last
              THEN /\ rg_burst_count' = 0 /\ rg_shift_amount' = BeatBits
                   /\ evictions' = Tail(evictions) /\ sent' = sent + 1
              ELSE /\ rg_burst_count' = (rg_burst_count + 1) % 256
                   /\ rg_shift_amount' = (rg_shift_amount + BeatBits) % ShiftMod
                   /\ UNCHANGED <<evictions, sent>>
    /\ UNCHANGED <<cached, rd_req, io, rg_read_line_req, wr_write_req, ar, aw, r, b, slave,
                   ver, started, ios>>


rl_dmem_burst_write_data ==
    /\ rg_burst_count # 0 /\ evictions # <<>> /\ Len(w) < Depth
    /\ LET last == rg_burst_count = DBLOCKS - 1
       IN  /\ w' = Append(w, [id |-> 0, ver |-> Head(evictions).ver,
                              word |-> rg_shift_amount \div BeatBits, last |-> last])
           /\ IF last
              THEN /\ rg_burst_count' = 0 /\ rg_shift_amount' = BeatBits
                   /\ wr_write_req' = <<>> /\ evictions' = Tail(evictions) /\ sent' = sent + 1
              ELSE /\ rg_burst_count' = (rg_burst_count + 1) % 256
                   /\ rg_shift_amount' = (rg_shift_amount + BeatBits) % ShiftMod
                   /\ UNCHANGED <<wr_write_req, evictions, sent>>
    /\ UNCHANGED <<cached, rd_req, io, rg_read_line_req, ar, aw, r, b, slave, ver, started,
                   ios>>

handle_dmem_line_write_resp ==
    /\ b # <<>> /\ Head(b).id = 0
    /\ b' = Tail(b)
    /\ UNCHANGED <<dmem, regs, ar, aw, w, r, slave, ver, started, sent, ios>>

(***************************************************************************)
(* The fabric and the memory (external): writes beat by beat in the order  *)
(* of the write channels, reads in the order of the read channel.  Reads   *)
(* and writes may overtake each other, except as OrderedFabric says.       *)
(***************************************************************************)
fabric_write ==
    /\ aw # <<>> /\ w # <<>> /\ Len(b) < Depth
    /\ w' = Tail(w)
    /\ mem' = IF Head(aw).id = 1 THEN mem
              ELSE [mem EXCEPT ![Head(aw).line][beat] =
                        [ver |-> Head(w).ver, word |-> Head(w).word]]
    /\ IF beat = Head(aw).len
       THEN /\ beat' = 0 /\ aw' = Tail(aw) /\ done' = done + 1
            /\ b' = Append(b, [id |-> Head(aw).id])
       ELSE beat' = beat + 1 /\ UNCHANGED <<aw, b, done>>
    /\ UNCHANGED <<dmem, regs, ar, r, rbeat, ver, started, sent, ios>>

fabric_read ==
    /\ ar # <<>> /\ Len(r) < Depth
    /\ OrderedFabric => Head(ar).after <= done
    /\ LET q    == Head(ar)
           last == q.id = 1 \/ rbeat = DBLOCKS - 1
       IN  /\ r' = Append(r, [id |-> q.id, line |-> q.line, want |-> q.want, last |-> last,
                              data |-> IF q.id = 1 THEN [ver |-> 0, word |-> 0]
                                       ELSE mem[q.line][rbeat],
                              beat |-> rbeat])
           /\ rbeat' = IF last THEN 0 ELSE rbeat + 1
           /\ ar' = IF last THEN Tail(ar) ELSE ar
    /\ UNCHANGED <<dmem, regs, aw, w, b, mem, beat, done, ver, started, sent, ios>>

Next ==
    \/ \E l \in Lines : dmem_fill(l) \/ dmem_evict(l)
    \/ \E kind \in {"read", "write"} : dmem_io(kind)
    \/ rl_initiate_io \/ rl_handle_io_read_response \/ rl_handle_io_write_resp
    \/ rl_handle_dmem_line_read_request \/ rl_handle_delayed_read
    \/ rl_handle_dmem_line_resp \/ rl_handle_dmem_write_request
    \/ rl_dmem_burst_write_data \/ handle_dmem_line_write_resp
    \/ fabric_write \/ fabric_read

Spec == Init /\ [][Next]_vars

(* A rule that stays ready fires.  A delayed read competes with nothing    *)
(* but one I/O read for the read channel: it fires in one of the clocks    *)
(* between two bursts.                                                     *)
Fairness ==
    /\ WF_vars(rl_initiate_io) /\ WF_vars(rl_handle_io_read_response)
    /\ WF_vars(rl_handle_io_write_resp) /\ WF_vars(rl_handle_dmem_line_read_request)
    /\ SF_vars(rl_handle_delayed_read) /\ WF_vars(rl_handle_dmem_line_resp)
    /\ WF_vars(rl_handle_dmem_write_request) /\ WF_vars(rl_dmem_burst_write_data)
    /\ WF_vars(handle_dmem_line_write_resp) /\ WF_vars(fabric_write) /\ WF_vars(fabric_read)

FairSpec == Spec /\ Fairness

(***************************************************************************)
(* Properties.                                                             *)
(***************************************************************************)

(* The burst registers move in step: while a line is being written,        *)
(* wr_write_req names the line at the head of the eviction FIFO and        *)
(* rg_shift_amount selects the word rg_burst_count says; otherwise all are *)
(* in their reset state (rl_handle_dmem_write_request,                     *)
(* rl_dmem_burst_write_data).                                              *)
BurstInv ==
    /\ rg_burst_count \in Beats
    /\ rg_burst_count = 0 => wr_write_req = <<>> /\ rg_shift_amount = BeatBits
    /\ rg_burst_count # 0 =>
         /\ evictions # <<>> /\ wr_write_req = <<Head(evictions).line>>
         /\ rg_shift_amount = BeatBits * rg_burst_count

(* The write-data channel carries the beats of the write-address channel   *)
(* in its order: no I/O beat inside a burst, the right word in every beat, *)
(* last exactly on the last one (AXI4; the guards on rg_burst_count).      *)
WriteBeatsMatch ==
    aw # <<>> /\ w # <<>> =>
        /\ Head(w).id = Head(aw).id
        /\ Head(w).last <=> beat = Head(aw).len
        /\ Head(aw).id = 0 => Head(w).word = beat

(* When no write is on its way, memory holds the last eviction of every    *)
(* line, whole.                                                            *)
EvictionsReachMemory ==
    aw = <<>> /\ rg_burst_count = 0 =>
        \A l \in Lines : mem[l] = [k \in Beats |-> [ver |-> started[l], word |-> k]]

(* A line fill returns what the last eviction of the line wrote, provided  *)
(* the core had begun to write it out when it took the read: the reason    *)
(* for rg_read_line_req and wr_write_req (rl_handle_dmem_line_read_request *)
(* and its documentation).                                                 *)
FillReturnsLastWrite ==
    \A i \in 1..Len(r) : r[i].id = 0 => r[i].data.ver >= r[i].want /\ r[i].data.word = r[i].beat

(* The response of an I/O operation answers the operation write-back waits *)
(* for, and the two I/O response rules are never ready together: the       *)
(* mutually_exclusive attribute of mkccore_axi4.                           *)
IoAnswersMatch ==
    /\ r # <<>> /\ Head(r).id = 1 => io = [kind |-> "read", state |-> "wait"]
    /\ b # <<>> /\ Head(b).id = 1 => io = [kind |-> "write", state |-> "wait"]

(* Every line fill is answered, delayed or not.                            *)
FillCompletes == \A l \in Lines : cached[l] = "filling" ~> cached[l] = "present"

(* Every eviction reaches memory.                                          *)
EvictionCompletes ==
    \A l \in Lines : \A v \in 1..MaxVer :
        ver[l] = v ~> \A k \in Beats : mem[l][k].ver >= v

(* What the data cache asks of the bridge is done in the end: fills in     *)
(* spite of the delay behind a write, evictions in spite of new reads.     *)
RequestsComplete == FillCompletes /\ EvictionCompletes
=============================================================================
