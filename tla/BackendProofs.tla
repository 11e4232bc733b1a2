---------------------------- MODULE BackendProofs ----------------------------
(***************************************************************************)
(* Proofs about Backend, for every number of registers, every buffer size  *)
(* and every mix of instructions.                                          *)
(***************************************************************************)
EXTENDS Backend, TLAPS

-----------------------------------------------------------------------------
(* Facts about the operators the rules are built from                      *)

(* rg_renameid wraps to 0 after the last id.                               *)
LEMMA NextId ==
    ASSUME NEW n \in 0 .. IdSpace - 1
    PROVE  /\ (n + 1) % IdSpace \in 0 .. IdSpace - 1
           /\ (n + 1) % IdSpace = IF n = IdSpace - 1 THEN 0 ELSE n + 1
  BY SizesAssumption

(* Dequeuing shifts a buffer by one.                                       *)
LEMMA Dequeue ==
    ASSUME NEW S, NEW s \in Seq(S), s # <<>>
    PROVE  /\ Tail(s) \in Seq(S)
           /\ Len(Tail(s)) = Len(s) - 1
           /\ Len(s) \in Nat \ {0}
           /\ Head(s) = s[1] /\ s[1] \in S
           /\ \A i \in 1 .. Len(s) - 1 : Tail(s)[i] = s[i + 1]
  OBVIOUS

(* Enqueuing adds one entry at the end.                                    *)
LEMMA Enqueue ==
    ASSUME NEW S, NEW s \in Seq(S), NEW e \in S
    PROVE  /\ Append(s, e) \in Seq(S)
           /\ Len(Append(s, e)) = Len(s) + 1
           /\ Len(s) \in Nat
           /\ \A i \in 1 .. Len(s) : Append(s, e)[i] = s[i]
           /\ Append(s, e)[Len(s) + 1] = e
  OBVIOUS

(* A flush marks the entries and changes nothing else in them.             *)
LEMMA KillEntries ==
    ASSUME NEW s \in Seq(Entry)
    PROVE  /\ Kill(s) \in Seq(Entry)
           /\ Len(Kill(s)) = Len(s)
           /\ \A i \in 1 .. Len(s) :
                /\ Kill(s)[i] = [s[i] EXCEPT !.dead = TRUE]
                /\ Kill(s)[i].fu = s[i].fu /\ Kill(s)[i].rd = s[i].rd
                /\ Kill(s)[i].id = s[i].id /\ Kill(s)[i].ep = s[i].ep
                /\ Kill(s)[i].val = s[i].val /\ Kill(s)[i].dead = TRUE
  <1>1. Len(s) \in Nat /\ \A i \in 1 .. Len(s) : s[i] \in Entry
    OBVIOUS
  <1>2. \A i \in 1 .. Len(s) : [s[i] EXCEPT !.dead = TRUE] \in Entry
    BY <1>1 DEF Entry
  <1>3. Kill(s) \in Seq(Entry) /\ Len(Kill(s)) = Len(s)
    BY <1>1, <1>2 DEF Kill
  <1>4. QED
    BY <1>1, <1>3 DEF Kill, Entry

(* The same for the packet in front of stage3.                             *)
LEMMA KillPacket ==
    ASSUME NEW s \in Seq(Packet), Len(s) \in {0, 1}
    PROVE  /\ Kill(s) \in Seq(Packet)
           /\ Len(Kill(s)) = Len(s)
           /\ s = <<>> => Kill(s) = <<>>
           /\ s # <<>> => /\ Kill(s) # <<>> /\ Kill(s)[1].dead = TRUE
                          /\ Kill(s)[1].type = s[1].type /\ Kill(s)[1].src = s[1].src
                          /\ Kill(s)[1].val = s[1].val
                          /\ Kill(s)[1].e = s[1].e /\ Kill(s)[1].w = s[1].w
  <1>1. Len(s) \in Nat /\ \A i \in 1 .. Len(s) : s[i] \in Packet
    OBVIOUS
  <1>2. \A i \in 1 .. Len(s) : [s[i] EXCEPT !.dead = TRUE] \in Packet
    BY <1>1 DEF Packet
  <1>3. Kill(s) \in Seq(Packet) /\ Len(Kill(s)) = Len(s)
    BY <1>1, <1>2 DEF Kill
  <1>4. ASSUME s # <<>>
        PROVE  Len(s) = 1 /\ s[1] \in Packet /\ Kill(s)[1] = [s[1] EXCEPT !.dead = TRUE]
    <2>1. Len(s) = 1
      BY <1>4
    <2>2. QED
      BY <1>1, <2>1 DEF Kill
  <1>5. s = <<>> => Kill(s) = <<>>
    BY <1>3
  <1>6. QED
    BY <1>3, <1>4, <1>5 DEF Packet

(* A retirement changes only operand values of the packet.                 *)
LEMMA FollowPacket ==
    ASSUME NEW p \in Packet, NEW rd \in Regs, NEW v \in Vals \union {NoVal},
           rd # x0 => v \in Vals
    PROVE  /\ FollowCommit(p, rd, v) \in Packet
           /\ FollowCommit(p, rd, v).type = p.type
           /\ FollowCommit(p, rd, v).src = p.src
           /\ FollowCommit(p, rd, v).e = p.e
           /\ FollowCommit(p, rd, v).w = p.w
           /\ FollowCommit(p, rd, v).dead = p.dead
           /\ \A o \in Operands : FollowCommit(p, rd, v).val[o] =
                 IF rd # x0 /\ p.src[o] = rd /\ (o = "rd" => ~Spfpu) THEN v ELSE p.val[o]
  BY DEF FollowCommit, Packet

(* The buffer in front of stage3 after a retirement.                       *)
LEMMA FollowBuffer ==
    ASSUME NEW s \in Seq(Packet), Len(s) \in {0, 1},
           NEW rd \in Regs, NEW v \in Vals \union {NoVal}, rd # x0 => v \in Vals
    PROVE  /\ ma_commit_rd(s, rd, v) \in Seq(Packet) /\ Len(ma_commit_rd(s, rd, v)) = Len(s)
           /\ s = <<>> => ma_commit_rd(s, rd, v) = <<>>
           /\ s # <<>> => /\ ma_commit_rd(s, rd, v) # <<>> /\ s[1] \in Packet
                          /\ ma_commit_rd(s, rd, v)[1] = FollowCommit(s[1], rd, v)
  <1> DEFINE t == ma_commit_rd(s, rd, v)
  <1>1. Len(s) \in Nat /\ \A i \in 1 .. Len(s) : s[i] \in Packet
    OBVIOUS
  <1>2. \A i \in 1 .. Len(s) : FollowCommit(s[i], rd, v) \in Packet
    BY <1>1, FollowPacket
  <1>3. t \in Seq(Packet) /\ Len(t) = Len(s) /\ (s = <<>> => t = <<>>)
    BY <1>1, <1>2 DEF ma_commit_rd
  <1>4. ASSUME s # <<>>
        PROVE  Len(s) = 1 /\ s[1] \in Packet /\ t[1] = FollowCommit(s[1], rd, v)
    <2>1. Len(s) = 1
      BY <1>4
    <2>2. QED
      BY <1>1, <2>1 DEF ma_commit_rd
  <1> HIDE DEF t
  <1>5. s # <<>> => t # <<>>
    BY <1>3, <1>4
  <1>6. QED
    BY <1>3, <1>4, <1>5 DEF t

-----------------------------------------------------------------------------
(* Type correctness                                                        *)

(* The packet stage3 works on.                                             *)
LEMMA PacketType ==
    ASSUME TypeOK, isb23 # <<>>
    PROVE  Len(isb23) = 1 /\ Pkt \in Packet /\ Pkt.src \in [Operands -> Regs]
           /\ Pkt.src["rd"] \in Regs /\ Pkt.w \in Bit /\ Pkt.e \in Bit /\ Pkt.dead \in BOOLEAN
  <1>1. Len(isb23) = 1
    BY DEF TypeOK
  <1>2. Pkt \in Packet
    BY <1>1 DEF TypeOK, Pkt
  <1>3. QED
    BY <1>1, <1>2 DEF Packet, Operands

(* Locking keeps the scoreboard typed.                                     *)
LEMMA LockType ==
    ASSUME TypeOK, NEW rd \in Regs, ma_lock_rd(rd)
    PROVE  /\ board' \in [Regs -> [lock : BOOLEAN, id : 0 .. IdSpace - 1]]
           /\ renameid' \in 0 .. IdSpace - 1
  <1>1. renameid' \in 0 .. IdSpace - 1
    BY NextId DEF TypeOK, ma_lock_rd
  <1>2. board' \in [Regs -> [lock : BOOLEAN, id : 0 .. IdSpace - 1]]
    BY DEF TypeOK, ma_lock_rd
  <1>3. QED
    BY <1>1, <1>2

(* So does releasing.                                                      *)
LEMMA ReleaseType ==
    ASSUME TypeOK, NEW rd \in Regs, NEW id, ma_release_rd(rd, id)
    PROVE  board' \in [Regs -> [lock : BOOLEAN, id : 0 .. IdSpace - 1]]
  BY DEF TypeOK, ma_release_rd

(* The entry Issue enqueues.                                               *)
Issued(fu, v) == [fu |-> fu, rd |-> Pkt.src["rd"], id |-> renameid,
                  ep |-> Pkt.w, val |-> v, dead |-> Pkt.dead]

(* What Issue does to the buffers and the scoreboard.                      *)
LEMMA IssueEffect ==
    ASSUME TypeOK, isb23 # <<>>, NEW fu \in Units, NEW v \in Vals \union {NoVal},
           Issue(fu, v)
    PROVE  /\ Issued(fu, v) \in Entry
           /\ isb34' \in Seq(Entry) /\ Len(isb34') = Len(isb34) + 1
           /\ Len(isb34') <= IsbS3S4 /\ Len(isb34) \in Nat
           /\ \A i \in 1 .. Len(isb34) : isb34'[i] = isb34[i]
           /\ isb34'[Len(isb34')] = Issued(fu, v)
           /\ ma_lock_rd(Pkt.src["rd"])
           /\ rf' = rf /\ wEpoch' = wEpoch /\ isb45' = isb45
  <1>1. Issued(fu, v) \in Entry
    BY PacketType DEF TypeOK, Issued, Entry
  <1>2. isb34' = Append(isb34, Issued(fu, v)) /\ Len(isb34) < IsbS3S4
    BY DEF Issue, Issued
  <1>3. isb34 \in Seq(Entry)
    BY DEF TypeOK
  <1>4. isb34' \in Seq(Entry) /\ Len(isb34') = Len(isb34) + 1 /\ Len(isb34) \in Nat
        /\ (\A i \in 1 .. Len(isb34) : isb34'[i] = isb34[i])
        /\ isb34'[Len(isb34) + 1] = Issued(fu, v)
    BY <1>1, <1>2, <1>3, Enqueue
  <1>5. Len(isb34') <= IsbS3S4
    BY <1>2, <1>4, SizesAssumption
  <1>6. QED
    BY <1>1, <1>4, <1>5 DEF Issue

(* Issue keeps everything but the s2-s3 buffer typed.                      *)
LEMMA IssueType ==
    ASSUME TypeOK, isb23 # <<>>, NEW fu \in Units, NEW v \in Vals \union {NoVal},
           fu = "BASE" /\ Pkt.src["rd"] # x0 => v \in Vals,
           fu \in {"STORE", "XRET"} => Pkt.src["rd"] = x0,
           Issue(fu, v),
           rg_stall' \in BOOLEAN, eEpoch' \in Bit, isb12' \in BOOLEAN,
           isb23' \in Seq(Packet), Len(isb23') \in {0, 1},
           isb23' # <<>> /\ (Pkt').type \in {"STORE", "SFENCE", "XRET"} => (Pkt').src["rd"] = x0
    PROVE  TypeOK'
  <1>1. board' \in [Regs -> [lock : BOOLEAN, id : 0 .. IdSpace - 1]]
        /\ renameid' \in 0 .. IdSpace - 1
    BY PacketType, IssueEffect, LockType
  <1>2. EntriesOK(isb34')
    <2> SUFFICES ASSUME NEW i \in 1 .. Len(isb34')
                 PROVE  /\ isb34'[i].fu = "BASE" /\ isb34'[i].rd # x0 => isb34'[i].val \in Vals
                        /\ isb34'[i].fu \in {"STORE", "XRET"} => isb34'[i].rd = x0
      BY DEF EntriesOK
    <2>1. CASE i \in 1 .. Len(isb34)
      BY <2>1, IssueEffect DEF TypeOK, EntriesOK
    <2>2. CASE i = Len(isb34')
      <3>1. isb34'[i] = Issued(fu, v)
        BY <2>2, IssueEffect
      <3>2. Issued(fu, v).fu = fu /\ Issued(fu, v).rd = Pkt.src["rd"] /\ Issued(fu, v).val = v
        BY DEF Issued
      <3>3. QED
        BY <3>1, <3>2
    <2>3. QED
      BY <2>1, <2>2, IssueEffect
  <1>3. QED
    BY <1>1, <1>2, IssueEffect DEF TypeOK

(* Dequeuing the packet and redirecting both leave a typed s2-s3 buffer.   *)
LEMMA FetchedType ==
    ASSUME TypeOK, NEW i \in Instrs, NEW b \in BOOLEAN
    PROVE  /\ Fetched(i, b) \in Packet
           /\ Fetched(i, b).type \in {"STORE", "SFENCE", "XRET"}
                => Fetched(i, b).src["rd"] = x0
           /\ <<Fetched(i, b)>> \in Seq(Packet) /\ Len(<<Fetched(i, b)>>) = 1
           /\ <<Fetched(i, b)>>[1] = Fetched(i, b)
  <1>1. i.type \in Types /\ i.src \in [Operands -> Regs]
    BY InstrsAssumption
  <1>2. [o \in Operands |-> rf[i.src[o]]] \in [Operands -> Vals]
    BY <1>1 DEF TypeOK
  <1>3. Fetched(i, b) \in Packet
    BY <1>1, <1>2 DEF TypeOK, Fetched, Packet
  <1>4. Fetched(i, b).type = i.type /\ Fetched(i, b).src = i.src
    BY DEF Fetched
  <1>5. QED
    BY <1>3, <1>4, InstrsAssumption

LEMMA RefillType ==
    ASSUME TypeOK, Deq23 \/ Redirect
    PROVE  /\ rg_stall' \in BOOLEAN /\ eEpoch' \in Bit /\ isb12' \in BOOLEAN
           /\ isb23' \in Seq(Packet) /\ Len(isb23') \in {0, 1}
           /\ isb23' # <<>> /\ (Pkt').type \in {"STORE", "SFENCE", "XRET"}
                => (Pkt').src["rd"] = x0
  <1>1. CASE Deq23
    BY <1>1 DEF Deq23, TypeOK
  <1>2. CASE Redirect
    <2>a. rg_stall' \in BOOLEAN
      BY <1>2 DEF Redirect
    <2>b. eEpoch \in {0, 1} /\ eEpoch' = 1 - eEpoch
      BY <1>2 DEF Redirect, TypeOK, Bit
    <2>c. isb12' \in BOOLEAN
      BY <1>2, Zenon DEF Redirect, TypeOK
    <2>1. rg_stall' \in BOOLEAN /\ eEpoch' \in Bit /\ isb12' \in BOOLEAN
      BY <2>a, <2>b, <2>c DEF Bit
    <2>2. CASE isb23' = <<>>
      BY <2>1, <2>2
    <2>3. CASE \E i \in Instrs : isb23' = <<Fetched(i, TRUE)>>
      <3>1. PICK i \in Instrs : isb23' = <<Fetched(i, TRUE)>>
        BY <2>3
      <3>2. QED
        BY <2>1, <3>1, FetchedType DEF Pkt
    <2>4. QED
      BY <1>2, <2>2, <2>3 DEF Redirect
  <1>3. QED
    BY <1>1, <1>2

(* A step of stage4, entry by entry: the head of s3-s4 becomes the last    *)
(* entry of s4-s5.                                                         *)
Moved(fus, fu, v) ==
    /\ isb34 # <<>> /\ Len(isb34) \in Nat \ {0} /\ Len(isb45) \in Nat
    /\ isb34[1] \in Entry /\ isb34[1].fu \in fus /\ Head(isb34) = isb34[1]
    /\ isb34' \in Seq(Entry) /\ Len(isb34') = Len(isb34) - 1
    /\ \A i \in 1 .. Len(isb34') : i + 1 \in 1 .. Len(isb34) /\ isb34'[i] = isb34[i + 1]
    /\ isb45' \in Seq(Entry) /\ Len(isb45') = Len(isb45) + 1
    /\ Len(isb45') <= IsbS4S5
    /\ \A i \in 1 .. Len(isb45) : isb45'[i] = isb45[i]
    /\ isb45'[Len(isb45')] \in Entry
    /\ isb45'[Len(isb45')].fu = fu /\ isb45'[Len(isb45')].val = v
    /\ isb45'[Len(isb45')].rd = isb34[1].rd /\ isb45'[Len(isb45')].id = isb34[1].id
    /\ isb45'[Len(isb45')].ep = isb34[1].ep /\ isb45'[Len(isb45')].dead = isb34[1].dead
    /\ UNCHANGED <<board, renameid, rf, rg_stall, eEpoch, wEpoch, isb23>>

LEMMA ForwardEffect ==
    ASSUME TypeOK, NEW fus, NEW fu \in Units, NEW v \in Vals \union {NoVal},
           Forward(fus, fu, v)
    PROVE  Moved(fus, fu, v)
  <1> DEFINE e == [isb34[1] EXCEPT !.fu = fu, !.val = v]
  <1>1. isb34 # <<>> /\ isb34 \in Seq(Entry) /\ isb45 \in Seq(Entry)
    BY DEF TypeOK, Forward
  <1>2. /\ Tail(isb34) \in Seq(Entry) /\ Len(Tail(isb34)) = Len(isb34) - 1
        /\ Len(isb34) \in Nat \ {0} /\ Head(isb34) = isb34[1] /\ isb34[1] \in Entry
        /\ \A i \in 1 .. Len(isb34) - 1 : Tail(isb34)[i] = isb34[i + 1]
    BY <1>1, Dequeue
  <1>3. /\ e \in Entry /\ e.fu = fu /\ e.val = v /\ e.rd = isb34[1].rd
        /\ e.id = isb34[1].id /\ e.ep = isb34[1].ep /\ e.dead = isb34[1].dead
    BY <1>2 DEF Entry
  <1> HIDE DEF e
  <1>4. /\ Append(isb45, e) \in Seq(Entry) /\ Len(Append(isb45, e)) = Len(isb45) + 1
        /\ Len(isb45) \in Nat
        /\ \A i \in 1 .. Len(isb45) : Append(isb45, e)[i] = isb45[i]
        /\ Append(isb45, e)[Len(isb45) + 1] = e
    BY <1>1, <1>3, Enqueue
  <1>5. isb45' = Append(isb45, e) /\ isb34' = Tail(isb34) /\ Len(isb45) < IsbS4S5
    BY <1>2 DEF Forward, e
  <1>6. Len(isb45') <= IsbS4S5
    BY <1>4, <1>5, SizesAssumption
  <1>7. UNCHANGED <<board, renameid, rf, rg_stall, eEpoch, wEpoch, isb23>>
        /\ isb34[1].fu \in fus
    BY <1>2 DEF Forward
  <1>8. isb45'[Len(isb45')] = e
    BY <1>4, <1>5
  <1>9. \A i \in 1 .. Len(isb34') : i + 1 \in 1 .. Len(isb34)
    BY <1>2, <1>5
  <1>10. QED
    BY <1>1, <1>2, <1>3, <1>4, <1>5, <1>6, <1>7, <1>8, <1>9 DEF Moved

(* A buffer that lost its head is as well formed as before.                *)
LEMMA ShiftedOK ==
    ASSUME NEW s, NEW t, EntriesOK(s),
           \A i \in 1 .. Len(t) : i + 1 \in 1 .. Len(s) /\ t[i] = s[i + 1]
    PROVE  EntriesOK(t)
  BY DEF EntriesOK

(* Stage4 keeps the buffers typed.                                         *)
LEMMA ForwardType ==
    ASSUME TypeOK, NEW fus, NEW fu \in Units, NEW v \in Vals \union {NoVal},
           Forward(fus, fu, v),
           fu = "ATOMIC" => v \in Vals,
           fu = "BASE" /\ isb34[1].rd # x0 => v \in Vals,
           fu \in {"STORE", "XRET"} => isb34[1].rd = x0
    PROVE  TypeOK'
  <1>0. Moved(fus, fu, v)
    BY ForwardEffect
  <1>1. EntriesOK(isb34')
    BY <1>0, ShiftedOK DEF TypeOK, Moved
  <1>2. ASSUME NEW i \in 1 .. Len(isb45')
        PROVE  /\ isb45'[i].fu = "BASE" /\ isb45'[i].rd # x0 => isb45'[i].val \in Vals
               /\ isb45'[i].fu \in {"STORE", "XRET"} => isb45'[i].rd = x0
               /\ isb45'[i].fu = "ATOMIC" => isb45'[i].val \in Vals
    <2>1. CASE i \in 1 .. Len(isb45)
      BY <2>1, <1>0 DEF TypeOK, EntriesOK, Moved
    <2>2. CASE i = Len(isb45')
      <3>1. isb45'[i].fu = fu /\ isb45'[i].val = v /\ isb45'[i].rd = isb34[1].rd
        BY <2>2, <1>0 DEF Moved
      <3>2. QED
        BY <3>1
    <2>3. QED
      BY <1>0, <2>1, <2>2 DEF Moved
  <1>3. EntriesOK(isb45')
    BY <1>2 DEF EntriesOK
  <1>4. Len(isb34') <= IsbS3S4
    BY <1>0, SizesAssumption DEF TypeOK, Moved
  <1>5. isb12' = isb12
    BY DEF Forward
  <1>6. QED
    BY <1>1, <1>2, <1>3, <1>4, <1>5, <1>0 DEF TypeOK, Pkt, Moved

(* The head of s4-s5 leaves.                                               *)
LEMMA HeadLeaves ==
    ASSUME TypeOK, isb45 # <<>>, NEW t, t = Tail(isb45)
    PROVE  /\ Len(isb45) \in Nat \ {0} /\ Cu = isb45[1] /\ Cu \in Entry
           /\ Cu.rd \in Regs /\ Cu.val \in Vals \union {NoVal} /\ Cu.ep \in Bit
           /\ t \in Seq(Entry) /\ Len(t) = Len(isb45) - 1
           /\ \A i \in 1 .. Len(t) : t[i] = isb45[i + 1]
           /\ EntriesOK(t) /\ Len(t) <= IsbS4S5
           /\ \A i \in 1 .. Len(t) : t[i].fu = "ATOMIC" => t[i].val \in Vals
  <1>1. /\ Len(isb45) \in Nat \ {0} /\ Cu = isb45[1] /\ Cu \in Entry
        /\ t \in Seq(Entry) /\ Len(t) = Len(isb45) - 1
        /\ \A i \in 1 .. Len(t) : t[i] = isb45[i + 1]
    BY Dequeue DEF TypeOK, Cu
  <1>2. Cu.rd \in Regs /\ Cu.val \in Vals \union {NoVal} /\ Cu.ep \in Bit
    BY <1>1 DEF Entry
  <1>3. \A i \in 1 .. Len(t) : i + 1 \in 1 .. Len(isb45)
    BY <1>1
  <1>4. EntriesOK(t) /\ \A i \in 1 .. Len(t) : t[i].fu = "ATOMIC" => t[i].val \in Vals
    BY <1>1, <1>3 DEF TypeOK, EntriesOK
  <1>5. Len(t) <= IsbS4S5
    BY <1>1, SizesAssumption DEF TypeOK
  <1>6. QED
    BY <1>1, <1>2, <1>4, <1>5

(* A retirement that writes the register file keeps the types.             *)
LEMMA CommitType ==
    ASSUME TypeOK, isb45 # <<>>, NEW v \in Vals \union {NoVal}, Cu.rd # x0 => v \in Vals,
           Commit(v)
    PROVE  TypeOK'
  <1>1. /\ Cu.rd \in Regs /\ isb45' \in Seq(Entry) /\ EntriesOK(isb45')
        /\ Len(isb45') <= IsbS4S5
        /\ \A i \in 1 .. Len(isb45') : isb45'[i].fu = "ATOMIC" => isb45'[i].val \in Vals
    BY HeadLeaves DEF Commit
  <1>2. board' \in [Regs -> [lock : BOOLEAN, id : 0 .. IdSpace - 1]]
    BY <1>1, ReleaseType DEF Commit
  <1>3. rf' \in [Regs -> Vals]
    BY <1>1 DEF TypeOK, Commit
  <1>4. /\ isb23' \in Seq(Packet) /\ Len(isb23') = Len(isb23)
        /\ isb23 = <<>> => isb23' = <<>>
        /\ isb23 # <<>> => Pkt \in Packet /\ Pkt' = FollowCommit(Pkt, Cu.rd, v)
    <2>1. isb23' = ma_commit_rd(isb23, Cu.rd, v)
      BY DEF Commit
    <2>2. isb23 \in Seq(Packet) /\ Len(isb23) \in {0, 1}
      BY DEF TypeOK
    <2>3. /\ isb23' \in Seq(Packet) /\ Len(isb23') = Len(isb23)
          /\ isb23 = <<>> => isb23' = <<>>
          /\ isb23 # <<>> => isb23[1] \in Packet /\ isb23'[1] = FollowCommit(isb23[1], Cu.rd, v)
      BY <1>1, <2>1, <2>2, FollowBuffer
    <2>4. QED
      BY <2>3 DEF Pkt
  <1>5. ASSUME isb23' # <<>>
        PROVE  Pkt'.type = Pkt.type /\ Pkt'.src = Pkt.src /\ isb23 # <<>>
    <2>1. isb23 # <<>> /\ Pkt \in Packet /\ Pkt' = FollowCommit(Pkt, Cu.rd, v)
      BY <1>4, <1>5
    <2>2. FollowCommit(Pkt, Cu.rd, v).type = Pkt.type /\ FollowCommit(Pkt, Cu.rd, v).src = Pkt.src
      BY <1>1, <2>1, FollowPacket
    <2>3. QED
      BY <2>1, <2>2
  <1>6. isb23' # <<>> /\ Pkt'.type \in {"STORE", "SFENCE", "XRET"} => Pkt'.src["rd"] = x0
    BY <1>5 DEF TypeOK
  <1>7. QED
    BY <1>1, <1>2, <1>3, <1>4, <1>6 DEF TypeOK, Commit

(* So does a dropped wrong-path instruction.                               *)
LEMMA DropType ==
    ASSUME TypeOK, isb45 # <<>>, Drop
    PROVE  TypeOK'
  <1>1. /\ Cu.rd \in Regs /\ isb45' \in Seq(Entry) /\ EntriesOK(isb45')
        /\ Len(isb45') <= IsbS4S5
        /\ \A i \in 1 .. Len(isb45') : isb45'[i].fu = "ATOMIC" => isb45'[i].val \in Vals
    BY HeadLeaves DEF Drop
  <1>2. board' \in [Regs -> [lock : BOOLEAN, id : 0 .. IdSpace - 1]]
    BY <1>1, ReleaseType DEF Drop, Unlock
  <1>3. QED
    BY <1>1, <1>2 DEF TypeOK, Drop, Unlock, Pkt

(* Marking the entries of a buffer leaves it well formed.                  *)
LEMMA KilledOK ==
    ASSUME NEW s \in Seq(Entry), EntriesOK(s)
    PROVE  EntriesOK(Kill(s))
  <1>1. Len(Kill(s)) = Len(s)
    BY KillEntries
  <1>2. ASSUME NEW i \in 1 .. Len(s)
        PROVE  /\ Kill(s)[i].fu = "BASE" /\ Kill(s)[i].rd # x0 => Kill(s)[i].val \in Vals
               /\ Kill(s)[i].fu \in {"STORE", "XRET"} => Kill(s)[i].rd = x0
    <2>1. Kill(s)[i].fu = s[i].fu /\ Kill(s)[i].rd = s[i].rd /\ Kill(s)[i].val = s[i].val
      BY KillEntries
    <2>2. QED
      BY <2>1 DEF EntriesOK
  <1>3. QED
    BY <1>1, <1>2 DEF EntriesOK

(* And so does a flush.                                                    *)
LEMMA FlushType ==
    ASSUME TypeOK, isb45 # <<>>, Flush
    PROVE  TypeOK'
  <1> DEFINE t == Tail(isb45)
  <1>1. /\ Cu.rd \in Regs /\ t \in Seq(Entry) /\ EntriesOK(t) /\ Len(t) <= IsbS4S5
        /\ \A i \in 1 .. Len(t) : t[i].fu = "ATOMIC" => t[i].val \in Vals
    BY HeadLeaves
  <1> HIDE DEF t
  <1>2. isb45' = Kill(t) /\ isb34' = Kill(isb34) /\ isb23' = Kill(isb23)
    BY DEF Flush, t
  <1>3. board' \in [Regs -> [lock : BOOLEAN, id : 0 .. IdSpace - 1]]
    BY <1>1, ReleaseType DEF Flush, Unlock
  <1>4. isb34' \in Seq(Entry) /\ Len(isb34') <= IsbS3S4 /\ EntriesOK(isb34')
    BY <1>2, KillEntries, KilledOK DEF TypeOK
  <1>5. /\ isb45' \in Seq(Entry) /\ Len(isb45') <= IsbS4S5 /\ EntriesOK(isb45')
        /\ \A i \in 1 .. Len(isb45') : isb45'[i].fu = "ATOMIC" => isb45'[i].val \in Vals
    <2>1. isb45' \in Seq(Entry) /\ Len(isb45') = Len(t) /\ EntriesOK(isb45')
      BY <1>1, <1>2, KillEntries, KilledOK
    <2>2. \A i \in 1 .. Len(t) : isb45'[i].fu = t[i].fu /\ isb45'[i].val = t[i].val
      BY <1>1, <1>2, KillEntries
    <2>3. QED
      BY <1>1, <2>1, <2>2
  <1>6. /\ isb23' \in Seq(Packet) /\ Len(isb23') \in {0, 1}
        /\ isb23' # <<>> => /\ isb23 # <<>>
                            /\ Pkt'.type = Pkt.type /\ Pkt'.src = Pkt.src
    BY <1>2, KillPacket DEF TypeOK, Pkt
  <1>7. isb23' # <<>> /\ Pkt'.type \in {"STORE", "SFENCE", "XRET"} => Pkt'.src["rd"] = x0
    BY <1>6 DEF TypeOK
  <1>8. rg_stall' \in BOOLEAN
    BY DEF Flush
  <1>9. wEpoch' \in Bit
    <2>1. wEpoch \in {0, 1} /\ wEpoch' = 1 - wEpoch
      BY DEF Flush, TypeOK, Bit
    <2>2. QED
      BY <2>1 DEF Bit
  <1>10. QED
    BY <1>3, <1>4, <1>5, <1>6, <1>7, <1>8, <1>9 DEF TypeOK, Flush, Unlock

(* The rules, sorted by what they do to the instructions in flight.        *)
MayHold(fu, rd, v) ==
    /\ fu \in Units /\ v \in Vals \union {NoVal}
    /\ fu = "BASE" /\ rd # x0 => v \in Vals
    /\ fu \in {"STORE", "XRET"} => rd = x0

IssueStep ==
    \E fu \in Units, v \in Vals \union {NoVal} :
        /\ epochs_match /\ MayHold(fu, Pkt.src["rd"], v)
        /\ Issue(fu, v) /\ (Deq23 \/ Redirect)

ForwardStep ==
    \E fus \in SUBSET Units, fu \in Units, v \in Vals \union {NoVal} :
        /\ Forward(fus, fu, v) /\ MayHold(fu, isb34[1].rd, v)
        /\ fu = "ATOMIC" => v \in Vals

DropStep == isb45 # <<>> /\ ~wb_epochs_match /\ Drop

FlushStep == isb45 # <<>> /\ wb_epochs_match /\ Flush

CommitStep ==
    /\ isb45 # <<>> /\ wb_epochs_match
    /\ \E v \in Vals \union {NoVal} : (Cu.rd # x0 => v \in Vals) /\ Commit(v)

StoreStep ==
    /\ isb45 # <<>> /\ wb_epochs_match /\ Cu.rd = x0
    /\ isb45' = Tail(isb45)
    /\ UNCHANGED <<board, renameid, rf, rg_stall, eEpoch, wEpoch, isb12, isb23, isb34>>

DecodeStep ==
    /\ \E i \in Instrs : isb23' = <<Fetched(i, FALSE)>> /\ rg_stall' = (i.type = "TRAP")
    /\ isb12' \in BOOLEAN
    /\ UNCHANGED <<board, renameid, rf, eEpoch, wEpoch, isb34, isb45>>

FetchStep ==
    /\ isb12' \in BOOLEAN
    /\ UNCHANGED <<board, renameid, rf, rg_stall, eEpoch, wEpoch, isb23, isb34, isb45>>

(* Every rule is of one of these kinds.                                    *)
LEMMA StepKinds ==
    ASSUME TypeOK, [Next]_vars
    PROVE  \/ DecodeStep \/ rl_drop_instr \/ IssueStep \/ ForwardStep
           \/ DropStep \/ FlushStep \/ CommitStep \/ StoreStep \/ FetchStep
  <1> USE DEF Units
  <1>1. CASE process_instruction \/ UNCHANGED vars
    BY <1>1, Zenon DEF process_instruction, vars, FetchStep, TypeOK
  <1>2. CASE decode_and_opfetch
    BY <1>2, Zenon DEF decode_and_opfetch, DecodeStep, FetchStep
  <1>3. CASE rl_system_instr
    <2>1. epochs_match /\ isb23 # <<>> /\ Pkt.type \in {"SYSTEM", "XRET"}
          /\ Issue(Pkt.type, NoVal) /\ Deq23
      BY <1>3 DEF rl_system_instr, Ready, epochs_match
    <2>2. MayHold(Pkt.type, Pkt.src["rd"], NoVal)
      BY <2>1 DEF TypeOK, MayHold
    <2>3. QED
      BY <2>1, <2>2 DEF IssueStep
  <1>4. CASE rl_trap_from_prev
    <2>1. epochs_match /\ Issue("TRAP", NoVal) /\ Deq23
      BY <1>4 DEF rl_trap_from_prev, Ready
    <2>2. QED
      BY <2>1 DEF IssueStep, MayHold
  <1>5. CASE rl_exe_base_arith
    <2>1. PICK v \in Vals : epochs_match /\ Issue("BASE", v) /\ Deq23
      BY <1>5 DEF rl_exe_base_arith, Ready
    <2>2. QED
      BY <2>1 DEF IssueStep, MayHold
  <1>6. CASE rl_exe_base_memory
    <2>1. /\ epochs_match /\ isb23 # <<>> /\ Deq23
          /\ Pkt.type \in {"LOAD", "STORE", "ATOMIC", "SFENCE"}
          /\ \/ Issue("TRAP", NoVal)
             \/ Pkt.type = "SFENCE" /\ Issue("BASE", NoVal)
             \/ Pkt.type # "SFENCE" /\ Issue(Pkt.type, NoVal)
      BY <1>6 DEF rl_exe_base_memory, Ready, epochs_match
    <2>2. Pkt.type \in {"STORE", "XRET", "SFENCE"} => Pkt.src["rd"] = x0
      BY <2>1 DEF TypeOK
    <2>3. CASE Issue("TRAP", NoVal)
      BY <2>1, <2>3 DEF IssueStep, MayHold
    <2>4. CASE Pkt.type = "SFENCE" /\ Issue("BASE", NoVal)
      <3>1. MayHold("BASE", Pkt.src["rd"], NoVal)
        BY <2>2, <2>4 DEF MayHold
      <3>2. QED
        BY <2>1, <2>4, <3>1 DEF IssueStep
    <2>5. CASE Pkt.type # "SFENCE" /\ Issue(Pkt.type, NoVal)
      <3>1. MayHold(Pkt.type, Pkt.src["rd"], NoVal)
        BY <2>1, <2>2, <2>5 DEF MayHold
      <3>2. QED
        BY <2>1, <2>5, <3>1 DEF IssueStep
    <2>6. QED
      BY <2>1, <2>3, <2>4, <2>5
  <1>7. CASE rl_exe_base_control
    <2>1. /\ epochs_match /\ (Deq23 \/ Redirect)
          /\ Issue("TRAP", NoVal) \/ \E v \in Vals : Issue("BASE", v)
      BY <1>7 DEF rl_exe_base_control, Ready
    <2>2. QED
      BY <2>1 DEF IssueStep, MayHold
  <1>8. CASE rl_mbox \/ rl_pbox \/ rl_fbox
    <2>1. /\ epochs_match /\ Deq23
          /\ Issue("MULDIV", NoVal) \/ Issue("PSIMD", NoVal) \/ Issue("FLOAT", NoVal)
      BY <1>8 DEF rl_mbox, rl_pbox, rl_fbox, Ready
    <2>2. QED
      BY <2>1 DEF IssueStep, MayHold
  <1>9. CASE Stage4
    <2>0. ASSUME isb34 # <<>>
          PROVE  /\ Head(isb34) = isb34[1]
                 /\ isb34[1].fu \in Units /\ isb34[1].val \in Vals \union {NoVal}
                 /\ MayHold(isb34[1].fu, isb34[1].rd, isb34[1].val)
      <3>1. Head(isb34) = isb34[1] /\ isb34[1] \in Entry /\ 1 \in 1 .. Len(isb34)
        BY <2>0, Dequeue DEF TypeOK
      <3>2. QED
        BY <3>1 DEF TypeOK, EntriesOK, Entry, MayHold
    <2>1. CASE rl_fwd_baseout
      <3>1. Forward({"BASE"}, "BASE", isb34[1].val) /\ isb34[1].fu = "BASE" /\ isb34 # <<>>
        BY <2>0, <2>1 DEF rl_fwd_baseout, Forward
      <3>2. QED
        BY <2>0, <3>1 DEF ForwardStep
    <2>2. CASE rl_fwd_systemout
      <3>1. Forward({"SYSTEM", "XRET"}, isb34[1].fu, NoVal) /\ isb34 # <<>>
            /\ isb34[1].fu \in {"SYSTEM", "XRET"}
        BY <2>0, <2>2 DEF rl_fwd_systemout, Forward
      <3>2. MayHold(isb34[1].fu, isb34[1].rd, NoVal)
        BY <2>0, <3>1 DEF MayHold
      <3>3. QED
        BY <2>0, <3>1, <3>2 DEF ForwardStep
    <2>3. CASE rl_fwd_trapout
      BY <2>3 DEF rl_fwd_trapout, ForwardStep, MayHold
    <2>4. CASE rl_handle_memory
      <3>1. CASE \/ Forward({"LOAD", "STORE", "ATOMIC"}, "TRAP", NoVal)
                 \/ Forward({"LOAD", "STORE", "ATOMIC"}, "IO", NoVal)
        BY <3>1 DEF ForwardStep, MayHold
      <3>2. CASE Forward({"STORE"}, "STORE", NoVal)
        <4>1. isb34 # <<>> /\ isb34[1].fu = "STORE"
          BY <2>0, <3>2 DEF Forward
        <4>2. MayHold("STORE", isb34[1].rd, NoVal)
          BY <2>0, <4>1 DEF MayHold
        <4>3. QED
          BY <3>2, <4>2 DEF ForwardStep
      <3>3. CASE \/ \E v \in Vals : Forward({"ATOMIC"}, "ATOMIC", v)
                 \/ \E v \in Vals : Forward({"LOAD", "ATOMIC"}, "BASE", v)
        BY <3>3 DEF ForwardStep, MayHold
      <3>4. QED
        BY <2>4, <3>1, <3>2, <3>3 DEF rl_handle_memory
    <2>5. CASE rl_capture_muldiv \/ rl_capture_float \/ rl_capture_psimd
      BY <2>5 DEF rl_capture_muldiv, rl_capture_float, rl_capture_psimd, ForwardStep, MayHold
    <2>6. QED
      BY <1>9, <2>1, <2>2, <2>3, <2>4, <2>5 DEF Stage4
  <1>10. CASE Stage5
    <2>0. isb45 # <<>>
      BY <1>10 DEF Stage5, rl_writeback_trap, rl_writeback_system, rl_writeback_baseout,
                   rl_writeback_memop, AtWB
    <2>1. /\ Cu.val \in Vals \union {NoVal}
          /\ Cu.fu \in {"BASE", "ATOMIC"} /\ Cu.rd # x0 => Cu.val \in Vals
          /\ Cu.fu = "STORE" => Cu.rd = x0
      <3>1. Cu = isb45[1] /\ Cu.val \in Vals \union {NoVal} /\ Len(isb45) \in Nat \ {0}
        BY <2>0, HeadLeaves
      <3>2. 1 \in 1 .. Len(isb45)
        BY <3>1
      <3>3. QED
        BY <3>1, <3>2 DEF TypeOK, EntriesOK
    <2>2. CASE rl_writeback_trap
      BY <2>0, <2>2 DEF rl_writeback_trap, FlushStep, DropStep
    <2>3. CASE rl_writeback_system
      BY <2>0, <2>3 DEF rl_writeback_system, FlushStep, DropStep, CommitStep
    <2>4. CASE rl_writeback_baseout
      BY <2>0, <2>1, <2>4 DEF rl_writeback_baseout, AtWB, DropStep, CommitStep
    <2>5. CASE rl_writeback_memop
      BY <2>0, <2>1, <2>5 DEF rl_writeback_memop, AtWB, DropStep, CommitStep, FlushStep, StoreStep
    <2>6. QED
      BY <1>10, <2>2, <2>3, <2>4, <2>5 DEF Stage5
  <1>11. QED
    BY <1>1, <1>2, <1>3, <1>4, <1>5, <1>6, <1>7, <1>8, <1>9, <1>10 DEF Next, Stage3

(* Every step keeps the types.                                             *)
LEMMA StepType ==
    ASSUME TypeOK, [Next]_vars
    PROVE  TypeOK'
  <1>1. CASE DecodeStep
    <2>1. PICK i \in Instrs : isb23' = <<Fetched(i, FALSE)>> /\ rg_stall' = (i.type = "TRAP")
      BY <1>1 DEF DecodeStep
    <2>2. rg_stall' \in BOOLEAN
      BY <2>1
    <2>3. /\ isb23' \in Seq(Packet) /\ Len(isb23') = 1
          /\ Pkt'.type \in {"STORE", "SFENCE", "XRET"} => Pkt'.src["rd"] = x0
      BY <2>1, FetchedType DEF Pkt
    <2>4. QED
      BY <1>1, <2>2, <2>3 DEF DecodeStep, TypeOK
  <1>2. CASE rl_drop_instr
    BY <1>2 DEF rl_drop_instr, TypeOK
  <1>3. CASE IssueStep
    BY <1>3, IssueType, RefillType DEF IssueStep, MayHold, epochs_match
  <1>4. CASE ForwardStep
    BY <1>4, ForwardType DEF ForwardStep, MayHold
  <1>5. CASE DropStep
    BY <1>5, DropType DEF DropStep
  <1>6. CASE FlushStep
    BY <1>6, FlushType DEF FlushStep
  <1>7. CASE CommitStep
    BY <1>7, CommitType DEF CommitStep
  <1>8. CASE StoreStep
    BY <1>8, HeadLeaves DEF StoreStep, TypeOK, Pkt
  <1>9. CASE FetchStep
    BY <1>9 DEF FetchStep, TypeOK, Pkt, EntriesOK
  <1>10. QED
    BY <1>1, <1>2, <1>3, <1>4, <1>5, <1>6, <1>7, <1>8, <1>9, StepKinds

(* The initial state is typed.                                             *)
LEMMA InitType ==
    ASSUME Init
    PROVE  TypeOK
  <1>1. board \in [Regs -> [lock : BOOLEAN, id : 0 .. IdSpace - 1]]
        /\ renameid \in 0 .. IdSpace - 1
    BY SizesAssumption DEF Init
  <1>2. isb23 \in Seq(Packet) /\ isb34 \in Seq(Entry) /\ isb45 \in Seq(Entry)
        /\ Len(isb23) = 0 /\ Len(isb34) = 0 /\ Len(isb45) = 0
    BY DEF Init
  <1>3. rf \in [Regs -> Vals] /\ eEpoch \in Bit /\ wEpoch \in Bit
    BY DEF Init, Bit
  <1>4. rg_stall \in BOOLEAN /\ isb12 \in BOOLEAN /\ isb23 = <<>>
    BY DEF Init
  <1>5. Len(isb34) <= IsbS3S4 /\ Len(isb45) <= IsbS4S5
    BY <1>2, SizesAssumption
  <1>6. QED
    BY <1>1, <1>2, <1>3, <1>4, <1>5 DEF TypeOK, EntriesOK

(* The buffers never overflow, the rename id stays in range, and a result  *)
(* that is forwarded or committed has been computed, for all sizes of the  *)
(* buffers, all registers and all instructions.                            *)
THEOREM TypeCorrect == Spec => []TypeOK
  <1>1. Init => TypeOK
    BY InitType
  <1>2. TypeOK /\ [Next]_vars => TypeOK'
    BY StepType
  <1>3. QED
    BY <1>1, <1>2, PTL DEF Spec

-----------------------------------------------------------------------------
(* The inductive invariant.  It speaks of the instructions in flight as    *)
(* one queue, oldest first: those of s4-s5, then those of s3-s4.           *)

N == Len(isb45) + Len(isb34)

At(k) == IF k <= Len(isb45) THEN isb45[k] ELSE isb34[k - Len(isb45)]

(* How many ids have been given out since id was, counting itself.         *)
Age(id) == IF id < renameid THEN renameid - id ELSE renameid - id + IdSpace

(* The ids of the instructions in flight are consecutive: an id is reused  *)
(* only after IdSpace others, and fewer are in flight.                     *)
AgesInv == \A k \in 1 .. N : Age(At(k).id) = N - k + 1

(* The scoreboard names the youngest writer of a locked register, and a    *)
(* register that is not locked has none.                                   *)
Owner(k, r) ==
    /\ At(k).rd = r /\ At(k).id = board[r].id
    /\ \A j \in k + 1 .. N : At(j).rd # r

BoardInv ==
    \A r \in Regs \ {x0} :
        /\ board[r].lock => \E k \in 1 .. N : Owner(k, r)
        /\ ~board[r].lock => \A k \in 1 .. N : At(k).rd # r

(* Wrong-path instructions are older than right-path ones: a flush finds   *)
(* no instruction of the epoch it starts.                                  *)
EpochInv ==
    /\ \A k \in 1 .. N : At(k).dead <=> At(k).ep # wEpoch
    /\ \A k \in 1 .. N : \A j \in k .. N : At(k).ep = wEpoch => At(j).ep = wEpoch
    /\ isb23 # <<>> => (Pkt.dead <=> ~epochs_match)
    /\ isb23 # <<>> /\ Pkt.w # wEpoch => \A k \in 1 .. N : At(k).ep # wEpoch

(* The operand registers of stage2 mirror the register file.               *)
OperandInv ==
    isb23 # <<>> => \A o \in Operands :
        (o = "rd" => ~Spfpu) => Pkt.val[o] = rf[Pkt.src[o]]

IInv == TypeOK /\ EpochInv /\ OperandInv /\ (NoWawStalls => AgesInv /\ BoardInv)

(* The queue of instructions in flight is bounded and typed.               *)
LEMMA QueueType ==
    ASSUME TypeOK
    PROVE  /\ Len(isb34) \in Nat /\ Len(isb45) \in Nat /\ N \in Nat
           /\ N <= IdSpace
           /\ \A k \in 1 .. N : /\ At(k) \in Entry /\ At(k).rd \in Regs
                                 /\ At(k).id \in 0 .. IdSpace - 1 /\ At(k).ep \in Bit
                                 /\ At(k).dead \in BOOLEAN
  <1>1. Len(isb34) \in Nat /\ Len(isb45) \in Nat
    BY DEF TypeOK
  <1>2. N \in Nat /\ N <= IdSpace
    BY <1>1, SizesAssumption DEF TypeOK, N
  <1>3. ASSUME NEW k \in 1 .. N
        PROVE  At(k) \in Entry
    <2>1. CASE k <= Len(isb45)
      BY <1>1, <2>1 DEF TypeOK, At
    <2>2. CASE ~(k <= Len(isb45))
      <3>1. k - Len(isb45) \in 1 .. Len(isb34)
        BY <1>1, <2>2 DEF N
      <3>2. QED
        BY <2>2, <3>1 DEF TypeOK, At
    <2>3. QED
      BY <2>1, <2>2
  <1>4. QED
    BY <1>1, <1>2, <1>3 DEF Entry

(* Issue adds the youngest instruction.                                    *)
LEMMA IssueQueue ==
    ASSUME TypeOK, isb23 # <<>>, NEW fu \in Units, NEW v \in Vals \union {NoVal},
           Issue(fu, v)
    PROVE  /\ N' = N + 1 /\ N' <= IdSpace
           /\ \A k \in 1 .. N : At(k)' = At(k)
           /\ At(N)' = Issued(fu, v)
           /\ ma_lock_rd(Pkt.src["rd"]) /\ rf' = rf /\ wEpoch' = wEpoch
  <1>1. /\ isb34' \in Seq(Entry) /\ Len(isb34') = Len(isb34) + 1
        /\ Len(isb34') <= IsbS3S4 /\ Len(isb34) \in Nat
        /\ \A i \in 1 .. Len(isb34) : isb34'[i] = isb34[i]
        /\ isb34'[Len(isb34')] = Issued(fu, v)
        /\ ma_lock_rd(Pkt.src["rd"])
        /\ rf' = rf /\ wEpoch' = wEpoch /\ isb45' = isb45
    BY IssueEffect
  <1>2. Len(isb45) \in Nat /\ Len(isb45) <= IsbS4S5
    BY DEF TypeOK
  <1>3. N' = N + 1 /\ N' <= IdSpace
    BY <1>1, <1>2, SizesAssumption DEF N
  <1>4. ASSUME NEW k \in 1 .. N
        PROVE  At(k)' = At(k)
    <2>1. CASE k <= Len(isb45)
      BY <1>1, <2>1 DEF At
    <2>2. CASE ~(k <= Len(isb45))
      <3>1. k - Len(isb45) \in 1 .. Len(isb34)
        BY <1>1, <1>2, <2>2 DEF N
      <3>2. QED
        BY <1>1, <2>2, <3>1 DEF At
    <2>3. QED
      BY <2>1, <2>2
  <1>5. At(N)' = Issued(fu, v)
    <2>1. N' - Len(isb45') = Len(isb34') /\ ~(N' <= Len(isb45'))
      BY <1>1, <1>2, <1>3 DEF N
    <2>2. QED
      BY <1>1, <2>1 DEF At
  <1>6. QED
    BY <1>1, <1>3, <1>4, <1>5

(* Stage4 moves no instruction in the queue.                               *)
LEMMA ForwardQueue ==
    ASSUME TypeOK, NEW fus, NEW fu \in Units, NEW v \in Vals \union {NoVal},
           Forward(fus, fu, v)
    PROVE  /\ N' = N
           /\ \A k \in 1 .. N : /\ At(k)'.rd = At(k).rd /\ At(k)'.id = At(k).id
                                 /\ At(k)'.ep = At(k).ep /\ At(k)'.dead = At(k).dead
           /\ UNCHANGED <<board, renameid, rf, rg_stall, eEpoch, wEpoch, isb23>>
  <1>0. Moved(fus, fu, v)
    BY ForwardEffect
  <1>1. N' = N
    BY <1>0 DEF Moved, N
  <1>2. ASSUME NEW k \in 1 .. N
        PROVE  /\ At(k)'.rd = At(k).rd /\ At(k)'.id = At(k).id
               /\ At(k)'.ep = At(k).ep /\ At(k)'.dead = At(k).dead
    <2>1. CASE k <= Len(isb45)
      <3>1. At(k)' = At(k)
        BY <1>0, <2>1 DEF Moved, At
      <3>2. QED
        BY <3>1
    <2>2. CASE k = Len(isb45) + 1
      <3>1. At(k)' = isb45'[Len(isb45')]
        BY <1>0, <2>2 DEF Moved, At
      <3>2. At(k) = isb34[1]
        BY <1>0, <2>2 DEF Moved, At
      <3>3. QED
        BY <1>0, <3>1, <3>2 DEF Moved
    <2>3. CASE k > Len(isb45) + 1
      <3>1. k - Len(isb45') \in 1 .. Len(isb34') /\ k - Len(isb45') + 1 = k - Len(isb45)
            /\ ~(k <= Len(isb45)) /\ ~(k <= Len(isb45'))
        BY <1>0, <2>3 DEF Moved, N
      <3>2. At(k)' = At(k)
        BY <1>0, <3>1 DEF Moved, At
      <3>3. QED
        BY <3>2
    <2>4. QED
      BY <1>0, <2>1, <2>2, <2>3 DEF Moved, N
  <1>3. QED
    BY <1>0, <1>1, <1>2 DEF Moved

(* The oldest instruction leaves.                                          *)
LEMMA LeaveQueue ==
    ASSUME TypeOK, isb45 # <<>>, isb45' = Tail(isb45), isb34' = isb34
    PROVE  /\ N' = N - 1 /\ N \in Nat \ {0} /\ Cu = At(1)
           /\ \A k \in 1 .. N - 1 : At(k)' = At(k + 1)
  <1>1. /\ Len(isb45) \in Nat \ {0} /\ Cu = isb45[1] /\ Len(isb45') = Len(isb45) - 1
        /\ \A i \in 1 .. Len(isb45') : isb45'[i] = isb45[i + 1]
    BY HeadLeaves
  <1>2. Len(isb34) \in Nat
    BY QueueType
  <1>3. N' = N - 1 /\ N \in Nat \ {0} /\ Cu = At(1)
    BY <1>1, <1>2 DEF N, At
  <1>4. ASSUME NEW k \in 1 .. N - 1
        PROVE  At(k)' = At(k + 1)
    <2>1. CASE k <= Len(isb45')
      BY <1>1, <2>1 DEF At
    <2>2. CASE ~(k <= Len(isb45'))
      BY <1>1, <1>2, <2>2 DEF At, N
    <2>3. QED
      BY <2>1, <2>2
  <1>5. QED
    BY <1>3, <1>4

(* A flush marks those that stay.                                          *)
LEMMA FlushQueue ==
    ASSUME TypeOK, isb45 # <<>>, isb45' = Kill(Tail(isb45)), isb34' = Kill(isb34)
    PROVE  /\ N' = N - 1 /\ N \in Nat \ {0} /\ Cu = At(1)
           /\ \A k \in 1 .. N - 1 :
                /\ At(k)'.rd = At(k + 1).rd /\ At(k)'.id = At(k + 1).id
                /\ At(k)'.ep = At(k + 1).ep /\ At(k)'.dead = TRUE
  <1> DEFINE t == Tail(isb45)
  <1>1. /\ Len(isb45) \in Nat \ {0} /\ Cu = isb45[1] /\ Len(t) = Len(isb45) - 1
        /\ t \in Seq(Entry) /\ \A i \in 1 .. Len(t) : t[i] = isb45[i + 1]
    BY HeadLeaves
  <1> HIDE DEF t
  <1>2. /\ Len(isb45') = Len(t)
        /\ \A i \in 1 .. Len(t) :
             /\ isb45'[i].rd = t[i].rd /\ isb45'[i].id = t[i].id
             /\ isb45'[i].ep = t[i].ep /\ isb45'[i].dead = TRUE
    BY <1>1, KillEntries DEF t
  <1>3. /\ Len(isb34) \in Nat /\ Len(isb34') = Len(isb34)
        /\ \A i \in 1 .. Len(isb34) :
             /\ isb34'[i].rd = isb34[i].rd /\ isb34'[i].id = isb34[i].id
             /\ isb34'[i].ep = isb34[i].ep /\ isb34'[i].dead = TRUE
    <2>1. isb34 \in Seq(Entry)
      BY DEF TypeOK
    <2>2. Len(isb34) \in Nat
      BY <2>1
    <2>3. Len(isb34') = Len(isb34)
      BY <2>1, KillEntries
    <2>4. ASSUME NEW i \in 1 .. Len(isb34)
          PROVE  /\ isb34'[i].rd = isb34[i].rd /\ isb34'[i].id = isb34[i].id
                 /\ isb34'[i].ep = isb34[i].ep /\ isb34'[i].dead = TRUE
      BY <2>1, KillEntries
    <2>5. QED
      BY <2>2, <2>3, <2>4
  <1>4. N' = N - 1 /\ N \in Nat \ {0} /\ Cu = At(1)
    <2>1. /\ Len(isb45) \in Nat \ {0} /\ Len(isb45') = Len(isb45) - 1 /\ Cu = isb45[1]
          /\ Len(isb34) \in Nat /\ Len(isb34') = Len(isb34)
      BY <1>1, <1>2, <1>3
    <2>2. QED
      BY <2>1 DEF N, At
  <1>5. ASSUME NEW k \in 1 .. N - 1
        PROVE  /\ At(k)'.rd = At(k + 1).rd /\ At(k)'.id = At(k + 1).id
               /\ At(k)'.ep = At(k + 1).ep /\ At(k)'.dead = TRUE
    <2>1. CASE k <= Len(t)
      <3>1. k \in 1 .. Len(t) /\ At(k)' = isb45'[k] /\ At(k + 1) = t[k]
        BY <1>1, <1>2, <2>1 DEF At
      <3>2. /\ isb45'[k].rd = t[k].rd /\ isb45'[k].id = t[k].id
            /\ isb45'[k].ep = t[k].ep /\ isb45'[k].dead = TRUE
        BY <1>2, <3>1
      <3>3. QED
        BY <3>1, <3>2
    <2>2. CASE ~(k <= Len(t))
      <3>1. k - Len(t) \in 1 .. Len(isb34)
        BY <1>1, <1>3, <2>2 DEF N
      <3>2. /\ ~(k <= Len(isb45')) /\ ~(k + 1 <= Len(isb45))
            /\ Len(isb45') = Len(t) /\ (k + 1) - Len(isb45) = k - Len(t)
        BY <1>1, <1>2, <2>2
      <3>3. At(k)' = isb34'[k - Len(t)] /\ At(k + 1) = isb34[k - Len(t)]
        BY <3>2 DEF At
      <3>4. QED
        BY <1>3, <3>1, <3>3
    <2>3. QED
      BY <2>1, <2>2
  <1>6. QED
    BY <1>4, <1>5

(* Rules that leave s3-s4 and s4-s5 alone leave the queue alone.           *)
LEMMA SameQueue ==
    ASSUME UNCHANGED <<isb34, isb45>>
    PROVE  N' = N /\ \A k : At(k)' = At(k)
  BY DEF N, At

-----------------------------------------------------------------------------
(* Epochs                                                                  *)

(* Wrong-path instructions stay recognisable, and older than the others.   *)
LEMMA StepEpoch ==
    ASSUME TypeOK, EpochInv, [Next]_vars
    PROVE  EpochInv'
  <1>0. N \in Nat /\ wEpoch \in {0, 1} /\ eEpoch \in {0, 1}
    BY QueueType DEF TypeOK, Bit
  <1>1. CASE DecodeStep
    <2>1. PICK i \in Instrs : isb23' = <<Fetched(i, FALSE)>>
      BY <1>1 DEF DecodeStep
    <2>2. Pkt' = Fetched(i, FALSE) /\ isb23' # <<>>
      BY <2>1 DEF Pkt
    <2>3. /\ N' = N /\ (\A k : At(k)' = At(k)) /\ wEpoch' = wEpoch /\ eEpoch' = eEpoch
      BY <1>1, SameQueue DEF DecodeStep
    <2>4. Pkt'.e = eEpoch /\ Pkt'.w = wEpoch /\ Pkt'.dead = FALSE
      BY <2>2 DEF Fetched
    <2>5. QED
      BY <2>2, <2>3, <2>4 DEF EpochInv, epochs_match
  <1>2. CASE rl_drop_instr
    <2>1. /\ N' = N /\ (\A k : At(k)' = At(k)) /\ wEpoch' = wEpoch /\ isb23' = <<>>
      BY <1>2, SameQueue DEF rl_drop_instr
    <2>2. QED
      BY <2>1 DEF EpochInv
  <1>3. CASE IssueStep
    <2>1. PICK fu \in Units, v \in Vals \union {NoVal} :
            epochs_match /\ Issue(fu, v) /\ (Deq23 \/ Redirect)
      BY <1>3 DEF IssueStep
    <2>2. isb23 # <<>> /\ Pkt.w = wEpoch /\ Pkt.dead = FALSE /\ Pkt.e = eEpoch
      <3>1. isb23 # <<>> /\ Pkt.w = wEpoch /\ Pkt.e = eEpoch /\ ~Pkt.dead
        BY <2>1 DEF epochs_match, EpochInv
      <3>2. QED
        BY <3>1, PacketType
    <2>3. /\ N' = N + 1 /\ wEpoch' = wEpoch
          /\ \A k \in 1 .. N : At(k)' = At(k)
          /\ At(N)' = Issued(fu, v)
      BY <2>1, <2>2, IssueQueue
    <2>4. Issued(fu, v).ep = wEpoch /\ Issued(fu, v).dead = FALSE
      BY <2>2 DEF Issued
    <2>5. ASSUME NEW k \in 1 .. N'
          PROVE  (At(k)'.dead <=> At(k)'.ep # wEpoch') /\ (k = N' => At(k)'.ep = wEpoch')
      BY <1>0, <2>3, <2>4 DEF EpochInv
    <2>6. ASSUME NEW k \in 1 .. N', NEW j \in k .. N', At(k)'.ep = wEpoch'
          PROVE  At(j)'.ep = wEpoch'
      <3>1. CASE j = N'
        BY <1>0, <2>3, <2>5, <3>1
      <3>2. CASE j # N'
        BY <1>0, <2>3, <2>6, <3>2 DEF EpochInv
      <3>3. QED
        BY <3>1, <3>2
    <2>7. isb23' # <<>> => Pkt'.dead = TRUE /\ Pkt'.w = wEpoch' /\ Pkt'.e # eEpoch'
      <3>1. CASE Deq23
        BY <3>1 DEF Deq23
      <3>2. CASE Redirect /\ isb23' # <<>>
        <4>1. PICK i \in Instrs : isb23' = <<Fetched(i, TRUE)>>
          BY <3>2 DEF Redirect
        <4>2. Pkt' = Fetched(i, TRUE)
          BY <4>1 DEF Pkt
        <4>3. Pkt'.dead = TRUE /\ Pkt'.w = wEpoch /\ Pkt'.e = eEpoch
          BY <4>2 DEF Fetched
        <4>4. eEpoch' # eEpoch
          BY <1>0, <3>2 DEF Redirect
        <4>5. QED
          BY <2>3, <4>3, <4>4
      <3>3. QED
        BY <2>1, <3>1, <3>2
    <2>8. QED
      BY <2>5, <2>6, <2>7 DEF EpochInv, epochs_match
  <1>4. CASE ForwardStep
    <2>1. /\ N' = N
          /\ \A k \in 1 .. N : At(k)'.ep = At(k).ep /\ At(k)'.dead = At(k).dead
          /\ wEpoch' = wEpoch /\ eEpoch' = eEpoch /\ isb23' = isb23
      BY <1>4, ForwardQueue DEF ForwardStep
    <2>2. Pkt' = Pkt
      BY <2>1 DEF Pkt
    <2>3. QED
      BY <1>0, <2>1, <2>2 DEF EpochInv, epochs_match
  <1>5. CASE DropStep \/ CommitStep \/ StoreStep
    <2>1. /\ isb45 # <<>> /\ isb45' = Tail(isb45) /\ isb34' = isb34
          /\ wEpoch' = wEpoch /\ eEpoch' = eEpoch
      BY <1>5 DEF DropStep, CommitStep, StoreStep, Drop, Unlock, Commit
    <2>2. /\ N' = N - 1 /\ N \in Nat \ {0}
          /\ \A k \in 1 .. N - 1 : At(k)' = At(k + 1)
      BY <2>1, LeaveQueue
    <2>3. /\ isb23' # <<>> => isb23 # <<>> /\ Pkt'.dead = Pkt.dead
                              /\ Pkt'.e = Pkt.e /\ Pkt'.w = Pkt.w
      <3>1. CASE isb23' = isb23
        BY <3>1 DEF Pkt
      <3>2. CASE CommitStep
        <4>1. PICK v \in Vals \union {NoVal} : (Cu.rd # x0 => v \in Vals) /\ Commit(v)
          BY <3>2 DEF CommitStep
        <4>2. Cu.rd \in Regs
          BY <2>1, HeadLeaves
        <4>3. isb23' = ma_commit_rd(isb23, Cu.rd, v)
          BY <4>1 DEF Commit
        <4>4. isb23 \in Seq(Packet) /\ Len(isb23) \in {0, 1}
          BY DEF TypeOK
        <4>5. isb23' # <<>> => isb23 # <<>> /\ Pkt \in Packet
                              /\ Pkt' = FollowCommit(Pkt, Cu.rd, v)
          BY <4>1, <4>2, <4>3, <4>4, FollowBuffer DEF Pkt
        <4>6. QED
          BY <4>1, <4>2, <4>5, FollowPacket
      <3>3. QED
        BY <1>5, <3>1, <3>2 DEF DropStep, StoreStep, Drop
    <2>4. ASSUME NEW k \in 1 .. N'
          PROVE  At(k)'.dead <=> At(k)'.ep # wEpoch'
      BY <2>1, <2>2 DEF EpochInv
    <2>5. ASSUME NEW k \in 1 .. N', NEW j \in k .. N', At(k)'.ep = wEpoch'
          PROVE  At(j)'.ep = wEpoch'
      <3>1. k + 1 \in 1 .. N /\ j + 1 \in k + 1 .. N /\ At(k)' = At(k + 1) /\ At(j)' = At(j + 1)
        BY <2>2
      <3>2. QED
        BY <2>1, <2>5, <3>1 DEF EpochInv
    <2>6. ASSUME isb23' # <<>>, Pkt'.w # wEpoch', NEW k \in 1 .. N'
          PROVE  At(k)'.ep # wEpoch'
      BY <2>1, <2>2, <2>3, <2>6 DEF EpochInv
    <2>7. isb23' # <<>> => (Pkt'.dead <=> ~epochs_match')
      BY <2>1, <2>3 DEF EpochInv, epochs_match
    <2>8. QED
      BY <2>4, <2>5, <2>6, <2>7 DEF EpochInv
  <1>6. CASE FlushStep
    <2>1. /\ isb45 # <<>> /\ isb45' = Kill(Tail(isb45)) /\ isb34' = Kill(isb34)
          /\ isb23' = Kill(isb23) /\ wEpoch' = 1 - wEpoch /\ eEpoch' = eEpoch
          /\ Cu.ep = wEpoch
      BY <1>6 DEF FlushStep, Flush, Unlock, wb_epochs_match
    <2>2. /\ N' = N - 1 /\ N \in Nat \ {0} /\ Cu = At(1)
          /\ \A k \in 1 .. N - 1 : At(k)'.ep = At(k + 1).ep /\ At(k)'.dead = TRUE
      BY <2>1, FlushQueue
    <2>3. wEpoch' # wEpoch
      BY <1>0, <2>1
    <2>4. \A k \in 1 .. N : At(k).ep = wEpoch
      BY <2>1, <2>2 DEF EpochInv
    <2>5. ASSUME NEW k \in 1 .. N'
          PROVE  At(k)'.ep # wEpoch' /\ At(k)'.dead
      BY <2>2, <2>3, <2>4
    <2>6. isb23' # <<>> => isb23 # <<>> /\ Pkt'.dead = TRUE /\ Pkt'.w = Pkt.w
      BY <2>1, KillPacket DEF TypeOK, Pkt
    <2>7. isb23 # <<>> => Pkt.w = wEpoch
      BY <2>2, <2>4 DEF EpochInv
    <2>8. isb23' # <<>> => (Pkt'.dead <=> ~epochs_match')
      BY <2>3, <2>6, <2>7 DEF epochs_match
    <2>9. QED
      BY <2>5, <2>8 DEF EpochInv
  <1>7. CASE FetchStep
    BY <1>7 DEF FetchStep, EpochInv, epochs_match, Pkt, N, At
  <1>8. QED
    BY <1>1, <1>2, <1>3, <1>4, <1>5, <1>6, <1>7, StepKinds

(* The entries of the two buffers as members of the queue.                 *)
LEMMA InQueue ==
    ASSUME TypeOK
    PROVE  /\ \A i \in 1 .. Len(isb34) :
                Len(isb45) + i \in 1 .. N /\ At(Len(isb45) + i) = isb34[i]
           /\ \A i \in 1 .. Len(isb45) : i \in 1 .. N /\ At(i) = isb45[i]
  <1>1. Len(isb34) \in Nat /\ Len(isb45) \in Nat
    BY QueueType
  <1>2. ASSUME NEW i \in 1 .. Len(isb34)
        PROVE  Len(isb45) + i \in 1 .. N /\ At(Len(isb45) + i) = isb34[i]
    <2>1. ~(Len(isb45) + i <= Len(isb45)) /\ (Len(isb45) + i) - Len(isb45) = i
      BY <1>1
    <2>2. QED
      BY <1>1, <2>1 DEF N, At
  <1>3. ASSUME NEW i \in 1 .. Len(isb45)
        PROVE  i \in 1 .. N /\ At(i) = isb45[i]
    BY <1>1 DEF N, At
  <1>4. QED
    BY <1>2, <1>3

(* The initial state satisfies the queue invariants: nothing is in flight. *)
LEMMA InitQueue ==
    ASSUME Init
    PROVE  N = 0 /\ isb23 = <<>> /\ EpochInv /\ OperandInv /\ AgesInv /\ BoardInv
  <1>1. N = 0 /\ isb23 = <<>> /\ \A r \in Regs : board[r].lock = FALSE
    BY DEF Init, N
  <1>2. 1 .. N = {}
    BY <1>1
  <1>3. QED
    BY <1>1, <1>2 DEF EpochInv, OperandInv, AgesInv, BoardInv

(* No wrong-path instruction retires and no right-path one is dropped: in  *)
(* stage3, stage4 and stage5 the one-bit epoch of an instruction differs   *)
(* from the current one exactly when an older instruction has redirected   *)
(* the pc since it was fetched.                                            *)
THEOREM EpochsCorrect == Spec => []EpochsTellWrongPath
  <1>1. Init => TypeOK /\ EpochInv
    BY InitType, InitQueue
  <1>2. TypeOK /\ EpochInv /\ [Next]_vars => TypeOK' /\ EpochInv'
    BY StepType, StepEpoch
  <1>3. TypeOK /\ EpochInv => EpochsTellWrongPath
    BY InQueue DEF EpochInv, EpochsTellWrongPath, StaleIffDead
  <1>4. QED
    BY <1>1, <1>2, <1>3, PTL DEF Spec

-----------------------------------------------------------------------------
(* Operand registers                                                       *)

(* The operand registers of stage2 keep mirroring the register file.       *)
LEMMA StepOperand ==
    ASSUME TypeOK, OperandInv, [Next]_vars
    PROVE  OperandInv'
  <1>1. ASSUME NEW i \in Instrs, NEW b \in BOOLEAN, isb23' = <<Fetched(i, b)>>, rf' = rf
        PROVE  OperandInv'
    <2>1. Pkt' = Fetched(i, b)
      BY <1>1 DEF Pkt
    <2>2. \A o \in Operands : Pkt'.val[o] = rf[Pkt'.src[o]]
      BY <2>1 DEF Fetched
    <2>3. QED
      BY <1>1, <2>2 DEF OperandInv
  <1>2. CASE DecodeStep
    BY <1>1, <1>2 DEF DecodeStep
  <1>3. CASE isb23' = <<>>
    BY <1>3 DEF OperandInv
  <1>4. CASE isb23' = isb23 /\ rf' = rf
    BY <1>4 DEF OperandInv, Pkt
  <1>5. CASE IssueStep
    <2>1. rf' = rf /\ (isb23' = <<>> \/ \E i \in Instrs : isb23' = <<Fetched(i, TRUE)>>)
      BY <1>5 DEF IssueStep, Issue, Deq23, Redirect
    <2>2. QED
      BY <1>1, <1>3, <2>1
  <1>6. CASE FlushStep
    <2>1. rf' = rf /\ isb23' = Kill(isb23)
      BY <1>6 DEF FlushStep, Flush, Unlock
    <2>2. isb23' # <<>> => isb23 # <<>> /\ Pkt'.val = Pkt.val /\ Pkt'.src = Pkt.src
      BY <2>1, KillPacket DEF TypeOK, Pkt
    <2>3. QED
      BY <2>1, <2>2 DEF OperandInv
  <1>7. CASE CommitStep
    <2>1. PICK v \in Vals \union {NoVal} : (Cu.rd # x0 => v \in Vals) /\ Commit(v)
      BY <1>7 DEF CommitStep
    <2>2. Cu.rd \in Regs
      BY <1>7, HeadLeaves DEF CommitStep
    <2>3. isb23' = ma_commit_rd(isb23, Cu.rd, v)
          /\ rf' = IF Cu.rd = x0 THEN rf ELSE [rf EXCEPT ![Cu.rd] = v]
      BY <2>1 DEF Commit
    <2>4. isb23 \in Seq(Packet) /\ Len(isb23) \in {0, 1} /\ rf \in [Regs -> Vals]
      BY DEF TypeOK
    <2>5. isb23' # <<>> => isb23 # <<>> /\ Pkt \in Packet
                          /\ Pkt' = FollowCommit(Pkt, Cu.rd, v)
      BY <2>1, <2>2, <2>3, <2>4, FollowBuffer DEF Pkt
    <2>6. SUFFICES ASSUME isb23' # <<>>, NEW o \in Operands, o = "rd" => ~Spfpu
                   PROVE  Pkt'.val[o] = rf'[Pkt'.src[o]]
      BY DEF OperandInv
    <2>7. /\ Pkt'.src = Pkt.src
          /\ Pkt'.val[o] = IF Cu.rd # x0 /\ Pkt.src[o] = Cu.rd THEN v ELSE Pkt.val[o]
      BY <2>1, <2>2, <2>5, <2>6, FollowPacket
    <2>8. Pkt.src[o] \in Regs /\ Pkt.val[o] = rf[Pkt.src[o]]
      BY <2>5, <2>6, PacketType DEF OperandInv
    <2>9. rf'[Pkt.src[o]] = IF Cu.rd # x0 /\ Pkt.src[o] = Cu.rd THEN v ELSE rf[Pkt.src[o]]
      BY <2>2, <2>3, <2>4, <2>8
    <2>10. QED
      BY <2>7, <2>8, <2>9
  <1>8. QED
    BY <1>2, <1>3, <1>4, <1>5, <1>6, <1>7, StepKinds
       DEF rl_drop_instr, ForwardStep, Forward, DropStep, Drop, Unlock, StoreStep, FetchStep

-----------------------------------------------------------------------------
(* Rename ids and the scoreboard (no_wawstalls)                            *)

(* Giving out one id ages every other id by one.                           *)
LEMMA AgeNext ==
    ASSUME NEW n \in 0 .. IdSpace - 1, NEW id \in 0 .. IdSpace - 1, NEW m,
           m = IF n = IdSpace - 1 THEN 0 ELSE n + 1
    PROVE  LET age(x) == IF id < x THEN x - id ELSE x - id + IdSpace
           IN  /\ age(n) < IdSpace => age(m) = age(n) + 1
               /\ id = n => age(m) = 1
  BY SizesAssumption

(* The ids in flight stay consecutive.                                     *)
LEMMA StepAges ==
    ASSUME TypeOK, NoWawStalls, AgesInv, [Next]_vars
    PROVE  AgesInv'
  <1>0. N \in Nat /\ renameid \in 0 .. IdSpace - 1
        /\ \A k \in 1 .. N : At(k).id \in 0 .. IdSpace - 1
    BY QueueType DEF TypeOK
  <1>1. CASE IssueStep
    <2>1. PICK fu \in Units, v \in Vals \union {NoVal} : epochs_match /\ Issue(fu, v)
      BY <1>1 DEF IssueStep
    <2>2. /\ N' = N + 1 /\ N' <= IdSpace
          /\ \A k \in 1 .. N : At(k)' = At(k)
          /\ At(N)' = Issued(fu, v)
          /\ ma_lock_rd(Pkt.src["rd"])
      BY <2>1, IssueQueue DEF epochs_match
    <2>3. renameid' = IF renameid = IdSpace - 1 THEN 0 ELSE renameid + 1
      BY <1>0, <2>2, NextId DEF ma_lock_rd
    <2>4. ASSUME NEW k \in 1 .. N
          PROVE  Age(At(k).id)' = N' - k + 1
      <3>1. Age(At(k).id) = N - k + 1 /\ Age(At(k).id) < IdSpace
        BY <1>0, <2>2, SizesAssumption DEF AgesInv
      <3>2. Age(At(k).id)' = Age(At(k).id) + 1
        BY <1>0, <2>2, <2>3, <3>1, AgeNext DEF Age
      <3>3. QED
        BY <1>0, <2>2, <3>1, <3>2
    <2>5. Age(At(N).id)' = 1
      <3>1. At(N)'.id = renameid
        BY <2>2 DEF Issued
      <3>2. QED
        BY <1>0, <2>3, <3>1, AgeNext DEF Age
    <2>6. ASSUME NEW k \in 1 .. N'
          PROVE  Age(At(k).id)' = N' - k + 1
      <3>1. CASE k = N'
        BY <1>0, <2>2, <2>5, <3>1
      <3>2. CASE k # N'
        BY <1>0, <2>2, <2>4, <3>2
      <3>3. QED
        BY <3>1, <3>2
    <2>7. QED
      BY <2>6 DEF AgesInv
  <1>2. CASE ForwardStep
    <2>1. N' = N /\ renameid' = renameid /\ \A k \in 1 .. N : At(k)'.id = At(k).id
      BY <1>2, ForwardQueue DEF ForwardStep
    <2>2. QED
      BY <2>1 DEF AgesInv, Age
  <1>3. ASSUME N' = N - 1, N \in Nat \ {0}, renameid' = renameid,
               \A k \in 1 .. N - 1 : At(k)'.id = At(k + 1).id
        PROVE  AgesInv'
    <2>1. ASSUME NEW k \in 1 .. N'
          PROVE  Age(At(k).id)' = N' - k + 1
      <3>1. Age(At(k + 1).id) = N - (k + 1) + 1
        BY <1>3 DEF AgesInv
      <3>2. Age(At(k).id)' = Age(At(k + 1).id)
        BY <1>3 DEF Age
      <3>3. QED
        BY <1>3, <3>1, <3>2
    <2>2. QED
      BY <2>1 DEF AgesInv
  <1>4. CASE DropStep \/ CommitStep \/ StoreStep
    <2>1. isb45 # <<>> /\ isb45' = Tail(isb45) /\ isb34' = isb34 /\ renameid' = renameid
      BY <1>4 DEF DropStep, CommitStep, StoreStep, Drop, Unlock, Commit
    <2>2. QED
      BY <1>3, <2>1, LeaveQueue
  <1>5. CASE FlushStep
    <2>1. /\ isb45 # <<>> /\ isb45' = Kill(Tail(isb45)) /\ isb34' = Kill(isb34)
          /\ renameid' = renameid
      BY <1>5 DEF FlushStep, Flush, Unlock
    <2>2. QED
      BY <1>3, <2>1, FlushQueue
  <1>6. CASE UNCHANGED <<isb34, isb45, renameid>>
    BY <1>6, SameQueue DEF AgesInv, Age
  <1>7. QED
    BY <1>1, <1>2, <1>4, <1>5, <1>6, StepKinds DEF DecodeStep, rl_drop_instr, FetchStep

(* Two instructions in flight never share an id.                           *)
LEMMA SameIdSame ==
    ASSUME TypeOK, AgesInv, NEW j \in 1 .. N, NEW k \in 1 .. N, At(j).id = At(k).id
    PROVE  j = k
  <1>1. Age(At(j).id) = Age(At(k).id)
    OBVIOUS
  <1>2. N - j + 1 = N - k + 1
    BY <1>1 DEF AgesInv
  <1>3. QED
    BY <1>2, QueueType

(* A release needs the matching id.                                        *)
LEMMA ReleaseEffect ==
    ASSUME TypeOK, NoWawStalls, NEW rd \in Regs, NEW id, ma_release_rd(rd, id),
           NEW r \in Regs \ {x0}
    PROVE  /\ board'[r].id = board[r].id
           /\ r # rd => (board'[r].lock <=> board[r].lock)
           /\ r = rd /\ id # board[r].id => (board'[r].lock <=> board[r].lock)
           /\ r = rd /\ id = board[r].id => ~board'[r].lock
  <1>1. board \in [Regs -> [lock : BOOLEAN, id : 0 .. IdSpace - 1]]
    BY DEF TypeOK
  <1>2. CASE r # rd
    <2>1. board'[r] = board[r]
      BY <1>1, <1>2 DEF ma_release_rd
    <2>2. QED
      BY <1>2, <2>1
  <1>3. CASE r = rd
    <2>1. board'[r] = [board[r] EXCEPT !.lock = IF id # board[r].id THEN board[r].lock ELSE FALSE]
      BY <1>1, <1>3 DEF ma_release_rd
    <2>2. board'[r].id = board[r].id
      BY <1>1, <2>1
    <2>3. CASE id = board[r].id
      BY <1>1, <1>3, <2>1, <2>2, <2>3
    <2>4. CASE id # board[r].id
      BY <1>1, <1>3, <2>1, <2>2, <2>4
    <2>5. QED
      BY <2>3, <2>4
  <1>4. QED
    BY <1>2, <1>3

(* The scoreboard keeps naming the youngest writer.                        *)
LEMMA StepBoard ==
    ASSUME TypeOK, NoWawStalls, AgesInv, BoardInv, [Next]_vars
    PROVE  BoardInv'
  <1>0. N \in Nat /\ board \in [Regs -> [lock : BOOLEAN, id : 0 .. IdSpace - 1]]
        /\ \A k \in 1 .. N : At(k).rd \in Regs
    BY QueueType DEF TypeOK
  <1>1. CASE IssueStep
    <2> DEFINE rd == Pkt.src["rd"]
    <2>1. PICK fu \in Units, v \in Vals \union {NoVal} : epochs_match /\ Issue(fu, v)
      BY <1>1 DEF IssueStep
    <2>2. /\ N' = N + 1
          /\ \A k \in 1 .. N : At(k)' = At(k)
          /\ At(N)' = Issued(fu, v)
          /\ ma_lock_rd(rd)
      BY <2>1, IssueQueue DEF epochs_match
    <2>3. At(N)'.rd = rd /\ At(N)'.id = renameid
      BY <2>2 DEF Issued
    <2>4. rd \in Regs
      BY <2>1, PacketType DEF epochs_match
    <2> HIDE DEF rd
    <2>5. SUFFICES ASSUME NEW r \in Regs \ {x0}
                   PROVE  /\ board'[r].lock => \E k \in 1 .. N' : Owner(k, r)'
                          /\ ~board'[r].lock => \A k \in 1 .. N' : At(k)'.rd # r
      BY DEF BoardInv
    <2>6. CASE r = rd
      <3>1. board'[r].lock /\ board'[r].id = renameid
        BY <1>0, <2>2, <2>4, <2>6 DEF ma_lock_rd
      <3>2. Owner(N, r)'
        BY <1>0, <2>2, <2>3, <2>6, <3>1 DEF Owner
      <3>3. QED
        BY <1>0, <2>2, <3>1, <3>2
    <2>7. CASE r # rd
      <3>1. board'[r] = board[r]
        BY <1>0, <2>2, <2>4, <2>7 DEF ma_lock_rd
      <3>2. ASSUME NEW k \in 1 .. N, Owner(k, r)
            PROVE  k \in 1 .. N' /\ Owner(k, r)'
        <4>1. \A j \in k + 1 .. N' : At(j)'.rd # r
          <5> SUFFICES ASSUME NEW j \in k + 1 .. N' PROVE At(j)'.rd # r
            OBVIOUS
          <5>1. CASE j = N'
            BY <2>3, <2>7, <5>1
          <5>2. CASE j # N'
            BY <1>0, <2>2, <3>2, <5>2 DEF Owner
          <5>3. QED
            BY <5>1, <5>2
        <4>2. QED
          BY <1>0, <2>2, <3>1, <3>2, <4>1 DEF Owner
      <3>3. ASSUME ~board[r].lock, NEW k \in 1 .. N'
            PROVE  At(k)'.rd # r
        <4>1. CASE k = N'
          BY <2>3, <2>7, <4>1
        <4>2. CASE k # N'
          BY <1>0, <2>2, <3>3, <4>2 DEF BoardInv
        <4>3. QED
          BY <4>1, <4>2
      <3>4. QED
        BY <3>1, <3>2, <3>3 DEF BoardInv
    <2>8. QED
      BY <2>6, <2>7
  <1>2. CASE ForwardStep
    <2>1. /\ N' = N /\ board' = board
          /\ \A k \in 1 .. N : At(k)'.rd = At(k).rd /\ At(k)'.id = At(k).id
      BY <1>2, ForwardQueue DEF ForwardStep
    <2>2. \A r, k : k \in 1 .. N /\ Owner(k, r) => Owner(k, r)'
      BY <1>0, <2>1 DEF Owner
    <2>3. QED
      BY <2>1, <2>2 DEF BoardInv
  <1>3. ASSUME N' = N - 1, N \in Nat \ {0}, Cu = At(1),
               \A k \in 1 .. N - 1 : At(k)'.rd = At(k + 1).rd /\ At(k)'.id = At(k + 1).id,
               ma_release_rd(Cu.rd, Cu.id) \/ (Cu.rd = x0 /\ board' = board)
        PROVE  BoardInv'
    <2>1. SUFFICES ASSUME NEW r \in Regs \ {x0}
                   PROVE  /\ board'[r].lock => \E k \in 1 .. N' : Owner(k, r)'
                          /\ ~board'[r].lock => \A k \in 1 .. N' : At(k)'.rd # r
      BY DEF BoardInv
    <2>2. /\ board'[r].id = board[r].id
          /\ r # Cu.rd => (board'[r].lock <=> board[r].lock)
          /\ r = Cu.rd /\ Cu.id # board[r].id => (board'[r].lock <=> board[r].lock)
          /\ r = Cu.rd /\ Cu.id = board[r].id => ~board'[r].lock
      <3>1. CASE Cu.rd = x0 /\ board' = board
        BY <3>1
      <3>2. CASE ma_release_rd(Cu.rd, Cu.id)
        BY <1>0, <1>3, <3>2, ReleaseEffect
      <3>3. QED
        BY <1>3, <3>1, <3>2
    <2>3. ASSUME NEW k \in 1 .. N, k # 1, Owner(k, r)
          PROVE  k - 1 \in 1 .. N' /\ Owner(k - 1, r)'
      <3>1. k - 1 \in 1 .. N - 1 /\ (k - 1) + 1 = k
        BY <1>3, <2>3
      <3>2. At(k - 1)'.rd = r /\ At(k - 1)'.id = board'[r].id
        BY <1>3, <2>2, <2>3, <3>1 DEF Owner
      <3>3. ASSUME NEW j \in (k - 1) + 1 .. N'
            PROVE  At(j)'.rd # r
        BY <1>3, <2>3, <3>1 DEF Owner
      <3>4. QED
        BY <1>3, <3>1, <3>2, <3>3 DEF Owner
    <2>4. CASE r # Cu.rd
      <3>1. board[r].lock => \E k \in 1 .. N : k # 1 /\ Owner(k, r)
        BY <1>3, <2>4 DEF BoardInv, Owner
      <3>2. ~board[r].lock => \A k \in 1 .. N' : At(k)'.rd # r
        BY <1>3 DEF BoardInv
      <3>3. QED
        BY <2>2, <2>3, <2>4, <3>1, <3>2
    <2>5. CASE r = Cu.rd
      <3>1. PICK k \in 1 .. N : Owner(k, r)
        BY <1>3, <2>5 DEF BoardInv
      <3>2. CASE Cu.id = board[r].id
        <4>1. k = 1
          BY <1>3, <3>1, <3>2, SameIdSame DEF Owner
        <4>2. \A j \in 1 .. N' : At(j)'.rd # r
          BY <1>3, <3>1, <4>1 DEF Owner
        <4>3. QED
          BY <2>2, <2>5, <3>2, <4>2
      <3>3. CASE Cu.id # board[r].id
        <4>1. k # 1 /\ board[r].lock
          BY <1>3, <2>5, <3>1, <3>3 DEF Owner, BoardInv
        <4>2. board'[r].lock
          BY <2>2, <2>5, <3>3, <4>1
        <4>3. QED
          BY <2>3, <3>1, <4>1, <4>2
      <3>4. QED
        BY <3>2, <3>3
    <2>6. QED
      BY <2>4, <2>5
  <1>4. CASE DropStep \/ CommitStep \/ StoreStep
    <2>1. /\ isb45 # <<>> /\ isb45' = Tail(isb45) /\ isb34' = isb34
          /\ ma_release_rd(Cu.rd, Cu.id) \/ (Cu.rd = x0 /\ board' = board)
      BY <1>4 DEF DropStep, CommitStep, StoreStep, Drop, Unlock, Commit
    <2>2. QED
      BY <1>3, <2>1, LeaveQueue
  <1>5. CASE FlushStep
    <2>1. /\ isb45 # <<>> /\ isb45' = Kill(Tail(isb45)) /\ isb34' = Kill(isb34)
          /\ ma_release_rd(Cu.rd, Cu.id)
      BY <1>5 DEF FlushStep, Flush, Unlock
    <2>2. QED
      BY <1>3, <2>1, FlushQueue
  <1>6. CASE UNCHANGED <<isb34, isb45, board>>
    BY <1>6, SameQueue DEF BoardInv, Owner
  <1>7. QED
    BY <1>1, <1>2, <1>4, <1>5, <1>6, StepKinds DEF DecodeStep, rl_drop_instr, FetchStep

-----------------------------------------------------------------------------
(* The invariant and what follows from it                                  *)

LEMMA Inductive ==
    ASSUME IInv, [Next]_vars
    PROVE  IInv'
  <1>1. TypeOK' /\ EpochInv' /\ OperandInv'
    BY StepType, StepEpoch, StepOperand DEF IInv
  <1>2. ASSUME NoWawStalls
        PROVE  AgesInv' /\ BoardInv'
    BY <1>2, StepAges, StepBoard DEF IInv
  <1>3. QED
    BY <1>1, <1>2 DEF IInv

(* The inductive invariant holds in both builds, with and without          *)
(* no_wawstalls (the ids and the scoreboard only in the first).            *)
THEOREM InvariantHolds == Spec => []IInv
  <1>1. Init => IInv
    BY InitType, InitQueue DEF IInv
  <1>2. IInv /\ [Next]_vars => IInv'
    BY Inductive
  <1>3. QED
    BY <1>1, <1>2, PTL DEF Spec

(* In a build with no_wawstalls a register is locked exactly while an      *)
(* issued, not yet retired instruction has it as rd, whatever flushes and  *)
(* however the rename ids wrap: no reader waits for a release that was     *)
(* lost, none reads past a writer.                                         *)
THEOREM LocksCorrect ==
    ASSUME NoWawStalls
    PROVE  Spec => []LocksOwned
  <1>1. IInv => LocksOwned
    <2> SUFFICES ASSUME IInv, NEW r \in Regs \ {x0}
                 PROVE  board[r].lock <=> Writes(isb34, r) \/ Writes(isb45, r)
      BY DEF LocksOwned
    <2>1. TypeOK /\ BoardInv
      BY DEF IInv
    <2>2. ASSUME board[r].lock
          PROVE  Writes(isb34, r) \/ Writes(isb45, r)
      <3>1. PICK k \in 1 .. N : At(k).rd = r
        BY <2>1, <2>2 DEF BoardInv, Owner
      <3>2. Len(isb34) \in Nat /\ Len(isb45) \in Nat
        BY <2>1, QueueType
      <3>3. CASE k <= Len(isb45)
        BY <3>1, <3>2, <3>3 DEF At, Writes
      <3>4. CASE ~(k <= Len(isb45))
        <4>1. k - Len(isb45) \in 1 .. Len(isb34)
          BY <3>2, <3>4 DEF N
        <4>2. QED
          BY <3>1, <3>4, <4>1 DEF At, Writes
      <3>5. QED
        BY <3>3, <3>4
    <2>3. ASSUME Writes(isb34, r) \/ Writes(isb45, r)
          PROVE  board[r].lock
      BY <2>1, <2>3, InQueue DEF Writes, BoardInv
    <2>4. QED
      BY <2>2, <2>3
  <1>2. QED
    BY <1>1, InvariantHolds, PTL

(* As many ids as slots in s3-s4 and s4-s5 are enough: two instructions in *)
(* flight never carry the same rename id.                                  *)
THEOREM IdsCorrect ==
    ASSUME NoWawStalls
    PROVE  Spec => []IdsDistinct
  <1>1. IInv => IdsDistinct
    <2> SUFFICES ASSUME IInv PROVE IdsDistinct
      OBVIOUS
    <2>1. TypeOK /\ AgesInv /\ Len(isb34) \in Nat /\ Len(isb45) \in Nat
      BY QueueType DEF IInv
    <2>2. ASSUME NEW i \in 1 .. Len(isb34), NEW j \in 1 .. Len(isb34), isb34[i].id = isb34[j].id
          PROVE  i = j
      <3>1. Len(isb45) + i = Len(isb45) + j
        BY <2>1, <2>2, InQueue, SameIdSame
      <3>2. QED
        BY <2>1, <3>1
    <2>3. ASSUME NEW i \in 1 .. Len(isb45), NEW j \in 1 .. Len(isb45), isb45[i].id = isb45[j].id
          PROVE  i = j
      BY <2>1, <2>3, InQueue, SameIdSame
    <2>4. ASSUME NEW i \in 1 .. Len(isb34), NEW j \in 1 .. Len(isb45), isb34[i].id = isb45[j].id
          PROVE  FALSE
      <3>1. Len(isb45) + i = j
        BY <2>1, <2>4, InQueue, SameIdSame
      <3>2. QED
        BY <2>1, <3>1
    <2>5. QED
      BY <2>2, <2>3, <2>4 DEF IdsDistinct
  <1>2. QED
    BY <1>1, InvariantHolds, PTL

(* An instruction in flight with the id the scoreboard has for its rd is   *)
(* the youngest writer of rd.                                              *)
LEMMA NamedIsYoungest ==
    ASSUME IInv, NoWawStalls, NEW r \in Regs \ {x0}, NEW k \in 1 .. N,
           At(k).rd = r, At(k).id = board[r].id
    PROVE  \A j \in 1 .. N : At(j).rd = r => j <= k
  <1>1. TypeOK /\ AgesInv /\ BoardInv /\ N \in Nat
    BY QueueType DEF IInv
  <1>2. PICK m \in 1 .. N : Owner(m, r)
    BY <1>1 DEF BoardInv
  <1>3. m = k
    BY <1>1, <1>2, SameIdSame DEF Owner
  <1>4. QED
    BY <1>1, <1>2, <1>3 DEF Owner

(* A hit in s3-s4 forwards the result of the youngest, live writer.        *)
LEMMA Hit34 ==
    ASSUME IInv, NoWawStalls, NEW r \in Regs, Hit(isb34, r)
    PROVE  HitData(isb34, r) = Latest(r)
  <1> DEFINE i == CHOOSE i \in 1 .. Len(isb34) : Forwards(isb34, i, r)
             W == LiveWriters(isb34, r)
  <1>1. i \in 1 .. Len(isb34) /\ Forwards(isb34, i, r) /\ HitData(isb34, r) = isb34[i].val
    BY DEF Hit, HitData
  <1> HIDE DEF i
  <1>2. TypeOK /\ EpochInv /\ Len(isb34) \in Nat /\ Len(isb45) \in Nat
    BY QueueType DEF IInv
  <1>3. /\ r # x0 /\ isb34[i].rd = r /\ isb34[i].id = board[r].id /\ isb34[i].ep = wEpoch
    BY <1>1 DEF Forwards
  <1>4. Len(isb45) + i \in 1 .. N /\ At(Len(isb45) + i) = isb34[i]
    BY <1>1, <1>2, InQueue
  <1>5. i \in W
    BY <1>1, <1>2, <1>3, <1>4 DEF EpochInv, LiveWriters
  <1>6. ASSUME NEW j \in W
        PROVE  j <= i
    <2>1. j \in 1 .. Len(isb34) /\ isb34[j].rd = r
      BY DEF LiveWriters
    <2>2. Len(isb45) + j \in 1 .. N /\ At(Len(isb45) + j) = isb34[j]
      BY <1>2, <2>1, InQueue
    <2>3. Len(isb45) + j <= Len(isb45) + i
      BY <1>3, <1>4, <2>1, <2>2, NamedIsYoungest
    <2>4. QED
      BY <1>1, <1>2, <2>1, <2>3
  <1>7. W \subseteq 1 .. Len(isb34)
    BY DEF LiveWriters
  <1> HIDE DEF W
  <1>8. \A m \in W : (\A j \in W : j <= m) => m = i
    BY <1>1, <1>2, <1>5, <1>6, <1>7
  <1>9. (CHOOSE m \in W : \A j \in W : j <= m) = i
    BY <1>5, <1>6, <1>8
  <1>10. QED
    BY <1>1, <1>3, <1>5, <1>9 DEF Latest, LatestOf, W

(* A hit in s4-s5 does, when there is none in s3-s4.                       *)
LEMMA Hit45 ==
    ASSUME IInv, NoWawStalls, NEW r \in Regs, Hit(isb45, r)
    PROVE  HitData(isb45, r) = Latest(r)
  <1> DEFINE i == CHOOSE i \in 1 .. Len(isb45) : Forwards(isb45, i, r)
             W == LiveWriters(isb45, r)
  <1>1. i \in 1 .. Len(isb45) /\ Forwards(isb45, i, r) /\ HitData(isb45, r) = isb45[i].val
    BY DEF Hit, HitData
  <1> HIDE DEF i
  <1>2. TypeOK /\ EpochInv /\ Len(isb34) \in Nat /\ Len(isb45) \in Nat
    BY QueueType DEF IInv
  <1>3. /\ r # x0 /\ isb45[i].rd = r /\ isb45[i].id = board[r].id /\ isb45[i].ep = wEpoch
    BY <1>1 DEF Forwards
  <1>4. i \in 1 .. N /\ At(i) = isb45[i]
    BY <1>1, <1>2, InQueue
  <1>5. i \in W
    BY <1>1, <1>2, <1>3, <1>4 DEF EpochInv, LiveWriters
  <1>6. ASSUME NEW j \in W
        PROVE  j <= i
    <2>1. j \in 1 .. Len(isb45) /\ isb45[j].rd = r
      BY DEF LiveWriters
    <2>2. j \in 1 .. N /\ At(j) = isb45[j]
      BY <1>2, <2>1, InQueue
    <2>3. QED
      BY <1>3, <1>4, <2>1, <2>2, NamedIsYoungest
  <1>7. LiveWriters(isb34, r) = {}
    <2> SUFFICES ASSUME NEW j \in LiveWriters(isb34, r) PROVE FALSE
      OBVIOUS
    <2>1. j \in 1 .. Len(isb34) /\ isb34[j].rd = r
      BY DEF LiveWriters
    <2>2. Len(isb45) + j \in 1 .. N /\ At(Len(isb45) + j) = isb34[j]
      BY <1>2, <2>1, InQueue
    <2>3. Len(isb45) + j <= i
      BY <1>3, <1>4, <2>1, <2>2, NamedIsYoungest
    <2>4. QED
      BY <1>1, <1>2, <2>1, <2>3
  <1>8. W \subseteq 1 .. Len(isb45)
    BY DEF LiveWriters
  <1> HIDE DEF W
  <1>9. \A m \in W : (\A j \in W : j <= m) => m = i
    BY <1>1, <1>2, <1>5, <1>6, <1>8
  <1>10. (CHOOSE m \in W : \A j \in W : j <= m) = i
    BY <1>5, <1>6, <1>9
  <1>11. QED
    BY <1>1, <1>3, <1>5, <1>7, <1>10 DEF Latest, LatestOf, W

(* What rl_perform_fwding delivers for an available operand.               *)
LEMMA AvailableFresh ==
    ASSUME IInv, NoWawStalls, isb23 # <<>>, NEW o \in Operands, o = "rd" => ~Spfpu,
           Available(Pkt.src[o])
    PROVE  Fresh(o)
  <1> DEFINE r == Pkt.src[o]
  <1>1. r \in Regs /\ Pkt.val[o] = rf[r] /\ TypeOK
    BY PacketType DEF IInv, OperandInv
  <1> HIDE DEF r
  <1>2. CASE Hit(isb34, r)
    BY <1>1, <1>2, Hit34 DEF Fresh, fn_bypass, r
  <1>3. CASE ~Hit(isb34, r) /\ Hit(isb45, r)
    BY <1>1, <1>3, Hit45 DEF Fresh, fn_bypass, r
  <1>4. CASE ~Hit(isb34, r) /\ ~Hit(isb45, r)
    <2>1. fn_bypass(r, Pkt.val[o]) = rf[r]
      BY <1>1, <1>4 DEF fn_bypass
    <2>2. ~board[r].lock
      BY <1>4 DEF Available, r
    <2>3. Latest(r) = rf[r]
      <3>1. CASE r = x0
        BY <3>1 DEF Latest
      <3>2. CASE r # x0
        <4>1. \A k \in 1 .. N : At(k).rd # r
          BY <1>1, <2>2, <3>2 DEF IInv, BoardInv
        <4>2. LiveWriters(isb34, r) = {} /\ LiveWriters(isb45, r) = {}
          BY <1>1, <4>1, InQueue DEF LiveWriters
        <4>3. QED
          BY <4>2 DEF Latest
      <3>3. QED
        BY <3>1, <3>2
    <2>4. QED
      BY <2>1, <2>3 DEF Fresh, r
  <1>5. QED
    BY <1>2, <1>3, <1>4

(* In a build with no_wawstalls, whenever the bypass network reports rs1,  *)
(* rs2 or rs3 of the instruction in stage3 as available, the value it      *)
(* delivers is what a sequential machine would read.                       *)
THEOREM OperandsCorrect ==
    ASSUME NoWawStalls
    PROVE  Spec => []OperandsFresh
  <1>1. IInv => OperandsFresh
    BY AvailableFresh DEF OperandsFresh, epochs_match, Operands
  <1>2. QED
    BY <1>1, InvariantHolds, PTL

(* The same for operand d, in a build without spfpu.                       *)
THEOREM OpdCorrect ==
    ASSUME NoWawStalls, ~Spfpu
    PROVE  Spec => []OpdFresh
  <1>1. IInv => OpdFresh
    BY AvailableFresh DEF OpdFresh, epochs_match, Operands
  <1>2. QED
    BY <1>1, InvariantHolds, PTL

(* The register file is written only by right-path instructions, each in   *)
(* the register it holds locked.                                           *)
THEOREM RetireCorrect ==
    ASSUME NoWawStalls
    PROVE  Spec => RetireInOrder
  <1> DEFINE A == rf' # rf => /\ isb45 # <<>> /\ ~Cu.dead
                              /\ \A r \in Regs : rf'[r] # rf[r] => r = Cu.rd /\ board[r].lock
  <1>1. IInv /\ [Next]_vars => A
    <2> SUFFICES ASSUME IInv, [Next]_vars, rf' # rf
                 PROVE  /\ isb45 # <<>> /\ ~Cu.dead
                        /\ \A r \in Regs : rf'[r] # rf[r] => r = Cu.rd /\ board[r].lock
      OBVIOUS
    <2>1. TypeOK /\ EpochInv /\ BoardInv
      BY DEF IInv
    <2>2. CommitStep
      BY <2>1, StepKinds
         DEF DecodeStep, rl_drop_instr, IssueStep, Issue, ForwardStep, Forward,
             DropStep, Drop, FlushStep, Flush, Unlock, StoreStep, FetchStep
    <2>3. isb45 # <<>> /\ Cu.ep = wEpoch
      BY <2>2 DEF CommitStep, wb_epochs_match
    <2>4. Cu = isb45[1] /\ Len(isb45) \in Nat \ {0} /\ Cu.rd \in Regs
      BY <2>1, <2>3, HeadLeaves
    <2>5. 1 \in 1 .. N /\ At(1) = Cu
      BY <2>1, <2>4, InQueue
    <2>6. ~Cu.dead
      BY <2>1, <2>3, <2>5 DEF EpochInv
    <2>7. Cu.rd # x0 /\ \A r \in Regs : rf'[r] # rf[r] => r = Cu.rd
      BY <2>1, <2>2 DEF CommitStep, Commit, TypeOK
    <2>8. board[Cu.rd].lock
      BY <2>1, <2>4, <2>5, <2>7 DEF BoardInv
    <2>9. QED
      BY <2>3, <2>6, <2>7, <2>8
  <1>2. QED
    BY <1>1, InvariantHolds, PTL DEF Spec, RetireInOrder
=============================================================================
