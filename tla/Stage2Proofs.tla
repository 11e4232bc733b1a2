---------------------------- MODULE Stage2Proofs -----------------------------
(***************************************************************************)
(* Proofs about MCDecode.                                                  *)
(*                                                                         *)
(* Of Stage2: for every program and every depth of the buffers,            *)
(* what stage5 commits is the program in order, each instruction decoded   *)
(* under the control state it runs in.                                     *)
(*                                                                         *)
(* The argument is a description of the queues between the stages.  The    *)
(* packets that will survive, those of the current epochs, form a path:    *)
(* stage5's follow the program from apc, stage3's follow their predictions *)
(* from there, and stage2's packet and the fetch follow those.  A packet   *)
(* of an old epoch is always in front of the current ones, which is why    *)
(* turning an epoch makes everything behind the redirect stale.  Behind a  *)
(* live instruction that changes control state there is nothing but a      *)
(* rerun, because rg_microtrap or rg_stall is set as long as it is live.   *)
(*                                                                         *)
(* Of Decoder: for every interrupt register, delegation and privilege the  *)
(* word is decoded under, an interrupt is taken exactly when the ISA says. *)
(***************************************************************************)
EXTENDS MCDecode, Lemmas

(***************************************************************************)
(* The queues.  g is the program, S the packets for stage5, Q those for    *)
(* stage3, P the packet for stage2 if there is one; e and w are the epochs *)
(* and a the next instruction to retire.                                   *)
(***************************************************************************)
KindIn(g, p) == IF p \in 1 .. N THEN g[p] ELSE "ALU"
AfterIn(g, p) == IF KindIn(g, p) = "BRANCH" THEN p + 2 ELSE p + 1

Lives(p, e, w) == p.e = e /\ p.w = w

(* The instruction behind a packet that stage3 has let pass.               *)
SuccOf(g, p) == IF p.type = "BRANCH" THEN AfterIn(g, p.pc) ELSE p.next

(* Where the fetch of stage3's first live packet, and of the one behind    *)
(* its last, should be.                                                    *)
Expect3(g, S, w, a) == IF Len(S) # 0 /\ S[Len(S)].w = w THEN SuccOf(g, S[Len(S)]) ELSE a
Expect2(Q, e, w, x) == IF Len(Q) # 0 /\ Lives(Q[Len(Q)], e, w) THEN Q[Len(Q)].next ELSE x

(* The packets stage5 will commit are the program, in order.               *)
Path5(g, S, w, a) ==
    /\ Len(S) # 0 /\ S[1].w = w => S[1].pc = a
    /\ \A i, k \in 1 .. Len(S) :
         k = i + 1 /\ S[k].w = w => S[k].pc = IF S[i].w = w THEN SuccOf(g, S[i]) ELSE a
    /\ \A i, k \in 1 .. Len(S) : i < k /\ S[i].w = w => S[k].w = w

(* The live packets in front of stage3 follow their predictions.           *)
Path3(Q, e, w, x) ==
    /\ Len(Q) # 0 /\ Lives(Q[1], e, w) => Q[1].pc = x
    /\ \A i, k \in 1 .. Len(Q) :
         k = i + 1 /\ Lives(Q[k], e, w)
             => Q[k].pc = IF Lives(Q[i], e, w) THEN Q[i].next ELSE x
    /\ \A i, k \in 1 .. Len(Q) : i < k /\ Lives(Q[i], e, w) => Lives(Q[k], e, w)

(* A packet of an old epoch is in front of every one of the current.       *)
Ordered(S, Q, P, e, w) ==
    /\ \A i \in 1 .. Len(S) : S[i].w = w =>
         /\ \A k \in 1 .. Len(Q) : Q[k].w = w
         /\ \A k \in 1 .. Len(P) : P[k].w = w
    /\ \A i \in 1 .. Len(Q) : Lives(Q[i], e, w) => \A k \in 1 .. Len(P) : Lives(P[k], e, w)

(* What stage2 will decode, and what is fetched.                           *)
Path2(P, f, e, w, x) ==
    IF Len(P) # 0 /\ Lives(P[1], e, w) THEN P[1].pc = x /\ f = P[1].next ELSE f = x

(* A packet predicts an instruction that can follow its own, and has the   *)
(* type the decoder can have given it.                                     *)
Sound(g, p) ==
    p.next = p.pc + 1 \/ (KindIn(g, p.pc) = "BRANCH" /\ p.next = p.pc + 2)
SoundType(g, p) == p.type \in {"RERUN", "INTERRUPT", KindIn(g, p.pc)}

(* Behind a live instruction that changes control state there is nothing   *)
(* but a rerun, and the packets in front were decoded under c.             *)
Fresh5(S, w, c) ==
    /\ \A i \in 1 .. Len(S) : S[i].w = w => S[i].type = "RERUN" \/ S[i].csr = c
    /\ \A i, k \in 1 .. Len(S) :
         i < k /\ S[i].w = w /\ S[i].type = "CSR" => S[k].type = "RERUN"
Fresh3(Q, e, w, c) ==
    /\ \A i \in 1 .. Len(Q) : Lives(Q[i], e, w) => Q[i].type = "RERUN" \/ Q[i].csr = c
    /\ \A i, k \in 1 .. Len(Q) :
         i < k /\ Lives(Q[i], e, w) /\ Q[i].type = "CSR" => Q[k].type = "RERUN"
Across(S, Q, e, w) ==
    \A i \in 1 .. Len(S), k \in 1 .. Len(Q) :
        S[i].w = w /\ S[i].type = "CSR" /\ Lives(Q[k], e, w) => Q[k].type = "RERUN"
Held(S, Q, e, w, hold) ==
    /\ \A i \in 1 .. Len(S) : S[i].w = w /\ S[i].type = "CSR" => hold
    /\ \A i \in 1 .. Len(Q) : Lives(Q[i], e, w) /\ Q[i].type = "CSR" => hold

(***************************************************************************)
(* The inductive invariant, in parts.                                      *)
(***************************************************************************)
Paths(g, S, Q, P, e, w, a, f) ==
    /\ Path5(g, S, w, a)
    /\ Path3(Q, e, w, Expect3(g, S, w, a))
    /\ Ordered(S, Q, P, e, w)
    /\ Path2(P, f, e, w, Expect2(Q, e, w, Expect3(g, S, w, a)))
AllSound(g, S) == \A i \in 1 .. Len(S) : Sound(g, S[i]) /\ SoundType(g, S[i])
Sounds(g, S, Q, P) ==
    AllSound(g, S) /\ AllSound(g, Q) /\ \A i \in 1 .. Len(P) : Sound(g, P[i])
Fresh(S, Q, e, w, c) == Fresh5(S, w, c) /\ Fresh3(Q, e, w, c) /\ Across(S, Q, e, w)

Epoch == {0, 1}
PSet == [pc : Nat, e : Epoch, w : Epoch, next : Nat]
QSet == [pc : Nat, e : Epoch, w : Epoch, next : Nat,
         type : AllKinds \cup {"RERUN", "INTERRUPT"}, csr : Nat]

TypeInv ==
    /\ prog \in [1 .. N -> AllKinds]
    /\ fpc \in Nat /\ apc \in Nat /\ csr \in Nat
    /\ eEpoch \in Epoch /\ wEpoch \in Epoch /\ rg_epoch = wEpoch
    /\ pipe1 \in Seq(PSet) /\ Len(pipe1) <= 1
    /\ s3 \in Seq(QSet) /\ s5 \in Seq(QSet)

Inv == /\ TypeInv
       /\ Paths(prog, s5, s3, pipe1, eEpoch, wEpoch, apc, fpc)
       /\ Sounds(prog, s5, s3, pipe1)
       /\ Fresh(s5, s3, eEpoch, wEpoch, csr)
       /\ Held(s5, s3, eEpoch, wEpoch, rg_stall \/ rg_microtrap)

(***************************************************************************)
(* What moving the packets does to the parts.                              *)
(***************************************************************************)
IsTail(T, S) == /\ Len(S) \in Nat \ {0} /\ Len(T) = Len(S) - 1
                /\ \A i \in 1 .. Len(T) : T[i] = S[i + 1]
IsAppend(T, S, x) == /\ Len(S) \in Nat /\ Len(T) = Len(S) + 1
                     /\ \A i \in 1 .. Len(S) : T[i] = S[i]
                     /\ T[Len(S) + 1] = x

(* Every packet is stale: the fetch starts anew at the next instruction.   *)
LEMMA AllStale ==
    ASSUME NEW g, NEW S, NEW Q, NEW P, NEW e, NEW w, NEW a, NEW c, NEW hold,
           Len(S) \in Nat, Len(Q) \in Nat, Len(P) \in Nat,
           \A i \in 1 .. Len(S) : S[i].w # w,
           \A i \in 1 .. Len(Q) : Q[i].w # w,
           \A i \in 1 .. Len(P) : P[i].w # w
    PROVE  /\ Paths(g, S, Q, P, e, w, a, a)
           /\ Fresh(S, Q, e, w, c)
           /\ Held(S, Q, e, w, hold)
<1>1. Expect3(g, S, w, a) = a
  BY DEF Expect3
<1>2. Expect2(Q, e, w, a) = a
  BY DEF Expect2, Lives
<1>3. Path5(g, S, w, a) /\ Path3(Q, e, w, a) /\ Ordered(S, Q, P, e, w)
  BY DEF Path5, Path3, Ordered, Lives
<1>4. Path2(P, a, e, w, a)
  BY DEF Path2, Lives
<1>5. Fresh(S, Q, e, w, c)
  BY DEF Fresh, Fresh5, Fresh3, Across, Lives
<1>6. Held(S, Q, e, w, hold)
  BY DEF Held, Lives
<1> QED
  BY <1>1, <1>2, <1>3, <1>4, <1>5, <1>6 DEF Paths

(* A fetch goes where the path ends.                                       *)
LEMMA PathsFetch ==
    ASSUME NEW g, NEW S, NEW Q, NEW P, NEW P2, NEW e, NEW w, NEW a, NEW f, NEW n,
           Len(P) = 0, Len(P2) = 1, P2[1].pc = f, P2[1].e = e, P2[1].w = w, P2[1].next = n,
           Paths(g, S, Q, P, e, w, a, f)
    PROVE  Paths(g, S, Q, P2, e, w, a, n)
<1>1. Ordered(S, Q, P2, e, w)
  BY DEF Paths, Ordered, Lives
<1>2. f = Expect2(Q, e, w, Expect3(g, S, w, a))
  BY DEF Paths, Path2
<1>3. Path2(P2, n, e, w, Expect2(Q, e, w, Expect3(g, S, w, a)))
  BY <1>2 DEF Path2, Lives
<1> QED
  BY <1>1, <1>3 DEF Paths

(* A stale packet that stage2 throws away.                                 *)
LEMMA PathsDecodeDead ==
    ASSUME NEW g, NEW S, NEW Q, NEW P, NEW P2, NEW e, NEW w, NEW a, NEW f,
           Len(P) = 1, Len(P2) = 0, ~Lives(P[1], e, w),
           Paths(g, S, Q, P, e, w, a, f)
    PROVE  Paths(g, S, Q, P2, e, w, a, f)
  BY DEF Paths, Ordered, Path2

(* Stage2's live packet becomes stage3's last.                             *)
LEMMA PathsDecode ==
    ASSUME NEW g, NEW S, NEW Q, NEW Q2, NEW P, NEW P2, NEW e, NEW w, NEW a, NEW f, NEW k,
           Len(P) = 1, Len(P2) = 0, Lives(P[1], e, w), IsAppend(Q2, Q, k),
           k.pc = P[1].pc, k.e = e, k.w = w, k.next = P[1].next, Len(S) \in Nat,
           Paths(g, S, Q, P, e, w, a, f)
    PROVE  Paths(g, S, Q2, P2, e, w, a, f)
<1> DEFINE x == Expect3(g, S, w, a)
<1>1. Path5(g, S, w, a) /\ Path3(Q, e, w, x) /\ Ordered(S, Q, P, e, w)
      /\ Path2(P, f, e, w, Expect2(Q, e, w, x))
  BY DEF Paths
<1> HIDE DEF x
<1>2. P[1].pc = Expect2(Q, e, w, x) /\ f = P[1].next
  BY <1>1 DEF Path2
<1>3. Lives(k, e, w)
  BY DEF Lives
<1>4. Path3(Q2, e, w, x)
  <2>1. Len(Q2) # 0 /\ Lives(Q2[1], e, w) => Q2[1].pc = x
    BY <1>1, <1>2, <1>3 DEF Path3, IsAppend, Expect2
  <2>2. ASSUME NEW i \in 1 .. Len(Q2), NEW j \in 1 .. Len(Q2), j = i + 1, Lives(Q2[j], e, w)
        PROVE  Q2[j].pc = IF Lives(Q2[i], e, w) THEN Q2[i].next ELSE x
    <3>1. CASE j \in 1 .. Len(Q)
      BY <1>1, <2>2, <3>1 DEF Path3, IsAppend
    <3>2. CASE j = Len(Q) + 1
      BY <1>2, <2>2, <3>2 DEF IsAppend, Expect2
    <3> QED
      BY <3>1, <3>2 DEF IsAppend
  <2>3. ASSUME NEW i \in 1 .. Len(Q2), NEW j \in 1 .. Len(Q2), i < j, Lives(Q2[i], e, w)
        PROVE  Lives(Q2[j], e, w)
    <3>1. CASE j \in 1 .. Len(Q)
      BY <1>1, <2>3, <3>1 DEF Path3, IsAppend
    <3>2. CASE j = Len(Q) + 1
      BY <1>3, <2>3, <3>2 DEF IsAppend
    <3> QED
      BY <3>1, <3>2 DEF IsAppend
  <2> QED
    BY <2>1, <2>2, <2>3 DEF Path3
<1>5. Ordered(S, Q2, P2, e, w)
  BY <1>1 DEF Ordered, IsAppend, Lives
<1>6. Path2(P2, f, e, w, Expect2(Q2, e, w, x))
  BY <1>2, <1>3 DEF Path2, Expect2, IsAppend
<1> QED
  BY <1>1, <1>4, <1>5, <1>6 DEF Paths, x

(* Stage3 throws its stale first packet away.                              *)
LEMMA PathsDrop ==
    ASSUME NEW g, NEW S, NEW Q, NEW Q2, NEW P, NEW e, NEW w, NEW a, NEW f,
           IsTail(Q2, Q), ~Lives(Q[1], e, w),
           Paths(g, S, Q, P, e, w, a, f)
    PROVE  Paths(g, S, Q2, P, e, w, a, f)
<1> DEFINE x == Expect3(g, S, w, a)
<1>1. Path5(g, S, w, a) /\ Path3(Q, e, w, x) /\ Ordered(S, Q, P, e, w)
      /\ Path2(P, f, e, w, Expect2(Q, e, w, x))
  BY DEF Paths
<1> HIDE DEF x
<1>2. Path3(Q2, e, w, x)
  <2>1. Len(Q2) # 0 /\ Lives(Q2[1], e, w) => Q2[1].pc = x
    BY <1>1 DEF Path3, IsTail
  <2>2. ASSUME NEW i \in 1 .. Len(Q2), NEW j \in 1 .. Len(Q2), j = i + 1, Lives(Q2[j], e, w)
        PROVE  Q2[j].pc = IF Lives(Q2[i], e, w) THEN Q2[i].next ELSE x
    BY <1>1, <2>2 DEF Path3, IsTail
  <2>3. ASSUME NEW i \in 1 .. Len(Q2), NEW j \in 1 .. Len(Q2), i < j, Lives(Q2[i], e, w)
        PROVE  Lives(Q2[j], e, w)
    BY <1>1, <2>3 DEF Path3, IsTail
  <2> QED
    BY <2>1, <2>2, <2>3 DEF Path3
<1>3. Ordered(S, Q2, P, e, w)
  BY <1>1 DEF Ordered, IsTail
<1>4. Expect2(Q2, e, w, x) = Expect2(Q, e, w, x)
  BY DEF Expect2, IsTail
<1> QED
  BY <1>1, <1>2, <1>3, <1>4 DEF Paths, x

(* Stage5's path grows by stage3's first packet.                           *)
LEMMA Path5Issue ==
    ASSUME NEW g, NEW S, NEW S2, NEW w, NEW a, NEW k,
           IsAppend(S2, S, k), k.w = w, k.pc = Expect3(g, S, w, a), Path5(g, S, w, a)
    PROVE  Path5(g, S2, w, a) /\ Expect3(g, S2, w, a) = SuccOf(g, k)
<1>1. Expect3(g, S2, w, a) = SuccOf(g, k)
  BY DEF Expect3, IsAppend
<1>2. Len(S2) # 0 /\ S2[1].w = w => S2[1].pc = a
  BY DEF Path5, IsAppend, Expect3
<1>3. ASSUME NEW i \in 1 .. Len(S2), NEW j \in 1 .. Len(S2), j = i + 1, S2[j].w = w
      PROVE  S2[j].pc = IF S2[i].w = w THEN SuccOf(g, S2[i]) ELSE a
  <2>1. CASE j \in 1 .. Len(S)
    BY <1>3, <2>1 DEF Path5, IsAppend
  <2>2. CASE j = Len(S) + 1
    BY <1>3, <2>2 DEF IsAppend, Expect3
  <2> QED
    BY <2>1, <2>2 DEF IsAppend
<1>4. ASSUME NEW i \in 1 .. Len(S2), NEW j \in 1 .. Len(S2), i < j, S2[i].w = w
      PROVE  S2[j].w = w
  <2>1. CASE j \in 1 .. Len(S)
    BY <1>4, <2>1 DEF Path5, IsAppend
  <2>2. CASE j = Len(S) + 1
    BY <1>4, <2>2 DEF IsAppend
  <2> QED
    BY <2>1, <2>2 DEF IsAppend
<1> QED
  BY <1>1, <1>2, <1>3, <1>4 DEF Path5

(* Stage3 issues its first packet, whose prediction was right.             *)
LEMMA PathsIssue ==
    ASSUME NEW g, NEW S, NEW S2, NEW Q, NEW Q2, NEW P, NEW e, NEW w, NEW a, NEW f,
           IsTail(Q2, Q), IsAppend(S2, S, Q[1]), Lives(Q[1], e, w),
           SuccOf(g, Q[1]) = Q[1].next,
           Paths(g, S, Q, P, e, w, a, f)
    PROVE  Paths(g, S2, Q2, P, e, w, a, f)
<1> DEFINE x == Expect3(g, S, w, a)
<1>1. Path5(g, S, w, a) /\ Path3(Q, e, w, x) /\ Ordered(S, Q, P, e, w)
      /\ Path2(P, f, e, w, Expect2(Q, e, w, x))
  BY DEF Paths
<1>2. Q[1].pc = x /\ Q[1].w = w
  BY <1>1 DEF Path3, IsTail, Lives
<1>3. Path5(g, S2, w, a) /\ Expect3(g, S2, w, a) = Q[1].next
  BY <1>1, <1>2, Path5Issue
<1> HIDE DEF x
<1> DEFINE y == Q[1].next
<1>4. Path3(Q2, e, w, y)
  <2>1. Len(Q2) # 0 /\ Lives(Q2[1], e, w) => Q2[1].pc = y
    BY <1>1 DEF Path3, IsTail
  <2>2. ASSUME NEW i \in 1 .. Len(Q2), NEW j \in 1 .. Len(Q2), j = i + 1, Lives(Q2[j], e, w)
        PROVE  Q2[j].pc = IF Lives(Q2[i], e, w) THEN Q2[i].next ELSE y
    <3>1. Lives(Q[i + 1], e, w) /\ Q2[i] = Q[i + 1] /\ Q2[j] = Q[j + 1]
      BY <1>1, <2>2 DEF Path3, IsTail
    <3> QED
      BY <1>1, <2>2, <3>1 DEF Path3, IsTail
  <2>3. ASSUME NEW i \in 1 .. Len(Q2), NEW j \in 1 .. Len(Q2), i < j, Lives(Q2[i], e, w)
        PROVE  Lives(Q2[j], e, w)
    BY <1>1, <2>3 DEF Path3, IsTail
  <2> QED
    BY <2>1, <2>2, <2>3 DEF Path3
<1>5. \A i \in 1 .. Len(Q) : Lives(Q[i], e, w)
  BY <1>1 DEF Path3, IsTail
<1>6. \A i \in 1 .. Len(P) : Lives(P[i], e, w)
  BY <1>1, <1>5 DEF Ordered, IsTail
<1>7. Ordered(S2, Q2, P, e, w)
  <2>1. \A i \in 1 .. Len(Q2) : Lives(Q2[i], e, w)
    BY <1>5 DEF IsTail
  <2> QED
    BY <1>6, <2>1 DEF Ordered, Lives
<1>8. Expect2(Q2, e, w, y) = Expect2(Q, e, w, x)
  BY <1>5 DEF Expect2, IsTail
<1> QED
  BY <1>1, <1>3, <1>4, <1>7, <1>8 DEF Paths

(* Stage3 issues a wrongly predicted branch and turns its epoch: all that  *)
(* was behind the branch is stale and the fetch goes where it leads.       *)
LEMMA PathsMispredict ==
    ASSUME NEW g, NEW S, NEW S2, NEW Q, NEW Q2, NEW P2, NEW e2, NEW w, NEW a,
           Len(Q2) \in Nat, Len(P2) \in Nat, Len(Q) \in Nat \ {0},
           IsAppend(S2, S, Q[1]), Q[1].w = w, Q[1].pc = Expect3(g, S, w, a),
           \A i \in 1 .. Len(Q2) : Q2[i].w = w /\ Q2[i].e # e2,
           \A i \in 1 .. Len(P2) : P2[i].w = w /\ P2[i].e # e2,
           Path5(g, S, w, a)
    PROVE  Paths(g, S2, Q2, P2, e2, w, a, SuccOf(g, Q[1]))
<1> DEFINE y == SuccOf(g, Q[1])
<1>1. Path5(g, S2, w, a) /\ Expect3(g, S2, w, a) = y
  BY Path5Issue
<1> HIDE DEF y
<1>2. Path3(Q2, e2, w, y) /\ Ordered(S2, Q2, P2, e2, w)
  BY DEF Path3, Ordered, Lives
<1>3. Expect2(Q2, e2, w, y) = y
  BY DEF Expect2, Lives
<1>4. Path2(P2, y, e2, w, y)
  BY DEF Path2, Lives
<1> QED
  BY <1>1, <1>2, <1>3, <1>4 DEF Paths, y

(* Stage5 throws a stale packet away, or commits its first and goes on to  *)
(* the next instruction.                                                   *)
LEMMA PathsWriteback ==
    ASSUME NEW g, NEW S, NEW S2, NEW Q, NEW P, NEW e, NEW w, NEW a, NEW a2, NEW f,
           IsTail(S2, S), a2 = (IF S[1].w = w THEN SuccOf(g, S[1]) ELSE a),
           Paths(g, S, Q, P, e, w, a, f)
    PROVE  Paths(g, S2, Q, P, e, w, a2, f)
<1>1. Path5(g, S, w, a) /\ Ordered(S, Q, P, e, w)
  BY DEF Paths
<1>2. Expect3(g, S2, w, a2) = Expect3(g, S, w, a)
  <2>1. CASE Len(S) = 1
    BY <2>1 DEF Expect3, IsTail
  <2>2. CASE Len(S) # 1
    <3>1. S2[Len(S2)] = S[Len(S)] /\ Len(S2) # 0 /\ Len(S) # 0 /\ 1 \in 1 .. Len(S)
          /\ Len(S) \in 1 .. Len(S) /\ 1 < Len(S)
      BY <2>2 DEF IsTail
    <3>2. S[1].w = w => S[Len(S)].w = w
      BY <1>1, <3>1 DEF Path5
    <3> QED
      BY <3>1, <3>2 DEF Expect3
  <2> QED
    BY <2>1, <2>2
<1>3. Path5(g, S2, w, a2)
  <2>1. Len(S2) # 0 /\ S2[1].w = w => S2[1].pc = a2
    BY <1>1 DEF Path5, IsTail
  <2>2. ASSUME NEW i \in 1 .. Len(S2), NEW j \in 1 .. Len(S2), j = i + 1, S2[j].w = w
        PROVE  S2[j].pc = IF S2[i].w = w THEN SuccOf(g, S2[i]) ELSE a2
    <3>1. S2[i] = S[i + 1] /\ S2[j] = S[j + 1] /\ i + 1 \in 1 .. Len(S) /\ j + 1 \in 1 .. Len(S)
          /\ 1 \in 1 .. Len(S) /\ 1 < i + 1
      BY <2>2 DEF IsTail
    <3>2. S[j + 1].pc = IF S[i + 1].w = w THEN SuccOf(g, S[i + 1]) ELSE a
      BY <1>1, <2>2, <3>1 DEF Path5
    <3>3. S[1].w = w => S[i + 1].w = w
      BY <1>1, <3>1 DEF Path5
    <3> QED
      BY <3>1, <3>2, <3>3
  <2>3. ASSUME NEW i \in 1 .. Len(S2), NEW j \in 1 .. Len(S2), i < j, S2[i].w = w
        PROVE  S2[j].w = w
    <3>1. S2[i] = S[i + 1] /\ S2[j] = S[j + 1] /\ i + 1 \in 1 .. Len(S) /\ j + 1 \in 1 .. Len(S)
          /\ i + 1 < j + 1
      BY <2>3 DEF IsTail
    <3> QED
      BY <1>1, <2>3, <3>1 DEF Path5
  <2> QED
    BY <2>1, <2>2, <2>3 DEF Path5
<1>4. Ordered(S2, Q, P, e, w)
  BY <1>1 DEF Ordered, IsTail
<1> QED
  BY <1>2, <1>3, <1>4 DEF Paths

(* A packet that leaves a queue or joins it leaves the others as they are. *)
LEMMA SoundTail ==
    ASSUME NEW g, NEW S, NEW T, IsTail(T, S), AllSound(g, S)
    PROVE  AllSound(g, T) /\ Sound(g, S[1]) /\ SoundType(g, S[1])
  BY DEF AllSound, IsTail

LEMMA SoundAppend ==
    ASSUME NEW g, NEW S, NEW T, NEW k, IsAppend(T, S, k), AllSound(g, S),
           Sound(g, k), SoundType(g, k)
    PROVE  AllSound(g, T)
<1> SUFFICES ASSUME NEW i \in 1 .. Len(T) PROVE Sound(g, T[i]) /\ SoundType(g, T[i])
  BY DEF AllSound
<1>1. CASE i \in 1 .. Len(S)
  BY <1>1 DEF AllSound, IsAppend
<1>2. CASE i = Len(S) + 1
  BY <1>2 DEF IsAppend
<1> QED
  BY <1>1, <1>2 DEF IsAppend

(* While an instruction that changes control state is live, stage2 decodes *)
(* nothing but a rerun.                                                    *)
LEMMA FreshDecode ==
    ASSUME NEW S, NEW Q, NEW Q2, NEW e, NEW w, NEW c, NEW k, NEW hold,
           IsAppend(Q2, Q, k), k.csr = c, hold => k.type = "RERUN",
           Fresh(S, Q, e, w, c), Held(S, Q, e, w, hold)
    PROVE  Fresh(S, Q2, e, w, c)
<1>1. Fresh5(S, w, c)
  BY DEF Fresh
<1>2. Fresh3(Q2, e, w, c)
  <2>1. ASSUME NEW i \in 1 .. Len(Q2), Lives(Q2[i], e, w)
        PROVE  Q2[i].type = "RERUN" \/ Q2[i].csr = c
    <3>1. CASE i \in 1 .. Len(Q)
      BY <2>1, <3>1 DEF Fresh, Fresh3, IsAppend
    <3>2. CASE i = Len(Q) + 1
      BY <3>2 DEF IsAppend
    <3> QED
      BY <3>1, <3>2 DEF IsAppend
  <2>2. ASSUME NEW i \in 1 .. Len(Q2), NEW j \in 1 .. Len(Q2), i < j, Lives(Q2[i], e, w),
               Q2[i].type = "CSR"
        PROVE  Q2[j].type = "RERUN"
    <3>1. i \in 1 .. Len(Q) /\ Q2[i] = Q[i]
      BY <2>2 DEF IsAppend
    <3>2. CASE j \in 1 .. Len(Q)
      BY <2>2, <3>1, <3>2 DEF Fresh, Fresh3, IsAppend
    <3>3. CASE j = Len(Q) + 1
      BY <2>2, <3>1, <3>3 DEF IsAppend, Held
    <3> QED
      BY <3>2, <3>3 DEF IsAppend
  <2> QED
    BY <2>1, <2>2 DEF Fresh3
<1>3. Across(S, Q2, e, w)
  <2> SUFFICES ASSUME NEW i \in 1 .. Len(S), NEW j \in 1 .. Len(Q2),
                      S[i].w = w, S[i].type = "CSR", Lives(Q2[j], e, w)
               PROVE  Q2[j].type = "RERUN"
    BY DEF Across
  <2>1. CASE j \in 1 .. Len(Q)
    BY <2>1 DEF Fresh, Across, IsAppend
  <2>2. CASE j = Len(Q) + 1
    BY <2>2 DEF IsAppend, Held
  <2> QED
    BY <2>1, <2>2 DEF IsAppend
<1> QED
  BY <1>1, <1>2, <1>3 DEF Fresh

LEMMA HeldDecode ==
    ASSUME NEW S, NEW Q, NEW Q2, NEW e, NEW w, NEW k, NEW hold, NEW hold2,
           IsAppend(Q2, Q, k), hold => hold2, k.type = "CSR" => hold2,
           Held(S, Q, e, w, hold)
    PROVE  Held(S, Q2, e, w, hold2)
<1>1. ASSUME NEW i \in 1 .. Len(Q2), Lives(Q2[i], e, w), Q2[i].type = "CSR"
      PROVE  hold2
  <2>1. CASE i \in 1 .. Len(Q)
    BY <1>1, <2>1 DEF Held, IsAppend
  <2>2. CASE i = Len(Q) + 1
    BY <1>1, <2>2 DEF IsAppend
  <2> QED
    BY <2>1, <2>2 DEF IsAppend
<1> QED
  BY <1>1 DEF Held

LEMMA FreshDrop ==
    ASSUME NEW S, NEW Q, NEW Q2, NEW e, NEW w, NEW c, NEW hold, IsTail(Q2, Q),
           Fresh(S, Q, e, w, c), Held(S, Q, e, w, hold)
    PROVE  Fresh(S, Q2, e, w, c) /\ Held(S, Q2, e, w, hold)
<1>1. ASSUME NEW i \in 1 .. Len(Q2)
      PROVE  Q2[i] = Q[i + 1] /\ i + 1 \in 1 .. Len(Q)
  BY DEF IsTail
<1>2. Fresh3(Q2, e, w, c)
  <2>1. \A i \in 1 .. Len(Q2) : Lives(Q2[i], e, w) => Q2[i].type = "RERUN" \/ Q2[i].csr = c
    BY <1>1 DEF Fresh, Fresh3
  <2>2. ASSUME NEW i \in 1 .. Len(Q2), NEW j \in 1 .. Len(Q2), i < j, Lives(Q2[i], e, w),
               Q2[i].type = "CSR"
        PROVE  Q2[j].type = "RERUN"
    <3>1. i + 1 < j + 1
      BY <2>2
    <3> QED
      BY <1>1, <2>2, <3>1 DEF Fresh, Fresh3
  <2> QED
    BY <2>1, <2>2 DEF Fresh3
<1>3. Across(S, Q2, e, w)
  BY <1>1 DEF Fresh, Across
<1>4. Held(S, Q2, e, w, hold)
  BY <1>1 DEF Held
<1> QED
  BY <1>2, <1>3, <1>4 DEF Fresh

(* A live packet goes from stage3 to stage5.                               *)
LEMMA Fresh5Issue ==
    ASSUME NEW S, NEW S2, NEW Q, NEW e, NEW w, NEW c,
           Len(Q) \in Nat \ {0}, IsAppend(S2, S, Q[1]), Lives(Q[1], e, w), Fresh(S, Q, e, w, c)
    PROVE  Fresh5(S2, w, c)
<1>1. ASSUME NEW i \in 1 .. Len(S2), S2[i].w = w
      PROVE  S2[i].type = "RERUN" \/ S2[i].csr = c
  <2>1. CASE i \in 1 .. Len(S)
    BY <1>1, <2>1 DEF Fresh, Fresh5, IsAppend
  <2>2. CASE i = Len(S) + 1
    BY <2>2 DEF IsAppend, Fresh, Fresh3
  <2> QED
    BY <2>1, <2>2 DEF IsAppend
<1>2. ASSUME NEW i \in 1 .. Len(S2), NEW j \in 1 .. Len(S2), i < j, S2[i].w = w,
             S2[i].type = "CSR"
      PROVE  S2[j].type = "RERUN"
  <2>1. i \in 1 .. Len(S) /\ S2[i] = S[i]
    BY <1>2 DEF IsAppend
  <2>2. CASE j \in 1 .. Len(S)
    BY <1>2, <2>1, <2>2 DEF Fresh, Fresh5, IsAppend
  <2>3. CASE j = Len(S) + 1
    BY <1>2, <2>1, <2>3 DEF IsAppend, Fresh, Across
  <2> QED
    BY <2>2, <2>3 DEF IsAppend
<1> QED
  BY <1>1, <1>2 DEF Fresh5

LEMMA FreshIssue ==
    ASSUME NEW S, NEW S2, NEW Q, NEW Q2, NEW e, NEW w, NEW c, NEW hold,
           IsTail(Q2, Q), IsAppend(S2, S, Q[1]), Lives(Q[1], e, w),
           Fresh(S, Q, e, w, c), Held(S, Q, e, w, hold)
    PROVE  Fresh(S2, Q2, e, w, c) /\ Held(S2, Q2, e, w, hold)
<1>1. Fresh(S, Q2, e, w, c) /\ Held(S, Q2, e, w, hold)
  BY FreshDrop
<1>2. Len(Q) \in Nat \ {0} /\ 1 \in 1 .. Len(Q)
  BY DEF IsTail
<1>3. Fresh5(S2, w, c)
  BY <1>2, Fresh5Issue
<1>4. Across(S2, Q2, e, w)
  <2> SUFFICES ASSUME NEW i \in 1 .. Len(S2), NEW j \in 1 .. Len(Q2),
                      S2[i].w = w, S2[i].type = "CSR", Lives(Q2[j], e, w)
               PROVE  Q2[j].type = "RERUN"
    BY DEF Across
  <2>1. CASE i \in 1 .. Len(S)
    BY <1>1, <2>1 DEF Fresh, Across, IsAppend
  <2>2. CASE i = Len(S) + 1
    <3>1. Q2[j] = Q[j + 1] /\ j + 1 \in 1 .. Len(Q) /\ 1 < j + 1 /\ S2[i] = Q[1]
      BY <2>2 DEF IsTail, IsAppend
    <3> QED
      BY <1>2, <3>1 DEF Fresh, Fresh3
  <2> QED
    BY <2>1, <2>2 DEF IsAppend
<1>5. Held(S2, Q2, e, w, hold)
  <2>1. ASSUME NEW i \in 1 .. Len(S2), S2[i].w = w, S2[i].type = "CSR"
        PROVE  hold
    <3>1. CASE i \in 1 .. Len(S)
      BY <2>1, <3>1 DEF Held, IsAppend
    <3>2. CASE i = Len(S) + 1
      BY <1>2, <2>1, <3>2 DEF Held, IsAppend
    <3> QED
      BY <3>1, <3>2 DEF IsAppend
  <2> QED
    BY <1>1, <2>1 DEF Held
<1> QED
  BY <1>1, <1>3, <1>4, <1>5 DEF Fresh

(* A branch is issued and what was behind it is stale; no instruction that *)
(* changes control state is in front of it.                                *)
LEMMA FreshMispredict ==
    ASSUME NEW S, NEW S2, NEW Q, NEW Q2, NEW e, NEW e2, NEW w, NEW c, NEW hold2,
           Len(Q) \in Nat \ {0}, IsAppend(S2, S, Q[1]), Lives(Q[1], e, w),
           Q[1].type = "BRANCH", Fresh(S, Q, e, w, c),
           \A i \in 1 .. Len(Q2) : ~Lives(Q2[i], e2, w)
    PROVE  Fresh(S2, Q2, e2, w, c) /\ Held(S2, Q2, e2, w, hold2)
<1>1. Fresh5(S2, w, c)
  BY Fresh5Issue
<1>2. Fresh3(Q2, e2, w, c) /\ Across(S2, Q2, e2, w)
  BY DEF Fresh3, Across
<1>3. ASSUME NEW i \in 1 .. Len(S2), S2[i].w = w, S2[i].type = "CSR"
      PROVE  FALSE
  <2>1. CASE i \in 1 .. Len(S)
    BY <1>3, <2>1 DEF Fresh, Across, IsAppend
  <2>2. CASE i = Len(S) + 1
    BY <1>3, <2>2 DEF IsAppend
  <2> QED
    BY <2>1, <2>2 DEF IsAppend
<1> QED
  BY <1>1, <1>2, <1>3 DEF Fresh, Held

(* Stage5's first packet leaves; the control state changes only with one   *)
(* behind which everything is a rerun.                                     *)
LEMMA FreshWriteback ==
    ASSUME NEW S, NEW S2, NEW Q, NEW e, NEW w, NEW c, NEW c2, NEW hold,
           IsTail(S2, S), (S[1].w = w /\ S[1].type = "CSR") \/ c2 = c,
           Fresh(S, Q, e, w, c), Held(S, Q, e, w, hold)
    PROVE  Fresh(S2, Q, e, w, c2) /\ Held(S2, Q, e, w, hold)
<1>1. ASSUME NEW i \in 1 .. Len(S2)
      PROVE  S2[i] = S[i + 1] /\ i + 1 \in 1 .. Len(S) /\ 1 < i + 1
  BY DEF IsTail
<1>2. 1 \in 1 .. Len(S)
  BY DEF IsTail
<1>3. Fresh5(S2, w, c2)
  <2>1. \A i \in 1 .. Len(S2) : S2[i].w = w => S2[i].type = "RERUN" \/ S2[i].csr = c2
    BY <1>1, <1>2 DEF Fresh, Fresh5
  <2>2. ASSUME NEW i \in 1 .. Len(S2), NEW j \in 1 .. Len(S2), i < j, S2[i].w = w,
               S2[i].type = "CSR"
        PROVE  S2[j].type = "RERUN"
    <3>1. i + 1 < j + 1
      BY <2>2
    <3> QED
      BY <1>1, <2>2, <3>1 DEF Fresh, Fresh5
  <2> QED
    BY <2>1, <2>2 DEF Fresh5
<1>4. Fresh3(Q, e, w, c2)
  BY <1>2 DEF Fresh, Fresh3, Across
<1>5. Across(S2, Q, e, w)
  BY <1>1 DEF Fresh, Across
<1>6. Held(S2, Q, e, w, hold)
  BY <1>1 DEF Held
<1> QED
  BY <1>3, <1>4, <1>5, <1>6 DEF Fresh

(***************************************************************************)
(* What the rules do to the queues.                                        *)
(***************************************************************************)
LEMMA QueueTail ==
    ASSUME NEW E, NEW S \in Seq(E), S # << >>
    PROVE  Tail(S) \in Seq(E) /\ IsTail(Tail(S), S) /\ S[1] \in E
<1>1. Len(S) \in Nat \ {0} /\ Len(Tail(S)) = Len(S) - 1
  BY TailFacts
<1>2. \A i \in 1 .. Len(Tail(S)) : Tail(S)[i] = S[i + 1]
  BY <1>1, TailFacts
<1> QED
  BY <1>1, <1>2, TailFacts DEF IsTail

LEMMA QueueAppend ==
    ASSUME NEW E, NEW S \in Seq(E), NEW k \in E
    PROVE  /\ Append(S, k) \in Seq(E) /\ IsAppend(Append(S, k), S, k)
           /\ S \o <<k>> = Append(S, k) /\ S \o << >> = S
  BY AppendFacts, AppendIsConcat, ConcatEmptySeq DEF IsAppend

LEMMA ProgramIn ==
    ASSUME NEW p
    PROVE  Kind(p) = KindIn(prog, p) /\ After(p) = AfterIn(prog, p)
  BY DEF Kind, KindIn, After, AfterIn

LEMMA KindInType ==
    ASSUME TypeInv, NEW p \in Nat
    PROVE  KindIn(prog, p) \in AllKinds /\ AfterIn(prog, p) \in Nat
<1>1. KindIn(prog, p) \in AllKinds
  BY DEF TypeInv, KindIn, AllKinds
<1> QED
  BY <1>1 DEF AfterIn

(* The packet in front of stage2.                                          *)
LEMMA FirstOfPipe ==
    ASSUME TypeInv, pipe1 # << >>
    PROVE  Len(pipe1) = 1 /\ pipe1[1] \in PSet
<1>1. Len(pipe1) \in Nat \ {0} /\ pipe1[1] \in PSet
  BY TailFacts DEF TypeInv
<1>2. Len(pipe1) <= 1
  BY DEF TypeInv
<1> QED
  BY <1>1, <1>2

(* A live packet is decoded into one for stage3.                           *)
LEMMA DecodeEffect ==
    ASSUME TypeInv, CanDecode, Live, NEW flush \in BOOLEAN
    PROVE  \E k \in QSet :
             /\ DecodeWrites(flush)[4] = <<k>>
             /\ k.pc = pipe1[1].pc /\ k.e = eEpoch /\ k.w = wEpoch
             /\ k.next = pipe1[1].next /\ k.csr = csr
             /\ SoundType(prog, k)
             /\ rg_stall \/ rg_microtrap => k.type = "RERUN"
             /\ ~flush /\ k.type = "RERUN" => DecodeWrites(flush)[1]
             /\ ~flush /\ k.type = "CSR" => DecodeWrites(flush)[3]
<1> DEFINE d == Decoded(pipe1[1].pc)
           k == [pc |-> pipe1[1].pc, e |-> eEpoch, w |-> wEpoch,
                 next |-> pipe1[1].next, type |-> d, csr |-> csr]
<1>1. pipe1[1] \in PSet
  BY FirstOfPipe DEF CanDecode
<1>2. pipe1[1].pc \in Nat /\ pipe1[1].next \in Nat
  BY <1>1 DEF PSet
<1>3. d \in {"RERUN", "INTERRUPT", KindIn(prog, pipe1[1].pc)}
  BY ProgramIn DEF Decoded
<1>4. rg_stall \/ rg_microtrap => d = "RERUN"
  BY DEF CanDecode, Decoded
<1>5. KindIn(prog, pipe1[1].pc) \in AllKinds
  BY <1>2, KindInType
<1>6. /\ DecodeWrites(flush)[4] = <<k>>
      /\ DecodeWrites(flush)[1] = (d \in {"RERUN", "INTERRUPT", "ILL"} /\ ~flush)
      /\ DecodeWrites(flush)[3] = (d # "RERUN" /\ Kind(pipe1[1].pc) = "CSR" /\ ~flush)
  BY DEF DecodeWrites
<1>7. d = "CSR" => Kind(pipe1[1].pc) = "CSR"
  BY <1>3, ProgramIn
<1> HIDE DEF d
<1>8. k \in QSet
  BY <1>2, <1>3, <1>5 DEF QSet, TypeInv
<1>9. SoundType(prog, k)
  BY <1>3 DEF SoundType
<1>10. ~flush /\ k.type = "RERUN" => DecodeWrites(flush)[1]
  BY <1>6, Zenon
<1>11. ~flush /\ k.type = "CSR" => DecodeWrites(flush)[3]
  <2>1. k.type = d /\ "CSR" # "RERUN"
    OBVIOUS
  <2> QED
    BY <1>6, <1>7, <2>1, Zenon
<1>12. k.type = d /\ k.pc = pipe1[1].pc /\ k.e = eEpoch /\ k.w = wEpoch
       /\ k.next = pipe1[1].next /\ k.csr = csr
  OBVIOUS
<1> HIDE DEF k
<1> QED
  BY <1>4, <1>6, <1>8, <1>9, <1>10, <1>11, <1>12, Zenon

(* A stale one is thrown away.                                             *)
LEMMA DecodeDeadEffect ==
    ASSUME ~Live, NEW flush
    PROVE  /\ DecodeWrites(flush)[1] = rg_stall /\ DecodeWrites(flush)[3] = rg_microtrap
           /\ DecodeWrites(flush)[4] = << >>
  BY DEF DecodeWrites

(***************************************************************************)
(* The invariant is inductive: one lemma for each rule.                    *)
(***************************************************************************)
LEMMA LengthsNat ==
    ASSUME TypeInv
    PROVE  Len(pipe1) \in Nat /\ Len(s3) \in Nat /\ Len(s5) \in Nat
  BY LenProperties DEF TypeInv

LEMMA InvInit == Init => Inv
<1> SUFFICES ASSUME Init PROVE Inv
  OBVIOUS
<1>1. pipe1 = << >> /\ s3 = << >> /\ s5 = << >> /\ fpc = 1 /\ apc = 1
  BY DEF Init
<1>2. TypeInv
  <2>1. prog \in [1 .. N -> AllKinds]
    BY Stage2Assumption DEF Init
  <2>2. pipe1 \in Seq(PSet) /\ Len(pipe1) <= 1 /\ s3 \in Seq(QSet) /\ s5 \in Seq(QSet)
    BY <1>1
  <2> QED
    BY <2>1, <2>2 DEF TypeInv, Init, Epoch
<1>3. Len(s5) = 0 /\ Len(s3) = 0 /\ Len(pipe1) = 0
  BY <1>1
<1>4. /\ Len(s5) \in Nat /\ Len(s3) \in Nat /\ Len(pipe1) \in Nat
      /\ \A i \in 1 .. Len(s5) : s5[i].w # wEpoch
      /\ \A i \in 1 .. Len(s3) : s3[i].w # wEpoch
      /\ \A i \in 1 .. Len(pipe1) : pipe1[i].w # wEpoch
  BY <1>3
<1>5. /\ Paths(prog, s5, s3, pipe1, eEpoch, wEpoch, fpc, fpc)
      /\ Fresh(s5, s3, eEpoch, wEpoch, csr)
      /\ Held(s5, s3, eEpoch, wEpoch, rg_stall \/ rg_microtrap)
  BY <1>4, AllStale, Zenon
<1>6. Sounds(prog, s5, s3, pipe1)
  BY <1>3 DEF Sounds, AllSound
<1>7. apc = fpc
  BY <1>1
<1> QED
  BY <1>2, <1>5, <1>6, <1>7, Zenon DEF Inv

LEMMA FetchStep ==
    ASSUME Inv, Fetch
    PROVE  Inv'
<1>1. PICK next \in IF Kind(fpc) = "BRANCH" THEN {fpc + 1, fpc + 2} ELSE {fpc + 1} :
         /\ pipe1' = <<[pc |-> fpc, e |-> eEpoch, w |-> wEpoch, next |-> next]>>
         /\ fpc' = next
  BY DEF Fetch
<1>2. /\ pipe1 = << >>
      /\ UNCHANGED <<prog, epochs, regs, s3, s5, csr, apc>>
  BY DEF Fetch
<1>3. TypeInv
  BY DEF Inv
<1>4. next \in Nat
  BY <1>3 DEF TypeInv
<1>5. PICK k : k = [pc |-> fpc, e |-> eEpoch, w |-> wEpoch, next |-> next]
  OBVIOUS
<1>6. k \in PSet /\ k.pc = fpc /\ k.e = eEpoch /\ k.w = wEpoch /\ k.next = next
  BY <1>3, <1>4, <1>5 DEF TypeInv, PSet
<1>7. pipe1' \in Seq(PSet) /\ Len(pipe1') = 1 /\ pipe1'[1] = k
  BY <1>1, <1>5, <1>6
<1>8. TypeInv'
  BY <1>1, <1>2, <1>3, <1>4, <1>7 DEF TypeInv, epochs
<1>9. Paths(prog, s5, s3, pipe1, eEpoch, wEpoch, apc, fpc)'
  <2>1. Len(pipe1) = 0
    BY <1>2
  <2>2. Paths(prog, s5, s3, pipe1, eEpoch, wEpoch, apc, fpc)
    BY DEF Inv
  <2>3. Paths(prog, s5, s3, pipe1', eEpoch, wEpoch, apc, next)
    BY <1>6, <1>7, <2>1, <2>2, PathsFetch
  <2> QED
    BY <1>1, <1>2, <2>3 DEF epochs
<1>10. Sounds(prog, s5, s3, pipe1)'
  <2>1. Sound(prog, k)
    BY <1>1, <1>3, <1>6, ProgramIn DEF Sound, TypeInv
  <2>2. Sounds(prog, s5, s3, pipe1)
    BY DEF Inv
  <2>3. Sounds(prog, s5, s3, pipe1')
    BY <1>7, <2>1, <2>2 DEF Sounds
  <2> QED
    BY <1>2, <2>3
<1>11. (Fresh(s5, s3, eEpoch, wEpoch, csr)
        /\ Held(s5, s3, eEpoch, wEpoch, rg_stall \/ rg_microtrap))'
  BY <1>2 DEF Inv, epochs, regs
<1> QED
  BY <1>8, <1>9, <1>10, <1>11 DEF Inv

LEMMA DecodeStep ==
    ASSUME Inv, decode_and_opfetch
    PROVE  Inv'
<1>1. /\ CanDecode
      /\ rg_stall' = DecodeWrites(FALSE)[1] /\ rg_microtrap' = DecodeWrites(FALSE)[3]
      /\ s3' = s3 \o DecodeWrites(FALSE)[4]
      /\ pipe1' = << >>
      /\ UNCHANGED <<prog, fpc, epochs, s5, csr, apc>>
  BY DEF decode_and_opfetch
<1>2. TypeInv /\ Paths(prog, s5, s3, pipe1, eEpoch, wEpoch, apc, fpc)
      /\ Sounds(prog, s5, s3, pipe1) /\ Fresh(s5, s3, eEpoch, wEpoch, csr)
      /\ Held(s5, s3, eEpoch, wEpoch, rg_stall \/ rg_microtrap)
  BY DEF Inv
<1>3. Len(pipe1) = 1 /\ pipe1[1] \in PSet /\ Len(s5) \in Nat
  BY <1>1, <1>2, FirstOfPipe, LengthsNat DEF CanDecode
<1>4. pipe1' \in Seq(PSet) /\ Len(pipe1') = 0 /\ Len(pipe1') <= 1
  BY <1>1
<1>5. Live <=> Lives(pipe1[1], eEpoch, wEpoch)
  BY DEF Live, Lives
<1>6. CASE ~Live
  <2>1. s3' = s3 /\ rg_stall' = rg_stall /\ rg_microtrap' = rg_microtrap
    <3>1. /\ DecodeWrites(FALSE)[1] = rg_stall /\ DecodeWrites(FALSE)[3] = rg_microtrap
          /\ DecodeWrites(FALSE)[4] = << >>
      BY <1>6, DecodeDeadEffect
    <3>2. s3 \o << >> = s3
      BY <1>2, ConcatEmptySeq DEF TypeInv
    <3> QED
      BY <1>1, <3>1, <3>2, Zenon
  <2>2. TypeInv'
    BY <1>1, <1>2, <1>4, <2>1 DEF TypeInv, epochs
  <2>3. Paths(prog, s5, s3, pipe1', eEpoch, wEpoch, apc, fpc)
    BY <1>2, <1>3, <1>4, <1>5, <1>6, PathsDecodeDead
  <2>4. Sounds(prog, s5, s3, pipe1')
    BY <1>2, <1>4 DEF Sounds
  <2>5. Held(s5, s3, eEpoch, wEpoch, rg_stall \/ rg_microtrap)'
    <3>1. s5' = s5 /\ eEpoch' = eEpoch /\ wEpoch' = wEpoch
      BY <1>1 DEF epochs
    <3> QED
      BY <1>2, <2>1, <3>1, Zenon
  <2>6. Fresh(s5, s3, eEpoch, wEpoch, csr)'
    BY <1>1, <1>2, <2>1 DEF epochs
  <2>7. (Paths(prog, s5, s3, pipe1, eEpoch, wEpoch, apc, fpc) /\ Sounds(prog, s5, s3, pipe1))'
    BY <1>1, <2>1, <2>3, <2>4 DEF epochs
  <2> QED
    BY <2>2, <2>5, <2>6, <2>7 DEF Inv
<1>7. CASE Live
  <2>1. PICK k \in QSet :
             /\ DecodeWrites(FALSE)[4] = <<k>>
             /\ k.pc = pipe1[1].pc /\ k.e = eEpoch /\ k.w = wEpoch
             /\ k.next = pipe1[1].next /\ k.csr = csr
             /\ SoundType(prog, k)
             /\ rg_stall \/ rg_microtrap => k.type = "RERUN"
             /\ k.type = "RERUN" => DecodeWrites(FALSE)[1]
             /\ k.type = "CSR" => DecodeWrites(FALSE)[3]
    BY <1>1, <1>2, <1>7, DecodeEffect, Zenon
  <2>2. s3' \in Seq(QSet) /\ IsAppend(s3', s3, k)
    <3>1. s3 \in Seq(QSet)
      BY <1>2 DEF TypeInv
    <3>2. /\ Append(s3, k) \in Seq(QSet) /\ IsAppend(Append(s3, k), s3, k)
          /\ s3 \o <<k>> = Append(s3, k)
      BY <3>1, QueueAppend
    <3>3. s3' = Append(s3, k)
      BY <1>1, <2>1, <3>2, Zenon
    <3> QED
      BY <3>2, <3>3, Zenon
  <2>3. TypeInv'
    BY <1>1, <1>2, <1>4, <2>2 DEF TypeInv, epochs
  <2>4. Paths(prog, s5, s3', pipe1', eEpoch, wEpoch, apc, fpc)
    BY <1>2, <1>3, <1>4, <1>5, <1>7, <2>1, <2>2, PathsDecode
  <2>5. Sounds(prog, s5, s3', pipe1')
    <3>1. Sound(prog, k)
      BY <1>2, <1>3, <2>1 DEF Sounds, Sound
    <3>2. AllSound(prog, s3')
      BY <1>2, <2>1, <2>2, <3>1, SoundAppend DEF Sounds
    <3> QED
      BY <1>2, <1>4, <3>2 DEF Sounds
  <2>6. Fresh(s5, s3', eEpoch, wEpoch, csr)
    BY <1>2, <2>1, <2>2, FreshDecode
  <2>7. Held(s5, s3', eEpoch, wEpoch, rg_stall' \/ rg_microtrap')
    <3>1. rg_stall \/ rg_microtrap => rg_stall' \/ rg_microtrap'
      BY <1>1, <2>1, Zenon
    <3>2. k.type = "CSR" => rg_stall' \/ rg_microtrap'
      BY <1>1, <2>1, Zenon
    <3> QED
      BY <1>2, <2>2, <3>1, <3>2, HeldDecode
  <2> QED
    BY <1>1, <2>3, <2>4, <2>5, <2>6, <2>7 DEF Inv, epochs
<1> QED
  BY <1>6, <1>7

LEMMA DropStep ==
    ASSUME Inv, rl_drop_instr
    PROVE  Inv'
<1>1. /\ s3 # << >> /\ ~Lives(s3[1], eEpoch, wEpoch) /\ s3' = Tail(s3)
      /\ UNCHANGED <<prog, fpc, pipe1, epochs, regs, s5, csr, apc>>
  BY DEF rl_drop_instr, epochs_match, Lives
<1>2. TypeInv /\ Paths(prog, s5, s3, pipe1, eEpoch, wEpoch, apc, fpc)
      /\ Sounds(prog, s5, s3, pipe1) /\ Fresh(s5, s3, eEpoch, wEpoch, csr)
      /\ Held(s5, s3, eEpoch, wEpoch, rg_stall \/ rg_microtrap)
  BY DEF Inv
<1>3. s3' \in Seq(QSet) /\ IsTail(s3', s3)
  BY <1>1, <1>2, QueueTail DEF TypeInv
<1>4. TypeInv'
  BY <1>1, <1>2, <1>3 DEF TypeInv, epochs
<1>5. Paths(prog, s5, s3', pipe1, eEpoch, wEpoch, apc, fpc)
  BY <1>1, <1>2, <1>3, PathsDrop
<1>6. Sounds(prog, s5, s3', pipe1)
  BY <1>2, <1>3, SoundTail DEF Sounds
<1>7. Fresh(s5, s3', eEpoch, wEpoch, csr)
      /\ Held(s5, s3', eEpoch, wEpoch, rg_stall \/ rg_microtrap)
  BY <1>2, <1>3, FreshDrop
<1> QED
  BY <1>1, <1>4, <1>5, <1>6, <1>7 DEF Inv, epochs, regs

LEMMA IssueStep ==
    ASSUME Inv, Issue
    PROVE  Inv'
<1>1. /\ s3 # << >> /\ Lives(s3[1], eEpoch, wEpoch)
      /\ SuccOf(prog, s3[1]) = s3[1].next
      /\ s3' = Tail(s3) /\ s5' = Append(s5, s3[1])
      /\ UNCHANGED <<prog, fpc, pipe1, epochs, regs, csr, apc>>
  BY ProgramIn DEF Issue, CanIssue, epochs_match, Lives, Guessed, SuccOf
<1>2. TypeInv /\ Paths(prog, s5, s3, pipe1, eEpoch, wEpoch, apc, fpc)
      /\ Sounds(prog, s5, s3, pipe1) /\ Fresh(s5, s3, eEpoch, wEpoch, csr)
      /\ Held(s5, s3, eEpoch, wEpoch, rg_stall \/ rg_microtrap)
  BY DEF Inv
<1>3. s3' \in Seq(QSet) /\ IsTail(s3', s3) /\ s3[1] \in QSet
  BY <1>1, <1>2, QueueTail DEF TypeInv
<1>4. s5' \in Seq(QSet) /\ IsAppend(s5', s5, s3[1])
  BY <1>1, <1>2, <1>3, QueueAppend DEF TypeInv
<1>5. TypeInv'
  BY <1>1, <1>2, <1>3, <1>4 DEF TypeInv, epochs
<1>6. Paths(prog, s5', s3', pipe1, eEpoch, wEpoch, apc, fpc)
  BY <1>1, <1>2, <1>3, <1>4, PathsIssue
<1>7. Sounds(prog, s5', s3', pipe1)
  <2>1. AllSound(prog, s3') /\ Sound(prog, s3[1]) /\ SoundType(prog, s3[1])
    BY <1>2, <1>3, SoundTail DEF Sounds
  <2>2. AllSound(prog, s5')
    BY <1>2, <1>4, <2>1, SoundAppend DEF Sounds
  <2> QED
    BY <1>2, <2>1, <2>2 DEF Sounds
<1>8. Fresh(s5', s3', eEpoch, wEpoch, csr)
      /\ Held(s5', s3', eEpoch, wEpoch, rg_stall \/ rg_microtrap)
  BY <1>1, <1>2, <1>3, <1>4, FreshIssue
<1> QED
  BY <1>1, <1>5, <1>6, <1>7, <1>8 DEF Inv, epochs, regs

(* What an instruction that commits without a redirect is followed by.     *)
LEMMA SuccOfCommitted ==
    ASSUME NEW g, NEW p, p.pc \in Nat, Sound(g, p), SoundType(g, p),
           p.type \notin {"RERUN", "INTERRUPT", "ILL", "FAULT"}
    PROVE  SuccOf(g, p) = AfterIn(g, p.pc)
  BY DEF SuccOf, AfterIn, Sound, SoundType

LEMMA WritebackStep ==
    ASSUME Inv, Writeback
    PROVE  Inv'
<1>1. /\ s5 # << >> /\ s5' = Tail(s5)
      /\ UNCHANGED <<prog, fpc, pipe1, epochs, regs, s3>>
  BY DEF Writeback
<1>2. TypeInv /\ Paths(prog, s5, s3, pipe1, eEpoch, wEpoch, apc, fpc)
      /\ Sounds(prog, s5, s3, pipe1) /\ Fresh(s5, s3, eEpoch, wEpoch, csr)
      /\ Held(s5, s3, eEpoch, wEpoch, rg_stall \/ rg_microtrap)
  BY DEF Inv
<1>3. s5' \in Seq(QSet) /\ IsTail(s5', s5) /\ s5[1] \in QSet
  BY <1>1, <1>2, QueueTail DEF TypeInv
<1>4. AllSound(prog, s5') /\ Sound(prog, s5[1]) /\ SoundType(prog, s5[1])
  BY <1>2, <1>3, SoundTail DEF Sounds
<1>5. s5[1].pc \in Nat
  BY <1>3 DEF QSet
<1>6. /\ apc' = (IF s5[1].w = wEpoch THEN SuccOf(prog, s5[1]) ELSE apc) /\ apc' \in Nat
      /\ (s5[1].w = wEpoch /\ s5[1].type = "CSR") \/ csr' = csr
      /\ csr' \in Nat
  <2>1. CASE s5[1].w = wEpoch
    <3>1. Commits /\ ~Redirects
      BY <1>1, <1>2, <2>1 DEF Writeback, Commits, TypeInv
    <3>2. apc' = AfterIn(prog, s5[1].pc)
      BY <3>1, ProgramIn DEF Writeback
    <3>3. csr' = IF s5[1].type = "CSR" THEN csr + 1 ELSE csr
      BY <3>1 DEF Writeback
    <3>4. SuccOf(prog, s5[1]) = AfterIn(prog, s5[1].pc)
      BY <1>4, <1>5, <3>1, SuccOfCommitted DEF Redirects
    <3>5. apc' \in Nat
      BY <1>2, <1>5, <3>2, KindInType
    <3>6. csr \in Nat
      BY <1>2 DEF TypeInv
    <3> QED
      BY <2>1, <3>2, <3>3, <3>4, <3>5, <3>6
  <2>2. CASE s5[1].w # wEpoch
    <3>1. ~Commits
      BY <1>2, <2>2 DEF Commits, TypeInv
    <3> QED
      BY <1>2, <2>2, <3>1 DEF Writeback, TypeInv
  <2> QED
    BY <2>1, <2>2
<1>7. TypeInv'
  BY <1>1, <1>2, <1>3, <1>6 DEF TypeInv, epochs
<1>8. Paths(prog, s5', s3, pipe1, eEpoch, wEpoch, apc', fpc)
  BY <1>2, <1>3, <1>6, PathsWriteback
<1>9. Sounds(prog, s5', s3, pipe1)
  BY <1>2, <1>4 DEF Sounds
<1>10. Fresh(s5', s3, eEpoch, wEpoch, csr')
       /\ Held(s5', s3, eEpoch, wEpoch, rg_stall \/ rg_microtrap)
  BY <1>2, <1>3, <1>6, FreshWriteback
<1> QED
  BY <1>1, <1>7, <1>8, <1>9, <1>10 DEF Inv, epochs, regs

(***************************************************************************)
(* A clock with a redirect.                                                *)
(***************************************************************************)
(* What stage2 leaves in front of stage3 and of itself in such a clock: at *)
(* most one packet more, made of its own and of the epochs of the clock.   *)
Behind(F, Q, P, k) ==
    \/ F = Q
    \/ IsAppend(F, Q, k) /\ Len(P) = 1 /\ k.e = P[1].e /\ k.w = P[1].w
       /\ Sound(prog, k) /\ SoundType(prog, k)

LEMMA FlushDecodes ==
    ASSUME Inv, NEW x \in BOOLEAN, NEW w \in BOOLEAN, NEW d \in BOOLEAN, Flush(x, w, d),
           NEW F \in Seq(QSet), F = (IF x THEN Tail(s3) ELSE s3)
    PROVE  /\ s3' \in Seq(QSet) /\ \E k \in QSet : Behind(s3', F, pipe1, k)
           /\ pipe1' \in Seq(PSet) /\ Len(pipe1') <= 1
           /\ pipe1' = << >> \/ pipe1' = pipe1
<1>1. TypeInv /\ Sounds(prog, s5, s3, pipe1)
  BY DEF Inv
<1>2. pipe1' = IF d THEN << >> ELSE pipe1
  BY DEF Flush
<1>3. pipe1' \in Seq(PSet) /\ Len(pipe1') <= 1 /\ (pipe1' = << >> \/ pipe1' = pipe1)
  BY <1>1, <1>2 DEF TypeInv
<1>4. F \o << >> = F
  BY ConcatEmptySeq
<1>5. \E k : k \in QSet
  <2>1. [pc |-> 0, e |-> 0, w |-> 0, next |-> 0, type |-> "ALU", csr |-> 0] \in QSet
    BY DEF QSet, Epoch, AllKinds
  <2> QED
    BY <2>1
<1>6. CASE ~d
  <2>1. s3' = F \o << >>
    BY <1>6 DEF Flush
  <2> QED
    BY <1>3, <1>4, <1>5, <2>1 DEF Behind
<1>7. CASE d
  <2>1. CanDecode /\ s3' = F \o DecodeWrites(TRUE)[4]
    BY <1>7 DEF Flush
  <2>2. CASE ~Live
    <3>1. DecodeWrites(TRUE)[4] = << >>
      BY <2>2, DecodeDeadEffect
    <3> QED
      BY <1>3, <1>4, <1>5, <2>1, <3>1 DEF Behind
  <2>3. CASE Live
    <3>1. PICK k \in QSet :
               /\ DecodeWrites(TRUE)[4] = <<k>>
               /\ k.pc = pipe1[1].pc /\ k.e = eEpoch /\ k.w = wEpoch
               /\ k.next = pipe1[1].next
               /\ SoundType(prog, k)
      BY <1>1, <2>1, <2>3, DecodeEffect, Zenon
    <3>2. s3' \in Seq(QSet) /\ IsAppend(s3', F, k)
      <4>1. /\ Append(F, k) \in Seq(QSet) /\ IsAppend(Append(F, k), F, k)
            /\ F \o <<k>> = Append(F, k)
        BY QueueAppend
      <4>2. s3' = Append(F, k)
        BY <2>1, <3>1, <4>1, Zenon
      <4> QED
        BY <4>1, <4>2, Zenon
    <3>3. Len(pipe1) = 1
      BY <1>1, <2>1, FirstOfPipe DEF CanDecode
    <3>4. Sound(prog, k)
      BY <1>1, <3>1, <3>3 DEF Sounds, Sound
    <3>5. k.e = pipe1[1].e /\ k.w = pipe1[1].w
      BY <2>3, <3>1 DEF Live
    <3>6. Behind(s3', F, pipe1, k)
      BY <3>1, <3>2, <3>3, <3>4, <3>5 DEF Behind
    <3> QED
      BY <1>3, <3>2, <3>6
  <2> QED
    BY <2>2, <2>3
<1> QED
  BY <1>6, <1>7

(* What holds of every packet behind the redirect holds of those after it. *)
LEMMA BehindSound ==
    ASSUME NEW F, NEW Q, NEW P, NEW k, Behind(F, Q, P, k), AllSound(prog, Q)
    PROVE  AllSound(prog, F)
  BY SoundAppend DEF Behind

LEMMA BehindPackets ==
    ASSUME NEW F, NEW Q, NEW P, NEW k, Behind(F, Q, P, k)
    PROVE  \A i \in 1 .. Len(F) :
             \/ \E j \in 1 .. Len(Q) : F[i] = Q[j]
             \/ \E j \in 1 .. Len(P) : F[i].e = P[j].e /\ F[i].w = P[j].w
<1>1. CASE F = Q
  BY <1>1
<1>2. CASE IsAppend(F, Q, k) /\ Len(P) = 1 /\ k.e = P[1].e /\ k.w = P[1].w
  <2>1. \A i \in 1 .. Len(F) : (i \in 1 .. Len(Q) /\ F[i] = Q[i]) \/ F[i] = k
    BY <1>2 DEF IsAppend
  <2>2. 1 \in 1 .. Len(P)
    BY <1>2
  <2> QED
    BY <1>2, <2>1, <2>2
<1> QED
  BY <1>1, <1>2 DEF Behind

(* Stage3 redirects alone.                                                 *)
LEMMA MispredictStep ==
    ASSUME Inv, NEW d \in BOOLEAN, Flush(TRUE, FALSE, d)
    PROVE  Inv'
<1>1. /\ s3 # << >> /\ Lives(s3[1], eEpoch, wEpoch) /\ s3[1].type = "BRANCH"
  BY DEF Flush, CanIssue, epochs_match, Guessed, Lives
<1>2. /\ s5' = s5 \o <<s3[1]>> /\ fpc' = AfterIn(prog, s3[1].pc)
      /\ eEpoch' = 1 - eEpoch /\ wEpoch' = wEpoch /\ rg_epoch' = rg_epoch
      /\ csr' = csr /\ apc' = apc /\ prog' = prog
  BY ProgramIn DEF Flush
<1>3. TypeInv /\ Paths(prog, s5, s3, pipe1, eEpoch, wEpoch, apc, fpc)
      /\ Sounds(prog, s5, s3, pipe1) /\ Fresh(s5, s3, eEpoch, wEpoch, csr)
  BY DEF Inv
<1>4. PICK F : F = Tail(s3)
  OBVIOUS
<1>5. F \in Seq(QSet) /\ IsTail(F, s3) /\ s3[1] \in QSet
  BY <1>1, <1>3, <1>4, QueueTail DEF TypeInv
<1>6. PICK k \in QSet : Behind(s3', F, pipe1, k)
  BY <1>4, <1>5, FlushDecodes
<1>7. /\ s3' \in Seq(QSet) /\ pipe1' \in Seq(PSet) /\ Len(pipe1') <= 1
      /\ pipe1' = << >> \/ pipe1' = pipe1
  BY <1>4, <1>5, FlushDecodes
<1>8. s5' \in Seq(QSet) /\ IsAppend(s5', s5, s3[1])
  BY <1>2, <1>3, <1>5, QueueAppend DEF TypeInv
<1>9. TypeInv'
  <2>1. s3[1].pc \in Nat
    BY <1>5 DEF QSet
  <2>2. fpc' \in Nat
    BY <1>2, <1>3, <2>1, KindInType
  <2>3. 1 - eEpoch \in Epoch
    BY <1>3 DEF TypeInv, Epoch
  <2> QED
    BY <1>2, <1>3, <1>7, <1>8, <2>2, <2>3 DEF TypeInv
<1>10. Len(s3) \in Nat \ {0} /\ Len(F) \in Nat /\ Len(s3') \in Nat /\ Len(pipe1') \in Nat
  BY <1>5, <1>7, LenProperties DEF IsTail
<1>11. Path5(prog, s5, wEpoch, apc) /\ Ordered(s5, s3, pipe1, eEpoch, wEpoch)
       /\ Path3(s3, eEpoch, wEpoch, Expect3(prog, s5, wEpoch, apc))
  BY <1>3 DEF Paths
<1>12. s3[1].pc = Expect3(prog, s5, wEpoch, apc) /\ s3[1].w = wEpoch
  BY <1>1, <1>10, <1>11 DEF Path3, Lives
<1>13. \A i \in 1 .. Len(s3) : Lives(s3[i], eEpoch, wEpoch)
  BY <1>1, <1>10, <1>11 DEF Path3
<1>14. \A i \in 1 .. Len(pipe1) : Lives(pipe1[i], eEpoch, wEpoch)
  BY <1>1, <1>10, <1>11 DEF Ordered
<1>15. \A i \in 1 .. Len(F) : Lives(F[i], eEpoch, wEpoch)
  BY <1>5, <1>13 DEF IsTail
<1>16. \A i \in 1 .. Len(s3') : Lives(s3'[i], eEpoch, wEpoch)
  <2>1. \A i \in 1 .. Len(s3') :
           \/ \E j \in 1 .. Len(F) : s3'[i] = F[j]
           \/ \E j \in 1 .. Len(pipe1) : s3'[i].e = pipe1[j].e /\ s3'[i].w = pipe1[j].w
    BY <1>6, BehindPackets
  <2> QED
    BY <1>14, <1>15, <2>1 DEF Lives
<1>17. \A i \in 1 .. Len(pipe1') : Lives(pipe1'[i], eEpoch, wEpoch)
  BY <1>7, <1>14
<1>18. eEpoch # 1 - eEpoch
  BY <1>3 DEF TypeInv, Epoch
<1>19. SuccOf(prog, s3[1]) = AfterIn(prog, s3[1].pc)
  BY <1>1 DEF SuccOf
<1>20. Paths(prog, s5', s3', pipe1', 1 - eEpoch, wEpoch, apc, fpc')
  <2>1. /\ \A i \in 1 .. Len(s3') : s3'[i].w = wEpoch /\ s3'[i].e # 1 - eEpoch
        /\ \A i \in 1 .. Len(pipe1') : pipe1'[i].w = wEpoch /\ pipe1'[i].e # 1 - eEpoch
    BY <1>16, <1>17, <1>18 DEF Lives
  <2> QED
    BY <1>2, <1>8, <1>10, <1>11, <1>12, <1>19, <2>1, PathsMispredict
<1>21. \A i \in 1 .. Len(s3') : ~Lives(s3'[i], 1 - eEpoch, wEpoch)
  BY <1>16, <1>18 DEF Lives
<1>22. Fresh(s5', s3', 1 - eEpoch, wEpoch, csr)
       /\ Held(s5', s3', 1 - eEpoch, wEpoch, rg_stall' \/ rg_microtrap')
  BY <1>1, <1>3, <1>8, <1>10, <1>21, FreshMispredict
<1>23. Sounds(prog, s5', s3', pipe1')
  <2>1. AllSound(prog, F) /\ Sound(prog, s3[1]) /\ SoundType(prog, s3[1])
    BY <1>3, <1>5, SoundTail DEF Sounds
  <2>2. AllSound(prog, s5')
    BY <1>3, <1>8, <2>1, SoundAppend DEF Sounds
  <2>3. AllSound(prog, s3')
    BY <1>6, <2>1, BehindSound
  <2>4. \A i \in 1 .. Len(pipe1') : Sound(prog, pipe1'[i])
    BY <1>3, <1>7 DEF Sounds
  <2> QED
    BY <2>2, <2>3, <2>4 DEF Sounds
<1> QED
  BY <1>2, <1>9, <1>20, <1>22, <1>23, Zenon DEF Inv

(* Stage5 redirects, alone or together with stage3: every packet is stale. *)
LEMMA TrapStep ==
    ASSUME Inv, NEW x \in BOOLEAN, NEW d \in BOOLEAN, Flush(x, TRUE, d)
    PROVE  Inv'
<1>1. /\ s5 # << >> /\ s5[1].w = wEpoch
      /\ x => s3 # << >>
  BY DEF Flush, Commits, CanIssue, Inv, TypeInv
<1>2. /\ s5' = Tail(s5) \o (IF x THEN <<s3[1]>> ELSE << >>)
      /\ eEpoch' \in {eEpoch, 1 - eEpoch} /\ wEpoch' = 1 - wEpoch
      /\ rg_epoch' = 1 - rg_epoch /\ prog' = prog
      /\ csr' \in {csr, csr + 1}
  BY DEF Flush
<1>3. TypeInv /\ Paths(prog, s5, s3, pipe1, eEpoch, wEpoch, apc, fpc)
      /\ Sounds(prog, s5, s3, pipe1)
  BY DEF Inv
<1>4. PICK F : F = IF x THEN Tail(s3) ELSE s3
  OBVIOUS
<1>5. F \in Seq(QSet) /\ \A i \in 1 .. Len(F) : \E j \in 1 .. Len(s3) : F[i] = s3[j]
  <2>1. CASE x
    <3>1. F \in Seq(QSet) /\ IsTail(F, s3)
      BY <1>1, <1>3, <1>4, <2>1, QueueTail DEF TypeInv
    <3>2. ASSUME NEW i \in 1 .. Len(F) PROVE \E j \in 1 .. Len(s3) : F[i] = s3[j]
      <4>1. i + 1 \in 1 .. Len(s3) /\ F[i] = s3[i + 1]
        BY <3>1 DEF IsTail
      <4> QED
        BY <4>1
    <3> QED
      BY <3>1, <3>2
  <2>2. CASE ~x
    BY <1>3, <1>4, <2>2 DEF TypeInv
  <2> QED
    BY <2>1, <2>2
<1>6. PICK k \in QSet : Behind(s3', F, pipe1, k)
  BY <1>4, <1>5, FlushDecodes
<1>7. /\ s3' \in Seq(QSet) /\ pipe1' \in Seq(PSet) /\ Len(pipe1') <= 1
      /\ pipe1' = << >> \/ pipe1' = pipe1
  BY <1>4, <1>5, FlushDecodes
<1>8. PICK T : T = Tail(s5)
  OBVIOUS
<1>9. T \in Seq(QSet) /\ IsTail(T, s5) /\ s5[1] \in QSet
  BY <1>1, <1>3, <1>8, QueueTail DEF TypeInv
<1>10. /\ s5' \in Seq(QSet)
       /\ s5' = T \/ (x /\ IsAppend(s5', T, s3[1]))
  <2>1. CASE x
    <3>1. s3[1] \in QSet
      BY <1>1, <1>3, <2>1, QueueTail DEF TypeInv
    <3>2. s5' = T \o <<s3[1]>>
      BY <1>2, <1>8, <2>1
    <3> QED
      BY <1>9, <2>1, <3>1, <3>2, QueueAppend
  <2>2. CASE ~x
    <3>1. s5' = T \o << >>
      BY <1>2, <1>8, <2>2
    <3> QED
      BY <1>9, <3>1, ConcatEmptySeq
  <2> QED
    BY <2>1, <2>2
<1>11. fpc' = apc' /\ apc' \in Nat
  <2>1. fpc' = newpc(s5[1]) /\ Redirects
    BY DEF Flush
  <2>2. s5[1].pc = apc /\ s5[1].pc \in Nat
    <3>1. Path5(prog, s5, wEpoch, apc) /\ Len(s5) # 0
      BY <1>3, <1>9 DEF Paths, IsTail
    <3>2. s5[1].pc \in Nat
      BY <1>9 DEF QSet
    <3> QED
      BY <1>1, <3>1, <3>2 DEF Path5
  <2>3. CASE s5[1].type \in {"ILL", "FAULT"}
    <3>1. apc' = s5[1].pc + 1
      BY <2>3 DEF Flush
    <3> QED
      BY <2>1, <2>2, <2>3, <3>1 DEF newpc
  <2>4. CASE s5[1].type \notin {"ILL", "FAULT"}
    <3>1. apc' = apc
      BY <2>4 DEF Flush
    <3> QED
      BY <2>1, <2>2, <2>4, <3>1 DEF newpc, Redirects
  <2> QED
    BY <2>3, <2>4
<1>12. TypeInv'
  <2>1. 1 - eEpoch \in Epoch /\ 1 - wEpoch \in Epoch /\ csr + 1 \in Nat
    BY <1>3 DEF TypeInv, Epoch
  <2>2. eEpoch' \in Epoch /\ wEpoch' \in Epoch /\ rg_epoch' = wEpoch' /\ csr' \in Nat
    BY <1>2, <1>3, <2>1 DEF TypeInv
  <2> QED
    BY <1>2, <1>3, <1>7, <1>10, <1>11, <2>2 DEF TypeInv
<1>13. Len(F) \in Nat /\ Len(T) \in Nat /\ Len(s5') \in Nat /\ Len(s3') \in Nat
       /\ Len(pipe1') \in Nat
  BY <1>5, <1>7, <1>9, <1>10, LenProperties
<1>14. Path5(prog, s5, wEpoch, apc) /\ Ordered(s5, s3, pipe1, eEpoch, wEpoch)
  BY <1>3 DEF Paths
<1>15. 1 \in 1 .. Len(s5)
  BY <1>9 DEF IsTail
<1>16. \A i \in 1 .. Len(s5) : s5[i].w = wEpoch
  BY <1>1, <1>14, <1>15 DEF Path5
<1>17. /\ \A i \in 1 .. Len(s3) : s3[i].w = wEpoch
       /\ \A i \in 1 .. Len(pipe1) : pipe1[i].w = wEpoch
  BY <1>1, <1>14, <1>15 DEF Ordered
<1>18. \A i \in 1 .. Len(F) : F[i].w = wEpoch
  BY <1>5, <1>17
<1>19. \A i \in 1 .. Len(s3') : s3'[i].w = wEpoch
  <2>1. \A i \in 1 .. Len(s3') :
           \/ \E j \in 1 .. Len(F) : s3'[i] = F[j]
           \/ \E j \in 1 .. Len(pipe1) : s3'[i].e = pipe1[j].e /\ s3'[i].w = pipe1[j].w
    BY <1>6, BehindPackets
  <2> QED
    BY <1>17, <1>18, <2>1
<1>20. \A i \in 1 .. Len(pipe1') : pipe1'[i].w = wEpoch
  BY <1>7, <1>17
<1>21. \A i \in 1 .. Len(s5') : s5'[i].w = wEpoch
  <2>1. \A i \in 1 .. Len(T) : T[i].w = wEpoch
    BY <1>9, <1>16 DEF IsTail
  <2>2. CASE s5' = T
    BY <2>1, <2>2
  <2>3. CASE x /\ IsAppend(s5', T, s3[1])
    <3>1. Len(s3) \in Nat \ {0}
      BY <1>1, <1>3, <2>3, TailFacts DEF TypeInv
    <3>2. s3[1].w = wEpoch
      BY <1>17, <3>1
    <3> QED
      BY <2>1, <2>3, <3>2 DEF IsAppend
  <2> QED
    BY <1>10, <2>2, <2>3
<1>22. wEpoch # wEpoch'
  BY <1>2, <1>3 DEF TypeInv, Epoch
<1>23. /\ Paths(prog, s5', s3', pipe1', eEpoch', wEpoch', apc', apc')
       /\ Fresh(s5', s3', eEpoch', wEpoch', csr')
       /\ Held(s5', s3', eEpoch', wEpoch', rg_stall' \/ rg_microtrap')
  <2>1. /\ \A i \in 1 .. Len(s5') : s5'[i].w # wEpoch'
        /\ \A i \in 1 .. Len(s3') : s3'[i].w # wEpoch'
        /\ \A i \in 1 .. Len(pipe1') : pipe1'[i].w # wEpoch'
    BY <1>19, <1>20, <1>21, <1>22
  <2> QED
    BY <1>13, <2>1, AllStale, Zenon
<1>24. Sounds(prog, s5', s3', pipe1')
  <2>1. AllSound(prog, F)
    BY <1>3, <1>5 DEF Sounds, AllSound
  <2>2. AllSound(prog, s3')
    BY <1>6, <2>1, BehindSound
  <2>3. AllSound(prog, T)
    BY <1>3, <1>9, SoundTail DEF Sounds
  <2>4. AllSound(prog, s5')
    <3>1. CASE s5' = T
      BY <2>3, <3>1
    <3>2. CASE x /\ IsAppend(s5', T, s3[1])
      <4>1. 1 \in 1 .. Len(s3)
        <5>1. Len(s3) \in Nat \ {0}
          BY <1>1, <1>3, <3>2, TailFacts DEF TypeInv
        <5> QED
          BY <5>1
      <4>2. Sound(prog, s3[1]) /\ SoundType(prog, s3[1])
        BY <1>3, <4>1 DEF Sounds, AllSound
      <4> QED
        BY <2>3, <3>2, <4>2, SoundAppend
    <3> QED
      BY <1>10, <3>1, <3>2
  <2>5. \A i \in 1 .. Len(pipe1') : Sound(prog, pipe1'[i])
    BY <1>3, <1>7 DEF Sounds
  <2> QED
    BY <2>2, <2>4, <2>5 DEF Sounds
<1> QED
  BY <1>2, <1>11, <1>12, <1>23, <1>24, Zenon DEF Inv

(***************************************************************************)
(* The theorems.                                                           *)
(***************************************************************************)
LEMMA InvNext == Inv /\ [Next]_vars => Inv'
<1> SUFFICES ASSUME Inv, [Next]_vars PROVE Inv'
  OBVIOUS
<1>1. CASE Fetch
  BY <1>1, FetchStep
<1>2. CASE decode_and_opfetch
  BY <1>2, DecodeStep
<1>3. CASE rl_wait_for_interrupt
  <2>1. UNCHANGED <<prog, fpc, pipe1, epochs, rg_stall, rg_microtrap, s3, s5, csr, apc>>
    BY <1>3 DEF rl_wait_for_interrupt
  <2> QED
    BY <2>1 DEF Inv, TypeInv, epochs
<1>4. CASE rl_drop_instr
  BY <1>4, DropStep
<1>5. CASE Issue
  BY <1>5, IssueStep
<1>6. CASE Writeback
  BY <1>6, WritebackStep
<1>7. CASE exe_flush
  BY <1>7, MispredictStep DEF exe_flush
<1>8. CASE wb_flush
  BY <1>8, TrapStep DEF wb_flush
<1>9. CASE Interrupt
  BY <1>9 DEF Interrupt, Inv, TypeInv, epochs, regs
<1>10. CASE UNCHANGED vars
  BY <1>10 DEF vars, Inv, TypeInv, epochs, regs
<1> QED
  BY <1>1, <1>2, <1>3, <1>4, <1>5, <1>6, <1>7, <1>8, <1>9, <1>10 DEF Next

LEMMA InvHolds == Spec => []Inv
  BY InvInit, InvNext, PTL DEF Spec

(* For every program, every depth of the buffers and every order of the    *)
(* rules, what stage5 commits, reruns or traps on is the next instruction  *)
(* of the program (stage5.bsv's epoch check over the redirects of stage3   *)
(* and stage5): none is lost and none retires twice.                       *)
THEOREM RetiresInOrder == Spec => []RetiresProgram
<1>1. Inv => RetiresProgram
  <2> SUFFICES ASSUME Inv, Commits PROVE s5[1].pc = apc
    BY DEF RetiresProgram
  <2>1. s5 # << >> /\ s5[1].w = wEpoch /\ s5 \in Seq(QSet)
    BY DEF Commits, Inv, TypeInv
  <2>2. Len(s5) # 0
    BY <2>1, EmptySeq
  <2> QED
    BY <2>1, <2>2 DEF Inv, Paths, Path5
<1> QED
  BY <1>1, InvHolds, PTL

(* What commits was decoded under the control state it commits in: behind  *)
(* an instruction that changes it rg_microtrap lets only a rerun through.  *)
THEOREM DecodesFresh == Spec => []DecodedFresh
<1>1. Inv => DecodedFresh
  <2> SUFFICES ASSUME Inv, Commits, s5[1].type # "RERUN" PROVE s5[1].csr = csr
    BY DEF DecodedFresh
  <2>1. s5 # << >> /\ s5[1].w = wEpoch /\ s5 \in Seq(QSet)
    BY DEF Commits, Inv, TypeInv
  <2>2. 1 \in 1 .. Len(s5)
    <3>1. Len(s5) \in Nat \ {0}
      BY <2>1, TailFacts
    <3> QED
      BY <3>1
  <2> QED
    BY <2>1, <2>2 DEF Inv, Fresh, Fresh5
<1> QED
  BY <1>1, InvHolds, PTL

(***************************************************************************)
(* Interrupts.  The decoder's order of the causes, its enabling conditions *)
(* and the ISA's.                                                          *)
(***************************************************************************)
Causes == {1, 3, 5, 7, 9, 11}

FirstCause(S) == IF 11 \in S THEN 11 ELSE IF 3 \in S THEN 3 ELSE IF 7 \in S THEN 7
                 ELSE IF 9 \in S THEN 9 ELSE IF 1 \in S THEN 1 ELSE 5

IsFirst(S, n) == Priority[n] \in S /\ \A l \in 1 .. n - 1 : Priority[l] \notin S

LEMMA PriorityIs ==
    /\ Len(Priority) = 9 /\ Priority[1] = 11 /\ Priority[2] = 3 /\ Priority[3] = 7
    /\ Priority[4] = 9 /\ Priority[5] = 1 /\ Priority[6] = 5 /\ Priority[7] = 8
    /\ Priority[8] = 0 /\ Priority[9] = 4
  BY DEF Priority

(* The first entry of the priority list that is pending.                   *)
LEMMA FirstIsTaken ==
    ASSUME NEW S, S \subseteq Causes, S # {}
    PROVE  /\ \E n \in 1 .. 9 : IsFirst(S, n)
           /\ \A n \in 1 .. 9 : IsFirst(S, n) => Priority[n] = FirstCause(S)
<1>1. 8 \notin S /\ 0 \notin S /\ 4 \notin S
  BY DEF Causes
<1>2. 11 \in S \/ 3 \in S \/ 7 \in S \/ 9 \in S \/ 1 \in S \/ 5 \in S
  BY DEF Causes
<1>3. \E n \in 1 .. 9 : IsFirst(S, n)
  <2>1. CASE 11 \in S
    <3>1. IsFirst(S, 1)
      BY <2>1, PriorityIs DEF IsFirst
    <3> QED
      BY <3>1
  <2>2. CASE 11 \notin S /\ 3 \in S
    <3>1. IsFirst(S, 2)
      BY <2>2, PriorityIs DEF IsFirst
    <3> QED
      BY <3>1
  <2>3. CASE 11 \notin S /\ 3 \notin S /\ 7 \in S
    <3>1. IsFirst(S, 3)
      BY <2>3, PriorityIs DEF IsFirst
    <3> QED
      BY <3>1
  <2>4. CASE 11 \notin S /\ 3 \notin S /\ 7 \notin S /\ 9 \in S
    <3>1. IsFirst(S, 4)
      BY <2>4, PriorityIs DEF IsFirst
    <3> QED
      BY <3>1
  <2>5. CASE 11 \notin S /\ 3 \notin S /\ 7 \notin S /\ 9 \notin S /\ 1 \in S
    <3>1. IsFirst(S, 5)
      BY <2>5, PriorityIs DEF IsFirst
    <3> QED
      BY <3>1
  <2>6. CASE 11 \notin S /\ 3 \notin S /\ 7 \notin S /\ 9 \notin S /\ 1 \notin S /\ 5 \in S
    <3>1. IsFirst(S, 6)
      BY <2>6, PriorityIs DEF IsFirst
    <3> QED
      BY <3>1
  <2> QED
    BY <1>2, <2>1, <2>2, <2>3, <2>4, <2>5, <2>6
<1>4. ASSUME NEW n \in 1 .. 9, IsFirst(S, n) PROVE Priority[n] = FirstCause(S)
  <2>1. Priority[n] \in S /\ \A l \in 1 .. n - 1 : Priority[l] \notin S
    BY <1>4 DEF IsFirst
  <2> QED
    BY <1>1, <2>1, PriorityIs DEF FirstCause
<1> QED
  BY <1>3, <1>4

(* What the decoder is given of the hart and of the fetch.                 *)
Registers == [trap : BOOLEAN, cause : Nat, is_microtrap : BOOLEAN, mcause : Nat,
              mip : SUBSET Causes, mie : SUBSET Causes, mideleg : SUBSET Causes,
              mstatus_mie : BOOLEAN, sstatus_sie : BOOLEAN]

LEMMA ChkInterrupt ==
    ASSUME NEW prv, NEW e, Pending(prv, e) \subseteq Causes
    PROVE  /\ Pending(prv, e) = {} => chk_interrupt(prv, e) = <<-1, FALSE>>
           /\ Pending(prv, e) # {} =>
                chk_interrupt(prv, e) = <<FirstCause(Pending(prv, e)), TRUE>>
<1>1. PICK S : S = Pending(prv, e)
  OBVIOUS
<1>2. CASE S = {}
  BY <1>1, <1>2 DEF chk_interrupt
<1>3. CASE S # {}
  <2>1. PICK n : n = CHOOSE k \in 1 .. Len(Priority) :
                       Priority[k] \in S /\ \A j \in 1 .. k - 1 : Priority[j] \notin S
    OBVIOUS
  <2>2. n \in 1 .. 9 /\ IsFirst(S, n)
    BY <1>1, <1>3, <2>1, FirstIsTaken, PriorityIs DEF IsFirst
  <2>3. Priority[n] = FirstCause(S)
    BY <1>1, <1>3, <2>2, FirstIsTaken
  <2>4. chk_interrupt(prv, e) = <<Priority[n], TRUE>>
    BY <1>1, <1>3, <2>1 DEF chk_interrupt
  <2> QED
    BY <1>1, <1>3, <2>3, <2>4
<1> QED
  BY <1>2, <1>3

(* What decoder_func answers, for every word and every control state.      *)
LEMMA DecoderAnswers ==
    ASSUME NEW w, NEW c, NEW x, NEW e \in Registers, Pending(c.prv, e) \subseteq Causes,
           NEW out, out = decoder_func(w, c, x, e)
    PROVE  /\ out.interrupt <=> /\ Pending(c.prv, e) # {} /\ ~e.is_microtrap
                                /\ fn_decode_insttype(w, c) # "WFI"
           /\ out.interrupt => /\ out.inst_type = "TRAP"
                               /\ out.funct_cause = FirstCause(Pending(c.prv, e))
           /\ e.trap /\ ~e.is_microtrap /\ ~out.interrupt
                => out.inst_type = "TRAP" /\ out.funct_cause = e.cause
<1>1. PICK r, int : r = fn_decode(w, c, x) /\ int = chk_interrupt(c.prv, e)
  OBVIOUS
<1>2. /\ r.interrupt = FALSE /\ r.inst_type = fn_decode_insttype(w, c)
      /\ {"inst_type", "funct_cause", "microtrap", "interrupt"} \subseteq DOMAIN r
      /\ r = [f \in DOMAIN r |-> r[f]]
  BY <1>1 DEF fn_decode
<1>3. out = IF e.is_microtrap
              THEN [r EXCEPT !.inst_type = "TRAP", !.funct_cause = e.mcause, !.microtrap = FALSE]
            ELSE IF int[2] /\ r.inst_type # "WFI"
              THEN [r EXCEPT !.inst_type = "TRAP", !.funct_cause = int[1], !.interrupt = TRUE]
            ELSE IF e.trap THEN [r EXCEPT !.inst_type = "TRAP", !.funct_cause = e.cause]
            ELSE r
  BY <1>1 DEF decoder_func
<1>4. /\ int[2] \in BOOLEAN /\ (int[2] <=> Pending(c.prv, e) # {})
      /\ int[2] => int[1] = FirstCause(Pending(c.prv, e))
  <2>1. CASE Pending(c.prv, e) = {}
    <3>1. int = <<-1, FALSE>>
      BY <1>1, <2>1, ChkInterrupt
    <3> QED
      BY <2>1, <3>1
  <2>2. CASE Pending(c.prv, e) # {}
    <3>1. int = <<FirstCause(Pending(c.prv, e)), TRUE>>
      BY <1>1, <2>2, ChkInterrupt
    <3> QED
      BY <2>2, <3>1
  <2> QED
    BY <2>1, <2>2
<1>5. e.is_microtrap \in BOOLEAN /\ e.trap \in BOOLEAN
  BY DEF Registers
<1>6. CASE e.is_microtrap
  <2>1. out = [r EXCEPT !.inst_type = "TRAP", !.funct_cause = e.mcause, !.microtrap = FALSE]
    BY <1>3, <1>6
  <2>2. out.interrupt = FALSE
    BY <1>2, <2>1
  <2> QED
    BY <1>6, <2>2
<1>7. CASE ~e.is_microtrap /\ int[2] /\ r.inst_type # "WFI"
  <2>1. out = [r EXCEPT !.inst_type = "TRAP", !.funct_cause = int[1], !.interrupt = TRUE]
    BY <1>3, <1>7
  <2>2. out.interrupt = TRUE /\ out.inst_type = "TRAP" /\ out.funct_cause = int[1]
    BY <1>2, <2>1
  <2> QED
    BY <1>2, <1>4, <1>7, <2>2
<1>8. CASE ~e.is_microtrap /\ ~(int[2] /\ r.inst_type # "WFI") /\ e.trap
  <2>1. out = [r EXCEPT !.inst_type = "TRAP", !.funct_cause = e.cause]
    BY <1>3, <1>8
  <2>2. out.interrupt = FALSE /\ out.inst_type = "TRAP" /\ out.funct_cause = e.cause
    BY <1>2, <2>1
  <2> QED
    BY <1>2, <1>4, <1>8, <2>2
<1>9. CASE ~e.is_microtrap /\ ~(int[2] /\ r.inst_type # "WFI") /\ ~e.trap
  <2>1. out.interrupt = FALSE
    BY <1>2, <1>3, <1>9
  <2> QED
    BY <1>2, <1>4, <1>9, <2>1
<1> QED
  BY <1>5, <1>6, <1>7, <1>8, <1>9

(* The ISA's condition, by destination, is the decoder's, by delegation.   *)
Ready(prv, e) ==
    {n \in e.mip \cap e.mie :
       \/ prv < (IF n \in e.mideleg THEN PRV_S ELSE PRV_M)
       \/ /\ prv = (IF n \in e.mideleg THEN PRV_S ELSE PRV_M)
          /\ IF n \in e.mideleg THEN e.sstatus_sie ELSE e.mstatus_mie}

LEMMA PendingIsReady ==
    ASSUME NEW e \in Registers, NEW prv \in {PRV_U, PRV_S, PRV_M}
    PROVE  Pending(prv, e) = Ready(prv, e) /\ Pending(prv, e) \subseteq Causes
<1>1. e.mip \in SUBSET Causes /\ e.mstatus_mie \in BOOLEAN /\ e.sstatus_sie \in BOOLEAN
  BY DEF Registers
<1>2. Pending(prv, e) \subseteq Causes
  BY <1>1 DEF Pending
<1>3. PICK P, R : P = Pending(prv, e) /\ R = Ready(prv, e)
  OBVIOUS
<1>4. ASSUME NEW n PROVE n \in P <=> n \in R
  <2>1. CASE n \in e.mideleg
    BY <1>1, <1>3, <2>1 DEF Pending, Ready, PRV_U, PRV_S, PRV_M
  <2>2. CASE n \notin e.mideleg
    BY <1>1, <1>3, <2>2 DEF Pending, Ready, PRV_U, PRV_S, PRV_M
  <2> QED
    BY <2>1, <2>2
<1> QED
  BY <1>2, <1>3, <1>4

(***************************************************************************)
(* What a behaviour of MCDecode has decoded.                               *)
(***************************************************************************)
DecInv == dec.kind = "word" =>
            /\ dec.e \in Registers /\ dec.c.prv \in {PRV_U, PRV_S, PRV_M}
            /\ dec.out = decoder_func(dec.w, dec.c, FALSE, dec.e)

LEMMA AnswerInv ==
    ASSUME NEW row, NEW w, NEW c, NEW e \in Registers, c.prv \in {PRV_U, PRV_S, PRV_M},
           Answer(row, w, c, e)
    PROVE  DecInv'
<1>1. /\ dec'.e = e /\ dec'.c = c /\ dec'.w = w /\ dec'.out = decoder_func(w, c, FALSE, e)
  BY DEF Answer
<1> QED
  BY <1>1 DEF DecInv

LEMMA InputTypes == Quiet \in Registers
  BY DEF Quiet, Registers

LEMMA DecodeInv == ASSUME Decode PROVE DecInv'
<1>1. CASE DecodeInteger
  <2>1. PICK op \in 0 .. 31 \ {1, 9, 16, 17, 18, 19, 20, 28}, f3 \in 0 .. 7, f7 \in 0 .. 127,
             rs2 \in {0, 1}, on \in BOOLEAN :
          /\ op # 11 => rs2 = 0
          /\ op \notin {4, 6, 11, 12, 14} => f7 \in {0, 127}
          /\ on \/ op \in {11, 12, 14, 29}
          /\ Answer("", Word(3, op, f3, f7, rs2, 1, 2),
                    [Csrs0 EXCEPT !.misa = IF on THEN Full ELSE Full \ {"A", "M", "P"}], Quiet)
    BY <1>1 DEF DecodeInteger
  <2>2. PICK c, w : /\ c = [Csrs0 EXCEPT !.misa = IF on THEN Full ELSE Full \ {"A", "M", "P"}]
                    /\ w = Word(3, op, f3, f7, rs2, 1, 2)
    OBVIOUS
  <2>3. c.prv \in {PRV_U, PRV_S, PRV_M}
    BY <2>2 DEF Csrs0
  <2>4. Answer("", w, c, Quiet)
    BY <2>1, <2>2
  <2> QED
    BY <2>3, <2>4, AnswerInv, InputTypes
<1>2. CASE DecodeFloat
  <2>1. PICK op \in {1, 9, 16, 17, 18, 19, 20}, f3 \in 0 .. 7, f7 \in 0 .. 127, rs2 \in 0 .. 4,
             off \in {{}, {"D"}, {"D", "F"}}, fs \in BOOLEAN, frm \in {4, 5} :
          /\ (frm = 5 => f3 = 7) /\ (~fs => off = {})
          /\ op \in {1, 9} => rs2 = 0 /\ f7 \in {0, 127}
          /\ op \in 16 .. 19 => rs2 = 0 /\ f7 < 8
          /\ Answer("", Word(3, op, f3, f7, rs2, 1, 2),
                    [Csrs0 EXCEPT !.misa = Full \ off, !.fs = fs, !.frm = frm], Quiet)
    BY <1>2 DEF DecodeFloat
  <2>2. PICK c, w : /\ c = [Csrs0 EXCEPT !.misa = Full \ off, !.fs = fs, !.frm = frm]
                    /\ w = Word(3, op, f3, f7, rs2, 1, 2)
    OBVIOUS
  <2>3. c.prv \in {PRV_U, PRV_S, PRV_M}
    BY <2>2 DEF Csrs0
  <2>4. Answer("", w, c, Quiet)
    BY <2>1, <2>2
  <2> QED
    BY <2>3, <2>4, AnswerInv, InputTypes
<1>3. CASE DecodeSystem
  <2>1. ASSUME NEW w, NEW prv \in {PRV_U, PRV_S, PRV_M}, NEW misa, NEW trap,
               Answer("", w, SystemCsrs(prv, misa, trap), Quiet)
        PROVE  DecInv'
    <3>1. PICK c : c = SystemCsrs(prv, misa, trap)
      OBVIOUS
    <3>2. c.prv = prv
      BY <3>1 DEF SystemCsrs, Csrs0
    <3>3. Answer("", w, c, Quiet)
      BY <2>1, <3>1, Zenon
    <3> QED
      BY <3>2, <3>3, AnswerInv, InputTypes
  <2>2. PICK a \in SystemAddresses, f3 \in 0 .. 7, rs1 \in {0, 1}, rd \in {0, 1},
             prv \in {PRV_U, PRV_S, PRV_M}, trap \in BOOLEAN, ext \in SUBSET {"N"} :
          /\ SystemInput(a, f3, rd, trap, ext)
          /\ Answer("", SystemWord(a, f3, rs1, rd), SystemCsrs(prv, Full \cup ext, trap), Quiet)
    BY <1>3, Zenon DEF DecodeSystem
  <2> QED
    BY <2>1, <2>2, Zenon
<1>4. CASE DecodeCanonical
  <2>1. PICK n \in DOMAIN Rows, ones \in BOOLEAN :
          Answer(n, Canonical(n, IF ones THEN Word(3, 31, 7, 127, 31, 31, 31) ELSE Fill),
                    [Csrs0 EXCEPT !.misa = Full \cup {"N"}], Quiet)
    BY <1>4 DEF DecodeCanonical
  <2>2. PICK c, w : /\ c = [Csrs0 EXCEPT !.misa = Full \cup {"N"}]
                    /\ w = Canonical(n, IF ones THEN Word(3, 31, 7, 127, 31, 31, 31) ELSE Fill)
    OBVIOUS
  <2>3. c.prv \in {PRV_U, PRV_S, PRV_M}
    BY <2>2 DEF Csrs0
  <2>4. Answer(n, w, c, Quiet)
    BY <2>1, <2>2
  <2> QED
    BY <2>3, <2>4, AnswerInv, InputTypes
<1>5. CASE DecodeDisturbed
  <2>1. PICK n \in {"ADDI", "WFI", "CSRRW"}, prv \in {PRV_U, PRV_S, PRV_M},
             ip \in SUBSET {1, 3, 5, 7, 9, 11}, mideleg \in SUBSET {1, 5, 9},
             mie, sie, trap, micro \in BOOLEAN :
          /\ trap \/ micro => mideleg = {} /\ ip \in SUBSET {7}
          /\ Answer("", Canonical(n, Fill), [Csrs0 EXCEPT !.prv = prv],
                    [trap |-> trap, cause |-> 12, is_microtrap |-> micro, mcause |-> 3,
                     mip |-> ip, mie |-> ip, mideleg |-> mideleg,
                     mstatus_mie |-> mie, sstatus_sie |-> sie])
    BY <1>5 DEF DecodeDisturbed
  <2>2. PICK w, c, e : /\ w = Canonical(n, Fill) /\ c = [Csrs0 EXCEPT !.prv = prv]
                       /\ e = [trap |-> trap, cause |-> 12, is_microtrap |-> micro, mcause |-> 3,
                               mip |-> ip, mie |-> ip, mideleg |-> mideleg,
                               mstatus_mie |-> mie, sstatus_sie |-> sie]
    OBVIOUS
  <2>3. e \in Registers
    BY <2>1, <2>2 DEF Registers, Causes
  <2>4. c.prv \in {PRV_U, PRV_S, PRV_M}
    BY <2>1, <2>2 DEF Csrs0
  <2>5. Answer("", w, c, e)
    BY <2>1, <2>2
  <2> QED
    BY <2>3, <2>4, <2>5, AnswerInv
<1> QED
  BY <1>1, <1>2, <1>3, <1>4, <1>5 DEF Decode

LEMMA ExpandInv == ASSUME Expand PROVE DecInv'
<1>1. dec'.kind = "half"
  BY DEF Expand
<1> QED
  BY <1>1 DEF DecInv

(* Among the machine's causes, and among the supervisor's, the first is    *)
(* taken by its kind: external, then software, then timer.                 *)
KindOf(n) == CASE n \in {IRQ.M_EXT, IRQ.S_EXT} -> 0
               [] n \in {IRQ.M_SOFT, IRQ.S_SOFT} -> 1
               [] n \in {IRQ.M_TIMER, IRQ.S_TIMER} -> 2
Machine == {IRQ.M_EXT, IRQ.M_SOFT, IRQ.M_TIMER}

LEMMA FirstByKind ==
    ASSUME NEW S, S \subseteq Causes, S # {}
    PROVE  /\ FirstCause(S) \in S
           /\ \A n \in S : (n \in Machine <=> FirstCause(S) \in Machine)
                            => KindOf(FirstCause(S)) <= KindOf(n)
<1>1. /\ KindOf(11) = 0 /\ KindOf(9) = 0 /\ KindOf(3) = 1 /\ KindOf(1) = 1
      /\ KindOf(7) = 2 /\ KindOf(5) = 2 /\ Machine = {11, 3, 7}
  BY DEF KindOf, Machine, IRQ
<1>2. FirstCause(S) \in S
  BY DEF FirstCause, Causes
<1>3. ASSUME NEW n \in S, n \in Machine <=> FirstCause(S) \in Machine
      PROVE  KindOf(FirstCause(S)) <= KindOf(n)
  <2>1. n \in {1, 3, 5, 7, 9, 11}
    BY DEF Causes
  <2> QED
    BY <1>1, <1>3, <2>1 DEF FirstCause
<1> QED
  BY <1>2, <1>3

(* An interrupt is taken exactly if one is pending whose destination is    *)
(* more privileged than the hart, or as privileged and enabled there, and  *)
(* neither a micro-trap nor a WFI is in the way; the first of its kind is; *)
(* a fetch fault is reported otherwise (decoder.bsv, chk_interrupt and     *)
(* decoder_func).  For every word, every control state and every setting   *)
(* of the six interrupts, their enables and their delegation.              *)
THEOREM TakesInterrupts ==
    ASSUME NEW w, NEW c, NEW x, NEW e \in Registers, c.prv \in {PRV_U, PRV_S, PRV_M},
           NEW out, out = decoder_func(w, c, x, e), NEW R, R = Ready(c.prv, e)
    PROVE  /\ out.interrupt <=> R # {} /\ ~e.is_microtrap /\ fn_decode_insttype(w, c) # "WFI"
           /\ out.interrupt =>
                /\ out.inst_type = "TRAP" /\ out.funct_cause \in R
                /\ \A n \in R : (n \in Machine <=> out.funct_cause \in Machine)
                                 => KindOf(out.funct_cause) <= KindOf(n)
           /\ e.trap /\ ~e.is_microtrap /\ ~out.interrupt
                => out.inst_type = "TRAP" /\ out.funct_cause = e.cause
<1>1. Pending(c.prv, e) = R /\ R \subseteq Causes
  BY PendingIsReady
<1>2. /\ out.interrupt <=> R # {} /\ ~e.is_microtrap /\ fn_decode_insttype(w, c) # "WFI"
      /\ out.interrupt => out.inst_type = "TRAP" /\ out.funct_cause = FirstCause(R)
      /\ e.trap /\ ~e.is_microtrap /\ ~out.interrupt
           => out.inst_type = "TRAP" /\ out.funct_cause = e.cause
  BY <1>1, DecoderAnswers
<1>3. ASSUME out.interrupt
      PROVE  /\ out.funct_cause \in R
             /\ \A n \in R : (n \in Machine <=> out.funct_cause \in Machine)
                              => KindOf(out.funct_cause) <= KindOf(n)
  BY <1>1, <1>2, <1>3, FirstByKind
<1> QED
  BY <1>2, <1>3, Zenon

LEMMA DecInvariant == MCSpec => []DecInv
<1>1. MCInit => DecInv
  BY DEF MCInit, DecInv, Nothing
<1>2. DecInv /\ [MCNext]_<<unit, dec, vars>> => DecInv'
  <2>1. ASSUME DecInv, UNCHANGED dec PROVE DecInv'
    BY <2>1 DEF DecInv
  <2> QED
    BY <2>1, DecodeInv, ExpandInv DEF MCNext, Words, Stage2Step
<1> QED
  BY <1>1, <1>2, PTL DEF MCSpec

(* The same of every word decoded in a behaviour: what is checked on the   *)
(* enumerated words follows from TakesInterrupts.                          *)
THEOREM InterruptsTaken == MCSpec => []InterruptTaken
<1>1. DecInv => InterruptTaken
  <2> SUFFICES ASSUME DecInv, IsWord PROVE InterruptTaken
    BY DEF InterruptTaken
  <2>1. PICK w, c, e, out : w = dec.w /\ c = dec.c /\ e = dec.e /\ out = dec.out
    OBVIOUS
  <2>2. e \in Registers /\ c.prv \in {PRV_U, PRV_S, PRV_M} /\ out = decoder_func(w, c, FALSE, e)
    BY <2>1 DEF DecInv, IsWord
  <2>3. PICK R : R = Ready(c.prv, e)
    OBVIOUS
  <2>4. /\ out.interrupt <=> R # {} /\ ~e.is_microtrap /\ fn_decode_insttype(w, c) # "WFI"
        /\ out.interrupt =>
             /\ out.inst_type = "TRAP" /\ out.funct_cause \in R
             /\ \A n \in R : (n \in Machine <=> out.funct_cause \in Machine)
                              => KindOf(out.funct_cause) <= KindOf(n)
        /\ e.trap /\ ~e.is_microtrap /\ ~out.interrupt
             => out.inst_type = "TRAP" /\ out.funct_cause = e.cause
    BY <2>2, <2>3, TakesInterrupts
  <2> QED
    BY <2>1, <2>3, <2>4, Zenon DEF InterruptTaken, Ready, KindOf, Machine
<1> QED
  BY <1>1, DecInvariant, PTL

(***************************************************************************)
(* Immediates                                                              *)
(***************************************************************************)
(* Bit n of a word is set; bits lo to hi of it, put at place at; its sign  *)
(* bit, from a place on.                                                   *)
IsSet(w, n) == InstBit(w, n) = 1
BitsAt(w, lo, hi, at) == {n - lo + at : n \in {y \in lo .. hi : IsSet(w, y)}}
SignFrom(w, from) == IF IsSet(w, 31) THEN from .. 31 ELSE {}

(* What is in such a field, and that it holds integers only.               *)
LEMMA BitsAtIs ==
    ASSUME NEW w, NEW lo \in Int, NEW hi \in Int, NEW at \in Int, NEW x \in Int
    PROVE  x \in BitsAt(w, lo, hi, at) <=> x \in at .. at + hi - lo /\ IsSet(w, x - at + lo)
<1>1. ASSUME x \in BitsAt(w, lo, hi, at) PROVE x \in at .. at + hi - lo /\ IsSet(w, x - at + lo)
  <2>1. PICK n \in {y \in lo .. hi : IsSet(w, y)} : x = n - lo + at
    BY <1>1 DEF BitsAt
  <2>2. n = x - at + lo
    BY <2>1
  <2> QED
    BY <2>1, <2>2
<1>2. ASSUME x \in at .. at + hi - lo, IsSet(w, x - at + lo) PROVE x \in BitsAt(w, lo, hi, at)
  <2>1. PICK n : n = x - at + lo
    OBVIOUS
  <2>2. n \in lo .. hi /\ IsSet(w, n) /\ x = n - lo + at
    BY <1>2, <2>1
  <2> QED
    BY <2>2 DEF BitsAt
<1> QED
  BY <1>1, <1>2

LEMMA BitsAtInt ==
    ASSUME NEW w, NEW lo \in Int, NEW hi \in Int, NEW at \in Int
    PROVE  BitsAt(w, lo, hi, at) \subseteq Int
  BY DEF BitsAt

(* The formats of an immediate.                                            *)
ImmIs(w, misa, imm) ==
    /\ w.op = 8 \/ (w.op = 9 /\ "F" \in misa) =>
         imm = BitsAt(w, 7, 11, 0) \cup BitsAt(w, 25, 30, 5) \cup SignFrom(w, 11)
    /\ w.op = 24 => imm = BitsAt(w, 8, 11, 1) \cup BitsAt(w, 25, 30, 5) \cup BitsAt(w, 7, 7, 11)
                            \cup SignFrom(w, 12)
    /\ w.op \in {13, 5} => imm = BitsAt(w, 12, 31, 12)
    /\ w.op = 27 => imm = BitsAt(w, 21, 30, 1) \cup BitsAt(w, 20, 20, 11) \cup BitsAt(w, 12, 19, 12)
                            \cup SignFrom(w, 20)
    /\ w.op = 11 => imm = {}
    /\ w.op = 28 => imm \cap 0 .. 11 = BitsAt(w, 20, 31, 0)
    /\ w.op \notin {8, 24, 13, 5, 27, 11, 28} /\ ~(w.op = 9 /\ "F" \in misa)
         => imm = BitsAt(w, 20, 30, 0) \cup SignFrom(w, 11)

(* Which bit of the word a bit of the immediate is.                        *)
LEMMA ImmBit ==
    ASSUME NEW w, NEW misa, NEW n \in 0 .. 31, NEW s, s = ImmSource(w, misa)[n]
    PROVE  n \in fn_decode_immediate(w, misa) <=> s # -1 /\ IsSet(w, s)
  BY Zenon DEF fn_decode_immediate, IsSet

(* Where each format takes its bits from.                                  *)
LEMMA ImmSourceIs ==
    ASSUME NEW w, NEW misa, NEW n \in 0 .. 31, NEW s, s = ImmSource(w, misa)[n]
    PROVE  /\ w.op = 8 \/ (w.op = 9 /\ "F" \in misa) =>
                s = IF n <= 4 THEN n + 7 ELSE IF n <= 10 THEN n + 20 ELSE 31
           /\ w.op = 24 => s = IF n = 0 THEN -1 ELSE IF n <= 4 THEN n + 7
                               ELSE IF n <= 10 THEN n + 20 ELSE IF n = 11 THEN 7 ELSE 31
           /\ w.op \in {13, 5} => s = IF n <= 11 THEN -1 ELSE n
           /\ w.op = 27 => s = IF n = 0 THEN -1 ELSE IF n <= 10 THEN n + 20
                               ELSE IF n = 11 THEN 20 ELSE IF n <= 19 THEN n ELSE 31
           /\ w.op = 11 => s = -1
           /\ w.op = 28 => (n <= 10 => s = n + 20) /\ (n = 11 => s = 31)
           /\ w.op \notin {8, 24, 13, 5, 27, 11, 28} /\ ~(w.op = 9 /\ "F" \in misa)
                => s = IF n <= 10 THEN n + 20 ELSE 31
<1>1. PICK S, B, U, J : /\ S = (w.op = 8 \/ (w.op = 9 /\ "F" \in misa)) /\ B = (w.op = 24)
                           /\ U = (w.op \in {13, 5}) /\ J = (w.op = 27)
  OBVIOUS
<1>2. w.op = 11 => s = -1
  BY DEF ImmSource
<1>3. w.op # 11 =>
        s = CASE n = 0 -> IF S THEN 7 ELSE IF B \/ U \/ J THEN -1 ELSE 20
              [] n \in 1 .. 4 -> IF S \/ B THEN n + 7 ELSE IF U THEN -1 ELSE n + 20
              [] n \in 5 .. 10 -> IF U THEN -1 ELSE n + 20
              [] n = 11 -> IF B THEN 7 ELSE IF U THEN -1 ELSE IF J THEN 20 ELSE 31
              [] n \in 12 .. 19 -> IF U \/ J \/ w.op = 28 THEN n ELSE 31
              [] n \in 20 .. 30 -> IF U THEN n ELSE 31
              [] n = 31 -> 31
  BY <1>1, Zenon DEF ImmSource
<1>4. ASSUME w.op = 8 \/ (w.op = 9 /\ "F" \in misa)
      PROVE  s = IF n <= 4 THEN n + 7 ELSE IF n <= 10 THEN n + 20 ELSE 31
  <2>1. S /\ ~B /\ ~U /\ ~J
    <3>1. (w.op = 8 \/ (w.op = 9 /\ "F" \in misa)) /\ w.op \notin {24, 13, 5, 27, 11}
      BY <1>4
    <3> QED
      BY <1>1, <3>1, Zenon
  <2> QED
    BY <1>3, <1>4, <2>1
<1>5. ASSUME w.op = 24
      PROVE  s = IF n = 0 THEN -1 ELSE IF n <= 4 THEN n + 7
                 ELSE IF n <= 10 THEN n + 20 ELSE IF n = 11 THEN 7 ELSE 31
  <2>1. ~S /\ B /\ ~U /\ ~J
    <3>1. w.op # 8 /\ w.op # 9 /\ w.op = 24 /\ w.op \notin {13, 5} /\ w.op # 27 /\ w.op # 11
      BY <1>5
    <3> QED
      BY <1>1, <3>1, Zenon
  <2> QED
    BY <1>3, <1>5, <2>1
<1>6. ASSUME w.op \in {13, 5} PROVE s = IF n <= 11 THEN -1 ELSE n
  <2>1. ~S /\ ~B /\ U /\ ~J
    <3>1. w.op # 8 /\ w.op # 9 /\ w.op # 24 /\ w.op \in {13, 5} /\ w.op # 27 /\ w.op # 11
      BY <1>6
    <3> QED
      BY <1>1, <3>1, Zenon
  <2> QED
    BY <1>3, <1>6, <2>1
<1>7. ASSUME w.op = 27
      PROVE  s = IF n = 0 THEN -1 ELSE IF n <= 10 THEN n + 20
                 ELSE IF n = 11 THEN 20 ELSE IF n <= 19 THEN n ELSE 31
  <2>1. ~S /\ ~B /\ ~U /\ J
    <3>1. w.op # 8 /\ w.op # 9 /\ w.op # 24 /\ w.op \notin {13, 5} /\ w.op = 27 /\ w.op # 11
      BY <1>7
    <3> QED
      BY <1>1, <3>1, Zenon
  <2> QED
    BY <1>3, <1>7, <2>1
<1>8. ASSUME w.op = 28 PROVE (n <= 10 => s = n + 20) /\ (n = 11 => s = 31)
  <2>1. ~S /\ ~B /\ ~U /\ ~J
    <3>1. w.op # 8 /\ w.op # 9 /\ w.op # 24 /\ w.op \notin {13, 5} /\ w.op # 27 /\ w.op # 11
      BY <1>8
    <3> QED
      BY <1>1, <3>1, Zenon
  <2> QED
    BY <1>3, <1>8, <2>1
<1>9. ASSUME w.op \notin {8, 24, 13, 5, 27, 11, 28}, ~(w.op = 9 /\ "F" \in misa)
      PROVE  s = IF n <= 10 THEN n + 20 ELSE 31
  <2>1. ~S /\ ~B /\ ~U /\ ~J
    <3>1. ~(w.op = 8 \/ (w.op = 9 /\ "F" \in misa)) /\ w.op \notin {24, 13, 5, 27, 11}
      BY <1>9
    <3> QED
      BY <1>1, <3>1, Zenon
  <2> QED
    BY <1>3, <1>9, <2>1
<1> QED
  BY <1>2, <1>4, <1>5, <1>6, <1>7, <1>8, <1>9

(* The immediate of every word and every set of extensions is the one the  *)
(* formats of the ISA define (fn_decode_immediate, decoder.bsv): every bit *)
(* from its place, the sign repeated above it, nothing else.               *)
THEOREM ImmediateIs ==
    ASSUME NEW w, NEW misa, NEW imm, imm = fn_decode_immediate(w, misa)
    PROVE  ImmIs(w, misa, imm)
<1>1. PICK S : S = ImmSource(w, misa)
  OBVIOUS
<1>2. imm \subseteq 0 .. 31
  BY <1>1 DEF fn_decode_immediate
<1>3. ASSUME NEW n \in 0 .. 31 PROVE n \in imm <=> S[n] # -1 /\ IsSet(w, S[n])
  BY <1>1, ImmBit
<1>4. ASSUME w.op = 8 \/ (w.op = 9 /\ "F" \in misa)
      PROVE  imm = BitsAt(w, 7, 11, 0) \cup BitsAt(w, 25, 30, 5) \cup SignFrom(w, 11)
  <2>1. ASSUME NEW n \in 0 .. 31
        PROVE  S[n] = IF n <= 4 THEN n + 7 ELSE IF n <= 10 THEN n + 20 ELSE 31
    BY <1>1, <1>4, ImmSourceIs
  <2>2. ASSUME NEW n \in Int
        PROVE  n \in imm <=> \/ n \in BitsAt(w, 7, 11, 0) \/ n \in BitsAt(w, 25, 30, 5)
                             \/ n \in SignFrom(w, 11)
    <3>1. /\ n \in BitsAt(w, 7, 11, 0) <=> n \in 0 .. 4 /\ IsSet(w, n + 7)
          /\ n \in BitsAt(w, 25, 30, 5) <=> n \in 5 .. 10 /\ IsSet(w, n + 20)
      BY BitsAtIs
    <3> QED
      BY <1>2, <1>3, <2>1, <3>1 DEF SignFrom
  <2> QED
    BY <1>2, <2>2, BitsAtInt DEF SignFrom
<1>5. ASSUME w.op = 24
      PROVE  imm = BitsAt(w, 8, 11, 1) \cup BitsAt(w, 25, 30, 5) \cup BitsAt(w, 7, 7, 11)
                     \cup SignFrom(w, 12)
  <2>1. ASSUME NEW n \in 0 .. 31
        PROVE  S[n] = IF n = 0 THEN -1 ELSE IF n <= 4 THEN n + 7
                      ELSE IF n <= 10 THEN n + 20 ELSE IF n = 11 THEN 7 ELSE 31
    BY <1>1, <1>5, ImmSourceIs
  <2>2. ASSUME NEW n \in Int
        PROVE  n \in imm <=> \/ n \in BitsAt(w, 8, 11, 1) \/ n \in BitsAt(w, 25, 30, 5)
                             \/ n \in BitsAt(w, 7, 7, 11) \/ n \in SignFrom(w, 12)
    <3>1. /\ n \in BitsAt(w, 8, 11, 1) <=> n \in 1 .. 4 /\ IsSet(w, n + 7)
          /\ n \in BitsAt(w, 25, 30, 5) <=> n \in 5 .. 10 /\ IsSet(w, n + 20)
          /\ n \in BitsAt(w, 7, 7, 11) <=> n = 11 /\ IsSet(w, 7)
      BY BitsAtIs
    <3> QED
      BY <1>2, <1>3, <2>1, <3>1 DEF SignFrom
  <2> QED
    BY <1>2, <2>2, BitsAtInt DEF SignFrom
<1>6. ASSUME w.op \in {13, 5} PROVE imm = BitsAt(w, 12, 31, 12)
  <2>1. ASSUME NEW n \in 0 .. 31 PROVE S[n] = IF n <= 11 THEN -1 ELSE n
    BY <1>1, <1>6, ImmSourceIs
  <2>2. ASSUME NEW n \in Int PROVE n \in imm <=> n \in BitsAt(w, 12, 31, 12)
    <3>1. n \in BitsAt(w, 12, 31, 12) <=> n \in 12 .. 31 /\ IsSet(w, n)
      BY BitsAtIs
    <3> QED
      BY <1>2, <1>3, <2>1, <3>1
  <2> QED
    BY <1>2, <2>2, BitsAtInt
<1>7. ASSUME w.op = 27
      PROVE  imm = BitsAt(w, 21, 30, 1) \cup BitsAt(w, 20, 20, 11) \cup BitsAt(w, 12, 19, 12)
                     \cup SignFrom(w, 20)
  <2>1. ASSUME NEW n \in 0 .. 31
        PROVE  S[n] = IF n = 0 THEN -1 ELSE IF n <= 10 THEN n + 20
                      ELSE IF n = 11 THEN 20 ELSE IF n <= 19 THEN n ELSE 31
    BY <1>1, <1>7, ImmSourceIs
  <2>2. ASSUME NEW n \in Int
        PROVE  n \in imm <=> \/ n \in BitsAt(w, 21, 30, 1) \/ n \in BitsAt(w, 20, 20, 11)
                             \/ n \in BitsAt(w, 12, 19, 12) \/ n \in SignFrom(w, 20)
    <3>1. /\ n \in BitsAt(w, 21, 30, 1) <=> n \in 1 .. 10 /\ IsSet(w, n + 20)
          /\ n \in BitsAt(w, 20, 20, 11) <=> n = 11 /\ IsSet(w, 20)
          /\ n \in BitsAt(w, 12, 19, 12) <=> n \in 12 .. 19 /\ IsSet(w, n)
      BY BitsAtIs
    <3> QED
      BY <1>2, <1>3, <2>1, <3>1 DEF SignFrom
  <2> QED
    BY <1>2, <2>2, BitsAtInt DEF SignFrom
<1>8. ASSUME w.op = 11 PROVE imm = {}
  <2>1. ASSUME NEW n \in 0 .. 31 PROVE S[n] = -1
    BY <1>1, <1>8, ImmSourceIs
  <2> QED
    BY <1>2, <1>3, <2>1
<1>9. ASSUME w.op = 28 PROVE imm \cap 0 .. 11 = BitsAt(w, 20, 31, 0)
  <2>1. ASSUME NEW n \in 0 .. 31 PROVE (n <= 10 => S[n] = n + 20) /\ (n = 11 => S[n] = 31)
    BY <1>1, <1>9, ImmSourceIs
  <2>2. ASSUME NEW n \in Int PROVE n \in imm \cap 0 .. 11 <=> n \in BitsAt(w, 20, 31, 0)
    <3>1. n \in BitsAt(w, 20, 31, 0) <=> n \in 0 .. 11 /\ IsSet(w, n + 20)
      BY BitsAtIs
    <3> QED
      BY <1>2, <1>3, <2>1, <3>1
  <2> QED
    BY <1>2, <2>2, BitsAtInt
<1>10. ASSUME w.op \notin {8, 24, 13, 5, 27, 11, 28}, ~(w.op = 9 /\ "F" \in misa)
       PROVE  imm = BitsAt(w, 20, 30, 0) \cup SignFrom(w, 11)
  <2>1. ASSUME NEW n \in 0 .. 31 PROVE S[n] = IF n <= 10 THEN n + 20 ELSE 31
    BY <1>1, <1>10, ImmSourceIs
  <2>2. ASSUME NEW n \in Int
        PROVE  n \in imm <=> n \in BitsAt(w, 20, 30, 0) \/ n \in SignFrom(w, 11)
    <3>1. n \in BitsAt(w, 20, 30, 0) <=> n \in 0 .. 10 /\ IsSet(w, n + 20)
      BY BitsAtIs
    <3> QED
      BY <1>2, <1>3, <2>1, <3>1 DEF SignFrom
  <2> QED
    BY <1>2, <2>2, BitsAtInt DEF SignFrom
<1> QED
  BY <1>4, <1>5, <1>6, <1>7, <1>8, <1>9, <1>10, Zenon DEF ImmIs

(* In every word the specification decodes, disturbed or not, the          *)
(* immediate is the one of its format: the third part of AgreesWithTables. *)
THEOREM ImmediatesCorrect == MCSpec => []ImmediateFields
<1>1. DecInv => ImmediateFields
  <2> SUFFICES ASSUME DecInv, IsWord PROVE ImmediateFields
    BY DEF ImmediateFields
  <2>1. PICK w, c, e, imm : w = dec.w /\ c = dec.c /\ e = dec.e /\ imm = dec.out.imm
    OBVIOUS
  <2>2. imm = fn_decode_immediate(w, c.misa)
    <3>1. dec.out = decoder_func(w, c, FALSE, e)
      BY <2>1 DEF DecInv, IsWord
    <3>2. PICK r : r = fn_decode(w, c, FALSE)
      OBVIOUS
    <3>3. r.imm = fn_decode_immediate(w, c.misa)
      BY <3>2 DEF fn_decode
    <3>4. PICK q : q = decoder_func(w, c, FALSE, e)
      OBVIOUS
    <3>5. q.imm = r.imm
      BY <3>2, <3>4 DEF decoder_func, fn_decode
    <3> QED
      BY <2>1, <3>1, <3>3, <3>4, <3>5
  <2>3. ImmIs(w, c.misa, imm)
    BY <2>2, ImmediateIs
  <2>4. ASSUME w.op = 8 \/ (w.op = 9 /\ "F" \in c.misa) PROVE ImmediateFields
    <3>1. /\ w.op \in {8} \cup (IF "F" \in c.misa THEN {9} ELSE {})
          /\ w.op # 24 /\ w.op \notin {13, 5} /\ w.op # 27 /\ w.op # 11 /\ w.op # 28
      BY <2>4
    <3>2. imm = BitsAt(w, 7, 11, 0) \cup BitsAt(w, 25, 30, 5) \cup SignFrom(w, 11)
      BY <2>3, <2>4 DEF ImmIs
    <3> QED
      BY <2>1, <3>1, <3>2, Zenon DEF ImmediateFields, BitsAt, SignFrom, IsSet
  <2>5. ASSUME w.op = 24 PROVE ImmediateFields
    <3>1. /\ w.op \notin {8} \cup (IF "F" \in c.misa THEN {9} ELSE {})
          /\ w.op = 24 /\ w.op \notin {13, 5} /\ w.op # 27 /\ w.op # 11 /\ w.op # 28
      BY <2>5
    <3>2. imm = BitsAt(w, 8, 11, 1) \cup BitsAt(w, 25, 30, 5) \cup BitsAt(w, 7, 7, 11)
                     \cup SignFrom(w, 12)
      BY <2>3, <2>5 DEF ImmIs
    <3> QED
      BY <2>1, <3>1, <3>2, Zenon DEF ImmediateFields, BitsAt, SignFrom, IsSet
  <2>6. ASSUME w.op \in {13, 5} PROVE ImmediateFields
    <3>1. /\ w.op \notin {8} \cup (IF "F" \in c.misa THEN {9} ELSE {})
          /\ w.op \in {13, 5} /\ w.op # 24 /\ w.op # 27 /\ w.op # 11 /\ w.op # 28
      BY <2>6
    <3>2. imm = BitsAt(w, 12, 31, 12)
      BY <2>3, <2>6 DEF ImmIs
    <3> QED
      BY <2>1, <3>1, <3>2, Zenon DEF ImmediateFields, BitsAt, SignFrom, IsSet
  <2>7. ASSUME w.op = 27 PROVE ImmediateFields
    <3>1. /\ w.op \notin {8} \cup (IF "F" \in c.misa THEN {9} ELSE {})
          /\ w.op = 27 /\ w.op # 24 /\ w.op \notin {13, 5} /\ w.op # 11 /\ w.op # 28
      BY <2>7
    <3>2. imm = BitsAt(w, 21, 30, 1) \cup BitsAt(w, 20, 20, 11) \cup BitsAt(w, 12, 19, 12)
                     \cup SignFrom(w, 20)
      BY <2>3, <2>7 DEF ImmIs
    <3> QED
      BY <2>1, <3>1, <3>2, Zenon DEF ImmediateFields, BitsAt, SignFrom, IsSet
  <2>8. ASSUME w.op = 11 PROVE ImmediateFields
    <3>1. /\ w.op \notin {8} \cup (IF "F" \in c.misa THEN {9} ELSE {})
          /\ w.op = 11 /\ w.op # 24 /\ w.op \notin {13, 5} /\ w.op # 27 /\ w.op # 28
      BY <2>8
    <3>2. imm = {}
      BY <2>3, <2>8 DEF ImmIs
    <3> QED
      BY <2>1, <3>1, <3>2, Zenon DEF ImmediateFields, BitsAt, SignFrom, IsSet
  <2>9. ASSUME w.op = 28 PROVE ImmediateFields
    <3>1. /\ w.op \notin {8} \cup (IF "F" \in c.misa THEN {9} ELSE {})
          /\ w.op = 28 /\ w.op # 24 /\ w.op \notin {13, 5} /\ w.op # 27 /\ w.op # 11
      BY <2>9
    <3>2. imm \cap 0 .. 11 = BitsAt(w, 20, 31, 0)
      BY <2>3, <2>9 DEF ImmIs
    <3> QED
      BY <2>1, <3>1, <3>2, Zenon DEF ImmediateFields, BitsAt, SignFrom, IsSet
  <2>10. ASSUME w.op \notin {8, 24, 13, 5, 27, 11, 28}, ~(w.op = 9 /\ "F" \in c.misa)
         PROVE  ImmediateFields
    <3>1. /\ w.op \notin {8} \cup (IF "F" \in c.misa THEN {9} ELSE {})
          /\ w.op # 24 /\ w.op \notin {13, 5} /\ w.op # 27 /\ w.op # 11 /\ w.op # 28
      BY <2>10
    <3>2. imm = BitsAt(w, 20, 30, 0) \cup SignFrom(w, 11)
      BY <2>3, <2>10 DEF ImmIs
    <3> QED
      BY <2>1, <3>1, <3>2, Zenon DEF ImmediateFields, BitsAt, SignFrom, IsSet
  <2> QED
    BY <2>4, <2>5, <2>6, <2>7, <2>8, <2>9, <2>10
<1> QED
  BY <1>1, DecInvariant, PTL
=============================================================================
