----------------------------- MODULE MboxProofs ------------------------------
(***************************************************************************)
(* Proofs about the control of the multiply/divide unit, for every depth   *)
(* of the multiplier and of the buffers and every latency of the divider:  *)
(* types, results in issue order, and no operation lost or doubled.  Then  *)
(* the arithmetic of the divider and of the multiplier, for every width.   *)
(***************************************************************************)
EXTENDS MCMbox, Lemmas, FiniteSetTheorems

(***************************************************************************)
(* The selection of the multiplications and divisions among the entries of *)
(* ff_fuid, as a recursive function: what appending and removing an entry  *)
(* does to it.                                                             *)
(***************************************************************************)
PickStep(p, s, i) ==
    IF i = 0 THEN <<>>
    ELSE IF IsMuldiv(s[i]) THEN Append(p[i - 1], s[i]) ELSE p[i - 1]

Pick(s) == CHOOSE p : p = [i \in 0..Len(s) |-> PickStep(p, s, i)]

(* The recursive definition behind Selected has a solution on each prefix  *)
(* of the indices of s.                                                    *)
LEMMA PickExists ==
    ASSUME NEW s
    PROVE  \A n \in Nat : \E p : p = [i \in 0..n |-> PickStep(p, s, i)]
<1> DEFINE T == {n \in Nat : \E p : p = [i \in 0..n |-> PickStep(p, s, i)]}
<1>1. 0 \in T
  <2> DEFINE p == [i \in 0..0 |-> <<>>]
  <2>1. p = [i \in 0..0 |-> PickStep(p, s, i)]
    BY DEF PickStep
  <2> QED
    BY <2>1
<1>2. ASSUME NEW n \in Nat, n \in T PROVE n + 1 \in T
  <2>1. PICK p : p = [i \in 0..n |-> PickStep(p, s, i)]
    BY <1>2
  <2> DEFINE q == [i \in 0..(n + 1) |-> IF i = n + 1 THEN PickStep(p, s, n + 1) ELSE p[i]]
  <2>2. ASSUME NEW i \in 0..(n + 1) PROVE q[i] = PickStep(q, s, i)
    <3>1. CASE i = n + 1
      BY <3>1 DEF PickStep
    <3>2. CASE i \in 0..n
      <4>1. q[i] = PickStep(p, s, i)
        BY <2>1, <3>2
      <4>2. i # 0 => q[i - 1] = p[i - 1]
        BY <3>2
      <4> QED
        BY <4>1, <4>2 DEF PickStep
    <3> QED
      BY <3>1, <3>2
  <2>3. q = [i \in 0..(n + 1) |-> PickStep(q, s, i)]
    BY <2>2
  <2> HIDE DEF q
  <2>4. \E h : h = [i \in 0..(n + 1) |-> PickStep(h, s, i)]
    BY <2>3
  <2> QED
    BY <2>4
<1> HIDE DEF T
<1>3. \A n \in Nat : n \in T
  BY <1>1, <1>2, InductionOnSet
<1> QED
  BY <1>3 DEF T

(* Selected, as the last value of that solution.                           *)
LEMMA PickIsSelected ==
    ASSUME NEW E, NEW s \in Seq(E)
    PROVE  /\ Pick(s) = [i \in 0..Len(s) |-> PickStep(Pick(s), s, i)]
           /\ Selected(s) = Pick(s)[Len(s)]
<1>0. Len(s) \in Nat
  OBVIOUS
<1>1. \E p : p = [i \in 0..Len(s) |-> PickStep(p, s, i)]
  BY <1>0, PickExists
<1>2. Pick(s) = [i \in 0..Len(s) |-> PickStep(Pick(s), s, i)]
  BY <1>1 DEF Pick
<1>3. Selected(s) = Pick(s)[Len(s)]
  BY DEF Selected, Pick, PickStep
<1> QED
  BY <1>2, <1>3

(* The solution picks entries of s only, and at most as many as it has     *)
(* seen.                                                                   *)
LEMMA PickType ==
    ASSUME NEW E, NEW s \in Seq(E)
    PROVE  \A n \in 0..Len(s) : Pick(s)[n] \in Seq(E) /\ Len(Pick(s)[n]) <= n
<1> DEFINE p == Pick(s)
           T == {n \in Nat : n <= Len(s) => p[n] \in Seq(E) /\ Len(p[n]) <= n}
<1>1. p = [i \in 0..Len(s) |-> PickStep(p, s, i)]
  BY PickIsSelected
<1> HIDE DEF p
<1>2. 0 \in T
  <2>1. p[0] = <<>>
    <3>1. 0 \in 0..Len(s)
      OBVIOUS
    <3> QED
      BY <1>1, <3>1 DEF PickStep
  <2>2. p[0] \in Seq(E) /\ Len(p[0]) <= 0
    BY <2>1
  <2> QED
    BY <2>2
<1>3. ASSUME NEW n \in Nat, n \in T PROVE n + 1 \in T
  <2> SUFFICES ASSUME n + 1 <= Len(s)
               PROVE  p[n + 1] \in Seq(E) /\ Len(p[n + 1]) <= n + 1
    OBVIOUS
  <2>1. p[n] \in Seq(E) /\ Len(p[n]) <= n /\ Len(p[n]) \in Nat
    BY <1>3
  <2>2. s[n + 1] \in E
    OBVIOUS
  <2>3. p[n + 1] = IF IsMuldiv(s[n + 1]) THEN Append(p[n], s[n + 1]) ELSE p[n]
    <3>1. n + 1 \in 0..Len(s) /\ n + 1 # 0 /\ n + 1 - 1 = n
      OBVIOUS
    <3>2. p[n + 1] = PickStep(p, s, n + 1)
      BY <1>1, <3>1
    <3> QED
      BY <3>1, <3>2 DEF PickStep
  <2>4. CASE IsMuldiv(s[n + 1])
    BY <2>1, <2>2, <2>3, <2>4
  <2>5. CASE ~IsMuldiv(s[n + 1])
    BY <2>1, <2>3, <2>5
  <2> QED
    BY <2>4, <2>5
<1> HIDE DEF T
<1>4. \A n \in Nat : n \in T
  BY <1>2, <1>3, InductionOnSet
<1> QED
  BY <1>4 DEF T, p

(* One unfolding of the recursive definition.                              *)
LEMMA PickNext ==
    ASSUME NEW E, NEW s \in Seq(E), NEW n \in Nat, n < Len(s)
    PROVE  /\ Pick(s)[0] = <<>>
           /\ Pick(s)[n + 1] = IF IsMuldiv(s[n + 1]) THEN Append(Pick(s)[n], s[n + 1])
                                                     ELSE Pick(s)[n]
<1> DEFINE p == Pick(s)
<1>1. p = [i \in 0..Len(s) |-> PickStep(p, s, i)]
  BY PickIsSelected
<1> HIDE DEF p
<1>2. 0 \in 0..Len(s) /\ n + 1 \in 0..Len(s) /\ n + 1 # 0 /\ n + 1 - 1 = n
  OBVIOUS
<1>3. p[0] = PickStep(p, s, 0) /\ p[n + 1] = PickStep(p, s, n + 1)
  BY <1>1, <1>2
<1>4. p[0] = <<>>
  BY <1>3 DEF PickStep
<1>5. p[n + 1] = IF IsMuldiv(s[n + 1]) THEN Append(p[n], s[n + 1]) ELSE p[n]
  BY <1>2, <1>3 DEF PickStep
<1> QED
  BY <1>4, <1>5 DEF p

(* Nothing is picked before the first entry.                               *)
LEMMA PickZero ==
    ASSUME NEW E, NEW s \in Seq(E)
    PROVE  Pick(s)[0] = <<>>
<1> DEFINE p == Pick(s)
<1>1. p = [i \in 0..Len(s) |-> PickStep(p, s, i)]
  BY PickIsSelected
<1> HIDE DEF p
<1>2. 0 \in 0..Len(s)
  OBVIOUS
<1>3. p[0] = PickStep(p, s, 0)
  BY <1>1, <1>2
<1> QED
  BY <1>3 DEF PickStep, p

(* The selection is made of entries of s, at most as many as it has, and   *)
(* the selection of the empty FIFO is empty.                               *)
LEMMA SelectedType ==
    ASSUME NEW E, NEW s \in Seq(E)
    PROVE  Selected(s) \in Seq(E) /\ Len(Selected(s)) <= Len(s)
<1>1. Len(s) \in 0..Len(s)
  OBVIOUS
<1> QED
  BY <1>1, PickType, PickIsSelected

LEMMA SelectedEmpty == Selected(<<>>) = <<>>
<1>1. <<>> \in Seq({}) /\ Len(<<>>) = 0
  OBVIOUS
<1> QED
  BY <1>1, PickZero, PickIsSelected

(* An entry enters the selection when it enters the FIFO.                  *)
LEMMA SelectedAppend ==
    ASSUME NEW E, NEW s \in Seq(E), NEW e \in E
    PROVE  Selected(Append(s, e)) = IF IsMuldiv(e) THEN Append(Selected(s), e)
                                                   ELSE Selected(s)
<1> DEFINE t == Append(s, e)
           T == {n \in Nat : n <= Len(s) => Pick(t)[n] = Pick(s)[n]}
<1>1. /\ t \in Seq(E) /\ Len(t) = Len(s) + 1 /\ t[Len(s) + 1] = e
      /\ \A i \in 1..Len(s) : t[i] = s[i]
  BY AppendProperties
<1>2. Len(s) \in Nat
  OBVIOUS
<1> HIDE DEF t
<1>3. 0 \in T
  BY <1>1, PickZero
<1>4. ASSUME NEW n \in Nat, n \in T PROVE n + 1 \in T
  <2> SUFFICES ASSUME n + 1 <= Len(s) PROVE Pick(t)[n + 1] = Pick(s)[n + 1]
    OBVIOUS
  <2>1. n < Len(s) /\ n < Len(t) /\ t[n + 1] = s[n + 1]
    BY <1>1, <1>2
  <2>2. Pick(t)[n] = Pick(s)[n]
    BY <1>2, <1>4, <2>1
  <2>3. Pick(t)[n + 1] = IF IsMuldiv(t[n + 1]) THEN Append(Pick(t)[n], t[n + 1])
                                               ELSE Pick(t)[n]
    BY <1>1, <2>1, PickNext
  <2>4. Pick(s)[n + 1] = IF IsMuldiv(s[n + 1]) THEN Append(Pick(s)[n], s[n + 1])
                                               ELSE Pick(s)[n]
    BY <2>1, PickNext
  <2>5. CASE IsMuldiv(s[n + 1])
    BY <2>1, <2>2, <2>3, <2>4, <2>5
  <2>6. CASE ~IsMuldiv(s[n + 1])
    BY <2>1, <2>2, <2>3, <2>4, <2>6
  <2> QED
    BY <2>5, <2>6
<1> HIDE DEF T
<1>5. \A n \in Nat : n \in T
  BY <1>3, <1>4, InductionOnSet
<1>6. Pick(t)[Len(s)] = Pick(s)[Len(s)]
  BY <1>2, <1>5 DEF T
<1>7. Len(s) < Len(t)
  BY <1>1, <1>2
<1>8. Pick(t)[Len(s) + 1] = IF IsMuldiv(e) THEN Append(Pick(t)[Len(s)], e)
                                           ELSE Pick(t)[Len(s)]
  BY <1>1, <1>2, <1>7, PickNext
<1>9. Selected(s) = Pick(s)[Len(s)] /\ Selected(t) = Pick(t)[Len(s) + 1]
  BY <1>1, PickIsSelected
<1> QED
  BY <1>6, <1>8, <1>9 DEF t

(* The head of the FIFO, if it is a multiplication or a division, is the   *)
(* head of the selection, and leaves both together; another entry leaves   *)
(* the selection as it is.                                                 *)
LEMMA SelectedTail ==
    ASSUME NEW E, NEW s \in Seq(E), s # <<>>
    PROVE  /\ Tail(s) \in Seq(E)
           /\ IsMuldiv(Head(s)) => /\ Selected(s) # <<>>
                                   /\ Head(Selected(s)) = Head(s)
                                   /\ Selected(Tail(s)) = Tail(Selected(s))
           /\ ~IsMuldiv(Head(s)) => Selected(Tail(s)) = Selected(s)
<1> DEFINE t == Tail(s)
           h == Head(s)
           Good(n) == IF IsMuldiv(h) THEN /\ Pick(s)[n + 1] # <<>>
                                          /\ Head(Pick(s)[n + 1]) = h
                                          /\ Tail(Pick(s)[n + 1]) = Pick(t)[n]
                                     ELSE Pick(s)[n + 1] = Pick(t)[n]
           T == {n \in Nat : n <= Len(t) => Good(n)}
<1>1. /\ t \in Seq(E) /\ Len(t) = Len(s) - 1 /\ h \in E /\ h = s[1]
      /\ \A i \in 1..Len(t) : t[i] = s[i + 1]
  BY HeadTailProperties
<1>2. Len(s) \in Nat \ {0} /\ Len(t) \in Nat
  BY <1>1, EmptySeq
<1> HIDE DEF t, h
<1>3. 0 \in T
  <2>1. Pick(s)[0] = <<>> /\ Pick(t)[0] = <<>>
    BY <1>1, PickZero
  <2>2. 0 \in Nat /\ 0 < Len(s) /\ 0 + 1 = 1
    BY <1>2
  <2>3. Pick(s)[1] = IF IsMuldiv(h) THEN Append(<<>>, h) ELSE <<>>
    BY <1>1, <2>1, <2>2, PickNext
  <2>4. Append(<<>>, h) # <<>> /\ Head(Append(<<>>, h)) = h /\ Tail(Append(<<>>, h)) = <<>>
    BY <1>1
  <2> HIDE DEF Good
  <2>5. Good(0)
    BY <2>1, <2>2, <2>3, <2>4 DEF Good
  <2> QED
    BY <2>5
<1>4. ASSUME NEW n \in Nat, n \in T PROVE n + 1 \in T
  <2> HIDE DEF Good
  <2> SUFFICES ASSUME n + 1 <= Len(t) PROVE Good(n + 1)
    OBVIOUS
  <2>1. n + 1 < Len(s) /\ n < Len(t) /\ n + 1 \in Nat
    BY <1>1, <1>2
  <2>2. t[n + 1] = s[(n + 1) + 1] /\ s[(n + 1) + 1] \in E
    BY <1>1, <1>2, <2>1
  <2>3. Good(n)
    BY <1>2, <1>4, <2>1
  <2> DEFINE e == s[(n + 1) + 1]
  <2>4. Pick(s)[(n + 1) + 1] = IF IsMuldiv(e) THEN Append(Pick(s)[n + 1], e)
                                              ELSE Pick(s)[n + 1]
    BY <2>1, PickNext
  <2>5. Pick(t)[n + 1] = IF IsMuldiv(e) THEN Append(Pick(t)[n], e) ELSE Pick(t)[n]
    <3>1. Pick(t)[n + 1] = IF IsMuldiv(t[n + 1]) THEN Append(Pick(t)[n], t[n + 1])
                                                 ELSE Pick(t)[n]
      BY <1>1, <2>1, PickNext
    <3> QED
      BY <2>2, <3>1, Zenon
  <2>6. Pick(s)[n + 1] \in Seq(E)
    BY <2>1, PickType, SMTT(30)
  <2>7. Append(Pick(s)[n + 1], e) # <<>>
    BY <2>2, <2>6, AppendProperties
  <2>8. /\ Head(Append(Pick(s)[n + 1], e)) =
             IF Pick(s)[n + 1] = <<>> THEN e ELSE Head(Pick(s)[n + 1])
        /\ Tail(Append(Pick(s)[n + 1], e)) =
             IF Pick(s)[n + 1] = <<>> THEN <<>> ELSE Append(Tail(Pick(s)[n + 1]), e)
    BY <2>6, HeadTailAppend
  <2> HIDE DEF e
  <2> QED
    BY <2>3, <2>4, <2>5, <2>7, <2>8, Zenon DEF Good
<1> HIDE DEF T
<1>5. \A n \in Nat : n \in T
  BY <1>3, <1>4, InductionOnSet
<1> HIDE DEF Good
<1>6. Good(Len(t))
  BY <1>2, <1>5 DEF T
<1>7. Len(t) + 1 = Len(s)
  BY <1>1, <1>2
<1>8. Selected(s) = Pick(s)[Len(t) + 1] /\ Selected(t) = Pick(t)[Len(t)]
  BY <1>1, <1>7, PickIsSelected
<1>9. IF IsMuldiv(h) THEN /\ Selected(s) # <<>>
                          /\ Head(Selected(s)) = h
                          /\ Tail(Selected(s)) = Selected(t)
                     ELSE Selected(s) = Selected(t)
  BY <1>6, <1>8 DEF Good
<1> QED
  BY <1>1, <1>9 DEF t, h

(***************************************************************************)
(* Types.                                                                  *)
(***************************************************************************)
Entries == [kind : Kinds, tok : Tokens]

(* The stages of the multiplier are numbered from 1 to Last.               *)
LEMMA StagesFacts == /\ Last \in Nat \ {0} /\ Stages = 1..Last /\ OrderingSize \in Nat \ {0}
                     /\ MulIn \in Nat /\ MulOut \in Nat \ {0} /\ Last = MulIn + MulOut
                     /\ IsbS3S4 \in Nat \ {0} /\ DivStages \in Nat /\ None \notin Tokens
  BY MboxAssumption DEF Last, Stages, OrderingSize

(* rl_move_inputs, rl_perform_mul_0 and rl_move_outputs move a register    *)
(* into the next one.                                                      *)
LEMMA MoveRules ==
    ASSUME rl_move_inputs \/ rl_perform_mul_0 \/ rl_move_outputs
    PROVE  \E i \in 1..(Last - 1) : Move(i)
<1>1. CASE rl_move_inputs
  BY <1>1, StagesFacts DEF rl_move_inputs
<1>2. CASE rl_perform_mul_0
  <2>1. MulIn \in 1..(Last - 1)
    BY <1>2, StagesFacts DEF rl_perform_mul_0
  <2> QED
    BY <1>2, <2>1 DEF rl_perform_mul_0
<1>3. CASE rl_move_outputs
  BY <1>3, StagesFacts DEF rl_move_outputs
<1> QED
  BY <1>1, <1>2, <1>3

(* The multiplier's result moves to ff_mbox_out.                           *)
LEMMA CaptureMul ==
    ASSUME TypeOK, capture_mul
    PROVE  /\ ff_ordering \in Seq(BOOLEAN) /\ ff_ordering # <<>> /\ ff_ordering[1]
           /\ ff_ordering' = Tail(ff_ordering)
           /\ mul[Last] \in Tokens /\ Len(ff_mbox_out) < IsbS3S4
           /\ ff_mbox_out \in Seq(Tokens) /\ ff_mbox_out' = Append(ff_mbox_out, mul[Last])
           /\ mul' = [mul EXCEPT ![Last] = None]
           /\ UNCHANGED <<fuid, rg_count, rg_valid, div>>
<1>1. /\ ff_ordering # <<>> /\ Head(ff_ordering) /\ mul_output_valid
      /\ ff_ordering' = Tail(ff_ordering) /\ Len(ff_mbox_out) < IsbS3S4
      /\ ff_mbox_out' = Append(ff_mbox_out, mul[Last])
      /\ mul' = [mul EXCEPT ![Last] = None]
      /\ UNCHANGED <<fuid, rg_count, rg_valid, div>>
  BY Zenon DEF capture_mul
<1>2. ff_ordering \in Seq(BOOLEAN) /\ ff_mbox_out \in Seq(Tokens)
      /\ mul \in [Stages -> Tokens \union {None}]
  BY DEF TypeOK
<1>3. Head(ff_ordering) = ff_ordering[1]
  BY <1>1, <1>2, TailFacts, Zenon
<1>4. ff_ordering[1]
  BY <1>1, <1>3, Zenon
<1>5. mul[Last] # None
  BY <1>1 DEF mul_output_valid
<1>6. Last \in Stages
  BY StagesFacts
<1>7. mul[Last] \in Tokens
  BY <1>2, <1>5, <1>6
<1> QED
  BY <1>1, <1>2, <1>4, <1>7, Zenon

(* The divider's result moves to ff_mbox_out.                              *)
LEMMA CaptureDiv ==
    ASSUME TypeOK, capture_div
    PROVE  /\ ff_ordering \in Seq(BOOLEAN) /\ ff_ordering # <<>> /\ ~ff_ordering[1]
           /\ ff_ordering' = Tail(ff_ordering)
           /\ rg_valid /\ Len(ff_mbox_out) < IsbS3S4 /\ div.tok \in Tokens
           /\ ff_mbox_out \in Seq(Tokens) /\ ff_mbox_out' = Append(ff_mbox_out, div.tok)
           /\ rg_valid' = FALSE
           /\ UNCHANGED <<fuid, mul, rg_count, div>>
<1>1. /\ ff_ordering # <<>> /\ ~Head(ff_ordering) /\ rg_valid
      /\ ff_ordering' = Tail(ff_ordering) /\ Len(ff_mbox_out) < IsbS3S4
      /\ ff_mbox_out' = Append(ff_mbox_out, div.tok)
      /\ rg_valid' = FALSE
      /\ UNCHANGED <<fuid, mul, rg_count, div>>
  BY Zenon DEF capture_div
<1>2. ff_ordering \in Seq(BOOLEAN) /\ ff_mbox_out \in Seq(Tokens) /\ div.tok \in Tokens
  BY DEF TypeOK
<1>3. Head(ff_ordering) = ff_ordering[1]
  BY <1>1, <1>2, TailFacts, Zenon
<1>4. ~ff_ordering[1]
  BY <1>1, <1>3, Zenon
<1> QED
  BY <1>1, <1>2, <1>4, Zenon

(* A clock of a division either ends it or counts on.                      *)
LEMMA DivStep ==
    ASSUME single_step_div
    PROVE  /\ rg_count # 0 /\ ~rg_valid
           /\ \/ rg_count' = 0 /\ rg_valid' = TRUE
              \/ rg_count # DivStages + 1 /\ rg_count' = rg_count + 1 /\ rg_valid' = rg_valid
           /\ UNCHANGED <<fuid, mul, div, ff_ordering, ff_mbox_out>>
  BY Zenon DEF single_step_div

(* Every step keeps the types and the bounds of the FIFOs: the guards that *)
(* mv_ready, ff_fuid.notFull and ff_mbox_out.notFull stand for are enough. *)
LEMMA TypeStep ==
    ASSUME TypeOK, [Next]_vars
    PROVE  TypeOK'
<1> USE StagesFacts
<1>1. ASSUME NEW t \in Tokens, issue_mul(t) PROVE TypeOK'
  <2>1. fuid' \in Seq(Entries) /\ Len(fuid') <= IsbS3S4
    BY <1>1 DEF TypeOK, issue_mul, Entries, Kinds
  <2>2. mul' \in [Stages -> Tokens \union {None}]
    BY <1>1 DEF TypeOK, issue_mul
  <2>3. ff_ordering' \in Seq(BOOLEAN) /\ Len(ff_ordering') <= OrderingSize
    BY <1>1 DEF TypeOK, issue_mul, mul_ready
  <2> QED
    BY <1>1, <2>1, <2>2, <2>3 DEF TypeOK, issue_mul, Entries
<1>2. ASSUME NEW t \in Tokens, NEW zero \in BOOLEAN, issue_div(t, zero) PROVE TypeOK'
  <2>1. fuid' \in Seq(Entries) /\ Len(fuid') <= IsbS3S4
    BY <1>2 DEF TypeOK, issue_div, Entries, Kinds
  <2>2. rg_count' \in 0..(DivStages + 1)
    BY <1>2 DEF TypeOK, issue_div, div_ready
  <2>3. div' \in [tok : Tokens, zero : BOOLEAN]
    BY <1>2 DEF issue_div
  <2>4. ff_ordering' \in Seq(BOOLEAN) /\ Len(ff_ordering') <= OrderingSize
    BY <1>2 DEF TypeOK, issue_div, div_ready
  <2> QED
    BY <1>2, <2>1, <2>2, <2>3, <2>4 DEF TypeOK, issue_div, Entries
<1>3. ASSUME NEW t \in Tokens, issue_other(t) PROVE TypeOK'
  <2>1. fuid' \in Seq(Entries) /\ Len(fuid') <= IsbS3S4
    BY <1>3 DEF TypeOK, issue_other, Entries, Kinds
  <2> QED
    BY <1>3, <2>1 DEF TypeOK, issue_other, Entries
<1>4. CASE rl_move_inputs \/ rl_perform_mul_0 \/ rl_move_outputs
  <2>1. PICK i \in 1..(Last - 1) : Move(i)
    BY <1>4, MoveRules
  <2>2. i \in Stages /\ i + 1 \in Stages
    OBVIOUS
  <2>3. mul' \in [Stages -> Tokens \union {None}]
    BY <2>1, <2>2 DEF TypeOK, Move
  <2> QED
    BY <2>1, <2>3 DEF TypeOK, Move
<1>5. CASE single_step_div
  <2>1. /\ \/ rg_count' = 0 /\ rg_valid' = TRUE
           \/ rg_count # DivStages + 1 /\ rg_count' = rg_count + 1 /\ rg_valid' = rg_valid
        /\ UNCHANGED <<fuid, mul, div, ff_ordering, ff_mbox_out>>
    BY <1>5, DivStep, Zenon
  <2>2. rg_count \in 0..(DivStages + 1) /\ rg_valid \in BOOLEAN
    BY DEF TypeOK
  <2>3. rg_count' \in 0..(DivStages + 1)
    BY <2>1, <2>2
  <2>4. rg_valid' \in BOOLEAN
    BY <2>1, <2>2, Zenon
  <2> QED
    BY <2>1, <2>3, <2>4 DEF TypeOK
<1>6. CASE capture_mul
  <2>1. /\ ff_ordering \in Seq(BOOLEAN) /\ ff_ordering # <<>>
        /\ ff_ordering' = Tail(ff_ordering) /\ Len(ff_ordering) <= OrderingSize
    BY <1>6, CaptureMul, Zenon DEF TypeOK
  <2>2. /\ ff_mbox_out \in Seq(Tokens) /\ mul[Last] \in Tokens
        /\ ff_mbox_out' = Append(ff_mbox_out, mul[Last]) /\ Len(ff_mbox_out) < IsbS3S4
    BY <1>6, CaptureMul, Zenon
  <2>3. ff_ordering' \in Seq(BOOLEAN) /\ Len(ff_ordering') <= OrderingSize
    BY <2>1, TailFacts
  <2>4. ff_mbox_out' \in Seq(Tokens) /\ Len(ff_mbox_out') <= IsbS3S4
    BY <2>2, AppendFacts
  <2>5. mul' = [mul EXCEPT ![Last] = None] /\ UNCHANGED <<fuid, rg_count, rg_valid, div>>
    BY <1>6, CaptureMul, Zenon
  <2>6. mul' \in [Stages -> Tokens \union {None}]
    BY <2>5 DEF TypeOK
  <2> QED
    BY <2>3, <2>4, <2>5, <2>6 DEF TypeOK
<1>7. CASE capture_div
  <2>1. /\ ff_ordering \in Seq(BOOLEAN) /\ ff_ordering # <<>>
        /\ ff_ordering' = Tail(ff_ordering) /\ Len(ff_ordering) <= OrderingSize
    BY <1>7, CaptureDiv, Zenon DEF TypeOK
  <2>2. /\ ff_mbox_out \in Seq(Tokens) /\ div.tok \in Tokens
        /\ ff_mbox_out' = Append(ff_mbox_out, div.tok) /\ Len(ff_mbox_out) < IsbS3S4
    BY <1>7, CaptureDiv, Zenon
  <2>3. ff_ordering' \in Seq(BOOLEAN) /\ Len(ff_ordering') <= OrderingSize
    BY <2>1, TailFacts
  <2>4. ff_mbox_out' \in Seq(Tokens) /\ Len(ff_mbox_out') <= IsbS3S4
    BY <2>2, AppendFacts
  <2>5. rg_valid' = FALSE /\ UNCHANGED <<fuid, mul, rg_count, div>>
    BY <1>7, CaptureDiv, Zenon
  <2> QED
    BY <2>3, <2>4, <2>5 DEF TypeOK
<1>8. CASE rl_capture_muldiv
  <2>1. fuid' \in Seq(Entries) /\ Len(fuid') <= IsbS3S4
    BY <1>8 DEF TypeOK, rl_capture_muldiv, Entries
  <2>2. ff_mbox_out' \in Seq(Tokens) /\ Len(ff_mbox_out') <= IsbS3S4
    BY <1>8 DEF TypeOK, rl_capture_muldiv
  <2> QED
    BY <1>8, <2>1, <2>2 DEF TypeOK, rl_capture_muldiv, Entries
<1>9. CASE fwd_other
  <2>1. fuid' \in Seq(Entries) /\ Len(fuid') <= IsbS3S4
    BY <1>9 DEF TypeOK, fwd_other, Entries
  <2> QED
    BY <1>9, <2>1 DEF TypeOK, fwd_other, Entries
<1>10. CASE UNCHANGED vars
  BY <1>10 DEF TypeOK, vars
<1> QED
  BY <1>1, <1>2, <1>3, <1>4, <1>5, <1>6, <1>7, <1>8, <1>9, <1>10 DEF Next

(***************************************************************************)
(* The operations in flight as one queue: first those whose result waits   *)
(* in ff_mbox_out, then those ff_ordering lists.                           *)
(***************************************************************************)
Counted == Len(Muldivs) = Len(ff_mbox_out) + Len(ff_ordering)

(* The token of the i-th operation of ff_ordering.                         *)
Waiting(i) == Muldivs[Len(ff_mbox_out) + i].tok

(* The lengths involved are naturals, and the operations are entries of    *)
(* ff_fuid.                                                                *)
LEMMA QueueTypes ==
    ASSUME TypeOK
    PROVE  /\ fuid \in Seq(Entries) /\ Len(fuid) \in Nat /\ Len(fuid) <= IsbS3S4
           /\ Muldivs \in Seq(Entries) /\ Len(Muldivs) \in Nat /\ Len(Muldivs) <= Len(fuid)
           /\ ff_mbox_out \in Seq(Tokens) /\ Len(ff_mbox_out) \in Nat
           /\ ff_ordering \in Seq(BOOLEAN) /\ Len(ff_ordering) \in Nat
<1>1. fuid \in Seq(Entries) /\ Len(fuid) \in Nat /\ Len(fuid) <= IsbS3S4
  BY DEF TypeOK, Entries
<1>2. Muldivs \in Seq(Entries) /\ Len(Muldivs) <= Len(fuid)
  BY <1>1, SelectedType DEF Muldivs
<1>3. Len(Muldivs) \in Nat
  BY <1>2
<1>4. ff_mbox_out \in Seq(Tokens) /\ Len(ff_mbox_out) \in Nat
  BY DEF TypeOK
<1>5. ff_ordering \in Seq(BOOLEAN) /\ Len(ff_ordering) \in Nat
  BY DEF TypeOK
<1> QED
  BY <1>1, <1>2, <1>3, <1>4, <1>5

(* An operation issued joins the end of the queue.                         *)
LEMMA QueueEnters ==
    ASSUME TypeOK, Counted, ResultsInIssueOrder,
           NEW t \in Tokens, NEW k \in {"mul", "div"}, NEW b \in BOOLEAN,
           fuid' = Append(fuid, [kind |-> k, tok |-> t]),
           ff_mbox_out' = ff_mbox_out, ff_ordering' = Append(ff_ordering, b)
    PROVE  /\ Counted' /\ ResultsInIssueOrder'
           /\ \A i \in 1..Len(ff_ordering) : Waiting(i)' = Waiting(i)
           /\ \A i \in Nat : i = Len(ff_ordering) + 1 => Waiting(i)' = t
<1> DEFINE e == [kind |-> k, tok |-> t]
           n == Len(ff_mbox_out)
<1>1. e \in Entries /\ e.tok = t /\ IsMuldiv(e)
  BY DEF Entries, Kinds, IsMuldiv
<1>2. Muldivs' = Append(Muldivs, e)
  <2>1. Selected(Append(fuid, e)) = Append(Selected(fuid), e)
    BY <1>1, QueueTypes, SelectedAppend
  <2> QED
    BY <2>1 DEF Muldivs
<1> HIDE DEF e
<1>3. /\ Len(Muldivs') = Len(Muldivs) + 1 /\ Muldivs'[Len(Muldivs) + 1] = e
      /\ \A i \in 1..Len(Muldivs) : Muldivs'[i] = Muldivs[i]
  BY <1>1, <1>2, QueueTypes, AppendFacts
<1>4. Len(ff_ordering') = Len(ff_ordering) + 1
  BY QueueTypes, AppendFacts
<1>5. n \in Nat /\ Len(Muldivs) \in Nat /\ Len(ff_ordering) \in Nat
      /\ Len(Muldivs) = n + Len(ff_ordering)
  BY QueueTypes DEF Counted
<1> HIDE DEF n
<1>6. Counted'
  BY <1>3, <1>4, <1>5 DEF Counted, n
<1>7. ResultsInIssueOrder'
  <2>1. \A i \in 1..n : i <= Len(Muldivs) /\ ff_mbox_out[i] = Muldivs[i].tok
    BY DEF ResultsInIssueOrder, n
  <2>2. \A i \in 1..n : i <= Len(Muldivs') /\ ff_mbox_out[i] = Muldivs'[i].tok
    BY <1>3, <1>5, <2>1
  <2> QED
    BY <2>2 DEF ResultsInIssueOrder, n
<1>8. ASSUME NEW i \in 1..Len(ff_ordering) PROVE Waiting(i)' = Waiting(i)
  <2>1. n + i \in 1..Len(Muldivs)
    BY <1>5
  <2> QED
    BY <1>3, <2>1 DEF Waiting, n
<1>9. ASSUME NEW i \in Nat, i = Len(ff_ordering) + 1 PROVE Waiting(i)' = t
  <2>1. n + i = Len(Muldivs) + 1
    BY <1>5, <1>9
  <2>2. Waiting(i)' = Muldivs'[n + i].tok
    BY DEF Waiting, n
  <2> QED
    BY <1>1, <1>3, <2>1, <2>2
<1> QED
  BY <1>6, <1>7, <1>8, <1>9

(* The result of the oldest operation of ff_ordering moves to ff_mbox_out. *)
LEMMA QueueFinishes ==
    ASSUME TypeOK, Counted, ResultsInIssueOrder, NEW t \in Tokens,
           fuid' = fuid, ff_ordering # <<>>, ff_ordering' = Tail(ff_ordering),
           ff_mbox_out' = Append(ff_mbox_out, t), t = Waiting(1)
    PROVE  /\ Counted' /\ ResultsInIssueOrder'
           /\ \A i \in 1..(Len(ff_ordering) - 1) : Waiting(i)' = Waiting(i + 1)
<1> DEFINE n == Len(ff_mbox_out)
<1>1. Muldivs' = Muldivs
  BY DEF Muldivs
<1>2. /\ Len(ff_mbox_out') = n + 1 /\ ff_mbox_out'[n + 1] = t
      /\ \A i \in 1..n : ff_mbox_out'[i] = ff_mbox_out[i]
  BY QueueTypes, AppendFacts
<1>3. Len(ff_ordering') = Len(ff_ordering) - 1 /\ Len(ff_ordering) \in Nat \ {0}
  BY QueueTypes, TailFacts, Zenon
<1>4. n \in Nat /\ Len(Muldivs) \in Nat /\ Len(Muldivs) = n + Len(ff_ordering)
  BY QueueTypes DEF Counted
<1>5. t = Muldivs[n + 1].tok
  BY DEF Waiting
<1>6. \A i \in 1..n : i <= Len(Muldivs) /\ ff_mbox_out[i] = Muldivs[i].tok
  BY DEF ResultsInIssueOrder
<1> HIDE DEF n
<1>7. Counted'
  BY <1>1, <1>2, <1>3, <1>4 DEF Counted
<1>8. ResultsInIssueOrder'
  <2>1. ASSUME NEW i \in 1..(n + 1)
        PROVE  i <= Len(Muldivs) /\ ff_mbox_out'[i] = Muldivs[i].tok
    <3>1. CASE i = n + 1
      BY <1>2, <1>3, <1>4, <1>5, <3>1
    <3>2. CASE i \in 1..n
      BY <1>2, <1>6, <3>2
    <3>3. i = n + 1 \/ i \in 1..n
      BY <1>4
    <3> QED
      BY <3>1, <3>2, <3>3
  <2> QED
    BY <1>1, <1>2, <2>1 DEF ResultsInIssueOrder
<1>9. ASSUME NEW i \in 1..(Len(ff_ordering) - 1) PROVE Waiting(i)' = Waiting(i + 1)
  <2>1. (n + 1) + i = n + (i + 1)
    BY <1>3, <1>4
  <2>2. Waiting(i)' = Muldivs[(n + 1) + i].tok
    BY <1>1, <1>2 DEF Waiting
  <2>3. Waiting(i + 1) = Muldivs[n + (i + 1)].tok
    BY DEF Waiting, n
  <2> QED
    BY <2>1, <2>2, <2>3
<1> QED
  BY <1>7, <1>8, <1>9

(* stage4 collects the oldest result, and with it the oldest operation.    *)
LEMMA QueueCollects ==
    ASSUME TypeOK, Counted, ResultsInIssueOrder, rl_capture_muldiv
    PROVE  /\ Counted' /\ ResultsInIssueOrder'
           /\ \A i \in 1..Len(ff_ordering) : Waiting(i)' = Waiting(i)
<1> DEFINE n == Len(ff_mbox_out)
<1>1. /\ fuid # <<>> /\ IsMuldiv(Head(fuid)) /\ ff_mbox_out # <<>>
      /\ fuid' = Tail(fuid) /\ ff_mbox_out' = Tail(ff_mbox_out) /\ ff_ordering' = ff_ordering
  BY DEF rl_capture_muldiv, IsMuldiv
<1>2. Muldivs # <<>> /\ Muldivs' = Tail(Muldivs)
  <2>1. Selected(fuid) # <<>> /\ Selected(Tail(fuid)) = Tail(Selected(fuid))
    BY <1>1, QueueTypes, SelectedTail
  <2> QED
    BY <1>1, <2>1 DEF Muldivs
<1>3. /\ Len(Muldivs') = Len(Muldivs) - 1 /\ Len(Muldivs) \in Nat \ {0}
      /\ \A i \in 1..(Len(Muldivs) - 1) : Muldivs'[i] = Muldivs[i + 1]
  BY <1>2, QueueTypes, TailFacts
<1>4. /\ Len(ff_mbox_out') = n - 1 /\ n \in Nat \ {0}
      /\ \A i \in 1..(n - 1) : ff_mbox_out'[i] = ff_mbox_out[i + 1]
  BY <1>1, QueueTypes, TailFacts
<1>5. Len(ff_ordering) \in Nat /\ Len(Muldivs) = n + Len(ff_ordering)
  BY QueueTypes DEF Counted
<1>6. \A i \in 1..n : i <= Len(Muldivs) /\ ff_mbox_out[i] = Muldivs[i].tok
  BY DEF ResultsInIssueOrder
<1> HIDE DEF n
<1>7. Counted'
  BY <1>1, <1>3, <1>4, <1>5 DEF Counted
<1>8. ResultsInIssueOrder'
  <2>1. ASSUME NEW i \in 1..(n - 1)
        PROVE  i <= Len(Muldivs') /\ ff_mbox_out'[i] = Muldivs'[i].tok
    <3>1. i + 1 \in 1..n /\ i \in 1..(Len(Muldivs) - 1)
      BY <1>4, <1>5
    <3>2. ff_mbox_out'[i] = ff_mbox_out[i + 1] /\ ff_mbox_out[i + 1] = Muldivs[i + 1].tok
      BY <1>4, <1>6, <3>1
    <3>3. Muldivs'[i] = Muldivs[i + 1]
      BY <1>3, <3>1
    <3>4. i <= Len(Muldivs')
      BY <1>3, <3>1
    <3> QED
      BY <3>2, <3>3, <3>4
  <2> QED
    BY <1>4, <2>1 DEF ResultsInIssueOrder
<1>9. ASSUME NEW i \in 1..Len(ff_ordering) PROVE Waiting(i)' = Waiting(i)
  <2>1. (n - 1) + i \in 1..(Len(Muldivs) - 1) /\ ((n - 1) + i) + 1 = n + i
    BY <1>4, <1>5
  <2>2. Waiting(i)' = Muldivs'[(n - 1) + i].tok
    BY <1>4 DEF Waiting
  <2>3. Waiting(i) = Muldivs[n + i].tok
    BY DEF Waiting, n
  <2>4. Muldivs'[(n - 1) + i] = Muldivs[n + i]
    BY <1>3, <2>1
  <2> QED
    BY <2>2, <2>3, <2>4
<1> QED
  BY <1>7, <1>8, <1>9

(* Nothing else disturbs the queue.                                        *)
LEMMA QueueStays ==
    ASSUME Counted, ResultsInIssueOrder, Muldivs' = Muldivs,
           ff_mbox_out' = ff_mbox_out, ff_ordering' = ff_ordering
    PROVE  /\ Counted' /\ ResultsInIssueOrder'
           /\ \A i \in 1..Len(ff_ordering) : Waiting(i)' = Waiting(i)
  BY DEF Counted, ResultsInIssueOrder, Waiting

(* An instruction that is no multiplication or division leaves the queue   *)
(* as it is, entering and leaving ff_fuid.                                 *)
LEMMA OthersPass ==
    ASSUME TypeOK, (\E t \in Tokens : issue_other(t)) \/ fwd_other
    PROVE  Muldivs' = Muldivs /\ UNCHANGED <<mul, rg_count, rg_valid, div, ff_ordering, ff_mbox_out>>
<1>1. ASSUME NEW t \in Tokens, issue_other(t) PROVE Muldivs' = Muldivs
  <2> DEFINE e == [kind |-> "other", tok |-> t]
  <2>1. e \in Entries /\ ~IsMuldiv(e)
    BY DEF Entries, Kinds, IsMuldiv
  <2>2. fuid' = Append(fuid, e)
    BY <1>1 DEF issue_other
  <2> HIDE DEF e
  <2>3. Selected(Append(fuid, e)) = Selected(fuid)
    BY <2>1, QueueTypes, SelectedAppend
  <2> QED
    BY <2>2, <2>3 DEF Muldivs
<1>2. CASE fwd_other
  <2>1. fuid # <<>> /\ ~IsMuldiv(Head(fuid)) /\ fuid' = Tail(fuid)
    BY <1>2 DEF fwd_other, IsMuldiv
  <2>2. Selected(Tail(fuid)) = Selected(fuid)
    BY <2>1, QueueTypes, SelectedTail
  <2>3. Muldivs' = Muldivs
    BY <2>1, <2>2 DEF Muldivs
  <2> QED
    BY <1>2, <2>3 DEF fwd_other
<1>3. ASSUME NEW t \in Tokens, issue_other(t)
      PROVE  UNCHANGED <<mul, rg_count, rg_valid, div, ff_ordering, ff_mbox_out>>
  BY <1>3 DEF issue_other
<1> QED
  BY <1>1, <1>2, <1>3

(***************************************************************************)
(* What the units hold.  The i-th TRUE of ff_ordering belongs to the i-th  *)
(* occupied register of the multiplier counted from its output, and a      *)
(* FALSE to the divider.                                                   *)
(***************************************************************************)
Trues == {i \in 1..Len(ff_ordering) : ff_ordering[i]}

Held(f) ==
    /\ f \in [MulsHeld -> Trues]
    /\ \A s, t \in MulsHeld : s < t => f[t] < f[s]
    /\ \A i \in Trues : \E s \in MulsHeld : f[s] = i
    /\ \A s \in MulsHeld : mul[s] = Waiting(f[s])

DivHeld ==
    /\ rg_valid => rg_count = 0
    /\ rg_count # 0 \/ rg_valid => \E i \in 1..Len(ff_ordering) : ~ff_ordering[i]
    /\ \A i \in 1..Len(ff_ordering) :
         ~ff_ordering[i] => (rg_count # 0 \/ rg_valid) /\ div.tok = Waiting(i)
    /\ \A i, j \in 1..Len(ff_ordering) : ~ff_ordering[i] /\ ~ff_ordering[j] => i = j

(* A multiplication enters the first register and the end of ff_ordering.  *)
LEMMA HeldIssueMul ==
    ASSUME TypeOK, Counted, ResultsInIssueOrder, NEW f, Held(f),
           NEW t \in Tokens, issue_mul(t)
    PROVE  \E g : Held(g)'
<1> DEFINE N == Len(ff_ordering)
<1>1. N \in Nat /\ ff_ordering' = Append(ff_ordering, TRUE) /\ ff_ordering \in Seq(BOOLEAN)
  BY QueueTypes DEF issue_mul
<1>2. /\ Len(ff_ordering') = N + 1 /\ ff_ordering'[N + 1] = TRUE
      /\ \A i \in 1..N : ff_ordering'[i] = ff_ordering[i]
  BY <1>1, AppendFacts
<1>3. Trues' = Trues \union {N + 1} /\ Trues \subseteq 1..N
  BY <1>1, <1>2 DEF Trues
<1>4. /\ mul \in [Stages -> Tokens \union {None}] /\ mul[1] = None
      /\ mul' = [mul EXCEPT ![1] = t] /\ 1 \in Stages /\ Stages = 1..Last
  BY StagesFacts DEF TypeOK, issue_mul, mul_ready
<1>5. /\ MulsHeld' = MulsHeld \union {1} /\ 1 \notin MulsHeld /\ MulsHeld \subseteq 1..Last
      /\ mul'[1] = t /\ \A s \in MulsHeld : mul'[s] = mul[s]
  BY <1>4, StagesFacts DEF MulsHeld
<1>6. /\ \A i \in 1..N : Waiting(i)' = Waiting(i)
      /\ \A i \in Nat : i = N + 1 => Waiting(i)' = t
  BY QueueEnters DEF issue_mul
<1>7. /\ f \in [MulsHeld -> Trues]
      /\ \A s, u \in MulsHeld : s < u => f[u] < f[s]
      /\ \A i \in Trues : \E s \in MulsHeld : f[s] = i
      /\ \A s \in MulsHeld : mul[s] = Waiting(f[s])
  BY DEF Held
<1> HIDE DEF N
<1>8. PICK g : g = [s \in MulsHeld \union {1} |-> IF s = 1 THEN N + 1 ELSE f[s]]
  OBVIOUS
<1>9. g[1] = N + 1 /\ \A s \in MulsHeld : g[s] = f[s] /\ f[s] \in 1..N
  BY <1>3, <1>5, <1>7, <1>8
<1>10. g \in [MulsHeld' -> Trues']
  BY <1>3, <1>5, <1>7, <1>8
<1>11. ASSUME NEW s \in MulsHeld', NEW u \in MulsHeld', s < u PROVE g[u] < g[s]
  <2>1. s \in 1..Last /\ u \in 1..Last
    <3>1. MulsHeld' \subseteq 1..Last
      BY <1>4, <1>5, Zenon
    <3> QED
      BY <3>1, Zenon
  <2>2. u \in MulsHeld
    BY <1>5, <1>11, <2>1
  <2>3. CASE s = 1
    BY <1>1, <1>9, <2>2, <2>3
  <2>4. CASE s \in MulsHeld
    BY <1>7, <1>9, <1>11, <2>2, <2>4
  <2> QED
    BY <1>5, <2>3, <2>4
<1>12. ASSUME NEW i \in Trues' PROVE \E s \in MulsHeld' : g[s] = i
  BY <1>3, <1>5, <1>7, <1>9
<1>13. ASSUME NEW s \in MulsHeld' PROVE mul'[s] = Waiting(g[s])'
  <2>1. CASE s = 1
    BY <1>1, <1>5, <1>6, <1>9, <2>1
  <2>2. CASE s \in MulsHeld
    BY <1>5, <1>6, <1>7, <1>9, <2>2
  <2> QED
    BY <1>5, <2>1, <2>2
<1> QED
  BY <1>10, <1>11, <1>12, <1>13 DEF Held

(* A step that leaves the multiplier alone, and adds to ff_ordering at     *)
(* most a FALSE, changes nothing of what the multiplier holds.             *)
LEMMA HeldStays ==
    ASSUME NEW f, Held(f), mul' = mul, Trues' = Trues,
           \A i \in 1..Len(ff_ordering) : Waiting(i)' = Waiting(i)
    PROVE  Held(f)'
<1>1. MulsHeld' = MulsHeld
  BY DEF MulsHeld
<1>2. \A s \in MulsHeld : f[s] \in 1..Len(ff_ordering)
  BY DEF Held, Trues
<1>3. \A s \in MulsHeld : mul'[s] = Waiting(f[s])'
  BY <1>2 DEF Held
<1> QED
  BY <1>1, <1>3 DEF Held

(* A register moves into the next one: the order of the registers stays.   *)
LEMMA HeldMove ==
    ASSUME TypeOK, NEW f, Held(f), NEW k \in 1..(Last - 1), Move(k)
    PROVE  \E g : Held(g)'
<1>1. /\ mul \in [Stages -> Tokens \union {None}] /\ mul[k] # None /\ mul[k + 1] = None
      /\ mul' = [mul EXCEPT ![k] = None, ![k + 1] = mul[k]]
      /\ k \in Stages /\ k + 1 \in Stages /\ k # k + 1 /\ Stages = 1..Last
  BY StagesFacts DEF TypeOK, Move
<1>2. /\ MulsHeld' = (MulsHeld \ {k}) \union {k + 1} /\ k \in MulsHeld /\ k + 1 \notin MulsHeld
      /\ MulsHeld \subseteq 1..Last /\ mul'[k + 1] = mul[k]
      /\ \A s \in MulsHeld \ {k} : mul'[s] = mul[s]
  BY <1>1 DEF MulsHeld
<1>3. ff_ordering' = ff_ordering /\ ff_mbox_out' = ff_mbox_out /\ Muldivs' = Muldivs
  BY DEF Move, Muldivs
<1>4. Trues' = Trues /\ \A i : Waiting(i)' = Waiting(i)
  BY <1>3 DEF Trues, Waiting
<1>5. /\ f \in [MulsHeld -> Trues]
      /\ \A s, u \in MulsHeld : s < u => f[u] < f[s]
      /\ \A i \in Trues : \E s \in MulsHeld : f[s] = i
      /\ \A s \in MulsHeld : mul[s] = Waiting(f[s])
  BY DEF Held
<1>6. PICK g : g = [s \in (MulsHeld \ {k}) \union {k + 1} |-> IF s = k + 1 THEN f[k] ELSE f[s]]
  OBVIOUS
<1>7. g[k + 1] = f[k] /\ \A s \in MulsHeld \ {k} : g[s] = f[s]
  BY <1>2, <1>6
<1>8. g \in [MulsHeld' -> Trues']
  BY <1>2, <1>4, <1>5, <1>6
<1>9. ASSUME NEW s \in MulsHeld', NEW u \in MulsHeld', s < u PROVE g[u] < g[s]
  <2>1. s \in Int /\ u \in Int /\ k \in Int
    BY <1>2, StagesFacts
  <2>2. CASE s = k + 1
    <3>1. u \in MulsHeld \ {k} /\ k < u
      BY <1>2, <1>9, <2>1, <2>2
    <3> QED
      BY <1>2, <1>5, <1>7, <2>2, <3>1
  <2>3. CASE u = k + 1
    <3>1. s \in MulsHeld \ {k} /\ s < k
      BY <1>2, <1>9, <2>1, <2>3
    <3> QED
      BY <1>2, <1>5, <1>7, <2>3, <3>1
  <2>4. CASE s # k + 1 /\ u # k + 1
    BY <1>2, <1>5, <1>7, <1>9, <2>4
  <2> QED
    BY <2>2, <2>3, <2>4
<1>10. ASSUME NEW i \in Trues' PROVE \E s \in MulsHeld' : g[s] = i
  <2>1. PICK s \in MulsHeld : f[s] = i
    BY <1>4, <1>5
  <2>2. CASE s = k
    BY <1>2, <1>7, <2>1, <2>2
  <2>3. CASE s # k
    BY <1>2, <1>7, <2>1, <2>3
  <2> QED
    BY <2>2, <2>3
<1>11. ASSUME NEW s \in MulsHeld' PROVE mul'[s] = Waiting(g[s])'
  <2>1. CASE s = k + 1
    BY <1>2, <1>4, <1>5, <1>7, <2>1
  <2>2. CASE s \in MulsHeld \ {k}
    BY <1>2, <1>4, <1>5, <1>7, <2>2
  <2> QED
    BY <1>2, <2>1, <2>2
<1> QED
  BY <1>8, <1>9, <1>10, <1>11 DEF Held

(* The oldest entry of ff_ordering leaves, and the register that holds its *)
(* operation, if any, is emptied.                                          *)
LEMMA HeldCapture ==
    ASSUME TypeOK, NEW f, Held(f), ff_ordering # <<>>, ff_ordering' = Tail(ff_ordering),
           \A i \in 1..(Len(ff_ordering) - 1) : Waiting(i)' = Waiting(i + 1),
           MulsHeld' = {s \in MulsHeld : f[s] # 1},
           \A s \in MulsHeld' : mul'[s] = mul[s]
    PROVE  \E g : Held(g)'
<1> DEFINE N == Len(ff_ordering)
<1>1. /\ N \in Nat \ {0} /\ Len(ff_ordering') = N - 1
      /\ \A i \in 1..(N - 1) : ff_ordering'[i] = ff_ordering[i + 1]
  BY QueueTypes, TailFacts, Zenon
<1> HIDE DEF N
<1>2. \A i \in 1..(N - 1) : i \in Trues' <=> i + 1 \in Trues
  BY <1>1 DEF Trues, N
<1>3. Trues \subseteq 1..N /\ Trues' \subseteq 1..(N - 1)
  BY <1>1 DEF Trues, N
<1>4. /\ f \in [MulsHeld -> Trues]
      /\ \A s, u \in MulsHeld : s < u => f[u] < f[s]
      /\ \A i \in Trues : \E s \in MulsHeld : f[s] = i
      /\ \A s \in MulsHeld : mul[s] = Waiting(f[s])
  BY DEF Held
<1>5. PICK g : g = [s \in MulsHeld' |-> f[s] - 1]
  OBVIOUS
<1>6. ASSUME NEW s \in MulsHeld'
      PROVE  /\ s \in MulsHeld /\ g[s] = f[s] - 1 /\ f[s] = g[s] + 1
             /\ g[s] \in 1..(N - 1) /\ g[s] \in Trues'
  <2>1. f[s] \in Trues /\ f[s] \in 1..N /\ f[s] # 1 /\ s \in MulsHeld
    BY <1>3, <1>4
  <2>2. g[s] = f[s] - 1 /\ f[s] - 1 \in 1..(N - 1) /\ (f[s] - 1) + 1 = f[s]
    BY <1>1, <1>5, <2>1
  <2> QED
    BY <1>2, <2>1, <2>2
<1>7. g \in [MulsHeld' -> Trues']
  BY <1>5, <1>6
<1>8. ASSUME NEW s \in MulsHeld', NEW u \in MulsHeld', s < u PROVE g[u] < g[s]
  <2>1. f[u] < f[s]
    BY <1>4, <1>6, <1>8
  <2>2. g[u] \in Int /\ g[s] \in Int /\ f[u] = g[u] + 1 /\ f[s] = g[s] + 1
    BY <1>6
  <2> QED
    BY <2>1, <2>2
<1>9. ASSUME NEW i \in Trues' PROVE \E s \in MulsHeld' : g[s] = i
  <2>1. i \in 1..(N - 1) /\ i + 1 \in Trues
    BY <1>2, <1>3
  <2>2. PICK s \in MulsHeld : f[s] = i + 1
    BY <1>4, <2>1
  <2>3. s \in MulsHeld'
    BY <2>1, <2>2
  <2>4. g[s] = i
    BY <1>6, <2>1, <2>2, <2>3
  <2> QED
    BY <2>3, <2>4
<1>10. ASSUME NEW s \in MulsHeld' PROVE mul'[s] = Waiting(g[s])'
  <2>1. Waiting(g[s])' = Waiting(g[s] + 1)
    BY <1>6 DEF N
  <2>2. mul[s] = Waiting(f[s]) /\ f[s] = g[s] + 1
    BY <1>4, <1>6
  <2> QED
    BY <2>1, <2>2
<1> QED
  BY <1>7, <1>8, <1>9, <1>10 DEF Held

(* When a multiplication is at the head of ff_ordering, the last register  *)
(* of the multiplier holds that one.                                       *)
LEMMA LastIsOldest ==
    ASSUME TypeOK, NEW f, Held(f), ff_ordering # <<>>, ff_ordering[1], mul[Last] \in Tokens
    PROVE  /\ Last \in MulsHeld /\ mul[Last] = Waiting(1)
           /\ \A s \in MulsHeld : f[s] = 1 <=> s = Last
<1>1. /\ f \in [MulsHeld -> Trues]
      /\ \A s, u \in MulsHeld : s < u => f[u] < f[s]
      /\ \A i \in Trues : \E s \in MulsHeld : f[s] = i
      /\ \A s \in MulsHeld : mul[s] = Waiting(f[s])
  BY DEF Held
<1>2. Len(ff_ordering) \in Nat \ {0}
  BY QueueTypes, TailFacts, Zenon
<1>3. 1 \in Trues
  BY <1>2 DEF Trues
<1>4. Trues \subseteq Nat \ {0}
  BY DEF Trues
<1>5. Last \in MulsHeld /\ MulsHeld \subseteq 1..Last /\ Last \in Nat
  BY StagesFacts DEF MulsHeld
<1>6. PICK s \in MulsHeld : f[s] = 1
  BY <1>1, <1>3
<1>7. s = Last
  <2>1. f[Last] \in Nat \ {0}
    BY <1>1, <1>4, <1>5
  <2>2. ~(f[Last] < f[s])
    BY <1>6, <2>1
  <2>3. ~(s < Last) /\ s \in 1..Last
    BY <1>1, <1>5, <2>2
  <2> QED
    BY <1>5, <2>3
<1>8. f[Last] = 1
  BY <1>6, <1>7
<1>9. ASSUME NEW u \in MulsHeld, u # Last PROVE f[u] # 1
  <2>1. u < Last
    BY <1>5, <1>9
  <2>2. 1 < f[u]
    BY <1>1, <1>5, <1>8, <2>1
  <2> QED
    BY <2>2
<1> QED
  BY <1>1, <1>5, <1>8, <1>9

(* Collecting a product keeps the queue and what the units hold in step.   *)
LEMMA CaptureMulStep ==
    ASSUME TypeOK, Counted, ResultsInIssueOrder, NEW f, Held(f), capture_mul
    PROVE  /\ Counted' /\ ResultsInIssueOrder' /\ \E g : Held(g)'
           /\ \A i \in 1..(Len(ff_ordering) - 1) : Waiting(i)' = Waiting(i + 1)
<1>1. ff_ordering # <<>> /\ ff_ordering[1] /\ mul[Last] \in Tokens
      /\ ff_ordering' = Tail(ff_ordering) /\ ff_mbox_out' = Append(ff_mbox_out, mul[Last])
      /\ mul' = [mul EXCEPT ![Last] = None] /\ fuid' = fuid
  BY CaptureMul, Zenon
<1>2. /\ Last \in MulsHeld /\ mul[Last] = Waiting(1)
      /\ \A s \in MulsHeld : f[s] = 1 <=> s = Last
  BY <1>1, LastIsOldest
<1>3. /\ Counted' /\ ResultsInIssueOrder'
      /\ \A i \in 1..(Len(ff_ordering) - 1) : Waiting(i)' = Waiting(i + 1)
  BY <1>1, <1>2, QueueFinishes
<1>4. mul \in [Stages -> Tokens \union {None}] /\ Last \in Stages
  BY StagesFacts DEF TypeOK
<1>5. MulsHeld' = MulsHeld \ {Last} /\ \A s \in MulsHeld' : mul'[s] = mul[s]
  BY <1>1, <1>4 DEF MulsHeld
<1>6. MulsHeld' = {s \in MulsHeld : f[s] # 1}
  BY <1>2, <1>5
<1>7. \E g : Held(g)'
  BY <1>1, <1>3, <1>5, <1>6, HeldCapture
<1> QED
  BY <1>3, <1>7

(* Collecting a quotient does too.                                         *)
LEMMA CaptureDivStep ==
    ASSUME TypeOK, Counted, ResultsInIssueOrder, NEW f, Held(f), DivHeld, capture_div
    PROVE  /\ Counted' /\ ResultsInIssueOrder' /\ \E g : Held(g)'
           /\ \A i \in 1..(Len(ff_ordering) - 1) : Waiting(i)' = Waiting(i + 1)
<1>1. ff_ordering # <<>> /\ ~ff_ordering[1] /\ div.tok \in Tokens
      /\ ff_ordering' = Tail(ff_ordering) /\ ff_mbox_out' = Append(ff_mbox_out, div.tok)
      /\ mul' = mul /\ fuid' = fuid
  BY CaptureDiv, Zenon
<1>2. Len(ff_ordering) \in Nat \ {0}
  BY <1>1, QueueTypes, TailFacts, Zenon
<1>3. div.tok = Waiting(1)
  BY <1>1, <1>2 DEF DivHeld
<1>4. /\ Counted' /\ ResultsInIssueOrder'
      /\ \A i \in 1..(Len(ff_ordering) - 1) : Waiting(i)' = Waiting(i + 1)
  BY <1>1, <1>3, QueueFinishes
<1>5. \A s \in MulsHeld : f[s] # 1
  BY <1>1 DEF Held, Trues
<1>6. MulsHeld' = {s \in MulsHeld : f[s] # 1} /\ \A s \in MulsHeld' : mul'[s] = mul[s]
  BY <1>1, <1>5 DEF MulsHeld
<1>7. \E g : Held(g)'
  BY <1>1, <1>4, <1>6, HeldCapture
<1> QED
  BY <1>4, <1>7

(* A step that changes neither ff_ordering nor whether the divider is busy *)
(* with the operation it has.                                              *)
LEMMA DivHeldStays ==
    ASSUME DivHeld, ff_ordering' = ff_ordering, div' = div,
           \A i \in 1..Len(ff_ordering) : Waiting(i)' = Waiting(i),
           rg_valid' => rg_count' = 0,
           (rg_count' # 0 \/ rg_valid') <=> (rg_count # 0 \/ rg_valid)
    PROVE  DivHeld'
<1>1. /\ rg_count # 0 \/ rg_valid => \E i \in 1..Len(ff_ordering) : ~ff_ordering[i]
      /\ \A i \in 1..Len(ff_ordering) :
           ~ff_ordering[i] => (rg_count # 0 \/ rg_valid) /\ div.tok = Waiting(i)
      /\ \A i, j \in 1..Len(ff_ordering) : ~ff_ordering[i] /\ ~ff_ordering[j] => i = j
  BY DEF DivHeld
<1>2. \A i \in 1..Len(ff_ordering) :
           ~ff_ordering[i] => (rg_count' # 0 \/ rg_valid') /\ div'.tok = Waiting(i)'
  BY <1>1
<1> QED
  BY <1>1, <1>2 DEF DivHeld

(* A multiplication does not concern the divider.                          *)
LEMMA DivHeldIssueMul ==
    ASSUME TypeOK, Counted, ResultsInIssueOrder, DivHeld, NEW t \in Tokens, issue_mul(t)
    PROVE  DivHeld'
<1> DEFINE N == Len(ff_ordering)
<1>1. N \in Nat /\ ff_ordering' = Append(ff_ordering, TRUE) /\ ff_ordering \in Seq(BOOLEAN)
      /\ rg_count' = rg_count /\ rg_valid' = rg_valid /\ div' = div
  BY QueueTypes DEF issue_mul
<1>2. /\ Len(ff_ordering') = N + 1 /\ ff_ordering'[N + 1] = TRUE
      /\ \A i \in 1..N : ff_ordering'[i] = ff_ordering[i]
  BY <1>1, AppendFacts
<1>3. \A i \in 1..N : Waiting(i)' = Waiting(i)
  BY QueueEnters DEF issue_mul
<1>4. /\ rg_valid => rg_count = 0
      /\ rg_count # 0 \/ rg_valid => \E i \in 1..N : ~ff_ordering[i]
      /\ \A i \in 1..N : ~ff_ordering[i] => (rg_count # 0 \/ rg_valid) /\ div.tok = Waiting(i)
      /\ \A i, j \in 1..N : ~ff_ordering[i] /\ ~ff_ordering[j] => i = j
  BY DEF DivHeld
<1> HIDE DEF N
<1>5. \A i \in 1..(N + 1) : ~ff_ordering'[i] => i \in 1..N /\ ~ff_ordering[i]
  BY <1>1, <1>2
<1>6. 1..N \subseteq 1..(N + 1)
  BY <1>1
<1>7. rg_count' # 0 \/ rg_valid' => \E i \in 1..(N + 1) : ~ff_ordering'[i]
  BY <1>1, <1>2, <1>4, <1>6
<1>8. \A i \in 1..(N + 1) :
        ~ff_ordering'[i] => (rg_count' # 0 \/ rg_valid') /\ div'.tok = Waiting(i)'
  BY <1>1, <1>3, <1>4, <1>5
<1>9. \A i, j \in 1..(N + 1) : ~ff_ordering'[i] /\ ~ff_ordering'[j] => i = j
  BY <1>4, <1>5
<1> QED
  BY <1>1, <1>2, <1>4, <1>7, <1>8, <1>9 DEF DivHeld

(* A division is accepted only when the divider is empty, so ff_ordering   *)
(* holds no other one.                                                     *)
LEMMA DivHeldIssueDiv ==
    ASSUME TypeOK, Counted, ResultsInIssueOrder, DivHeld,
           NEW t \in Tokens, NEW zero \in BOOLEAN, issue_div(t, zero)
    PROVE  DivHeld'
<1> DEFINE N == Len(ff_ordering)
<1>1. N \in Nat /\ ff_ordering' = Append(ff_ordering, FALSE) /\ ff_ordering \in Seq(BOOLEAN)
      /\ rg_count = 0 /\ ~rg_valid
      /\ rg_count' = 1 /\ rg_valid' = rg_valid /\ div'.tok = t
  BY QueueTypes DEF issue_div, div_ready
<1>2. /\ Len(ff_ordering') = N + 1 /\ ff_ordering'[N + 1] = FALSE
      /\ \A i \in 1..N : ff_ordering'[i] = ff_ordering[i]
  BY <1>1, AppendFacts
<1>3. \A i \in Nat : i = N + 1 => Waiting(i)' = t
  BY QueueEnters DEF issue_div
<1>4. \A i \in 1..N : ff_ordering[i]
  BY <1>1 DEF DivHeld
<1> HIDE DEF N
<1>5. N + 1 \in 1..(N + 1) /\ N + 1 \in Nat
  BY <1>1
<1>6. \A i \in 1..(N + 1) : ~ff_ordering'[i] <=> i = N + 1
  BY <1>1, <1>2, <1>4
<1>7. \A i \in 1..(N + 1) : ~ff_ordering'[i] => div'.tok = Waiting(i)'
  BY <1>1, <1>3, <1>5, <1>6
<1> QED
  BY <1>1, <1>2, <1>5, <1>6, <1>7 DEF DivHeld

(* When the oldest entry leaves, the division, if it was not that one,     *)
(* comes one place nearer to the head.                                     *)
LEMMA DivHeldCaptureMul ==
    ASSUME TypeOK, DivHeld, capture_mul,
           \A i \in 1..(Len(ff_ordering) - 1) : Waiting(i)' = Waiting(i + 1)
    PROVE  DivHeld'
<1> DEFINE N == Len(ff_ordering)
<1>1. ff_ordering \in Seq(BOOLEAN) /\ ff_ordering # <<>> /\ ff_ordering[1]
      /\ ff_ordering' = Tail(ff_ordering) /\ rg_count' = rg_count /\ rg_valid' = rg_valid
      /\ div' = div
  BY CaptureMul, Zenon
<1>2. /\ N \in Nat \ {0} /\ Len(ff_ordering') = N - 1
      /\ \A i \in 1..(N - 1) : ff_ordering'[i] = ff_ordering[i + 1]
  BY <1>1, TailFacts, Zenon
<1>3. /\ rg_valid => rg_count = 0
      /\ rg_count # 0 \/ rg_valid => \E i \in 1..N : ~ff_ordering[i]
      /\ \A i \in 1..N : ~ff_ordering[i] => (rg_count # 0 \/ rg_valid) /\ div.tok = Waiting(i)
      /\ \A i, j \in 1..N : ~ff_ordering[i] /\ ~ff_ordering[j] => i = j
  BY DEF DivHeld
<1> HIDE DEF N
<1>4. \A i \in 1..(N - 1) : i + 1 \in 1..N
  BY <1>2
<1>5. rg_count' # 0 \/ rg_valid' => \E i \in 1..(N - 1) : ~ff_ordering'[i]
  <2> SUFFICES ASSUME rg_count # 0 \/ rg_valid PROVE \E i \in 1..(N - 1) : ~ff_ordering'[i]
    BY <1>1
  <2>1. PICK j \in 1..N : ~ff_ordering[j]
    BY <1>3
  <2>2. j # 1
    BY <1>1, <2>1
  <2>3. j - 1 \in 1..(N - 1) /\ (j - 1) + 1 = j
    BY <1>2, <2>2
  <2>4. ~ff_ordering'[j - 1]
    BY <1>2, <2>1, <2>3
  <2> QED
    BY <2>3, <2>4
<1>6. \A i \in 1..(N - 1) :
        ~ff_ordering'[i] => (rg_count' # 0 \/ rg_valid') /\ div'.tok = Waiting(i)'
  BY <1>1, <1>2, <1>3, <1>4 DEF N
<1>7. ASSUME NEW i \in 1..(N - 1), NEW j \in 1..(N - 1), ~ff_ordering'[i], ~ff_ordering'[j]
      PROVE  i = j
  <2>1. i + 1 = j + 1
    BY <1>2, <1>3, <1>4, <1>7
  <2> QED
    BY <2>1
<1> QED
  BY <1>1, <1>2, <1>3, <1>5, <1>6, <1>7 DEF DivHeld

(* When the division itself leaves, there is none.                         *)
LEMMA DivHeldCaptureDiv ==
    ASSUME TypeOK, DivHeld, capture_div
    PROVE  DivHeld'
<1> DEFINE N == Len(ff_ordering)
<1>1. ff_ordering \in Seq(BOOLEAN) /\ ff_ordering # <<>> /\ ~ff_ordering[1]
      /\ ff_ordering' = Tail(ff_ordering) /\ rg_count' = rg_count /\ rg_valid
      /\ rg_valid' = FALSE
  BY CaptureDiv, Zenon
<1>2. /\ N \in Nat \ {0} /\ Len(ff_ordering') = N - 1
      /\ \A i \in 1..(N - 1) : ff_ordering'[i] = ff_ordering[i + 1]
  BY <1>1, TailFacts, Zenon
<1>3. rg_count' = 0
  BY <1>1 DEF DivHeld
<1>4. \A i, j \in 1..N : ~ff_ordering[i] /\ ~ff_ordering[j] => i = j
  BY DEF DivHeld
<1> HIDE DEF N
<1>5. ASSUME NEW i \in 1..(N - 1) PROVE ff_ordering'[i]
  <2>1. i + 1 \in 1..N /\ 1 \in 1..N /\ i + 1 # 1
    BY <1>2
  <2>2. ff_ordering[i + 1]
    BY <1>1, <1>4, <2>1
  <2> QED
    BY <1>2, <2>2
<1> QED
  BY <1>1, <1>2, <1>3, <1>5 DEF DivHeld

(***************************************************************************)
(* The inductive invariant and the theorems.                               *)
(***************************************************************************)
IInv ==
    /\ TypeOK
    /\ Counted
    /\ ResultsInIssueOrder
    /\ \E f : Held(f)
    /\ DivHeld

(* The unit starts empty.                                                  *)
LEMMA InitIInv == Init => IInv
<1> SUFFICES ASSUME Init PROVE IInv
  OBVIOUS
<1>1. /\ fuid = <<>> /\ ff_ordering = <<>> /\ ff_mbox_out = <<>>
      /\ mul = [s \in Stages |-> None] /\ rg_count = 0 /\ rg_valid = FALSE
      /\ div \in [tok : Tokens, zero : {FALSE}]
  BY DEF Init
<1>2. TypeOK
  <2>1. fuid \in Seq(Entries) /\ ff_ordering \in Seq(BOOLEAN) /\ ff_mbox_out \in Seq(Tokens)
    BY <1>1
  <2>2. Len(fuid) = 0 /\ Len(ff_ordering) = 0 /\ Len(ff_mbox_out) = 0
    BY <1>1
  <2>3. mul \in [Stages -> Tokens \union {None}]
    BY <1>1
  <2>4. div \in [tok : Tokens, zero : BOOLEAN]
    BY <1>1
  <2>5. Len(fuid) <= IsbS3S4 /\ Len(ff_ordering) <= OrderingSize /\ Len(ff_mbox_out) <= IsbS3S4
    BY <2>2, StagesFacts
  <2>6. rg_count \in 0..(DivStages + 1)
    BY <1>1, StagesFacts
  <2>7. rg_valid \in BOOLEAN
    BY <1>1
  <2> QED
    BY <2>1, <2>3, <2>4, <2>5, <2>6, <2>7, Zenon DEF TypeOK, Entries
<1>3. Len(ff_ordering) = 0 /\ Len(ff_mbox_out) = 0 /\ Muldivs = <<>> /\ Len(Muldivs) = 0
  BY <1>1, SelectedEmpty DEF Muldivs
<1>4. Counted /\ ResultsInIssueOrder
  BY <1>3 DEF Counted, ResultsInIssueOrder
<1>5. \E f : Held(f)
  <2>1. MulsHeld = {}
    BY <1>1 DEF MulsHeld
  <2>2. Trues = {}
    BY <1>3 DEF Trues
  <2>3. PICK f : f = [s \in {} |-> 0]
    OBVIOUS
  <2>4. Held(f)
    BY <2>1, <2>2, <2>3 DEF Held
  <2> QED
    BY <2>4
<1>6. DivHeld
  BY <1>1, <1>3 DEF DivHeld
<1> QED
  BY <1>2, <1>4, <1>5, <1>6 DEF IInv

(* Every rule of the unit, every issue and every retirement keeps the      *)
(* invariant.                                                              *)
LEMMA StepIInv == IInv /\ [Next]_vars => IInv'
<1> SUFFICES ASSUME IInv, [Next]_vars PROVE IInv'
  OBVIOUS
<1>0. TypeOK /\ Counted /\ ResultsInIssueOrder /\ DivHeld /\ TypeOK'
  BY TypeStep DEF IInv
<1> PICK f : Held(f)
  BY DEF IInv
<1>1. ASSUME NEW t \in Tokens, issue_mul(t) PROVE IInv'
  <2>1. Counted' /\ ResultsInIssueOrder'
    BY <1>0, <1>1, QueueEnters DEF issue_mul
  <2>2. \E g : Held(g)'
    BY <1>0, <1>1, HeldIssueMul
  <2>3. DivHeld'
    BY <1>0, <1>1, DivHeldIssueMul
  <2> QED
    BY <1>0, <2>1, <2>2, <2>3 DEF IInv
<1>2. ASSUME NEW t \in Tokens, NEW zero \in BOOLEAN, issue_div(t, zero) PROVE IInv'
  <2>1. /\ Counted' /\ ResultsInIssueOrder'
        /\ \A i \in 1..Len(ff_ordering) : Waiting(i)' = Waiting(i)
    BY <1>0, <1>2, QueueEnters DEF issue_div
  <2>2. Trues' = Trues
    <3>1. ff_ordering \in Seq(BOOLEAN) /\ Len(ff_ordering) \in Nat
          /\ ff_ordering' = Append(ff_ordering, FALSE)
      BY <1>0, <1>2, QueueTypes DEF issue_div
    <3>2. /\ Len(ff_ordering') = Len(ff_ordering) + 1
          /\ ff_ordering'[Len(ff_ordering) + 1] = FALSE
          /\ \A i \in 1..Len(ff_ordering) : ff_ordering'[i] = ff_ordering[i]
      BY <3>1, AppendFacts
    <3> QED
      BY <3>1, <3>2 DEF Trues
  <2>3. Held(f)'
    BY <1>2, <2>1, <2>2, HeldStays DEF issue_div
  <2>4. DivHeld'
    BY <1>0, <1>2, DivHeldIssueDiv
  <2> QED
    BY <1>0, <2>1, <2>3, <2>4 DEF IInv
<1>3. ASSUME Muldivs' = Muldivs,
             UNCHANGED <<mul, rg_count, rg_valid, div, ff_ordering, ff_mbox_out>>
      PROVE  IInv'
  <2>1. /\ Counted' /\ ResultsInIssueOrder'
        /\ \A i \in 1..Len(ff_ordering) : Waiting(i)' = Waiting(i)
    BY <1>0, <1>3, QueueStays
  <2>2. Trues' = Trues
    BY <1>3 DEF Trues
  <2>3. Held(f)'
    BY <1>3, <2>1, <2>2, HeldStays
  <2>4. DivHeld'
    BY <1>0, <1>3, <2>1, DivHeldStays DEF DivHeld
  <2> QED
    BY <1>0, <2>1, <2>3, <2>4 DEF IInv
<1>4. CASE rl_move_inputs \/ rl_perform_mul_0 \/ rl_move_outputs
  <2>1. PICK k \in 1..(Last - 1) : Move(k)
    BY <1>4, MoveRules
  <2>2. Muldivs' = Muldivs /\ UNCHANGED <<rg_count, rg_valid, div, ff_ordering, ff_mbox_out>>
    BY <2>1 DEF Move, Muldivs
  <2>3. /\ Counted' /\ ResultsInIssueOrder'
        /\ \A i \in 1..Len(ff_ordering) : Waiting(i)' = Waiting(i)
    BY <1>0, <2>2, QueueStays
  <2>4. \E g : Held(g)'
    BY <1>0, <2>1, HeldMove
  <2>5. DivHeld'
    BY <1>0, <2>2, <2>3, DivHeldStays DEF DivHeld
  <2> QED
    BY <1>0, <2>3, <2>4, <2>5 DEF IInv
<1>5. CASE single_step_div
  <2>1. /\ rg_count # 0 /\ ~rg_valid
        /\ \/ rg_count' = 0 /\ rg_valid' = TRUE
           \/ rg_count # DivStages + 1 /\ rg_count' = rg_count + 1 /\ rg_valid' = rg_valid
        /\ UNCHANGED <<mul, div, ff_ordering, ff_mbox_out>> /\ Muldivs' = Muldivs
    BY <1>5, DivStep, Zenon DEF Muldivs
  <2>2. /\ Counted' /\ ResultsInIssueOrder'
        /\ \A i \in 1..Len(ff_ordering) : Waiting(i)' = Waiting(i)
    BY <1>0, <2>1, QueueStays
  <2>3. Trues' = Trues
    BY <2>1 DEF Trues
  <2>4. Held(f)'
    BY <2>1, <2>2, <2>3, HeldStays
  <2>5. rg_count \in Nat
    BY <1>0 DEF TypeOK
  <2>6. (rg_valid' => rg_count' = 0) /\ (rg_count' # 0 \/ rg_valid')
    BY <2>1, <2>5
  <2>7. DivHeld'
    BY <1>0, <2>1, <2>2, <2>6, DivHeldStays
  <2> QED
    BY <1>0, <2>2, <2>4, <2>7 DEF IInv
<1>6. CASE capture_mul
  <2>1. /\ Counted' /\ ResultsInIssueOrder' /\ \E g : Held(g)'
        /\ \A i \in 1..(Len(ff_ordering) - 1) : Waiting(i)' = Waiting(i + 1)
    BY <1>0, <1>6, CaptureMulStep
  <2>2. DivHeld'
    BY <1>0, <1>6, <2>1, DivHeldCaptureMul
  <2> QED
    BY <1>0, <2>1, <2>2 DEF IInv
<1>7. CASE capture_div
  <2>1. Counted' /\ ResultsInIssueOrder' /\ \E g : Held(g)'
    BY <1>0, <1>7, CaptureDivStep
  <2>2. DivHeld'
    BY <1>0, <1>7, DivHeldCaptureDiv
  <2> QED
    BY <1>0, <2>1, <2>2 DEF IInv
<1>8. CASE rl_capture_muldiv
  <2>1. UNCHANGED <<mul, rg_count, rg_valid, div, ff_ordering>>
    BY <1>8 DEF rl_capture_muldiv
  <2>2. /\ Counted' /\ ResultsInIssueOrder'
        /\ \A i \in 1..Len(ff_ordering) : Waiting(i)' = Waiting(i)
    BY <1>0, <1>8, QueueCollects
  <2>3. Trues' = Trues
    BY <2>1 DEF Trues
  <2>4. Held(f)'
    BY <2>1, <2>2, <2>3, HeldStays
  <2>5. DivHeld'
    BY <1>0, <2>1, <2>2, DivHeldStays DEF DivHeld
  <2> QED
    BY <1>0, <2>2, <2>4, <2>5 DEF IInv
<1>9. CASE (\E t \in Tokens : issue_other(t)) \/ fwd_other
  BY <1>0, <1>3, <1>9, OthersPass
<1>10. CASE UNCHANGED vars
  BY <1>3, <1>10 DEF vars, Muldivs
<1> QED
  BY <1>1, <1>2, <1>4, <1>5, <1>6, <1>7, <1>8, <1>9, <1>10 DEF Next

(* The invariant says that nothing is lost: the registers of the           *)
(* multiplier and the TRUE entries correspond one to one, and a full       *)
(* ff_mbox_out leaves no operation in the units because ff_fuid bounds     *)
(* those in flight.                                                        *)
LEMMA IInvNothingLost == IInv => NothingLost
<1> SUFFICES ASSUME IInv PROVE NothingLost
  OBVIOUS
<1>0. TypeOK /\ Counted /\ DivHeld
  BY DEF IInv
<1> PICK f : Held(f)
  BY DEF IInv
<1>1. MulsHeld \subseteq Int
  BY StagesFacts DEF MulsHeld
<1>2. /\ f \in [MulsHeld -> Trues]
      /\ \A s, t \in MulsHeld : s < t => f[t] < f[s]
      /\ \A i \in Trues : \E s \in MulsHeld : f[s] = i
  BY DEF Held
<1>3. \A s \in MulsHeld : f[s] \in Int
  BY <1>2 DEF Trues
<1>4. ASSUME NEW s \in MulsHeld, NEW t \in MulsHeld, s # t PROVE f[s] # f[t]
  <2>1. s < t \/ t < s
    BY <1>1, <1>4
  <2> QED
    BY <1>2, <1>3, <2>1
<1>5. {f[s] : s \in MulsHeld} = Trues
  BY <1>2
<1>6. \E h \in [MulsHeld -> {i \in 1..Len(ff_ordering) : ff_ordering[i]}] :
         /\ \A s, t \in MulsHeld : s # t => h[s] # h[t]
         /\ {h[s] : s \in MulsHeld} = {i \in 1..Len(ff_ordering) : ff_ordering[i]}
  BY <1>2, <1>4, <1>5 DEF Trues
<1>7. rg_count # 0 \/ rg_valid <=> \E i \in 1..Len(ff_ordering) : ~ff_ordering[i]
  BY <1>0 DEF DivHeld
<1>8. FifoFullAsserts
  <2> SUFFICES ASSUME Len(ff_mbox_out) = IsbS3S4 PROVE ~mul_output_valid /\ ~rg_valid
    BY DEF FifoFullAsserts
  <2>1. Len(ff_ordering) = 0
    <3>1. /\ Len(ff_ordering) \in Nat /\ Len(Muldivs) \in Nat /\ Len(fuid) \in Nat
          /\ Len(Muldivs) <= Len(fuid) /\ Len(fuid) <= IsbS3S4 /\ IsbS3S4 \in Nat
      BY <1>0, QueueTypes, StagesFacts
    <3>2. Len(Muldivs) = IsbS3S4 + Len(ff_ordering)
      BY <1>0 DEF Counted
    <3> QED
      BY <3>1, <3>2
  <2>2. MulsHeld = {}
    BY <1>2, <2>1 DEF Trues
  <2>3. mul[Last] = None
    BY <2>2, StagesFacts DEF MulsHeld
  <2>4. ~rg_valid
    BY <1>7, <2>1
  <2> QED
    BY <2>3, <2>4 DEF mul_output_valid
<1> QED
  BY <1>0, <1>6, <1>7, <1>8 DEF NothingLost, Counted

(* The invariant holds in every reachable state.                           *)
LEMMA SpecIInv == Spec => []IInv
  BY InitIInv, StepIInv, PTL DEF Spec

(* The registers and FIFOs of the unit stay in range: no unguarded FIFO    *)
(* (mkUGFIFOF) of mbox.bsv is ever enqueued when full.                     *)
THEOREM TypeCorrect == Spec => []TypeOK
<1>1. IInv => TypeOK
  BY DEF IInv
<1> QED
  BY <1>1, SpecIInv, PTL

(* For every depth of the multiplier and of the buffers and every latency  *)
(* of the divider, the results in ff_mbox_out are those of the oldest      *)
(* operations of ff_fuid, in issue order (rl_capture_output of mbox.bsv,   *)
(* read by stage4.bsv in the order of ff_fuid).                            *)
THEOREM ResultsOrdered == Spec => []ResultsInIssueOrder
<1>1. IInv => ResultsInIssueOrder
  BY DEF IInv
<1> QED
  BY <1>1, SpecIInv, PTL

(* For every depth too, each operation in flight is in exactly one place,  *)
(* and the assertions of rl_fifo_full in mbox.bsv never fire.              *)
THEOREM NothingIsLost == Spec => []NothingLost
  BY SpecIInv, IInvNothingLost, PTL

(***************************************************************************)
(* Numbers: powers of two, and quotients and remainders.                   *)
(***************************************************************************)

(* The provers know nothing of 2^n; it is the number of subsets of 1..n,   *)
(* and n + 1 is or is not in a subset of 1..(n + 1).                       *)
LEMMA PowerDoubles ==
    ASSUME NEW n \in Nat
    PROVE  2^n \in Nat \ {0} /\ 2^(n + 1) = 2 * 2^n
<1> DEFINE A == SUBSET (1..n)
           B == {X \union {n + 1} : X \in A}
<1>1. /\ IsFiniteSet(1..n) /\ Cardinality(1..n) = n
      /\ IsFiniteSet(1..(n + 1)) /\ Cardinality(1..(n + 1)) = n + 1
  BY FS_Interval
<1>2. /\ IsFiniteSet(A) /\ Cardinality(A) = 2^n
      /\ Cardinality(SUBSET (1..(n + 1))) = 2^(n + 1)
  BY <1>1, FS_SUBSET
<1>3. A \union B = SUBSET (1..(n + 1))
  <2>1. ASSUME NEW X \in SUBSET (1..(n + 1)) PROVE X \in A \union B
    <3>1. CASE n + 1 \in X
      <4>1. X \ {n + 1} \in A /\ X = (X \ {n + 1}) \union {n + 1}
        BY <2>1, <3>1
      <4> QED
        BY <4>1
    <3>2. CASE n + 1 \notin X
      BY <2>1, <3>2
    <3> QED
      BY <3>1, <3>2
  <2>2. ASSUME NEW X \in A \union B PROVE X \in SUBSET (1..(n + 1))
    BY <2>2
  <2> QED
    BY <2>1, <2>2
<1>4. A \cap B = {}
  <2>1. n + 1 \notin 1..n
    OBVIOUS
  <2> QED
    BY <2>1, Zenon
<1>5. IsFiniteSet(B) /\ Cardinality(B) = Cardinality(A)
  <2> DEFINE f == [X \in A |-> X \union {n + 1}]
  <2>1. \A X, Y \in A : X \union {n + 1} = Y \union {n + 1} => X = Y
    <3>1. n + 1 \notin 1..n
      OBVIOUS
    <3> QED
      BY <3>1
  <2>2. f \in [A -> B] /\ (\A X \in A : f[X] = X \union {n + 1})
    OBVIOUS
  <2>3. \A X, Y \in A : f[X] = f[Y] => X = Y
    BY <2>1, <2>2, Zenon
  <2>4. \A Y \in B : \E X \in A : f[X] = Y
    BY <2>2, Zenon
  <2> HIDE DEF f
  <2>5. f \in Bijection(A, B)
    BY <2>2, <2>3, <2>4 DEF Bijection, Injection, IsInjective, Surjection
  <2> QED
    BY <1>2, <2>5, FS_Bijection, Zenon DEF ExistsBijection
<1>6. Cardinality(A \union B) = Cardinality(A) + Cardinality(B) - Cardinality({})
  <2> HIDE DEF A, B
  <2>1. Cardinality(A \union B) = Cardinality(A) + Cardinality(B) - Cardinality(A \cap B)
    BY <1>2, <1>5, FS_Union
  <2> QED
    BY <1>4, <2>1
<1>7. Cardinality({}) = 0 /\ Cardinality(A) \in Nat
  BY <1>2, FS_EmptySet, FS_CardinalityType
<1>8. Cardinality(A) # 0
  <2>1. {} \in A
    OBVIOUS
  <2> QED
    BY <1>2, <2>1, FS_EmptySet, Zenon
<1> HIDE DEF A, B
<1>9. Cardinality(A \union B) = 2^(n + 1)
  BY <1>2, <1>3, Zenon
<1>10. PICK c : c = 2^n
  OBVIOUS
<1>11. PICK e : e = 2^(n + 1)
  OBVIOUS
<1>12. c \in Nat \ {0} /\ e = c + c - 0
  BY <1>2, <1>5, <1>6, <1>7, <1>8, <1>9, <1>10, <1>11
<1>13. e = 2 * c
  BY <1>12
<1> QED
  BY <1>10, <1>11, <1>12, <1>13

(***************************************************************************)
(* The divider.  After n steps the divided part of a dividend a, its upper *)
(* n bits T, is Q * d + s; the low bits A of a are what of the quotient    *)
(* register is not yet quotient.  h is what the subtraction leaves in the  *)
(* bit above the remainder: it is shifted out by the next step.            *)
(***************************************************************************)
H == 2^(XLEN - 1)

DividedBy(a, d, P, R, p, T, A, Q, s, h) ==
    /\ a = T * R + A /\ A < R /\ T = Q * d + s /\ s < d /\ T < P
    /\ p = <<h * Div!M + s, A * P + Q>>

Divided(a, d, P, R, p) ==
    \E T, A, Q, s \in Nat, h \in {0, 1} : DividedBy(a, d, P, R, p, T, A, Q, s, h)

(* 2^XLEN is even, and the msb tells the upper half.                       *)
LEMMA WordFacts ==
    /\ H \in Nat \ {0} /\ Div!M = 2 * H /\ Div!M \in Nat \ {0}
    /\ Div!Words = 0..(Div!M - 1)
    /\ \A w \in Div!Words : Div!Msb(w) = IF w >= H THEN 1 ELSE 0
    /\ \A w \in Div!Words : w # 0 => Div!Neg(w) = Div!M - w
    /\ Div!Neg(0) = 0
<1>1. XLEN \in Nat \ {0} /\ XLEN - 1 \in Nat /\ (XLEN - 1) + 1 = XLEN
  BY StagesAssumption
<1>2. H \in Nat \ {0} /\ 2^((XLEN - 1) + 1) = 2 * H
  BY <1>1, PowerDoubles DEF H
<1>3. H \in Nat \ {0} /\ Div!M = 2 * H
  BY <1>1, <1>2 DEF Div!M
<1>4. Div!M \in Nat \ {0}
  BY <1>3
<1>5. ASSUME NEW w \in 0..(Div!M - 1) PROVE w \div H = IF w >= H THEN 1 ELSE 0
  <2>1. CASE w >= H
    <3>1. w = 1 * H + (w - H) /\ w - H \in 0..(H - 1) /\ w \in Int
      BY <1>3, <2>1
    <3> QED
      BY <1>3, <2>1, <3>1, DivisionUnique
  <2>2. CASE w < H
    <3>1. w = 0 * H + w /\ w \in 0..(H - 1) /\ w \in Int
      BY <1>3, <2>2
    <3>2. w \div H = 0
      BY <1>3, <3>1, DivisionUnique
    <3> QED
      BY <1>3, <2>2, <3>2
  <2> QED
    BY <1>3, <2>1, <2>2
<1>6. ASSUME NEW w \in 1..(Div!M - 1) PROVE (Div!M - w) % Div!M = Div!M - w
  BY <1>4
<1>7. (Div!M - 0) % Div!M = 0
  BY <1>4
<1>8. ASSUME NEW w \in Div!Words PROVE Div!Msb(w) = IF w >= H THEN 1 ELSE 0
  BY <1>5 DEF Div!Words, Div!Msb, H
<1>9. ASSUME NEW w \in Div!Words, w # 0 PROVE Div!Neg(w) = Div!M - w
  <2>1. w \in 1..(Div!M - 1)
    BY <1>4, <1>9 DEF Div!Words
  <2> QED
    BY <1>6, <2>1 DEF Div!Neg
<1>10. Div!Neg(0) = 0
  BY <1>7 DEF Div!Neg
<1>11. Div!Words = 0..(Div!M - 1)
  BY DEF Div!Words
<1> QED
  BY <1>3, <1>4, <1>8, <1>9, <1>10, <1>11

(* The sum of the remainder and the negated divisor is the difference, up  *)
(* to the bit above it.                                                    *)
LEMMA Subtracts ==
    ASSUME NEW r \in Nat, NEW d \in Nat, 0 < d, d <= r, r < Div!M
    PROVE  (r + Div!Neg(d) + (IF Div!Msb(Div!Neg(d)) = 1 THEN Div!M ELSE 0)) % (2 * Div!M)
             \in {r - d, Div!M + (r - d)}
<1>1. PICK m : m = Div!M
  OBVIOUS
<1>2. m \in Nat \ {0} /\ d \in Div!Words /\ d # 0 /\ m = 2 * H /\ H \in Nat \ {0}
  BY <1>1, WordFacts
<1>3. Div!Neg(d) = m - d /\ m - d \in Div!Words /\ m - d \in 1..(m - 1)
  BY <1>1, <1>2, WordFacts
<1>4. Div!Msb(m - d) = IF m - d >= H THEN 1 ELSE 0
  BY <1>3, WordFacts
<1>5. CASE m - d >= H
  <2>1. PICK n \in Int, k \in Int, u \in Int, y \in Nat :
           n = r + (m - d) + m /\ k = 1 /\ u = r - d /\ y = 2 * m
    BY <1>2
  <2>2. y \in Nat \ {0} /\ u \in 0..(y - 1) /\ n = k * y + u
    BY <1>1, <1>2, <2>1
  <2>3. n % y = u
    BY <2>2, DivisionUnique
  <2>4. (r + (m - d) + m) % (2 * m) = r - d
    BY <2>1, <2>3
  <2> QED
    BY <1>1, <1>3, <1>4, <1>5, <2>4
<1>6. CASE ~(m - d >= H)
  <2>1. PICK n \in Int, k \in Int, y \in Nat :
           n = r + (m - d) + 0 /\ k = 0 /\ y = 2 * m
    BY <1>2
  <2>2. y \in Nat \ {0} /\ n \in 0..(y - 1) /\ n = k * y + n
    BY <1>1, <1>2, <2>1
  <2>3. n % y = n
    BY <2>2, DivisionUnique
  <2>4. (r + (m - d) + 0) % (2 * m) = m + (r - d)
    BY <1>2, <2>1, <2>3
  <2> QED
    BY <1>1, <1>3, <1>4, <1>6, <2>4
<1> QED
  BY <1>5, <1>6

(* What a step shifts in, compares and leaves, on numbers: b is the bit    *)
(* shifted into the remainder.                                             *)
LEMMA StepNumbers ==
    ASSUME NEW m \in Nat, NEW P \in Nat, NEW R \in Nat, NEW d \in Nat, 0 < d, 0 < P, 0 < R,
           m = P * (2 * R),
           NEW T \in Nat, NEW A \in Nat, NEW Q \in Nat, NEW s \in Nat,
           A < 2 * R, T = Q * d + s, s < d, T < P,
           NEW b \in {0, 1}, b = IF A >= R THEN 1 ELSE 0
    PROVE  /\ A - b * R \in Nat /\ A - b * R < R /\ 2 * s + b < m
           /\ 2 * (A * P + Q) = b * m + (2 * P * (A - b * R) + 2 * Q)
           /\ 2 * P * (A - b * R) + 2 * Q + 1 < m
           /\ 2 * T + b < 2 * P
<1>1. A - b * R \in Nat /\ A - b * R < R
  OBVIOUS
<1>2. PICK A1 \in Nat : A1 = A - b * R
  BY <1>1
<1>3. Q <= T
  <2>1. Q * d >= Q
    OBVIOUS
  <2> QED
    BY <2>1
<1>4. s <= T
  <2>1. Q * d >= 0
    OBVIOUS
  <2> QED
    BY <2>1
<1>5. P * R >= P /\ m = 2 * (P * R)
  OBVIOUS
<1>6. 2 * T + b < 2 * P /\ 2 * s + b < m
  BY <1>4, <1>5
<1>7. 2 * (A * P + Q) = b * m + (2 * P * A1 + 2 * Q)
  <2>1. CASE b = 0
    BY <1>2, <2>1
  <2>2. CASE b = 1
    <3>1. A = A1 + R
      BY <1>2, <2>2
    <3>2. A * P = A1 * P + P * R
      BY <3>1
    <3> QED
      BY <1>5, <2>2, <3>2
  <2> QED
    BY <2>1, <2>2
<1>8. 2 * P * A1 + 2 * Q + 1 < m
  <2>1. A1 + 1 <= R
    BY <1>1, <1>2
  <2>2. P * (A1 + 1) <= P * R
    BY <2>1
  <2>3. P * (A1 + 1) = P * A1 + P
    BY <1>2
  <2>4. 2 * P * A1 = 2 * (P * A1)
    BY <1>2
  <2> QED
    BY <1>2, <1>3, <1>5, <2>2, <2>3, <2>4
<1> QED
  BY <1>1, <1>2, <1>6, <1>7, <1>8

(* One step of fn_single_div.                                              *)
LEMMA IterateStep ==
    ASSUME NEW a, NEW d \in Nat, 0 < d, d < Div!M, NEW P \in Nat, NEW R \in Nat, 0 < P, 0 < R,
           Div!M = P * (2 * R), NEW p, Divided(a, d, P, 2 * R, p)
    PROVE  Divided(a, d, 2 * P, R, Div!iterate(p, d))
<1>1. PICK m : m = Div!M
  OBVIOUS
<1>2. m \in Nat \ {0} /\ m = P * (2 * R)
  BY <1>1, WordFacts
<1>0. PICK T \in Nat, A \in Nat, Q \in Nat, s \in Nat, h \in {0, 1} :
        DividedBy(a, d, P, 2 * R, p, T, A, Q, s, h)
  BY DEF Divided
<1>3. /\ a = T * (2 * R) + A /\ A < 2 * R /\ T = Q * d + s /\ s < d /\ T < P
      /\ p = <<h * m + s, A * P + Q>>
  BY <1>0, <1>1 DEF DividedBy
<1>4. PICK b \in {0, 1} : b = IF A >= R THEN 1 ELSE 0
  OBVIOUS
<1>5. /\ A - b * R \in Nat /\ A - b * R < R /\ 2 * s + b < m
      /\ 2 * (A * P + Q) = b * m + (2 * P * (A - b * R) + 2 * Q)
      /\ 2 * P * (A - b * R) + 2 * Q + 1 < m
      /\ 2 * T + b < 2 * P
  BY <1>2, <1>3, <1>4, StepNumbers
<1>6. PICK A1 \in Nat : A1 = A - b * R
  BY <1>5
<1>7. PICK q \in Nat : q = A * P + Q
  OBVIOUS
<1>8. PICK g \in Nat : g = 2 * P * A1 + 2 * Q
  BY <1>6
<1>9. 2 * q = b * m + g /\ g + 1 < m /\ p = <<h * m + s, q>>
  BY <1>3, <1>5, <1>6, <1>7, <1>8
<1>10. PICK x \in Nat : x = (2 * s + b) * m + g
  BY <1>2
<1>11. (2 * (p[1] * m + p[2])) % (2 * m * m) = x
  <2>1. PICK y \in Nat, n \in Nat : y = 2 * m * m /\ n = 2 * ((h * m + s) * m + q)
    BY <1>2
  <2>2. n = h * y + x
    <3>1. n = 2 * (h * m * m + s * m + q)
      BY <1>2, <2>1
    <3>2. x = 2 * (s * m) + (b * m + g)
      BY <1>2, <1>10
    <3>3. h * y = 2 * (h * m * m)
      BY <1>2, <2>1
    <3> QED
      BY <1>2, <1>9, <3>1, <3>2, <3>3
  <2>3. x < y
    <3>1. 2 * s + b + 1 <= m
      BY <1>2, <1>5
    <3>2. (2 * s + b + 1) * m <= m * m
      BY <1>2, <3>1
    <3>3. (2 * s + b + 1) * m = (2 * s + b) * m + m
      BY <1>2
    <3>4. x < m * m
      BY <1>2, <1>9, <1>10, <3>2, <3>3
    <3>5. 2 * m * m = 2 * (m * m) /\ m * m \in Nat
      BY <1>2
    <3> QED
      BY <2>1, <3>4, <3>5
  <2>4. y \in Nat \ {0} /\ h \in Int /\ x \in 0..(y - 1) /\ n \in Int
    BY <2>1, <2>3
  <2>5. n % y = x
    BY <2>2, <2>4, DivisionUnique
  <2>6. p[1] = h * m + s /\ p[2] = q
    BY <1>9
  <2> QED
    BY <2>1, <2>5, <2>6
<1>12. x \div m = 2 * s + b /\ x % m = g
  <2>1. PICK k \in Int : k = 2 * s + b
    OBVIOUS
  <2>2. x = k * m + g /\ g \in 0..(m - 1) /\ x \in Int
    BY <1>2, <1>9, <1>10, <2>1
  <2>3. x \div m = k /\ x % m = g
    BY <1>2, <2>2, DivisionUnique
  <2> QED
    BY <2>1, <2>3
<1>13. PICK r \in Nat : r = 2 * s + b
  OBVIOUS
<1>14. r % m = r
  BY <1>2, <1>5, <1>13
<1>15. PICK sub : sub = (r + Div!Neg(d) + (IF Div!Msb(Div!Neg(d)) = 1 THEN m ELSE 0)) % (2 * m)
  OBVIOUS
<1>16. Div!iterate(p, d) = IF r >= d THEN <<sub, g + 1>> ELSE <<r, g>>
  BY <1>1, <1>11, <1>12, <1>13, <1>14, <1>15 DEF Div!iterate
<1>17. PICK T1 \in Nat : T1 = 2 * T + b
  OBVIOUS
<1>18. a = T1 * R + A1 /\ A1 < R /\ T1 < 2 * P
  <2>1. CASE b = 0
    BY <1>3, <1>5, <1>6, <1>17, <2>1
  <2>2. CASE b = 1
    <3>1. A = A1 + R /\ T1 = 2 * T + 1
      BY <1>6, <1>17, <2>2
    <3>2. T * (2 * R) + (A1 + R) = (2 * T + 1) * R + A1
      BY <1>6
    <3> QED
      BY <1>3, <1>5, <1>6, <1>17, <2>2, <3>1, <3>2
  <2> QED
    BY <2>1, <2>2
<1>19. CASE r < d
  <2>1. PICK Q1 \in Nat : Q1 = 2 * Q
    OBVIOUS
  <2>2. T1 = Q1 * d + r
    <3>1. Q1 * d = 2 * (Q * d)
      BY <2>1
    <3> QED
      BY <1>3, <1>13, <1>17, <3>1
  <2>3. Div!iterate(p, d) = <<0 * m + r, A1 * (2 * P) + Q1>>
    <3>1. g = A1 * (2 * P) + Q1 /\ r = 0 * m + r
      BY <1>2, <1>6, <1>8, <2>1
    <3> QED
      BY <1>16, <1>19, <3>1
  <2>4. DividedBy(a, d, 2 * P, R, Div!iterate(p, d), T1, A1, Q1, r, 0)
    BY <1>1, <1>18, <1>19, <2>2, <2>3 DEF DividedBy
  <2> QED
    BY <2>4 DEF Divided
<1>20. CASE r >= d
  <2>1. PICK Q1 \in Nat : Q1 = 2 * Q + 1
    OBVIOUS
  <2>2. PICK s1 \in Nat : s1 = r - d
    BY <1>20
  <2>3. s1 < d
    BY <1>3, <1>4, <1>13, <2>2
  <2>4. T1 = Q1 * d + s1
    <3>1. Q1 * d = 2 * (Q * d) + d
      BY <2>1
    <3> QED
      BY <1>3, <1>13, <1>17, <2>2, <3>1
  <2>5. sub \in {r - d, m + (r - d)}
    <3>1. r < m
      BY <1>5, <1>13
    <3> QED
      BY <1>1, <1>15, <1>20, <3>1, Subtracts
  <2>6. PICK h1 \in {0, 1} : sub = h1 * m + s1
    <3>1. sub = 0 * m + s1 \/ sub = 1 * m + s1
      BY <1>2, <2>2, <2>5
    <3> QED
      BY <3>1
  <2>7. Div!iterate(p, d) = <<h1 * m + s1, A1 * (2 * P) + Q1>>
    <3>1. g + 1 = A1 * (2 * P) + Q1
      BY <1>2, <1>6, <1>8, <2>1
    <3> QED
      BY <1>16, <1>20, <2>6, <3>1
  <2>8. DividedBy(a, d, 2 * P, R, Div!iterate(p, d), T1, A1, Q1, s1, h1)
    BY <1>1, <1>18, <2>3, <2>4, <2>7 DEF DividedBy
  <2> QED
    BY <2>8 DEF Divided
<1> QED
  BY <1>13, <1>19, <1>20

(* The upper and the lower part of a word.                                 *)
LEMMA PowerSplits ==
    ASSUME NEW n \in 0..XLEN
    PROVE  2^n \in Nat \ {0} /\ 2^(XLEN - n) \in Nat \ {0} /\ Div!M = 2^n * 2^(XLEN - n)
<1> DEFINE S == {k \in Nat : k <= XLEN => Div!M = 2^k * 2^(XLEN - k)}
<1>1. XLEN \in Nat
  BY StagesAssumption
<1>2. 0 \in S
  <2>1. 2^0 = 1 /\ XLEN - 0 = XLEN /\ Div!M \in Nat
    BY <1>1, WordFacts
  <2>2. Div!M = 2^0 * 2^(XLEN - 0)
    BY <2>1 DEF Div!M
  <2> QED
    BY <2>2
<1>3. ASSUME NEW k \in Nat, k \in S PROVE k + 1 \in S
  <2> SUFFICES ASSUME k + 1 <= XLEN PROVE Div!M = 2^(k + 1) * 2^(XLEN - (k + 1))
    OBVIOUS
  <2>1. Div!M = 2^k * 2^(XLEN - k)
    BY <1>1, <1>3
  <2>2. XLEN - (k + 1) \in Nat /\ (XLEN - (k + 1)) + 1 = XLEN - k
    BY <1>1
  <2>3. /\ 2^k \in Nat /\ 2^(k + 1) = 2 * 2^k
        /\ 2^(XLEN - (k + 1)) \in Nat /\ 2^((XLEN - (k + 1)) + 1) = 2 * 2^(XLEN - (k + 1))
    BY <2>2, PowerDoubles
  <2>4. PICK x, y : x = 2^k /\ y = 2^(XLEN - (k + 1))
    OBVIOUS
  <2>5. x \in Nat /\ y \in Nat /\ Div!M = x * (2 * y)
    BY <2>1, <2>2, <2>3, <2>4
  <2>6. x * (2 * y) = (2 * x) * y
    BY <2>5
  <2> QED
    BY <2>3, <2>4, <2>5, <2>6
<1> HIDE DEF S
<1>4. \A k \in Nat : k \in S
  BY <1>2, <1>3, InductionOnSet
<1>5. n \in Nat /\ XLEN - n \in Nat /\ n <= XLEN
  BY <1>1
<1> QED
  BY <1>4, <1>5, PowerDoubles DEF S

(* The remainder and the quotient after n steps of a division by d.        *)
After(a, d, n, p) == Divided(a, d, 2^n, 2^(XLEN - n), p)

LEMMA AfterStep ==
    ASSUME NEW a, NEW d \in Nat, 0 < d, d < Div!M, NEW n \in Nat, n < XLEN,
           NEW p, After(a, d, n, p)
    PROVE  After(a, d, n + 1, Div!iterate(p, d))
<1>1. XLEN \in Nat /\ n \in 0..XLEN /\ n + 1 \in 0..XLEN /\ XLEN - (n + 1) \in Nat
  BY StagesAssumption
<1>2. PICK P, R : P = 2^n /\ R = 2^(XLEN - (n + 1))
  OBVIOUS
<1>3. /\ P \in Nat \ {0} /\ R \in Nat \ {0} /\ 2^(n + 1) = 2 * P
      /\ 2^((XLEN - (n + 1)) + 1) = 2 * R
  BY <1>1, <1>2, PowerDoubles
<1>4. (XLEN - (n + 1)) + 1 = XLEN - n
  BY <1>1
<1>5. 2^(XLEN - n) = 2 * R
  BY <1>3, <1>4
<1>6. Div!M = P * (2 * R)
  BY <1>1, <1>2, <1>5, PowerSplits
<1>7. Divided(a, d, P, 2 * R, p)
  BY <1>2, <1>5 DEF After
<1>8. Divided(a, d, 2 * P, R, Div!iterate(p, d))
  BY <1>3, <1>6, <1>7, IterateStep
<1> QED
  BY <1>2, <1>3, <1>8 DEF After

(* fn_single_div, XLEN / DIVSTAGES steps.                                  *)
K == XLEN \div DIVSTAGES
ItStep(f, p, d, i) == IF i = 0 THEN p ELSE Div!iterate(f[i - 1], d)
Solves(f, p, d, n) == f = [i \in 0..n |-> ItStep(f, p, d, i)]
It(p, d) == CHOOSE f : Solves(f, p, d, K)

LEMMA ItExists ==
    ASSUME NEW p, NEW d
    PROVE  \A n \in Nat : \E f : Solves(f, p, d, n)
<1> DEFINE T == {n \in Nat : \E f : Solves(f, p, d, n)}
<1>1. 0 \in T
  <2> DEFINE f == [i \in 0..0 |-> p]
  <2>1. f = [i \in 0..0 |-> ItStep(f, p, d, i)]
    BY DEF ItStep
  <2> HIDE DEF f
  <2>2. Solves(f, p, d, 0)
    BY <2>1 DEF Solves
  <2> QED
    BY <2>2
<1>2. ASSUME NEW n \in Nat, n \in T PROVE n + 1 \in T
  <2>1. PICK f : f = [i \in 0..n |-> ItStep(f, p, d, i)]
    BY <1>2 DEF Solves
  <2> DEFINE g == [i \in 0..(n + 1) |-> IF i = n + 1 THEN ItStep(f, p, d, n + 1) ELSE f[i]]
  <2>2. ASSUME NEW i \in 0..(n + 1) PROVE g[i] = ItStep(g, p, d, i)
    <3>1. CASE i = n + 1
      BY <3>1 DEF ItStep
    <3>2. CASE i \in 0..n
      <4>1. g[i] = ItStep(f, p, d, i)
        BY <2>1, <3>2
      <4>2. i # 0 => g[i - 1] = f[i - 1]
        BY <3>2
      <4> QED
        BY <4>1, <4>2 DEF ItStep
    <3> QED
      BY <3>1, <3>2
  <2>3. g = [i \in 0..(n + 1) |-> ItStep(g, p, d, i)]
    BY <2>2
  <2> HIDE DEF g
  <2>4. Solves(g, p, d, n + 1)
    BY <2>3 DEF Solves
  <2> QED
    BY <2>4
<1> HIDE DEF T
<1>3. \A n \in Nat : n \in T
  BY <1>1, <1>2, InductionOnSet
<1> QED
  BY <1>3 DEF T

LEMMA StagesFact == K \in Nat /\ DIVSTAGES \in Nat \ {0} /\ DIVSTAGES * K = XLEN
<1>1. PICK k \in 0..XLEN : DIVSTAGES = 2^k
  BY StagesAssumption
<1>2. XLEN \in Nat /\ k \in Nat /\ XLEN % DIVSTAGES = 0
  BY StagesAssumption
<1>3. DIVSTAGES \in Nat \ {0}
  BY <1>1, <1>2, PowerDoubles
<1>4. K \in Int /\ XLEN = K * DIVSTAGES + (XLEN % DIVSTAGES)
  BY <1>2, <1>3, DivisionExists DEF K
<1>5. K \in Nat
  <2> SUFFICES ASSUME K < 0 PROVE FALSE
    BY <1>4
  <2>1. K * DIVSTAGES < 0
    BY <1>3, <1>4
  <2> QED
    BY <1>2, <1>3, <1>4, <2>1
<1>6. DIVSTAGES * K = XLEN
  BY <1>2, <1>3, <1>4
<1> QED
  BY <1>3, <1>5, <1>6

LEMMA ItIsSolution ==
    ASSUME NEW p, NEW d
    PROVE  /\ It(p, d) = [i \in 0..K |-> ItStep(It(p, d), p, d, i)]
           /\ Div!fn_single_div(p, d) = It(p, d)[K]
<1>1. K \in Nat
  BY StagesFact
<1>2. \E f : Solves(f, p, d, K)
  BY <1>1, ItExists
<1>3. It(p, d) = [i \in 0..K |-> ItStep(It(p, d), p, d, i)]
  <2>1. Solves(It(p, d), p, d, K)
    BY <1>2 DEF It
  <2> QED
    BY <2>1 DEF Solves
<1>4. Div!fn_single_div(p, d) = It(p, d)[K]
  BY DEF Div!fn_single_div, It, Solves, ItStep, K
<1> QED
  BY <1>3, <1>4

LEMMA SingleDiv ==
    ASSUME NEW a, NEW d \in Nat, 0 < d, d < Div!M, NEW n \in Nat, n + K <= XLEN,
           NEW p, After(a, d, n, p)
    PROVE  After(a, d, n + K, Div!fn_single_div(p, d))
<1> DEFINE it == It(p, d)
           T == {i \in Nat : i <= K => After(a, d, n + i, it[i])}
<1>1. K \in Nat /\ XLEN \in Nat
  BY StagesFact, StagesAssumption
<1>3. it = [i \in 0..K |-> ItStep(it, p, d, i)]
  BY ItIsSolution
<1>4. Div!fn_single_div(p, d) = it[K]
  BY ItIsSolution
<1> HIDE DEF it
<1>5. 0 \in T
  <2>1. 0 \in 0..K
    BY <1>1
  <2>2. it[0] = ItStep(it, p, d, 0)
    BY <1>3, <2>1
  <2>3. it[0] = p /\ n + 0 = n
    BY <2>2 DEF ItStep
  <2> QED
    BY <2>3
<1>6. ASSUME NEW i \in Nat, i \in T PROVE i + 1 \in T
  <2> SUFFICES ASSUME i + 1 <= K PROVE After(a, d, n + (i + 1), it[i + 1])
    OBVIOUS
  <2>1. i + 1 \in 0..K /\ i + 1 # 0 /\ (i + 1) - 1 = i
    BY <1>1
  <2>2. it[i + 1] = ItStep(it, p, d, i + 1)
    BY <1>3, <2>1
  <2>3. it[i + 1] = Div!iterate(it[i], d)
    BY <2>1, <2>2 DEF ItStep
  <2>4. After(a, d, n + i, it[i])
    BY <1>1, <1>6
  <2>5. n + i \in Nat /\ n + i < XLEN /\ (n + i) + 1 = n + (i + 1)
    BY <1>1
  <2>6. After(a, d, (n + i) + 1, Div!iterate(it[i], d))
    BY <2>4, <2>5, AfterStep
  <2> QED
    BY <2>3, <2>5, <2>6
<1> HIDE DEF T
<1>7. \A i \in Nat : i \in T
  BY <1>5, <1>6, InductionOnSet
<1>8. After(a, d, n + K, it[K])
  BY <1>1, <1>7 DEF T
<1> QED
  BY <1>4, <1>8

(* A division starts with nothing divided and ends with everything.        *)
LEMMA DivisionStarts ==
    ASSUME NEW a \in Div!Words, NEW d \in Nat, 0 < d
    PROVE  After(a, d, 0, <<0, a>>)
<1>1. /\ Div!M \in Nat \ {0} /\ Div!Words = 0..(Div!M - 1) /\ XLEN \in Nat
  BY WordFacts, StagesAssumption
<1>2. 2^0 = 1 /\ XLEN - 0 = XLEN
  BY <1>1
<1>3. 2^(XLEN - 0) = Div!M
  BY <1>2 DEF Div!M
<1>4. DividedBy(a, d, 1, Div!M, <<0, a>>, 0, a, 0, 0, 0)
  <2>1. a \in Nat /\ a < Div!M /\ a = 0 * Div!M + a /\ 0 = 0 * d + 0 /\ 0 = 0 * Div!M + 0
        /\ a = a * 1 + 0
    BY <1>1
  <2> QED
    BY <2>1 DEF DividedBy
<1>5. a \in Nat
  BY <1>1
<1>6. Divided(a, d, 1, Div!M, <<0, a>>)
  BY <1>4, <1>5 DEF Divided
<1> QED
  BY <1>2, <1>3, <1>6 DEF After

LEMMA DivisionEnds ==
    ASSUME NEW a \in Div!Words, NEW d \in Nat, 0 < d, d < Div!M, NEW p, After(a, d, XLEN, p)
    PROVE  p[1] % Div!M = a % d /\ p[2] = a \div d
<1>1. Div!M \in Nat \ {0} /\ XLEN \in Nat /\ a \in Nat
  BY WordFacts, StagesAssumption
<1>2. 2^(XLEN - XLEN) = 1
  <2>1. XLEN - XLEN = 0 /\ 2^0 = 1
    BY <1>1
  <2> QED
    BY <2>1, Zenon
<1>3. PICK T \in Nat, A \in Nat, Q \in Nat, s \in Nat, h \in {0, 1} :
        DividedBy(a, d, 2^XLEN, 1, p, T, A, Q, s, h)
  BY <1>2 DEF After, Divided
<1>4. /\ a = T * 1 + A /\ A < 1 /\ T = Q * d + s /\ s < d
      /\ p = <<h * Div!M + s, A * 2^XLEN + Q>>
  BY <1>3 DEF DividedBy
<1>5. A = 0 /\ a = Q * d + s
  BY <1>4
<1>6. p[2] = Q
  <2>1. p[2] = A * Div!M + Q
    BY <1>4 DEF Div!M
  <2> QED
    BY <1>1, <1>5, <2>1
<1>7. a % d = s /\ a \div d = Q
  <2>1. d \in Nat \ {0} /\ Q \in Int /\ s \in 0..(d - 1) /\ a \in Int
    BY <1>1, <1>4
  <2> QED
    BY <1>5, <2>1, DivisionUnique
<1>8. p[1] % Div!M = s
  <2>1. PICK n \in Int : n = h * Div!M + s
    BY <1>1
  <2>2. s \in 0..(Div!M - 1) /\ h \in Int
    BY <1>1, <1>4
  <2>3. n % Div!M = s
    BY <1>1, <2>1, <2>2, DivisionUnique
  <2>4. p[1] = n
    BY <1>4, <2>1
  <2> QED
    BY <2>3, <2>4
<1> QED
  BY <1>6, <1>7, <1>8


(***************************************************************************)
(* Widths and signs.                                                       *)
(***************************************************************************)

(* The low WLEN bits survive both extensions.                              *)
LEMMA LowBits ==
    ASSUME NEW w \in Div!Words
    PROVE  /\ Div!ZeroExt(w) \in Div!Words /\ Div!SignExt(w) \in Div!Words
           /\ Div!ZeroExt(Div!ZeroExt(w)) = Div!ZeroExt(w)
           /\ Div!ZeroExt(Div!SignExt(w)) = Div!ZeroExt(w)
<1>1. WLEN \in 0..XLEN
  BY StagesAssumption
<1>2. PICK L, V : L = 2^WLEN /\ V = 2^(XLEN - WLEN)
  OBVIOUS
<1>3. L \in Nat \ {0} /\ V \in Nat \ {0} /\ Div!M = L * V
  BY <1>1, <1>2, PowerSplits
<1>4. Div!M \in Nat \ {0} /\ Div!Words = 0..(Div!M - 1)
  BY WordFacts
<1>5. PICK z : z = w % L
  OBVIOUS
<1>6. z \in 0..(L - 1)
  BY <1>3, <1>4, <1>5, DivisionExists
<1>7. L <= Div!M
  <2>1. L * V >= L
    BY <1>3
  <2> QED
    BY <1>3, <2>1
<1>8. z % L = z
  BY <1>3, <1>6
<1>9. PICK n \in Int : n = Div!M - L + z
  BY <1>3, <1>4, <1>6
<1>10. n % L = z
  <2>1. PICK k \in Int : k = V - 1
    BY <1>3
  <2>2. k * L = L * V - L
    BY <1>3, <2>1
  <2>3. n = k * L + z
    BY <1>3, <1>9, <2>2
  <2> QED
    BY <1>3, <1>6, <2>3, DivisionUnique
<1>11. Div!ZeroExt(w) = z /\ Div!ZeroExt(z) = z /\ Div!ZeroExt(n) = z
  BY <1>2, <1>5, <1>8, <1>10 DEF Div!ZeroExt
<1>12. Div!SignExt(w) \in {n, z}
  BY <1>2, <1>9, <1>11 DEF Div!SignExt
<1>13. n \in Div!Words /\ z \in Div!Words
  BY <1>3, <1>4, <1>6, <1>7, <1>9
<1> QED
  BY <1>11, <1>12, <1>13

LEMMA WidenedFacts ==
    ASSUME NEW w \in Div!Words, NEW f, NEW g \in BOOLEAN
    PROVE  /\ Div!Widened(w, f, g) \in Div!Words
           /\ g => Div!SignExt(Div!Widened(w, f, g)) = Div!SignExt(w)
           /\ ~g => Div!Widened(w, f, g) = w
<1>1. Div!Widened(w, f, g) \in Div!Words
  BY LowBits DEF Div!Widened
<1>2. ASSUME g PROVE Div!SignExt(Div!Widened(w, f, g)) = Div!SignExt(w)
  <2>1. Div!ZeroExt(Div!Widened(w, f, g)) = Div!ZeroExt(w)
    BY <1>2, LowBits DEF Div!Widened
  <2> QED
    BY <2>1 DEF Div!SignExt
<1>3. ASSUME ~g PROVE Div!Widened(w, f, g) = w
  BY <1>3 DEF Div!Widened
<1> QED
  BY <1>1, <1>2, <1>3

(* A number back to a word.                                                *)
LEMMA ToWord ==
    ASSUME NEW w \in Div!Words
    PROVE  w % Div!M = w /\ (-w) % Div!M = Div!Neg(w)
<1>1. PICK m : m = Div!M
  OBVIOUS
<1>2. m \in Nat \ {0} /\ w \in 0..(m - 1)
  BY <1>1, WordFacts
<1>3. w % m = w
  BY <1>2
<1>4. CASE w = 0
  <2>1. (-w) % m = 0
    BY <1>2, <1>4
  <2> QED
    BY <1>1, <1>3, <1>4, <2>1, WordFacts
<1>5. CASE w # 0
  <2>1. PICK n \in Int, k \in Int, r \in Int : n = -w /\ k = -1 /\ r = m - w
    BY <1>2
  <2>2. r \in 0..(m - 1) /\ n = k * m + r
    BY <1>2, <1>5, <2>1
  <2>3. n % m = r
    BY <1>2, <2>2, DivisionUnique
  <2> QED
    BY <1>1, <1>3, <1>5, <2>1, <2>3, WordFacts
<1> QED
  BY <1>4, <1>5

(* The operand fn_fix_inputs hands to the division is the absolute value.  *)
Fixed(x, f) == IF Div!Signed(f) /\ Div!Msb(x) = 1 THEN Div!Neg(x) ELSE x

LEMMA FixedIsAbs ==
    ASSUME NEW x \in Div!Words, NEW f
    PROVE  /\ Div!Value(x, f) \in Int /\ Fixed(x, f) \in Div!Words
           /\ Fixed(x, f) = Div!Abs(Div!Value(x, f))
           /\ (Div!Value(x, f) < 0) <=> (Div!Signed(f) /\ Div!Msb(x) = 1)
           /\ Div!Value(x, f) % Div!M = x
           /\ (Div!Value(x, f) = 0) <=> (Fixed(x, f) = 0)
           /\ Div!Signed(f) => Fixed(x, f) <= H
<1>1. PICK m : m = Div!M
  OBVIOUS
<1>2. /\ m \in Nat \ {0} /\ x \in 0..(m - 1) /\ Div!Words = 0..(m - 1)
      /\ m = 2 * H /\ H \in Nat \ {0}
  BY <1>1, WordFacts
<1>3. Div!Msb(x) = IF x >= H THEN 1 ELSE 0
  BY WordFacts
<1>4. CASE Div!Signed(f) /\ Div!Msb(x) = 1
  <2>1. x >= H /\ x # 0
    BY <1>2, <1>3, <1>4
  <2>2. Div!Value(x, f) = x - m /\ Fixed(x, f) = m - x
    <3>1. Div!Neg(x) = m - x
      BY <1>1, <2>1, WordFacts
    <3> QED
      BY <1>1, <1>4, <3>1 DEF Div!Value, Fixed
  <2>3. (x - m) % m = x
    <3>1. PICK n \in Int, k \in Int : n = x - m /\ k = -1
      BY <1>2
    <3>2. n = k * m + x
      BY <1>2, <3>1
    <3>3. n % m = x
      BY <1>2, <3>2, DivisionUnique
    <3> QED
      BY <3>1, <3>3
  <2>4. /\ x - m \in Int /\ x - m < 0 /\ m - x \in 0..(m - 1) /\ m - x <= H /\ x - m # 0
        /\ m - x # 0 /\ -(x - m) = m - x
    BY <1>2, <2>1
  <2>5. Div!Abs(x - m) = m - x
    BY <2>4 DEF Div!Abs
  <2> QED
    BY <1>1, <1>2, <1>4, <2>2, <2>3, <2>4, <2>5
<1>5. CASE ~(Div!Signed(f) /\ Div!Msb(x) = 1)
  <2>1. Div!Value(x, f) = x /\ Fixed(x, f) = x
    BY <1>5 DEF Div!Value, Fixed
  <2>2. x % m = x /\ x \in Int /\ ~(x < 0)
    BY <1>2
  <2>3. Div!Abs(x) = x
    BY <2>2 DEF Div!Abs
  <2>4. Div!Signed(f) => x <= H
    BY <1>2, <1>3, <1>5
  <2> QED
    BY <1>1, <1>2, <1>5, <2>1, <2>2, <2>3, <2>4
<1> QED
  BY <1>4, <1>5

(* Quotient and remainder of integers by those of their absolute values.   *)
DividesSigned(a, b, q, s) ==
    /\ Div!Quotient(a, b) = (IF (a < 0) # (b < 0) THEN -q ELSE q)
    /\ a - b * Div!Quotient(a, b) = (IF a < 0 THEN -s ELSE s)

LEMMA SignedDivision ==
    ASSUME NEW a \in Int, NEW b \in Int, b # 0,
           NEW u \in Nat, NEW v \in Nat \ {0}, u = Div!Abs(a), v = Div!Abs(b)
    PROVE  /\ DividesSigned(a, b, u \div v, u % v)
           /\ u \div v \in 0..u /\ u % v \in 0..(v - 1)
<1>1. PICK q, s : q = u \div v /\ s = u % v
  OBVIOUS
<1>2. q \in Int /\ s \in 0..(v - 1) /\ u = q * v + s
  <2>1. u \in Int
    OBVIOUS
  <2>2. u \div v \in Int /\ u % v \in 0..(v - 1) /\ u = (u \div v) * v + (u % v)
    BY <2>1, DivisionExists
  <2> QED
    BY <1>1, <2>2
<1>3. q \in 0..u
  <2>1. q >= 0
    <3> SUFFICES ASSUME q <= -1 PROVE FALSE
      BY <1>2
    <3>1. q * v <= -v
      BY <1>2
    <3> QED
      BY <1>2, <3>1
  <2>2. q * v >= q
    BY <1>2, <2>1
  <2> QED
    BY <1>2, <2>1, <2>2
<1>4. Div!Quotient(a, b) = IF (a < 0) # (b < 0) THEN -q ELSE q
  BY <1>1 DEF Div!Quotient
<1>5. u = (IF a < 0 THEN -a ELSE a) /\ v = (IF b < 0 THEN -b ELSE b)
  BY DEF Div!Abs
<1>6. a - b * Div!Quotient(a, b) = IF a < 0 THEN -s ELSE s
  <2>1. CASE a < 0 /\ b < 0
    <3>1. Div!Quotient(a, b) = q /\ a = -u /\ b = -v
      BY <1>4, <1>5, <2>1
    <3>2. a - b * q = -u + (q * v)
      BY <1>2, <3>1
    <3> QED
      BY <1>2, <2>1, <3>1, <3>2
  <2>2. CASE a < 0 /\ ~(b < 0)
    <3>1. Div!Quotient(a, b) = -q /\ a = -u /\ b = v
      BY <1>4, <1>5, <2>2
    <3>2. a - b * (-q) = -u + (q * v)
      BY <1>2, <3>1
    <3> QED
      BY <1>2, <2>2, <3>1, <3>2
  <2>3. CASE ~(a < 0) /\ b < 0
    <3>1. Div!Quotient(a, b) = -q /\ a = u /\ b = -v
      BY <1>4, <1>5, <2>3
    <3>2. a - b * (-q) = u - (q * v)
      BY <1>2, <3>1
    <3> QED
      BY <1>2, <2>3, <3>1, <3>2
  <2>4. CASE ~(a < 0) /\ ~(b < 0)
    <3>1. Div!Quotient(a, b) = q /\ a = u /\ b = v
      BY <1>4, <1>5, <2>4
    <3>2. a - b * q = u - (q * v)
      BY <1>2, <3>1
    <3> QED
      BY <1>2, <2>4, <3>1, <3>2
  <2> QED
    BY <2>1, <2>2, <2>3, <2>4
<1>7. DividesSigned(a, b, q, s)
  BY <1>4, <1>6, Zenon DEF DividesSigned
<1> QED
  BY <1>1, <1>2, <1>3, <1>7

(* What the last step of a division puts into rg_result.                   *)
Truncated(w, wordop) == IF wordop THEN Div!SignExt(w) ELSE w
Complements(x, y, f) == f = Div!REM \/ (f = Div!DIV /\ Div!Msb(x) # Div!Msb(y))
NegatedBy(w, f, complement, sign) == complement /\ (Div!IsRem(f) => Div!Msb(w) # sign)

LEMMA ReferenceIsDivision ==
    ASSUME NEW in1 \in Div!Words, NEW in2 \in Div!Words, NEW f \in 4..7, NEW g \in BOOLEAN,
           NEW x, x = Div!Widened(in1, f, g), NEW y, y = Div!Widened(in2, f, g),
           Fixed(y, f) # 0, NEW w,
           w = IF Div!IsRem(f) THEN Fixed(x, f) % Fixed(y, f) ELSE Fixed(x, f) \div Fixed(y, f)
    PROVE  Div!Reference(in1, in2, f, g)
             = Truncated(IF NegatedBy(w, f, Complements(x, y, f), Div!Msb(x))
                         THEN Div!Neg(w) ELSE w, g)
<1>1. x \in Div!Words /\ y \in Div!Words
  BY WidenedFacts
<1>2. PICK a, b, u, v : /\ a = Div!Value(x, f) /\ b = Div!Value(y, f)
                        /\ u = Fixed(x, f) /\ v = Fixed(y, f)
  OBVIOUS
<1>3. PICK m : m = Div!M
  OBVIOUS
<1>4. /\ m \in Nat \ {0} /\ m = 2 * H /\ H \in Nat \ {0} /\ Div!Words = 0..(m - 1)
  BY <1>3, WordFacts
<1>5. /\ a \in Int /\ u \in 0..(m - 1) /\ u = Div!Abs(a)
      /\ (a < 0) <=> (Div!Signed(f) /\ Div!Msb(x) = 1)
      /\ Div!Signed(f) => u <= H
  BY <1>1, <1>2, <1>4, FixedIsAbs
<1>6. /\ b \in Int /\ v \in 0..(m - 1) /\ v = Div!Abs(b)
      /\ (b < 0) <=> (Div!Signed(f) /\ Div!Msb(y) = 1)
      /\ (b = 0) <=> (v = 0)
      /\ Div!Signed(f) => v <= H
  BY <1>1, <1>2, <1>4, FixedIsAbs
<1>7. b # 0 /\ u \in Nat /\ v \in Nat \ {0}
  BY <1>2, <1>4, <1>5, <1>6
<1>8. PICK q, s : q = u \div v /\ s = u % v
  OBVIOUS
<1>9. /\ Div!Quotient(a, b) = (IF (a < 0) # (b < 0) THEN -q ELSE q)
      /\ a - b * Div!Quotient(a, b) = (IF a < 0 THEN -s ELSE s)
      /\ q \in 0..u /\ s \in 0..(v - 1)
  <2>1. /\ DividesSigned(a, b, u \div v, u % v)
        /\ u \div v \in 0..u /\ u % v \in 0..(v - 1)
    BY <1>5, <1>6, <1>7, SignedDivision
  <2> QED
    BY <1>8, <2>1, Zenon DEF DividesSigned
<1>10. q \in Div!Words /\ s \in Div!Words
  BY <1>4, <1>5, <1>6, <1>9
<1>11. /\ Div!Msb(x) \in {0, 1} /\ Div!Msb(y) \in {0, 1}
       /\ Div!Signed(f) => Div!Msb(s) = 0
  <2>1. /\ Div!Msb(x) = (IF x >= H THEN 1 ELSE 0) /\ Div!Msb(y) = (IF y >= H THEN 1 ELSE 0)
        /\ Div!Msb(s) = (IF s >= H THEN 1 ELSE 0)
    BY <1>1, <1>10, WordFacts
  <2>2. Div!Signed(f) => ~(s >= H)
    BY <1>4, <1>6, <1>9
  <2> QED
    BY <2>1, <2>2
<1>12. /\ Div!IsRem(f) => Div!Reference(in1, in2, f, g)
                            = Truncated((IF a < 0 THEN -s ELSE s) % m, g)
       /\ ~Div!IsRem(f) => Div!Reference(in1, in2, f, g)
                            = Truncated((IF (a < 0) # (b < 0) THEN -q ELSE q) % m, g)
  <2>1. CASE Div!IsRem(f)
    <3>1. Div!Reference(in1, in2, f, g) = Truncated((a - b * Div!Quotient(a, b)) % m, g)
      BY <1>2, <1>3, <1>7, <2>1 DEF Div!Reference, Truncated
    <3> QED
      BY <1>9, <2>1, <3>1
  <2>2. CASE ~Div!IsRem(f)
    <3>1. Div!Reference(in1, in2, f, g) = Truncated(Div!Quotient(a, b) % m, g)
      BY <1>2, <1>3, <1>7, <2>2 DEF Div!Reference, Truncated
    <3> QED
      BY <1>9, <2>2, <3>1
  <2> QED
    BY <2>1, <2>2
<1>13. q % m = q /\ s % m = s /\ (-q) % m = Div!Neg(q) /\ (-s) % m = Div!Neg(s)
  BY <1>3, <1>10, ToWord
<1>14. CASE f = 4
  <2>1. ~Div!IsRem(f) /\ Div!Signed(f) /\ f = Div!DIV /\ f # Div!REM
    BY <1>14 DEF Div!IsRem, Div!Signed, Div!DIV, Div!REM, Div!REMU
  <2>2. w = q /\ (((a < 0) # (b < 0)) <=> Div!Msb(x) # Div!Msb(y))
    BY <1>2, <1>5, <1>6, <1>8, <1>11, <2>1
  <2>3. NegatedBy(w, f, Complements(x, y, f), Div!Msb(x)) <=> ((a < 0) # (b < 0))
    BY <2>1, <2>2 DEF NegatedBy, Complements
  <2> QED
    BY <1>12, <1>13, <2>1, <2>2, <2>3
<1>15. CASE f = 5
  <2>1. ~Div!IsRem(f) /\ ~Div!Signed(f) /\ f # Div!DIV /\ f # Div!REM
    BY <1>15 DEF Div!IsRem, Div!Signed, Div!DIV, Div!REM, Div!REMU
  <2>2. w = q /\ ~(a < 0) /\ ~(b < 0)
    BY <1>2, <1>5, <1>6, <1>8, <2>1
  <2>3. ~NegatedBy(w, f, Complements(x, y, f), Div!Msb(x))
    BY <2>1 DEF NegatedBy, Complements
  <2> QED
    BY <1>12, <1>13, <2>1, <2>2, <2>3
<1>16. CASE f = 6
  <2>1. Div!IsRem(f) /\ Div!Signed(f) /\ f = Div!REM
    BY <1>16 DEF Div!IsRem, Div!Signed, Div!DIV, Div!REM, Div!REMU
  <2>2. w = s /\ (a < 0 <=> Div!Msb(x) = 1)
    BY <1>2, <1>5, <1>8, <2>1
  <2>3. NegatedBy(w, f, Complements(x, y, f), Div!Msb(x)) <=> (a < 0)
    <3>1. Complements(x, y, f) /\ Div!Msb(w) = 0
      BY <1>11, <2>1, <2>2, Zenon DEF Complements
    <3>2. Div!Msb(w) # Div!Msb(x) <=> Div!Msb(x) = 1
      BY <1>11, <3>1
    <3>3. NegatedBy(w, f, Complements(x, y, f), Div!Msb(x)) <=> Div!Msb(w) # Div!Msb(x)
      BY <2>1, <3>1, Zenon DEF NegatedBy
    <3> QED
      BY <2>2, <3>2, <3>3, Zenon
  <2> QED
    BY <1>12, <1>13, <2>1, <2>2, <2>3
<1>17. CASE f = 7
  <2>1. Div!IsRem(f) /\ ~Div!Signed(f) /\ f # Div!DIV /\ f # Div!REM
    BY <1>17 DEF Div!IsRem, Div!Signed, Div!DIV, Div!REM, Div!REMU
  <2>2. w = s /\ ~(a < 0)
    BY <1>2, <1>5, <1>8, <2>1
  <2>3. ~NegatedBy(w, f, Complements(x, y, f), Div!Msb(x))
    BY <2>1 DEF NegatedBy, Complements
  <2> QED
    BY <1>12, <1>13, <2>1, <2>2, <2>3
<1> QED
  BY <1>14, <1>15, <1>16, <1>17

(* Division by zero: all ones, or the dividend.                            *)
LEMMA ReferenceByZero ==
    ASSUME NEW in1 \in Div!Words, NEW in2 \in Div!Words, NEW f \in 4..7, NEW g \in BOOLEAN,
           Fixed(Div!Widened(in2, f, g), f) = 0
    PROVE  Div!Reference(in1, in2, f, g)
             = Truncated(IF Div!IsRem(f) THEN in1 ELSE Div!M - 1, g)
<1>1. PICK x, y : x = Div!Widened(in1, f, g) /\ y = Div!Widened(in2, f, g)
  OBVIOUS
<1>2. /\ x \in Div!Words /\ y \in Div!Words
      /\ g => Div!SignExt(x) = Div!SignExt(in1)
      /\ ~g => x = in1
  BY <1>1, WidenedFacts
<1>3. Div!Value(y, f) = 0 /\ Div!Value(x, f) % Div!M = x
  BY <1>1, <1>2, FixedIsAbs
<1>4. CASE Div!IsRem(f)
  <2>1. Div!Reference(in1, in2, f, g) = Truncated(x, g)
    BY <1>1, <1>3, <1>4 DEF Div!Reference, Truncated
  <2> QED
    BY <1>2, <1>4, <2>1 DEF Truncated
<1>5. CASE ~Div!IsRem(f)
  <2>1. Div!Reference(in1, in2, f, g) = Truncated((-1) % Div!M, g)
    BY <1>1, <1>3, <1>5 DEF Div!Reference, Truncated
  <2>2. (-1) % Div!M = Div!M - 1
    <3>1. Div!M \in Nat \ {0} /\ Div!M = 2 * H /\ H \in Nat \ {0} /\ Div!Words = 0..(Div!M - 1)
      BY WordFacts
    <3>2. 1 \in Div!Words /\ 1 # 0
      BY <3>1
    <3> QED
      BY <3>2, ToWord, WordFacts
  <2> QED
    BY <1>5, <2>1, <2>2
<1> QED
  BY <1>4, <1>5

(* The counter of more than one stage holds DIVSTAGES + 1: both it and     *)
(* its range would be powers of two, and one of them odd.                  *)
LEMMA CountFits ==
    ASSUME DIVSTAGES # 1
    PROVE  /\ CountMod \in Nat /\ DIVSTAGES + 1 < CountMod
           /\ (DIVSTAGES + 1) % CountMod = DIVSTAGES + 1
           /\ \A c \in 0..DIVSTAGES : (c + 1) % CountMod = c + 1
<1>1. DIVSTAGES \in Nat \ {0} /\ CountMod >= DIVSTAGES + 1
  BY StagesFact, StagesAssumption
<1>2. ASSUME NEW k \in Nat, k # 0 PROVE \E e \in Nat : 2^k = 2 * e
  <2>1. k - 1 \in Nat /\ (k - 1) + 1 = k
    BY <1>2
  <2>2. 2^(k - 1) \in Nat /\ 2^((k - 1) + 1) = 2 * 2^(k - 1)
    BY <2>1, PowerDoubles
  <2> QED
    BY <2>1, <2>2
<1>3. XLEN \in Nat /\ 2^0 = 1
  BY StagesAssumption
<1>4. PICK k \in 0..XLEN, j \in 0..XLEN : DIVSTAGES = 2^k /\ CountMod = 2^j
  BY StagesAssumption
<1>5. k \in Nat /\ j \in Nat
  BY <1>3, <1>4
<1>6. CountMod \in Nat
  BY <1>4, <1>5, PowerDoubles
<1>7. k # 0 /\ j # 0
  <2>1. k = 0 => DIVSTAGES = 1
    BY <1>3, <1>4, Zenon
  <2>2. j = 0 => CountMod = 1
    BY <1>3, <1>4, Zenon
  <2>3. CountMod # 1
    BY <1>1, <1>6
  <2> QED
    BY <2>1, <2>2, <2>3
<1>8. PICK e \in Nat, g \in Nat : DIVSTAGES = 2 * e /\ CountMod = 2 * g
  BY <1>2, <1>4, <1>5, <1>7
<1>9. DIVSTAGES + 1 < CountMod
  BY <1>1, <1>8
<1>10. ASSUME NEW c \in Nat, c < CountMod PROVE c % CountMod = c
  BY <1>6, <1>10
<1>11. ASSUME NEW c \in 0..DIVSTAGES PROVE (c + 1) % CountMod = c + 1
  <2>1. c + 1 \in Nat /\ c + 1 < CountMod
    BY <1>1, <1>6, <1>9
  <2> QED
    BY <1>10, <2>1
<1>12. DIVSTAGES \in 0..DIVSTAGES
  BY <1>1
<1> QED
  BY <1>6, <1>9, <1>11, <1>12

(***************************************************************************)
(* The divider's invariant.  While it counts, its registers are what       *)
(* fn_fix_inputs made of the operands, and (div_count - 1) * K bits of the *)
(* dividend are divided; a valid result is the reference.                  *)
(***************************************************************************)
FixOp1(r) == Fixed(Div!Widened(r.in1, r.f, r.wordop), r.f)
FixOp2(r) == Fixed(Div!Widened(r.in2, r.f, r.wordop), r.f)
FixSign(r) == Div!Msb(Div!Widened(r.in1, r.f, r.wordop))
FixComplement(r) ==
    Complements(Div!Widened(r.in1, r.f, r.wordop), Div!Widened(r.in2, r.f, r.wordop), r.f)

DivReqs == [busy : BOOLEAN, in1 : Div!Words, in2 : Div!Words, f : 4..7, wordop : BOOLEAN]

DivRegisters(r) ==
    /\ rg_op2 = FixOp2(r) /\ rg_in1 = r.in1 /\ rg_complement = FixComplement(r)
    /\ rg_sign_op1 = FixSign(r) /\ quotient_remainder = Div!IsRem(r.f)
    /\ rg_wordop = r.wordop

Ref(r) == Div!Reference(r.in1, r.in2, r.f, r.wordop)

DivInv ==
    /\ div_req \in DivReqs /\ div_count \in 0..(DIVSTAGES + 1) /\ div_valid \in BOOLEAN
    /\ div_count # 0 => /\ div_req.busy /\ ~div_valid /\ DivRegisters(div_req)
                        /\ rg_op2 # 0 => After(FixOp1(div_req), rg_op2,
                                               (div_count - 1) * K, partial)
    /\ div_valid => div_count = 0 /\ rg_result = Ref(div_req)
    /\ (div_count = 0 /\ ~div_valid) => ~div_req.busy

LEMMA FixInputs ==
    ASSUME NEW r
    PROVE  Div!fn_fix_inputs(r.in1, r.in2, r.f, r.wordop)
             = [op1 |-> FixOp1(r), op2 |-> FixOp2(r), complement |-> FixComplement(r),
                sign |-> FixSign(r)]
  BY DEF Div!fn_fix_inputs, FixOp1, FixOp2, FixComplement, FixSign, Fixed,
         Complements

LEMMA FixTypes ==
    ASSUME NEW r \in DivReqs
    PROVE  /\ FixOp1(r) \in Div!Words /\ FixOp2(r) \in Div!Words
           /\ FixOp1(r) \in Nat /\ FixOp2(r) \in Nat /\ FixOp2(r) < Div!M
<1>1. /\ r.in1 \in Div!Words /\ r.in2 \in Div!Words /\ r.wordop \in BOOLEAN
  BY DEF DivReqs
<1>2. /\ Div!Widened(r.in1, r.f, r.wordop) \in Div!Words
      /\ Div!Widened(r.in2, r.f, r.wordop) \in Div!Words
  BY <1>1, WidenedFacts
<1>3. FixOp1(r) \in Div!Words /\ FixOp2(r) \in Div!Words
  BY <1>2, FixedIsAbs DEF FixOp1, FixOp2
<1> QED
  BY <1>3, WordFacts

(* The result of the last step, and of a division by zero.                 *)
LEMMA DivResult ==
    ASSUME NEW r \in DivReqs, FixOp2(r) # 0, NEW p, After(FixOp1(r), FixOp2(r), XLEN, p),
           NEW w, w = IF Div!IsRem(r.f) THEN p[1] % Div!M ELSE p[2]
    PROVE  Ref(r) = Truncated(IF NegatedBy(w, r.f, FixComplement(r), FixSign(r))
                              THEN Div!Neg(w) ELSE w, r.wordop)
<1>1. /\ FixOp1(r) \in Div!Words /\ FixOp2(r) \in Nat /\ 0 < FixOp2(r) /\ FixOp2(r) < Div!M
  BY FixTypes
<1>2. p[1] % Div!M = FixOp1(r) % FixOp2(r) /\ p[2] = FixOp1(r) \div FixOp2(r)
  BY <1>1, DivisionEnds
<1>3. /\ r.in1 \in Div!Words /\ r.in2 \in Div!Words /\ r.wordop \in BOOLEAN /\ r.f \in 4..7
  BY DEF DivReqs
<1>4. PICK in1, in2, f, g : in1 = r.in1 /\ in2 = r.in2 /\ f = r.f /\ g = r.wordop
  OBVIOUS
<1>5. PICK x, y : x = Div!Widened(in1, f, g) /\ y = Div!Widened(in2, f, g)
  OBVIOUS
<1>6. FixOp1(r) = Fixed(x, f) /\ FixOp2(r) = Fixed(y, f) /\ FixSign(r) = Div!Msb(x)
  BY <1>4, <1>5 DEF FixOp1, FixOp2, FixSign
<1>7. FixComplement(r) = Complements(x, y, f)
  BY <1>4, <1>5, Zenon DEF FixComplement
<1>9. w = IF Div!IsRem(f) THEN Fixed(x, f) % Fixed(y, f) ELSE Fixed(x, f) \div Fixed(y, f)
  BY <1>2, <1>4, <1>6
<1>10. Div!Reference(in1, in2, f, g)
         = Truncated(IF NegatedBy(w, f, Complements(x, y, f), Div!Msb(x)) THEN Div!Neg(w) ELSE w, g)
  BY <1>3, <1>4, <1>5, <1>6, <1>9, ReferenceIsDivision
<1> QED
  BY <1>4, <1>6, <1>7, <1>10, Zenon DEF Ref

LEMMA DivResultByZero ==
    ASSUME NEW r \in DivReqs, FixOp2(r) = 0
    PROVE  Ref(r) = Truncated(IF Div!IsRem(r.f) THEN r.in1 ELSE Div!M - 1, r.wordop)
<1>1. /\ r.in1 \in Div!Words /\ r.in2 \in Div!Words /\ r.wordop \in BOOLEAN /\ r.f \in 4..7
  BY DEF DivReqs
<1> QED
  BY <1>1, ReferenceByZero DEF Ref, FixOp2

LEMMA DivInit == ASSUME Div!Init PROVE DivInv
<1>1. DIVSTAGES \in Nat \ {0} /\ Div!M \in Nat \ {0} /\ Div!Words = 0..(Div!M - 1)
  BY StagesFact, WordFacts
<1>2. 0 \in Div!Words /\ 0 \in 0..(DIVSTAGES + 1)
  BY <1>1
<1>3. /\ div_count = 0 /\ div_valid = FALSE
      /\ div_req = [busy |-> FALSE, in1 |-> 0, in2 |-> 0, f |-> 4, wordop |-> FALSE]
  BY DEF Div!Init, Div!DIV
<1>4. div_req \in DivReqs /\ ~div_req.busy
  BY <1>2, <1>3 DEF DivReqs
<1> QED
  BY <1>2, <1>3, <1>4 DEF DivInv

(* A new operation: the registers hold the operands, nothing is divided.   *)
LEMMA DivAccepts ==
    ASSUME DIVSTAGES # 1, DivInv, NEW a \in Div!Words, NEW b \in Div!Words, NEW f \in 4..7,
           NEW g \in BOOLEAN, Div!ma_inputs(a, b, f, g)
    PROVE  DivInv'
<1>1. PICK r : r = [busy |-> TRUE, in1 |-> a, in2 |-> b, f |-> f, wordop |-> g]
  OBVIOUS
<1>2. r \in DivReqs /\ r.busy /\ r.in1 = a /\ r.in2 = b /\ r.f = f /\ r.wordop = g
  BY <1>1 DEF DivReqs
<1>3. Div!fn_fix_inputs(a, b, f, g)
         = [op1 |-> FixOp1(r), op2 |-> FixOp2(r), complement |-> FixComplement(r),
            sign |-> FixSign(r)]
  BY <1>2, FixInputs
<1>4. div_count = 0 /\ ~div_valid /\ div_valid' = div_valid /\ div_req' = r
  BY <1>1 DEF Div!ma_inputs, Div!mv_ready
<1>5. /\ partial' = <<0, FixOp1(r)>> /\ rg_op2' = FixOp2(r) /\ rg_in1' = a
      /\ rg_complement' = FixComplement(r) /\ rg_sign_op1' = FixSign(r)
      /\ quotient_remainder' = Div!IsRem(f) /\ rg_wordop' = g
      /\ div_count' = (div_count + 1) % CountMod
  BY <1>3 DEF Div!ma_inputs
<1>6. DIVSTAGES \in Nat \ {0} /\ K \in Nat
  BY StagesFact
<1>7. div_count' = 1
  <2>1. 0 \in 0..DIVSTAGES
    BY <1>6
  <2>2. (0 + 1) % CountMod = 0 + 1
    BY <2>1, CountFits
  <2> QED
    BY <1>4, <1>5, <2>2
<1>8. ASSUME FixOp2(r) # 0 PROVE After(FixOp1(r), FixOp2(r), (1 - 1) * K, <<0, FixOp1(r)>>)
  <2>1. FixOp1(r) \in Div!Words /\ FixOp2(r) \in Nat /\ 0 < FixOp2(r)
    BY <1>2, <1>8, FixTypes
  <2>2. (1 - 1) * K = 0
    BY <1>6
  <2> QED
    BY <2>1, <2>2, DivisionStarts
<1>9. DivRegisters(r)'
  BY <1>2, <1>5 DEF DivRegisters
<1>10. rg_op2' # 0 => After(FixOp1(div_req'), rg_op2', (div_count' - 1) * K, partial')
  BY <1>4, <1>5, <1>7, <1>8
<1>11. div_count' \in 0..(DIVSTAGES + 1) /\ div_count' # 0
  BY <1>6, <1>7
<1>12. div_req' \in DivReqs /\ div_req'.busy /\ ~div_valid' /\ div_valid' \in BOOLEAN
  BY <1>2, <1>4 DEF DivInv
<1>13. DivRegisters(div_req)'
  BY <1>4, <1>9 DEF DivRegisters
<1> QED
  BY <1>10, <1>11, <1>12, <1>13 DEF DivInv

LEMMA DivSteps ==
    ASSUME DIVSTAGES # 1, DivInv, Div!single_step_div
    PROVE  DivInv'
<1>1. PICK r : r = div_req
  OBVIOUS
<1>2. /\ r \in DivReqs /\ r.busy /\ div_count \in 0..(DIVSTAGES + 1) /\ div_count # 0
      /\ ~div_valid /\ DivRegisters(r)
      /\ rg_op2 # 0 => After(FixOp1(r), rg_op2, (div_count - 1) * K, partial)
  BY <1>1 DEF DivInv, Div!single_step_div
<1>3. /\ rg_op2 = FixOp2(r) /\ rg_in1 = r.in1 /\ rg_complement = FixComplement(r)
      /\ rg_sign_op1 = FixSign(r) /\ quotient_remainder = Div!IsRem(r.f)
      /\ rg_wordop = r.wordop
  BY <1>2 DEF DivRegisters
<1>4. div_req' = r /\ partial' = Div!fn_single_div(partial, rg_op2)
  BY <1>1 DEF Div!single_step_div
<1>5. DivRegisters(r)'
  BY <1>2 DEF DivRegisters, Div!single_step_div
<1>6. /\ DIVSTAGES \in Nat \ {0} /\ K \in Nat /\ DIVSTAGES * K = XLEN /\ XLEN \in Nat
      /\ (DIVSTAGES + 1) % CountMod = DIVSTAGES + 1
  BY StagesFact, StagesAssumption, CountFits
<1>7. 0 \in 0..(DIVSTAGES + 1)
  BY <1>6
<1>8. ASSUME div_count' = 0, div_valid' = TRUE, rg_result' = Ref(r) PROVE DivInv'
  <2>1. div_req' \in DivReqs /\ div_count' \in 0..(DIVSTAGES + 1) /\ div_valid' \in BOOLEAN
    BY <1>2, <1>4, <1>7, <1>8
  <2>2. Ref(div_req)' = Ref(r)
    BY <1>4 DEF Ref
  <2> QED
    BY <1>8, <2>1, <2>2 DEF DivInv
<1>9. CASE rg_op2 = 0
  <2>1. /\ rg_result' = Div!Trunc(IF quotient_remainder THEN rg_in1 ELSE Div!M - 1)
        /\ div_count' = 0 /\ div_valid' = TRUE
    BY <1>9 DEF Div!single_step_div
  <2>2. rg_result' = Truncated(IF Div!IsRem(r.f) THEN r.in1 ELSE Div!M - 1, r.wordop)
    BY <1>3, <2>1 DEF Div!Trunc, Truncated
  <2>3. rg_result' = Ref(r)
    BY <1>2, <1>3, <1>9, <2>2, DivResultByZero
  <2> QED
    BY <1>8, <2>1, <2>3
<1>10. CASE rg_op2 # 0 /\ div_count = DIVSTAGES + 1
  <2>1. PICK w : w = IF quotient_remainder THEN partial[1] % Div!M ELSE partial[2]
    OBVIOUS
  <2>2. /\ rg_result' = Div!Trunc(IF Div!Negate(w) THEN Div!Neg(w) ELSE w)
        /\ div_count' = 0 /\ div_valid' = TRUE
    BY <1>6, <1>10, <2>1 DEF Div!single_step_div
  <2>3. Div!Negate(w) <=> NegatedBy(w, r.f, FixComplement(r), FixSign(r))
    BY <1>3, Zenon DEF Div!Negate, NegatedBy
  <2>4. rg_result' = Truncated(IF NegatedBy(w, r.f, FixComplement(r), FixSign(r))
                               THEN Div!Neg(w) ELSE w, r.wordop)
    BY <1>3, <2>2, <2>3 DEF Div!Trunc, Truncated
  <2>5. (div_count - 1) * K = XLEN
    BY <1>6, <1>10
  <2>6. PICK p : p = partial
    OBVIOUS
  <2>7. After(FixOp1(r), FixOp2(r), XLEN, p) /\ FixOp2(r) # 0
    BY <1>2, <1>3, <1>10, <2>5, <2>6
  <2>8. w = IF Div!IsRem(r.f) THEN p[1] % Div!M ELSE p[2]
    BY <1>3, <2>1, <2>6
  <2>9. rg_result' = Ref(r)
    BY <1>2, <2>4, <2>7, <2>8, DivResult
  <2> QED
    BY <1>8, <2>2, <2>9
<1>11. CASE rg_op2 # 0 /\ div_count # DIVSTAGES + 1
  <2>1. div_count' = (div_count + 1) % CountMod /\ rg_result' = rg_result /\ div_valid' = div_valid
    BY <1>6, <1>11 DEF Div!single_step_div
  <2>2. PICK c : c = div_count
    OBVIOUS
  <2>3. c \in 0..DIVSTAGES /\ c # 0
    BY <1>2, <1>6, <1>11, <2>2
  <2>4. div_count' = c + 1
    BY <2>1, <2>2, <2>3, CountFits
  <2>5. PICK n \in Nat : n = (c - 1) * K
    BY <1>6, <2>3
  <2>6. n + K = c * K /\ n + K <= XLEN
    <3>1. (c - 1) * K + K = c * K
      BY <1>6, <2>3
    <3>2. c * K <= DIVSTAGES * K
      BY <1>6, <2>3
    <3> QED
      BY <1>6, <2>5, <3>1, <3>2
  <2>7. PICK p, d : p = partial /\ d = rg_op2
    OBVIOUS
  <2>8. d \in Nat /\ 0 < d /\ d < Div!M
    BY <1>2, <1>3, <1>11, <2>7, FixTypes
  <2>9. After(FixOp1(r), d, n, p)
    BY <1>2, <1>11, <2>2, <2>5, <2>7
  <2>10. After(FixOp1(r), d, n + K, Div!fn_single_div(p, d))
    BY <2>6, <2>8, <2>9, SingleDiv
  <2>11. rg_op2' = d /\ partial' = Div!fn_single_div(p, d)
    BY <1>4, <2>7 DEF Div!single_step_div
  <2>12. (div_count' - 1) * K = n + K
    BY <1>6, <2>3, <2>4, <2>6
  <2>13. After(FixOp1(div_req'), rg_op2', (div_count' - 1) * K, partial')
    BY <1>4, <2>10, <2>11, <2>12
  <2>14. DivRegisters(div_req)'
    BY <1>4, <1>5 DEF DivRegisters
  <2>15. div_count' \in 0..(DIVSTAGES + 1) /\ div_count' # 0
    BY <1>6, <2>3, <2>4
  <2>16. div_req' \in DivReqs /\ div_req'.busy /\ ~div_valid' /\ div_valid' \in BOOLEAN
    BY <1>2, <1>4, <2>1 DEF DivInv
  <2> QED
    BY <2>13, <2>14, <2>15, <2>16 DEF DivInv
<1> QED
  BY <1>9, <1>10, <1>11

LEMMA DivAnswers ==
    ASSUME DivInv, Div!mv_output
    PROVE  DivInv'
<1>1. div_valid /\ div_valid' = FALSE /\ div_req' = [div_req EXCEPT !.busy = FALSE]
      /\ div_count' = div_count
  BY DEF Div!mv_output
<1>2. div_count = 0 /\ div_req \in DivReqs /\ div_count \in 0..(DIVSTAGES + 1)
  BY <1>1 DEF DivInv
<1>3. div_req' \in DivReqs /\ ~div_req'.busy
  BY <1>1, <1>2 DEF DivReqs
<1> QED
  BY <1>1, <1>2, <1>3 DEF DivInv

LEMMA DivNext ==
    ASSUME DIVSTAGES # 1, DivInv, Div!Next
    PROVE  DivInv'
<1>1. ASSUME NEW a \in Div!Words, NEW b \in Div!Words, NEW f \in Div!DIV..Div!REMU,
             NEW g \in BOOLEAN, Div!ma_inputs(a, b, f, g)
      PROVE  DivInv'
  <2>1. f \in 4..7
    BY DEF Div!DIV, Div!REMU
  <2> QED
    BY <1>1, <2>1, DivAccepts
<1> QED
  BY <1>1, DivSteps, DivAnswers DEF Div!Next

LEMMA DivUnchanged ==
    ASSUME DivInv, UNCHANGED div_vars
    PROVE  DivInv'
  BY DEF DivInv, div_vars, DivRegisters, Ref

(***************************************************************************)
(* The multiplier.                                                         *)
(***************************************************************************)

(* Multiples of the modulus do not matter.                                 *)
Shifted(n, x, k, m) == n = x + k * m

LEMMA ModShift ==
    ASSUME NEW m \in Nat \ {0}, NEW x \in Int, NEW k \in Int, NEW n \in Int,
           Shifted(n, x, k, m)
    PROVE  n % m = x % m
<1>1. PICK q \in Int, s \in 0..(m - 1) : s = x % m /\ x = q * m + s
  BY DivisionExists
<1>2. PICK j \in Int : j = q + k
  OBVIOUS
<1>3. j * m = q * m + k * m
  BY <1>2
<1>4. n = j * m + s
  <2>1. PICK A \in Int, B \in Int, C \in Int : A = q * m /\ B = k * m /\ C = j * m
    OBVIOUS
  <2>2. C = A + B /\ x = A + s /\ n = x + B
    BY <1>1, <1>3, <2>1, Zenon DEF Shifted
  <2>3. n = C + s
    BY <2>2
  <2> QED
    BY <2>1, <2>3, Zenon
<1>5. j \in Int /\ s \in 0..(m - 1)
  BY <1>1, <1>2
<1>6. n \div m = j /\ n % m = s
  BY <1>4, <1>5, DivisionUnique
<1> QED
  BY <1>1, <1>6

(* The halves of a product kept in 2 * XLEN bits.                          *)
LEMMA Halves ==
    ASSUME NEW m \in Nat \ {0}, NEW n \in Int
    PROVE  /\ (n % (m * m)) \div m = (n \div m) % m
           /\ (n % (m * m)) % m = n % m
<1>1. PICK y \in Nat \ {0} : y = m * m
  <2>1. m * m \in Nat /\ m * m >= 1
    OBVIOUS
  <2> QED
    BY <2>1
<1>2. PICK k \in Int, o \in 0..(y - 1) : o = n % y /\ n = k * y + o
  BY DivisionExists
<1>3. o \in Int
  BY <1>1, <1>2
<1>4. PICK h \in Int, l \in 0..(m - 1) : h = o \div m /\ l = o % m /\ o = h * m + l
  BY <1>3, DivisionExists
<1>5. h \in 0..(m - 1)
  <2>1. h >= 0
    <3> SUFFICES ASSUME h <= -1 PROVE FALSE
      BY <1>4
    <3>1. h * m <= -m
      BY <1>4
    <3> QED
      BY <1>1, <1>2, <1>4, <3>1
  <2>2. h < m
    <3> SUFFICES ASSUME h >= m PROVE FALSE
      BY <1>4
    <3>1. h * m >= m * m
      BY <1>4
    <3> QED
      BY <1>1, <1>2, <1>4, <3>1
  <2> QED
    BY <1>4, <2>1, <2>2
<1>6. PICK j \in Int : j = k * m + h
  BY <1>2, <1>4
<1>7. n = j * m + l
  <2>1. k * y = (k * m) * m
    BY <1>1, <1>2
  <2>2. (k * m + h) * m = (k * m) * m + h * m
    BY <1>2, <1>4
  <2>3. PICK A \in Int, B \in Int, C \in Int : A = k * y /\ B = h * m /\ C = j * m
    BY <1>1, <1>2, <1>4, <1>6
  <2>4. C = A + B /\ n = A + o /\ o = B + l
    BY <1>2, <1>4, <1>6, <2>1, <2>2, <2>3, Zenon
  <2>5. n = C + l
    BY <1>4, <2>3, <2>4
  <2> QED
    BY <2>3, <2>5, Zenon
<1>8. n \div m = j /\ n % m = l
  BY <1>4, <1>7, DivisionUnique
<1>9. j % m = h
  BY <1>5, <1>6, DivisionUnique
<1> QED
  BY <1>1, <1>2, <1>4, <1>8, <1>9

(* The low bits of a product are those of the product of the low bits.     *)
LEMMA ProductMod ==
    ASSUME NEW m \in Nat \ {0}, NEW a \in Int, NEW b \in Int, NEW j \in Int, NEW k \in Int,
           NEW u \in Int, NEW v \in Int, Shifted(a, u, j, m), Shifted(b, v, k, m)
    PROVE  (a * b) % m = (u * v) % m
<1>1. PICK x \in Int, n \in Int, i \in Int :
         x = u * v /\ n = a * b /\ i = u * k + v * j + j * k * m
  OBVIOUS
<1>2. a * b = u * v + (u * k * m + v * j * m + j * k * m * m)
  BY DEF Shifted
<1>3. i * m = u * k * m + v * j * m + j * k * m * m
  BY <1>1
<1>4. n = x + i * m
  BY <1>1, <1>2, <1>3
<1>5. n % m = x % m
  <2>1. Shifted(n, x, i, m)
    BY <1>4 DEF Shifted
  <2> QED
    BY <1>1, <2>1, ModShift
<1> QED
  BY <1>1, <1>5, Zenon

(* MULW: the sign extension sees the low WLEN bits only.                   *)
LEMMA WordProduct ==
    ASSUME NEW a \in Int, NEW b \in Int
    PROVE  Mul!SignExt((a * b) % Mul!M)
             = Mul!SignExt(((a % 2^WLEN) * (b % 2^WLEN)) % 2^WLEN)
<1>1. PICK L, V : L = 2^WLEN /\ V = 2^(XLEN - WLEN)
  OBVIOUS
<1>2. WLEN \in 0..XLEN
  BY StagesAssumption
<1>3. L \in Nat \ {0} /\ V \in Nat \ {0} /\ Div!M = L * V
  BY <1>1, <1>2, PowerSplits
<1>4. PICK m : m = Mul!M
  OBVIOUS
<1>5. m \in Nat \ {0} /\ m = L * V
  BY <1>3, <1>4, WordFacts DEF Div!M, Mul!M
<1>6. PICK n \in Int : n = a * b
  OBVIOUS
<1>7. (n % m) % L = n % L
  <2>1. PICK q \in Int, s \in 0..(m - 1) : s = n % m /\ n = q * m + s
    BY <1>5, DivisionExists
  <2>2. PICK k \in Int : k = q * V
    BY <1>3
  <2>3. q * m = k * L
    BY <1>3, <1>5, <2>2
  <2>4. Shifted(n, s, k, L) /\ s \in Int
    BY <1>5, <2>1, <2>3 DEF Shifted
  <2>5. n % L = s % L
    BY <1>3, <2>2, <2>4, ModShift
  <2> QED
    BY <2>1, <2>5
<1>8. PICK j \in Int, u \in 0..(L - 1) : u = a % L /\ a = j * L + u
  BY <1>3, DivisionExists
<1>9. PICK k \in Int, v \in 0..(L - 1) : v = b % L /\ b = k * L + v
  BY <1>3, DivisionExists
<1>10. (a * b) % L = (u * v) % L
  <2>1. /\ u \in Int /\ v \in Int /\ j \in Int /\ k \in Int
        /\ Shifted(a, u, j, L) /\ Shifted(b, v, k, L)
    BY <1>3, <1>8, <1>9 DEF Shifted
  <2> QED
    BY <1>3, <2>1, ProductMod
<1>11. PICK z : z = (u * v) % L
  OBVIOUS
<1>12. z % L = z
  <2>1. u * v \in Int
    BY <1>3, <1>8, <1>9
  <2>2. z \in 0..(L - 1)
    BY <1>3, <1>11, <2>1, DivisionExists
  <2> QED
    BY <1>3, <2>2
<1>13. ((a * b) % m) % L = z /\ (((a % L) * (b % L)) % L) % L = z
  BY <1>6, <1>7, <1>8, <1>9, <1>10, <1>11, <1>12
<1>14. ((a * b) % Mul!M) % 2^WLEN = (((a % 2^WLEN) * (b % 2^WLEN)) % 2^WLEN) % 2^WLEN
  BY <1>1, <1>4, <1>13
<1> QED
  BY <1>14 DEF Mul!SignExt

(* What rl_perform_mul_0 computes from the widened operands of a request.  *)
MulReqs == [in1 : Mul!Words, in2 : Mul!Words, fn3 : 0..3, wordop : BOOLEAN]
MulOut1(n, f) == IF f # Mul!MUL THEN (n % (Mul!M * Mul!M)) \div Mul!M
                                ELSE (n % (Mul!M * Mul!M)) % Mul!M
MulResult(r) ==
    LET w == MulOut1(Mul!Widen(r.in1, Mul!sign1(r.fn3)) * Mul!Widen(r.in2, Mul!sign2(r.fn3)), r.fn3)
    IN  IF r.wordop THEN Mul!SignExt(w) ELSE w

(* A word read as a signed number differs by 0 or 2^XLEN.                  *)
LEMMA SignedShift ==
    ASSUME NEW w \in Mul!Words
    PROVE  /\ Mul!M \in Nat \ {0} /\ w \in Int /\ Mul!SignedValue(w) \in Int
           /\ \E k \in Int : Shifted(w, Mul!SignedValue(w), k, Mul!M)
<1>1. PICK m : m = Mul!M
  OBVIOUS
<1>2. m \in Nat \ {0} /\ w \in 0..(m - 1)
  BY <1>1, WordFacts DEF Mul!M, Div!M, Mul!Words
<1>3. CASE Mul!Msb(w) = 1
  <2>1. Mul!SignedValue(w) = w - m
    BY <1>1, <1>3 DEF Mul!SignedValue
  <2>2. w = (w - m) + 1 * m /\ w - m \in Int /\ 1 \in Int
    BY <1>2
  <2>3. Shifted(w, Mul!SignedValue(w), 1, m)
    BY <2>1, <2>2 DEF Shifted
  <2> QED
    BY <1>1, <1>2, <2>1, <2>2, <2>3
<1>4. CASE Mul!Msb(w) # 1
  <2>1. Mul!SignedValue(w) = w
    BY <1>4 DEF Mul!SignedValue
  <2>2. w = w + 0 * m /\ 0 \in Int
    BY <1>2
  <2>3. Shifted(w, Mul!SignedValue(w), 0, m)
    BY <2>1, <2>2 DEF Shifted
  <2> QED
    BY <1>1, <1>2, <2>1, <2>2, <2>3
<1> QED
  BY <1>3, <1>4

LEMMA MulResultIsProduct ==
    ASSUME NEW r \in MulReqs, r.wordop => r.fn3 = 0
    PROVE  MulResult(r) = Mul!Product(r)
<1>1. PICK a, b, f, m : a = r.in1 /\ b = r.in2 /\ f = r.fn3 /\ m = Mul!M
  OBVIOUS
<1>2. a \in Mul!Words /\ b \in Mul!Words /\ f \in 0..3 /\ r.wordop \in BOOLEAN
  BY <1>1 DEF MulReqs
<1>3. PICK sa, sb : sa = Mul!SignedValue(a) /\ sb = Mul!SignedValue(b)
  OBVIOUS
<1>4. /\ m \in Nat \ {0} /\ a \in Int /\ b \in Int /\ sa \in Int /\ sb \in Int
  BY <1>1, <1>2, <1>3, SignedShift
<1>5. \A w : Mul!Widen(w, TRUE) = Mul!SignedValue(w) /\ Mul!Widen(w, FALSE) = w
  BY DEF Mul!Widen, Mul!SignedValue
<1>6. CASE f = 0
  <2>1. Mul!sign1(f) = FALSE /\ Mul!sign2(f) = FALSE /\ f = Mul!MUL
    BY <1>6 DEF Mul!sign1, Mul!sign2, Mul!MUL, Mul!MULH, Mul!MULHSU
  <2>2. PICK n \in Int : n = a * b
    BY <1>4
  <2>3. MulOut1(n, f) = n % m
    <3>1. (n % (m * m)) % m = n % m
      BY <1>4, <2>2, Halves
    <3> QED
      BY <1>1, <2>1, <3>1 DEF MulOut1
  <2>4. MulResult(r) = IF r.wordop THEN Mul!SignExt(n % m) ELSE n % m
    <3>1. Mul!Widen(a, Mul!sign1(f)) = a /\ Mul!Widen(b, Mul!sign2(f)) = b
      BY <1>5, <2>1
    <3> QED
      BY <1>1, <2>2, <2>3, <3>1 DEF MulResult
  <2>5. CASE r.wordop
    <3>1. Mul!Product(r) = Mul!SignExt(((a % 2^WLEN) * (b % 2^WLEN)) % 2^WLEN)
      BY <1>1, <2>5 DEF Mul!Product
    <3> QED
      BY <1>1, <1>4, <2>2, <2>4, <2>5, <3>1, WordProduct
  <2>6. CASE ~r.wordop
    <3>1. Mul!Product(r) = (sa * sb) % m
      BY <1>1, <1>3, <2>1, <2>6 DEF Mul!Product
    <3>2. PICK j \in Int, k \in Int : Shifted(a, sa, j, m) /\ Shifted(b, sb, k, m)
      BY <1>1, <1>2, <1>3, SignedShift
    <3>3. (a * b) % m = (sa * sb) % m
      BY <1>4, <3>2, ProductMod
    <3> QED
      BY <2>2, <2>4, <2>6, <3>1, <3>3
  <2> QED
    BY <1>2, <2>5, <2>6
<1>7. CASE f # 0
  <2>1. f # Mul!MUL /\ ~r.wordop
    BY <1>1, <1>7 DEF Mul!MUL
  <2>2. PICK x, y : /\ x = IF f \in {Mul!MULH, Mul!MULHSU} THEN sa ELSE a
                    /\ y = IF f = Mul!MULH THEN sb ELSE b
    OBVIOUS
  <2>3. Mul!Product(r) = ((x * y) \div m) % m
    BY <1>1, <1>3, <2>1, <2>2 DEF Mul!Product
  <2>4. Mul!Widen(a, Mul!sign1(f)) = x /\ Mul!Widen(b, Mul!sign2(f)) = y
    BY <1>3, <2>2 DEF Mul!sign1, Mul!sign2, Mul!Widen, Mul!SignedValue
  <2>5. PICK n \in Int : n = x * y
    BY <1>4, <2>2
  <2>6. (n % (m * m)) \div m = (n \div m) % m
    BY <1>4, <2>5, Halves
  <2>7. MulResult(r) = (n % (m * m)) \div m
    BY <1>1, <2>1, <2>4, <2>5 DEF MulResult, MulOut1
  <2> QED
    BY <2>3, <2>5, <2>6, <2>7
<1> QED
  BY <1>6, <1>7

(***************************************************************************)
(* The multiplier's invariant: the input register holds the widened        *)
(* operands of the request, the output register its product.               *)
(***************************************************************************)
MulInv ==
    /\ mul_req \in MulReqs /\ (mul_req.wordop => mul_req.fn3 = 0)
    /\ rg_in \in [valid : BOOLEAN, op1 : Int, op2 : Int, fn3 : 0..3, wordop : BOOLEAN]
    /\ rg_output \in [valid : BOOLEAN, w : {MulResult(r) : r \in MulReqs} \union {0}]
    /\ rg_in.valid => /\ rg_in.op1 = Mul!Widen(mul_req.in1, Mul!sign1(mul_req.fn3))
                      /\ rg_in.op2 = Mul!Widen(mul_req.in2, Mul!sign2(mul_req.fn3))
                      /\ rg_in.fn3 = mul_req.fn3 /\ rg_in.wordop = mul_req.wordop
    /\ rg_output.valid => rg_output.w = MulResult(mul_req)

LEMMA MulInit == ASSUME Mul!Init PROVE MulInv
<1>1. 0 \in Mul!Words
  BY WordFacts DEF Mul!Words, Mul!M, Div!M
<1> QED
  BY <1>1 DEF Mul!Init, MulInv, MulReqs, Mul!MUL

LEMMA MulAccepts ==
    ASSUME MulInv, NEW a \in Mul!Words, NEW b \in Mul!Words, NEW f \in 0..3, NEW g \in BOOLEAN,
           Mul!ma_inputs(a, b, f, g)
    PROVE  MulInv'
<1>1. PICK r : r = [in1 |-> a, in2 |-> b, fn3 |-> f, wordop |-> g]
  OBVIOUS
<1>2. /\ r \in MulReqs /\ r.in1 = a /\ r.in2 = b /\ r.fn3 = f /\ r.wordop = g
  BY <1>1 DEF MulReqs
<1>3. r.wordop => r.fn3 = 0
  BY <1>2 DEF Mul!ma_inputs, Mul!MUL
<1>4. PICK x, y : x = Mul!Widen(a, Mul!sign1(f)) /\ y = Mul!Widen(b, Mul!sign2(f))
  OBVIOUS
<1>5. x \in Int /\ y \in Int
  <2>1. Mul!M \in Nat /\ a \in Int /\ b \in Int
    BY SignedShift
  <2> QED
    BY <1>4, <2>1 DEF Mul!Widen
<1>6. /\ mul_req' = r /\ rg_output' = rg_output /\ ~rg_output.valid
      /\ rg_in' = [valid |-> TRUE, op1 |-> x, op2 |-> y, fn3 |-> f, wordop |-> g]
  BY <1>1, <1>4 DEF Mul!ma_inputs
<1>7. rg_in' \in [valid : BOOLEAN, op1 : Int, op2 : Int, fn3 : 0..3, wordop : BOOLEAN]
  BY <1>5, <1>6
<1>8. rg_in'.op1 = x /\ rg_in'.op2 = y /\ rg_in'.fn3 = f /\ rg_in'.wordop = g
  BY <1>6
<1> QED
  BY <1>2, <1>3, <1>4, <1>6, <1>7, <1>8 DEF MulInv

LEMMA MulPerforms ==
    ASSUME MulInv, Mul!rl_perform_mul_0
    PROVE  MulInv'
<1>1. PICK r : r = mul_req
  OBVIOUS
<1>2. /\ r \in MulReqs /\ (r.wordop => r.fn3 = 0) /\ mul_req' = r
      /\ rg_in \in [valid : BOOLEAN, op1 : Int, op2 : Int, fn3 : 0..3, wordop : BOOLEAN]
      /\ rg_in' = [rg_in EXCEPT !.valid = FALSE]
      /\ rg_in.op1 = Mul!Widen(r.in1, Mul!sign1(r.fn3))
      /\ rg_in.op2 = Mul!Widen(r.in2, Mul!sign2(r.fn3))
      /\ rg_in.fn3 = r.fn3 /\ rg_in.wordop = r.wordop
  BY <1>1 DEF MulInv, Mul!rl_perform_mul_0
<1>3. rg_output' = [valid |-> TRUE, w |-> MulResult(r)]
  BY <1>2 DEF Mul!rl_perform_mul_0, MulResult, MulOut1
<1>4. /\ rg_in' \in [valid : BOOLEAN, op1 : Int, op2 : Int, fn3 : 0..3, wordop : BOOLEAN]
      /\ ~rg_in'.valid
  BY <1>2
<1>5. /\ rg_output' \in [valid : BOOLEAN, w : {MulResult(q) : q \in MulReqs} \union {0}]
      /\ rg_output'.w = MulResult(r)
  BY <1>2, <1>3
<1>6. MulResult(mul_req)' = MulResult(r)
  BY <1>2 DEF MulResult
<1> QED
  BY <1>2, <1>4, <1>5, <1>6 DEF MulInv

LEMMA MulAnswers ==
    ASSUME MulInv, Mul!mv_output
    PROVE  MulInv'
<1>1. /\ rg_output' = [rg_output EXCEPT !.valid = FALSE] /\ rg_in' = rg_in /\ mul_req' = mul_req
      /\ rg_output \in [valid : BOOLEAN, w : {MulResult(q) : q \in MulReqs} \union {0}]
  BY DEF Mul!mv_output, MulInv
<1>2. /\ rg_output' \in [valid : BOOLEAN, w : {MulResult(q) : q \in MulReqs} \union {0}]
      /\ ~rg_output'.valid
  BY <1>1
<1> QED
  BY <1>1, <1>2 DEF MulInv

LEMMA MulNext ==
    ASSUME MulInv, Mul!Next
    PROVE  MulInv'
<1>1. ASSUME NEW a \in Mul!Words, NEW b \in Mul!Words, NEW f \in Mul!MUL..Mul!MULHU,
             NEW g \in BOOLEAN, Mul!ma_inputs(a, b, f, g)
      PROVE  MulInv'
  <2>1. f \in 0..3
    BY DEF Mul!MUL, Mul!MULHU
  <2> QED
    BY <1>1, <2>1, MulAccepts
<1> QED
  BY <1>1, MulPerforms, MulAnswers DEF Mul!Next

LEMMA MulUnchanged ==
    ASSUME MulInv, UNCHANGED mul_vars
    PROVE  MulInv'
<1>1. mul_req' = mul_req /\ rg_in' = rg_in /\ rg_output' = rg_output
  BY DEF mul_vars
<1> QED
  BY <1>1 DEF MulInv

(* The divider answers with the quotient or the remainder that the ISA     *)
(* defines and is ready only between divisions, and the multiplier with    *)
(* the half of the product that the ISA defines, for words of every width  *)
(* and every number of stages but one: with a single stage the counter of  *)
(* the divider comes back to zero before the answer (restoring_div.bsv,    *)
(* combo.bsv).                                                             *)
THEOREM UnitsAreCorrect ==
    ASSUME DIVSTAGES # 1
    PROVE  MCSpec => []UnitsCorrect
<1>1. MCInit => DivInv /\ MulInv
  BY DivInit, MulInit DEF MCInit
<1>2. DivInv /\ MulInv /\ [MCNext]_<<unit, vars, div_vars, mul_vars>> => (DivInv /\ MulInv)'
  <2> SUFFICES ASSUME DivInv, MulInv, [MCNext]_<<unit, vars, div_vars, mul_vars>>
               PROVE  DivInv' /\ MulInv'
    OBVIOUS
  <2>1. CASE UNCHANGED <<div_vars, mul_vars>>
    BY <2>1, DivUnchanged, MulUnchanged
  <2>2. CASE Div!Next /\ UNCHANGED mul_vars
    BY <2>2, DivNext, MulUnchanged
  <2>3. CASE Mul!Next /\ UNCHANGED div_vars
    BY <2>3, MulNext, DivUnchanged
  <2> QED
    BY <2>1, <2>2, <2>3 DEF MCNext
<1>3. DivInv /\ MulInv => UnitsCorrect
  <2> SUFFICES ASSUME DivInv, MulInv PROVE UnitsCorrect
    OBVIOUS
  <2>1. Div!ResultIsReference /\ Div!ReadyMeansAnswered
    BY DEF DivInv, Ref, Div!ResultIsReference, Div!ReadyMeansAnswered, Div!mv_ready
  <2>2. Mul!ProductIsReference
    <3>1. mul_req \in MulReqs /\ (mul_req.wordop => mul_req.fn3 = 0)
          /\ (rg_output.valid => rg_output.w = MulResult(mul_req))
      BY DEF MulInv
    <3>2. PICK r : r = mul_req
      OBVIOUS
    <3>3. MulResult(r) = Mul!Product(r)
      BY <3>1, <3>2, MulResultIsProduct
    <3> QED
      BY <3>1, <3>2, <3>3 DEF Mul!ProductIsReference
  <2> QED
    BY <2>1, <2>2 DEF UnitsCorrect
<1> QED
  BY <1>1, <1>2, <1>3, PTL DEF MCSpec
=============================================================================
