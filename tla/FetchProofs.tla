----------------------------- MODULE FetchProofs -----------------------------
(***************************************************************************)
(* What holds of Fetch for every text, depth and set of faulting words.    *)
(*                                                                         *)
(* The target buffer has one entry a word: by induction over its           *)
(* trainings.  That stage3 follows the program takes the whole stream from *)
(* stage0 to stage3.  Its parts are predicates of the queues' contents     *)
(* (constants in the lemmas): Feed says where stage0 went after every      *)
(* request of the current epoch, Chain that the packets of the current     *)
(* epoch are the program as far as stage3 would let them be, Path where    *)
(* stage1 takes it up, and Flow puts them together.  A lemma for every way *)
(* the stream changes (a request, a response dropped, kept or emitted, a   *)
(* packet gone, a restart) is followed by one for every action of Fetch.   *)
(* TextInv adds the text of the half stage1 keeps between two words.       *)
(***************************************************************************)
EXTENDS Fetch, Lemmas

(***************************************************************************)
(* The target buffer.                                                      *)
(***************************************************************************)
(* rg_allocate names an entry, and no two valid entries name one word.     *)
BtbInv == /\ btb = [i \in 0 .. (BtbDepth - 1) |-> btb[i]]
          /\ rg_allocate \in 0 .. (BtbDepth - 1)
          /\ BtbOneHot

(* A training writes every entry that names the word, or the one to        *)
(* allocate when none does.                                                *)
LEMMA TrainingKeepsOneHot ==
    ASSUME BtbInv, NEW pc, NEW target, NEW ci, NEW instr16,
           ma_train_bpu(pc, target, ci, instr16)
    PROVE  BtbInv'
<1>1. PICK e : e = [valid |-> TRUE, word |-> Word(pc), target |-> target, ci |-> ci,
                    instr16 |-> instr16, hi |-> Hi(pc)]
  OBVIOUS
<1>2. e.valid /\ e.word = Word(pc)
  BY <1>1
<1>3. DOMAIN btb = 0 .. (BtbDepth - 1)
  BY DEF BtbInv
<1>4. CASE btb' = btb /\ rg_allocate' = rg_allocate
  BY <1>4 DEF BtbInv, BtbOneHot
<1>5. CASE /\ Matches(pc) # {}
           /\ btb' = [i \in DOMAIN btb |-> IF i \in Matches(pc) THEN e ELSE btb[i]]
           /\ rg_allocate' = rg_allocate
  <2>1. btb' = [i \in 0 .. (BtbDepth - 1) |-> btb'[i]] /\ DOMAIN btb' = DOMAIN btb
    BY <1>3, <1>5
  <2>2. ASSUME NEW i \in DOMAIN btb, NEW j \in DOMAIN btb,
               btb'[i].valid, btb'[j].valid, btb'[i].word = btb'[j].word
        PROVE  i = j
    <3>1. \A n \in DOMAIN btb : btb'[n] = IF n \in Matches(pc) THEN e ELSE btb[n]
      BY <1>5
    <3>2. \A n \in DOMAIN btb : n \in Matches(pc) <=> btb[n].valid /\ btb[n].word = Word(pc)
      BY DEF Matches
    <3> QED
      BY <1>2, <2>2, <3>1, <3>2 DEF BtbInv, BtbOneHot
  <2> QED
    BY <1>5, <2>1, <2>2 DEF BtbInv, BtbOneHot
<1>6. CASE /\ Matches(pc) = {}
           /\ btb' = [btb EXCEPT ![rg_allocate] = e]
           /\ rg_allocate' = (rg_allocate + 1) % BtbDepth
  <2>1. btb' = [i \in 0 .. (BtbDepth - 1) |-> btb'[i]] /\ DOMAIN btb' = DOMAIN btb
    BY <1>3, <1>6
  <2>2. ASSUME NEW i \in DOMAIN btb, NEW j \in DOMAIN btb,
               btb'[i].valid, btb'[j].valid, btb'[i].word = btb'[j].word
        PROVE  i = j
    <3>1. \A n \in DOMAIN btb : btb'[n] = IF n = rg_allocate THEN e ELSE btb[n]
      BY <1>6
    <3>2. \A n \in DOMAIN btb : ~(btb[n].valid /\ btb[n].word = Word(pc))
      BY <1>6 DEF Matches
    <3> QED
      BY <1>2, <2>2, <3>1, <3>2 DEF BtbInv, BtbOneHot
  <2>3. rg_allocate' \in 0 .. (BtbDepth - 1)
    BY <1>6, FetchAssumption DEF BtbInv
  <2> QED
    BY <2>1, <2>2, <2>3 DEF BtbInv, BtbOneHot
<1> QED
  BY <1>1, <1>4, <1>5, <1>6 DEF ma_train_bpu

LEMMA BtbInvHolds == Spec => []BtbInv
<1>1. Init => BtbInv
  <2> SUFFICES ASSUME Init PROVE BtbInv
    OBVIOUS
  <2>1. btb = [i \in 0 .. (BtbDepth - 1) |-> NoEntry] /\ rg_allocate = 0
    BY DEF Init
  <2>2. NoEntry.valid = FALSE
    BY DEF NoEntry
  <2> QED
    BY <2>1, <2>2, FetchAssumption DEF BtbInv, BtbOneHot
<1>2. BtbInv /\ [Next]_vars => BtbInv'
  <2> SUFFICES ASSUME BtbInv, [Next]_vars PROVE BtbInv'
    OBVIOUS
  <2>1. CASE UNCHANGED <<btb, rg_allocate>>
    BY <2>1 DEF BtbInv, BtbOneHot
  <2>2. CASE rl_initialize
    <3>1. /\ btb' = [i \in DOMAIN btb |-> NoEntry] /\ rg_allocate' = 0
          /\ DOMAIN btb = 0 .. (BtbDepth - 1)
      BY <2>2 DEF rl_initialize, BtbInv
    <3>2. NoEntry.valid = FALSE
      BY DEF NoEntry
    <3> QED
      BY <3>1, <3>2, FetchAssumption DEF BtbInv, BtbOneHot
  <2>3. CASE rl_exe_base_control
    <3>1. \E pc, target, ci, instr16 : ma_train_bpu(pc, target, ci, instr16)
      BY <2>3, Zenon DEF rl_exe_base_control
    <3> QED
      BY <3>1, TrainingKeepsOneHot
  <2>4. CASE gen_next_pc \/ gen_fence \/ gen_sfence \/ drop_response \/ process_instruction
             \/ decode \/ rl_drop_instr \/ exe_other \/ wb_flush \/ UNCHANGED vars
    <3>1. UNCHANGED <<btb, rg_allocate>>
      BY <2>4 DEF gen_next_pc, gen_fence, gen_sfence, drop_response, process_instruction,
                  decode, rl_drop_instr, exe_other, wb_flush, vars, bpu
    <3> QED
      BY <2>1, <3>1
  <2> QED
    BY <2>2, <2>3, <2>4 DEF Next
<1> QED
  BY <1>1, <1>2, PTL DEF Spec

(* The dynamicAssert of gshare_fa never fails: for every depth of the      *)
(* target buffer, every text and every order of predictions, trainings,    *)
(* flushes and switches of the predictor, at most one entry names a word.  *)
THEOREM BtbIsOneHot == Spec => []BtbOneHot
<1>1. BtbInv => BtbOneHot
  BY DEF BtbInv
<1> QED
  BY <1>1, BtbInvHolds, PTL

(***************************************************************************)
(* Requests.  w is the word of a request, b its prediction, dl the target  *)
(* that was waiting in rg_delayed_redirect when it was made.               *)
(***************************************************************************)
Site(w, b) == IF b.hi THEN 2 * w + 1 ELSE 2 * w
Goes(X, a, y) == X[a].kind \in {"branch", "jal"} => y = X[a].target

(* A prediction is about a control transfer of the program.                *)
SoundB(A, X, w, b) == b.pred => Site(w, b) \in A /\ X[Site(w, b)].kind # "alu"

(* Where stage0 goes after a request: <<a, dl2>> is the next address and   *)
(* the target that waits then.                                             *)
Edge(X, w, b) == b.pred /\ b.hi /\ X[2 * w + 1].wide
Link(X, w, b, dl, a, dl2) ==
    IF dl # <<>> THEN a = dl[1] /\ dl2 = <<>>
    ELSE IF Edge(X, w, b) THEN /\ a = Plus(2 * w, 2) /\ dl2 # <<>>
                               /\ Goes(X, Site(w, b), dl2[1])
    ELSE /\ dl2 = <<>>
         /\ b.pred => Goes(X, Site(w, b), a)
         /\ ~b.pred => a = Plus(2 * w, 2)

(* The first n of a queue are of old epochs, the others of the current.    *)
Split(s, n, ep) == n \in 0 .. Len(s) /\ \A i \in 1 .. Len(s) : s[i].epoch = ep <=> n < i

EntryOf(q) == IF q.discard THEN 2 * q.word + 1 ELSE 2 * q.word
At(Q, pc, n) == IF n <= Len(Q) THEN EntryOf(Q[n]) ELSE pc

SoundReq(A, X, t, q) ==
    /\ q.text = t /\ SoundB(A, X, q.word, q.btb)
    /\ q.btb.pred => q.btb.hi \/ ~q.discard

Feed(A, X, t, Q, k, D, pc, dl) ==
    /\ D[Len(Q) + 1] = dl
    /\ \A n \in 1 .. Len(Q) : k < n =>
         /\ SoundReq(A, X, t, Q[n])
         /\ Link(X, Q[n].word, Q[n].btb, D[n], At(Q, pc, n + 1), D[n + 1])

(***************************************************************************)
(* Packets.                                                                *)
(***************************************************************************)
After(i) == Plus(i.pc, SizeOf(i))
Valid(X, t, i) ==
    /\ i.text = t
    /\ i.trap \/ i.wide = X[i.pc].wide
    /\ i.wide => i.snd = Plus(i.pc, 1)

(* What follows packet i, as far as stage3 does not look.                  *)
Follows(X, i, y) ==
    /\ X[i.pc].kind = "alu" => y = After(i)
    /\ X[i.pc].kind = "branch" => y = IF i.pred THEN X[i.pc].target ELSE After(i)

(* The current packets up to the n-th are instructions of the program.     *)
Good(A, Z, z, n) == \A i \in 1 .. n : z < i => Z[i].pc \in A /\ ~Z[i].trap

Chain(A, X, t, Z, z, ar) ==
    /\ z < Len(Z) => Z[z + 1].pc = ar
    /\ \A n \in 1 .. Len(Z) : z < n /\ Good(A, Z, z, n - 1) /\ Z[n].pc \in A => Valid(X, t, Z[n])
    /\ \A n \in 1 .. Len(Z) : z < n /\ n < Len(Z) /\ Good(A, Z, z, n)
                                => Follows(X, Z[n], Z[n + 1].pc)

(* Stage1 will take up the program at c: with the half it keeps, or with   *)
(* the first request of the current epoch, made at a with d waiting.       *)
Keeps(act, prev, ep) == act = "CheckPrev" /\ prev.epoch = ep
Path(A, X, act, prev, ep, a, d, c) ==
    IF Keeps(act, prev, ep)
    THEN /\ c = 2 * prev.word + 1 /\ prev.wide = X[c].wide
         /\ SoundB(A, X, prev.word, prev.btb) /\ (prev.btb.pred => prev.btb.hi)
         /\ Link(X, prev.word, prev.btb, <<>>, a, d)
    ELSE c = a /\ d = <<>>

Joins(X, Z, z, ar, c) == IF z = Len(Z) THEN c = ar ELSE Follows(X, Z[Len(Z)], c)

Flow(A, X, t, Z, z, Q, k, D, pc, dl, act, prev, ep, ar) ==
    /\ Split(Z, z, ep) /\ Split(Q, k, ep)
    /\ z < Len(Z) \/ Keeps(act, prev, ep) => k = 0
    /\ Feed(A, X, t, Q, k, D, pc, dl)
    /\ ar # Stopped =>
         /\ Chain(A, X, t, Z, z, ar)
         /\ Good(A, Z, z, Len(Z)) =>
              \E c \in Addr : /\ Path(A, X, act, prev, ep, At(Q, pc, k + 1), D[k + 1], c)
                             /\ Joins(X, Z, z, ar, c)

(***************************************************************************)
(* The target buffer holds control transfers of the program.               *)
(***************************************************************************)
EntrySite(e) == IF e.hi THEN 2 * e.word + 1 ELSE 2 * e.word
SoundEntry(A, X, e) ==
    e.valid => /\ EntrySite(e) \in A
               /\ X[EntrySite(e)].kind # "alu"
               /\ (X[EntrySite(e)].kind # "ret") = (e.ci # "Ret")
               /\ e.instr16 = ~X[EntrySite(e)].wide
               /\ Goes(X, EntrySite(e), e.target)
SoundBtb(A, X, B) == \A i \in DOMAIN B : SoundEntry(A, X, B[i])

(***************************************************************************)
(* Addresses and queues.                                                   *)
(***************************************************************************)
LEMMA Modulo ==
    ASSUME NEW m \in Nat, 1 < m
    PROVE  (\A a \in 0 .. (m - 1) : a % m = a) /\ m % m = 0 /\ (m + 1) % m = 1
  OBVIOUS

LEMMA PlusCases ==
    ASSUME NEW w \in 0 .. (Words - 1)
    PROVE  /\ Plus(2 * w, 1) = 2 * w + 1
           /\ \/ /\ w < Words - 1
                 /\ Plus(2 * w, 2) = 2 * w + 2
                 /\ Plus(2 * w + 1, 1) = 2 * w + 2 /\ Plus(2 * w + 1, 2) = 2 * w + 3
              \/ /\ w = Words - 1
                 /\ Plus(2 * w, 2) = 0
                 /\ Plus(2 * w + 1, 1) = 0 /\ Plus(2 * w + 1, 2) = 1
<1> DEFINE m == 2 * Words
<1>1. Words \in Nat \ {0}
  BY FetchAssumption
<1>2. m \in Nat /\ 1 < m
  BY <1>1
<1>3. (\A a \in 0 .. (m - 1) : a % m = a) /\ m % m = 0 /\ (m + 1) % m = 1
  BY <1>2, Modulo
<1>4. Plus(2 * w, 1) = 2 * w + 1
  <2>1. 2 * w + 1 \in 0 .. (m - 1)
    BY <1>1
  <2>2. (2 * w + 1) % m = 2 * w + 1
    BY <1>3, <2>1
  <2> QED
    BY <2>2 DEF Plus
<1>5. CASE w < Words - 1
  <2>1. 2 * w + 2 \in 0 .. (m - 1) /\ 2 * w + 3 \in 0 .. (m - 1)
    BY <1>1, <1>5
  <2>2. (2 * w + 2) % m = 2 * w + 2 /\ (2 * w + 3) % m = 2 * w + 3
    BY <1>3, <2>1
  <2>3. (2 * w + 1) + 1 = 2 * w + 2 /\ (2 * w + 1) + 2 = 2 * w + 3
    OBVIOUS
  <2> QED
    BY <1>4, <1>5, <2>2, <2>3 DEF Plus
<1>6. CASE w = Words - 1
  <2>1. 2 * w + 2 = m /\ (2 * w + 1) + 1 = m /\ (2 * w + 1) + 2 = m + 1
    BY <1>1, <1>6
  <2> QED
    BY <1>3, <1>4, <1>6, <2>1 DEF Plus
<1> QED
  BY <1>1, <1>5, <1>6

LEMMA PlusInAddr ==
    ASSUME NEW a \in Addr, NEW n \in Nat
    PROVE  Plus(a, n) \in Addr
  BY FetchAssumption DEF Plus, Addr

(* The word behind another one.                                            *)
LEMMA NextWord ==
    ASSUME NEW w \in 0 .. (Words - 1), NEW v \in 0 .. (Words - 1), NEW d \in BOOLEAN,
           (IF d THEN 2 * v + 1 ELSE 2 * v) = Plus(2 * w, 2)
    PROVE  /\ ~d /\ 2 * v = Plus(2 * w + 1, 1) /\ 2 * v + 1 = Plus(2 * w + 1, 2)
           /\ Plus(2 * w, 2) = Plus(2 * w + 1, 1)
<1>1. Words \in Nat \ {0}
  BY FetchAssumption
<1> QED
  BY <1>1, PlusCases

IsTail(T, S) == /\ Len(S) \in Nat \ {0} /\ Len(T) = Len(S) - 1
                /\ \A i \in 1 .. Len(T) : T[i] = S[i + 1]
IsAppend(T, S, x) == /\ Len(S) \in Nat /\ Len(T) = Len(S) + 1
                     /\ \A i \in 1 .. Len(S) : T[i] = S[i]
                     /\ T[Len(S) + 1] = x

LEMMA SplitTail ==
    ASSUME NEW S, NEW T, NEW n, NEW ep, IsTail(T, S), Split(S, n, ep)
    PROVE  /\ S[1].epoch = ep => n = 0 /\ Split(T, 0, ep)
           /\ S[1].epoch # ep => n # 0 /\ Split(T, n - 1, ep)
<1>1. \A i \in 1 .. Len(T) : T[i] = S[i + 1] /\ i + 1 \in 1 .. Len(S)
  BY DEF IsTail
<1>2. Len(S) \in Nat \ {0} /\ Len(T) = Len(S) - 1 /\ 1 \in 1 .. Len(S) /\ n \in 0 .. Len(S)
  BY DEF IsTail, Split
<1>3. S[1].epoch = ep <=> n < 1
  BY <1>2 DEF Split
<1>4. CASE S[1].epoch = ep
  <2>1. n = 0
    BY <1>2, <1>3, <1>4
  <2> QED
    BY <1>1, <1>2, <1>4, <2>1 DEF Split
<1>5. CASE S[1].epoch # ep
  <2>1. n # 0 /\ n - 1 \in 0 .. Len(T)
    BY <1>2, <1>3, <1>5
  <2>2. ASSUME NEW i \in 1 .. Len(T) PROVE T[i].epoch = ep <=> n - 1 < i
    <3>1. S[i + 1].epoch = ep <=> n < i + 1
      BY <1>1 DEF Split
    <3> QED
      BY <1>1, <1>2, <3>1
  <2> QED
    BY <1>5, <2>1, <2>2 DEF Split
<1> QED
  BY <1>4, <1>5

LEMMA SplitAppend ==
    ASSUME NEW S, NEW T, NEW x, NEW n, NEW ep, IsAppend(T, S, x), Split(S, n, ep), x.epoch = ep
    PROVE  Split(T, n, ep)
<1>1. n \in 0 .. Len(S) /\ Len(S) \in Nat /\ Len(T) = Len(S) + 1
  BY DEF IsAppend, Split
<1>2. ASSUME NEW i \in 1 .. Len(T) PROVE T[i].epoch = ep <=> n < i
  <2>1. CASE i \in 1 .. Len(S)
    BY <2>1 DEF Split, IsAppend
  <2>2. CASE i = Len(S) + 1
    BY <1>1, <2>2 DEF IsAppend
  <2> QED
    BY <1>1, <2>1, <2>2
<1> QED
  BY <1>1, <1>2 DEF Split

LEMMA SplitStale ==
    ASSUME NEW S, NEW ep, Len(S) \in Nat, \A i \in 1 .. Len(S) : S[i].epoch # ep
    PROVE  Split(S, Len(S), ep)
  BY DEF Split

(***************************************************************************)
(* How the flow of requests and packets changes.                           *)
(***************************************************************************)
(* Everything is stale: fetch starts anew at the next instruction.         *)
LEMMA FlowRestart ==
    ASSUME NEW A, NEW X, NEW t, NEW Z, NEW Q, NEW act, NEW prev, NEW ep, NEW pc \in Addr,
           Len(Z) \in Nat, Len(Q) \in Nat,
           \A i \in 1 .. Len(Z) : Z[i].epoch # ep, \A i \in 1 .. Len(Q) : Q[i].epoch # ep,
           ~Keeps(act, prev, ep)
    PROVE  \E D : Flow(A, X, t, Z, Len(Z), Q, Len(Q), D, pc, <<>>, act, prev, ep, pc)
<1>1. PICK D : D = [n \in 1 .. (Len(Q) + 1) |-> <<>>]
  OBVIOUS
<1>2. D[Len(Q) + 1] = <<>>
  BY <1>1
<1>3. Split(Z, Len(Z), ep) /\ Split(Q, Len(Q), ep)
  BY SplitStale
<1>4. Feed(A, X, t, Q, Len(Q), D, pc, <<>>)
  BY <1>2 DEF Feed
<1>5. Chain(A, X, t, Z, Len(Z), pc)
  BY DEF Chain
<1>6. Path(A, X, act, prev, ep, At(Q, pc, Len(Q) + 1), D[Len(Q) + 1], pc)
  BY <1>2 DEF Path, At
<1>7. Joins(X, Z, Len(Z), pc, pc)
  BY DEF Joins
<1> QED
  BY <1>3, <1>4, <1>5, <1>6, <1>7 DEF Flow

(* Packets leave at the front.                                             *)
LEMMA GoodTail ==
    ASSUME NEW A, NEW Z, NEW Z2, NEW z \in Nat, NEW z2 \in Nat, NEW n \in 0 .. Len(Z2),
           IsTail(Z2, Z), z = z2 + 1 \/ (z = 0 /\ z2 = 0 /\ Z[1].pc \in A /\ ~Z[1].trap),
           Good(A, Z2, z2, n)
    PROVE  Good(A, Z, z, n + 1)
<1> SUFFICES ASSUME NEW i \in 1 .. (n + 1), z < i PROVE Z[i].pc \in A /\ ~Z[i].trap
  BY DEF Good
<1>1. CASE i = 1
  BY <1>1
<1>2. CASE i # 1
  <2>1. i - 1 \in 1 .. n /\ i - 1 \in 1 .. Len(Z2) /\ z2 < i - 1
    BY <1>2 DEF IsTail
  <2>2. Z2[i - 1] = Z[i]
    BY <2>1 DEF IsTail
  <2> QED
    BY <2>1, <2>2 DEF Good
<1> QED
  BY <1>1, <1>2

LEMMA ChainTail ==
    ASSUME NEW A, NEW X, NEW t, NEW Z, NEW Z2, NEW z \in 0 .. Len(Z), NEW z2 \in Nat,
           NEW ar, NEW ar2, IsTail(Z2, Z), Chain(A, X, t, Z, z, ar),
           \/ z = z2 + 1 /\ ar2 = ar
           \/ /\ z = 0 /\ z2 = 0 /\ Z[1].pc \in A /\ ~Z[1].trap
              /\ 1 < Len(Z) => Z[2].pc = ar2
    PROVE  Chain(A, X, t, Z2, z2, ar2)
<1>1. Len(Z) \in Nat \ {0} /\ Len(Z2) = Len(Z) - 1
  BY DEF IsTail
<1>2. \A i \in 1 .. Len(Z2) : Z2[i] = Z[i + 1] /\ i + 1 \in 1 .. Len(Z)
  BY DEF IsTail
<1>3. z \in Nat /\ (z = z2 + 1 \/ (z = 0 /\ z2 = 0 /\ Z[1].pc \in A /\ ~Z[1].trap))
  BY <1>1
<1>4. z2 < Len(Z2) => Z2[z2 + 1].pc = ar2
  <2> SUFFICES ASSUME z2 < Len(Z2) PROVE Z2[z2 + 1].pc = ar2
    OBVIOUS
  <2>1. z2 + 1 \in 1 .. Len(Z2) /\ Z2[z2 + 1] = Z[z2 + 2]
    BY <1>1, <1>2
  <2>2. CASE z = z2 + 1 /\ ar2 = ar
    <3>1. z < Len(Z) /\ z + 1 = z2 + 2
      BY <1>1, <2>2
    <3> QED
      BY <2>1, <2>2, <3>1 DEF Chain
  <2>3. CASE z = 0 /\ z2 = 0 /\ (1 < Len(Z) => Z[2].pc = ar2)
    BY <1>1, <2>1, <2>3
  <2> QED
    BY <2>2, <2>3
<1>5. ASSUME NEW n \in 1 .. Len(Z2), z2 < n
      PROVE  z < n + 1
  BY <1>5
<1>6. ASSUME NEW n \in 1 .. Len(Z2), z2 < n, Good(A, Z2, z2, n - 1), Z2[n].pc \in A
      PROVE  Valid(X, t, Z2[n])
  <2>1. Good(A, Z, z, n)
    <3>1. n - 1 \in 0 .. Len(Z2) /\ (n - 1) + 1 = n
      BY <1>1
    <3>2. Good(A, Z, z, (n - 1) + 1)
      BY <1>6, <1>3, <3>1, GoodTail
    <3> QED
      BY <3>1, <3>2
  <2>2. n + 1 \in 1 .. Len(Z) /\ Z2[n] = Z[n + 1] /\ (n + 1) - 1 = n /\ z < n + 1
    BY <1>2, <1>5, <1>6
  <2> QED
    BY <1>6, <2>1, <2>2 DEF Chain
<1>7. ASSUME NEW n \in 1 .. Len(Z2), z2 < n, n < Len(Z2), Good(A, Z2, z2, n)
      PROVE  Follows(X, Z2[n], Z2[n + 1].pc)
  <2>1. Good(A, Z, z, n + 1)
    <3>1. n \in 0 .. Len(Z2)
      BY <1>1
    <3> QED
      BY <1>7, <1>3, <3>1, GoodTail
  <2>2. /\ n + 1 \in 1 .. Len(Z) /\ Z2[n] = Z[n + 1] /\ z < n + 1 /\ n + 1 < Len(Z)
        /\ Z2[n + 1] = Z[(n + 1) + 1]
    BY <1>1, <1>2, <1>5, <1>7
  <2> QED
    BY <1>7, <2>1, <2>2 DEF Chain
<1> QED
  BY <1>4, <1>6, <1>7 DEF Chain

(* Stage2 or stage3 throws a stale packet away, or stage3 executes one.    *)
LEMMA FlowLeaves ==
    ASSUME NEW A, NEW X, NEW t, NEW Z, NEW Z2, NEW z, NEW z2 \in Nat, NEW Q, NEW k, NEW D,
           NEW pc, NEW dl, NEW act, NEW prev, NEW ep, NEW ar, NEW ar2, IsTail(Z2, Z),
           Flow(A, X, t, Z, z, Q, k, D, pc, dl, act, prev, ep, ar), Split(Z2, z2, ep),
           \/ z = z2 + 1 /\ ar2 = ar
           \/ /\ z = 0 /\ z2 = 0
              /\ ar2 # Stopped => /\ ar # Stopped /\ Z[1].pc \in A /\ ~Z[1].trap
                                  /\ 1 < Len(Z) => Z[2].pc = ar2
                                  /\ 1 = Len(Z) => \A y \in Addr : Follows(X, Z[1], y) => y = ar2
    PROVE  Flow(A, X, t, Z2, z2, Q, k, D, pc, dl, act, prev, ep, ar2)
<1>1. /\ Split(Z, z, ep) /\ Split(Q, k, ep)
      /\ z < Len(Z) \/ Keeps(act, prev, ep) => k = 0
      /\ Feed(A, X, t, Q, k, D, pc, dl)
  BY DEF Flow
<1>2. Len(Z) \in Nat \ {0} /\ Len(Z2) = Len(Z) - 1 /\ z \in 0 .. Len(Z)
  BY <1>1 DEF IsTail, Split
<1>3. z2 < Len(Z2) => z < Len(Z)
  BY <1>2
<1>4. ASSUME ar2 # Stopped
      PROVE  /\ Chain(A, X, t, Z2, z2, ar2)
             /\ Good(A, Z2, z2, Len(Z2)) =>
                  \E c \in Addr : /\ Path(A, X, act, prev, ep, At(Q, pc, k + 1), D[k + 1], c)
                                  /\ Joins(X, Z2, z2, ar2, c)
  <2>1. \/ z = z2 + 1 /\ ar2 = ar
        \/ /\ z = 0 /\ z2 = 0 /\ Z[1].pc \in A /\ ~Z[1].trap
           /\ 1 < Len(Z) => Z[2].pc = ar2
    BY <1>4
  <2>2. ar # Stopped
    BY <1>4
  <2>3. Chain(A, X, t, Z, z, ar)
    BY <2>2 DEF Flow
  <2>4. Chain(A, X, t, Z2, z2, ar2)
    BY <1>2, <2>1, <2>3, ChainTail
  <2>5. ASSUME Good(A, Z2, z2, Len(Z2))
        PROVE  \E c \in Addr : /\ Path(A, X, act, prev, ep, At(Q, pc, k + 1), D[k + 1], c)
                               /\ Joins(X, Z2, z2, ar2, c)
    <3>1. Good(A, Z, z, Len(Z))
      <4>1. Len(Z2) \in 0 .. Len(Z2) /\ Len(Z2) + 1 = Len(Z) /\ z \in Nat
        BY <1>2
      <4>2. Good(A, Z, z, Len(Z2) + 1)
        BY <2>1, <2>5, <4>1, GoodTail
      <4> QED
        BY <4>1, <4>2
    <3>2. PICK c \in Addr : /\ Path(A, X, act, prev, ep, At(Q, pc, k + 1), D[k + 1], c)
                            /\ Joins(X, Z, z, ar, c)
      BY <2>2, <3>1 DEF Flow
    <3>3. Joins(X, Z2, z2, ar2, c)
      <4>1. CASE z2 = Len(Z2)
        <5>1. CASE z = z2 + 1 /\ ar2 = ar
          BY <1>2, <3>2, <4>1, <5>1 DEF Joins
        <5>2. CASE z = 0 /\ z2 = 0
          <6>1. Len(Z) = 1 /\ Follows(X, Z[1], c)
            BY <1>2, <3>2, <4>1, <5>2 DEF Joins
          <6> QED
            BY <1>4, <4>1, <5>2, <6>1, <1>2 DEF Joins
        <5> QED
          BY <5>1, <5>2
      <4>2. CASE z2 # Len(Z2)
        <5>1. z2 \in 0 .. Len(Z2)
          BY DEF Split
        <5>2. Len(Z2) \in 1 .. Len(Z2) /\ Len(Z2) + 1 = Len(Z) /\ z # Len(Z)
          BY <1>2, <4>2, <5>1
        <5>3. Z2[Len(Z2)] = Z[Len(Z)]
          BY <5>2 DEF IsTail
        <5> QED
          BY <3>2, <4>2, <5>2, <5>3 DEF Joins
      <4> QED
        BY <4>1, <4>2
    <3> QED
      BY <3>2, <3>3
  <2> QED
    BY <2>4, <2>5
<1> QED
  BY <1>1, <1>3, <1>4 DEF Flow

(* Stage1 emits packet p at c, where it was to take up the program.        *)
Emits(A, X, t, p, act2, prev2, ep, a, d, c) ==
    /\ p.pc = c
    /\ c \in A => Valid(X, t, p)
    /\ c \in A /\ ~p.trap =>
         \E c2 \in Addr : Path(A, X, act2, prev2, ep, a, d, c2) /\ Follows(X, p, c2)

LEMMA GoodAppend ==
    ASSUME NEW A, NEW Z, NEW Z2, NEW p, NEW z, NEW n \in 0 .. Len(Z), IsAppend(Z2, Z, p)
    PROVE  Good(A, Z2, z, n) <=> Good(A, Z, z, n)
<1>1. \A i \in 1 .. n : Z2[i] = Z[i]
  BY DEF IsAppend
<1> QED
  BY <1>1 DEF Good

LEMMA FlowEmit ==
    ASSUME NEW A, NEW X, NEW t, NEW Z, NEW Z2, NEW z, NEW p, NEW Q, NEW Q2, NEW D, NEW D2,
           NEW pc, NEW dl, NEW act, NEW act2, NEW prev, NEW prev2, NEW ep, NEW ar,
           Flow(A, X, t, Z, z, Q, 0, D, pc, dl, act, prev, ep, ar),
           IsAppend(Z2, Z, p), p.epoch = ep,
           Split(Q2, 0, ep), Feed(A, X, t, Q2, 0, D2, pc, dl),
           \A c \in Addr : Path(A, X, act, prev, ep, At(Q, pc, 1), D[1], c)
                             => Emits(A, X, t, p, act2, prev2, ep, At(Q2, pc, 1), D2[1], c)
    PROVE  Flow(A, X, t, Z2, z, Q2, 0, D2, pc, dl, act2, prev2, ep, ar)
<1>1. Split(Z, z, ep) /\ Split(Z2, z, ep)
  BY SplitAppend DEF Flow
<1>2. /\ z \in 0 .. Len(Z) /\ Len(Z) \in Nat /\ Len(Z2) = Len(Z) + 1
      /\ Z2[Len(Z2)] = p /\ Z2[Len(Z) + 1] = p /\ \A i \in 1 .. Len(Z) : Z2[i] = Z[i]
  BY <1>1 DEF Split, IsAppend
<1>3. ASSUME ar # Stopped
      PROVE  /\ Chain(A, X, t, Z2, z, ar)
             /\ Good(A, Z2, z, Len(Z2)) =>
                  \E c \in Addr : /\ Path(A, X, act2, prev2, ep, At(Q2, pc, 1), D2[1], c)
                                  /\ Joins(X, Z2, z, ar, c)
  <2>1. Chain(A, X, t, Z, z, ar)
    BY <1>3 DEF Flow
  <2>2. ASSUME Good(A, Z, z, Len(Z))
        PROVE  \E c \in Addr : /\ Emits(A, X, t, p, act2, prev2, ep, At(Q2, pc, 1), D2[1], c)
                               /\ Joins(X, Z, z, ar, c)
    <3>1. PICK c \in Addr : /\ Path(A, X, act, prev, ep, At(Q, pc, 1), D[1], c)
                            /\ Joins(X, Z, z, ar, c)
      BY <1>3, <2>2 DEF Flow
    <3> QED
      BY <3>1
  <2>3. z < Len(Z2) => Z2[z + 1].pc = ar
    <3>1. CASE z = Len(Z)
      <4>1. Good(A, Z, z, Len(Z))
        BY <1>2, <3>1 DEF Good
      <4>2. PICK c \in Addr : /\ Emits(A, X, t, p, act2, prev2, ep, At(Q2, pc, 1), D2[1], c)
                              /\ Joins(X, Z, z, ar, c)
        BY <2>2, <4>1
      <4>3. p.pc = c /\ c = ar
        BY <3>1, <4>2 DEF Emits, Joins
      <4> QED
        BY <1>2, <3>1, <4>3
    <3>2. CASE z # Len(Z)
      <4>1. z < Len(Z) /\ z + 1 \in 1 .. Len(Z)
        BY <1>2, <3>2
      <4> QED
        BY <1>2, <2>1, <4>1 DEF Chain
    <3> QED
      BY <3>1, <3>2
  <2>4. ASSUME NEW n \in 1 .. Len(Z2), z < n, Good(A, Z2, z, n - 1), Z2[n].pc \in A
        PROVE  Valid(X, t, Z2[n])
    <3>1. n - 1 \in 0 .. Len(Z)
      BY <1>2
    <3>2. Good(A, Z, z, n - 1)
      BY <2>4, <3>1, GoodAppend
    <3>3. CASE n \in 1 .. Len(Z)
      BY <1>2, <2>1, <2>4, <3>2, <3>3 DEF Chain
    <3>4. CASE n = Len(Z) + 1
      <4>1. Good(A, Z, z, Len(Z)) /\ Z2[n] = p
        BY <1>2, <3>2, <3>4
      <4>2. PICK c \in Addr : Emits(A, X, t, p, act2, prev2, ep, At(Q2, pc, 1), D2[1], c)
        BY <2>2, <4>1
      <4> QED
        BY <2>4, <4>1, <4>2 DEF Emits
    <3> QED
      BY <1>2, <3>3, <3>4
  <2>5. ASSUME NEW n \in 1 .. Len(Z2), z < n, n < Len(Z2), Good(A, Z2, z, n)
        PROVE  Follows(X, Z2[n], Z2[n + 1].pc)
    <3>1. n \in 0 .. Len(Z) /\ n \in 1 .. Len(Z) /\ Z2[n] = Z[n]
      BY <1>2, <2>5
    <3>2. Good(A, Z, z, n)
      BY <2>5, <3>1, GoodAppend
    <3>3. CASE n < Len(Z)
      <4>1. n + 1 \in 1 .. Len(Z) /\ Z2[n + 1] = Z[n + 1]
        BY <1>2, <3>1, <3>3
      <4> QED
        BY <2>1, <2>5, <3>1, <3>2, <3>3, <4>1 DEF Chain
    <3>4. CASE n = Len(Z)
      <4>1. PICK c \in Addr : /\ Emits(A, X, t, p, act2, prev2, ep, At(Q2, pc, 1), D2[1], c)
                              /\ Joins(X, Z, z, ar, c)
        BY <2>2, <3>2, <3>4
      <4>2. Follows(X, Z[Len(Z)], c) /\ p.pc = c
        BY <1>2, <2>5, <3>4, <4>1 DEF Emits, Joins
      <4> QED
        BY <1>2, <3>1, <3>4, <4>2
    <3> QED
      BY <1>2, <3>1, <3>3, <3>4
  <2>6. ASSUME Good(A, Z2, z, Len(Z2))
        PROVE  \E c \in Addr : /\ Path(A, X, act2, prev2, ep, At(Q2, pc, 1), D2[1], c)
                               /\ Joins(X, Z2, z, ar, c)
    <3>1. Good(A, Z2, z, Len(Z)) /\ p.pc \in A /\ ~p.trap
      <4>1. Len(Z2) \in 1 .. Len(Z2) /\ z < Len(Z2)
        BY <1>2
      <4>2. \A i \in 1 .. Len(Z) : i \in 1 .. Len(Z2)
        BY <1>2
      <4> QED
        BY <1>2, <2>6, <4>1, <4>2 DEF Good
    <3>2. Good(A, Z, z, Len(Z))
      <4>1. Len(Z) \in 0 .. Len(Z)
        BY <1>2
      <4> QED
        BY <3>1, <4>1, GoodAppend
    <3>3. PICK c \in Addr : Emits(A, X, t, p, act2, prev2, ep, At(Q2, pc, 1), D2[1], c)
      BY <2>2, <3>2
    <3>4. PICK c2 \in Addr : /\ Path(A, X, act2, prev2, ep, At(Q2, pc, 1), D2[1], c2)
                             /\ Follows(X, p, c2)
      BY <3>1, <3>3 DEF Emits
    <3>5. Joins(X, Z2, z, ar, c2)
      BY <1>2, <3>4 DEF Joins
    <3> QED
      BY <3>4, <3>5
  <2> QED
    BY <2>3, <2>4, <2>5, <2>6 DEF Chain
<1> QED
  BY <1>1, <1>3 DEF Flow

(* The targets waiting at the requests, after one left and after one came. *)
Shifted(D2, D, Q) == \A n \in 1 .. (Len(Q) + 1) : D2[n] = D[n + 1]
Extended(D2, D, Q, d) == /\ D2[Len(Q) + 2] = d
                         /\ \A n \in 1 .. (Len(Q) + 1) : D2[n] = D[n]

LEMMA ShiftedExists ==
    ASSUME NEW D, NEW Q, Len(Q) \in Nat PROVE \E D2 : Shifted(D2, D, Q)
<1>1. PICK D2 : D2 = [n \in 1 .. (Len(Q) + 1) |-> D[n + 1]]
  OBVIOUS
<1> QED
  BY <1>1 DEF Shifted

LEMMA ExtendedExists ==
    ASSUME NEW D, NEW Q, Len(Q) \in Nat, NEW d PROVE \E D2 : Extended(D2, D, Q, d)
<1>1. PICK D2 : D2 = [n \in 1 .. (Len(Q) + 2) |-> IF n = Len(Q) + 2 THEN d ELSE D[n]]
  OBVIOUS
<1> QED
  BY <1>1 DEF Extended

(* Responses leave at the front.                                           *)
LEMMA AtTail ==
    ASSUME NEW Q, NEW Q2, NEW D, NEW D2, IsTail(Q2, Q), Shifted(D2, D, Q2)
    PROVE  \A pc : \A n \in 1 .. (Len(Q2) + 1) :
             At(Q2, pc, n) = At(Q, pc, n + 1) /\ D2[n] = D[n + 1]
<1> TAKE pc
<1>1. Len(Q) \in Nat \ {0} /\ Len(Q2) = Len(Q) - 1
  BY DEF IsTail
<1>2. \A i \in 1 .. Len(Q2) : Q2[i] = Q[i + 1] /\ i + 1 \in 1 .. Len(Q)
  BY DEF IsTail
<1>3. \A n \in 1 .. (Len(Q2) + 1) : D2[n] = D[n + 1]
  BY DEF Shifted
<1>4. ASSUME NEW n \in 1 .. (Len(Q2) + 1)
      PROVE  At(Q2, pc, n) = At(Q, pc, n + 1)
  <2>1. CASE n <= Len(Q2)
    <3>1. n \in 1 .. Len(Q2) /\ n + 1 <= Len(Q)
      BY <1>1, <2>1
    <3> QED
      BY <1>2, <2>1, <3>1 DEF At
  <2>2. CASE ~(n <= Len(Q2))
    <3>1. ~(n + 1 <= Len(Q))
      BY <1>1, <2>2
    <3> QED
      BY <2>2, <3>1 DEF At
  <2> QED
    BY <2>1, <2>2
<1> QED
  BY <1>3, <1>4

LEMMA FeedTail ==
    ASSUME NEW A, NEW X, NEW t, NEW Q, NEW Q2, NEW k \in Nat, NEW k2 \in Nat, NEW D, NEW D2,
           NEW pc, NEW dl, IsTail(Q2, Q), k = k2 + 1 \/ (k = 0 /\ k2 = 0),
           Shifted(D2, D, Q2),
           Feed(A, X, t, Q, k, D, pc, dl)
    PROVE  Feed(A, X, t, Q2, k2, D2, pc, dl)
<1>1. Len(Q) \in Nat \ {0} /\ Len(Q2) = Len(Q) - 1
  BY DEF IsTail
<1>2. \A i \in 1 .. Len(Q2) : Q2[i] = Q[i + 1] /\ i + 1 \in 1 .. Len(Q)
  BY DEF IsTail
<1>3. \A n \in 1 .. (Len(Q2) + 1) : At(Q2, pc, n) = At(Q, pc, n + 1) /\ D2[n] = D[n + 1]
  BY AtTail
<1>5. D2[Len(Q2) + 1] = dl
  <2>1. Len(Q2) + 1 \in 1 .. (Len(Q2) + 1) /\ (Len(Q2) + 1) + 1 = Len(Q) + 1
    BY <1>1
  <2> QED
    BY <1>3, <2>1 DEF Feed
<1>6. ASSUME NEW n \in 1 .. Len(Q2), k2 < n
      PROVE  /\ SoundReq(A, X, t, Q2[n])
             /\ Link(X, Q2[n].word, Q2[n].btb, D2[n], At(Q2, pc, n + 1), D2[n + 1])
  <2>1. n + 1 \in 1 .. Len(Q) /\ k < n + 1 /\ Q2[n] = Q[n + 1]
    BY <1>2, <1>6
  <2>2. /\ SoundReq(A, X, t, Q[n + 1])
        /\ Link(X, Q[n + 1].word, Q[n + 1].btb, D[n + 1], At(Q, pc, (n + 1) + 1), D[(n + 1) + 1])
    BY <2>1 DEF Feed
  <2>3. n \in 1 .. (Len(Q2) + 1) /\ n + 1 \in 1 .. (Len(Q2) + 1)
    BY <1>1
  <2> QED
    BY <1>3, <2>1, <2>2, <2>3
<1> QED
  BY <1>5, <1>6 DEF Feed

(* Stage1 throws a stale response away.                                    *)
LEMMA FlowDropResponse ==
    ASSUME NEW A, NEW X, NEW t, NEW Z, NEW z, NEW Q, NEW Q2, NEW k, NEW D,
           NEW pc, NEW dl, NEW act, NEW act2, NEW prev, NEW prev2, NEW ep, NEW ar,
           NEW D2, Shifted(D2, D, Q2), NEW k2 \in Nat, k = k2 + 1,
           Flow(A, X, t, Z, z, Q, k, D, pc, dl, act, prev, ep, ar),
           IsTail(Q2, Q), Q[1].epoch # ep, act2 = "None"
    PROVE  /\ Flow(A, X, t, Z, z, Q2, k2, D2, pc, dl, act2, prev2, ep, ar)
           /\ k = Len(Q) => k2 = Len(Q2)
<1>1. /\ Split(Z, z, ep) /\ Split(Q, k, ep) /\ Feed(A, X, t, Q, k, D, pc, dl)
      /\ z < Len(Z) \/ Keeps(act, prev, ep) => k = 0
  BY DEF Flow
<1>2. Len(Q) \in Nat \ {0} /\ Len(Q2) = Len(Q) - 1
  BY DEF IsTail
<1>3. k # 0 /\ Split(Q2, k2, ep) /\ k \in 0 .. Len(Q)
  <2>1. k # 0 /\ Split(Q2, k - 1, ep)
    BY <1>1, SplitTail
  <2>2. k - 1 = k2
    OBVIOUS
  <2> QED
    BY <1>1, <2>1, <2>2 DEF Split
<1>5. k2 \in Nat /\ k \in Nat /\ k = k2 + 1 /\ k2 <= Len(Q2)
  BY <1>2, <1>3
<1>7. /\ Feed(A, X, t, Q2, k2, D2, pc, dl)
      /\ \A n \in 1 .. (Len(Q2) + 1) : At(Q2, pc, n) = At(Q, pc, n + 1) /\ D2[n] = D[n + 1]
  <2>1. k = k2 + 1 \/ (k = 0 /\ k2 = 0)
    BY <1>5
  <2>2. Feed(A, X, t, Q2, k2, D2, pc, dl)
    BY <1>1, <1>5, <2>1, FeedTail
  <2> QED
    BY <2>2, AtTail
<1>8. ~Keeps(act, prev, ep) /\ ~Keeps(act2, prev2, ep) /\ ~(z < Len(Z))
  BY <1>1, <1>3 DEF Keeps
<1>9. ASSUME NEW c, Path(A, X, act, prev, ep, At(Q, pc, k + 1), D[k + 1], c)
      PROVE  Path(A, X, act2, prev2, ep, At(Q2, pc, k2 + 1), D2[k2 + 1], c)
  <2>1. k2 + 1 \in 1 .. (Len(Q2) + 1) /\ (k2 + 1) + 1 = k + 1
    BY <1>2, <1>5
  <2>2. At(Q2, pc, k2 + 1) = At(Q, pc, k + 1) /\ D2[k2 + 1] = D[k + 1]
    BY <1>7, <2>1
  <2> QED
    BY <1>8, <1>9, <2>2 DEF Path
<1>10. Flow(A, X, t, Z, z, Q2, k2, D2, pc, dl, act2, prev2, ep, ar)
  <2>1. Split(Q2, k2, ep)
    BY <1>3
  <2>2. ar # Stopped => Chain(A, X, t, Z, z, ar)
    BY DEF Flow
  <2>3. ar # Stopped /\ Good(A, Z, z, Len(Z)) =>
              \E c \in Addr : /\ Path(A, X, act2, prev2, ep, At(Q2, pc, k2 + 1), D2[k2 + 1], c)
                              /\ Joins(X, Z, z, ar, c)
    BY <1>9 DEF Flow
  <2> QED
    BY <1>1, <1>7, <1>8, <2>1, <2>2, <2>3 DEF Flow
<1> QED
  BY <1>2, <1>5, <1>10

(* Stage0 makes a request at pc and goes on to pc2.                        *)
LEMMA FlowRequest ==
    ASSUME NEW A, NEW X, NEW t, NEW Z, NEW z, NEW Q, NEW Q2, NEW k, NEW D, NEW r,
           NEW pc, NEW pc2, NEW dl, NEW dl2, NEW act, NEW prev, NEW ep, NEW ar, NEW D2,
           Extended(D2, D, Q, dl2),
           Flow(A, X, t, Z, z, Q, k, D, pc, dl, act, prev, ep, ar),
           IsAppend(Q2, Q, r), r.epoch = ep, EntryOf(r) = pc, SoundReq(A, X, t, r),
           Link(X, r.word, r.btb, dl, pc2, dl2)
    PROVE  Flow(A, X, t, Z, z, Q2, k, D2, pc2, dl2, act, prev, ep, ar)
<1>1. /\ Split(Z, z, ep) /\ Split(Q, k, ep) /\ Feed(A, X, t, Q, k, D, pc, dl)
      /\ z < Len(Z) \/ Keeps(act, prev, ep) => k = 0
  BY DEF Flow
<1>2. /\ Len(Q) \in Nat /\ Len(Q2) = Len(Q) + 1 /\ Q2[Len(Q) + 1] = r
      /\ \A i \in 1 .. Len(Q) : Q2[i] = Q[i]
  BY DEF IsAppend
<1>3. Split(Q2, k, ep) /\ k \in 0 .. Len(Q)
  BY <1>1, SplitAppend DEF Split
<1>5. /\ D2[Len(Q2) + 1] = dl2
      /\ \A n \in 1 .. (Len(Q) + 1) : D2[n] = D[n]
  BY <1>2 DEF Extended
<1>6. ASSUME NEW n \in 1 .. (Len(Q) + 1)
      PROVE  At(Q2, pc2, n) = At(Q, pc, n)
  <2>1. CASE n \in 1 .. Len(Q)
    BY <1>2, <2>1 DEF At
  <2>2. CASE n = Len(Q) + 1
    BY <1>2, <2>2 DEF At
  <2> QED
    BY <1>2, <2>1, <2>2
<1>7. ASSUME NEW n \in 1 .. Len(Q2), k < n
      PROVE  /\ SoundReq(A, X, t, Q2[n])
             /\ Link(X, Q2[n].word, Q2[n].btb, D2[n], At(Q2, pc2, n + 1), D2[n + 1])
  <2>1. CASE n \in 1 .. Len(Q)
    <3>1. n \in 1 .. (Len(Q) + 1) /\ n + 1 \in 1 .. (Len(Q) + 1) /\ Q2[n] = Q[n]
      BY <1>2, <2>1
    <3>2. /\ SoundReq(A, X, t, Q[n])
          /\ Link(X, Q[n].word, Q[n].btb, D[n], At(Q, pc, n + 1), D[n + 1])
      BY <1>1, <1>7, <2>1 DEF Feed
    <3> QED
      BY <1>5, <1>6, <3>1, <3>2
  <2>2. CASE n = Len(Q) + 1
    <3>1. Q2[n] = r /\ D2[n] = dl /\ D2[n + 1] = dl2
      BY <1>1, <1>2, <1>5, <2>2 DEF Feed
    <3>2. At(Q2, pc2, n + 1) = pc2
      BY <1>2, <2>2 DEF At
    <3> QED
      BY <3>1, <3>2
  <2> QED
    BY <1>2, <2>1, <2>2
<1>8. Feed(A, X, t, Q2, k, D2, pc2, dl2)
  BY <1>5, <1>7 DEF Feed
<1>9. ASSUME NEW c, Path(A, X, act, prev, ep, At(Q, pc, k + 1), D[k + 1], c)
      PROVE  Path(A, X, act, prev, ep, At(Q2, pc2, k + 1), D2[k + 1], c)
  <2>1. 1 \in 1 .. (Len(Q) + 1) /\ k + 1 \in 1 .. (Len(Q) + 1)
    BY <1>2, <1>3
  <2>2. /\ At(Q2, pc2, 1) = At(Q, pc, 1) /\ D2[1] = D[1]
        /\ At(Q2, pc2, k + 1) = At(Q, pc, k + 1) /\ D2[k + 1] = D[k + 1]
    BY <1>5, <1>6, <2>1
  <2> QED
    BY <1>9, <2>2 DEF Path
<1>10. Flow(A, X, t, Z, z, Q2, k, D2, pc2, dl2, act, prev, ep, ar)
  <2>1. ar # Stopped => Chain(A, X, t, Z, z, ar)
    BY DEF Flow
  <2>2. ar # Stopped /\ Good(A, Z, z, Len(Z)) =>
              \E c \in Addr : /\ Path(A, X, act, prev, ep, At(Q2, pc2, k + 1), D2[k + 1], c)
                              /\ Joins(X, Z, z, ar, c)
    BY <1>9 DEF Flow
  <2> QED
    BY <1>1, <1>3, <1>8, <2>1, <2>2 DEF Flow
<1> QED
  BY <1>10

(***************************************************************************)
(* Stage1 and the response q, whose request was made with d1 waiting and   *)
(* was followed by one at a2 with d2 waiting.                              *)
(***************************************************************************)
Bools(X) == \A a \in Addr : X[a].wide \in BOOLEAN
BtbSet == [hit : BOOLEAN, pred : BOOLEAN, hi : BOOLEAN]

Response(A, X, t, q, a2, d1, d2) ==
    /\ Disciplined(A, X) /\ Bools(X)
    /\ q.word \in 0 .. (Words - 1) /\ q.discard \in BOOLEAN /\ q.btb \in BtbSet
    /\ a2 \in Addr
    /\ SoundReq(A, X, t, q)
    /\ Link(X, q.word, q.btb, d1, a2, d2)

(* Stage1 keeps the upper half of q's word.                                *)
KeptHalf(X, q, prev, ep) ==
    /\ prev.epoch = ep /\ prev.word = q.word /\ prev.btb = q.btb
    /\ prev.wide = X[2 * q.word + 1].wide

LEMMA HalvesInAddr ==
    ASSUME NEW w \in 0 .. (Words - 1)
    PROVE  2 * w \in Addr /\ 2 * w + 1 \in Addr
  BY FetchAssumption DEF Addr

LEMMA PathOfKeptHalf ==
    ASSUME NEW A, NEW X, NEW t, NEW q, NEW prev, NEW ep, NEW a2, NEW d2,
           Response(A, X, t, q, a2, <<>>, d2), KeptHalf(X, q, prev, ep),
           q.btb.pred => q.btb.hi
    PROVE  Path(A, X, "CheckPrev", prev, ep, a2, d2, 2 * q.word + 1)
  BY DEF Path, Keeps, KeptHalf, Response, SoundReq

(* A predicted instruction, and one that is not predicted.                 *)
LEMMA FollowsCases ==
    ASSUME NEW X, NEW p, NEW y,
           \/ p.pred /\ X[p.pc].kind # "alu" /\ Goes(X, p.pc, y)
           \/ ~p.pred /\ y = After(p)
    PROVE  Follows(X, p, y)
  BY DEF Follows, Goes

(* A 32-bit instruction whose first half was kept.                         *)
LEMMA EmitKeptWide ==
    ASSUME NEW A, NEW X, NEW t, NEW q, NEW p, NEW prev, NEW act2, NEW prev2, NEW ep,
           NEW a2, NEW d1, NEW d2, NEW c \in Addr,
           Response(A, X, t, q, a2, d1, d2),
           prev.word \in 0 .. (Words - 1), prev.btb \in BtbSet, prev.wide = TRUE,
           Path(A, X, "CheckPrev", prev, ep, EntryOf(q), d1, c), prev.epoch = ep,
           p.pc = 2 * prev.word + 1, p.wide = TRUE, p.snd = 2 * q.word, p.text = t,
           p.pred <=> prev.btb.hi /\ prev.btb.pred,
           ~p.trap => KeptHalf(X, q, prev2, ep),
           act2 = IF p.pred THEN "None" ELSE "CheckPrev"
    PROVE  Emits(A, X, t, p, act2, prev2, ep, a2, d2, c)
<1>1. /\ c = 2 * prev.word + 1 /\ X[c].wide
      /\ SoundB(A, X, prev.word, prev.btb) /\ (prev.btb.pred => prev.btb.hi)
      /\ Link(X, prev.word, prev.btb, <<>>, EntryOf(q), d1)
  BY DEF Path, Keeps
<1>2. EntryOf(q) = Plus(2 * prev.word, 2)
  BY <1>1 DEF Link, Edge
<1>3. /\ ~q.discard /\ 2 * q.word = Plus(c, 1) /\ 2 * q.word + 1 = Plus(c, 2)
  BY <1>1, <1>2, NextWord DEF EntryOf, Response
<1>4. p.pc = c /\ Valid(X, t, p)
  BY <1>1, <1>3 DEF Valid, Response, Bools
<1>5. ASSUME c \in A, ~p.trap
      PROVE  \E c2 \in Addr : Path(A, X, act2, prev2, ep, a2, d2, c2) /\ Follows(X, p, c2)
  <2>1. CASE p.pred
    <3>1. prev.btb.pred /\ prev.btb.hi /\ Edge(X, prev.word, prev.btb)
      BY <1>1, <2>1 DEF Edge
    <3>2. d1 # <<>> /\ Goes(X, c, d1[1]) /\ X[c].kind # "alu"
      BY <1>1, <3>1 DEF Link, Site, SoundB
    <3>3. a2 = d1[1] /\ d2 = <<>> /\ a2 \in Addr
      BY <3>2 DEF Response, Link
    <3>4. Follows(X, p, a2)
      BY <1>4, <2>1, <3>2, <3>3, FollowsCases
    <3>5. Path(A, X, act2, prev2, ep, a2, d2, a2)
      BY <2>1, <3>3 DEF Path, Keeps
    <3> QED
      BY <3>3, <3>4, <3>5
  <2>2. CASE ~p.pred
    <3>1. ~prev.btb.pred /\ d1 = <<>>
      BY <1>1, <2>2 DEF Link, Edge
    <3>2. q.btb.pred => q.btb.hi
      <4>1. Plus(c, 1) \notin A
        BY <1>1, <1>5 DEF Response, Disciplined
      <4> QED
        BY <1>3, <4>1 DEF Response, SoundReq, SoundB, Site
    <3>3. Path(A, X, act2, prev2, ep, a2, d2, 2 * q.word + 1)
      BY <1>5, <2>2, <3>1, <3>2, PathOfKeptHalf
    <3>4. Follows(X, p, 2 * q.word + 1)
      BY <1>3, <1>4, <2>2, FollowsCases DEF After, SizeOf
    <3>5. 2 * q.word + 1 \in Addr
      BY HalvesInAddr DEF Response
    <3> QED
      BY <3>3, <3>4, <3>5
  <2> QED
    BY <2>1, <2>2
<1> QED
  BY <1>4, <1>5 DEF Emits

(* A 16-bit instruction that was kept; the response stays.                 *)
LEMMA EmitKeptNarrow ==
    ASSUME NEW A, NEW X, NEW t, NEW p, NEW prev, NEW prev2, NEW ep,
           NEW a1 \in Addr, NEW d1, NEW c \in Addr,
           prev.word \in 0 .. (Words - 1), prev.btb \in BtbSet, prev.wide = FALSE,
           Path(A, X, "CheckPrev", prev, ep, a1, d1, c), prev.epoch = ep,
           p.pc = 2 * prev.word + 1, p.wide = FALSE, p.text = t,
           p.pred <=> prev.btb.hi /\ prev.btb.pred
    PROVE  Emits(A, X, t, p, "None", prev2, ep, a1, d1, c)
<1>1. /\ c = 2 * prev.word + 1 /\ X[c].wide = FALSE
      /\ SoundB(A, X, prev.word, prev.btb) /\ (prev.btb.pred => prev.btb.hi)
      /\ Link(X, prev.word, prev.btb, <<>>, a1, d1)
  BY DEF Path, Keeps
<1>2. p.pc = c /\ Valid(X, t, p)
  BY <1>1 DEF Valid
<1>3. d1 = <<>> /\ (prev.btb.pred => Goes(X, c, a1)) /\ (~prev.btb.pred => a1 = Plus(2 * prev.word, 2))
  BY <1>1 DEF Link, Edge, Site
<1>4. Path(A, X, "None", prev2, ep, a1, d1, a1)
  BY <1>3 DEF Path, Keeps
<1>5. Follows(X, p, a1)
  <2>1. CASE p.pred
    <3>1. X[c].kind # "alu" /\ Goes(X, c, a1)
      BY <1>1, <1>3, <2>1 DEF SoundB, Site
    <3> QED
      BY <1>2, <2>1, <3>1, FollowsCases
  <2>2. CASE ~p.pred
    <3>1. a1 = Plus(c, 1)
      BY <1>1, <1>3, <2>2, PlusCases
    <3> QED
      BY <1>2, <2>2, <3>1, FollowsCases DEF After, SizeOf
  <2> QED
    BY <2>1, <2>2
<1> QED
  BY <1>2, <1>4, <1>5 DEF Emits

(* A jump to the upper half of a word, a 16-bit instruction or a fault.    *)
LEMMA EmitUpper ==
    ASSUME NEW A, NEW X, NEW t, NEW q, NEW p, NEW prev2, NEW ep, NEW a2, NEW d2,
           Response(A, X, t, q, a2, <<>>, d2), q.discard,
           p.pc = 2 * q.word + 1, p.wide = FALSE, p.text = t,
           ~p.trap => ~X[2 * q.word + 1].wide,
           p.pred <=> q.btb.hi /\ q.btb.pred
    PROVE  Emits(A, X, t, p, "None", prev2, ep, a2, d2, EntryOf(q))
<1> DEFINE c == 2 * q.word + 1
<1>1. EntryOf(q) = c /\ (q.btb.pred => q.btb.hi) /\ c \in Addr
  BY HalvesInAddr DEF EntryOf, Response, SoundReq
<1>2. p.pc = c /\ Valid(X, t, p)
  BY <1>1 DEF Valid, Response, Bools
<1>3. ASSUME ~p.trap PROVE Path(A, X, "None", prev2, ep, a2, d2, a2) /\ Follows(X, p, a2)
  <2>1. ~Edge(X, q.word, q.btb)
    BY <1>3 DEF Edge
  <2>2. d2 = <<>> /\ (q.btb.pred => Goes(X, c, a2)) /\ (~q.btb.pred => a2 = Plus(2 * q.word, 2))
    BY <1>1, <2>1 DEF Response, Link, Site
  <2>3. Path(A, X, "None", prev2, ep, a2, d2, a2)
    BY <2>2 DEF Path, Keeps
  <2>4. CASE p.pred
    <3>1. X[c].kind # "alu" /\ Goes(X, c, a2)
      BY <1>1, <2>2, <2>4 DEF Response, SoundReq, SoundB, Site
    <3> QED
      BY <1>2, <2>3, <2>4, <3>1, FollowsCases
  <2>5. CASE ~p.pred
    <3>1. a2 = Plus(c, 1)
      BY <1>1, <2>2, <2>5, PlusCases DEF Response
    <3> QED
      BY <1>2, <2>3, <2>5, <3>1, FollowsCases DEF After, SizeOf
  <2> QED
    BY <2>4, <2>5
<1> QED
  BY <1>1, <1>2, <1>3 DEF Emits, Response

(* An aligned 32-bit instruction.                                          *)
LEMMA EmitWide ==
    ASSUME NEW A, NEW X, NEW t, NEW q, NEW p, NEW prev2, NEW ep, NEW a2, NEW d2,
           Response(A, X, t, q, a2, <<>>, d2), ~q.discard, X[2 * q.word].wide,
           p.pc = 2 * q.word, p.wide = TRUE, p.text = t, p.snd = 2 * q.word + 1,
           p.pred <=> q.btb.pred
    PROVE  Emits(A, X, t, p, "None", prev2, ep, a2, d2, EntryOf(q))
<1> DEFINE c == 2 * q.word
<1>1. EntryOf(q) = c /\ c \in Addr
  BY HalvesInAddr DEF EntryOf, Response
<1>2. Plus(c, 1) = c + 1
  BY PlusCases DEF Response
<1>3. p.pc = c /\ Valid(X, t, p)
  BY <1>1, <1>2 DEF Valid, Response, Bools
<1>4. ASSUME c \in A PROVE Path(A, X, "None", prev2, ep, a2, d2, a2) /\ Follows(X, p, a2)
  <2>1. c + 1 \notin A
    BY <1>2, <1>4 DEF Response, Disciplined
  <2>2. q.btb.pred => ~q.btb.hi /\ X[c].kind # "alu" /\ Site(q.word, q.btb) = c
    BY <2>1 DEF Response, SoundReq, SoundB, Site
  <2>3. ~Edge(X, q.word, q.btb)
    BY <2>2 DEF Edge
  <2>4. d2 = <<>> /\ (q.btb.pred => Goes(X, c, a2)) /\ (~q.btb.pred => a2 = Plus(c, 2))
    BY <2>2, <2>3 DEF Response, Link
  <2>5. Path(A, X, "None", prev2, ep, a2, d2, a2)
    BY <2>4 DEF Path, Keeps
  <2>6. Follows(X, p, a2)
    BY <1>3, <2>2, <2>4, FollowsCases DEF After, SizeOf
  <2> QED
    BY <2>5, <2>6
<1> QED
  BY <1>1, <1>3, <1>4 DEF Emits, Response

(* An aligned 16-bit instruction, or a fault.                              *)
LEMMA EmitNarrow ==
    ASSUME NEW A, NEW X, NEW t, NEW q, NEW p, NEW act2, NEW prev2, NEW ep, NEW a2, NEW d2,
           Response(A, X, t, q, a2, <<>>, d2), ~q.discard,
           p.pc = 2 * q.word, p.wide = FALSE, p.text = t,
           ~p.trap => ~X[2 * q.word].wide /\ KeptHalf(X, q, prev2, ep),
           p.pred <=> ~q.btb.hi /\ q.btb.pred,
           act2 = IF p.pred THEN "None" ELSE "CheckPrev"
    PROVE  Emits(A, X, t, p, act2, prev2, ep, a2, d2, EntryOf(q))
<1> DEFINE c == 2 * q.word
<1>1. EntryOf(q) = c /\ c \in Addr /\ c + 1 \in Addr
  BY HalvesInAddr DEF EntryOf, Response
<1>2. Plus(c, 1) = c + 1
  BY PlusCases DEF Response
<1>3. p.pc = c /\ Valid(X, t, p)
  BY <1>1 DEF Valid, Response, Bools
<1>4. ASSUME ~p.trap
      PROVE  \E c2 \in Addr : Path(A, X, act2, prev2, ep, a2, d2, c2) /\ Follows(X, p, c2)
  <2>1. CASE p.pred
    <3>1. ~Edge(X, q.word, q.btb) /\ Site(q.word, q.btb) = c
      BY <2>1 DEF Edge, Site
    <3>2. d2 = <<>> /\ Goes(X, c, a2) /\ X[c].kind # "alu" /\ a2 \in Addr
      BY <2>1, <3>1 DEF Response, Link, SoundReq, SoundB
    <3>3. Path(A, X, act2, prev2, ep, a2, d2, a2)
      BY <2>1, <3>2 DEF Path, Keeps
    <3>4. Follows(X, p, a2)
      BY <1>3, <2>1, <3>2, FollowsCases
    <3> QED
      BY <3>2, <3>3, <3>4
  <2>2. CASE ~p.pred
    <3>1. q.btb.pred => q.btb.hi
      BY <2>2
    <3>2. Path(A, X, act2, prev2, ep, a2, d2, c + 1)
      BY <1>4, <2>2, <3>1, PathOfKeptHalf
    <3>3. Follows(X, p, c + 1)
      BY <1>2, <1>3, <2>2, FollowsCases DEF After, SizeOf
    <3> QED
      BY <1>1, <3>2, <3>3
  <2> QED
    BY <2>1, <2>2
<1> QED
  BY <1>1, <1>3, <1>4 DEF Emits

(***************************************************************************)
(* The types of the pieces of the state.                                   *)
(***************************************************************************)
Epochs == {0, 1} \X {0, 1}
ReqSet == [word : 0 .. (Words - 1), discard : BOOLEAN, btb : BtbSet, epoch : Epochs,
           text : 1 .. Len(Texts)]
PktSet == [pc : Addr, wide : BOOLEAN, snd : Addr, epoch : Epochs, trap : BOOLEAN,
           fst : 1 .. Len(Texts), text : 1 .. Len(Texts), pred : BOOLEAN]
PrevSet == [word : 0 .. (Words - 1), wide : BOOLEAN, epoch : Epochs, btb : BtbSet,
            text : 1 .. Len(Texts)]
EntrySet == [valid : BOOLEAN, word : 0 .. (Words - 1), target : Addr,
             ci : {"Branch", "JAL", "Ret"}, instr16 : BOOLEAN, hi : BOOLEAN]

QueueTypes ==
    /\ isb01 \in Seq(ReqSet) /\ isb12 \in Seq(PktSet)
    /\ isb23 \in Seq(PktSet) /\ Len(isb23) <= 1
    /\ rg_prev \in PrevSet
Delayed == {<<>>} \union {<<a>> : a \in Addr}
RegTypes ==
    /\ rg_pc \in Addr /\ rg_delayed_redirect \in Delayed
    /\ rg_fence \in BOOLEAN /\ rg_sfence \in BOOLEAN
    /\ rg_initialize \in BOOLEAN /\ wr_bpu_enable \in BOOLEAN
    /\ rg_stall \in BOOLEAN /\ eEpoch \in {0, 1} /\ wEpoch \in {0, 1}
    /\ text \in 1 .. Len(Texts) /\ icache_text \in 1 .. Len(Texts) /\ inflight \in BOOLEAN
BtbTypes ==
    /\ btb \in [0 .. (BtbDepth - 1) -> EntrySet]
    /\ rg_allocate \in 0 .. (BtbDepth - 1)
Types == QueueTypes /\ RegTypes /\ BtbTypes

LEMMA TextFacts ==
    ASSUME NEW t \in 1 .. Len(Texts)
    PROVE  /\ Texts[t] \in [Addr -> Instr]
           /\ \A a \in Addr : /\ Texts[t][a].wide \in BOOLEAN /\ Texts[t][a].target \in Addr
                              /\ Texts[t][a].kind \in {"alu", "branch", "jal", "ret"}
<1>1. Texts[t] \in [Addr -> Instr]
  BY FetchAssumption, ElementOfSeq
<1> QED
  BY <1>1 DEF Instr, Kinds

LEMMA WordFacts ==
    ASSUME NEW a \in Addr
    PROVE  /\ Word(a) \in 0 .. (Words - 1) /\ Hi(a) \in BOOLEAN
           /\ (IF Hi(a) THEN 2 * Word(a) + 1 ELSE 2 * Word(a)) = a
<1>1. Words \in Nat \ {0} /\ a \in 0 .. (2 * Words - 1)
  BY FetchAssumption DEF Addr
<1>2. a = 2 * (a \div 2) + (a % 2) /\ a % 2 \in 0 .. 1 /\ a \div 2 \in Int
  BY <1>1
<1> QED
  BY <1>1, <1>2 DEF Word, Hi

LEMMA EpochType ==
    ASSUME RegTypes PROVE epoch \in Epochs
  BY DEF RegTypes, epoch, Epochs

LEMMA NoBtbType == NoBtb \in BtbSet
  BY DEF NoBtb, BtbSet

LEMMA NoEntryType == NoEntry \in EntrySet
  BY FetchAssumption DEF NoEntry, EntrySet, Addr

LEMMA PacketType ==
    ASSUME RegTypes, NEW fst \in 1 .. Len(Texts), NEW q \in ReqSet, NEW pc \in Addr,
           NEW wide \in BOOLEAN, NEW snd \in Addr, NEW trap \in BOOLEAN, NEW b \in BtbSet
    PROVE  Packet(fst, q, pc, wide, snd, trap, b) \in PktSet
  BY EpochType DEF Packet, PktSet, ReqSet, BtbSet

LEMMA WideType ==
    ASSUME NEW q \in ReqSet, NEW a \in Addr
    PROVE  /\ Wide(q, a) \in BOOLEAN /\ Fault(q) \in BOOLEAN
           /\ ~Fault(q) => Wide(q, a) = Texts[q.text][a].wide
<1>1. q.text \in 1 .. Len(Texts)
  BY DEF ReqSet
<1>2. Texts[q.text][a].wide \in BOOLEAN
  BY <1>1, TextFacts
<1>3. Fault(q) \in BOOLEAN
  BY DEF Fault
<1> QED
  BY <1>2, <1>3, Zenon DEF Wide

LEMMA PrevType ==
    ASSUME RegTypes, NEW q \in ReqSet
    PROVE  Prev(q) \in PrevSet
<1>1. 2 * q.word + 1 \in Addr
  BY HalvesInAddr DEF ReqSet
<1>2. Wide(q, 2 * q.word + 1) \in BOOLEAN
  BY <1>1, WideType
<1> QED
  BY <1>2, EpochType DEF Prev, PrevSet, ReqSet

LEMMA ForHalfType ==
    ASSUME NEW b \in BtbSet, NEW hi \in BOOLEAN
    PROVE  /\ ForHalf(b, hi) \in BtbSet
           /\ ForHalf(b, hi).pred <=> b.hi = hi /\ b.pred
  BY NoBtbType DEF ForHalf, NoBtb, BtbSet

(* Stage1: what process_instruction does, case by case.                    *)
Kept == Keeps(rg_action, rg_prev, epoch)
Process(q, p) ==
    \/ /\ Kept /\ rg_prev.wide
       /\ p = Packet(rg_prev.text, q, 2 * rg_prev.word + 1, TRUE, 2 * q.word, Fault(q), ForHalf(rg_prev.btb, TRUE))
       /\ isb12' = Append(isb12, p) /\ isb01' = Tail(isb01) /\ rg_prev' = Prev(q)
       /\ rg_action' = IF ForHalf(rg_prev.btb, TRUE).pred THEN "None" ELSE "CheckPrev"
    \/ /\ Kept /\ ~rg_prev.wide
       /\ p = Packet(rg_prev.text, q, 2 * rg_prev.word + 1, FALSE, 2 * rg_prev.word + 1, FALSE,
                     ForHalf(rg_prev.btb, TRUE))
       /\ isb12' = Append(isb12, p) /\ isb01' = isb01
       /\ rg_prev' = [rg_prev EXCEPT !.epoch = epoch] /\ rg_action' = "None"
    \/ /\ ~Kept /\ q.discard /\ Wide(q, 2 * q.word + 1)
       /\ isb12' = isb12 /\ isb01' = Tail(isb01) /\ rg_prev' = Prev(q)
       /\ rg_action' = "CheckPrev"
    \/ /\ ~Kept /\ q.discard /\ ~Wide(q, 2 * q.word + 1)
       /\ p = Packet(q.text, q, 2 * q.word + 1, FALSE, 2 * q.word + 1, Fault(q), ForHalf(q.btb, TRUE))
       /\ isb12' = Append(isb12, p) /\ isb01' = Tail(isb01)
       /\ rg_prev' = [rg_prev EXCEPT !.epoch = epoch] /\ rg_action' = "None"
    \/ /\ ~Kept /\ ~q.discard /\ Wide(q, 2 * q.word)
       /\ p = Packet(q.text, q, 2 * q.word, TRUE, 2 * q.word + 1, Fault(q), q.btb)
       /\ isb12' = Append(isb12, p) /\ isb01' = Tail(isb01)
       /\ rg_prev' = [rg_prev EXCEPT !.epoch = epoch] /\ rg_action' = "None"
    \/ /\ ~Kept /\ ~q.discard /\ ~Wide(q, 2 * q.word)
       /\ p = Packet(q.text, q, 2 * q.word, FALSE, 2 * q.word, Fault(q), ForHalf(q.btb, FALSE))
       /\ isb12' = Append(isb12, p) /\ isb01' = Tail(isb01) /\ rg_prev' = Prev(q)
       /\ rg_action' = IF ~q.btb.hi /\ q.btb.pred THEN "None" ELSE "CheckPrev"

LEMMA ProcessCases ==
    ASSUME process_instruction
    PROVE  \E p : Process(Head(isb01), p)
<1>1. PICK q : q = Head(isb01)
  OBVIOUS
<1>2. CASE Kept /\ check_prev(q)
  BY <1>1, <1>2, Zenon DEF check_prev, Process
<1>3. CASE ~Kept /\ q.discard /\ discard_lower(q)
  BY <1>1, <1>3, Zenon DEF discard_lower, Process
<1>4. CASE ~Kept /\ ~q.discard /\ aligned(q)
  BY <1>1, <1>4, Zenon DEF aligned, Process
<1> QED
  BY <1>1, <1>2, <1>3, <1>4, Zenon DEF process_instruction, Kept, Keeps

(***************************************************************************)
(* Types are kept.                                                         *)
(***************************************************************************)
LEMMA ProcessTypes ==
    ASSUME Types, process_instruction
    PROVE  QueueTypes'
<1>1. isb01 # <<>> /\ isb23' = isb23
  BY DEF process_instruction
<1>2. PICK q : q = Head(isb01)
  OBVIOUS
<1>3. q \in ReqSet /\ Tail(isb01) \in Seq(ReqSet)
  BY <1>1, <1>2, TailFacts DEF Types, QueueTypes
<1>4. PICK p : Process(q, p)
  BY <1>2, ProcessCases
<1>5. /\ 2 * q.word \in Addr /\ 2 * q.word + 1 \in Addr
      /\ q.btb \in BtbSet /\ Fault(q) \in BOOLEAN
  <2>1. q.word \in 0 .. (Words - 1) /\ q.btb \in BtbSet
    BY <1>3 DEF ReqSet
  <2>2. 2 * q.word \in Addr /\ 2 * q.word + 1 \in Addr
    BY <2>1, HalvesInAddr
  <2> QED
    BY <1>3, <2>1, <2>2, WideType
<1>6. rg_prev \in PrevSet /\ 2 * rg_prev.word + 1 \in Addr /\ rg_prev.btb \in BtbSet
  <2>1. rg_prev \in PrevSet
    BY DEF Types, QueueTypes
  <2>2. rg_prev.word \in 0 .. (Words - 1) /\ rg_prev.btb \in BtbSet
    BY <2>1 DEF PrevSet
  <2> QED
    BY <2>1, <2>2, HalvesInAddr
<1>7. RegTypes
  BY DEF Types
<1>8. \A hi \in BOOLEAN : ForHalf(rg_prev.btb, hi) \in BtbSet /\ ForHalf(q.btb, hi) \in BtbSet
  BY <1>5, <1>6, ForHalfType
<1>9. isb12' = isb12 \/ (p \in PktSet /\ isb12' = Append(isb12, p))
  <2>1. \A fst \in 1 .. Len(Texts), pc \in Addr, wide \in BOOLEAN, snd \in Addr,
           trap \in BOOLEAN, b \in BtbSet :
          Packet(fst, q, pc, wide, snd, trap, b) \in PktSet
    BY <1>3, <1>7, PacketType
  <2>2. \A b \in BtbSet, trap \in BOOLEAN :
          /\ Packet(rg_prev.text, q, 2 * rg_prev.word + 1, TRUE, 2 * q.word, trap, b) \in PktSet
          /\ Packet(rg_prev.text, q, 2 * rg_prev.word + 1, FALSE, 2 * rg_prev.word + 1, trap, b) \in PktSet
          /\ Packet(q.text, q, 2 * q.word + 1, FALSE, 2 * q.word + 1, trap, b) \in PktSet
          /\ Packet(q.text, q, 2 * q.word, TRUE, 2 * q.word + 1, trap, b) \in PktSet
          /\ Packet(q.text, q, 2 * q.word, FALSE, 2 * q.word, trap, b) \in PktSet
    <3>1. q.text \in 1 .. Len(Texts) /\ rg_prev.text \in 1 .. Len(Texts)
      BY <1>3, <1>6 DEF ReqSet, PrevSet
    <3> QED
      BY <1>5, <1>6, <2>1, <3>1
  <2>3. ForHalf(rg_prev.btb, TRUE) \in BtbSet /\ ForHalf(q.btb, TRUE) \in BtbSet
        /\ ForHalf(q.btb, FALSE) \in BtbSet /\ FALSE \in BOOLEAN
    BY <1>8
  <2> QED
    BY <1>4, <1>5, <2>2, <2>3, Zenon DEF Process
<1>10. isb12' \in Seq(PktSet)
  BY <1>9, AppendFacts DEF Types, QueueTypes
<1>11. isb01' \in Seq(ReqSet)
  BY <1>3, <1>4 DEF Process, Types, QueueTypes
<1>12. Prev(q) \in PrevSet /\ [rg_prev EXCEPT !.epoch = epoch] \in PrevSet
  <2>1. epoch \in Epochs
    BY <1>7, EpochType
  <2> QED
    BY <1>3, <1>6, <1>7, <2>1, PrevType DEF PrevSet
<1>13. rg_prev' \in PrevSet
  BY <1>4, <1>12 DEF Process
<1> QED
  BY <1>1, <1>10, <1>11, <1>13 DEF QueueTypes, Types

(* Stage0: the request it makes, and where it goes then.                   *)
LEMMA PredictionType ==
    ASSUME Types, NEW pc \in Addr, NEW p \in BOOLEAN, NEW ras \in Addr
    PROVE  /\ Prediction(pc, p, ras).btb \in BtbSet
           /\ Prediction(pc, p, ras).instr16 \in BOOLEAN
           /\ Prediction(pc, p, ras).target \in Addr
<1>1. CASE ~wr_bpu_enable \/ Matches(pc) = {}
  BY <1>1, NoBtbType DEF Prediction
<1>2. CASE ~(~wr_bpu_enable \/ Matches(pc) = {})
  <2>1. PICK i : i = CHOOSE j \in Matches(pc) : TRUE
    OBVIOUS
  <2>2. i \in DOMAIN btb
    BY <1>2, <2>1 DEF Matches
  <2>3. btb[i] \in EntrySet
    BY <2>2 DEF Types, BtbTypes
  <2>4. PICK u \in BOOLEAN : u = (btb[i].hi \/ ~Hi(pc))
    BY <2>3, Zenon
  <2>5. PICK v \in BOOLEAN : v = (u /\ (btb[i].ci = "Branch" => p))
    BY Zenon
  <2>6. Prediction(pc, p, ras) =
          [btb |-> [hit |-> TRUE, hi |-> btb[i].hi, pred |-> v],
           instr16 |-> btb[i].instr16,
           target |-> IF ~u THEN pc ELSE IF btb[i].ci = "Ret" THEN ras ELSE btb[i].target]
    BY <1>2, <2>1, <2>4, <2>5, Zenon DEF Prediction
  <2> QED
    BY <2>3, <2>6 DEF EntrySet, BtbSet
<1> QED
  BY <1>1, <1>2

LEMMA HintTypes ==
    ASSUME NEW pc, NEW h \in Hints(pc)
    PROVE  h.p \in BOOLEAN /\ h.ras \in Addr
<1>1. h.p \in BOOLEAN /\ h.ras \in Tops \union {0}
  BY DEF Hints
<1>2. 0 \in Addr
  BY FetchAssumption DEF Addr
<1> QED
  BY <1>1, <1>2, FetchAssumption

LEMMA RequestTypes ==
    ASSUME Types, gen_next_pc
    PROVE  Types'
<1>1. PICK h \in Hints(rg_pc) :
         /\ redirect(Prediction(rg_pc, h.p, h.ras))
         /\ isb01' = Append(isb01, [word |-> Word(rg_pc), discard |-> Hi(rg_pc),
                                    btb |-> Prediction(rg_pc, h.p, h.ras).btb,
                                    epoch |-> epoch, text |-> icache_text])
  BY Zenon DEF gen_next_pc
<1>2. h.p \in BOOLEAN /\ h.ras \in Addr
  BY HintTypes
<1>3. PICK r : r = Prediction(rg_pc, h.p, h.ras)
  OBVIOUS
<1>4. r.btb \in BtbSet /\ r.instr16 \in BOOLEAN /\ r.target \in Addr
  BY <1>2, <1>3, PredictionType DEF Types, RegTypes
<1>5. PICK e : e = [word |-> Word(rg_pc), discard |-> Hi(rg_pc), btb |-> r.btb,
                    epoch |-> epoch, text |-> icache_text]
  OBVIOUS
<1>6. e \in ReqSet
  <2>1. Word(rg_pc) \in 0 .. (Words - 1) /\ Hi(rg_pc) \in BOOLEAN
    BY WordFacts DEF Types, RegTypes
  <2> QED
    BY <1>4, <1>5, <2>1, EpochType DEF ReqSet, Types, RegTypes
<1>7. isb01' \in Seq(ReqSet)
  BY <1>1, <1>3, <1>5, <1>6, AppendFacts DEF Types, QueueTypes
<1>8. SeqPc \in Addr
  <2>1. 2 * Word(rg_pc) \in Addr
    BY WordFacts, HalvesInAddr DEF Types, RegTypes
  <2> QED
    BY <2>1, PlusInAddr DEF SeqPc
<1>9. rg_delayed_redirect # <<>> => rg_delayed_redirect[1] \in Addr
  BY DEF Types, RegTypes, Delayed
<1>10. redirect(r)
  BY <1>1, <1>3
<1>11. rg_pc' \in Addr /\ rg_delayed_redirect' \in Delayed
  BY <1>4, <1>8, <1>9, <1>10 DEF redirect, Delayed
<1>12. UNCHANGED <<rg_fence, rg_sfence, bpu, stage1, isb12, rg_stall, isb23, eEpoch, wEpoch, env>>
  BY DEF gen_next_pc
<1> QED
  BY <1>7, <1>11, <1>12 DEF Types, QueueTypes, RegTypes, BtbTypes, bpu, stage1, env

LEMMA TrainingTypes ==
    ASSUME BtbTypes, NEW pc \in Addr, NEW target \in Addr, NEW ci \in {"Branch", "JAL", "Ret"},
           NEW instr16 \in BOOLEAN, ma_train_bpu(pc, target, ci, instr16)
    PROVE  BtbTypes'
<1>1. PICK e : e = [valid |-> TRUE, word |-> Word(pc), target |-> target, ci |-> ci,
                    instr16 |-> instr16, hi |-> Hi(pc)]
  OBVIOUS
<1>2. e \in EntrySet
  BY <1>1, WordFacts DEF EntrySet
<1>3. \/ btb' = btb /\ rg_allocate' = rg_allocate
      \/ /\ btb' = [i \in DOMAIN btb |-> IF i \in Matches(pc) THEN e ELSE btb[i]]
         /\ rg_allocate' = rg_allocate
      \/ /\ btb' = [btb EXCEPT ![rg_allocate] = e]
         /\ rg_allocate' = (rg_allocate + 1) % BtbDepth
  BY <1>1 DEF ma_train_bpu
<1>4. (rg_allocate + 1) % BtbDepth \in 0 .. (BtbDepth - 1)
  BY FetchAssumption DEF BtbTypes
<1> QED
  BY <1>2, <1>3, <1>4 DEF BtbTypes

LEMMA TypesInit == Init => Types
<1> SUFFICES ASSUME Init PROVE Types
  OBVIOUS
<1>1. QueueTypes
  <2>1. rg_prev \in PrevSet
    <3>1. 1 \in 1 .. Len(Texts)
      BY FetchAssumption, LenProperties, EmptySeq
    <3> QED
      BY <3>1, NoBtbType, FetchAssumption DEF Init, PrevSet, Epochs
  <2>2. isb01 = <<>> /\ isb12 = <<>> /\ isb23 = <<>>
    BY DEF Init
  <2> QED
    BY <2>1, <2>2 DEF QueueTypes
<1>2. RegTypes
  <2>1. 1 \in 1 .. Len(Texts)
    BY FetchAssumption, LenProperties, EmptySeq
  <2> QED
    BY <2>1, FetchAssumption DEF Init, RegTypes, Delayed
<1>3. BtbTypes
  BY NoEntryType, FetchAssumption DEF Init, BtbTypes
<1> QED
  BY <1>1, <1>2, <1>3 DEF Types

(* Stage3: a control transfer i that goes to target if it is taken.        *)
Transfer(i, taken, target, ci) ==
    \/ Decoded(i).kind = "branch" /\ taken \in BOOLEAN /\ target = Decoded(i).target /\ ci = "Branch"
    \/ Decoded(i).kind = "jal" /\ taken = TRUE /\ target = Decoded(i).target /\ ci = "JAL"
    \/ Decoded(i).kind = "ret" /\ taken = TRUE /\ target \in Entries /\ ci = "Ret"
Wrong(next) ==
    /\ eEpoch' = 1 - eEpoch
    /\ rg_pc' = next /\ rg_fence' = FALSE /\ rg_sfence' = FALSE /\ rg_delayed_redirect' = <<>>
    /\ rg_stall' = FALSE
    /\ \/ isb23' = <<>> /\ isb12' = isb12
       \/ isb23' = <<Head(isb12)>> /\ isb12' = Tail(isb12)
Control(taken, target, ci) ==
    /\ Transfer(isb23[1], taken, target, ci)
    /\ arch' = IF taken THEN target ELSE Next16or32(isb23[1])
    /\ ma_train_bpu(isb23[1].pc, target, ci, ~isb23[1].wide)
    /\ \/ /\ ~mispredicted(isb23[1], target, taken)
          /\ isb23' = <<>> /\ UNCHANGED <<stage0, isb12, rg_stall, eEpoch>>
       \/ Wrong(arch')

LEMMA ControlCases ==
    ASSUME rl_exe_base_control
    PROVE  \E taken, target, ci : Control(taken, target, ci)
<1>1. PICK i, d : i = isb23[1] /\ d = Decoded(i)
  OBVIOUS
<1>2. d.kind \in {"branch", "jal", "ret"}
  BY <1>1, Zenon DEF rl_exe_base_control
<1>3. PICK ci : ci = CASE d.kind = "branch" -> "Branch" [] d.kind = "jal" -> "JAL"
                       [] OTHER -> "Ret"
  OBVIOUS
<1>4. PICK taken \in (IF d.kind = "branch" THEN BOOLEAN ELSE {TRUE}),
           target \in (IF d.kind = "ret" THEN Entries ELSE {d.target}) :
        /\ arch' = (IF taken THEN target ELSE Next16or32(i))
        /\ ma_train_bpu(i.pc, target, ci, ~i.wide)
        /\ \/ /\ ~mispredicted(i, target, taken)
              /\ isb23' = <<>>
              /\ UNCHANGED <<stage0, isb12, rg_stall, eEpoch>>
           \/ /\ mispredicted(i, target, taken)
              /\ eEpoch' = 1 - eEpoch
              /\ ma_flush(IF taken THEN target ELSE Next16or32(i), FALSE, FALSE)
              /\ rg_stall' = FALSE
              /\ \/ isb23' = <<>> /\ UNCHANGED isb12
                 \/ ~rg_stall /\ isb23' = <<Head(isb12)>> /\ isb12' = Tail(isb12)
  BY <1>1, <1>3, Zenon DEF rl_exe_base_control
<1>5. Transfer(i, taken, target, ci)
  BY <1>1, <1>2, <1>3, <1>4 DEF Transfer
<1>6. \/ /\ ~mispredicted(i, target, taken)
         /\ isb23' = <<>> /\ UNCHANGED <<stage0, isb12, rg_stall, eEpoch>>
      \/ Wrong(arch')
  BY <1>4, Zenon DEF Wrong, ma_flush
<1> QED
  BY <1>1, <1>4, <1>5, <1>6, Zenon DEF Control

LEMMA OneElement ==
    ASSUME NEW E, NEW x \in E
    PROVE  <<x>> \in Seq(E) /\ Len(<<x>>) = 1 /\ <<x>>[1] = x /\ <<x>> # <<>>
  OBVIOUS

LEMMA NoElement ==
    ASSUME NEW E
    PROVE  <<>> \in Seq(E) /\ Len(<<>>) = 0 /\ Len(<<>>) <= 1
  OBVIOUS

LEMMA NothingDelayed == <<>> \in Delayed
  BY DEF Delayed

LEMMA FrontFacts ==
    ASSUME Types, isb23 # <<>>
    PROVE  /\ isb23[1] \in PktSet /\ Len(isb23) = 1
           /\ isb23[1].pc \in Addr /\ isb23[1].wide \in BOOLEAN /\ isb23[1].trap \in BOOLEAN
           /\ Texts[isb23[1].text] \in [Addr -> Instr]
           /\ Decoded(isb23[1]) \in Instr
           /\ Next16or32(isb23[1]) = After(isb23[1]) /\ After(isb23[1]) \in Addr
<1>1. isb23[1] \in PktSet /\ Len(isb23) = 1
  <2>1. isb23 \in Seq(PktSet) /\ Len(isb23) <= 1
    BY DEF Types, QueueTypes
  <2>2. isb23[1] \in PktSet /\ Len(isb23) \in Nat \ {0}
    BY <2>1, TailFacts
  <2> QED
    BY <2>1, <2>2
<1>2. /\ isb23[1].pc \in Addr /\ isb23[1].wide \in BOOLEAN /\ isb23[1].trap \in BOOLEAN
      /\ isb23[1].text \in 1 .. Len(Texts)
  BY <1>1 DEF PktSet
<1>3. Texts[isb23[1].text] \in [Addr -> Instr]
  BY <1>2, TextFacts
<1>4. Next16or32(isb23[1]) = After(isb23[1])
  BY DEF Next16or32, After, SizeOf
<1>5. After(isb23[1]) \in Addr
  BY <1>2, PlusInAddr DEF After, SizeOf
<1> QED
  BY <1>1, <1>2, <1>3, <1>4, <1>5 DEF Decoded

LEMMA ControlTypes ==
    ASSUME Types, rl_exe_base_control
    PROVE  Types' /\ arch' \in Addr
<1>1. /\ isb23 # <<>> /\ isb12 # <<>> /\ inflight' = TRUE
      /\ UNCHANGED <<rg_initialize, wr_bpu_enable, isb01, stage1, wEpoch, icache_text, text>>
  BY DEF rl_exe_base_control, Ready
<1>2. PICK taken, target, ci : Control(taken, target, ci)
  BY ControlCases
<1>3. isb23[1].pc \in Addr /\ isb23[1].wide \in BOOLEAN /\ Decoded(isb23[1]).target \in Addr
      /\ Next16or32(isb23[1]) \in Addr
  BY <1>1, FrontFacts DEF Instr
<1>4. target \in Addr /\ ci \in {"Branch", "JAL", "Ret"} /\ taken \in BOOLEAN
  BY <1>2, <1>3, FetchAssumption DEF Control, Transfer
<1>5. arch' \in Addr
  BY <1>2, <1>3, <1>4 DEF Control
<1>6. BtbTypes'
  <2>1. PICK n \in BOOLEAN : n = ~isb23[1].wide
    BY <1>3
  <2>2. ma_train_bpu(isb23[1].pc, target, ci, n)
    BY <1>2, <2>1, Zenon DEF Control
  <2> QED
    BY <1>3, <1>4, <2>2, TrainingTypes DEF Types
<1>7. Head(isb12) \in PktSet /\ Tail(isb12) \in Seq(PktSet)
  BY <1>1, TailFacts DEF Types, QueueTypes
<1>8. CASE isb23' = <<>> /\ UNCHANGED <<stage0, isb12, rg_stall, eEpoch>>
  <2>1. QueueTypes' /\ RegTypes'
    BY <1>1, <1>8 DEF Types, QueueTypes, RegTypes, stage0, stage1
  <2> QED
    BY <1>5, <1>6, <2>1 DEF Types
<1>9. CASE Wrong(arch')
  <2>1. isb23' \in Seq(PktSet) /\ Len(isb23') <= 1 /\ isb12' \in Seq(PktSet)
    <3>1. <<Head(isb12)>> \in Seq(PktSet) /\ Len(<<Head(isb12)>>) <= 1
      BY <1>7, OneElement
    <3>2. isb12 \in Seq(PktSet)
      BY DEF Types, QueueTypes
    <3> QED
      BY <1>7, <1>9, <3>1, <3>2, NoElement DEF Wrong
  <2>2. QueueTypes'
    BY <1>1, <2>1 DEF Types, QueueTypes, stage1
  <2>3. RegTypes'
    <3>1. eEpoch' \in {0, 1}
      BY <1>9 DEF Types, RegTypes, Wrong
    <3>2. rg_delayed_redirect' \in Delayed
      BY <1>9, NothingDelayed DEF Wrong
    <3> QED
      BY <1>1, <1>5, <1>9, <3>1, <3>2 DEF Types, RegTypes, Wrong
  <2> QED
    BY <1>5, <1>6, <2>2, <2>3 DEF Types
<1> QED
  BY <1>2, <1>8, <1>9 DEF Control

LEMMA TypesStep ==
    ASSUME Types, [Next]_vars
    PROVE  Types'
<1>1. CASE gen_fence
  <2>1. QueueTypes' /\ BtbTypes'
    BY <1>1 DEF gen_fence, Types, QueueTypes, BtbTypes, stage1
  <2>2. rg_delayed_redirect' \in Delayed
    BY <1>1, NothingDelayed DEF gen_fence
  <2>3. RegTypes'
    BY <1>1, <2>2 DEF gen_fence, Types, RegTypes
  <2> QED
    BY <2>1, <2>3 DEF Types
<1>2. CASE gen_sfence
  BY <1>2 DEF gen_sfence, Types, QueueTypes, RegTypes, BtbTypes, bpu, stage1, env
<1>3. CASE rl_initialize
  <2>1. BtbTypes'
    <3>1. /\ btb' = [i \in DOMAIN btb |-> NoEntry] /\ rg_allocate' = 0
          /\ DOMAIN btb = 0 .. (BtbDepth - 1)
      BY <1>3 DEF rl_initialize, Types, BtbTypes
    <3> QED
      BY <3>1, NoEntryType, FetchAssumption DEF BtbTypes
  <2>2. QueueTypes' /\ RegTypes'
    BY <1>3 DEF rl_initialize, Types, QueueTypes, RegTypes, stage0, stage1, env
  <2> QED
    BY <2>1, <2>2 DEF Types
<1>4. CASE drop_response
  <2>1. isb01' \in Seq(ReqSet)
    BY <1>4, TailFacts DEF drop_response, Types, QueueTypes
  <2>2. rg_prev' \in PrevSet
    BY <1>4, EpochType DEF drop_response, Types, QueueTypes, PrevSet
  <2> QED
    BY <1>4, <2>1, <2>2
       DEF drop_response, Types, QueueTypes, RegTypes, BtbTypes, stage0, bpu, env
<1>5. CASE process_instruction
  <2>1. QueueTypes'
    BY <1>5, ProcessTypes
  <2> QED
    BY <1>5, <2>1 DEF process_instruction, Types, RegTypes, BtbTypes, stage0, bpu, env
<1>6. CASE decode
  <2>1. /\ isb12 # <<>> /\ isb12' = Tail(isb12)
        /\ UNCHANGED <<stage0, bpu, isb01, stage1, eEpoch, wEpoch, env>>
        /\ \/ isb23' = <<Head(isb12)>> /\ rg_stall' = Head(isb12).trap
           \/ UNCHANGED <<isb23, rg_stall>>
    BY <1>6 DEF decode
  <2>2. Head(isb12) \in PktSet /\ Tail(isb12) \in Seq(PktSet)
    BY <2>1, TailFacts DEF Types, QueueTypes
  <2>3. isb23' \in Seq(PktSet) /\ Len(isb23') <= 1
    <3>1. <<Head(isb12)>> \in Seq(PktSet) /\ Len(<<Head(isb12)>>) <= 1
      BY <2>2, OneElement
    <3> QED
      BY <2>1, <3>1 DEF Types, QueueTypes
  <2>4. Head(isb12).trap \in BOOLEAN
    BY <2>2 DEF PktSet
  <2> QED
    BY <2>1, <2>2, <2>3, <2>4
       DEF Types, QueueTypes, RegTypes, BtbTypes, stage0, stage1, bpu, env
<1>7. CASE rl_drop_instr \/ exe_other
  <2>1. /\ isb23' = <<>> /\ inflight' \in BOOLEAN
        /\ UNCHANGED <<stage0, bpu, isb01, stage1, isb12, rg_stall, eEpoch, wEpoch,
                       icache_text, text>>
    BY <1>7 DEF rl_drop_instr, exe_other, env, Types, RegTypes
  <2> QED
    BY <2>1 DEF Types, QueueTypes, RegTypes, BtbTypes, stage0, stage1, bpu
<1>8. CASE rl_exe_base_control
  BY <1>8, ControlTypes
<1>9. CASE wb_flush
  <2>1. PICK pc \in Entries, fl \in {"none", "fence", "sfence"} :
          /\ ma_flush(pc, fl = "fence", fl = "sfence") /\ arch' = pc
          /\ text' \in IF fl = "fence" THEN text .. Len(Texts) ELSE {text}
    BY <1>9, Zenon DEF wb_flush
  <2>2. rg_pc' \in Addr /\ rg_fence' \in BOOLEAN /\ rg_sfence' \in BOOLEAN
        /\ rg_delayed_redirect' = <<>>
    BY <2>1, FetchAssumption DEF ma_flush
  <2>3. text' \in 1 .. Len(Texts)
    <3>1. text \in 1 .. Len(Texts) /\ Len(Texts) \in Nat
      BY FetchAssumption, LenProperties DEF Types, RegTypes
    <3> QED
      BY <2>1, <3>1
  <2>4. wr_bpu_enable' \in BOOLEAN
    BY <1>9 DEF wb_flush, Types, RegTypes
  <2>5. QueueTypes' /\ BtbTypes'
    BY <1>9 DEF wb_flush, Types, QueueTypes, BtbTypes, stage1
  <2>6. rg_delayed_redirect' \in Delayed
    BY <2>2, NothingDelayed
  <2>7. RegTypes'
    <3>1. /\ rg_stall' = FALSE /\ inflight' = FALSE /\ wEpoch' = 1 - wEpoch
          /\ UNCHANGED <<rg_initialize, eEpoch, icache_text>>
      BY <1>9, Zenon DEF wb_flush
    <3>2. wEpoch' \in {0, 1}
      BY <3>1 DEF Types, RegTypes
    <3> QED
      BY <2>2, <2>3, <2>4, <2>6, <3>1, <3>2 DEF Types, RegTypes
  <2> QED
    BY <2>5, <2>7 DEF Types
<1>10. CASE UNCHANGED vars
  BY <1>10 DEF vars, Types, QueueTypes, RegTypes, BtbTypes, stage0, stage1, bpu, env
<1> QED
  BY <1>1, <1>2, <1>3, <1>4, <1>5, <1>6, <1>7, <1>8, <1>9, <1>10, RequestTypes DEF Next

(***************************************************************************)
(* The predictor says what is true of the program, or nothing.             *)
(***************************************************************************)
LEMMA TrainingSound ==
    ASSUME BtbTypes, NEW A, NEW X, SoundBtb(A, X, btb), NEW pc \in Addr, NEW target, NEW ci,
           NEW instr16, ma_train_bpu(pc, target, ci, instr16),
           pc \in A, X[pc].kind # "alu", (X[pc].kind # "ret") = (ci # "Ret"),
           instr16 = ~X[pc].wide, Goes(X, pc, target)
    PROVE  SoundBtb(A, X, btb') /\ (wr_bpu_enable \/ btb' = btb)
<1>1. PICK e : e = [valid |-> TRUE, word |-> Word(pc), target |-> target, ci |-> ci,
                    instr16 |-> instr16, hi |-> Hi(pc)]
  OBVIOUS
<1>2. EntrySite(e) = pc
  BY <1>1, WordFacts DEF EntrySite
<1>3. e.valid /\ e.target = target /\ e.ci = ci /\ e.instr16 = instr16
  BY <1>1
<1>4. SoundEntry(A, X, e)
  BY <1>2, <1>3, Zenon DEF SoundEntry
<1>5. \/ btb' = btb
      \/ btb' = [i \in DOMAIN btb |-> IF i \in Matches(pc) THEN e ELSE btb[i]]
      \/ btb' = [btb EXCEPT ![rg_allocate] = e]
  BY <1>1 DEF ma_train_bpu
<1>6. DOMAIN btb' = DOMAIN btb /\ \A i \in DOMAIN btb : btb'[i] = btb[i] \/ btb'[i] = e
  BY <1>5
<1>7. wr_bpu_enable \/ btb' = btb
  BY DEF ma_train_bpu
<1> QED
  BY <1>4, <1>6, <1>7 DEF SoundBtb

LEMMA RequestSound ==
    ASSUME Types, NEW A, NEW X, SoundBtb(A, X, btb), Bools(X), A \subseteq Addr,
           NEW p \in BOOLEAN, NEW ras \in Addr,
           NEW r, r = Prediction(rg_pc, p, ras), redirect(r)
    PROVE  /\ SoundB(A, X, Word(rg_pc), r.btb)
           /\ r.btb.pred => r.btb.hi \/ ~Hi(rg_pc)
           /\ Link(X, Word(rg_pc), r.btb, rg_delayed_redirect, rg_pc', rg_delayed_redirect')
<1>1. /\ r.btb \in BtbSet /\ r.instr16 \in BOOLEAN /\ r.target \in Addr
      /\ r.btb.hi \in BOOLEAN /\ r.btb.pred \in BOOLEAN /\ r.btb.hit \in BOOLEAN
  BY PredictionType DEF Types, RegTypes, BtbSet
<1> DEFINE w == Word(rg_pc)
<1>2. SeqPc = Plus(2 * w, 2)
  BY DEF SeqPc
<1>3. /\ rg_pc' = IF rg_delayed_redirect # <<>> THEN rg_delayed_redirect[1]
                  ELSE IF r.btb.pred /\ r.btb.hit /\ ~(r.btb.hi /\ ~r.instr16) THEN r.target
                  ELSE Plus(2 * w, 2)
      /\ rg_delayed_redirect' =
             IF rg_delayed_redirect = <<>> /\ (r.btb.hi /\ ~r.instr16) /\ r.btb.pred
             THEN <<r.target>> ELSE <<>>
  BY <1>2, Zenon DEF redirect
<1>4. CASE ~wr_bpu_enable \/ Matches(rg_pc) = {}
  <2>1. ~r.btb.pred
    BY <1>4 DEF Prediction, NoBtb
  <2>2. rg_delayed_redirect' = <<>>
    BY <1>3, <2>1
  <2>3. rg_pc' = IF rg_delayed_redirect # <<>> THEN rg_delayed_redirect[1] ELSE Plus(2 * w, 2)
    BY <1>3, <2>1
  <2> HIDE DEF w
  <2>4. Link(X, w, r.btb, rg_delayed_redirect, rg_pc', rg_delayed_redirect')
    BY <2>1, <2>2, <2>3 DEF Link, Edge
  <2> QED
    BY <2>1, <2>4 DEF SoundB, w
<1>5. CASE ~(~wr_bpu_enable \/ Matches(rg_pc) = {})
  <2>1. PICK i : i = CHOOSE j \in Matches(rg_pc) : TRUE
    OBVIOUS
  <2>2. i \in DOMAIN btb /\ btb[i].valid /\ btb[i].word = w
    BY <1>5, <2>1 DEF Matches
  <2>3. PICK e \in EntrySet : e = btb[i]
    BY <2>2 DEF Types, BtbTypes
  <2>4. e.hi \in BOOLEAN /\ e.instr16 \in BOOLEAN
    BY <2>3 DEF EntrySet
  <2>5. PICK u \in BOOLEAN : u = (e.hi \/ ~Hi(rg_pc))
    BY <2>4, Zenon
  <2>6. PICK v \in BOOLEAN : v = (u /\ (e.ci = "Branch" => p))
    BY Zenon
  <2>7. r = [btb |-> [hit |-> TRUE, hi |-> e.hi, pred |-> v],
             instr16 |-> e.instr16,
             target |-> IF ~u THEN rg_pc ELSE IF e.ci = "Ret" THEN ras ELSE e.target]
    BY <1>5, <2>1, <2>3, <2>5, <2>6, Zenon DEF Prediction
  <2>8. /\ r.btb.hit = TRUE /\ r.btb.hi = e.hi /\ r.btb.pred = v /\ r.instr16 = e.instr16
        /\ r.target = IF ~u THEN rg_pc ELSE IF e.ci = "Ret" THEN ras ELSE e.target
    BY <2>7
  <2>9. r.btb.pred => u
    BY <2>6, <2>8
  <2>10. EntrySite(e) = Site(w, r.btb)
    BY <2>2, <2>3, <2>8 DEF EntrySite, Site
  <2>11. SoundEntry(A, X, e) /\ e.valid
    BY <2>2, <2>3 DEF SoundBtb
  <2>12. /\ EntrySite(e) \in A /\ X[EntrySite(e)].kind # "alu"
         /\ (X[EntrySite(e)].kind # "ret") = (e.ci # "Ret")
         /\ e.instr16 = ~X[EntrySite(e)].wide
         /\ Goes(X, EntrySite(e), e.target)
    BY <2>11, Zenon DEF SoundEntry
  <2>13. SoundB(A, X, w, r.btb)
    BY <2>10, <2>12 DEF SoundB
  <2>14. Edge(X, w, r.btb) <=> r.btb.pred /\ r.btb.hi /\ ~r.instr16
    <3>1. r.btb.hi => EntrySite(e) = 2 * w + 1
      BY <2>10 DEF Site
    <3> QED
      BY <2>4, <2>8, <2>12, <3>1 DEF Edge
  <2>15. r.btb.pred => Goes(X, Site(w, r.btb), r.target)
    BY <2>8, <2>9, <2>10, <2>12 DEF Goes
  <2>16. r.btb.pred => r.btb.hi \/ ~Hi(rg_pc)
    BY <2>5, <2>8, <2>9
  <2>17. Link(X, w, r.btb, rg_delayed_redirect, rg_pc', rg_delayed_redirect')
    <3>1. CASE rg_delayed_redirect # <<>>
      <4>1. rg_pc' = rg_delayed_redirect[1] /\ rg_delayed_redirect' = <<>>
        BY <1>3, <3>1
      <4> QED
        BY <3>1, <4>1, Zenon DEF Link
    <3>2. CASE rg_delayed_redirect = <<>> /\ Edge(X, w, r.btb)
      <4>1. rg_pc' = Plus(2 * w, 2) /\ rg_delayed_redirect' = <<r.target>>
        BY <1>3, <2>14, <3>2
      <4>2. r.btb.pred
        BY <3>2 DEF Edge
      <4>3. <<r.target>> # <<>> /\ <<r.target>>[1] = r.target
        BY <1>1, OneElement
      <4>4. rg_delayed_redirect' # <<>> /\ rg_delayed_redirect'[1] = r.target
        BY <4>1, <4>3
      <4> HIDE DEF w
      <4> QED
        BY <2>15, <3>2, <4>1, <4>2, <4>4 DEF Link
    <3>3. CASE rg_delayed_redirect = <<>> /\ ~Edge(X, w, r.btb)
      <4>1. /\ rg_pc' = IF r.btb.pred THEN r.target ELSE Plus(2 * w, 2)
            /\ rg_delayed_redirect' = <<>>
        BY <1>3, <2>8, <2>14, <3>3
      <4> HIDE DEF w
      <4> QED
        BY <2>15, <3>3, <4>1 DEF Link
    <3> QED
      BY <3>1, <3>2, <3>3
  <2> QED
    BY <2>13, <2>16, <2>17
<1> QED
  BY <1>4, <1>5

(***************************************************************************)
(* The invariant.  S gives, for every text, where its instructions start.  *)
(***************************************************************************)
(* Z is what stage3 and stage2 have before them.                           *)
Whole(Z) ==
    /\ Z \in Seq(PktSet)
    /\ isb23 = <<>> => Z = isb12
    /\ isb23 # <<>> => Z # <<>> /\ Z[1] = isb23[1] /\ isb12 = Tail(Z)

Stream(S, Z, z, k, D) ==
    Flow(S[text], Texts[text], text, Z, z, isb01, k, D, rg_pc, rg_delayed_redirect,
         rg_action, rg_prev, epoch, arch)

(* A fence or a flush of the predictor finds nothing of the current epoch  *)
(* in flight; while an instruction of a write-back epoch is past stage3,   *)
(* nothing of an earlier write-back epoch is left.                         *)
Marks(Z, z, k) ==
    /\ z < Len(Z) => rg_prev.epoch = epoch
    /\ rg_fence \/ rg_initialize => z = Len(Z) /\ k = Len(isb01) /\ ~Kept
    /\ inflight => /\ \A n \in 1 .. Len(Z) : Z[n].epoch[2] = wEpoch
                   /\ \A n \in 1 .. Len(isb01) : isb01[n].epoch[2] = wEpoch
                   /\ rg_prev.epoch[2] = wEpoch

Regs(S) ==
    /\ rg_fence => ~inflight /\ rg_delayed_redirect = <<>> /\ ~rg_sfence
    /\ rg_fence \/ icache_text = text
    /\ rg_fence \/ rg_initialize \/ SoundBtb(S[text], Texts[text], btb)
    /\ wr_bpu_enable \/ \A i \in DOMAIN btb : ~btb[i].valid
    /\ rg_stall <=> arch = Stopped \/ (Ready /\ isb23[1].trap)
    /\ arch = Stopped => isb23 = <<>>
    /\ arch \in S[text] \union {Stopped}

FlowInv(S) == \E Z, z, k, D : Whole(Z) /\ Stream(S, Z, z, k, D) /\ Marks(Z, z, k)

ProgramInv(S) == Types /\ Regs(S) /\ FlowInv(S)

LEMMA StartsFacts ==
    ASSUME NEW S, Starts(S), Types
    PROVE  /\ Disciplined(S[text], Texts[text]) /\ Bools(Texts[text])
           /\ S[text] \subseteq Addr /\ Entries \subseteq S[text] /\ Stopped \notin S[text]
           /\ Stopped \notin Addr
<1>1. text \in 1 .. Len(Texts)
  BY DEF Types, RegTypes
<1>2. Disciplined(S[text], Texts[text])
  BY <1>1 DEF Starts
<1>3. Bools(Texts[text])
  BY <1>1, TextFacts DEF Bools
<1>4. S[text] \subseteq Addr /\ Entries \subseteq S[text]
  BY <1>2 DEF Disciplined
<1>5. Stopped \notin Addr
  BY FetchAssumption DEF Stopped, Addr
<1> QED
  BY <1>2, <1>3, <1>4, <1>5

(* The first packet of the current epoch is the next of the program.       *)
LEMMA FrontIsNext ==
    ASSUME NEW S, Starts(S), Types, Regs(S), NEW Z, NEW z, NEW k, NEW D,
           Whole(Z), Stream(S, Z, z, k, D), Ready
    PROVE  /\ z = 0 /\ k = 0 /\ Len(Z) \in Nat \ {0} /\ Z[1] = isb23[1] /\ z < Len(Z)
           /\ arch # Stopped /\ arch \in S[text] /\ Z[1].pc = arch
           /\ Valid(Texts[text], text, Z[1])
           /\ \A n \in 1 .. Len(Z) : Z[n].epoch = epoch
           /\ \A n \in 1 .. Len(isb01) : isb01[n].epoch = epoch
<1>1. isb23 # <<>> /\ isb23[1].epoch = epoch
  BY DEF Ready
<1>2. Z # <<>> /\ Z[1] = isb23[1] /\ Z \in Seq(PktSet)
  BY <1>1 DEF Whole
<1>3. Len(Z) \in Nat \ {0}
  BY <1>2, TailFacts
<1>4. Split(Z, z, epoch) /\ Split(isb01, k, epoch) /\ (z < Len(Z) => k = 0)
  BY DEF Stream, Flow
<1>5. 1 \in 1 .. Len(Z) /\ z \in 0 .. Len(Z)
  BY <1>3, <1>4 DEF Split
<1>6. z = 0
  <2>1. Z[1].epoch = epoch <=> z < 1
    BY <1>4, <1>5 DEF Split
  <2> QED
    BY <1>1, <1>2, <1>5, <2>1
<1>7. z < Len(Z) /\ k = 0
  BY <1>3, <1>4, <1>6
<1>8. \A n \in 1 .. Len(Z) : Z[n].epoch = epoch
  BY <1>3, <1>4, <1>6 DEF Split
<1>9. \A n \in 1 .. Len(isb01) : isb01[n].epoch = epoch
  <2>1. Len(isb01) \in Nat
    BY LenProperties DEF Types, QueueTypes
  <2> QED
    BY <1>4, <1>7, <2>1 DEF Split
<1>10. arch # Stopped /\ arch \in S[text]
  BY <1>1 DEF Regs
<1>11. Chain(S[text], Texts[text], text, Z, z, arch)
  BY <1>10 DEF Stream, Flow
<1>12. Z[1].pc = arch
  BY <1>6, <1>7, <1>11 DEF Chain
<1>13. Valid(Texts[text], text, Z[1])
  <2>1. Good(S[text], Z, z, 1 - 1) /\ z < 1
    BY <1>6 DEF Good
  <2> QED
    BY <1>5, <1>10, <1>11, <1>12, <2>1 DEF Chain
<1> QED
  BY <1>2, <1>3, <1>6, <1>7, <1>8, <1>9, <1>10, <1>12, <1>13

LEMMA WholeTail ==
    ASSUME Types, NEW Z, Whole(Z), isb23 # <<>>
    PROVE  IsTail(isb12, Z) /\ Z \in Seq(PktSet)
<1>1. Z \in Seq(PktSet) /\ Z # <<>> /\ isb12 = Tail(Z)
  BY DEF Whole
<1> QED
  BY <1>1, TailFacts DEF IsTail

LEMMA TailOfQueue ==
    ASSUME NEW E, NEW s \in Seq(E), s # <<>>
    PROVE  IsTail(Tail(s), s)
  BY TailFacts DEF IsTail

(* The fence, the sfence and the flush of the predictor.                   *)
LEMMA FenceStep ==
    ASSUME NEW S, ProgramInv(S), gen_fence PROVE Regs(S)' /\ FlowInv(S)'
<1>1. PICK Z, z, k, D : Whole(Z) /\ Stream(S, Z, z, k, D) /\ Marks(Z, z, k)
  BY DEF ProgramInv, FlowInv
<1>2. Regs(S) /\ rg_fence /\ rg_delayed_redirect = <<>> /\ ~inflight
  BY DEF ProgramInv, Regs, gen_fence
<1>3. /\ rg_delayed_redirect' = rg_delayed_redirect /\ rg_fence' = FALSE
      /\ rg_initialize' = wr_bpu_enable /\ icache_text' = text
      /\ UNCHANGED <<rg_pc, rg_sfence, btb, rg_allocate, wr_bpu_enable, isb01, rg_action, rg_prev,
                     isb12, rg_stall, isb23, eEpoch, wEpoch, text, arch, inflight>>
  BY <1>2 DEF gen_fence, stage1
<1>4. Whole(Z)' /\ Stream(S, Z, z, k, D)'
  BY <1>1, <1>3 DEF Whole, Stream, epoch
<1>5. Marks(Z, z, k)'
  BY <1>1, <1>2, <1>3 DEF Marks, Kept, Keeps, epoch
<1>6. wr_bpu_enable \/ SoundBtb(S[text], Texts[text], btb)
  BY <1>2 DEF Regs, SoundBtb, SoundEntry
<1>7. Regs(S)'
  BY <1>2, <1>3, <1>6 DEF Regs, Ready, epoch
<1> QED
  BY <1>4, <1>5, <1>7 DEF FlowInv

LEMMA SfenceStep ==
    ASSUME NEW S, ProgramInv(S), gen_sfence PROVE Regs(S)' /\ FlowInv(S)'
<1>1. PICK Z, z, k, D : Whole(Z) /\ Stream(S, Z, z, k, D) /\ Marks(Z, z, k)
  BY DEF ProgramInv, FlowInv
<1>2. Regs(S) /\ ~rg_fence
  BY DEF ProgramInv, Regs, gen_sfence
<1>3. /\ rg_fence' = FALSE /\ rg_sfence' = FALSE
      /\ UNCHANGED <<rg_pc, rg_delayed_redirect, btb, rg_allocate, rg_initialize, wr_bpu_enable,
                     isb01, rg_action, rg_prev, isb12, rg_stall, isb23, eEpoch, wEpoch,
                     icache_text, text, arch, inflight>>
  BY DEF gen_sfence, bpu, stage1, env
<1>4. Whole(Z)' /\ Stream(S, Z, z, k, D)'
  BY <1>1, <1>3 DEF Whole, Stream, epoch
<1>5. Marks(Z, z, k)'
  BY <1>1, <1>2, <1>3 DEF Marks, Kept, Keeps, epoch
<1>6. Regs(S)'
  BY <1>2, <1>3 DEF Regs, Ready, epoch
<1> QED
  BY <1>4, <1>5, <1>6 DEF FlowInv

LEMMA InitializeStep ==
    ASSUME NEW S, ProgramInv(S), rl_initialize PROVE Regs(S)' /\ FlowInv(S)'
<1>1. PICK Z, z, k, D : Whole(Z) /\ Stream(S, Z, z, k, D) /\ Marks(Z, z, k)
  BY DEF ProgramInv, FlowInv
<1>2. Regs(S)
  BY DEF ProgramInv
<1>3. /\ rg_initialize' = FALSE /\ btb' = [i \in DOMAIN btb |-> NoEntry]
      /\ UNCHANGED <<rg_pc, rg_fence, rg_sfence, rg_delayed_redirect, wr_bpu_enable, isb01,
                     rg_action, rg_prev, isb12, rg_stall, isb23, eEpoch, wEpoch,
                     icache_text, text, arch, inflight>>
  BY DEF rl_initialize, stage0, stage1, env
<1>4. Whole(Z)' /\ Stream(S, Z, z, k, D)'
  BY <1>1, <1>3 DEF Whole, Stream, epoch
<1>5. Marks(Z, z, k)'
  BY <1>1, <1>3 DEF Marks, Kept, Keeps, epoch
<1>6. \A i \in DOMAIN btb' : ~btb'[i].valid
  BY <1>3 DEF NoEntry
<1>7. SoundBtb(S[text], Texts[text], btb')
  BY <1>6 DEF SoundBtb, SoundEntry
<1>8. Regs(S)'
  BY <1>2, <1>3, <1>6, <1>7 DEF Regs, Ready, epoch
<1> QED
  BY <1>4, <1>5, <1>8 DEF FlowInv

(* Stage0 makes a request.                                                 *)
LEMMA RequestStep ==
    ASSUME NEW S, Starts(S), ProgramInv(S), gen_next_pc PROVE Regs(S)' /\ FlowInv(S)'
<1>1. PICK Z, z, k, D : Whole(Z) /\ Stream(S, Z, z, k, D) /\ Marks(Z, z, k)
  BY DEF ProgramInv, FlowInv
<1>2. /\ Types /\ Regs(S) /\ ~rg_fence /\ ~rg_initialize
      /\ icache_text = text /\ SoundBtb(S[text], Texts[text], btb)
  BY DEF ProgramInv, Regs, gen_next_pc
<1>3. PICK h \in Hints(rg_pc) :
         /\ redirect(Prediction(rg_pc, h.p, h.ras))
         /\ isb01' = Append(isb01, [word |-> Word(rg_pc), discard |-> Hi(rg_pc),
                                    btb |-> Prediction(rg_pc, h.p, h.ras).btb,
                                    epoch |-> epoch, text |-> icache_text])
  BY Zenon DEF gen_next_pc
<1>4. h.p \in BOOLEAN /\ h.ras \in Addr
  BY HintTypes
<1>5. PICK r : r = Prediction(rg_pc, h.p, h.ras)
  OBVIOUS
<1>6. PICK q : q = [word |-> Word(rg_pc), discard |-> Hi(rg_pc), btb |-> r.btb,
                    epoch |-> epoch, text |-> icache_text]
  OBVIOUS
<1>7. redirect(r) /\ isb01' = Append(isb01, q)
  BY <1>3, <1>5, <1>6
<1>8. /\ q.word = Word(rg_pc) /\ q.discard = Hi(rg_pc) /\ q.btb = r.btb /\ q.epoch = epoch
      /\ q.text = text
  BY <1>2, <1>6
<1>9. /\ SoundB(S[text], Texts[text], Word(rg_pc), r.btb)
      /\ r.btb.pred => r.btb.hi \/ ~Hi(rg_pc)
      /\ Link(Texts[text], Word(rg_pc), r.btb, rg_delayed_redirect, rg_pc', rg_delayed_redirect')
  <2>1. Bools(Texts[text]) /\ S[text] \subseteq Addr
    BY <1>2, StartsFacts
  <2> QED
    BY <1>2, <1>4, <1>5, <1>7, <2>1, RequestSound
<1>10. /\ SoundReq(S[text], Texts[text], text, q) /\ EntryOf(q) = rg_pc
       /\ Link(Texts[text], q.word, q.btb, rg_delayed_redirect, rg_pc', rg_delayed_redirect')
  <2>1. rg_pc \in Addr
    BY <1>2 DEF Types, RegTypes
  <2>2. EntryOf(q) = rg_pc
    BY <1>8, <2>1, WordFacts DEF EntryOf
  <2> QED
    BY <1>8, <1>9, <2>2 DEF SoundReq
<1>11. Types'
  BY <1>2, RequestTypes
<1>12. /\ isb01 \in Seq(ReqSet) /\ Len(isb01) \in Nat
       /\ IsAppend(isb01', isb01, q)
  <2>1. isb01 \in Seq(ReqSet)
    BY <1>2 DEF Types, QueueTypes
  <2>2. q \in ReqSet
    <3>1. Word(rg_pc) \in 0 .. (Words - 1) /\ Hi(rg_pc) \in BOOLEAN /\ r.btb \in BtbSet
      BY <1>2, <1>4, <1>5, WordFacts, PredictionType DEF Types, RegTypes
    <3> QED
      BY <1>2, <1>6, <3>1, EpochType DEF ReqSet, Types, RegTypes
  <2> QED
    BY <1>7, <2>1, <2>2, AppendFacts DEF IsAppend
<1>13. PICK D2 : Extended(D2, D, isb01, rg_delayed_redirect')
  BY <1>12, ExtendedExists
<1>14. Flow(S[text], Texts[text], text, Z, z, isb01', k, D2, rg_pc', rg_delayed_redirect',
            rg_action, rg_prev, epoch, arch)
  <2>1. Flow(S[text], Texts[text], text, Z, z, isb01, k, D, rg_pc, rg_delayed_redirect,
             rg_action, rg_prev, epoch, arch)
    BY <1>1 DEF Stream
  <2> QED
    BY <1>8, <1>10, <1>12, <1>13, <2>1, FlowRequest
<1>15. UNCHANGED <<rg_fence, rg_sfence, btb, rg_allocate, rg_initialize, wr_bpu_enable,
                   rg_action, rg_prev, isb12, rg_stall, isb23, eEpoch, wEpoch,
                   icache_text, text, arch, inflight>>
  BY DEF gen_next_pc, bpu, stage1, env
<1>16. Whole(Z)' /\ Stream(S, Z, z, k, D2)'
  BY <1>1, <1>14, <1>15 DEF Whole, Stream, epoch
<1>17. Marks(Z, z, k)'
  <2>1. inflight => \A n \in 1 .. Len(isb01') : isb01'[n].epoch[2] = wEpoch
    <3>1. epoch[2] = wEpoch
      BY DEF epoch
    <3> QED
      BY <1>1, <1>8, <1>12, <3>1 DEF Marks, IsAppend
  <2> QED
    BY <1>1, <1>2, <1>15, <2>1 DEF Marks, Kept, Keeps, epoch
<1>18. Regs(S)'
  BY <1>2, <1>15 DEF Regs, Ready, epoch
<1> QED
  BY <1>16, <1>17, <1>18 DEF FlowInv

(* Stage1 throws a stale response away.                                    *)
LEMMA DropStep ==
    ASSUME NEW S, ProgramInv(S), drop_response PROVE Regs(S)' /\ FlowInv(S)'
<1>1. PICK Z, z, k, D : Whole(Z) /\ Stream(S, Z, z, k, D) /\ Marks(Z, z, k)
  BY DEF ProgramInv, FlowInv
<1>2. /\ isb01 # <<>> /\ isb01 \in Seq(ReqSet) /\ Head(isb01).epoch # epoch
      /\ isb01' = Tail(isb01) /\ rg_action' = "None"
      /\ rg_prev' = [rg_prev EXCEPT !.epoch = epoch] /\ rg_prev \in PrevSet
  BY DEF drop_response, ProgramInv, Types, QueueTypes
<1>3. UNCHANGED <<rg_pc, rg_fence, rg_sfence, rg_delayed_redirect, btb, rg_allocate,
                  rg_initialize, wr_bpu_enable, isb12, rg_stall, isb23, eEpoch, wEpoch,
                  icache_text, text, arch, inflight>>
  BY DEF drop_response, stage0, bpu, env
<1>4. IsTail(isb01', isb01) /\ isb01[1].epoch # epoch
  BY <1>2, TailFacts, TailOfQueue
<1>5. PICK D2 : Shifted(D2, D, isb01')
  <2>1. Len(isb01') \in Nat
    BY <1>4 DEF IsTail
  <2> QED
    BY <2>1, ShiftedExists
<1>6. PICK k2 \in Nat : k = k2 + 1
  <2>1. Split(isb01, k, epoch)
    BY <1>1 DEF Stream, Flow
  <2>2. k # 0
    BY <1>4, <2>1, SplitTail
  <2>3. k \in Nat
    BY <2>1 DEF Split
  <2>4. k - 1 \in Nat /\ k = (k - 1) + 1
    BY <2>2, <2>3
  <2> QED
    BY <2>4
<1>7. /\ Flow(S[text], Texts[text], text, Z, z, isb01', k2, D2, rg_pc, rg_delayed_redirect,
              rg_action', rg_prev', epoch, arch)
      /\ k = Len(isb01) => k2 = Len(isb01')
  <2>1. Flow(S[text], Texts[text], text, Z, z, isb01, k, D, rg_pc, rg_delayed_redirect,
             rg_action, rg_prev, epoch, arch)
    BY <1>1 DEF Stream
  <2> QED
    BY <1>2, <1>4, <1>5, <1>6, <2>1, FlowDropResponse
<1>8. rg_prev'.epoch = epoch
  BY <1>2 DEF PrevSet
<1>9. Whole(Z)' /\ Stream(S, Z, z, k2, D2)'
  BY <1>1, <1>3, <1>7 DEF Whole, Stream, epoch
<1>10. Marks(Z, z, k2)'
  <2>1. inflight => \A n \in 1 .. Len(isb01') : isb01'[n].epoch[2] = wEpoch
    <3>1. \A n \in 1 .. Len(isb01') : isb01'[n] = isb01[n + 1] /\ n + 1 \in 1 .. Len(isb01)
      BY <1>4 DEF IsTail
    <3> QED
      BY <1>1, <3>1 DEF Marks
  <2>2. epoch[2] = wEpoch /\ epoch' = epoch
    BY <1>3 DEF epoch
  <2>3. ~Kept'
    BY <1>2 DEF Kept, Keeps
  <2> QED
    BY <1>1, <1>3, <1>7, <1>8, <2>1, <2>2, <2>3 DEF Marks
<1>11. Regs(S)'
  BY <1>3 DEF ProgramInv, Regs, Ready, epoch
<1> QED
  BY <1>9, <1>10, <1>11 DEF FlowInv

(* Stage2 and stage3 throw stale packets away, stage2 hands one on.        *)
LEMMA StaleLeaves ==
    ASSUME NEW S, ProgramInv(S), NEW Z, NEW z, NEW k, NEW D, NEW Z2,
           Whole(Z), Stream(S, Z, z, k, D), Marks(Z, z, k), IsTail(Z2, Z), Z[1].epoch # epoch
    PROVE  \E z2 : Stream(S, Z2, z2, k, D) /\ Marks(Z2, z2, k)
<1>1. Split(Z, z, epoch)
  BY DEF Stream, Flow
<1>2. z # 0 /\ Split(Z2, z - 1, epoch)
  BY <1>1, SplitTail
<1>3. /\ Len(Z) \in Nat \ {0} /\ Len(Z2) = Len(Z) - 1 /\ z \in 0 .. Len(Z)
      /\ \A i \in 1 .. Len(Z2) : Z2[i] = Z[i + 1] /\ i + 1 \in 1 .. Len(Z)
  BY <1>1 DEF IsTail, Split
<1>4. PICK z2 \in Nat : z = z2 + 1 /\ z2 = z - 1
  BY <1>2, <1>3
<1>5. Split(Z2, z2, epoch)
  BY <1>2, <1>4
<1>6. Stream(S, Z2, z2, k, D)
  BY <1>4, <1>5, FlowLeaves DEF Stream
<1>7. Marks(Z2, z2, k)
  BY <1>3, <1>4 DEF Marks
<1> QED
  BY <1>6, <1>7

LEMMA DropInstrStep ==
    ASSUME NEW S, ProgramInv(S), rl_drop_instr PROVE Regs(S)' /\ FlowInv(S)'
<1>1. PICK Z, z, k, D : Whole(Z) /\ Stream(S, Z, z, k, D) /\ Marks(Z, z, k)
  BY DEF ProgramInv, FlowInv
<1>2. /\ isb23 # <<>> /\ isb23[1].epoch # epoch /\ isb23' = <<>>
      /\ UNCHANGED <<rg_pc, rg_fence, rg_sfence, rg_delayed_redirect, btb, rg_allocate,
                     rg_initialize, wr_bpu_enable, isb01, rg_action, rg_prev, isb12, rg_stall,
                     eEpoch, wEpoch, icache_text, text, arch, inflight>>
  BY DEF rl_drop_instr, stage0, bpu, stage1, env
<1>3. IsTail(isb12, Z) /\ Z[1] = isb23[1]
  BY <1>1, <1>2, WholeTail DEF ProgramInv, Whole
<1>4. PICK z2 : Stream(S, isb12, z2, k, D) /\ Marks(isb12, z2, k)
  BY <1>1, <1>2, <1>3, StaleLeaves
<1>5. PICK Z2 : Z2 = isb12
  OBVIOUS
<1>6. Whole(Z2)'
  BY <1>2, <1>5 DEF ProgramInv, Types, QueueTypes, Whole
<1>7. Stream(S, Z2, z2, k, D)' /\ Marks(Z2, z2, k)'
  BY <1>2, <1>4, <1>5 DEF Stream, Marks, Kept, Keeps, epoch
<1>8. Regs(S)'
  BY <1>2 DEF ProgramInv, Regs, Ready, epoch
<1> QED
  BY <1>6, <1>7, <1>8 DEF FlowInv

LEMMA DecodeStep ==
    ASSUME NEW S, Starts(S), ProgramInv(S), decode PROVE Regs(S)' /\ FlowInv(S)'
<1>1. PICK Z, z, k, D : Whole(Z) /\ Stream(S, Z, z, k, D) /\ Marks(Z, z, k)
  BY DEF ProgramInv, FlowInv
<1>2. /\ ~rg_stall /\ isb12 # <<>> /\ isb23 = <<>> /\ isb12' = Tail(isb12)
      /\ UNCHANGED <<rg_pc, rg_fence, rg_sfence, rg_delayed_redirect, btb, rg_allocate,
                     rg_initialize, wr_bpu_enable, isb01, rg_action, rg_prev,
                     eEpoch, wEpoch, icache_text, text, arch, inflight>>
      /\ \/ /\ Head(isb12).epoch = epoch
            /\ isb23' = <<Head(isb12)>> /\ rg_stall' = Head(isb12).trap
         \/ /\ Head(isb12).epoch # epoch
            /\ UNCHANGED <<isb23, rg_stall>>
  BY DEF decode, stage0, bpu, stage1, env
<1>3. Z = isb12 /\ Z \in Seq(PktSet) /\ Z # <<>>
  BY <1>1, <1>2 DEF Whole
<1>4. IsTail(Tail(isb12), Z) /\ Head(isb12) = Z[1] /\ Z[1] \in PktSet /\ Tail(isb12) \in Seq(PktSet)
  BY <1>3, TailFacts, TailOfQueue
<1>5. CASE isb23' = <<Head(isb12)>> /\ rg_stall' = Head(isb12).trap /\ Head(isb12).epoch = epoch
  <2>1. isb23' # <<>> /\ isb23'[1] = Z[1]
    BY <1>4, <1>5, OneElement
  <2>2. Whole(Z)'
    BY <1>2, <1>3, <2>1 DEF Whole
  <2>3. Stream(S, Z, z, k, D)' /\ Marks(Z, z, k)'
    BY <1>1, <1>2 DEF Stream, Marks, Kept, Keeps, epoch
  <2>4. arch # Stopped
    BY <1>2 DEF ProgramInv, Regs
  <2>5. rg_stall' <=> arch' = Stopped \/ (Ready' /\ isb23'[1].trap)
    BY <1>2, <1>4, <1>5, <2>1, <2>4 DEF Ready, epoch, PktSet
  <2>6. Regs(S)'
    BY <1>2, <2>4, <2>5 DEF ProgramInv, Regs
  <2> QED
    BY <2>2, <2>3, <2>6 DEF FlowInv
<1>6. CASE UNCHANGED <<isb23, rg_stall>> /\ Head(isb12).epoch # epoch
  <2>1. PICK Z2 : Z2 = Tail(isb12)
    OBVIOUS
  <2>2. PICK z2 : Stream(S, Z2, z2, k, D) /\ Marks(Z2, z2, k)
    BY <1>1, <1>4, <1>6, <2>1, StaleLeaves
  <2>3. Whole(Z2)'
    BY <1>2, <1>4, <1>6, <2>1 DEF Whole
  <2>4. Stream(S, Z2, z2, k, D)' /\ Marks(Z2, z2, k)'
    BY <1>2, <2>2 DEF Stream, Marks, Kept, Keeps, epoch
  <2>5. Regs(S)'
    BY <1>2, <1>6 DEF ProgramInv, Regs, Ready, epoch
  <2> QED
    BY <2>3, <2>4, <2>5 DEF FlowInv
<1> QED
  BY <1>2, <1>5, <1>6

(* The oldest response is of the current epoch.                            *)
LEMMA HeadResponse ==
    ASSUME NEW A, NEW X, NEW t, NEW Z, NEW z, NEW Q \in Seq(ReqSet), NEW k, NEW D,
           NEW pc \in Addr, NEW dl, NEW act, NEW prev, NEW ep, NEW ar, NEW T,
           Disciplined(A, X), Bools(X),
           Flow(A, X, t, Z, z, Q, k, D, pc, dl, act, prev, ep, ar),
           IsTail(T, Q), Q[1].epoch = ep
    PROVE  /\ k = 0 /\ Split(T, 0, ep) /\ Split(Q, 0, ep) /\ Feed(A, X, t, Q, 0, D, pc, dl)
           /\ Response(A, X, t, Q[1], At(Q, pc, 2), D[1], D[2])
           /\ At(Q, pc, 1) = EntryOf(Q[1])
<1>1. Split(Q, k, ep) /\ Feed(A, X, t, Q, k, D, pc, dl)
  BY DEF Flow
<1>2. k = 0 /\ Split(T, 0, ep)
  BY <1>1, SplitTail
<1>3. Len(Q) \in Nat \ {0} /\ 1 \in 1 .. Len(Q)
  BY DEF IsTail
<1>4. \A n \in 1 .. Len(Q) : Q[n] \in ReqSet
  BY ElementOfSeq
<1>5. At(Q, pc, 2) \in Addr
  <2>1. CASE 2 <= Len(Q)
    <3>1. 2 \in 1 .. Len(Q)
      BY <1>3, <2>1
    <3>2. Q[2].word \in 0 .. (Words - 1)
      BY <1>4, <3>1 DEF ReqSet
    <3> QED
      BY <2>1, <3>2, HalvesInAddr DEF At, EntryOf
  <2>2. CASE ~(2 <= Len(Q))
    BY <2>2 DEF At
  <2> QED
    BY <2>1, <2>2
<1>6. Q[1].word \in 0 .. (Words - 1) /\ Q[1].discard \in BOOLEAN /\ Q[1].btb \in BtbSet
  BY <1>3, <1>4 DEF ReqSet
<1>7. /\ SoundReq(A, X, t, Q[1])
      /\ Link(X, Q[1].word, Q[1].btb, D[1], At(Q, pc, 2), D[2])
  <2>1. k < 1 /\ 1 + 1 = 2
    BY <1>2
  <2>2. Link(X, Q[1].word, Q[1].btb, D[1], At(Q, pc, 1 + 1), D[1 + 1]) /\ SoundReq(A, X, t, Q[1])
    BY <1>1, <1>3, <2>1 DEF Feed
  <2> QED
    BY <2>1, <2>2
<1>8. At(Q, pc, 1) = EntryOf(Q[1])
  BY <1>3 DEF At
<1> QED
  BY <1>1, <1>2, <1>5, <1>6, <1>7, <1>8 DEF Response

(* Stage1 keeps a half and emits nothing.                                  *)
LEMMA FlowKeep ==
    ASSUME NEW A, NEW X, NEW t, NEW Z, NEW z, NEW Q, NEW Q2, NEW D, NEW D2,
           NEW pc, NEW dl, NEW act, NEW act2, NEW prev, NEW prev2, NEW ep, NEW ar,
           Flow(A, X, t, Z, z, Q, 0, D, pc, dl, act, prev, ep, ar),
           Split(Q2, 0, ep), Feed(A, X, t, Q2, 0, D2, pc, dl),
           \A c \in Addr : Path(A, X, act, prev, ep, At(Q, pc, 1), D[1], c)
                             => Path(A, X, act2, prev2, ep, At(Q2, pc, 1), D2[1], c)
    PROVE  Flow(A, X, t, Z, z, Q2, 0, D2, pc, dl, act2, prev2, ep, ar)
<1>1. Split(Z, z, ep)
  BY DEF Flow
<1>2. ar # Stopped =>
         /\ Chain(A, X, t, Z, z, ar)
         /\ Good(A, Z, z, Len(Z)) =>
              \E c \in Addr : /\ Path(A, X, act, prev, ep, At(Q, pc, 1), D[1], c)
                              /\ Joins(X, Z, z, ar, c)
  BY DEF Flow
<1>3. ar # Stopped =>
         /\ Chain(A, X, t, Z, z, ar)
         /\ Good(A, Z, z, Len(Z)) =>
              \E c \in Addr : /\ Path(A, X, act2, prev2, ep, At(Q2, pc, 1), D2[1], c)
                              /\ Joins(X, Z, z, ar, c)
  BY <1>2
<1> QED
  BY <1>1, <1>3 DEF Flow

(* What is left of the invariant once the flow is known.                   *)
LEMMA ProcessCloses ==
    ASSUME NEW S, ProgramInv(S), process_instruction, NEW Z, NEW z, NEW k, NEW Z2, NEW D2,
           Marks(Z, z, k), ~rg_fence, ~rg_initialize, Whole(Z2)',
           Flow(S[text], Texts[text], text, Z2, z, isb01', 0, D2, rg_pc, rg_delayed_redirect,
                rg_action', rg_prev', epoch, arch),
           rg_prev'.epoch = epoch,
           Z2 = Z \/ (\E p : p.epoch = epoch /\ IsAppend(Z2, Z, p)),
           isb01' = isb01 \/ IsTail(isb01', isb01)
    PROVE  Regs(S)' /\ FlowInv(S)'
<1>1. UNCHANGED <<rg_pc, rg_fence, rg_sfence, rg_delayed_redirect, btb, rg_allocate,
                  rg_initialize, wr_bpu_enable, rg_stall, isb23, eEpoch, wEpoch,
                  icache_text, text, arch, inflight>>
  BY DEF process_instruction, stage0, bpu, env
<1>2. epoch' = epoch /\ epoch[2] = wEpoch
  BY <1>1 DEF epoch
<1>3. Stream(S, Z2, z, 0, D2)'
  BY <1>1, <1>2 DEF Stream
<1>4. inflight => \A n \in 1 .. Len(Z2) : Z2[n].epoch[2] = wEpoch
  <2>1. CASE Z2 = Z
    BY <2>1 DEF Marks
  <2>2. ASSUME NEW p, p.epoch = epoch, IsAppend(Z2, Z, p)
        PROVE  inflight => \A n \in 1 .. Len(Z2) : Z2[n].epoch[2] = wEpoch
    BY <1>2, <2>2 DEF Marks, IsAppend
  <2> QED
    BY <2>1, <2>2
<1>5. inflight => \A n \in 1 .. Len(isb01') : isb01'[n].epoch[2] = wEpoch
  <2>1. CASE isb01' = isb01
    BY <2>1 DEF Marks
  <2>2. CASE IsTail(isb01', isb01)
    <3>1. \A n \in 1 .. Len(isb01') : isb01'[n] = isb01[n + 1] /\ n + 1 \in 1 .. Len(isb01)
      BY <2>2 DEF IsTail
    <3> QED
      BY <3>1 DEF Marks
  <2> QED
    BY <2>1, <2>2
<1>6. Marks(Z2, z, 0)'
  BY <1>1, <1>2, <1>4, <1>5 DEF Marks
<1>7. Regs(S)'
  BY <1>1 DEF ProgramInv, Regs, Ready, epoch
<1> QED
  BY <1>3, <1>6, <1>7 DEF FlowInv

(* What stage1 does with the response q, in the terms of Flow: d1 waited   *)
(* when it was requested, the next request was made at a2 with d2 waiting. *)
Does(A, X, q, p, d1, a2, d2) ==
    \/ /\ isb12' = Append(isb12, p) /\ isb01' = Tail(isb01) /\ p.epoch = epoch
       /\ \A c \in Addr : Path(A, X, rg_action, rg_prev, epoch, EntryOf(q), d1, c)
                           => Emits(A, X, text, p, rg_action', rg_prev', epoch, a2, d2, c)
    \/ /\ isb12' = Append(isb12, p) /\ isb01' = isb01 /\ p.epoch = epoch
       /\ \A c \in Addr : Path(A, X, rg_action, rg_prev, epoch, EntryOf(q), d1, c)
                           => Emits(A, X, text, p, rg_action', rg_prev', epoch, EntryOf(q), d1, c)
    \/ /\ isb12' = isb12 /\ isb01' = Tail(isb01)
       /\ \A c \in Addr : Path(A, X, rg_action, rg_prev, epoch, EntryOf(q), d1, c)
                           => Path(A, X, rg_action', rg_prev', epoch, a2, d2, c)

LEMMA ProcessDoes ==
    ASSUME Types, NEW A, NEW X, X = Texts[text], NEW q \in ReqSet, NEW p,
           NEW d1, NEW a2, NEW d2, Response(A, X, text, q, a2, d1, d2), Process(q, p)
    PROVE  Does(A, X, q, p, d1, a2, d2) /\ rg_prev'.epoch = epoch
<1>1. /\ q.text = text /\ q.btb \in BtbSet /\ q.word \in 0 .. (Words - 1) /\ Bools(X)
      /\ q.btb.hi \in BOOLEAN /\ q.btb.pred \in BOOLEAN
  BY DEF Response, SoundReq, BtbSet
<1>2. /\ rg_prev \in PrevSet /\ rg_prev.btb \in BtbSet /\ rg_prev.word \in 0 .. (Words - 1)
      /\ rg_prev.wide \in BOOLEAN /\ rg_prev.btb.hi \in BOOLEAN
  <2>1. rg_prev \in PrevSet
    BY DEF Types, QueueTypes
  <2> QED
    BY <2>1 DEF PrevSet, BtbSet
<1>3. 2 * q.word \in Addr /\ 2 * q.word + 1 \in Addr
  BY <1>1, HalvesInAddr
<1>4. /\ Fault(q) \in BOOLEAN
      /\ ~Fault(q) => /\ Wide(q, 2 * q.word) = X[2 * q.word].wide
                      /\ Wide(q, 2 * q.word + 1) = X[2 * q.word + 1].wide
  BY <1>1, <1>3, WideType
<1>5. /\ Wide(q, 2 * q.word) => ~Fault(q)
      /\ Wide(q, 2 * q.word + 1) => ~Fault(q)
  BY DEF Wide
<1>6. Prev(q).epoch = epoch /\ (~Fault(q) => KeptHalf(X, q, Prev(q), epoch))
  BY <1>4 DEF Prev, KeptHalf
<1>7. [rg_prev EXCEPT !.epoch = epoch].epoch = epoch
  BY <1>2 DEF PrevSet
<1>8. /\ ForHalf(rg_prev.btb, TRUE).pred <=> rg_prev.btb.hi /\ rg_prev.btb.pred
      /\ ForHalf(q.btb, TRUE).pred <=> q.btb.hi /\ q.btb.pred
      /\ ForHalf(q.btb, FALSE).pred <=> ~q.btb.hi /\ q.btb.pred
  BY <1>1, <1>2, ForHalfType
<1>9. CASE /\ Kept /\ rg_prev.wide
           /\ p = Packet(rg_prev.text, q, 2 * rg_prev.word + 1, TRUE, 2 * q.word, Fault(q),
                         ForHalf(rg_prev.btb, TRUE))
           /\ isb12' = Append(isb12, p) /\ isb01' = Tail(isb01) /\ rg_prev' = Prev(q)
           /\ rg_action' = IF ForHalf(rg_prev.btb, TRUE).pred THEN "None" ELSE "CheckPrev"
  <2>1. /\ p.pc = 2 * rg_prev.word + 1 /\ p.wide = TRUE /\ p.snd = 2 * q.word
        /\ p.epoch = epoch /\ p.trap = Fault(q) /\ p.text = text
        /\ p.pred = ForHalf(rg_prev.btb, TRUE).pred
    BY <1>1, <1>9 DEF Packet
  <2>2. /\ p.pred <=> rg_prev.btb.hi /\ rg_prev.btb.pred
        /\ rg_action' = IF p.pred THEN "None" ELSE "CheckPrev"
    BY <1>8, <1>9, <2>1
  <2>3. ~p.trap => KeptHalf(X, q, rg_prev', epoch)
    BY <1>4, <1>6, <1>9, <2>1
  <2>4. rg_action = "CheckPrev" /\ rg_prev.epoch = epoch /\ rg_prev.wide = TRUE
    BY <1>2, <1>9 DEF Kept, Keeps
  <2>5. ASSUME NEW c \in Addr, Path(A, X, rg_action, rg_prev, epoch, EntryOf(q), d1, c)
        PROVE  Emits(A, X, text, p, rg_action', rg_prev', epoch, a2, d2, c)
    BY <1>2, <2>1, <2>2, <2>3, <2>4, <2>5, EmitKeptWide
  <2> QED
    BY <1>6, <1>9, <2>1, <2>5 DEF Does
<1>10. CASE /\ Kept /\ ~rg_prev.wide
            /\ p = Packet(rg_prev.text, q, 2 * rg_prev.word + 1, FALSE, 2 * rg_prev.word + 1, FALSE,
                          ForHalf(rg_prev.btb, TRUE))
            /\ isb12' = Append(isb12, p) /\ isb01' = isb01
            /\ rg_prev' = [rg_prev EXCEPT !.epoch = epoch] /\ rg_action' = "None"
  <2>1. /\ p.pc = 2 * rg_prev.word + 1 /\ p.wide = FALSE
        /\ p.epoch = epoch /\ p.text = text
        /\ p.pred = ForHalf(rg_prev.btb, TRUE).pred
    BY <1>1, <1>10 DEF Packet
  <2>2. p.pred <=> rg_prev.btb.hi /\ rg_prev.btb.pred
    BY <1>8, <2>1
  <2>3. rg_action = "CheckPrev" /\ rg_prev.epoch = epoch /\ rg_prev.wide = FALSE
    BY <1>2, <1>10 DEF Kept, Keeps
  <2>4. EntryOf(q) \in Addr
    BY <1>3 DEF EntryOf
  <2>5. ASSUME NEW c \in Addr, Path(A, X, rg_action, rg_prev, epoch, EntryOf(q), d1, c)
        PROVE  Emits(A, X, text, p, "None", rg_prev', epoch, EntryOf(q), d1, c)
    BY <1>2, <2>1, <2>2, <2>3, <2>4, <2>5, EmitKeptNarrow
  <2> QED
    BY <1>7, <1>10, <2>1, <2>5 DEF Does
<1>11. CASE /\ ~Kept /\ q.discard /\ Wide(q, 2 * q.word + 1)
            /\ isb12' = isb12 /\ isb01' = Tail(isb01) /\ rg_prev' = Prev(q)
            /\ rg_action' = "CheckPrev"
  <2>1. KeptHalf(X, q, rg_prev', epoch)
    BY <1>5, <1>6, <1>11
  <2>2. EntryOf(q) = 2 * q.word + 1 /\ (q.btb.pred => q.btb.hi)
    BY <1>11 DEF EntryOf, Response, SoundReq
  <2>3. ASSUME NEW c \in Addr, Path(A, X, rg_action, rg_prev, epoch, EntryOf(q), d1, c)
        PROVE  Path(A, X, "CheckPrev", rg_prev', epoch, a2, d2, c)
    <3>1. c = EntryOf(q) /\ d1 = <<>>
      BY <1>11, <2>3 DEF Path, Kept
    <3>2. Response(A, X, text, q, a2, <<>>, d2)
      BY <3>1
    <3> QED
      BY <2>1, <2>2, <3>1, <3>2, PathOfKeptHalf
  <2> QED
    BY <1>6, <1>11, <2>3 DEF Does
<1>12. CASE /\ ~Kept /\ q.discard /\ ~Wide(q, 2 * q.word + 1)
            /\ p = Packet(q.text, q, 2 * q.word + 1, FALSE, 2 * q.word + 1, Fault(q), ForHalf(q.btb, TRUE))
            /\ isb12' = Append(isb12, p) /\ isb01' = Tail(isb01)
            /\ rg_prev' = [rg_prev EXCEPT !.epoch = epoch] /\ rg_action' = "None"
  <2>1. /\ p.pc = 2 * q.word + 1 /\ p.wide = FALSE
        /\ p.epoch = epoch /\ p.trap = Fault(q) /\ p.text = text
        /\ p.pred = ForHalf(q.btb, TRUE).pred
    BY <1>1, <1>12 DEF Packet
  <2>2. p.pred <=> q.btb.hi /\ q.btb.pred
    BY <1>8, <2>1
  <2>3. ~p.trap => ~X[2 * q.word + 1].wide
    BY <1>4, <1>12, <2>1
  <2>4. ASSUME NEW c \in Addr, Path(A, X, rg_action, rg_prev, epoch, EntryOf(q), d1, c)
        PROVE  Emits(A, X, text, p, "None", rg_prev', epoch, a2, d2, c)
    <3>1. c = EntryOf(q) /\ d1 = <<>>
      BY <1>12, <2>4 DEF Path, Kept
    <3>2. Response(A, X, text, q, a2, <<>>, d2) /\ q.discard
      BY <1>12, <3>1
    <3>3. Emits(A, X, text, p, "None", rg_prev', epoch, a2, d2, EntryOf(q))
      BY <2>1, <2>2, <2>3, <3>2, EmitUpper
    <3> QED
      BY <3>1, <3>3
  <2> QED
    BY <1>7, <1>12, <2>1, <2>4 DEF Does
<1>13. CASE /\ ~Kept /\ ~q.discard /\ Wide(q, 2 * q.word)
            /\ p = Packet(q.text, q, 2 * q.word, TRUE, 2 * q.word + 1, Fault(q), q.btb)
            /\ isb12' = Append(isb12, p) /\ isb01' = Tail(isb01)
            /\ rg_prev' = [rg_prev EXCEPT !.epoch = epoch] /\ rg_action' = "None"
  <2>1. /\ p.pc = 2 * q.word /\ p.wide = TRUE /\ p.snd = 2 * q.word + 1
        /\ p.epoch = epoch /\ p.text = text /\ p.pred = q.btb.pred
    BY <1>1, <1>13 DEF Packet
  <2>2. X[2 * q.word].wide /\ (p.pred <=> q.btb.pred)
    BY <1>4, <1>5, <1>13, <2>1
  <2>3. ASSUME NEW c \in Addr, Path(A, X, rg_action, rg_prev, epoch, EntryOf(q), d1, c)
        PROVE  Emits(A, X, text, p, "None", rg_prev', epoch, a2, d2, c)
    <3>1. c = EntryOf(q) /\ d1 = <<>>
      BY <1>13, <2>3 DEF Path, Kept
    <3>2. Response(A, X, text, q, a2, <<>>, d2) /\ ~q.discard
      BY <1>13, <3>1
    <3>3. Emits(A, X, text, p, "None", rg_prev', epoch, a2, d2, EntryOf(q))
      BY <2>1, <2>2, <3>2, EmitWide
    <3> QED
      BY <3>1, <3>3
  <2> QED
    BY <1>7, <1>13, <2>1, <2>3 DEF Does
<1>14. CASE /\ ~Kept /\ ~q.discard /\ ~Wide(q, 2 * q.word)
            /\ p = Packet(q.text, q, 2 * q.word, FALSE, 2 * q.word, Fault(q), ForHalf(q.btb, FALSE))
            /\ isb12' = Append(isb12, p) /\ isb01' = Tail(isb01) /\ rg_prev' = Prev(q)
            /\ rg_action' = IF ~q.btb.hi /\ q.btb.pred THEN "None" ELSE "CheckPrev"
  <2>1. /\ p.pc = 2 * q.word /\ p.wide = FALSE
        /\ p.epoch = epoch /\ p.trap = Fault(q) /\ p.text = text
        /\ p.pred = ForHalf(q.btb, FALSE).pred
    BY <1>1, <1>14 DEF Packet
  <2>2. /\ p.pred <=> ~q.btb.hi /\ q.btb.pred
        /\ rg_action' = IF p.pred THEN "None" ELSE "CheckPrev"
    BY <1>8, <1>14, <2>1
  <2>3. ~p.trap => ~X[2 * q.word].wide /\ KeptHalf(X, q, rg_prev', epoch)
    BY <1>4, <1>6, <1>14, <2>1
  <2>4. ASSUME NEW c \in Addr, Path(A, X, rg_action, rg_prev, epoch, EntryOf(q), d1, c)
        PROVE  Emits(A, X, text, p, rg_action', rg_prev', epoch, a2, d2, c)
    <3>1. c = EntryOf(q) /\ d1 = <<>>
      BY <1>14, <2>4 DEF Path, Kept
    <3>2. Response(A, X, text, q, a2, <<>>, d2) /\ ~q.discard
      BY <1>14, <3>1
    <3>3. Emits(A, X, text, p, rg_action', rg_prev', epoch, a2, d2, EntryOf(q))
      BY <2>1, <2>2, <2>3, <3>2, EmitNarrow
    <3> QED
      BY <3>1, <3>3
  <2> QED
    BY <1>6, <1>14, <2>1, <2>4 DEF Does
<1> QED
  BY <1>9, <1>10, <1>11, <1>12, <1>13, <1>14, Zenon DEF Process

LEMMA ProcessStep ==
    ASSUME NEW S, Starts(S), ProgramInv(S), process_instruction PROVE Regs(S)' /\ FlowInv(S)'
<1>1. PICK Z, z, k, D : Whole(Z) /\ Stream(S, Z, z, k, D) /\ Marks(Z, z, k)
  BY DEF ProgramInv, FlowInv
<1>2. /\ isb01 # <<>> /\ isb01 \in Seq(ReqSet) /\ Head(isb01).epoch = epoch /\ rg_pc \in Addr
      /\ isb12 \in Seq(PktSet) /\ Types /\ isb23' = isb23
  BY DEF process_instruction, ProgramInv, Types, QueueTypes, RegTypes
<1>3. PICK A, X, q, T : A = S[text] /\ X = Texts[text] /\ q = Head(isb01) /\ T = Tail(isb01)
  OBVIOUS
<1>4. /\ q = isb01[1] /\ q \in ReqSet /\ isb01[1].epoch = epoch /\ IsTail(T, isb01)
      /\ Len(isb01) \in Nat \ {0}
  BY <1>2, <1>3, TailFacts, TailOfQueue
<1>5. Flow(A, X, text, Z, z, isb01, k, D, rg_pc, rg_delayed_redirect, rg_action, rg_prev,
           epoch, arch)
  BY <1>1, <1>3 DEF Stream
<1>6. Disciplined(A, X) /\ Bools(X)
  BY <1>2, <1>3, StartsFacts
<1>7. /\ k = 0 /\ Split(T, 0, epoch) /\ Split(isb01, 0, epoch)
      /\ Feed(A, X, text, isb01, 0, D, rg_pc, rg_delayed_redirect)
      /\ Response(A, X, text, isb01[1], At(isb01, rg_pc, 2), D[1], D[2])
      /\ At(isb01, rg_pc, 1) = EntryOf(isb01[1])
  <2>1. PICK t, Q, a, dl, act, prev, ep, ar :
          /\ t = text /\ Q = isb01 /\ a = rg_pc /\ dl = rg_delayed_redirect
          /\ act = rg_action /\ prev = rg_prev /\ ep = epoch /\ ar = arch
    OBVIOUS
  <2>2. Flow(A, X, t, Z, z, Q, k, D, a, dl, act, prev, ep, ar)
    BY <1>5, <2>1
  <2>3. Q \in Seq(ReqSet) /\ a \in Addr /\ IsTail(T, Q) /\ Q[1].epoch = ep
    BY <1>2, <1>4, <2>1
  <2>4. /\ k = 0 /\ Split(T, 0, ep) /\ Split(Q, 0, ep) /\ Feed(A, X, t, Q, 0, D, a, dl)
        /\ Response(A, X, t, Q[1], At(Q, a, 2), D[1], D[2])
        /\ At(Q, a, 1) = EntryOf(Q[1])
    <3>1. k = 0
      <4>1. Split(Q, k, ep) /\ Len(Q) \in Nat \ {0}
        BY <2>2, <2>3 DEF Flow, IsTail
      <4>2. k \in 0 .. Len(Q) /\ (Q[1].epoch = ep <=> k < 1)
        BY <4>1 DEF Split
      <4> QED
        BY <2>3, <4>1, <4>2
    <3>2. /\ Split(T, 0, ep) /\ Split(Q, 0, ep) /\ Feed(A, X, t, Q, 0, D, a, dl)
          /\ Response(A, X, t, Q[1], At(Q, a, 2), D[1], D[2])
          /\ At(Q, a, 1) = EntryOf(Q[1])
      BY <1>6, <2>2, <2>3, HeadResponse
    <3> QED
      BY <3>1, <3>2
  <2> QED
    BY <2>1, <2>4
<1>8. PICK p : Process(q, p)
  BY <1>3, ProcessCases
<1>9. Does(A, X, q, p, D[1], At(isb01, rg_pc, 2), D[2]) /\ rg_prev'.epoch = epoch
  BY <1>2, <1>3, <1>4, <1>7, <1>8, ProcessDoes
<1>10. ~rg_fence /\ ~rg_initialize
  BY <1>1, <1>4, <1>7 DEF Marks
<1>11. PICK D1 : Shifted(D1, D, T)
  <2>1. Len(T) \in Nat
    BY <1>4 DEF IsTail
  <2> QED
    BY <2>1, ShiftedExists
<1>12. /\ Feed(A, X, text, T, 0, D1, rg_pc, rg_delayed_redirect)
       /\ At(T, rg_pc, 1) = At(isb01, rg_pc, 2) /\ D1[1] = D[2]
  <2>1. Feed(A, X, text, T, 0, D1, rg_pc, rg_delayed_redirect)
    <3>1. 0 \in Nat /\ (0 = 0 + 1 \/ (0 = 0 /\ 0 = 0))
      OBVIOUS
    <3> QED
      BY <1>4, <1>7, <1>11, <3>1, FeedTail
  <2>2. 1 \in 1 .. (Len(T) + 1) /\ 1 + 1 = 2
    BY <1>4 DEF IsTail
  <2>3. D1[1] = D[2]
    BY <1>11, <2>2 DEF Shifted
  <2>4. At(T, rg_pc, 1) = At(isb01, rg_pc, 2)
    BY <1>4 DEF At, IsTail
  <2> QED
    BY <2>1, <2>3, <2>4
<1>13. Flow(A, X, text, Z, z, isb01, 0, D, rg_pc, rg_delayed_redirect, rg_action, rg_prev,
            epoch, arch)
  BY <1>5, <1>7
<1>14. ASSUME p.epoch = epoch, isb12' = Append(isb12, p), NEW D2,
              Split(isb01', 0, epoch),
              Feed(A, X, text, isb01', 0, D2, rg_pc, rg_delayed_redirect),
              isb01' = isb01 \/ IsTail(isb01', isb01),
              \A c \in Addr : Path(A, X, rg_action, rg_prev, epoch, At(isb01, rg_pc, 1), D[1], c)
                 => Emits(A, X, text, p, rg_action', rg_prev', epoch,
                          At(isb01', rg_pc, 1), D2[1], c)
       PROVE  Regs(S)' /\ FlowInv(S)'
  <2>1. PICK Z2 : Z2 = Append(Z, p)
    OBVIOUS
  <2>2. QueueTypes'
    BY <1>2, ProcessTypes
  <2>3. p \in PktSet
    <3>1. Len(isb12) \in Nat /\ Len(Append(isb12, p)) = Len(isb12) + 1
          /\ Append(isb12, p)[Len(isb12) + 1] = p
      BY <1>2
    <3>2. Append(isb12, p) \in Seq(PktSet)
      BY <1>14, <2>2 DEF QueueTypes
    <3>3. Len(isb12) + 1 \in 1 .. Len(Append(isb12, p))
      BY <3>1
    <3> QED
      BY <3>1, <3>2, <3>3, ElementOfSeq
  <2>4. Z \in Seq(PktSet) /\ Z2 \in Seq(PktSet) /\ IsAppend(Z2, Z, p)
    <3>1. Z \in Seq(PktSet)
      BY <1>1 DEF Whole
    <3> QED
      BY <2>1, <2>3, <3>1, AppendFacts DEF IsAppend
  <2>5. Whole(Z2)'
    <3>1. CASE isb23 = <<>>
      BY <1>1, <1>2, <1>14, <2>1, <2>4, <3>1 DEF Whole
    <3>2. CASE isb23 # <<>>
      <4>1. Z # <<>> /\ Z[1] = isb23[1] /\ isb12 = Tail(Z)
        BY <1>1, <3>2 DEF Whole
      <4>2. Len(Z) \in Nat \ {0} /\ 1 \in 1 .. Len(Z)
        BY <2>4, <4>1, TailFacts
      <4>3. Z2 # <<>> /\ Z2[1] = Z[1]
        BY <2>4, <4>2 DEF IsAppend
      <4>4. Tail(Z2) = Append(Tail(Z), p)
        BY <2>1, <2>3, <2>4, <4>1, HeadTailAppend
      <4> QED
        BY <1>2, <1>14, <2>4, <3>2, <4>1, <4>3, <4>4 DEF Whole
    <3> QED
      BY <3>1, <3>2
  <2>6. Flow(A, X, text, Z2, z, isb01', 0, D2, rg_pc, rg_delayed_redirect, rg_action', rg_prev',
             epoch, arch)
    BY <1>13, <1>14, <2>4, FlowEmit
  <2>7. Flow(S[text], Texts[text], text, Z2, z, isb01', 0, D2, rg_pc, rg_delayed_redirect,
             rg_action', rg_prev', epoch, arch)
    BY <1>3, <2>6
  <2>8. Z2 = Z \/ (\E p_1 : p_1.epoch = epoch /\ IsAppend(Z2, Z, p_1))
    BY <1>14, <2>4
  <2> QED
    BY <1>1, <1>9, <1>10, <1>14, <2>5, <2>7, <2>8, ProcessCloses
<1>15. CASE /\ isb12' = Append(isb12, p) /\ isb01' = Tail(isb01) /\ p.epoch = epoch
            /\ \A c \in Addr : Path(A, X, rg_action, rg_prev, epoch, EntryOf(q), D[1], c)
                 => Emits(A, X, text, p, rg_action', rg_prev', epoch,
                          At(isb01, rg_pc, 2), D[2], c)
  <2>1. \A c \in Addr : Path(A, X, rg_action, rg_prev, epoch, At(isb01, rg_pc, 1), D[1], c)
                 => Emits(A, X, text, p, rg_action', rg_prev', epoch,
                          At(isb01', rg_pc, 1), D1[1], c)
    BY <1>3, <1>4, <1>7, <1>12, <1>15
  <2>2. /\ Split(isb01', 0, epoch) /\ IsTail(isb01', isb01)
        /\ Feed(A, X, text, isb01', 0, D1, rg_pc, rg_delayed_redirect)
    BY <1>3, <1>4, <1>7, <1>12, <1>15
  <2> QED
    BY <1>14, <1>15, <2>1, <2>2
<1>16. CASE /\ isb12' = Append(isb12, p) /\ isb01' = isb01 /\ p.epoch = epoch
            /\ \A c \in Addr : Path(A, X, rg_action, rg_prev, epoch, EntryOf(q), D[1], c)
                 => Emits(A, X, text, p, rg_action', rg_prev', epoch, EntryOf(q), D[1], c)
  <2>1. \A c \in Addr : Path(A, X, rg_action, rg_prev, epoch, At(isb01, rg_pc, 1), D[1], c)
                 => Emits(A, X, text, p, rg_action', rg_prev', epoch,
                          At(isb01', rg_pc, 1), D[1], c)
    BY <1>4, <1>7, <1>16
  <2>2. Split(isb01', 0, epoch) /\ Feed(A, X, text, isb01', 0, D, rg_pc, rg_delayed_redirect)
    BY <1>7, <1>16
  <2> QED
    BY <1>14, <1>16, <2>1, <2>2
<1>17. CASE /\ isb12' = isb12 /\ isb01' = Tail(isb01)
            /\ \A c \in Addr : Path(A, X, rg_action, rg_prev, epoch, EntryOf(q), D[1], c)
                 => Path(A, X, rg_action', rg_prev', epoch, At(isb01, rg_pc, 2), D[2], c)
  <2>1. \A c \in Addr : Path(A, X, rg_action, rg_prev, epoch, At(isb01, rg_pc, 1), D[1], c)
                 => Path(A, X, rg_action', rg_prev', epoch, At(isb01', rg_pc, 1), D1[1], c)
    BY <1>3, <1>4, <1>7, <1>12, <1>17
  <2>2. /\ Split(isb01', 0, epoch) /\ IsTail(isb01', isb01)
        /\ Feed(A, X, text, isb01', 0, D1, rg_pc, rg_delayed_redirect)
    BY <1>3, <1>4, <1>7, <1>12, <1>17
  <2>3. Flow(A, X, text, Z, z, isb01', 0, D1, rg_pc, rg_delayed_redirect, rg_action', rg_prev',
             epoch, arch)
    BY <1>13, <2>1, <2>2, FlowKeep
  <2>4. Flow(S[text], Texts[text], text, Z, z, isb01', 0, D1, rg_pc, rg_delayed_redirect,
             rg_action', rg_prev', epoch, arch)
    BY <1>3, <2>3
  <2>5. Whole(Z)'
    BY <1>1, <1>2, <1>17 DEF Whole
  <2> QED
    BY <1>1, <1>9, <1>10, <2>2, <2>4, <2>5, ProcessCloses
<1> QED
  BY <1>9, <1>15, <1>16, <1>17, Zenon DEF Does

(* Stage3 executes the first packet, and what it finds behind it is right. *)
LEMMA ExecutedStep ==
    ASSUME NEW S, Starts(S), ProgramInv(S), NEW Z, NEW z, NEW k, NEW D,
           Whole(Z), Stream(S, Z, z, k, D), Marks(Z, z, k), Ready,
           UNCHANGED <<rg_pc, rg_fence, rg_sfence, rg_delayed_redirect, rg_initialize,
                       wr_bpu_enable, isb01, rg_action, rg_prev, isb12, rg_stall, eEpoch,
                       wEpoch, icache_text, text>>,
           isb23' = <<>>, inflight' = TRUE,
           SoundBtb(S[text], Texts[text], btb'), wr_bpu_enable \/ btb' = btb,
           \/ arch' = Stopped /\ Z[1].trap
           \/ /\ arch' \in S[text] /\ ~Z[1].trap
              /\ 1 < Len(Z) => Z[2].pc = arch'
              /\ 1 = Len(Z) => \A y \in Addr : Follows(Texts[text], Z[1], y) => y = arch'
    PROVE  Regs(S)' /\ FlowInv(S)'
<1>1. Types /\ Regs(S)
  BY DEF ProgramInv
<1>2. /\ z = 0 /\ k = 0 /\ Len(Z) \in Nat \ {0} /\ Z[1] = isb23[1] /\ z < Len(Z)
      /\ arch # Stopped /\ arch \in S[text] /\ Z[1].pc = arch
      /\ \A n \in 1 .. Len(Z) : Z[n].epoch = epoch
      /\ \A n \in 1 .. Len(isb01) : isb01[n].epoch = epoch
  BY <1>1, FrontIsNext
<1>3. ~rg_fence /\ ~rg_initialize /\ rg_prev.epoch = epoch
  BY <1>2 DEF Marks
<1>4. isb23 # <<>> /\ isb23[1].epoch = epoch
  BY DEF Ready
<1>5. PICK Z2 : Z2 = isb12
  OBVIOUS
<1>6. IsTail(Z2, Z) /\ Z2 \in Seq(PktSet)
  <2>1. Z2 \in Seq(PktSet)
    BY <1>1, <1>5 DEF Types, QueueTypes
  <2> QED
    BY <1>1, <1>4, <1>5, <2>1, WholeTail
<1>7. Split(Z2, 0, epoch)
  <2>1. Split(Z, z, epoch)
    BY DEF Stream, Flow
  <2>2. Z[1].epoch = epoch
    BY <1>2, <1>4
  <2> QED
    BY <1>6, <2>1, <2>2, SplitTail
<1>8. Flow(S[text], Texts[text], text, Z2, 0, isb01, k, D, rg_pc, rg_delayed_redirect,
           rg_action, rg_prev, epoch, arch')
  <2>1. PICK ar2 : ar2 = arch'
    OBVIOUS
  <2>2. Flow(S[text], Texts[text], text, Z, z, isb01, k, D, rg_pc, rg_delayed_redirect,
             rg_action, rg_prev, epoch, arch)
    BY DEF Stream
  <2>3. /\ z = 0
        /\ ar2 # Stopped =>
             /\ arch # Stopped /\ Z[1].pc \in S[text] /\ ~Z[1].trap
             /\ 1 < Len(Z) => Z[2].pc = ar2
             /\ 1 = Len(Z) => \A y \in Addr : Follows(Texts[text], Z[1], y) => y = ar2
    BY <1>2, <2>1
  <2>4. Flow(S[text], Texts[text], text, Z2, 0, isb01, k, D, rg_pc, rg_delayed_redirect,
             rg_action, rg_prev, epoch, ar2)
    BY <1>6, <1>7, <2>2, <2>3, FlowLeaves
  <2> QED
    BY <2>1, <2>4
<1>9. Whole(Z2)'
  BY <1>5, <1>6 DEF Whole
<1>10. Stream(S, Z2, 0, k, D)'
  BY <1>8 DEF Stream, epoch
<1>11. Marks(Z2, 0, k)'
  <2>1. \A n \in 1 .. Len(Z2) : Z2[n].epoch = epoch
    BY <1>2, <1>6 DEF IsTail
  <2>2. epoch[2] = wEpoch /\ epoch' = epoch
    BY DEF epoch
  <2> QED
    BY <1>2, <1>3, <2>1, <2>2 DEF Marks
<1>12. Regs(S)'
  <2>1. rg_stall <=> Z[1].trap
    BY <1>1, <1>2 DEF Regs
  <2>2. Stopped \notin S[text]
    BY <1>1, StartsFacts
  <2>3. ~Ready'
    BY DEF Ready
  <2>4. rg_stall' <=> arch' = Stopped \/ (Ready' /\ isb23'[1].trap)
    BY <2>1, <2>2, <2>3
  <2>5. arch' \in S[text] \union {Stopped}
    OBVIOUS
  <2> QED
    BY <1>1, <1>3, <2>4, <2>5 DEF Regs
<1> QED
  BY <1>9, <1>10, <1>11, <1>12 DEF FlowInv

(* What stage3 has before it, in the terms of the program.                 *)
LEMMA FrontOfProgram ==
    ASSUME NEW S, Starts(S), Types, Regs(S), NEW Z, NEW z, NEW k, NEW D,
           Whole(Z), Stream(S, Z, z, k, D), Ready
    PROVE  /\ Decoded(isb23[1]) = Texts[text][arch] /\ isb23[1].pc = arch
           /\ Next16or32(isb23[1]) = After(isb23[1])
           /\ ~isb23[1].trap =>
                /\ isb23[1].wide = Texts[text][arch].wide
                /\ Texts[text][arch].kind \in {"alu", "branch"} => After(isb23[1]) \in S[text]
                /\ Texts[text][arch].kind \in {"branch", "jal"}
                     => Texts[text][arch].target \in S[text]
                /\ 1 < Len(Z) => Follows(Texts[text], isb23[1], Z[2].pc)
<1>1. /\ z = 0 /\ Len(Z) \in Nat \ {0} /\ Z[1] = isb23[1] /\ z < Len(Z)
      /\ arch # Stopped /\ arch \in S[text] /\ Z[1].pc = arch
      /\ Valid(Texts[text], text, Z[1])
  BY FrontIsNext
<1>2. Decoded(isb23[1]) = Texts[text][arch] /\ isb23[1].pc = arch
  BY <1>1 DEF Decoded, Valid
<1>3. Next16or32(isb23[1]) = After(isb23[1])
  BY DEF Next16or32, After, SizeOf
<1>4. ASSUME ~isb23[1].trap
      PROVE  /\ isb23[1].wide = Texts[text][arch].wide
             /\ Texts[text][arch].kind \in {"alu", "branch"} => After(isb23[1]) \in S[text]
             /\ Texts[text][arch].kind \in {"branch", "jal"}
                  => Texts[text][arch].target \in S[text]
             /\ 1 < Len(Z) => Follows(Texts[text], isb23[1], Z[2].pc)
  <2>1. isb23[1].wide = Texts[text][arch].wide
    BY <1>1, <1>4 DEF Valid
  <2>2. Disciplined(S[text], Texts[text])
    BY StartsFacts
  <2>3. After(isb23[1]) = Plus(arch, SizeOf(Texts[text][arch]))
    BY <1>2, <2>1 DEF After, SizeOf
  <2>4. Chain(S[text], Texts[text], text, Z, z, arch)
    BY <1>1 DEF Stream, Flow
  <2>5. 1 < Len(Z) => Follows(Texts[text], isb23[1], Z[2].pc)
    <3>1. Good(S[text], Z, z, 1)
      BY <1>1, <1>4 DEF Good
    <3>2. 1 \in 1 .. Len(Z) /\ z < 1 /\ 1 + 1 = 2
      BY <1>1
    <3>3. 1 < Len(Z) => Follows(Texts[text], Z[1], Z[1 + 1].pc)
      BY <2>4, <3>1, <3>2 DEF Chain
    <3> QED
      BY <1>1, <3>2, <3>3
  <2> QED
    BY <1>1, <2>1, <2>2, <2>3, <2>5 DEF Disciplined
<1> QED
  BY <1>2, <1>3, <1>4

LEMMA ExeOtherStep ==
    ASSUME NEW S, Starts(S), ProgramInv(S), exe_other PROVE Regs(S)' /\ FlowInv(S)'
<1>1. PICK Z, z, k, D : Whole(Z) /\ Stream(S, Z, z, k, D) /\ Marks(Z, z, k)
  BY DEF ProgramInv, FlowInv
<1>2. /\ Ready /\ isb23' = <<>> /\ inflight' = TRUE /\ btb' = btb
      /\ UNCHANGED <<rg_pc, rg_fence, rg_sfence, rg_delayed_redirect, rg_initialize,
                     wr_bpu_enable, isb01, rg_action, rg_prev, isb12, rg_stall, eEpoch,
                     wEpoch, icache_text, text>>
      /\ isb23[1].trap \/ Decoded(isb23[1]).kind = "alu"
      /\ arch' = IF isb23[1].trap THEN Stopped ELSE Next16or32(isb23[1])
  BY DEF exe_other, stage0, bpu, stage1
<1>3. Types /\ Regs(S)
  BY DEF ProgramInv
<1>4. /\ Z[1] = isb23[1] /\ z < Len(Z) /\ Z[1].pc = arch
  BY <1>1, <1>2, <1>3, FrontIsNext
<1>5. SoundBtb(S[text], Texts[text], btb')
  BY <1>1, <1>2, <1>3, <1>4 DEF Marks, Regs
<1>6. /\ Decoded(isb23[1]) = Texts[text][arch] /\ Next16or32(isb23[1]) = After(isb23[1])
      /\ ~isb23[1].trap =>
           /\ Texts[text][arch].kind \in {"alu", "branch"} => After(isb23[1]) \in S[text]
           /\ 1 < Len(Z) => Follows(Texts[text], isb23[1], Z[2].pc)
  BY <1>1, <1>2, <1>3, FrontOfProgram
<1>7. \/ arch' = Stopped /\ Z[1].trap
      \/ /\ arch' \in S[text] /\ ~Z[1].trap
         /\ 1 < Len(Z) => Z[2].pc = arch'
         /\ 1 = Len(Z) => \A y \in Addr : Follows(Texts[text], Z[1], y) => y = arch'
  <2>1. CASE isb23[1].trap
    BY <1>2, <1>4, <2>1
  <2>2. CASE ~isb23[1].trap
    <3>1. Texts[text][Z[1].pc].kind = "alu" /\ arch' = After(Z[1])
      BY <1>2, <1>4, <1>6, <2>2
    <3> QED
      BY <1>4, <1>6, <2>2, <3>1 DEF Follows
  <2> QED
    BY <2>1, <2>2
<1> QED
  BY <1>1, <1>2, <1>5, <1>7, ExecutedStep

(* A control transfer: where the program goes, and what the predictor is   *)
(* told of it.                                                             *)
LEMMA ControlSound ==
    ASSUME NEW S, Starts(S), Types, Regs(S), NEW Z, NEW z, NEW k, NEW D,
           Whole(Z), Stream(S, Z, z, k, D), Marks(Z, z, k), Ready, ~isb23[1].trap,
           NEW taken, NEW target, NEW ci, Control(taken, target, ci)
    PROVE  /\ arch' \in S[text] /\ arch' \in Addr
           /\ SoundBtb(S[text], Texts[text], btb') /\ (wr_bpu_enable \/ btb' = btb)
<1>1. /\ Transfer(isb23[1], taken, target, ci)
      /\ arch' = IF taken THEN target ELSE Next16or32(isb23[1])
      /\ ma_train_bpu(isb23[1].pc, target, ci, ~isb23[1].wide)
  BY Zenon DEF Control
<1>2. /\ Decoded(isb23[1]) = Texts[text][arch] /\ isb23[1].pc = arch
      /\ Next16or32(isb23[1]) = After(isb23[1])
      /\ isb23[1].wide = Texts[text][arch].wide
      /\ Texts[text][arch].kind \in {"alu", "branch"} => After(isb23[1]) \in S[text]
      /\ Texts[text][arch].kind \in {"branch", "jal"} => Texts[text][arch].target \in S[text]
  BY FrontOfProgram
<1>3. S[text] \subseteq Addr /\ Entries \subseteq S[text]
  BY StartsFacts
<1>4. z < Len(Z) /\ arch \in S[text]
  BY FrontIsNext
<1>5. arch' \in S[text] /\ arch' \in Addr
  BY <1>1, <1>2, <1>3 DEF Transfer
<1>6. SoundBtb(S[text], Texts[text], btb)
  BY <1>4 DEF Marks, Regs
<1>7. PICK n : n = ~isb23[1].wide
  OBVIOUS
<1>8. /\ Texts[text][arch].kind # "alu"
      /\ (Texts[text][arch].kind # "ret") = (ci # "Ret")
      /\ Goes(Texts[text], arch, target)
  BY <1>1, <1>2 DEF Transfer, Goes
<1>9. n = ~Texts[text][arch].wide
  BY <1>2, <1>7, Zenon
<1>10. ma_train_bpu(arch, target, ci, n)
  BY <1>1, <1>2, <1>7, Zenon
<1>11. BtbTypes /\ arch \in Addr
  BY <1>3, <1>4 DEF Types
<1>12. SoundBtb(S[text], Texts[text], btb') /\ (wr_bpu_enable \/ btb' = btb)
  BY <1>4, <1>6, <1>8, <1>9, <1>10, <1>11, TrainingSound
<1> QED
  BY <1>5, <1>12

(* The prediction was right.                                               *)
LEMMA RightStep ==
    ASSUME NEW S, Starts(S), ProgramInv(S), rl_exe_base_control,
           NEW taken, NEW target, NEW ci, Control(taken, target, ci),
           ~mispredicted(isb23[1], target, taken), isb23' = <<>>,
           UNCHANGED <<stage0, isb12, rg_stall, eEpoch>>
    PROVE  Regs(S)' /\ FlowInv(S)'
<1>1. PICK Z, z, k, D : Whole(Z) /\ Stream(S, Z, z, k, D) /\ Marks(Z, z, k)
  BY DEF ProgramInv, FlowInv
<1>2. Types /\ Regs(S)
  BY DEF ProgramInv
<1>3. /\ Ready /\ isb12 # <<>> /\ ~isb23[1].trap /\ inflight' = TRUE
      /\ UNCHANGED <<rg_pc, rg_fence, rg_sfence, rg_delayed_redirect, rg_initialize,
                     wr_bpu_enable, isb01, rg_action, rg_prev, isb12, rg_stall, eEpoch,
                     wEpoch, icache_text, text>>
  BY DEF rl_exe_base_control, stage0, stage1
<1>4. Z[1] = isb23[1] /\ z < Len(Z)
  BY <1>1, <1>2, <1>3, FrontIsNext
<1>5. /\ arch' \in S[text]
      /\ SoundBtb(S[text], Texts[text], btb') /\ (wr_bpu_enable \/ btb' = btb)
  BY <1>1, <1>2, <1>3, ControlSound
<1>6. 1 < Len(Z) /\ Head(isb12) = Z[2]
  <2>1. IsTail(isb12, Z) /\ isb12 \in Seq(PktSet)
    BY <1>1, <1>2, <1>3, WholeTail DEF Ready, Types, QueueTypes
  <2>2. Len(isb12) \in Nat \ {0} /\ Head(isb12) = isb12[1]
    BY <1>3, <2>1, TailFacts
  <2> QED
    BY <2>1, <2>2 DEF IsTail
<1>7. /\ Decoded(isb23[1]) = Texts[text][arch] /\ isb23[1].pc = arch
      /\ Next16or32(isb23[1]) = After(isb23[1])
      /\ 1 < Len(Z) => Follows(Texts[text], isb23[1], Z[2].pc)
  BY <1>1, <1>2, <1>3, FrontOfProgram
<1>8. Z[2].pc = arch'
  <2>1. /\ Transfer(isb23[1], taken, target, ci)
        /\ arch' = IF taken THEN target ELSE Next16or32(isb23[1])
    BY Zenon DEF Control
  <2>2. CASE Decoded(isb23[1]).kind = "branch"
    <3>1. taken = isb23[1].pred
      BY <2>2 DEF mispredicted
    <3>2. Z[2].pc = IF isb23[1].pred THEN Texts[text][arch].target ELSE After(isb23[1])
      BY <1>6, <1>7, <2>2 DEF Follows
    <3>3. target = Texts[text][arch].target
      BY <1>7, <2>1, <2>2 DEF Transfer
    <3> QED
      BY <1>7, <2>1, <3>1, <3>2, <3>3
  <2>3. CASE Decoded(isb23[1]).kind # "branch"
    BY <1>6, <2>1, <2>3 DEF mispredicted, Transfer
  <2> QED
    BY <2>2, <2>3
<1> QED
  BY <1>1, <1>3, <1>4, <1>5, <1>6, <1>8, ExecutedStep

(* Fetch starts anew, in a new epoch, at an instruction of the program.    *)
LEMMA RestartStep ==
    ASSUME NEW S, Starts(S), Types, Types', NEW Z, Whole(Z)',
           \A n \in 1 .. Len(Z) : Z[n].epoch # epoch',
           \A n \in 1 .. Len(isb01') : isb01'[n].epoch # epoch',
           rg_prev'.epoch # epoch',
           inflight' => /\ \A n \in 1 .. Len(Z) : Z[n].epoch[2] = wEpoch'
                        /\ \A n \in 1 .. Len(isb01') : isb01'[n].epoch[2] = wEpoch'
                        /\ rg_prev'.epoch[2] = wEpoch',
           rg_delayed_redirect' = <<>>, rg_pc' = arch', arch' \in S[text'], rg_stall' = FALSE,
           rg_fence' => ~inflight' /\ ~rg_sfence',
           rg_fence' \/ icache_text' = text',
           rg_fence' \/ rg_initialize' \/ SoundBtb(S[text'], Texts[text'], btb'),
           wr_bpu_enable' \/ \A i \in DOMAIN btb' : ~btb'[i].valid
    PROVE  Regs(S)' /\ FlowInv(S)'
<1>1. Z \in Seq(PktSet) /\ isb01' \in Seq(ReqSet)
  BY DEF Whole, Types, QueueTypes
<1>2. Len(Z) \in Nat /\ Len(isb01') \in Nat
  BY <1>1, LenProperties
<1>3. text' \in 1 .. Len(Texts)
  BY DEF Types, RegTypes
<1>4. S[text'] \subseteq Addr
  BY <1>3 DEF Starts, Disciplined
<1>5. arch' \in Addr /\ arch' # Stopped
  BY <1>4, FetchAssumption DEF Stopped, Addr
<1>6. ~Keeps(rg_action', rg_prev', epoch')
  BY DEF Keeps
<1>7. PICK A, X, t, Q, act, prev, ep, pc, z, k :
        /\ A = S[text'] /\ X = Texts[text'] /\ t = text' /\ Q = isb01' /\ act = rg_action'
        /\ prev = rg_prev' /\ ep = epoch' /\ pc = arch' /\ z = Len(Z) /\ k = Len(isb01')
  OBVIOUS
<1>8. PICK D : Flow(A, X, t, Z, Len(Z), Q, Len(Q), D, pc, <<>>, act, prev, ep, pc)
  <2>1. /\ pc \in Addr /\ Len(Z) \in Nat /\ Len(Q) \in Nat /\ ~Keeps(act, prev, ep)
        /\ \A n \in 1 .. Len(Z) : Z[n].epoch # ep
        /\ \A n \in 1 .. Len(Q) : Q[n].epoch # ep
    BY <1>2, <1>5, <1>6, <1>7
  <2> QED
    BY <2>1, FlowRestart
<1>9. Stream(S, Z, z, k, D)'
  BY <1>7, <1>8 DEF Stream
<1>10. Marks(Z, z, k)'
  BY <1>2, <1>6, <1>7 DEF Marks, Kept
<1>11. ~Ready'
  <2>1. CASE isb23' = <<>>
    BY <2>1 DEF Ready
  <2>2. CASE isb23' # <<>>
    <3>1. Z # <<>> /\ Z[1] = isb23'[1]
      BY <2>2 DEF Whole
    <3>2. 1 \in 1 .. Len(Z)
      BY <1>1, <3>1, TailFacts
    <3> QED
      BY <3>1, <3>2 DEF Ready
  <2> QED
    BY <2>1, <2>2
<1>12. Regs(S)'
  BY <1>5, <1>11 DEF Regs
<1> QED
  BY <1>9, <1>10, <1>12 DEF FlowInv

(* The prediction was wrong.                                               *)
LEMMA WrongStep ==
    ASSUME NEW S, Starts(S), ProgramInv(S), Types', rl_exe_base_control,
           NEW taken, NEW target, NEW ci, Control(taken, target, ci), Wrong(arch')
    PROVE  Regs(S)' /\ FlowInv(S)'
<1>1. PICK Z, z, k, D : Whole(Z) /\ Stream(S, Z, z, k, D) /\ Marks(Z, z, k)
  BY DEF ProgramInv, FlowInv
<1>2. Types /\ Regs(S)
  BY DEF ProgramInv
<1>3. /\ Ready /\ isb12 # <<>> /\ ~isb23[1].trap
      /\ UNCHANGED <<rg_initialize, wr_bpu_enable, isb01, rg_action, rg_prev, wEpoch,
                     icache_text, text>>
  BY DEF rl_exe_base_control, stage1
<1>4. /\ z < Len(Z)
      /\ \A n \in 1 .. Len(Z) : Z[n].epoch = epoch
      /\ \A n \in 1 .. Len(isb01) : isb01[n].epoch = epoch
  BY <1>1, <1>2, <1>3, FrontIsNext
<1>5. ~rg_fence /\ ~rg_initialize /\ rg_prev.epoch = epoch
  BY <1>1, <1>4 DEF Marks
<1>6. /\ arch' \in S[text]
      /\ SoundBtb(S[text], Texts[text], btb') /\ (wr_bpu_enable \/ btb' = btb)
  BY <1>1, <1>2, <1>3, ControlSound
<1>7. /\ eEpoch' = 1 - eEpoch /\ rg_pc' = arch' /\ rg_fence' = FALSE
      /\ rg_delayed_redirect' = <<>> /\ rg_stall' = FALSE
      /\ \/ isb23' = <<>> /\ isb12' = isb12
         \/ isb23' = <<Head(isb12)>> /\ isb12' = Tail(isb12)
  BY DEF Wrong
<1>8. epoch' # epoch /\ epoch[2] = wEpoch
  <2>1. eEpoch' # eEpoch
    BY <1>2, <1>7 DEF Types, RegTypes
  <2> QED
    BY <2>1 DEF epoch
<1>9. PICK Z2 : Z2 = isb12
  OBVIOUS
<1>10. Z2 \in Seq(PktSet) /\ \A n \in 1 .. Len(Z2) : Z2[n].epoch = epoch
  <2>1. Z2 \in Seq(PktSet)
    BY <1>2, <1>9 DEF Types, QueueTypes
  <2>2. IsTail(Z2, Z)
    BY <1>1, <1>2, <1>3, <1>9, WholeTail DEF Ready
  <2> QED
    BY <1>4, <2>1, <2>2 DEF IsTail
<1>11. Whole(Z2)'
  <2>1. CASE isb23' = <<>> /\ isb12' = isb12
    BY <1>9, <1>10, <2>1 DEF Whole
  <2>2. CASE isb23' = <<Head(isb12)>> /\ isb12' = Tail(isb12)
    <3>1. Head(Z2) = Z2[1] /\ Z2[1] \in PktSet
      BY <1>3, <1>9, <1>10, TailFacts
    <3>2. isb23' # <<>> /\ isb23'[1] = Z2[1]
      BY <1>9, <2>2, <3>1, OneElement
    <3> QED
      BY <1>3, <1>9, <1>10, <2>2, <3>2 DEF Whole
  <2> QED
    BY <1>7, <2>1, <2>2
<1>12. /\ \A n \in 1 .. Len(Z2) : Z2[n].epoch # epoch' /\ Z2[n].epoch[2] = wEpoch'
       /\ \A n \in 1 .. Len(isb01') : isb01'[n].epoch # epoch' /\ isb01'[n].epoch[2] = wEpoch'
       /\ rg_prev'.epoch # epoch' /\ rg_prev'.epoch[2] = wEpoch'
  BY <1>3, <1>4, <1>5, <1>8, <1>10
<1>13. /\ icache_text' = text' /\ SoundBtb(S[text'], Texts[text'], btb') /\ arch' \in S[text']
       /\ wr_bpu_enable' \/ \A i \in DOMAIN btb' : ~btb'[i].valid
  BY <1>2, <1>3, <1>5, <1>6 DEF Regs
<1> QED
  BY <1>2, <1>7, <1>11, <1>12, <1>13, RestartStep

LEMMA ControlStep ==
    ASSUME NEW S, Starts(S), ProgramInv(S), Types', rl_exe_base_control
    PROVE  Regs(S)' /\ FlowInv(S)'
<1>1. PICK taken, target, ci : Control(taken, target, ci)
  BY ControlCases
<1>2. \/ /\ ~mispredicted(isb23[1], target, taken)
         /\ isb23' = <<>> /\ UNCHANGED <<stage0, isb12, rg_stall, eEpoch>>
      \/ Wrong(arch')
  BY <1>1, Zenon DEF Control
<1> QED
  BY <1>1, <1>2, RightStep, WrongStep

(* Write-back redirects fetch.                                             *)
LEMMA FlushStep ==
    ASSUME NEW S, Starts(S), Toggle = FALSE, ProgramInv(S), Types', wb_flush
    PROVE  Regs(S)' /\ FlowInv(S)'
<1>1. PICK Z, z, k, D : Whole(Z) /\ Stream(S, Z, z, k, D) /\ Marks(Z, z, k)
  BY DEF ProgramInv, FlowInv
<1>2. Types /\ Regs(S)
  BY DEF ProgramInv
<1>3. PICK pc \in Entries, fl \in {"none", "fence", "sfence"} :
         /\ ma_flush(pc, fl = "fence", fl = "sfence") /\ arch' = pc
         /\ text' \in IF fl = "fence" THEN text .. Len(Texts) ELSE {text}
  BY Zenon DEF wb_flush
<1>4. /\ inflight /\ wEpoch' = 1 - wEpoch /\ rg_stall' = FALSE /\ inflight' = FALSE
      /\ wr_bpu_enable' = wr_bpu_enable
      /\ UNCHANGED <<btb, rg_initialize, isb01, rg_action, rg_prev, isb12, isb23, eEpoch,
                     icache_text>>
  BY DEF wb_flush, stage1
<1>5. /\ rg_pc' = arch' /\ rg_delayed_redirect' = <<>> /\ arch' \in Entries
      /\ rg_fence' <=> fl = "fence"
      /\ rg_sfence' <=> fl = "sfence"
  BY <1>3 DEF ma_flush
<1>6. ~rg_fence' => text' = text
  BY <1>3, <1>5
<1>7. ~rg_fence
  BY <1>2, <1>4 DEF Regs
<1>8. epoch'[2] # wEpoch
  BY <1>2, <1>4 DEF epoch, Types, RegTypes
<1>9. /\ \A n \in 1 .. Len(Z) : Z[n].epoch # epoch'
      /\ \A n \in 1 .. Len(isb01') : isb01'[n].epoch # epoch'
      /\ rg_prev'.epoch # epoch'
  BY <1>1, <1>4, <1>8 DEF Marks
<1>10. Whole(Z)'
  BY <1>1, <1>4 DEF Whole
<1>11. arch' \in S[text']
  <2>1. text' \in 1 .. Len(Texts)
    BY DEF Types, RegTypes
  <2> QED
    BY <1>5, <2>1 DEF Starts, Disciplined
<1>12. /\ rg_fence' => ~rg_sfence'
       /\ rg_fence' \/ icache_text' = text'
       /\ rg_fence' \/ rg_initialize' \/ SoundBtb(S[text'], Texts[text'], btb')
       /\ wr_bpu_enable' \/ \A i \in DOMAIN btb' : ~btb'[i].valid
  BY <1>2, <1>4, <1>5, <1>6, <1>7 DEF Regs
<1> QED
  BY <1>2, <1>4, <1>5, <1>9, <1>10, <1>11, <1>12, RestartStep

LEMMA ProgramStart ==
    ASSUME NEW S, Starts(S), Init PROVE ProgramInv(S)
<1>1. Types
  BY TypesInit
<1>2. /\ rg_pc \in Entries /\ rg_fence = FALSE /\ rg_delayed_redirect = <<>>
      /\ rg_initialize = FALSE /\ isb01 = <<>> /\ rg_action = "None" /\ isb12 = <<>>
      /\ rg_stall = FALSE /\ isb23 = <<>> /\ icache_text = 1 /\ text = 1 /\ arch = rg_pc
      /\ inflight = FALSE
  BY DEF Init
<1>3. \A i \in DOMAIN btb : ~btb[i].valid
  BY DEF Init, NoEntry
<1>4. SoundBtb(S[text], Texts[text], btb)
  BY <1>3 DEF SoundBtb, SoundEntry
<1>5. /\ Entries \subseteq S[text] /\ S[text] \subseteq Addr /\ Stopped \notin S[text]
  BY <1>1, StartsFacts
<1>6. arch \in S[text] /\ arch \in Addr /\ arch # Stopped
  BY <1>2, <1>5
<1>7. Regs(S)
  BY <1>2, <1>3, <1>4, <1>6 DEF Regs, Ready
<1>8. ~Keeps(rg_action, rg_prev, epoch)
  BY <1>2 DEF Keeps
<1>9. PICK A, X, t, Z, Q, act, prev, ep, pc :
        /\ A = S[text] /\ X = Texts[text] /\ t = text /\ Q = isb01 /\ act = rg_action
        /\ prev = rg_prev /\ ep = epoch /\ pc = arch /\ Z = isb12
  OBVIOUS
<1>10. /\ Z = <<>> /\ Q = <<>> /\ Len(Z) = 0 /\ Len(Q) = 0 /\ Z \in Seq(PktSet)
  BY <1>2, <1>9, NoElement
<1>11. PICK D : Flow(A, X, t, Z, Len(Z), Q, Len(Q), D, pc, <<>>, act, prev, ep, pc)
  <2>1. /\ pc \in Addr /\ Len(Z) \in Nat /\ Len(Q) \in Nat /\ ~Keeps(act, prev, ep)
        /\ \A n \in 1 .. Len(Z) : Z[n].epoch # ep
        /\ \A n \in 1 .. Len(Q) : Q[n].epoch # ep
    BY <1>6, <1>8, <1>9, <1>10
  <2> QED
    BY <2>1, FlowRestart
<1>12. Stream(S, Z, Len(Z), Len(Q), D)
  BY <1>2, <1>9, <1>11 DEF Stream
<1>13. Whole(Z) /\ Marks(Z, Len(Z), Len(Q))
  BY <1>2, <1>9, <1>10 DEF Whole, Marks
<1> QED
  BY <1>1, <1>7, <1>12, <1>13 DEF ProgramInv, FlowInv

LEMMA ProgramNext ==
    ASSUME NEW S, Starts(S), Toggle = FALSE, ProgramInv(S), [Next]_vars PROVE ProgramInv(S)'
<1>1. Types'
  BY TypesStep DEF ProgramInv
<1>2. CASE UNCHANGED vars
  <2>1. PICK Z, z, k, D : Whole(Z) /\ Stream(S, Z, z, k, D) /\ Marks(Z, z, k)
    BY DEF ProgramInv, FlowInv
  <2>2. UNCHANGED <<rg_pc, rg_fence, rg_sfence, rg_delayed_redirect, btb, rg_allocate,
                    rg_initialize, wr_bpu_enable, isb01, rg_action, rg_prev, isb12, rg_stall,
                    isb23, eEpoch, wEpoch, icache_text, text, arch, inflight>>
    BY <1>2 DEF vars, stage0, bpu, stage1, env
  <2>3. Whole(Z)' /\ Stream(S, Z, z, k, D)' /\ Marks(Z, z, k)'
    BY <2>1, <2>2 DEF Whole, Stream, Marks, Kept, Keeps, epoch
  <2>4. Regs(S)'
    BY <2>2 DEF ProgramInv, Regs, Ready, epoch
  <2> QED
    BY <1>1, <2>3, <2>4 DEF ProgramInv, FlowInv
<1>3. CASE Next
  <2>1. Regs(S)' /\ FlowInv(S)'
    BY <1>1, <1>3, FenceStep, SfenceStep, InitializeStep, RequestStep, DropStep, ProcessStep,
       DecodeStep, DropInstrStep, ExeOtherStep, ControlStep, FlushStep DEF Next
  <2> QED
    BY <1>1, <2>1 DEF ProgramInv
<1> QED
  BY <1>2, <1>3

(***************************************************************************)
(* The first half of an instruction is of the text software last           *)
(* synchronised too: the half stage1 keeps, if it is of the current epoch, *)
(* and that of every packet of the current epoch.                          *)
(***************************************************************************)
TextInv ==
    /\ Kept => rg_prev.text = text
    /\ \A n \in 1 .. Len(isb12) : isb12[n].epoch = epoch => isb12[n].fst = text
    /\ Ready => isb23[1].fst = text

(* A response of the current epoch is of the current text.                 *)
LEMMA ResponseText ==
    ASSUME NEW S, ProgramInv(S), isb01 # <<>>, Head(isb01).epoch = epoch
    PROVE  Head(isb01).text = text
<1>1. PICK Z, z, k, D : Stream(S, Z, z, k, D)
  BY DEF ProgramInv, FlowInv
<1>2. Head(isb01) = isb01[1] /\ Len(isb01) \in Nat \ {0}
  BY TailFacts DEF ProgramInv, Types, QueueTypes
<1>3. /\ Split(isb01, k, epoch)
      /\ Feed(S[text], Texts[text], text, isb01, k, D, rg_pc, rg_delayed_redirect)
  BY <1>1 DEF Stream, Flow
<1>4. k < 1 /\ 1 \in 1 .. Len(isb01)
  BY <1>2, <1>3 DEF Split
<1>5. SoundReq(S[text], Texts[text], text, isb01[1])
  BY <1>3, <1>4 DEF Feed
<1> QED
  BY <1>2, <1>5 DEF SoundReq

LEMMA ProcessText ==
    ASSUME NEW S, ProgramInv(S), TextInv, process_instruction PROVE TextInv'
<1>1. /\ isb01 # <<>> /\ Head(isb01).epoch = epoch
      /\ isb23' = isb23 /\ text' = text /\ epoch' = epoch
  BY DEF process_instruction, env, epoch
<1>2. PICK q : q = Head(isb01)
  OBVIOUS
<1>3. q.text = text
  BY <1>1, <1>2, ResponseText
<1>4. PICK p : Process(q, p)
  BY <1>2, ProcessCases
<1>5. \/ rg_prev' = Prev(q)
      \/ rg_action' = "None"
  BY <1>4 DEF Process
<1>6. (Kept => rg_prev.text = text)'
  BY <1>1, <1>3, <1>5 DEF Kept, Keeps, Prev
<1>7. isb12' = isb12 \/ (p.fst = text /\ isb12' = Append(isb12, p))
  <2>1. Kept => rg_prev.text = text
    BY DEF TextInv
  <2>2. \A fst, pc, wide, snd, trap, b : Packet(fst, q, pc, wide, snd, trap, b).fst = fst
    BY DEF Packet
  <2>3. \/ isb12' = isb12
        \/ p.fst = rg_prev.text /\ Kept /\ isb12' = Append(isb12, p)
        \/ p.fst = q.text /\ isb12' = Append(isb12, p)
    <3>1. \/ isb12' = isb12
          \/ /\ \E pc, wide, snd, trap, b : p = Packet(rg_prev.text, q, pc, wide, snd, trap, b)
             /\ Kept /\ isb12' = Append(isb12, p)
          \/ /\ \E pc, wide, snd, trap, b : p = Packet(q.text, q, pc, wide, snd, trap, b)
             /\ isb12' = Append(isb12, p)
      BY <1>4, Zenon DEF Process
    <3> QED
      BY <2>2, <3>1
  <2> QED
    BY <1>3, <2>1, <2>3
<1>8. isb12 \in Seq(PktSet) /\ isb12' \in Seq(PktSet)
  BY ProcessTypes DEF ProgramInv, Types, QueueTypes
<1>9. (\A n \in 1 .. Len(isb12) : isb12[n].epoch = epoch => isb12[n].fst = text)'
  <2>1. CASE isb12' = isb12
    BY <1>1, <2>1 DEF TextInv
  <2>2. CASE p.fst = text /\ isb12' = Append(isb12, p)
    <3>1. /\ Len(isb12) \in Nat /\ Len(isb12') = Len(isb12) + 1
          /\ \A n \in 1 .. Len(isb12) : isb12'[n] = isb12[n]
          /\ isb12'[Len(isb12) + 1] = p
      BY <1>8, <2>2, AppendProperties, LenProperties
    <3> QED
      BY <1>1, <2>2, <3>1 DEF TextInv
  <2> QED
    BY <1>7, <2>1, <2>2
<1>10. (Ready => isb23[1].fst = text)'
  BY <1>1 DEF TextInv, Ready
<1> QED
  BY <1>6, <1>9, <1>10 DEF TextInv

LEMMA DecodeText ==
    ASSUME Types, TextInv, decode PROVE TextInv'
<1>1. /\ isb12 # <<>> /\ isb12 \in Seq(PktSet) /\ isb12' = Tail(isb12)
      /\ isb23' = <<Head(isb12)>> \/ isb23' = isb23
      /\ UNCHANGED <<rg_action, rg_prev, text, epoch>>
  BY DEF decode, Types, QueueTypes, stage1, env, epoch
<1>2. /\ Len(isb12) \in Nat \ {0} /\ Len(isb12') = Len(isb12) - 1
      /\ \A n \in 1 .. (Len(isb12) - 1) : isb12'[n] = isb12[n + 1]
      /\ Head(isb12) = isb12[1] /\ isb12[1] \in PktSet
  BY <1>1, TailFacts
<1>3. (Kept => rg_prev.text = text)'
  BY <1>1 DEF TextInv, Kept
<1>4. (\A n \in 1 .. Len(isb12) : isb12[n].epoch = epoch => isb12[n].fst = text)'
  BY <1>1, <1>2 DEF TextInv
<1>5. (Ready => isb23[1].fst = text)'
  <2>1. CASE isb23' = <<Head(isb12)>>
    <3>1. isb23'[1] = isb12[1] /\ 1 \in 1 .. Len(isb12)
      BY <1>2, <2>1, OneElement
    <3> QED
      BY <1>1, <3>1 DEF TextInv, Ready
  <2>2. CASE isb23' = isb23
    BY <1>1, <2>2 DEF TextInv, Ready
  <2> QED
    BY <1>1, <2>1, <2>2
<1> QED
  BY <1>3, <1>4, <1>5 DEF TextInv

(* Nothing that stage1 and stage2 hold is of the epoch that a redirect     *)
(* begins.                                                                 *)
LEMMA RestartText ==
    ASSUME NEW Z, Whole(Z)', \A n \in 1 .. Len(Z) : Z[n].epoch # epoch', rg_prev'.epoch # epoch'
    PROVE  TextInv'
<1>1. ~Kept'
  BY DEF Kept, Keeps
<1>2. /\ \A n \in 1 .. Len(isb12') : isb12'[n].epoch # epoch'
      /\ isb23' # <<>> => isb23'[1].epoch # epoch'
  <2>1. CASE isb23' = <<>>
    BY <2>1 DEF Whole
  <2>2. CASE isb23' # <<>>
    <3>1. Z \in Seq(PktSet) /\ Z # <<>> /\ Z[1] = isb23'[1] /\ isb12' = Tail(Z)
      BY <2>2 DEF Whole
    <3>2. /\ Len(Z) \in Nat \ {0} /\ Len(isb12') = Len(Z) - 1
          /\ \A n \in 1 .. (Len(Z) - 1) : isb12'[n] = Z[n + 1]
      BY <3>1, TailFacts
    <3> QED
      BY <3>1, <3>2
  <2> QED
    BY <2>1, <2>2
<1> QED
  BY <1>1, <1>2 DEF TextInv, Ready

LEMMA WrongText ==
    ASSUME NEW S, Starts(S), ProgramInv(S), rl_exe_base_control, Wrong(arch')
    PROVE  TextInv'
<1>1. PICK Z, z, k, D : Whole(Z) /\ Stream(S, Z, z, k, D) /\ Marks(Z, z, k)
  BY DEF ProgramInv, FlowInv
<1>2. Types /\ Regs(S) /\ Ready /\ isb12 # <<>> /\ rg_prev' = rg_prev
  BY DEF ProgramInv, rl_exe_base_control, stage1
<1>3. z < Len(Z) /\ \A n \in 1 .. Len(Z) : Z[n].epoch = epoch
  BY <1>1, <1>2, FrontIsNext
<1>4. rg_prev.epoch = epoch
  BY <1>1, <1>3 DEF Marks
<1>5. epoch' # epoch
  <2>1. eEpoch' # eEpoch
    BY <1>2 DEF Wrong, Types, RegTypes
  <2> QED
    BY <2>1 DEF epoch
<1>6. PICK Z2 : Z2 = isb12
  OBVIOUS
<1>7. Z2 \in Seq(PktSet) /\ \A n \in 1 .. Len(Z2) : Z2[n].epoch = epoch
  <2>1. Z2 \in Seq(PktSet)
    BY <1>2, <1>6 DEF Types, QueueTypes
  <2>2. IsTail(Z2, Z)
    BY <1>1, <1>2, <1>6, WholeTail DEF Ready
  <2> QED
    BY <1>3, <2>1, <2>2 DEF IsTail
<1>8. Whole(Z2)'
  <2>1. CASE isb23' = <<>> /\ isb12' = isb12
    BY <1>6, <1>7, <2>1 DEF Whole
  <2>2. CASE isb23' = <<Head(isb12)>> /\ isb12' = Tail(isb12)
    <3>1. Head(Z2) = Z2[1] /\ Z2[1] \in PktSet
      BY <1>2, <1>6, <1>7, TailFacts
    <3>2. isb23' # <<>> /\ isb23'[1] = Z2[1]
      BY <1>6, <2>2, <3>1, OneElement
    <3> QED
      BY <1>2, <1>6, <1>7, <2>2, <3>2 DEF Whole
  <2> QED
    BY <2>1, <2>2 DEF Wrong
<1> QED
  BY <1>2, <1>4, <1>5, <1>7, <1>8, RestartText

LEMMA FlushText ==
    ASSUME NEW S, ProgramInv(S), wb_flush PROVE TextInv'
<1>1. PICK Z, z, k, D : Whole(Z) /\ Stream(S, Z, z, k, D) /\ Marks(Z, z, k)
  BY DEF ProgramInv, FlowInv
<1>2. /\ inflight /\ wEpoch' = 1 - wEpoch
      /\ UNCHANGED <<rg_prev, isb12, isb23>>
  BY DEF wb_flush, stage1
<1>3. epoch'[2] # wEpoch
  BY <1>2 DEF epoch, ProgramInv, Types, RegTypes
<1>4. /\ \A n \in 1 .. Len(Z) : Z[n].epoch # epoch'
      /\ rg_prev'.epoch # epoch'
  BY <1>1, <1>2, <1>3 DEF Marks
<1>5. Whole(Z)'
  BY <1>1, <1>2 DEF Whole
<1> QED
  BY <1>4, <1>5, RestartText

LEMMA TextNext ==
    ASSUME NEW S, Starts(S), ProgramInv(S), TextInv, [Next]_vars PROVE TextInv'
<1>1. CASE gen_next_pc \/ gen_fence \/ gen_sfence \/ rl_initialize \/ UNCHANGED vars
  <2>1. UNCHANGED <<rg_action, rg_prev, isb12, isb23, eEpoch, wEpoch, text>>
    BY <1>1 DEF gen_next_pc, gen_fence, gen_sfence, rl_initialize, vars, stage1, env
  <2> QED
    BY <2>1 DEF TextInv, Kept, Ready, epoch
<1>2. CASE drop_response
  <2>1. rg_action' = "None" /\ UNCHANGED <<isb12, isb23, eEpoch, wEpoch, text>>
    BY <1>2 DEF drop_response, env
  <2> QED
    BY <2>1 DEF TextInv, Kept, Keeps, Ready, epoch
<1>3. CASE rl_drop_instr \/ exe_other
  <2>1. isb23' = <<>> /\ UNCHANGED <<rg_action, rg_prev, isb12, eEpoch, wEpoch, text>>
    BY <1>3 DEF rl_drop_instr, exe_other, stage1, env
  <2> QED
    BY <2>1 DEF TextInv, Kept, Ready, epoch
<1>4. CASE rl_exe_base_control
  <2>1. PICK taken, target, ci : Control(taken, target, ci)
    BY <1>4, ControlCases
  <2>2. CASE isb23' = <<>> /\ UNCHANGED <<stage0, isb12, rg_stall, eEpoch>>
    <3>1. UNCHANGED <<rg_action, rg_prev, isb12, eEpoch, wEpoch, text>>
      BY <1>4, <2>2 DEF rl_exe_base_control, stage1
    <3> QED
      BY <2>2, <3>1 DEF TextInv, Kept, Ready, epoch
  <2>3. CASE Wrong(arch')
    BY <1>4, <2>3, WrongText
  <2> QED
    BY <2>1, <2>2, <2>3, Zenon DEF Control
<1> QED
  BY <1>1, <1>2, <1>3, <1>4, ProcessText, DecodeText, FlushText DEF Next, ProgramInv

(* Whatever the predictor says and whenever it is trained, evicted or      *)
(* flushed, stage3 executes the program, instruction by instruction, each  *)
(* put together from its own halves of the text software last              *)
(* synchronised (stage0.bsv, stage1.bsv, gshare_fa.bsv, stage3.bsv): for   *)
(* every text, every depth of the target buffer and of the pipeline        *)
(* buffers and every set of faulting words and of predicted return addresses.  It takes what software must   *)
(* keep to, Starts, and a predictor that is not switched while it runs.    *)
THEOREM ExecutesProgram ==
    ASSUME NEW S \in [1 .. Len(Texts) -> SUBSET Addr], Starts(S), Toggle = FALSE
    PROVE  Spec => []FollowsProgram
<1>1. Init => ProgramInv(S) /\ TextInv
  <2> SUFFICES ASSUME Init PROVE ProgramInv(S) /\ TextInv
    OBVIOUS
  <2>1. rg_action = "None" /\ isb12 = <<>> /\ isb23 = <<>>
    BY DEF Init
  <2> QED
    BY <2>1, ProgramStart, NoElement DEF TextInv, Kept, Keeps, Ready
<1>2. ProgramInv(S) /\ TextInv /\ [Next]_vars => ProgramInv(S)' /\ TextInv'
  BY ProgramNext, TextNext
<1>3. ProgramInv(S) /\ TextInv => FollowsProgram
  <2> SUFFICES ASSUME ProgramInv(S), TextInv, Ready PROVE FollowsProgram
    BY DEF FollowsProgram
  <2>1. PICK Z, z, k, D : Whole(Z) /\ Stream(S, Z, z, k, D) /\ Marks(Z, z, k)
    BY DEF ProgramInv, FlowInv
  <2>2. isb23[1].pc = arch /\ Valid(Texts[text], text, isb23[1]) /\ isb23[1].fst = text
    BY <2>1, FrontIsNext DEF ProgramInv, TextInv
  <2> QED
    BY <2>2 DEF FollowsProgram, Valid, Decoded
<1> QED
  BY <1>1, <1>2, <1>3, PTL DEF Spec
=============================================================================
