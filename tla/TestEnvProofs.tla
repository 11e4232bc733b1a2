---------------------------- MODULE TestEnvProofs ----------------------------
(***************************************************************************)
(* Theorems about the virtual-memory test environment.                     *)
(*                                                                         *)
(* The supervisor (vm.c): for every width of the LFSR at which its period  *)
(* is MAX_TEST_PAGES, as riscv_test.h demands of it, and for every set of  *)
(* page contents and exit codes.  MAX_TEST_PAGES itself stays opaque.      *)
(*                                                                         *)
(* The string library it is linked with (string.c): for every width of the *)
(* byte, every memory and word sizes of 2, 4 and 8 bytes.                  *)
(***************************************************************************)
EXTENDS MCTestEnv, Lemmas, FiniteSetTheorems

(* What TLC checks as LfsrPeriod, at the width W. *)
Period ==
  /\ MAX_TEST_PAGES \in Nat \ {0, 1}
  /\ \A start \in 1 .. MAX_TEST_PAGES :
       {Random(W, start)[n] : n \in 0 .. MAX_TEST_PAGES - 1} = 1 .. MAX_TEST_PAGES

(***************************************************************************)
(* The inductive invariant                                                 *)
(***************************************************************************)
Addr(p) == node[UM(p)].addr                             \* page p's frame, 0 if it is out
Faulting == pc \in {"access", "fault", "map", "copy", "flush"}
Live == Running \/ pc = "evict"

(* What the hart is doing fits what the test asked for. *)
ControlInv ==
  /\ op \in [kind : {"none", "fetch", "load", "store", "ecall"},
             page : 0 .. MAX_TEST_PAGES, val : Vals \cup Codes]
  /\ obs \in Vals
  /\ pc = "user" => op = Idle
  /\ op.kind = "ecall" => op.val \in Codes /\ pc \in {"evict", "send", "spin", "nested"}
  /\ Faulting => op.kind \in {"fetch", "load", "store"} /\ op.val \in Vals
  /\ pc \in {"map", "copy", "flush"} => op.page \in Pages
  /\ pc = "evict" => op.kind = "ecall" /\ i \in Pages
  /\ pc = "map" => i \in FreeNodes

(* The nodes of the freelist name every frame once, and are taken in order. *)
ListInv ==
  /\ \A n \in FreeNodes : node[n].addr \in Frames
  /\ \A u, n \in FreeNodes : node[u].addr = node[n].addr => u = n
  /\ \A f \in Frames : \E n \in FreeNodes : node[n].addr = f
  /\ Running => /\ head \in {Null} \cup FreeNodes
                /\ \A n \in FreeNodes :
                     node[n].next = IF n = MAX_TEST_PAGES THEN Null ELSE n + 1

(* The nodes before head: their frames are exactly those of the pages that *)
(* are in, and of the node just popped.                                    *)
Taken(n) == head = Null \/ n < head
OwnerInv ==
  /\ \A p, q \in Pages : Addr(p) # 0 /\ Addr(p) = Addr(q) => p = q
  /\ Running =>
       /\ \A p \in Pages, n \in FreeNodes :
            Addr(p) = node[n].addr => Taken(n) /\ ~(pc = "map" /\ n = i)
       /\ \A n \in FreeNodes : Taken(n) => \/ \E p \in Pages : Addr(p) = node[n].addr
                                           \/ pc = "map" /\ n = i
       /\ pc = "map" => Taken(i)

(* The leaf entries, and what the hart may remember of them. *)
EntryInv ==
  /\ \A p \in Pages : pt[p] = Zero \/ pt[p].ppn \in Frames
  /\ Running =>
       \A p \in Pages :
         IF pc = "map" /\ op.page = p
           THEN pt[p] = [ppn |-> node[i].addr, a |-> TRUE, d |-> TRUE] /\ Addr(p) = 0
           ELSE pt[p].ppn = Addr(p)
  /\ pc = "evict" => \A p \in Pages : Addr(p) # 0 => pt[p].ppn = Addr(p)
  /\ pc = "copy" => Writable(pt[op.page])
  /\ \A p \in Pages : \/ tlb[p] \subseteq {pt[p]}
                      \/ pc \in {"map", "flush"} /\ op.page = p

(* Why the assertions hold: a fault is one the entry explains; a page that *)
(* is in and not being handled was accessed; one that differs is dirty.    *)
DirtyInv ==
  /\ pc = "fault" /\ op.page \in Pages => ~Allowed(pt[op.page])
  /\ Live => \A p \in Pages : Addr(p) # 0 =>
       /\ pt[p].a \/ (Faulting /\ op.page = p)
       /\ mem[Addr(p)] # mem[p] => pt[p].d \/ (pc = "copy" /\ op.page = p)

(* What is still to be sent, what was sent, what the host has read. *)
HostInv ==
  /\ out \in Seq(Int \ {0}) /\ sent \in Seq(Int) /\ log \in Seq(Int) /\ tohost \in Int
  /\ pc = "send" => out # << >>
  /\ pc \notin {"send", "spin"} => out = << >> /\ sent = << >>
  /\ pc \in {"send", "spin"} /\ op.kind # "ecall" => op.page \notin Pages
  /\ pc = "send" /\ op.kind = "ecall" => sent = << >> /\ out = <<op.val>>
  /\ pc = "spin" /\ op.kind = "ecall" => sent = <<op.val>> /\ out = << >>
  /\ HostSeesAll

IInv == TypeOK /\ ControlInv /\ ListInv /\ OwnerInv /\ EntryInv /\ DirtyInv /\ HostInv
        /\ NoNestedFault

(* There are at least two frames: one page, and one frame more. *)
LEMMA Sizes ==
  ASSUME Period
  PROVE  MAX_TEST_PAGES \in Nat \ {0, 1}
  BY DEF Period

(* After a node of the freelist comes the next one, or the end. *)
LEMMA NextNode ==
  ASSUME Period, NEW n \in FreeNodes
  PROVE  (IF n = MAX_TEST_PAGES THEN Null ELSE n + 1) \in {Null} \cup FreeNodes
  BY Sizes DEF FreeNodes

(***************************************************************************)
(* Pages, frames and nodes do not overlap.                                 *)
(***************************************************************************)
LEMMA Layout ==
  ASSUME Period
  PROVE  /\ \A p \in Pages : UM(p) \in Nodes /\ UM(p) \notin FreeNodes
         /\ \A p, q \in Pages : UM(p) = UM(q) => p = q
         /\ FreeNodes \subseteq Nodes /\ Null \notin Nodes /\ 0 \notin Pages
         /\ 0 \notin Frames /\ Pages \cap Frames = {}
         /\ Pages \subseteq Phys /\ Frames \subseteq Phys /\ Pages \subseteq 0 .. MAX_TEST_PAGES
  BY Sizes DEF Pages, Frames, Phys, FreeNodes, Nodes, UM, Null

(* Of an entry the hart can only have seen the one in memory. *)
LEMMA SeenNow ==
  ASSUME EntryInv, NEW p \in Pages, pc \notin {"map", "flush"} \/ op.page # p
  PROVE  Seen(p) = {pt[p]}
  BY DEF EntryInv, Seen

(***************************************************************************)
(* What the steps of the handler do when the invariant holds: none of them *)
(* fails an assertion or faults.                                           *)
(***************************************************************************)
Others == UNCHANGED <<op, obs, out, tohost, sent, log>>

(* Either bit: the page is not touched, only its entry's bits. *)
SetBit == /\ pc = "fault" /\ op.page \in Pages /\ pt[op.page].ppn \in Frames
          /\ \E e \in PTE : /\ pt' = [pt EXCEPT ![op.page] = e]
                            /\ e.ppn = pt[op.page].ppn
                            /\ e.a /\ (pt[op.page].d => e.d)
          /\ pc' = "flush" /\ UNCHANGED <<mem, tlb, node, head, tail, i>> /\ Others

LEMMA BitIsSet ==
  ASSUME Period, IInv, set_accessed \/ set_dirty
  PROVE  SetBit
  <1>1. pt \in [Pages -> PTE]
    BY DEF IInv, TypeOK
  <1>2. op.page \in Pages /\ pt[op.page].ppn \in Frames /\ pc = "fault"
    BY DEF IInv, EntryInv, set_accessed, set_dirty
  <1>3. pt[op.page] \in PTE
    BY <1>1, <1>2
  <1>4. CASE set_accessed
    <2> DEFINE e == [pt[op.page] EXCEPT !.a = TRUE]
    <2>1. e \in PTE /\ e.ppn = pt[op.page].ppn /\ e.a /\ (pt[op.page].d => e.d)
      BY <1>3 DEF PTE
    <2>2. pt' = [pt EXCEPT ![op.page] = e]
      BY <1>1, <1>2, <1>4 DEF set_accessed
    <2>3. QED
      BY <1>2, <1>4, <2>1, <2>2 DEF set_accessed, SetBit, Rest, Others
  <1>5. CASE set_dirty
    <2> DEFINE e == [pt[op.page] EXCEPT !.d = TRUE]
    <2>1. ~pt[op.page].d /\ op.kind = "store"
      <3>1. ~Allowed(pt[op.page])
        BY <1>2 DEF IInv, DirtyInv
      <3>2. pt[op.page].a /\ pt[op.page].ppn # 0
        BY <1>2, <1>5, Layout DEF set_dirty
      <3>3. QED
        BY <3>1, <3>2 DEF Allowed, Readable, Writable
    <2>2. e \in PTE /\ e.ppn = pt[op.page].ppn /\ e.a /\ (pt[op.page].d => e.d)
      BY <1>3, <1>5 DEF PTE, set_dirty
    <2>3. pt' = [pt EXCEPT ![op.page] = e]
      BY <1>1, <1>2, <1>5, <2>1 DEF set_dirty
    <2>4. QED
      BY <1>2, <1>5, <2>1, <2>2, <2>3 DEF set_dirty, SetBit, Rest, Others
  <1>6. QED
    BY <1>4, <1>5

(* A node is on the list whenever a page is out: there is one frame more   *)
(* than pages.                                                             *)
LEMMA FrameFree ==
  ASSUME Period, IInv, pc = "fault"
  PROVE  head \in FreeNodes
  <1> SUFFICES ASSUME head = Null
               PROVE  FALSE
    BY DEF IInv, ListInv, Running
  <1>1. \A n \in FreeNodes : \E p \in Pages : Addr(p) = node[n].addr
    BY DEF IInv, OwnerInv, Running, Taken
  <1> DEFINE f == [n \in FreeNodes |-> CHOOSE p \in Pages : Addr(p) = node[n].addr]
  <1>2. f \in [FreeNodes -> Pages] /\ \A n \in FreeNodes : Addr(f[n]) = node[n].addr
    BY <1>1
  <1>3. IsFiniteSet(FreeNodes) /\ Cardinality(FreeNodes) = MAX_TEST_PAGES
    BY FS_Interval, Sizes DEF FreeNodes
  <1>4. IsFiniteSet(Pages) /\ Cardinality(Pages) = MAX_TEST_PAGES - 1
    <2>1. MAX_TEST_PAGES - 1 \in Int /\ ~(1 > MAX_TEST_PAGES - 1)
      BY Sizes
    <2>2. /\ IsFiniteSet(1 .. MAX_TEST_PAGES - 1)
          /\ Cardinality(1 .. MAX_TEST_PAGES - 1) = (MAX_TEST_PAGES - 1) - 1 + 1
      BY <2>1, FS_Interval
    <2>3. QED
      BY <2>2, Sizes DEF Pages
  <1>5. \E u, n \in FreeNodes : u # n /\ f[u] = f[n]
    <2>1. Cardinality(Pages) < Cardinality(FreeNodes)
      BY <1>3, <1>4, Sizes
    <2> HIDE DEF f
    <2>2. QED
      BY <1>2, <1>3, <1>4, <2>1, FS_PigeonHole
  <1>6. QED
    BY <1>2, <1>5 DEF IInv, ListInv

PageIn == /\ pc = "fault" /\ op.page \in Pages /\ pt[op.page] = Zero /\ Addr(op.page) = 0
          /\ head \in FreeNodes
          /\ head' = IF head = MAX_TEST_PAGES THEN Null ELSE head + 1
          /\ tail' \in {Null} \cup Nodes
          /\ pt' = [pt EXCEPT ![op.page] = [ppn |-> node[head].addr, a |-> TRUE, d |-> TRUE]]
          /\ i' = head /\ pc' = "map" /\ UNCHANGED <<mem, tlb, node>> /\ Others

LEMMA PageComesIn ==
  ASSUME Period, IInv, page_in
  PROVE  PageIn
  <1>1. pc = "fault" /\ op.page \in Pages /\ pt[op.page] = Zero
    BY DEF page_in
  <1>2. head \in FreeNodes /\ head # Null
    BY <1>1, FrameFree, Layout
  <1>3. Addr(op.page) = 0
    BY <1>1 DEF IInv, EntryInv, Running, Zero
  <1>4. head' = IF head = MAX_TEST_PAGES THEN Null ELSE head + 1
    BY <1>1, <1>2 DEF IInv, ListInv, Running, page_in
  <1>5. QED
    BY <1>1, <1>2, <1>3, <1>4 DEF page_in, PageIn, IInv, TypeOK, Rest, Others

MapPage == /\ pc = "map" /\ op.page \in Pages /\ i \in FreeNodes /\ Addr(op.page) = 0
           /\ tlb' = [tlb EXCEPT ![op.page] = {}]
           /\ node' = [node EXCEPT ![UM(op.page)] = node[i]]
           /\ pc' = "copy" /\ UNCHANGED <<mem, pt, head, tail, i>> /\ Others

LEMMA PageIsMapped ==
  ASSUME Period, IInv, map_page
  PROVE  MapPage
  <1>1. pc = "map" /\ op.page \in Pages /\ i \in FreeNodes
    BY DEF map_page, IInv, ControlInv
  <1>2. Addr(op.page) = 0
    BY <1>1 DEF IInv, EntryInv, Running
  <1>3. QED
    BY <1>1, <1>2 DEF map_page, MapPage, Addr, flush_page, Rest, Others

CopyIn == /\ pc = "copy" /\ op.page \in Pages /\ Addr(op.page) \in Frames
          /\ mem' = [mem EXCEPT ![Addr(op.page)] = mem[op.page]]
          /\ pt' = [pt EXCEPT ![op.page] = [ppn |-> Addr(op.page), a |-> FALSE, d |-> FALSE]]
          /\ i' = 0 /\ pc' = "flush" /\ UNCHANGED <<tlb, node, head, tail>> /\ Others

LEMMA ImageIsCopied ==
  ASSUME Period, IInv, copy_in
  PROVE  CopyIn
  <1>1. pc = "copy" /\ op.page \in Pages
    BY DEF copy_in, IInv, ControlInv
  <1>2. Writable(pt[op.page]) /\ pt[op.page].ppn = Addr(op.page)
    BY <1>1 DEF IInv, EntryInv, Running
  <1>3. Addr(op.page) \in Frames
    BY <1>1, <1>2 DEF IInv, EntryInv, Writable, Readable, Zero
  <1>4. Seen(op.page) = {pt[op.page]}
    BY <1>1, SeenNow DEF IInv
  <1>5. QED
    BY <1>1, <1>2, <1>3, <1>4 DEF copy_in, CopyIn, Addr, Rest, Others

Evict == /\ pc = "evict" /\ i \in Pages /\ Addr(i) \in Frames
         /\ mem' = [mem EXCEPT ![Addr(i)] = mem[i]]
         /\ append_node(UM(i)) /\ next_page
         /\ UNCHANGED <<pt, tlb, op, obs, tohost, sent, log>>

LEMMA PageIsEvicted ==
  ASSUME Period, IInv, evict
  PROVE  Evict
  <1>1. pc = "evict" /\ i \in Pages /\ Addr(i) # 0 /\ op.kind = "ecall"
    BY DEF evict, IInv, ControlInv, Addr
  <1>2. pt[i].ppn = Addr(i) /\ pt[i].ppn \in Frames /\ pt[i].ppn # 0
    BY <1>1 DEF IInv, EntryInv, Zero
  <1>3. pt[i].a /\ (mem[Addr(i)] # mem[i] => pt[i].d)
    BY <1>1 DEF IInv, DirtyInv, Live, Faulting
  <1>4. Seen(i) = {pt[i]}
    BY <1>1, SeenNow DEF IInv
  <1>5. QED
    BY <1>1, <1>2, <1>3, <1>4 DEF evict, Evict, Readable, Writable

(* The test's own access, and its fault, go by the entry in memory. *)
Access == /\ pc = "access" /\ op.page \in Pages /\ Allowed(pt[op.page])
          /\ Addr(op.page) \in Frames /\ pt[op.page].ppn = Addr(op.page)
          /\ IF op.kind = "store"
               THEN mem' = [mem EXCEPT ![Addr(op.page)] = op.val] /\ obs' = obs
               ELSE obs' = mem[Addr(op.page)] /\ mem' = mem
          /\ pc' = "user" /\ op' = Idle
          /\ UNCHANGED <<pt, tlb, node, head, tail, i, out, tohost, sent, log>>

LEMMA AccessGoesByTable ==
  ASSUME Period, IInv, UserAccess
  PROVE  Access
  <1>1. pc = "access" /\ op.page \in Pages
    BY DEF UserAccess
  <1>2. Seen(op.page) = {pt[op.page]}
    BY <1>1, SeenNow DEF IInv
  <1>3. Allowed(pt[op.page])
    BY <1>2 DEF UserAccess
  <1>4. pt[op.page].ppn = Addr(op.page)
    BY <1>1 DEF IInv, EntryInv, Running
  <1>5. Addr(op.page) \in Frames
    BY <1>1, <1>3, <1>4 DEF IInv, EntryInv, Allowed, Writable, Readable, Zero
  <1>6. QED
    BY <1>1, <1>2, <1>3, <1>4, <1>5 DEF UserAccess, Access

Fault == /\ pc = "access" /\ (op.page \in Pages => ~Allowed(pt[op.page]))
         /\ pc' = "fault" /\ UNCHANGED <<store, op, obs, i, out, tohost, sent, log>>

LEMMA FaultGoesByTable ==
  ASSUME Period, IInv, PageFault
  PROVE  Fault
  <1>1. pc = "access"
    BY DEF PageFault
  <1>2. op.page \in Pages => Seen(op.page) = {pt[op.page]}
    BY <1>1, SeenNow DEF IInv
  <1>3. QED
    BY <1>1, <1>2 DEF PageFault, Fault

OutOfRange == /\ pc = "fault" /\ op.page \notin Pages /\ assert_fails

(* Adding zero leaves the memory as it is. *)
LEMMA TortureChangesNothing ==
  ASSUME Period, IInv, coherence_torture
  PROVE  UNCHANGED vars
  <1>1. PICK q \in Phys : mem' = [mem EXCEPT ![q] = @ + 0]
    BY DEF coherence_torture
  <1>2. mem \in [Phys -> Vals] /\ mem[q] \in Nat
    BY VmAssumption DEF IInv, TypeOK
  <1>3. mem' = mem
    BY <1>1, <1>2
  <1>4. QED
    BY <1>3 DEF coherence_torture, vars, store

Step == \/ UserStart \/ Access \/ Fault \/ Ecall \/ OtherTrap \/ OutOfRange
        \/ SetBit \/ PageIn \/ MapPage \/ CopyIn \/ flush_and_return
        \/ evict_absent \/ Evict \/ do_tohost \/ Walk \/ Host \/ UNCHANGED vars

LEMMA NextIsStep ==
  ASSUME Period, IInv, [Next]_vars
  PROVE  Step
  <1>1. CASE UserAccess
    BY <1>1, AccessGoesByTable DEF Step
  <1>2. CASE PageFault
    BY <1>2, FaultGoesByTable DEF Step
  <1>3. CASE fault_out_of_range
    BY <1>3 DEF fault_out_of_range, OutOfRange, Step
  <1>4. CASE set_accessed \/ set_dirty
    BY <1>4, BitIsSet DEF Step
  <1>5. CASE page_in
    BY <1>5, PageComesIn DEF Step
  <1>6. CASE map_page
    BY <1>6, PageIsMapped DEF Step
  <1>7. CASE copy_in
    BY <1>7, ImageIsCopied DEF Step
  <1>8. CASE evict
    BY <1>8, PageIsEvicted DEF Step
  <1>9. CASE coherence_torture
    BY <1>9, TortureChangesNothing DEF Step
  <1>10. CASE Spin
    BY <1>10 DEF Spin, Step
  <1>11. QED
    BY <1>1, <1>2, <1>3, <1>4, <1>5, <1>6, <1>7, <1>8, <1>9, <1>10
       DEF Next, User, Kernel, Step

(* A sequence that visits every frame visits none twice. *)
LEMMA VisitsEachOnce ==
  ASSUME Period, NEW start \in 1 .. MAX_TEST_PAGES
  PROVE  LET r == Random(W, start)
         IN  /\ MAX_TEST_PAGES \in Nat \ {0, 1}
             /\ \A n \in 0 .. MAX_TEST_PAGES - 1 : r[n] \in 1 .. MAX_TEST_PAGES
             /\ \A u, n \in 0 .. MAX_TEST_PAGES - 1 : r[u] = r[n] => u = n
             /\ \A f \in 1 .. MAX_TEST_PAGES : \E n \in 0 .. MAX_TEST_PAGES - 1 : r[n] = f
  <1> DEFINE S == 0 .. MAX_TEST_PAGES - 1
             T == 1 .. MAX_TEST_PAGES
             g == [n \in S |-> Random(W, start)[n]]
  <1>1. \A n \in S : g[n] = Random(W, start)[n]
    OBVIOUS
  <1>2. MAX_TEST_PAGES \in Nat \ {0, 1} /\ {g[n] : n \in S} = T
    BY DEF Period
  <1> HIDE DEF g
  <1>3. IsFiniteSet(S) /\ IsFiniteSet(T) /\ Cardinality(S) = Cardinality(T)
    <2>1. PICK N \in Nat : N = MAX_TEST_PAGES
      BY <1>2
    <2>2. IsFiniteSet(S) /\ Cardinality(S) = N
      <3>1. /\ IsFiniteSet(0 .. N - 1)
            /\ Cardinality(0 .. N - 1) = IF 0 > N - 1 THEN 0 ELSE (N - 1) - 0 + 1
        BY FS_Interval
      <3> QED
        BY <2>1, <3>1
    <2>3. IsFiniteSet(T) /\ Cardinality(T) = N
      <3>1. IsFiniteSet(1 .. N) /\ Cardinality(1 .. N) = IF 1 > N THEN 0 ELSE N - 1 + 1
        BY FS_Interval
      <3> QED
        BY <2>1, <3>1
    <2>4. QED
      BY <2>2, <2>3
  <1> HIDE DEF S, T
  <1>4. g \in Surjection(S, T)
    BY <1>2 DEF Surjection, g
  <1>5. g \in Injection(S, T)
    BY <1>3, <1>4, FS_SurjSameCardinalityImpliesInj, Zenon
  <1>6. \A u, n \in S : g[u] = g[n] => u = n
    BY <1>5 DEF Injection, IsInjective
  <1>7. QED
    BY <1>1, <1>2, <1>6 DEF S, T

(***************************************************************************)
(* The invariant holds initially.                                          *)
(***************************************************************************)
LEMMA InitInv ==
  ASSUME Period, Init
  PROVE  IInv
  <1>1. PICK start \in 1 .. MAX_TEST_PAGES :
          /\ node = [n \in Nodes |->
               IF n \notin FreeNodes THEN [addr |-> 0, next |-> Null]
               ELSE [addr |-> MAX_TEST_PAGES + Random(W, start)[n - 1],
                     next |-> IF n = MAX_TEST_PAGES THEN Null ELSE n + 1]]
          /\ head = 1 /\ tail = MAX_TEST_PAGES
    BY DEF Init, vm_boot
  <1> DEFINE r == Random(W, start)
  <1>2. /\ MAX_TEST_PAGES \in Nat \ {0, 1}
        /\ \A n \in 0 .. MAX_TEST_PAGES - 1 : r[n] \in 1 .. MAX_TEST_PAGES
        /\ \A u, n \in 0 .. MAX_TEST_PAGES - 1 : r[u] = r[n] => u = n
        /\ \A f \in 1 .. MAX_TEST_PAGES : \E n \in 0 .. MAX_TEST_PAGES - 1 : r[n] = f
    BY VisitsEachOnce DEF r
  <1> HIDE DEF r
  <1>3. /\ \A n \in FreeNodes : node[n].addr = MAX_TEST_PAGES + r[n - 1]
        /\ \A n \in FreeNodes : node[n].next = IF n = MAX_TEST_PAGES THEN Null ELSE n + 1
        /\ \A p \in Pages : Addr(p) = 0
    BY <1>1, Layout DEF Addr, r
  <1>4. \A n \in FreeNodes : n - 1 \in 0 .. MAX_TEST_PAGES - 1
    BY <1>2 DEF FreeNodes
  <1>5. \A n \in FreeNodes : node[n].addr \in Frames
    BY <1>2, <1>3, <1>4 DEF Frames
  <1>6. \A u, n \in FreeNodes : node[u].addr = node[n].addr => u = n
    <2> SUFFICES ASSUME NEW u \in FreeNodes, NEW n \in FreeNodes, node[u].addr = node[n].addr
                 PROVE  u = n
      OBVIOUS
    <2>1. r[u - 1] \in Nat /\ r[n - 1] \in Nat
      BY <1>2, <1>4
    <2>2. r[u - 1] = r[n - 1]
      BY <1>2, <1>3, <2>1
    <2>3. QED
      BY <1>2, <1>4, <2>2 DEF FreeNodes
  <1>7. \A f \in Frames : \E n \in FreeNodes : node[n].addr = f
    <2> SUFFICES ASSUME NEW f \in Frames
                 PROVE  \E n \in FreeNodes : node[n].addr = f
      OBVIOUS
    <2>1. f - MAX_TEST_PAGES \in 1 .. MAX_TEST_PAGES
      BY <1>2 DEF Frames
    <2>2. PICK z \in 0 .. MAX_TEST_PAGES - 1 : r[z] = f - MAX_TEST_PAGES
      BY <1>2, <2>1
    <2>3. z + 1 \in FreeNodes /\ (z + 1) - 1 = z
      BY <1>2 DEF FreeNodes
    <2>4. node[z + 1].addr = MAX_TEST_PAGES + r[z]
      BY <1>3, <2>3
    <2>5. node[z + 1].addr = f
      BY <1>2, <2>2, <2>4 DEF Frames
    <2>6. QED
      BY <2>3, <2>5
  <1>8. head = 1 /\ head \in FreeNodes /\ pc = "user" /\ Running
    BY <1>1, <1>2 DEF FreeNodes, Running, Init
  <1>9. ListInv
    BY <1>3, <1>5, <1>6, <1>7, <1>8 DEF ListInv
  <1>10. OwnerInv
    <2>1. \A n \in FreeNodes : ~Taken(n)
      BY <1>8 DEF Taken, FreeNodes, Null
    <2>2. \A n \in FreeNodes : node[n].addr # 0
      BY <1>5, Layout
    <2>3. QED
      BY <1>3, <1>8, <2>1, <2>2 DEF OwnerInv
  <1>11. EntryInv
    BY <1>3, <1>8 DEF EntryInv, Init, Zero
  <1>12. DirtyInv
    BY <1>3, <1>8 DEF DirtyInv, Faulting
  <1>13. HostInv
    BY <1>8 DEF HostInv, HostSeesAll, Init
  <1>14. ControlInv
    BY <1>2, <1>8, VmAssumption DEF ControlInv, Init, Idle, Faulting
  <1>15. TypeOK
    <2>1. node \in [Nodes -> [addr : {0} \cup Frames, next : {Null} \cup Nodes]]
      <3>1. \A n \in FreeNodes : node[n].next \in {Null} \cup Nodes
        BY <1>2, <1>3, Layout DEF FreeNodes
      <3>3. ASSUME NEW n \in Nodes
            PROVE  node[n] \in [addr : {0} \cup Frames, next : {Null} \cup Nodes]
        <4>1. CASE n \notin FreeNodes
          <5>1. node[n] = [addr |-> 0, next |-> Null]
            BY <1>1, <4>1
          <5>2. QED
            BY <5>1
        <4>2. CASE n \in FreeNodes
          <5>1. node[n] = [addr |-> MAX_TEST_PAGES + r[n - 1],
                           next |-> IF n = MAX_TEST_PAGES THEN Null ELSE n + 1]
            BY <1>1, <4>2 DEF r
          <5>2. node[n] = [addr |-> node[n].addr, next |-> node[n].next]
            BY <5>1, <1>3, <4>2
          <5>3. QED
            BY <3>1, <4>2, <5>2, <1>5
        <4>3. QED
          BY <4>1, <4>2
      <3>4. QED
        BY <1>1, <3>3
    <2>2. head \in Nodes /\ tail \in Nodes
      BY <1>1, <1>2, <1>8, Layout DEF FreeNodes
    <2>3. QED
      BY <2>1, <2>2, <1>8 DEF TypeOK, Init, Zero, PTE
  <1>16. QED
    BY <1>8, <1>9, <1>10, <1>11, <1>12, <1>13, <1>14, <1>15 DEF IInv, NoNestedFault

(***************************************************************************)
(* Each conjunct is kept by each step.                                     *)
(***************************************************************************)
(* The types. *)
LEMMA TypeKept ==
  ASSUME Period, IInv, Step
  PROVE  TypeOK'
  <1> USE Layout
  <1>0. TypeOK /\ ControlInv /\ EntryInv
    BY DEF IInv
  <1>1. CASE UserStart \/ Fault \/ Ecall \/ OtherTrap \/ OutOfRange
    BY <1>0, <1>1 DEF UserStart, Fault, Ecall, OtherTrap, OutOfRange, assert_fails, store, TypeOK
  <1>2. CASE Access
    <2>1. mem' \in [Phys -> Vals]
      BY <1>0, <1>2 DEF Access, TypeOK, ControlInv, Faulting
    <2>2. QED
      BY <1>0, <1>2, <2>1 DEF Access, TypeOK
  <1>3. CASE SetBit
    BY <1>0, <1>3 DEF SetBit, TypeOK
  <1>4. CASE PageIn
    <2>1. node[head].addr \in {0} \cup Frames
      BY <1>0, <1>4 DEF PageIn, TypeOK
    <2>2. [ppn |-> node[head].addr, a |-> TRUE, d |-> TRUE] \in PTE
      BY <2>1 DEF PTE
    <2>3. head' \in {Null} \cup Nodes
      BY <1>4, NextNode DEF PageIn
    <2>4. QED
      BY <1>0, <1>4, <2>2, <2>3 DEF PageIn, TypeOK
  <1>5. CASE MapPage
    <2>1. node' \in [Nodes -> [addr : {0} \cup Frames, next : {Null} \cup Nodes]]
      BY <1>0, <1>5 DEF MapPage, TypeOK
    <2>2. QED
      BY <1>0, <1>5, <2>1 DEF MapPage, TypeOK
  <1>6. CASE CopyIn
    <2>1. [ppn |-> Addr(op.page), a |-> FALSE, d |-> FALSE] \in PTE
      BY <1>6 DEF CopyIn, PTE
    <2>2. mem' \in [Phys -> Vals]
      BY <1>0, <1>6 DEF CopyIn, TypeOK
    <2>3. QED
      BY <1>0, <1>6, <2>1, <2>2 DEF CopyIn, TypeOK
  <1>7. CASE flush_and_return
    BY <1>0, <1>7 DEF flush_and_return, flush_page, TypeOK
  <1>8. CASE evict_absent
    BY <1>0, <1>8 DEF evict_absent, next_page, store, TypeOK
  <1>9. CASE Evict
    <2>1. mem' \in [Phys -> Vals]
      BY <1>0, <1>9 DEF Evict, TypeOK
    <2>2. UM(i) \in Nodes
      BY <1>9 DEF Evict
    <2>3. /\ head' \in {Null} \cup Nodes /\ tail' \in {Null} \cup Nodes
          /\ node' \in [Nodes -> [addr : {0} \cup Frames, next : {Null} \cup Nodes]]
      <3>1. CASE tail = Null
        BY <1>0, <1>9, <2>2, <3>1 DEF Evict, append_node, TypeOK
      <3>2. CASE tail # Null
        BY <1>0, <1>9, <2>2, <3>2 DEF Evict, append_node, TypeOK
      <3>3. QED
        BY <3>1, <3>2
    <2>4. QED
      BY <1>0, <1>9, <2>1, <2>3 DEF Evict, next_page, TypeOK
  <1>10. CASE do_tohost \/ Host
    BY <1>0, <1>10 DEF do_tohost, Host, store, TypeOK
  <1>11. CASE Walk
    BY <1>0, <1>11 DEF Walk, TypeOK
  <1>12. CASE UNCHANGED vars
    BY <1>0, <1>12 DEF vars, store, TypeOK
  <1>13. QED
    BY <1>1, <1>2, <1>3, <1>4, <1>5, <1>6, <1>7, <1>8, <1>9, <1>10, <1>11, <1>12 DEF Step

(* What the hart is doing. *)
LEMMA ControlKept ==
  ASSUME Period, IInv, Step
  PROVE  ControlInv'
  <1> USE Layout, VmAssumption
  <1>0. TypeOK /\ ControlInv
    BY DEF IInv
  <1>1. CASE UserStart
    BY <1>0, <1>1 DEF UserStart, ControlInv, Faulting, store
  <1>2. CASE Access
    <2>1. obs' \in Vals
      BY <1>0, <1>2 DEF Access, ControlInv, TypeOK
    <2>2. op' = Idle /\ Idle.kind = "none" /\ pc' = "user"
      BY <1>2 DEF Access, Idle
    <2>3. Idle \in [kind : {"none", "fetch", "load", "store", "ecall"},
                   page : 0 .. MAX_TEST_PAGES, val : Vals \cup Codes]
      BY Sizes DEF Idle
    <2>4. QED
      BY <2>1, <2>2, <2>3 DEF ControlInv, Faulting
  <1>3. CASE Fault \/ OtherTrap \/ OutOfRange
    BY <1>0, <1>3 DEF Fault, OtherTrap, OutOfRange, assert_fails, ControlInv, Faulting, Idle
  <1>4. CASE Ecall
    BY <1>0, <1>4, Sizes DEF Ecall, ControlInv, Faulting, Pages
  <1>5. CASE SetBit \/ PageIn \/ MapPage \/ CopyIn \/ flush_and_return
    BY <1>0, <1>5 DEF SetBit, PageIn, MapPage, CopyIn, flush_and_return, Others, Rest,
                      ControlInv, Faulting
  <1>6. CASE evict_absent \/ Evict
    BY <1>0, <1>6, Sizes DEF evict_absent, Evict, next_page, ControlInv, Faulting, Pages
  <1>7. CASE do_tohost
    BY <1>0, <1>7 DEF do_tohost, ControlInv, Faulting
  <1>8. CASE Host \/ Walk \/ UNCHANGED vars
    BY <1>0, <1>8 DEF Host, Walk, vars, ControlInv, Faulting
  <1>9. QED
    BY <1>1, <1>2, <1>3, <1>4, <1>5, <1>6, <1>7, <1>8 DEF Step

(* The freelist: only the exit call writes a node of it. *)
LEMMA ListKept ==
  ASSUME Period, IInv, Step
  PROVE  ListInv'
  <1> USE Layout
  <1>0. TypeOK /\ ControlInv /\ ListInv
    BY DEF IInv
  <1>1. CASE Evict
    <2>1. \A n \in FreeNodes : node'[n].addr = node[n].addr
      <3>1. UM(i) \in Nodes /\ UM(i) \notin FreeNodes
        BY <1>1 DEF Evict
      <3>2. CASE tail = Null
        BY <1>0, <1>1, <3>1, <3>2 DEF Evict, append_node, TypeOK
      <3>3. CASE tail # Null
        BY <1>0, <1>1, <3>1, <3>3 DEF Evict, append_node, TypeOK
      <3>4. QED
        BY <3>2, <3>3
    <2>2. ~Running'
      BY <1>1 DEF Evict, next_page, Running
    <2>3. QED
      BY <1>0, <2>1, <2>2 DEF ListInv
  <1>2. CASE PageIn
    <2>1. head' \in {Null} \cup FreeNodes
      BY <1>2, NextNode DEF PageIn
    <2>2. QED
      BY <1>0, <1>2, <2>1 DEF PageIn, ListInv, Running
  <1>3. CASE MapPage
    <2>1. UM(op.page) \in Nodes /\ UM(op.page) \notin FreeNodes
      BY <1>3 DEF MapPage
    <2>2. \A n \in FreeNodes : node'[n] = node[n]
      BY <1>0, <1>3, <2>1 DEF MapPage, TypeOK
    <2>3. QED
      BY <1>0, <1>3, <2>2 DEF MapPage, ListInv, Running
  <1>4. UNCHANGED <<node, head>> /\ (Running' => Running) => ListInv'
    BY <1>0 DEF ListInv
  <1>5. CASE UserStart \/ Access \/ Fault \/ Ecall \/ OtherTrap \/ OutOfRange
    BY <1>4, <1>5 DEF UserStart, Access, Fault, Ecall, OtherTrap, OutOfRange, assert_fails,
                      store, Running
  <1>6. CASE SetBit \/ CopyIn \/ flush_and_return \/ evict_absent
    BY <1>4, <1>6 DEF SetBit, CopyIn, flush_and_return, evict_absent, next_page, store, Running
  <1>7. CASE do_tohost \/ Host \/ Walk \/ UNCHANGED vars
    BY <1>4, <1>7 DEF do_tohost, Host, Walk, vars, store, Running
  <1>8. QED
    BY <1>1, <1>2, <1>3, <1>5, <1>6, <1>7 DEF Step

(* Each frame's owner. *)
LEMMA OwnerKept ==
  ASSUME Period, IInv, Step
  PROVE  OwnerInv'
  <1> USE Layout
  <1>0. TypeOK /\ ControlInv /\ ListInv /\ OwnerInv
    BY DEF IInv
  <1>1. CASE Evict
    <2>1. UM(i) \in Nodes /\ i \in Pages
      BY <1>1 DEF Evict
    <2>2. \A p \in Pages : Addr(p)' = IF p = i THEN 0 ELSE Addr(p)
      <3>1. CASE tail = Null
        BY <1>0, <1>1, <2>1, <3>1 DEF Evict, append_node, TypeOK, Addr
      <3>2. CASE tail # Null
        BY <1>0, <1>1, <2>1, <3>2 DEF Evict, append_node, TypeOK, Addr
      <3>3. QED
        BY <3>1, <3>2
    <2>3. ~Running'
      BY <1>1 DEF Evict, next_page, Running
    <2>4. QED
      BY <1>0, <2>2, <2>3 DEF OwnerInv
  <1>2. CASE PageIn
    <2>1. Running /\ Running' /\ pc # "map" /\ pc' = "map" /\ i' = head /\ head \in FreeNodes
      BY <1>2 DEF PageIn, Running
    <2>2. \A n \in FreeNodes : Taken(n)' <=> Taken(n) \/ n = head
      <3>1. head' = IF head = MAX_TEST_PAGES THEN Null ELSE head + 1
        BY <1>2 DEF PageIn
      <3>2. QED
        BY <2>1, <3>1, Sizes DEF Taken, FreeNodes, Null
    <2>3. ~Taken(head)
      BY <2>1 DEF Taken, FreeNodes, Null
    <2>4. \A p \in Pages : Addr(p)' = Addr(p)
      BY <1>2 DEF PageIn, Addr
    <2>5. node' = node
      BY <1>2 DEF PageIn
    <2>6. QED
      BY <1>0, <2>1, <2>2, <2>3, <2>4, <2>5 DEF OwnerInv
  <1>3. CASE MapPage
    <2>1. Running /\ Running' /\ pc = "map" /\ pc' # "map" /\ op.page \in Pages /\ i \in FreeNodes
      BY <1>3 DEF MapPage, Running
    <2>2. UM(op.page) \in Nodes /\ UM(op.page) \notin FreeNodes
      BY <2>1
    <2>3. \A n \in FreeNodes : node'[n].addr = node[n].addr
      BY <1>0, <1>3, <2>2 DEF MapPage, TypeOK
    <2>4. \A p \in Pages : Addr(p)' = IF p = op.page THEN node[i].addr ELSE Addr(p)
      BY <1>0, <1>3, <2>2 DEF MapPage, TypeOK, Addr
    <2>5. \A n \in FreeNodes : Taken(n)' <=> Taken(n)
      BY <1>3 DEF MapPage, Taken
    <2>6. Addr(op.page) = 0 /\ \A n \in FreeNodes : node[n].addr # 0
      BY <1>0, <1>3 DEF MapPage, ListInv
    <2>7. \A p \in Pages : Addr(p) # node[i].addr
      BY <1>0, <2>1 DEF OwnerInv
    <2>8. \A p, q \in Pages : Addr(p)' # 0 /\ Addr(p)' = Addr(q)' => p = q
      BY <1>0, <2>4, <2>7 DEF OwnerInv
    <2>9. \A p \in Pages, n \in FreeNodes : Addr(p)' = node'[n].addr => Taken(n)'
      BY <1>0, <2>1, <2>3, <2>4, <2>5 DEF OwnerInv, ListInv
    <2>10. ASSUME NEW n \in FreeNodes, Taken(n)
           PROVE  \E p \in Pages : Addr(p)' = node'[n].addr
      <3>1. CASE n = i
        BY <2>1, <2>3, <2>4, <3>1
      <3>2. CASE n # i
        <4>1. PICK p \in Pages : Addr(p) = node[n].addr
          BY <1>0, <2>1, <2>10, <3>2 DEF OwnerInv
        <4>2. p # op.page
          BY <2>6, <4>1
        <4>3. QED
          BY <2>3, <2>4, <4>1, <4>2
      <3>3. QED
        BY <3>1, <3>2
    <2>11. QED
      BY <2>1, <2>5, <2>8, <2>9, <2>10 DEF OwnerInv
  <1>4. /\ UNCHANGED <<node, head>> /\ (Running' => Running)
        /\ ((pc # "map" /\ pc' # "map") \/ UNCHANGED <<pc, i>>)
        => OwnerInv'
    BY <1>0 DEF OwnerInv, Taken, Addr
  <1>5. CASE UserStart \/ Access \/ Fault \/ Ecall \/ OtherTrap \/ OutOfRange
    BY <1>4, <1>5 DEF UserStart, Access, Fault, Ecall, OtherTrap, OutOfRange, assert_fails,
                      store, Running
  <1>6. CASE SetBit \/ CopyIn \/ flush_and_return \/ evict_absent
    BY <1>4, <1>6 DEF SetBit, CopyIn, flush_and_return, evict_absent, next_page, store, Running
  <1>7. CASE do_tohost \/ Host \/ Walk \/ UNCHANGED vars
    BY <1>4, <1>7 DEF do_tohost, Host, Walk, vars, store, Running
  <1>8. QED
    BY <1>1, <1>2, <1>3, <1>5, <1>6, <1>7 DEF Step

(* The leaf entries and the walked ones. *)
LEMMA EntryKept ==
  ASSUME Period, IInv, Step
  PROVE  EntryInv'
  <1> USE Layout
  <1>0. TypeOK /\ ControlInv /\ ListInv /\ EntryInv
    BY DEF IInv
  <1>1. /\ UNCHANGED <<pt, tlb, node>> /\ (Running' => Running)
        /\ (pc' = "evict" => pc = "evict" \/ Running)
        /\ pc \notin {"map", "flush"} /\ pc' \notin {"map", "flush", "copy"}
        => EntryInv'
    <2> SUFFICES ASSUME UNCHANGED <<pt, tlb, node>>, Running' => Running,
                        pc' = "evict" => pc = "evict" \/ Running,
                        pc \notin {"map", "flush"}, pc' \notin {"map", "flush", "copy"}
                 PROVE  EntryInv'
      OBVIOUS
    <2>1. \A p \in Pages : Addr(p)' = Addr(p)
      BY DEF Addr
    <2>2. QED
      BY <1>0, <2>1 DEF EntryInv
  <1>2. CASE UserStart \/ Access \/ Fault \/ Ecall \/ OtherTrap \/ OutOfRange
    BY <1>1, <1>2 DEF UserStart, Access, Fault, Ecall, OtherTrap, OutOfRange, assert_fails,
                      store, Running
  <1>3. CASE evict_absent \/ do_tohost
    BY <1>1, <1>3 DEF evict_absent, do_tohost, next_page, store, Running
  <1>4. CASE SetBit
    <2>1. PICK e \in PTE : pt' = [pt EXCEPT ![op.page] = e] /\ e.ppn = pt[op.page].ppn
      BY <1>4 DEF SetBit
    <2>2. /\ pt[op.page].ppn \in Frames /\ Running /\ Running' /\ pc = "fault" /\ pc' = "flush"
          /\ UNCHANGED <<op, tlb, node>>
      BY <1>4 DEF SetBit, Running, Others
    <2>3. \A p \in Pages : pt'[p].ppn = pt[p].ppn /\ (p # op.page => pt'[p] = pt[p])
      BY <1>0, <2>1 DEF TypeOK
    <2>4. \A p \in Pages : Addr(p)' = Addr(p)
      BY <2>2 DEF Addr
    <2>5. QED
      BY <1>0, <2>2, <2>3, <2>4 DEF EntryInv
  <1>5. CASE PageIn
    <2>1. /\ Running /\ Running' /\ pc = "fault" /\ pc' = "map" /\ Addr(op.page) = 0 /\ i' = head
          /\ UNCHANGED <<op, tlb, node>> /\ op.page \in Pages
      BY <1>5 DEF PageIn, Running, Others
    <2>2. \A p \in Pages : Addr(p)' = Addr(p)
      BY <2>1 DEF Addr
    <2>3. node[head].addr \in Frames
      BY <1>0, <1>5 DEF PageIn, ListInv
    <2>4. \A p \in Pages : pt'[p] = IF p = op.page
                                      THEN [ppn |-> node[head].addr, a |-> TRUE, d |-> TRUE]
                                      ELSE pt[p]
      BY <1>0, <1>5 DEF PageIn, TypeOK
    <2>5. \A p \in Pages : pt'[p] = Zero \/ pt'[p].ppn \in Frames
      BY <1>0, <2>3, <2>4 DEF EntryInv
    <2>6. \A p \in Pages : tlb'[p] \subseteq {pt'[p]} \/ op'.page = p
      BY <1>0, <2>1, <2>4 DEF EntryInv
    <2>7. \A p \in Pages : p # op.page => pt'[p].ppn = Addr(p)'
      BY <1>0, <2>1, <2>2, <2>4 DEF EntryInv
    <2>8. /\ pt'[op.page] = [ppn |-> node'[i'].addr, a |-> TRUE, d |-> TRUE]
          /\ Addr(op.page)' = 0
      BY <2>1, <2>2, <2>4
    <2>9. QED
      BY <2>1, <2>5, <2>6, <2>7, <2>8 DEF EntryInv
  <1>6. CASE MapPage
    <2>1. /\ Running /\ Running' /\ pc = "map" /\ pc' = "copy" /\ UNCHANGED <<op, pt>>
          /\ op.page \in Pages /\ i \in FreeNodes
      BY <1>6 DEF MapPage, Running, Others
    <2>2. \A p \in Pages : tlb'[p] = IF p = op.page THEN {} ELSE tlb[p]
      BY <1>0, <1>6 DEF MapPage, TypeOK
    <2>3. \A p \in Pages : Addr(p)' = IF p = op.page THEN node[i].addr ELSE Addr(p)
      BY <1>0, <1>6 DEF MapPage, TypeOK, Addr
    <2>4. pt[op.page] = [ppn |-> node[i].addr, a |-> TRUE, d |-> TRUE] /\ node[i].addr \in Frames
      BY <1>0, <2>1 DEF EntryInv, ListInv
    <2>5. Writable(pt[op.page])
      BY <2>4 DEF Writable, Readable
    <2>6. QED
      BY <1>0, <2>1, <2>2, <2>3, <2>4, <2>5 DEF EntryInv
  <1>7. CASE CopyIn
    <2>1. /\ Running /\ Running' /\ pc = "copy" /\ pc' = "flush" /\ UNCHANGED <<op, tlb, node>>
          /\ op.page \in Pages /\ Addr(op.page) \in Frames
      BY <1>7 DEF CopyIn, Running, Others
    <2>2. \A p \in Pages : Addr(p)' = Addr(p)
      BY <2>1 DEF Addr
    <2>3. \A p \in Pages : pt'[p] = IF p = op.page
                                      THEN [ppn |-> Addr(op.page), a |-> FALSE, d |-> FALSE]
                                      ELSE pt[p]
      BY <1>0, <1>7 DEF CopyIn, TypeOK
    <2>4. QED
      BY <1>0, <2>1, <2>2, <2>3 DEF EntryInv
  <1>8. CASE flush_and_return
    <2>1. /\ Running /\ pc = "flush" /\ pc' = "access" /\ UNCHANGED <<op, pt, node>>
      BY <1>8 DEF flush_and_return, Running, Rest
    <2>2. \A p \in Pages : tlb'[p] = IF p = op.page THEN {} ELSE tlb[p]
      BY <1>0, <1>8 DEF flush_and_return, flush_page, TypeOK
    <2>3. \A p \in Pages : Addr(p)' = Addr(p)
      BY <2>1 DEF Addr
    <2>4. QED
      BY <1>0, <2>1, <2>2, <2>3 DEF EntryInv
  <1>9. CASE Evict
    <2>1. UM(i) \in Nodes /\ i \in Pages /\ pc = "evict" /\ UNCHANGED <<pt, tlb>>
      BY <1>9 DEF Evict
    <2>2. \A p \in Pages : Addr(p)' = IF p = i THEN 0 ELSE Addr(p)
      <3>1. CASE tail = Null
        BY <1>0, <1>9, <2>1, <3>1 DEF Evict, append_node, TypeOK, Addr
      <3>2. CASE tail # Null
        BY <1>0, <1>9, <2>1, <3>2 DEF Evict, append_node, TypeOK, Addr
      <3>3. QED
        BY <3>1, <3>2
    <2>3. pc' \in {"evict", "send"} /\ ~Running'
      BY <1>9 DEF Evict, next_page, Running
    <2>4. QED
      BY <1>0, <2>1, <2>2, <2>3 DEF EntryInv
  <1>10. CASE Walk
    <2>1. UNCHANGED <<pt, node, pc, op, i>>
      BY <1>10 DEF Walk
    <2>2. \A p \in Pages : Addr(p)' = Addr(p)
      BY <2>1 DEF Addr
    <2>3. \A p \in Pages : tlb'[p] \subseteq tlb[p] \cup {pt[p]}
      BY <1>0, <1>10 DEF Walk, TypeOK
    <2>4. QED
      BY <1>0, <2>1, <2>2, <2>3 DEF EntryInv, Running
  <1>11. CASE Host \/ UNCHANGED vars
    <2>1. UNCHANGED <<pt, tlb, node, pc, op, i>>
      BY <1>11 DEF Host, vars, store
    <2>2. QED
      BY <1>0, <2>1 DEF EntryInv, Running, Addr
  <1>12. QED
    BY <1>2, <1>3, <1>4, <1>5, <1>6, <1>7, <1>8, <1>9, <1>10, <1>11 DEF Step

(* The accessed and dirty bits. *)
LEMMA DirtyKept ==
  ASSUME Period, IInv, Step
  PROVE  DirtyInv'
  <1> USE Layout
  <1>0. TypeOK /\ ControlInv /\ OwnerInv /\ EntryInv /\ DirtyInv
    BY DEF IInv
  <1> DEFINE Bits(p) == /\ pt[p].a \/ (Faulting /\ op.page = p)
                        /\ mem[Addr(p)] # mem[p] => pt[p].d \/ (pc = "copy" /\ op.page = p)
  <1>1. Live => \A p \in Pages : Addr(p) # 0 => Bits(p)
    BY <1>0 DEF DirtyInv
  <1>2. /\ pc' = "fault" => pc = "fault" /\ UNCHANGED <<op, pt>>
        /\ Live' => \A p \in Pages : Addr(p)' # 0 => Bits(p)'
        => DirtyInv'
    BY <1>0 DEF DirtyInv, Allowed
  <1>3. CASE OtherTrap \/ OutOfRange \/ do_tohost
    <2>1. ~Live' /\ pc' # "fault"
      BY <1>3 DEF OtherTrap, OutOfRange, assert_fails, do_tohost, Live, Running
    <2>2. QED
      BY <1>2, <2>1
  <1>4. CASE UserStart \/ Ecall \/ evict_absent
    <2>1. Live /\ ~Faulting /\ pc' # "fault" /\ UNCHANGED <<mem, pt, node>> /\ pc # "copy"
      BY <1>4 DEF UserStart, Ecall, evict_absent, next_page, store, Live, Running, Faulting
    <2>2. \A p \in Pages : Addr(p)' = Addr(p)
      BY <2>1 DEF Addr
    <2>3. \A p \in Pages : Addr(p) # 0 => pt[p].a /\ (mem[Addr(p)] # mem[p] => pt[p].d)
      BY <1>1, <2>1
    <2>4. QED
      BY <1>2, <2>1, <2>2, <2>3
  <1>5. CASE Access
    <2>1. /\ Live /\ pc = "access" /\ pc' = "user" /\ op.page \in Pages /\ Allowed(pt[op.page])
          /\ UNCHANGED <<pt, node>> /\ Addr(op.page) \in Frames
      BY <1>5 DEF Access, Live, Running
    <2>2. \A p \in Pages : Addr(p)' = Addr(p) /\ Addr(p) \in {0} \cup Frames
      BY <1>0, <2>1 DEF Addr, TypeOK
    <2>3. pt[op.page].a
      BY <2>1 DEF Allowed, Writable, Readable
    <2>4. CASE op.kind = "store"
      <3>1. pt[op.page].d
        BY <2>1, <2>4 DEF Allowed, Writable
      <3>2. \A q \in Phys : q # Addr(op.page) => mem'[q] = mem[q]
        BY <1>0, <1>5, <2>4 DEF Access, TypeOK
      <3>3. \A p \in Pages : p # op.page /\ Addr(p) # 0 => mem'[Addr(p)] = mem[Addr(p)]
        BY <1>0, <2>1, <2>2, <3>2 DEF OwnerInv
      <3>4. \A p \in Pages : mem'[p] = mem[p]
        BY <2>1, <3>2
      <3>5. \A p \in Pages : Addr(p)' # 0 => Bits(p)'
        BY <1>1, <2>1, <2>2, <2>3, <3>1, <3>3, <3>4
      <3>6. QED
        BY <1>2, <2>1, <3>5
    <2>5. CASE op.kind # "store"
      <3>1. mem' = mem
        BY <1>5, <2>5 DEF Access
      <3>2. \A p \in Pages : Addr(p)' # 0 => Bits(p)'
        BY <1>1, <2>1, <2>2, <2>3, <3>1
      <3>3. QED
        BY <1>2, <2>1, <3>2
    <2>6. QED
      BY <2>4, <2>5
  <1>6. CASE Fault
    <2>1. /\ Live /\ Faulting /\ Faulting' /\ pc = "access" /\ pc' = "fault"
          /\ UNCHANGED <<mem, pt, node, op>> /\ (op.page \in Pages => ~Allowed(pt[op.page]))
      BY <1>6 DEF Fault, Live, Running, Faulting, store
    <2>2. \A p \in Pages : Addr(p)' = Addr(p)
      BY <2>1 DEF Addr
    <2>3. \A p \in Pages : Addr(p)' # 0 => Bits(p)'
      BY <1>1, <2>1, <2>2
    <2>4. op'.page \in Pages => ~Allowed(pt[op.page])'
      BY <2>1 DEF Allowed
    <2>5. QED
      BY <2>3, <2>4 DEF DirtyInv
  <1>7. CASE SetBit
    <2>1. PICK e \in PTE : /\ pt' = [pt EXCEPT ![op.page] = e]
                           /\ e.a /\ (pt[op.page].d => e.d)
      BY <1>7 DEF SetBit
    <2>2. /\ Live /\ pc = "fault" /\ pc' = "flush" /\ op.page \in Pages
          /\ UNCHANGED <<mem, node, op>>
      BY <1>7 DEF SetBit, Live, Running, Others
    <2>3. \A p \in Pages : Addr(p)' = Addr(p)
      BY <2>2 DEF Addr
    <2>4. \A p \in Pages : pt'[p] = IF p = op.page THEN e ELSE pt[p]
      BY <1>0, <2>1 DEF TypeOK
    <2>5. \A p \in Pages : Addr(p)' # 0 => Bits(p)'
      BY <1>1, <2>1, <2>2, <2>3, <2>4 DEF Faulting
    <2>6. QED
      BY <1>2, <2>2, <2>5
  <1>8. CASE PageIn
    <2>1. /\ Live /\ pc = "fault" /\ pc' = "map" /\ op.page \in Pages /\ Addr(op.page) = 0
          /\ UNCHANGED <<mem, node, op>>
      BY <1>8 DEF PageIn, Live, Running, Others
    <2>2. \A p \in Pages : Addr(p)' = Addr(p)
      BY <2>1 DEF Addr
    <2>3. \A p \in Pages : p # op.page => pt'[p] = pt[p]
      BY <1>0, <1>8 DEF PageIn, TypeOK
    <2>4. \A p \in Pages : Addr(p)' # 0 => Bits(p)'
      BY <1>1, <2>1, <2>2, <2>3
    <2>5. QED
      BY <1>2, <2>1, <2>4
  <1>9. CASE MapPage
    <2>1. /\ Live /\ pc = "map" /\ pc' = "copy" /\ Faulting' /\ op.page \in Pages
          /\ UNCHANGED <<mem, pt, op>>
      BY <1>9 DEF MapPage, Live, Running, Faulting, Others
    <2>2. \A p \in Pages : p # op.page => Addr(p)' = Addr(p)
      BY <1>0, <1>9 DEF MapPage, TypeOK, Addr
    <2>3. \A p \in Pages : Addr(p)' # 0 => Bits(p)'
      BY <1>1, <2>1, <2>2
    <2>4. QED
      BY <1>2, <2>1, <2>3
  <1>10. CASE CopyIn
    <2>1. /\ Live /\ pc = "copy" /\ pc' = "flush" /\ Faulting' /\ op.page \in Pages
          /\ UNCHANGED <<node, op>> /\ Addr(op.page) \in Frames
      BY <1>10 DEF CopyIn, Live, Running, Faulting, Others
    <2>2. \A p \in Pages : Addr(p)' = Addr(p) /\ Addr(p) \in {0} \cup Frames
      BY <1>0, <2>1 DEF Addr, TypeOK
    <2>3. \A q \in Phys : mem'[q] = IF q = Addr(op.page) THEN mem[op.page] ELSE mem[q]
      BY <1>0, <1>10 DEF CopyIn, TypeOK
    <2>4. \A p \in Pages : mem'[p] = mem[p]
      BY <2>1, <2>3
    <2>5. \A p \in Pages : p # op.page /\ Addr(p) # 0 => mem'[Addr(p)] = mem[Addr(p)]
      BY <1>0, <2>1, <2>2, <2>3 DEF OwnerInv
    <2>6. mem'[Addr(op.page)] = mem[op.page]
      BY <2>1, <2>3
    <2>7. \A p \in Pages : p # op.page => pt'[p] = pt[p]
      BY <1>0, <1>10 DEF CopyIn, TypeOK
    <2>8. \A p \in Pages : Addr(p)' # 0 => Bits(p)'
      BY <1>1, <2>1, <2>2, <2>4, <2>5, <2>6, <2>7
    <2>9. QED
      BY <1>2, <2>1, <2>8
  <1>11. CASE flush_and_return
    <2>1. /\ Live /\ pc = "flush" /\ pc' = "access" /\ Faulting' /\ UNCHANGED <<mem, pt, node, op>>
      BY <1>11 DEF flush_and_return, Live, Running, Faulting, Rest
    <2>2. \A p \in Pages : Addr(p)' = Addr(p)
      BY <2>1 DEF Addr
    <2>3. \A p \in Pages : Addr(p)' # 0 => Bits(p)'
      BY <1>1, <2>1, <2>2
    <2>4. QED
      BY <1>2, <2>1, <2>3
  <1>12. CASE Evict
    <2>1. /\ Live /\ ~Faulting /\ pc = "evict" /\ pc' # "fault" /\ i \in Pages
          /\ UNCHANGED <<pt, op>> /\ Addr(i) \in Frames /\ UM(i) \in Nodes
      BY <1>12 DEF Evict, next_page, Live, Running, Faulting
    <2>2. \A p \in Pages : Addr(p)' = IF p = i THEN 0 ELSE Addr(p)
      <3>1. CASE tail = Null
        BY <1>0, <1>12, <2>1, <3>1 DEF Evict, append_node, TypeOK, Addr
      <3>2. CASE tail # Null
        BY <1>0, <1>12, <2>1, <3>2 DEF Evict, append_node, TypeOK, Addr
      <3>3. QED
        BY <3>1, <3>2
    <2>3. \A q \in Phys : q # Addr(i) => mem'[q] = mem[q]
      BY <1>0, <1>12 DEF Evict, TypeOK
    <2>4. \A p \in Pages : Addr(p) \in {0} \cup Frames
      BY <1>0 DEF TypeOK, Addr
    <2>5. \A p \in Pages : p # i /\ Addr(p) # 0 => mem'[Addr(p)] = mem[Addr(p)]
      BY <1>0, <2>1, <2>3, <2>4 DEF OwnerInv
    <2>6. \A p \in Pages : mem'[p] = mem[p]
      BY <2>1, <2>3
    <2>7. \A p \in Pages : Addr(p)' # 0 => Bits(p)'
      BY <1>1, <2>1, <2>2, <2>5, <2>6
    <2>8. QED
      BY <1>2, <2>1, <2>7
  <1>13. CASE Walk \/ Host \/ UNCHANGED vars
    <2>1. UNCHANGED <<mem, pt, node, pc, op>>
      BY <1>13 DEF Walk, Host, vars, store
    <2>2. \A p \in Pages : Addr(p)' = Addr(p)
      BY <2>1 DEF Addr
    <2>3. Live' => \A p \in Pages : Addr(p)' # 0 => Bits(p)'
      BY <1>1, <2>1, <2>2 DEF Live, Running, Faulting
    <2>4. QED
      BY <1>2, <2>1, <2>3
  <1>14. QED
    BY <1>3, <1>4, <1>5, <1>6, <1>7, <1>8, <1>9, <1>10, <1>11, <1>12, <1>13 DEF Step

(* An exit code can be told from an empty register. *)
LEMMA CodeIsSent ==
  ASSUME NEW c \in Codes
  PROVE  c \in Int \ {0}
  <1>1. Codes \subseteq Nat \ {0}
    BY VmAssumption
  <1>2. QED
    BY <1>1

(* What is sent, and what the host reads. *)
LEMMA HostKept ==
  ASSUME Period, IInv, Step
  PROVE  HostInv'
  <1> USE Layout, VmAssumption
  <1>0. ControlInv /\ HostInv
    BY DEF IInv
  <1>1. /\ UNCHANGED <<out, tohost, sent, log>>
        /\ pc \notin {"send", "spin"} /\ pc' \notin {"send", "spin"}
        => HostInv'
    BY <1>0 DEF HostInv, HostSeesAll
  <1>2. CASE UserStart \/ Access \/ Fault \/ Ecall \/ OtherTrap
    BY <1>1, <1>2 DEF UserStart, Access, Fault, Ecall, OtherTrap
  <1>3. CASE SetBit \/ PageIn \/ MapPage \/ CopyIn \/ flush_and_return
    BY <1>1, <1>3 DEF SetBit, PageIn, MapPage, CopyIn, flush_and_return, Rest, Others
  <1>4. CASE OutOfRange
    <2>1. out' = [n \in 1 .. MsgLen + 1 |-> IF n <= MsgLen THEN -1 ELSE 3]
      BY <1>4 DEF OutOfRange, assert_fails, Chr
    <2>2. out' \in Seq(Int \ {0}) /\ Len(out') = MsgLen + 1
      BY <2>1
    <2>3. out' # << >>
      BY <2>2
    <2>4. /\ pc = "fault" /\ pc' = "send" /\ UNCHANGED <<op, tohost, sent, log>>
          /\ op.page \notin Pages
      BY <1>4 DEF OutOfRange, assert_fails
    <2>5. op.kind # "ecall"
      BY <1>0, <2>4 DEF ControlInv
    <2>6. QED
      BY <1>0, <2>2, <2>3, <2>4, <2>5 DEF HostInv, HostSeesAll
  <1>5. CASE evict_absent \/ Evict
    <2>1. /\ pc = "evict" /\ next_page /\ UNCHANGED <<op, tohost, sent, log>>
      BY <1>5 DEF evict_absent, Evict
    <2>2. op.kind = "ecall" /\ op.val \in Codes
      BY <1>0, <2>1 DEF ControlInv
    <2>3. CASE i < MAX_TEST_PAGES - 1
      BY <1>0, <1>1, <2>1, <2>3 DEF next_page
    <2>4. CASE ~(i < MAX_TEST_PAGES - 1)
      <3>1. pc' = "send" /\ out' = <<op.val>>
        BY <2>1, <2>4 DEF next_page
      <3>2. out' \in Seq(Int \ {0}) /\ out' # << >>
        <4>1. op.val \in Int \ {0}
          BY <2>2, CodeIsSent
        <4>2. QED
          BY <3>1, <4>1
      <3>3. QED
        BY <1>0, <2>1, <2>2, <3>1, <3>2 DEF HostInv, HostSeesAll
    <2>5. QED
      BY <2>3, <2>4
  <1>6. CASE do_tohost
    <2>1. /\ pc = "send" /\ tohost = 0 /\ tohost' = Head(out) /\ out' = Tail(out)
          /\ sent' = Append(sent, Head(out)) /\ pc' = IF Len(out) = 1 THEN "spin" ELSE "send"
          /\ UNCHANGED <<op, log>>
      BY <1>6 DEF do_tohost
    <2>2. /\ out \in Seq(Int \ {0}) /\ out # << >> /\ sent \in Seq(Int) /\ log \in Seq(Int)
          /\ sent = log
      BY <1>0, <2>1 DEF HostInv, HostSeesAll
    <2>3. Head(out) \in Int \ {0} /\ Tail(out) \in Seq(Int \ {0}) /\ Len(Tail(out)) = Len(out) - 1
      BY <2>2
    <2>4. Len(out) # 1 => Tail(out) # << >>
      <3>1. Len(out) \in Nat
        BY <2>2
      <3>2. Tail(out) = << >> <=> Len(Tail(out)) = 0
        BY <2>3, EmptySeq, Zenon
      <3>3. QED
        BY <2>3, <3>1, <3>2
    <2>5. sent' \in Seq(Int) /\ HostSeesAll'
      BY <2>1, <2>2, <2>3 DEF HostSeesAll
    <2>6. op.kind # "ecall" => op.page \notin Pages
      BY <1>0, <2>1 DEF HostInv
    <2>7. ASSUME op.kind = "ecall"
          PROVE  pc' = "spin" /\ sent' = <<op.val>> /\ out' = << >>
      <3>1. sent = << >> /\ out = <<op.val>>
        BY <1>0, <2>1, <2>7 DEF HostInv
      <3>2. Len(out) = 1 /\ Head(out) = op.val /\ Tail(out) = << >> /\ Append(sent, op.val) = <<op.val>>
        BY <3>1
      <3>3. QED
        BY <2>1, <3>2
    <2>8. QED
      BY <2>1, <2>2, <2>3, <2>4, <2>5, <2>6, <2>7 DEF HostInv
  <1>7. CASE Host
    <2>1. /\ tohost # 0 /\ tohost' = 0 /\ log' = Append(log, tohost)
          /\ UNCHANGED <<pc, op, out, sent>>
      BY <1>7 DEF Host
    <2>2. log' \in Seq(Int) /\ tohost' \in Int /\ HostSeesAll'
      BY <1>0, <2>1 DEF HostInv, HostSeesAll
    <2>3. QED
      BY <1>0, <2>1, <2>2 DEF HostInv
  <1>8. CASE Walk \/ UNCHANGED vars
    <2>1. UNCHANGED <<pc, op, out, tohost, sent, log>>
      BY <1>8 DEF Walk, vars
    <2>2. QED
      BY <1>0, <2>1 DEF HostInv, HostSeesAll
  <1>9. QED
    BY <1>2, <1>3, <1>4, <1>5, <1>6, <1>7, <1>8 DEF Step

(* The invariant is inductive. *)
LEMMA Inductive ==
  ASSUME Period, IInv, [Next]_vars
  PROVE  IInv'
  <1>1. Step
    BY NextIsStep
  <1>2. NoNestedFault'
    <2>1. pc # "nested" /\ ControlInv
      BY DEF IInv, NoNestedFault
    <2>2. pc' # "nested"
      BY <1>1, <2>1 DEF Step, UserStart, Access, Fault, Ecall, OtherTrap, OutOfRange, assert_fails,
                        SetBit, PageIn, MapPage, CopyIn, flush_and_return, evict_absent, Evict,
                        next_page, do_tohost, Walk, Host, vars
    <2>3. QED
      BY <2>2 DEF NoNestedFault
  <1>3. QED
    BY <1>1, <1>2, TypeKept, ControlKept, ListKept, OwnerKept, EntryKept, DirtyKept, HostKept DEF IInv

(* It holds in every reachable state: the theorems below read it off. *)
LEMMA Invariant ==
  ASSUME Period
  PROVE  Spec => []IInv
  <1>1. Init => IInv
    BY InitInv
  <1>2. IInv /\ [Next]_vars => IInv'
    BY Inductive
  <1>3. QED
    BY <1>1, <1>2, PTL DEF Spec

(***************************************************************************)
(* Theorems                                                                *)
(***************************************************************************)
(* vm.c keeps its page table, its freelist and its memory well formed.     *)
THEOREM TypeCorrect ==
  ASSUME Period
  PROVE  Spec => []TypeOK
  <1>1. IInv => TypeOK
    BY DEF IInv
  <1>2. QED
    BY <1>1, Invariant, PTL

(* vm_boot, handle_fault: until the exit call every frame has one owner.   *)
THEOREM FramesAreOwnedOnce ==
  ASSUME Period
  PROVE  Spec => []FramesOwnedOnce
  <1>1. ASSUME IInv
        PROVE  FramesOwnedOnce
    <2> SUFFICES ASSUME Running
                 PROVE  FramesOwnedOnce
      BY DEF FramesOwnedOnce
    <2> DEFINE free == IF head = Null THEN {} ELSE head .. MAX_TEST_PAGES
               mapped == {UM(p) : p \in {q \in Pages : node[UM(q)].addr # 0}}
               popped == IF pc = "map" THEN {i} ELSE {}
               owners == free \cup mapped \cup popped
    <2> USE Layout
    <2>0. TypeOK /\ ControlInv /\ ListInv /\ OwnerInv /\ EntryInv
      BY <1>1 DEF IInv
    <2>1. \A n : n \in free <=> n \in FreeNodes /\ ~Taken(n)
      <3>1. head = Null \/ head \in FreeNodes
        BY <2>0 DEF ListInv
      <3>2. QED
        BY <3>1, Sizes DEF Taken, FreeNodes, Null
    <2>2. \A n : n \in popped <=> pc = "map" /\ n = i /\ n \in FreeNodes
      BY <2>0 DEF ControlInv
    <2>3. \A n : n \in mapped <=> \E p \in Pages : n = UM(p) /\ Addr(p) # 0
      BY DEF Addr
    <2> HIDE DEF free, mapped, popped
    <2>4. \A p \in Pages : Addr(p) \in {0} \cup Frames
      BY <2>0 DEF TypeOK, Addr
    <2>5. ASSUME NEW p \in Pages, NEW n \in free \cup popped, Addr(p) = node[n].addr
          PROVE  FALSE
      BY <2>0, <2>1, <2>2, <2>5 DEF OwnerInv
    <2>6. ASSUME NEW u \in owners, NEW n \in owners, node[u].addr = node[n].addr
          PROVE  u = n
      <3>1. CASE u \in free \cup popped /\ n \in free \cup popped
        BY <2>0, <2>1, <2>2, <2>6, <3>1 DEF ListInv
      <3>2. CASE u \in mapped /\ n \in free \cup popped
        BY <2>3, <2>5, <2>6, <3>2 DEF Addr
      <3>3. CASE u \in free \cup popped /\ n \in mapped
        BY <2>3, <2>5, <2>6, <3>3 DEF Addr
      <3>4. CASE u \in mapped /\ n \in mapped
        BY <2>0, <2>3, <2>6, <3>4 DEF OwnerInv, Addr
      <3>5. QED
        BY <3>1, <3>2, <3>3, <3>4
    <2>7. {node[n].addr : n \in owners} = Frames
      <3>1. ASSUME NEW n \in owners
            PROVE  node[n].addr \in Frames
        <4>1. CASE n \in mapped
          BY <2>3, <2>4, <4>1 DEF Addr
        <4>2. CASE n \in free \cup popped
          BY <2>0, <2>1, <2>2, <4>2 DEF ListInv
        <4>3. QED
          BY <4>1, <4>2
      <3>2. ASSUME NEW f \in Frames
            PROVE  \E n \in owners : node[n].addr = f
        <4>1. PICK n \in FreeNodes : node[n].addr = f
          BY <2>0 DEF ListInv
        <4>2. CASE ~Taken(n) \/ (pc = "map" /\ n = i)
          BY <2>1, <2>2, <4>1, <4>2
        <4>3. CASE Taken(n) /\ ~(pc = "map" /\ n = i)
          <5>1. PICK p \in Pages : Addr(p) = node[n].addr
            BY <2>0, <4>3 DEF OwnerInv
          <5>2. UM(p) \in mapped /\ node[UM(p)].addr = f
            BY <2>3, <4>1, <5>1 DEF Addr
          <5>3. QED
            BY <5>2
        <4>4. QED
          BY <4>2, <4>3
      <3>3. QED
        BY <3>1, <3>2
    <2>8. \A p \in Pages : pt[p] # Zero /\ ~(pc = "map" /\ op.page = p)
                             => pt[p].ppn = node[UM(p)].addr
      BY <2>0 DEF EntryInv, Addr
    <2>9. QED
      BY <2>6, <2>7, <2>8 DEF FramesOwnedOnce, free, mapped, popped
  <1>2. QED
    BY <1>1, Invariant, PTL

(* handle_fault, evict: no assertion fails unless the test left its pages; *)
(* the exit call sends the test's code and nothing else.                   *)
THEOREM AssertionsAlwaysHold ==
  ASSUME Period
  PROVE  Spec => []AssertionsHold
  <1>1. ASSUME IInv
        PROVE  AssertionsHold
    <2>1. HostInv
      BY <1>1 DEF IInv
    <2>2. CASE pc = "send" /\ op.kind = "ecall"
      <3>1. sent = << >> /\ out = <<op.val>>
        BY <2>1, <2>2 DEF HostInv
      <3>2. << >> \o <<op.val>> = <<op.val>>
        OBVIOUS
      <3>3. QED
        BY <2>2, <3>1, <3>2 DEF AssertionsHold
    <2>3. CASE pc = "spin" /\ op.kind = "ecall"
      <3>1. sent = <<op.val>> /\ out = << >>
        BY <2>1, <2>3 DEF HostInv
      <3>2. <<op.val>> \o << >> = <<op.val>>
        OBVIOUS
      <3>3. QED
        BY <2>3, <3>1, <3>2 DEF AssertionsHold
    <2>4. CASE ~(pc \in {"send", "spin"} /\ op.kind = "ecall")
      BY <2>1, <2>4 DEF HostInv, AssertionsHold
    <2>5. QED
      BY <2>2, <2>3, <2>4
  <1>2. QED
    BY <1>1, Invariant, PTL

(* handle_fault, evict: the kernel's copies through the user's address     *)
(* never fault, whatever the hart has walked.                              *)
THEOREM KernelNeverFaults ==
  ASSUME Period
  PROVE  Spec => []NoNestedFault
  <1>1. IInv => NoNestedFault
    BY DEF IInv
  <1>2. QED
    BY <1>1, Invariant, PTL

(* do_tohost: the host reads exactly what was sent, in order.              *)
THEOREM HostReadsAll ==
  ASSUME Period
  PROVE  Spec => []HostSeesAll
  <1>1. IInv => HostSeesAll
    BY DEF IInv, HostInv
  <1>2. QED
    BY <1>1, Invariant, PTL

(***************************************************************************)
(* The refinement: what the test sees is a flat memory.                    *)
(***************************************************************************)
View(p) == IF Addr(p) = 0 \/ (pc = "copy" /\ op.page = p) THEN mem[p] ELSE mem[Addr(p)]
Exited == op.kind = "ecall"

(* The view, and what a step that changes nothing of it is. *)
LEMMA SameView ==
  ASSUME \A p \in Pages : mem'[p] = mem[p],
         \A p \in Pages : View(p)' = View(p),
         obs' = obs, Exited' <=> Exited
  PROVE  UNCHANGED Flat!vars
  <1>1. [p \in Pages |-> mem[p]]' = [p \in Pages |-> mem[p]]
    OBVIOUS
  <1>2. vmem' = vmem
    <2>1. vmem = [p \in Pages |-> View(p)]
      BY DEF vmem, View, Addr
    <2>2. vmem' = [p \in Pages |-> View(p)']
      BY DEF vmem, View, Addr
    <2>3. QED
      BY <2>1, <2>2
  <1>3. (op.kind = "ecall")' = (op.kind = "ecall")
    BY DEF Exited
  <1>4. QED
    BY <1>1, <1>2, <1>3 DEF Flat!vars

(* A page's image is never written: only frames are. *)
LEMMA ImageKept ==
  ASSUME Period, IInv, Step
  PROVE  \A p \in Pages : mem'[p] = mem[p]
  <1> USE Layout
  <1>0. mem \in [Phys -> Vals]
    BY DEF IInv, TypeOK
  <1>1. CASE Access
    <2>1. CASE op.kind = "store"
      BY <1>0, <1>1, <2>1 DEF Access
    <2>2. CASE op.kind # "store"
      BY <1>1, <2>2 DEF Access
    <2>3. QED
      BY <2>1, <2>2
  <1>2. CASE CopyIn
    BY <1>0, <1>2 DEF CopyIn
  <1>3. CASE Evict
    BY <1>0, <1>3 DEF Evict
  <1>4. CASE ~Access /\ ~CopyIn /\ ~Evict
    BY <1>4 DEF Step, UserStart, Fault, Ecall, OtherTrap, OutOfRange, assert_fails, SetBit, PageIn,
                MapPage, flush_and_return, evict_absent, do_tohost, Walk, Host, vars, store
  <1>5. QED
    BY <1>1, <1>2, <1>3, <1>4

(* Each step is one of the flat memory or changes nothing of it. *)
LEMMA StepIsFlat ==
  ASSUME Period, IInv, Step
  PROVE  [Flat!Next]_(Flat!vars)
  <1> USE Layout
  <1>0. TypeOK /\ ControlInv /\ OwnerInv
    BY DEF IInv
  <1>1. \A p \in Pages : mem'[p] = mem[p]
    BY ImageKept
  <1>2. [p \in Pages |-> mem[p]]' = [p \in Pages |-> mem[p]]
    BY <1>1
  <1>3. vmem = [p \in Pages |-> View(p)] /\ vmem' = [p \in Pages |-> View(p)']
    BY DEF vmem, View, Addr
  <1>4. \A p \in Pages : Addr(p) \in {0} \cup Frames
    BY <1>0 DEF TypeOK, Addr
  <1>5. /\ UNCHANGED <<mem, node, obs>> /\ (Exited' <=> Exited)
        /\ ((pc # "copy" /\ pc' # "copy") \/ UNCHANGED <<pc, op>>)
        => UNCHANGED Flat!vars
    BY SameView DEF View, Addr
  <1>6. CASE UserStart
    <2>1. ~Exited /\ ~Exited'
      BY <1>0, <1>6 DEF UserStart, Exited, ControlInv, Idle
    <2>2. QED
      BY <1>5, <1>6, <2>1 DEF UserStart, store
  <1>7. CASE Fault \/ OtherTrap \/ OutOfRange \/ SetBit \/ PageIn \/ flush_and_return
    BY <1>5, <1>7 DEF Fault, OtherTrap, OutOfRange, assert_fails, SetBit, PageIn,
                      flush_and_return, store, Rest, Others, Exited
  <1>8. CASE evict_absent \/ do_tohost \/ Walk \/ Host \/ UNCHANGED vars
    BY <1>5, <1>8 DEF evict_absent, next_page, do_tohost, Walk, Host, vars, store, Exited
  <1>9. CASE Ecall
    <2>1. ~Exited /\ Exited'
      BY <1>0, <1>9 DEF Ecall, Exited, ControlInv, Idle
    <2>2. UNCHANGED <<mem, node, obs>> /\ pc # "copy" /\ pc' # "copy"
      BY <1>9 DEF Ecall, store
    <2>3. vmem' = vmem
      BY <1>3, <2>2 DEF View, Addr
    <2>4. Flat!Exit
      BY <1>2, <2>1, <2>2, <2>3 DEF Flat!Exit, Exited
    <2>5. QED
      BY <2>4 DEF Flat!Next
  <1>10. CASE MapPage
    <2>1. /\ pc = "map" /\ pc' = "copy" /\ op.page \in Pages /\ Addr(op.page) = 0
          /\ UNCHANGED <<mem, op, obs>>
      BY <1>10 DEF MapPage, Others
    <2>2. \A p \in Pages : p # op.page => Addr(p)' = Addr(p)
      BY <1>0, <1>10 DEF MapPage, TypeOK, Addr
    <2>3. \A p \in Pages : View(p)' = View(p)
      BY <2>1, <2>2 DEF View
    <2>4. QED
      BY <1>1, <2>1, <2>3, SameView DEF Exited
  <1>11. CASE CopyIn
    <2>1. /\ pc = "copy" /\ pc' = "flush" /\ op.page \in Pages /\ Addr(op.page) \in Frames
          /\ UNCHANGED <<op, obs, node>>
      BY <1>11 DEF CopyIn, Others
    <2>2. \A q \in Phys : mem'[q] = IF q = Addr(op.page) THEN mem[op.page] ELSE mem[q]
      BY <1>0, <1>11 DEF CopyIn, TypeOK
    <2>3. \A p \in Pages : Addr(p)' = Addr(p)
      BY <2>1 DEF Addr
    <2>4. mem'[Addr(op.page)] = mem[op.page]
      BY <2>1, <2>2
    <2>5. \A p \in Pages : p # op.page /\ Addr(p) # 0 => mem'[Addr(p)] = mem[Addr(p)]
      BY <1>0, <1>4, <2>1, <2>2 DEF OwnerInv
    <2>6. \A p \in Pages : View(p)' = View(p)
      BY <1>1, <2>1, <2>3, <2>4, <2>5 DEF View
    <2>7. QED
      BY <1>1, <2>1, <2>6, SameView DEF Exited
  <1>12. CASE Evict
    <2>1. /\ pc = "evict" /\ pc' # "copy" /\ i \in Pages /\ Addr(i) \in Frames
          /\ UNCHANGED <<op, obs>> /\ UM(i) \in Nodes
      BY <1>12 DEF Evict, next_page
    <2>2. Exited
      BY <1>0, <2>1 DEF ControlInv, Exited
    <2>3. \A p \in Pages : Addr(p)' = IF p = i THEN 0 ELSE Addr(p)
      <3>1. CASE tail = Null
        BY <1>0, <1>12, <2>1, <3>1 DEF Evict, append_node, TypeOK, Addr
      <3>2. CASE tail # Null
        BY <1>0, <1>12, <2>1, <3>2 DEF Evict, append_node, TypeOK, Addr
      <3>3. QED
        BY <3>1, <3>2
    <2>4. \A q \in Phys : q # Addr(i) => mem'[q] = mem[q]
      BY <1>0, <1>12 DEF Evict, TypeOK
    <2>5. \A p \in Pages : p # i /\ Addr(p) # 0 => mem'[Addr(p)] = mem[Addr(p)]
      BY <1>0, <1>4, <2>1, <2>4 DEF OwnerInv
    <2>6. \A p \in Pages : View(p)' = IF p = i THEN mem[p] ELSE View(p)
      BY <1>1, <2>1, <2>3, <2>5 DEF View
    <2>7. vmem' = [vmem EXCEPT ![i] = [p \in Pages |-> mem[p]][i]]
      BY <1>3, <2>1, <2>6
    <2>8. Flat!Scrub(i)
      BY <1>2, <2>1, <2>2, <2>7 DEF Flat!Scrub, Exited
    <2>9. QED
      BY <2>1, <2>8 DEF Flat!Next
  <1>13. CASE Access
    <2>1. /\ pc = "access" /\ pc' = "user" /\ op.page \in Pages /\ Addr(op.page) \in Frames
          /\ UNCHANGED node /\ op' = Idle
      BY <1>13 DEF Access
    <2>2. ~Exited /\ ~Exited' /\ op.val \in Vals
      BY <1>0, <2>1 DEF ControlInv, Exited, Faulting, Idle
    <2>3. \A p \in Pages : Addr(p)' = Addr(p)
      BY <2>1 DEF Addr
    <2>4. View(op.page) = mem[Addr(op.page)]
      BY <2>1 DEF View
    <2>5. CASE op.kind = "store"
      <3>1. obs' = obs /\ \A q \in Phys : mem'[q] = IF q = Addr(op.page) THEN op.val ELSE mem[q]
        BY <1>0, <1>13, <2>5 DEF Access, TypeOK
      <3>2. \A p \in Pages : p # op.page /\ Addr(p) # 0 => mem'[Addr(p)] = mem[Addr(p)]
        BY <1>0, <1>4, <2>1, <3>1 DEF OwnerInv
      <3>3. \A p \in Pages : View(p)' = IF p = op.page THEN op.val ELSE View(p)
        BY <1>1, <2>1, <2>3, <3>1, <3>2 DEF View
      <3>4. vmem' = [vmem EXCEPT ![op.page] = op.val]
        BY <1>3, <2>1, <3>3
      <3>5. Flat!Write(op.page, op.val)
        BY <1>2, <2>2, <3>1, <3>4 DEF Flat!Write, Exited
      <3>6. QED
        BY <2>1, <2>2, <3>5 DEF Flat!Next
    <2>6. CASE op.kind # "store"
      <3>1. mem' = mem /\ obs' = mem[Addr(op.page)]
        BY <1>13, <2>6 DEF Access
      <3>2. \A p \in Pages : View(p)' = View(p)
        BY <2>1, <2>3, <3>1 DEF View
      <3>3. vmem' = vmem /\ obs' = vmem[op.page]
        BY <1>3, <2>1, <2>4, <3>1, <3>2
      <3>4. Flat!Read(op.page)
        BY <1>2, <2>2, <3>3 DEF Flat!Read, Exited
      <3>5. QED
        BY <2>1, <3>4 DEF Flat!Next
    <2>7. QED
      BY <2>5, <2>6
  <1>14. QED
    BY <1>6, <1>7, <1>8, <1>9, <1>10, <1>11, <1>12, <1>13 DEF Step

(* The test starts with its image. *)
LEMMA InitIsFlat ==
  ASSUME Period, Init
  PROVE  Flat!Init
  <1> USE Layout
  <1>1. \A p \in Pages : Addr(p) = 0
    BY DEF Init, vm_boot, Addr
  <1>2. vmem = [p \in Pages |-> mem[p]]
    BY <1>1 DEF vmem, Addr
  <1>3. [p \in Pages |-> mem[p]] \in [Pages -> Vals] /\ obs \in Vals
    BY VmAssumption DEF Init
  <1>4. (op.kind = "ecall") = FALSE
    BY DEF Init, Idle
  <1>5. QED
    BY <1>2, <1>3, <1>4 DEF Flat!Init

(* vm.c: whatever pages are in, whatever the hart has walked and whatever  *)
(* frames they were given, the test reads and writes one flat memory that  *)
(* starts as its image, and only its exit call puts pages back.            *)
THEOREM TestSeesFlatMemory ==
  ASSUME Period
  PROVE  Spec => FlatSpec
  <1>1. Init => Flat!Init
    BY InitIsFlat
  <1>2. IInv /\ [Next]_vars => [Flat!Next]_(Flat!vars)
    BY NextIsStep, StepIsFlat
  <1>3. QED
    BY <1>1, <1>2, Invariant, PTL DEF Spec, FlatSpec, Flat!Spec

(***************************************************************************)
(* The string library.                                                     *)
(*                                                                         *)
(* Each function is first given in closed form, as a fact about its        *)
(* operands and not about a state; the invariant then only says that the   *)
(* one call a behaviour makes is right once it has been made.              *)
(***************************************************************************)

(* The first index at which a loop stops.                                  *)
LEMMA FirstOfIs ==
    ASSUME NEW P, NEW n \in Nat, NEW f, f = Str!FirstOf(P, n)
    PROVE  /\ f \in 0 .. n /\ (f = n \/ P[f])
           /\ \A x \in 0 .. f - 1 : ~P[x]
<1> DEFINE T == {x \in 0 .. n : x = n \/ P[x]}
<1>1. T \subseteq Nat /\ n \in T
  OBVIOUS
<1>2. PICK z \in T : \A y \in T : z <= y
  BY <1>1, LeastNatural
<1>3. z \in 0 .. n /\ (z = n \/ P[z]) /\ \A x \in 0 .. z - 1 : ~P[x]
  BY <1>2
<1>4. \E x \in 0 .. n : (x = n \/ P[x]) /\ \A l \in 0 .. x - 1 : ~P[l]
  BY <1>3
<1> QED
  BY <1>4, Zenon DEF Str!FirstOf

(***************************************************************************)
(* The copying loop.                                                       *)
(***************************************************************************)
CopyStep(r, mm, dest, src, u, l) ==
    IF l = 0 THEN mm
    ELSE [a \in Str!Addrs |-> IF a \in dest + (l-1)*u .. dest + l*u - 1
                                THEN r[l-1][src + (a - dest)] ELSE r[l-1][a]]
CopySolves(r, mm, dest, src, u, n) == r = [l \in 0 .. n |-> CopyStep(r, mm, dest, src, u, l)]

(* The bytes from p to q copied in the memory x.                           *)
CopyOn(x, dest, src, p, q) ==
    [a \in Str!Addrs |-> IF a \in dest + p .. dest + q - 1 THEN x[src + (a - dest)] ELSE x[a]]

(* The first w bytes copied.                                               *)
Copied(mm, dest, src, w) ==
    [a \in Str!Addrs |-> IF a \in dest .. dest + w - 1 THEN mm[src + (a - dest)] ELSE mm[a]]

(* Copying p bytes and then the next q - p is copying q.                   *)
LEMMA CopyMore ==
    ASSUME NEW mm, NEW dest \in Nat, NEW src \in Nat, NEW p \in Nat, NEW q \in Nat, NEW e \in Nat,
           p <= q, q <= e, dest + e <= Size, src + e <= Size, Size \in Nat, Str!Apart(dest, src, e)
    PROVE  Copied(mm, dest, src, q) = CopyOn(Copied(mm, dest, src, p), dest, src, p, q)
<1> DEFINE C == Copied(mm, dest, src, p)
<1> SUFFICES ASSUME NEW a \in Str!Addrs
             PROVE  (IF a \in dest .. dest + q - 1 THEN mm[src + (a - dest)] ELSE mm[a])
                      = IF a \in dest + p .. dest + q - 1 THEN C[src + (a - dest)] ELSE C[a]
  BY DEF Copied, CopyOn
<1>1. a \in Int
  BY DEF Str!Addrs
<1>2. CASE a \in dest + p .. dest + q - 1
  <2>1. PICK b : b = src + (a - dest)
    OBVIOUS
  <2>2. b \in 0 .. Size - 1 /\ b \notin dest .. dest + p - 1
    BY <1>1, <1>2, <2>1 DEF Str!Apart
  <2>3. C[b] = mm[b]
    BY <2>2 DEF Copied, Str!Addrs
  <2>4. a \in dest .. dest + q - 1
    BY <1>1, <1>2
  <2> QED
    BY <1>2, <2>1, <2>3, <2>4
<1>3. CASE a \notin dest + p .. dest + q - 1
  <2>1. a \in dest .. dest + q - 1 <=> a \in dest .. dest + p - 1
    BY <1>1, <1>3
  <2>2. C[a] = IF a \in dest .. dest + p - 1 THEN mm[src + (a - dest)] ELSE mm[a]
    BY DEF Copied
  <2> QED
    BY <1>3, <2>1, <2>2
<1> QED
  BY <1>2, <1>3

(* More units are no fewer bytes.                                          *)
LEMMA TimesMonotone ==
    ASSUME NEW x \in Nat, NEW y \in Nat, NEW u \in Nat, x <= y
    PROVE  x * u \in Nat /\ y * u \in Nat /\ x * u <= y * u
<1>1. PICK d \in Nat : y = x + d
  <2>1. y - x \in Nat /\ y = x + (y - x)
    OBVIOUS
  <2> QED
    BY <2>1
<1>2. y * u = x * u + d * u /\ x * u \in Nat /\ d * u \in Nat
  BY <1>1
<1> QED
  BY <1>2

(* What a copy of e bytes may be asked for.                                *)
CopyInput(mm, dest, src, e) ==
    /\ mm = [a \in Str!Addrs |-> mm[a]] /\ dest \in Nat /\ src \in Nat /\ e \in Nat
    /\ dest + e <= Size /\ src + e <= Size /\ Size \in Nat /\ Str!Apart(dest, src, e)

(* The loop copies n units of u bytes, whatever u is.                      *)
LEMMA CopyLoopIs ==
    ASSUME NEW mm, NEW dest, NEW src, NEW u \in Nat, NEW n \in Nat, NEW e, e = n * u,
           CopyInput(mm, dest, src, e)
    PROVE  Str!CopyLoop(mm, dest, src, u, n) = Copied(mm, dest, src, e)
<1>1. /\ mm = [a \in Str!Addrs |-> mm[a]] /\ dest \in Nat /\ src \in Nat /\ e \in Nat
      /\ dest + e <= Size /\ src + e <= Size /\ Size \in Nat /\ Str!Apart(dest, src, e)
  BY DEF CopyInput
<1>2. Copied(mm, dest, src, 0) = mm
  <2>1. dest .. dest + 0 - 1 = {}
    BY <1>1
  <2> QED
    BY <1>1, <2>1 DEF Copied
<1>3. ASSUME NEW r, NEW l \in 1 .. n, r[l - 1] = Copied(mm, dest, src, (l - 1) * u)
      PROVE  CopyStep(r, mm, dest, src, u, l) = Copied(mm, dest, src, l * u)
  <2>1. PICK p, q : p = (l - 1) * u /\ q = l * u
    OBVIOUS
  <2>2. l - 1 \in Nat /\ l \in Nat /\ l - 1 <= l /\ l <= n
    OBVIOUS
  <2>3. p \in Nat /\ q \in Nat /\ p <= q /\ q <= e
    BY <2>1, <2>2, TimesMonotone
  <2>4. Copied(mm, dest, src, q) = CopyOn(Copied(mm, dest, src, p), dest, src, p, q)
    BY <1>1, <2>3, CopyMore
  <2>5. CopyStep(r, mm, dest, src, u, l) = CopyOn(r[l - 1], dest, src, p, q)
    <3>1. l # 0
      OBVIOUS
    <3> QED
      BY <2>1, <3>1, Zenon DEF CopyStep, CopyOn
  <2>6. r[l - 1] = Copied(mm, dest, src, p)
    BY <1>3, <2>1
  <2> QED
    BY <2>1, <2>4, <2>5, <2>6
<1>4. \E r : CopySolves(r, mm, dest, src, u, n)
  <2> DEFINE r == [l \in 0 .. n |-> Copied(mm, dest, src, l * u)]
  <2>1. ASSUME NEW l \in 0 .. n PROVE r[l] = CopyStep(r, mm, dest, src, u, l)
    <3>1. CASE l = 0
      <4>1. l * u = 0
        BY <3>1
      <4>2. r[l] = mm
        BY <1>2, <4>1
      <4> QED
        BY <3>1, <4>2 DEF CopyStep
    <3>2. CASE l \in 1 .. n
      <4>1. r[l - 1] = Copied(mm, dest, src, (l - 1) * u) /\ r[l] = Copied(mm, dest, src, l * u)
        BY <3>2
      <4> HIDE DEF r
      <4> QED
        BY <1>3, <3>2, <4>1
    <3> QED
      BY <3>1, <3>2
  <2>2. r = [l \in 0 .. n |-> r[l]]
    OBVIOUS
  <2> HIDE DEF r
  <2>3. r = [l \in 0 .. n |-> CopyStep(r, mm, dest, src, u, l)]
    BY <2>1, <2>2
  <2> QED
    BY <2>3 DEF CopySolves
<1>5. PICK r : r = CHOOSE f : CopySolves(f, mm, dest, src, u, n)
  OBVIOUS
<1>6. r = [l \in 0 .. n |-> CopyStep(r, mm, dest, src, u, l)]
  BY <1>4, <1>5 DEF CopySolves
<1>7. Str!CopyLoop(mm, dest, src, u, n) = r[n]
  BY <1>5 DEF Str!CopyLoop, CopySolves, CopyStep
<1> DEFINE T == {l \in Nat : l <= n => r[l] = Copied(mm, dest, src, l * u)}
<1>8. 0 \in T
  <2>1. r[0] = mm
    BY <1>6 DEF CopyStep
  <2>2. 0 * u = 0
    OBVIOUS
  <2> QED
    BY <1>2, <2>1, <2>2
<1>9. ASSUME NEW l \in Nat, l \in T PROVE l + 1 \in T
  <2> SUFFICES ASSUME l + 1 <= n PROVE r[l + 1] = Copied(mm, dest, src, (l + 1) * u)
    OBVIOUS
  <2>1. l + 1 \in 1 .. n /\ (l + 1) - 1 = l /\ r[l] = Copied(mm, dest, src, l * u)
    BY <1>9
  <2>2. CopyStep(r, mm, dest, src, u, l + 1) = Copied(mm, dest, src, (l + 1) * u)
    BY <1>3, <2>1
  <2>3. r[l + 1] = CopyStep(r, mm, dest, src, u, l + 1)
    <3>1. l + 1 \in 0 .. n
      OBVIOUS
    <3> QED
      BY <1>6, <3>1, Zenon
  <2> QED
    BY <2>2, <2>3
<1> HIDE DEF T
<1>10. n \in T
  BY <1>8, <1>9, InductionOnSet
<1> QED
  BY <1>7, <1>10 DEF T

(***************************************************************************)
(* Powers.                                                                 *)
(***************************************************************************)
PowerSolves(f, b, n) == f = [x \in 0 .. n |-> IF x = 0 THEN 1 ELSE b * f[x - 1]]

(* Power is the last of a sequence of products.                            *)
LEMMA PowerIs ==
    ASSUME NEW b \in Int, NEW n \in Nat
    PROVE  \E h : /\ Str!Power(b, n) = h[n] /\ h \in [0 .. n -> Int] /\ h[0] = 1
                  /\ \A x \in 1 .. n : h[x] = b * h[x - 1]
<1> DEFINE g == [x \in 1 .. n |-> [y \in Int |-> b * y]]
<1>1. StepsIn(g, n, Int)
  BY DEF StepsIn
<1>2. \A x \in 1 .. n : \A y \in Int : g[x][y] = b * y
  OBVIOUS
<1> HIDE DEF g
<1>3. PICK h \in [0 .. n -> Int] : h[0] = 1 /\ Iterates(h, g, n)
  <2>1. 1 \in Int
    OBVIOUS
  <2> QED
    BY <1>1, <2>1, RecursionExists, Zenon
<1>4. ASSUME NEW x \in 1 .. n PROVE h[x] = b * h[x - 1]
  <2>1. x - 1 \in 0 .. n
    OBVIOUS
  <2>2. h[x - 1] \in Int
    BY <1>3, <2>1
  <2>3. h[x] = g[x][h[x - 1]]
    BY <1>3 DEF Iterates
  <2> QED
    BY <1>2, <2>2, <2>3
<1>5. PowerSolves(h, b, n)
  BY <1>3, <1>4 DEF PowerSolves
<1>6. PICK f : f = CHOOSE p : PowerSolves(p, b, n)
  OBVIOUS
<1>7. PowerSolves(f, b, n)
  BY <1>5, <1>6, Zenon
<1>8. Str!Power(b, n) = f[n]
  BY <1>6 DEF Str!Power, PowerSolves
<1>9. f[0] = 1 /\ \A x \in 1 .. n : f[x] = b * f[x - 1]
  BY <1>7 DEF PowerSolves
<1> DEFINE T == {x \in Nat : x <= n => f[x] = h[x]}
<1>10. 0 \in T
  BY <1>3, <1>9
<1>11. ASSUME NEW l \in Nat, l \in T PROVE l + 1 \in T
  <2> SUFFICES ASSUME l + 1 <= n PROVE f[l + 1] = h[l + 1]
    OBVIOUS
  <2>1. f[l] = h[l] /\ l + 1 \in 1 .. n /\ (l + 1) - 1 = l
    BY <1>11
  <2> QED
    BY <1>4, <1>9, <2>1
<1> HIDE DEF T
<1>12. n \in T
  BY <1>10, <1>11, InductionOnSet
<1>13. f[n] = h[n]
  BY <1>12 DEF T
<1> QED
  BY <1>3, <1>4, <1>8, <1>13

(* What the recursion of Power says.                                       *)
LEMMA PowerSteps ==
    ASSUME NEW b \in Int, NEW n \in Nat
    PROVE  /\ Str!Power(b, 0) = 1 /\ Str!Power(b, n) \in Int
           /\ Str!Power(b, n + 1) = b * Str!Power(b, n)
<1>1. Str!Power(b, 0) = 1
  BY PowerIs
<1>2. PICK f : /\ Str!Power(b, n) = f[n] /\ f \in [0 .. n -> Int] /\ f[0] = 1
               /\ \A x \in 1 .. n : f[x] = b * f[x - 1]
  BY PowerIs
<1>3. PICK h : /\ Str!Power(b, n + 1) = h[n + 1] /\ h \in [0 .. n + 1 -> Int] /\ h[0] = 1
               /\ \A x \in 1 .. n + 1 : h[x] = b * h[x - 1]
  <2>1. n + 1 \in Nat
    OBVIOUS
  <2> QED
    BY <2>1, PowerIs, Zenon
<1> DEFINE T == {x \in Nat : x <= n => f[x] = h[x]}
<1>4. 0 \in T
  BY <1>2, <1>3
<1>5. ASSUME NEW l \in Nat, l \in T PROVE l + 1 \in T
  <2> SUFFICES ASSUME l + 1 <= n PROVE f[l + 1] = h[l + 1]
    OBVIOUS
  <2>1. f[l] = h[l] /\ l + 1 \in 1 .. n /\ l + 1 \in 1 .. n + 1 /\ (l + 1) - 1 = l
    BY <1>5
  <2> QED
    BY <1>2, <1>3, <2>1
<1> HIDE DEF T
<1>6. n \in T
  BY <1>4, <1>5, InductionOnSet
<1>7. f[n] = h[n]
  BY <1>6 DEF T
<1>8. h[n + 1] = b * h[n]
  <2>1. n + 1 \in 1 .. n + 1 /\ (n + 1) - 1 = n
    OBVIOUS
  <2> QED
    BY <1>3, <2>1
<1> QED
  BY <1>1, <1>2, <1>3, <1>7, <1>8

(***************************************************************************)
(* memset's word.                                                          *)
(***************************************************************************)
(* p holds the powers of B, r the number of x places that are all b.       *)
Places(B, b, p, r) ==
    /\ p \in [0 .. 8 -> Nat] /\ r \in [0 .. 8 -> Nat] /\ p[0] = 1 /\ r[0] = 0
    /\ \A x \in 0 .. 7 : p[x + 1] = B * p[x] /\ r[x + 1] = B * r[x] + b

(* x places hold a number below the x-th power.                            *)
LEMMA PlacesBound ==
    ASSUME NEW B \in Nat \ {0}, NEW b \in 0 .. B - 1, NEW p, NEW r, Places(B, b, p, r)
    PROVE  \A x \in 0 .. 8 : r[x] < p[x]
<1>0. /\ p[0] = 1 /\ r[0] = 0 /\ \A z \in 0 .. 8 : p[z] \in Nat /\ r[z] \in Nat
      /\ \A z \in 0 .. 7 : p[z + 1] = B * p[z] /\ r[z + 1] = B * r[z] + b
  BY DEF Places
<1> DEFINE T == {x \in Nat : x <= 8 => r[x] < p[x]}
<1>1. 0 \in T
  <2>1. p[0] = 1 /\ r[0] = 0
    BY <1>0, Zenon
  <2> QED
    BY <2>1
<1>2. ASSUME NEW x \in Nat, x \in T PROVE x + 1 \in T
  <2> SUFFICES ASSUME x \in 0 .. 7 PROVE r[x + 1] < p[x + 1]
    OBVIOUS
  <2>1. PICK P, R : P = p[x] /\ R = r[x]
    OBVIOUS
  <2>2. P \in Nat /\ R \in Nat /\ R + 1 <= P /\ p[x + 1] = B * P /\ r[x + 1] = B * R + b
    <3>1. x \in 0 .. 8 /\ R < P
      BY <1>2, <2>1
    <3>2. P \in Nat /\ R \in Nat
      BY <2>1, <3>1, <1>0
    <3>3. p[x + 1] = B * P /\ r[x + 1] = B * R + b
      BY <1>0, <2>1, Zenon
    <3> QED
      BY <3>1, <3>2, <3>3
  <2>3. B * (R + 1) <= B * P
    BY <2>2
  <2>4. B * (R + 1) = B * R + B /\ B * R \in Nat /\ B * P \in Nat
    BY <2>2
  <2>5. B * R + b < B * P
    BY <2>3, <2>4
  <2> QED
    BY <2>2, <2>5
<1> HIDE DEF T
<1>3. \A x \in Nat : x \in T
  BY <1>1, <1>2, InductionOnSet
<1> QED
  BY <1>3 DEF T

(* Places put side by side.                                                *)
LEMMA PlacesSplit ==
    ASSUME NEW B \in Nat \ {0}, NEW b \in 0 .. B - 1, NEW p, NEW r, Places(B, b, p, r), NEW x \in 0 .. 8
    PROVE  \A y \in 0 .. 8 - x : r[x + y] = r[x] * p[y] + r[y]
<1>0. /\ p[0] = 1 /\ r[0] = 0 /\ \A z \in 0 .. 8 : p[z] \in Nat /\ r[z] \in Nat
      /\ \A z \in 0 .. 7 : p[z + 1] = B * p[z] /\ r[z + 1] = B * r[z] + b
  BY DEF Places
<1> DEFINE T == {y \in Nat : x + y <= 8 => r[x + y] = r[x] * p[y] + r[y]}
<1>1. 0 \in T
  <2>1. r[x] \in Nat /\ p[0] = 1 /\ r[0] = 0
    BY <1>0, Zenon
  <2>2. r[x + 0] = r[x]
    OBVIOUS
  <2>3. r[x + 0] = r[x] * p[0] + r[0]
    BY <2>1, <2>2
  <2> QED
    BY <2>3
<1>2. ASSUME NEW y \in Nat, y \in T PROVE y + 1 \in T
  <2> SUFFICES ASSUME x + (y + 1) <= 8 PROVE r[x + (y + 1)] = r[x] * p[y + 1] + r[y + 1]
    OBVIOUS
  <2>1. PICK P, R, S, Q : P = p[y] /\ R = r[y] /\ S = r[x] /\ Q = r[x + y]
    OBVIOUS
  <2>2. /\ y \in 0 .. 7 /\ x + y \in 0 .. 7 /\ (x + y) + 1 = x + (y + 1)
        /\ x \in 0 .. 8
    OBVIOUS
  <2>3. P \in Nat /\ R \in Nat /\ S \in Nat /\ Q \in Nat
    <3>1. y \in 0 .. 8 /\ x + y \in 0 .. 8
      BY <2>2
    <3> QED
      BY <2>1, <3>1, <1>0
  <2>4. p[y + 1] = B * P /\ r[y + 1] = B * R + b /\ r[x + (y + 1)] = B * Q + b
    BY <2>1, <2>2, <1>0
  <2>5. Q = S * P + R
    BY <1>2, <2>1, <2>2
  <2>6. B * Q + b = S * (B * P) + (B * R + b)
    <3>1. B * Q = B * (S * P) + B * R
      BY <2>3, <2>5
    <3>2. B * (S * P) = S * (B * P)
      BY <2>3
    <3>3. B * Q \in Nat /\ B * (S * P) \in Nat /\ B * R \in Nat
      BY <2>3
    <3> QED
      BY <3>1, <3>2, <3>3
  <2> QED
    BY <2>1, <2>4, <2>6
<1> HIDE DEF T
<1>3. \A y \in Nat : y \in T
  BY <1>1, <1>2, InductionOnSet
<1> QED
  BY <1>3 DEF T

(* Each of its places holds b.                                             *)
LEMMA PlacesHold ==
    ASSUME NEW B \in Nat \ {0}, NEW b \in 0 .. B - 1, NEW p, NEW r, Places(B, b, p, r),
           NEW n \in 1 .. 8, NEW y \in Nat, y < n
    PROVE  (r[n] \div p[y]) % B = b
<1>0. /\ p[0] = 1 /\ r[0] = 0 /\ \A z \in 0 .. 8 : p[z] \in Nat /\ r[z] \in Nat
      /\ \A z \in 0 .. 7 : p[z + 1] = B * p[z] /\ r[z + 1] = B * r[z] + b
  BY DEF Places
<1>1. PICK x \in 0 .. 7 : n = (x + 1) + y
  <2>1. n - 1 - y \in 0 .. 7 /\ n = ((n - 1 - y) + 1) + y
    OBVIOUS
  <2> QED
    BY <2>1
<1>2. PICK P, R, S, Q, N : P = p[y] /\ R = r[y] /\ S = r[x + 1] /\ Q = r[x] /\ N = r[n]
  OBVIOUS
<1>3. x \in 0 .. 8 /\ x + 1 \in 0 .. 8 /\ y \in 0 .. 8 /\ n \in 0 .. 8 /\ y \in 0 .. 8 - (x + 1)
  BY <1>1
<1>4. P \in Nat /\ R \in Nat /\ S \in Nat /\ Q \in Nat /\ N \in Nat
  BY <1>2, <1>3, <1>0
<1>5. R < P
  BY <1>2, <1>3, PlacesBound
<1>6. N = S * P + R
  <2>1. r[(x + 1) + y] = r[x + 1] * p[y] + r[y]
    BY <1>3, PlacesSplit
  <2> QED
    BY <1>1, <1>2, <2>1
<1>7. S = Q * B + b
  <2>1. S = B * Q + b
    BY <1>1, <1>2, <1>0
  <2> QED
    BY <1>4, <2>1
<1>8. N \div P = S /\ N % P = R
  BY <1>4, <1>5, <1>6, DivisionUnique
<1>9. S \div B = Q /\ S % B = b
  BY <1>4, <1>7, DivisionUnique
<1> QED
  BY <1>2, <1>8, <1>9

(* Powers of naturals are naturals.                                        *)
LEMMA PowerNat ==
    ASSUME NEW b \in Nat
    PROVE  \A n \in Nat : Str!Power(b, n) \in Nat
<1> DEFINE T == {n \in Nat : Str!Power(b, n) \in Nat}
<1>1. 0 \in T
  BY PowerSteps
<1>2. ASSUME NEW n \in Nat, n \in T PROVE n + 1 \in T
  <2>1. b \in Int /\ Str!Power(b, n) \in Nat
    BY <1>2
  <2>2. Str!Power(b, n + 1) = b * Str!Power(b, n)
    BY <2>1, PowerSteps
  <2> QED
    BY <2>1, <2>2
<1> HIDE DEF T
<1>3. \A n \in Nat : n \in T
  BY <1>1, <1>2, InductionOnSet
<1> QED
  BY <1>3 DEF T

(* Both sequences exist.                                                   *)
LEMMA PlacesExist ==
    ASSUME NEW B \in Nat \ {0}, NEW b \in 0 .. B - 1
    PROVE  \E r : Places(B, b, [x \in 0 .. 8 |-> Str!Power(B, x)], r)
<1> DEFINE p == [x \in 0 .. 8 |-> Str!Power(B, x)]
           g == [x \in 1 .. 8 |-> [y \in Nat |-> B * y + b]]
<1>1. StepsIn(g, 8, Nat)
  <2>1. \A y \in Nat : B * y + b \in Nat
    OBVIOUS
  <2> QED
    BY <2>1 DEF StepsIn
<1>2. \A x \in 1 .. 8 : \A y \in Nat : g[x][y] = B * y + b
  OBVIOUS
<1> HIDE DEF g
<1>3. PICK r \in [0 .. 8 -> Nat] : r[0] = 0 /\ Iterates(r, g, 8)
  <2>1. 0 \in Nat /\ 8 \in Nat
    OBVIOUS
  <2> QED
    BY <1>1, <2>1, RecursionExists, Zenon
<1>4. p \in [0 .. 8 -> Nat]
  <2>1. B \in Nat
    OBVIOUS
  <2>2. \A n \in Nat : Str!Power(B, n) \in Nat
    BY <2>1, PowerNat, Zenon
  <2> QED
    BY <2>2
<1>5. p[0] = 1
  BY PowerSteps
<1>6. ASSUME NEW x \in 0 .. 7 PROVE p[x + 1] = B * p[x] /\ r[x + 1] = B * r[x] + b
  <2>1. Str!Power(B, x + 1) = B * Str!Power(B, x)
    BY PowerSteps
  <2>2. x \in 0 .. 8 /\ x + 1 \in 1 .. 8 /\ x + 1 \in 0 .. 8 /\ (x + 1) - 1 = x
    OBVIOUS
  <2>3. r[x] \in Nat /\ r[x + 1] = g[x + 1][r[x]]
    BY <1>3, <2>2 DEF Iterates
  <2>4. r[x + 1] = B * r[x] + b
    BY <1>2, <2>2, <2>3
  <2> QED
    BY <2>1, <2>2, <2>4
<1> HIDE DEF p
<1>7. Places(B, b, p, r)
  BY <1>3, <1>4, <1>5, <1>6 DEF Places
<1> QED
  BY <1>7 DEF p

(* Each byte of memset's word is the byte stored.                          *)
LEMMA ReplicatedHolds ==
    ASSUME NEW ws \in {2, 4, 8}, NEW byte \in Int, NEW y \in 0 .. ws - 1
    PROVE  Str!ByteOf(Str!Replicated(ws, byte), y) = byte % Base
<1>1. Base \in Nat \ {0}
  BY TestEnvAssumption
<1>2. PICK B, b : B = Base /\ b = byte % Base
  OBVIOUS
<1>3. B \in Nat \ {0} /\ b \in 0 .. B - 1
  BY <1>1, <1>2, DivisionExists
<1>4. PICK p, r : Places(B, b, p, r) /\ p = [x \in 0 .. 8 |-> Str!Power(B, x)]
  BY <1>3, PlacesExist
<1>5. /\ p[0] = 1 /\ r[0] = 0 /\ \A z \in 0 .. 8 : p[z] \in Nat /\ r[z] \in Nat
      /\ \A z \in 0 .. 7 : p[z + 1] = B * p[z] /\ r[z + 1] = B * r[z] + b
  BY <1>4 DEF Places
<1>6. /\ r[1] \in Nat /\ r[2] \in Nat /\ r[4] \in Nat /\ r[8] \in Nat
      /\ p[1] \in Nat /\ p[2] \in Nat /\ p[4] \in Nat /\ p[8] \in Nat
  BY <1>5
<1>7. r[1] = b /\ p[1] = B
  <2>1. p[0 + 1] = B * p[0] /\ r[0 + 1] = B * r[0] + b
    BY <1>5
  <2> QED
    BY <1>3, <1>5, <2>1
<1>8. r[2] = r[1] * p[1] + r[1] /\ r[4] = r[2] * p[2] + r[2] /\ r[8] = r[4] * p[4] + r[4]
  <2>1. r[1 + 1] = r[1] * p[1] + r[1]
    BY <1>3, <1>4, PlacesSplit
  <2>2. r[2 + 2] = r[2] * p[2] + r[2]
    BY <1>3, <1>4, PlacesSplit
  <2>3. r[4 + 4] = r[4] * p[4] + r[4]
    BY <1>3, <1>4, PlacesSplit
  <2> QED
    BY <2>1, <2>2, <2>3
<1>9. r[2] < p[ws]
  <2>1. r[2] <= r[4] /\ r[4] <= r[8]
    BY <1>6, <1>8
  <2>2. r[ws] < p[ws]
    BY <1>3, <1>4, PlacesBound
  <2>3. r[2] <= r[ws] /\ r[ws] \in Nat /\ p[ws] \in Nat
    BY <1>6, <2>1
  <2> QED
    BY <1>6, <2>2, <2>3
<1>10. p[ws] \in Nat \ {0}
  BY <1>6, <1>9
<1>11. r[2] % p[ws] = r[2]
  <2>1. PICK R, P : R = r[2] /\ P = p[ws]
    OBVIOUS
  <2>2. R \in Nat /\ P \in Nat \ {0} /\ R \in 0 .. P - 1 /\ R = 0 * P + R
    BY <1>6, <1>9, <1>10, <2>1
  <2>3. R \div P = 0 /\ R % P = R
    BY <2>2, DivisionUnique
  <2> QED
    BY <2>1, <2>3
<1>12. Str!Power(Base, ws) = p[ws] /\ Str!Power(Base, 2) = p[2] /\ Str!Power(Base, 4) = p[4]
       /\ Str!Power(Base, y) = p[y]
  BY <1>2, <1>4
<1>13. b + b * B = r[2]
  BY <1>3, <1>6, <1>7, <1>8
<1>14. Str!Replicated(ws, byte) = r[ws]
  <2>1. Str!Replicated(ws, byte) =
          LET w4 == IF ws <= 2 THEN r[2] ELSE r[2] + r[2] * p[2]
          IN  IF ws <= 4 THEN w4 ELSE w4 + w4 * p[4]
    BY <1>2, <1>11, <1>12, <1>13, Zenon DEF Str!Replicated
  <2>2. r[4] = r[2] + r[2] * p[2] /\ r[8] = r[4] + r[4] * p[4]
    BY <1>6, <1>8
  <2> QED
    BY <2>1, <2>2
<1>15. (r[ws] \div p[y]) % B = b
  <2>1. ws \in 1 .. 8 /\ y \in Nat /\ y < ws
    OBVIOUS
  <2> QED
    BY <1>3, <1>4, <2>1, PlacesHold
<1> QED
  BY <1>2, <1>12, <1>14, <1>15, Zenon DEF Str!ByteOf

(***************************************************************************)
(* What the functions do, whichever loop they choose.                      *)
(***************************************************************************)
Constants == Size \in Nat \ {0} /\ WordSize \in {2, 4, 8} /\ Base \in Nat \ {0, 1}

(* The parameters of the library.                                          *)
LEMMA ConstantsHold == Constants
  BY TestEnvAssumption DEF Constants

(* A length is whole words and a rest below a word.                        *)
LEMMA WholeWords ==
    ASSUME NEW n \in Nat
    PROVE  /\ n \div WordSize \in Nat /\ n % WordSize \in 0 .. WordSize - 1
           /\ n = (n \div WordSize) * WordSize + (n % WordSize)
<1>1. CASE WordSize = 2
  BY <1>1
<1>2. CASE WordSize = 4
  BY <1>2
<1>3. CASE WordSize = 8
  BY <1>3
<1> QED
  BY <1>1, <1>2, <1>3, ConstantsHold DEF Constants

(* memcpy copies len bytes, by words or by bytes.                          *)
LEMMA MemcpyIs ==
    ASSUME NEW mm, NEW dest, NEW src, NEW n, CopyInput(mm, dest, src, n)
    PROVE  Str!memcpy(mm, dest, src, n) = Copied(mm, dest, src, n)
<1>1. n \in Nat /\ WordSize \in Nat
  BY ConstantsHold DEF Constants, CopyInput
<1>2. CASE Str!Aligned(dest) /\ Str!Aligned(src) /\ Str!Aligned(n)
  <2>1. PICK q, z : q = n \div WordSize /\ z = n % WordSize
    OBVIOUS
  <2>2. q \in Nat /\ n = q * WordSize + z
    BY <1>1, <2>1, WholeWords
  <2>3. z = 0
    BY <1>2, <2>1 DEF Str!Aligned
  <2>4. n = q * WordSize
    BY <1>1, <2>2, <2>3
  <2>5. Str!CopyLoop(mm, dest, src, WordSize, q) = Copied(mm, dest, src, n)
    BY <1>1, <2>2, <2>4, CopyLoopIs
  <2> QED
    BY <1>2, <2>1, <2>5 DEF Str!memcpy
<1>3. CASE ~(Str!Aligned(dest) /\ Str!Aligned(src) /\ Str!Aligned(n))
  <2>1. PICK u : u \in Nat /\ u = 1 /\ n = n * u
    BY <1>1
  <2>2. Str!CopyLoop(mm, dest, src, u, n) = Copied(mm, dest, src, n)
    BY <1>1, <2>1, CopyLoopIs
  <2> QED
    BY <1>3, <2>1, <2>2 DEF Str!memcpy
<1> QED
  BY <1>2, <1>3

(* n bytes of two memories are the same; all but n bytes are.              *)
SameBytes(mm, a, nn, b, n) == \A x \in 0 .. n - 1 : mm[a + x] = nn[b + x]
SameElsewhere(mm, nn, d, n) == \A a \in Str!Addrs \ (d .. d + n - 1) : mm[a] = nn[a]

(* What copying leaves.                                                    *)
LEMMA CopiedExact ==
    ASSUME NEW mm, NEW dest \in Nat, NEW src \in Nat, NEW n \in Nat, dest + n <= Size,
           NEW new, new = Copied(mm, dest, src, n)
    PROVE  SameBytes(new, dest, mm, src, n) /\ SameElsewhere(new, mm, dest, n)
<1>1. Size \in Nat
  BY ConstantsHold DEF Constants
<1>2. ASSUME NEW x \in 0 .. n - 1 PROVE new[dest + x] = mm[src + x]
  <2>1. PICK a : a = dest + x
    OBVIOUS
  <2>2. a \in 0 .. Size - 1 /\ a \in dest .. dest + n - 1 /\ src + (a - dest) = src + x
    BY <1>1, <2>1
  <2>3. new[a] = mm[src + (a - dest)]
    BY <2>2 DEF Copied, Str!Addrs
  <2> QED
    BY <2>1, <2>2, <2>3
<1>3. ASSUME NEW a \in Str!Addrs \ (dest .. dest + n - 1) PROVE new[a] = mm[a]
  BY DEF Copied
<1> QED
  BY <1>2, <1>3 DEF SameBytes, SameElsewhere

(* memset stores the byte where it should and nowhere else.                *)
LEMMA MemsetIs ==
    ASSUME NEW mm, NEW dest \in Nat, NEW byte \in Int, NEW n \in Nat, dest + n <= Size,
           NEW new, new = Str!memset(mm, dest, byte, n)
    PROVE  /\ \A a \in dest .. dest + n - 1 : new[a] = byte % Base
           /\ SameElsewhere(new, mm, dest, n)
<1>1. Size \in Nat /\ WordSize \in {2, 4, 8}
  BY ConstantsHold DEF Constants
<1>2. ASSUME NEW a \in dest .. dest + n - 1 PROVE new[a] = byte % Base
  <2>1. a \in Str!Addrs
    BY <1>1 DEF Str!Addrs
  <2>2. PICK y, w : y = (a - dest) % WordSize /\ w = Str!Replicated(WordSize, byte)
    OBVIOUS
  <2>3. y \in 0 .. WordSize - 1
    <3>1. a - dest \in Nat
      OBVIOUS
    <3> QED
      BY <2>2, <3>1, WholeWords
  <2>4. Str!ByteOf(w, y) = byte % Base
    BY <1>1, <2>2, <2>3, ReplicatedHolds
  <2>5. new[a] = IF Str!Aligned(dest) /\ Str!Aligned(n) THEN Str!ByteOf(w, y) ELSE byte % Base
    BY <2>1, <2>2 DEF Str!memset
  <2> QED
    BY <2>4, <2>5
<1>3. ASSUME NEW a \in Str!Addrs \ (dest .. dest + n - 1) PROVE new[a] = mm[a]
  BY DEF Str!memset
<1> QED
  BY <1>2, <1>3 DEF SameElsewhere

(* A string of n characters from s on.                                     *)
StringAt(mm, s, n) ==
    /\ n \in Nat /\ s + n < Size /\ mm[s + n] = 0 /\ \A x \in 0 .. n - 1 : mm[s + x] # 0

(* strlen finds the terminator.                                            *)
LEMMA StrlenIs ==
    ASSUME NEW mm, NEW s \in Str!Addrs, Str!Terminated(mm, s), NEW n, n = Str!strlen(mm, s)
    PROVE  StringAt(mm, s, n)
<1>1. Size \in Nat \ {0} /\ s \in 0 .. Size - 1
  BY ConstantsHold DEF Constants, Str!Addrs
<1>2. PICK P, z : P = [x \in 0 .. Size - 1 - s |-> mm[s + x] = 0] /\ z = Size - s
  OBVIOUS
<1>3. n = Str!FirstOf(P, z) /\ z \in Nat
  BY <1>1, <1>2 DEF Str!strlen
<1>4. /\ n \in 0 .. z /\ (n = z \/ P[n])
      /\ \A x \in 0 .. n - 1 : ~P[x]
  BY <1>3, FirstOfIs
<1>5. PICK a \in s .. Size - 1 : mm[a] = 0
  BY DEF Str!Terminated
<1>6. a - s \in 0 .. Size - 1 - s /\ s + (a - s) = a
  BY <1>1
<1>7. P[a - s]
  BY <1>2, <1>5, <1>6
<1>8. n # z
  <2> SUFFICES ASSUME n = z PROVE FALSE
    OBVIOUS
  <2>1. a - s \in 0 .. n - 1
    BY <1>1, <1>2, <1>6
  <2> QED
    BY <1>4, <1>7, <2>1, Zenon
<1>9. n \in 0 .. Size - 1 - s
  BY <1>1, <1>2, <1>4, <1>8
<1>10. mm[s + n] = 0
  BY <1>2, <1>4, <1>8, <1>9
<1>11. ASSUME NEW x \in 0 .. n - 1 PROVE mm[s + x] # 0
  <2>1. x \in 0 .. Size - 1 - s
    BY <1>1, <1>9
  <2> QED
    BY <1>2, <1>4, <2>1
<1> QED
  BY <1>1, <1>9, <1>10, <1>11 DEF StringAt

(* The string at s is the bytes before the terminator.                     *)
LEMMA CStringIs ==
    ASSUME NEW mm, NEW s \in Nat, NEW n, StringAt(mm, s, n)
    PROVE  Str!CString(mm, s) = Str!Bytes(mm, s, n)
<1>1. Size \in Nat
  BY ConstantsHold DEF Constants
<1>2. PICK E : E = {x \in 0 .. Size - 1 - s : mm[s + x] = 0}
  OBVIOUS
<1>3. n \in E /\ \A x \in E : n <= x
  BY <1>1, <1>2 DEF StringAt
<1>4. E \subseteq Int
  BY <1>1, <1>2
<1>5. PICK c : c = CHOOSE x \in E : \A y \in E : x <= y
  OBVIOUS
<1>6. c \in E /\ \A y \in E : c <= y
  BY <1>3, <1>5
<1>7. c = n
  BY <1>3, <1>4, <1>6
<1> QED
  BY <1>2, <1>5, <1>7 DEF Str!CString

(* A run of bytes as a sequence.                                           *)
LEMMA BytesFacts ==
    ASSUME NEW mm, NEW a, NEW n \in Nat
    PROVE  /\ DOMAIN Str!Bytes(mm, a, n) = 1 .. n /\ Len(Str!Bytes(mm, a, n)) = n
           /\ \A x \in 1 .. n : Str!Bytes(mm, a, n)[x] = mm[a + x - 1]
  BY DEF Str!Bytes

(* Equal bytes, equal sequences.                                           *)
LEMMA BytesEqual ==
    ASSUME NEW mm, NEW nn, NEW a \in Int, NEW b \in Int, NEW n \in Nat,
           SameBytes(mm, a, nn, b, n)
    PROVE  Str!Bytes(mm, a, n) = Str!Bytes(nn, b, n)
<1>1. ASSUME NEW x \in 1 .. n PROVE mm[a + x - 1] = nn[b + x - 1]
  <2>1. x - 1 \in 0 .. n - 1 /\ a + (x - 1) = a + x - 1 /\ b + (x - 1) = b + x - 1
    OBVIOUS
  <2>2. mm[a + (x - 1)] = nn[b + (x - 1)]
    BY <2>1 DEF SameBytes
  <2> QED
    BY <2>1, <2>2
<1> QED
  BY <1>1 DEF Str!Bytes

(* strcpy leaves the same string at its destination.                       *)
LEMMA StrcpyIs ==
    ASSUME NEW mm, mm = [a \in Str!Addrs |-> mm[a]], NEW d \in Str!Addrs, NEW s \in Str!Addrs,
           Str!Terminated(mm, s), NEW n, n = Str!strlen(mm, s), d + n < Size,
           Str!Apart(d, s, n + 1), NEW new, new = Str!strcpy(mm, d, s)
    PROVE  /\ Str!CString(new, d) = Str!CString(mm, s) /\ Len(Str!CString(mm, s)) = n
           /\ SameElsewhere(new, mm, d, n + 1)
<1>1. Size \in Nat /\ d \in Nat /\ s \in Nat
  BY ConstantsHold DEF Constants, Str!Addrs
<1>2. StringAt(mm, s, n)
  BY StrlenIs
<1>3. n \in Nat /\ s + n < Size /\ mm[s + n] = 0 /\ \A x \in 0 .. n - 1 : mm[s + x] # 0
  BY <1>2 DEF StringAt
<1>4. PICK e : e = n + 1
  OBVIOUS
<1>5. CopyInput(mm, d, s, e)
  BY <1>1, <1>3, <1>4 DEF CopyInput
<1>6. new = Copied(mm, d, s, e)
  <2>1. PICK u : u \in Nat /\ u = 1 /\ e = e * u /\ e \in Nat
    BY <1>3, <1>4
  <2>2. Str!CopyLoop(mm, d, s, u, e) = Copied(mm, d, s, e)
    BY <1>5, <2>1, CopyLoopIs
  <2> QED
    BY <1>4, <2>1, <2>2 DEF Str!strcpy
<1>7. SameBytes(new, d, mm, s, e) /\ SameElsewhere(new, mm, d, e)
  <2>1. e \in Nat /\ d + e <= Size
    BY <1>1, <1>3, <1>4
  <2> QED
    BY <1>1, <1>6, <2>1, CopiedExact
<1>8. StringAt(new, d, n)
  <2>1. n \in 0 .. e - 1
    BY <1>3, <1>4
  <2>2. new[d + n] = 0
    BY <1>3, <1>7, <2>1 DEF SameBytes
  <2>3. ASSUME NEW x \in 0 .. n - 1 PROVE new[d + x] # 0
    <3>1. x \in 0 .. e - 1
      BY <1>3, <1>4
    <3> QED
      BY <1>3, <1>7, <3>1 DEF SameBytes
  <2> QED
    BY <1>3, <2>2, <2>3 DEF StringAt
<1>9. Str!CString(new, d) = Str!Bytes(new, d, n) /\ Str!CString(mm, s) = Str!Bytes(mm, s, n)
  BY <1>1, <1>2, <1>8, CStringIs
<1>10. Str!Bytes(new, d, n) = Str!Bytes(mm, s, n)
  <2>1. SameBytes(new, d, mm, s, n)
    BY <1>3, <1>4, <1>7 DEF SameBytes
  <2> QED
    BY <1>1, <1>3, <2>1, BytesEqual
<1>11. Len(Str!Bytes(mm, s, n)) = n
  BY <1>3, BytesFacts
<1> QED
  BY <1>4, <1>7, <1>9, <1>10, <1>11

(***************************************************************************)
(* The comparisons.                                                        *)
(***************************************************************************)
(* x is where two ranges of n bytes first differ, n if they do not.        *)
Differ(mm, s, r, n, x) ==
    /\ x \in 0 .. n /\ (x < n => mm[s + x] # mm[r + x])
    /\ \A y \in 0 .. x - 1 : mm[s + y] = mm[r + y]

(* The lexicographic order is decided where two runs first differ.         *)
LEMMA LexSignIs ==
    ASSUME NEW mm, NEW s \in Int, NEW r \in Int, NEW n \in Nat, NEW x, Differ(mm, s, r, n, x)
    PROVE  Str!LexSign(Str!Bytes(mm, s, n), Str!Bytes(mm, r, n))
             = IF x = n THEN 0 ELSE Str!Sign(mm[s + x] - mm[r + x])
<1>1. /\ x \in 0 .. n /\ (x < n => mm[s + x] # mm[r + x])
      /\ \A y \in 0 .. x - 1 : mm[s + y] = mm[r + y]
  BY DEF Differ
<1>2. PICK p, q : p = Str!Bytes(mm, s, n) /\ q = Str!Bytes(mm, r, n)
  OBVIOUS
<1>3. CASE x = n
  <2>1. SameBytes(mm, s, mm, r, n)
    BY <1>1, <1>3 DEF SameBytes
  <2>2. p = q
    BY <1>2, <2>1, BytesEqual
  <2> QED
    BY <1>2, <1>3, <2>2 DEF Str!LexSign
<1>4. CASE x # n
  <2>1. x < n /\ x + 1 \in 1 .. n /\ s + (x + 1) - 1 = s + x /\ r + (x + 1) - 1 = r + x
    BY <1>1, <1>4
  <2>2. /\ DOMAIN p = 1 .. n /\ \A y \in 1 .. n : p[y] = mm[s + y - 1] /\ q[y] = mm[r + y - 1]
    BY <1>2, BytesFacts
  <2>3. p[x + 1] = mm[s + x] /\ q[x + 1] = mm[r + x]
    BY <2>1, <2>2
  <2>4. p # q
    BY <1>1, <2>1, <2>3
  <2>5. ASSUME NEW y \in 1 .. x PROVE p[y] = q[y]
    <3>1. y \in 1 .. n /\ y - 1 \in 0 .. x - 1 /\ s + (y - 1) = s + y - 1 /\ r + (y - 1) = r + y - 1
      BY <1>1
    <3>2. mm[s + (y - 1)] = mm[r + (y - 1)]
      BY <1>1, <3>1
    <3> QED
      BY <2>2, <3>1, <3>2
  <2>6. PICK c : c = CHOOSE z \in DOMAIN p : p[z] # q[z] /\ \A l \in 1 .. z - 1 : p[l] = q[l]
    OBVIOUS
  <2>7. x + 1 \in DOMAIN p /\ p[x + 1] # q[x + 1] /\ \A l \in 1 .. (x + 1) - 1 : p[l] = q[l]
    BY <1>1, <2>1, <2>2, <2>3, <2>5
  <2>8. c \in 1 .. n /\ p[c] # q[c] /\ \A l \in 1 .. c - 1 : p[l] = q[l]
    BY <2>2, <2>6, <2>7
  <2>9. c = x + 1
    <3>1. ~(c <= x)
      BY <2>5, <2>8
    <3>2. ~(c > x + 1)
      <4> SUFFICES ASSUME c > x + 1 PROVE FALSE
        OBVIOUS
      <4>1. x + 1 \in 1 .. c - 1
        BY <1>1, <2>8
      <4> QED
        BY <2>7, <2>8, <4>1
    <3> QED
      BY <1>1, <2>8, <3>1, <3>2
  <2>10. Str!LexSign(p, q) = Str!Sign(p[c] - q[c])
    BY <2>4, <2>6 DEF Str!LexSign
  <2> QED
    BY <1>2, <1>4, <2>3, <2>9, <2>10
<1> QED
  BY <1>3, <1>4

(* The bytes memcmp has found equal when its word loop stops.              *)
WordsEqual(mm, s, r, n) ==
    IF Str!Aligned(s) /\ Str!Aligned(r)
      THEN Str!FirstOf([y \in 0 .. (n \div WordSize) - 1 |->
                          Str!Word(mm, s + y * WordSize) # Str!Word(mm, r + y * WordSize)],
                       n \div WordSize) * WordSize
      ELSE 0

(* The words memcmp skips hold equal bytes.                                *)
LEMMA WordsEqualIs ==
    ASSUME NEW mm, NEW s \in Nat, NEW r \in Nat, NEW n \in Nat, NEW w, w = WordsEqual(mm, s, r, n)
    PROVE  w \in 0 .. n /\ SameBytes(mm, s, mm, r, w)
<1>1. CASE ~(Str!Aligned(s) /\ Str!Aligned(r))
  <2>1. w = 0
    BY <1>1 DEF WordsEqual
  <2> QED
    BY <2>1 DEF SameBytes
<1>2. CASE Str!Aligned(s) /\ Str!Aligned(r)
  <2>1. PICK e, P : /\ e = n \div WordSize
                    /\ P = [y \in 0 .. e - 1 |-> Str!Word(mm, s + y * WordSize)
                                                   # Str!Word(mm, r + y * WordSize)]
    OBVIOUS
  <2>2. PICK f : f = Str!FirstOf(P, e)
    OBVIOUS
  <2>3. w = f * WordSize
    BY <1>2, <2>1, <2>2, Zenon DEF WordsEqual
  <2>4. WordSize \in Nat /\ e \in Nat /\ e * WordSize <= n
    <3>1. PICK z : z = n % WordSize
      OBVIOUS
    <3>2. WordSize \in Nat
      BY ConstantsHold DEF Constants
    <3>3. e \in Nat /\ z \in 0 .. WordSize - 1 /\ n = e * WordSize + z
      BY <2>1, <3>1, WholeWords
    <3>4. e * WordSize \in Nat
      BY <3>2, <3>3
    <3> QED
      BY <3>2, <3>3, <3>4
  <2>5. /\ f \in 0 .. e /\ (f = e \/ P[f])
        /\ \A x \in 0 .. f - 1 : ~P[x]
    BY <2>2, <2>4, FirstOfIs
  <2>6. w \in 0 .. n
    <3>1. f \in Nat /\ f <= e
      BY <2>4, <2>5
    <3>2. f * WordSize \in Nat /\ e * WordSize \in Nat /\ f * WordSize <= e * WordSize
      BY <2>4, <3>1, TimesMonotone
    <3> QED
      BY <2>3, <2>4, <3>2
  <2>7. ASSUME NEW y \in 0 .. w - 1 PROVE mm[s + y] = mm[r + y]
    <3>1. PICK l, z : l = y \div WordSize /\ z = y % WordSize
      OBVIOUS
    <3>2. y \in Nat /\ y < w
      BY <2>6
    <3>3. l \in Nat /\ z \in 0 .. WordSize - 1 /\ y = l * WordSize + z
      BY <3>1, <3>2, WholeWords
    <3>4. l < f
      <4> SUFFICES ASSUME f <= l PROVE FALSE
        BY <2>4, <2>5, <3>3
      <4>1. f \in Nat
        BY <2>5
      <4>2. f * WordSize \in Nat /\ l * WordSize \in Nat /\ f * WordSize <= l * WordSize
        BY <2>4, <3>3, <4>1, TimesMonotone
      <4> QED
        BY <2>3, <3>2, <3>3, <4>2
    <3>5. l \in 0 .. f - 1 /\ l \in 0 .. e - 1
      BY <2>4, <2>5, <3>3, <3>4
    <3>6. Str!Word(mm, s + l * WordSize) = Str!Word(mm, r + l * WordSize)
      BY <2>1, <2>5, <3>5
    <3>7. PICK b, c : b = s + l * WordSize /\ c = r + l * WordSize
      OBVIOUS
    <3>8. mm[b + z] = mm[c + z]
      <4>1. Str!Word(mm, b)[z] = Str!Word(mm, c)[z]
        BY <3>6, <3>7
      <4> QED
        BY <3>3, <4>1 DEF Str!Word
    <3>9. b + z = s + y /\ c + z = r + y
      <4>1. l * WordSize \in Nat
        BY <2>4, <3>3
      <4> QED
        BY <3>3, <3>7, <4>1
    <3> QED
      BY <3>8, <3>9
  <2> QED
    BY <2>6, <2>7 DEF SameBytes
<1> QED
  BY <1>1, <1>2

(* memcmp returns the difference of the first bytes that differ.           *)
LEMMA MemcmpIs ==
    ASSUME NEW mm, NEW s \in Nat, NEW r \in Nat, NEW n \in Nat
    PROVE  \E x : /\ Differ(mm, s, r, n, x)
                  /\ Str!memcmp(mm, s, r, n) = IF x = n THEN 0 ELSE mm[s + x] - mm[r + x]
<1>1. PICK w : w = WordsEqual(mm, s, r, n)
  OBVIOUS
<1>2. w \in 0 .. n /\ SameBytes(mm, s, mm, r, w)
  BY <1>1, WordsEqualIs
<1>3. PICK P, z : /\ P = [y \in 0 .. n - w - 1 |-> mm[s + w + y] # mm[r + w + y]]
                  /\ z = n - w
  OBVIOUS
<1>4. PICK f : f = Str!FirstOf(P, z)
  OBVIOUS
<1>5. z \in Nat
  BY <1>2, <1>3
<1>6. /\ f \in 0 .. z /\ (f = z \/ P[f])
      /\ \A x \in 0 .. f - 1 : ~P[x]
  BY <1>4, <1>5, FirstOfIs
<1>7. Str!memcmp(mm, s, r, n) = IF f = z THEN 0 ELSE mm[s + w + f] - mm[r + w + f]
  BY <1>1, <1>3, <1>4, Zenon DEF Str!memcmp, WordsEqual
<1>8. PICK x : x = w + f
  OBVIOUS
<1>9. /\ x \in 0 .. n /\ (x = n <=> f = z) /\ s + x = s + w + f /\ r + x = r + w + f
  BY <1>2, <1>3, <1>5, <1>6, <1>8
<1>10. x < n => mm[s + x] # mm[r + x]
  <2> SUFFICES ASSUME x < n PROVE mm[s + x] # mm[r + x]
    OBVIOUS
  <2>1. f # z /\ f \in 0 .. n - w - 1
    BY <1>2, <1>3, <1>6, <1>9
  <2>2. P[f]
    BY <1>6, <2>1
  <2>3. mm[s + w + f] # mm[r + w + f]
    BY <1>3, <2>1, <2>2
  <2> QED
    BY <1>9, <2>3
<1>11. ASSUME NEW y \in 0 .. x - 1 PROVE mm[s + y] = mm[r + y]
  <2>1. CASE y < w
    <3>1. y \in 0 .. w - 1
      BY <1>2, <2>1
    <3> QED
      BY <1>2, <3>1 DEF SameBytes
  <2>2. CASE y >= w
    <3>1. PICK l : l = y - w
      OBVIOUS
    <3>2. /\ l \in 0 .. f - 1 /\ l \in 0 .. n - w - 1
          /\ s + w + l = s + y /\ r + w + l = r + y
      BY <1>2, <1>3, <1>5, <1>6, <1>8, <2>2, <3>1
    <3>3. ~P[l]
      BY <1>6, <3>2
    <3>4. mm[s + w + l] = mm[r + w + l]
      BY <1>3, <3>2, <3>3
    <3> QED
      BY <3>2, <3>4
  <2> QED
    BY <1>2, <1>9, <2>1, <2>2
<1>12. Differ(mm, s, r, n, x)
  BY <1>9, <1>10, <1>11 DEF Differ
<1>13. Str!memcmp(mm, s, r, n) = IF x = n THEN 0 ELSE mm[s + x] - mm[r + x]
  BY <1>7, <1>9
<1> QED
  BY <1>12, <1>13

(* Two runs differ somewhere first, or nowhere.                            *)
LEMMA DifferExists ==
    ASSUME NEW mm, NEW s \in Nat, NEW r \in Nat, NEW n \in Nat
    PROVE  \E x : Differ(mm, s, r, n, x)
  BY MemcmpIs

(* A loop stops at z if it would not have stopped before and must stop     *)
(* there.                                                                  *)
StopsAt(P, z) == P[z] /\ \A x \in 0 .. z - 1 : ~P[x]

(* A loop stops where it must.                                             *)
LEMMA FirstOfAt ==
    ASSUME NEW P, NEW n \in Nat, NEW z \in 0 .. n, StopsAt(P, z)
    PROVE  Str!FirstOf(P, n) = z
<1>1. PICK f : f = Str!FirstOf(P, n)
  OBVIOUS
<1>2. /\ f \in 0 .. n /\ (f = n \/ P[f])
      /\ \A x \in 0 .. f - 1 : ~P[x]
  BY <1>1, FirstOfIs
<1>3. ~(z < f)
  <2> SUFFICES ASSUME z < f PROVE FALSE
    OBVIOUS
  <2>1. z \in 0 .. f - 1
    BY <1>2
  <2> QED
    BY <1>2, <2>1 DEF StopsAt
<1>4. ~(f < z)
  <2> SUFFICES ASSUME f < z PROVE FALSE
    OBVIOUS
  <2>1. f # n /\ f \in 0 .. z - 1
    BY <1>2
  <2> QED
    BY <1>2, <2>1 DEF StopsAt
<1> QED
  BY <1>1, <1>2, <1>3, <1>4

(* strcmp stops at the first difference or at the end of both strings.     *)
LEMMA StrcmpIs ==
    ASSUME NEW mm, NEW s \in Str!Addrs, NEW r \in Str!Addrs, NEW a, NEW b,
           StringAt(mm, s, a), StringAt(mm, r, b), NEW c, c = (IF a < b THEN a ELSE b)
    PROVE  \E x : /\ Differ(mm, s, r, c + 1, x)
                  /\ Str!strcmp(mm, s, r) = IF x = c + 1 THEN 0 ELSE mm[s + x] - mm[r + x]
<1>1. Size \in Nat /\ s \in Nat /\ r \in Nat /\ s < Size /\ r < Size
  BY ConstantsHold DEF Constants, Str!Addrs
<1>2. /\ a \in Nat /\ s + a < Size /\ mm[s + a] = 0 /\ (\A x \in 0 .. a - 1 : mm[s + x] # 0)
      /\ b \in Nat /\ r + b < Size /\ mm[r + b] = 0 /\ \A x \in 0 .. b - 1 : mm[r + x] # 0
  BY DEF StringAt
<1>3. PICK N : N = Size - (IF s > r THEN s ELSE r)
  OBVIOUS
<1>4. N - 1 \in Nat /\ c \in Nat /\ c <= N - 1 /\ c <= a /\ c <= b /\ (c = a \/ c = b)
  BY <1>1, <1>2, <1>3
<1>5. PICK Q : Q = [y \in 0 .. N - 1 |-> mm[s + y] = 0 \/ mm[s + y] # mm[r + y]]
  OBVIOUS
<1>6. PICK f : f = Str!FirstOf(Q, N - 1)
  OBVIOUS
<1>7. Str!strcmp(mm, s, r) = mm[s + f] - mm[r + f]
  BY <1>3, <1>5, <1>6, Zenon DEF Str!strcmp
<1>8. PICK x : Differ(mm, s, r, c + 1, x)
  BY <1>1, <1>4, DifferExists
<1>9. /\ x \in 0 .. c + 1 /\ (x < c + 1 => mm[s + x] # mm[r + x])
      /\ \A y \in 0 .. x - 1 : mm[s + y] = mm[r + y]
  BY <1>8 DEF Differ
<1>10. ASSUME NEW z \in 0 .. c, z <= x, mm[s + z] = 0 \/ mm[s + z] # mm[r + z]
       PROVE  f = z
  <2>1. z \in 0 .. N - 1 /\ Q[z]
    <3>1. z \in 0 .. N - 1
      BY <1>4
    <3>2. Q[z] <=> (mm[s + z] = 0 \/ mm[s + z] # mm[r + z])
      BY <1>5, <3>1, Zenon
    <3> QED
      BY <1>10, <3>1, <3>2
  <2>2. ASSUME NEW y \in 0 .. z - 1 PROVE ~Q[y]
    <3>1. y \in 0 .. N - 1 /\ y \in 0 .. a - 1 /\ y \in 0 .. x - 1
      BY <1>2, <1>4, <1>9, <1>10
    <3>2. mm[s + y] # 0 /\ mm[s + y] = mm[r + y]
      BY <1>2, <1>9, <3>1
    <3> QED
      BY <1>5, <3>1, <3>2
  <2>3. StopsAt(Q, z)
    BY <2>1, <2>2 DEF StopsAt
  <2> QED
    BY <1>4, <1>6, <2>1, <2>3, FirstOfAt
<1>11. CASE x < c + 1
  <2>1. x \in 0 .. c /\ mm[s + x] # mm[r + x] /\ x <= x
    BY <1>4, <1>9, <1>11
  <2>2. f = x
    BY <1>10, <2>1
  <2>3. x # c + 1
    BY <1>4, <1>9, <1>11
  <2> QED
    BY <1>7, <1>8, <2>2, <2>3
<1>12. CASE x = c + 1
  <2>1. c \in 0 .. x - 1 /\ c \in 0 .. c /\ c <= x
    BY <1>4, <1>12
  <2>2. mm[s + c] = mm[r + c]
    BY <1>9, <2>1
  <2>3. mm[s + c] = 0 /\ mm[r + c] = 0
    BY <1>2, <1>4, <2>2
  <2>4. f = c
    BY <1>10, <2>1, <2>3
  <2>5. Str!strcmp(mm, s, r) = 0
    BY <1>7, <2>3, <2>4
  <2> QED
    BY <1>8, <1>12, <2>5
<1> QED
  BY <1>4, <1>9, <1>11, <1>12

(***************************************************************************)
(* atol.                                                                   *)
(***************************************************************************)
Linear(f, A, c, n) == f[0] = 0 /\ \A x \in 1 .. n : f[x] = A * f[x - 1] + c[x]

(* Such a sequence exists.                                                 *)
LEMMA LinearExists ==
    ASSUME NEW A \in Int, NEW n \in Nat, NEW c \in [1 .. n -> Int]
    PROVE  \E f \in [0 .. n -> Int] : Linear(f, A, c, n)
<1> DEFINE g == [x \in 1 .. n |-> [y \in Int |-> A * y + c[x]]]
<1>1. StepsIn(g, n, Int)
  BY DEF StepsIn
<1>2. \A x \in 1 .. n : \A y \in Int : g[x][y] = A * y + c[x]
  OBVIOUS
<1> HIDE DEF g
<1>3. PICK f \in [0 .. n -> Int] : f[0] = 0 /\ Iterates(f, g, n)
  <2>1. 0 \in Int
    OBVIOUS
  <2> QED
    BY <1>1, <2>1, RecursionExists, Zenon
<1>4. ASSUME NEW x \in 1 .. n PROVE f[x] = A * f[x - 1] + c[x]
  <2>1. x - 1 \in 0 .. n
    OBVIOUS
  <2>2. f[x - 1] \in Int
    BY <1>3, <2>1
  <2>3. f[x] = g[x][f[x - 1]]
    BY <1>3 DEF Iterates
  <2> QED
    BY <1>2, <2>2, <2>3
<1> QED
  BY <1>3, <1>4 DEF Linear

(* The digits read so far.                                                 *)
DigitsSolves(f, u) == f = [x \in 0 .. Len(u) |-> IF x = 0 THEN 0 ELSE Str!AddDigit(u[x], f[x - 1])]

(* atol's loop is such a sequence.                                         *)
LEMMA DigitsIs ==
    ASSUME NEW u \in Seq(Int)
    PROVE  \E f : /\ Str!Digits(u) = f[Len(u)] /\ f[0] = 0
                  /\ \A x \in 1 .. Len(u) : f[x] = f[x - 1] * 10 + (u[x] - 48)
<1>1. PICK n \in Nat : n = Len(u)
  BY LenProperties
<1>2. \A x \in 1 .. n : u[x] \in Int
  BY <1>1
<1> DEFINE c == [x \in 1 .. n |-> u[x] - 48]
<1>3. c \in [1 .. n -> Int]
  BY <1>2
<1>4. PICK h \in [0 .. n -> Int] : Linear(h, 10, c, n)
  <2> HIDE DEF c
  <2>1. 10 \in Int
    OBVIOUS
  <2> QED
    BY <1>3, <2>1, LinearExists, Zenon
<1>5. ASSUME NEW x \in 1 .. n PROVE h[x] = h[x - 1] * 10 + (u[x] - 48)
  <2>1. x - 1 \in 0 .. n
    OBVIOUS
  <2>2. h[x - 1] \in Int /\ c[x] = u[x] - 48
    BY <2>1
  <2>3. h[x] = 10 * h[x - 1] + c[x]
    BY <1>4 DEF Linear
  <2> QED
    BY <1>2, <2>2, <2>3
<1>6. DigitsSolves(h, u)
  <2>1. h[0] = 0
    BY <1>4 DEF Linear
  <2> QED
    BY <1>1, <1>5, <2>1 DEF DigitsSolves, Str!AddDigit, Str!ZERO
<1>7. PICK f : f = CHOOSE p : DigitsSolves(p, u)
  OBVIOUS
<1>8. DigitsSolves(f, u)
  BY <1>6, <1>7, Zenon
<1>9. Str!Digits(u) = f[Len(u)]
  BY <1>7, Zenon DEF Str!Digits, DigitsSolves
<1>10. f[0] = 0
  BY <1>1, <1>8 DEF DigitsSolves
<1>11. ASSUME NEW x \in 1 .. Len(u) PROVE f[x] = f[x - 1] * 10 + (u[x] - 48)
  <2>1. x \in 0 .. Len(u) /\ x # 0
    BY <1>1
  <2>2. f[x] = Str!AddDigit(u[x], f[x - 1])
    BY <1>8, <2>1 DEF DigitsSolves
  <2> QED
    BY <2>2 DEF Str!AddDigit, Str!ZERO
<1> QED
  BY <1>9, <1>10, <1>11

(* The sum of the digits by their places.                                  *)
Weight(s, x) == IF s[x] >= 48 THEN (s[x] - 48) * Str!Power(10, Len(s) - x) ELSE 0
PlaceSolves(f, s) == f = [x \in 0 .. Len(s) |-> IF x = 0 THEN 0 ELSE f[x - 1] + Weight(s, x)]

(* A character's weight is an integer.                                     *)
LEMMA WeightType ==
    ASSUME NEW s \in Seq(Int), NEW x \in 1 .. Len(s)
    PROVE  Weight(s, x) \in Int
<1>1. PICK n \in Nat : n = Len(s)
  BY LenProperties
<1>2. s[x] \in Int /\ Len(s) - x \in Nat
  BY <1>1
<1>3. PICK P : P = Str!Power(10, Len(s) - x)
  OBVIOUS
<1>4. P \in Nat
  <2>1. 10 \in Nat
    OBVIOUS
  <2>2. \A l \in Nat : Str!Power(10, l) \in Nat
    BY <2>1, PowerNat, Zenon
  <2> QED
    BY <1>2, <1>3, <2>2
<1> QED
  BY <1>2, <1>3, <1>4 DEF Weight

(* So is the sum of the places.                                            *)
LEMMA PlaceIs ==
    ASSUME NEW s \in Seq(Int)
    PROVE  \E f : /\ Str!PlaceValue(s) = f[Len(s)] /\ f[0] = 0
                  /\ \A x \in 1 .. Len(s) : f[x] = f[x - 1] + Weight(s, x)
<1>1. PICK n \in Nat : n = Len(s)
  BY LenProperties
<1> DEFINE c == [x \in 1 .. n |-> Weight(s, x)]
<1>3. c \in [1 .. n -> Int]
  BY <1>1, WeightType
<1>4. PICK h \in [0 .. n -> Int] : Linear(h, 1, c, n)
  <2> HIDE DEF c
  <2>1. 1 \in Int
    OBVIOUS
  <2> QED
    BY <1>3, <2>1, LinearExists, Zenon
<1>5. ASSUME NEW x \in 1 .. n PROVE h[x] = h[x - 1] + Weight(s, x)
  <2>1. x - 1 \in 0 .. n
    OBVIOUS
  <2>2. h[x - 1] \in Int /\ c[x] = Weight(s, x) /\ c[x] \in Int
    BY <1>3, <2>1
  <2>3. h[x] = 1 * h[x - 1] + c[x]
    BY <1>4 DEF Linear
  <2> QED
    BY <2>2, <2>3
<1>6. PlaceSolves(h, s)
  <2>1. h[0] = 0
    BY <1>4 DEF Linear
  <2> QED
    BY <1>1, <1>5, <2>1 DEF PlaceSolves
<1>7. PICK f : f = CHOOSE p : PlaceSolves(p, s)
  OBVIOUS
<1>8. PlaceSolves(f, s)
  BY <1>6, <1>7, Zenon
<1>9. Str!PlaceValue(s) = f[Len(s)]
  BY <1>7, Zenon DEF Str!PlaceValue, PlaceSolves, Weight, Str!ZERO
<1>10. f[0] = 0 /\ \A x \in 1 .. Len(s) : f[x] = f[x - 1] + Weight(s, x)
  BY <1>1, <1>8 DEF PlaceSolves
<1> QED
  BY <1>9, <1>10

(* A text: l spaces, a sign if g is 1, then digits.                        *)
TextShape(s, l, g) ==
    /\ s \in Seq(Int) /\ l \in Nat /\ g \in {0, 1} /\ l + g <= Len(s)
    /\ \A x \in 1 .. l : s[x] = 32
    /\ g = 1 => s[l + 1] \in {43, 45}
    /\ \A x \in l + g + 1 .. Len(s) : s[x] \in 48 .. 57

(* u is s without its first b characters.                                  *)
RestOf(u, s, b) ==
    u \in Seq(Int) /\ Len(u) = Len(s) - b /\ \A x \in 1 .. Len(u) : u[x] = s[b + x]

(* Reading digits from the left gives the sum of their places: after x of   *)
(* them the loop holds that sum divided by the power of the places left.   *)
LEMMA PlaceOfDigits ==
    ASSUME NEW s, NEW l, NEW g, TextShape(s, l, g), NEW u, RestOf(u, s, l + g)
    PROVE  Str!PlaceValue(s) = Str!Digits(u) /\ Str!Digits(u) \in Int
<1>1. PICK b : b = l + g
  OBVIOUS
<1>2. PICK n, L : n = Len(s) /\ L = Len(u)
  OBVIOUS
<1>3. s \in Seq(Int) /\ n \in Nat /\ L \in Nat /\ b \in Nat /\ n = b + L
  <2>1. s \in Seq(Int) /\ u \in Seq(Int)
    BY DEF TextShape, RestOf
  <2>2. n \in Nat /\ L \in Nat
    BY <1>2, <2>1, LenProperties
  <2> QED
    BY <1>1, <1>2, <2>1, <2>2 DEF TextShape, RestOf
<1>4. PICK h : /\ Str!Digits(u) = h[L] /\ h[0] = 0
               /\ \A x \in 1 .. L : h[x] = h[x - 1] * 10 + (u[x] - 48)
  BY <1>2, DigitsIs DEF RestOf
<1>5. PICK f : /\ Str!PlaceValue(s) = f[n] /\ f[0] = 0
               /\ \A x \in 1 .. n : f[x] = f[x - 1] + Weight(s, x)
  BY <1>2, <1>3, PlaceIs
<1>6. ASSUME NEW x \in 1 .. b PROVE Weight(s, x) = 0
  <2>1. s[x] \in {32, 43, 45}
    <3>1. CASE x <= l
      BY <1>1, <3>1 DEF TextShape
    <3>2. CASE x > l
      <4>1. g = 1 /\ x = l + 1
        BY <1>1, <3>2 DEF TextShape
      <4> QED
        BY <4>1 DEF TextShape
    <3> QED
      BY <1>1, <3>1, <3>2 DEF TextShape
  <2> QED
    BY <2>1 DEF Weight
<1> DEFINE T == {x \in Nat : x <= b => f[x] = 0}
<1>7. f[b] = 0
  <2>1. 0 \in T
    BY <1>5
  <2>2. ASSUME NEW x \in Nat, x \in T PROVE x + 1 \in T
    <3> SUFFICES ASSUME x + 1 <= b PROVE f[x + 1] = 0
      OBVIOUS
    <3>1. x + 1 \in 1 .. b /\ x + 1 \in 1 .. n /\ (x + 1) - 1 = x /\ f[x] = 0
      <4>1. b \in Nat /\ n \in Nat /\ b <= n
        BY <1>3
      <4>2. x <= b
        BY <4>1
      <4> QED
        BY <2>2, <4>1, <4>2
    <3>2. f[x + 1] = f[x] + Weight(s, x + 1)
      BY <1>5, <3>1
    <3>3. Weight(s, x + 1) = 0
      BY <1>6, <3>1
    <3> QED
      BY <3>1, <3>2, <3>3
  <2> HIDE DEF T
  <2>3. b \in T
    BY <1>3, <2>1, <2>2, InductionOnSet
  <2> QED
    BY <1>3, <2>3 DEF T
<1> DEFINE U == {x \in Nat : x <= L => h[x] \in Int /\ f[b + x] = h[x] * Str!Power(10, L - x)}
<1>8. 0 \in U
  <2>1. PICK P : P = Str!Power(10, L - 0) /\ P \in Nat
    <3>1. \A y \in Nat : Str!Power(10, y) \in Nat
      BY PowerNat
    <3>2. L - 0 \in Nat
      BY <1>3
    <3> QED
      BY <3>1, <3>2, Zenon
  <2>2. f[b + 0] = h[0] * P
    BY <1>3, <1>4, <1>7, <2>1
  <2> QED
    BY <1>4, <2>1, <2>2
<1>9. ASSUME NEW x \in Nat, x \in U PROVE x + 1 \in U
  <2> SUFFICES ASSUME x + 1 <= L
               PROVE  h[x + 1] \in Int /\ f[b + (x + 1)] = h[x + 1] * Str!Power(10, L - (x + 1))
    OBVIOUS
  <2>1. PICK z \in Nat : z = L - (x + 1) /\ L - x = z + 1
    BY <1>3
  <2>2. PICK P : P = Str!Power(10, z)
    OBVIOUS
  <2>3. P \in Int /\ Str!Power(10, z + 1) = 10 * P
    <3>1. 10 \in Int
      OBVIOUS
    <3> QED
      BY <2>1, <2>2, <3>1, PowerSteps, Zenon
  <2>4. PICK y, H : y = s[b + (x + 1)] /\ H = h[x]
    OBVIOUS
  <2>5. H \in Int /\ f[b + x] = H * (10 * P)
    <3>1. h[x] \in Int /\ f[b + x] = h[x] * Str!Power(10, L - x)
      BY <1>3, <1>9
    <3>2. Str!Power(10, L - x) = 10 * P
      BY <2>1, <2>3
    <3> QED
      BY <2>4, <3>1, <3>2
  <2>6. /\ x + 1 \in 1 .. L /\ (x + 1) - 1 = x /\ b + (x + 1) \in 1 .. n
        /\ (b + (x + 1)) - 1 = b + x /\ n - (b + (x + 1)) = z
        /\ b + (x + 1) \in b + 1 .. n
    BY <1>3, <2>1
  <2>7. u[x + 1] = y /\ y \in 48 .. 57
    <3>1. u[x + 1] = y
      BY <1>1, <1>2, <2>4, <2>6 DEF RestOf
    <3> QED
      BY <1>1, <1>2, <2>4, <2>6, <3>1 DEF TextShape
  <2>8. h[x + 1] = H * 10 + (y - 48)
    BY <1>4, <2>4, <2>6, <2>7
  <2>9. Weight(s, b + (x + 1)) = (y - 48) * P
    <3>1. PICK q : q = b + (x + 1)
      OBVIOUS
    <3>2. Len(s) - q = z /\ s[q] = y /\ y >= 48
      <4>1. n - q = z /\ s[q] = y
        BY <2>4, <2>6, <3>1, Zenon
      <4>2. y >= 48
        BY <2>7
      <4> QED
        BY <1>2, <4>1, <4>2, Zenon
    <3>3. Weight(s, q) = (y - 48) * P
      BY <2>2, <3>2, Zenon DEF Weight
    <3> QED
      BY <3>1, <3>3
  <2>10. f[b + (x + 1)] = H * (10 * P) + (y - 48) * P
    BY <1>5, <2>5, <2>6, <2>9
  <2>11. H * (10 * P) + (y - 48) * P = (H * 10 + (y - 48)) * P
    BY <2>3, <2>5, <2>7
  <2>12. H * 10 + (y - 48) \in Int
    BY <2>5, <2>7
  <2> QED
    BY <2>1, <2>2, <2>8, <2>10, <2>11, <2>12
<1> HIDE DEF U
<1>10. L \in U
  BY <1>3, <1>8, <1>9, InductionOnSet
<1>11. h[L] \in Int /\ f[b + L] = h[L] * Str!Power(10, L - L)
  BY <1>3, <1>10 DEF U
<1>12. Str!Power(10, L - L) = 1
  <2>1. L - L = 0
    BY <1>3
  <2>2. Str!Power(10, 0) = 1
    BY PowerSteps
  <2> QED
    BY <2>1, <2>2
<1>13. f[n] = h[L]
  BY <1>3, <1>11, <1>12
<1> QED
  BY <1>4, <1>5, <1>11, <1>13

(* atol skips the leading spaces and no more.                              *)
LEMMA AfterSpacesIs ==
    ASSUME NEW s, NEW l, NEW g, TextShape(s, l, g)
    PROVE  RestOf(Str!AfterSpaces(s), s, l)
<1>1. PICK n : n = Len(s)
  OBVIOUS
<1>2. /\ s \in Seq(Int) /\ l \in Nat /\ g \in {0, 1} /\ l + g <= n
      /\ \A x \in 1 .. l : s[x] = 32
      /\ g = 1 => s[l + 1] \in {43, 45}
      /\ \A x \in l + g + 1 .. n : s[x] \in 48 .. 57
  BY <1>1 DEF TextShape
<1>3. n \in Nat /\ \A x \in 1 .. n : s[x] \in Int
  BY <1>1, <1>2, LenProperties
<1>4. PICK P : P = [x \in 0 .. n - 1 |-> s[x + 1] # 32]
  OBVIOUS
<1>5. PICK f : f = Str!FirstOf(P, n)
  OBVIOUS
<1>6. /\ f \in 0 .. n /\ (f = n \/ P[f])
      /\ \A x \in 0 .. f - 1 : ~P[x]
  BY <1>3, <1>5, FirstOfIs
<1>7. ASSUME NEW x \in 0 .. n - 1 PROVE P[x] <=> s[x + 1] # 32
  BY <1>4, Zenon
<1>8. ~(f < l)
  <2> SUFFICES ASSUME f < l PROVE FALSE
    OBVIOUS
  <2>1. f \in 0 .. n - 1 /\ f + 1 \in 1 .. l /\ f # n
    BY <1>2, <1>3, <1>6
  <2>2. s[f + 1] = 32
    BY <1>2, <2>1
  <2> QED
    BY <1>6, <1>7, <2>1, <2>2
<1>9. ~(l < f)
  <2> SUFFICES ASSUME l < f PROVE FALSE
    OBVIOUS
  <2>1. l \in 0 .. n - 1 /\ l \in 0 .. f - 1
    BY <1>2, <1>3, <1>6
  <2>2. s[l + 1] # 32
    <3>1. CASE g = 1
      BY <1>2, <3>1
    <3>2. CASE g = 0
      <4>1. l + 1 \in l + g + 1 .. n
        BY <1>2, <1>3, <2>1, <3>2
      <4> QED
        BY <1>2, <4>1
    <3> QED
      BY <1>2, <3>1, <3>2
  <2> QED
    BY <1>6, <1>7, <2>1, <2>2
<1>10. f = l
  BY <1>2, <1>3, <1>6, <1>8, <1>9
<1>11. PICK u : u = SubSeq(s, l + 1, n)
  OBVIOUS
<1>12. Str!AfterSpaces(s) = u
  BY <1>1, <1>4, <1>5, <1>10, <1>11, Zenon DEF Str!AfterSpaces, Str!SP
<1>13. /\ u \in Seq(Int) /\ Len(u) = (IF l + 1 <= n THEN n - (l + 1) + 1 ELSE 0)
       /\ \A x \in 1 .. n - (l + 1) + 1 : u[x] = s[(l + 1) + x - 1]
  <2>1. l + 1 \in Int /\ n \in Int /\ \A x \in l + 1 .. n : s[x] \in Int
    BY <1>2, <1>3
  <2> QED
    BY <1>11, <2>1, SubSeqProperties
<1>14. Len(u) = n - l
  BY <1>2, <1>3, <1>13
<1>15. ASSUME NEW x \in 1 .. Len(u) PROVE u[x] = s[l + x]
  <2>1. x \in 1 .. n - (l + 1) + 1 /\ (l + 1) + x - 1 = l + x
    BY <1>2, <1>3, <1>14
  <2> QED
    BY <1>13, <2>1
<1> QED
  BY <1>1, <1>12, <1>13, <1>14, <1>15 DEF RestOf

(* atol returns the number its text denotes (string.c, atol), for every    *)
(* text of spaces, at most one sign and decimal digits, however long.      *)
THEOREM AtolIs ==
    ASSUME NEW s, NEW l, NEW g, TextShape(s, l, g)
    PROVE  Str!atol(s) = IF \E x \in DOMAIN s : s[x] = 45 THEN -Str!PlaceValue(s)
                                                         ELSE Str!PlaceValue(s)
<1>1. PICK n, u : n = Len(s) /\ u = Str!AfterSpaces(s)
  OBVIOUS
<1>2. /\ s \in Seq(Int) /\ l \in Nat /\ g \in {0, 1} /\ l + g <= n
      /\ \A x \in 1 .. l : s[x] = 32
      /\ g = 1 => s[l + 1] \in {43, 45}
      /\ \A x \in l + g + 1 .. n : s[x] \in 48 .. 57
  BY <1>1 DEF TextShape
<1>3. n \in Nat /\ DOMAIN s = 1 .. n
  BY <1>1, <1>2, LenProperties
<1>4. RestOf(u, s, l)
  BY <1>1, AfterSpacesIs
<1>5. u \in Seq(Int) /\ Len(u) = n - l /\ \A x \in 1 .. Len(u) : u[x] = s[l + x]
  BY <1>1, <1>4 DEF RestOf
<1>6. CASE g = 0
  <2>1. ~(u # << >> /\ Head(u) \in {43, 45})
    <3> SUFFICES ASSUME u # << >> PROVE Head(u) \notin {43, 45}
      OBVIOUS
    <3>1. Head(u) = u[1] /\ 1 \in 1 .. Len(u)
      BY <1>5, TailFacts
    <3>2. u[1] = s[l + 1] /\ l + 1 \in l + g + 1 .. n
      BY <1>2, <1>3, <1>5, <1>6, <3>1
    <3>3. s[l + 1] \in 48 .. 57
      BY <1>2, <3>2, Zenon
    <3> QED
      BY <3>1, <3>2, <3>3
  <2>2. Str!atol(s) = Str!Digits(u)
    BY <1>1, <2>1, Zenon DEF Str!atol, Str!PLUS, Str!MINUS
  <2>3. RestOf(u, s, l + g)
    <3>1. l + g = l
      BY <1>2, <1>6
    <3> QED
      BY <1>4, <3>1
  <2>4. Str!PlaceValue(s) = Str!Digits(u)
    BY <2>3, PlaceOfDigits
  <2>5. ASSUME NEW x \in DOMAIN s PROVE s[x] # 45
    <3>1. x \in 1 .. l \/ x \in l + g + 1 .. n
      BY <1>2, <1>3, <1>6
    <3>2. x \in 1 .. l => s[x] = 32
      BY <1>2, Zenon
    <3>3. x \in l + g + 1 .. n => s[x] \in 48 .. 57
      BY <1>2, Zenon
    <3> QED
      BY <3>1, <3>2, <3>3
  <2> QED
    BY <2>2, <2>4, <2>5
<1>7. CASE g = 1
  <2>1. l + 1 <= n /\ s[l + 1] \in {43, 45}
    BY <1>2, <1>7
  <2>2. u # << >> /\ 1 \in 1 .. Len(u)
    <3>1. Len(u) # 0 /\ 1 \in 1 .. Len(u)
      BY <1>2, <1>3, <1>5, <2>1
    <3> QED
      BY <3>1
  <2>3. Head(u) = s[l + 1]
    <3>1. Head(u) = u[1]
      BY <1>5, <2>2, TailFacts
    <3> QED
      BY <1>5, <2>2, <3>1
  <2>4. PICK v : v = Tail(u)
    OBVIOUS
  <2>5. /\ v \in Seq(Int) /\ Len(v) = Len(u) - 1 /\ Len(u) \in Nat
        /\ \A x \in 1 .. Len(u) - 1 : v[x] = u[x + 1]
    BY <1>5, <2>2, <2>4, TailFacts
  <2>6. RestOf(v, s, l + g)
    <3>1. Len(v) = n - (l + g)
      BY <1>2, <1>3, <1>5, <1>7, <2>5
    <3>2. ASSUME NEW x \in 1 .. Len(v) PROVE v[x] = s[l + g + x]
      <4>1. x \in 1 .. Len(u) - 1 /\ x + 1 \in 1 .. Len(u) /\ l + (x + 1) = l + g + x
        BY <1>2, <1>7, <2>5
      <4> QED
        BY <1>5, <2>5, <4>1
    <3> QED
      BY <1>1, <2>5, <3>1, <3>2 DEF RestOf
  <2>7. Str!PlaceValue(s) = Str!Digits(v)
    BY <2>6, PlaceOfDigits
  <2>8. Str!atol(s) = IF Head(u) = 45 THEN -Str!Digits(v) ELSE Str!Digits(v)
    BY <1>1, <2>1, <2>2, <2>3, <2>4, Zenon DEF Str!atol, Str!PLUS, Str!MINUS
  <2>9. (\E x \in DOMAIN s : s[x] = 45) <=> s[l + 1] = 45
    <3>1. l + 1 \in DOMAIN s
      BY <1>2, <1>3, <2>1
    <3>2. ASSUME NEW x \in DOMAIN s, s[x] = 45 PROVE x = l + 1
      <4>1. x \in 1 .. l \/ x = l + 1 \/ x \in l + g + 1 .. n
        BY <1>2, <1>3, <1>7
      <4>2. x \in 1 .. l => s[x] = 32
        BY <1>2, Zenon
      <4>3. x \in l + g + 1 .. n => s[x] \in 48 .. 57
        BY <1>2, Zenon
      <4> QED
        BY <3>2, <4>1, <4>2, <4>3
    <3> QED
      BY <3>1, <3>2
  <2> QED
    BY <2>3, <2>7, <2>8, <2>9
<1> QED
  BY <1>2, <1>6, <1>7

(* memcpy, memset and memcmp (string.c) on any memory and any operands in  *)
(* bounds, aligned or not: memcpy leaves the source's bytes at its         *)
(* destination and memset the byte it is given, and neither touches        *)
(* another byte; memcmp orders by the first byte that differs.             *)
THEOREM LibraryFunctions ==
    ASSUME NEW mm \in [Str!Addrs -> Int], NEW d \in Str!Addrs, NEW s \in Str!Addrs,
           NEW n \in Nat, d + n <= Size, s + n <= Size, NEW byte \in Int
    PROVE  /\ Str!Apart(d, s, n) => LET new == Str!memcpy(mm, d, s, n)
                                    IN  /\ Str!Bytes(new, d, n) = Str!Bytes(mm, s, n)
                                        /\ SameElsewhere(new, mm, d, n)
           /\ LET new == Str!memset(mm, d, byte, n)
              IN  /\ \A a \in d .. d + n - 1 : new[a] = byte % Base
                  /\ SameElsewhere(new, mm, d, n)
           /\ Str!Sign(Str!memcmp(mm, d, s, n)) = Str!LexSign(Str!Bytes(mm, d, n), Str!Bytes(mm, s, n))
<1>1. Size \in Nat /\ d \in Nat /\ s \in Nat /\ d \in Int /\ s \in Int
  BY ConstantsHold DEF Constants, Str!Addrs
<1>2. ASSUME Str!Apart(d, s, n), NEW new, new = Str!memcpy(mm, d, s, n)
      PROVE  Str!Bytes(new, d, n) = Str!Bytes(mm, s, n) /\ SameElsewhere(new, mm, d, n)
  <2>1. CopyInput(mm, d, s, n)
    BY <1>1, <1>2 DEF CopyInput
  <2>2. SameBytes(new, d, mm, s, n) /\ SameElsewhere(new, mm, d, n)
    BY <1>1, <1>2, <2>1, MemcpyIs, CopiedExact
  <2>3. Str!Bytes(new, d, n) = Str!Bytes(mm, s, n)
    BY <1>1, <2>2, BytesEqual
  <2> QED
    BY <2>2, <2>3
<1>3. ASSUME NEW new, new = Str!memset(mm, d, byte, n)
      PROVE  (\A a \in d .. d + n - 1 : new[a] = byte % Base) /\ SameElsewhere(new, mm, d, n)
  BY <1>1, <1>3, MemsetIs
<1>4. PICK v : v = Str!memcmp(mm, d, s, n)
  OBVIOUS
<1>5. Str!Sign(v) = Str!LexSign(Str!Bytes(mm, d, n), Str!Bytes(mm, s, n))
  <2>1. PICK x : /\ Differ(mm, d, s, n, x)
                 /\ v = IF x = n THEN 0 ELSE mm[d + x] - mm[s + x]
    BY <1>1, <1>4, MemcmpIs
  <2>2. Str!LexSign(Str!Bytes(mm, d, n), Str!Bytes(mm, s, n))
          = IF x = n THEN 0 ELSE Str!Sign(mm[d + x] - mm[s + x])
    BY <1>1, <2>1, LexSignIs
  <2>3. Str!Sign(0) = 0
    BY DEF Str!Sign
  <2> QED
    BY <2>1, <2>2, <2>3, Zenon
<1> QED
  BY <1>2, <1>3, <1>4, <1>5, Zenon

(***************************************************************************)
(* One call.                                                               *)
(***************************************************************************)
Memory == m \in [Str!Addrs -> {0, 1}]

(* A call of memcpy is right.                                              *)
LEMMA MemcpyCall ==
    ASSUME Memory, Str!Memcpy
    PROVE  Str!LibraryCorrect'
<1>1. PICK d \in Str!Addrs, s \in Str!Addrs, n \in 0 .. Size \div 2 :
        /\ d + n <= Size /\ s + n <= Size /\ Str!Apart(d, s, n)
        /\ Str!Call("memcpy", <<d, s, n>>, d, Str!memcpy(m, d, s, n))
  BY DEF Str!Memcpy
<1>2. PICK mm, new : mm = m /\ new = Str!memcpy(mm, d, s, n)
  OBVIOUS
<1>3. m' = new /\ call' = [fn |-> "memcpy", args |-> <<d, s, n>>, ret |-> d, before |-> mm]
  BY <1>1, <1>2 DEF Str!Call
<1>4. Size \in Nat /\ d \in Nat /\ s \in Nat /\ n \in Nat
  BY ConstantsHold DEF Constants, Str!Addrs
<1>5. CopyInput(mm, d, s, n)
  BY <1>1, <1>2, <1>4 DEF CopyInput, Memory
<1>6. SameBytes(new, d, mm, s, n) /\ SameElsewhere(new, mm, d, n)
  BY <1>1, <1>2, <1>4, <1>5, MemcpyIs, CopiedExact
<1>7. Str!Bytes(new, d, n) = Str!Bytes(mm, s, n)
  BY <1>4, <1>6, BytesEqual
<1>8. /\ call'.fn = "memcpy" /\ call'.args[1] = d /\ call'.args[2] = s /\ call'.args[3] = n
      /\ call'.before = mm
  BY <1>3
<1>9. Str!StoresExact'
  <2>1. Str!Bytes(m', call'.args[1], call'.args[3]) = Str!Bytes(call'.before, call'.args[2], call'.args[3])
    BY <1>3, <1>7, <1>8
  <2>2. Str!Untouched(call.args[1], call.args[3])'
    BY <1>3, <1>6, <1>8 DEF Str!Untouched, SameElsewhere
  <2> QED
    BY <1>8, <2>1, <2>2 DEF Str!StoresExact
<1> QED
  BY <1>8, <1>9 DEF Str!LibraryCorrect, Str!WordIsByteEverywhere, Str!ComparisonsLexicographic,
                    Str!AtolIsValue

(* A call of memset is right.                                              *)
LEMMA MemsetCall ==
    ASSUME Memory, Str!Memset
    PROVE  Str!LibraryCorrect'
<1>1. PICK d \in Str!Addrs, b \in {-1, 1, Base + 2}, n \in 0 .. Size :
        /\ d + n <= Size
        /\ Str!Call("memset", <<d, b, n>>, d, Str!memset(m, d, b, n))
  BY DEF Str!Memset
<1>2. PICK mm, new : mm = m /\ new = Str!memset(mm, d, b, n)
  OBVIOUS
<1>3. m' = new /\ call' = [fn |-> "memset", args |-> <<d, b, n>>, ret |-> d, before |-> mm]
  BY <1>1, <1>2 DEF Str!Call
<1>4. Size \in Nat /\ d \in Nat /\ b \in Int /\ n \in Nat
  BY <1>1, ConstantsHold DEF Constants, Str!Addrs
<1>5. /\ \A a \in d .. d + n - 1 : new[a] = b % Base
      /\ SameElsewhere(new, mm, d, n)
  BY <1>1, <1>2, <1>4, MemsetIs
<1>6. /\ call'.fn = "memset" /\ call'.args[1] = d /\ call'.args[2] = b /\ call'.args[3] = n
      /\ call'.before = mm
  BY <1>3
<1>7. Str!StoresExact'
  <2>1. \A a \in call'.args[1] .. call'.args[1] + call'.args[3] - 1 : m'[a] = call'.args[2] % Base
    BY <1>3, <1>5, <1>6, Zenon
  <2>2. Str!Untouched(call.args[1], call.args[3])'
    BY <1>3, <1>5, <1>6 DEF Str!Untouched, SameElsewhere
  <2> QED
    BY <1>6, <2>1, <2>2 DEF Str!StoresExact
<1>8. Str!WordIsByteEverywhere'
  <2>1. ASSUME NEW ws \in {4, 8}, NEW y \in 0 .. 7, y < ws
        PROVE  Str!ByteOf(Str!Replicated(ws, b), y) = b % Base
    BY <1>4, <2>1, ReplicatedHolds
  <2> QED
    BY <1>6, <2>1, Zenon DEF Str!WordIsByteEverywhere
<1> QED
  BY <1>6, <1>7, <1>8 DEF Str!LibraryCorrect, Str!ComparisonsLexicographic, Str!AtolIsValue

(* A call of memcmp is right.                                              *)
LEMMA MemcmpCall ==
    ASSUME Memory, Str!Memcmp
    PROVE  Str!LibraryCorrect'
<1>1. PICK s \in Str!Addrs, r \in Str!Addrs, n \in 0 .. Size :
        /\ s + n <= Size /\ r + n <= Size
        /\ Str!Call("memcmp", <<s, r, n>>, Str!memcmp(m, s, r, n), m)
  BY DEF Str!Memcmp
<1>2. PICK mm, v : mm = m /\ v = Str!memcmp(mm, s, r, n)
  OBVIOUS
<1>3. m' = mm /\ call' = [fn |-> "memcmp", args |-> <<s, r, n>>, ret |-> v, before |-> mm]
  BY <1>1, <1>2 DEF Str!Call
<1>4. s \in Nat /\ r \in Nat /\ n \in Nat
  BY ConstantsHold DEF Constants, Str!Addrs
<1>5. Str!Sign(v) = Str!LexSign(Str!Bytes(mm, s, n), Str!Bytes(mm, r, n))
  <2>1. PICK x : /\ Differ(mm, s, r, n, x)
                 /\ v = IF x = n THEN 0 ELSE mm[s + x] - mm[r + x]
    BY <1>2, <1>4, MemcmpIs
  <2>2. s \in Int /\ r \in Int
    BY <1>4
  <2>3. Str!LexSign(Str!Bytes(mm, s, n), Str!Bytes(mm, r, n))
          = IF x = n THEN 0 ELSE Str!Sign(mm[s + x] - mm[r + x])
    BY <1>4, <2>1, <2>2, LexSignIs
  <2>4. Str!Sign(0) = 0
    BY DEF Str!Sign
  <2> QED
    BY <2>1, <2>3, <2>4, Zenon
<1>6. /\ call'.fn = "memcmp" /\ call'.args[1] = s /\ call'.args[2] = r /\ call'.args[3] = n
      /\ call'.ret = v
  BY <1>3
<1>7. Str!ComparisonsLexicographic'
  BY <1>3, <1>5, <1>6 DEF Str!ComparisonsLexicographic
<1> QED
  BY <1>6, <1>7 DEF Str!LibraryCorrect, Str!StoresExact, Str!WordIsByteEverywhere, Str!AtolIsValue

(* A call of strlen is right.                                              *)
LEMMA StrlenCall ==
    ASSUME Memory, Str!Strlen
    PROVE  Str!LibraryCorrect'
<1>1. PICK s \in Str!Addrs :
        Str!Terminated(m, s) /\ Str!Call("strlen", <<s>>, Str!strlen(m, s), m)
  BY DEF Str!Strlen
<1>2. PICK mm, v : mm = m /\ v = Str!strlen(mm, s)
  OBVIOUS
<1>3. m' = mm /\ call' = [fn |-> "strlen", args |-> <<s>>, ret |-> v, before |-> mm]
  BY <1>1, <1>2 DEF Str!Call
<1>4. s \in Nat
  BY ConstantsHold DEF Constants, Str!Addrs
<1>5. v = Len(Str!CString(mm, s))
  <2>1. StringAt(mm, s, v)
    BY <1>1, <1>2, StrlenIs
  <2>2. v \in Nat
    BY <2>1 DEF StringAt
  <2>3. Str!CString(mm, s) = Str!Bytes(mm, s, v)
    BY <1>4, <2>1, CStringIs
  <2> QED
    BY <2>2, <2>3, BytesFacts
<1>6. call'.fn = "strlen" /\ call'.args[1] = s /\ call'.ret = v
  BY <1>3
<1>7. Str!ComparisonsLexicographic'
  BY <1>3, <1>5, <1>6 DEF Str!ComparisonsLexicographic
<1> QED
  BY <1>6, <1>7 DEF Str!LibraryCorrect, Str!StoresExact, Str!WordIsByteEverywhere, Str!AtolIsValue

(* The first c of the characters of a string and its terminator.           *)
LEMMA StringPrefix ==
    ASSUME NEW mm \in [Str!Addrs -> Int], NEW s \in Str!Addrs, NEW a, StringAt(mm, s, a),
           NEW c \in Nat, c <= a + 1
    PROVE  /\ Len(Append(Str!CString(mm, s), 0)) = a + 1
           /\ SubSeq(Append(Str!CString(mm, s), 0), 1, c) = Str!Bytes(mm, s, c)
<1>1. Size \in Nat /\ s \in Nat
  BY ConstantsHold DEF Constants, Str!Addrs
<1>2. a \in Nat /\ s + a < Size /\ mm[s + a] = 0
  BY DEF StringAt
<1>3. PICK p : p = Str!Bytes(mm, s, a)
  OBVIOUS
<1>4. Str!CString(mm, s) = p
  BY <1>1, <1>3, CStringIs
<1>5. p \in Seq(Int) /\ Len(p) = a /\ \A x \in 1 .. a : p[x] = mm[s + x - 1]
  <2>1. Len(p) = a /\ \A x \in 1 .. a : p[x] = mm[s + x - 1]
    BY <1>2, <1>3, BytesFacts
  <2>2. ASSUME NEW x \in 1 .. a PROVE mm[s + x - 1] \in Int
    <3>1. s + x - 1 \in Str!Addrs
      BY <1>1, <1>2 DEF Str!Addrs
    <3> QED
      BY <3>1
  <2>3. p \in [1 .. a -> Int]
    BY <1>3, <2>2 DEF Str!Bytes
  <2> QED
    BY <1>2, <2>1, <2>3
<1>6. PICK q : q = Append(p, 0)
  OBVIOUS
<1>7. /\ q \in Seq(Int) /\ Len(q) = a + 1 /\ (\A x \in 1 .. a : q[x] = p[x]) /\ q[a + 1] = 0
  BY <1>2, <1>5, <1>6, AppendFacts
<1>8. ASSUME NEW x \in 1 .. a + 1 PROVE q[x] = mm[s + x - 1]
  <2>1. CASE x = a + 1
    BY <1>1, <1>2, <1>7, <2>1
  <2>2. CASE x \in 1 .. a
    BY <1>5, <1>7, <2>2
  <2> QED
    BY <1>2, <2>1, <2>2
<1>9. SubSeq(q, 1, c) = [x \in 1 .. c |-> q[x]]
  <2>1. SubSeq(q, 1, c) = [x \in 1 .. c - 1 + 1 |-> q[1 + x - 1]]
    OBVIOUS
  <2> QED
    BY <2>1
<1>10. ASSUME NEW x \in 1 .. c PROVE q[x] = mm[s + x - 1]
  <2>1. x \in 1 .. a + 1
    BY <1>2
  <2> QED
    BY <1>8, <2>1
<1>11. SubSeq(q, 1, c) = Str!Bytes(mm, s, c)
  BY <1>9, <1>10 DEF Str!Bytes
<1> QED
  BY <1>4, <1>6, <1>7, <1>11

(* A call of strcmp is right.                                              *)
LEMMA StrcmpCall ==
    ASSUME Memory, Str!Strcmp
    PROVE  Str!LibraryCorrect'
<1>1. PICK s \in Str!Addrs, r \in Str!Addrs :
        /\ Str!Terminated(m, s) /\ Str!Terminated(m, r)
        /\ Str!Call("strcmp", <<s, r>>, Str!strcmp(m, s, r), m)
  BY DEF Str!Strcmp
<1>2. PICK mm, v : mm = m /\ v = Str!strcmp(mm, s, r)
  OBVIOUS
<1>3. m' = mm /\ call' = [fn |-> "strcmp", args |-> <<s, r>>, ret |-> v, before |-> mm]
  BY <1>1, <1>2 DEF Str!Call
<1>4. s \in Int /\ r \in Int /\ mm \in [Str!Addrs -> Int]
  BY <1>2, ConstantsHold DEF Constants, Str!Addrs, Memory
<1>5. PICK a, b : a = Str!strlen(mm, s) /\ b = Str!strlen(mm, r)
  OBVIOUS
<1>6. StringAt(mm, s, a) /\ StringAt(mm, r, b)
  BY <1>1, <1>2, <1>5, StrlenIs
<1>7. a \in Nat /\ b \in Nat
  BY <1>6 DEF StringAt
<1>8. PICK c : c = IF a < b THEN a ELSE b
  OBVIOUS
<1>9. PICK n : n = c + 1
  OBVIOUS
<1>10. n \in Nat /\ n <= a + 1 /\ n <= b + 1 /\ n = IF a + 1 < b + 1 THEN a + 1 ELSE b + 1
  BY <1>7, <1>8, <1>9
<1>11. PICK p, q : p = Append(Str!CString(mm, s), 0) /\ q = Append(Str!CString(mm, r), 0)
  OBVIOUS
<1>12. Len(p) = a + 1 /\ SubSeq(p, 1, n) = Str!Bytes(mm, s, n)
  BY <1>4, <1>6, <1>10, <1>11, StringPrefix
<1>13. Len(q) = b + 1 /\ SubSeq(q, 1, n) = Str!Bytes(mm, r, n)
  BY <1>4, <1>6, <1>10, <1>11, StringPrefix
<1>14. Str!Sign(v) = Str!LexSign(Str!Bytes(mm, s, n), Str!Bytes(mm, r, n))
  <2>1. PICK x : /\ Differ(mm, s, r, n, x)
                 /\ v = IF x = n THEN 0 ELSE mm[s + x] - mm[r + x]
    BY <1>2, <1>6, <1>8, <1>9, StrcmpIs
  <2>2. Str!LexSign(Str!Bytes(mm, s, n), Str!Bytes(mm, r, n))
          = IF x = n THEN 0 ELSE Str!Sign(mm[s + x] - mm[r + x])
    BY <1>4, <1>10, <2>1, LexSignIs
  <2>3. Str!Sign(0) = 0
    BY DEF Str!Sign
  <2> QED
    BY <2>1, <2>2, <2>3, Zenon
<1>15. n = IF Len(p) < Len(q) THEN Len(p) ELSE Len(q)
  BY <1>10, <1>12, <1>13
<1>16. call'.fn = "strcmp" /\ call'.args[1] = s /\ call'.args[2] = r /\ call'.ret = v
  BY <1>3
<1>17. Str!ComparisonsLexicographic'
  <2>1. Str!Sign(v) = Str!LexSign(SubSeq(p, 1, n), SubSeq(q, 1, n))
    BY <1>12, <1>13, <1>14
  <2> QED
    BY <1>3, <1>11, <1>15, <1>16, <2>1 DEF Str!ComparisonsLexicographic
<1> QED
  BY <1>16, <1>17 DEF Str!LibraryCorrect, Str!StoresExact, Str!WordIsByteEverywhere, Str!AtolIsValue

(* A call of strcpy is right.                                              *)
LEMMA StrcpyCall ==
    ASSUME Memory, Str!Strcpy
    PROVE  Str!LibraryCorrect'
<1>1. PICK d \in Str!Addrs, s \in Str!Addrs :
        /\ Str!Terminated(m, s) /\ d + Str!strlen(m, s) < Size
        /\ Str!Apart(d, s, Str!strlen(m, s) + 1)
        /\ Str!Call("strcpy", <<d, s>>, d, Str!strcpy(m, d, s))
  BY DEF Str!Strcpy
<1>2. PICK mm, new, n : mm = m /\ new = Str!strcpy(mm, d, s) /\ n = Str!strlen(mm, s)
  OBVIOUS
<1>3. m' = new /\ call' = [fn |-> "strcpy", args |-> <<d, s>>, ret |-> d, before |-> mm]
  BY <1>1, <1>2 DEF Str!Call
<1>4. mm = [a \in Str!Addrs |-> mm[a]]
  BY <1>2 DEF Memory
<1>5. /\ Str!CString(new, d) = Str!CString(mm, s) /\ Len(Str!CString(mm, s)) = n
      /\ SameElsewhere(new, mm, d, n + 1)
  BY <1>1, <1>2, <1>4, StrcpyIs
<1>6. /\ call'.fn = "strcpy" /\ call'.args[1] = d /\ call'.args[2] = s /\ call'.before = mm
  BY <1>3
<1>7. Str!StoresExact'
  <2>1. PICK p : p = Str!CString(mm, s)
    OBVIOUS
  <2>2. Str!CString(m', d) = p /\ Len(p) + 1 = n + 1
    BY <1>3, <1>5, <2>1
  <2>3. \A a \in Str!Addrs \ (d .. d + (Len(p) + 1) - 1) : m'[a] = call'.before[a]
    BY <1>3, <1>5, <1>6, <2>2 DEF SameElsewhere
  <2> QED
    BY <1>6, <2>1, <2>2, <2>3 DEF Str!StoresExact, Str!Untouched
<1> QED
  BY <1>6, <1>7 DEF Str!LibraryCorrect, Str!WordIsByteEverywhere, Str!ComparisonsLexicographic,
                    Str!AtolIsValue

(* The texts atol is given: spaces, a sign or none, digits.                *)
LEMMA TextsShape ==
    ASSUME NEW s \in Texts
    PROVE  \E l, g : TextShape(s, l, g)
<1>1. PICK l \in 0 .. 2, w \in {<< >>, <<43>>, <<45>>},
           d \in UNION {[1 .. n -> {48, 55, 57}] : n \in 0 .. 3} :
        s = SubSeq(<<32, 32>>, 1, l) \o w \o d
  <2> DEFINE D == UNION {[1 .. n -> {48, 55, 57}] : n \in 0 .. 3}
             S == {<< >>, <<43>>, <<45>>}
  <2>1. PICK p \in (0 .. 2) \X S \X D : s = SubSeq(<<32, 32>>, 1, p[1]) \o p[2] \o p[3]
    BY Zenon DEF Texts
  <2> HIDE DEF D, S
  <2>2. p[1] \in 0 .. 2 /\ p[2] \in S /\ p[3] \in D
    OBVIOUS
  <2> QED
    BY <2>1, <2>2, Zenon DEF D, S
<1>2. PICK n \in 0 .. 3 : d \in [1 .. n -> {48, 55, 57}]
  OBVIOUS
<1>3. PICK a : a = SubSeq(<<32, 32>>, 1, l)
  OBVIOUS
<1>4. a \in Seq(Int) /\ Len(a) = l /\ \A x \in 1 .. l : a[x] = 32
  <2>1. PICK e : e = <<32, 32>>
    OBVIOUS
  <2>2. e \in Seq(Int) /\ Len(e) = 2 /\ e[1] = 32 /\ e[2] = 32
    BY <2>1
  <2>3. a = [x \in 1 .. l |-> e[x]]
    <3>1. a = [x \in 1 .. l - 1 + 1 |-> e[1 + x - 1]]
      BY <1>3, <2>1
    <3> QED
      BY <3>1
  <2>4. ASSUME NEW x \in 1 .. l PROVE e[x] = 32
    <3>1. x = 1 \/ x = 2
      OBVIOUS
    <3> QED
      BY <2>2, <3>1
  <2>5. a \in [1 .. l -> Int]
    BY <2>3, <2>4
  <2> QED
    BY <2>3, <2>4, <2>5
<1>5. w \in Seq(Int) /\ Len(w) \in {0, 1} /\ (Len(w) = 1 => w[1] \in {43, 45})
  <2>1. CASE w = << >>
    BY <2>1, EmptySeq
  <2>2. CASE w = <<43>>
    BY <2>2
  <2>3. CASE w = <<45>>
    BY <2>3
  <2> QED
    BY <2>1, <2>2, <2>3
<1>6. d \in Seq(Int) /\ Len(d) = n /\ \A x \in 1 .. n : d[x] \in 48 .. 57
  BY <1>2
<1>7. PICK g : g = Len(w)
  OBVIOUS
<1>8. PICK u : u = a \o w
  OBVIOUS
<1>9. /\ u \in Seq(Int) /\ Len(u) = l + g
      /\ \A x \in 1 .. l + g : u[x] = IF x <= l THEN a[x] ELSE w[x - l]
  BY <1>4, <1>5, <1>7, <1>8, ConcatProperties
<1>10. s = u \o d
  BY <1>1, <1>3, <1>8
<1>11. /\ s \in Seq(Int) /\ Len(s) = l + g + n
       /\ \A x \in 1 .. l + g + n : s[x] = IF x <= l + g THEN u[x] ELSE d[x - (l + g)]
  BY <1>6, <1>9, <1>10, ConcatProperties
<1>12. l \in Nat /\ g \in {0, 1} /\ n \in Nat
  BY <1>5, <1>7
<1>13. ASSUME NEW x \in 1 .. l PROVE s[x] = 32
  <2>1. x \in 1 .. l + g + n /\ x \in 1 .. l + g /\ x <= l + g /\ x <= l
    BY <1>12
  <2> QED
    BY <1>4, <1>9, <1>11, <2>1
<1>14. ASSUME g = 1 PROVE s[l + 1] \in {43, 45}
  <2>1. PICK x : x = l + 1
    OBVIOUS
  <2>2. x \in 1 .. l + g + n /\ x \in 1 .. l + g /\ x <= l + g /\ ~(x <= l) /\ x - l = 1
    BY <1>12, <1>14, <2>1
  <2>3. s[x] = u[x] /\ u[x] = w[1]
    BY <1>9, <1>11, <2>2
  <2> QED
    BY <1>5, <1>7, <1>14, <2>1, <2>3
<1>15. ASSUME NEW x \in l + g + 1 .. l + g + n PROVE s[x] \in 48 .. 57
  <2>1. x \in 1 .. l + g + n /\ ~(x <= l + g) /\ x - (l + g) \in 1 .. n
    BY <1>12
  <2>2. s[x] = d[x - (l + g)]
    BY <1>11, <2>1
  <2> QED
    BY <1>6, <2>1, <2>2
<1>16. l + g <= Len(s)
  BY <1>11, <1>12
<1> QED
  BY <1>11, <1>12, <1>13, <1>14, <1>15, <1>16 DEF TextShape

(* A call of atol is right.                                                *)
LEMMA AtolCall ==
    ASSUME Memory, Str!Atol
    PROVE  Str!LibraryCorrect'
<1>1. PICK s \in Texts : Str!Call("atol", s, Str!atol(s), m)
  BY DEF Str!Atol
<1>2. PICK l, g : TextShape(s, l, g)
  BY TextsShape
<1>3. PICK v : v = Str!atol(s)
  OBVIOUS
<1>4. v = IF \E x \in DOMAIN s : s[x] = 45 THEN -Str!PlaceValue(s) ELSE Str!PlaceValue(s)
  BY <1>2, <1>3, AtolIs
<1>5. call'.fn = "atol" /\ call'.args = s /\ call'.ret = v
  BY <1>1, <1>3 DEF Str!Call
<1>6. Str!AtolIsValue'
  BY <1>4, <1>5, Zenon DEF Str!AtolIsValue, Str!MINUS
<1> QED
  BY <1>5, <1>6 DEF Str!LibraryCorrect, Str!StoresExact, Str!WordIsByteEverywhere,
                    Str!ComparisonsLexicographic

(* Before the call the memory holds its bytes; after it the call is right, *)
(* and stays what it was.                                                  *)
LibInv == (call = Str!None /\ Memory) \/ (call # Str!None /\ Str!LibraryCorrect)

(* The one call a behaviour makes of the string library does what the C    *)
(* library says of it (env/v/string.c), for every width of the byte, size  *)
(* of the memory and word size, on every operand the specification gives.  *)
THEOREM LibraryIsCorrect == MCSpec => []LibraryCorrect
<1>1. ASSUME MCInit PROVE LibInv
  <2>1. call = Str!None
    BY <1>1 DEF MCInit, Str!Init
  <2>2. CASE unit = "strings"
    BY <1>1, <2>1, <2>2 DEF MCInit, Str!Init, LibInv, Memory
  <2>3. CASE unit # "strings"
    BY <1>1, <2>1, <2>3 DEF MCInit, LibInv, Memory, Str!Addrs
  <2> QED
    BY <2>2, <2>3
<1>2. ASSUME LibInv, [MCNext]_<<unit, vars, str_vars, sim_vars>> PROVE LibInv'
  <2>1. CASE UNCHANGED str_vars
    <3>1. m' = m /\ call' = call
      BY <2>1 DEF str_vars
    <3>2. Memory => Memory'
      BY <3>1 DEF Memory
    <3>3. Str!LibraryCorrect => Str!LibraryCorrect'
      BY <3>1 DEF Str!LibraryCorrect, Str!StoresExact, Str!WordIsByteEverywhere,
                  Str!ComparisonsLexicographic, Str!AtolIsValue, Str!Untouched
    <3> QED
      BY <1>2, <3>1, <3>2, <3>3 DEF LibInv
  <2>2. CASE Str!Next
    <3>1. CASE Str!Return
      BY <2>1, <3>1 DEF Str!Return, str_vars
    <3>2. CASE /\ call = Str!None
               /\ \/ Str!Memcpy \/ Str!Memset \/ Str!Memcmp \/ Str!Strlen
                  \/ Str!Strcmp \/ Str!Strcpy \/ Str!Atol
      <4>1. Memory
        BY <1>2, <3>2 DEF LibInv
      <4>2. Str!LibraryCorrect'
        BY <3>2, <4>1, MemcpyCall, MemsetCall, MemcmpCall, StrlenCall, StrcmpCall, StrcpyCall,
           AtolCall
      <4>3. call'.fn # "none"
        BY <3>2 DEF Str!Memcpy, Str!Memset, Str!Memcmp, Str!Strlen, Str!Strcmp, Str!Strcpy,
                    Str!Atol, Str!Call
      <4>4. call' # Str!None
        BY <4>3 DEF Str!None
      <4> QED
        BY <4>2, <4>4 DEF LibInv
    <3> QED
      BY <2>2, <3>1, <3>2 DEF Str!Next
  <2> QED
    BY <1>2, <2>1, <2>2 DEF MCNext
<1>3. LibInv => LibraryCorrect
  BY DEF LibInv, LibraryCorrect, Str!LibraryCorrect, Str!StoresExact, Str!WordIsByteEverywhere,
         Str!ComparisonsLexicographic, Str!AtolIsValue, Str!None
<1> QED
  BY <1>1, <1>2, <1>3, PTL DEF MCSpec

=============================================================================
