--------------------------------- MODULE Vm ----------------------------------
(***************************************************************************)
(* The supervisor of the virtual-memory test environment (env/v/vm.c): it  *)
(* runs one test in user mode behind demand paging, setting the accessed   *)
(* and dirty bits in software, and reports to the host through tohost.     *)
(*                                                                         *)
(* A page is one word.  Page p of the test image is mem[p]; the frames a   *)
(* page is copied to follow the image.  The hardware may remember any leaf *)
(* entry it has walked, an invalid one too, until sfence.vma; it walks at  *)
(* any time, and raises a page fault when an entry lacks A, or D for a     *)
(* store.  The kernel itself copies through the user's address, so a step  *)
(* of the kernel can be refused by a stale entry as well.  sstatus.SUM,    *)
(* which lets it, is set before those copies and put back after them, and  *)
(* is left out: nothing else the kernel does depends on it.                *)
(***************************************************************************)
EXTENDS Integers, Sequences, FiniteSets

CONSTANTS W,        \* width of the LFSR; 6 in riscv_test.h
          Vals,     \* contents of a page
          Codes,    \* what a test can pass to its exit call
          MsgLen    \* characters printed for a failed assertion (a bound)

ASSUME VmAssumption == /\ W \in Nat \ {0, 1} /\ Vals \subseteq Nat /\ 0 \in Vals
                       /\ MsgLen \in Nat /\ Codes \subseteq Nat \ {0}

MAX_TEST_PAGES == 2^W - 1
LFSR_NEXT(w, x) == ((x + x \div 2) % 2) * 2^(w - 1) + x \div 2

Pages  == 1 .. MAX_TEST_PAGES - 1                       \* pages of the test
Frames == MAX_TEST_PAGES + 1 .. 2 * MAX_TEST_PAGES
Phys   == Pages \cup Frames

Null == 0
FreeNodes == 1 .. MAX_TEST_PAGES                        \* freelist_nodes
UM(p) == MAX_TEST_PAGES + 1 + p                         \* &user_mapping[p]
Nodes == FreeNodes \cup {UM(p) : p \in Pages}

Zero == [ppn |-> 0, a |-> FALSE, d |-> FALSE]
PTE  == [ppn : {0} \cup Frames, a : BOOLEAN, d : BOOLEAN]
Readable(t) == t.ppn # 0 /\ t.a
Writable(t) == Readable(t) /\ t.d

Chr == -1                                               \* any character
Idle == [kind |-> "none", page |-> 0, val |-> 0]

VARIABLES mem, pt, tlb,          \* physical memory, user_l3pt, walked entries
          node, head, tail,      \* the freelist and user_mapping
          pc, op,                \* where the hart is, what the test asked for
          obs,                   \* the last value the test read
          i,                     \* the page the exit loop is at
          out, tohost,           \* what do_tohost has still to send; the register
          sent, log              \* what was handed over and what the host has read

store == <<mem, pt, tlb, node, head, tail>>
vars == <<store, pc, op, obs, i, out, tohost, sent, log>>

(* The LFSR's values, from start on. *)
Random(w, start) ==
  LET r[n \in 0 .. 2^w - 1] == IF n = 0 THEN start ELSE LFSR_NEXT(w, r[n - 1])
  IN  r

bug_boot_no_end == \E start \in 1 .. MAX_TEST_PAGES :
  /\ node = [n \in Nodes |->
       IF n \notin FreeNodes THEN [addr |-> 0, next |-> Null]
       ELSE [addr |-> MAX_TEST_PAGES + Random(W, start)[n - 1], next |-> n + 1]]
  /\ head = 1 /\ tail = MAX_TEST_PAGES
vm_boot == \E start \in 1 .. MAX_TEST_PAGES :           \* 1 + ENTROPY % MAX_TEST_PAGES
  /\ node = [n \in Nodes |->
       IF n \notin FreeNodes THEN [addr |-> 0, next |-> Null]
       ELSE [addr |-> MAX_TEST_PAGES + Random(W, start)[n - 1],
             next |-> IF n = MAX_TEST_PAGES THEN Null ELSE n + 1]]
  /\ head = 1 /\ tail = MAX_TEST_PAGES

Init == /\ vm_boot
        /\ mem \in [Phys -> Vals]
        /\ \A f, g \in Frames : mem[f] = mem[g]         \* DRAM nobody has written
        /\ obs = 0                                      \* memset(&tf, 0, sizeof(tf))
        /\ pt = [p \in Pages |-> Zero] /\ tlb = [p \in Pages |-> {}]
        /\ pc = "user" /\ op = Idle /\ i = 0
        /\ out = << >> /\ tohost = 0 /\ sent = << >> /\ log = << >>

(***************************************************************************)
(* Hardware and the other harts.                                           *)
(***************************************************************************)
Walk == \E p \in Pages :
  /\ tlb' = [tlb EXCEPT ![p] = @ \cup {pt[p]}]
  /\ UNCHANGED <<mem, pt, node, head, tail, pc, op, obs, i, out, tohost, sent, log>>

Seen(p) == tlb[p] \cup {pt[p]}

flush_page(p) == tlb' = [tlb EXCEPT ![p] = {}]

(* amoadd.w zero, zero, (paddr): one atomic step of another hart. *)
coherence_torture == \E q \in Phys :
  /\ mem' = [mem EXCEPT ![q] = @ + 0]
  /\ UNCHANGED <<pt, tlb, node, head, tail, pc, op, obs, i, out, tohost, sent, log>>

(***************************************************************************)
(* The test.  A page outside 1 .. MAX_TEST_PAGES - 1 has no mapping.       *)
(***************************************************************************)
UserStart == /\ pc = "user"
             /\ \E k \in {"fetch", "load", "store"}, p \in 0 .. MAX_TEST_PAGES,
                   v \in Vals :
                  /\ op' = [kind |-> k, page |-> p, val |-> v]
                  /\ k # "store" => \A w \in Vals : v <= w
             /\ pc' = "access"
             /\ UNCHANGED <<store, obs, i, out, tohost, sent, log>>

Allowed(t) == IF op.kind = "store" THEN Writable(t) ELSE Readable(t)

UserAccess == /\ pc = "access" /\ op.page \in Pages
              /\ \E t \in Seen(op.page) :
                   /\ Allowed(t)
                   /\ IF op.kind = "store"
                        THEN mem' = [mem EXCEPT ![t.ppn] = op.val] /\ obs' = obs
                        ELSE obs' = mem[t.ppn] /\ mem' = mem
              /\ pc' = "user" /\ op' = Idle
              /\ UNCHANGED <<pt, tlb, node, head, tail, i, out, tohost, sent, log>>

PageFault == /\ pc = "access"
             /\ op.page \in Pages => \E t \in Seen(op.page) : ~Allowed(t)
             /\ pc' = "fault"
             /\ UNCHANGED <<store, op, obs, i, out, tohost, sent, log>>

Ecall == /\ pc = "user"
         /\ \E c \in Codes : op' = [kind |-> "ecall", page |-> 0, val |-> c]
         /\ pc' = "evict" /\ i' = 1
         /\ UNCHANGED <<store, obs, out, tohost, sent, log>>

(* medeleg keeps every other cause in machine mode, whose vector vm_boot   *)
(* left at its own PMP probe: from there on nothing is known of the hart.  *)
OtherTrap == /\ pc = "user" /\ pc' = "lost" /\ UNCHANGED <<store, op, obs, i, out, tohost, sent, log>>

(***************************************************************************)
(* handle_trap.  A failed assertion prints a message and terminates with 3.*)
(***************************************************************************)
assert_fails == /\ out' = [n \in 1 .. MsgLen + 1 |-> IF n <= MsgLen THEN Chr ELSE 3]
                /\ pc' = "send"
                /\ UNCHANGED <<store, op, obs, i, tohost, sent, log>>

Rest == UNCHANGED <<op, obs, out, tohost, sent, log>>

fault_out_of_range == pc = "fault" /\ op.page \notin Pages /\ assert_fails

bug_set_dirty_first == /\ pc = "fault" /\ op.page \in Pages
                       /\ pt[op.page] # Zero /\ ~pt[op.page].a
                       /\ pt' = [pt EXCEPT ![op.page].d = TRUE]
                       /\ pc' = "flush" /\ UNCHANGED <<mem, tlb, node, head, tail, i>> /\ Rest
set_accessed == /\ pc = "fault" /\ op.page \in Pages
                /\ pt[op.page] # Zero /\ ~pt[op.page].a
                /\ pt' = [pt EXCEPT ![op.page].a = TRUE]
                /\ pc' = "flush" /\ UNCHANGED <<mem, tlb, node, head, tail, i>> /\ Rest

set_dirty == /\ pc = "fault" /\ op.page \in Pages
             /\ pt[op.page] # Zero /\ pt[op.page].a
             /\ IF ~pt[op.page].d /\ op.kind = "store"
                  THEN /\ pt' = [pt EXCEPT ![op.page].d = TRUE]
                       /\ pc' = "flush" /\ UNCHANGED <<mem, tlb, node, head, tail, i>> /\ Rest
                  ELSE assert_fails

(* Take a frame and give the page an entry the kernel can copy through. *)
bug_page_in_clean == /\ pc = "fault" /\ op.page \in Pages /\ pt[op.page] = Zero
                     /\ head # Null
                     /\ head' = node[head].next
                     /\ tail' = IF head' = tail THEN Null ELSE tail
                     /\ pt' = [pt EXCEPT ![op.page] = [Zero EXCEPT !.ppn = node[head].addr]]
                     /\ i' = head
                     /\ pc' = "map" /\ UNCHANGED <<mem, tlb, node>> /\ Rest
bug_page_in_keeps_head == /\ pc = "fault" /\ op.page \in Pages /\ pt[op.page] = Zero
                          /\ pt' = [pt EXCEPT ![op.page] =
                                      [ppn |-> node[head].addr, a |-> TRUE, d |-> TRUE]]
                          /\ i' = head
                          /\ pc' = "map" /\ UNCHANGED <<mem, tlb, node, head, tail>> /\ Rest
page_in == /\ pc = "fault" /\ op.page \in Pages /\ pt[op.page] = Zero
           /\ IF head = Null THEN assert_fails
              ELSE /\ head' = node[head].next
                   /\ tail' = IF head' = tail THEN Null ELSE tail
                   /\ pt' = [pt EXCEPT ![op.page] =
                               [ppn |-> node[head].addr, a |-> TRUE, d |-> TRUE]]
                   /\ i' = head                         \* the popped node
                   /\ pc' = "map" /\ UNCHANGED <<mem, tlb, node>> /\ Rest

map_page == /\ pc = "map"
            /\ IF node[UM(op.page)].addr # 0 THEN assert_fails
               ELSE /\ flush_page(op.page)
                    /\ node' = [node EXCEPT ![UM(op.page)] = node[i]]
                    /\ pc' = "copy" /\ UNCHANGED <<mem, pt, head, tail, i>> /\ Rest

(* A page fault of the kernel itself would overwrite the trap frame. *)
nested_fault == /\ pc' = "nested"
                /\ UNCHANGED <<store, op, obs, i, out, tohost, sent, log>>

(* The image is copied through the user's address; then A and D are off. *)
bug_copy_out == /\ pc = "copy"
                /\ mem' = [mem EXCEPT ![op.page] = mem[node[UM(op.page)].addr]]
                /\ pt' = [pt EXCEPT ![op.page] =
                            [ppn |-> node[UM(op.page)].addr, a |-> FALSE, d |-> FALSE]]
                /\ i' = 0
                /\ pc' = "flush" /\ UNCHANGED <<tlb, node, head, tail>> /\ Rest
copy_in == /\ pc = "copy"
           /\ \E t \in Seen(op.page) :
                IF ~Writable(t) THEN nested_fault
                ELSE /\ mem' = [mem EXCEPT ![t.ppn] = mem[op.page]]
                     /\ pt' = [pt EXCEPT ![op.page] =
                                 [ppn |-> node[UM(op.page)].addr, a |-> FALSE, d |-> FALSE]]
                     /\ i' = 0
                     /\ pc' = "flush" /\ UNCHANGED <<tlb, node, head, tail>> /\ Rest

(* sret: the access is tried again. *)
bug_return_no_flush == /\ pc = "flush"
                       /\ pc' = "access" /\ UNCHANGED <<store, i>> /\ Rest
flush_and_return == /\ pc = "flush"
                    /\ flush_page(op.page)
                    /\ pc' = "access" /\ UNCHANGED <<mem, pt, node, head, tail, i>> /\ Rest

(* The exit call evicts the pages in turn, then terminates. *)
next_page == IF i < MAX_TEST_PAGES - 1
               THEN i' = i + 1 /\ pc' = "evict" /\ out' = out
               ELSE i' = 0 /\ pc' = "send" /\ out' = <<op.val>>

append_node(n) ==
  IF tail = Null
    THEN /\ head' = n /\ tail' = n
         /\ node' = [node EXCEPT ![n].addr = 0]
    ELSE /\ head' = head /\ tail' = n
         /\ node' = [node EXCEPT ![n].addr = 0, ![tail].next = n]

bug_evict_stays == /\ pc = "evict" /\ node[UM(i)].addr = 0
                   /\ UNCHANGED <<vars>>
evict_absent == /\ pc = "evict" /\ node[UM(i)].addr = 0
                /\ next_page /\ UNCHANGED <<store, op, obs, tohost, sent, log>>

(* Check A, compare through the user's address; a page that differs must  *)
(* be dirty and gets the image back.                                       *)
evict == /\ pc = "evict" /\ node[UM(i)].addr # 0
         /\ \E t \in Seen(i) :
              LET differs == mem[t.ppn] # mem[i]
              IN  IF ~pt[i].a THEN assert_fails
                  ELSE IF ~Readable(t) THEN nested_fault
                  ELSE IF differs /\ ~pt[i].d THEN assert_fails
                  ELSE IF differs /\ ~Writable(t) THEN nested_fault
                  ELSE /\ mem' = [mem EXCEPT ![t.ppn] = mem[i]]
                       /\ append_node(UM(i)) /\ next_page
                       /\ UNCHANGED <<pt, tlb, op, obs, tohost, sent, log>>

(***************************************************************************)
(* The host interface.  do_tohost waits for the register to be read.       *)
(***************************************************************************)
bug_no_wait == /\ pc = "send"
               /\ tohost' = Head(out) /\ out' = Tail(out)
               /\ sent' = Append(sent, Head(out))
               /\ pc' = IF Len(out) = 1 THEN "spin" ELSE "send"
               /\ UNCHANGED <<store, op, obs, i, log>>
do_tohost == /\ pc = "send" /\ tohost = 0
             /\ tohost' = Head(out) /\ out' = Tail(out)
             /\ sent' = Append(sent, Head(out))
             /\ pc' = IF Len(out) = 1 THEN "spin" ELSE "send"
             /\ UNCHANGED <<store, op, obs, i, log>>

Host == /\ tohost # 0
        /\ log' = Append(log, tohost) /\ tohost' = 0
        /\ UNCHANGED <<store, pc, op, obs, i, out, sent>>

Spin == pc \in {"spin", "lost", "nested"} /\ UNCHANGED vars

Kernel == \/ fault_out_of_range \/ set_accessed \/ set_dirty
          \/ page_in \/ map_page \/ copy_in \/ flush_and_return
          \/ evict_absent \/ evict \/ do_tohost
User == UserStart \/ UserAccess \/ PageFault \/ Ecall \/ OtherTrap

Next == User \/ Kernel \/ Walk \/ coherence_torture \/ Host \/ Spin

Spec == Init /\ [][Next]_vars

(* The hart retires the kernel's and the test's instructions; the host     *)
(* polls.  When the hardware walks, and what the test does, is not fair.   *)
Fairness == WF_vars(Kernel) /\ WF_vars(UserAccess \/ PageFault) /\ WF_vars(Host)

(***************************************************************************)
(* Properties                                                              *)
(***************************************************************************)
TypeOK == /\ mem \in [Phys -> Vals]
          /\ pt \in [Pages -> PTE]
          /\ tlb \in [Pages -> SUBSET PTE]
          /\ node \in [Nodes -> [addr : {0} \cup Frames, next : {Null} \cup Nodes]]
          /\ head \in {Null} \cup Nodes /\ tail \in {Null} \cup Nodes
          /\ pc \in {"user", "access", "fault", "map", "copy", "flush", "evict", "send",
                     "spin", "lost", "nested"}

Running == pc \notin {"evict", "send", "spin", "lost", "nested"}

(* Until the exit call every frame belongs to one owner: a node still on   *)
(* the freelist from head, the node just popped, or one mapped page (whose *)
(* leaf entry names that frame).  vm_boot, handle_fault.                   *)
FramesOwnedOnce ==
  Running =>
    LET free == IF head = Null THEN {} ELSE head .. MAX_TEST_PAGES
        mapped == {UM(p) : p \in {q \in Pages : node[UM(q)].addr # 0}}
        popped == IF pc = "map" THEN {i} ELSE {}
        owners == free \cup mapped \cup popped
    IN  /\ \A m, n \in owners : node[m].addr = node[n].addr => m = n
        /\ {node[n].addr : n \in owners} = Frames
        /\ \A p \in Pages : pt[p] # Zero /\ ~(pc = "map" /\ op.page = p)
                              => pt[p].ppn = node[UM(p)].addr

(* No assertion of vm.c fails unless the test left its pages: the entry a  *)
(* fault finds explains the fault, a frame is free, the page was unmapped; *)
(* at exit a page that is in was accessed and a changed one is dirty, so   *)
(* that the exit call sends the test's own code and nothing else.          *)
AssertionsHold ==
  pc \in {"send", "spin"} => IF op.kind = "ecall" THEN sent \o out = <<op.val>>
                                                  ELSE op.page \notin Pages

(* The kernel's copies through the user's address never fault. *)
NoNestedFault == pc # "nested"

(* The host reads exactly what was sent, in order (do_tohost waits). *)
HostSeesAll == sent = IF tohost = 0 THEN log ELSE Append(log, tohost)

(* Every access the test makes to one of its pages completes: the faults   *)
(* it takes come to an end.                                                *)
AccessCompletes == pc = "access" /\ op.page \in Pages ~> pc = "user"

(* The host learns how a test ended.  Of an exit call it reads the test's  *)
(* code and nothing else, once the pages are evicted; of an access outside *)
(* the pages the message of the assertion that fails, whole, and then the  *)
(* code 3 (handle_trap, handle_fault, terminate, do_tohost).               *)
ExitReported ==
  /\ \A c \in Codes : op.kind = "ecall" /\ op.val = c ~> log = <<c>>
  /\ pc = "access" /\ op.page \notin Pages
       ~> log = [n \in 1 .. MsgLen + 1 |-> IF n <= MsgLen THEN Chr ELSE 3]

(* The test sees a flat memory holding its image. *)
vmem == [p \in Pages |-> IF node[UM(p)].addr = 0 \/ (pc = "copy" /\ op.page = p)
                           THEN mem[p] ELSE mem[node[UM(p)].addr]]
Flat == INSTANCE FlatMemory WITH image <- [p \in Pages |-> mem[p]], exited <- op.kind = "ecall"
FlatSpec == Flat!Spec
=============================================================================
