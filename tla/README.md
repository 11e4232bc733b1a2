# A TLA+ model of the C-Class core with packed SIMD

The repository is a fork of the SHAKTI C-Class, an in-order RISC-V core in
Bluespec SystemVerilog, with a packed-SIMD unit (the pbox) added. This
directory models the parts of it that decide whether the core executes the
program it was given: fetch and prediction, decoding, operand forwarding and
retirement, the multiply/divide unit, and the bridge from the data cache to the
bus; and the C part of the repository, the environment its tests run in: the
virtual-memory supervisor, the string library, and the simulation harness with
its signature dump. Source paths below are relative to `src/` of the repository
(`stage3.bsv` is `src/stage3.bsv` there); `env/` stands for
`micro-arch-tests/performance_tests/env/`.

A Bluespec *rule* is atomic, and the rules that fire in one clock behave as if
they fired one after the other in an order that the compiler derives from the
ports they use. One rule is one TLA+ action, and the models let rules fire in any
order: every schedule the compiler can choose and every stall of a stage is a
behaviour of the model. Where two rules of the same clock have a joint effect
that is *not* a sequence of the two, it is written into one action
(`rl_exe_base_control`: stage3 redirects while stage2 decodes one more
instruction of the wrong path).

## 1. Inventory

| Component | State | Operations | Interacts with | What is hard | What makes it correct |
|---|---|---|---|---|---|
| stage0 (`stage0.bsv`) | `rg_pc`, `rg_fence`, `rg_sfence`, `rg_delayed_redirect`, epochs | `rl_gen_next_pc`, `ma_flush`, `ma_update_eEpoch/wEpoch` | predictor, instruction memory, stage1, flushes of stages 3 and 5 | a target that waits one request; a redirect or fence in that window | the stream of requests is the program's, or is dropped |
| predictor (`predictors/gshare_fa.bsv`) | BTB entries and tags, `rg_allocate`, `rg_initialize`, BHT, GHR, RAS | `mav_prediction_response`, `ma_train_bpu`, `ma_mispredict`, `rl_initialize` | stage0, stage3 | entries outlive text; one entry serves two instructions of a word | hints only: never change what executes; at most one entry per word |
| stage1 (`stage1.bsv`) | `rg_action`, `rg_prev`, `rg_receiving_upper` | `process_instruction` | s0-s1 and s1-s2 buffers, instruction memory | a half kept across responses and redirects | halves of one instruction come from consecutive addresses of one path |
| stage2 (`stage2.bsv`, `decoder.bsv`, `decompress.bsv`) | `rg_stall`, `rg_op1..3`, `rg_opd`, `rg_microtrap`, `rg_wfi`, epochs | `decode_and_opfetch`, `ma_commit_rd`, `ma_clear_stall` | register file, stage3, stage5 | operands copied early must follow later retirements | stored operands equal the register file; a stall ends |
| scoreboard, bypass (`scoreboard.bsv`, `bypass.bsv`) | `rg_rf_board`, `rg_renameid` | `ma_lock_rd`, `ma_release_rd`, `fn_bypass` | stage3, s3-s4, s4-s5 | ids that wrap, flushed instructions that release | locked exactly while a writer is in flight; ids distinct |
| stage3 (`stage3.bsv`, `base_alu.bsv`) | `rg_eEpoch`, `rg_wEpoch`, operand wires | the `rl_exe_*`/`rl_mbox`/`rl_float`/`rl_pbox` rules, `rl_drop_instr` | everything | which rule fires, on which operand; redirects | executes each instruction once, with the latest operands |
| stage4 (`stage4.bsv`) | buffers only | `rl_fwd_*`, `rl_capture_*`, `rl_handle_mem` | functional units, data cache | results of different latency | results meet their instruction |
| stage5 (`stage5.bsv`) | `rg_epoch`, rerun and store state | `rl_writeback_*` | CSR file, register file, scoreboard, data cache | flush while stage3 redirects | only right-path instructions retire |
| mbox (`mbox/`) | pipeline registers, `rg_count`, `rg_valid`, `ff_ordering` | `ma_inputs`, `rl_capture_output`, unit rules | stage3, stage4 | unguarded FIFOs, out-of-order completion | in order, none lost, right value |
| pbox (`pbox/`), fpu (`fpu/`) | unit pipelines | `ma_inputs`, response | stage3, stage4 | operand d | result of the latest operands |
| bridge (`ccore.bsv`) | `rg_burst_count`, `rg_shift_amount`, `rg_read_line_req`, `wr_write_req` | nine data-side rules, instruction, PTW and debug ports | cache subsystems, AXI4 transactors | bursts, I/O and fills on shared channels | whole lines, in order; fills see evictions |
| encoding tables (`env/encoding.h`) | constants | MATCH/MASK of 262 instructions, CSR numbers, causes | decoder, test programs | two lists of the same facts, and the decoder a third | the three agree |
| vm environment (`env/v/vm.c`) | `user_l3pt`, `user_mapping`, freelist, `tohost` | `vm_boot`, `handle_trap`, `handle_fault`, `evict`, `do_tohost`, `coherence_torture` | the hart (TLB, page faults), the test, the host | stale translations of pages the kernel itself copies through; software A/D bits | the test sees flat memory; its exit code reaches the host |
| string library (`env/v/string.c`) | none | `memcpy`, `memset`, `memcmp`, `strlen`, `strcmp`, `strcpy`, `atol` | vm environment | word loops chosen by alignment | what C says, byte for byte (`atol` on well-formed numbers) |
| harness (`test_soc/sim_main.cpp`, `test_soc/sign_dump.bsv`, `compliance_model.h`, `env/p/riscv_test.h`) | clock, reset, the dump's counters | simulation loop, `RVMODEL_*` macros, the four rules of `sign_dump` | program, UART, memory, simulator | a stop that must not overtake output | text printed, signature dumped, simulation ends |
| CSR file, caches, TLBs, PTW, fabric, devices | (other repositories) | | | | |
| `configure/`, rest of `test_soc/` and `micro-arch-tests/`, `obsolete/` | no core state | | | | |

`PROJECT.json` lists the same components with their status, and the hazards of
this code at the lines where they bite.

## 2. Modules

| Module | Models | State | Actions |
|---|---|---|---|
| `Backend` | stages 2 to 5, scoreboard, bypass, register file | `board`, `renameid`, `rf`, `rg_stall`, the two epochs, whether s1-s2 is empty (`isb12`), the buffers `isb23`, `isb34`, `isb45` | one per rule of stages 3, 4, 5, `decode_and_opfetch` and `process_instruction` |
| `BackendProofs`, `CcoreProofs`, `FetchProofs`, `HarnessProofs` | theorems about the module of the same name (section 4) | | |
| `MboxProofs`, `Stage2Proofs`, `TestEnvProofs` | theorems about `Mbox`, `Divider` and `Multiplier`; about `Stage2` and `Decoder`; about `Vm` and `Strings` | | |
| `Lemmas` | facts the proofs share: least elements, induction on a set of naturals, recursion, quotients and remainders, `Append` and `Tail` | | |
| `Mbox` | control of `mkmbox`, `mkcombo_mul`, `mkrestoring_div` between stage3 and stage4 | pipeline registers, counter, `ff_ordering`, `ff_fuid`, `ff_mbox_out` | one per rule; issue split by unit |
| `Divider`, `Multiplier` | arithmetic of the two units on words of `XLEN` bits | the units' registers and the request as history | `ma_inputs`, one clock, `mv_output` |
| `Ccore` | data side of `mkccore_axi4` | the four registers, the five AXI channels, cache and memory (external) | one per rule, plus cache and fabric |
| `Fetch` | stage0, gshare_fa's target buffer, stage1, stage2's epoch check, stage3's control rule | registers of each, buffers, epochs, the text | one per rule; `rl_gen_next_pc` split into its three cases |
| `Stage2` | stage2's `rg_stall`, `rg_wfi`, `rg_microtrap` between fetch and stages 3 and 5 | those registers, epochs, buffers, program | `decode_and_opfetch`, `rl_wait_for_interrupt`, `rl_drop_instr`, issue, write-back, and the clocks with a redirect |
| `Encodings` | the tables of `encoding.h` | | |
| `Decoder` | `decoder.bsv`, with the patterns of `decoder.defines` | the last word decoded and the answer | one decode |
| `Decompress` | `decompress.bsv` | | one expansion |
| `Vm` | `env/v/vm.c` with the hart's TLB and the host | memory, page table, TLB, freelist, trap state, `tohost` | one per step of the handler that a walk can come between |
| `FlatMemory` | what `vm.c` promises the test | image, memory seen, last value read | `Read`, `Write`, `Exit`, `Scrub` |
| `Strings` | `env/v/string.c` | memory, one call | one per function |
| `Harness` | `sim_main.cpp`, `sign_dump.bsv`, `compliance_model.h`, `riscv_test.h` | clock, reset, program position, UART, the dump's registers | one per instruction group, rule or phase of the loop |
| `Output` | what a simulation leaves behind | text, dumped words, stop | (those of `Harness`) |
| `MCBackend`, `MCFetch`, `MCMbox`, `MCDecode`, `MCTestEnv` | instances for TLC | | |

What is abstracted, and why it does not matter to the properties:

* **Backend.** A value is a member of `Vals`; a functional unit returns any
  value. An instruction is its type and registers; which bits decode to it is
  the decoder's business. Any fetched instruction may be any of `Instrs`, on
  the right path or (before a redirect) the wrong one. `dead` is a history
  field: an older instruction redirected the pc since this one was fetched. It
  is what the epochs are *meant* to say, and `EpochsTellWrongPath` says they do.
  `rg_microtrap`, `rg_wfi` and debug halts are left out; any instruction can
  arrive as a trap. The build has `bpu`: a jump or a branch executes only when
  `wr_next_pc` is valid, that is, when the next instruction is in s1-s2
  (`stage3.bsv:756`), and of that buffer only whether it is empty is kept. A memory
  response of an old epoch, which stage4 drops, is not told from one it passes
  on: it would change nothing here.
* **Mbox.** An operation is a token, results are told apart by it.
* **Divider, Multiplier.** The two's-complement arithmetic, the truncating
  comparison and the counter's width are kept; the word is small.
* **Ccore.** An eviction is a version of a line, a beat the version and word
  index it carries. The cache asks for a line only when it is absent and evicts
  it only when present; it is external, and so is the fabric.
* **Fetch.** An address is a halfword number in a small text that wraps around.
  Direction hints are arbitrary, and so is the top of the return-address stack
  within a set `Tops` of addresses, which is a parameter (inside an
  instruction too): the theorem holds for every content of BHT, GHR and RAS. A
  packet remembers the text each of its halves was read from.
  `rg_receiving_upper`, which only picks `mtval`, and the trigger logic are left
  out.

* **Stage2.** The program is straight-line code of `N` instructions whose kinds
  are all combinations of ALU, CSR, branch, stage4 fault, refused word and WFI;
  values are in `Backend`, prediction in `Fetch`. A redirect and a decode in the
  same clock are one action, because `wr_flush_from_exe/wb` is read by the
  decode. `csr` counts changes of control state, `apc` is the architectural pc.
* **Encodings, Decoder, Decompress.** A word is the record of its fields, a row
  of the table says which fields MASK selects. The `supervisor`, `user`,
  `zicsr`, `psimd`, `dpfpu`, RV64 build is modelled, without `debug`,
  `hypervisor`, `usertraps` and the counter interrupt. Which CSRs exist is decided
  by a generated module of another repository, taken to be those `encoding.h`
  declares.
* **Vm.** A page is one word, an access touches one page. The TLB may hold any
  entry it walked, valid or not, until `sfence.vma`; it may walk at any moment.
  The kernel's `memcpy` and `memcmp` through the user's address are single steps
  that such an entry can refuse. The `SUM` bit that permits them is set for
  exactly those copies (`vm.c:104-109`, `152-154`) and left out. `trap_entry` and `pop_tf` save and restore
  registers and are not modelled. Causes `medeleg` keeps in machine mode go to
  a vector that `vm_boot` left in its own middle: the model says nothing after
  one.
* **Strings.** Bytes have `Base` values and words `WordSize` bytes; the results
  of the loops are computed, not stepped.
* **Harness.** Addresses count words; a character is its index in the text; at
  each rising edge after the reset at most one rule fires. Before the reset the
  registers hold any values of `Junk`; the first rising edge is already one of
  the reset, so nothing ever reads them. Of a dumped word only the address is
  kept, so the `fence.i` in front of the stores, which is about its contents, does
  not appear.

The definitions `bug_...` are each a slip in the definition after them (a
dropped guard, a missing reset); they belong to no specification and serve to
show, for every property, that it can fail.

## 3. Runs

| Run | Spec | Shows |
|---|---|---|
| `backend_one_reg` | `Spec` | all twelve types of instruction on one register: types, locks, ids, operands, epochs, retirement |
| `backend_live` | `FairSpec` | as many rename ids as slots: stage3 never holds an instruction forever, if fetch keeps filling s1-s2; stalls end |
| `mbox` | `MCSpec` | in order, nothing lost, the code's own assertions, every operation completes; every operand pair of 4 bits, every function, word forms of 2 bits: results are the ISA's |
| `ccore` | `FairSpec` | bursts, fills and I/O interleaved: whole lines, fills see evictions, I/O answered, all complete |
| `fetch` | `FairSpec` | stage3 executes exactly the program, each half of an instruction from the current text, and keeps executing; at most one BTB entry per word |
| `decode` | `MCSpec` | stage2: nothing lost, repeated or decoded under stale control state, the program advances; decoder and decompressor agree with `encoding.h` |
| `testenv` | `MCSpec` | `vm.c`: flat memory (refinement of `FlatMemory`), frames owned once, no failed assertion, no fault in the handler, accesses complete, an exit call and an access outside the pages reported to the host, each with what it is to print and its code; `string.c`: every function against its definition; harness: text printed, the dump of `riscv_test.h` complete, nothing dumped by `RVMODEL_HALT`, simulation ends |
| `backend_pbox`, `backend_opd_spfpu`, `backend_waw`, `ccore_unordered`, `fetch_toggle` | `Spec` | the findings of section 6 |

`mbox`, `decode` and `testenv` each hold parts that share no state; a variable
`unit` chooses which part a behaviour exercises, and the others rest in an
initial state.

**Bounds and why they are enough.**

* `backend_one_reg`: one writable register is the hard case, since every
  instruction then conflicts with every other; three slots in flight suffice
  for an older writer, a younger writer and a trap between them. Two values
  tell a stale one from a fresh one. The theorems lift every bound.
  `backend_live` has 2 + 2 slots and 4 ids, so that `rg_renameid` wraps with
  all ids in use (that they differ is proved).
* `mbox`, arithmetic: 4 bits contain the most negative number, -1, zero and every
  combination of signs, and two iterations per clock over two clocks exercise
  both loops. The two units share nothing, so a behaviour exercises one.
* `mbox`, control: two input and two output registers (each a register that moves and
  one that feeds the product), two division clocks, five entries in `ff_fuid`,
  one more than `ff_ordering` holds.
* `ccore`: two lines in regions of their own, three beats (a first, a middle
  and a last), two slots per channel, one eviction of each line, one I/O
  operation. A middle beat and a second slot are needed for an I/O beat to
  slip into a burst.
* `fetch`: three words with 16-bit and 32-bit branches, 32-bit instructions
  across words and a return; rewritten once; two BTB entries for three words
  with a branch, so entries are evicted; in the rewritten text the second word
  faults. `Tops` has the two entries and an address inside an instruction.

* `decode`: three instructions of any of six kinds, so that a change of control
  state, the instruction behind it and a redirect over both all fit; two slots
  in front of stage3 and stage5; one interrupt. Words: every funct field of
  every opcode with the extensions on and off, every row of `encoding.h` with
  its free bits zero and one, every declared CSR and its neighbours at each
  privilege, every set of pending and delegated interrupts; all 49152
  halfwords that are compressed instructions.
* `testenv`: `W = 2`, two pages and three frames: one page can be paged in
  while the other is mapped, and `head` meets `tail`. The LFSR is checked at the
  width in the source, 6, too. Two values of a page tell an image from a
  store. Strings: seven bytes with words of two, so that an operation has a head,
  whole words and a tail; `memset`'s word is also checked for words of 4 and 8.
  Harness: three characters into a UART of two; signatures of 0, 1 and 3 words
  with two reads in flight; the reset and the clock with the constants of
  the source; two values in the registers before the reset, one of them the
  count at which `open_file` is done.

**What the passing fetch run assumes of software**: a `fence.i` follows every
change of text; the predictor is not switched around such a change
(`fetch_toggle` shows why); no word is entered at both halves with overlapping
encodings (section 6); `misa.C` is set. The third is
`Starts(S)` of `Fetch`: `S` gives for every text the addresses where its
instructions start, control goes only from one of them to another, no two
overlap, and the addresses fetch starts at or is redirected to by write-back
(`Entries`) are among them. TLC evaluates it for the texts of the instance
(`TextsAreDisciplined` in `MCFetch`), and the theorem about `Fetch` takes it as its
hypothesis. Of the instruction memory: it
answers in order, and the bits of a faulting response do not look like the
start of a 32-bit instruction (hazard at `stage1.bsv:285`).

**What the passing ccore run assumes**: the fabric completes a write it has
received whole before a read it receives later (`OrderedFabric`); without this
`ccore_unordered` shows a stale fill. `FillReturnsLastWrite` speaks of
evictions the bridge has begun to write, because only those are in
`wr_write_req`.

**Fairness.** A Bluespec rule whose guard holds and that conflicts with no more
urgent rule fires in that clock, so weak fairness is what the code gives per
group of rules: per stage in `Backend` (at most one rule of stages 3, 4 and 5
has its guard true), for the unit as a whole in `Mbox`, per rule in `Ccore`, per
stage in `Fetch`. Functional units, cache and fabric are assumed to answer.
Of what comes before stage3 `Backend` assumes one thing, that an empty s1-s2
buffer is filled again (`WF` of `process_instruction`): without it a jump or branch
would wait in stage3 for ever. `Fetch` justifies it: `Executes` says that
instructions keep being executed, and each one came through s1-s2. Nothing is
assumed of stage2, so none need reach stage3. The
one strong fairness is of `rl_handle_delayed_read`: its guard is false during
each burst and true in the clocks between two, in which nothing but an I/O read
competes for the channel. In `Fetch` write-back redirects after a trap; other
flushes are free to happen or not.

In `Stage2` every rule is weakly fair and nothing is assumed of devices, so a
WFI of the program may wait for ever. In `Vm` the hart goes on with the kernel's
and the test's instructions and the host polls `tohost`; page-table walks and
what the test chooses to do are not fair. In `Harness` the loop runs and a
latency ends (strong fairness of a clock edge in which some rule fires: the
model may insert idle edges between).

`CHECK_DEADLOCK FALSE` is set for `Ccore`, whose evictions and I/O operations
are bounded, and for `decode`, where a program may end in a WFI and a behaviour
that decodes a word ends with it.

## 4. Theorems

All are checked by TLAPS, for every value of the constants that satisfies the
`ASSUME`s.

`Backend` assumes `IsbS3S4 + IsbS4S5 <= IdSpace` (`configure.py` computes
`wawid` so), that `x0` is a register, and that stores, `sfence` and `xret`
have `rd = x0` (the decoder gives them none).

| Theorem | States | Under |
|---|---|---|
| `TypeCorrect` | `Spec => []TypeOK` | |
| `EpochsCorrect` | `Spec => []EpochsTellWrongPath` | |
| `InvariantHolds` | `Spec => []IInv` | |
| `LocksCorrect` | `Spec => []LocksOwned` | `NoWawStalls` |
| `IdsCorrect` | `Spec => []IdsDistinct` | `NoWawStalls` |
| `OperandsCorrect` | `Spec => []OperandsFresh` | `NoWawStalls` |
| `OpdCorrect` | `Spec => []OpdFresh` | `NoWawStalls`, no `Spfpu` |
| `RetireCorrect` | `Spec => RetireInOrder` | `NoWawStalls` |
| `TypeCorrect` (`MboxProofs`) | `Spec => []TypeOK` | |
| `ResultsOrdered` | `Spec => []ResultsInIssueOrder` | |
| `NothingIsLost` | `Spec => []NothingLost` | |
| `UnitsAreCorrect` | `MCSpec => []UnitsCorrect` | `DIVSTAGES # 1` |
| `BurstCorrect` (`CcoreProofs`) | `Spec => []BurstInv` | `DBLOCKS` in 2..256, `ShiftMod >= BeatBits * DBLOCKS`, as for the next four |
| `IoAnswersCorrect` | `Spec => []IoAnswersMatch` | |
| `BeatsCorrect` | `Spec => []WriteBeatsMatch` | |
| `EvictionsCorrect` | `Spec => []EvictionsReachMemory` | |
| `FillCorrect` | `Spec => []FillReturnsLastWrite` | `OrderedFabric` |
| `BtbIsOneHot` (`FetchProofs`) | `Spec => []BtbOneHot` | |
| `ExecutesProgram` | `Spec => []FollowsProgram` | `Starts(S)` for some `S`, no `Toggle` |
| `RetiresInOrder` (`Stage2Proofs`) | `Spec => []RetiresProgram` | |
| `DecodesFresh` | `Spec => []DecodedFresh` | |
| `TakesInterrupts` | which interrupt `decoder_func` takes, for every word and setting of the six interrupts | |
| `InterruptsTaken` | `MCSpec => []InterruptTaken` | |
| `ImmediateIs` | the immediate of every word is its format's | |
| `ImmediatesCorrect` | `MCSpec => []ImmediateFields` | |
| `TypeCorrect` (`TestEnvProofs`) | `Spec => []TypeOK` | `Period` |
| `FramesAreOwnedOnce` | `Spec => []FramesOwnedOnce` | `Period` |
| `AssertionsAlwaysHold` | `Spec => []AssertionsHold` | `Period` |
| `KernelNeverFaults` | `Spec => []NoNestedFault` | `Period` |
| `HostReadsAll` | `Spec => []HostSeesAll` | `Period` |
| `TestSeesFlatMemory` | `Spec => FlatSpec` | `Period` |
| `LibraryFunctions` | `memcpy`, `memset`, `memcmp` on any memory, byte and operands in bounds | |
| `AtolIs` | `atol` on every text of spaces, at most one sign and digits | |
| `LibraryIsCorrect` | `MCSpec => []LibraryCorrect` | |
| `OutputIsComplete` (`HarnessProofs`) | `Spec => []OutputComplete` | lengths and depths are naturals |

The preconditions are not conveniences: `backend_waw`, `backend_opd_spfpu`,
`ccore_unordered` and `fetch_toggle` are the counterexamples without them, and
section 6 describes the ones without `Starts` and with `DIVSTAGES = 1`. `Period` says that the LFSR visits all
`MAX_TEST_PAGES` values from every start, of which there is more than one:
`riscv_test.h` chooses the taps for it, and TLC
evaluates it (`LfsrPeriod`, an `ASSUME` of `MCTestEnv`) at the width of the
instance and at 6, the width the environment is built with.
It stays a hypothesis because it is a fact about particular taps, true of some
widths and taps and not of others.

**The argument for Backend.** None of the properties is inductive. Ids are
compared for equality only, so nothing in `IdsDistinct` says that the *next* id
is free; `LocksOwned` does not say *which* writer the board names. The
invariant `IInv` therefore treats the instructions in flight as one queue, s4-s5
before s3-s4, and consists of

* `AgesInv`: the age of the k-th oldest of N instructions is N - k + 1, that
  is, ids in flight are consecutive up to `rg_renameid`. Since N is at most
  `IdSpace`, they differ, and so does the next one unless the queue is full;
* `BoardInv`: the board names the youngest writer of a locked register, and an
  unlocked register has no writer;
* `EpochInv`: wrong-path instructions precede right-path ones. A flush comes
  from the oldest right-path instruction and turns all the others into
  wrong-path ones, so one bit is enough;
* `OperandInv`: operand registers of the waiting packet equal the register file.

Every rule has one of five effects on the queue (issue, move to s4-s5, leave
with a commit, leave without, leave with a flush) or none at all (a decode, a
fetch): lemma `StepKinds`. Each
conjunct is proved preserved once per effect. `OperandsFresh` then follows: the
operand is locked and the forwarding entry bears the board's id, hence is the
youngest writer, or it is unlocked and the register file is the latest value.

**The argument for Mbox.** `ff_ordering` says only which unit an operation went
to, so neither `NothingLost` nor the order of results is inductive. `Counted`
says how many operations are in flight, and `Held` gives the multiplier's
occupied stages the places of `ff_ordering` that say "multiplier", one each and
later stages earlier places (the function `f`). The divider's
operation (`DivHeld`) is the one place that says "divider". A unit's result is
then the oldest operation's exactly when the head of `ff_ordering` names that
unit, and a place in every queue is free when stage3 issues, because the s3-s4
buffer has one. What `Selected` does under append and tail is proved by
induction on a set of naturals (`Lemmas!InductionOnSet`), since an induction rule
with an operator parameter cannot be used here.

**The argument for Divider and Multiplier.** `UnitsCorrect` speaks of the result
only. `DivInv` adds what the registers hold on the way: the operands as
`fn_fix_inputs` made them, and after n steps (`After`, with `Divided`)
numbers with a = T * 2^(XLEN-n) + A and T = Q * d + s, s < d: the top n bits T of the
dividend have been divided, s is the remainder register, and the other register
holds A above Q. A step doubles; the bit that the subtraction leaves above the
remainder (`h`) is shifted out by the next one, and the comparison, which drops
it, is right because s < d fits the register. The counter reaches
`DIVSTAGES + 1` because `DIVSTAGES` and `CountMod` are both even powers of two.
The signs are then a case split over the four operations, against quotients
and remainders that `Lemmas!DivisionUnique` makes unique. `MulInv` is one
equation per pipeline register; the upper half of a mixed product and the word
form follow from arithmetic modulo 2^(2*XLEN) and 2^WLEN. The provers know
nothing of `^`, so that 2^(n+1) is 2 * 2^n comes from the cardinality of power
sets.

**The argument for Ccore.** `BurstInv` needs only that the eviction FIFO holds
evictions, and that appending to it does not change its head; the arithmetic
(`ShiftStep`) is that the next shift amount does not wrap. For the others the
channels are described as sequences:

* `IoInv`: in each direction the address and response channels together hold at
  most one transaction with the I/O identifier, and one only while write-back waits; so
  a response with it is the answer;
* `WInv`: there is a function that gives every beat in the data channel the
  address it belongs to, non-decreasing, with the beats of one address in order
  and the last marked; the burst in progress owns the last address. Memory then
  changes only by beats of the first address (`HeadWritten`), a line without a
  write in the channels holds its last eviction begun (`Settled`, `Newest`), and
  versions grow along the channel (`Rising`), so a word never gets older. With
  `OrderedFabric` a read is served after the writes that arrived before it, which
  is all that `FillCorrect` adds.

**The argument for Fetch.** `FollowsProgram` speaks of stage3 only; what makes it
true is in the queues behind it. `ProgramInv` says of everything of the current
epoch: `Feed`, where stage0 went after each request is where a predictor trained
on this text may send it; `Chain`, the packets for stage3 are the program up to
the first one stage3 will correct; `Path`, the half instruction stage1 keeps and
the next response continue that chain. Requests and packets of an old epoch
precede the current ones (`Split`), so a redirect empties the description and
starts it again at the right address. Target-buffer entries are sound for the
current text: trained on it, or flushed by the `fence.i`, or invalid. `TextInv`
adds, relative to `ProgramInv`, that the half stage1 keeps and the first halves
in the packets are of the current text: a redirect or a change of the text finds
them all of an old epoch.

**The argument for Stage2.** The packets of the current epochs form a path:
stage5's follow the program from `apc`, stage3's their predictions from there, and
stage2's packet and the fetch those (`Paths`). Old epochs are in front of current
ones. Behind a live instruction that changes control state there is nothing but
a rerun, because `rg_microtrap` or `rg_stall` is set as long as it is live (`Fresh`,
`Held`): that is what makes `DecodedFresh` true, and `rg_microtrap` harmless when it
survives a redirect.

**The argument for Decoder.** The decoder keeps no state: `DecInv` says that the
last answer is `decoder_func` of what it was given. `Ready`, the interrupts
that the privileged architecture says are to be taken (by destination), is the set the code calls
pending (by delegation bit); the entry of the priority list that is chosen is
the first in it. An immediate is compared with its format bit by bit:
`ImmSourceIs` gives for each opcode the bit of the word each bit comes from.
The proof brought out that `ImmSource` and `fn_decode_insttype` were written
with `CASE` arms that overlap, of which TLC takes the first and TLA+ any; they
are now nested as the code's conditions are.

**The argument for Vm.** The handler's own conditions (`pc`, the entry a fault
finds) say nothing of the other pages, so `IInv` relates all tables at once:

* `ListInv`, `OwnerInv`: the freelist's nodes name every frame once and are taken
  in order, so the frames before `head` are exactly those of the pages that are
  in and of the node just popped. With one node more than pages, the list has a
  node whenever a page is out (`FrameFree`, the pigeonhole principle);
* `EntryInv`: a leaf entry names its page's frame, and the hart can hold no entry
  but that one, except of the page being handled until it is flushed. So what
  the hart sees is the entry in memory (`SeenNow`) wherever the kernel copies;
* `DirtyInv`: a page that is in was accessed unless it is being handled, one that
  differs from its image is dirty, and a fault is one its entry explains;
* `ControlInv`, `HostInv`: what the hart is doing, and what is still to be sent.

Under it each handler step has one effect, without its failing branches (lemmas
`BitIsSet` to `FaultGoesByTable`, collected in `NextIsStep`); each conjunct is
then proved preserved per effect, and each effect is a step of `FlatMemory` or
changes nothing of it (`StepIsFlat`), since distinct pages have distinct frames
and no frame is a page of the image.

**The argument for Strings.** A behaviour makes one call, so the invariant (`LibInv`)
says only that a call made is right; the work is in what each function
computes, which are facts about its operands:

* a copying loop of n units of u bytes is the copy of n * u bytes (`CopyLoopIs`,
  by induction on the units, given that the areas are apart);
* `memset`'s word: r[x], the number of x places that all hold the byte,
  satisfies r[x + y] = r[x] * Base^y + r[y], which is one shift-and-or of the
  code (`PlacesSplit`), and each place of it is the byte (`PlacesHold`);
* a comparison returns the difference at the first place that differs
  (`Differ`), where lexicographic order is decided; the words `memcmp` skips
  first hold equal bytes (`WordsEqualIs`);
* after x digits `atol` holds the sum of their places divided by the power of
  the places left (`PlaceOfDigits`).

Recursive functions are handled through `Lemmas!RecursionExists` and
`InductionOnSet`, which speak of functions and sets and need no operator.

**The argument for Harness.** The clock is a function of `t`, and out of reset
it rises only from 114 to 115; until then nothing is printed or dumped. From the
first edge in reset on, `Running` holds: the text printed and the text in the UART
are the characters put so far (`Text`); `wq` holds the stores after those the
device has taken (`Stopping`); words dumped, answered and asked for are the
signature up to `rg_start_address`, `rg_total_count` counts those not yet dumped and
`rg_start` is set until there are none (`Dumping`). So the store to offset 12 is
taken either as a compliance test's first, after the poll of an empty UART, or
with the whole signature dumped.

Each of these invariants was a run of TLC before it was proved (`DivInv` with
the witnesses of `Divided` computed, at a width of two bits).

**Only model-checked**: liveness (`Stage3Progress`, `StallEnds`,
`MuldivCompletes`, `RequestsComplete`, `Executes`,
`ProgramAdvances`, `AccessCompletes`, `ExitReported`, `SimulationEnds`), which
needs `ENABLED`; the tables of the decoder (`AgreesWithTables`, except for its
immediates) and of the decompressor (`ExpansionKeepsMeaning`). These have no
parameter, and TLC tries every halfword, and every value of the fields that
select an instruction; a proof would be a case split over some 260 rows.

## 5. Not modelled

* CSR file, caches, TLBs, page-table walker, fabric, devices: separate
  repositories, absent here.
* Base ALU, pbox lanes, other predictors: planned or pure functions (section 7).
* The RV32, `debug` and `hypervisor` branches of decoder and decompressor.
* `printhex`, `wtf` and the illegal-instruction branch of `vm.c`: nothing
  reaches them. The assembly of `trap_entry`/`pop_tf`: saves and restores.
* The register field masks of `encoding.h` (`MSTATUS_*`, `DCSR_*`, `PMP_*`...):
  constants of registers that live in another repository. Its second copy under
  `micro-arch-tests/env/` lacks the event numbers and `mcountinhibit` and adds
  `IRQ_COUNTERIP`; otherwise it says the same.
* FPU arithmetic (4.9k lines): beyond TLC's reach; its instructions issue and
  retire in `Backend`.
* Configuration generator, the SoC's wiring, boot code, the generators of the
  micro-architecture tests, `obsolete/`: no part of the running core.

## 6. Disagreements between the code and its comments

Each is a run whose property states what a comment says; `PROJECT.json` quotes
the lines.

1. `backend_pbox` (`stage3.bsv:943`): `rl_pbox` issues without testing
   `wr_opd_avail`, so a packed-SIMD instruction may read an rd that is still
   being computed.
2. `backend_opd_spfpu` (`stage2.bsv:524`): with `spfpu`, `ma_commit_rd` leaves
   `rg_opd` behind the register file.
3. `backend_waw` (`stage3.bsv:547`): without rename ids, `rl_trap_from_prev`
   locks a locked rd; its later release frees a younger writer's lock, and a
   right-path reader takes the old value.
4. `ccore_unordered` (`ccore.bsv:426`): a delayed read is released when the last
   beat has been *sent*; the rule's comment asks for the write *response*. It
   matters behind a fabric that lets reads pass writes.
5. `fetch_toggle` (`gshare_fa.bsv:234`): a `fence.i` while the predictor is off
   does not flush it; switched on again, it predicts instructions that are no
   longer branches, and stage3 checks branches only.
What else the models brought up, without a run of its own:

* `stage1.bsv:309`: a prediction made for the upper half of a word is kept for
  the aligned 32-bit instruction that fills the word. A program that also enters
  the word at its upper half, where a 16-bit jump decodes, can train such an
  entry; `FollowsProgram` then fails. `gshare_fa.bsv:47-51` describes the `hi`
  field that is meant to tell the two apart.
* `compliance_model.h:23-24`: the first store of `RVMODEL_HALT` goes to the
  register that stops the simulation, so the three stores that would dump the
  signature never take effect (`DumpBeforeFinish` states both cases). No comment or
  document says that they do.
* `docs/source/test-soc.rst:82` puts the signature-dump registers at
  0x2000-0x200c, `test_soc/Soc.defines:25-26` at 0x20000-0x2000c. The stores of
  `vm.c:172-178`, which follow `terminate` and are never reached, use 0x2000.
* `string.c:108`: `atol` does not stop at a character that is no digit, as C's
  does, but counts it in. `LibraryCorrect` is about texts without one.
* `riscv.bsv:184-194` lists `lv_count_microtraps` as the fourth event, while
  `encoding.h` and `docs/source/micro-arch-notes.rst` give number 4 to
  `csrops`; the counters are in another repository.
* `decompress.bsv:247`: in an RV32 build with `spfpu`, `C.FSW` expands with the
  width of `FSD`. The RV32 build is not modelled.
* `rg_microtrap` alone survives a redirect (`stage2.bsv:579` is guarded by
  `rg_stall`); `Stage2` shows that this costs one rerun and nothing else.
* The decoder takes interrupts in the order of their causes whatever their
  destination, refuses single-precision arithmetic when only `misa.D` is off,
  and accepts `C.LDSP` with rd = 0; `Permitted` and `Reserved` say so.
* `vm.c:139-143` sets `freelist_tail` to null when one node is left, not when
  none is. It never matters: there is one frame more than pages, and the exit
  call, which appends, is followed by no allocation.
* `vm.c:205,214`: `coherence_torture` keeps the 63-bit LFSR in 32 bits, where it
  decays to zero, and then touches one address only.

In addition, instantiating `Divider` with `DIVSTAGES = 1` and `CountMod = 2`
makes `ReadyMeansAnswered` fail: `rg_count` (`mbox/restoring_div.bsv:88`) is one
bit wide and cannot reach `DIVSTAGES + 1`, although `configure/schema.yaml:247`
and the module's `staticAssert`s allow `div_stages` to be 1.

## 7. Plan

Order of the work, most important behaviour first; the first six are done.

1. `Backend` and its invariant proofs.
2. `Mbox`, `Divider`, `Multiplier`.
3. `Ccore`, data side.
4. `Fetch`.
5. `Stage2`, `Decoder`, `Decompress` against `Encodings`.
6. `Vm` with `FlatMemory`, `Strings`, `Harness`.
7. `Commit`: stage5's memory and I/O path with the store buffer.
8. The remaining ports of `ccore.bsv`: instruction side, page-table walker,
   debug access; composed with the data side on the memory transactor.
9. `History`: GHR, BHT and RAS of `gshare_fa`, against the comments on
   recovery after a misprediction (`gshare_fa.bsv:93-97` and `379-382`).
10. Pure functions over small widths: `base_alu.bsv`, pbox lanes, each against a
    reference definition.
11. An abstract sequential machine that `Backend` implements (register file and
    retirement order), checked by TLC as a refinement and then proved; the
    epoch and id arguments of `BackendProofs` are the core of it.
12. Proofs: done for the safety invariants of `Backend`, `Mbox`, `Ccore`, `Fetch`,
    `Stage2`, `Vm` and `Harness`; also for `Divider` and `Multiplier` at every
    width, the decoder's interrupts and immediates, and `Strings`; left is the
    refinement of item 11.
