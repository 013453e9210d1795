# A TLA+ model of TinyVM

TinyVM is an emulator of a one-hart RV64GC machine that boots Linux: a hart
with three privilege levels and SV39 paging, an SBI firmware played by the host,
a CLINT timer, a PLIC, a 16550 UART on the terminal, and a virtio block device.
This directory holds TLA+ modules for its control logic, TLC runs over small
instances, and TLAPS proofs for all instances.

The program is single-threaded: `main` calls `cpu_step` until the hart halts. Its
concurrency is that of the machine it emulates. Every step polls the interrupt
sources first, so the terminal, the timer and the devices act between any two
guest instructions; guest software is arbitrary; device state is reached both
from polls and from MMIO accesses.

Paths below are relative to the repository (`src/` holds the C files, `include/`
the headers).

## Inventory

| Component | State | Operations | Interacts with | What makes it correct |
|---|---|---|---|---|
| PLIC, `src/plic.c` | priority, pending, enable, threshold, claimed | set_pending, claim, complete, three register writes | devices call set_pending; drives SEIP of mip | wire equals "a claim would succeed"; best source claimed; no request dropped |
| Hart, `src/cpu.c` | privilege, pc, trap CSRs | poll, deliver, trap, ecall, ebreak, sret, mret, CSR instructions | everything | trap frames survive, returns undo traps, masks are respected, M-mode unreachable under a kernel |
| SBI, `src/sbi.c` | none of its own | init, SET_TIMER, RESET, queries | hart, CLINT | delegation complete; timer semantics |
| CLINT, `src/clint.c` | mtimecmp | poll, write | steps of the hart, STIP of mip | no early, stale or late tick |
| UART, `src/uart.c` | one-byte buffer, IER, LCR, thre_ip | poll stdin, RBR, IIR, LSR, THR, IER, LCR | stdin, stdout, PLIC | input in order, every cause requested |
| virtio, `src/virtio.c` | queue registers, ring cursor, interrupt status | register writes, ring operations, notify | guest memory, PLIC | rings never overrun, no lost completion, reset |
| virtio-blk, `src/virtio_blk.c` | disk image | read, write, get id | virtio, pread and pwrite | each request answered once, in order, with a true status |
| MMU, `src/mmu.c` | none (tables are guest memory) | translate, A and D write-back | memory, trap | finds what the tables say, protects the kernel |
| Atomics, `src/exec_a.c` | reservation | LR, SC, AMO | MMU, kernel | SC stores only over what its LR loaded; retry loops get through |
| Instructions, `src/cpu.c`, `src/exec_c.c` | registers | decode, execute | all | each computes its function |
| Memory map, `src/memory.c` | regions | find, read, write | devices | no access outside a region |
| Boot, `src/main.c`, `src/elf.c`, `src/linux_boot.c`, `src/kernel_boot.c` | none | load, start | all | execution starts at the entry the file names |

The hard behaviours are the orders in which polls, MMIO accesses and interrupt
delivery can interleave; edge-latched requests against a claim in progress;
stale copies (SEIP, STIP); two modes sharing one mstatus; page tables rewritten
while in use; a reservation that outlives the thread that made it; ring indices that wrap; resets and I/O errors in the middle of
requests. There is no persistence but the disk image and no crash recovery.
`PROJECT.json` lists each hazard at its line.

## Modules

`Plic` — the registers as sets of source numbers; one action per operation,
each ending in `plic_update_seip` as the code does. `ClaimScan` is the loop of
`plic_claim`, written as a recursive function; `plic_claim` itself uses `IsBest`,
what the loop computes, and `ScanPicksBest` says that the two agree. Reads without effect are not actions.

`Hart` — one step is one `cpu_step`: poll, then deliver or execute one
instruction. Mask CSRs are sets of bit numbers, addresses are numbers modulo
`AddrSpace`. What instructions compute is left out, what they do to pc,
privilege, trap CSRs and the run state is kept, including the paths on which the
emulator exits. `kernel_boot` tells the initial state of `sbi_init` (linux and kernel
modes) from that of `cpu_init` alone (elf mode); both are initial states, and with
them come the CSRs and masks that such software writes. The lines STIP and
SEIP take any value at every poll, which covers whatever the devices do. The
history variables `sframe` and `mframe` remember what the last trap into a mode
interrupted, as long as software has not rewritten the CSRs that hold it.

`Uart` — the UART with the terminal on one side and an arbitrary guest on the
other. The n-th byte typed is the number n. The PLIC is reduced to the pending
bit of the UART's source.

`Console` — `Uart` and `Plic` composed (a UART step that calls
`plic_set_pending` is a joint step of both) with an external interrupt-driven
driver: claim, serve IIR until it reports nothing, complete.

`Clint` — the comparator, the two ways to program it (SBI and MMIO) and the
order of poll and delivery in a step. Only the distance between `steps` and
`mtimecmp` is kept, since the code compares them and nothing else. The tick
competes with the software and the external interrupt: `Highest` is the downward
scan of `cpu_check_interrupts`, and SEIP takes any value at every poll. The guest
opens, closes and masks interrupts when it likes, in handlers too, so handlers
nest. Not in the module: interrupts that M-mode software takes out of `mideleg`;
their delivery is in `Hart`.

`Virtio` — transport and block device with the split rings in guest memory, the
PLIC and an external driver that sets up, submits, notifies, collects and
resets. The loop of `blk_notify` is one action per request, and the guest waits
while it runs. `pread` and `pwrite` may fail after any number of sectors.
`BlockServer` is the abstract specification: requests answered once each, in
order, atomically, with a truthful status. `Virtio` implements it under the
mapping at its end: `waiting` is the stretch of the available ring between the
device's cursor and the driver's index, `answered` the stretch of the used ring
that the driver has not collected.

`Mmu` — the SV39 walk over tables in the same memory that it translates to.
Addresses are sets of bit numbers, so that masks, shifts and `|` are exact.
`Walk` is the loop as a recursive function of the number of rounds; `Mapping` is
the reference definition, with no order of evaluation. Page faults and system
calls go to S-mode, or to M-mode once M-mode software has undelegated them
(`TrapMode`). Stores are aligned (`Write`, one word) or not (`WriteAcross`, that word
and the physically next one, `NextWord`): `vm_write16` to `vm_write64` translate the
first byte only, so at the end of a page the second word lies in the next physical
page, whatever the tables say of it. Each of the two words becomes any word, since
what bytes of it are old is below the granularity. A store past the end of memory
ends the emulator and is no step here. Loads and fetches run on in the same way
and change nothing but the mark of the first byte's leaf.

`Atomics` — threads that count up words with LR/SC loops and AMOs, under a kernel
that switches at any instruction. Threads may share words, under the same virtual
address or another, and different words may have the same virtual address.
`ClearBy` says what the kernel does about the reservation on a switch: "pair", an
LR and an SC to a word of its own, or "sc", an SC alone. A page fault of an atomic
instruction is a switch: the code returns before it touches anything.

`Decode` — both decoders, field by field. A word is the set of its one-bits, as
addresses are in `Mmu`, so that the C expressions translate one to one. The
reference is written the other way round: a table that names, for each bit of a
compressed instruction, the immediate bit it holds, and for each immediate bit of
a 32-bit instruction the bit it comes from.

`Alu` — integer and M arithmetic and the AMO operations, with u64 and u32 scaled
to `XLEN` and `WLEN` bits. An operation that C leaves undefined has a set of
outcomes: INT_MIN / -1 and its remainder return what the ISA defines, or the host
raises a signal; a 128-bit product of MULH that overflows wraps, the one thing that
compilers do with it. The references are those of the ISA manual with no
exception for what the code does: where the code departs from them, as MULH and
MULHSU do, a run of its own shows it. The bitwise operators are parameters; `BitwiseAssumption` is all that is
used of them (their results are registers, and low bits depend on low bits only),
and TLC checks it of the real ones. Powers of 2 are a recursive function, and
`WLEN` is one, as 32 is: a shift amount is then the same before and after an
operand is cut to a word.

`MemoryMap` — the region table and `mem_find_region`, with the sum that may wrap.
`Elf` extends it with the placement of segments and the entry point.

`PureFunctions` — what the functions of `Decode`, `Alu`, `MemoryMap` and `Elf` must
satisfy, as properties of a variable `input` that holds one call.

`MC*` modules only supply constants; `MCFunctions` also enumerates the inputs of
`PureFunctions`. Operators whose comment begins with
"Mutant" are altered copies of the definition that follows them; no specification
uses them. They are the plausible errors that the properties are tested against.

## Runs

Passing runs:

| Run | Bounds | Properties |
|---|---|---|
| `plic` | 2 sources, 3 levels, both contexts: a tie, a threshold between, and a claim by the other context all occur | `TypeOK`, `SeipIffEligible`, `ScanPicksBest`, `RequestsKept` |
| `hart` | both boot modes; 4 addresses (vectors with mode bits, pc wraps), masks covering every S-visible bit and, in elf mode, M-only bits, all modelled CSRs: both trap halves, both returns and both interrupt loops nest | `TypeOK`, `KernelStaysBelowM`, `FrameIntact`, `ReturnRestores`, `InterruptsRespectMasks` |
| `uart` | 4 bytes typed, the last one Ctrl-\, 2 sent | `InputInOrder`, `QuitAfterDrain`, `EdgesAreRequested` |
| `console` | 4 typed, 3 sent | `NoLostInterrupt`, `TypedIsReceived`, `QueuedIsSent`, `UartSpec` |
| `clint` | deadlines up to 30 steps ahead, larger ones add only more waiting; every set of pending and enabled interrupts | `NoStaleTick`, `NoLateTick` |
| `virtio` | queue of 2, indices modulo 4 (two rounds of the ring before the wrap), an image of 1 sector, a write past its end that may grow it, a read across the end, an unknown request | `TypeOK`, `RingsBounded`, `StuckOnlyPastCapacity`, `NoLostCompletion`, `ServerSpec`, `AnswerEventually` |
| `mmu` | 3 levels of 2 entries, 4 pages of 2 words, 2 words stored over the image, one by one or by one unaligned store; the user page is followed by a table | `WalkFindsMapping`, `SuperpagesAreLinear`, `ReadsKeepMap`, `UserConfined`, `DirtyIsMarked` |
| `atomics` | 3 threads: two share a word under one address, one has another word under the same address | `ScAtomic`, `EveryoneFinishes` |
| `functions` | all 49152 compressed instructions; 14 opcodes with two operand bits set or two clear; 8-bit registers with 4-bit words; all addresses of a 256-byte space; files of one or two segments | `ImmediatesMatchIsa`, `EveryBitCounts`, `ArithmeticLaws`, `AmoOnWords`, `AccessInBounds`, `EntryIsLoaded` |

`functions` replaces states by inputs: a behaviour is one choice of an input, and
the invariants compare what the code computes with a reference. Two bits are
enough for the 32-bit immediates because each bit of the result depends on one bit
of the instruction and on the sign; the scaled widths keep every relation between
register, word, sign and shift amount that the code has. The proofs remove both
bounds. It checks `ArithmeticLaws`, the part of the arithmetic that is right, and
`functions_isa` over the same inputs the part that is not.

`UserConfined` and `DirtyIsMarked` say what `mmu.c` guarantees, and it is less than the
ISA does. A user program's aligned stores stay in its own pages. An unaligned
store at the end of one of them also changes the first word of the next physical
page, unchecked and unmarked, be it the kernel's or a page table: with the image
of the run, the user page is followed by one. The properties say that nothing
beyond that one word is reachable; a kernel that relies on page protection does
not get it from this MMU.

Deadlock is checked except where the system may stop: the console after Ctrl-\
or with nothing left to type and send, and `functions`, which ends after one input.
A device stuck at the end of the image stutters (`Stuck`).

Runs that find a disagreement between the code and what the repository says of it:

| Run | Property | Said | Done |
|---|---|---|---|
| `hart_atomic` | `TrapEntersAtVector` | `include/mmu.h:15`: on a fault the trap is taken and pc updated | after LR, SC and AMO `execute` adds 4 to that pc |
| `atomics_linux` | `NoLostUpdate` | `src/exec_a.c:6`: one hart needs no more than a reserved address; `README.md:17`: Linux sees the ISA | an SC that fails keeps the reservation, so the SC with which Linux clears it on a return from a trap clears nothing: a thread stopped between LR and SC stores over an update made meanwhile |
| `functions_isa` | `SignedProductsMatchIsa` | `README.md:17`: Linux cannot tell the machine from hardware, since it sees the ISA | MULH and MULHSU widen negative operands with zeroes: the most negative number times 1 has upper half 0 instead of -1 |

Observations that the models make visible and no run is spent on:

- `tests/riscv/test.c:2` says "Halts with ebreak."; ebreak traps and the main loop
  goes on.
- `include/cpu.h:99` defines MXR as making executable pages readable; `pte_check` does
  not look at it.
- The device tree wires the PLIC to MEIP (`dtb/tinyvm.dts:52`) and `include/cpu.h:117`
  says that the CLINT sets MTIP; no code raises either.
- mret takes the reserved MPP value 2 (`include/cpu.h:103` lists 0, 1 and 3) as a
  privilege level, which is why the type invariant of `Hart` allows it.
- A store that crosses a page is checked and marked for its first page only and
  goes on into the next physical page (`WriteAcross` of `Mmu`, see above).
- INT_MIN / -1 may end the emulator, where the ISA defines the result.
- AMOs on words compare 64 bits of the operand register; they agree with the ISA
  for operands that are sign-extended words, and `AmoOnWords` speaks of those only.
- An access that reaches the end of the 64-bit address space wraps in
  `mem_find_region` and is taken for the first region (`AccessWraps`).
- The all-zero halfword decodes as an instruction, and a 32-bit instruction that
  crosses a page is fetched through the translation of its first half.

### Fairness

Safety properties assume none. `Console` assumes that stdin keeps being polled
and that the guest's driver keeps running: the main loop calls `cpu_step` without
end and polls on every 1024th step; the user is not obliged to type. `Virtio`
assumes that a notify handler once entered runs on (it is a loop inside one
store instruction), that the driver's interrupt handler runs to its end, and,
strongly, that the driver kicks a queue it has added to and takes a pending
interrupt: a kernel opens interrupts again and again, and `cpu_step` delivers
before it executes anything else. Resets are not prevented: a reset answers a
request by forgetting it. A device that is stuck answers nothing more, which
`AnswerEventually` grants and `StuckOnlyPastCapacity` confines. `Atomics` assumes,
strongly, that the kernel runs each thread again and again and that now and then
a time slice holds both LR and SC: a slice of the timer is thousands of steps. No
thread is obliged to use an AMO.

## Proofs

All proofs are for every value of the constants that satisfies the named
assumptions, which say only that sizes are natural numbers of a sensible range, and
what `BitwiseAssumption` says of the bitwise operators.
Each module of proofs states its inductive invariant first; those of `Console` and
`Virtio` were checked with TLC on the instances of the runs before they were
proved.

`PlicProofs`: `TypeCorrect`, `SeipCorrect`, `RequestsNeverDropped`, `ClaimPicksBest`.
`SeipIffEligible` is inductive together with `TypeOK` because every action ends by
recomputing the wire; the proof is the claim that no action forgets to.
`RequestsKept` needs that a claimed source is eligible, hence pending and not yet in
service. `ScanPicksBest` is about the loop of `plic_claim`: after n rounds it holds the
best eligible source among the first n, or 0 (`ScanInvariant`), by induction on n.

`HartProofs`: `TypeCorrect`, `KernelNeverInM`, `FramesCorrect`, `ReturnsCorrect`,
`InterruptsCorrect`, `OnlyAtomicsEnterLate`. `KernelStaysBelowM` is not inductive: a hart in S-mode could leave
it by an exception or interrupt that is not delegated. `KernelInv` adds that the
delegation registers are what `sbi_init` wrote and that mip holds delegated bits
only; then every cause that S and U can raise goes to S, and `min_priv` keeps the
delegation registers out of their reach. `FrameIntact` is inductive given types; it
rests on traps to one mode touching disjoint mstatus bits from the other's, and
it gives `ReturnRestores` at once. All hold for both boot modes, `KernelStaysBelowM`
for the one it is about. `OnlyAtomicsEnterLate` is the other half of the run
`hart_atomic`: of all steps that enter a handler in S-mode, the page fault of an
LR, SC or AMO is the only one that does not enter it at its first instruction.

`UartProofs`: `InputCorrect`, `QuitCorrect`, `EdgesCorrect`. The invariant is types,
order and `ExitState` (after the exit the last byte read was Ctrl-\ and the
buffer was empty). The type of what the guest has received needs the order (a
buffered byte is never 0), and the order needs that nothing is read after the
exit.

`ConsoleProofs`: `NoInterruptLost`, `ConsoleImplementsUart`. `NoLostInterrupt` speaks of
the driver when it waits, and is lost in the middle of the handler. `ConsoleInv`
follows a request through it: `Requested` says that an asserted cause is pending in
the PLIC unless the driver has still to look at IIR, `InService` that the source is
claimed exactly while the driver serves it, and `Programmed` what the driver has set
up at each location; with `SeipIffEligible` of the PLIC a pending, unclaimed, enabled
source is a high SEIP. The refinement maps the UART's request line to the PLIC's
pending bit; it holds step by step, since a joint step of UART and PLIC is a step of
`Uart` and a step of the PLIC or the driver alone clears that bit or leaves it.

`ClintProofs`: `TypeCorrect`, `TicksNotStale`, `TicksNotLate`. Both rest on two lemmas: what
the poll leaves in STIP is the comparator and nothing else
(`PolledIsComparator`), and every step takes an interrupt right after that poll or
found none to take (`StepTrapsOrExecutes`). `HighestIsPending` adds that among pending
interrupts the tick gives way to the external one only. A tick is therefore late by
external interrupts and nothing else; how many of those a guest takes in a row is
up to its devices and its handlers.

`InstructionProofs`: what instructions compute, what decoders read, and atomics.

- `ArithmeticIsRight`, `SignedProductsExactly`, `AmosAreRight`: division, the halves of the
  product, the W forms and the AMOs, for any `XLEN` and `WLEN` that satisfy
  `AluAssumption`. The first is for any operands; the second says of exactly which
  operands MULH and MULHSU are right, the other half of the run `functions_isa`; the
  third is for any operands but those of a comparing AMO.W, which must be
  sign-extended words.
  The argument is arithmetic modulo a power of 2: a register, its signed value, its
  low word and its sign extension differ by multiples of `Pow2[WLEN]` (`SignedIs`,
  `SextIs`, `Cut`), remainders are equal exactly when numbers differ by a multiple
  (`SameRemainder`), and there is only one signed value in range (`SignedOf`,
  `SignedUnique`). Division adds that truncated quotients fit unless
  `Overflows` (`QuotRemFit`), the comparing AMOs that sign extension keeps the order
  of words (`SextOrder`).
- `ImmediatesAreRight`: the immediate of every word and every halfword. A field is
  shown bit by bit (`FieldHas`, `SextHas`); for a compressed instruction each immediate
  is what its row of the reference table lays out (`LaidOut`), and the selectors of
  decoder and table agree because the constants they compare with differ
  (`BitsDiffer`, `Formats`).
- `TypeCorrect`, `ScCorrect`, `UpdatesAreKept`, for any number of threads, words and
  aliases, under `ClearBy = "pair"`. `ScAtomic` follows from `ReservationIsFresh`: if the
  running thread stands at its SC and the reservation is its address, the word
  still holds what its LR loaded. It is inductive because a switch leaves no
  reservation at all, and because between two switches only the running thread
  writes. `UpdatesAreKept` says that under such a kernel `NoLostUpdate` holds, which
  the run `atomics_linux` refutes under the other: each word is the number of
  increments made on it (`CountInv`), counted as a set of pairs of a thread and the
  number of its increment.

`VirtioProofs`: `TypeCorrect`, `RingsNeverOverrun`, `HangsOnlyPastCapacity`,
`CompletionsAnnounced`, `VirtioImplementsServer`, for any queue size, any range of the
ring indices that it divides, any image and any requests. The bound on the rings is
not inductive: that a submission fits follows from the number of chains in flight,
so `ChainsInRings` says that each chain in flight is in one ring, once, and no other
is. The slots are indices modulo two numbers, `IdxMod` and `QueueSize`; the lemmas on
remainders at the start of the module reduce a push and a pop to sequence
operations, which is what the refinement of `BlockServer` needs: `waiting` and
`answered` lose their head or grow by one element at every step that touches them.
`Announced` follows a completion from the used ring through interrupt status and
PLIC to the driver, `ImageGrows` and `QueueReady` confine the loop that never ends.

The proof of the rings found an assumption that was too weak: it needs
`QueueSize < IdxMod`, since with as many slots as indices a full ring looks like an
empty one. The code satisfies it by far (`VIRTQUEUE_MAX_SIZE` is 128, `src/virtio.c:12`,
and the indices have 16 bits); `VirtioAssumption` now says it.

`MemoryProofs` goes from the virtual address to the byte. About `Mmu`, for any number
of levels, any size of tables and any contents of memory: `TheWalkIsTheMapping`,
`LinearSuperpages`, `ReadsChangeNoMapping`, `UserProgramsConfined`, `StoresMarkDirty`. The
invariant is that memory is a memory of words; nothing is assumed of the tables,
so all five hold while the guest rewrites them. That the loop finds what the tables
map is shown in both directions: the walk follows every chain of tables
(`ChainIsWalk`), so there is at most one, and the tables it has visited are a chain
(`WalkIsChain`). Marks do not change a walk (`WalkOfSimilar`), so reads keep the map.
The last two are about one or two words: an unaligned store differs from the marked
memory in the word its address maps to and in the next one (`TwoWordsKeepMemory`),
and only the first of them is known to be in a page that permits the store.
About `MemoryMap`: `AccessesAreInBounds`, from `AccessesStayInside` and `AccessesWrap`. The
lookup takes the first region that accepts; that one exists is the
well-foundedness of the natural numbers, and that it holds the whole access is
arithmetic without a wrap, for any table and any width. An access that does wrap
lands outside the region that takes it if no region reaches into the last 8
addresses, which the proof assumes and the table of `main` satisfies by far.
About `Elf`: `EntriesAreLoaded`, from `ProgramsStartAtEntry`, for any number of segments, shift and memory map,
under `EndInSpace`: no segment reaches the end of the address space, neither where
it is linked nor where it is loaded. Without it the sums of `elf_load` wrap, two
segments that are disjoint in the file may overlap in memory, and
`mem_find_region` takes an access that wraps.

Induction over rounds and positions is by the least counterexample (`LeastOf`,
from the well-foundedness of the natural numbers), and a recursive function is
replaced by any function that satisfies its equation, after a lemma that one
exists (`ScanExists`, `WalkExists`, `PowExists`).

Only model-checked: liveness under fairness (`TypedIsReceived`, `QueuedIsSent`,
`AnswerEventually`, `EveryoneFinishes`), which the prover does not handle; and
`EveryBitCounts`, where the run `functions` is already complete: it enumerates all
compressed instructions, and there are no constants. What is assumed of the
bitwise operators is checked by TLC for 8-bit registers.
`KernelInv`, `ReservationIsFresh`, `ConsoleInv` and `VirtioInv` are proved invariants that
no run lists.

## Not modelled

Floating point: the code hands it to the host's arithmetic and libm. Terminal
set-up, reading of files, header checks of the ELF loader, and the copying of
device tree and initramfs to fixed addresses: pure I/O. Counter CSRs, the values
of scause and stval, SBI output, feature negotiation of virtio: storage that nothing
else reads. Which bytes of a word an access reads or replaces: `Mmu` is word-granular,
so what a load or a fetch across a page returns is not in it. An endless stream of
input against the UART's output, a second thread in the virtio driver.

## Plan

Done, in this order: Plic, Hart, Uart, Console, Clint, Virtio with BlockServer, Mmu,
Atomics, Decode, Alu, MemoryMap, Elf; proofs for all of them. Every safety property
of the passing runs is proved, except the one that its run settles. Left:

1. `Machine`: Hart, Plic, Uart and Clint composed, SEIP in mip exactly when the PLIC
   has an eligible source, shown to implement `Hart`.
2. Bytes in `Mmu`, for what loads and fetches across a page return.
