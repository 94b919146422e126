# R5O5 in TLA+

R5O5 is a small teaching kernel for RISC-V under QEMU (`kernel/`), with a
program that builds its disk image (`mkfs/`) and one that extracts its log
(`logs/`). This directory holds TLA+ models of the kernel, TLC configurations
that check them on small instances, and proofs that TLAPS checks for every
value of the constants.

    tlc -workers 2 -config Disk.cfg Disk     # one run; see section 3
    tlapm DiskProofs.tla                     # one module of proofs

## 1. The system

The kernel is sequential: one hart, interrupts off, except inside `diskRW`
(kernel/disk.c) and in user mode. `error()` prints a message and loops for ever.
So most calls run to completion and can be modelled as one step; where something
really interleaves (the disk, the trap from user mode, keys that arrive while
the handler drains the UART, power loss between two disk writes) there is one
action per step that something else can come between.

| component | source | state it keeps | operations | used by |
|---|---|---|---|---|
| page allocator | memoryAllocator.c | `pages[]` (a stack), `currFreePageNode`, `numFreePages` | `pageAllocInit`, `allocatePage(s)`, `freePage(s)` | page tables |
| disk driver | disk.c | descriptors, rings, `info[]`, `used_idx`, `Buffer.disk` | `diskInit`, `diskRW`, `diskIntr` | buffer cache; interrupt path |
| interrupt path | kernelvec.S, interruptHandler.c, plic.c | save area, `mie`, `mstatus`, PLIC | trap entry, `devintr`, claim, complete, return | the disk and the UART |
| buffer cache | buffer.c | list of `NBUF` buffers: block, `valid`, `refcnt`, data | `binit`, `bread`, `bwrite`, `brelse` | byte transfers, log |
| byte transfers | buffer.c | none; one buffer at a time | `readBytes`, `writeBytes`, `...Virtual` | loader, ELF reader |
| page tables | paging.c | trees of directories in pool pages | create, map, translate, deallocate | loader, byte transfers |
| processes | process.c, createProcess.c, uservec.S, interruptHandler.c | `pd[]`, `currentProcess`, CSRs | `createProcess`, `dispatcher`, trap, `userret` | boot code |
| program loader | createProcess.c | none | `programLoader` | `createProcess` |
| ELF reader | elfReader.c | `elfNodes[]` | `elfReader`, `allocateELFReader` | loader |
| log | debug.c, logs/getLogInfo.c | `block_no`, `off` (in RAM only) | `logDataInit`, `logData`; extraction on the host | kernel code |
| console | console.c, uart.c | input ring `r`, `w`, `e` | `consoleintr`, `consputc` | UART interrupt, `printf` |
| image builder | mkfs/r5o5_mkfs.c | the image, `blockNum`, `offset` | `buildDisk`, `storeProgram` | host |

**How they interact.** `bread` and `bwrite` call `diskRW`, which publishes a
request, enables interrupts and executes one `wfi`. Between that and
`intr_all_off()` the trap path runs: `kernelvec` → `kernelInterruptHandler` →
`devintr` → `diskIntr` or `uartintr`. `readBytesVirtual` asks the page table for
the address of every byte. The loader reads an ELF file through the byte
transfers and fills a page table with pages of the allocator. The timer takes a
process to `uservec` → `userInterruptHandler` → `dispatcher` →
`selectProcessToRun` → `runProcess` → `userret`.

**What is hard.** An interrupt between two instructions of `diskRW`; the
answer of the device to an earlier call; failed transfers; buffers that claim to
hold block 0 before anything was read; runs of bytes across blocks, and power
loss between them; directories made of pages with old content; the pool running
out in the middle of a mapping; the order of saving and restoring around a
switch of process. `PROJECT.json` lists these under "hazards", each with its
line and the properties that watch it. So are a log position that does not
survive a reboot, an input ring nobody reads, a node index counted up twice per
program header, and an inclusive end of one program that is the start of the
next.

**What makes each component correct.**

- *Page allocator*: every page in one place, the index inside the array.
- *Disk*: a call is one transfer of the right block; it comes back; it takes and
  returns three descriptors; the interrupt handler never uses a null pointer.
- *Buffer cache*: one copy of a block, the copy agrees with the disk unless it is
  being changed, reference counts are holders; users see one store of blocks.
- *Byte transfers*: exactly the bytes asked for, in order, or an error for
  exactly the requests that cannot be served.
- *Page tables*: no page leaked, shared or freed twice; mappings appear and
  disappear only on request.
- *Processes*: user mode runs the chosen process with its own state; switching
  loses nothing; no process is passed over.
- *Loader and ELF reader*: a process has in memory what its file says; the stack
  is above it; only what cannot be loaded is refused.
- *Log*: what was logged is on the disk when `logData` returns, in order; a full
  log area ends in an error and touches nothing else.
- *Console*: finished lines do not change; the screen shows what is in the ring.
- *Image builder*: what is recorded is where it says; room is refused only when
  there is none.

## 2. Modules

| module | models | implements |
|---|---|---|
| PagePool | abstract: a set of pages, free or handed out | |
| PageAllocator | memoryAllocator.c | PagePool |
| PageAllocatorProofs | theorems about PageAllocator | |
| BlockDevice | abstract: one transfer per call | |
| Disk | disk.c, plic.c and the trap path, with device and UART | BlockDevice |
| DiskProofs | theorems about Disk | |
| BlockStore | abstract: one content per block, on disk and in memory | |
| BufferCache | bread, bget, bwrite, brelse of buffer.c | BlockStore |
| MCBufferCache | symmetry for the run of BufferCache | |
| BufferCacheProofs | theorems about BufferCache | |
| ByteIO | readBytes, writeBytes and the virtual variants, **composed with** BlockStore | |
| Log | debug.c and logs/getLogInfo.c, **on top of** ByteIO; reboots | |
| LogProofs | theorems about ByteIO and Log | |
| AddressSpaces | abstract: maps from virtual to physical pages | |
| PageTables | paging.c on modelled physical memory | AddressSpaces |
| MCPageTables | values for the runs of PageTables | |
| PageTablesProofs | theorems about PageTables | |
| Processes | createProcess, scheduler, trap from user mode, userret | |
| ProcessesProofs | theorems about Processes | |
| Mkfs | mkfs/r5o5_mkfs.c | |
| Loader | createProcess.c, elfReader.c, **composed with** Mkfs and AddressSpaces | |
| MCLoader | program files for the run of Loader | |
| LoaderProofs | theorems about Mkfs and Loader | |
| LineEditor | abstract: finished lines and the line being edited | |
| Console | console.c and the input side of uart.c | LineEditor |
| ConsoleProofs | theorems about Console | |

The layers fit together through the abstract modules: Disk implements BlockDevice,
which is what BufferCache takes one call of `diskRW` to be; BufferCache
implements BlockStore, whose actions ByteIO uses for its calls of the cache.
The first of these links holds without keyboard interrupts only (finding
`disk_early_return` below). Everything said of BufferCache, ByteIO and Log is under
the condition that `diskRW` keeps its contract. In the same way Loader maps pages by
the actions of AddressSpaces, which PageTables implements, and reads the
disk that Mkfs wrote; that all its steps are steps of AddressSpaces is a theorem
(`LoaderUsesSpaces`).

### PageAllocator

Variables `pages`, `currFreePageNode`, `numFreePages` are the globals. Each of
the four operations is one action; `Pop(n)` and `Push(s, n)` are the statements
of `allocatePage` and `freePage`, n times. `FreePages` keeps the partial effect
of a batch that fails in the middle. `handed`, `stray` and `reply` are history:
the pages callers hold, whether a caller has ever released a page it did not
hold (the code cannot tell), and what the last call returned. Callers may
release anything at any time; `EveryPageOnce` and `PagePool` promise something
until the first such release, `StackBounds` always.

### Disk

One action per step that something else can come between:

| action | code |
|---|---|
| DiskInit | `diskInit`: all descriptors free, or `error()` |
| Fill | disk.c 107–153: alloc3_desc, the three descriptors, `b->disk`, `info` |
| Publish, Notify | 155–156: ring and index; 158: the notify register |
| Arm | `intr_dev_on()` |
| Sleep | `wfi`; the processor wakes through TrapEntry |
| Finish | 162–166: `intr_all_off`, clear `info[].b`, `free_chain` (`ChainFrom`) |
| TrapEntry | trap, `intr_all_off` of the handler, `plic_claim` |
| DiskIntrStep | one round of the loop in `diskIntr` |
| TrapReturn | `plic_complete`, `mret` |
| Fetch, Transfer, Complete, Raise, Quiesce | the device (external) |
| KeyPressed | the UART (external) |
| Touch | the cache, between calls: blockno and data of a buffer |

`kernelInterruptHandler` turns all interrupts off and never on again, and it
clears MPIE too, so after a trap `mret` leaves interrupts off.

Of the handshake in `diskInit` only its outcomes are modelled: a device that is not
the one expected, or a queue too short, ends in `error()`. A key may be pressed
while `keysLeft` is positive; `keyed` is history. What a caller is promised
(BlockDevice, FlagTellsOwner, EndsOrOversleeps) is void from the first key on;
what protects memory (TypeOK, DescriptorsReturned, NoNullStore) is not.

External assumptions, from QEMU and the RISC-V manual: PLIC sources have equal
priority, so a claim returns the lowest number (disk 1 before UART 10); each
completion raises the interrupt again although the driver never writes
`INTERRUPT_ACK`; an enabled interrupt that is pending is taken before `wfi`
starts; `wfi` with no interrupt enabled does not end; a request chain with a
freed descriptor (address 0) stops the device for good. Steps are in program
order: reordering of stores by the compiler or the processor is not modelled.

### BufferCache

`lru` is the list from `head.next` to `head.prev`; the pointers are not modelled,
only the order they give. `bread` with its `bget` is the action Bread (hit or miss) or
BreadNoBuffers. A user is a caller between `bread` and `brelse`. The callers in
the code never release a buffer they changed and did not save; `Brelse` says so.

### ByteIO

The store is BlockStore with one user. Each call of the cache is a step, so the
contents of the disk are visible between any two of them: that is where the
machine may be switched off. `CopyByte` is one round of the copying loop,
`EndOfBlock`, `Save`, `Release` the tests, `bwrite` and `brelse` around it.
There is a single initial state, in which every place of disk and memory has a
byte of its own. The code copies bytes and never looks at one, so a byte that
ends up where it should not is seen from these contents if it can be
seen from any.

### Log

Log EXTENDS ByteIO: `logData` has the loop of `writeBytes`, with the globals
`block_no` and `off` where `writeBytes` has locals. LogData starts a call there, Step
is a step of ByteIO that moves them along, and `Reboot`, enabled in every state, keeps
the disk and nothing else. After a reboot the log is written from its first
block on, over the earlier one: `LogIsDurable` speaks of what was logged since
boot. `logs/getLogInfo.c` copies one block, whatever the length of the log, though
the repository's README says that it extracts the logged information;
`ExtractsFirstBlock` states what can be relied on.

### PageTables

Memory is one array of entries per page; a directory is a page like any other
and what a page holds when it is taken from the pool is what its last user left. Each call is
one step, written as functions of a record m (memory, pool, error flag) that
stand for the statements: `Filled` is one level of `mapVirtualPage`,
`DropEntry` one round of a loop of `deallocatePageTable`. `leaked` is history:
`allocateVirtualPage` takes a page and passes it to `mapVirtualPage`, which
never uses that argument and takes another page itself, so the first is lost.
The model does as the code does, and `EveryPageAccounted` counts these pages.
`deallocatePageTable` has no caller in the kernel; it is an operation like the
others. `StoresEntries` chooses what processes store: data that looks like a
valid entry, or data that does not.

### Processes

`kernel` is the place in the sequence select → run → ret → user → uservec →
handler. A
context (registers or program counter) is the process it belongs to and how far
that has run. `userret` loads the index of the current process through `t0`,
which nothing on its path has set (uservec.S:85; compare line 23): `Userret`
is therefore a choice between the registers of any slot, garbage, and a fault (`Fault`,
which traps to `uservec` from the kernel).
This is why no property about the registers a process goes on with is stated; what is
saved for it is checked (`InterruptedStateKept`). `main()` does not call
`createProcess` or `dispatcher` yet; they are modelled as the interface the
kernel offers. What `programLoader` does is
one outcome here, loaded or failed; module Loader is about the inside of it.

`uservec` first keeps `t0` and `t1` on the stack of the process (uservec.S:19-31), in machine
mode and so without translation: what the stack pointer names there is not the process's
stack page. `Uservec` has three outcomes. The stack holds them (`StackHolds`); it does not, and
the slot gets registers that are not the process's (`StackLoses`); or the store faults and
traps to `uservec` again, with `mepc` and `mcause` now those of the fault (`StackFaults`), which may
repeat for ever or end in `error()`. `InterruptedStateKept` promises the program counter in any
case in which the kernel goes on, and the registers if the stack held them; `left[p].held` is
the history that says so. A stack pointer that names the kernel's own data would let the store
overwrite anything; that is excluded.

### Mkfs

The disk is an array of cells, `BSIZE` per block; a program is a sequence of cells.
One cell stands for what the code moves by the byte; block boundaries may fall
between any two. `StoreProgram` opens a file, `WriteCell` is a round of the loop with the
carry at its head, `Record` the end of a store, `GiveUp` both ways of
failing: no room, and a failing `fwrite`. `Record` has two outcomes: the line about the
program is written to the information file, or `fprintf` fails and it is lost; the place moves on in
both. The end that is recorded is inclusive, and it
is also where the next program starts: the last cell of a program is overwritten
by the first of the next one, also when that one fails later or has no line.
An empty file is stored like any other and moves the place back by one
cell, the first one into the block before `PROC_START`; in front of the disk `fseek` fails.
So `ProgramsInPlace` promises the cells in front of the first that a later program begins
on, and that these are all cells but the last (`Whole`) unless an empty file was tried
after the program. It follows the place from each try to the next (`Left`).

### Loader

Mkfs runs until `Boot`; then processes are made of recorded programs. An ELF header and a program
header take one cell each, so that the interesting offsets stay small. `ReadElfHeader`,
`ReadProgramHeader`, `AllHeadersRead` are `elfReader` and `allocateELFReader`; `MapCell` is a round
of the page loop, `LoadSegment` the `readBytesVirtual` of a segment with the update of
`stackBeginVirtPage`, `AllocateStack` and `Finish` the rest of `createProcess`. Addresses and the
64-bit offsets of a segment wrap at `ADDRESSES`, page numbers at `VirtualPages`; the offset of the
first program header is an `int`, so `FirstOff` cuts it to `INTS` values and gives it a sign.
`readBytes` and `readBytesVirtual` are one step each, which is what ByteIO shows of them. Where a
header is said to lie there may be anything: `Garbage` is what it may look like, and so may be what
is read with an offset below 0. Callers name a recorded program, or a start beyond the disk.

`cnt` is counted up by `allocateELFReader` and again by the loop, also for headers
that are not loaded. Its comment (elfReader.c:27) calls it the index of the
next available node; in fact about half of the nodes are skipped. The nodes in use
stay distinct and inside the array (`TypeOK`), and `LoadsWellFormed` promises
success only for programs with at most `ELFSIZE`/2 headers.

What a process has in memory is promised for a program that is well-formed and `Whole` (`Intact`).
Well-formed programs end below the last two pages of the address space, for above that the pages of the
stack wrap around to the lowest ones.

Not modelled here: the entry point, the segment's permission flags (the loader
gives every page R, W and X), the directories' pages (PageTables counts those), and that
fresh pages are not cleared: what lies between `filesz` and `memsz` is not promised.

### Console

`fifo` is what the UART has received, `handling` that `uartintr` runs. Each round of
its loop is an action for the key it takes: `Kill`, `Backspace`, `Store`, `Ignore`. Keys
arrive in between, so the loop may go on for as long as somebody types. `screen` is
what `consputc` leaves on the terminal. Control-P is an ordinary letter: the code
stores it, though the comment at console.c:12 says that it prints the process list.
`cons.r` is the constant 0, for nothing reads the ring: once `INPUT_BUF`
characters have been stored, input is ignored for good. `consputc`'s test of
`errorOccurred` is left out, for no key is handled after `error()`.

## 3. Runs

| run | module, cfg | checks | bounds |
|---|---|---|---|
| alloc | PageAllocator | TypeOK, StackBounds, EveryPageOnce, ImplementsPool | 4 pages, batches up to 3, any caller |
| disk | Disk | TypeOK, FlagTellsOwner, DescriptorsReturned, NoNullStore, ImplementsBlockDevice, EndsOrOversleeps | 4 descriptors, indices mod 8, 2 buffers, blocks and contents; failing transfers; no key or one |
| cache | MCBufferCache, BufferCache | TypeOK, UniqueCopy, CountsHolders, Coherent, ImplementsStore | 3 buffers, 4 blocks, 2 contents, 4 users |
| bytes | Log | LogTypeOK, MovedExactly, WritesArePrefixes, RefusesExactlyImpossible, LogIsDurable, LogRefusesOverflowOnly, ExtractsFirstBlock | 4 blocks of 2 bytes, 2 of them for the log; up to 4 bytes per call, one unmapped location; 2 log entries per boot, 2 boots |
| page_tables | MCPageTables, PageTables | TypeOK, EveryPageAccounted, ImplementsAddressSpaces | 2 entries per directory, 9 pages, 2 tables, 3 virtual pages |
| processes | Processes | TypeOK, UserModeIsCurrent, KernelNotInterrupted, InterruptedStateKept, NoneSkipped | 3 slots, 2 steps per process |
| console | Console | TypeOK, EchoShowsInput, ImplementsLineEditor | ring of 4, UART of 2, 2 letters and all special keys |
| programs | MCLoader, Loader | TypeOK, ProgramsInPlace, RefusedExactlyForRoom, LoadedAsBuilt, StackAboveProgram, LoadsWellFormed | 6 blocks of 3 cells, 4 for programs; up to 3 of 13 files; 4 nodes, 2 slots, 8 pages of 2 cells, 6 virtual pages, addresses mod 72, ints mod 36 |
| disk_lost_wakeup | Disk, DiskLostWakeup | RequestReturns: **violated** | as disk, no key, no failing transfer |
| disk_early_return | Disk, DiskEarlyReturn | ReturnsAfterTransfer: **violated** | as disk, one key |
| page_tables_stale | MCPageTables, PageTablesStale | MappingsAreFresh: **violated** | 7 pages, processes store anything |
| processes_round_robin | Processes, ProcessesSchedulerFindsProcess | SchedulerFindsProcess: **violated** | as processes |

Deadlock is checked in the run of Console, where nothing stops. Everywhere else
`error()` stops the kernel on purpose; where stopping would be wrong there is a property
for it (EndsOrOversleeps; DescriptorsReturned for the loop around `alloc3_desc`;
LoadsWellFormed, LogRefusesOverflowOnly and RefusesExactlyImpossible for errors).
Each property was seen to fail when the definition named for it in
`PROJECT.json` "mutants" is changed the way a bug would change it. The mutants
stand next to the definitions they change, marked "Mutant of".

**What the runs show.**

- *alloc*: the boundaries are all met: empty pool, full pool, batches
  that just fit and that are one too many, batches that fail in the middle.
- *disk*: with no other source of interrupts, `diskRW` does what it
  should in every order of its own and the device's steps, except that it
  may never return: `EndsOrOversleeps` names the one way, `WokenTooEarly`. With a key
  the contract fails (finding), but descriptors come back, and a late answer never
  meets a null pointer, because the next call has by then set it again.
  Four descriptors force the next call to reuse the first three; indices
  modulo 8 make the rings and the counters wrap. One key lets the answer of
  one call fall into the next; only after keys can more than one request be unanswered, so
  `NUM` completions between two looks of `diskIntr` (disk.c:170) are not reached here.
  Runs with a key start from one content
  (`KeyedData`): what is checked after a key does not look at contents. The proofs
  (section 5) have no bound on keys, nor on requests that are unanswered.
- *cache*: three buffers are the fewest for a hit at the front, in the
  middle and at the end of the list; with four users and four blocks a
  buffer can be shared and all can be in use with one more block asked for.
- *bytes*: every starting offset, every length from 0 to beyond a block, runs
  that end with a block, with the disk or beyond it. One such call is made
  in the first boot; nothing of it outlives it but contents, which
  ByteIO's initial state stands for. Then the log: entries that start inside a block or just
  past it, that fill the log area exactly and that overflow it, with the power going at
  any step and the log of the second boot written over that of the first.
- *page_tables*: two of the three virtual pages share all their directories, the
  third shares the root only; nine pages are too few for everything, so the pool runs
  out at every stage of a mapping. A table with one mapping takes five pages, so the two never
  have mappings at the same time; that one does not disturb the other then is what the theorems
  PagesAccounted and TablesImplementSpaces show.
- *processes*: three slots are the fewest where a scan can skip one and
  still find another; exceptions and timer interrupts come at any time, and the stack
  of the process may hold, lose or refuse what `uservec` stores.
- *console*: the ring is filled, lines are finished by each of the three ways,
  Control-U and backspace meet an empty line, a line, and the end of the line before.
- *programs*: three files in any order and with repetition, each of which may fail,
  fit, fit exactly or not fit, so that the program loaded starts at nearly every offset of a
  block. Among the files is one of each kind that `elfReader` refuses, and some whose headers
  do not lie where they are said to, by an offset that `int` or 64 bits cut off; an empty file comes
  first, last and in between, and any line may be lost. Nodes and addresses run out; eight pages
  are enough for two small processes, so both slots get used and a third process is refused,
  and too few for two larger ones, so the pool runs out in the middle of loading.

Symmetry is used where nothing in the model or its properties tells the
values apart: tables in page_tables, users and blocks other than 0 in cache
(block 0 is what `binit` leaves in every buffer). Those runs check safety only.

**Bounds in the models.** `MaxBatch` (pages per batch), `MaxKeys` and `KeyedData` (Disk), `MemSize` and
one call (ByteIO), `LogLengths`, `MaxLogs`, `MaxBoots` (Log), `Asked` (virtual pages
asked for), `MaxSteps` (how far a process runs), `FifoSize` (16 in a 16550a), `MaxPrograms`
(Mkfs), and in Loader a pool that gives its lowest page first. The
other small numbers are the code's own constants: NUM 8, NBUF 30, NUM_PTE 512,
NUM_PAGES 500, NPROC 64, BSIZE 1024, DISKSIZE 1000, INPUT_BUF 128, ELFSIZE 30, PGSIZE 4096,
ring indices modulo 2^16.

**Fairness.** Only `Disk!FairSpec` has any: weak fairness of the steps of
`diskRW` and of the handler (a processor goes on executing) and of the
device (QEMU serves a queue it was notified of). Nothing is assumed of
callers, keys, or the timer, which the kernel enables but never programs.

## 4. Findings

1. `disk_lost_wakeup` (disk.c:161). Between enabling interrupts and `wfi` the
   disk's interrupt may be taken. The handler leaves all interrupts off, and
   `wfi` then sleeps for ever.
2. `disk_early_return` (disk.c:161). Any interrupt ends the one `wfi`. After a
   key press `diskRW` returns before the transfer, and `bread` marks the
   buffer valid.
3. `page_tables_stale` (paging.c:188). Pages that become directories of
   the lower levels are not cleared; what their last user stored there becomes
   mappings.
4. `processes_round_robin` (process.c:42). An interrupted process stays
   RUNNING and is never picked again.

Seen while modelling, and part of the models as the code has them, but not the subject
of a run of their own:

- process.c:59: `satp` gets the address of the table, so its mode field is 0 and user mode
  is not translated;
- paging.c: `allocateVirtualPage` loses a page per call, `mapVirtualPage` ignores it;
- uservec.S:85: `userret` uses `t0`, which nothing on its path has set;
- elfReader.c:27: `cnt` is not the index of the next available node;
- r5o5_mkfs.c:90: the last byte of a program is overwritten by the next program's first;
- r5o5_mkfs.c:89: an empty file moves the place for the next program back by one byte;
- uservec.S:20: `t0` and `t1` are stored through the stack pointer of the process without translation;
- getLogInfo.c extracts one block of the log only;
- console.c:12: Control-P prints nothing and is stored as a character.

## 5. Proofs

| theorem | property | says |
|---|---|---|
| PageAllocatorProofs!AllocatorTyped | TypeOK | the array holds pages of the pool, the index stays in range |
| PageAllocatorProofs!StackSafe | StackBounds | index and count of free pages agree, whatever callers do |
| PageAllocatorProofs!NoPageLostOrShared | EveryPageOnce | every page is in one place |
| PageAllocatorProofs!ArrayImplementsPool | ImplementsPool | Spec implements PagePool |
| BufferCacheProofs!ListComplete | TypeOK | the list stays a permutation of the buffers |
| BufferCacheProofs!OneCopy | UniqueCopy | no block in two valid buffers |
| BufferCacheProofs!CountsRight | CountsHolders | reference counts are numbers of holders |
| BufferCacheProofs!CacheCoherent | Coherent | unchanged valid buffers agree with the disk |
| BufferCacheProofs!CacheImplementsStore | ImplementsStore | Spec implements BlockStore |
| DiskProofs!TypesKept | TypeOK | ring indices stay inside their rings |
| DiskProofs!DescriptorsGivenBack | DescriptorsReturned | diskRW gives back the descriptors it took |
| DiskProofs!NoStoreThroughNull | NoNullStore | diskIntr never stores through a cleared pointer |
| DiskProofs!FlagIsTrue | FlagTellsOwner | without keys, Buffer.disk says whose the buffer is |
| DiskProofs!DiskImplementsBlockDevice | ImplementsBlockDevice | without keys, one call makes one transfer |
| LogProofs!LogTyping | LogTypeOK | the log's position is its length, all indices in range |
| LogProofs!TransfersAreExact | MovedExactly | a call moves its bytes and no others |
| LogProofs!WritesGrowInOrder | WritesArePrefixes | wherever a write stops, a prefix of it is on the disk |
| LogProofs!RefusalsAreExact | RefusesExactlyImpossible | errors for exactly the calls that cannot be served |
| LogProofs!LogSurvives | LogIsDurable | after power loss: all finished strings, a prefix of the next |
| LogProofs!LogUsesItsArea | LogRefusesOverflowOnly | a full log area, and nothing else, is refused |
| LogProofs!ExtractedIsLog | ExtractsFirstBlock | getLogInfo gets the beginning of the log |
| PageTablesProofs!TypeCorrect | TypeOK | memory, pool and roots keep their types |
| PageTablesProofs!PagesAccounted | EveryPageAccounted | every page in one place |
| PageTablesProofs!TablesImplementSpaces | ImplementsAddressSpaces | Spec implements AddressSpaces |
| PageTablesProofs!TranslationsFresh | MappingsAreFresh | mappings appear only where asked for |
| ProcessesProofs!ProcessesTyped | TypeOK | the process table and the registers |
| ProcessesProofs!ChosenProcessRuns | UserModeIsCurrent | user mode runs the process that was chosen |
| ProcessesProofs!SwitchIsAtomic | KernelNotInterrupted | no interrupt between trap and return |
| ProcessesProofs!InterruptedStateSaved | InterruptedStateKept | the program counter a process was interrupted with is in its slot, and its registers if its stack held them |
| ProcessesProofs!SchedulerSkipsNone | NoneSkipped | no READY process is passed over |
| LoaderProofs!RecordsAreTrue | ProgramsInPlace | recorded programs are on the disk, but for what later ones begin on |
| LoaderProofs!RefusalIsForRoom | RefusedExactlyForRoom | refused exactly if there is no room |
| LoaderProofs!TypesAreKept | TypeOK | the list stays inside `elfNodes`, each header has a node of its own |
| LoaderProofs!ProgramsAreLoaded | LoadedAsBuilt | a process of an intact program has in memory what its file has |
| LoaderProofs!StacksAreAbove | StackAboveProgram | its two stack pages are above all segments |
| LoaderProofs!LoadingStopsForPages | LoadsWellFormed | an intact program is refused for lack of pages only |
| LoaderProofs!DiskStaysAsBuilt | ProgramsInPlace, RefusedExactlyForRoom | also while programs are loaded |
| LoaderProofs!LoaderUsesSpaces | | createProcess does what AddressSpaces allows |
| ConsoleProofs!ConsoleTyped | TypeOK | the indices of the ring |
| ConsoleProofs!EchoIsInput | EchoShowsInput | the terminal shows what the ring holds |
| ConsoleProofs!RingIsLineEditor | ImplementsLineEditor | Spec implements LineEditor |

They hold for every value of the constants, under the named ASSUMEs of the
modules: the code's sizes are positive, 0 is among the blocks, finitely many users, a
queue of at least three descriptors whose length divides the modulus of the ring
indices, programs are finite sequences, the log area starts inside the disk. For Loader there are
five more: there is a block behind the area for programs (`BehindAssumption`; the log's, 300 and
on), the bytes of the virtual pages, 2^39, are fewer than the 64-bit numbers
(`AddressAssumption`), an `int` can count the disk and is no wider than 64 bits
(`IntsAssumption`), a header's fields are numbers (`CellsAssumption`), and so is
`NPROC` (`NprocAssumption`). The rest of the ASSUMEs
(`NoBufAssumption`, `NoReqAssumption`, `NoBlockAssumption`, `NoCallAssumption`,
`NoneAssumption`, `TablesAssumption`) only keep marker values apart from what they mark.
The theorems about PageTables have one more hypothesis, `NoStaleEntries`; see below.

Each proof is an invariant stronger than the property, which was checked by TLC before
it was proved, one lemma per action, and for a refinement one lemma per action that
says which abstract step it is.

*PageAllocator.* `StackInv` (types, index in range, and index + free count = number of
pages) is inductive whatever callers do, for the code refuses a release
when nothing is out. `PoolInv` adds `Conserved`: slots of the free part hold
different pages, and these and the pages handed out are disjoint and
together all. `CleanInv` is `StackInv` with conservation as long as `stray` is
false. For the refinement, `FreeSet` has as many elements as there are free slots
(a lemma on functions that are injective on an interval), so the code's
comparison with `numFreePages` is the pool's comparison with the number of free pages.

*BufferCache.* The four properties are not inductive. A buffer on its way to a
second copy of block 0 is stopped only by the order of the list, so `CacheInv`
adds `Fresh` (a buffer that is not valid is still as `binit` left it: block 0,
not held) and `FreshBehind` (a valid buffer of block 0 is nearer to the front than
every buffer that is not valid), and `UnsavedHeld` (what is changed and not saved is held, so no
eviction can lose it). With these `bget` finds the valid copy of block 0 first, and the
refinement's view, the content of the valid buffer or of the disk, changes
only where BlockStore says.

*Disk.* `DiskInv` is `TypeOK` and `DescriptorInv`. Between calls all descriptors are
free, so the three lowest, 0, 1 and 2, are taken by every call and linked in that order;
`free_chain`, which follows the links, then gives back these three and meets no free one.
The device matters only in that it takes requests for `req.buf`, so there must be a
call when it does: between calls no descriptor has an address, so a
chain fetched then stops the device instead.

`CallInv` adds `HeadsInv` (every chain in a ring or with the device has head 0, and while a
call runs `info[0].b` is its buffer) and `InterruptsInv` (interrupts are on only between
`intr_dev_on` and the end of the call). So whichever call an answer belongs to, the handler
stores through the pointer of the running one. Neither needs anything about keys or the
time the device takes: the first three theorems also cover answers that come after the return.

`QuietInv` speaks of the time before the first key. A request is then in one of five
stages, `Rest`, `Published`, `InHand`, `Answered`, `Handled`, each a conjunction over all
parts of the system: the rings' indices, the one job of the device, `pending`, `claimed`,
which buffers are flagged. Each action leads from a stage to the same or the next one, and
`FlagTellsOwner` can be read off them. In the refinement the device's `Transfer` is the
transfer of BlockDevice, and `Finish` its return: the stages say that at
`Finish` the request is `Handled`, so its status is the one of that transfer.

*ByteIO and Log.* The loop keeps block · BSIZE + pos = Start + done (`Progressing`), from which the
byte it is at lies where a flat array of bytes would have it. `Contained` says what every byte of
every block is, on the disk and as users see it: that of the call, if it is among the bytes that are
done (for the disk: `Saved`), or the old one; `MemoryKept` says the same of memory, and `Shared`
that disk and view differ in the block being filled at most. The bytes that are saved are those
before the block in hand, which is the prefix of `WritesArePrefixes`. Log adds that position and
length agree (`Position0`, `InLog`) and that the disk held the earlier strings of this boot when the
running call began (`InLog`, byte by byte). Nothing is assumed of the number of boots, calls or
strings.

*PageTables.* `EveryPageAccounted` says little about why deallocation gives every page back once;
`TablesInv` does: while there was no error there is a function K that gives each page its kind (a
directory of level 1 to 3, mapped, in the pool, lost), such that a valid entry of a directory leads
one level down (`Levels`), no page has two such entries (`OneParent`) and each below a root has one
(`Parented`), the pool and the roots are the pages of their kind, and there is no valid entry in the
pages of the pool (`CleanPages`). Trees, paths and reachability need no mention. What the loops over
a directory do follows from this for one entry (`FilledTidy`, `RoundDrops`) by induction over the
rounds (`LoopRuns`, `LoopEmpties`).

The hypothesis `NoStaleEntries` is that not both constants are TRUE: `deallocatePageTable` is
called, and processes store data that looks like a valid entry. It is just what the finding
`page_tables_stale` needs: there pages with such data come back from the pool
as directories. The kernel as it is calls no `deallocatePageTable`, so for it the
theorems hold whatever processes store; with deallocation they hold for harmless data.
`TranslationsFresh` is the very property that the run refutes without the hypothesis.

*Processes.* What a process needs to go on (its slot, program counter and table) moves between slot
and hart; `ChosenRuns` and `SavedInPart` follow it from one step of the switch to the next, and
`SlotsReady` says that a slot in use has all of it. A trap by the timer that is still on its way
through `uservec` (`TimerTrapped`) has the state in the hart, where a faulting store loses it
together with the cause; so whenever the handler goes on, it saves what the process had. That a scan
passes over none is about the remainder of an index: `PlaceInScan` finds for each slot the round of
the scan that looks at it.

*Mkfs.* A place counts by the cell it names, so that the carry into the next block changes nothing.
What is copied is on the disk (`Copying`); the place is where the last try left it, and behind every
recorded program that no empty file follows, but for its last cell (`Advancing`). Cells that a later
program begins on or behind are not promised, so a program being stored disturbs none that are.

*Loader.* `LoaderInv` says of the process that is being made what the properties say of those that
are there. Three parts hold whatever is loaded: the nodes in the list increase and are below `cnt`
and `ELFSIZE` (`NodesGrow`), which keeps them apart although `cnt` skips some; every page and every
virtual page of a process is mapped once (`MapsApart`), for a process in `pd` or for the one in the
making (`MapsOwned`), so that storing one program cannot touch another; and the cells of a segment
have pages up to `mapped` (`SegmentsMapped`). The others speak of an intact program: the list is
what its first `i` headers ask for (`HeadersRead`, with `cnt` at most 2 `i`, which is where half of
the nodes comes from; `ReadBehind` and `DiskCounts` say that none of the offsets in it is cut off),
`stack` is above the segments that are loaded, and every page is below `stack` or below the end of
the segment in hand (`StackIsAbove`), and each loaded segment is in memory (`SegmentsInPlace`). The
steps that carry the weight are `LoadSegment`, where two cells of one page at one offset are one
address (`SameCell`), so that segments apart from each other do not meet in memory (`StaysInPlace`,
`NowInPlace`), and the rounding up of the end of a segment, which does not wrap below the two last
pages (`RoundedUpLow`).

*Console.* The ring before `cons.e` holds what the screen shows, and the part from `cons.w`
on has no newline (`LineOpen`), so that Control-U goes back exactly to the end of the
last finished line and no finished line changes. As nothing reads the ring, `cons.e`
never exceeds INPUT_BUF, and no index of the ring is used twice.

**Induction over data.** The library's induction rules cannot be cited. Where a proof needs
induction over the rounds of a loop, `PageTablesProofs!Induction` has it in terms of
sets, from the pigeonhole principle for finite sets; `ProcessesProofs!Least` takes the least number of
a set of numbers from the library's well-foundedness of Nat.

*Model-checked only*: liveness (EndsOrOversleeps, RequestReturns), which needs
fairness and ENABLED and is beyond the prover. Every invariant, action property and refinement that a
passing run checks is also stated by a theorem.

## 6. Plan

Done in this order, the most important first: the allocator (everything in
memory rests on it), the disk and its interrupts (the only concurrency of the
kernel), the cache and the byte transfers over them, page tables, processes; then the log
with its reboots, the console, the image builder and the loader; the proofs in the
same order, up to the refinements of all five abstract modules.

For the proofs a few definitions were given another form: the loops
of PageTables are recursive functions, `Console!TypeOK` has the bounds of the indices, and
Loader's properties say of a process's list which headers of the file it holds
(`Lists`, `Loads`, `Header`) in place of a function that picks them out.

Next:

1. **BufferList**, a model: the doubly linked list of the cache pointer by
   pointer, refining the order `lru`.
2. **AddressBits**, a model: the bit layout of virtual addresses and entries.

## 7. Not modelled

- The initialisation of the devices (the register values of `diskInit`'s handshake,
  `plicinit`, `uartinit`), `entry.S`, `main`, the linker script: straight-line code before
  anything interleaves. Every `Init` is the state it leaves; RAM is zero at boot.
- `printf` and the string helpers: output and pure functions.
- The register save area of `kernelvec.S`: interrupts are off in the handler,
  so only an exception can nest, and that ends in `error()`.
- The order in which stores reach memory: there are no fences in the code, and the
  models' steps are in program order.
- A stack pointer of a process that names the kernel's own memory when `uservec` stores through it;
  the entry point of a program.
- The bit layout of addresses and page-table entries, and the pointers of the
  buffer list (section 6).
