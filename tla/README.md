# Anvil-Memory in TLA+

A model of the arena allocator in `src/`: what its operations do to the block
chains, the snapshot array and the kernel mappings, checked with TLC on small
machines and proved with TLAPS for machines of every size.

## 1. The system

One library, no threads, no callbacks but the caller's `free_fptr`. A client
holds a `MemoryArena *` and calls nine operations; each dispatches on the
arena's allocator type. A failed `INVARIANT` logs and aborts the process.

| Component | State it keeps | Operations | Correct when |
|---|---|---|---|
| arena API (`arena.c`) | the handle: type, alignment, pool size, head block | create, destroy, reset, alloc, alloc_verify, move, copy | the headers malloc'd are the ones the chain reaches; live allocations stay in bounds, apart and aligned; a refused move keeps the source |
| scratch allocator | one block: capacity, allocated | alloc (NULL when full), verify, reset, free | what it returns fits; verify agrees with alloc |
| linear and pool allocators | a chain of blocks, each of twice the capacity of the one before | alloc (first fit, else append until one is large enough), verify, reset, free | the loop ends; the block found is large enough |
| stack allocator | a chain and its top | alloc (top only, else push), verify, reset, free | top is always the last block |
| snapshots (`record`, `unwind`) | an array of (top, allocated, capacity), doubled when full, halved below a quarter | record, unwind | unwind restores what record saw; the array has a slot for every snapshot |
| aligned mappings (`memory_allocation_internal.c`) | kernel mappings; a `Metadata` header in front of each region | safe_aligned_alloc, safe_aligned_free | header and region lie in the mapping, aligned; a free unmaps it |
| word arithmetic (`utility_internal.c`) | none | alignment masks, size_t sums, is_power_of_two | masks and sums agree also where they wrap |
| fail-fast reporting | none | INVARIANT, log_and_crash | modelled as terminal states |
| safe_free, DEBUG poisoning, test, build | none | | not modelled (section 8) |

The arena calls the allocator functions, which call `malloc`, `free` and
`safe_aligned_alloc`/`_free`; the allocators share nothing but the `MemoryBlock`
structure. `record` and `unwind` share the `top` pointer with the stack
allocator and the headers with `reset`, and that is where the hard behaviour is:

* **Stale state.** Snapshots hold raw pointers to headers; a reset frees headers
  and keeps snapshots; `malloc` may give the same address out again.
* **Numeric edges.** Every sum is on `size_t` and unchecked.
* **Partial failure.** Any `malloc`, `mmap` or `realloc` may fail half way
  through an operation.
* **Ordering inside a call.** The loops read `next` before they free the header it
  is in; `linear_alloc` and `pool_alloc` link a header before its fields are set and
  may abort in between; the caller of a free loop clears the `next` it came from.
* **Termination.** The growth loop and the loops over `next` must end.
* **Resource bounds.** Blocks full, snapshot array full or nearly empty, a
  request larger than a doubled block.
* **Protocol sequences.** Nested records and unwinds over blocks pushed in
  between; verify followed by alloc.

There is no concurrency to model: `arena.h` documents arenas as not thread-safe
and the code has neither locks nor atomics. Nothing is persisted, so a crash has
no recovery.

## 2. The modules

| Module | Stands for |
|---|---|
| `Words` | `size_t` arithmetic modulo `WordMod`, alignment, `is_power_of_two` |
| `Pages` | the length `safe_aligned_alloc` maps, when it can be had, and how much of the region is certain to lie in it |
| `MappedMemory` | `memory_allocation_internal.c` with the kernel as environment |
| `ArenaState` | the structures of `arena_internal.h`, the memory interface, and what the four allocators compute for one block |
| `ScratchAllocator`, `ChainAllocator`, `StackAllocator` | the allocators (`ChainAllocator` is LINEAR and POOL, whose loops are the same), record and unwind |
| `Arena` | `arena.c`: one action per operation; `Spec` is any client |
| `CarefulClient` | the client that keeps the rules the code relies on without checking; `CarefulSpec` |
| `Checkpoints` | abstract: a stack whose contents are saved whole and restored whole |
| `ArenaSteps` | the same calls one loop iteration at a time, over the regions of `MappedMemory` |
| `Masks` | the C operators `&` and `~` by the bits of a word, and `Words` against the masks of the code |
| `MCArena`, `MCWords` | instances for TLC; `MCWords` compares `Masks` with `Bitwise` |
| `Words_proofs` | lemmas on words |
| `Masks_proofs`, `MappedMemory_proofs`, `Arena_proofs`, `ArenaSteps_proofs` | theorems about those modules |
| `Refinement_proofs` | `ArenaSteps` implements `Arena`, and its loops end |
| `CarefulClient_proofs`, `Checkpoints_proofs` | theorems about the careful client: its promises and the doubling of capacities; the refinement of `Checkpoints` |

`Arena` composes the three allocator modules over the variables of `ArenaState`;
`CarefulClient` extends it and instantiates `Checkpoints` with a refinement
mapping. `ArenaSteps` composes the allocators with `MappedMemory`: its actions
conjoin `Memory!SafeAlignedAlloc` and `Memory!SafeAlignedFree`, so a block's
`memory` is an absolute address that the kernel chose, and it instantiates `Arena`
with a refinement mapping. The levels, each run's refinement on the arrow:

    ArenaSteps --ImplementsArena--> Arena, restricted to
    CarefulClient --ImplementsCheckpoints--> Checkpoints

**State.** `arena` is `*arena` (or `NullArena` when the handle is NULL); `chain`
is `memory_block` and everything its `next` pointers reach; `block` holds each
header's `capacity` and `allocated`, and `region`, the bytes behind its pointer that
are mapped wherever the kernel puts the mapping (`UsableBytes`: all that was asked for,
unless the length to map wrapped); `heap` is the set of headers malloc'd and not freed; `top`,
`snapshots` (with its length as `snapshot_count`), `max_size` and `array` are
`StackAllocatorState`; `ext` is the caller's source pointer per buffer. `live` is
a ghost: the allocations the client may still use, with the number of snapshots
that existed when each was made. `status` is `"running"`, the code of the error
that aborted the process, or `"undefined"`.

**Actions.** In `Arena` each operation is one action: nothing runs beside it, and
`ArenaSteps` shows that its loops amount to it.
Its disjuncts are the error exits in the order of the code, the early returns and
the success. The growth loop of `linear_alloc` and `pool_alloc` is the number `k`
of blocks it appends (`GrowthStopsAt`), the intermediate ones left empty in the
chain as in the code. Failing system calls are a choice, enabled by `MemoryFails`
and `ShrinkFails`. A step the C standard or the kernel leaves undefined — a write
through a NULL snapshot array, through a freed header, or past a region by `reset`
or a copy — ends in `status = "undefined"`, whatever the build would do next; that
keeps every claim about later states from resting on luck. Writing past the
requested size is counted as undefined even where the page slack would absorb it.

**Loops.** In `ArenaSteps` a call is a record `call`: the statement reached, the
current header and the request. `Advance`, `MallocHeader` and `MapAppended` are the
iterations of the growth loop, `MapPushed` is the push of `stack_alloc`, `FreeBlock`
one iteration of the four free loops, `FreeReturn` what reset, destroy and unwind do
after them. A call takes effect in `Arena` at one of these steps: an allocation when
it returns, so the headers it has appended (`call.fresh`) are hidden until then; a
reset, destroy or unwind when it starts, so the blocks it has still to free
(`Doomed`) are hidden at once and `*arena` is seen as it will be left. An abort in
the middle of a growth leaves `Arena` as it was before the call, which is its `E104`
exit: the process is gone. `move` and `copy` are checks around the same `alloc` and
are left to `Arena`, as is `alloc_verify`, which changes nothing.

**Abstractions.** Payload bytes are left out. A region's address is a multiple of
the alignment (`RegionAligned` in `MappedMemory`), so `Arena` computes with offsets;
`ArenaSteps` computes with addresses and shows that it comes to the same. `move`'s
`free_fptr` may be NULL (`MoveWithoutFree`, E201); otherwise it is valid and does not
call the library. There is one handle; several arenas share no state but the kernel's
address space, which `MappedMemory` covers with any number of regions. `create` with
a value outside the enumeration is the type `"OTHER"` (E501, after the size check).
Any word may be asked for. In `Arena` an initial size may wrap the length of its
mapping: then the capacity stays what create computed, `region` is what is left of the
mapping, and where not even the header is certain to be mapped (`HeaderMayMiss`) the
write of the `Metadata` may be undefined; otherwise the arena goes on, and the first
reset or copy past `region` is the undefined step. `ArenaSteps` alone excludes such
initial sizes (`InputAssumption`), because its regions are those of `MappedMemory`,
which are whole only for lengths that do not wrap; it also leaves out the shrinking
`realloc` of `unwind`, which `Arena` has with both results, and so implements `Arena`
with `ShrinkFails = FALSE`.

The error codes of `ArenaState` are those whose check can fail. The two checks of
`safe_aligned_free` (E201, E302) are in `MappedMemory`; `E414` and `E415` compare fields
that create has set itself a few lines before, and cannot fail.

**The careful client** gives create arguments its checks accept, an alignment
of at least `_Alignof(max_align_t)` and a size that does not wrap the length of its
mapping; asks for one byte or more, small enough that padding and rounding do not
wrap; asks a stack for no more than fits in the top
block or in one of twice its capacity; resets a stack only when no snapshot is
outstanding; and does not unwind an empty stack or call without an arena. Each
rule but the last, whose breach is a documented abort, is a violated property of
section 5 turned round. The client of
`tests/python/arena_memory_test.py` breaks the one on stack requests.

**Mutated forms.** Some modules hold, before a definition, a second one whose
comment says what is wrong with it (`FitsUnpadded`, `StaleTop`, `HeadMark`, ...).
No specification uses them: each replaces its neighbour to see a property fail.

## 3. Runs

| Run | Client | Checks | Shows |
|---|---|---|---|
| `words` | counter over all pairs of words | PowerOfTwoIsMaskTest, AlignUpIsMask | `Words` computes what the C masks do, on 6-bit words; an `ASSUME` of `MCWords` compares `WordAnd` and `WordNot` with `Bitwise` |
| `mapped_memory` | any sizes and alignments | TypeOK, RegionInsideMapping, RegionAligned, HeaderIntact | regions fit, are aligned, and frees do not damage each other's headers |
| `any_client` | `Spec` | TypeOK, HeapIsChain, TopIsLast, BlocksWithinRegion, VerifyPredictsAlloc | any order of calls and arguments, wrapping initial sizes included, keeps the structures well formed; verify agrees with alloc |
| `careful_client` | `CarefulSpec` | OnlyMemoryExhaustionAborts, LiveInBounds, LiveDisjoint, LiveAligned, MarksSeparateScopes, SnapshotSlots, CapacitiesDouble, ImplementsCheckpoints, SourceReleasedOnlyWhenStored | all four strategies: growth by several blocks, refused moves, nested checkpoints over several blocks, the snapshot array shrunk to two slots and grown again |
| `arena_steps` | any order of calls but move, copy and the read-only verify | BlocksOwnRegions, NoDanglingNext, HandedOutInRegion, ImplementsArena, IterationsCountDown, CallsEnd | the loops implement `Arena`, keep headers and regions paired at every step, come nearer to their end at each iteration, and end, wherever malloc and mmap place things |

**Bounds.** Words have 5 to 8 bits, so wrapping sums are a few bytes away and
reached in `any_client` and the `wrapping_*` runs; nothing in the code depends on
the width but the wrap (section 6 proves the invariants for every width).
In `any_client` words have 7 bits and three initial sizes are close to the last word:
123 aligned to 4 wraps the length of its mapping and a part of the region is left, 110
aligned to 16 wraps it so that the header may miss, and 127 becomes 0 when it is
aligned. Alignments run from 0 and 3, which create
refuses, over 2, which alloc refuses, to 32, which is over the limit.
`MmapLimit` ends the doubling after two or three blocks and the three headers
allow a chain of three, enough for one request to append two blocks, for an
unwind to free several, and for `malloc` to hand a freed header out again under a
stale snapshot. Headers are interchangeable, so they are symmetric. In
`mapped_memory` pages have 4 bytes and the largest alignment is two pages, so that
alignments below and above a page both occur, with room for two or three regions.
`SnapshotBound` is the number of snapshots outstanding: three overflow the array
that an unwind to zero has shrunk to two slots (`SnapshotsFitArray` proves the rest);
`LiveBound` is the number of allocations outstanding, needed only where sizes wrap
and a block never fills up. In `arena_steps` pages have 32 bytes and the address
space holds three mappings of one page: a chain of three blocks fits and a fourth
mapping is refused. As freed mappings never come back (section 5), the space also
bounds how often an arena is made anew. Words have 8 bits because the address space
must fit in them. Its snapshot array never fills, which `careful_client` covers, its
alignments stay below a page, and `mapped_memory` has larger ones. It declares no
symmetry, which is unsound for liveness. In
`careful_client` requests of 1, 3 and 6 fit without and with padding, fill a block
exactly and force growth by one and by two blocks.

**Deadlock.** An abort is the end of the process, so every run says
`CHECK_DEADLOCK FALSE`.

**Fairness and liveness.** `ArenaSteps` states `WF_svars(Step)`: a call in progress
goes on. The library is one sequential thread that waits for nothing, so its next
statement is executed unless the process has aborted, which disables `Step`. Nothing
is assumed of the client: it may stop calling. Under it `CallsEnd` says that every
call returns or aborts: the chain has no cycle, each iteration of the allocation loop
goes on to a later block, and growth stops at a block that is large enough or at a
mapping that is refused. `IterationsCountDown` is the variant behind it: every step of
a call aborts or brings the natural number `Remaining` down, so only finitely many can
follow, and fairness is needed only for them to be taken. In a walk that number
is made of the blocks ahead and of what the last block's capacity leaves below
`MmapLimit`: an append brings it down only because the capacity doubles, and it does not
depend on how many headers malloc has left, so a growth that forgets to double breaks
it even where malloc would give out headers without end. The other specifications are
of whole calls and state no fairness.

## 4. What the careful client is promised

`OnlyMemoryExhaustionAborts`: the process ends only with E104. `LiveInBounds`,
`LiveDisjoint`, `LiveAligned`: every pointer given out stays inside its block, apart
from all others, aligned. `MarksSeparateScopes`: the mark of each snapshot lies
between the allocations made before and after it. `ImplementsCheckpoints`: a
snapshot is a pointer and two numbers, yet unwind restores the blocks, capacities
and fill levels of the whole stack as record saw them — because nothing below the
top changes while the snapshot is outstanding.

## 5. Where the code and its documentation disagree

Each is a run that TLC refutes.

| Run | Property | What the code does |
|---|---|---|
| `oversized_stack_request` | AllocatedWithinCapacity | `stack_alloc` does not compare a request with the block it pushes for it |
| `reset_with_snapshots` | SnapshotsMatchTops | reset frees blocks that outstanding snapshots point to; a later unwind writes to a freed header, or sets the capacity of a smaller block that malloc has put at its address beyond its region |
| `wrapping_scratch_request` | ScratchNullWhenFull | `size + offset` wraps and a full block answers with a pointer |
| `wrapping_mapping` | RegionInsideMapping | `size + alignment + header` wraps and a small mapping is returned |
| `verify_small_alignment` | VerifiedRequestPassesChecks | create takes, and verify approves, alignments on which alloc aborts |
| `unchecked_shrink` | OnlyMemoryExhaustionAborts | unwind stores a failed shrinking `realloc` as the array |
| `unmap_after_wipe` | FreedIsUnmapped | the `memset` before `munmap` clears the arguments `munmap` gets |

Read in the headers and not worth a run: `linear_allocator_internal.h:76` promises
NULL on exhaustion, where `linear_alloc` aborts with E104 as the rest of its
documentation says.

## 6. What is proved

### The arena

`Arena_proofs`, for every word size, page size, header set, alignment, request and
order of calls, with failing system calls, from the `ASSUME`s of `Words`, `Pages`,
`ArenaState` and `Arena`:

| Theorem | States |
|---|---|
| `TypeCorrectness` | `Spec => []TypeOK` |
| `NoHeaderLeaks` | `Spec => []HeapIsChain` |
| `StackTopIsLast` | `Spec => []TopIsLast` |
| `SnapshotsFitArray` | `Spec => []SnapshotSlots` |
| `ResetStaysInRegion` | `Spec => []BlocksWithinRegion` |
| `VerifyIsExact` | `Spec => []VerifyPredictsAlloc` |
| `SourceKept` | `Spec => SourceReleasedOnlyWhenStored` |

The first five follow from `Invariance`, `Spec => []IInv`, where `IInv` is the
conjunction of these invariants and `HeadSnapshots`. The conjuncts lean on each
other: that `chain` is injective and is the heap makes the block that an unwind
cuts at unique; `TopIsLast` needs it to know that the block pushed is fresh and
becomes the last; `TypeOK` of a grown block needs its capacity, twice one that may come
from a wrapped initial size, to be a word. `BlocksWithinRegion` says of the head block
of any arena, and of every block of a SCRATCH, LINEAR or POOL one, that `allocated` is
within the capacity, whatever requests wrap, and that a capacity a mapping can have, one
up to `MmapLimit`, is mapped in full; a reset of such a head is therefore inside its
region. Two cases are outside it, and the code goes wrong in both: a capacity above
`MmapLimit`, which only an initial size with a wrapped mapping gives (`wrapping_mapping`),
and the blocks a stack pushes (`oversized_stack_request`, `reset_with_snapshots`).
`HeadSnapshots` is what makes it inductive: an unwind writes a snapshot's numbers into
a header, and for the head block, which no reset frees and no other header replaces
while the arena is open, those numbers are the ones it had, although the other stack
blocks may be given any numbers by a stale snapshot. `SnapshotSlots` says that the
array has a slot for every snapshot and is never shrunk to none, a size doubling could
not grow. `VerifyIsExact` adds that a scratch arena has one block
(`ScratchStaysSingle`), since verify walks the chain and `scratch_alloc` does not;
`SourceKept` is a case split on the operations.

The proof has one lemma per operation (`CreateStep`, `DestroyStep`, `ResetStep`,
`AllocStep`, `CopyStep`, `RecordStep`, `UnwindStep`), over the lemmas on words
of `Words_proofs` (`WordSums`, `PaddingBound`, `AlignUpWord`, `WholePools`), on the allocators
(`TakeFromStep`, `GrowStep`, `PushStep`) and on chains (`ChainAppend`,
`ChainPrefix`). The abort steps change `status` only and are one lemma
(`AbortStep`).

### The mappings

`MappedMemory_proofs`, for every page, header and word size, every alignment and
every placement of mappings, from the `ASSUME`s of `Words`, `Pages` and
`MappedMemory` and from `SizesFit`: no size that comes with an acceptable alignment is
within that alignment, a header and a page of the last word (`Fits`). The run
`mapped_memory` satisfies that hypothesis; `wrapping_mapping` shows that a region can
exceed its mapping without it.

| Theorem | States, under `SizesFit` |
|---|---|
| `TypeCorrectness` | `Spec => []TypeOK` |
| `RegionsFit` | `Spec => []RegionInsideMapping` |
| `RegionsAreAligned` | `Spec => []RegionAligned` |
| `HeadersSurvive` | `Spec => []HeaderIntact` |

The inductive invariant adds to `TypeOK` and `RegionAligned` that each region's
header names a mapping around header and region (`Placed`), that mappings are apart
(`MappingsApart`) and that no two regions name the same one (`RegionsApart`).
`HeaderIntact` alone is not inductive: a free wipes one mapping, and that it misses
every other header needs the mappings apart and each header inside its own.
`AllocStep` rests on `RoomInMapping` and `PointerInMapping`, and these on
`AlignUpNoWrap` (aligning a word gives the next multiple, less than the alignment
away). `FreeStep` shows that a free always wipes its own header, so that `munmap`
gets length 0 and the mappings stay.

### The careful client

`CarefulClient_proofs`, from the `ASSUME`s of `Words`, `Pages`, `ArenaState` and
`Arena`, for every number of headers, snapshots and live allocations:

| Theorem | States |
|---|---|
| `CarefulInvariance` | `CarefulSpec => []CarefulInv` |
| `AllocationsInBounds` | `CarefulSpec => []LiveInBounds` |
| `AllocationsDisjoint` | `CarefulSpec => []LiveDisjoint` |
| `AllocationsAligned` | `CarefulSpec => []LiveAligned` |
| `SnapshotsSeparate` | `CarefulSpec => []MarksSeparateScopes` |
| `OnlyOutOfMemoryAborts` | `CarefulSpec => []OnlyMemoryExhaustionAborts`, if `ShrinkFails = FALSE` |
| `CapacityDoubling` | `CarefulSpec => []CapacitiesDouble` |

`CarefulInv` is `IInv` and the properties with what makes them inductive.
`LiveSound`: a live allocation ends at or below its block's `allocated`, which is why
the next one is apart from it. `BlocksSound`: `allocated` is within the capacity, and a
capacity up to `MmapLimit` is mapped in full. An unwind, which writes a snapshot's numbers into a
header, keeps these two only because of `SnapshotsSound` (the block is there, with
the capacity it had and no fewer bytes) and of `MarksSeparateScopes` (what the unwind
leaves live lies below the mark). `SnapshotsNested`, later marks at or above earlier
ones, is what keeps the older snapshots sound when a newer one is unwound: otherwise
the unwind could free the block of an older one. `ArenaSound` ties snapshots to
stacks and keeps the alignment one that alloc accepts. `Below` compares places by
position in the chain, and the lemmas `PosPrefix`, `ChainPrefix` and `PosFacts` say
that pushing and cutting preserve positions.

That every capacity of the careful client is at most `MmapLimit`, so that what it holds
is mapped (`AllocationsInBounds`), comes from a second invariant, `DoublingInv`: the head
was mapped without wrapping (`CreateFits`), and each later block is twice the one before
and was mapped too.

`OnlyOutOfMemoryAborts` shows of each exit but E104 that its check cannot fail. The
hypothesis is that `realloc` can shrink an array: the run `unchecked_shrink` shows
that the claim is false without it, since `unwind` does not look at the result.

`CapacityDoubling` says that doubling never wraps: a capacity on the chain was mapped,
so it is at most `MmapLimit`, and twice that is still a word (`PagesAssumption`: the kernel maps less
than half the address space). One request may append any number of blocks; the
capacity of the `k`-th is a recursive function (`Doublings`), and what it computes
along a growth is shown by induction on the set of indices for which it holds
(`DoublingsStep`, `GrowthDoubles`).

### Checkpoints

`Checkpoints_proofs` proves `CheckpointsImplemented`, `CarefulSpec =>
ImplementsCheckpoints`, step by step: create, destroy and reset map to `Open`, `Close`
and `Clear`, an allocation to `Take` (`Fill` or `Push`), `record` to `Save`, `unwind`
to `Restore`, and what does not concern a stack to a stutter. The abstract `saved` is
computed from the present headers, not from a history, so the proof has to show that a
step leaves every saved image alone although it writes to headers the images are read
from. `SameImage` gives the condition: the blocks below a mark keep their entries. An
allocation writes to the top only, whose entry in an image comes from the snapshot and
not from the header; an unwind writes to the block it cuts at, which by
`SnapshotsNested` is at or above every older mark. Restoring is then exact: the cut
chain with the snapshot's two numbers is the image saved.

### The loops

`ArenaSteps_proofs`, for every client, every placement of headers and regions, and
every chain length, from the `ASSUME`s of `Words`, `Pages` and `ArenaSteps`:

| Theorem | States |
|---|---|
| `StepsInvariance` | `Spec => []StepsInv` |
| `RegionsPaired` | `Spec => []BlocksOwnRegions` |
| `NextPointersLive` | `Spec => []NoDanglingNext` |
| `HandedOutSound` | `Spec => []HandedOutInRegion`, under `RequestsFit` |

In the middle of a call the pointers do not form a chain: a free loop has freed the
header that an earlier one still points to, a growth has linked one without a region.
`StepsInv` therefore says that there is a sequence `c[1..n]`, the chain as it was when
the call began or as it has grown since, and two numbers, `k` blocks to be kept and
`f` the next to be freed, such that what is malloc'd is `c[1..k]` and `c[f..n]`, every
`next` but the `k`-th follows the sequence, and the loop's variable points to `c[f]`
(`Chained`, `FreedUpTo`, `WholeChain`). `TypeInv` adds that a header not in use has no
`next`, so that a header malloc'd again ends the chain; `Paired` that the headers with
a region and the regions not yet passed to `safe_aligned_free` are in bijection, where `Pending` is the one header that has
been linked and not yet mapped. `MapInv`, the invariant of the mappings, is the one
of `MappedMemory_proofs`, whose theorems on a single allocation and a single free are
used through an instance in which sizes and alignments are any words: that a free
removes its own region and no other is what keeps `Paired`. `RegionsPaired` is about
that pairing only. It says that no header is freed without its region being passed to
`safe_aligned_free`, no region without its header, and neither twice; the mappings
themselves stay, as `unmap_after_wipe` shows.

`HandedOutSound` adds `DataInv`: fill level within the capacity and the capacity within
the region (`RegionsInv`), the bytes needed cover the bytes asked for (`NeedInv`), and
what is live lies below the fill level at an aligned absolute address (`LiveInv`). The
arithmetic is `TakenPiece`: the padding computed from the current address is the one
that aligns the pointer returned. `RequestsFit` says that padding and rounding to
whole pools do not carry a request past the last word; `arena_steps` satisfies it, and
`wrapping_scratch_request` is what happens to a request that does not.

### The calls as their loops

`Refinement_proofs`, from the `ASSUME`s of `Words`, `Pages` and `ArenaSteps`:

| Theorem | States |
|---|---|
| `EffectInvariance` | `Spec => []EffectInv` |
| `ArenaImplemented` | `Spec => ImplementsArena` |
| `LoopsTerminate` | `Spec => IterationsCountDown` |

`ImplementsArena` reads `Arena`'s `chain` off the `next` pointers (`Path`), hides what a
growth has appended and what a free loop has still to free, and takes offsets for
addresses. `StepsInv` says that the pointers are in order; to say which call of `Arena`
a step is, `EffectInv` adds what the call has found out on its way:

* `GrowthInv`: in a growth the chain is the `m` blocks it had when the call began,
  followed by the appended ones, which are empty and each of twice the capacity of the
  one before; no block the loop has passed has room. When the loop then takes from
  block `i`, either `i <= m` and it is the first fit of `Arena`, or the number of
  appended blocks is the `k` of `Grow`, for which `GrowthStopsAt` holds because the
  blocks before had no room (`TakenFrom`, `GrownTaken`). When a mapping is refused it is
  `Arena`'s E104 exit (`Exhausted`).
* `PushInv`: a stack's loop looks at the top only, and pushes one block when the top has
  no room (`PushResult`).
* `LoopInv`: the last block a free loop keeps leads to none it keeps, so the path read
  from the head ends there, whatever the loop has freed since (`LoopShows`).
* `Asked`: the request has passed the checks of alloc; `Filled`: regions are aligned and
  no capacity is 0.

`PathFrom` is what ties pointers to sequences: any sequence that follows `next` without
a repetition and ends outside a set is the path read through that set. `RoomOf` ties
addresses to offsets: the padding computed from an absolute address is the one computed
from the offset, also where the address wraps, because the region is aligned and
`WordMod` is a multiple of every alignment (`ShiftedPadding`, `AlignmentDivides`). Each
action has a lemma that keeps the invariant (`...Effect`) and one that names the step of
`Arena` it is or shows that it is a stutter (`...Shown`, `...Implements`); `NextShown`
puts them together. The initial states map to initial states (`InitShown`).

`LoopsTerminate` counts: from the `i`-th of `n` blocks `n - i + 1` are ahead
(`TailPath`). An iteration that goes on leaves one fewer; one that appends puts a block
of twice the capacity at the end, so that at least one fewer byte is left below
`MmapLimit`, and that capacity was mapped, so it is at most `MmapLimit`; one that frees leaves one header fewer
(`AdvanceCounts`, `MallocHeaderCounts`, `MapAppendedCounts`, `FreeBlockCounts`).

### The masks

`Masks_proofs`, from the `ASSUME`s of `Words` and `Masks`, for every word width:

| Theorem | States |
|---|---|
| `PowerTestIsExact` | `Spec => []PowerOfTwoIsMaskTest` |
| `MasksAlign` | `Spec => []AlignUpIsMask` |

A word is the set of its bits: words with the same bits are equal (`BitsDetermine`) and
any set of places is the bits of a word (`AnyBits`), so `WordAnd` and `WordNot`, which choose a
word by its bits, are well defined (`AndBits`, `NotBits`). `LowBits` and `HighBits` give
the bits of `a - 1` and of the rest, for a power of two `a`; `ClearedBits` says that
taking `v % a` from `v` clears the low ones, hence `MaskClears`. For the test, a number
that is no power of two has a greatest power below it, a bit that subtracting 1 leaves
(`PowerBelow`, `MaskTest`). `Bitwise` is recursive and cannot be used where something is
proved; that `WordAnd` and `WordNot` are its operators is an `ASSUME` TLC evaluates in `words`.

### Assumptions on the constants

* The largest mapping, doubled, with alignment, header and page is still a word
  (`PagesAssumption`), and the address space ends an alignment before the last word
  (`SpaceAssumption`). Both hold of every 64-bit kernel, whose user addresses have 57
  bits at most.
* `size_t` has a power of two of values (`WidthAssumption`), as in C.
* There are finitely many header addresses (`BlockAssumption` of `ArenaSteps`).
* In `ArenaSteps` an initial size either wraps to 0 when it is aligned, which
  `safe_aligned_alloc` answers with E101, or leaves the length to map unwrapped
  (`InputAssumption`). This one create does not enforce; the theorems on the
  loops and on the calls as their loops are about clients that keep it. `Arena` asks for words only.

Every run satisfies all of them.

### Model-checked only

`CallsEnd`: that a call ends under fairness is beyond the prover; its variant is
`LoopsTerminate`, so what is left is the step from a natural number that goes down at
every step, under `WF_svars(Step)` and with `Step` enabled, to the end of the call. And
the comparison of `Masks` with `Bitwise`. All other properties of the passing runs are
proved, the ones whose theorem has a hypothesis under it.

## 7. Plan

Done: the modules of section 2, the runs of sections 3 and 5, the theorems of
section 6. What a next version could add is several handles in one model of
the address space, now covered one at a time by `ArenaSteps` and as any number of
regions by `MappedMemory`.

## 8. Not modelled

`safe_free` (never called); the DEBUG variant of `mmap` (`utility_internal.h:77-84`
does not compile); the text of error messages and the log file; payload bytes and
the zeroing of resets as data; several threads (excluded by `arena.h`); the
hypothesis test, the build and the documents.
