# TLA+ models of a small x86-64 kernel

These modules model the kernel in `src/kernel` and its UEFI bootloader in
`src/bootloader`: memory management, start, interrupts, text output, containers
and the way into the kernel. TLC checks each model on small instances; TLAPS
proves every safety property, action property and refinement that TLC finds to
hold, for every value of the constants. Only the one liveness property is left to
TLC, and the counterexamples of the findings.

All paths below are relative to `src/kernel/` unless they start with `src/`.

## 1. The system

The machine has one processor and the kernel no threads: what runs
concurrently is the processor's interrupts, which are enabled at the very end
of `main`. What is hard here are long sequences of legal calls, data that is
kept in two places, addresses and sizes in different units, rounding at page
boundaries, pools at their limit, and an order of statements in `_start` that
must never pull the address space away from under the running code.

| Component | State | Operations | Uses / used by |
|---|---|---|---|
| Physical memory manager: `src/memory/PMM/PageFrameAllocator.cpp`, `PageStack.h`, `Bitmap.cpp` | stack of free pages, in-use bitmap, `freeMemory`, `usedMemory`, `reservedMemory`; stack and bitmap lie in the largest free segment | constructor (from the firmware's map), `LockPages`, `RequestPage`, `FreePage`, `ReservePages`; unused: `FreePages`, `UnreservePages` | used by everything below |
| Virtual memory manager: `src/memory/VMM/VirtualMemoryManager.cpp`, `PageTable.h` | four levels of tables in physical frames | `MapMemory`, `UnmapMemory`, `GetMapping` | takes and frees frames of the PMM; reaches tables through the identity map |
| Kernel address space: `VirtualAddressSpace.cpp/.h` | list of `Mapping`s beside the tables | `map`, `unmap`, lookups, `newUserVAS` (unused) | VMM, PMM, vector |
| Kernel heap: `src/memory/Heap/Heap.cpp` | headers in memory, circular free list, `startSec`, `head`, `kernelHeap` | `operator new` (may `growHeap`), `operator delete` (may `shrinkHeap`) | PMM, VMM, and by hand the heap's `Mapping` |
| Kernel start: `src/_start.cpp`, `src/main.cpp` | the tables of the bootloader and its own | one sequence: PMM, lock image, PML4, heap, mappings, CR3, stack, GDT, IDT | everything |
| Text output: `src/Graphics/print.cpp`, `print.h` | cursor, colour, framebuffer | `print`, `putString`, `putChar`, scrolling | kernel, fault handlers, Panic |
| Vector, UniquePtr: `include/Util/vector.h`, `uniqeptr.h` | buffer, size, capacity; a pointer | `push_back`, `reserve`, `contains`, `remove`, copies, moves | heap; used by the address space |
| String: `src/Util/string.cpp` (unused) | buffer, length, capacity | constructors, `=`, `+`, `==` | heap |
| Interrupts, GDT: `src/Interrupts/`, `src/memory/GDT/` | one page each; the processor's table and segment registers, its interrupt flag | `SetupIDT`, `SetupGDT`, three fault handlers | address space, Panic, text output |
| Panic: `src/Util/panic.cpp` | none | prints and executes `hlt` once | text output |
| Bootloader: `src/bootloader/src/main.c`, `paging.c` | memory map and its key, loaded segments, a copy of the firmware's PML4 | `LoadFile`, loading, `MapMemory`, `GetMemoryMap`, `ExitBootServices`, the jump | firmware, whose own events go on meanwhile |
| Disk: `include/Disk/` | declarations only | none | none |

What makes each of them correct:

- **PMM**: a page has one holder; pages of the kernel, of the allocator and of
  the firmware are never handed out; the counters add up; running out is seen.
- **VMM**: four levels behave as one map of pages; a call changes the page it
  is asked to change; the tables stay a tree; a frame has one use.
- **Heap**: segments tile the heap; the list is sorted, circular, merged; live
  blocks are apart and stay; size, end, tables and `Mapping` agree.
- **Address space and start**: the switch of CR3 loses nothing that is in use;
  code is read-only, data is writable; the list of mappings matches the tables.
- **Text output**: nothing is drawn outside of the framebuffer; what was
  printed stays readable.
- **Containers**: an element is found if and only if it is in; each object is
  destroyed once.
- **Interrupts and Panic**: tables are filled before the processor uses them; a
  panic is printed and final, whatever it interrupted.
- **User address spaces**: the kernel's image and heap stay mapped in each; no
  process reaches another.
- **Bootloader**: what is started is loaded and mapped, and the memory map is
  the one of the moment boot services end.

## 2. Modules

| Module | Models | State and actions |
|---|---|---|
| `PageFrames` | PMM as operators on a record | `RequestPage`, `FreePage`, `LockPages`, `ReservePages`, `InitPush`, `Constructed`: one per member function |
| `PageFrameAllocator` | PMM with its callers | `LockKernelImage`, `Request`, `RequestUnderflow`, `Free`; `grants` is a history of who holds what |
| `FrameSource` | abstract: a pool of frames | `Grant`, `Release`, `Withdraw` |
| `VirtualMemory` | VMM on top of `PageFrames` | `tables` maps frames to tables of entries; `MapIdentity` (the loop of `DeviceMapping::map`), `MapOwn`, `MapDevice`, `UnmapOwn`, `UnmapDevice` |
| `AddressMap` | abstract: one map of pages | `Map`, `Unmap` |
| `Heap` | heap | `New`, `NewWholeSegment`, `NewFindsCorruption`, `NewWithoutFrames`, `Delete`: the outcomes of the two operators, each with the growth or the shrinking it does |
| `Arena` | abstract: blocks that are apart and stay | blocks come, go, nothing else |
| `KernelAddressSpace` | `_start`, `main`, the list of mappings, and growth and shrinking of the heap, on top of `PageFrames` | one action per statement of the start, in order; `growHeap`, `shrinkHeap`, `unmap` |
| `TextDrawer` | `putString` | `PrintChar`, `PrintNewLine`: one round of its loop |
| `Numbers` | `printIntUnsigned`, `printIntSigned`, `printIntHex` | `NextDigit`, `LastDigit`, `Sign`: rounds of the loop that fills the buffer from its end; `Hex` is an operator |
| `AllocatorInterface` | PMM with all its operations, at any time | `RequestAny`, `Lock`, `FreePages`, `UnreservePages`; `owner` is a history of who has a page |
| `Vector` | `vector` on `UniquePtr` or on numbers | one action per member function; `remove(const U&)` goes index by index (`StartRemove`, `RemoveRound`, `EndRemove`) |
| `HeapBuffers` | what vectors and strings see of the heap | none: the buffers `operator new` can return |
| `Lists` | abstract: sequences | appended to, removed from, moved, copied |
| `String` | `string` | `FromLiteral`, `FromString`, `Default`, `Destroy`, `Assign`, `ExtendLiteral`, `ExtendString`, `ExtendByItself` |
| `Texts` | abstract: variables with texts | `SetTo` |
| `Interrupts` | `main`, `SetupGDT`, `SetupIDT`, handlers, Panic | `code` is what main and the handler that runs have still to execute; one action per kind of instruction, and `Deliver` |
| `UserAddressSpace` | PML4s of the kernel and of `newUserVAS` | `newUserVAS`, `KernelMaps`, `UserMaps` |
| `Bootloader` | `efi_main`, `MapMemory` of `paging.c` | one action per call of `efi_main`, in the order of `statement` and, in its two loops, of the segments (`phdr`, `mapped`); and `Event`: the firmware takes or gives back a page |
| `MemoryLayout` | `memory_defines.h` | none: the regions as indices of a PML4, and what is assumed of them |
| `MCPageFrameAllocator`, `MCVirtualMemory`, `MCHeap`, `MCKernelAddressSpace`, `MCTextDrawer`, `MCContainers` | instances for TLC | two or three modules that share no state, see section 3 |
| `PageFramesProofs`, `PageFrameAllocatorProofs`, `VirtualMemoryProofs`, `HeapProofs`, `KernelAddressSpaceProofs`, `TextDrawerProofs`, `VectorProofs`, `UserAddressSpaceProofs` | theorems and proofs | |

`VirtualMemory`, `KernelAddressSpace` and `AllocatorInterface` compose with the
allocator by holding one of its records in `pmm` and applying the operators of
`PageFrames`. `Vector` and `String` see the heap through what `Arena` promises:
any buffer that is not in use. `UserAddressSpace` sees the allocator through
`NoDoubleAllocation`: a page nobody has. `Bootloader` ends where
`KernelAddressSpace` begins.

Where one run holds two or three modules, the instance and the module with their
proofs extend the same modules, so that what TLC checks and what a theorem states
are the same definition. The first of them has `Init`, `Next` and `Spec`; the
others say whose they are: `InterfaceInit`, `SpacesNext`, `EfiSpec`,
`NumbersSpec`, `InterruptsSpec`, `StringsSpec`.

How the models abstract:

- Pages, slots, "bytes" of the bitmap and tables have their sizes as constants.
  Addresses stay byte addresses wherever the code mixes them with frame numbers.
- Counters count pages and wrap at `CounterModulus`, as the registers do.
- Heap addresses and sizes count 8-byte blocks, so the rounding of `operator
  new` is done; `HeaderElements` is the 32 by which `seg + sizeof(...)` is off.
- The loop of `RequestPage` is `TopUsable`: the topmost word whose bit is clear.
- The byte behind the bitmap, which is read but never zeroed, is a choice
  (`stray`).
- In `KernelAddressSpace` the page table is one function from pages to entries:
  `VirtualMemory` shows that this is what the four levels amount to. Of the
  tables, only those of the last level under the heap have frames
  (`heapTables`): `InitHeap` and growHeap request them between the pages, and
  only they are ever emptied, by shrinkHeap. The frames of all other tables,
  which are requested once and never freed, and those the old tables need for
  the first heap, are left out. growHeap grows by its least step.
- `UnmapMemory` on a table it emptied gives the number of the table's frame to
  `FreePage`, in `VirtualMemory` as in `KernelAddressSpace`. There `unlocked`
  remembers the pages that were in use, which may be the kernel's image, and the
  heap may get them next; behaviours end where a table would be put on one.
- The framebuffer is columns of 8 and bands of 4 pixel rows, because a scroll
  clears exactly 4 rows: `memset` of 32-bit values advances by one byte per value.
- A Panic, an underflow of the page stack or a pointer outside of its block ends
  a behaviour: afterwards the code runs on undefined state. That is why all runs
  have `CHECK_DEADLOCK FALSE`; besides, the bootloader and `main` stop by
  themselves, and the bounds use up pages and buffers.
- In `Interrupts` a `print` is as many characters as can matter: what is printed
  with interrupts off is cut to two characters a line, the line printed behind
  `sti` has a length of its own, shorter than a screen line. Interrupts are off
  until `sti`, as the firmware leaves them; non-maskable ones are left out. The
  rest of the IDT's page is what the frame held: gates that are absent or
  garbage. A delivery through garbage ends the behaviour.
- In `Numbers` a type has a width in bytes and a sign; characters are their codes.
- In `Bootloader` a pool allocation may need a page or none, and fails without a
  sign when memory is full. `astray` (a NULL or unset pointer is used) and
  `overwrites` (a segment is read to pages that were refused) end the behaviour.
- Buffers of vectors and strings that nobody points to stay in `memory` and
  `characters`, as leaks do; `Buffers` is what the heap has.
- `String` ends where a copy goes through nullptr (`astray`) or a terminator is
  lost (`unterminated`). `Vector` leaves out self copy-assignment, an index
  behind the end and `contains` of an empty vector, which run through foreign
  memory; no code does the first two. It ends after `delete buff` took raw memory
  for a pointer (`Raw` in `deleted`). The build has no `-O` flag, so that
  destructors run where the code says.
- Supervisor writes are assumed to go through read-only entries (CR0.WP clear):
  `growHeap` maps its pages with no flags.
- `DEBUG` is defined, as in `Makefile:8`: ASSERT is compiled in.

## 3. Runs

Most instances put components beside each other that share no state: their
initial states choose which of them runs, and the others stay in one of their own
initial states (`InterfaceRests`, `NoNumber`, `NoInterrupts`, or simply the
module's initial condition). One run then answers for all of them, and the states
add up instead of multiplying.

| Run | Modules and properties | Bounds, and why they are enough |
|---|---|---|
| `page_frames` | `PageFrameAllocator`: `NoDoubleAllocation`, `PinnedNeverHandedOut`, `CountersAreTrue`, `SupplyNeverGrows`, `RefinesFrameSource` | Nine maps: image in free or in reserved memory, a hole, a device at the stray bit, two largest segments, metadata that just fits, three ways to Panic. At most nine words are on the stack: all of it is popped and the underflow happens. |
| | `AllocatorInterface`: `RequestableOnce`, `BitsMatchOwners` | Three maps of six pages, spans of up to two pages. Counters wrap at 17, the least that is above all memories: locking pages that were never free takes the free counter below zero. |
| `virtual_memory` | `VirtualMemory`: `TablesWellFormed`, `FramesHaveOneUse`, `IdentityMapIsKept`, `KeepsAddressMap` | 40 frames, tables of 8 entries: the identity map needs tables of each level, the two pages of the kernel's own share a table with a device page, another device page needs tables of its own. The last-level tables of both get empty. |
| | `UserAddressSpace`: `KernelTablesAreShared`, `ProcessesAreApart` | Two address spaces; 32 entries, each for 16 real ones, so every region of `memory_defines.h` is there and the copy ends between heap and stack as it does. |
| `heap` | `Heap`: `HeapWellFormed`, `FreeListIsSound`, `RefinesArena` | Two pages of 8 blocks that grow and shrink by one, two frames; sizes 1, 4 and 9 leave a segment too small to split, fill half a page, and need two pages. All statuses are reached. |
| `kernel_address_space` | `KernelAddressSpace`: `SwitchKeepsTranslations`, `ImageIsProtected`, `MappingsAreTrue`, `OwnFramesDisjoint`, `RequestableIsReachable` | Two memory maps (with and without a hole), four images (both ends inside of a page and on its boundary), two framebuffers; the heap grows from 2 to 6 pages, of which two share a table, and shrinks and grows again: tables are emptied, pages of the image unlocked and given to the heap. |
| | `Bootloader`: `KernelIsMapped`, `FirmwareTablesUntouched`, `MapIsCurrent` | Pages of 16 bytes, tables of two entries. Eleven pages of which the firmware has two or three, one choice overlapping the image; two segments under two page tables; the firmware has up to three pages at a time, so memory fills up and every status is reached. |
| `text_drawer` | `TextDrawer`: `TypeOK`, `CursorOnScreen`, `TextIsDrawn`, `TextIsClear` | Two columns, two lines and half of a third, as 1080 rows have; two characters. Scrolling moves every line out. |
| | `Numbers`: `NumbersReadBack` | Types of one and two bytes, signed and unsigned; all values of one byte, and those around each change of length and at the ends. |
| | `Interrupts`: `DrawsOnScreen`, `TablesFilledBeforeUse`, `PanicIsFinal`, `EndsHalted` | Three lines of three characters; lines of two characters (see section 2); vectors 8 (the timer, taken for a double fault) and 32 (no handler), at every instruction. |
| `containers` | `Vector`: `BuffersApart`, `ElementsAlive`, `SoleOwner`, `RemovedIsGone`, `RefinesLists` | Two vectors, three objects, two of equal value, up to three elements, three buffers; of numbers, two. `reserve` of 1 and of 3, so that an empty vector can be given a buffer twice. Growing, reserving, moving, removing of equal neighbours, and both ways to delete something out of an empty vector happen. |
| | `String`: `EqualIsSameText`, `RefinesTexts` | Two strings, three texts, one of them empty and one the beginning of another; up to six bytes. |

The other six runs have the instances above and show a finding each.

What the properties say where the code falls short of the obvious wish: they are
about what the code does keep. `TextIsClear` is about one band of the last line,
as the scroll clears a quarter of it. `ImageIsProtected` excepts the first page
of `.data` when `_KernelROEnd` is on a page boundary. `SwitchKeepsTranslations`
excepts memory above the sum of the descriptors and the rest of a framebuffer
that does not end on a page boundary. The invariants of the heap and of strings
hold until one of the failures in their statuses. `OwnFramesDisjoint` excepts frames that
`UnmapMemory` unlocked while the heap was shrunk (finding 3): two pages may then
have one frame, or the heap one of the image. `ElementsAlive` allows `delete
buff` to delete what was removed last from an empty vector, but no element and
nothing twice. `SupplyNeverGrows` is a leak
stated as a property: freeing a requested page does nothing. `RemovedIsGone`
lets one of two equal neighbours stay. `MapIsCurrent` is about an
`ExitBootServices` that succeeds. `DrawsOnScreen` holds because the only line
printed with interrupts on is shorter than the screen: a longer one could be
interrupted between the end of the line and the scroll.

Bounds in guards: `MaxHeapSize` in `KernelAddressSpace` (pages to which the heap
grows); `MaxGrowths` in `Heap` (growths within one `operator new`; the second
always suffices); `CanTake` in `VirtualMemory` (enough pages are left, and every
word on the stack is from the start, none a frame number that `UnmapMemory` took
for an address: what happens with one is the subject of
`kernel_image_never_granted`); `MaxSpan` in `AllocatorInterface` (pages of one
call); `MaxSize`, `Capacities` and `NumberBound` for vectors, `MaxLength` for
strings; `MaxFirmware` in `Bootloader`.

### Findings

1. `RequestPage` clears the bit of the page it returns (`PageFrameAllocator.cpp:132`),
   which the line above calls "in use" when set. Requested pages are never reused.
2. `InitPush` (`PageStack.h:28`) pushes about an eighth of the free pages;
   `GetFreeRam` counts all, so growHeap's test for exhaustion does not fire and
   the stack underflows.
3. `UnmapMemory` (`VirtualMemoryManager.cpp:85`) gives a frame number to
   `FreePage` and thereby frees pages of the locked kernel image. A heap that
   is shrunk over the boundary of a table does so, too.
4. `operator delete` that merges only forward (`Heap.cpp:171`) leaves a link to
   a zeroed header; a later `operator new` panics.
5. The identity map (`_start.cpp:23`) ends at the sum of the sizes of memory,
   below its end if there is a hole.
6. The ASSERTs of `unmap` (`VirtualAddressSpace.cpp:17`) are inverted.

Other behaviour worth knowing, which the models have and no comment or test
contradicts:

- `contains` (`vector.h:114`) misses the last element, and `remove(const U&)`
  the second of two equal neighbours.
- Moves of vectors drop what the target had, `operator+` of strings and
  assignments of a `UniquePtr` what they replace: leaks.
- `remove(uint64_t)` of the last element leaves its pointer in the slot. When the
  vector was emptied so and then gets a new buffer, `delete buff` (`vector.h:22`)
  destroys the first slot and deletes the object. After two reserves of an empty
  owning vector that slot is raw memory, and what it holds is deleted.
- A string added to itself within its capacity, or to which a default string is
  added, loses its terminator; a default string cannot be added to.
- `newUserVAS` (`VirtualAddressSpace.cpp:24`) copies 48 entries, not 384: the
  kernel's stack, GDT and IDT are missing in a process.
- `printIntSigned` prints a sign or not for a positive number (`negativ` is not
  set), and one character below `'0'` for the minimum of its type.
- A vector without a handler goes through whatever the frame of the IDT held.
- After a refused `ExitBootServices` the bootloader waits for one interrupt and
  starts the kernel anyway.

### Fairness and liveness

`Interrupts` assumes weak fairness of `Execute`: the processor executes the code
it is in. Nothing is assumed of `Deliver`: no interrupt has to come. Under this
`EndsHalted` says that `main`, or the handler that stopped it, gets to a `hlt`
and stays there, unless an interrupt went through a gate that holds garbage; a
handler's `hlt` is behind its message, so the message is printed.

No other liveness is stated: elsewhere the start is straight-line code,
afterwards the kernel only answers calls that nobody has to make, and no
operation waits for another. The one loop that could run forever, the search in
`findFreeSegment`, is inside one action.

## 4. Proofs

TLAPS checks these for every value of the constants that satisfies the named
assumptions of the modules. TLC evaluates the assumptions on every run, so they
hold of the instances, too.

| Module | Theorem | Property |
|---|---|---|
| `PageFrameAllocatorProofs` | `TypeCorrect` | `TypeOK` of `PageFrameAllocator` |
| | `PoolIsConsistent` | `PoolInvariant` |
| | `OneHolderPerPage` | `NoDoubleAllocation` |
| | `PinnedPagesStayHome` | `PinnedNeverHandedOut` |
| | `RequestedPagesNeverReturn` | `SupplyNeverGrows` |
| | `CountersStayTrue` | `CountersAreTrue` |
| | `ImplementsFrameSource` | `RefinesFrameSource` |
| | `RequestedOnce` | `RequestableOnce` of `AllocatorInterface` |
| | `BitsTellOwners` | `BitsMatchOwners` of `AllocatorInterface` |
| `VirtualMemoryProofs` | `Invariance` | `Inv`, the inductive invariant |
| | `WellFormedTables` | `TablesWellFormed` |
| | `OneUseOfFrames` | `FramesHaveOneUse` |
| | `IdentityMapKept` | `IdentityMapIsKept` |
| | `ImplementsAddressMap` | `KeepsAddressMap` |
| `HeapProofs` | `Invariance` | `Inv`, the inductive invariant |
| | `WellFormed` | `HeapWellFormed` |
| | `FreeListSound` | `FreeListIsSound` |
| | `ImplementsArena` | `RefinesArena` |
| `KernelAddressSpaceProofs` | `Invariance` | `Inv`, the inductive invariant |
| | `SwitchKeepsAll` | `SwitchKeepsTranslations` |
| | `ImageStaysProtected` | `ImageIsProtected` |
| | `MappingsStayTrue` | `MappingsAreTrue` |
| | `OwnFramesStayDisjoint` | `OwnFramesDisjoint` |
| | `RequestsStayReachable` | `RequestableIsReachable` |
| | `EfiInvariant` | `EfiInv`, the inductive invariant of `Bootloader` |
| | `KernelGetsMapped` | `KernelIsMapped` |
| | `OwnTablesOnly` | `FirmwareTablesUntouched` |
| | `KeyGuardsMap` | `MapIsCurrent` |
| `TextDrawerProofs` | `TypeCorrect` | `TypeOK` of `TextDrawer` |
| | `CursorStaysOnScreen` | `CursorOnScreen` |
| | `PrintedTextStays` | `TextIsDrawn` |
| | `CleanBandsStayClear` | `TextIsClear` |
| | `HandlersDrawOnScreen` | `DrawsOnScreen` of `Interrupts` |
| | `TablesAreFilled` | `TablesFilledBeforeUse` |
| | `HaltsForEver` | `PanicIsFinal`, an action property |
| | `NumbersAreRead` | `NumbersReadBack` of `Numbers` |
| `VectorProofs` | `TypeCorrect` | `TypeOK` of `Vector` |
| | `BuffersStayApart` | `BuffersApart` |
| | `ElementsStayAlive` | `ElementsAlive` |
| | `OneOwner` | `SoleOwner` |
| | `ImplementsLists` | `RefinesLists` |
| | `RemovedStaysGone` | `RemovedIsGone` |
| | `EqualOnlySameText` | `EqualIsSameText` of `String` |
| | `ImplementsTexts` | `RefinesTexts` |
| `UserAddressSpaceProofs` | `KernelStaysShared` | `KernelTablesAreShared` |
| | `ProcessesStayApart` | `ProcessesAreApart` |

**The allocator** (`SizesAssumption`, `MemoryMapsAssumption`,
`KernelAssumption`: pages hold whole slots, descriptors describe whole pages).
`NoDoubleAllocation` is not inductive: a state in which a held page is still on
the stack satisfies it and the next `Request` breaks it. `PoolInvariant` adds
what excludes that: `StackEntries` (words are addresses of covered pages, no
page twice, none that is held), `HeldPages` (a held page has a clear bit, hence
`FreePage` returns early) and `PinnedPages` (pinned pages keep their bit, hence
`RequestPage` passes over them). `TypeOK /\ PoolInvariant` is inductive, with
one lemma per action. `PageFramesProofs` has the lemmas about the operators:
`AscendingLists` (`InitPush` lists each clear page once; it rests on the
existence of ranks in finite sets of naturals), `ConstructedEffect`,
`RequestPageEffect`, `LockPagesEffect`, `RequestTakes` (what a request does to
the pool and to nothing else), `LockedStart` (the pool after the image is
locked) and so on; the proofs about page tables and the start use them, too.
`SupplyNeverGrows` and the refinement follow from what each action does to the
set of available pages. `CountersAreTrue` needs one more fact, that `freeMemory`
before it is wrapped is never less than the number of clear bits, and
`ImageAssumption`: the firmware describes the pages of the image, because the
bootloader allocated them there, and there are fewer pages than the counter has
values. Without the first, locking the image would subtract pages that were
never counted.

**The allocator's interface** (`InterfaceAssumption`: maps are of descriptors of
whole pages). `RequestableOnce` is about the stack, `BitsMatchOwners` about
bits, counters and the stack's end; neither is inductive alone. `InterfaceInv`
keeps the books of the allocator (`Books`): no page is on the stack twice, a
page on it is the allocator's or was locked while it lay there, a bit is set
exactly if somebody keeps the page, and `reservedMemory` counts the reserved
ones. That `Push` never leaves its buffer is then counting: the pages on the
stack are different pages of memory, and there is a slot for each.
`PushKeepsWords` is the step all giving back has in common; loops over a span go
by `GivenBack`, whose values are followed from page to page with the least page
that fails.

**The page tables** (`VirtualMemoryAssumption`; `IdentityAssumption`: there is
memory, and the kernel's virtual pages are above the identity map;
`StartAssumption`: pages are left once the image is locked). The properties are
about what is found on the way down from PML4; `Inv` is about the tables as a
graph. `Tree` gives each table a level such that an entry above the last level
leads one level down and no table is entered twice. `PathIsPath` and `PathIsOne`
say that `Path` is the one descent to a page, `PathsApart` that two pages never
end at one entry: their indices would be the same, and `IndicesDiffer` says that
then they are one page, which is arithmetic about shifts and masks.
`PlantedTree` and `PlantedPath` add a missing table, `LeafChanges` replaces a
last entry. `Held` is why frames have one use: the bit of a frame in use is
clear and no word for it is in the pool, so no request returns it, and
`FreePage` returns early for it, whatever `UnmapMemory` and the mappings call it
with. That a request returns a page nobody has needs that each page is on the
stack once; this is where `CanTake` is used. A page of the locked image may be
there from the start, under its set bit, and `UnmapMemory` that frees it by
mistake pushes it a second time. `MapMemoryEffect` and `UnmapMemoryEffect` then
say what the two functions do to tables and pool, and there is one lemma per
action. `TablesFormTree` counts: `LevelBelow` shows that the entries of each
level and the tables of the next are one to one.

**The heap** (`HeapAssumption`: a header has a size, a page is longer than one,
and the pointer arithmetic of `seg + sizeof(HeapEntryHeader)` moves by more than
one byte per unit, so that a segment given out whole always ends up "overrun").
The properties are about following `nextHeader` from `startSec`; the inductive
invariant is about the set of headers, because every header that is not of a
live block is free, and sets are what actions change. `Linked` says that the
free headers are a ring in the order of addresses, `Tiled` that each segment
ends where the next begins, `Merged` that no two free ones are neighbours,
`SizesAgree` that `size`, `end` and `mappedPages` tell the same.
`FreeListIsFree` connects the two views: the walk has as many steps as there are
headers, a ring that is sorted cannot return before it met all (a smallest free
segment the walk missed would have to be the successor of one it met). There is
one lemma per part of an operation: `SplitSound`, `EnlargeSound` and
`AppendSound` of growHeap, `MergePreviousShape`, `MergeNextSound` and
`InsertSound` of `operator delete`, and `ShrinkSound`; between two merges
`Merged` may fail, so these state what is left of it. `GrowSound` with `Growing`
is why `operator new` grows at most twice: the second time the last segment is
free and is enlarged. The refinement follows from `BlocksAreApart`, which says
that tiled segments do not overlap.

**The kernel's address space** (`KernelAddressSpaceAssumption`: the shapes of
the firmware's map, the image and the framebuffer; `LayoutAssumption`: the
regions of `memory_defines.h` are apart from each other and above physical
memory and the framebuffer, there is memory, and the first heap is at most twice
the step by which it grows; `TablesAssumption`: the heap begins with a table of its
own, which no other region shares). The properties are about single moments; `Inv`
says, for each number of statements executed, what has to be there. `Planned`
lists the mappings in the order of `_start`; `InTables` and `InList` say how
many of them are in the tables and in the list, which differ, as the heap is
mapped before its Mapping is added. The tables are then exactly `Regions`, and
the list is exactly the first of the plan (`ListOK`). `EntryOK` says where
entries of code, data and the identity map lead. `FramesOK` is why a frame has
one use: the bit of a frame of heap, stack, GDT or IDT is clear and it is not in
the pool, so the next request returns another one, and the `FreePage` of
shrinkHeap returns early. It holds but for the frames in `unlocked`: these may be
on the stack more than once. `TablesOK` says why the heap's tables are not among
them: a table's frame was requested, so its bit is clear, and `UnmapMemory` only
unlocks pages whose bit is set. `FreeFramesEffect` follows shrinkHeap from page to
page: `Freed` says that only bits of such pages change and only words of theirs
are pushed. `OldOK` describes the bootloader's
tables, which the first heap is added to; `HeapSizeOK` says that the heap is its
first size and some steps, so that shrinkHeap, which wants more than two steps,
never goes below the first heap that the switch of CR3 needs. `ChainTakes` and
`RequestedEffect` prove that a run of requests returns as many different pages
(by the least request that fails to), `RequestedForHeapEffect` tells which of
them become pages of the heap and which its tables (`AskedGrows`: no two are the
same request), `Layout` that the regions do not overlap,
`MappedNext` that a statement that maps a region of its own advances the plan by
one. There is one lemma per statement and one each for growHeap and shrinkHeap.

**The bootloader** (`FirmwareAssumption`: the firmware's own pages are among the
memory; `SegmentsAssumption`: segments are not empty, share no virtual page, as
`kernel.ld` aligns them, and are linked above what the first entry of the PML4
maps). `KernelIsMapped` is about the moment of the jump. `EfiInv` says for each
call of `efi_main` what was loaded (`SegmentsLoaded`) and mapped (`PagesMapped`)
before it, in the two loops up to `phdr` and `mapped`. That mapping a page takes
no other away needs the shape of the tables: below its PML4 all tables are
`efi_main`'s own (`Inside`), and a table that two addresses lead to is reached
with the same indices (`Apart`). `IndizesDiffer` says that different pages have
different indices, and `Entered` what the tables are when a path was added.
`MapTold` ties the map that was read to memory: while the key is right, or
services have ended, the map is memory as it is. Behind an answer that was not
looked at (`Sane` fails) only what needs no pointer is claimed.

**The drawer** (`TextDrawerAssumption`: at least one column and room for a line;
`CharsAssumption`). For the cursor the invariant adds types and, with it, that
the next line starts at a multiple of a line's height. `DrawnInv` adds that each
cell of a line shows the glyph the text has there; the lemmas follow one round
of the loop: a glyph changes one cell, a scroll moves all. `TextIsClear` is not
inductive: `ClearInv` adds that nothing is printed where the cursor will get to
(`BlankAhead`), as a glyph is drawn over what is there, and that the rows below
the last line, which a scroll moves into it, are empty.

**Interrupts** (`InterruptsAssumption`: a line has more than the two characters
that stand for what is printed with interrupts off, and is longer than what is
printed behind `sti`). Where a handler's text goes depends on where it
interrupted main, so the invariant is a table of the program: `InterruptsInv`
says that either main is at one of its instructions with nothing but the rest of
its code to execute (`InMain`), or a handler is at one of its own and main waits
(`InPanic`); `MainCursor` and `PanicCursor` say where the cursor is before each
instruction, and `SetUp` which descriptors, gates and registers have been filled
in. The cursor stands behind a full line only while interrupts are off; this is
where the assumption is needed.

**Numbers** (`NumbersAssumption`: types of up to eight bytes). What is printed
reads back as the number because each digit is the remainder of what was left
there. `NumbersInv` says that there are quotients, one for each place written so
far, of which each is a tenth of the next (`Divided`). They are below the power
of ten of their place, so 19 or 20 places are enough: neither the digits nor the
sign ever get before the buffer. The value of a text is a recursive function;
`DecimalReadsBack` and `HexReadsBack` show by the least place that fails that
its value at each place is the quotient there.

**Vectors** (`VectorAssumption`: elements are numbers or pointers that are not
null, and have a value; `BuffersAssumption`: no buffer is nullptr).
`BuffersApart` alone says nothing about what a buffer holds. `Layout` (types,
buffers that fit and are apart), `Removing` (a `remove` that is under way is of
objects), `Alive` (what is in a vector is constructed and not
deleted), `Leftovers` (what an empty vector has in its first slot is raw, or an
object that is in no vector and was not deleted) and `SoleOwner` are inductive
together: that growing deletes no element needs that each slot moved from is
null and that what was removed last is nowhere else, and that objects stay in
one place needs that no two vectors share a buffer. Two lemmas, for a vector that gets a
new buffer and for one that is rewritten in place, carry all actions. The
refinement of `Lists` follows from what the lemmas of the actions say of the
elements (`Pushed`, `ClosedUp`, `GotElements`, `MovedOver`), turned into
sequences by `ListOfAppend` and `ListOfWithout`. `RemovedIsGone` is about the
end of `remove(const U&)`; `Progress` is about each round. There is a place in
the list before for each element that is left, what the loop has not come to has
moved down together, and an equal element up to the index is right behind a
place that was taken. `PassedOver` and `TakenOut` are the two outcomes of a
round: the element that moves into the gap is not looked at, and its place is
behind the gap's.

**Strings** (`StringAssumption`: texts have no terminator in them). `StringsInv`
adds to the types that the bytes of every string end with their only terminator
while `status` is `Running`, which is what makes a comparison of the shorter
string's bytes one of texts: if all of them agree, the shorter's terminator is
the longer's too. Its lemmas say what each operation does to the bytes of
strings (`BytesBecome`); without its terminator such bytes are the text of
`Texts`, and the refinement follows.

**Address spaces** (`MemoryLayoutAssumption`: the regions are apart and
processes are below the kernel; `HeapIsCopied`: image and heap are among the
copied entries). `KernelTablesAreShared` needs that the kernel's entries for
image and heap are never replaced, `ProcessesAreApart` that an entry outside of
the process's own is a copy, that its own are of no other space, and that the
kernel's entries differ; `IInv` is these. That the allocator is asked once for
each table is `Requests`: the tables handed out are as many as the entries the
kernel and the processes have of their own, and the PML4s (`UsersAssumption`:
finitely many processes).

Only model-checked: `EndsHalted`, liveness under fairness, which is out of the
prover's reach. So is induction over recursive definitions with the library's
theorems, which take an operator as a parameter; the proofs argue by the least
number for which a statement fails (`SmallestExists`) instead. No module
declares a RECURSIVE operator: what is recursive is a function. The findings are
counterexamples, and TLC finds them.

## 5. Not modelled, and the plan

Not modelled: disk (declarations without code), build scripts, the graphics
setup of the bootloader (`InitGOP`, `LoadedImageInfo` pass on what the firmware
says), `MapEfiMemoryMap` and `print_memorymap` (not called), `printFloat` and
`printDouble` (no code), colours, the bits of the descriptors in GDT and IDT,
non-maskable interrupts, the vector constructors with a size or an element (not
used), the clearing of `.bss` (the models start with a cleared one).

Next, in this order:

1. A composition of `Heap` with `VirtualMemory`: the frames growHeap takes while
   tables are taken too, and `SizeMatchesMapping` over real tables.
2. The heap's use by `vector` and `string` through `Heap` instead of `Arena`.
