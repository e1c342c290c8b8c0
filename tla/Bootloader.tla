------------------------------ MODULE Bootloader -------------------------------
(***************************************************************************)
(* efi_main, from the kernel's file to the jump to _start: what it asks    *)
(* the firmware for without looking at the answers, the page tables it     *)
(* adds the kernel to, and the memory map it hands over.  The firmware's   *)
(* own events change memory meanwhile, until its services end.             *)
(***************************************************************************)
EXTENDS Integers, Sequences, FiniteSets

CONSTANTS
  Pages,           \* physical pages
  FirmwareUse,     \* sets of pages the firmware uses when it starts efi_main
  MaxFirmware,     \* bound: pages it uses at most later on
  RootFrame, IdentityFrame,  \* its tables: the PML4, and the one its only
                             \* entry leads to, which maps all of memory
  Segments,        \* the PT_LOAD headers; p_paddr and p_vaddr in pages
  PageBytes, Radix \* bytes of a page, entries of a table    (4096, 512)

ASSUME FirmwareAssumption ==
  /\ Pages \subseteq Nat /\ IsFiniteSet(Pages)
  /\ {RootFrame, IdentityFrame} \subseteq Pages
  /\ FirmwareUse \subseteq {use \in SUBSET Pages : {RootFrame, IdentityFrame} \subseteq use}
  /\ MaxFirmware \in Nat
  /\ PageBytes \in Nat \ {0} /\ Radix \in Nat \ {0, 1}

(* Mutant: the last page of a segment is left out unless it is full.       *)
PageCountDown(k) == Segments[k].p_memsz \div PageBytes

PageCount(k) == (Segments[k].p_memsz + PageBytes - 1) \div PageBytes

SegmentPages(k) == {Segments[k].p_paddr + n : n \in 0 .. PageCount(k) - 1}

(* The index into the table of each level, the PML4's being the first.     *)
getIndizes(vpage) ==
  LET PT == vpage \div Radix
      PD == PT \div Radix
      PDP == PD \div Radix
  IN  <<PDP % Radix, PD % Radix, PT % Radix, vpage % Radix>>

(* Segments are not empty and, as kernel.ld aligns them, have no page of   *)
(* virtual memory in common; they are linked to where the identity map is  *)
(* not, with addresses of 48 bits.                                         *)
ASSUME SegmentsAssumption ==
  /\ Segments \in Seq([p_paddr : Nat, p_vaddr : Nat, p_memsz : Nat \ {0}]) /\ Segments # << >>
  /\ \A k \in DOMAIN Segments : \A n \in 0 .. PageCount(k) - 1 :
       LET vpage == Segments[k].p_vaddr + n
       IN  /\ vpage < Radix * (Radix * (Radix * Radix))
           /\ getIndizes(vpage)[1] # 0
           /\ \A l \in DOMAIN Segments : \A m \in 0 .. PageCount(l) - 1 :
                Segments[l].p_vaddr + m = vpage => l = k /\ m = n

VARIABLES
  statement, \* the call of efi_main that comes next
  phdr,      \* the segment it is for, in the two loops over the headers
  mapped,    \* pages of it that were mapped
  memory,    \* what the firmware has each page down as
  tables,    \* entries of the page tables, by frame
  PLM4, cr3,
  MapSize,   \* descriptors there is room for
  Map,       \* the memory map, when it was read
  MapKey,    \* whether MapKey is the one of memory as it is
  services,  \* whether boot services run
  status     \* "running", "halted", "kernel"; "astray": on with a pointer that
             \* leads anywhere; "overwrites": the kernel on others' pages

loops == <<phdr, mapped>>
efi == <<statement, loops, memory, tables, PLM4, cr3, MapSize, Map, MapKey, services, status>>

-------------------------------------------------------------------------------
Calls ==
  {"LoadFile", "GetInfo", "AllocateHeaders", "LoadSegment", "LoadPSF1Font", "CopyPLM4",
   "MapMemory", "AskMapSize", "AllocateMap", "GetMemoryMap", "ExitBootServices",
   "KernelStart", "hlt"}

Now(call) == status = "running" /\ statement = call

Then(call) == statement' = call /\ UNCHANGED loops

(* The next round of a loop over the headers, or what comes behind it.     *)
NextSegment(call) ==
  /\ mapped' = 0
  /\ IF phdr < Len(Segments) THEN phdr' = phdr + 1 /\ UNCHANGED statement
     ELSE phdr' = 1 /\ statement' = call

(* An entry of value 0.                                                    *)
Zero == -1

FirmwarePLM4 == [n \in 0 .. Radix - 1 |-> IF n = 0 THEN IdentityFrame ELSE Zero]

EfiInit ==
  /\ statement = "LoadFile" /\ phdr = 1 /\ mapped = 0
  /\ \E use \in FirmwareUse :
       memory = [p \in Pages |-> IF p \in use THEN "firmware" ELSE "free"]
  /\ tables = [f \in {RootFrame} |-> FirmwarePLM4]
  /\ PLM4 = RootFrame /\ cr3 = RootFrame
  /\ MapSize = 0 /\ Map = << >> /\ MapKey = FALSE
  /\ services = TRUE /\ status = "running"

-------------------------------------------------------------------------------
(* Boot services.                                                          *)
Free == {p \in Pages : memory[p] = "free"}

(* Changed memory has another key.                                         *)
Take(pages) ==
  /\ memory' = [p \in Pages |-> IF p \in pages THEN "loader" ELSE memory[p]]
  /\ MapKey' = (MapKey /\ pages = {})

(* The pool may need a page.  Nobody looks whether there was one.          *)
TakePool ==
  \/ Take({}) /\ UNCHANGED status
  \/ \E p \in Free : Take({p}) /\ UNCHANGED status
  \/ Free = {} /\ Take({}) /\ status' = "astray"

(* Descriptors: one for every run of pages of a kind.                      *)
DescriptorCount ==
  Cardinality({p \in Pages : p + 1 \in Pages => memory[p] # memory[p + 1]})

(* Timers and other events of the firmware.                                *)
Event ==
  /\ services /\ status \in {"running", "halted"}
  /\ \E p \in Pages \ {RootFrame, IdentityFrame} :
       \/ /\ memory[p] = "free"
          /\ Cardinality({q \in Pages : memory[q] = "firmware"}) < MaxFirmware
          /\ memory' = [memory EXCEPT ![p] = "firmware"]
       \/ memory[p] = "firmware" /\ memory' = [memory EXCEPT ![p] = "free"]
  /\ MapKey' = FALSE
  /\ UNCHANGED <<statement, loops, tables, PLM4, cr3, MapSize, Map, services, status>>

-------------------------------------------------------------------------------
(* LoadFile may return NULL, which is printed and then used; GetInfo writes*)
(* the file's info over the pointer to the buffer it was to go to, and     *)
(* over what lies behind that on the stack.                                *)
LoadFile ==
  /\ Now("LoadFile") /\ Then("GetInfo")
  /\ status' \in {"running", "astray"}
  /\ UNCHANGED <<memory, tables, PLM4, cr3, MapSize, Map, MapKey, services>>

GetInfo ==
  /\ Now("GetInfo") /\ Then("AllocateHeaders")
  /\ \/ TakePool
     \/ Take({}) /\ status' = "astray"
  /\ UNCHANGED <<tables, PLM4, cr3, MapSize, Map, services>>

(* For the program headers, ...                                            *)
AllocateHeaders ==
  /\ Now("AllocateHeaders") /\ Then("LoadSegment")
  /\ TakePool
  /\ UNCHANGED <<tables, PLM4, cr3, MapSize, Map, services>>

(* The firmware refuses pages that are not free, and the kernel is read    *)
(* to them all the same.                                                   *)
LoadSegment ==
  /\ Now("LoadSegment") /\ NextSegment("LoadPSF1Font")
  /\ IF SegmentPages(phdr) \subseteq Free THEN Take(SegmentPages(phdr)) /\ UNCHANGED status
     ELSE Take({}) /\ status' = "overwrites"
  /\ UNCHANGED <<tables, PLM4, cr3, MapSize, Map, services>>

(* The font's header, glyphs and handle; without a font it returns NULL,   *)
(* which the kernel gets.                                                  *)
LoadPSF1Font ==
  /\ Now("LoadPSF1Font") /\ Then("CopyPLM4")
  /\ TakePool
  /\ UNCHANGED <<tables, PLM4, cr3, MapSize, Map, services>>

(* Mutant: the kernel is added to the firmware's own PML4.                 *)
CopyPLM4Shared ==
  /\ Now("CopyPLM4") /\ Then("MapMemory")
  /\ UNCHANGED <<memory, tables, PLM4, cr3, MapSize, Map, MapKey, services, status>>

CopyPLM4 ==
  /\ Now("CopyPLM4") /\ Then("MapMemory")
  /\ \/ \E p \in Free :
          /\ Take({p}) /\ UNCHANGED status
          /\ PLM4' = p
          /\ tables' = [f \in DOMAIN tables \union {p} |->
                          IF f = p THEN tables[RootFrame] ELSE tables[f]]
     \/ Free = {} /\ Take({}) /\ status' = "astray" /\ UNCHANGED <<PLM4, tables>>
  /\ UNCHANGED <<cr3, MapSize, Map, services>>

(* The tables on the way to a page, and what the last one says of it.      *)
Lead(theTables, table, index) == IF table = Zero THEN Zero ELSE theTables[table][index]

Path(theTables, root, vpage) ==
  LET index == getIndizes(vpage)
      pdp == Lead(theTables, root, index[1])
      pd == Lead(theTables, pdp, index[2])
      pt == Lead(theTables, pd, index[3])
  IN  <<root, pdp, pd, pt, Lead(theTables, pt, index[4])>>

(* The tables with those on the way to vpage entered, each in the one      *)
(* before it, and the page in the last.                                    *)
Entered(theTables, way, vpage) ==
  LET index == getIndizes(vpage)
      at(f, n) == {level \in 1 .. 4 : way[level] = f /\ index[level] = n}
  IN  [f \in DOMAIN theTables \union {way[level] : level \in 1 .. 4} |->
         [n \in 0 .. Radix - 1 |->
            IF at(f, n) # {} THEN way[1 + CHOOSE level \in at(f, n) : TRUE]
            ELSE IF f \in DOMAIN theTables THEN theTables[f][n]
            ELSE Zero]]

(* MapMemory: missing tables are allocated and cleared.                    *)
MapMemory(page, vpage) ==
  LET path == Path(tables, PLM4, vpage)
      missing == {level \in 1 .. 4 : path[level] = Zero}
  IN  \/ \E new \in [missing -> Free] :
           /\ \A l, m \in missing : new[l] = new[m] => l = m
           /\ Take({new[level] : level \in missing}) /\ UNCHANGED status
           /\ tables' = Entered(tables,
                [level \in 1 .. 5 |-> IF level = 5 THEN page
                                      ELSE IF level \in missing THEN new[level]
                                      ELSE path[level]],
                vpage)
      \/ /\ Cardinality(Free) < Cardinality(missing)
         /\ Take({}) /\ status' = "astray" /\ UNCHANGED tables

MapPage ==
  /\ Now("MapMemory")
  /\ IF mapped + 1 < PageCount(phdr)
     THEN mapped' = mapped + 1 /\ UNCHANGED <<phdr, statement>>
     ELSE NextSegment("AskMapSize")
  /\ MapMemory(Segments[phdr].p_paddr + mapped, Segments[phdr].p_vaddr + mapped)
  /\ UNCHANGED <<PLM4, cr3, MapSize, Map, services>>

(* The first GetMemoryMap, for the size.                                   *)
AskMapSize ==
  /\ Now("AskMapSize") /\ Then("AllocateMap")
  /\ MapSize' = DescriptorCount
  /\ UNCHANGED <<memory, tables, PLM4, cr3, Map, MapKey, services, status>>

(* ... and for the memory map.                                             *)
AllocateMap ==
  /\ Now("AllocateMap") /\ Then("GetMemoryMap")
  /\ TakePool
  /\ UNCHANGED <<tables, PLM4, cr3, MapSize, Map, services>>

(* The second: if the buffer does not suffice any more it stays as it is,  *)
(* with the key or without it.                                             *)
GetMemoryMap ==
  /\ Now("GetMemoryMap") /\ Then("ExitBootServices")
  /\ IF DescriptorCount <= MapSize THEN Map' = memory /\ MapKey' = TRUE
     ELSE MapKey' \in BOOLEAN /\ UNCHANGED Map
  /\ UNCHANGED <<memory, tables, PLM4, cr3, MapSize, services, status>>

(* Mutant: exit_stat is not looked at.                                     *)
ExitBootServicesUnchecked ==
  /\ Now("ExitBootServices") /\ Then("KernelStart")
  /\ services' = FALSE
  /\ UNCHANGED <<memory, tables, PLM4, cr3, MapSize, Map, MapKey, status>>

ExitBootServices ==
  /\ Now("ExitBootServices") /\ Then("KernelStart")
  /\ IF MapKey THEN services' = FALSE /\ UNCHANGED status
     ELSE status' = "halted" /\ UNCHANGED services
  /\ UNCHANGED <<memory, tables, PLM4, cr3, MapSize, Map, MapKey>>

(* The hlt is not in a loop: the firmware's next interrupt ends it.        *)
WakeUp ==
  /\ status = "halted" /\ status' = "running"
  /\ UNCHANGED <<statement, loops, memory, tables, PLM4, cr3, MapSize, Map, MapKey, services>>

(* CR3 and the jump to the kernel.                                         *)
KernelStart ==
  /\ Now("KernelStart") /\ Then("hlt")
  /\ cr3' = PLM4 /\ status' = "kernel"
  /\ UNCHANGED <<memory, tables, PLM4, MapSize, Map, MapKey, services>>

EfiNext ==
  \/ LoadFile \/ GetInfo \/ AllocateHeaders \/ LoadSegment \/ LoadPSF1Font
  \/ CopyPLM4 \/ MapPage \/ AskMapSize \/ AllocateMap \/ GetMemoryMap
  \/ ExitBootServices \/ WakeUp \/ KernelStart
  \/ Event

EfiSpec == EfiInit /\ [][EfiNext]_efi

-------------------------------------------------------------------------------
(* Types of what efi_main has and asks for (main.c:143-285).               *)
EfiTypeOK ==
  /\ statement \in Calls /\ phdr \in DOMAIN Segments /\ mapped \in 0 .. PageCount(phdr) - 1
  /\ memory \in [Pages -> {"free", "loader", "firmware"}]
  /\ DOMAIN tables \subseteq Pages /\ {PLM4, cr3} \subseteq DOMAIN tables
  /\ \A f \in DOMAIN tables : tables[f] \in [0 .. Radix - 1 -> Pages \union {Zero}]
  /\ MapSize \in 0 .. Cardinality(Pages)
  /\ Map \in {<< >>} \union [Pages -> {"free", "loader", "firmware"}]
  /\ MapKey \in BOOLEAN /\ services \in BOOLEAN
  /\ status \in {"running", "halted", "kernel", "astray", "overwrites"}

(* What runs through the switch of CR3 is there behind it: every page of   *)
(* the kernel, however its segments end, on a page it was given, and all   *)
(* the firmware maps (main.c:241-277, paging.c:35-67).                     *)
KernelIsMapped ==
  /\ EfiTypeOK
  /\ status = "kernel" =>
       /\ \A k \in DOMAIN Segments : \A byte \in 0 .. Segments[k].p_memsz - 1 :
            LET n == byte \div PageBytes
            IN  /\ Path(tables, cr3, Segments[k].p_vaddr + n)[5] = Segments[k].p_paddr + n
                /\ memory[Segments[k].p_paddr + n] = "loader"
       /\ tables[cr3][0] = IdentityFrame

(* "Copy Original PLM4 to Writable Location" (main.c:234): no entry is     *)
(* written to a table that is not efi_main's own.                          *)
FirmwareTablesUntouched ==
  /\ tables[RootFrame] = FirmwarePLM4
  /\ \A f \in DOMAIN tables \ {RootFrame} : memory[f] = "loader"

(* The map the kernel gets is the one of memory as it is, whatever the     *)
(* firmware did between the calls, if it got one at all and no interrupt   *)
(* woke it after a refused exit (main.c:266-276): nothing it calls free    *)
(* holds the kernel, its tables, its font or the map itself.               *)
MapIsCurrent ==
  status = "kernel" /\ Map # << >> /\ ~services => Map = memory

===============================================================================
