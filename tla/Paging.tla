------------------------------- MODULE Paging -------------------------------
(***************************************************************************)
(* Memory from the boot loader to the first page faults: the firmware's    *)
(* map, MapPages and BuildMemoryMap of bootloader/main.c, then the         *)
(* kernel's pmm.c and vmm.c.                                               *)
(*                                                                         *)
(* A physical page is Entries words.  The same words hold the link of a    *)
(* free page, the entries of a page table and the data of a mapped page,   *)
(* so a page used for two of these shows.  Physical and virtual pages are  *)
(* numbers; sizes are counted in pages.  The kernel reaches all physical   *)
(* memory through its map of it, whose tables are the firmware's.          *)
(***************************************************************************)
EXTENDS MemoryMap, FiniteSets

CONSTANTS
  Entries,       \* words of a page, 512 in the code
  Pages,         \* the physical pages
  Root,          \* the page of the PML4T the firmware leaves
  Identity,      \* the page its entry 0 leads to
  FreePages,     \* the pages the boot loader reserves for tables, a sequence
  Phdrs,         \* the kernel's program headers: [type, vaddr, filesz, memsz], a sequence
  InitrdSize,    \* words of the initrd
  Allocated,     \* the first pages of what the firmware gives for the segments and the initrd
  FirmwareMaps,  \* for each machine, the memory maps its firmware may have
  Touched,       \* the virtual pages the kernel uses
  MaxBrk         \* bound of the model: the break never passes it

ASSUME PagingAssumption ==
  /\ Entries \in Nat \ {0, 1}
  /\ Pages \subseteq Nat /\ IsFiniteSet(Pages)
  /\ {0, Root, Identity} \subseteq Pages /\ Root # 0
  /\ FreePages \in Seq(Pages)
  /\ Phdrs \in Seq([type : {"PT_LOAD", "PT_NOTE"}, vaddr : Nat, filesz : Nat, memsz : Nat])
  /\ InitrdSize \in Nat \ {0} /\ Allocated \in Seq(Pages)
  /\ Touched \subseteq Nat /\ MaxBrk \in Nat

\* A word, as a table entry or the link of a free page sees it.
Word(page, present) == [page |-> page, present |-> present]
Entry(page) == Word(page, TRUE)
Link(page)  == Word(page, FALSE)
Zero    == Word(0, FALSE)
Garbage == Word(0, TRUE)    \* any other word: read as an entry it leads astray
ZeroPage == [i \in 0..(Entries - 1) |-> Zero]
NoPage == -1

VARIABLES
  phase,           \* the function that has run last
  mem,             \* the words of every physical page
  efi_map,         \* the map the firmware has at present
  EfiMemoryMap,    \* the copy the boot loader has got
  EfiMemoryMapSize,  \* the size it believes the copy's buffer has, in descriptors
  room,            \* the size it has
  key_valid,       \* the map has not changed since the copy was made
  overrun,         \* a copy has gone beyond its buffer: not followed further
  mmap,            \* the memory map handed to the kernel
  next_free_page,  \* the first page of the free list
  memory_size, used_memory, reserved_memory, free_memory,
  curr_brk,        \* the first virtual page not given out
  halted,          \* the page fault handler, or the boot loader, stopped the CPU
  lost             \* a page was asked for and none was left: not followed further

counters == <<memory_size, used_memory, reserved_memory, free_memory>>
efiVars == <<efi_map, EfiMemoryMap, EfiMemoryMapSize, room, key_valid, overrun>>
vars == <<phase, efiVars, mem, mmap, next_free_page, counters, curr_brk, halted, lost>>

----------------------------------------------------------------------------
(* Page tables                                                             *)

\* A virtual page's indices down to level k, as one number, and its index in
\* the table of level k: the PML4T, PDPT, PDT and PT.
Prefix(v, k) ==
  LET v3 == v \div Entries
      v2 == v3 \div Entries
  IN CASE k = 4 -> v [] k = 3 -> v3 [] k = 2 -> v2 [] k = 1 -> v2 \div Entries
IndexShifted(v, k) ==   \* mutant: the bits of level 3 at level 4
  Prefix(v, IF k = 4 THEN 3 ELSE k) % Entries
Index(v, k) == Prefix(v, k) % Entries

\* Where the kernel's map of physical memory starts, in the top table.
PhysIndex == Entries \div 2

\* The virtual pages are those of four levels of tables, outside of that map.
Virtual == {v \in Nat : Prefix(v, 1) < Entries /\ Index(v, 1) # PhysIndex}

ASSUME TouchedAssumption == Touched \subseteq Virtual

\* A walk: the memory it changes, the table it has come to, the pages it may
\* take for tables, and whether they have run out.
Start(supply) == [mem |-> mem, page |-> Root, supply |-> supply, short |-> FALSE]

EnterKeeps(at, i) ==   \* mutant: the page for the new table stays available
  LET entry == at.mem[at.page][i] IN
  IF entry.present THEN [at EXCEPT !.page = entry.page]
  ELSE IF at.supply = <<>> THEN [at EXCEPT !.short = TRUE]
  ELSE [at EXCEPT !.mem = [@ EXCEPT ![Head(at.supply)] = ZeroPage,
                                    ![at.page][i] = Entry(Head(at.supply))],
                  !.page = Head(at.supply)]

EnterAnew(at, i) ==   \* mutant: a new table where there is one of another virtual page
  LET entry == at.mem[at.page][i] IN
  IF entry.present /\ at.page = Root THEN [at EXCEPT !.page = entry.page]
  ELSE IF at.supply = <<>> THEN [at EXCEPT !.short = TRUE]
  ELSE [at EXCEPT !.mem = [@ EXCEPT ![Head(at.supply)] = ZeroPage,
                                    ![at.page][i] = Entry(Head(at.supply))],
                  !.page = Head(at.supply), !.supply = Tail(at.supply)]

\* To the table that entry i leads to; a new one if there is none.
Enter(at, i) ==
  LET entry == at.mem[at.page][i] IN
  IF entry.present THEN [at EXCEPT !.page = entry.page]
  ELSE IF at.supply = <<>> THEN [at EXCEPT !.short = TRUE]
  ELSE [at EXCEPT !.mem = [@ EXCEPT ![Head(at.supply)] = ZeroPage,
                                    ![at.page][i] = Entry(Head(at.supply))],
                  !.page = Head(at.supply), !.supply = Tail(at.supply)]

\* map_page, and the body of MapPages: down three tables, then the entry of
\* the page itself.
MapPage(at, v, page) ==
  LET pdpt == Enter([at EXCEPT !.page = Root], Index(v, 1))
      pdt  == Enter(pdpt, Index(v, 2))
      pt   == Enter(pdt, Index(v, 3))
  IN [pt EXCEPT !.mem[pt.page][Index(v, 4)] = Entry(page)]

\* The page that entry i of a table leads to.
Follow(page, i) == IF page = NoPage \/ ~mem[page][i].present THEN NoPage ELSE mem[page][i].page

\* The CPU's walk, on the path of get_pte: the page the first k entries lead
\* to, if they are present; the physical page of a virtual page.
Reached(v, k) ==
  LET pdpt == Follow(Root, Index(v, 1))
      pdt  == Follow(pdpt, Index(v, 2))
      pt   == Follow(pdt, Index(v, 3))
  IN CASE k = 1 -> pdpt [] k = 2 -> pdt [] k = 3 -> pt [] k = 4 -> Follow(pt, Index(v, 4))
Translate(v) == Reached(v, 4)

----------------------------------------------------------------------------
(* The boot loader                                                         *)

Init ==
  /\ phase = "efi_main"
  /\ mem = [p \in Pages |->
              IF p = Root THEN [ZeroPage EXCEPT ![0] = Entry(Identity)]
              ELSE [i \in 0..(Entries - 1) |-> Garbage]]
  /\ efi_map \in UNION FirmwareMaps
  /\ EfiMemoryMap = <<>> /\ EfiMemoryMapSize = 0 /\ room = 0
  /\ key_valid = FALSE /\ overrun = FALSE
  /\ mmap = <<>>
  /\ next_free_page = 0
  /\ memory_size = 0 /\ used_memory = 0 /\ reserved_memory = 0 /\ free_memory = 0
  /\ curr_brk = 0
  /\ halted = FALSE /\ lost = FALSE

Loads ==
  FoldLeft(LAMBDA loads, p : IF p.type = "PT_LOAD" THEN Append(loads, p) ELSE loads, <<>>, Phdrs)
PagesFor(words) == (words + Entries - 1) \div Entries

\* What is mapped is kept in a pool with as many entries as there are program
\* headers (and one byte, main.c:271).  The initrd's entry comes behind those of
\* the segments: it is inside the pool if one of the headers is no PT_LOAD.
ASSUME PoolAssumption == \E i \in DOMAIN Phdrs : Phdrs[i].type # "PT_LOAD"

\* What is mapped: the kernel's segments and, behind the last, the initrd.
KernelSegments ==
  [s \in DOMAIN Loads |->
     [virt |-> Loads[s].vaddr, phys |-> Allocated[s], pages |-> PagesFor(Loads[s].memsz)]]
InitrdVirt == Last(KernelSegments).virt + Last(KernelSegments).pages
SegmentsToMap ==
  Append(KernelSegments, [virt |-> InitrdVirt, phys |-> Last(Allocated),
                          pages |-> (InitrdSize - 1) \div Entries + 1])
FirstFreePage == InitrdVirt + PagesFor(InitrdSize)

\* The kernel has a segment, behind which the initrd and the break are.
ASSUME KernelAssumption == FirstFreePage \in Nat

\* The files are read into their pages: a segment is zero behind its part of
\* the file, the end of the initrd's last page is as it was.
LoadFiles ==
  /\ phase = "efi_main"
  /\ phase' = "loaded"
  /\ mem' = [p \in Pages |->
               LET s == SelectInSeq(KernelSegments, LAMBDA k : p \in k.phys..(k.phys + k.pages - 1))
               IN IF s = 0 THEN mem[p]
                  ELSE [i \in 0..(Entries - 1) |->
                          IF (p - Allocated[s]) * Entries + i < Loads[s].filesz THEN Garbage ELSE Zero]]
  /\ UNCHANGED <<efiVars, mmap, next_free_page, counters, curr_brk, halted, lost>>

\* The first call of GetMemoryMap says how large the map is; a buffer is
\* allocated with room for two descriptors more, of which the size the next
\* call gets knows nothing.
SizeMemoryMap ==
  /\ phase = "loaded"
  /\ phase' = "sized"
  /\ EfiMemoryMapSize' = Len(efi_map)
  /\ room' = Len(efi_map) + 2
  /\ UNCHANGED <<efi_map, EfiMemoryMap, key_valid, overrun, mem, mmap, next_free_page, counters, curr_brk, halted, lost>>

\* Events of the firmware, and the allocation of the buffer, change its map.
FirmwareChanges ==
  /\ phase \in {"sized", "mapped"} /\ ~halted /\ ~overrun
  /\ \E machine \in FirmwareMaps :
       efi_map \in machine /\ efi_map' \in machine \ {efi_map}
  /\ key_valid' = FALSE
  /\ UNCHANGED <<phase, EfiMemoryMap, EfiMemoryMapSize, room, overrun, mem, mmap, next_free_page, counters, curr_brk, halted, lost>>

\* One turn of the loop: a size that is too small is corrected for the next.
GetMemoryMap ==
  /\ phase = "sized"
  /\ EfiMemoryMapSize' = Len(efi_map)
  /\ \/ /\ EfiMemoryMapSize < Len(efi_map)
        /\ UNCHANGED <<phase, EfiMemoryMap, key_valid, overrun>>
     \/ /\ EfiMemoryMapSize >= Len(efi_map)
        /\ phase' = "mapped"
        /\ EfiMemoryMap' = efi_map
        /\ key_valid' = TRUE
        /\ overrun' = (Len(efi_map) > room)
  /\ UNCHANGED <<efi_map, room, mem, mmap, next_free_page, counters, curr_brk, halted, lost>>

ExitBootServicesUnchecked ==   \* mutant: the status is not looked at
  /\ phase = "mapped" /\ ~overrun
  /\ phase' = "exited"
  /\ UNCHANGED <<efiVars, mem, mmap, next_free_page, counters, curr_brk, halted, lost>>

\* The firmware refuses a key that is not valid; the boot loader does not try
\* again.
ExitBootServices ==
  /\ phase = "mapped" /\ ~halted /\ ~overrun
  /\ IF key_valid THEN phase' = "exited" /\ UNCHANGED halted
     ELSE halted' = TRUE /\ UNCHANGED phase
  /\ UNCHANGED <<efiVars, mem, mmap, next_free_page, counters, curr_brk, lost>>

\* Every page of every segment, in order.
PagesToMap ==
  FlattenSeq([s \in DOMAIN SegmentsToMap |->
    [j \in 1..SegmentsToMap[s].pages |->
       [virt |-> SegmentsToMap[s].virt + j - 1, phys |-> SegmentsToMap[s].phys + j - 1]]])

\* The pages the boot loader has got for tables and for what it loads.
BootPages == ToSet(FreePages) \cup {m.phys : m \in ToSet(PagesToMap)}

\* The firmware gives every page once, and none of its own tables; the kernel
\* is linked to virtual pages away from the firmware's, segment behind segment.
ASSUME LoaderAssumption ==
  /\ IsInjective(FreePages) /\ ToSet(FreePages) \cap {Root, Identity} = {}
  /\ Len(Allocated) = Len(Loads) + 1
  /\ PagesToMap \in Seq([virt : {v \in Virtual : Index(v, 1) # 0},
                         phys : Pages \ (ToSet(FreePages) \cup {Root, Identity})])
  /\ \A i, j \in DOMAIN PagesToMap :
       i # j => PagesToMap[i].virt # PagesToMap[j].virt /\ PagesToMap[i].phys # PagesToMap[j].phys

\* Its descriptors do not overlap, and do not call free what is in use.
ASSUME FirmwareAssumption ==
  \A map \in UNION FirmwareMaps :
    /\ map \in Seq([type : STRING, address : Nat, size : Nat \ {0}])
    /\ \A i, j \in DOMAIN map : i # j => Extent(map[i]) \cap Extent(map[j]) = {}
    /\ \A i \in DOMAIN map :
         map[i].type = "EfiConventionalMemory" =>
           Extent(map[i]) \subseteq Pages \ (BootPages \cup {Root, Identity})

\* Their entries, with tables from the pages given.
Mapped(pages) ==
  FoldLeft(LAMBDA at, m : MapPage(at, m.virt, m.phys), Start(pages), PagesToMap)

MapPages ==
  LET done == Mapped(FreePages)
  IN /\ phase = "exited"
     /\ phase' = "MapPages"
     /\ IF done.short THEN lost' = TRUE /\ UNCHANGED mem
        ELSE mem' = done.mem /\ UNCHANGED lost
     /\ UNCHANGED <<efiVars, mmap, next_free_page, counters, curr_brk, halted>>

HandOver ==
  /\ phase = "MapPages" /\ ~lost
  /\ phase' = "BuildMemoryMap"
  /\ mmap' = BuildMemoryMap(EfiMemoryMap)
  /\ UNCHANGED <<efiVars, mem, next_free_page, counters, curr_brk, halted, lost>>

----------------------------------------------------------------------------
(* The kernel starts                                                       *)

\* remap_physical_memory moves the firmware's entry 0.  What was the firmware's
\* is not looked at any more.
VmmPreinit ==
  /\ phase = "BuildMemoryMap"
  /\ phase' = "vmm_preinit"
  /\ mem' = [mem EXCEPT ![Root][PhysIndex] = mem[Root][0], ![Root][0] = Zero]
  /\ efi_map' = <<>> /\ EfiMemoryMap' = <<>> /\ EfiMemoryMapSize' = 0 /\ room' = 0 /\ key_valid' = FALSE
  /\ UNCHANGED <<overrun, mmap, next_free_page, counters, curr_brk, halted, lost>>

SizeOf(types) ==
  FoldLeft(LAMBDA n, e : IF e.type \in types THEN n + e.size ELSE n, 0, mmap)

FreedWithNull ==   \* mutant: page 0 is freed as well
  FlattenSeq([i \in DOMAIN mmap |->
    IF mmap[i].type = "MMAP_FREE" THEN [j \in 1..mmap[i].size |-> mmap[i].address + j - 1] ELSE <<>>])

\* The pages pmm_init frees, in its order: address 0 would end the list.
Freed ==
  FlattenSeq([i \in DOMAIN mmap |->
    IF mmap[i].type = "MMAP_FREE"
    THEN LET first == IF mmap[i].address = 0 THEN 1 ELSE mmap[i].address
         IN [j \in 1..(mmap[i].address + mmap[i].size - first) |-> first + j - 1]
    ELSE <<>>])

\* free_page writes the link into the page; used_memory counts free entries
\* before their pages are freed.
PmmInit ==
  /\ phase = "vmm_preinit"
  /\ phase' = "pmm_init"
  /\ mem' = [p \in Pages |->
               LET k == SelectInSeq(Freed, LAMBDA q : q = p)
               IN IF k = 0 THEN mem[p]
                  ELSE [mem[p] EXCEPT ![0] = Link(IF k = 1 THEN 0 ELSE Freed[k - 1])]]
  /\ next_free_page' = IF Freed = <<>> THEN 0 ELSE Last(Freed)
  /\ memory_size' = FoldLeft(LAMBDA n, e : n + e.size, 0, mmap)
  /\ used_memory' = SizeOf({"MMAP_FREE", "MMAP_LOADER"}) - Len(Freed)
  /\ reserved_memory' = memory_size' - SizeOf({"MMAP_FREE", "MMAP_LOADER"})
  /\ free_memory' = Len(Freed)
  /\ UNCHANGED <<efiVars, mmap, curr_brk, halted, lost>>

\* vmm_init.
VmmInit ==
  /\ phase = "pmm_init"
  /\ phase' = "kernel"
  /\ curr_brk' = FirstFreePage
  /\ UNCHANGED <<efiVars, mem, mmap, next_free_page, counters, halted, lost>>

----------------------------------------------------------------------------
(* The kernel runs                                                         *)

Running == phase = "kernel" /\ ~halted /\ ~lost

\* The links followed from next_free_page on.  (Links beyond the number of
\* pages would be a circle.)
Chain[k \in 1..(Cardinality(Pages) + 1)] ==
  IF k = 1 THEN next_free_page
  ELSE IF Chain[k - 1] = 0 THEN 0 ELSE mem[Chain[k - 1]][0].page

\* The pages allocate_page will return, in order.
FreeList == [k \in 1..Cardinality({j \in DOMAIN Chain : Chain[j] # 0}) |-> Chain[k]]

CountTakenTwice(n) ==   \* mutant: the page fault handler counts its page again
  used_memory' = used_memory + n + 1 /\ free_memory' = free_memory - n - 1

\* allocate_page, n times.
CountTaken(n) ==
  used_memory' = used_memory + n /\ free_memory' = free_memory - n

\* The addresses the handler serves: cr2 is v's start or lies behind it.
Served(v, start) == (v # 0 \/ ~start) /\ (v < curr_brk \/ (v = curr_brk /\ start))

\* page_fault_handler: the page first, then those for tables, and the new
\* page is cleared.  allocate_page does not look whether a page is left.
PageFault(v, start) ==
  LET done == MapPage(Start(SubSeq(FreeList, 2, Len(FreeList))), v, next_free_page)
  IN /\ Running
     /\ Translate(v) = NoPage
     /\ \/ /\ ~Served(v, start)
           /\ halted' = TRUE
           /\ UNCHANGED <<mem, next_free_page, counters, lost>>
        \/ /\ Served(v, start) /\ (next_free_page = 0 \/ done.short)
           /\ lost' = TRUE
           /\ UNCHANGED <<mem, next_free_page, counters, halted>>
        \/ /\ Served(v, start) /\ next_free_page # 0 /\ ~done.short
           /\ mem' = [done.mem EXCEPT ![next_free_page] = ZeroPage]
           /\ next_free_page' = IF done.supply = <<>> THEN 0 ELSE Head(done.supply)
           /\ CountTaken(Len(FreeList) - Len(done.supply))
           /\ UNCHANGED <<memory_size, reserved_memory, halted, lost>>
     /\ UNCHANGED <<phase, efiVars, mmap, curr_brk>>

\* A caller of vmm_alloc_region gets the next page.
VmmAllocRegion ==
  /\ Running
  /\ curr_brk < MaxBrk
  /\ curr_brk' = curr_brk + 1
  /\ UNCHANGED <<phase, efiVars, mem, mmap, next_free_page, counters, halted, lost>>

\* The kernel writes a word of a page.
Store(v, i, word) ==
  /\ Running
  /\ Translate(v) # NoPage
  /\ mem' = [mem EXCEPT ![Translate(v)][i] = word]
  /\ UNCHANGED <<phase, efiVars, mmap, next_free_page, counters, curr_brk, halted, lost>>

Next ==
  \/ LoadFiles \/ SizeMemoryMap \/ FirmwareChanges \/ GetMemoryMap \/ ExitBootServices
  \/ MapPages \/ HandOver \/ VmmPreinit \/ PmmInit \/ VmmInit
  \/ \E v \in Touched, start \in BOOLEAN : PageFault(v, start)
  \/ VmmAllocRegion
  \/ \E v \in Touched, word \in {Zero, Garbage} : Store(v, 0, word)

Spec == Init /\ [][Next]_vars

----------------------------------------------------------------------------
(* Properties                                                              *)

\* What a map says of each page.
PagesAndTypes(map) == UNION {{<<p, e.type>> : p \in Extent(e)} : e \in ToSet(map)}

\* The map the kernel gets is in order, without overlaps and without
\* neighbours that could be one entry, and says of each page what the
\* firmware's last map says, however that changed while the boot loader asked
\* for it: sorting and joining lose no page and invent none.
MapAgrees ==
  phase = "BuildMemoryMap" =>
    /\ \A i \in 1..(Len(mmap) - 1) :
         /\ mmap[i].address + mmap[i].size <= mmap[i + 1].address
         /\ ~Joins(mmap[i], mmap[i + 1])
    /\ PagesAndTypes(mmap) = PagesAndTypes(Translated(efi_map))

\* The entries in use of tables and what they lead to; the firmware's map of
\* physical memory is not looked into.
Slots(tables) ==
  {s \in tables \X (0..(Entries - 1)) : mem[s[1]][s[2]].present} \ {<<Root, PhysIndex>>}
Below(tables) == {mem[s[1]][s[2]].page : s \in Slots(tables)}

\* The tables, level by level, and all pages in use: tables and data.
Tables ==
  LET pdpts == Below({Root})
      pdts  == Below(pdpts)
  IN {Root} \cup pdpts \cup pdts \cup Below(pdts)
Taken == Below(Tables)

\* From pmm_init on.
Counting == phase \in {"pmm_init", "kernel"}

\* Words stay words of entries and links to pages, and no counter goes below zero.
TypeOK ==
  Counting =>
    /\ mem \in [Pages -> [0..(Entries - 1) -> [page : Pages, present : BOOLEAN]]]
    /\ next_free_page \in Pages
    /\ memory_size \in Nat /\ used_memory \in Nat /\ reserved_memory \in Nat /\ free_memory \in Nat
    /\ curr_brk \in Nat

\* Every page that was free at the start is used for one thing: it is once on
\* the free list, or one entry of one table leads to it.  So no page is two
\* tables, or a table and data, or the data of two virtual pages, and none
\* is free and in use; and no page is lost.
PagesApart ==
  Counting =>
    /\ \A s, t \in Slots(Tables) :
         mem[s[1]][s[2]].page = mem[t[1]][t[2]].page => s = t
    /\ IsInjective(FreeList) /\ Len(FreeList) <= Cardinality(Pages)
    /\ Taken \cap (ToSet(FreeList) \cup {Root, Identity}) = {}
    /\ ToSet(FreeList) \cap {Root, Identity} = {}
    /\ {p \in Pages \ {0} : <<p, "MMAP_FREE">> \in PagesAndTypes(mmap)}
         = (Taken \cup ToSet(FreeList)) \ BootPages

\* free_memory is what allocate_page can still give, and the three counters
\* share out the memory there is.
CountersAgree ==
  Counting =>
    /\ free_memory = Len(FreeList)
    /\ memory_size = used_memory + reserved_memory + free_memory
    /\ memory_size = Cardinality(PagesAndTypes(mmap))

\* The tables that are not there yet on the way to virtual pages: a table of
\* level k serves the pages that agree in their first k indices.
Missing(virt_pages) ==
  UNION {{<<k, Prefix(v, k)>> : v \in {w \in virt_pages : Reached(w, k) = NoPage}} : k \in 1..3}

\* Mapping takes a page for each table that is missing, once however many pages
\* it serves, and no other, from wherever it takes them: MapPages from any
\* number of reserved pages, the page fault handler from the free list, behind
\* the page it maps.  Neither counts them against what there is: they run out
\* exactly when there are fewer.
RunsShortExactly ==
  LET Takes(done, supply, missing) ==
        IF done.short THEN Len(supply) < missing
        ELSE done.supply = SubSeq(supply, missing + 1, Len(supply))
  IN /\ phase = "exited" =>
          \A n \in 0..Len(FreePages) :
            LET supply == SubSeq(FreePages, 1, n)
            IN Takes(Mapped(supply), supply, Cardinality(Missing({m.virt : m \in ToSet(PagesToMap)})))
     /\ Running /\ FreeList # <<>> =>
          \A v \in {w \in Touched : Translate(w) = NoPage} :
            LET supply == Tail(FreeList)
            IN Takes(MapPage(Start(supply), v, next_free_page), supply, Cardinality(Missing({v})))

\* The kernel sees pages with contents of their own, which only its stores
\* change: no page fault disturbs what is mapped, and no store reaches a page
\* table, the free list or another page.
Contents ==
  [v \in Touched |-> IF phase # "kernel" \/ Translate(v) = NoPage THEN <<>> ELSE mem[Translate(v)]]
AS == INSTANCE AddressSpace WITH
        Places <- Touched, Zeroed <- ZeroPage, Nothing <- <<>>, at <- Contents
AddressSpaceSpec == AS!ASpec

============================================================================
