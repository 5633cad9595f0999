----------------------------- MODULE MemoryMap ------------------------------
(***************************************************************************)
(* BuildMemoryMap of bootloader/main.c: from the descriptors of the        *)
(* firmware, in any order, to the map the kernel gets.  Addresses and      *)
(* sizes are in pages.                                                     *)
(***************************************************************************)
EXTENDS Integers, Sequences, SequencesExt

\* The types of the firmware as the kernel knows them.
MmapType(type) ==
  CASE type \in {"EfiReservedMemoryType", "EfiUnusableMemory", "EfiACPIMemoryNVS", "EfiPalCode"}
         -> "MMAP_RESERVED"
    [] type \in {"EfiBootServicesCode", "EfiBootServicesData", "EfiLoaderCode", "EfiLoaderData"}
         -> "MMAP_LOADER"
    [] type = "EfiConventionalMemory" -> "MMAP_FREE"
    [] type = "EfiACPIReclaimMemory" -> "MMAP_ACPI"
    [] type \in {"EfiRuntimeServicesCode", "EfiRuntimeServicesData"} -> "MMAP_UEFI_RUNTIME"
    [] type \in {"EfiMemoryMappedIO", "EfiMemoryMappedIOPortSpace"} -> "MMAP_MMIO"
    [] OTHER -> "MMAP_OTHER"

Translated(efi) ==
  [i \in DOMAIN efi |->
     [address |-> efi[i].address, size |-> efi[i].size, type |-> MmapType(efi[i].type)]]

\* The bubble sort, as many passes as there are entries.  (The code ends it after
\* a pass that swaps nothing: those behind it would not either.)
Compared(mmap, i) ==
  IF mmap[i].address > mmap[i + 1].address
  THEN [mmap EXCEPT ![i] = mmap[i + 1], ![i + 1] = mmap[i]] ELSE mmap
Pass(mmap) == FoldLeft(Compared, mmap, [i \in 1..(Len(mmap) - 1) |-> i])
Sorted(mmap) == FoldLeft(LAMBDA passed, x : Pass(passed), mmap, mmap)

Joins(e, f) == e.type = f.type /\ e.address + e.size = f.address

\* The loop that combines an entry with those behind it.
Joined(done, e) ==
  IF done # <<>> /\ Joins(Last(done), e)
  THEN Append(Front(done), [Last(done) EXCEPT !.size = @ + e.size])
  ELSE Append(done, e)
Combined(mmap) == FoldLeft(Joined, <<>>, mmap)

BuildMemoryMap(efi) == Combined(Sorted(Translated(efi)))

\* The pages of an entry.
Extent(e) == e.address..(e.address + e.size - 1)

============================================================================
