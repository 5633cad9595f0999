------------------------------ MODULE MCPaging ------------------------------
(***************************************************************************)
(* Paging for TLC: a kernel of one segment of two pages from virtual page  *)
(* 192 on (the first of the last entry of a top table of four), an initrd  *)
(* of one page, 16 physical pages, and two machines, of which the firmware *)
(* of one changes its map.                                                 *)
(***************************************************************************)
EXTENDS Paging

Descriptor(type, address, size) == [type |-> type, address |-> address, size |-> size]
Phdr(type, vaddr, filesz, memsz) == [type |-> type, vaddr |-> vaddr, filesz |-> filesz, memsz |-> memsz]

Headers == <<Phdr("PT_NOTE", 192, 2, 2), Phdr("PT_LOAD", 192, 3, 6)>>
LoadedAt == <<6, 8>>
Reserved == <<3, 4, 5>>

\* In order, with neighbours of one type, and page 0 free.
Ordered ==
  <<Descriptor("EfiConventionalMemory", 0, 1),
    Descriptor("EfiBootServicesData", 1, 2),
    Descriptor("EfiLoaderData", 3, 3),
    Descriptor("EfiLoaderCode", 6, 3),
    Descriptor("EfiConventionalMemory", 9, 3),
    Descriptor("EfiConventionalMemory", 12, 3),
    Descriptor("EfiRuntimeServicesData", 15, 1)>>

\* The same memory in more descriptors, and with a page taken by an event.
Crowded ==
  <<Descriptor("EfiConventionalMemory", 0, 1),
    Descriptor("EfiBootServicesData", 1, 2),
    Descriptor("EfiLoaderData", 3, 1),
    Descriptor("EfiLoaderData", 4, 1),
    Descriptor("EfiLoaderData", 5, 1),
    Descriptor("EfiLoaderCode", 6, 2),
    Descriptor("EfiLoaderCode", 8, 1),
    Descriptor("EfiConventionalMemory", 9, 3),
    Descriptor("EfiConventionalMemory", 12, 3),
    Descriptor("EfiRuntimeServicesData", 15, 1)>>
Busy ==
  <<Descriptor("EfiConventionalMemory", 0, 1),
    Descriptor("EfiBootServicesData", 1, 2),
    Descriptor("EfiLoaderData", 3, 3),
    Descriptor("EfiLoaderCode", 6, 3),
    Descriptor("EfiConventionalMemory", 9, 3),
    Descriptor("EfiBootServicesData", 12, 1),
    Descriptor("EfiConventionalMemory", 13, 2),
    Descriptor("EfiRuntimeServicesData", 15, 1)>>

\* Out of order, with a hole at page 11.
Scattered ==
  <<Descriptor("EfiConventionalMemory", 12, 2),
    Descriptor("EfiLoaderData", 1, 8),
    Descriptor("EfiACPIReclaimMemory", 14, 1),
    Descriptor("EfiConventionalMemory", 9, 2),
    Descriptor("EfiConventionalMemory", 0, 1)>>

Maps == {{Ordered, Crowded, Busy}, {Scattered}}

============================================================================
