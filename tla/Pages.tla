-------------------------------- MODULE Pages --------------------------------
(***************************************************************************)
(* The page allocator of kernel/pmm.c and the memory map that it may be    *)
(* given at boot (kernel/memmap.c).                                        *)
(*                                                                         *)
(* Callers free the pages they got, once.  Addresses stay below the width *)
(* of the page numbers (uint32_t); entries of the map may overlap and need *)
(* not begin or end with a page.                                           *)
(***************************************************************************)
EXTENDS Integers, Sequences, FiniteSets

CONSTANTS
    PAGE_SIZE, PMM_MEM_START, PMM_MEM_END,  \* PMM_MEM_END_DEFAULT
    MEMMAP_MAX_ENTRIES,
    Firmware        \* what firmware may report: [source, table], the table a
                    \* sequence of [base, length, type]

Descriptor == [base : Nat, length : Nat, type : Nat]

ASSUME PagesAssumption ==
    /\ PAGE_SIZE \in Nat \ {0} /\ PMM_MEM_START \in Nat /\ MEMMAP_MAX_ENTRIES \in Nat
    /\ \A f \in Firmware : f.table \in Seq(Descriptor)
    /\ PMM_MEM_END \in Nat /\ PMM_MEM_END > PMM_MEM_START

VARIABLES
    entries,        \* g_mm.entries, whose order does not matter
    busy,           \* the bits that are set in the bitmap
    total,          \* g_total_pages
    used_count,
    stage,          \* boot: "init", "read"; then "plain", or "mapped" with the map applied
    owned           \* the pages that callers have

pagesVars == <<entries, busy, total, used_count, stage, owned>>

Lower(a, b) == IF a < b THEN a ELSE b
AllPages == (PMM_MEM_END - PMM_MEM_START) \div PAGE_SIZE

----------------------------------------------------------------------------
(* memmap.c                                                                *)

\* e820_kind and uefi_kind; Bootstrap is BOOT_CODE or BOOT_DATA.
Kind(source, type) ==
    IF source = "e820"
    THEN CASE type = 1 -> "usable"  [] type = 3 -> "reclaim" [] type = 4 -> "nvs"
           [] type = 5 -> "bad"     [] OTHER -> "reserved"
    ELSE CASE type \in {1, 2, 7} -> "usable" [] type \in {3, 4} -> "bootstrap"
           [] type = 9 -> "reclaim" [] type = 10 -> "nvs" [] type = 8 -> "bad" [] OTHER -> "reserved"

\* memmap_init_from_e820 and memmap_init_from_uefi: the first MEMMAP_MAX_ENTRIES
\* that firmware reports, without the empty ones.
Converted(f) ==
    {[base |-> d.base, length |-> d.length, kind |-> Kind(f.source, d.type)] :
        d \in {f.table[i] : i \in {j \in 1..Lower(Len(f.table), MEMMAP_MAX_ENTRIES) : f.table[j].length > 0}}}

Entries(kinds) == {e \in entries : e.kind \in kinds}

\* recompute_totals: highest_usable is the largest of these, 0 if there is no entry.
UsableTops == {e.base + e.length : e \in Entries({"usable"})} \cup {0}

----------------------------------------------------------------------------
(* pmm.c                                                                   *)

\* Mutant of FirstPage: an entry begins with the first page that is whole.
FirstPageUp(base) == (base - PMM_MEM_START + PAGE_SIZE - 1) \div PAGE_SIZE

FirstPage(base) == (base - PMM_MEM_START) \div PAGE_SIZE

\* The pages that mark_range goes over.
RangePages(e, limit) ==
    LET base == IF e.base < PMM_MEM_START THEN PMM_MEM_START ELSE e.base
        top  == e.base + e.length
        last == (top - PMM_MEM_START + PAGE_SIZE - 1) \div PAGE_SIZE
    IN  IF top <= PMM_MEM_START THEN {}
        ELSE FirstPage(base)..Lower(last, limit) - 1

PagesOf(kinds, limit) == UNION {RangePages(e, limit) : e \in Entries(kinds)}

Withheld == {"reserved", "nvs", "bad"}

PagesInit ==
    /\ entries = {}
    /\ busy = {} /\ total = AllPages /\ used_count = 0      \* pmm_init
    /\ stage = "init"
    /\ owned = {}

ReadMap(f) ==
    /\ stage = "init"
    /\ f.table # <<>>
    /\ entries' = Converted(f)
    /\ stage' = "read"
    /\ UNCHANGED <<busy, total, used_count, owned>>

\* pmm_apply_memmap: all pages are busy but the usable ones, and of those the ones
\* that an entry of another kind reaches; ACPI_RECLAIM and the bootstrap's do not
\* count.  Page 0 is never given out.
ApplyMap(highest_usable) ==
    LET end   == IF highest_usable # 0 /\ highest_usable < PMM_MEM_END THEN highest_usable ELSE PMM_MEM_END
        limit == (end - PMM_MEM_START) \div PAGE_SIZE
        free  == PagesOf({"usable"}, limit)
        bits  == (((0..limit - 1) \ free) \cup PagesOf(Withheld, limit)) \cup (IF limit > 0 THEN {0} ELSE {})
    IN  /\ stage = "read"
        /\ \A top \in UsableTops : top <= highest_usable
        /\ IF end <= PMM_MEM_START
           THEN stage' = "plain" /\ UNCHANGED <<busy, total, used_count>>
           ELSE stage' = "mapped" /\ total' = limit /\ busy' = bits /\ used_count' = Cardinality(bits)
        /\ UNCHANGED <<entries, owned>>

\* The kernel goes on without a map.
Boot ==
    /\ stage \in {"init", "read"}
    /\ stage' = "plain"
    /\ UNCHANGED <<entries, busy, total, used_count, owned>>

\* pmm_alloc_page gives the lowest page that is not busy.
AllocPage(p) ==
    /\ stage \in {"plain", "mapped"} /\ p < total
    /\ p \notin busy /\ \A q \in 0..p - 1 : q \in busy
    /\ busy' = busy \cup {p}
    /\ used_count' = used_count + 1
    /\ owned' = owned \cup {p}
    /\ UNCHANGED <<entries, total, stage>>

FreePage(p) ==
    /\ p \in owned
    /\ owned' = owned \ {p}
    /\ IF p < total /\ p \in busy
       THEN busy' = busy \ {p} /\ used_count' = IF used_count > 0 THEN used_count - 1 ELSE 0
       ELSE UNCHANGED <<busy, used_count>>
    /\ UNCHANGED <<entries, total, stage>>

PagesNext ==
    \/ \E f \in Firmware : ReadMap(f)
    \/ \E top \in UsableTops : ApplyMap(top)
    \/ Boot
    \/ \E p \in 0..AllPages - 1 : AllocPage(p) \/ FreePage(p)

PagesSpec == PagesInit /\ [][PagesNext]_pagesVars

----------------------------------------------------------------------------
Bytes(p) == PMM_MEM_START + p * PAGE_SIZE .. PMM_MEM_START + (p + 1) * PAGE_SIZE - 1
Touches(p, kinds) == \E e \in Entries(kinds) : Bytes(p) \cap (e.base..e.base + e.length - 1) # {}

\* Pages in use are marked, so that no page is given out twice, and counted; and
\* once the map is applied no caller has a page with a byte that firmware keeps,
\* however the entries overlap and wherever in a page they begin and end.
PagesSafe ==
    /\ owned \subseteq busy
    /\ used_count = Cardinality(busy)
    /\ stage = "mapped" => \A p \in owned : Touches(p, {"usable"}) /\ ~Touches(p, Withheld)
=============================================================================
