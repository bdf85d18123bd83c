---------------------------------- MODULE Acpi --------------------------------
(***************************************************************************)
(* The processors of the machine, as the kernel reads them twice from the  *)
(* firmware's tables: smp_init (kernel/smp.c) at boot, for cpuinfo, and    *)
(* acpi_init with acpi_walk_madt (kernel/acpi.c) in the command acpi.      *)
(*                                                                         *)
(* A MADT is a sequence of bytes, those behind its header and its first    *)
(* two fields; other tables have a signature only.  What lies behind a     *)
(* table in memory reads as zeros.                                         *)
(***************************************************************************)
EXTENDS Integers, Sequences, FiniteSets, FiniteSetsExt

CONSTANTS
    Computers,      \* what firmware may offer: [roots, madt, heads, cut]
    MAX_TABLES, MAX_CPUS, ACPI_MAX_LAPIC, ACPI_MAX_IOAPIC

VARIABLES
    computer,       \* the machine at hand
    smp,            \* smp.c: apic_ids, num_cpus, found_acpi; done
    acpi            \* what the last command acpi has shown

acpiVars == <<computer, smp, acpi>>

----------------------------------------------------------------------------
(* The firmware (external).  A computer has its RSD PTR structures in the  *)
(* order of their addresses, each with its checksum right or not, its      *)
(* revision, and the signatures that its XSDT and its RSDT lead to; the    *)
(* bytes of its MADT, before which of them its entries begin and the last  *)
(* one ends, and how many bytes its length leaves out.                     *)
ZeroBytes(n) == [i \in 1..n |-> 0]
Lapic(id, enabled) == <<0, 8, 0, id, IF enabled THEN 1 ELSE 0, 0, 0, 0>>
IoApic(id) == <<1, 12, id>> \o ZeroBytes(9)
MadtBytes(c) == SubSeq(c.madt, 1, Len(c.madt) - c.cut)
ByteAt(b, p) == IF p < Len(b) THEN b[p + 1] ELSE 0

\* An entry is as long as its second byte says, that of a processor long enough for
\* what it tells; bytes are left out of the last one only.
Rsdp == [sum_ok : BOOLEAN, revision : Nat, xsdt : Seq(STRING), rsdt : Seq(STRING)]
ASSUME AcpiAssumption ==
    /\ MAX_TABLES \in Nat /\ MAX_CPUS \in Nat /\ ACPI_MAX_LAPIC \in Nat
    /\ \A c \in Computers :
          LET last == Len(c.heads) - 1
          IN  /\ c.roots \in Seq(Rsdp) /\ c.madt \in Seq(0..255) /\ c.heads \in Seq(Nat)
              /\ last \in Nat /\ c.heads[1] = 0 /\ c.heads[last + 1] = Len(c.madt)
              /\ \A k \in 1..last :
                    /\ c.heads[k] + 2 <= c.heads[k + 1] /\ c.madt[c.heads[k] + 2] = c.heads[k + 1] - c.heads[k]
                    /\ c.madt[c.heads[k] + 1] = 0 => c.heads[k] + 8 <= c.heads[k + 1]
              /\ c.cut = 0 \/ (last > 0 /\ c.cut \in 0..Len(c.madt) - c.heads[last])

\* The least numbers of a set, up to most of them, in their order.
InOrder(S, most) ==
    [n \in 1..Min({Cardinality(S), most}) |-> CHOOSE i \in S : Cardinality({j \in S : j <= i}) = n]

\* The tables that the root leads to: the XSDT's from revision 2 on, if it has one.
RootTables(root) == IF root.revision >= 2 /\ root.xsdt # <<>> THEN root.xsdt ELSE root.rsdt

\* Where a loop over size bytes is in each of its turns.
LoopAt(size, next) == LET at[n \in 1..size + 1] == IF n = 1 THEN 0 ELSE next[at[n - 1]] IN at

----------------------------------------------------------------------------
(* smp.c                                                                   *)

\* Mutant of Stride: each entry is taken for as long as one of a local APIC.
StrideOfCpu(b, p) == 8
Stride(b, p) == ByteAt(b, p + 1)

\* parse_madt: where the loop ends, and where it goes on; it stays at its end.
ParseEnds(b, p) == p >= Len(b) \/ ByteAt(b, p + 1) = 0
ParseNext(b) == [p \in 0..Len(b) + 254 |-> IF ParseEnds(b, p) THEN p ELSE p + Stride(b, p)]

\* parse_madt: the identifiers of the processors that are enabled.
ParseMadt(b) ==
    LET at == LoopAt(Len(b), ParseNext(b))
        on == InOrder({n \in DOMAIN at : /\ ~ParseEnds(b, at[n])
                                         /\ ByteAt(b, at[n]) = 0 /\ ByteAt(b, at[n] + 4) % 2 = 1}, MAX_CPUS)
    IN  [i \in DOMAIN on |-> ByteAt(b, at[on[i]] + 3)]

\* smp_init: the first structure with the signature, the first table with APIC.
SmpInit ==
    /\ ~smp.done
    /\ LET roots == computer.roots
           found == roots # <<>> /\ \E i \in DOMAIN RootTables(roots[1]) : RootTables(roots[1])[i] = "APIC"
           ids   == IF found THEN ParseMadt(MadtBytes(computer)) ELSE <<>>
       IN  smp' = [done |-> TRUE, found_acpi |-> roots # <<>>, ids |-> ids, num_cpus |-> Max({Len(ids), 1})]
    /\ UNCHANGED <<computer, acpi>>

----------------------------------------------------------------------------
(* acpi.c                                                                  *)

\* acpi_find_rsdp: the first structure whose checksum is right; here all of them.
RightSums == {i \in DOMAIN computer.roots : computer.roots[i].sum_ok}

\* acpi_walk_madt: its loop ends at an entry that is shorter than its head or leads
\* out of the table.
WalkEnds(b, p) == p + 2 > Len(b) \/ ByteAt(b, p + 1) < 2 \/ p + ByteAt(b, p + 1) > Len(b)
WalkNext(b) == [p \in 0..Len(b) |-> IF WalkEnds(b, p) THEN p ELSE p + ByteAt(b, p + 1)]

\* acpi_walk_madt: local APICs with their flag, and IO APICs, each list up to its limit.
WalkMadt(b) ==
    LET at == LoopAt(Len(b), WalkNext(b))
        Of(type, size) == {n \in DOMAIN at : /\ ~WalkEnds(b, at[n])
                                             /\ ByteAt(b, at[n]) = type /\ ByteAt(b, at[n] + 1) >= size}
        cpus == InOrder(Of(0, 8), ACPI_MAX_LAPIC)
        ios  == InOrder(Of(1, 12), ACPI_MAX_IOAPIC)
    IN  [lapics  |-> [i \in DOMAIN cpus |-> [id |-> ByteAt(b, at[cpus[i]] + 3),
                                             enabled |-> ByteAt(b, at[cpus[i]] + 4) % 2 = 1]],
         ioapics |-> [i \in DOMAIN ios |-> ByteAt(b, at[ios[i]] + 2)]]

NotShown == [kind |-> "none"]

\* The command acpi: acpi_init fills the table list anew, up to MAX_TABLES.
CmdAcpi ==
    /\ smp.done
    /\ LET tables == RootTables(computer.roots[Min(RightSums)])
           listed == {tables[i] : i \in {j \in DOMAIN tables : j <= MAX_TABLES}}
       IN  acpi' = IF RightSums = {} \/ listed = {} THEN [kind |-> "no RSDP"]
                   ELSE IF "APIC" \in listed THEN [kind |-> "MADT", walk |-> WalkMadt(MadtBytes(computer))]
                   ELSE [kind |-> "no MADT"]
    /\ UNCHANGED <<computer, smp>>

AcpiInit ==
    /\ computer \in Computers
    /\ smp = [done |-> FALSE, found_acpi |-> FALSE, ids |-> <<>>, num_cpus |-> 0]
    /\ acpi = NotShown
AcpiNext == SmpInit \/ CmdAcpi
AcpiSpec == AcpiInit /\ [][AcpiNext]_acpiVars

----------------------------------------------------------------------------
\* Both readers tell the processors that the firmware lists, in its order, up to
\* their own limits: cpuinfo those that are enabled (one, if there is no list),
\* acpi all of them.  They disagree only where a checksum is wrong, where the table
\* is behind MAX_TABLES others, and about the entry that is cut off.
CpuEntries(c) == {k \in 1..Len(c.heads) - 1 : c.madt[c.heads[k] + 1] = 0}
IdOf(c, k) == c.madt[c.heads[k] + 4]
EnabledAt(c, k) == c.madt[c.heads[k] + 5] % 2 = 1
Told(c, k) == [id |-> IdOf(c, k), enabled |-> EnabledAt(c, k)]
CpusAgree ==
    LET c      == computer
        roots  == computer.roots
        cpus   == CpuEntries(c)
        usable == InOrder({k \in cpus : EnabledAt(c, k)}, MAX_CPUS)
        lists  == roots # <<>> /\ \E i \in DOMAIN RootTables(roots[1]) : RootTables(roots[1])[i] = "APIC"
    IN  /\ smp.done /\ c.cut = 0 =>
             /\ smp.ids = IF lists THEN [i \in DOMAIN usable |-> IdOf(c, usable[i])] ELSE <<>>
             /\ smp.num_cpus = IF lists THEN Max({1, Len(usable)}) ELSE 1
        /\ acpi.kind = "MADT" =>
             LET whole  == InOrder(IF c.cut = 0 THEN cpus ELSE cpus \ {Len(c.heads) - 1}, ACPI_MAX_LAPIC)
                 lapics == acpi.walk.lapics
                 on     == InOrder({i \in DOMAIN lapics : lapics[i].enabled}, MAX_CPUS)
             IN  /\ lapics = [i \in DOMAIN whole |-> Told(c, whole[i])]
                 /\ (roots[1].sum_ok /\ c.cut = 0 /\ Cardinality(cpus) <= ACPI_MAX_LAPIC) =>
                      smp.ids = [i \in DOMAIN on |-> lapics[on[i]].id]
        /\ (acpi.kind = "no MADT" /\ roots[1].sum_ok /\ Len(RootTables(roots[1])) <= MAX_TABLES) =>
             smp.ids = <<>>
=============================================================================
