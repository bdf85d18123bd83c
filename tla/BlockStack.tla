----------------------------- MODULE BlockStack -----------------------------
(***************************************************************************)
(* Storage from block_read and block_write down to the controllers: the    *)
(* device table (kernel/block.c), partition windows (parttab.c), the       *)
(* 512-byte view of a 4096-byte NVMe disk (lba_xlate.c), the queue pair of *)
(* nvme.c and command slot 0 of ahci.c.                                    *)
(*                                                                         *)
(* A disk's content is counted in 512-byte sectors; a sector holds one     *)
(* abstract value.  Device and window indices start from 0 as in the code. *)
(* Callers' buffers do not cross a page (nvme_rw leaves PRP2 zero for a    *)
(* transfer of up to a page wherever its buffer starts).                   *)
(***************************************************************************)
EXTENDS Integers, Sequences, FiniteSets

CONSTANTS
    Machines,      \* the machines probed: sets of "sata", "nvme512", "nvme4k"
    Ratio,         \* BOUNCE_BYTES / FS_LBA_BYTES
    Sectors,       \* 512-byte sectors of a disk
    SectorData,    \* what a sector may hold
    Patterns,      \* the sequences of data that callers write
    Counts,        \* the numbers of sectors that they read
    QDepth,        \* IOQ_DEPTH
    MaxPrd,        \* the count that one AHCI command may carry
    MaxDevices,    \* BLOCK_MAX_DEVICES
    Table,         \* the partitions on the disks: entries [in_use, start, length]
    MaxParts       \* PARTTAB_MAX

\* lba_xlate.c serves one device, the first ("single-device for now"): a disk with
\* 4096-byte blocks is alone.  Nobody asks for no sectors.
ASSUME StorageAssumption ==
    /\ \A machine \in Machines : /\ machine \subseteq {"sata", "nvme512", "nvme4k"}
                                 /\ "nvme4k" \in machine => machine = {"nvme4k"}
    /\ Ratio \in Nat \ {0} /\ Sectors \in Nat /\ SectorData # {}
    /\ Patterns \subseteq Seq(SectorData) \ {<<>>} /\ Counts \subseteq Nat \ {0}
    /\ QDepth \in Nat \ {0, 1} /\ MaxPrd \in Nat /\ MaxDevices \in Nat /\ MaxParts \in Nat
    /\ Table \in Seq([in_use : BOOLEAN, start : Nat, length : Nat])

VARIABLES
    devs,          \* g_devs: what block_get finds
    slots,         \* lba_xlate.c: the owner and native size of each slot in use
    windows,       \* g_windows
    platter,       \* what is on the disks
    bounce,        \* g_bounce of the slot in use
    call,          \* the call at work, with its loop variables
    answer,        \* what the last call returned
    nvme,          \* rings and indices of both sides of the I/O queue pair
    sata,          \* command slot 0: header and table, PORT_CI, the error bit
    late           \* the sectors of a command that the driver has given up

storageVars == <<devs, slots, windows, platter, bounce, call, answer, nvme, sata, late>>

Disks  == {"sata", "nvme512", "nvme4k"}
Zero   == CHOOSE v \in SectorData : TRUE
Unit(disk) == IF disk = "nvme4k" THEN Ratio ELSE 1      \* sectors in a native block

\* A call with no work.
NoCall == [pc |-> "idle", io |-> "none", op |-> "none", dev |-> 0, lba |-> 0, count |-> 0,
           buf |-> <<>>, done |-> 0]

\* A command: count native blocks of disk from lba on, moved to or from the
\* caller's buffer or the bounce buffer; "gone" is a buffer whose call has ended.
NoCmd == [op |-> "none", disk |-> "sata", lba |-> 0, count |-> 0, mem |-> "caller"]

NoAnswer == [ok |-> FALSE, at |-> <<>>, data |-> <<>>]

----------------------------------------------------------------------------
(* The device table.                                                       *)

\* The capacity that IDENTIFY reports: 0 when it fails, and the disk is used all the same.
Capacities == {0, Sectors}

\* register_ahci_port and register_nvme_ns1.
Device(disk, total) == [disk |-> disk, view |-> "native", lbs |-> Unit(disk), total |-> total \div Unit(disk)]

\* What block_probe may register: a controller that is not found, a port that does not
\* stop or an admin command that fails leaves its disk out.
AhciProbe(machine) ==
    {<<>>} \cup {<<Device(d, n)>> : d \in machine \cap {"sata"}, n \in Capacities}
NvmeProbe(machine) ==
    {<<>>} \cup {<<Device(d, Sectors)>> : d \in machine \ {"sata"}}

\* lba_xlate_register: called for the last device if its blocks are not 512 bytes.
Registered(table) ==
    [i \in DOMAIN table |->
        IF table[i].lbs = 1 THEN table[i]
        ELSE [table[i] EXCEPT !.view = "xlate", !.lbs = 1, !.total = @ * Ratio]]

BlockGet(idx) == devs[idx + 1]

\* slot_for: the slot of a device, or a new one with that device's block size.
SlotOwners == {slots[i].owner : i \in DOMAIN slots}
SlotFor(idx) ==
    IF idx \in SlotOwners THEN slots
    ELSE Append(slots, [owner |-> idx, native |-> BlockGet(idx).lbs])
NativeOf(slotted, idx) == (CHOOSE s \in {slotted[i] : i \in DOMAIN slotted} : s.owner = idx).native

\* parse_gpt and parse_mbr: the first PARTTAB_MAX of the entries in use.
Partitions ==
    LET used == {i \in DOMAIN Table : Table[i].in_use /\ Table[i].length > 0}
    IN  {Table[i] : i \in {j \in used : Cardinality(used \cap 1..j) <= MaxParts}}

----------------------------------------------------------------------------
\* block_probe: SATA first; the slot that lba_xlate_register takes.
StorageInit ==
    \E machine \in Machines : \E sataDisk \in AhciProbe(machine), nvmeDisk \in NvmeProbe(machine) :
        LET table == sataDisk \o nvmeDisk
        IN  /\ devs = Registered(table)
            /\ slots = IF \E i \in DOMAIN table : table[i].lbs # 1
                       THEN <<[owner |-> Len(table) - 1, native |-> Ratio]>> ELSE <<>>
            /\ windows = <<>>
            /\ platter = [d \in machine |-> [s \in 0..Sectors - 1 |-> Zero]]
            /\ bounce = [s \in 0..Ratio - 1 |-> Zero]
            /\ call = NoCall
            /\ answer = NoAnswer
            /\ nvme = [sq |-> [i \in 0..QDepth - 1 |-> NoCmd], tail |-> 0,       \* driver
                       head |-> 0, phase |-> 1,
                       cq |-> [i \in 0..QDepth - 1 |-> [phase |-> 0, ok |-> TRUE]], \* memory
                       fetch |-> 0, post |-> 0, mark |-> 1]                       \* device
            /\ sata = [cmd |-> NoCmd, ci |-> FALSE, err |-> FALSE]
            /\ late = {}

\* parttab_register_partition, for an entry of the table found by parttab_probe.  The
\* window stays taken when the device table is full.
RegisterPartition(parent, e) ==
    /\ call.pc = "idle"
    /\ Len(windows) < MaxParts
    /\ windows' = Append(windows, [parent |-> parent, start |-> e.start, length |-> e.length])
    /\ devs' = IF Len(devs) >= MaxDevices THEN devs
               ELSE Append(devs, [disk |-> BlockGet(parent).disk, view |-> "window", lbs |-> 1,
                                  total |-> e.length, wi |-> Len(windows)])
    /\ UNCHANGED <<slots, platter, bounce, call, answer, nvme, sata, late>>

\* block_read and block_write, as far as the device's thunk.  Callers stop using
\* the disks when a command has timed out: its completion would be taken for
\* that of the next one.
BlockCall(idx, op, lba, buf) ==
    /\ call.pc = "idle" /\ late = {}
    /\ call' = [NoCall EXCEPT !.pc = "thunk", !.op = op, !.dev = idx, !.lba = lba,
                              !.count = Len(buf), !.buf = buf]
    /\ answer' = NoAnswer
    /\ UNCHANGED <<devs, slots, windows, platter, bounce, nvme, sata, late>>

\* A call ends.
Here == <<BlockGet(call.dev).disk, call.lba>>
Span(at, n) == {<<at[1], at[2] + i>> : i \in 0..n - 1}
Return(ok) ==
    /\ call' = NoCall
    /\ answer' = [ok |-> ok, at |-> Here, data |-> call.buf]

\* win_read and win_write.
Window ==
    LET w == windows[BlockGet(call.dev).wi + 1]
    IN  /\ call.pc = "thunk"
        /\ BlockGet(call.dev).view = "window"
        /\ \/ /\ call.lba + call.count > w.length
              /\ Return(FALSE)
           \/ /\ call.lba + call.count <= w.length
              /\ call' = [call EXCEPT !.dev = w.parent, !.lba = w.start + @]
              /\ UNCHANGED answer
        /\ UNCHANGED <<devs, slots, windows, platter, bounce, nvme, sata, late>>

----------------------------------------------------------------------------
(* Commands and the driver's loops.                                        *)

Command(op, lba, count, mem) ==
    [op |-> op, disk |-> BlockGet(call.dev).disk, lba |-> lba, count |-> count, mem |-> mem]

\* io_submit up to its loop; for SATA the slot is filled and PORT_CI written.
Submit(cmd, pc) ==
    /\ call' = [call EXCEPT !.pc = pc, !.io = "busy"]
    /\ IF cmd.disk = "sata"
       THEN sata' = [sata EXCEPT !.cmd = cmd, !.ci = TRUE] /\ UNCHANGED nvme
       ELSE nvme' = [nvme EXCEPT !.sq[nvme.tail] = cmd, !.tail = (@ + 1) % QDepth] /\ UNCHANGED sata

\* A transfer of the whole call: the thunks, ahci_port_read, port_rw, nvme_rw.
Native ==
    /\ call.pc = "thunk"
    /\ BlockGet(call.dev).view = "native"
    /\ IF BlockGet(call.dev).disk = "sata" /\ call.count > MaxPrd
       THEN Return(FALSE) /\ UNCHANGED <<nvme, sata>>
       ELSE Submit(Command(call.op, call.lba, call.count, "caller"), "whole") /\ UNCHANGED answer
    /\ UNCHANGED <<devs, slots, windows, platter, bounce, late>>

\* xlate_read and xlate_write: the slot, then the fast path or the loop.  The slot
\* is looked up by bd->transport, which is NULL for NVMe: for device 0.
Xlate ==
    LET ratio == NativeOf(SlotFor(0), 0)
    IN  /\ call.pc = "thunk"
        /\ BlockGet(call.dev).view = "xlate"
        /\ slots' = SlotFor(0)
        /\ IF call.lba % ratio = 0 /\ call.count % ratio = 0
           THEN Submit(Command(call.op, call.lba \div ratio, call.count \div ratio, "caller"), "whole")
           ELSE call' = [call EXCEPT !.pc = "slice"] /\ UNCHANGED <<nvme, sata>>
        /\ UNCHANGED <<devs, windows, platter, bounce, answer, late>>

FsLba == call.lba + call.done
NativeLba == FsLba \div NativeOf(slots, 0)
SliceIdxOfCall == call.done % NativeOf(slots, 0)     \* mutant: of the call, not of the disk
SliceIdx == FsLba % NativeOf(slots, 0)

\* Each turn of the loop reads the native block into the bounce buffer.
SliceFetch ==
    /\ call.pc = "slice"
    /\ Submit(Command("read", NativeLba, 1, "bounce"), "fetch")
    /\ UNCHANGED <<devs, slots, windows, platter, bounce, answer, late>>

\* Then xlate_read copies the slice out of it.
SliceRead ==
    /\ call.pc = "fetch" /\ call.io = "ok" /\ call.op = "read"
    /\ call' = [call EXCEPT !.buf[call.done + 1] = bounce[SliceIdx], !.done = @ + 1, !.io = "none",
                            !.pc = IF call.done + 1 < call.count THEN "slice" ELSE "end"]
    /\ UNCHANGED <<devs, slots, windows, platter, bounce, answer, nvme, sata, late>>

\* And xlate_write patches it and writes the block back.
SlicePatch ==
    /\ call.pc = "fetch" /\ call.io = "ok" /\ call.op = "write"
    /\ bounce' = [bounce EXCEPT ![SliceIdx] = call.buf[call.done + 1]]
    /\ Submit(Command("write", NativeLba, 1, "bounce"), "store")
    /\ UNCHANGED <<devs, slots, windows, platter, answer, late>>

SliceStored ==
    /\ call.pc = "store" /\ call.io = "ok"
    /\ call' = [call EXCEPT !.done = @ + 1, !.io = "none",
                            !.pc = IF call.done + 1 < call.count THEN "slice" ELSE "end"]
    /\ UNCHANGED <<devs, slots, windows, platter, bounce, answer, nvme, sata, late>>

\* The call returns 1, or 0 after a command that failed.
Finish ==
    /\ \/ (call.pc = "end" \/ (call.pc = "whole" /\ call.io = "ok")) /\ Return(TRUE)
       \/ call.io = "failed" /\ Return(FALSE)
    /\ UNCHANGED <<devs, slots, windows, platter, bounce, nvme, sata, late>>

----------------------------------------------------------------------------
(* The controllers (external) and the end of the drivers' polling.         *)

First(cmd) == cmd.lba * Unit(cmd.disk)
Size(cmd)  == cmd.count * Unit(cmd.disk)

\* A command is executed: k of its sectors are moved, all of them if it succeeds.
Execute(cmd, ok, k) ==
    /\ First(cmd) + Size(cmd) <= Sectors \/ (~ok /\ k = 0)
    /\ k <= Size(cmd) /\ (ok => k = Size(cmd))
    /\ \/ /\ cmd.op = "read"
          /\ UNCHANGED platter
          /\ bounce' = IF cmd.mem = "bounce"
                       THEN [i \in DOMAIN bounce |-> IF i < k THEN platter[cmd.disk][First(cmd) + i]
                                                     ELSE bounce[i]]
                       ELSE bounce
          /\ call' = IF cmd.mem = "caller"
                     THEN [call EXCEPT !.buf = [i \in DOMAIN call.buf |->
                              IF i <= k THEN platter[cmd.disk][First(cmd) + i - 1] ELSE call.buf[i]]]
                     ELSE call
       \/ /\ cmd.op = "write"
          /\ UNCHANGED <<bounce, call>>
          /\ \E beyond \in SectorData :        \* what lies behind the caller's buffer
                platter' = [platter EXCEPT ![cmd.disk] = [s \in DOMAIN platter[cmd.disk] |->
                    LET i == s - First(cmd)
                    IN  IF i \notin 0..k - 1 THEN platter[cmd.disk][s]
                        ELSE IF cmd.mem = "bounce" THEN bounce[i]
                        ELSE IF cmd.mem = "caller" /\ i < Len(call.buf) THEN call.buf[i + 1]
                        ELSE beyond]]

\* The controller takes the next command of the queue and posts its completion.
NvmeExecute(ok, k) ==
    /\ nvme.fetch # nvme.tail
    /\ Execute(nvme.sq[nvme.fetch], ok, k)
    /\ nvme' = [nvme EXCEPT !.fetch = (@ + 1) % QDepth, !.sq[nvme.fetch] = NoCmd,
                            !.cq[nvme.post] = [phase |-> nvme.mark, ok |-> ok],
                            !.post = (@ + 1) % QDepth,
                            !.mark = IF nvme.post + 1 = QDepth THEN 1 - @ ELSE @]
    /\ UNCHANGED <<devs, slots, windows, answer, sata, late>>

\* io_submit's loop finds the phase bit.
NvmeComplete ==
    LET c == nvme.cq[nvme.head]
    IN  /\ call.io = "busy" /\ BlockGet(call.dev).disk # "sata"
        /\ c.phase = nvme.phase
        /\ nvme' = [nvme EXCEPT !.head = (@ + 1) % QDepth,
                                !.phase = IF nvme.head + 1 = QDepth THEN 1 - @ ELSE @]
        /\ call' = [call EXCEPT !.io = IF c.ok THEN "ok" ELSE "failed"]
        /\ UNCHANGED <<devs, slots, windows, platter, bounce, answer, sata, late>>

SataExecute(ok, k) ==
    /\ sata.ci
    /\ Execute(sata.cmd, ok, k)
    /\ sata' = [cmd |-> NoCmd, ci |-> FALSE, err |-> ~ok]
    /\ UNCHANGED <<devs, slots, windows, answer, nvme, late>>

SataComplete ==
    /\ call.io = "busy" /\ BlockGet(call.dev).disk = "sata"
    /\ ~sata.ci
    /\ call' = [call EXCEPT !.io = IF sata.err THEN "failed" ELSE "ok"]
    /\ UNCHANGED <<devs, slots, windows, platter, bounce, answer, nvme, sata, late>>

\* The polling loops run out; the call returns 0 and its buffer is used for
\* something else, while the controller may still execute the command.
Forget(cmd) == IF cmd.mem = "caller" THEN [cmd EXCEPT !.mem = "gone"] ELSE cmd
GiveUp ==
    /\ call.io = "busy"
    /\ late' = Span(Here, call.count)
    /\ Return(FALSE)
    /\ nvme' = [nvme EXCEPT !.sq = [i \in DOMAIN @ |-> Forget(@[i])]]
    /\ sata' = [sata EXCEPT !.cmd = Forget(@)]
    /\ UNCHANGED <<devs, slots, windows, platter, bounce>>

StorageNext ==
    \/ \E idx \in 0..Len(devs) - 1, lba \in 0..Sectors - 1 :
          \/ \E buf \in Patterns : BlockCall(idx, "write", lba, buf)
          \/ \E n \in Counts : BlockCall(idx, "read", lba, [i \in 1..n |-> Zero])
    \/ \E idx \in 0..Len(devs) - 1, e \in Partitions : RegisterPartition(idx, e)
    \/ Window \/ Native \/ Xlate
    \/ SliceFetch \/ SliceRead \/ SlicePatch \/ SliceStored \/ Finish
    \/ \E ok \in BOOLEAN, k \in 0..Sectors : NvmeExecute(ok, k)
    \/ NvmeComplete
    \/ \E ok \in BOOLEAN, k \in 0..Sectors : SataExecute(ok, k)
    \/ SataComplete \/ GiveUp

StorageSpec == StorageInit /\ [][StorageNext]_storageVars

----------------------------------------------------------------------------
(* Properties.                                                             *)

\* The call in terms of the disk: once a thunk of the disk itself has it.
AtDisk == call.pc \notin {"idle", "thunk"}

\* block_read and block_write implement Disk: whatever the block size, the window
\* and the split into slices, a successful call has moved exactly its sectors, a
\* failed one has written none but its own, and the neighbours in the same
\* native block are never changed (xlate_write, win_write).
DiskView ==
    INSTANCE Disk WITH
        Sector  <- Disks \X (0..Sectors - 1),
        Value   <- SectorData,
        store   <- [s \in Disks \X (0..Sectors - 1) |->
                       IF s[1] \in DOMAIN platter THEN platter[s[1]][s[2]] ELSE Zero],
        request <- IF ~AtDisk THEN [op |-> "none", data |-> <<>>]
                   ELSE [op |-> call.op,
                         data |-> [s \in Span(Here, call.count) |->
                                      IF call.op = "write" THEN call.buf[s[2] - call.lba + 1] ELSE Zero]],
        reply   <- [ok |-> answer.ok,
                    data |-> [s \in Span(answer.at, Len(answer.data)) |-> answer.data[s[2] - answer.at[2] + 1]]],
        gaveUp  <- late

DiskSpec == DiskView!DiskSpec
=============================================================================
