# VyroOS: a TLA+ verification project

VyroOS (the repository beside this directory) is a hobby operating system in C
with three "paths": a remixed Ubuntu (Path A), a desktop of its own on a Linux
kernel (Path B, `path-b-linux-core/`), and the bare-metal kernel that the
repository began with (`boot/`, `kernel/`, `drivers/`; Path C continues it). It
has no automated tests. This project models the parts whose correctness depends
on order, loss, concurrency and limits, model-checks them with TLC, and proves
the main results with TLAPS.

## 1. Inventory

### The bare-metal kernel (`kernel/`, `drivers/`)

One processor runs the shell (`kernel/shell.c`) or the desktop (`kernel/gui.c`)
in the foreground; interrupt handlers run to their end between any two of its
instructions; demo tasks are switched to at explicit points. There are no locks.

| component | state | operations | hard behaviour | what makes it correct |
|---|---|---|---|---|
| **TCP** `tcp.c` | 16 TCBs: state, send buffer and window, congestion state, RTT probe, receive buffer, one out-of-order slot | `tcp_connect`, `tcp_listen`, `tcp_accept`, `tcp_send`, `tcp_recv`, `tcp_close`, `tcp_input` (one handler per state), `tcp_tick` | loss, duplication, reordering, sequence wrap-around, retransmission racing acknowledgement, simultaneous close | the byte stream arrives whole and in order; a byte is let go of only when delivered; progress |
| **Receive path** `rtl8139.c`, `net_io.c`, `net_pump.c` | the card's buffer, a 16-slot ring of frames with head and tail | `rtl_irq` -> `rx_handler`, `net_io_poll`, `net_pump_run` | the interrupt comes in the middle of the copy out of the ring; a full ring | a bounded FIFO: frames whole, once, in order |
| **ARP** `arp.c` | 8-entry cache | `arp_input`, `arp_resolve` | eviction, addresses that move, a nested pump that drops frames | a lookup gives what was heard last |
| **UDP, DHCP, DNS** `udp.c`, `dhcp_real.c`, `dns_real.c`, `net.c` | port table, callbacks, one pending exchange each, `my_ip` | `udp_listen`, `udp_unlisten`, `udp_send_to`, `udp_input`, the exchanges and their callbacks | late and repeated answers, reused ports, deadlines, failed sends | the answer is the asked one; only an awaited offer changes the address; no listener leaks |
| **Tasks** `task.c`, `sched.c`, `timer.c`, `switch.asm` | ring of tasks, current task, quantum | `task_create`, `task_run_all`, `task_yield`, `task_exit`, `sched_tick`, `sched_check_preempt` | finished tasks stay on the ring; an allocation fails half-way | one task runs; turns are shared; every task ends |
| **IPC** `ipc.c` | pipes (rings), message slots | create, read, write, send, receive | positions wrap, short writes, slots reused | a pipe is a FIFO; a message is given out once |
| **Block devices** `block.c`, `parttab.c`, `lba_xlate.c`, `nvme.c`, `ahci.c`, `ata.c` | device table, queues with phase bits, command slot, bounce sector | register, read, write | timeouts with the command still running, read-modify-write, several slices | a call moves its sectors and no others |
| **File systems** `vfs.c`, `pkg.c`, `fat32.c` | an in-memory tree with the shell's current directory; FAT and directory sectors | make, find, remove, write, install | cells reused after a removal, names compared in lists | an operation touches the path it names |
| **Memory** `memmap.c`, `pmm.c`, `heap.c` | page bitmap, heap block list | alloc, free | fragmentation, rounding at region borders | no two live blocks overlap |
| **Input** `keyboard.c`, `mouse.c` | rings filled by interrupts | handlers, `keyboard_getchar` | a counter changed by interrupt and reader, lost bytes | keys once, in order; the pointer on the screen |
| **TLS and trust** `tls.c`, `x509.c`, `trust.c` | handshake state, transcript, keys, sequence numbers, static certificate buffers | `tls_connect`, `tls_accept`, `tls_recv`, `tls_send`, certificate lists | partial receives, record boundaries, handshake order, conclusions from stale buffers | both sides agree; data in order; only what an anchor signed is trusted |
| **Cryptographic primitives** `bignum.c`, `bignum_4k.c`, `rsa.c`, `rsa_pss.c`, `ecdsa.c`, `poly1305.c`, `aead.c`, `hkdf.c`, `sha256.c`, `x25519.c` | limbs | modular exponentiation, point arithmetic, MAC, seal and open | carries and borrows at rare operands, exceptional points | the arithmetic is the mathematics |
| **HTTP and browser** `http.c`, `apps/browser.c`; `sockets.c`, `ipv6.c` | a response buffer | get, parse, show | responses cut anywhere | what is shown is a beginning of the page |
| **Shell** `shell.c`, `screen.c` | line, history, text screen | one key after the other, commands | wrapped and scrolled lines | what is shown is what Enter runs |
| **Desktop** `gui.c`, `ctxmenu.c`, `app.c`, `apps/*` | window list, drag, menus; the applications' lists and texts | one frame after the other | indices kept over frames in which the lists change | an index means what it was taken for |
| **Bring-up** `acpi.c`, `smp.c`, `gdt.c`, `idt.c`, `lapic.c`, `pci.c`, `xhci.c`, `elf.c`, ... | tables | initialisation in one order | firmware's tables of any length | both readers see the same processors |

### Path B, the desktop on Linux (`path-b-linux-core/`)

| component | state | operations | hard behaviour | what makes it correct |
|---|---|---|---|---|
| **vyro-init** `init/init.c` | the compositor's pid, session children | spawn, wait for the socket, launch the session, reap and respawn | a child dies at any moment, fork fails, an old socket path | the compositor comes back; apps do not race it |
| **compositor-drm** `server.c`, `input.c`, `main.c` | clients, windows, focus and drag | accept, one handler per protocol message, input dispatch, drop | clients die at any point, slots are reused, non-blocking sends drop | the tables agree; input reaches the owner; replies come first |
| **libvyro-linux and apps** `proto.c`, `apps/*` | connection, window id; texts, lists, settings and files | connect, handshake, event loop | blocking calls, a server that goes away, saves that fail, releases that go elsewhere | a handshake always ends; what is shown is on disk |
| **drawing** `chrome.c`, `draw.c`, `font.c` | frame buffers | blit, decorate | none | not modelled: pixels |

Path A is packaging of another distribution; `scripts/` and `build/` build images.

## 2. What is modelled

```
 network     TcpConnection <- TcpConnectionInv <- TcpLemmas <- TcpConnectionProofs
                 |  refines        ^
             ByteStream          MCTcp (6 runs)

             RxRing <- NetStack <- NetStackProofs
               |  refines  ^
             FrameQueue    |
 outside       MCOutside --+-- BlockStack  Tls  Web  MCCerts -> Certs
             (1 run)             |  refines  ^       (1 run of its own)
                               Disk      OutsideProofs (Tls, BlockStack, Web, Certs)

 kernel      MCKernel: Heap  Ipc  Vfs  Tasks  Pages  Devices  Rsa  Ecdsa  Aead
             (1 run)    |     |    |                    |
                 refines|     |    |            Keyboard  Mouse  Acpi
                Allocator Channels FileTree
             MemoryProofs (Heap, Pages, Vfs)   KernelProofs (Ipc, Devices, Apps, Rsa)

 screen      Compositor <- Desktop <- DesktopProofs
                              ^
                          MCDesktop (2 runs) <- MCScreen: Gui  Apps  LinuxApps  Console (1 run)
                                                           ^
                                                     ScreenProofs (Gui, LinuxApps, Console)
```

**Sessions.** `MCKernel`, `MCOutside` and `MCScreen` each put several components
side by side that have no variable in common. A behaviour follows one of them
(`session`); the others stay where they began. Nothing is lost by that: the
components do not read each other's variables, so that any behaviour of all of
them together, looked at through the variables of one, is a behaviour of that
session with stutters in between; and every property of these runs is a
conjunction in which each part, or the property as a whole, is about one
component. Where parts of the code do share state (the ring and its exchanges,
the two hosts of a connection, compositor, init and apps, the shell's commands
and the packages in one tree) they are in one module.

### TCP: `TcpConnection`, abstract `ByteStream`

The two TCBs of one connection, one on each host, both running `tcp.c`, over a
network. Each action is one whole handler: `Connect`, `Send` (`tcp_send` with
`try_emit`), `Recv`, `Close`; `Input` is `tcp_input` with one disjunct per case
of its state switch (`PassiveOpen` is the listener's, `InEstablished` has the
acknowledgement half `AckAdvance | AckDuplicate | AckIgnored` and the payload
half `TakeData`); `Tick` is `tcp_tick` (`SynTimeout`, `Timeout`,
`TimeWaitTimeout`).

* Byte k of a stream is the number k, so that losing, repeating or misplacing a
  byte is visible. Sequence numbers are modulo `SeqMod`; the client's wrap around
  in every run (`MCIsn`). `newly_acked` is the code's unsigned difference.
* `net` is a set: whatever is in it may be delivered again or vanish at any step,
  which is loss, duplication and reordering. `NetCap` bounds it.
* Time is abstracted: an armed timer may fire at any tick, so the models have
  every timing, the RTO estimate's included; RTT samples are there as events
  (`probe`) because Karn's rule is about them.
* Checksums hold and header fields are those of segments that `tcp.c` builds.

### The receive path and its exchanges: `RxRing`, `NetStack`, abstract `FrameQueue`

`RxRing` is the ring of `net_io.c`. `net_io_poll` takes a step for its test
(`PollStart`), one for each piece of the copy (`PollCopy`) and one for the new
head (`PollEnd`); `RxHandler`, the interrupt, may come between any two. A frame
has `PIECES` pieces: the slot is written at once by the handler, which nothing
interrupts, and read piece by piece.

`NetStack` puts `arp.c`, `udp.c`, `dhcp_real.c` and `dns_real.c` on the ring. The
shell makes one call at a time (`main` says where it is); `PumpFrame` is one frame
in `net_pump_run`, `ArpFrameIn` one in the nested loop of `arp_resolve`, which
throws away what is not ARP. The network is external: ARP packets of any host,
with any of its cards, and TCP segments arrive at any time; an answer to a query
ever sent arrives any number of times, at any time later, or never.

* Transaction identifiers are made from the clock tick. Two exchanges have
  different ones because an exchange that has sent its query pumps for at least
  50 ms and the tick is 10 ms; the 16 bits of a DNS identifier come round after
  eleven minutes, and no answer is assumed to be that late.
* A DHCP answer offers a lease of its server for the exchange its xid names, and
  a DNS answer carries the address of the name that was asked under its
  identifier. The answers the callbacks ignore (errors, no record) are left out;
  so is the ARP reply to a request, which changes no state here.

### Disks: `BlockStack`, abstract `Disk`

`block_read` and `block_write` down to the controllers: a call goes through the
windows of partitions (`Window`), the 512-byte view of a 4096-byte NVMe disk
(`SliceFetch`, `SliceRead`, `SlicePatch`, `SliceStored`: the slices of
`xlate_read` and `xlate_write`; `StorageAssumption` has such a disk alone in its
machine, see section 6, and a machine of the runs has one disk), the submission and completion rings of `nvme.c`
with their phase bit, or command slot 0 of `ahci.c`. The controllers are
external: they execute a command, a first part of it, or none, and answer or do
not; `GiveUp` is the driver's timeout, after which the command may still run.
After a timeout the callers of the model stop using the disks: `io_submit` takes
the late completion for that of the next command, and from then on every answer
is one command late (nvme.c:225), so that nothing more could be said.

### TLS, certificates, web pages: `Tls`, `Certs`, `Web`

`Tls` is `tls_connect` and `tls_recv` with a conformant server, `tls_accept` with
a conformant client. The server's flight is sent record by record (`ServerHelloSent`,
`ServerFlight`); `data` and the `at` of a record are there for the properties only,
no action looks at them. The stream is a sequence of parts of records, and
`tcp_recv` gives any number of those that have arrived. Hashes are the sequences hashed,
keys are named by the transcript they come from, and a sealed record opens under
its own key and number only. `tls_accept` keeps its odd beginnings: the
transcript starts at byte 9 of `rx_buf`, and a change-cipher-spec record leads to
`ERROR`. `tls_send` is left out: it seals and sends one record and looks at no
answer (it ignores that `tcp_send` may take a part only, tls.c:747).

`Certs` reads certificates as trees of DER elements (`x509_parse` field by field,
extensions and names included), keeps the anchors of `trust.c` and draws the
conclusions of `tls.c` from a list, in the code's static buffers: an empty list
uses the leaf of the connection before, a second list that fails keeps the
conclusions of the first, only the first anchor of a name is tried.

`Web` is `browser_fetch` with `http_get` and `http_parse_response` over what
`TcpConnection` promises; the connection may end, or the deadline pass, after any
token, and every loop (`Receiving`, the pump) is a step.

### Kernel services: `Heap`, `Pages`, `Tasks`, `Ipc`, `Vfs`, `Devices`

* `Heap` (abstract `Allocator`): the list of blocks of `heap.c`. `Kmalloc` and
  `Kfree` begin a call; each turn of the loop of `kmalloc` (`Search`, `Found`,
  `Fails`) and of `coalesce` (`Absorb`, `Advance`, `Coalesces`) is a step, so that
  the invariants hold in the middle of a call, and that a call returns is a
  property and not an assumption. Callers free a pointer once and keep to their
  bytes; requests are positive and far from the width of `size_t`.
* `Pages`: both sources of the memory map (e820, UEFI) with their limits, the
  order in which `pmm.c` applies it, rounding to pages, allocation and freeing.
  The frames of the heap at 0x500000 lie inside the range it gives out, contrary
  to shell.c:317-318; nothing calls it yet. `FreePage` outside the range never
  happens with such callers.
* `Tasks`: the ring of `task.c` under the shell's command `tasks`. `Works` is the
  step of whoever has the processor: a context switch gives it to another.
  `sched_check_preempt` resets the slice and switches to nobody (the boot message of
  kernel.c:135 says "Preemptive scheduler"; RELEASE_NOTES.md:268 says it is not).
* `Ipc` (abstract `Channels`): pipes with their positions, mailbox with its slots.
  The repository has no caller of them yet.
* `Vfs` (abstract `FileTree`): the tree in memory cell by cell, as `kmalloc` and
  `kfree` give and take the cells, under the shell's `cd`, `mkdir`, `touch`, `rm`,
  `ln`, `echo >` and `vyropkg`. What a removed directory held stays allocated.
  The user names no directory like a package (`UserNames`): `vyropkg remove`
  would free it even when the shell is in it.
* `Devices` puts three components side by side that share no state. `Keyboard`: the
  scan-code handler between the load and the store of `kb_count` in
  `keyboard_getchar`. `Mouse`: packets of three bytes, any of them lost.
* `Acpi`: the two readers of the firmware's tables (`smp.c` for `cpuinfo`,
  `acpi.c`), over the bytes of the table: `ParseNext` and `WalkNext` are where a turn
  of each loop leads, `LoopAt` the turns of a loop. The first reader takes the entry
  that the table cuts off and looks at no checksum, the second stops behind
  `MAX_TABLES`. `heads` is where the firmware's entries lie; the code does not see it.

### Arithmetic: `Rsa`, `Ecdsa`, `Aead`

The code's algorithms with small parameters: `bn_modexp` limb by limb (limbs of 2
bits instead of 32), PKCS#1 padding byte by byte; points in Jacobian coordinates
with the double-and-add loop, on the curve y^2 = x^3 - 3x + 10 modulo 11, which
has 7 points, so that the exceptional cases of the addition are the rule; the
five limbs of Poly1305 (6 bits instead of 26, blocks of 4 bytes of 7 bits) and
sealed records. Loops are state machines, what is below them are functions; the
reference is integer arithmetic modulo the prime, and the group of the curve in
affine form.

### The desktop of Path B: `Compositor`, `Desktop`

`Compositor` is `server.c` and `input.c` with the SOCK_SEQPACKET connections they
serve. `Poll` is `vyro_server_tick` up to its loop (poll set, then one accept),
`Serve` one iteration of the loop (`on_client_readable` and the handler of one
message), `Input` one event of `vyro_input_tick`. `Desktop` adds `vyro-init`
(`Session`), the life of the compositor's process (`Start`, `Crash`), and the
apps, whose `main` is the same protocol conversation (`Runs`; `Leaves` is a
user's ESC or the app's death).

* Connections have a backlog, and buffers of `SOCKBUF` messages each way. The
  server's sends drop what does not fit; the apps' sends block. A process that
  ends closes its end; a peer that closes with messages unread resets.
* Geometry is abstracted: the cursor is over any window in use (its title bar or
  its content) or over none. Rendering and frame buffers are left out.
* An event carries the id of the window the hit test found, so that a property can
  ask whose it was; the code does not send that.

### What is behind the glass: `Gui`, `Apps`, `LinuxApps`, `Console`

`Gui` is the loop of `gui_run` frame by frame, its parts in the order of the code
(keys, presses on menu, bar, dock, windows, context menu, panels, `Render`). `Apps`
has eight applications of the kernel's desktop, `LinuxApps` four of Path B; a
step is a frame or an event with all that its handler does, files included.
`Console` is the shell's line with history on the text screen, cell by cell.
Strange behaviour of the code is in the models as it is, among it: the dock's
Quit uses a stale index; the ninth application replaces the front window; hidden
windows get keys; the quick settings toggle in every frame of a press; closing a
tab left of the current one changes the page; the Settings slider divides by zero
when it is dragged over a widget without a track (settings/main.c:285, `faulted`);
a failed save leaves a truncated file (`torn`).

## 3. The runs

| run | question | instance | distinct states |
|---|---|---|---|
| `tcp_data` | Is the stream right, and what is freed delivered, with loss, duplicates, reordering, a full receive buffer, fast retransmit and RTO? Does the connection implement `ByteStream`? | 4 bytes one way, MSS 2, buffer 3, 2 segments in transit, `SeqMod` 16 | 398 000 |
| `tcp_close` | While both applications may close at any moment: is an end of stream true, and a confirmed FIN received? | 2 bytes, MSS 1, buffer 2 | 579 000 |
| `tcp_live` | Is every accepted byte eventually returned by the peer's `tcp_recv`? | 3 bytes, 1 segment in transit, fairness below | 5 400 |
| `tcp_karn`, `tcp_eof`, `tcp_teardown` | Three statements of the documentation, which the code does not keep (section 6) | 3, 2 and 1 bytes | violated |
| `desktop_live` | Does every handshake end, are windows reclaimed, does the compositor come back? | 3 apps, one of another protocol version, one of a second session; 1 slot, 1 window, buffers of 1 | 109 000 |
| `desktop_race` | Does vyro-init wait for the compositor it has spawned (init.c:63)? | 2 apps | violated |
| `kernel` | Is memory given out once and put together again, do calls return and tasks end, do pipes and files keep what they were given, do devices and arithmetic tell the truth? | eleven sessions (`MCKernel`) | 206 000 |
| `outside` | Is what the kernel believes after its exchanges what was said to it: frames, ARP, answers, leases, sectors, handshakes, certificates, pages? | five sessions (`MCOutside`) | 649 000, symmetric ones counted once |
| `screen` | Do the compositor's tables agree, does input reach its window, is what is shown what is there? | five sessions (`MCScreen`) | 1.96 million |
| `curves` | Is a list of ECDSA certificates under an anchor verified, as the documentation says? | the lists of `MCCerts` | violated |

`kernel` checks for deadlock: in each of its sessions the user, an interrupt or
a caller can always come. The other runs switch that off, because their programs
may stop: bytes are written and closed connections not reopened, exchanges, web
pages and handshakes end, and an idle system waits.

**The bounds, and why they are enough for the cases that matter.**

* TCP: three bytes in two-byte segments with a three-byte buffer give partial
  acceptance, the out-of-order slot and its draining, the window below and above
  the flight, and a partial acknowledgement; three duplicate ACKs
  (`DupAckThresh`) are reachable since a segment may be delivered repeatedly;
  `U8 = 4` makes the 8-bit duplicate counter wrap; `SynRetryMax = 1` gives a retry
  and its end.
* `outside`, network: a ring of three slots is full with two frames and wraps; a
  cache of two entries evicts with three hosts; with `EPH_LAST = EPH_FIRST` every
  query uses the same port again, which the real range does after ten thousand
  queries; `MaxCalls = 2` exchanges give each order of DHCP and DNS, with answers
  of the first in the second; `MaxArrivals = 4` frames that nobody asked for.
* `outside`, disks: four 512-byte sectors are two native ones of `Ratio` 2, so
  that a call of three begins or ends inside one and has two slices; a queue of
  `QDepth = 2` wraps and turns its phase with every second command; one partition
  starts inside a native sector. TLS: flights of one record, of three, and one
  whose message is split over two; receive calls of one to three bytes and
  records of up to three bytes in one to four parts with a buffer (`RxMax`) of
  three. Certificates: every anchor order, lists of up to three, two anchors of
  one name, a broken, an unsigned and a keyless certificate. Web: five responses,
  cut after every token, with a receive buffer of five.
* `kernel`: a heap of 256 bytes holds up to five blocks, enough for a free block
  with used or free neighbours on both sides; 20 and 60 are rounded; a freed block
  may fit exactly, with a rest below the threshold, or with one that is split; 300
  never fits. Three tasks of two turns, an allocation that may fail at each. A pipe
  of two bytes wraps with writes of up to three. Seven cells of the tree: the
  shell's files and both packages with the dependency, and reuse of each. Five
  memory maps with overlapping and unaligned entries of both sources, more entries
  than fit. A keyboard ring of two with `MaxPushed = 4` characters. A screen of 5 by
  3 with moves that leave it. 45 computers, whose tables are cut off, unsigned or behind others. Powers
  for moduli of four bits, every padding of seven and eight bytes over three
  values, every signature of numbers up to the group's order for every point as a
  key, messages at the values where carries ripple.
* `screen`: with two slots and two windows both tables fill up and are reused after
  a crash (`MaxCrash = 1`); `MaxEvents = 1` event of input suffices, because one that
  goes wrong is the property; in `desktop_live` one slot for three apps makes the
  compositor turn clients away, and one message per buffer makes every second
  message the one that is dropped. Two windows of three desktop applications
  (`MAX_WINS = 2`) make the replacement at the limit happen; three tabs, three
  notes, a history of two in four entries; an editor of six characters, files of
  five; a console of three by three cells, which wraps and scrolls.

**Fairness.** `tcp_live`, `tcp_teardown`: `net_pump_run` polls the card and runs
`tcp_tick` every 100 ms as long as a caller waits, so an armed RTO fires again
and again (and the segments it resends survive at times); the application keeps
reading; a network that never stops losing the same segment or its answer is
excluded, by strong fairness of the deliveries that matter. Nothing is assumed of
the order. `desktop_live`: the processes run (weak fairness of vyro-init, of the
compositor's start and main loop, of each app); nobody has to press ESC, crash,
or destroy a window. `kernel`: a heap call that began runs on (weak fairness of
`Runs`), and the processor goes on with whoever has it (`TaskFairness`): only
interrupt handlers come between, and none of them waits. `outside` and `screen`
check no liveness: all loops of the first have deadlines and time is not
modelled; in the second nothing happens without a user.

## 4. The properties

* `StreamIntegrity`, `AckedIsDelivered`, `SenderWindow`: the three facts a byte
  stream over a bad network rests on: what arrives is a prefix of what was
  written; a byte leaves the send buffer only when the receiver holds it; what the
  RTO and the fast retransmit send from the buffer is what is in flight.
  `EofMeansClosed`, `FinAcked`: the two ends agree about the FINs. `StreamSpec`:
  all of this is an implementation of `ByteStream`. `Delivery`: it gets there.
* `FrameWhole`, `QueueSpec`: the unlocked ring is a bounded queue, whatever the
  interrupt interrupts. `LookupLatest`, `AnswerRight`, `LeaseRight`,
  `ListenersInUse`: each relates what the machine believes to what was said to
  it, across timeouts, reuse and repetition.
* `DiskSpec`: through windows, slices, two kinds of queues, failures in the middle
  and late commands, a call that answers 1 has moved its sectors, one that
  answers 0 has changed no other. `HandshakeAgreed`, `ReadsInOrder`: a finished
  handshake has the peer's transcript however it was cut up, and data comes in
  order, once. `ChainTrusted`: what is called verified was signed by an anchor's
  key, whatever was in the static buffers. `PageRight`: a page that came whole is
  shown whole, one that was cut is its beginning.
* `Tiled`, `Restored`, `AllocatorSpec`, `CallReturns`: the list is the whole heap,
  header by header, in every order of calls; nothing is lost to fragments that
  nobody merges; what the callers see is an allocator; the loops end. `PagesSafe`:
  no page twice, none the firmware keeps. `RunsToEnd`: the command `tasks` gets
  back its processor when every task has had its turns. `ChannelSpec`, `TreeSpec`:
  pipes, mailbox and file tree implement their abstract specifications.
  `DevicesRight`: keys in order unless the ring was lapped (with the race of
  `kb_count` in it), the pointer of the whole packets, both lists of processors
  alike. `CryptoRight`: limbs compute powers, padding has no free byte, signatures
  verify exactly if the equation of the group holds, a tag fits one message.
* `WindowsOwned`, `OneSlot`, `WindowHeld`, `EventsForCreator`, `ReplyFirst`: the
  compositor's tables, sockets and clients agree through any order of accepts,
  deaths and reuse. `HandshakeEnds`, `WindowsReclaimed`, `CompositorReturns`: no
  process waits for ever, nothing of a dead one stays. `WindowsHeld`, `AppsShown`,
  `ClientsAgree`, `LineShown`: indices that the kernel's desktop, the applications
  and the shell keep over events still mean what they were taken for, and what is
  on the screen or on disk is what the user entered.

Each is checked against a mutant of the code (listed in `PROJECT.json`): a
definition changed as a plausible bug would, under which the property fails.

## 5. The theorems

All proofs are checked by TLAPS from the modules alone. They hold for every value
of the constants that satisfies the named assumptions, and for each component by
itself; the runs check the same modules inside their sessions.

**TCP** (`TcpConnectionProofs`, lemmas in `TcpLemmas`). `Invariance` is
`Spec => []IInv`; from it `TypeCorrect`, `StreamIsPrefix`, `FreedIsDelivered`,
`WindowInBuffer` and `EofIsTrue`, one for each safety property named. None of
these is inductive alone: `IInv` (in `TcpConnectionInv`) reads sequence numbers as
offsets from the initial one, and adds what is
true of every segment in transit (`NetInv`: its payload is the slice of the
stream its sequence number says; its acknowledgement does not go beyond what has
arrived), of the out-of-order slot (a genuine slice too) and of the send buffer
(the tail of the stream from `snd_una` on). `ConnAssumption` asks that twice what
each application writes, with the SYN and the FIN, be below the sequence space:
the kernel's 32-bit comparisons are sound for half of it, and nothing in `tcp.c`
guards against an older segment. `NetCap` is any number, so
the bound on the network of the runs is no restriction of the theorems.

`FinIsAcked` rests on a second invariant, `FinsInv`. An acknowledgement in
FIN_WAIT_1 counts as one of the FIN when it equals `snd_nxt`, and with bytes still
in flight behind an early FIN it need not be. `FinAhead` says why it is, as long
as the peer has not seen the FIN: nothing the peer holds, is offered or has
acknowledged reaches the FIN's offset, so that an acknowledgement of it can only
come from a peer that took it. `ImplementsStreams` is the refinement of `ByteStream`, once for each
direction: `Send` maps to `Write`, the payload half of `Input` to `Deliver`,
its acknowledgement half to `Confirm`, `Recv` to `Take`, and all else to a stutter
of that pipe.

**Receive path** (`NetStackProofs`). `CopiedWhole`, `ImplementsQueue`: for every
ring size and any number of copying steps the ring
implements `FrameQueue`. The invariant says that every waiting slot holds one whole
frame; the refinement reads the slots from head to tail as a sequence.
The same module shows that the packet path uses the ring only through its
operations (`StackUsesRing`), so that the refinement carries over
(`StackQueue`), and that a handled frame is therefore one of the card's; on that
rest `CacheIsCurrent` (from `CacheInv`: an entry has what was heard last, no host
has two), `NoListenerLeaks` and `LeaseIsAwaited` (from `ListenersInv`) and
`AnswerIsAsked` (from `WireInv`: every answer in the ring belongs to a query sent,
and only the last query has the awaited identifier). `NetStackAssumption` holds
what is assumed of the network, as said in section 2.

**Heap** (`MemoryProofs`). The invariant is the conjunction of `HeapTypeOK`,
`Tiled`, `Owned` (the callers' pointers are exactly
the blocks in use, each large enough), `Apart` (outside `coalesce` no two free
blocks are neighbours; inside it none before its `cur`) and `CallInv` (what `cur`
and `want` are during a call). `HeapTypeCorrect` and `HeapIsTiled` are parts of
it. `Apart` is what makes `HeapIsRestored` follow: with
nothing in use the first block has no free one behind it, so it is the last.
`ImplementsAllocator` rests on `Tiled`: blocks that tile do not overlap. All of it
holds for every heap of at least a header and every set of positive requests.

**Pages** (`MemoryProofs`). `PagesSafe` speaks of the pages that callers have;
`PagesInv` adds what is true of the ones they get next: the count is the number of
marked pages, every page of a caller is marked, none has one before the map is
applied, and once it is, every page that is not marked has only usable bytes. The
work is in the step that applies the map, where the rounding of a region's ends
decides. `PagesInvariance` and `PagesAreSafe` hold for any map of the firmware,
any overlap and any order of calls.

**Files** (`MemoryProofs`). `ImplementsTree` is the refinement of `FileTree`. What the
abstract specification sees is computed from the pointers by functions that
recur over them, so the work is to say what they compute. `TreeIs` describes a memory
from outside, by the set of cells that the root reaches, the children and the path of
each: lists of siblings end and hold each child once, parent pointers name the
parent, siblings have different names. In such a memory `Listing` is the children
and `PathOf` is the path, and `Files` is all of the tree; each is shown by the least
argument at which it would fail, or by a climb to the root. `VfsInvariance` keeps
`FsInv`: there is such a description, the shell is in a directory of it, and the call
on top of the stack of `install_rec` will find the `/bin` and the file it found or made
before (`Stacked`; without it the last step would write through a null pointer). Then
each operation is an update of the tree: `vfs_create` adds a leaf, `vfs_remove` cuts
off a subtree whose cells but one are lost, `vfs_write` changes one text. The shell is
never below what it removes, as its own directory is no child of itself. All of it
holds for any number of cells, names and any dependencies of packages, cycles
included; `VfsAssumption` asks for memory for the six nodes of `vfs_init` and that no
user's name is the name of a package, as said in section 2.

**Pipes and messages** (`KernelProofs`). The invariant: of each pipe, both positions
are in the buffer and the distance from the read to the write position, round the
ring, is the count. `ImplementsChannels` is the refinement: what a pipe holds is
the ring read off from its read position; a byte written is appended to that
sequence, a byte read is its head (two lemmas about a ring, of which the wrap is
the case to look at), and a call that moves n bytes is n of these. A
mailbox slot that is filled or emptied changes the bag by one letter.

**Devices** (`KernelProofs`). `DevicesAreRight` is `DevicesRight`, the conjunction of
`KeysAreInOrder`, `PointerIsRight` and `CpusDoAgree`. For the keyboard the invariant is that the
characters not yet read lie in the ring between its two positions, in the order in
which they were typed; `kb_count`, which handler and reader both change, can only be
too small when they race. For the mouse it is that, while no byte is lost, the bytes
in the packet and those on the cable are the packet of the movement at work.
`MouseAssumption` asks for a screen that is not empty and movements of nine bits.
For the processors the invariant says only what was read when; the work is in what the
two loops compute. Each goes from the head of one entry to the next and stays where
it ends (`ParseGoes`, `WalkGoes`: the least turn at which it would be elsewhere refutes
the contrary), so that the turns at which it tells a processor are the entries of
processors (`ParsedAre`, `WalkedAre`). That the enabled ones of `acpi`'s list are those
of `cpuinfo`'s, in the same order and up to the same limit, is a fact about numbers
that are renumbered in their order (`MovedInOrder`, `ListsAgree`). `AcpiAssumption` asks
that entries lie one behind the other, each as long as it says and that of a processor
long enough for what it tells, and that only the last one is cut off.

**The desktop of Path B** (`DesktopProofs`). `DesktopInvariance` is
`Spec => []DesktopInv`, for any number of apps, slots, windows, crashes and
respawns, and any size of the socket buffers. No property is inductive by
itself: that a window's owner is its creator depends on a slot being in use by one
client only, that on the sockets, and that no event overtakes a reply depends on
when a window exists. So `DesktopInv` adds to the type invariant `Connections` (a
connection is open exactly if it is in a slot, in one only, and waits in the
backlog once), `Identified` (ids of windows are given once), `Started` (where an
app is in its life, its connection can only be in some states), `Handshake` (what
the two buffers of a connection hold while its app waits for HELLO_OK or
WINDOW_OK: one message in all, and no window before the reply), `Farewell` (a
WINDOW_DESTROY comes from an app that leaves and names a window of its own: with
any other, a window would vanish under an app that presents) and `EventIds`.
`WindowsAreOwned`, `SlotIsOne`, `WindowIsHeld`, `EventsReachCreator` and
`RepliesComeFirst` are the five properties of the run `screen`.

**TLS** (`OutsideProofs`). `TlsInvariance`, `HandshakeIsAgreed`,
`ReadsAreInOrder`. What is on its way to the kernel is a sequence of parts, cut
anywhere between the line and `rx_buf`; `StreamInv` says of the two together that
they are whole records (`Framed`), that only the last message of the flight has a
MAC, and that behind it come records of data, each with the number and the offset
that follow those of the one before (`Linked`, `LastLinked`). `AgreedInv` and
`ReadInv` relate what the client believes and has returned to the first record of
that stream (`Expects`, `ReadTo`). The theorems hold for flights of any messages in
any number of records, of any number of parts, whether the client takes them or
refuses: `TlsAssumption` asks only that a flight is not empty, has no MAC of its own
(the Finished message is put behind it), and that only application data has bytes.

**Disks** (`OutsideProofs`). `ImplementsDisk` is the refinement of `Disk`, for any
ratio of block sizes, depth of the queue, table of partitions and data. It rests on
`StorageInvariance`. `CallInv` says where a call can be, down to the slice it has
reached. `QueuesInv` says that at most one command is under way, that it is the one
the call waits for (`Expected`), and that the phases of the completion ring tell
its completion from the old ones, over every wrap. `DataInv` says that the sectors
before the slice have been moved (`MovedTo`) and that the bounce buffer is the
block on the disk, but for the patched sector (`Fetched`): that is why a block
written back changes one sector only. A command that is given up stays `Harmless`:
what it may still write is the call's, or what the disk holds already. In the
refinement a command that is executed is a `Transfer` of the sectors that changed,
or a `Straggle` when its call has gone; the steps between are stutters.

**Pages** (`OutsideProofs`). `PageIsRight` is `PageRight`, for any responses and sizes
of buffers. `WebInv` says that what was read, what has arrived and what the server
has still to send are the response, until the connection is reset; what was read is
therefore a beginning of it, and all of it when the server closed. The rest is what
two recursive functions compute, shown by the least argument at which it would fail:
`HeadersRead`, that the scan of `http_parse_response` stops behind the first empty
line, or at the end of what was read; and `TextBegins`, that `html_to_text` of a
beginning is a beginning of the text, wherever the cut falls in a tag or a script.
`WebAssumption` asks of a response only that what is before its first empty line is a
head of HTTP: a version, a space, a code, and lines that end in CR LF.

**Certificates** (`OutsideProofs`). `ChainIsTrusted` is `ChainTrusted`, from
`CertsInvariance`. The work is in the reader, which is given what a maker of
certificates writes and has to find in it what he meant. `ParseIs` says, for each form
of certificate, whether `x509_parse` takes it, and which names, key, algorithms
and signature it then has; it rests on `CommonNameIs`, `SanIs` and `ExtensionsAtIs`,
which say where the searches for a name, for the alternative names and for the
extensions end, and on `FailureIs`, which check is the first to fail. `LinkIs` then
says that a signature is verified exactly if the other certificate's RSA key has made
it, `AnchorIs` that the first anchor of a name is found, `CoversIs` and `MatchIs` when a
name stands for a host. What is left of the invariant is `Concluded`: what the
context says is about the last list that was read to its end, and a list that is
spoilt changes none of it. `CertsAssumption` asks that certificates have one of the
forms, that names and lists are sequences, and that a list may have an entry.

**The kernel's desktop** (`ScreenProofs`). `GuiInv` and its part `WindowsHeld`
(`WindowsAreHeld`), for any applications, windows and desktops. An index into
`wins` is kept over frames by a drag and by the context menu. `Kept` says
why it goes on meaning the same window: while it is kept, no part of a frame that
moves windows can run, because the button is down, or because the press that would
move one closes the menu first.

**Applications of Path B** (`ScreenProofs`). `ClientsDoAgree` is `ClientsAgree`, for
buffers, views, folders and screens of any size. For TextEdit the work is in the caret:
after a move it is in the buffer, wherever the lines begin, and `ensure_caret_visible`
brings its line into view. The number of that line is counted by a recursive function;
that it exists, and is a natural number, is shown by the least offset where it would
not be. For Terminal the invariant is the property itself, that the rows are the end of
the paper (`Ends`): a line feed moves both, with or without a scroll, and a character
changes the same cell of both. `LinuxAssumption` asks that views, screens and tabs have
a size, and that files and folders hold what the code reads from them.

**The shell's line** (`ScreenProofs`). `LineIsShown` is `LineShown`. The cells are
numbered from the first row's first on, so that a wrap is a step like any other and a
scroll is a shift of all by a row (`Slid`); rows and columns come back by division.
`ScreenOk`, that nothing stands behind the cursor, holds whatever a command prints,
backspaces included. `ShowsLine` is what a character, an erasure or a recall changes.
What `PrintText` computes is shown by the least character after which it would fail.
The history is a ring whose slots are looked up only once they are written (`HistoryOk`).
`ConsoleAssumption` asks that a prompt and a line leave a row of the screen free.

**The kernel's applications** (`KernelProofs`). `AppsDoShow` is `AppsShown`. The
applications share no state, so the invariant `AppsInv` has a part for each, and a
frame disturbs one. Three of the parts rest on facts of their own. `te_recount` is a
recursive function over the text; `RecountRight` shows that the counts of line ends
and word starts satisfy its recursion, and the least position at which another
solution differs refutes it. The terminal's history is described position by position
(`Tails`), so that a full one that drops its oldest entry is again the last entries
(`HistoryGrows`). The calendar's months meet (`MonthsMeet`) because from March on the
length of a month makes up for what the formula adds (`MonthShift`), and from February
to March the years' terms move on by one day, by two after a leap day (`YearMoves`).
That the store is not scrolled past its end needs room for one card, which the least
height of a window gives (`AppsAssumption`).

**Padding** (`KernelProofs`). `PaddingIsStrict` is `PaddingStrict`, the padding's part of
`CryptoRight`: for every length of a key, least fill, prefix and hash,
`rsa_pkcs1_v15_sha256_verify` accepts exactly one message, and no byte of it is free. The
code looks for the first byte behind the second that is not 255; that there is one, and one
only, is shown by the least such position (`StopIs`), and `EncodingIs` says which bytes a
message has if the code accepts it. The invariant is that what has opened is a message of
bytes, whatever the signature. `RsaAssumption` asks that prefix and hash are bytes.

**Only model-checked**: all liveness (`Delivery`, `HandshakeEnds`,
`WindowsReclaimed`, `CompositorReturns`, `CallReturns`, `RunsToEnd`), which is out
of this prover's reach, and the arithmetic of `CryptoRight` (`PowerRight`, `EcdsaRight`,
`AeadRight`): the radices of its numbers are powers, and the provers know no law of `^`
for an exponent that is not a literal; `EcdsaRight` would need the associativity of
the curve's group besides.

## 6. Where code and documentation disagree

Each of these is a run that TLC ends with a behaviour of the code:

* `tcp_karn`: the fast retransmit leaves the RTT probe armed, so a retransmitted
  segment gives a sample (CHANGELOG.md:221 says it cannot).
* `tcp_eof`: `tcp_close` sends its FIN past bytes in flight and queued; they are
  never retransmitted, and the peer sees a normal end without them
  (CHANGELOG.md:280 calls it graceful).
* `tcp_teardown`: a lost FIN is never sent again (RELEASE_NOTES.md:501 says the
  connection tears down cleanly).
* `desktop_race`: after a respawn `wait_for_socket` finds the dead compositor's
  path and launches the session at once (init.c:63 says it waits).
* `curves`: the key of an elliptic curve is never read from a certificate
  (x509.c:234 takes the bit string that x509.c:257 asks for again), so that no
  ECDSA chain is verified (CHANGELOG.md:12 says they are).

Seen in the source while modelling, without a run of their own:

* `fat32_mount` takes a successful `ata_read_sector` for a failure (fat32.c:30
  against ata.c:64), so that no FAT32 volume is ever mounted.
* `aead.c` has 16384 bytes for the MAC's input (aead.c:28, aead.c:52): a record of
  the largest size that TLS allows is sealed with a zero tag, or refused.
* `cmd_httpsget` (shell.c:1855-1880) leaves a failed connection open and goes on
  after a host name that does not match.
* `browser.c` drops the text of `<strong>`, which the comment at browser.c:48
  does not mention; a response that is cut at the end of a header line is shown as a
  page.
* UP in the shell, pressed more than ten times, goes round the ten entries that
  are kept and recalls newer commands again (shell.c:2812).
* The terminal of Path B polls its shell and then blocks in `vyro_proto_recv`:
  output appears with the next event (terminal/main.c:221-228).
* `net_pump_run`'s inner loop has no deadline (net_pump.c:15); `rtl_irq` leaves on
  a bad frame without moving on (rtl8139.c:54); `arp_resolve` drops what is not
  ARP (arp.c:127, in the model); a HELLO of another version is answered with an
  error and the connection stays (server.c:169, in the model).
* On a machine with another disk before a 4096-byte NVMe disk, `xlate_read` and
  `xlate_write` look for their slot with `bd->transport`, which is NULL for NVMe
  (block.c:75), and get that of device 0, whose sectors have 512 bytes
  (lba_xlate.c:28, lba_xlate.c:57): the sector is the wrong one and eight times as
  long. RELEASE_NOTES.md:56 says "xlate is single-device for now".
* In the kernel's calculator "5 + 3 =" gives 3.

## 7. What is not modelled

* **Path A**, `scripts/` and `build/`: packaging. **Drawing** (`chrome.c`,
  `draw.c`, `font.c`, widgets, wallpapers): pixels, no state that later steps
  depend on.
* **FAT32** and `ata.c`: nothing behind `fat32_mount` runs (section 6).
* **Bring-up** apart from the tables of processors: initialisation in one order of
  hardware that the repository does not define; `smp_start_aps` has no caller.
  The controllers' resets and identification, xHCI, the mouse's set-up belong here.
* **Network**: several connections on one listener and reopening of a closed one;
  ICMP, IPv6 (answers one frame from one frame, without state); `sockets.c` (stubs
  that never reach `tcp.c`); the card's own buffer; deadlines as times.
* **TLS**: `tls_send`; dates and purposes of certificates, which the code does not
  look at. **Cryptography**: the bit mixing of SHA-256 and ChaCha20, X25519, PSS
  padding, random numbers: test vectors are the better tool.
* **Applications**: calculators, games, monitors, the Launchpad (no code opens
  it); commands of the shell that only print.
* **Compositor**: geometry. A drag whose window entry is reused (input.c:88) is a
  hazard without a property; so is the write past `client_slot[]` (server.c:347),
  which the compiler's layout decides.

What could follow: TCP with the listener's table of connections; the geometry of a drag; the
terminal's two sources of input.
