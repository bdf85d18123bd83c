------------------------------- MODULE MCKernel -------------------------------
(***************************************************************************)
(* Components of the kernel for TLC, one in each session.  They share no   *)
(* variable, so that what one of them does is independent of the others:   *)
(* a behaviour of all of them together is, for each, one of a session.     *)
(***************************************************************************)
EXTENDS Heap, Tasks, Ipc, Vfs, Pages, Devices, Rsa, Ecdsa, Aead, SequencesExt

VARIABLE session

heapVars == vars
kernelVars == <<session, heapVars, taskVars, ipcVars, vfsVars, pagesVars, keyVars, mouseVars, acpiVars,
                rsaVars, verify, seal>>

----------------------------------------------------------------------------
\* Values of the constants.
MCDeps == [p \in Packages |-> IF p = "libtext" THEN <<"libc">> ELSE <<>>]

Region(base, length, type) == [base |-> base, length |-> length, type |-> type]
MCFirmware ==
    {[source |-> "e820", table |-> <<Region(0, 9, 1), Region(9, 3, 2), Region(12, 5, 1), Region(17, 1, 4), Region(0, 0, 1)>>],
     [source |-> "e820", table |-> <<Region(0, 21, 1), Region(6, 3, 5)>>],
     [source |-> "e820", table |-> <<Region(0, 3, 1), Region(30, 4, 2)>>],
     [source |-> "uefi", table |-> <<Region(0, 8, 2), Region(8, 4, 7), Region(12, 4, 3), Region(16, 4, 10), Region(20, 4, 7)>>],
     [source |-> "uefi", table |-> <<Region(0, 12, 7), Region(12, 4, 9), Region(16, 4, 6)>>]}

Motion(dx, dy, pressed) == [dx |-> dx, dy |-> dy, buttons |-> pressed]
MCMoves == {Motion(-1, 2, 1), Motion(255, -256, 4), Motion(2, 1, 2)}

RootOf(ok, revision, xsdt, rsdt) == [sum_ok |-> ok, revision |-> revision, xsdt |-> xsdt, rsdt |-> rsdt]
MCRoots ==
    LET some == <<"FACP", "APIC">>   none == <<"FACP">>
    IN  {<<>>, <<RootOf(TRUE, 2, some, none)>>, <<RootOf(TRUE, 0, <<>>, some)>>, <<RootOf(TRUE, 2, <<>>, none)>>,
         <<RootOf(FALSE, 2, some, some), RootOf(TRUE, 0, some, none)>>,
         <<RootOf(FALSE, 2, none, some), RootOf(TRUE, 2, some, none)>>, <<RootOf(FALSE, 2, some, some)>>,
         <<RootOf(TRUE, 2, <<"FACP", "HPET", "MCFG", "APIC">>, <<>>)>>, <<RootOf(TRUE, 2, <<>>, <<>>)>>}
Computer(roots, listed, cut) ==
    [roots |-> roots, madt |-> FlattenSeq(listed), cut |-> cut,
     heads |-> [k \in 1..Len(listed) + 1 |-> Len(FlattenSeq(SubSeq(listed, 1, k - 1)))]]
MCComputers ==
    {Computer(r, e, c) : r \in MCRoots, c \in {0, 3},
        e \in {<<Lapic(0, TRUE), Lapic(1, FALSE), IoApic(4), Lapic(2, TRUE)>>,
               <<IoApic(1), <<4, 6, 0, 0, 0, 1>>, Lapic(3, TRUE), Lapic(5, TRUE), Lapic(7, TRUE), Lapic(9, TRUE)>>}}
        \cup {Computer(r, <<>>, 0) : r \in MCRoots}

MCPrefix == <<1>>
MCDigests == {<<1>>}

\* The curve y^2 = x^3 - 3x + 10 modulo 11 has 7 points, infinity being one.
MCGenerator == <<2, 1>>
MCKeys == {k \in (0..P - 1) \X (0..P - 1) : (k[2] * k[2] - (k[1] * k[1] * k[1] - 3 * k[1] + 10)) % P = 0}

FiveLimbs(a, b, c, d, e) == [i \in 0..4 |-> <<a, b, c, d, e>>[i + 1]]
MCKeyStream == [c \in 1..3 |-> [i \in 1..4 |-> (c * 37 + i * 11) % 128]]
MCPolyKeys ==
    {[r |-> FiveLimbs(63, 63, 63, 63, 63), pad |-> 2 ^ 28 - 1], [r |-> FiveLimbs(1, 0, 0, 0, 0), pad |-> 7],
     [r |-> FiveLimbs(59, 63, 63, 63, 63), pad |-> 0], [r |-> FiveLimbs(13, 48, 63, 5, 15), pad |-> 1234567]}
MCAads == {<<>>, <<127>>, <<127, 127, 127, 127>>, <<0>>, <<5, 0, 127, 0, 64>>}
MCPlainTexts ==
    {<<>>, <<0>>, <<0, 0>>, <<127, 127, 127, 127>>, <<1, 2, 3, 4, 5>>, <<9, 9, 9, 9, 9, 9, 9, 9, 9>>,
     <<127, 127, 127, 127, 127, 127, 127, 127>>}
MCTampered(s) ==
    {s, Append(s, 0)}
        \cup (IF s = <<>> THEN {} ELSE {SubSeq(s, 1, Len(s) - 1), [s EXCEPT ![1] = (@ + 64) % 128]})

----------------------------------------------------------------------------
KernelInit ==
    /\ session \in {"heap", "tasks", "ipc", "files", "pages", "keys", "mouse", "cpus", "rsa", "ecdsa", "aead"}
    /\ HeapInit /\ TaskInit /\ VfsInit /\ PagesInit /\ KeyInit /\ MouseInit /\ RsaInit /\ EcdsaInit /\ AeadInit
    /\ IpcInit
    /\ session # "ipc" => pipes[0].buf[0] = CHOOSE b \in PipeByte : TRUE
    /\ AcpiInit
    /\ session # "cpus" => computer = CHOOSE c \in Computers : TRUE

HeapSession   ==
    /\ session = "heap" /\ UNCHANGED <<session, taskVars, ipcVars, vfsVars, pagesVars, keyVars, mouseVars, acpiVars, rsaVars, verify, seal>>
    /\ Next
TaskSession   ==
    /\ session = "tasks" /\ UNCHANGED <<session, heapVars, ipcVars, vfsVars, pagesVars, keyVars, mouseVars, acpiVars, rsaVars, verify, seal>>
    /\ TaskNext
IpcSession    ==
    /\ session = "ipc" /\ UNCHANGED <<session, heapVars, taskVars, vfsVars, pagesVars, keyVars, mouseVars, acpiVars, rsaVars, verify, seal>>
    /\ IpcNext
FilesSession  ==
    /\ session = "files" /\ UNCHANGED <<session, heapVars, taskVars, ipcVars, pagesVars, keyVars, mouseVars, acpiVars, rsaVars, verify, seal>>
    /\ VfsNext
PagesSession  ==
    /\ session = "pages" /\ UNCHANGED <<session, heapVars, taskVars, ipcVars, vfsVars, keyVars, mouseVars, acpiVars, rsaVars, verify, seal>>
    /\ PagesNext
KeysSession   ==
    /\ session = "keys" /\ UNCHANGED <<session, heapVars, taskVars, ipcVars, vfsVars, pagesVars, mouseVars, acpiVars, rsaVars, verify, seal>>
    /\ KeyNext
MouseSession  ==
    /\ session = "mouse" /\ UNCHANGED <<session, heapVars, taskVars, ipcVars, vfsVars, pagesVars, keyVars, acpiVars, rsaVars, verify, seal>>
    /\ MouseNext
CpusSession   ==
    /\ session = "cpus" /\ UNCHANGED <<session, heapVars, taskVars, ipcVars, vfsVars, pagesVars, keyVars, mouseVars, rsaVars, verify, seal>>
    /\ AcpiNext
RsaSession    ==
    /\ session = "rsa" /\ UNCHANGED <<session, heapVars, taskVars, ipcVars, vfsVars, pagesVars, keyVars, mouseVars, acpiVars, verify, seal>>
    /\ RsaNext
EcdsaSession  ==
    /\ session = "ecdsa" /\ UNCHANGED <<session, heapVars, taskVars, ipcVars, vfsVars, pagesVars, keyVars, mouseVars, acpiVars, rsaVars, seal>>
    /\ EcdsaNext
AeadSession   ==
    /\ session = "aead" /\ UNCHANGED <<session, heapVars, taskVars, ipcVars, vfsVars, pagesVars, keyVars, mouseVars, acpiVars, rsaVars, verify>>
    /\ AeadNext

KernelNext ==
    \/ HeapSession \/ TaskSession \/ IpcSession \/ FilesSession \/ PagesSession \/ KeysSession
    \/ MouseSession \/ CpusSession \/ RsaSession \/ EcdsaSession \/ AeadSession

\* The fairness of the modules Heap and Tasks.
KernelSpec == KernelInit /\ [][KernelNext]_kernelVars /\ WF_heapVars(Runs) /\ TaskFairness

----------------------------------------------------------------------------
\* The arithmetic of RSA, of the elliptic curve and of Poly1305, and what is
\* accepted on its word (rsa.c, rsa_pss.c, bignum.c, ecdsa.c, poly1305.c, aead.c).
CryptoRight == PowerRight /\ PaddingStrict /\ EcdsaRight /\ AeadRight
=============================================================================
