--------------------------------- MODULE Vfs ---------------------------------
(***************************************************************************)
(* The file system in memory (kernel/vfs.c), the shell's commands on it    *)
(* (shell.c) and the package manager, which keeps its packages in /bin     *)
(* (pkg.c).                                                                *)
(*                                                                         *)
(* A node is a cell of memory; a pointer is the number of a cell, 0 is     *)
(* NULL.  kmalloc gives the lowest cell that is not in use; the children   *)
(* of a directory that is removed stay allocated for good.                 *)
(* Left out: modes and owners, sizes, and the commands that only print.    *)
(* The user gives no directory the name of a package: vyropkg remove would *)
(* free it, even when it is the shell's current directory.                 *)
(***************************************************************************)
EXTENDS Integers, Sequences, FiniteSetsExt, Functions

CONSTANTS
    Cells,      \* how many nodes fit into the heap
    UserNames,  \* the names that the user gives to new files
    Known,      \* the names that the user looks up, writes to and removes
    Texts,      \* what files are made to hold
    Packages, Deps   \* repo: package -> the packages it needs, in order

VARIABLES
    node,       \* the cells
    cwd,        \* of the shell
    installed,  \* the packages with the flag set
    install     \* install_rec at work: the stack of [pkg, dep, stage]

vfsVars == <<node, cwd, installed, install>>

\* vfs_init finds memory for its six nodes; no directory has the name of a package.
ASSUME VfsAssumption ==
    /\ Cells \in Nat /\ Cells >= 6
    /\ Deps \in [Packages -> Seq(Packages)]
    /\ Packages \cap (UserNames \cup {"home", "bin", "user"}) = {}

Null == 0
Root == 1
Cell == 1..Cells

\* The names that nodes are given, by vfs_init, the user and the packages.
NodeNames == UserNames \cup Packages \cup {"", "/", "home", "bin", "user", "readme.txt", "notes.txt"}

FreeCell == [used |-> FALSE, name |-> "", type |-> "file", parent |-> Null, first |-> Null,
             next |-> Null, text |-> ""]

NewNode(d, name, type, text) ==
    [used |-> TRUE, name |-> name, type |-> type, parent |-> d, first |-> Null, next |-> Null, text |-> text]

\* The list of children of d, in mem.
Listing(mem, d) ==
    LET walk[k \in 0..Cells] ==
          [c \in 0..Cells |-> IF c = Null \/ k = 0 THEN <<>> ELSE <<c>> \o walk[k - 1][mem[c].next]]
    IN  walk[Cells][mem[d].first]

\* vfs_find in its list of children only, as vfs_remove searches; 0 for none.
Named(mem, d, name) ==
    LET ls == Listing(mem, d)
        at == {i \in DOMAIN ls : mem[ls[i]].name = name}
    IN  IF mem[d].type = "dir" /\ at # {} THEN ls[Min(at)] ELSE Null

\* vfs_find.
VfsFind(mem, d, name) ==
    IF mem[d].type # "dir" THEN Null
    ELSE IF name = "." THEN d
    ELSE IF name = ".." THEN mem[d].parent
    ELSE Named(mem, d, name)

\* Mutant of MayCreate: a name may be given twice.
MayCreateAgain(mem, d, name) == mem[d].type = "dir"

\* vfs_create's checks.
MayCreate(mem, d, name) == mem[d].type = "dir" /\ VfsFind(mem, d, name) = Null

SetFirst(mem, d, c) == [mem EXCEPT ![d].first = c]
SetNext(mem, b, c)  == [mem EXCEPT ![b].next = c]
SetText(mem, f, t)  == [mem EXCEPT ![f].text = t]

\* vfs_create in cell c: the new node is linked behind the last child.
Create(mem, c, d, name, type, text) ==
    LET ls  == Listing(mem, d)
        new == [mem EXCEPT ![c] = NewNode(d, name, type, text)]
    IN  IF ls = <<>> THEN SetFirst(new, d, c) ELSE SetNext(new, ls[Len(ls)], c)

\* The cell that kmalloc_zero gives.
Unused(mem) == {c \in Cell : ~mem[c].used /\ \A b \in 1..c - 1 : mem[b].used}

\* Mutant of Victim: the node is looked up as for cd.
VictimByPath(mem, d, name) == VfsFind(mem, d, name)

\* The node that vfs_remove unlinks and frees.
Victim(mem, d, name) == Named(mem, d, name)

\* vfs_remove: a directory goes whatever is in it.
VfsRemove(mem, d, name) ==
    LET v    == Victim(mem, d, name)
        prev == {c \in Cell : \E i \in DOMAIN Listing(mem, d) :
                    /\ i < Len(Listing(mem, d))
                    /\ Listing(mem, d)[i] = c /\ Listing(mem, d)[i + 1] = v}
        out  == IF prev = {} THEN SetFirst(mem, d, mem[v].next)
                ELSE SetNext(mem, CHOOSE c \in prev : TRUE, mem[v].next)
    IN  [out EXCEPT ![v] = FreeCell]

\* vfs_write: without memory the old text is gone nevertheless.
VfsWrite(mem, f, text) == {SetText(mem, f, t) : t \in {text, ""}}

----------------------------------------------------------------------------
\* vfs_init.
Booted ==
    LET n0 == [c \in Cell |-> IF c = Root THEN NewNode(Root, "/", "dir", "") ELSE FreeCell]
        n1 == Create(n0, 2, Root, "home", "dir", "")
        n2 == Create(n1, 3, Root, "bin", "dir", "")
        n3 == Create(n2, 4, Root, "readme.txt", "file", "welcome")
        n4 == Create(n3, 5, 2, "user", "dir", "")
    IN  Create(n4, 6, 5, "notes.txt", "file", "notes")

VfsInit ==
    /\ node = Booted
    /\ cwd = Root       \* print_prompt has called fs_ensure
    /\ installed = {}
    /\ install = <<>>

\* The shell runs one command at a time.
Command == install = <<>>

Cd(name) ==
    LET t == VfsFind(node, cwd, name)
    IN  /\ Command
        /\ cwd' = IF t # Null /\ node[t].type = "dir" THEN t ELSE cwd
        /\ UNCHANGED <<node, installed, install>>

CdHome == Command /\ cwd' = Root /\ UNCHANGED <<node, installed, install>>

\* cmd_mkdir and cmd_touch.
MkNode(name, type) ==
    /\ Command
    /\ MayCreate(node, cwd, name)
    /\ \E c \in Unused(node) : node' = Create(node, c, cwd, name, type, "")
    /\ UNCHANGED <<cwd, installed, install>>

\* cmd_write, for a file that is there; else cmd_touch comes first.
WriteFile(name, text) ==
    LET f == VfsFind(node, cwd, name)
    IN  /\ Command
        /\ f # Null /\ node[f].type = "file"
        /\ node' \in VfsWrite(node, f, text)
        /\ UNCHANGED <<cwd, installed, install>>

Rm(name) ==
    /\ Command
    /\ Victim(node, cwd, name) # Null
    /\ node' = VfsRemove(node, cwd, name)
    /\ UNCHANGED <<cwd, installed, install>>

\* cmd_ln: vfs_symlink; without memory for the target the link has none.
Ln(name, target) ==
    /\ Command
    /\ MayCreate(node, cwd, name)
    /\ \E c \in Unused(node), t \in {target, ""} : node' = Create(node, c, cwd, name, "link", t)
    /\ UNCHANGED <<cwd, installed, install>>

----------------------------------------------------------------------------
(* Packages.                                                               *)

Frame(p) == [pkg |-> p, dep |-> 1, stage |-> "deps"]

PkgInstall(p) ==
    /\ Command /\ p \notin installed
    /\ install' = <<Frame(p)>>
    /\ UNCHANGED <<node, cwd, installed>>

Now == install[Len(install)]
Callers == SubSeq(install, 1, Len(install) - 1)
Stage(s) == Append(Callers, [Now EXCEPT !.stage = s])

\* install_rec: the packages that are needed come first.
InstallDep ==
    /\ ~Command /\ Now.stage = "deps"
    /\ IF Now.dep \notin DOMAIN Deps[Now.pkg]
       THEN installed' = installed \cup {Now.pkg} /\ install' = Stage("bin")
       ELSE /\ install' = Append(Callers, [Now EXCEPT !.dep = @ + 1])
                            \o (IF Deps[Now.pkg][Now.dep] \in installed THEN <<>>
                                ELSE <<Frame(Deps[Now.pkg][Now.dep])>>)
            /\ UNCHANGED installed
    /\ UNCHANGED <<node, cwd>>

\* Then its file: in /bin, which is made if it is not there.
Bin == VfsFind(node, Root, "bin")

InstallBin ==
    /\ ~Command /\ Now.stage = "bin"
    /\ \/ /\ Bin = Null /\ Unused(node) # {}
          /\ \E c \in Unused(node) : node' = Create(node, c, Root, "bin", "dir", "")
          /\ install' = Stage("file")
       \/ /\ Bin # Null /\ install' = Stage("file") /\ UNCHANGED node
       \/ /\ Bin = Null /\ Unused(node) = {}
          /\ install' = Callers /\ UNCHANGED node
    /\ UNCHANGED <<cwd, installed>>

InstallFile ==
    LET f == VfsFind(node, Bin, Now.pkg)
    IN  /\ ~Command /\ Now.stage = "file"
        /\ IF f = Null /\ MayCreate(node, Bin, Now.pkg) /\ Unused(node) # {}
           THEN /\ \E c \in Unused(node) : node' = Create(node, c, Bin, Now.pkg, "file", "")
                /\ install' = Stage("text")
           ELSE /\ install' = IF f = Null THEN Callers ELSE Stage("text")
                /\ UNCHANGED node
        /\ UNCHANGED <<cwd, installed>>

InstallText ==
    LET f == VfsFind(node, Bin, Now.pkg)
    IN  /\ ~Command /\ Now.stage = "text"
        /\ IF node[f].type = "file" THEN node' \in VfsWrite(node, f, "package") ELSE UNCHANGED node
        /\ install' = Callers
        /\ UNCHANGED <<cwd, installed>>

\* pkg_remove: who needs the package is not asked.
PkgRemove(p) ==
    /\ Command /\ p \in installed
    /\ installed' = installed \ {p}
    /\ node' = IF Bin # Null /\ Victim(node, Bin, p) # Null THEN VfsRemove(node, Bin, p) ELSE node
    /\ UNCHANGED <<cwd, install>>

VfsNext ==
    \/ \E name \in Known : Cd(name) \/ Rm(name) \/ \E text \in Texts : WriteFile(name, text)
    \/ \E name \in UserNames, type \in {"dir", "file"} : MkNode(name, type)
    \/ \E name \in UserNames, target \in Texts : Ln(name, target)
    \/ CdHome
    \/ \E p \in Packages : PkgInstall(p) \/ PkgRemove(p)
    \/ InstallDep \/ InstallBin \/ InstallFile \/ InstallText

VfsSpec == VfsInit /\ [][VfsNext]_vfsVars

----------------------------------------------------------------------------
\* The files as the pointers show them: what is at most Cells names below the root,
\* each cell with its path.
Place == [cell : Cell, path : Seq(NodeNames)]
Files(mem) ==
    LET under[k \in 0..Cells] ==
          [f \in Place |-> {f} \cup
              IF k = 0 THEN {}
              ELSE UNION {under[k - 1][[cell |-> b, path |-> Append(f.path, mem[b].name)]] :
                              b \in Range(Listing(mem, f.cell))}]
    IN  under[Cells][[cell |-> Root, path |-> <<>>]]

\* Where a node is by its parent pointers, as vfs_full_path walks them.
PathOf(mem, d) ==
    LET up[k \in 0..Cells] ==
          [c \in 0..Cells |-> IF c \in {Null, Root} \/ k = 0 THEN <<>>
                              ELSE Append(up[k - 1][mem[c].parent], mem[c].name)]
    IN  up[Cells][d]

\* The commands keep what FileTree promises: the list of children, the parent
\* pointers and the freed cells agree; the file, link or directory that a command
\* names is the one it makes, changes or removes, and nothing else moves; the
\* shell is in a directory that is there (vfs.c, shell.c, pkg.c).
Tree == INSTANCE FileTree WITH
            files <- {[path |-> f.path, text |-> node[f.cell].text,
                       type |-> IF node[f.cell].used /\ PathOf(node, f.cell) = f.path
                                THEN node[f.cell].type ELSE "broken"] : f \in Files(node)},
            at    <- PathOf(node, cwd)
TreeSpec == Tree!TreeSpec
=============================================================================
