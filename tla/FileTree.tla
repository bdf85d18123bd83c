------------------------------ MODULE FileTree ------------------------------
(***************************************************************************)
(* What a file system promises its users: a set of files, each at a path,  *)
(* and a current directory that exists.  Each operation touches exactly    *)
(* the path that it names; removing a directory removes what is below it.  *)
(***************************************************************************)
EXTENDS Sequences, Naturals

VARIABLES files,    \* records [path, type, text]
          at        \* the current directory's path

treeVars == <<files, at>>

Paths == {f.path : f \in files}
Dirs  == {f.path : f \in {g \in files : g.type = "dir"}}
Below(path) == {f \in files : Len(f.path) >= Len(path) /\ SubSeq(f.path, 1, Len(path)) = path}

TreeInit ==
    /\ <<>> \in Dirs
    /\ at = <<>>
    /\ \A f, g \in files : f.path = g.path => f = g
    /\ \A f \in files : f.type \in {"dir", "file", "link"}
    /\ \A f \in files : f.path # <<>> => SubSeq(f.path, 1, Len(f.path) - 1) \in Dirs

MakeFile ==
    \E f \in files' \ files :
        /\ f.path # <<>> /\ f.path \notin Paths /\ f.type \in {"dir", "file", "link"}
        /\ SubSeq(f.path, 1, Len(f.path) - 1) \in Dirs
        /\ files' = files \cup {f}
        /\ UNCHANGED at

RemovePath ==
    \E path \in Paths :
        /\ ~\E f \in Below(path) : f.path = at
        /\ files' = files \ Below(path)
        /\ UNCHANGED at

Rewrite ==
    \E f \in files, g \in files' :
        /\ f.type = "file" /\ g = [f EXCEPT !.text = g.text]
        /\ files' = (files \ {f}) \cup {g}
        /\ UNCHANGED at

Move == at' \in Dirs /\ UNCHANGED files

TreeNext == MakeFile \/ RemovePath \/ Rewrite \/ Move
TreeSpec == TreeInit /\ [][TreeNext]_treeVars
=============================================================================
