------------------------------- MODULE MCScreen -------------------------------
(***************************************************************************)
(* What a user works with for TLC: the desktop of Path B, the kernel's own *)
(* one, the applications of both and the shell's console, one in each      *)
(* session.  They share no variable, so that what one of them does is      *)
(* independent of the others: a behaviour of all of them together is, for  *)
(* each, one of a session.                                                 *)
(***************************************************************************)
EXTENDS MCDesktop, Gui, Apps, LinuxApps, Console, TLC

VARIABLE session

desktopVars == vars
screenVars == <<session, desktopVars, guiVars, kernelAppVars, linuxVars, consoleVars>>

----------------------------------------------------------------------------
\* Values of the constants.
MCTree == [root |-> <<"home", "f", "g">>, home |-> <<"h", "sub">>, sub |-> <<>>]
MCWelcome == <<"letter", "newline", "letter">>
MCFat == <<"x", "y">>
MCPackages == [s \in {"", "l", "libq"} |-> CASE s = "" -> 8 [] s = "l" -> 5 [] s = "libq" -> 0]

DirEntry(name, dir) == [name |-> name, dir |-> dir]
MCFolders ==
    (<<>> :> <<DirEntry("..", TRUE), DirEntry("home", TRUE), DirEntry("x", FALSE)>>)
    @@ (<<"home">> :> <<DirEntry("..", TRUE), DirEntry("d", TRUE), DirEntry("f", FALSE), DirEntry("g", FALSE)>>)
    @@ (<<"home", "d">> :> <<>>)
MCOnDisk == {<<>>, <<"x", "newline", "x">>}
MCStart == <<"home">>

MCOutputs == {<<>>, <<Newline, "x">>}

----------------------------------------------------------------------------
\* What may begin in different ways does so in its own session only.
ScreenInit ==
    /\ session \in {"linux desktop", "kernel desktop", "kernel apps", "linux apps", "console"}
    /\ Init /\ GuiInit /\ AppsInit /\ LinuxInit /\ ConsoleInit
    /\ session # "kernel apps" => front = "notes"
    /\ session # "linux apps"  => client = "files"

DesktopSession ==
    /\ session = "linux desktop" /\ UNCHANGED <<session, guiVars, kernelAppVars, linuxVars, consoleVars>>
    /\ Next

GuiSession ==
    /\ session = "kernel desktop" /\ UNCHANGED <<session, desktopVars, kernelAppVars, linuxVars, consoleVars>>
    /\ GuiNext

AppsSession ==
    /\ session = "kernel apps" /\ UNCHANGED <<session, desktopVars, guiVars, linuxVars, consoleVars>>
    /\ AppsNext

LinuxSession ==
    /\ session = "linux apps" /\ UNCHANGED <<session, desktopVars, guiVars, kernelAppVars, consoleVars>>
    /\ LinuxNext

ConsoleSession ==
    /\ session = "console" /\ UNCHANGED <<session, desktopVars, guiVars, kernelAppVars, linuxVars>>
    /\ ConsoleNext

ScreenNext == DesktopSession \/ GuiSession \/ AppsSession \/ LinuxSession \/ ConsoleSession

ScreenSpec == ScreenInit /\ [][ScreenNext]_screenVars
===============================================================================
