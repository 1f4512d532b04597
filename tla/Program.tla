------------------------------- MODULE Program -------------------------------
(***************************************************************************)
(* One run of the program: main (module Launch) and, while p.Run lasts,    *)
(* the screens of the terminal UI (module Screens).                        *)
(***************************************************************************)
EXTENDS Launch, Screens

CONSTANT BesideStarts   \* bound: how the UI starts beside a tunnel or a worktree

ASSUME StartAssumption == BesideStarts \subseteq Starts

vars == <<launchVars, screenVars>>

Init == LaunchInit /\ ScreensInit

\* ctrl+c is handled before any screen sees it, and p.Run may also fail.  What
\* the screens hold goes with it.
Quit == CloseUI /\ remote' = FALSE /\ ScreensGone

Next ==
  \/ LaunchNext /\ UNCHANGED screenVars
  \/ /\ OpenUI
     /\ \E how \in IF wt = None /\ ~tunnel THEN Starts ELSE BesideStarts : StartUI(how)
  \/ pc = "ui" /\ ScreensNext /\ UNCHANGED launchVars
  \/ Quit

Spec == Init /\ [][Next]_vars
=============================================================================
