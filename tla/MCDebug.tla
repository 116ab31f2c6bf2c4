------------------------------- MODULE MCDebug ------------------------------
(***************************************************************************)
(* Debug with a thread besides main, three signals of which mys_debug_init *)
(* sets one, and room for two: a second one can be set, cleared and set    *)
(* again, and a third is refused.  The client catches the second signal.   *)
(* The process is set up twice.  The function of the timer runs once at a  *)
(* time: what is shown of late ones is a clear or restart that overtakes   *)
(* one (DebugProofs has any number).                                       *)
(***************************************************************************)
EXTENDS Debug

CONSTANTS s1, s2, s3, x1

MCInstalled == <<s1>>

MCoriginal == [s \in Signals \cup {SIGTIMEOUT} |-> IF s = s2 THEN "client" ELSE "default"]
=============================================================================
