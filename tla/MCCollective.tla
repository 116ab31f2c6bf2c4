---------------------------- MODULE MCCollective ----------------------------
(***************************************************************************)
(* Collective with three ranks.  They run every sequence of three calls    *)
(* with one folder, every one of three with two rank logs and of five with *)
(* one that begins by opening it, so that a folder is opened, written to,  *)
(* closed and opened again, and they open three folders, for which there   *)
(* are two slots.  The ranks' tables have one, no and two cells.           *)
(***************************************************************************)
EXTENDS Collective

CONSTANTS f1, f2, f3

MCFolders == {f1, f2, f3}

MCBeginsName == {}

MCUnopenable == {f1}

Global == [op : {"ordered", "silence", "unsilence", "dump"}, folder : {f1}]

OnFolders(F) == [op : {"open", "close", "write"}, folder : F]

MCPrograms == [1 .. 3 -> Global \cup OnFolders({f1})]
              \cup {p \in [1 .. 3 -> OnFolders({f1, f2})] : p[1].op = "open"}
              \cup {p \in [1 .. 5 -> OnFolders({f1})] : p[1].op = "open"}
              \cup [1 .. 3 -> [op : {"open"}, folder : MCFolders]]

MCNumCells == [r \in 0 .. 2 |-> CASE r = 0 -> 1 [] r = 1 -> 0 [] r = 2 -> 2]
=============================================================================
