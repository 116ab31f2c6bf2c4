------------------------------ MODULE RankLog -------------------------------
(***************************************************************************)
(* The table of log folders of one process, ranklog.c under                *)
(* src/include/mys/impl/.                                                  *)
(*                                                                         *)
(* RANKLOG_OPEN gives a folder one of a fixed number of slots for good; a  *)
(* folder that is closed keeps its slot and is appended to when it is      *)
(* opened again.  A slot counts the lines written since the file was last  *)
(* opened (cur_wrote) and ever (tot_wrote).  Folders are looked up by      *)
(* strncmp with the length of the name that is asked for, so a name also   *)
(* finds a folder whose name it only begins.                               *)
(*                                                                         *)
(* The operators take the table of a process, dests[0 .. max_used - 1], as *)
(* a sequence.  The slots of a program that uses one thread per process    *)
(* are not looked up by one thread and used by another.                    *)
(***************************************************************************)
EXTENDS Integers, Sequences, FiniteSets, FiniteSetsExt

CONSTANTS Folders,
          NoFile,
          BeginsName,             \* pairs <<f, g>>: f is the beginning of g
          _MYS_RANK_LOG_DEST_NUM

ASSUME RankLogAssumption ==
    /\ NoFile \notin Folders
    /\ BeginsName \subseteq Folders \X Folders
    /\ _MYS_RANK_LOG_DEST_NUM \in Nat \ {0}

\* A slot: the folder's name, whose file it writes to, and the counters.
Slot == [folder : Folders, file : Folders \cup {NoFile}, tot_wrote : Nat, cur_wrote : Nat]

\* _mys_rank_log_find_dest, with 0 for its -1.
FindDest(dests, f) ==
    LET found == {i \in DOMAIN dests : dests[i].folder = f \/ <<f, dests[i].folder>> \in BeginsName}
    IN  IF found = {} THEN 0 ELSE Min(found)

IsOpen(dests, f) == FindDest(dests, f) # 0 /\ dests[FindDest(dests, f)].file # NoFile

\* mys_ranklog_open_old comes to the fopen.
MayOpen(dests, f) == ~IsOpen(dests, f) /\ Len(dests) # _MYS_RANK_LOG_DEST_NUM

\* The mode of the fopen: the first time "w", later "a".
Truncates(dests, f) == FindDest(dests, f) = 0

\* The table after a successful fopen.
Opened(dests, f) ==
    IF FindDest(dests, f) = 0
    THEN Append(dests, [folder |-> f, file |-> f, tot_wrote |-> 0, cur_wrote |-> 0])
    ELSE [dests EXCEPT ![FindDest(dests, f)].file = f, ![FindDest(dests, f)].cur_wrote = 0]

\* The table after mys_ranklog_close_old of an open folder.
Closed(dests, f) == [dests EXCEPT ![FindDest(dests, f)].file = NoFile]

\* The table after mys_ranklog_old has written a line to an open folder.
Wrote(dests, f) ==
    [dests EXCEPT ![FindDest(dests, f)].tot_wrote = @ + 1, ![FindDest(dests, f)].cur_wrote = @ + 1]

\* The file that line goes to.
FileOf(dests, f) == dests[FindDest(dests, f)].file
=============================================================================
