----------------------------- MODULE Directories ----------------------------
(***************************************************************************)
(* Making directories, src/include/mys/impl/os.c: mys_ensure_dir makes     *)
(* every directory of a path, and mys_ensure_parent those of the parent,   *)
(* from the top.  Each one is looked for first and made then, and all the  *)
(* ranks of a program do this at the same time for the folder of their     *)
(* logs or of a checkpoint's file, so that another one may have made it in *)
(* between (EEXIST).  Other programs put files into the tree.              *)
(*                                                                         *)
(* A path is the sequence of its names; <<>> is "/" or ".".  A name that   *)
(* ends in a slash only asks once more for what is there.                  *)
(***************************************************************************)
EXTENDS Integers, Sequences

CONSTANTS Makers,     \* the processes that make directories
          Paths,
          Denied,     \* the paths where they may not make one
          Strangers   \* the paths where another program may put a file

\* The path without its last name.
Parent(p) == SubSeq(p, 1, Len(p) - 1)

\* What a configuration must give.
DirectoriesAssumption ==
    /\ \A p \in Paths : p \in Seq({p[k] : k \in DOMAIN p})
    /\ <<>> \in Paths /\ \A p \in Paths \ {<<>>} : Parent(p) \in Paths
    /\ Denied \subseteq Paths /\ Strangers \subseteq Paths

VARIABLES
    file,      \* file[p]: what is at p, "none", "directory" or "file"
    wanted,    \* wanted[m]: the directory m ensures
    depth,     \* depth[m]: the length of the prefix of it that m has come to
    at         \* at[m]: "stat" or "mkdir", or "made" or "failed" at the end

vars == <<file, wanted, depth, at>>

Below(p) == p # <<>> /\ file[Parent(p)] = "directory"

\* What the callers want: the folder itself, or the parent of a file.
Target(routine, path) == IF routine = "mys_ensure_parent" THEN Parent(path) ELSE path

Init == /\ file \in [Paths -> {"none", "directory", "file"}]
        /\ file[<<>>] = "directory" /\ \A p \in Paths \ {<<>>} : file[p] # "none" => Below(p)
        /\ wanted \in [Makers -> {Target(r, p) : r \in {"mys_ensure_dir", "mys_ensure_parent"},
                                                 p \in Paths \ {<<>>}}]
        /\ depth = [m \in Makers |-> IF wanted[m] = <<>> THEN 0 ELSE 1]
        /\ at = [m \in Makers |-> "stat"]

Prefix(m) == SubSeq(wanted[m], 1, depth[m])

\* mys_mkdir is successful: on to the next name, or the end of mys_ensure_dir.
Succeed(m) ==
    IF depth[m] = Len(wanted[m]) THEN at' = [at EXCEPT ![m] = "made"] /\ UNCHANGED depth
    ELSE at' = [at EXCEPT ![m] = "stat"] /\ depth' = [depth EXCEPT ![m] = @ + 1]

Fail(m) == at' = [at EXCEPT ![m] = "failed"] /\ UNCHANGED depth

\* mys_mkdir looks for the directory.
Stat(m) ==
    /\ at[m] = "stat"
    /\ \/ file[Prefix(m)] = "none" /\ at' = [at EXCEPT ![m] = "mkdir"] /\ UNCHANGED depth
       \/ file[Prefix(m)] = "directory" /\ Succeed(m)
       \/ file[Prefix(m)] = "file" /\ Fail(m)
    /\ UNCHANGED <<file, wanted>>

\* Mutant of Mkdir: that the directory is there now is an error.
MkdirFailsWhenThere(m) ==
    /\ at[m] = "mkdir"
    /\ IF file[Prefix(m)] = "none" /\ Below(Prefix(m)) /\ Prefix(m) \notin Denied
       THEN file' = [file EXCEPT ![Prefix(m)] = "directory"] /\ Succeed(m)
       ELSE Fail(m) /\ UNCHANGED file
    /\ UNCHANGED wanted

\* mys_mkdir makes it.  EEXIST is as good, whatever it is that exists.
Mkdir(m) ==
    /\ at[m] = "mkdir"
    /\ IF file[Prefix(m)] # "none" THEN Succeed(m) /\ UNCHANGED file
       ELSE IF Below(Prefix(m)) /\ Prefix(m) \notin Denied
       THEN file' = [file EXCEPT ![Prefix(m)] = "directory"] /\ Succeed(m)
       ELSE Fail(m) /\ UNCHANGED file
    /\ UNCHANGED wanted

\* Another program puts a file into the tree.
PutFile(p) ==
    /\ file[p] = "none" /\ Below(p)
    /\ file' = [file EXCEPT ![p] = "file"]
    /\ UNCHANGED <<wanted, depth, at>>

Next == (\E m \in Makers : Stat(m) \/ Mkdir(m)) \/ \E p \in Strangers : PutFile(p)

Spec == Init /\ [][Next]_vars

-----------------------------------------------------------------------------
\* Who is told that the directory is there has all that is above it.  It has
\* the directory itself, but where another program put a file between stat and
\* mkdir: EEXIST is taken for success (os.c:419).  Who is told that it failed
\* was hindered by a file or by a right it does not have, never by another one
\* that makes the same directories at the same time.
DirectoriesExact ==
    \A m \in Makers :
        LET way == {SubSeq(wanted[m], 1, n) : n \in 0 .. Len(wanted[m])}
        IN /\ at[m] = "made" =>
                  \A p \in way :
                      file[p] = "directory" \/ (p = wanted[m] /\ p \in Strangers /\ file[p] = "file")
           /\ at[m] = "failed" =>
                  \E p \in way : file[p] = "file" \/ (p \in Denied /\ file[p] # "directory")

\* What the return value means to its reader.  No run checks it: it fails when a
\* file comes to the wanted place between stat and mkdir.
MadeIsThere == \A m \in Makers : at[m] = "made" => file[wanted[m]] = "directory"
=============================================================================
