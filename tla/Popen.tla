-------------------------------- MODULE Popen --------------------------------
(***************************************************************************)
(* Child processes with pipes, src/include/mys/impl/os.c: mys_popen_t, a   *)
(* shell whose three standard streams are pipes, and mys_prun_t, which     *)
(* runs one to its end and captures what it prints.                        *)
(*                                                                         *)
(* The process has one thread in these functions.  A child runs a program, *)
(* a sequence of steps: it prints one unit, a character or a newline, to   *)
(* "out" or to "err", or reads "in" until its end; the parent writes       *)
(* nothing there.  A pipe holds PipeCapacity units and keeps their order.  *)
(* Nothing closes a descriptor at exec, so a child inherits the parent's   *)
(* ends of the pipes of those forked before it: the stdin of an earlier    *)
(* child has no end as long as a later one lives.  A read and a wait may   *)
(* fail at any time (a signal interrupts them, for one).                   *)
(***************************************************************************)
EXTENDS Naturals, Sequences

CONSTANTS NumKids,       \* the children, one for each call of create
          Programs,      \* what a child may do: sequences over Streams \X Units
          Codes,         \* exit codes
          PipeCapacity,
          FirstBuffer,   \* 4096, the first size of an allocated buffer
          Buffer         \* the size of the buffers given to mys_prun_create

Streams == {"in", "out", "err"}
Units == {"char", "newline"}     \* of "in" it does not matter which
Kids == 1 .. NumKids

ASSUME PopenAssumption ==
    /\ NumKids \in Nat
    /\ Programs \subseteq Seq(Streams \X Units)
    /\ Codes \subseteq 0 .. 255
    /\ PipeCapacity \in Nat \ {0}
    /\ FirstBuffer \in Nat \ {0} /\ Buffer \in Nat \ {0}

VARIABLES
    child,      \* child[k]: "none", "running", "stopped", "zombie" or "reaped"
    rest,       \* rest[k]: the steps child k still has to do
    code,       \* code[k]: what it exited with
    signaled,   \* the children that were ended by a signal
    pipe,       \* pipe[k][s]: how many units are in the pipe of a stream
    fds,        \* fds[k]: the streams whose end the parent has open
    inherited,  \* inherited[k]: the parent's ends <<j, s>> child k got
    alive, retval,   \* members of the mys_popen_t of child k
    kind,       \* kind[k]: "popen", "prun" (given buffers) or "prun2"
    len, cap,   \* len[k][s], cap[k][s]: the buffers of a mys_prun_t; the first
                \* len[k][s] units that were printed are in them
    held,       \* held[k]: the memory of the handle that is allocated
    success,    \* the handles whose mys_prun_t says success
    call,       \* the parent's call: [at, of], of being the child
    printed,    \* printed[k][s]: what child k has printed (history)
    short,      \* the children whose output was not read to its end (history)
    seen,       \* those for which mys_popen_test has said false (history)
    closed      \* the handles that were waited for, killed or destroyed (history)

processes == <<child, rest, code, signaled>>
channels == <<pipe, printed, inherited>>
handle == <<alive, retval, kind, len, cap, held, success>>
history == <<short, seen, closed>>
popenVars == <<processes, channels, fds, handle, call, history>>

None == [s \in {"out", "err"} |-> 0]
NoRetval == 256      \* -1, which no exit code is
Outside == [at |-> "outside", of |-> 0]

PopenInit == /\ child = [k \in Kids |-> "none"]
             /\ rest = [k \in Kids |-> <<>>]
             /\ code = [k \in Kids |-> 0]
             /\ signaled = {}
             /\ pipe = [k \in Kids |-> None]
             /\ printed = [k \in Kids |-> [s \in {"out", "err"} |-> <<>>]]
             /\ fds = [k \in Kids |-> {}] /\ inherited = [k \in Kids |-> {}]
             /\ alive = [k \in Kids |-> FALSE]
             /\ retval = [k \in Kids |-> NoRetval]
             /\ kind = [k \in Kids |-> "unused"]
             /\ len = [k \in Kids |-> None] /\ cap = [k \in Kids |-> None]
             /\ held = [k \in Kids |-> {}]
             /\ success = {}
             /\ call = Outside
             /\ short = {} /\ seen = {} /\ closed = {}

-----------------------------------------------------------------------------
Lives(k) == child[k] \in {"running", "stopped"}

\* Whether somebody has the parent's end of a pipe of child k open.
Open(k, s) == \/ s \in fds[k]
              \/ \E j \in Kids : Lives(j) /\ <<k, s>> \in inherited[j]

Ends(k, kill) ==
    /\ child' = [child EXCEPT ![k] = "zombie"]
    /\ signaled' = IF kill THEN signaled \cup {k} ELSE signaled

\* Child k prints a unit, if there is room, or dies of SIGPIPE, if nobody can
\* read it.
ChildPrints(k, s) ==
    /\ child[k] = "running" /\ rest[k] # <<>> /\ Head(rest[k])[1] = s
    /\ IF Open(k, s)
       THEN /\ pipe[k][s] < PipeCapacity
            /\ pipe' = [pipe EXCEPT ![k][s] = @ + 1]
            /\ printed' = [printed EXCEPT ![k][s] = Append(@, Head(rest[k])[2])]
            /\ rest' = [rest EXCEPT ![k] = Tail(@)]
            /\ UNCHANGED <<child, signaled>>
       ELSE Ends(k, TRUE) /\ UNCHANGED <<pipe, printed, rest>>
    /\ UNCHANGED <<code, inherited, fds, handle, call, history>>

\* Child k reads the end of its stdin.
ChildReads(k) ==
    /\ child[k] = "running" /\ rest[k] # <<>> /\ Head(rest[k])[1] = "in"
    /\ ~Open(k, "in")
    /\ rest' = [rest EXCEPT ![k] = Tail(@)]
    /\ UNCHANGED <<child, code, signaled, channels, fds, handle, call, history>>

ChildExits(k, c) ==
    /\ child[k] = "running" /\ rest[k] = <<>>
    /\ Ends(k, FALSE)
    /\ code' = [code EXCEPT ![k] = c]
    /\ UNCHANGED <<rest, channels, fds, handle, call, history>>

Child(k) == ChildPrints(k, "out") \/ ChildPrints(k, "err") \/ ChildReads(k)
            \/ \E c \in Codes : ChildExits(k, c)

-----------------------------------------------------------------------------
GoOn(at, k) == call' = [at |-> at, of |-> k]

\* The parent's ends that are open when child k is forked.
ParentEnds == {e \in Kids \X Streams : e[2] \in fds[e[1]]}

\* Handle k is created next.
Fresh(k) == /\ call = Outside
            /\ \A j \in Kids : kind[j] = "unused" <=> j >= k

\* mys_popen_create, called by the client or by one of mys_prun_create and
\* mys_prun_create2, which has allocated the text of the command.
Create(k, p, how) ==
    /\ Fresh(k)
    /\ kind' = [kind EXCEPT ![k] = how]
    /\ child' = [child EXCEPT ![k] = "running"]
    /\ rest' = [rest EXCEPT ![k] = p]
    /\ inherited' = [inherited EXCEPT ![k] = ParentEnds]
    /\ fds' = [fds EXCEPT ![k] = Streams]
    /\ alive' = [alive EXCEPT ![k] = TRUE]
    /\ \E b \in {0, Buffer} :      \* no buffer for "err" is a size of 0
           cap' = [cap EXCEPT ![k] = [s \in {"out", "err"} |->
                      IF how # "prun" THEN 0 ELSE IF s = "out" THEN Buffer ELSE b]]
    /\ held' = [held EXCEPT ![k] = IF how = "prun2" THEN {"cmd"} ELSE {}]
    /\ IF how = "popen" THEN UNCHANGED call ELSE GoOn("out", k)
    /\ UNCHANGED <<code, signaled, pipe, printed, retval, len, success, history>>

\* A pipe or the fork fails.  What was opened is closed, the text of the
\* command is not freed.
CreateFails(k, how) ==
    /\ Fresh(k)
    /\ kind' = [kind EXCEPT ![k] = how]
    /\ held' = [held EXCEPT ![k] = IF how = "prun2" THEN {"cmd"} ELSE {}]
    /\ UNCHANGED <<processes, channels, fds, alive, retval, len, cap, success, call, history>>

\* Where a prun goes on when it has read a stream.
After(s, k) == IF s = "out" THEN GoOn("err", k) ELSE GoOn("cut", k)

Full(k, s) == cap[k][s] - len[k][s] <= 1     \* one is left for the terminator

\* mys_readfd reads what is in the pipe, up to the buffer's size.
Read(k, s) ==
    /\ call = [at |-> s, of |-> k]
    /\ ~Full(k, s) /\ pipe[k][s] > 0
    /\ LET room == cap[k][s] - len[k][s] - 1
           n    == IF pipe[k][s] < room THEN pipe[k][s] ELSE room
       IN  /\ len' = [len EXCEPT ![k][s] = @ + n]
           /\ pipe' = [pipe EXCEPT ![k][s] = @ - n]
    /\ UNCHANGED <<processes, printed, inherited, fds, alive, retval, kind, cap, held, success, call, history>>

\* Mutant of ReadEnds: an empty pipe is taken for its end.
ReadEndsEarly(k, s) ==
    /\ call = [at |-> s, of |-> k]
    /\ ~Full(k, s) /\ pipe[k][s] = 0
    /\ After(s, k)
    /\ UNCHANGED <<processes, channels, fds, handle, history>>

\* The end of the stream: the pipe is empty and child k has ended.
ReadEnds(k, s) ==
    /\ call = [at |-> s, of |-> k]
    /\ ~Full(k, s) /\ pipe[k][s] = 0 /\ ~Lives(k)
    /\ After(s, k)
    /\ UNCHANGED <<processes, channels, fds, handle, history>>

\* An allocated buffer doubles.
ReadGrows(k, s) ==
    /\ call = [at |-> s, of |-> k]
    /\ Full(k, s) /\ kind[k] = "prun2"
    /\ cap' = [cap EXCEPT ![k][s] = IF @ = 0 THEN FirstBuffer ELSE 2 * @]
    /\ held' = [held EXCEPT ![k] = @ \cup {s}]
    /\ UNCHANGED <<processes, channels, fds, alive, retval, kind, len, success, call, history>>

\* A given buffer is full, or one cannot be allocated: the rest stays unread.
ReadStops(k, s) ==
    /\ call = [at |-> s, of |-> k]
    /\ Full(k, s)
    /\ short' = short \cup {k}
    /\ After(s, k)
    /\ UNCHANGED <<processes, channels, fds, handle, seen, closed>>

\* read fails: the rest stays unread, and nobody is told.
ReadFails(k, s) ==
    /\ call = [at |-> s, of |-> k]
    /\ ~Full(k, s)
    /\ short' = short \cup {k}
    /\ After(s, k)
    /\ UNCHANGED <<processes, channels, fds, handle, seen, closed>>

\* m units are left of the first n of text without the newlines at their end.
Trims(text, n, m) == /\ m > 0 => text[m] # "newline"
                     /\ \A i \in m + 1 .. n : text[i] = "newline"

\* _mys_cut_suffix_space of both buffers.
Cut(k) ==
    /\ call = [at |-> "cut", of |-> k]
    /\ \E out \in 0 .. len[k]["out"], err \in 0 .. len[k]["err"] :
           /\ Trims(printed[k]["out"], len[k]["out"], out)
           /\ Trims(printed[k]["err"], len[k]["err"], err)
           /\ len' = [len EXCEPT ![k] = [s \in {"out", "err"} |-> IF s = "out" THEN out ELSE err]]
    /\ GoOn("close", k)
    /\ UNCHANGED <<processes, channels, fds, alive, retval, kind, cap, held, success, history>>

Closed(k) == fds' = [fds EXCEPT ![k] = {}]

\* Mutant of Close: only waitpid, the pipes stay open.
CloseNothing(k) ==
    /\ call = [at |-> "close", of |-> k]
    /\ GoOn("wait", k)
    /\ UNCHANGED <<processes, channels, fds, handle, history>>

\* mys_popen_wait closes the pipes before it waits.
Close(k) ==
    /\ call = [at |-> "close", of |-> k]
    /\ Closed(k)
    /\ GoOn("wait", k)
    /\ UNCHANGED <<processes, channels, handle, history>>

\* waitpid has child k: WEXITSTATUS of a child that a signal ended is 0.
Reaped(k) ==
    /\ child[k] = "zombie"
    /\ child' = [child EXCEPT ![k] = "reaped"]
    /\ retval' = [retval EXCEPT ![k] = IF k \in signaled THEN 0 ELSE code[k]]
    /\ alive' = [alive EXCEPT ![k] = FALSE]

\* The end of a wait or a kill; for a prun it is the end of the call, which
\* says success whatever became of the wait.
WaitEnds(k) ==
    /\ call' = Outside
    /\ success' = IF kind[k] = "popen" THEN success ELSE success \cup {k}
    /\ closed' = IF kind[k] = "popen" THEN closed \cup {k} ELSE closed
    /\ UNCHANGED <<rest, code, signaled, channels, fds, kind, len, cap, held, short, seen>>

\* waitpid of mys_popen_wait and mys_popen_kill.
Wait(k) ==
    /\ call = [at |-> "wait", of |-> k]
    /\ Reaped(k)
    /\ WaitEnds(k)

\* Mutant of WaitFails: the status is taken all the same.
WaitFailsAsZero(k) ==
    /\ call = [at |-> "wait", of |-> k]
    /\ retval' = [retval EXCEPT ![k] = 0]
    /\ alive' = [alive EXCEPT ![k] = FALSE]
    /\ WaitEnds(k) /\ UNCHANGED child

\* It fails: the child stays as it is.
WaitFails(k) ==
    /\ call = [at |-> "wait", of |-> k]
    /\ retval' = [retval EXCEPT ![k] = NoRetval]
    /\ alive' = [alive EXCEPT ![k] = FALSE]
    /\ WaitEnds(k) /\ UNCHANGED child

-----------------------------------------------------------------------------
Client(k) == call = Outside /\ kind[k] = "popen"

\* mys_popen_test finds the end of the child, ...
TestRuns(k) ==
    /\ Client(k) /\ alive[k] /\ child[k] = "zombie"
    /\ Reaped(k)
    /\ seen' = seen \cup {k}
    /\ UNCHANGED <<rest, code, signaled, channels, fds, kind, len, cap, held, success, call, short, closed>>

\* ... or its waitpid fails.
TestFails(k) ==
    /\ Client(k) /\ alive[k]
    /\ alive' = [alive EXCEPT ![k] = FALSE]
    /\ seen' = seen \cup {k}
    /\ UNCHANGED <<processes, channels, fds, retval, kind, len, cap, held, success, call, short, closed>>

\* mys_popen_wait of a child that is alive, as far as the handle knows, ...
StartWait(k) ==
    /\ Client(k) /\ alive[k]
    /\ GoOn("close", k)
    /\ UNCHANGED <<processes, channels, fds, handle, history>>

\* ... and of any other, where it and mys_popen_kill return at once.
WaitAgain(k) ==
    /\ Client(k) /\ ~alive[k]
    /\ closed' = closed \cup {k}
    /\ UNCHANGED <<processes, channels, fds, handle, call, short, seen>>

\* mys_popen_kill sends any signal, which ends a child that lives, stops it,
\* or does neither, and then waits for it.
Kill(k) ==
    /\ Client(k) /\ alive[k]
    /\ \/ Lives(k) /\ Ends(k, TRUE)
       \/ child[k] = "running" /\ child' = [child EXCEPT ![k] = "stopped"] /\ UNCHANGED signaled
       \/ UNCHANGED <<child, signaled>>
    /\ Closed(k)
    /\ GoOn("wait", k)
    /\ UNCHANGED <<rest, code, channels, handle, history>>

\* mys_prun_destroy does nothing for a handle that is not successful.
Destroy(k) ==
    /\ call = Outside /\ kind[k] \in {"prun", "prun2"} /\ k \notin closed
    /\ IF k \in success
       THEN held' = [held EXCEPT ![k] = {}] /\ len' = [len EXCEPT ![k] = None]
       ELSE UNCHANGED <<held, len>>
    /\ closed' = closed \cup {k}
    /\ UNCHANGED <<processes, channels, fds, alive, retval, kind, cap, success, call, short, seen>>

Parent(k) ==
    \/ \E s \in {"out", "err"} : Read(k, s) \/ ReadEnds(k, s) \/ ReadGrows(k, s) \/ ReadStops(k, s)
    \/ Cut(k) \/ Close(k) \/ Wait(k)

\* What the parent may meet, and nothing makes it.
Fails(k) == TestFails(k) \/ WaitFails(k) \/ \E s \in {"out", "err"} : ReadFails(k, s)

PopenNext ==
    \E k \in Kids :
        \/ \E p \in Programs, how \in {"popen", "prun", "prun2"} : Create(k, p, how)
        \/ \E how \in {"popen", "prun", "prun2"} : CreateFails(k, how)
        \/ Child(k) \/ Parent(k) \/ Fails(k)
        \/ TestRuns(k) \/ StartWait(k) \/ WaitAgain(k) \/ Kill(k) \/ Destroy(k)

PopenSpec == PopenInit /\ [][PopenNext]_popenVars

\* The parent goes on with a call it is in, and the children run.
PopenFairSpec == PopenSpec /\ \A k \in Kids : WF_popenVars(Parent(k)) /\ WF_popenVars(Child(k))

-----------------------------------------------------------------------------
\* What a prun that says success hands out is what its child printed, without
\* the newlines at its end, and the code the child ended with, or -1 if the wait
\* failed; then it has not ended the child by a signal.  It is the beginning of
\* that only if a buffer was full or a read failed, and never more than a buffer.
OutputIsCaptured ==
    \A k \in success \ closed :
        /\ \A s \in {"out", "err"} : len[k][s] <= Len(printed[k][s]) /\ len[k][s] <= cap[k][s]
        /\ k \notin short =>
               /\ \A s \in {"out", "err"} : Trims(printed[k][s], Len(printed[k][s]), len[k][s])
               /\ k \notin signaled
               /\ retval[k] \in {code[k], NoRetval}

\* After a wait, a kill or the destruction of a prun, whatever the child did and
\* whatever failed: the descriptors are closed, unless mys_popen_test has said
\* false before; the child has been waited for, or retval is -1; and the memory
\* is free, but for the command of a prun that could not start.
CleanedUp ==
    \A k \in closed :
        /\ k \notin seen => fds[k] = {}
        /\ child[k] = "reaped" \/ retval[k] = NoRetval
        /\ held[k] \subseteq IF kind[k] = "popen" \/ k \in success THEN {} ELSE {"cmd"}

\* "You still have to call mys_popen_wait() to clean up if test return false"
\* (os.h): after that wait, nothing is left.
WaitCleansUpAfterTest == \A k \in closed \cap seen : child[k] = "reaped" => fds[k] = {}

\* Four ways of waiting for each other for ever that the code leaves to its
\* callers: the child fills the pipe of one stream while the parent reads the
\* other to its end; it reads its stdin, which a prun closes after the output;
\* it was stopped; or a later child that lives has inherited the parent's ends
\* of its pipes.
Entangled(k) ==
    \/ call.at \in {"out", "err"} /\ child[k] = "running"
          /\ \E s \in {"out", "err"} : call.at # s /\ pipe[k][s] = PipeCapacity
    \/ call.at \in {"out", "err"} /\ child[k] = "running" /\ rest[k] # <<>> /\ Head(rest[k])[1] = "in"
    \/ child[k] = "stopped"
    \/ \E j \in Kids, s \in Streams : Lives(j) /\ <<k, s>> \in inherited[j]

\* Every call that waits for child k ends, unless they are entangled for ever.
CallsEnd == \A k \in Kids : <>[](call.of = k) => <>[]Entangled(k)
=============================================================================
