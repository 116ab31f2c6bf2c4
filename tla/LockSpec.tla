------------------------------ MODULE LockSpec ------------------------------
(***************************************************************************)
(* What a mys_mutex_t promises, whatever its representation (the header    *)
(* thread.h offers two: a spin word and a pthread mutex).  The lock is     *)
(* free, owned by one thread, or destroyed.  A step moves it between "free"*)
(* and one of the two others and never from owner to owner.                *)
(***************************************************************************)
CONSTANTS Threads,  \* the threads of the process
          Free,     \* the lock is initialised and nobody owns it
          Dead      \* the lock was destroyed

VARIABLE owner

Init == owner = Free

Acquire(t) == owner = Free /\ owner' = t
Release(t) == owner = t /\ owner' = Free
Destroy    == owner = Free /\ owner' = Dead
Revive     == owner = Dead /\ owner' = Free

Next == \/ \E t \in Threads : Acquire(t) \/ Release(t)
        \/ Destroy
        \/ Revive

Spec == Init /\ [][Next]_owner
=============================================================================
