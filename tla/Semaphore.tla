------------------------------ MODULE Semaphore ------------------------------
(***************************************************************************)
(* What a counting semaphore promises its callers: a wait that succeeds    *)
(* took one token, a release that succeeds added one, and a release is     *)
(* refused only when the semaphore is full.  An interrupt may release it   *)
(* too.  QosaSem implements it.                                            *)
(***************************************************************************)
EXTENDS Naturals

CONSTANTS
    Threads,    \* the tasks that use the semaphore
    Isr,        \* whether an interrupt releases it as well
    SemMax      \* the most tokens it can hold

VARIABLES
    tokens,
    state       \* the progress and the outcome of each task's call

vars == <<tokens, state>>

Init ==
    /\ tokens = 0
    /\ state = [t \in Threads |-> "idle"]

Become(t, from, to) == state[t] = from /\ state' = [state EXCEPT ![t] = to]

Wait(t) == Become(t, "idle", "waiting") /\ UNCHANGED tokens

Take(t) ==
    /\ Become(t, "waiting", "took")
    /\ tokens > 0
    /\ tokens' = tokens - 1

TimeOut(t) == Become(t, "waiting", "timedout") /\ UNCHANGED tokens

Release(t) == Become(t, "idle", "releasing") /\ UNCHANGED tokens

Give(t) ==
    /\ Become(t, "releasing", "gave")
    /\ tokens < SemMax
    /\ tokens' = tokens + 1

Refuse(t) ==
    /\ Become(t, "releasing", "refused")
    /\ tokens = SemMax
    /\ UNCHANGED tokens

Return(t) ==
    /\ \E from \in {"took", "timedout", "gave", "refused"} : Become(t, from, "idle")
    /\ UNCHANGED tokens

\* The interrupt's release; nobody looks at its result.
Interrupt ==
    /\ Isr /\ tokens < SemMax
    /\ tokens' = tokens + 1
    /\ UNCHANGED state

Next ==
    \/ Interrupt
    \/ \E t \in Threads :
        \/ Wait(t) \/ Take(t) \/ TimeOut(t)
        \/ Release(t) \/ Give(t) \/ Refuse(t)
        \/ Return(t)

Spec == Init /\ [][Next]_vars
=============================================================================
