------------------------------- MODULE LeaseLock -------------------------------
(***************************************************************************)
(* What the lease market promises, without prices or money: every work     *)
(* item is a lock with an expiry.  A free or expired lock may be acquired, *)
(* an unexpired one may only be re-timed by keeping its holder, or handed  *)
(* back.  "At-most-one-runner-at-a-time is enforced by the chain."         *)
(***************************************************************************)
EXTENDS Integers

CONSTANTS Locks, Holders, None

VARIABLES holder, until, clock

lockVars == <<holder, until, clock>>

LockInit ==
    /\ holder = [l \in Locks |-> None]
    /\ until = [l \in Locks |-> 0]
    /\ clock = 1

\* The expiry instant itself still belongs to the holder.
Expired(l) == clock > until[l]

Acquire(l) ==
    /\ Expired(l)
    /\ holder'[l] \in Holders
    /\ until'[l] > clock

\* Extend or shorten; whoever holds the lock keeps it beyond this instant.
Retime(l) ==
    /\ ~Expired(l)
    /\ holder[l] \in Holders
    /\ holder'[l] = holder[l]
    /\ until'[l] > clock

HandBack(l) ==
    /\ holder[l] \in Holders
    /\ holder'[l] = None
    /\ until'[l] = 0

OneLock(l) ==
    /\ Acquire(l) \/ Retime(l) \/ HandBack(l)
    /\ holder' = [holder EXCEPT ![l] = holder'[l]]
    /\ until' = [until EXCEPT ![l] = until'[l]]
    /\ clock' = clock

Elapse ==
    /\ clock' = clock + 1
    /\ UNCHANGED <<holder, until>>

LockNext == Elapse \/ \E l \in Locks : OneLock(l)

LockSpec == LockInit /\ [][LockNext]_lockVars
=============================================================================
