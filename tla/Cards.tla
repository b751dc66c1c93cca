--------------------------------- MODULE Cards ---------------------------------
(***************************************************************************)
(* The pools a box sells from (src/supervisor.js): memory and compute of   *)
(* its cards and the cores beside them.  A box has local cards, shielded   *)
(* cards on the host that a verdict file offers and withdraws, or a pool   *)
(* of such cards that is sold as one.  Shares are in units of 1/Whole of a *)
(* card, memory in units of 1/Whole of VRAM_GRANULARITY_GB.                *)
(***************************************************************************)
EXTENDS Integers, Functions

CONSTANTS
    CardIds,    \* cards
    Ids,        \* deployments
    Whole,      \* shares in one card
    Context,    \* CTX_OVERHEAD_GB, on local cards
    Sizes,      \* what a card may be probed to have, in whole granules
    MaxProbes   \* bound: probes and verdicts

VARIABLES
    mode,     \* "local", "shielded" or "pool"
    total,    \* cardVram
    vram,     \* vramFree
    compute,  \* computeFree
    ready,    \* cards the last verdict offered (available), or probed cards
    cores,    \* cpuPool.shareFree
    slice,    \* per deployment: shares held, [shares, cores, on] with what was taken of each card
    routed,   \* per deployment: the cards its launch was sent to
    clamped,  \* cards whose free memory was clamped at 0, not reconciled since
    probes

vars == <<mode, total, vram, compute, ready, cores, slice, routed, clamped, probes>>

None == [shares |-> 0, cores |-> 0, on |-> [c \in CardIds |-> 0]]
Most(S) == CHOOSE x \in S : \A y \in S : y <= x
Least(S) == CHOOSE x \in S : \A y \in S : x <= y
UpTo0(x) == IF x < 0 THEN 0 ELSE x
Within(x, cap) == IF x < cap THEN x ELSE cap

Init ==
    /\ mode \in {"local", "shielded"}
    /\ total \in {[c \in CardIds |-> n * Whole] : n \in Sizes}
    /\ vram = total /\ compute = [c \in CardIds |-> Whole]
    /\ ready = CardIds /\ cores = Whole
    /\ slice = [i \in Ids |-> None] /\ routed = [i \in Ids |-> {}]
    /\ clamped = {} /\ probes = MaxProbes

-----------------------------------------------------------------------------
(* Shares                                                                    *)

Holds(i, c) == slice[i].on[c]
Taken(c) == SumFunction([i \in Ids |-> Holds(i, c)])

\* ctxOverheadGb: none once shielded cards were adopted.
Overhead == IF mode = "local" THEN Context * Whole ELSE 0

\* normalizeGpuReq and need: what a share takes of a card, in whole granules; of
\* a pool, each card's exact part.
Granules(x) == ((x + Whole - 1) \div Whole) * Whole
Needed(s, c) == LET part == (s * total[c]) \div Whole
                IN  IF mode = "pool" THEN part ELSE Granules(part) + Overhead

\* cardFreeVram: a withdrawn shielded card has none.  The free memory its verdict reports
\* (proof.vramFreeGb), a second bound on what is offered, is taken never to be the lower one.
FreeOn(c) == IF mode # "local" /\ c \notin ready THEN 0 ELSE vram[c]

Fits(s, c) == FreeOn(c) >= Needed(s, c) /\ compute[c] >= s

\* allocGpu: every card of a pool, or the one that fits tightest.
Placement(s) ==
    IF mode = "pool" THEN IF \A c \in CardIds : Fits(s, c) THEN CardIds ELSE {}
    ELSE LET fit == {c \in CardIds : Fits(s, c)}
         IN  IF fit = {} THEN {}
             ELSE {CHOOSE c \in fit : \A d \in fit :
                     \/ FreeOn(c) - Needed(s, c) < FreeOn(d) - Needed(s, d)
                     \/ FreeOn(c) - Needed(s, c) = FreeOn(d) - Needed(s, d) /\ c <= d}

\* maxFreeGpuShare: the largest share one card (or every card of the pool) has left.
ShareOn(c) == Least({compute[c], UpTo0(((FreeOn(c) - Overhead) * Whole) \div total[c])})
MaxFreeGpuShare ==
    IF mode = "pool" THEN Least({ShareOn(c) : c \in CardIds})
    ELSE Most({ShareOn(c) : c \in CardIds})

\* What /availability offers: nothing of a pool whose backend is not ready, and
\* no more than the manager has.
Offered(managerFree, poolReady) ==
    IF mode = "pool" /\ ~poolReady THEN 0 ELSE Least({MaxFreeGpuShare, managerFree})

-----------------------------------------------------------------------------
(* Taking and giving back                                                    *)

Alloc(i, s, k) ==
    LET on == Placement(s)
    IN  /\ slice[i] = None /\ cores >= k /\ on # {}
        /\ slice' = [slice EXCEPT ![i] = [shares |-> s, cores |-> k,
                       on |-> [c \in CardIds |-> IF c \in on THEN Needed(s, c) ELSE 0]]]
        /\ vram' = [c \in CardIds |-> IF c \in on THEN vram[c] - Needed(s, c) ELSE vram[c]]
        /\ compute' = [c \in CardIds |-> IF c \in on THEN compute[c] - s ELSE compute[c]]
        /\ cores' = cores - k
        /\ UNCHANGED <<mode, total, ready, routed, clamped, probes>>

\* allocCpu.
AllocCores(i, k) ==
    /\ slice[i] = None /\ cores >= k
    /\ slice' = [slice EXCEPT ![i].cores = k] /\ cores' = cores - k
    /\ UNCHANGED <<mode, total, vram, compute, ready, routed, clamped, probes>>

\* Mutant: the memory of the slice, without the context beside it.
BackVramOnly(i, c) == IF Holds(i, c) = 0 THEN 0 ELSE Holds(i, c) - Overhead

\* releaseGpu gives back what was taken (_needV).
Back(i, c) == Holds(i, c)

Release(i) ==
    /\ slice[i] # None
    /\ vram' = [c \in CardIds |-> Within(vram[c] + Back(i, c), total[c])]
    /\ compute' = [c \in CardIds |->
                     Within(compute[c] + IF Holds(i, c) > 0 THEN slice[i].shares ELSE 0, Whole)]
    /\ cores' = Within(cores + slice[i].cores, Whole)
    /\ slice' = [slice EXCEPT ![i] = None] /\ routed' = [routed EXCEPT ![i] = {}]
    /\ UNCHANGED <<mode, total, ready, clamped, probes>>

\* shieldedLaunchSpec: to the cards the slice is on, all of them, or not at all;
\* a lease of local cards always launches on its own.
Launch(i) ==
    LET on == {c \in CardIds : Holds(i, c) > 0}
    IN  /\ on # {} /\ (mode # "local" => on \subseteq ready)
        /\ routed' = [routed EXCEPT ![i] = on]
        /\ UNCHANGED <<mode, total, vram, compute, ready, cores, slice, clamped, probes>>

-----------------------------------------------------------------------------
(* What the box learns of its cards                                          *)

\* A card that shrank keeps the difference off its free memory, not below 0.
Shrunk(c, size) == UpTo0(vram[c] + size - total[c])
Clamps(c, size) == vram[c] + size - total[c] < 0

\* discoverGpus, adoptCardVram: one size for all, the smallest probed.
Probe(size) ==
    /\ mode = "local" /\ probes > 0 /\ probes' = probes - 1
    /\ total' = [c \in CardIds |-> size]
    /\ vram' = [c \in CardIds |-> Shrunk(c, size)]
    /\ clamped' = clamped \union {c \in CardIds : Clamps(c, size)}
    /\ UNCHANGED <<mode, compute, ready, cores, slice, routed>>

\* reconcilePools: free is what the records do not hold.
Overheld(t) == {c \in CardIds : Taken(c) > t[c]}
Reconciled(t) == [c \in CardIds |-> Within(UpTo0(t[c] - Taken(c)), t[c])]

\* shieldedCapacity reads the verdict: cards that failed their checks or repeat
\* one are left out, and a pool that is not whole offers none. Once a pool,
\* always one.
Offers(cards, pooled) ==
    IF (pooled \/ mode = "pool") /\ ~(pooled /\ cards = CardIds) THEN {} ELSE cards

\* adoptShieldedCards: the budgets of the cards offered are taken over; a pool
\* is reconciled at once.
Verdict(cards, size, pooled) ==
    LET offers == Offers(cards, pooled)
        becomes == IF pooled /\ offers # {} THEN "pool" ELSE mode
        t == [c \in CardIds |-> IF c \in offers THEN size ELSE total[c]]
    IN  /\ mode # "local" /\ probes > 0 /\ probes' = probes - 1
        /\ mode' = becomes /\ ready' = offers /\ total' = t
        /\ IF becomes = "pool" /\ offers # {}
           THEN vram' = Reconciled(t) /\ clamped' = Overheld(t)
           ELSE /\ vram' = [c \in CardIds |-> IF c \in offers THEN Shrunk(c, size) ELSE vram[c]]
                /\ clamped' = clamped \union {c \in offers : Clamps(c, size)}
        /\ UNCHANGED <<compute, cores, slice, routed>>

\* The verdict is gone or malformed: capacity is withdrawn, leases are not.
VerdictGone ==
    /\ mode # "local" /\ ready # {} /\ ready' = {}
    /\ UNCHANGED <<mode, total, vram, compute, cores, slice, routed, clamped, probes>>

Reconcile ==
    /\ clamped # {} /\ clamped' = Overheld(total) /\ vram' = Reconciled(total)
    /\ UNCHANGED <<mode, total, compute, ready, cores, slice, routed, probes>>

Next ==
    \/ VerdictGone \/ Reconcile
    \/ \E n \in Sizes : \/ Probe(n * Whole)
                        \/ \E cards \in SUBSET CardIds, p \in BOOLEAN : Verdict(cards, n * Whole, p)
    \/ \E i \in Ids : \/ Release(i) \/ Launch(i)
                      \/ \E k \in 1 .. Whole : AllocCores(i, k) \/ \E s \in 1 .. Whole : Alloc(i, s, k)

Spec == Init /\ [][Next]_vars

-----------------------------------------------------------------------------
\* Free memory is what the slices do not hold, exactly, on every card that no
\* clamp at 0 has touched since the last reconciliation; compute and cores always.
\* What is offered can be taken, whatever budgets, withdrawals and releases come
\* before (allocGpu, releaseGpu, adoptCardVram, adoptShieldedCards, maxFreeGpuShare).
PoolsBalance ==
    /\ \A c \in CardIds \ clamped : vram[c] = UpTo0(total[c] - Taken(c))
    /\ \A c \in CardIds :
          compute[c] = Whole - SumFunction([i \in Ids |-> IF Holds(i, c) > 0 THEN slice[i].shares ELSE 0])
    /\ cores = Whole - SumFunction([i \in Ids |-> slice[i].cores])
    /\ Offered(Whole, TRUE) > 0 => Placement(Offered(Whole, TRUE)) # {}
    /\ \A i \in Ids : routed[i] # {} => routed[i] = {c \in CardIds : Holds(i, c) > 0}
===============================================================================
