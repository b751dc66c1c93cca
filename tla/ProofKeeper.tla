------------------------------ MODULE ProofKeeper ------------------------------
(***************************************************************************)
(* Proof of time: the loops of src/supervisor.js that earn the lease       *)
(* seconds a box holds, against the checkpoint rule of EnclaveProofOfTime  *)
(* and the watermark the ledger keeps.  Time is a bounded clock in ticks.  *)
(***************************************************************************)
EXTENDS Integers, FiniteSets

CONSTANTS
    Ids,        \* deployments
    Window,     \* proofWindowSec
    Interval,   \* PROOF_INTERVAL_SEC
    Quantum,    \* leaseSec
    PerTx,      \* PROOF_MAX_PER_TX
    MaxTime,    \* bound: the clock
    MaxFaults   \* bound: lost transactions, failed launches and restarts

VARIABLES
    now,
    lease,      \* ledger and prover: [held, until, proven, gap]; gap counts the ticks
                \* since the last accepted proof
    rec,        \* the box's record: [st, provenAt, until]
    round,      \* the steady round: [at, age, rest, cps]
    ending,     \* teardowns: [at, since, until, upto, release]
    burst,      \* seconds the prover accepted at this very instant
    faults

vars == <<now, lease, rec, round, ending, burst, faults>>

Smaller(a, b) == IF a < b THEN a ELSE b

LongAgo == MaxTime + 1
NoLease == [held |-> FALSE, until |-> 0, proven |-> 0, gap |-> LongAgo]
NoRec == [st |-> "over", provenAt |-> 0, until |-> 0]
NotEnding == [at |-> "no", since |-> 0, until |-> 0, upto |-> 0, release |-> FALSE]
Ending(id, release) == [at |-> "prove", since |-> now, until |-> rec[id].until, upto |-> 0,
                        release |-> release]
NoRound == [at |-> "idle", age |-> Interval, rest |-> {}, cps |-> {}]

Init ==
    /\ now = 0
    /\ lease = [id \in Ids |-> NoLease]
    /\ rec = [id \in Ids |-> NoRec]
    /\ round = NoRound
    /\ ending = [id \in Ids |-> NotEnding]
    /\ burst = [id \in Ids |-> 0]
    /\ faults = MaxFaults

Fault == faults > 0 /\ faults' = faults - 1

Tick ==
    /\ now < MaxTime
    /\ now' = now + 1
    /\ burst' = [id \in Ids |-> 0]
    /\ lease' = [id \in Ids |-> [lease[id] EXCEPT !.gap = Smaller(@ + 1, LongAgo)]]
    /\ round' = [round EXCEPT !.age = Smaller(@ + 1, Interval)]
    /\ UNCHANGED <<rec, ending, faults>>

-----------------------------------------------------------------------------
(* The lease and its apps                                                    *)

\* adopt after a claim: the ledger seeds the watermark with the present.
Claim(id) ==
    /\ rec[id].st = "over" /\ ending[id].at = "no"
    /\ ~lease[id].held \/ lease[id].until < now
    /\ lease' = [lease EXCEPT ![id] = [@ EXCEPT !.held = TRUE, !.until = now + Quantum,
                                                !.proven = now]]
    /\ \E ok \in BOOLEAN :
        /\ ok \/ faults > 0
        /\ faults' = IF ok THEN faults ELSE faults - 1
        /\ rec' = [rec EXCEPT ![id] = IF ok THEN [st |-> "running", provenAt |-> 0,
                                                  until |-> now + Quantum]
                                      ELSE NoRec]
        /\ ending' = [ending EXCEPT ![id] = IF ok THEN NotEnding
                         ELSE [NotEnding EXCEPT !.at = "release", !.release = TRUE]]
    /\ UNCHANGED <<now, round, burst>>

Renew(id) ==
    /\ rec[id].st = "running" /\ lease[id].held /\ now <= lease[id].until
    /\ lease[id].until + Quantum <= MaxTime
    /\ lease' = [lease EXCEPT ![id].until = @ + Quantum]
    /\ rec' = [rec EXCEPT ![id].until = lease[id].until + Quantum]
    /\ UNCHANGED <<now, round, ending, burst, faults>>

-----------------------------------------------------------------------------
(* The prover contract                                                       *)

\* Mutant: the window alone, without the elapsed time.
BudgetOfWindow(id) == Window

\* checkpoint: clamped to the present, to the lease, to one window past what
\* was proven and to the time that has passed since the last accepted proof.
Budget(id) == Smaller(lease[id].gap, Window)

Through(id, upto) ==
    Smaller(Smaller(upto, now), Smaller(lease[id].until, lease[id].proven + Budget(id)))

Lands(id, upto) == lease[id].held /\ Through(id, upto) > lease[id].proven

Checkpointed(id, upto) ==
    LET gain == Through(id, upto) - lease[id].proven
    IN  [lease[id] EXCEPT !.proven = @ + gain, !.gap = 0]

-----------------------------------------------------------------------------
(* The steady rounds                                                         *)

ProofTick ==
    /\ round.at = "idle" /\ round.age >= Interval
    /\ LET mine == {id \in Ids : rec[id].st = "running" /\ rec[id].until > now}
       IN  round' = IF mine = {} THEN [round EXCEPT !.age = 0]
                    ELSE [at |-> "sign", age |-> 0, rest |-> mine, cps |-> {}]
    /\ round' # round
    /\ UNCHANGED <<now, lease, rec, ending, burst, faults>>

Stalest(S, n) ==
    {T \in SUBSET S : /\ Cardinality(T) = Smaller(n, Cardinality(S))
                      /\ \A a \in T, b \in S \ T : rec[a].provenAt <= rec[b].provenAt}

\* buildCheckpoints: only for apps whose port answers, oldest proof first.
SignBatch ==
    /\ round.at = "sign"
    /\ \E alive \in SUBSET round.rest :
        IF alive = {}
          THEN round' = [NoRound EXCEPT !.age = round.age]
          ELSE \E batch \in Stalest(alive, PerTx) :
                 round' = [round EXCEPT !.at = "sent",
                             !.cps = {<<id, Smaller(now, rec[id].until)>> : id \in batch}]
    /\ UNCHANGED <<now, lease, rec, ending, burst, faults>>

\* The batch lands; each proof counts or is refused on its own, a single one
\* reverts and ends the round.
BatchLands ==
    /\ round.at = "sent"
    /\ LET good == {c \in round.cps : Lands(c[1], c[2])}
           ids == {c[1] : c \in good}
           upto(id) == (CHOOSE c \in good : c[1] = id)[2]
           rest == round.rest \ ids
           stop == good = {} \/ rest = {}
       IN  /\ lease' = [id \in Ids |-> IF id \in ids THEN Checkpointed(id, upto(id)) ELSE lease[id]]
           /\ burst' = [id \in Ids |-> burst[id] + lease'[id].proven - lease[id].proven]
           /\ rec' = [id \in Ids |-> IF id \in ids THEN [rec[id] EXCEPT !.provenAt = now] ELSE rec[id]]
           /\ round' = IF stop THEN [NoRound EXCEPT !.age = round.age]
                       ELSE [round EXCEPT !.at = "sign", !.rest = rest, !.cps = {}]
    /\ UNCHANGED <<now, ending, faults>>

BatchLost ==
    /\ round.at = "sent" /\ Fault
    /\ round' = [NoRound EXCEPT !.age = round.age]
    /\ UNCHANGED <<now, lease, rec, ending, burst>>

-----------------------------------------------------------------------------
(* Teardowns: prove, then release                                            *)

\* proveAndRelease (release) or the reaper's proveFinalPeriod (no release).
\* A record that never ran here has nothing to prove.
BeginEnding(id, release) ==
    /\ rec[id].st = "running"
    /\ release \/ now > rec[id].until
    /\ rec' = [rec EXCEPT ![id] = NoRec]
    /\ ending' = [ending EXCEPT ![id] = Ending(id, release)]
    /\ UNCHANGED <<now, lease, round, burst, faults>>

SignFinal(id) ==
    /\ ending[id].at = "prove"
    /\ ending' = [ending EXCEPT ![id].at = "sent", ![id].upto = Smaller(now, ending[id].until)]
    /\ UNCHANGED <<now, lease, rec, round, burst, faults>>

AfterProof(id) == IF ending[id].release
                  THEN [ending[id] EXCEPT !.at = "release", !.until = 0, !.upto = 0] ELSE NotEnding

\* Mutant: the release does not wait for the checkpoint's receipt.
FinalNotAwaited(id) ==
    /\ ending[id].at = "sent"
    /\ ending' = [ending EXCEPT ![id] = AfterProof(id)]
    /\ UNCHANGED <<now, lease, rec, round, burst, faults>>

\* Best effort: a final checkpoint that reverts or is lost does not stop the release.
FinalLands(id) ==
    /\ ending[id].at = "sent"
    /\ lease' = [lease EXCEPT ![id] = IF Lands(id, ending[id].upto)
                                        THEN Checkpointed(id, ending[id].upto) ELSE @]
    /\ burst' = [burst EXCEPT ![id] = @ + lease'[id].proven - lease[id].proven]
    /\ ending' = [ending EXCEPT ![id] = AfterProof(id)]
    /\ UNCHANGED <<now, rec, round, faults>>

FinalLost(id) ==
    /\ ending[id].at = "sent" /\ Fault
    /\ ending' = [ending EXCEPT ![id] = AfterProof(id)]
    /\ UNCHANGED <<now, lease, rec, round, burst>>

\* release: the lease ends and the watermark is cleared.
ReleaseLands(id) ==
    /\ ending[id].at = "release"
    /\ lease' = [lease EXCEPT ![id] = [@ EXCEPT !.held = FALSE, !.until = 0, !.proven = 0]]
    /\ ending' = [ending EXCEPT ![id] = NotEnding]
    /\ UNCHANGED <<now, rec, round, burst, faults>>

\* Shutdown: everything at once; the process exits when all is done or when
\* the ten seconds are over, whatever is still on its way.
Shutdown ==
    /\ \E id \in Ids : rec[id].st = "running"
    /\ ending' = [id \in Ids |-> IF rec[id].st = "running"
                     THEN Ending(id, TRUE) ELSE ending[id]]
    /\ rec' = [id \in Ids |-> NoRec]
    /\ UNCHANGED <<now, lease, round, burst, faults>>

Exit ==
    /\ Fault
    /\ ending' = [id \in Ids |-> NotEnding]
    /\ round' = NoRound
    /\ UNCHANGED <<now, lease, rec, burst>>

-----------------------------------------------------------------------------
Next ==
    \/ Tick \/ ProofTick \/ SignBatch \/ BatchLands \/ BatchLost
    \/ Shutdown \/ Exit
    \/ \E id \in Ids :
        \/ Claim(id) \/ Renew(id)
        \/ \E release \in BOOLEAN : BeginEnding(id, release)
        \/ SignFinal(id) \/ FinalLands(id) \/ FinalLost(id) \/ ReleaseLands(id)

Spec == Init /\ [][Next]_vars

\* Time cannot be compressed: whatever mixture of steady rounds and final
\* proofs lands in one instant, the prover accepts at most one window for a
\* deployment (EnclaveProofOfTime.checkpoint's elapsed budget).
Incompressible == \A id \in Ids : burst[id] <= Window

\* Nothing the box served is given away on an orderly hand-back: when the
\* release lands and nothing failed, the watermark has reached the moment the
\* teardown began or the lease's end, or a proof was accepted since (whose
\* elapsed budget may trail by the time an earlier one took to land)
\* (proveAndRelease, releaseClaimsOnShutdown: release clears the watermark).
PaysUp ==
    \A id \in Ids :
        ReleaseLands(id) /\ faults = MaxFaults =>
            \/ lease[id].proven >= Smaller(ending[id].since, lease[id].until)
            \/ now - lease[id].gap >= ending[id].since
=============================================================================
