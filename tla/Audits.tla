-------------------------------- MODULE Audits --------------------------------
(***************************************************************************)
(* Deployments with three histories: which seconds of a record its runners *)
(* were paid for, when each operator last claimed work under a required    *)
(* bond, and whose money a record's escrow was.  The histories only watch: *)
(* every step of an audited ledger is a step of Deployments, sorted by     *)
(* what it means to the history.                                           *)
(***************************************************************************)
EXTENDS Deployments

VARIABLES
    paidUpto,      \* [Ids -> Nat]: the last instant a runner was credited for
    leaseRate6,    \* [Ids -> Nat]: runner rate of the purchase in force
    bondedClaimAt, \* [Addresses -> Nat]: the last claim under bond
    ownMoney6      \* [Ids -> Nat]: the most of the escrow an owner can have funded

payHistory == <<paidUpto, leaseRate6>>
histories == <<payHistory, bondedClaimAt, ownMoney6>>
auditVars == <<vars, histories>>

AuditInit ==
    /\ Init
    /\ paidUpto = [i \in Ids |-> 0]
    /\ leaseRate6 = [i \in Ids |-> 0]
    /\ bondedClaimAt = [a \in Addresses |-> 0]
    /\ ownMoney6 = [i \in Ids |-> 0]

\* The calls that never run the meter.
UnmeteredStep ==
    \/ Tick \/ RegistryStep \/ CreateStep \/ ContentStep
    \/ FundingStep \/ BackingStep
    \/ BondStep \/ ImportStep \/ PolicyStep \/ GovernanceStep
    \/ \E a \in Addresses : withdrawEarnings(a)
    \/ \E a \in Users, id \in Ids :
           \/ \E cap \in CapChoices : setMaxRate(a, id, cap)
           \/ \E on \in BOOLEAN : setActive(a, id, on)
           \/ \E to \in Users : transferDeployment(a, id, to)

\* The calls that run the meter of record id and leave its lease's rate alone.
MeteringCall(id) ==
    \/ settle(id)
    \/ \E a \in Operators : renew(a, id) \/ release(a, id)
    \/ \E a \in Addresses : refund(a, id) \/ sweepEscrow(a, id)

-----------------------------------------------------------------------------
(* Which seconds runners were paid for                                       *)

\* The step runs _creditRunner on record id.
Credited(id, proven) ==
    paidUpto' = IF CreditSecs(id, proven) = 0
                  THEN paidUpto
                  ELSE [paidUpto EXCEPT ![id] = CreditUpto(id, proven)]

\* The step leaves a live lease bought at the record's new runner rate.
Bought(id) ==
    leaseRate6' = IF dep'[id].leaseUntil > now
                    THEN [leaseRate6 EXCEPT ![id] = earn'[id].rate6]
                    ELSE leaseRate6

AuditedPurchase ==
    \E id \in Ids :
        /\ \/ \E a \in Operators, e \in Enclaves : claim(a, id, e)
           \/ \E a \in Users, shares \in ShareChoices : setShares(a, id, shares)
        /\ Credited(id, provenUntil[id])
        /\ Bought(id)
        /\ UNCHANGED <<bondedClaimAt, ownMoney6>>

AuditedCredit ==
    \E id \in Ids :
        /\ MeteringCall(id)
        /\ Credited(id, provenUntil[id])
        /\ UNCHANGED <<leaseRate6, bondedClaimAt, ownMoney6>>

AuditedProof ==
    \E id \in Ids, upto \in 0..MaxTime :
        /\ creditProven(id, upto)
        /\ Credited(id, provenUntil'[id])
        /\ UNCHANGED <<leaseRate6, bondedClaimAt, ownMoney6>>

PayNext == \/ AuditedPurchase \/ AuditedCredit \/ AuditedProof
           \/ UnmeteredStep /\ UNCHANGED histories

PaySpec == AuditInit /\ [][PayNext]_auditVars

\* No second of a record's life is paid for twice, across renewals, resizes,
\* releases, failovers and changes of metering regime: while a box serves, its
\* meter stands at or after everything already paid (_creditRunner, claim).
NoSecondPaidTwice ==
    \A id \in Ids : dep[id].runner # NoEnclave =>
        earn[id].creditedUntil >= paidUpto[id]

\* What a runner still has coming for a lease is due at the runner rate the
\* lease was bought at: "settle the PREVIOUS runner's expired-lease tail at
\* ITS rate" (claim).
PaidAtLeaseRate ==
    \A id \in Ids :
        CreditAmount(id, provenUntil[id])
          <= CreditSecs(id, provenUntil[id]) * leaseRate6[id]

-----------------------------------------------------------------------------
(* When work was last claimed under a bond                                   *)

BondedClaim ==
    \E a \in Operators, id \in Ids, e \in Enclaves :
        /\ claim(a, id, e)
        /\ bondedClaimAt' = IF cfg.claimBond6 > 0
                              THEN [bondedClaimAt EXCEPT ![a] = now]
                              ELSE bondedClaimAt
        /\ UNCHANGED <<payHistory, ownMoney6>>

\* Every call but claim.
UnclaimedStep ==
    \/ UnmeteredStep \/ ProverStep
    \/ \E id \in Ids :
           \/ MeteringCall(id)
           \/ \E a \in Users, shares \in ShareChoices : setShares(a, id, shares)

BondNext == BondedClaim \/ (UnclaimedStep /\ UNCHANGED histories)

BondSpec == AuditInit /\ [][BondNext]_auditVars

\* The exit delays an admin ever sets, and the shortest of them.
ExitDelays == ExitDelayChoices \cup {InitialConfig.bondExitDelay}
MinExitDelay == CHOOSE d \in ExitDelays : \A o \in ExitDelays : d <= o

\* A bond that authorized a claim stays slashable for at least the shortest
\* exit delay after that claim ("Exit is timelocked so provable misbehavior
\* can be slashed before the bond walks", Bond; claim's exitAt check).
BondOutlivesClaim ==
    [][\A a \in Addresses :
          withdrawBond(a) /\ bondedClaimAt[a] > 0
              => now >= bondedClaimAt[a] + MinExitDelay]_auditVars

-----------------------------------------------------------------------------
(* Whose money a record's escrow was                                         *)

\* What a step leaves of the owner's money when it takes paid from it: a runner is taken to
\* earn the sponsors' money first, so no other reckoning leaves the owner more.
LeftOfOwn(id, own, paid) == Min2(IF paid > own THEN 0 ELSE own - paid, earn'[id].escrow6)

RefundNext ==
    \/ /\ \/ Tick \/ CreateStep \/ OwnerStep \/ LeaseStep
          \/ \E id \in Ids : settle(id)
       /\ ownMoney6' = [i \in Ids |-> LeftOfOwn(i, ownMoney6[i], 0)]
       /\ UNCHANGED <<payHistory, bondedClaimAt>>
    \/ \E a \in Users, id \in Ids, v \in FundAmounts :
           /\ fund(a, id, v)
           /\ ownMoney6' = [ownMoney6 EXCEPT
                  ![id] = IF a = dep[id].owner THEN @ + EscrowShare(id, v) ELSE @]
           /\ UNCHANGED <<payHistory, bondedClaimAt>>
    \/ \E a \in Addresses, id \in Ids :
           /\ refund(a, id)
           /\ ownMoney6' = [ownMoney6 EXCEPT ![id] = LeftOfOwn(id, @, usdcHeld - usdcHeld')]
           /\ UNCHANGED <<payHistory, bondedClaimAt>>

RefundSpec == AuditInit /\ [][RefundNext]_auditVars

\* A refund never pays out more than can be left of the money the record's owner funded: the
\* cap ownerEscrow6 "keeps a refund a reversal of the owner's own payment rather than a way
\* to withdraw a third party's top-up" (contract header).
RefundsOwnMoneyOnly ==
    [][\A a \in Addresses, id \in Ids :
          refund(a, id) => usdcHeld - usdcHeld' <= ownMoney6[id]]_auditVars

\* What a refund can pay once the lease has lapsed: the owner's escrow that is
\* not owed for time already served, since "the reserved tail becomes
\* refundable once ... the lease lapses unproven, so a second call collects
\* it" (refund).
LapsedTailIsRefundable ==
    \A id \in ids : now > dep[id].leaseUntil =>
        refundableOf(dep[id], earn[id], ownerEscrow6[id])
          = Min2(ownerEscrow6[id],
                 earn[id].escrow6 - CreditAmount(id, provenUntil[id]))
=============================================================================
