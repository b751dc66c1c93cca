------------------------------ MODULE Deployments ------------------------------
(***************************************************************************)
(* EnclaveDeployments.sol: the deployment ledger and lease market.  A      *)
(* deployment is a chain object with a prepaid balance; an enclave claims  *)
(* it for a bounded lease at its own price, renews it while it serves, and *)
(* releases it; a lease that lapses puts the work back in the queue.  The  *)
(* runner's share of every USDC funding stays in the contract as escrow    *)
(* and is credited to the runner's operator as lease time elapses.         *)
(*                                                                         *)
(* Every external call is one action whose first argument is msg.sender.   *)
(* A multicall is a run of actions between two clock ticks.  Time is       *)
(* block.timestamp in scaled seconds; money is USDC 6dp in small units.    *)
(***************************************************************************)
EXTENDS Registry, FiniteSets

CONSTANTS
    Ids,                 \* the deployment ids that creates and imports use
    NoEnclave,           \* bytes32(0)
    AppRefs, Configs,    \* what an owner may point a record at
    ShareChoices,        \* <<gpuMilli, cpuMilli>> pairs an owner may buy
    FeeChoices,          \* publisher fees per second
    CapChoices,          \* spend ceilings per second
    FundAmounts,         \* USDC amounts one call moves
    EthCredits,          \* what one ETH funding is worth in USDC
    BpsChoices, LeaseSecChoices, BondChoices, ExitDelayChoices,
    CutoverChoices, MaxGpuChoices, MaxFeeChoices,
                         \* what the admin may set each parameter to
    ImportRecords,       \* records of a previous ledger, replayed on import
    InitialConfig,       \* the parameters after the constructor
    MaxTime,             \* bound on the clock
    MaxFunded,           \* bound on a record's lifetime funding
    MaxEscrow,           \* bound on a record's escrow and on ownerEscrow6
    MaxBond              \* bound on an operator's bond

Milli == 0..1000     \* thousandths of a machine's GPU or CPU
Bps == 0..10000      \* basis points

Deployment == [owner          : Addresses \cup {NoAddr},
               appRef         : AppRefs,
               configCid      : Configs,
               gpuMilli       : Milli,
               cpuMilli       : Milli,
               active         : BOOLEAN,
               rate           : Nat,
               balance6       : Nat,
               spent6         : Nat,
               runner         : Enclaves \cup {NoEnclave},
               runnerOperator : Addresses \cup {NoAddr},
               leaseUntil     : Nat]

Earn == [rate6 : Nat, escrow6 : Nat, creditedUntil : Nat]

Bond == [amount6 : Nat, exitAt : Nat]

Config == [owner             : Addresses,
           pendingOwner      : Addresses \cup {NoAddr},
           payout            : Addresses,
           retired           : BOOLEAN,
           importsSealed     : BOOLEAN,
           prover            : BOOLEAN,   \* an EnclaveProofOfTime is bound
           ethUsdFeed        : BOOLEAN,   \* ETH funding is enabled
           leaseSec          : Nat \ {0},
           maxGpuMilli       : Milli,
           maxFeePerSec6     : Nat,
           runnerBps         : Bps,
           claimBond6        : Nat,
           bondExitDelay     : Nat \ {0},
           proofRequiredFrom : Nat]

ASSUME BoundAssumption ==
    /\ MaxTime \in Nat /\ MaxFunded \in Nat /\ MaxEscrow \in Nat
    /\ MaxBond \in Nat
ASSUME EnclaveAssumption == NoEnclave \notin Enclaves
\* Ids are 32-byte words and addresses 20-byte ones.
ASSUME FiniteAssumption == IsFiniteSet(Ids) /\ IsFiniteSet(Addresses)
ASSUME InputAssumption ==
    /\ ShareChoices \subseteq Milli \X Milli
    /\ FeeChoices \subseteq Nat /\ CapChoices \subseteq Nat
    /\ FundAmounts \subseteq Nat /\ EthCredits \subseteq Nat
    /\ ImportRecords \subseteq Deployment
    /\ InitialConfig \in Config
    /\ AppRefs # {} /\ Configs # {}
ASSUME AdminAssumption ==
    /\ BpsChoices \subseteq Bps
    /\ LeaseSecChoices \subseteq Nat \ {0}
    /\ BondChoices \subseteq Nat
    /\ ExitDelayChoices \subseteq Nat \ {0}
    /\ CutoverChoices \subseteq Nat
    /\ MaxGpuChoices \subseteq Milli
    /\ MaxFeeChoices \subseteq Nat

VARIABLES
    now,           \* block.timestamp
    ids,           \* _ids / _exists: the records that exist
    dep,           \* _deployments
    fee,           \* _fees[id].rate6
    earn,          \* _earn
    maxRate6,      \* _maxRate6 (0 = uncapped)
    ownerEscrow6,  \* ownerEscrow6
    provenUntil,   \* provenUntil
    earned6,       \* earned6
    bond,          \* _bonds
    cfg,           \* owner, flags and parameters
    usdcHeld       \* usdc.balanceOf(this)

moneyVars == <<earned6, bond, usdcHeld>>
recordVars == <<ids, dep, fee, earn, maxRate6, ownerEscrow6, provenUntil>>
vars == <<enclave, now, recordVars, moneyVars, cfg>>

Min2(a, b) == IF a <= b THEN a ELSE b

EmptyRecord == [owner |-> NoAddr, appRef |-> CHOOSE r \in AppRefs : TRUE,
                configCid |-> CHOOSE c \in Configs : TRUE,
                gpuMilli |-> 0, cpuMilli |-> 0, active |-> FALSE, rate |-> 0,
                balance6 |-> 0, spent6 |-> 0, runner |-> NoEnclave,
                runnerOperator |-> NoAddr, leaseUntil |-> 0]

Init ==
    /\ RegistryInit
    /\ now = 1
    /\ ids = {}
    /\ dep = [i \in Ids |-> EmptyRecord]
    /\ fee = [i \in Ids |-> 0]
    /\ earn = [i \in Ids |-> [rate6 |-> 0, escrow6 |-> 0, creditedUntil |-> 0]]
    /\ maxRate6 = [i \in Ids |-> 0]
    /\ ownerEscrow6 = [i \in Ids |-> 0]
    /\ provenUntil = [i \in Ids |-> 0]
    /\ earned6 = [a \in Addresses |-> 0]
    /\ bond = [a \in Addresses |-> [amount6 |-> 0, exitAt |-> 0]]
    /\ cfg = InitialConfig
    /\ usdcHeld = 0

TypeOK ==
    /\ RegistryTypeOK
    /\ now \in Nat
    /\ ids \subseteq Ids
    /\ dep \in [Ids -> Deployment]
    /\ fee \in [Ids -> Nat]
    /\ earn \in [Ids -> Earn]
    /\ maxRate6 \in [Ids -> Nat]
    /\ ownerEscrow6 \in [Ids -> Nat]
    /\ provenUntil \in [Ids -> Nat]
    /\ earned6 \in [Addresses -> Nat]
    /\ bond \in [Addresses -> Bond]
    /\ cfg \in Config
    /\ usdcHeld \in Int

-----------------------------------------------------------------------------
(* Guards shared by the calls                                                *)

_requireOwned(a, id) == id \in ids /\ dep[id].owner = a

_requireActive(id) == ~cfg.retired /\ id \in ids /\ dep[id].active

_requireUnderCap(id, rate) == maxRate6[id] = 0 \/ rate <= maxRate6[id]

_requireAdmin(a) == cfg.owner = a

-----------------------------------------------------------------------------
(* Pricing                                                                   *)

\* What box e charges record d for these shares: free to its own payee,
\* otherwise its whole-machine prices scaled by the shares, rounded up.
_hostRate(e, d, gpu, cpu) ==
    IF e.payoutWallet = d.owner
      THEN 0
      ELSE (e.gpuPricePerSec6 * gpu + e.cpuPricePerSec6 * cpu + 999) \div 1000

rateFor(id, e) ==
    _hostRate(enclave[e], dep[id], dep[id].gpuMilli, dep[id].cpuMilli) + fee[id]

\* MUTANT of Lapsed: the lease is up for grabs at its last instant.
LapsedAtExpiry(id) == now >= dep[id].leaseUntil

\* The expiry instant still belongs to the runner.
Lapsed(id) == now > dep[id].leaseUntil

_open(id) == id \in ids /\ dep[id].active /\ Lapsed(id)

claimableBy(id, e) ==
    /\ _open(id)
    /\ _requireUnderCap(id, rateFor(id, e))
    /\ dep[id].balance6 >= rateFor(id, e)

_unleasedRate(id) == IF maxRate6[id] > 0 THEN maxRate6[id] ELSE dep[id].rate

_resizeRate(id, gpu, cpu) ==
    IF \/ dep[id].leaseUntil <= now
       \/ enclave[dep[id].runner].operator = NoAddr
      THEN _unleasedRate(id)
      ELSE _hostRate(enclave[dep[id].runner], dep[id], gpu, cpu) + fee[id]

\* The checked subtraction in _snapRunnerRate reverts under the fee.
CanSnap(rate, f) == rate >= f

_snapRunnerRate(rate, f) == ((rate - f) * cfg.runnerBps) \div 10000

-----------------------------------------------------------------------------
(* The lease quantum and the runner meter                                    *)

BurnSecs(d) ==
    IF d.rate = 0 THEN cfg.leaseSec ELSE Min2(d.balance6 \div d.rate, cfg.leaseSec)

\* Buy BurnSecs seconds starting at `from`; a free quantum starts now.
_burnLease(d, from) ==
    [d EXCEPT !.balance6 = @ - BurnSecs(d) * d.rate,
              !.spent6 = @ + BurnSecs(d) * d.rate,
              !.leaseUntil = (IF d.rate = 0 THEN now ELSE from) + BurnSecs(d)]

proofRequired == cfg.proofRequiredFrom # 0 /\ now >= cfg.proofRequiredFrom

\* MUTANT of CreditUpto: held time runs on after the lease has lapsed.
CreditUptoNow(id, proven) ==
    IF proofRequired THEN Min2(now, proven) ELSE now

\* The instant the meter may reach when service is proven up to `proven`.
CreditUpto(id, proven) ==
    LET held == Min2(now, dep[id].leaseUntil)
    IN  IF proofRequired THEN Min2(held, proven) ELSE held

CreditSecs(id, proven) ==
    IF dep[id].runner = NoEnclave \/ CreditUpto(id, proven) <= earn[id].creditedUntil
      THEN 0
      ELSE CreditUpto(id, proven) - earn[id].creditedUntil

\* What the meter pays: served seconds at the runner rate, capped by escrow.
CreditAmount(id, proven) ==
    Min2(CreditSecs(id, proven) * earn[id].rate6, earn[id].escrow6)

\* MUTANT of _creditRunner: the escrow is not debited.
CreditUndebited(id, proven) ==
    [earn[id] EXCEPT !.creditedUntil = @ + CreditSecs(id, proven)]

\* MUTANT of _creditRunner: the meter advances only when money moved.
CreditWhenPaid(id, proven) ==
    [earn[id] EXCEPT !.escrow6 = @ - CreditAmount(id, proven),
                     !.creditedUntil = IF CreditAmount(id, proven) = 0
                                         THEN @ ELSE @ + CreditSecs(id, proven)]

\* _creditRunner in two parts: the record's escrow and meter after it ...
_creditRunner(id, proven) ==
    [earn[id] EXCEPT !.escrow6 = @ - CreditAmount(id, proven),
                     !.creditedUntil = @ + CreditSecs(id, proven)]

\* ... and the operators' earnings after it.
CreditOperator(id, proven) ==
    IF CreditAmount(id, proven) = 0
      THEN earned6
      ELSE [earned6 EXCEPT ![dep[id].runnerOperator] =
                               @ + CreditAmount(id, proven)]

-----------------------------------------------------------------------------
(* The owner's side                                                          *)

create(a, id, ref, c, shares, f, cap) ==
    /\ id \notin ids
    /\ shares[2] > 0 /\ shares[1] <= cfg.maxGpuMilli
    /\ f <= cfg.maxFeePerSec6
    /\ cap > f
    /\ ids' = ids \cup {id}
    /\ dep' = [dep EXCEPT ![id] =
           [@ EXCEPT !.owner = a, !.appRef = ref, !.configCid = c,
                     !.gpuMilli = shares[1], !.cpuMilli = shares[2],
                     !.active = TRUE, !.rate = cap]]
    /\ fee' = [fee EXCEPT ![id] = f]
    /\ maxRate6' = [maxRate6 EXCEPT ![id] = cap]
    /\ earn' = [earn EXCEPT ![id].rate6 = _snapRunnerRate(cap, f)]
    /\ UNCHANGED <<enclave, now, ownerEscrow6, provenUntil, moneyVars, cfg>>

\* MUTANT of setMaxRate: a live lease is re-based too.
RebaseAlways(a, id, cap) ==
    /\ _requireOwned(a, id)
    /\ cap > fee[id]
    /\ maxRate6' = [maxRate6 EXCEPT ![id] = cap]
    /\ dep' = [dep EXCEPT ![id].rate = cap]
    /\ earn' = [earn EXCEPT ![id].rate6 = _snapRunnerRate(cap, fee[id])]
    /\ UNCHANGED <<enclave, now, ids, fee, ownerEscrow6, provenUntil, moneyVars, cfg>>

\* An unleased record re-bases its working rate on the cap; nothing is
\* settled first.
setMaxRate(a, id, cap) ==
    /\ _requireOwned(a, id)
    /\ cap > fee[id]
    /\ maxRate6' = [maxRate6 EXCEPT ![id] = cap]
    /\ IF dep[id].leaseUntil <= now
         THEN /\ dep' = [dep EXCEPT ![id].rate = cap]
              /\ earn' = [earn EXCEPT ![id].rate6 = _snapRunnerRate(cap, fee[id])]
         ELSE UNCHANGED <<dep, earn>>
    /\ UNCHANGED <<enclave, now, ids, fee, ownerEscrow6, provenUntil, moneyVars, cfg>>

setAppRef(a, id, ref) ==
    /\ _requireOwned(a, id)
    /\ dep' = [dep EXCEPT ![id].appRef = ref]
    /\ UNCHANGED <<enclave, now, ids, fee, earn, maxRate6, ownerEscrow6,
                   provenUntil, moneyVars, cfg>>

setConfig(a, id, c) ==
    /\ _requireOwned(a, id)
    /\ dep' = [dep EXCEPT ![id].configCid = c]
    /\ UNCHANGED <<enclave, now, ids, fee, earn, maxRate6, ownerEscrow6,
                   provenUntil, moneyVars, cfg>>

setActive(a, id, on) ==
    /\ _requireOwned(a, id)
    /\ dep' = [dep EXCEPT ![id].active = on]
    /\ UNCHANGED <<enclave, now, ids, fee, earn, maxRate6, ownerEscrow6,
                   provenUntil, moneyVars, cfg>>

transferDeployment(a, id, to) ==
    /\ _requireOwned(a, id)
    /\ ownerEscrow6[id] = 0 \/ earn[id].escrow6 = 0
    /\ dep' = [dep EXCEPT ![id].owner = to]
    /\ UNCHANGED <<enclave, now, ids, fee, earn, maxRate6, ownerEscrow6,
                   provenUntil, moneyVars, cfg>>

\* The unserved seconds of d's lease.
UnservedSecs(d) == IF d.leaseUntil > now THEN d.leaseUntil - now ELSE 0

\* Hand the unserved tail back at the rate it was burned at.
ReturnTail(d) == [d EXCEPT !.balance6 = @ + UnservedSecs(d) * d.rate,
                           !.spent6 = @ - UnservedSecs(d) * d.rate]

\* Seconds of the tail that the returned balance re-buys at the new rate.
RebuySecs(d, newRate) ==
    IF newRate = 0 THEN UnservedSecs(d)
                   ELSE Min2(ReturnTail(d).balance6 \div newRate, UnservedSecs(d))

\* MUTANT of Rebuy: the re-bought seconds are not recorded as spent.
RebuyUnspent(d, newRate) ==
    IF d.leaseUntil > now
      THEN [ReturnTail(d) EXCEPT !.balance6 = @ - RebuySecs(d, newRate) * newRate,
                                 !.leaseUntil = now + RebuySecs(d, newRate)]
      ELSE d

\* A live lease is settled and re-bought at the new rate, never extended.
Rebuy(d, newRate) ==
    IF d.leaseUntil > now
      THEN [ReturnTail(d) EXCEPT !.balance6 = @ - RebuySecs(d, newRate) * newRate,
                                 !.spent6 = @ + RebuySecs(d, newRate) * newRate,
                                 !.leaseUntil = now + RebuySecs(d, newRate)]
      ELSE d

setShares(a, id, shares) ==
    LET newRate == _resizeRate(id, shares[1], shares[2])
    IN  /\ _requireOwned(a, id)
        /\ shares[2] > 0 /\ shares[1] <= cfg.maxGpuMilli
        /\ _requireUnderCap(id, newRate)
        /\ dep[id].leaseUntil > now => RebuySecs(dep[id], newRate) > 0
        /\ CanSnap(newRate, fee[id])
        /\ dep' = [dep EXCEPT ![id] =
               [Rebuy(dep[id], newRate) EXCEPT !.gpuMilli = shares[1],
                                               !.cpuMilli = shares[2],
                                               !.rate = newRate]]
        /\ earn' = [earn EXCEPT ![id] =
               [_creditRunner(id, provenUntil[id]) EXCEPT
                   !.rate6 = _snapRunnerRate(newRate, fee[id])]]
        /\ earned6' = CreditOperator(id, provenUntil[id])
        /\ UNCHANGED <<enclave, now, ids, fee, maxRate6, ownerEscrow6,
                       provenUntil, bond, usdcHeld, cfg>>

-----------------------------------------------------------------------------
(* Funding: the publisher's cut and the platform's remainder leave at once;  *)
(* the runner's share stays as escrow.                                       *)

_feeShare(id, value) ==
    IF fee[id] = 0 THEN 0 ELSE (value * fee[id]) \div dep[id].rate

\* The runner's share, rounded up and clamped to what the fee leaves.
EscrowShare(id, value) ==
    IF earn[id].rate6 = 0
      THEN 0
      ELSE Min2((value * earn[id].rate6 + (dep[id].rate - 1)) \div dep[id].rate,
                value - _feeShare(id, value))

\* The divisions and checked subtractions of the split do not revert.
CanSplit(id, value) ==
    /\ fee[id] > 0 \/ earn[id].rate6 > 0 => dep[id].rate > 0
    /\ _feeShare(id, value) <= value

\* fund, and fundWithAuthorization with `a` the signer of the authorization.
fund(a, id, value) ==
    LET esc == EscrowShare(id, value)
        cut == _feeShare(id, value)
    IN  /\ _requireActive(id)
        /\ value > 0
        /\ CanSplit(id, value)
        /\ dep[id].balance6 + dep[id].spent6 + value <= MaxFunded
        /\ earn[id].escrow6 + esc <= MaxEscrow
        /\ ownerEscrow6[id] + esc <= MaxEscrow
        /\ dep' = [dep EXCEPT ![id].balance6 = @ + value]
        /\ earn' = [earn EXCEPT ![id].escrow6 = @ + esc]
        /\ ownerEscrow6' = IF a = dep[id].owner
                             THEN [ownerEscrow6 EXCEPT ![id] = @ + esc]
                             ELSE ownerEscrow6
        /\ usdcHeld' = usdcHeld + value - cut - (value - cut - esc)
        /\ UNCHANGED <<enclave, now, ids, fee, maxRate6, provenUntil, earned6,
                       bond, cfg>>

\* ETH is forwarded whole: it buys runtime and escrows nothing.
fundEth(id, credited) ==
    /\ _requireActive(id)
    /\ cfg.ethUsdFeed
    /\ credited > 0
    /\ fee[id] <= dep[id].rate
    /\ dep[id].balance6 + dep[id].spent6 + credited <= MaxFunded
    /\ dep' = [dep EXCEPT ![id].balance6 = @ + credited]
    /\ UNCHANGED <<enclave, now, ids, fee, earn, maxRate6, ownerEscrow6,
                   provenUntil, moneyVars, cfg>>

fundEscrow(a, id, amount6) ==
    /\ _requireActive(id)
    /\ amount6 > 0
    /\ earn[id].rate6 > 0
    /\ earn[id].escrow6 + amount6 <= MaxEscrow
    /\ ownerEscrow6[id] + amount6 <= MaxEscrow
    /\ earn' = [earn EXCEPT ![id].escrow6 = @ + amount6]
    /\ ownerEscrow6' =
           IF a = dep[id].owner \/ (a = cfg.owner /\ ~cfg.importsSealed)
             THEN [ownerEscrow6 EXCEPT ![id] = @ + amount6]
             ELSE ownerEscrow6
    /\ usdcHeld' = usdcHeld + amount6
    /\ UNCHANGED <<enclave, now, ids, dep, fee, maxRate6, provenUntil, earned6,
                   bond, cfg>>

-----------------------------------------------------------------------------
(* The runner's side: claim, renew, release                                  *)

\* MUTANT of BondedToClaim: a bond on its way out still authorizes claims.
BondedWhileExiting(a) ==
    cfg.claimBond6 > 0 => bond[a].amount6 >= cfg.claimBond6

BondedToClaim(a) ==
    cfg.claimBond6 > 0 => /\ bond[a].amount6 >= cfg.claimBond6
                          /\ bond[a].exitAt = 0

\* The record as box e prices it.
AtRate(id, rate) == [dep[id] EXCEPT !.rate = rate]

claim(a, id, e) ==
    LET d == AtRate(id, rateFor(id, e))
    IN  /\ _requireActive(id)
        /\ Lapsed(id)
        /\ enclave[e].operator = a
        /\ enclave[e].active
        /\ enclave[e].cpuPricePerSec6 > 0
        /\ proofRequired => enclave[e].proofKey # NoAddr
        /\ BondedToClaim(a)
        /\ _requireUnderCap(id, d.rate)
        /\ BurnSecs(d) > 0
        /\ dep' = [dep EXCEPT ![id] =
               [_burnLease(d, now) EXCEPT !.runner = e, !.runnerOperator = a]]
        /\ earn' = [earn EXCEPT ![id] =
               [_creditRunner(id, provenUntil[id]) EXCEPT
                   !.rate6 = _snapRunnerRate(d.rate, fee[id]),
                   !.creditedUntil = now]]
        /\ earned6' = CreditOperator(id, provenUntil[id])
        /\ provenUntil' = [provenUntil EXCEPT ![id] = now]
        /\ UNCHANGED <<enclave, now, ids, fee, maxRate6, ownerEscrow6, bond,
                       usdcHeld, cfg>>

renew(a, id) ==
    /\ _requireActive(id)
    /\ dep[id].runnerOperator = a
    /\ ~Lapsed(id)
    /\ _requireUnderCap(id, dep[id].rate)
    /\ BurnSecs(dep[id]) > 0
    /\ dep' = [dep EXCEPT ![id] = _burnLease(@, dep[id].leaseUntil)]
    /\ earn' = [earn EXCEPT ![id] = _creditRunner(id, provenUntil[id])]
    /\ earned6' = CreditOperator(id, provenUntil[id])
    /\ UNCHANGED <<enclave, now, ids, fee, maxRate6, ownerEscrow6, provenUntil,
                   bond, usdcHeld, cfg>>

release(a, id) ==
    /\ id \in ids
    /\ dep[id].runnerOperator = a
    /\ dep' = [dep EXCEPT ![id] =
           [ReturnTail(@) EXCEPT !.runner = NoEnclave,
                                 !.runnerOperator = NoAddr,
                                 !.leaseUntil = 0]]
    /\ earn' = [earn EXCEPT ![id] =
           [_creditRunner(id, provenUntil[id]) EXCEPT !.creditedUntil = 0]]
    /\ earned6' = CreditOperator(id, provenUntil[id])
    /\ provenUntil' = [provenUntil EXCEPT ![id] = 0]
    /\ UNCHANGED <<enclave, now, ids, fee, maxRate6, ownerEscrow6, bond,
                   usdcHeld, cfg>>

-----------------------------------------------------------------------------
(* The meter and the money it moves                                          *)

settle(id) ==
    /\ id \in ids
    /\ earn' = [earn EXCEPT ![id] = _creditRunner(id, provenUntil[id])]
    /\ earned6' = CreditOperator(id, provenUntil[id])
    /\ UNCHANGED <<enclave, now, ids, dep, fee, maxRate6, ownerEscrow6,
                   provenUntil, bond, usdcHeld, cfg>>

\* The bound prover, which may ask for any instant, advances the watermark.
creditProven(id, upto) ==
    LET proven == Min2(upto, Min2(now, dep[id].leaseUntil))
    IN  /\ cfg.prover
        /\ proven > provenUntil[id]
        /\ provenUntil' = [provenUntil EXCEPT ![id] = proven]
        /\ earn' = [earn EXCEPT ![id] = _creditRunner(id, proven)]
        /\ earned6' = CreditOperator(id, proven)
        /\ UNCHANGED <<enclave, now, ids, dep, fee, maxRate6, ownerEscrow6,
                       bond, usdcHeld, cfg>>

withdrawEarnings(a) ==
    /\ earned6[a] > 0
    /\ earned6' = [earned6 EXCEPT ![a] = 0]
    /\ usdcHeld' = usdcHeld - earned6[a]
    /\ UNCHANGED <<enclave, now, recordVars, bond, cfg>>

\* MUTANT of Reserve: only time still ahead of the clock is reserved.
ReserveAhead(d, e) == IF d.leaseUntil > now THEN (d.leaseUntil - now) * e.rate6 ELSE 0

\* What the current lease, live or lapsed, could still prove and be paid.
Reserve(d, e) ==
    IF d.leaseUntil > e.creditedUntil
      THEN (d.leaseUntil - e.creditedUntil) * e.rate6
      ELSE 0

\* MUTANTS of refundableOf: without the owner's cap, without the reserve.
RefundAnyone(d, e, own) == IF e.escrow6 > Reserve(d, e) THEN e.escrow6 - Reserve(d, e) ELSE 0
RefundReserved(d, e, own) == Min2(own, e.escrow6)

\* refundableOf, of a record d with payout state e and owner contribution own.
refundableOf(d, e, own) ==
    Min2(own, IF e.escrow6 > Reserve(d, e) THEN e.escrow6 - Reserve(d, e) ELSE 0)

refund(a, id) ==
    LET e == _creditRunner(id, provenUntil[id])
        amt == refundableOf(dep[id], e, ownerEscrow6[id])
    IN  /\ id \in ids
        /\ dep[id].owner = a \/ cfg.retired
        /\ amt > 0
        /\ ownerEscrow6' = [ownerEscrow6 EXCEPT ![id] = @ - amt]
        /\ earn' = [earn EXCEPT ![id] = [e EXCEPT !.escrow6 = @ - amt]]
        /\ earned6' = CreditOperator(id, provenUntil[id])
        /\ dep' = [dep EXCEPT ![id].balance6 = 0, ![id].active = FALSE]
        /\ usdcHeld' = usdcHeld - amt
        /\ UNCHANGED <<enclave, now, ids, fee, maxRate6, provenUntil, bond, cfg>>

\* MUTANT of sweepEscrow: the amount is read before the meter is settled.
SweepBeforeCredit(a, id) ==
    /\ _requireAdmin(a)
    /\ id \in ids /\ Lapsed(id)
    /\ dep[id].balance6 < dep[id].rate
    /\ earn[id].escrow6 > 0
    /\ earn' = [earn EXCEPT ![id] = [_creditRunner(id, provenUntil[id]) EXCEPT
                                         !.escrow6 = 0]]
    /\ earned6' = CreditOperator(id, provenUntil[id])
    /\ usdcHeld' = usdcHeld - earn[id].escrow6
    /\ UNCHANGED <<enclave, now, ids, dep, fee, maxRate6, ownerEscrow6,
                   provenUntil, bond, cfg>>

sweepEscrow(a, id) ==
    LET e == _creditRunner(id, provenUntil[id])
    IN  /\ _requireAdmin(a)
        /\ id \in ids
        /\ Lapsed(id)
        /\ dep[id].balance6 < dep[id].rate
        /\ e.escrow6 > 0
        /\ earn' = [earn EXCEPT ![id] = [e EXCEPT !.escrow6 = 0]]
        /\ earned6' = CreditOperator(id, provenUntil[id])
        /\ usdcHeld' = usdcHeld - e.escrow6
        /\ UNCHANGED <<enclave, now, ids, dep, fee, maxRate6, ownerEscrow6,
                       provenUntil, bond, cfg>>

-----------------------------------------------------------------------------
(* Claim bonds                                                               *)

postBond(a, amount6) ==
    /\ amount6 > 0
    /\ bond[a].amount6 + amount6 <= MaxBond
    /\ bond' = [bond EXCEPT ![a] = [amount6 |-> @.amount6 + amount6, exitAt |-> 0]]
    /\ usdcHeld' = usdcHeld + amount6
    /\ UNCHANGED <<enclave, now, recordVars, earned6, cfg>>

requestBondExit(a) ==
    /\ bond[a].amount6 > 0
    /\ bond' = [bond EXCEPT ![a].exitAt = now + cfg.bondExitDelay]
    /\ UNCHANGED <<enclave, now, recordVars, earned6, usdcHeld, cfg>>

withdrawBond(a) ==
    /\ bond[a].exitAt # 0 /\ now >= bond[a].exitAt
    /\ bond[a].amount6 > 0
    /\ bond' = [bond EXCEPT ![a] = [amount6 |-> 0, exitAt |-> 0]]
    /\ usdcHeld' = usdcHeld - bond[a].amount6
    /\ UNCHANGED <<enclave, now, recordVars, earned6, cfg>>

slashBond(a, operator, amount6) ==
    /\ _requireAdmin(a)
    /\ amount6 > 0 /\ amount6 <= bond[operator].amount6
    /\ bond' = [bond EXCEPT ![operator].amount6 = @ - amount6]
    /\ usdcHeld' = usdcHeld - amount6
    /\ UNCHANGED <<enclave, now, recordVars, earned6, cfg>>

-----------------------------------------------------------------------------
(* Migration, while the import window is open                                *)

MayImport(a) == _requireAdmin(a) /\ ~cfg.importsSealed

\* One item of an importDeployments batch; leases do not survive it.
importDeployments(a, id, item) ==
    /\ MayImport(a)
    /\ id \notin ids
    /\ ids' = ids \cup {id}
    /\ dep' = [dep EXCEPT ![id] =
           [item EXCEPT !.runner = NoEnclave, !.runnerOperator = NoAddr,
                        !.leaseUntil = 0]]
    /\ maxRate6' = [maxRate6 EXCEPT ![id] = item.rate]
    /\ UNCHANGED <<enclave, now, fee, earn, ownerEscrow6, provenUntil,
                   moneyVars, cfg>>

importFees(a, id, f) ==
    /\ MayImport(a)
    /\ id \in ids
    /\ fee' = [fee EXCEPT ![id] = f]
    /\ UNCHANGED <<enclave, now, ids, dep, earn, maxRate6, ownerEscrow6,
                   provenUntil, moneyVars, cfg>>

importEarn(a, id, rate6) ==
    /\ MayImport(a)
    /\ id \in ids
    /\ earn' = [earn EXCEPT ![id].rate6 = rate6]
    /\ UNCHANGED <<enclave, now, ids, dep, fee, maxRate6, ownerEscrow6,
                   provenUntil, moneyVars, cfg>>

importCaps(a, id, cap) ==
    /\ MayImport(a)
    /\ id \in ids
    /\ cap = 0 \/ cap > fee[id]
    /\ maxRate6' = [maxRate6 EXCEPT ![id] = cap]
    /\ UNCHANGED <<enclave, now, ids, dep, fee, earn, ownerEscrow6,
                   provenUntil, moneyVars, cfg>>

-----------------------------------------------------------------------------
(* Admin: each call writes one parameter                                     *)

SetCfg(a, c) == /\ _requireAdmin(a)
                /\ cfg' = c
                /\ UNCHANGED <<enclave, now, recordVars, moneyVars>>

sealImports(a) == SetCfg(a, [cfg EXCEPT !.importsSealed = TRUE])
retire(a) == SetCfg(a, [cfg EXCEPT !.retired = TRUE])
setMaxGpuMilli(a, m) == SetCfg(a, [cfg EXCEPT !.maxGpuMilli = m])
setMaxFee(a, f) == SetCfg(a, [cfg EXCEPT !.maxFeePerSec6 = f])
setRunnerBps(a, bps) == SetCfg(a, [cfg EXCEPT !.runnerBps = bps])
setClaimBond(a, b, delay) ==
    SetCfg(a, [cfg EXCEPT !.claimBond6 = b, !.bondExitDelay = delay])
setProver(a) == ~cfg.prover /\ SetCfg(a, [cfg EXCEPT !.prover = TRUE])
setProofRequiredFrom(a, at) == SetCfg(a, [cfg EXCEPT !.proofRequiredFrom = at])
setLeaseSec(a, s) == SetCfg(a, [cfg EXCEPT !.leaseSec = s])
setEthUsdFeed(a, on) == SetCfg(a, [cfg EXCEPT !.ethUsdFeed = on])
setPayout(a, p) == SetCfg(a, [cfg EXCEPT !.payout = p])
setOwner(a, o) == SetCfg(a, [cfg EXCEPT !.pendingOwner = o])

acceptOwnership(a) ==
    /\ a = cfg.pendingOwner
    /\ cfg' = [cfg EXCEPT !.owner = cfg.pendingOwner, !.pendingOwner = NoAddr]
    /\ UNCHANGED <<enclave, now, recordVars, moneyVars>>

-----------------------------------------------------------------------------
(* The next-state relation, by who acts                                      *)

Tick ==
    /\ now < MaxTime
    /\ now' = now + 1
    /\ UNCHANGED <<enclave, recordVars, moneyVars, cfg>>

RegistryStep ==
    /\ RegistryNext
    /\ UNCHANGED <<now, recordVars, moneyVars, cfg>>

CreateStep ==
    \E a \in Users, id \in Ids, ref \in AppRefs, c \in Configs,
       shares \in ShareChoices, f \in FeeChoices, cap \in CapChoices :
        create(a, id, ref, c, shares, f, cap)

\* An owner changes what its record runs, buys or pays.
OwnerStep ==
    \E a \in Users, id \in Ids :
        \/ \E cap \in CapChoices : setMaxRate(a, id, cap)
        \/ \E shares \in ShareChoices : setShares(a, id, shares)
        \/ \E on \in BOOLEAN : setActive(a, id, on)
        \/ \E to \in Users : transferDeployment(a, id, to)

ContentStep ==
    \E a \in Users, id \in Ids :
        \/ \E ref \in AppRefs : setAppRef(a, id, ref)
        \/ \E c \in Configs : setConfig(a, id, c)

FundingStep ==
    \E a \in Users, id \in Ids, v \in FundAmounts : fund(a, id, v)

BackingStep ==
    \E id \in Ids :
        \/ \E v \in EthCredits : fundEth(id, v)
        \/ \E a \in Addresses, v \in FundAmounts : fundEscrow(a, id, v)

LeaseStep ==
    \E a \in Operators, id \in Ids :
        \/ \E e \in Enclaves : claim(a, id, e)
        \/ renew(a, id)
        \/ release(a, id)

PayoutStep ==
    \/ \E id \in Ids : settle(id)
    \/ \E a \in Addresses : withdrawEarnings(a)
    \/ \E a \in Addresses, id \in Ids : refund(a, id)
    \/ \E a \in Addresses, id \in Ids : sweepEscrow(a, id)

ProverStep == \E id \in Ids, upto \in 0..MaxTime : creditProven(id, upto)

BondStep ==
    \E a \in Operators :
        \/ \E v \in FundAmounts : postBond(a, v)
        \/ requestBondExit(a)
        \/ withdrawBond(a)
        \/ \E b \in Addresses, v \in FundAmounts : slashBond(b, a, v)

ImportStep ==
    \E a \in Addresses :
        \/ \E id \in Ids :
               \/ \E item \in ImportRecords : importDeployments(a, id, item)
               \/ \E f \in FeeChoices : importFees(a, id, f)
               \/ \E r \in CapChoices : importEarn(a, id, r)
               \/ \E cap \in CapChoices \cup {0} : importCaps(a, id, cap)
        \/ sealImports(a)

\* Parameters that change what a lease costs, pays or requires.
PolicyStep ==
    \E a \in Addresses :
        \/ \E bps \in BpsChoices : setRunnerBps(a, bps)
        \/ \E b \in BondChoices, delay \in ExitDelayChoices :
               setClaimBond(a, b, delay)
        \/ \E at \in CutoverChoices : setProofRequiredFrom(a, at)
        \/ \E s \in LeaseSecChoices : setLeaseSec(a, s)
        \/ setProver(a)

\* What gates creates, fundings and leases, and the ownership handoff.
GovernanceStep ==
    \E a \in Addresses :
        \/ retire(a)
        \/ \E m \in MaxGpuChoices : setMaxGpuMilli(a, m)
        \/ \E f \in MaxFeeChoices : setMaxFee(a, f)
        \/ \E on \in BOOLEAN : setEthUsdFeed(a, on)
        \/ \E p \in Addresses : setPayout(a, p)
        \/ \E o \in Addresses : setOwner(a, o)
        \/ acceptOwnership(a)

Next == \/ Tick \/ RegistryStep
        \/ CreateStep \/ OwnerStep \/ ContentStep
        \/ FundingStep \/ BackingStep
        \/ LeaseStep \/ PayoutStep \/ ProverStep
        \/ BondStep \/ ImportStep \/ PolicyStep \/ GovernanceStep

Spec == Init /\ [][Next]_vars

-----------------------------------------------------------------------------
(* Properties                                                                *)

\* The meter and the proof watermark never leave the lease they measure:
\* neither passes the clock or leaseUntil, and both are idle without a runner.
\* Written by claim, release, setShares, creditProven and _creditRunner.
MeterInsideLease ==
    \A id \in Ids :
        /\ earn[id].creditedUntil <= Min2(now, dep[id].leaseUntil)
        /\ provenUntil[id] <= Min2(now, dep[id].leaseUntil)
        /\ dep[id].runner = NoEnclave =>
               dep[id].leaseUntil = 0 /\ dep[id].runnerOperator = NoAddr

\* Every unserved second of a lease has been burned at the record's current
\* rate, so the tail that release and setShares hand back is covered by
\* spent6 ("spent6 can never underflow", setShares).
TailIsPaid ==
    \A id \in Ids : UnservedSecs(dep[id]) * dep[id].rate <= dep[id].spent6

\* A serving box is one the registry knows, priced above zero and operated by
\* the address the ledger recorded: the zero-struct fallback of _resizeRate
\* never applies to a live lease, and a price of 0 only means self-hosting.
RunnerIsRegistered ==
    \A id \in Ids : dep[id].runner # NoEnclave =>
        LET e == enclave[dep[id].runner]
        IN  /\ e.exists /\ e.cpuPricePerSec6 > 0
            /\ e.operator = dep[id].runnerOperator

\* refundableOf is exact although it cannot advance the meter first: what it
\* answers now is what refund() computes after _creditRunner.
RefundableIsExact ==
    \A id \in Ids :
        refundableOf(dep[id], earn[id], ownerEscrow6[id])
          = refundableOf(dep[id], _creditRunner(id, provenUntil[id]),
                         ownerEscrow6[id])

\* Leases neither mint nor destroy runtime: a step that changes what has been
\* burned moves exactly that much between spent6 and balance6 (_burnLease,
\* release, setShares); only fundings and refund change the sum.
RuntimeStep(id) ==
    dep[id].spent6' # dep[id].spent6 =>
        dep[id].balance6' + dep[id].spent6' = dep[id].balance6 + dep[id].spent6

RuntimeConserved == [][\A id \in ids : RuntimeStep(id)]_vars

\* The escrow covers everything the current lease could still be paid.
Backed(id) == earn[id].escrow6 >= Reserve(dep[id], earn[id])

\* Cancelling, transferring, stopping, retiring, funding or settling never
\* takes the backing from under a runner whose lease stays as it was
\* ("cancelling mid-lease can never strand a seller", refund).  The exception
\* is the platform's sweep of a lapsed lease whose last seconds are unproven.
LeaseUntouched(id) ==
    /\ UNCHANGED <<dep[id].runner, dep[id].leaseUntil, earn[id].rate6>>
    /\ ~ \E a \in Addresses : sweepEscrow(a, id)

SellerStaysBacked ==
    [][\A id \in Ids : LeaseUntouched(id) /\ Backed(id) => Backed(id)']_vars

\* sweepEscrow leaves the escrow of a record alone while any box could claim
\* it: "while a deployment can still be claimed, its escrow is the sellers'
\* money-in-waiting and the platform cannot touch it" (sweepEscrow).
SweepSparesClaimable ==
    [][\A a \in Addresses, id \in ids :
          sweepEscrow(a, id) => ~ \E e \in Enclaves : claimableBy(id, e)]_vars

\* The ledger implements one lock per deployment ...
Lock == INSTANCE LeaseLock
        WITH Locks <- Ids, Holders <- Enclaves, None <- NoEnclave,
             holder <- [i \in Ids |-> dep[i].runner],
             until <- [i \in Ids |-> dep[i].leaseUntil],
             clock <- now

\* claim, renew, release and setShares only ever acquire an expired lease,
\* re-time a live one for its holder, or hand it back.
ImplementsLock == Lock!LockSpec

\* ... and a treasury of per-deployment escrow, earnings and bonds.
Bank == INSTANCE Treasury
        WITH Accounts <- Ids, Payees <- Addresses,
             escrow <- [i \in Ids |-> earn[i].escrow6],
             earned <- earned6,
             bonded <- [a \in Addresses |-> bond[a].amount6],
             held <- usdcHeld

\* Every call moves money of one record, one operator or one bond only, and
\* the contract's USDC moves by exactly the difference.
ImplementsTreasury == Bank!TreasurySpec

\* The contract holds exactly what it owes: escrow, earnings and bonds.
Solvent == Bank!Solvency
=============================================================================
