----------------------------- MODULE MCDeployments -----------------------------
(* Small instances of Deployments: two boxes at different prices, and one     *)
(* next-state relation per question, each a union of Deployments' steps.  The *)
(* questions about a history take its steps from Audits; the others leave the *)
(* histories as they are.                                                     *)
EXTENDS Audits, TLC

CONSTANTS e1, e2, o1, o2, k1

MCEntry(o, cpu) ==
    [NoEntry EXCEPT !.exists = TRUE, !.operator = o, !.active = TRUE,
                    !.cpuPricePerSec6 = cpu, !.proofKey = k1,
                    !.caps = {CAP_HOST}]

\* A cheap box and a dear one, as two register() calls leave them.
MCRegistry == (e1 :> MCEntry(o1, 1)) @@ (e2 :> MCEntry(o2, 2))

\* Nobody has registered yet.
MCEmptyRegistry == [e \in Enclaves |-> NoEntry]

MCConfig ==
    [owner |-> Deployer, pendingOwner |-> NoAddr, payout |-> Deployer,
     retired |-> FALSE, importsSealed |-> FALSE, prover |-> FALSE,
     ethUsdFeed |-> TRUE, leaseSec |-> 2, maxGpuMilli |-> 1000,
     maxFeePerSec6 |-> 1, runnerBps |-> 10000, claimBond6 |-> 0,
     bondExitDelay |-> 2, proofRequiredFrom |-> 0]

MCUserSymmetry == Permutations(Users)
MCPrices == {<<1, 0>>, <<2, 1>>}
MCFullShare == {<<0, 1000>>}
MCTwoShares == {<<0, 1000>>, <<0, 2000 \div 4>>}

\* Owners, payers and runners on held-time metering.
MoneyNext == \/ Tick \/ CreateStep \/ OwnerStep \/ FundingStep
             \/ LeaseStep \/ PayoutStep
MoneySpec == AuditInit /\ [][MoneyNext /\ UNCHANGED histories]_auditVars

\* Proofs of time are required from the second instant on.
MCProvenConfig == [MCConfig EXCEPT !.proofRequiredFrom = 2, !.prover = TRUE]

\* Boxes join, re-announce, change payee and leave while one of them serves.
DirectoryNext == \/ Tick \/ RegistryStep \/ CreateStep \/ ContentStep
                 \/ FundingStep \/ LeaseStep

\* A record of the previous ledger: it was being served when it was read.
MCImport(r, balance) ==
    [EmptyRecord EXCEPT !.owner = CHOOSE u \in Users : TRUE,
                        !.cpuMilli = 1000, !.active = TRUE, !.rate = r,
                        !.balance6 = balance, !.spent6 = 1,
                        !.runner = e2, !.runnerOperator = o2, !.leaseUntil = 3]
MCImports == {MCImport(0, 2), MCImport(2, 2)}

\* Records migrate, are re-backed and served while the ledger changes hands.
MCMigrationConfig == [MCConfig EXCEPT !.ethUsdFeed = FALSE]
MigrationNext == \/ Tick \/ ImportStep \/ BackingStep
                 \/ LeaseStep \/ PayoutStep \/ GovernanceStep
MigrationSpec == AuditInit /\ [][MigrationNext /\ UNCHANGED histories]_auditVars

\* The market while the admin switches proofs on and moves lease parameters.
MCSwitchConfig == [MCConfig EXCEPT !.prover = TRUE]

MarketNext ==
    \/ AuditedPurchase \/ AuditedCredit \/ AuditedProof
    \/ /\ \/ Tick \/ CreateStep \/ FundingStep \/ PolicyStep
          \/ \E a \in Users, id \in Ids, cap \in CapChoices : setMaxRate(a, id, cap)
       /\ UNCHANGED histories
MarketSpec == AuditInit /\ [][MarketNext]_auditVars

\* The admin moves the bond a claim needs, and its exit delay.
MCBondConfig == [MCConfig EXCEPT !.runnerBps = 5000]

BondedNext ==
    \/ BondedClaim
    \/ /\ \/ Tick \/ CreateStep \/ FundingStep \/ BondStep \/ PolicyStep
          \/ \E a \in Operators, id \in Ids : renew(a, id) \/ release(a, id)
          \/ \E id \in Ids : settle(id)
       /\ UNCHANGED histories

\* Two questions of one box: while imports are open it comes and goes in the directory; on a
\* ledger sealed before anything else happened it serves there under a bond.
ServesUnderBond ==
    \/ /\ RegistryStep /\ UNCHANGED histories
       /\ \A e \in Enclaves : ~enclave[e].exists /\ enclave'[e] = MCEntry(o1, 1)
    \/ BondedNext /\ UNCHANGED bond[o2]
BoxNext ==
    \/ ~cfg.importsSealed /\ DirectoryNext /\ UNCHANGED histories
    \/ now = 1 /\ ids = {} /\ enclave = MCEmptyRegistry /\ sealImports(Deployer) /\ UNCHANGED histories
    \/ cfg.importsSealed /\ ServesUnderBond
BoxSpec == AuditInit /\ [][BoxNext]_auditVars
=============================================================================
