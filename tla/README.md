# A TLA+ development of the Enclave platform

The repository runs confidential-computing boxes that sell their time. A deployment
is a chain object with a prepaid balance; a box claims it for a bounded lease at its
own price, is paid for the seconds it serves and proves, and loses it when the lease
lapses. Around that ledger stand the supervisor on each box, the relays that route
customers to boxes and turn payments into deployments, and the tools of owners and
operators. This directory models the ledger call by call and proves the invariants
of its lease, models the supervisor's claim loop with its liveness, and models some
thirty smaller machines, each for the race or failure its handlers must survive; the
main property of thirteen of those is proved as well, for every size.

## 1. The system

| Part | State | Operations | Hard because | Module |
|---|---|---|---|---|
| ledger `contracts/EnclaveDeployments.sol` | balance, spent, rate, lease per record; escrow and meter; earnings, bonds, parameters | create, fund, edit, resize, claim, renew, release, settle, refund, sweep, bonds, migration | anybody calls between any two calls; a lazy meter; money in two books | `Deployments` |
| directory `contracts/EnclaveRegistry.sol` | an entry per endpoint | register, prices, keys, heartbeat, deregister | entries change under a lease | `Registry` |
| proofs `contracts/EnclaveProofOfTime.sol`, `supervisor.js` | proof window, last proof, watermark | checkpoint, final proof, release | a late proof must neither mint nor lose time | `ProofKeeper` |
| vault `contracts/EnclaveCreditVault*.sol`, `relay/vaultsvc.js`, `site/js/core/vault.js` | keys, nonce, credit | spend, bind, migrate | anybody submits a signature, late or twice | `CreditVault` |
| supervisor: leases | cached lease, transaction queue, state file | claim sweep, renew, audit, resume, release | stale reads, lost receipts, restarts | `LeaseKeeper` |
| supervisor: tenants and capacity | records, slices, instances, cards | launch, teardown, sweeps, resize, version switch | every handler awaits the runtime manager | `TenantKeeper`, `Cards`, `Placement` |
| supervisor: pay per deploy, front door | reservations, payments, sessions, ports | quote, poll, bill, `/x/:id` | payments seen before they are acted on; reused ports | `Metered`, `FrontDoor` |
| supervisor: identity | registration, heartbeat, certificates | boot, sync, renew, restore | loops that do not wait for one another | `Registrar`, `BoxCerts` |
| relay billing | orders, scan cursor, write-ahead records, one wallet | quote, index, screen, provision, top up | crash between broadcast and write | `Orders`, `Provisioner`, `TopUps` |
| relay paths | tunnels, channels, listeners, flows, caches | attach, open, poll, route | late closes, reads of different ages, forged evidence | `Tunnel`, `Egress`, `PortRelay`, `Route`, `SniRelay`, `AppZone`, `Fleet`, `FleetGate` |
| relay services | accounts, pads, CA orders, custom domains | sign-in, reserve, issue, verify | replays, restarts, slow third parties | `Accounts`, `Pads`, `Certs`, `Domains` |
| metal | images, workers, sockets, streams | build, gate, roll back, forward | killed scripts, replaced sockets | `MetalHost`, `MetalGuest` |
| clients | a read of the world, a plan, calls in flight | deploy, edit, move, scale, migrate the ledger | what was read is not what is there at the end | `OwnerCli`, `Dashboard`, `Planner`, `Autoscaler`, `LedgerMove` |
| the rest | see section 8 | | | |

How they interact: boxes register in the directory, read the ledger, and send it
claims, renewals, proofs and releases; the relays read both and dial the boxes; the
billing relay reads payment events and sends create and fund; clients send the rest,
directly or through the vault. Nothing but the ledger is shared by writing: every
other part acts on a *read* of somebody else's state. So each module of a part keeps
that state as an environment variable which others move between any two steps.

What makes each part correct is the property listed for it in section 4.

## 2. The modules and how they follow the code

**The ledger.** `Registry` and `Deployments` have one action per external call,
`msg.sender` the first argument; `Deployments` extends `Registry`, because claim and
resize read the entry. `LeaseLock` and `Treasury` are what the ledger promises: an
expiring lock per record, and USDC that moves one account at a time; the ledger is
proved to implement both. `Audits` is the ledger with history variables that only
watch: which seconds were paid (`PaySpec`), which claims a bond authorized
(`BondSpec`), whose money a refund gave back (`RefundSpec`). `MCDeployments` names the calls a run
interleaves. The proofs are in modules of their own (section 6).

* A call is one atomic action, as a transaction is. A `multicall` is a run of
  actions between two ticks of the clock, which the interleaving contains.
* A `require` is a conjunct of the guard, also where it comes after a write: a
  reverted transaction changes nothing. `_creditRunner` runs inside claim, renew,
  release, setShares, settle, refund, sweepEscrow and creditProven; in the model it
  is a pair of operators, the record's escrow and meter (`_creditRunner`) and the
  operators' earnings (`CreditOperator`), used by the same actions.
* `block.timestamp` is `now`, in scaled seconds. Money is USDC in small units;
  prices are per whole machine and scaled by thousandths with the code's rounding.
  Integer division and rounding up are the code's. `usdcHeld` is
  `usdc.balanceOf(this)`. ETH is forwarded whole; its oracle is an amount in
  `EthCredits`. `fund` is also `fundWithAuthorization`, the caller being the signer.
* `create` picks a fresh id. `createdAt`, ports, app port, visibility, fee recipient
  and events are left out: no guard or amount depends on them. The caller-zero and
  length checks and the `uint96`/`uint64` range checks are outside the bounds.
* `prover` is whether a contract is bound; `creditProven` takes any instant, which
  contains whatever EnclaveProofOfTime may ask. `ProofKeeper` models what it does ask.
* `MaxFunded`, `MaxEscrow`, `MaxBond` and `MaxTime` cap funding, escrow, bonds and
  the clock: guards of funding calls and of the clock, and of nothing else.

**The claim loop.** `LeaseKeeper` is one box of `supervisor.js` against the ledger.
Its actions are the ledger fetch, the audit of what it serves, the sweep, the claim,
the launch, renewals through the transaction queue, the reaper, the DNS watchdog, the
retried release, shutdown and boot. Expiry is kept as the ticks left, so that time
never runs out. Each configuration lists the disturbances a behaviour may have
(`Scenarios`).

**The parts.** Every other module is one machine: its variables are the state of one
or two files, an action is a handler or the piece of a handler between two awaits, and
the last action group is the environment, with its faults counted by `MaxFaults`. A
header comment says what each module is, and the rows of `map` say which lines.
They share conventions:

* An `await` splits an action: what was read before it stays in a local (a record in
  `step`, `call`, `work`, `reading`, ...) and is used after others have moved.
* A persisted file is a variable next to the memory it mirrors; a crash is an action
  that resets memory and keeps the file as it was last written. A failing write, a
  lost receipt, a timeout, a lagging node and a killed script are environment actions.
* Time is what is left of a window, or ticks up to a bound. Quotes of hardware, DNS
  answers, CA verdicts, sanctions screening and signatures are outcomes.

`MCParts` puts the parts side by side: `part` says which machine a behaviour is of
(`Parts` are those of the run), and the slots `a`, `b`, ... are that machine's
variables. Parts do not interact there; each already contains the environment it needs.

## 3. The runs

| Run | Question | Bounds, and why they are enough |
|---|---|---|
| `money` | Types; is the tail paid for; is the refund view exact; does the contract hold what it owes; do leases conserve runtime; does anything take a runner's backing? | 1 record, a cheap and a dear box, 2 users (symmetric), shares whole and half, quantum 2, clock to 4, two fundings: claim, lapse, failover to the other box, resize up and down, refund or sweep and a second funding. |
| `market` | Is the record a lock? Does the meter stay inside the lease, and is a second ever paid twice? | the same boxes with proofs switched on during a lease (`CutoverChoices`), a shorter quantum, and a clock to 5, so two leases, both regimes and late proofs meet. |
| `directory` | Is a serving box always registered, priced and under the recorded operator? Does a bond outlive the claims it authorized? | an empty registry, 2 operators contending for one endpoint, two prices, all registry calls interleaved with claims; or, on a ledger sealed at the start, one registered operator that posts bonds: gate on, off and on, exit delay 1 or 2, top-ups, slashes. Clock to 4. The two are alternatives because their product is out of reach. |
| `migration` | Does every call move the money of one account only, and USDC by the difference? | imports of a free and a priced record that were being served, fees, rates and caps afterwards, all payout calls, retire and the ownership handoff. |
| `keeper` | Does the claim loop ever buy far ahead, whatever goes wrong? | 1 record, quantum 2, margin 1, 2 DNS strikes, 2 retries of a release, 2 quanta of funds, a queue of 2, 1 fault, and in each behaviour one kind of disturbance (`Scenarios`): waiting queue, stop, rival, hand-back, hint, lagging ledger page, DNS loss, lost receipts, failing launches, or restarts with transactions left behind. Disturbances are taken one at a time because the product is out of reach; a restart and a lost transaction come together because a restart causes the loss. |
| `keeper_live` | Is funded work claimed, is nothing served free for ever, is our own lease served again after a crash? | quantum, strikes, retries, funds, queue and faults 1; rivals, restarts, failing launches and stale pages. |
| `parts`, `relays` | Each smaller machine against its hazard (section 4): those of boxes, payments and the owner's tools, and those of the relays, the names they answer to and the order book. | per machine, in `MCParts`; section 4 says which. |
| `sponsor_refund`, `lapsed_tail`, `sweep_claimable`, `tail_rate` | statements of the source's own comments that the code does not meet | section 5 |

The first four runs check deadlock: after the last tick somebody may still call.
`keeper`, `keeper_live`, `parts` and `relays` do not: a box with nothing to claim may rest, and
a machine whose bounded faults, clocks and requests are spent has nothing left to do.

**Fairness** is assumed in `keeper_live` only (`Fairness` in `LeaseKeeper`):

* strong for a claim pass, any step of it but a failing fetch. The pass is started by
  an interval that repeats for ever, so a fetch that fails is tried again for ever;
  assuming that it works infinitely often is assuming an RPC that is not down for good;
* strong for the calls in a pass (claim, resume, retry of a release), which the pass
  makes whenever it comes by, and other handlers may disable in between;
* weak for receipts (the queue awaits each with a timeout, so it always moves on), for
  a launch that ends (its promise settles) and for the rest and hold-over timers.

Nothing is assumed of owners, rivals or faults. No other run assumes fairness. The
ledger acts only when it is called; nothing in it obliges anybody to call.

## 4. The properties

Each names behaviour that takes several steps, often of several actors, to violate;
its statement is the comment at its definition. Every one is broken by a mutant, a
plausible slip in the code (`PROJECT.json`, "mutants").

The ledger (`Deployments` and the audits):

* `TypeOK`: all quantities natural numbers; an unsigned subtraction that would revert
  or wrap shows as a negative value.
* `TailIsPaid`, `RuntimeConserved`: a lease's unserved seconds were burned at the
  current rate, and every step that burns or un-burns moves the same amount between
  `spent6` and `balance6`.
* `MeterInsideLease`, `NoSecondPaidTwice`: the meter and the watermark never pass the
  clock or the lease end; while a box serves, its meter is at or after every second
  ever paid for the record, through failover, release, resize and a change of regime.
* `RefundableIsExact`, `SellerStaysBacked`: the view equals what `refund` computes
  after settling; no call but the platform's sweep of a lapsed lease turns a backed
  lease into one that is not.
* `Solvent`, `ImplementsTreasury`: USDC held is escrow plus earnings plus bonds; each
  step is one of deposit, disburse, withdraw or bond move, of one account.
* `ImplementsLock`: claims only take expired records; renew and resize re-time a live
  lease and keep its holder; release hands it back; nothing else touches it.
* `RunnerIsRegistered`, `BondOutlivesClaim`: as in the table of runs.

The claim loop (`LeaseKeeper`): `LeaseStack` bounds the time our lease holds by the
margin plus three quanta. The slack is real: a claim may land behind a record that is
still served, and a renewal between a resume's read and its adoption. Behaviours
with a backed-up queue or lost receipts are excepted; there the code does pay again.
`Taken`, `NoFreeRide` and `Resumed` are the liveness of section 3.

The parts (runs `parts` and `relays`, whose `Parts` list their machines):

| Property | Machine (`part`) | Instance | What must hold |
|---|---|---|---|
| `NeverOversold`, `SweepsSpareTenants` | `TenantKeeper` (tenants) | 1 record, 2 units of capacity, 2 instances, 2 handlers at once, 1 fault | slices never exceed the pool; neither the orphan sweep nor the manager's sweep of lapsed leases, whose look and teardown are two steps, kills an instance a live record serves or launches; a record that was torn down and revived by a handler that held it is excepted |
| `PoolsBalance` | `Cards` (cards) | 2 cards of 2 sizes, 2 records, 3 probes | free memory is what slices do not hold, and what is offered can be taken; cards clamped by a shrink are left out until reconciled |
| `ServesWhatWasOrdered` | `Placement` (placement) | 2 versions (the second needs a card, a fee and a volume), 6 envelopes, 2 shares, a box with a card and one without on older contracts, 2 edits, 1 fault | a serving record runs what its stamped envelope and version give, on hardware and a runtime that serve it until a switch |
| `Incompressible`, `HandBackPaysUp` | `ProofKeeper` (proofs) | 2 records, window, interval and quantum 1, clock to 2 | no mixture of proofs earns more than a window in one instant; an orderly hand-back settles before it releases |
| `PaidTimeServed` | `Metered` (metered) | 2 payments, one in ETH, window 3, 1 confirmation, 2 faults | paid = left + used, used no more than up; a record that expires unpaid had no early payment, in USDC or ETH, but the two the code loses: one a crash caught between its mark and its credit, one in ETH without a price until the window ended |
| `OwnersOnly` | `FrontDoor` (door) | 2 deployments, one private, 1 port, 2 instances, 1 fault | a connection under a name goes to the port of its own instance, and is passed on a private app, over http or a bridge, for its owner only; behind the port of an instance whose death nobody noticed is whoever took it |
| `KeepsItsNames` | `Registrar`, `BoxCerts` (registrar, boxcerts) | 2 registries, 2 boots, 2 beats, 4 faults; 2 turns of the certificate queue | after a clean round the box stands where it means to, at its price; a custom certificate goes only once this life asked about every running record and none was last heard to own the name; one that never answered, or was forgotten, counts as not owning it |
| `EveryPaymentBooked`, `AutoProvisionsClean` | `Orders` (orders) | quote 2, 1 confirmation, lag 2, 3 blocks, 2 payments, 2 faults (the catch-up clamp would need 5 blocks to pass one over; the theorems of section 6 have no such bound) | what the scanner has passed is in the files, but a payment whose very first write the disk refused; payments alone provision an order only in time, when enough and, but for those whose handler threw, clean |
| `ConvertedOnce` | `Provisioner` (provision) | 2 orders, 5 transactions, 2 faults | one deployment per paid order, funded once, through crashes that leave hashes on disk |
| `CreditedOnce` | `TopUps` (topups) | 1 order, 3 transactions, 2 faults | a card top-up is deposited at most once; an approval follows a look at the chain, and a broadcast whose hash was never written is excepted |
| `SpentAsTapped` | `CreditVault` (vault) | 2 factories, 2 keys, credit 2, 2 taps, clock to 1 | one tap, one effect; credit stays in the customer's vaults, deployments or the treasury |
| `PadsUsedOnce` | `Pads` (pads) | 2 devices, window 1, nonce memory 1, 2 faults | windows of pads never overlap, a receipt counts once within the nonce memory |
| `SignInSound` | `Accounts` (accounts) | 2 passkeys, 1 wallet, 2 accounts, 3 tokens, 1 fault | challenges work once, a method has one account, no account loses its last method; two crossed deletions are excepted |
| `NoOrderOrphaned` | `Certs` (certs) | 2 CAs, 2 keys, 2 orders, 2 faults | an order a CA works on is not doubled for the same key until the relay gives it up: a call about it failed, the account or the note of it was lost, or it is too old |
| `ServedOnlyProven` | `Domains` (domains) | 2 deployments, demote after 1, drop after 2 failures, 2 checks at once, 1 fault | a hostname routes only to what a check since its attachment proved |
| `TunnelSound` | `Tunnel`, `Egress`, `PortRelay` over UDP and TCP (tunnel, egress, udp, tcp) | 2 boxes (one trusted), 2 connections under a minted name, VCEK required; 1 egress relay, 2 channels; 2 keys, 2 polls; 1 to 3 faults | names stand for the newest connection that is up, what is bound is a trusted operator or hardware its maker vouches for, calls never wait on a handled close, counts are what is open |
| `FreshRoute` | `Route`, `SniRelay`, `AppZone`, `PortRelay`, `Fleet` (route, sni, zone, udp, tcp, fleet) | 2 boxes, one of them vetted, cache ages 1 and 2, one connection or fan-out at a time; 2 relays, 2 names, 2 deployments; 3 rows, 2 schemas, 2 ledgers; 1 to 3 faults | requests go to the holder the ledger names, splices to one no older than the caches; DNS follows the records of the last poll; a silent box loses nothing; the fleet changes only by a read that went through |
| `OnlyHolders` | `FleetGate` (gate) | 2 boxes, cache age 1, 2 faults | secrets and challenges go to a holder, at most a cache and a read late |
| `BoxSound` | `MetalHost`, `MetalGuest` (metal, guest) | 3 images, 2 roots, 1 fault; 2 strikes, 2 dials, 3 faults | an updater not killed half-way leaves an image it saw healthy, or one whose restart did not take place; a card is advertised within the strikes of an answer, the worker that was probed an honest one; answers match requests until the relay restarts; streams live on their socket |
| `AsConfirmed` | `OwnerCli`, `Dashboard`, `Planner`, `Autoscaler`, `LedgerMove` (cli, dash, planner, scaler, move) | 2 commands or panels, 2 plans over 3 fleets and 4 requests, 3 boxes, 4 clicks of an administrator on 2 targets, 1 fault each | what was shown before acting is what was done, the record unchanged in between and the hardware known where the property says so, and the CLI says nothing that is not so; a seal after a clean verdict seals what the source held |

Where a property makes an exception, the code really goes wrong there; section 5
names the place. Bounds are small because the races need few actors: two of the thing
raced for, and clocks just longer than the windows that are compared. The larger fault counts are where a case needs several
failures in a row (a lost receipt, a failing read and a relaunch for `Registrar`).

## 5. Where the code and its comments part

Shown by runs of their own:

* **A sponsor's money can be refunded to the owner** (`sponsor_refund`).
  `ownerEscrow6` is only lowered by `refund`. The owner funds, a box serves and
  earns that escrow, a sponsor tops up, and the owner cancels: the stale figure
  lets the sponsor's escrow through. The header says this cap is what keeps a refund a
  reversal of the owner's own payment.
* **The tail of a lapsed lease is not refundable** (`lapsed_tail`). `refundableOf`
  keeps reserving it after an unproven lapse; the comment on `refund` says a second
  call collects it once the lease lapses.
* **A claimable record can be swept** (`sweep_claimable`). Drained means below the
  last runner's rate; a cheaper box could still claim the record.
* **The last runner's tail can be re-priced** (`tail_rate`). `setMaxRate` at or after
  the expiry re-snapshots the runner rate without settling; `claim` promises the
  previous runner its own rate.

Met while modelling. The models follow the code in each, and the properties leave the
case out or allow it; none has a run.

| Place | What the code does |
|---|---|
| `EnclaveDeployments.sol:399` | the comment says runnerBps affects later creates and resizes only; claim and setMaxRate re-snap with the current value |
| `supervisor.js:6009`, `:6007` | the custom domains are declared known even when every fetch failed, and the list of a record that does not run when a refresh begins is forgotten. So the next reconcile drops a restored certificate before the relay has said anything, and one whose record is merely restarting, against the comments at 5935-5938, 5993 and 7232-7235 |
| `supervisor.js:8140` | switchTenantVersion does not look at the status again after its stop is answered, nor performTenantProvision after its launch. A record that was torn down meanwhile gets a slice again and is launched or joins a launch; a sweep that had planned while it was dead, or the manager's own for a lease let run out, then kills the instance. `SweepsSpareTenants` excepts records revived in this way (`ended`) and holds otherwise |
| `supervisor.js:6438`, `:6738`, `:8235` | teardown awaits before the record's status changes; a restart or edit in between launches a record that is being removed, until the orphan sweep |
| `supervisor.js:8828`, `:8226` | the gate on a pinned configuration asks about the version's CID: an override that pins one is taken by a box that cannot fetch it; an edit that relaunches asks for neither the fetch nor the volumes it names |
| `supervisor.js:8148` | an optional-GPU record resized on a box without a card is evicted, which the comment at 8089 says the flag prevents |
| `supervisor.js:2409` | a card that turned out smaller clamps its free memory at zero; what was reserved is later given back in full |
| `supervisor.js:5141` | the login nonce is removed after the awaited check, so two concurrent logins with one nonce both succeed |
| `supervisor.js:9267` | a refused checkpoint never moves to the back, so a batch that always reverts holds up the rest |
| `supervisor.js:6139`, `:5196` | payments older than the scan window, and ETH payments waiting for a price at a restart, are not seen again; an ETH payment that had no price until its window ended finds its reservation expired, against "never lose a payment" (6129) |
| `supervisor.js:6157` | pollPayments marks a log as seen before it credits it, and either may be the last thing that is written: a crash between the two, the file saved in between, loses a payment that was in time, against the comments at 2631-2637 and 6156. `PaidTimeServed` excepts it |
| `supervisor.js:6200` | the comment says an unanswered GET freezes the clock without a respawn; the false it returns respawns the instance (6259, 6282) |
| `supervisor.js:4298`, `:7512` | a request goes to the port on the record, or that the manager lists. Until the supervisor notices that an instance died, whoever reused the port answers for it; so `OwnersOnly` speaks of the port, and of what is behind it only while the instance lives |
| `relay/auth.js:510` | deleting a passkey awaits between finding and splicing it; two at once can remove a neighbour, or the last one |
| `relay/billing.js:666`, `:811`, `:975` | a top-up approved while its deposit is in flight deposits again; the float gate is read before an await; an operation slower than two minutes is reported rejected and may land |
| `relay/billing.js:232`, `:221`, `relay/indexer.js:88` | a log is marked as seen before its handler runs, and the store's flush throws when the disk refuses the write (`relay/store.js:57-61`). When the write that books the payment, or opens the item of an unmatched one, is refused, it is in memory only and no later poll looks again: a kill before the next write loses it, against `relay/store.js:29-33`. `EveryPaymentBooked` excepts that first write, and no other |
| `relay/billing.js:232` | a handler that throws at that write has not screened its payer, and nobody does later: a clean payment that completes the quote provisions the order, against "every USDC payer is OFAC-screened before provisioning" (16). `AutoProvisionsClean` excepts payers whose handler threw |
| `relay/billing.js:611` | a card webhook moves an order that screening flagged to provisioning, contrary to the header (16-17) |
| `relay/provisioner.js:129` | a create whose wait was given up is parked for an operator although the event carries the id |
| `relay/certs.js:431`, `:556`, `:642`, `:659`, `:676`, `:718` | only a CA that is down, a 5xx or a timeout counts as the CA's failure. An error answer (a 429) to any later call, a DNS API that fails or a lookup that does ends the attempt and forgets the order, which the CA may still be working on; the next CA, or the next ask, gets another one for the same key, which the comment at 585-590 wants to avoid. `NoOrderOrphaned` excepts orders given up so |
| `relay/domains.js:595`, `relay/pads.mjs:72` | accepted signatures are remembered in memory only; two uploads of one pad share a temporary file |
| `relay/api-relay.js:1250`, `relay/egress-relay.js:142` | the fan-out's budget is given back by the number of boxes at the end, not the number that was taken; a cap is compared with a count that changes during an await |
| `relay/relay.js:385` | a fresh cache entry is used before the ledger is asked, the order the comment at `relay/api-relay.js:1163` calls a bug; the ambiguity of a prefix is looked for only after it |
| `relay/api-relay.js:905`, `relay/dns-relay.js:206` | the map of relays is live only where it is made and last-good where it is used, so a name keeps a relay that has gone while the polls fail |
| `relay/tunnel.js:454` | request ids start at 1 in every life of the relay and the box keeps no count: a reply to a request of the life before, late on a socket that was opened since, answers another request |
| `relay/tunnel.js:55` | a /t/name path is accepted on any https host, the comment above names the relay's |
| `relay/fleet.mjs:143` | registryAbi settles on schema 1 for good after a failed read, unlike depAbi and the comment at 416 |
| `relay/tcp6-relay.js:113`, `egress.js:279` | a listener's error leaves its flows open; relays without a name replace one another's channel for ever |
| `relay/mcp.js:270`, `:686`, `:1037`, `:1383` | a call is missing from the catalog's ABI, so every config reads as empty; a check that says it fails closed passes when unread; plan_deploy says it runs the share minimums, but shares that are asked for are not compared with them; envelopes are rewritten whole |
| `site/components/deployments/deployments.js:1482`, `:3063`, `:3082` | the same check on the page; "nothing moved ... on the shares it already had" after a resize that landed and whose receipt was not seen; "nothing changed" after a hand-back whose answer was lost, when the box had torn down, or after a move whose first half landed. `AsConfirmed` says nothing of these words |
| `site/components/admin-console/migrate.js:670`, `admin-console.js:1684`, `:1807`, `:1841`, `:1887` | a changed source record is not re-imported; the unattended run verifies without the grants it planned with; Migrate does not read again; a late funding is planned twice; one armed click skips both checks, on either target |
| `site/js/core/vault.js:138` | expectedControlCall lacks the cancel action its callers use |
| `scripts/autoscale.mjs:459`, `:513`, `:552`, `:634` | evacuations are dropped from every plan, so docs/autoscale.md:90-108 is not carried out; a box whose boot times out stays on; a rollback stops a box with its tenants; skipped actions stamp the cooldown |
| `cli/enclave.mjs:2617`, `:2967` | the envelope is rewritten whole; `deploy --unsigned` run twice makes two records |
| `metal/update.mjs:203`, `:217` | whether the restart worked is not looked at: when it did not, the old guest answers the gate and the new image is kept unproven; after a roll-back likewise. `BoxSound` excepts an image put in place by such a restart |
| `metal/guest/gsup.mjs:611` | the comment says a replaced worker breaks the connection and its card is no longer advertised; each refresh dials anew (622-647), so a worker that took over between two of them keeps the proof of the one before |
| `metal/update.mjs:219`, `metal/volumes.mjs:95` | killed between swap and gate, or between image and json, nothing marks the half-made state |

## 6. What is proved

For every number of records, boxes, operators and wallets, all prices, fees, caps and
amounts, and every bound:

| Module | Theorem | States |
|---|---|---|
| `DeploymentsProofs` | `Invariant` | `Spec => []IInv` |
| | `TypeCorrect` | `Spec => []TypeOK` |
| | `MeterSafe` | `Spec => []MeterInsideLease` |
| | `TailPaid` | `Spec => []TailIsPaid` |
| | `RunnerRegistered` | `Spec => []RunnerIsRegistered` |
| | `RefundExact` | `Spec => []RefundableIsExact` |
| `LedgerRefinement` | `LeasesAreLocks` | `Spec => ImplementsLock` |
| | `RuntimeIsConserved` | `Spec => RuntimeConserved` |
| | `SellersStayBacked` | `Spec => SellerStaysBacked` |
| | `LedgerIsTreasury` | `Spec => ImplementsTreasury` |
| | `ContractIsSolvent` | `Spec => []Solvent` |
| `LedgerRefinement` | `SecondsPaidOnce` | `PaySpec => []NoSecondPaidTwice` |
| | `BondOutlives` | `BondSpec => BondOutlivesClaim` |
| `LeaseKeeperProofs` | `KeeperTypeOK` | `Spec => []TypeOK` |
| `PaymentProofs` | `CreditIsSpentAsTapped` | `Spec => []SpentAsTapped`, of `CreditVault` |
| | `OrdersConvertedOnce` | `Wallet!Spec => []ConvertedOnce`, of `Provisioner` |
| | `TopupsCreditedOnce` | `Float!Spec => []CreditedOnce`, of `TopUps` |
| | `PaymentsBooked` | `Book!Spec => []EveryPaymentBooked`, of `Orders` |
| | `ProvisionedClean` | `Book!Spec => [][AutoProvisionsClean]_vars`, of `Orders` |
| | `PaidTimeIsServed` | `Meter!Spec => []PaidTimeServed`, of `Metered` |
| | `TimeIsIncompressible` | `Proofs!Spec => []Incompressible`, of `ProofKeeper` |
| | `HandBackIsPaid` | `Proofs!Spec => [][PaysUp]_vars`, of `ProofKeeper` |
| | `PoolIsNotOversold` | `Tenants!Spec => []NeverOversold`, of `TenantKeeper` |
| | `PoolsAreBalanced` | `Pools!Spec => []PoolsBalance`, of `Cards` |
| `RelayProofs` | `PadsAreUsedOnce` | `Dealt!Spec => []PadsUsedOnce`, of `Pads` |
| | `DomainsServedOnlyProven` | `Names!Spec => []ServedOnlyProven`, of `Domains` |
| | `SignInIsSound` | `People!Spec => []SignInSound`, of `Accounts` |
| | `SecretsToHolders` | `Gate!Spec => [][OnlyHolders]_vars`, of `FleetGate` |
| | `OrdersNotDoubled` | `Issuer!Spec => []NoOrderOrphaned`, of `Certs` |
| `PartsProofs` | `PadsUsedOnceComposed`, `SignInSoundComposed`, `ServedOnlyProvenComposed`, `NoOrderOrphanedComposed`, `OnlyHoldersComposed`, `EveryPaymentBookedComposed`, `NeverOversoldComposed`, `SpentAsTappedComposed`, `ConvertedOnceComposed`, `PoolsBalanceComposed`, `CreditedOnceComposed`, `PaidTimeServedComposed`, `IncompressibleComposed`, `AutoProvisionsCleanComposed`, `HandBackPaysUpComposed` | each of the above of the instance in `MCParts`: `Spec => []PadsUsedOnce`, ..., `Spec => OnlyHolders` |

So every property that a passing run checks of the ledger is also a theorem, and so
are fifteen of the properties of the runs `parts` and `relays`, twelve invariants and
three action properties.

**The lease.** `TypeOK` is not inductive: `release` subtracts the tail from `spent6`,
which stays a natural number only because the tail was burned at the current rate
(`TailIsPaid`), and `_creditRunner` subtracts what it pays from the escrow.
`TailIsPaid` survives a re-base in setMaxRate only because no second is unserved
there, and an import only because an id without a record has no lease
(`OnlyRecordsLeased`). `MeterInsideLease` makes the credited seconds a natural number
and, in `RefundExact`, lets the escrow and the reserve fall by the same amount: the
lemma `CreditKeepsRefund` splits the reserve into what the settle pays and what is
left of it. `RunnerIsRegistered` needs that an entry with an operator exists
(`OperatorsExist`), because claim only compares the operator. `RunnerIsPayable` (the
recorded operator of a leased record is an address) is what makes a credit the
movement of one account. `IInv` is the conjunction; there is one lemma per call, and
`NextKeeps` has one case per step of `Next`. Two frame lemmas keep this short:
`OneRecord` (a step of one record needs its relations re-established for that record
only) and `SameLeaseKept` (a call that leaves lease, meter and watermark alone keeps
them). The first half of the module states what each operator returns: a quote covers
the fee, a quantum costs no more than the balance, a resize spends exactly what it
re-buys, a credit never exceeds the escrow.

**The refinements.** `LedgerRefinement` sorts the calls of `Next` into kinds by what
they move (`NextKinds`, `MoneyKinds`) and proves the step properties once per kind.
`LeasesAreLocks` maps each record to its own lock; the steps of other records are
stutters of it. `LedgerIsTreasury` maps escrow, earnings and bonds to the accounts of
`Treasury`: the fee of a funding and the two halves of a sweep are where one call
touches two accounts, and the lemmas show that the treasury's step says the same.
`ContractIsSolvent` follows from it: sums over records and operators are folds, and
`SumLemmas` proves what a change of one entry, or the arrival of a new one, does to
such a sum. The induction over sets that this needs is in `EverySubset`: the strict
subset order of a finite set is well-founded, so a claim that fails fails at a minimal
subset, whose proper subsets all satisfy it.

**The histories.** `SecondsPaidOnce` needs `PayInv`: what was paid of a record ends at
or before its meter while it is leased, and at or before the clock always, so that a
claim that starts its meter at the clock starts behind nothing. `BondOutlives` needs
`BondInv`: a pending exit was asked for at or after the last claim, since claim refuses
an operator that is leaving, and was given a delay no shorter than the shortest.

**The claim loop.** `KeeperTypeOK` rests on `KeeperInv`: types of ledger, cached reads,
records and flights, which depend on one another because a launch or release copies
what a read left, and `QueueBounded`, since a transaction is sent only while the queue
has room.

**The parts.** `PaymentProofs` and `RelayProofs` hold one component after another, each
an instance under a name of its own (`Wallet == INSTANCE Provisioner WITH ...`); a
variable or constant that two components have carries the component's name. Each
proof is an inductive invariant that says what a handler may rely on between two
awaits, one lemma per action, and the property read off. What the invariants add:

* *Vault*, `VaultInv`: a signature which had its effect was for a nonce its vault has
  passed (`LandedOk`), signatures are told apart by their numbers (`TapsOk`), and the
  credit of all factories and what was typed and tapped move together (`MoneyOk`):
  conservation is a sum, over factories and over taps.
* *Provisioner*, `WalletInv`: what is in flight or landed for an order whose hashes
  were kept is the one transaction per step its record names (`HashesKept`), and
  wherever the run stands, nothing is in the way of what it sends next (`RunOk`): the
  plan may have been made before a restart, from a hash whose receipt was lost.
* *Top-ups*, `TopupInv`: the deposits of a top-up that landed or still may are at most
  one, and none before a deposit leaves; without a hash on its record it waits for a
  human.
* *Orders*, `ScannerInv`: every payment before the point a scan starts from is in the
  files or had its first write refused, or is in the logs in hand. The overlap by which
  a scan steps back (`Rescan`) and the confirmations are what a lagging node costs,
  hence the bound on `Lag` below. `CleanInv`, for `ProvisionedClean`: a tainted payment
  whose handler did not throw left `ofac_hit` on its order, or found it settled, and an
  order with that flag is past waiting, in memory and in the files a kill goes back to,
  so that a later clean payment finds it under review, where it stays.
* *Pay per deploy*, `MeterInv`: the balance of a record is the number of payments it
  got, in memory and in the state file (`PaidUp`), and a payment the watcher has not
  marked still has time to be seen before the reservation ends (`WatchKept`).
* *Proofs of time*, `ProverInv`: as soon as a proof was accepted in this instant no
  elapsed time is left to accept; a gap means nothing was. `KeptInv`, for
  `HandBackIsPaid`: a running record and a teardown know the end of their lease, what a
  teardown sent reaches to where it began (or the lease's end), and a final proof that
  was refused (`NothingLeft`) had nothing left to settle.
* *Pool*, `PoolInv`: free plus the neighbour's plus the sum of the slices is at most the
  capacity, and only a record that is claimed or running holds a slice. It is an
  inequality because a release clamps and a rebuild starts from live records only.
* *Cards*, `CardsInv`: memory, compute and cores are each the total less a sum of
  slices (`MemoryKept`, except for cards clamped by a shrink, `ComputeKept`,
  `CoresKept`); before a pool is formed memory is in whole granules (`WholeGranules`),
  which is why a share that is offered, rounded down, fits rounded up.
* *Pads*, `PadInv`: windows handed out lie below the mark on disk and that mark is no
  higher than the one in memory (`MarksOk`), so a crash, which brings the mark on disk
  back, cannot hand out a pad again; windows of a device are apart (`WindowsApart`);
  both copies of the ledger remember the latest nonces (`LedgerOk`, `RequestsOk`).
* *Domains*, `DomainInv`: attachments that are live were proven, in memory and on disk,
  and so was whatever a favourable verdict still in flight is about.
* *Accounts*, `AccountInv`: a waiting handler holds a token that is spent and has signed
  nobody in (`TokenInv`); the maps from passkeys and wallets are the accounts' own lists
  read backwards, in memory and on disk, and a deletion that waits still finds a second
  way in (`IndexInv`), both until two deletions have crossed.
* *Gate*, `GateInv`: a row or read that may still be used says what the ledger says, or
  the ledger changed no longer ago than it was read.
* *Certificates*, `CertInv`: the open orders of a key are among the one on disk and the
  one in hand, which are the same when there are both, and those the relay gave up.

**The composition.** In `MCParts` a behaviour is of one part (`PartFixed`). While
`part` names a component its slots are that component's variables and its steps are
that component's steps, so its theorem applies; for any other part its property says
nothing. `PartsProofs` shows this once per component, with one instance of each proof
module, at the bounds of the runs.

**Assumptions.** For the ledger: that choices are of their types (shares in
thousandths, amounts natural numbers, quantum and exit delay positive, imported records
well-formed), that address(0) is nobody's address and the zero id is no box, that the
initial directory is well-formed and names no operator for an entry that does not
exist (`Deployments`, `Registry`), and that there are finitely many ids and addresses
(`FiniteAssumption`; only sums use it). For the claim loop: finitely many records and
natural bounds (`KeeperAssumption`). TLC evaluates all of them in the runs of these
modules. For the parts the hypotheses stand in the theorem. Pads: a natural window and
nonce memory. Domains: an integer threshold of failures. Accounts and certificates:
none. Gate: a natural age of the cache. Vault: natural bounds and finitely many
factories, one of them the first. Provisioner and top-ups: none. Orders
(`ScannerConstants`): natural depths and chunks, and `Lag <= Rescan + Confirmations`:
two nodes differ by no more blocks than the scanner waits and steps back, which is what
the code's constants are chosen for. Pay per deploy (`MeterConstants`): finitely many
payments, natural windows. Proofs of time (`ProverConstants`): a natural window, a
quantum and a clock bound that are integers; `HandBackConstants` adds that the window is
positive (the contract requires a minute). Pool (`PoolConstants`): finitely many
records and a natural capacity. Cards (`CardsConstants`): finitely many records and
cards, at least one card, cards numbered, and positive sizes; card memory is a
multiple of a granule. `PartsProofs` proves every one of them of the runs' constants.

**Only model-checked.** Liveness (`Taken`, `NoFreeRide`, `Resumed`) and ENABLED are out
of this prover's reach. `LeaseStack` is about the disturbances the
configuration names one at a time (it is false when they are combined freely), so it stays with the run.
Of the parts,
these stay on the instances of section 4: `ServesWhatWasOrdered`, `BoxSound`,
`TunnelSound` (the last two over several machines each), and the action properties
other than `OnlyHolders`, `AutoProvisionsClean`, `HandBackPaysUp` and those of the ledger
(`SweepsSpareTenants`, `OwnersOnly`, `KeepsItsNames`, `FreshRoute`, `AsConfirmed`).
The others are not out of reach in principle. Each
needs an invariant about a machine's whole environment. The four statements of section 5 are refuted, not proved.

## 7. Plan

1. Done: the ledger with its lock, treasury and histories, all of it proved; the claim
   loop with its liveness, its types proved; the machines of boxes, relays and clients,
   fifteen of their properties proved.
2. Next proofs: `ServesWhatWasOrdered`; then `TunnelSound`, one machine at a time.
3. An import with a rate of 0, whose cap reads as uncapped although the import promises
   its snapshot as a ceiling; it needs a history of the imported rate.
4. An order whose create landed after its receipt was given up on is planned as one to
   fund, but its record names no deployment, so that its provisioning fails each time
   (`planRecovery`, `provisionOrder`). Nothing is doubled, so `ConvertedOnce` is silent about it; it needs
   a liveness property of `Provisioner`.
5. `LeaseKeeper` with two records, and with the ledger of `Deployments` in place of its
   own lease, so that `LeaseLock` is shared rather than restated.

## 8. Not modelled

* **EnclavePay, PaymentRouter**: receipts without state; their events are the input of
  `Orders` and `Metered`. **EnclaveAppCatalog, Featured, Reviews, HostReviews,
  AddressBook**: record keeping without money or leases.
* **The worker and wasm manager, mps-daemon**: wrappers around processes and a vendor's
  daemon. **Shielded inference**: numeric code. **Net guard**: a pure filter.
* **Site pages other than those named, scripts other than the autoscaler**: rendering
  and build tooling.
* **Parts of modelled files.** `LeaseKeeper` leaves out, of the audit, the
  relaunch of a record that a crash left claimed (`supervisor.js` 8423-8430) and of an app
  that keeps dying, with its hand-back (8465-8483, which `TenantKeeper` has), and, of the
  sweep, the health of the backend (8513), a pass that does not begin, and the cap on
  claims, which one record never reaches. `Cards.FreeOn` takes the free memory of the books; the code
  also takes the minimum with what the card reports (`proof.vramFreeGb`, 2481-2483), so
  the model offers no less than the code. `Fleet.LedgerRows` reads a ledger's rows in
  one step, and `PortRelay.Closes` lets a late close of a UDP flow hit one of a listener
  that took its place, which contains what the code does. `EnclaveProofOfTime`: `checkpointMany` is a run of
  checkpoints; ownership and totals are left out. Billing: quotes, spending reports
  and admin lists. Relays: the bytes a splice carries, list endpoints, rate limits of
  requests, DNS records other than those of certificates, federated login, the parsing
  of quotes and the sanctions list. Front door: header rewriting and streaming. CLI:
  listings and packaging. Agent tools: listings and texts. Owner's page: rendering.
  Migration console: the catalog kind and the other panels.
* Gas, reverts inside the USDC token, re-entrancy (state is written before every
  transfer) and the widths of the packed fields.
