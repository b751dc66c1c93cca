------------------------------- MODULE MCParts -------------------------------
(***************************************************************************)
(* The small machines of the platform, checked side by side on small       *)
(* instances: "part" says which machine a behaviour is of, and the slots   *)
(* a, b, ... are that machine's variables in the order of its module.      *)
(***************************************************************************)
EXTENDS Integers, FiniteSets

CONSTANT Parts       \* the machines of a run

VARIABLES part, a, b, c, d, e, f, g, h, i, j, k, l, m, n, o

vars == <<part, a, b, c, d, e, f, g, h, i, j, k, l, m, n, o>>

Tenants == INSTANCE TenantKeeper WITH rec <- a, free <- b, want <- c, tasks <- d,
    inst <- e, beat <- f, sweep <- g, other <- h, limits <- i, doomed <- j, Ids <- {1},
    Capacity <- 2, Ttl <- 1, Silence <- 0, MaxVm <- 2, MaxTasks <- 2, MaxFaults <- 1
Proofs == INSTANCE ProofKeeper WITH now <- a, lease <- b, rec <- c, round <- d,
    ending <- e, burst <- f, faults <- g, Ids <- {1, 2}, Window <- 1,
    Interval <- 1, Quantum <- 1, PerTx <- 1, MaxTime <- 2, MaxFaults <- 1
Book == INSTANCE Orders WITH chain <- a, order <- b, booked <- c, strays <- d,
    reviews <- e, disk <- f, refused <- g, torn <- h, inHand <- i, cursor <- j, over <- k,
    seen <- l, job <- m, faults <- n, Quote <- 2, Confirmations <- 1, Rescan <- 1,
    Chunk <- 1, Catchup <- 1, Lag <- 2, MaxBlocks <- 3, MaxPays <- 2, MaxFaults <- 2
Wallet == INSTANCE Provisioner WITH prov <- a, queue <- b, run <- c, txs <- d,
    torn <- e, faults <- f, Orders <- {1, 2}, MaxTxs <- 5, MaxFaults <- 2
Float == INSTANCE TopUps WITH order <- a, settling <- b, txs <- c, float <- d,
    credit <- e, head <- f, silent <- g, limits <- h, Ids <- {1}, Cap <- 1,
    Target <- 1, Ceiling <- 2, Refills <- 1, MaxTxs <- 3, MaxFaults <- 2
Dealt == INSTANCE Pads WITH tunnel <- a, mem <- b, disk <- c, signed <- d,
    out <- e, upload <- f, artifacts <- g, faults <- h, Devices <- {1, 2},
    MaxWindow <- 1, NonceMemory <- 1, MaxNonces <- 2, MaxServed <- 2, MaxFaults <- 2
People == INSTANCE Accounts WITH db <- a, disk <- b, tokens <- c, reqs <- d,
    grants <- e, born <- f, crossed <- g, faults <- h, Creds <- {1, 2},
    Wallets <- {1}, MaxAccts <- 2, MaxTokens <- 3, MaxReqs <- 2, MaxFaults <- 1
Issuer == INSTANCE Certs WITH box <- a, keys <- b, lease <- c, issue <- d,
    held <- e, cached <- f, cao <- g, down <- h, acct <- i, given <- j,
    faults <- k, CAs <- {1, 2}, MaxKeys <- 2, MaxOrders <- 2, MaxFaults <- 2
Names == INSTANCE Domains WITH dns <- a, recs <- b, host <- c, disk <- d,
    checks <- e, ledger <- f, serves <- g, proven <- h, faults <- i,
    Deps <- {1, 2}, Demote <- 1, Fail <- 2, MaxRecs <- 2, MaxChecks <- 2,
    MaxFaults <- 1
Hub == INSTANCE Tunnel WITH conns <- a, held <- b, bound <- c, reserved <- d,
    row <- e, cached <- f, chain <- g, faults <- h, Boxes <- {1, 2}, Trusted <- {1},
    Minted <- TRUE, RequireVcek <- TRUE, MaxConns <- 2, MaxFaults <- 1
\* A dialled box and, unvetted, one that can only attach by its tunnel.
RouteEntries == [r \in {1, 2} |-> [vetted |-> r = 1, https |-> TRUE, global |-> TRUE,
                                   claims |-> IF r = 1 THEN "unsaid" ELSE "yes", empty |-> FALSE]]
Router == INSTANCE Route WITH chain <- a, attached <- b, registry <- c, asking <- d,
    live <- e, ledger <- f, reading <- g, owner <- h, neg <- i, inflight <- j,
    reqs <- k, budget <- l, Entries <- RouteEntries, Reqs <- {1}, Lease <- 3,
    Ttl <- 1, OwnerTtl <- 2, Probe <- 1, FanoutMax <- 1, MaxAsks <- 2, MaxFaults <- 1
\* The deployment asked for declares a port, and its twin declares 443.
SniPorts == [dep \in {"dep", "twin"} |-> IF dep = "dep" THEN {"other"} ELSE {"443"}]
Sni == INSTANCE SniRelay WITH chain <- a, origins <- b, asked <- c, index <- d,
    custom <- e, page <- f, app <- g, conns <- h, count <- i, budget <- j, Boxes <- {1, 2},
    Vetted <- {1}, Tcp <- SniPorts, Conns <- {1, 2}, MaxConns <- 1, Ttl <- 1,
    OwnerTtl <- 2, MaxAccepts <- 2, MaxFaults <- 1
Zone == INSTANCE AppZone WITH relays <- a, choice <- b, nets <- c, origins <- d,
    live <- e, rows <- f, poll <- g, appRelays <- h, perOrigin <- i, known <- j,
    good <- k, faults <- l, Relays <- {1, 2}, Boxes <- {1, 2}, RelayNames <- {"x", "y"},
    Deps <- {1, 2}, Default <- "y", MaxFaults <- 1
Gate == INSTANCE FleetGate WITH lease <- a, since <- b, row <- c, reading <- d,
    listed <- e, ask <- f, txt <- g, given <- h, faults <- i, Boxes <- {1, 2},
    Ttl <- 1, MaxTxt <- 1, MaxFaults <- 2

\* A box with a card, the volume and the fleet's key, on the newest ledger, and one without either,
\* which deals with older contracts.
TermsBoxes ==
    <<[gpu |-> TRUE, card |-> [vram |-> 8, flops |-> 8], node |-> [mem |-> 8, ops |-> 8], shielded |-> FALSE,
      serves |-> {"p3", "configCid"}, vols |-> [v \in {"model"} |-> 6], key |-> TRUE,
      price |-> [gpu |-> 4, cpu |-> 2], asks |-> TRUE, payout |-> FALSE,
      ledger |-> 13, registry |-> 4, catalog |-> 7],
     [gpu |-> FALSE, card |-> [vram |-> 8, flops |-> 8], node |-> [mem |-> 8, ops |-> 8], shielded |-> FALSE,
      serves |-> {"p3"}, vols |-> [v \in {} |-> 0], key |-> FALSE,
      price |-> [gpu |-> 0, cpu |-> 2], asks |-> TRUE, payout |-> FALSE,
      ledger |-> 7, registry |-> 3, catalog |-> 6]>>
\* Version 1 runs anywhere; version 2 must have a card, asks a fee and mounts a volume.
TermsSpecs == <<[vram |-> 0, flops |-> 0, mem |-> 2, ops |-> 0, soft |-> FALSE, uses |-> {}, cid |-> FALSE,
                 vols |-> {}, fee |-> 0],
                [vram |-> 5, flops |-> 1, mem |-> 1, ops |-> 1, soft |-> FALSE, uses |-> {"p3"}, cid |-> TRUE,
                 vols |-> {"model"}, fee |-> 1]>>
\* Nothing; a configuration with rules; a card that may be missing; a pinned configuration with its
\* manifest; rules alone; and rules this build refuses.
Plain == [form |-> "json", has |-> {}, relay |-> "default", optional |-> "no", cid |-> "cid", keys |-> {},
          vols |-> {}, waf |-> [r \in {} |-> "off"]]
TermsEnvelopes == <<[Plain EXCEPT !.form = "empty"],
    [Plain EXCEPT !.has = {"config", "waf"}, !.keys = {"greeting"}, !.waf = [r \in {"methods"} |-> "in"]],
    [Plain EXCEPT !.has = {"gpu", "network"}, !.optional = "yes", !.relay = "named"],
    [Plain EXCEPT !.has = {"config", "configCid"}, !.keys = {"volumes"}, !.vols = {"model"}],
    [Plain EXCEPT !.has = {"waf"}, !.waf = [r \in {"rps", "blockScanners"} |-> IF r = "rps" THEN "in" ELSE "off"]],
    [Plain EXCEPT !.has = {"waf"}, !.waf = [r \in {"burst"} |-> "in"]]>>
TermsSizes == {[gpu |-> 0, cpu |-> 1], [gpu |-> 3, cpu |-> 1]}
TermsMoney == {[cap |-> 5, bal |-> 9, rate |-> 5, fee |-> 1], [cap |-> 2, bal |-> 9, rate |-> 2, fee |-> 0]}
TermsStarts == [ref : {1}, size : TermsSizes, env : {1, 2}, public : BOOLEAN, active : {TRUE},
                terms : {t \in TermsMoney : t.fee = 1}]
               \union [ref : {1}, size : {[gpu |-> 3, cpu |-> 1]}, env : {3}, public : {FALSE},
                       active : {TRUE}, terms : TermsMoney]
Terms == INSTANCE Placement WITH box <- a, cat <- b, row <- c, page <- d,
    step <- e, rec <- f, hold <- g, yank <- h, bond <- i, edits <- j, faults <- k,
    Versions <- {1, 2}, Kinds <- TermsBoxes, Specs <- TermsSpecs, Envelopes <- TermsEnvelopes,
    Sizes <- TermsSizes, Terms <- TermsMoney, Starts <- TermsStarts, Whole <- 4, MaxEdits <- 2,
    MaxFaults <- 1
Pools == INSTANCE Cards WITH mode <- a, total <- b, vram <- c, compute <- d,
    ready <- e, cores <- f, slice <- g, routed <- h, clamped <- i, probes <- j,
    CardIds <- {1, 2}, Ids <- {1, 2}, Whole <- 2, Context <- 1, Sizes <- {3, 4},
    MaxProbes <- 3
Meter == INSTANCE Metered WITH rec <- a, chain <- b, early <- c, seen <- d,
    queue <- e, busy <- f, silent <- g, up <- h, served <- i, disk <- j, torn <- k,
    unpriced <- l, faults <- m, Pays <- {1, 2}, EthPays <- {2}, Window <- 3, Confirm <- 1,
    Stale <- 1, MaxFaults <- 2
Host == INSTANCE MetalHost WITH released <- a, sick <- b, dist <- c, prev <- d,
    staging <- e, updater <- f, since <- g, halted <- h, ghost <- i, image <- j,
    json <- k, building <- l, launcher <- m, guest <- n, faults <- o,
    Tags <- {1, 2, 3}, Roots <- {1, 2}, Patience <- 1, Idle <- TRUE,
    Attested <- TRUE, MaxFaults <- 1
Guest == INSTANCE MetalGuest WITH worker <- a, card <- b, verdict <- c,
    silent <- d, hub <- e, ws <- f, asked <- g, work <- h, streams <- i,
    attests <- j, seeded <- k, crossed <- l, rolled <- m, faults <- n,
    Strikes <- 2, Silence <- 2, MaxStreams <- 1, MaxIds <- 2, MaxDials <- 2,
    MaxFaults <- 3
Shell == INSTANCE OwnerCli WITH rec <- a, price <- b, inst <- c, away <- d,
    store <- e, cmd <- f, told <- g, limits <- h, Boxes <- {1, 2}, Own <- {2},
    MaxRate <- 2, MaxCmds <- 2, MaxEdits <- 1, MaxFaults <- 1
Door == INSTANCE FrontDoor WITH rec <- a, inst <- b, key <- c, toks <- d,
    nonces <- e, req <- f, waf <- g, count <- h, faults <- i, Deps <- {1, 2},
    Private <- {1}, Who <- {1}, Ports <- {1}, Slots <- {1, 2}, MaxInst <- 2,
    MaxToks <- 1, MaxFaults <- 1
Announcer == INSTANCE Registrar WITH book <- a, chain <- b, boot <- c, reg <- d,
    call <- e, rev <- f, beats <- g, round <- h, moved <- i, faults <- j,
    Schema <- [r \in {1, 2} |-> r + 1], MaxBoots <- 2, MaxBeats <- 2, MaxFaults <- 4
BoxTls == INSTANCE BoxCerts WITH st <- a, attached <- b, listed <- c, heard <- d,
    known <- e, refresh <- f, registered <- g, held <- h, store <- i, retry <- j,
    queue <- k, job <- l, turns <- m, OwnCas <- FALSE, MaxTurns <- 2
Page == INSTANCE Dashboard WITH led <- a, leaving <- b, panel <- c, did <- d,
    moved <- e, ops <- f, faults <- g, Spaces <- {"waf", "config"},
    MaxOps <- 2, MaxFaults <- 1
Outbound == INSTANCE Egress WITH box <- a, leg <- b, data <- c, wire <- d,
    control <- e, chan <- f, count <- g, listed <- h, faults <- i,
    Addressed <- {1}, Unknown <- {}, MaxCid <- 2, MaxConn <- 3, MaxConns <- 1,
    MaxFaults <- 1
Udp6 == INSTANCE PortRelay WITH lists <- a, fleet <- b, polls <- c, listener <- d,
    flows <- e, late <- f, count <- g, seen <- h, faults <- i, Boxes <- {1, 2},
    Keys <- {1, 2}, Refused <- {2}, Clients <- {1}, Udp <- TRUE, MaxFlows <- 1,
    MaxBuf <- 2, MaxPolls <- 2, MaxFaults <- 3
Tcp6 == INSTANCE PortRelay WITH lists <- a, fleet <- b, polls <- c, listener <- d,
    flows <- e, late <- f, count <- g, seen <- h, faults <- i, Boxes <- {1, 2},
    Keys <- {1, 2}, Refused <- {2}, Clients <- {1}, Udp <- FALSE, MaxFlows <- 1,
    MaxBuf <- 1, MaxPolls <- 2, MaxFaults <- 3

\* A box, a relay's own row, a box of a stranger, and a row nobody may dial.
FleetRows == <<[host |-> TRUE, trusted |-> TRUE, public |-> TRUE], [host |-> FALSE, trusted |-> TRUE, public |-> TRUE],
               [host |-> TRUE, trusted |-> FALSE, public |-> FALSE]>>
Fleets == INSTANCE Fleet WITH book <- a, listed <- b, created <- c, addr <- d,
    rev <- e, read <- f, origins <- g, any <- h, shape <- i, ledger <- j,
    budget <- k, Schema <- [r \in {1, 2} |-> IF r = 1 THEN 5 ELSE 1],
    Rows <- FleetRows, Ledgers <- <<1, 2>>, Twins <- {1, 2}, MaxReads <- 3,
    MaxFaults <- 2
\* The second version needs a card; the fleets differ in what they take and serve.
ToolNeeds == <<[gpu |-> 0, cpu |-> 1], [gpu |-> 1, cpu |-> 1]>>
ToolDeploys == {[ver |-> 1, gpu |-> -1, cpu |-> -1, private |-> FALSE, ceiling |-> -1, config |-> 0],
                [ver |-> 1, gpu |-> 0, cpu |-> 2, private |-> FALSE, ceiling |-> 4, config |-> 2],
                [ver |-> 2, gpu |-> 1, cpu |-> 2, private |-> TRUE, ceiling |-> 2, config |-> 0],
                [ver |-> 2, gpu |-> -1, cpu |-> 0, private |-> TRUE, ceiling |-> -1, config |-> 0]}
ToolFleets == {[dev |-> TRUE, p3 |-> "some", gpu |-> 2], [dev |-> FALSE, p3 |-> "all", gpu |-> 1],
               [dev |-> TRUE, p3 |-> "none", gpu |-> 0]}
ToolStarts == [fleet : ToolFleets, hosted : {FALSE}, plans : {2}, faults : {1}]
              \union {[fleet |-> [dev |-> TRUE, p3 |-> "some", gpu |-> 2], hosted |-> TRUE,
                       plans |-> 2 - q, faults |-> q] : q \in {0, 1}}
Tools == INSTANCE Planner WITH world <- a, rec <- b, cache <- c, plan <- d,
    out <- e, told <- f, budget <- g, Versions <- {1, 2}, Needs <- ToolNeeds, P3 <- {2},
    Awaiting <- {2}, Pinned <- {2}, Shares <- {[gpu |-> 1, cpu |-> 2]}, Deploys <- ToolDeploys,
    Starts <- ToolStarts, Schema <- <<4, 13>>, Fee <- 1
Scaler == INSTANCE Autoscaler WITH box <- a, rec <- b, clock <- c, snap <- d,
    plans <- e, job <- f, budget <- g, Base <- {1}, Autos <- {2, 3},
    Records <- {1, 2}, Structural <- {3}, Short <- {2}, Untrusted <- {3},
    MaxAuto <- 1, Unmet <- 1, AllowCreate <- TRUE, MaxPlans <- 2, MaxFaults <- 1
MoveStart == [r \in {1, 2} |-> IF r = 1
    THEN [there |-> TRUE, bal |-> 1, fee |-> 1, earn |-> 1, cap |-> 2, on |-> TRUE, escrow |-> 0]
    ELSE [there |-> FALSE, bal |-> 0, fee |-> 0, earn |-> 0, cap |-> 0, on |-> FALSE, escrow |-> 0]]

Mover == INSTANCE LedgerMove WITH src <- a, tgt <- b, con <- c, work <- d,
    late <- e, budget <- f, Start <- MoveStart, Targets <- {1, 2}, Grants <- FALSE,
    MaxMoves <- 1, MaxClicks <- 4, MaxFaults <- 1
Vault == INSTANCE CreditVault WITH book <- a, cached <- b, vault <- c,
    treasury <- d, bought <- e, page <- f, taps <- g, landed <- h, now <- i,
    Factories <- {1, 2}, Keys <- {1, 2}, Credit <- 2, Life <- 0, MaxTime <- 1,
    MaxTaps <- 2

Init ==
    /\ part \in Parts
    /\ \/ part = "tenants" /\ Tenants!Init /\ k = 0 /\ l = 0 /\ m = 0 /\ n = 0 /\ o = 0
       \/ part = "proofs" /\ Proofs!Init /\ h = 0 /\ i = 0 /\ j = 0 /\ k = 0 /\ l = 0 /\ m = 0 /\ n = 0 /\ o = 0
       \/ part = "orders" /\ Book!Init /\ o = 0
       \/ part = "provision" /\ Wallet!Init /\ g = 0 /\ h = 0 /\ i = 0 /\ j = 0 /\ k = 0 /\ l = 0 /\ m = 0 /\ n = 0 /\ o = 0
       \/ part = "topups" /\ Float!Init /\ i = 0 /\ j = 0 /\ k = 0 /\ l = 0 /\ m = 0 /\ n = 0 /\ o = 0
       \/ part = "pads" /\ Dealt!Init /\ i = 0 /\ j = 0 /\ k = 0 /\ l = 0 /\ m = 0 /\ n = 0 /\ o = 0
       \/ part = "accounts" /\ People!Init /\ i = 0 /\ j = 0 /\ k = 0 /\ l = 0 /\ m = 0 /\ n = 0 /\ o = 0
       \/ part = "certs" /\ Issuer!Init /\ l = 0 /\ m = 0 /\ n = 0 /\ o = 0
       \/ part = "domains" /\ Names!Init /\ j = 0 /\ k = 0 /\ l = 0 /\ m = 0 /\ n = 0 /\ o = 0
       \/ part = "tunnel" /\ Hub!Init /\ i = 0 /\ j = 0 /\ k = 0 /\ l = 0 /\ m = 0 /\ n = 0 /\ o = 0
       \/ part = "route" /\ Router!Init /\ m = 0 /\ n = 0 /\ o = 0
       \/ part = "sni" /\ Sni!Init /\ k = 0 /\ l = 0 /\ m = 0 /\ n = 0 /\ o = 0
       \/ part = "zone" /\ Zone!Init /\ m = 0 /\ n = 0 /\ o = 0
       \/ part = "gate" /\ Gate!Init /\ j = 0 /\ k = 0 /\ l = 0 /\ m = 0 /\ n = 0 /\ o = 0
       \/ part = "placement" /\ Terms!Init /\ l = 0 /\ m = 0 /\ n = 0 /\ o = 0
       \/ part = "cards" /\ Pools!Init /\ k = 0 /\ l = 0 /\ m = 0 /\ n = 0 /\ o = 0
       \/ part = "metered" /\ Meter!Init /\ n = 0 /\ o = 0
       \/ part = "metal" /\ Host!Init
       \/ part = "guest" /\ Guest!Init /\ o = 0
       \/ part = "cli" /\ Shell!Init /\ i = 0 /\ j = 0 /\ k = 0 /\ l = 0 /\ m = 0 /\ n = 0 /\ o = 0
       \/ part = "door" /\ Door!Init /\ j = 0 /\ k = 0 /\ l = 0 /\ m = 0 /\ n = 0 /\ o = 0
       \/ part = "registrar" /\ Announcer!Init /\ k = 0 /\ l = 0 /\ m = 0 /\ n = 0 /\ o = 0
       \/ part = "boxcerts" /\ BoxTls!Init /\ n = 0 /\ o = 0
       \/ part = "dash" /\ Page!Init /\ h = 0 /\ i = 0 /\ j = 0 /\ k = 0 /\ l = 0 /\ m = 0 /\ n = 0 /\ o = 0
       \/ part = "egress" /\ Outbound!Init /\ j = 0 /\ k = 0 /\ l = 0 /\ m = 0 /\ n = 0 /\ o = 0
       \/ part = "udp" /\ Udp6!Init /\ j = 0 /\ k = 0 /\ l = 0 /\ m = 0 /\ n = 0 /\ o = 0
       \/ part = "tcp" /\ Tcp6!Init /\ j = 0 /\ k = 0 /\ l = 0 /\ m = 0 /\ n = 0 /\ o = 0
       \/ part = "fleet" /\ Fleets!Init /\ l = 0 /\ m = 0 /\ n = 0 /\ o = 0
       \/ part = "planner" /\ Tools!Init /\ h = 0 /\ i = 0 /\ j = 0 /\ k = 0 /\ l = 0 /\ m = 0 /\ n = 0 /\ o = 0
       \/ part = "scaler" /\ Scaler!Init /\ h = 0 /\ i = 0 /\ j = 0 /\ k = 0 /\ l = 0 /\ m = 0 /\ n = 0 /\ o = 0
       \/ part = "move" /\ Mover!Init /\ g = 0 /\ h = 0 /\ i = 0 /\ j = 0 /\ k = 0 /\ l = 0 /\ m = 0 /\ n = 0 /\ o = 0
       \/ part = "vault" /\ Vault!Init /\ j = 0 /\ k = 0 /\ l = 0 /\ m = 0 /\ n = 0 /\ o = 0

Next ==
    \/ part = "tenants" /\ Tenants!Next /\ UNCHANGED <<part, k, l, m, n, o>>
    \/ part = "proofs" /\ Proofs!Next /\ UNCHANGED <<part, h, i, j, k, l, m, n, o>>
    \/ part = "orders" /\ Book!Next /\ UNCHANGED <<part, o>>
    \/ part = "provision" /\ Wallet!Next /\ UNCHANGED <<part, g, h, i, j, k, l, m, n, o>>
    \/ part = "topups" /\ Float!Next /\ UNCHANGED <<part, i, j, k, l, m, n, o>>
    \/ part = "pads" /\ Dealt!Next /\ UNCHANGED <<part, i, j, k, l, m, n, o>>
    \/ part = "accounts" /\ People!Next /\ UNCHANGED <<part, i, j, k, l, m, n, o>>
    \/ part = "certs" /\ Issuer!Next /\ UNCHANGED <<part, l, m, n, o>>
    \/ part = "domains" /\ Names!Next /\ UNCHANGED <<part, j, k, l, m, n, o>>
    \/ part = "tunnel" /\ Hub!Next /\ UNCHANGED <<part, i, j, k, l, m, n, o>>
    \/ part = "route" /\ Router!Next /\ UNCHANGED <<part, m, n, o>>
    \/ part = "sni" /\ Sni!Next /\ UNCHANGED <<part, k, l, m, n, o>>
    \/ part = "zone" /\ Zone!Next /\ UNCHANGED <<part, m, n, o>>
    \/ part = "gate" /\ Gate!Next /\ UNCHANGED <<part, j, k, l, m, n, o>>
    \/ part = "placement" /\ Terms!Next /\ UNCHANGED <<part, l, m, n, o>>
    \/ part = "cards" /\ Pools!Next /\ UNCHANGED <<part, k, l, m, n, o>>
    \/ part = "metered" /\ Meter!Next /\ UNCHANGED <<part, n, o>>
    \/ part = "metal" /\ Host!Next /\ UNCHANGED <<part>>
    \/ part = "guest" /\ Guest!Next /\ UNCHANGED <<part, o>>
    \/ part = "cli" /\ Shell!Next /\ UNCHANGED <<part, i, j, k, l, m, n, o>>
    \/ part = "door" /\ Door!Next /\ UNCHANGED <<part, j, k, l, m, n, o>>
    \/ part = "registrar" /\ Announcer!Next /\ UNCHANGED <<part, k, l, m, n, o>>
    \/ part = "boxcerts" /\ BoxTls!Next /\ UNCHANGED <<part, n, o>>
    \/ part = "dash" /\ Page!Next /\ UNCHANGED <<part, h, i, j, k, l, m, n, o>>
    \/ part = "egress" /\ Outbound!Next /\ UNCHANGED <<part, j, k, l, m, n, o>>
    \/ part = "udp" /\ Udp6!Next /\ UNCHANGED <<part, j, k, l, m, n, o>>
    \/ part = "tcp" /\ Tcp6!Next /\ UNCHANGED <<part, j, k, l, m, n, o>>
    \/ part = "fleet" /\ Fleets!Next /\ UNCHANGED <<part, l, m, n, o>>
    \/ part = "planner" /\ Tools!Next /\ UNCHANGED <<part, h, i, j, k, l, m, n, o>>
    \/ part = "scaler" /\ Scaler!Next /\ UNCHANGED <<part, h, i, j, k, l, m, n, o>>
    \/ part = "move" /\ Mover!Next /\ UNCHANGED <<part, g, h, i, j, k, l, m, n, o>>
    \/ part = "vault" /\ Vault!Next /\ UNCHANGED <<part, j, k, l, m, n, o>>

Spec == Init /\ [][Next]_vars

\* The capacity pool of a box is never sold twice, whatever teardowns, launches,
\* resizes and restarts race (allocCpu, releaseGpu, reconcilePools).
NeverOversold == part = "tenants" => Tenants!NeverOversold

\* No sweep kills an instance a live record serves or launches, however old the listing or
\* the list of lapsed leases it acts on; a record that was torn down and is revived by a handler
\* that still held it is excepted (orphanInstancePlan, vouchTenants, _lease_reap).
SweepsSpareTenants == [][part = "tenants" => Tenants!SweepsSpare]_vars

\* No mixture of steady and final proofs earns more than one window of pay in
\* one instant (EnclaveProofOfTime.checkpoint's elapsed budget).
Incompressible == part = "proofs" => Proofs!Incompressible

\* An orderly hand-back settles what was served before the release clears the
\* watermark (proveAndRelease, releaseClaimsOnShutdown).
HandBackPaysUp == [][part = "proofs" => Proofs!PaysUp]_vars

\* A block the payment scanner will never look at again is in the files, booked on its order
\* or opened as unmatched, whatever the nodes' heights, kills and writes that fail, but for one
\* whose very first write the disk refused or that the catch-up clamp jumped (indexer.js poll).
EveryPaymentBooked == part = "orders" => Book!EveryPaymentBooked

\* A payment alone moves an order to provisioning only when its TTL has not passed, the money
\* suffices and every payer is clean but for those whose handler threw (handleConfirmedPayment).
AutoProvisionsClean == [][part = "orders" => Book!AutoProvisionsClean]_vars

\* A paid order becomes one deployment, funded once, through crashes, reverts and
\* receipt timeouts that leave every broadcast hash on disk (planRecovery).
ConvertedOnce == part = "provision" => Wallet!ConvertedOnce

\* A card top-up is deposited into the vault at most once, through crashes, receipt
\* timeouts, reverts, webhook retries and reviews (settleTopup, topupPlan).
CreditedOnce == part = "topups" => Float!CreditedOnce

\* No two windows of pads that left the relay overlap, and a receipt is counted twice
\* only past the nonce memory, through replays, failed writes and restarts (reserve, receipt).
PadsUsedOnce == part = "pads" => Dealt!PadsUsedOnce

\* A challenge, nonce or device code signs in once, every passkey and wallet has one account,
\* and no account loses its last method unless two deletions crossed (handleAccount).
SignInSound == part = "accounts" => People!SignInSound

\* An order a CA still works on is not doubled by another for the same key, through slow CAs,
\* 202s, timeouts and restarts, unless a call about it failed, the account was lost or the order
\* was never noted or is too old (certs.js acmeIssue, pendingErr).
NoOrderOrphaned == part = "certs" => Issuer!NoOrderOrphaned

\* A custom hostname is routed to a deployment only if a check since it was attached there saw
\* its token and its routing, whatever slow verdicts, reports, replays and restarts (applyVerdict).
ServedOnlyProven == part = "domains" => Names!ServedOnlyProven

\* The tunnel name resolves to the newest connection bound while it is up, whatever late closes,
\* timeouts and reaps, no call waits on a connection whose close was handled, and what is bound is a
\* trusted operator or hardware its maker vouches for, whatever a key server said (bind, bye, certChain).
\* A relay's name stands for its newest channel that is up, a connection is counted once whichever end
\* closed it, and no pair stays half open (handleUpgrade, handleOpen).
\* A relay's listener is bound to a box known to list it, and the flow count is the flows that are open
\* whatever closes come late (poll, dropFlow).
TunnelSound ==
    /\ part = "tunnel" => Hub!TunnelSound
    /\ part = "egress" => Outbound!EgressSound
    /\ part = "udp" => Udp6!RelaySound
    /\ part = "tcp" => Tcp6!RelaySound

\* A request whose ledger read did not fail goes to the live box that holds the lease, whatever a
\* cache or a list learned before; a prefix goes nowhere once it has been ambiguous for longer than
\* the caches last (xOwnerOf, v1OwnerOf).
\* A TLS name is spliced to the holder, or to who held it within the ages of page and cache, and the
\* connections counted are the ones there are (appOwnerOf, splice).
\* Once a poll begun after the last change went through, DNS answers a name with the relay its one
\* record names, or with the zone's (relayLabels, pollRelayMap).
\* A listener goes only when the box it is bound to answered without it and no box offers it: a box
\* that does not answer keeps its bindings (poll).
\* The fleet a relay dials changes only by a read that went through, to vetted public boxes, and leases
\* are rows decoded as their ledger has them (readRegistry, depAbi).
FreshRoute ==
    [][/\ part = "route" => Router!FreshRoute
       /\ part = "sni" => Sni!FreshSplice
       /\ part = "zone" => Zone!ZoneFollows
       /\ part = "udp" => Udp6!NoneTakenDown
       /\ part = "tcp" => Tcp6!NoneTakenDown
       /\ part = "fleet" => Fleets!ViewAsRead]_vars

\* Secrets and ACME challenges go to the box whose lease runs, or ended no longer ago than one
\* ledger cache and its read, however requests, Moves and lapses interleave (holdsLease).
OnlyHolders == [][part = "gate" => Gate!OnlyHolders]_vars

\* A serving record runs the configuration its stamped envelope and version give, whatever edits,
\* switches, refusals, yanks and failed launches come between (adopt, switchTenantVersion).
ServesWhatWasOrdered == part = "placement" => Terms!ServesWhatWasOrdered

\* Free memory is what the slices do not hold on every card no shrink has clamped since the last
\* reconciliation, and what is offered can be taken (allocGpu, adoptShieldedCards).
PoolsBalance == part = "cards" => Pools!PoolsBalance

\* What a pay-per-deploy record was paid is what it has left and has used, no more is used than it
\* was up; and a record that expires unpaid had no payment in its window, but for one a crash caught
\* between its mark and its credit, or one in ETH that had no price by then (onPaid, pollPayments).
PaidTimeServed == part = "metered" => Meter!PaidTimeServed

\* An updater that was not killed half-way leaves a box on an image it saw healthy, or whose restart
\* did not take place, and a tenant reads a volume only as the root its quote names (apply, mountVolumes).
\* A card is advertised only within the strikes of an answer after a passed probe of an honest worker,
\* not compared with one that took over; a reply answers its own request unless the relay restarted,
\* and streams live on the socket they came by (startShieldedRefresh, forward).
BoxSound ==
    /\ part = "metal" => Host!GateHolds
    /\ part = "guest" => Guest!GuestSound

\* What a command of the owner said holds, however boxes, browser and failures come between its
\* calls: the ceiling, secrets before money, a stop, the other half of an edit (cmdDeploy, cmdStop).
\* On the owner's page a write is what its panel showed: other namespaces untouched, a version in shares
\* that carry it, the refund quoted, and no box let go of in shares its version cannot run in (_doMove).
\* A plan of the agents' tools that is signed does what it was checked for if the record did not change
\* in between, and no host is paid above the cap the plan named (upgradeOrResize, build_set_config).
\* An approved scaling plan stops no box that picked up work before it was last asked and, if the
\* boxes are as it saw them, starts none above the cap (autoscale.mjs decide, apply).
\* A seal asked for after a clean verdict, nothing having changed since, makes permanent what the source
\* held when it was read, side mappings and backing included (migrate.js plan, verify; mig-seal).
AsConfirmed ==
    [][/\ part = "cli" => Shell!AsConfirmed
       /\ part = "dash" => Page!AsConfirmed
       /\ part = "planner" => Tools!AsPlanned
       /\ part = "scaler" => Scaler!AsReviewed
       /\ part = "move" => Mover!SealsTheSource]_vars

\* A connection opened under a deployment's name goes to its own instance's port, and opens a private
\* app, over http or a bridge, for its owner only, whatever the handler looked up before its awaits;
\* whoever reuses the port of an instance that died unheard answers for it (/x/:id, upgrade).
OwnersOnly == [][part = "door" => Door!OwnersOnly]_vars

\* A box stands on the registry it means, with its own price and proof key once a heartbeat round ran
\* clean, whatever moves of the book, lost receipts and relaunches (registerOnChain, sync...).
\* The custom name's certificate goes only once this life asked about every record that runs and last
\* heard of none that it owns the name, which one that never answered or was forgotten did not say;
\* the store holds what memory holds (acmeReconcile, refreshCustomDomains).
KeepsItsNames ==
    [][/\ part = "registrar" => Announcer!Announced
       /\ part = "boxcerts" => BoxTls!NoCertLost]_vars

\* One tap of a passkey has one effect whoever submits it, credit is only in the customer's vaults,
\* deployments or the treasury, and never leaves beyond what was typed (_auth, migrateToSuccessor).
SpentAsTapped == part = "vault" => Vault!SpentAsTapped

=============================================================================
