------------------------------ MODULE Planner ------------------------------
(***************************************************************************)
(* The relay's tools for agents (src/relay/mcp.js).  A tool reads cached   *)
(* addresses and schemas, the record, the catalog and the fleet, checks    *)
(* what it can and hands back unsigned transactions.  The agent signs      *)
(* them later, or never, in the order given, while the owner's other       *)
(* plans, hosts, prices and the address book move on.                      *)
(***************************************************************************)
EXTENDS Integers, Sequences, FiniteSets

CONSTANTS
    Versions,   \* versions of the app
    Needs,      \* what each needs, on any machine: [gpu, cpu]
    P3,         \* those only a WASIp3 runner claims
    Awaiting,   \* those awaiting the catalog owner's approval at first
    Pinned,     \* those whose configuration is pinned, the inline field a routing manifest
    Shares,     \* shares a resize may ask for: [gpu, cpu]
    Deploys,    \* deployments that may be asked for: [ver, gpu, cpu, private, ceiling, config]
    Starts,     \* where behaviours begin: [fleet, hosted, plans, faults], the fleet being
                \* what it advertises, [dev, p3, gpu], the last two bounds on the plans asked
                \* for and on failing reads and moves of the world
    Schema,     \* schema of each of the two ledgers
    Fee         \* publisher's fee of the first version

VARIABLES
    world,   \* [ledger, price, host, reslices, fleet, bad, pending]: the book, cheapest and host's
             \* price, the fleet, versions rejected and versions awaiting approval
    rec,     \* the record on each ledger
    cache,   \* [addr, addrFresh, rev, revFresh]
    plan,    \* the tool under way: [tool, arg, step, got]
    out,     \* plans handed back and not signed to the end
    told,    \* what get_config last called the effective configuration
    budget

vars == <<world, rec, cache, plan, out, told, budget>>

FeeOf(v) == IF v = 1 THEN Fee ELSE 0
Rev(l) == Schema[l]
ListPrice == 1     \* the platform's, before hosts posted their own
Unsaid == -1       \* a dial not given

\* createInputsFor: create's arguments, by schema. A call of another shape is no call.
CreateInputsFor(rev) == [ssh |-> rev < 2, fee |-> rev >= 4, cap |-> rev >= 8]

NoPlan == [tool |-> "none", arg |-> 0, step |-> "idle", got |-> [seq |-> 0]]
NoShare == [gpu |-> 0, cpu |-> 0]
NoRec == [st |-> "none", owner |-> 1, ver |-> 1, share |-> NoShare, private |-> FALSE, config |-> 0, waf |-> 0, cap |-> 0,
          rate |-> 0, fee |-> 0, escrow |-> 0, leased |-> FALSE, active |-> FALSE, seq |-> 0]
\* A record of the first version that a box serves.
Hosted == [NoRec EXCEPT !.st = "live", !.share = Needs[1], !.fee = FeeOf(1), !.escrow = 2, !.cap = 4,
                        !.leased = TRUE, !.active = TRUE, !.rate = Needs[1].gpu + Needs[1].cpu + FeeOf(1)]

Init ==
    /\ \E s \in Starts :
          /\ world = [ledger |-> 2, price |-> 1, host |-> 1, reslices |-> TRUE, fleet |-> s.fleet,
                      bad |-> {}, pending |-> Awaiting]
          /\ rec = [l \in 1 .. 2 |-> IF l = 2 /\ s.hosted THEN Hosted ELSE NoRec]
          /\ budget = [plans |-> s.plans, faults |-> s.faults]
    /\ cache \in {[addr |-> l, addrFresh |-> FALSE, rev |-> 2, revFresh |-> FALSE] : l \in 1 .. 2}
    /\ plan = NoPlan /\ out = <<>> /\ told = [config |-> 0, ver |-> 0, seq |-> 0]

Fault == budget.faults > 0 /\ budget' = [budget EXCEPT !.faults = @ - 1]
Call(ok) == ok \/ budget.faults > 0
Spend(ok) == budget' = [budget EXCEPT !.faults = @ - IF ok THEN 0 ELSE 1]

\* Prices, the fleet, the catalog's owner and the book move.
Moves ==
    /\ Fault
    /\ \/ \E p \in 1 .. 2 : world' = [world EXCEPT !.price = p, !.host = 2]
       \/ world' = [world EXCEPT !.ledger = 3 - @]
       \/ world' = [world EXCEPT !.reslices = ~@]
       \/ \E v \in Versions, b \in BOOLEAN :
             world' = [world EXCEPT !.bad = IF b THEN @ \union {v} ELSE @, !.pending = @ \ {v}]
    /\ UNCHANGED <<rec, cache, plan, out, told>>

-----------------------------------------------------------------------------
(* What a tool reads                                                         *)

\* A tool is called: the plan's argument is a deployment, a version, shares, a ceiling or a setting.
Ask(tool, arg) ==
    /\ plan.step = "idle" /\ budget.plans > 0
    /\ plan' = [tool |-> tool, arg |-> arg, step |-> "caches", got |-> NoPlan.got]
    /\ budget' = [budget EXCEPT !.plans = @ - 1]
    /\ UNCHANGED <<world, rec, cache, out, told>>

\* addresses, depRev: each kept ten minutes by its own clock, the schema without the
\* address it was asked of; a failed read keeps the address and refuses the tool.
Caches(ok) ==
    /\ plan.step = "caches" /\ Call(ok) /\ Spend(ok)
    /\ LET addr == IF cache.addrFresh \/ ~ok THEN cache.addr ELSE world.ledger
       IN  cache' = [addr |-> addr, addrFresh |-> TRUE,
                     rev |-> IF cache.revFresh \/ ~ok THEN cache.rev ELSE Rev(addr),
                     revFresh |-> cache.revFresh \/ ok]
    /\ plan' = IF ok \/ cache.revFresh THEN [plan EXCEPT !.step = "record"] ELSE NoPlan
    /\ UNCHANGED <<world, rec, out, told>>

Ages ==
    /\ \/ cache.addrFresh /\ cache' = [cache EXCEPT !.addrFresh = FALSE]
       \/ cache.revFresh /\ cache' = [cache EXCEPT !.revFresh = FALSE]
    /\ UNCHANGED <<world, rec, plan, out, told, budget>>

\* depGet, resolveFullId: no record, no plan, save for a new one.
ReadRecord ==
    /\ plan.step = "record"
    /\ plan' = IF rec[cache.addr].st = "live" \/ plan.tool = "create"
               THEN [plan EXCEPT !.step = "build", !.got = rec[cache.addr]] ELSE NoPlan
    /\ UNCHANGED <<world, rec, cache, out, told, budget>>

-----------------------------------------------------------------------------
(* What a tool checks and hands back                                         *)

\* resolveAppRef, and the version of an upgrade: not one the catalog's owner rejected; one
\* awaiting approval goes into a private deployment, on a fleet that says it takes those.
Takable(v, private, missing) ==
    /\ v \notin world.bad
    /\ v \in world.pending => private /\ missing # "availability" /\ world.fleet.dev

\* livePrices, hostPricing: the old list price, else a leased record buys from its host
\* and another from the cheapest box.
Price(r, rev) == IF rev < 8 THEN ListPrice ELSE IF r.leased THEN world.host ELSE world.price
RateOf(r, share, fee, rev) == Price(r, rev) * (share.gpu + share.cpu) + fee
\* The lease is looked up in the fleet's list; without it the cheapest price is taken, and
\* without that there is none.
Seen(r, missing) == [r EXCEPT !.leased = @ /\ missing # "enclaves"]
Priced(r, rev, missing) == rev < 8 \/ Seen(r, missing).leased \/ missing # "availability"

\* minShares: what the version needs, of the fleet's hardware or of the leasing box; with
\* neither known, next to nothing.
Floor == [gpu |-> 0, cpu |-> 1]
MinShares(v, r, missing) == IF missing = "pricing" /\ ~r.leased THEN Floor ELSE Needs[v]
Fits(share, need) == share.gpu >= need.gpu /\ share.cpu >= need.cpu
\* Before schema 13 a card's share is not below the node's.
Lift(share, rev) == [share EXCEPT !.gpu = IF rev < 13 /\ @ > 0 /\ @ < share.cpu THEN share.cpu ELSE @]
WithinGpuCap(share, missing) == missing = "cap" \/ share.gpu <= world.fleet.gpu

\* All boxes serve WASIp3, by what the fleet advertises, or one in its list does.
ServesP3(missing) == \/ missing # "availability" /\ world.fleet.p3 = "all"
                     \/ missing # "enclaves" /\ world.fleet.p3 # "none"

\* plan_deploy: the shares asked for, or what the version needs (asked dials are not held
\* against the minima); the cap is the price quoted, or the ceiling asked for above it.
PlanDeploy(q, missing) ==
    LET need  == MinShares(q.ver, NoRec, missing)
        share == Lift([gpu |-> IF q.gpu = Unsaid THEN need.gpu ELSE q.gpu,
                       cpu |-> IF q.cpu = Unsaid THEN need.cpu ELSE IF q.cpu < 1 THEN 1 ELSE q.cpu], cache.rev)
        rate  == RateOf(NoRec, share, FeeOf(q.ver), cache.rev)
        cap   == IF q.ceiling = Unsaid THEN rate ELSE q.ceiling
        refused == \/ ~Takable(q.ver, q.private, missing)
                   \/ q.ver \in P3 /\ ~ServesP3(missing)
                   \/ ~WithinGpuCap(share, missing) \/ ~Priced(NoRec, cache.rev, missing)
                   \/ FeeOf(q.ver) > 0 /\ cache.rev < 4
                   \/ q.config # 0 /\ cache.rev < 5
                   \/ cap <= FeeOf(q.ver) \/ cap < rate
    IN  IF refused THEN <<>>
        ELSE <<[do |-> "create", ver |-> q.ver, share |-> share, private |-> q.private, config |-> q.config,
                cap |-> IF cache.rev >= 8 THEN cap ELSE 0, fee |-> FeeOf(q.ver),
                inputs |-> CreateInputsFor(cache.rev)]>>

\* Mutant: an upgrade takes the shares the record has for enough.
FitsAnyway(share, need, asked) == ~asked \/ Fits(share, need)
\* upgradeOrResize: the version must fit the shares the record will carry.
FitsNext(share, need, asked) == Fits(share, need)

\* upgradeOrResize: version and shares together land in one multicall. Shares asked for
\* that the record has already are no resize, and its version is set alone.
Resize(v, dials, asked, missing) ==
    LET r       == plan.got
        share   == Lift(dials, cache.rev)
        resized == asked /\ share # r.share
        rate    == RateOf(Seen(r, missing), share, r.fee, cache.rev)
        refused == \/ ~Takable(v, r.private, missing) \/ FeeOf(v) > r.fee
                   \/ ~FitsNext(share, MinShares(v, Seen(r, missing), missing), asked)
                   \/ asked /\ cache.rev < 6
                   \/ resized /\ (\/ ~WithinGpuCap(share, missing) \/ ~Priced(r, cache.rev, missing)
                                  \/ r.cap > 0 /\ rate > r.cap
                                  \/ r.leased /\ r.escrow = 0
                                  \/ missing # "availability" /\ ~world.reslices)
    IN  IF refused \/ (v = r.ver /\ ~asked) THEN <<>>
        ELSE <<[do |-> "reshape", ver |-> v, share |-> share, resize |-> resized]>>

\* get_config: the override, else the version's inline field, which on a pinned version
\* is the manifest: the call for the pinned reference names a function the tool's own
\* interface lacks, so it fails and readVersions leaves the reference empty.
Manifest == 9
ConfigOf(v) == v
Inline(v) == IF v \in Pinned THEN Manifest ELSE ConfigOf(v)
GetConfig ==
    /\ plan.step = "build" /\ plan.tool = "get_config"
    /\ told' = [config |-> IF plan.got.config # 0 THEN plan.got.config ELSE Inline(plan.got.ver),
                ver |-> plan.got.ver, seq |-> plan.got.seq]
    /\ plan' = NoPlan /\ UNCHANGED <<world, rec, cache, out, budget>>

\* build_set_config: the envelope as read with one namespace set, or cleared by zero.
SetConfig(space, value) ==
    LET next == IF space = "waf" THEN [config |-> plan.got.config, waf |-> value]
                ELSE [config |-> value, waf |-> plan.got.waf]
    IN  IF next = [config |-> plan.got.config, waf |-> plan.got.waf] THEN <<>>
        ELSE <<[do |-> "setConfig", space |-> space, config |-> next.config, waf |-> next.waf]>>

\* build_refund: what is refundable now; build_transfer: owner's money first.
Refundable(r) == IF r.leased THEN r.escrow - 1 ELSE r.escrow
Refund == [do |-> "refund"]
Transfer(to) == [do |-> "transfer", to |-> to]
PlanTransfer(to) ==
    IF cache.rev < 11 \/ plan.got.owner = to THEN <<>>
    ELSE IF plan.got.escrow = 0 THEN <<Transfer(to)>>
    ELSE IF Refundable(plan.got) = 0 THEN <<>> ELSE <<Refund, Transfer(to)>>

\* What each tool answers: transactions, none being a refusal or a note.
Answer(missing) ==
    CASE plan.tool = "create" -> PlanDeploy(plan.arg, missing)
      [] plan.tool = "upgrade" -> Resize(plan.arg, plan.got.share, FALSE, missing)
      [] plan.tool = "resize" -> Resize(plan.got.ver, plan.arg, TRUE, missing)
      [] plan.tool = "both" -> Resize(plan.arg.ver, plan.arg.share, TRUE, missing)
      [] plan.tool = "fund" -> <<[do |-> "approve"], [do |-> "fund"]>>
      [] plan.tool = "cap" -> IF cache.rev < 8 \/ plan.arg <= plan.got.fee THEN <<>>
                              ELSE <<[do |-> "cap", cap |-> plan.arg]>>
      [] plan.tool \in {"stop", "resume"} -> <<[do |-> plan.tool]>>
      [] plan.tool = "refund" -> IF cache.rev < 10 \/ Refundable(plan.got) = 0 THEN <<>> ELSE <<Refund>>
      [] plan.tool = "transfer" -> PlanTransfer(plan.arg)
      [] plan.tool = "waf" -> SetConfig("waf", plan.arg)
      [] plan.tool = "config" -> SetConfig("config", plan.arg)
      [] plan.tool = "edit" -> IF told.ver = 0 THEN <<>> ELSE SetConfig("config", told.config)

\* The reads of the fleet's hardware, of its list, of what it advertises and of the GPU
\* cap: at most one fails, and fails the tool or leaves its check out.
Reads == {"none", "pricing", "enclaves", "availability", "cap"}
Build(missing) ==
    /\ plan.step = "build" /\ plan.tool # "get_config" /\ Call(missing = "none") /\ Spend(missing = "none")
    /\ LET answer == Answer(missing)
       IN  out' = IF answer = <<>> THEN out
                  ELSE Append(out, [to |-> cache.addr, tool |-> plan.tool, got |-> plan.got, txs |-> answer,
                                    sized |-> missing # "pricing" \/ plan.got.leased,
                                    told |-> IF plan.tool = "edit" THEN told.config ELSE 0])
    /\ plan' = NoPlan /\ UNCHANGED <<world, rec, cache, told>>

-----------------------------------------------------------------------------
(* The agent signs, the ledger executes                                      *)

\* What the ledger refuses, as its functions do.
Reverts(t, l, r) ==
    CASE t.do = "create" -> r.st = "live" \/ t.inputs # CreateInputsFor(Rev(l)) \/ t.share.gpu > world.fleet.gpu
                            \/ (Rev(l) < 13 /\ t.share.gpu > 0 /\ t.share.gpu < t.share.cpu)
      [] t.do = "reshape" -> t.resize /\
             (\/ Rev(l) < 6 \/ t.share.gpu > world.fleet.gpu \/ (Rev(l) < 13 /\ t.share.gpu > 0 /\ t.share.gpu < t.share.cpu)
              \/ r.cap > 0 /\ RateOf(r, t.share, r.fee, Rev(l)) > r.cap)
      [] t.do \in {"cap"} -> Rev(l) < 8
      [] t.do = "transfer" -> r.escrow > 0 \/ Rev(l) < 11
      [] t.do = "refund" -> Refundable(r) <= 0
      [] OTHER -> FALSE

Executed(t, r, l) ==
    CASE t.do = "create" -> [NoRec EXCEPT !.st = "live", !.ver = t.ver, !.share = t.share, !.private = t.private,
                                          !.config = t.config, !.cap = t.cap,
                                          !.fee = t.fee, !.active = TRUE]
      [] t.do = "reshape" -> [r EXCEPT !.ver = t.ver, !.share = IF t.resize THEN t.share ELSE @,
                                       !.rate = IF r.leased /\ t.resize THEN RateOf(r, t.share, r.fee, Rev(l)) ELSE @]
      [] t.do = "cap" -> [r EXCEPT !.cap = t.cap]
      [] t.do = "fund" -> [r EXCEPT !.escrow = 2]
      [] t.do = "stop" -> [r EXCEPT !.active = FALSE]
      [] t.do = "resume" -> [r EXCEPT !.active = TRUE]
      [] t.do = "refund" -> [r EXCEPT !.escrow = @ - Refundable(r), !.active = FALSE]
      [] t.do = "transfer" -> [r EXCEPT !.owner = t.to]
      [] t.do = "setConfig" -> [r EXCEPT !.config = t.config, !.waf = t.waf]
      [] OTHER -> r

Rest(i) == IF Len(out[i].txs) = 1 THEN SubSeq(out, 1, i - 1) \o SubSeq(out, i + 1, Len(out))
           ELSE [out EXCEPT ![i].txs = Tail(@)]

\* The owner signs a plan's next transaction, whenever, or lets the plan go.
Sign(i) ==
    LET p == out[i]  t == Head(p.txs)  r == rec[p.to]
    IN  /\ t.do = "create" \/ r.owner = 1
        /\ IF Reverts(t, p.to, r) THEN out' = SubSeq(out, 1, i - 1) \o SubSeq(out, i + 1, Len(out)) /\ UNCHANGED rec
           ELSE out' = Rest(i) /\ rec' = [rec EXCEPT ![p.to] = [Executed(t, r, p.to) EXCEPT !.seq = r.seq + 1]]
        /\ UNCHANGED <<world, cache, plan, told, budget>>
Drop(i) == out' = SubSeq(out, 1, i - 1) \o SubSeq(out, i + 1, Len(out))
           /\ UNCHANGED <<world, rec, cache, plan, told, budget>>

\* A box claims, within the cap, and lets go again.
Claim(dear) ==
    /\ Fault
    /\ \E l \in {world.ledger} :
          LET r == rec[l]  price == IF dear THEN 2 ELSE world.price  rate == IF Rev(l) < 8 THEN RateOf(r, r.share, r.fee, Rev(l))
                                                               ELSE price * (r.share.gpu + r.share.cpu) + r.fee
          IN  /\ r.st = "live" /\ r.active /\ r.escrow > 0 /\ ~r.leased
              /\ r.cap = 0 \/ rate <= r.cap
              /\ rec' = [rec EXCEPT ![l] = [@ EXCEPT !.leased = TRUE, !.rate = rate]]
              /\ world' = [world EXCEPT !.host = price]
    /\ UNCHANGED <<cache, plan, out, told>>
Release ==
    /\ \E l \in 1 .. 2 : rec[l].leased /\ rec' = [rec EXCEPT ![l] = [@ EXCEPT !.leased = FALSE]]
    /\ UNCHANGED <<world, cache, plan, out, told, budget>>

Asks == \/ \E q \in Deploys : Ask("create", q)
        \/ \E v \in Versions : Ask("upgrade", v) \/ Ask("cap", v + 1)
        \/ \E x \in Shares : Ask("resize", x) \/ \E v \in Versions : Ask("both", [ver |-> v, share |-> x])
        \/ Ask("fund", 0) \/ Ask("stop", 0) \/ Ask("resume", 0) \/ Ask("refund", 0)
        \/ Ask("transfer", 2) \/ Ask("waf", 1) \/ Ask("config", 0) \/ Ask("get_config", 0) \/ Ask("edit", 0)

Next ==
    \/ Moves \/ Asks \/ Ages \/ ReadRecord \/ GetConfig \/ Release
    \/ \E b \in BOOLEAN : Caches(b) \/ Claim(b)
    \/ \E missing \in Reads : Build(missing)
    \/ \E i \in DOMAIN out : Sign(i) \/ Drop(i)

Spec == Init /\ [][Next]_vars

-----------------------------------------------------------------------------
(* What the tools promise                                                    *)

\* The plan that was signed in this step, if one was: its plan as it stood.
Signed(i, l) == i \in DOMAIN out /\ out[i].to = l /\ rec'[l].seq = rec[l].seq + 1
                /\ (out' = Rest(i)) /\ rec'[l] = [Executed(Head(out[i].txs), rec[l], l) EXCEPT !.seq = @ + 1]
Unmoved(i, l) == out[i].got.seq = rec[l].seq

AsChecked(i, l) ==
    LET t == Head(out[i].txs)
    IN  /\ (t.do = "reshape" /\ Unmoved(i, l) /\ out[i].sized) => Fits(rec'[l].share, Needs[rec'[l].ver])
        /\ (t.do = "setConfig" /\ Unmoved(i, l)) =>
              IF t.space = "waf" THEN rec'[l].config = rec[l].config ELSE rec'[l].waf = rec[l].waf
        /\ (t.do = "transfer") => (rec[l].escrow = 0)

\* A plan that is signed does what it was checked for if the record did not change in
\* between: the version fits the shares if the hardware was known, the other namespace
\* stays, and no host is paid more than the cap the plan named, whatever the caches held.
AsPlanned ==
    \A l \in 1 .. 2 :
       /\ (rec'[l].seq # rec[l].seq) => \E i \in DOMAIN out : Signed(i, l) /\ AsChecked(i, l)
       /\ (rec'[l].rate > rec[l].rate /\ Rev(l) >= 8) => rec'[l].rate <= rec'[l].cap
=============================================================================
