------------------------------- MODULE Placement -------------------------------
(***************************************************************************)
(* What a box agrees to serve, and what it then serves (src/supervisor.js):*)
(* the gates of considerClaim against the catalog, the row and the box,    *)
(* the adoption, and the audit that brings a serving record in line with   *)
(* the owner's later edits: version, shares and options envelope.  One     *)
(* deployment; leases are LeaseKeeper's, slices TenantKeeper's and Cards'. *)
(***************************************************************************)
EXTENDS Integers, FiniteSetsExt

CONSTANTS
    Versions,   \* versions of the app
    Specs,      \* what each declares: [vram, flops, mem, ops, soft, uses, cid, vols, fee]
    Kinds,      \* boxes, a sequence of: [gpu, card, node, shielded, serves, vols, key, price, asks, payout,
                \* ledger, registry, catalog], the last three the schemas they deal with
    Envelopes,  \* the options envelopes an owner may write, a sequence of documents
    Sizes,      \* the shares an owner may buy: [gpu, cpu]
    Terms,      \* what the ledger says of money: [cap, bal, rate, fee]
    Starts,     \* the rows a behaviour may start from
    Whole,      \* shares in a whole card or node
    MaxEdits,   \* bound: changes by the owner, the publisher and the catalog's owner
    MaxFaults   \* bound: failures of reads, stops and launches

VARIABLES
    box,     \* the box, by its place in Kinds
    cat,     \* the catalog: the verdict on every version
    row,     \* the ledger's row of the deployment
    page,    \* the row this pass decides on
    step,    \* how far the pass is
    rec,     \* the box's record
    hold,    \* _provisionBackoff: the version and the stage that failed
    yank,    \* versions yankSweep read as yanked
    bond,    \* the operator is bonded for claims
    edits, faults

vars == <<box, cat, row, page, step, rec, hold, yank, bond, edits, faults>>
World == <<box, cat, row, edits>>
Box == Kinds[box]

\* Which read of a pass fails. The manager is asked anew for each thing it is asked.
Reads == {"none", "record", "schema", "version fee", "version cid", "manager", "ledger", "fee",
          "cap", "secrets", "prefetch"}

Rows == [ref : Versions, size : Sizes, env : DOMAIN Envelopes, public : BOOLEAN,
         active : BOOLEAN, terms : Terms]
NoHold == [ref |-> 0, stage |-> "none"]
NoSize == [gpu |-> 0, cpu |-> 0]
NoOverride == [names |-> {}, keys |-> {}, cid |-> "none"]
NoRec == [st |-> "none", ref |-> 0, size |-> NoSize, onCard |-> FALSE, env |-> 0,
          conf |-> [ver |-> 0, own |-> NoOverride], waf |-> {}, odd |-> FALSE, moved |-> FALSE]
NoPage == [ref |-> 0, size |-> NoSize, env |-> 0, public |-> FALSE, active |-> FALSE,
           terms |-> [cap |-> 0, bal |-> 0, rate |-> 0, fee |-> 0]]
Serving == rec.st \in {"claimed", "running"}

-----------------------------------------------------------------------------
(* Envelopes                                                                 *)

\* A document is [form, has, relay, optional, cid, keys, vols, waf]: "json" or not, its
\* namespaces, the relay it names, the flag that cores will do, the pinned configuration,
\* the keys of the inline one and the volumes among them, and the rules of the firewall,
\* a function from knobs to "in", "off" (null or false) or "out" of range.
Namespaces == {"waf", "config", "configCid", "gpu", "network"}
WafKeys == {"rps", "burst", "maxConcurrent", "maxBodyMb", "methods", "pathBlock", "blockScanners",
            "uaBlock"}
ManifestKeys == {"volumes"}

On(w) == {k \in DOMAIN w : w[k] = "in"}

\* Known knobs in range, a burst only with a rate, and something switched on.
ParsesWaf(w) ==
    /\ DOMAIN w \subseteq WafKeys /\ \A k \in DOMAIN w : w[k] # "out"
    /\ "burst" \in On(w) => "rps" \in On(w)
    /\ On(w) # {}

\* An inline object replaces the configuration; beside a pinned one it is the manifest.
ParsesConfig(o) ==
    /\ "configCid" \in o.has => o.cid = "cid"
    /\ "config" \in o.has => /\ "not an object" \notin o.keys /\ "_media" \notin o.keys
                             /\ "configCid" \in o.has => o.keys \subseteq ManifestKeys

\* parseDepOptions: what it does not know it refuses, and a card is optional only where
\* one was bought, if the caller says what was (-1 when it does not).
Parses(env, gpu) ==
    LET o == Envelopes[env]
    IN  \/ o.form = "empty"
        \/ /\ o.form = "json" /\ o.has \subseteq Namespaces
           /\ "network" \in o.has => o.relay \in {"named", "default"}
           /\ "gpu" \in o.has => o.optional \in {"yes", "no"} /\ (o.optional = "yes" => gpu # 0)
           /\ ParsesConfig(o)
           /\ "waf" \in o.has => ParsesWaf(o.waf)

GpuOptional(env, gpu) == Parses(env, gpu) /\ "gpu" \in Envelopes[env].has /\ Envelopes[env].optional = "yes"

\* The owner's configuration in an envelope: inline, pinned, both or none.
Override(env) ==
    LET o == Envelopes[env]
    IN  [names |-> o.has \intersect {"config", "configCid"},
         keys |-> IF "config" \in o.has THEN o.keys ELSE {},
         cid |-> IF "configCid" \in o.has THEN o.cid ELSE "none"]

\* overrideConfigFields: the owner's, or the version's with its own CID.
VersionsOwn(v) == [ver |-> v, own |-> NoOverride]
Fields(env, v) ==
    IF Override(env) = NoOverride THEN VersionsOwn(v) ELSE [ver |-> 0, own |-> Override(env)]

\* The rules in force; a rate without a burst gets one.
Waf(env) ==
    LET o == Envelopes[env]
    IN  IF "waf" \notin o.has THEN {}
        ELSE On(o.waf) \union (IF "rps" \in On(o.waf) THEN {"burst"} ELSE {})

\* Mutant: an edit of the configuration goes in live.
EditIsLive(r, cur) ==
    IF r.env = cur THEN "skip" ELSE IF ~Parses(cur, -1) THEN "error" ELSE "waf"

\* envelopeEditVerdict parses without the shares; a stamp that no longer parses
\* overrides nothing.
EditVerdict(r, cur) ==
    IF r.env = cur THEN "skip"
    ELSE IF ~Parses(cur, -1) THEN "error"
    ELSE IF Override(cur) # (IF Parses(r.env, -1) THEN Override(r.env) ELSE NoOverride) THEN "restart"
    ELSE "waf"

-----------------------------------------------------------------------------
(* The version                                                               *)

\* approvalVerdict: pending versions are for private deployments.
Approved(v, public) == cat[v] = "approved" \/ (cat[v] = "pending" /\ ~public)

\* What the box's catalog says of a version beside its record.
VersionFee(v) == IF Box.catalog >= 5 THEN Specs[v].fee ELSE 0
VersionCid(v) == Box.catalog >= 7 /\ Specs[v].cid

\* gateAppReference: "unread" when the catalog cannot be asked, whatever it would say.
GateApp(v, public, failed) ==
    IF failed = "record" THEN "unread"
    ELSE IF ~Approved(v, public) THEN "refused"
    ELSE IF \/ failed = "schema"
            \/ failed = "version fee" /\ Box.catalog >= 5
            \/ failed = "version cid" /\ Box.catalog >= 7 THEN "unread"
    ELSE "ok"

\* neededVolumes: the override's replace the version's, none named is none.
NeededVolumes(env, gpu, v) ==
    IF Parses(env, gpu) /\ Override(env) # NoOverride
    THEN IF "config" \in Envelopes[env].has THEN Envelopes[env].vols ELSE {}
    ELSE Specs[v].vols
VolumeGb(need, failed) ==
    IF failed = "manager" THEN 0
    ELSE MapThenSumSet(LAMBDA n : Box.vols[n], need \intersect DOMAIN Box.vols)

-----------------------------------------------------------------------------
(* Sizing                                                                    *)

Largest(S) == CHOOSE x \in S : \A y \in S : y <= x
CeilDiv(x, y) == (x + y - 1) \div y
\* pctCeil of a ratio: not clamped, more than Whole is more than the box has.
Ask(need, have) == Largest({1, CeilDiv(need * Whole, have)})

\* minSharesOf: the ask of every declared axis on its own hardware. The volumes correct a
\* declared memory of a card, they never make one of a version that declares none.
Mins(v, volGb) ==
    LET s == Specs[v]
        vram == IF s.vram > 0 THEN Largest({s.vram, volGb}) ELSE 0
        gpu == IF vram + s.flops = 0 THEN 0
               ELSE Largest({Ask(vram, Box.card.vram), Ask(s.flops, Box.card.flops)})
    IN  [gpu |-> gpu, floor |-> IF s.soft THEN 0 ELSE gpu,
         cpu |-> IF s.mem + s.ops = 0 THEN 0
                 ELSE Largest({Ask(s.mem, Box.node.mem), Ask(s.ops, Box.node.ops)})]

-----------------------------------------------------------------------------
(* The gates                                                                 *)

\* gpuRouting: where a deployment that bought a card runs. The ask is unmet without a card or
\* with a local one too small for it, however much of it is bought; a shielded card is only
\* slower. The publisher may call the card soft, the owner only where he declared none.
Unmet(mins) == ~Box.gpu \/ (~Box.shielded /\ mins.gpu > Whole)
DeclaresGpu(v) == Specs[v].vram + Specs[v].flops > 0
Routing(d, mins) ==
    IF d.size.gpu = 0 THEN "cores"
    ELSE IF ~Unmet(mins) THEN "card"
    ELSE IF Specs[d.ref].soft \/ (GpuOptional(d.env, d.size.gpu) /\ ~DeclaresGpu(d.ref))
         THEN "cores" ELSE "refused"

MeetsMinimum(d, mins, onCard) ==
    d.size.gpu >= (IF onCard THEN mins.floor ELSE 0) /\ d.size.cpu >= mins.cpu

\* What the version's configuration declares of its binary, and a configuration at a CID.
Uses(v) == Specs[v].uses \union (IF VersionCid(v) THEN {"configCid"} ELSE {})

\* The manager must serve it, and answer; an override's CID is not asked about.
RuntimeServes(v, failed) == Uses(v) # {} => failed # "manager" /\ Uses(v) \subseteq Box.serves

\* volumeGate.
CarriesVolumes(d, failed) ==
    LET need == NeededVolumes(d.env, d.size.gpu, d.ref)
    IN  need # {} => failed # "manager" /\ need \subseteq DOMAIN Box.vols

\* feeGate: the row's snapshot of the publisher's fee covers the version's. (A snapshot for
\* somebody else counts as none.)
FeeGate(d, failed) ==
    IF VersionFee(d.ref) = 0 THEN "ok"
    ELSE IF Box.ledger < 4 THEN "refused"
    ELSE IF failed \in {"ledger", "fee"} THEN "later"
    ELSE IF d.terms.fee < VersionFee(d.ref) THEN "refused" ELSE "ok"

\* hostRate6, hostChargeWaived: our price, and when the ledger will not charge it.
HostRate(size) == CeilDiv(Box.price.gpu * size.gpu + Box.price.cpu * size.cpu, Whole)
Waived(failed) == Box.payout /\ failed # "ledger" /\ Box.registry >= 4 /\ Box.ledger >= 12

\* priceFloorRefusal, on ledgers of one price: a fee that cannot be read counts as none.
PaysTheFloor(d, failed) ==
    LET fee == IF Box.ledger >= 4 /\ failed # "fee" THEN d.terms.fee ELSE 0
    IN  Box.asks /\ HostRate(d.size) > 0 => d.terms.rate - fee >= HostRate(d.size)

\* rateCapRefusal, capVerdict: with the version's fee we are within the owner's cap (0 is
\* none) and funds.
RateCap(d, failed) ==
    LET total == (IF Waived(failed) THEN 0 ELSE HostRate(d.size)) + VersionFee(d.ref)
    IN  /\ failed # "ledger"
        /\ IF Box.ledger < 8 THEN PaysTheFloor(d, failed)
           ELSE /\ failed # "cap" /\ d.terms.bal >= total
                /\ d.terms.cap > 0 => total <= d.terms.cap

\* depHasSecrets: a box without the fleet's key takes nothing with staged secrets.
SecretsGate(staged, failed) == Box.key \/ (~staged /\ failed # "secrets")

\* provisionBackoffHolds.
HoldsBack(d) == hold.stage # "none" /\ hold.ref = d.ref

\* The whole of considerClaim for the page's row. "resume": the lease is ours from an earlier
\* life, and its price is settled; "forced": the owner asks for a retry now.
Takes(d, failed, way, staged) ==
    LET volGb == VolumeGb(NeededVolumes(d.env, d.size.gpu, d.ref), failed)
        mins == Mins(d.ref, volGb)
        onCard == Routing(d, mins) = "card"
    IN  /\ d.active
        /\ way = "resume" \/ d.terms.bal >= d.terms.rate \/ Waived(failed)
        /\ Parses(d.env, d.size.gpu)
        /\ HoldsBack(d) => way = "forced"
        /\ GateApp(d.ref, d.public, failed) = "ok"
        /\ Routing(d, mins) # "refused" /\ (onCard => failed # "manager")
        /\ MeetsMinimum(d, mins, onCard)
        /\ RuntimeServes(d.ref, failed) /\ FeeGate(d, failed) = "ok"
        /\ way = "resume" \/ RateCap(d, failed)
        /\ CarriesVolumes(d, failed) /\ SecretsGate(staged, failed)

-----------------------------------------------------------------------------
(* Claiming                                                                  *)

Fails(f) == (f => faults > 0) /\ faults' = IF f THEN faults - 1 ELSE faults
NoFault == UNCHANGED faults

\* A pass reads the ledger.
ReadPage ==
    /\ step = "idle" /\ page' = row /\ step' = IF Serving THEN "audit" ELSE "consider"
    /\ UNCHANGED <<World, rec, hold, yank, bond, faults>>

\* The gates let it through, if the pools are not full, the card is warm and the grace for
\* boxes without one has run out. Whether the lease is ours already, the owner asked for the
\* retry, and secrets are staged comes from outside.
Consider ==
    /\ step = "consider"
    /\ \E failed \in Reads :
         /\ Fails(failed # "none")
         /\ step' \in {"idle"} \union
              (IF \E way \in {"sweep", "forced", "resume"}, staged \in BOOLEAN :
                     Takes(page, failed, way, staged)
               THEN {"claim"} ELSE {})
    /\ UNCHANGED <<World, rec, hold, yank, bond>>

\* prefetchProbeDue, gatewayServes: a prefetch failure is forgiven once the
\* gateway serves the bytes; any other waits its time out.
HoldEnds ==
    /\ hold # NoHold /\ hold' = NoHold
    /\ UNCHANGED <<World, step, rec, yank, bond, faults>>

\* claimBondReady: a short bond is posted, if the operator allows it.
PostBond ==
    /\ step = "claim" /\ ~bond
    /\ bond' \in BOOLEAN /\ Fails(~bond')
    /\ step' = IF bond' THEN step ELSE "idle"
    /\ UNCHANGED <<World, rec, hold, yank>>

\* noteProvisionFailure.
Note(stage, v) == hold' = [ref |-> v, stage |-> stage]

PrefetchFails ==
    /\ step = "claim" /\ bond /\ faults > 0 /\ faults' = faults - 1
    /\ Note("prefetch", page.ref) /\ step' = "idle"
    /\ UNCHANGED <<World, rec, yank, bond>>

LostTheRace ==
    /\ step = "claim" /\ bond /\ step' = "idle"
    /\ UNCHANGED <<World, rec, hold, yank, bond, faults>>

\* Where the gates routed it; the manager answered if anything hung on it.
PageOnCard(d) ==
    Routing(d, Mins(d.ref, VolumeGb(NeededVolumes(d.env, d.size.gpu, d.ref), "none"))) = "card"

\* adopt: the record is the page's row, as it was gated.
Adopted(d) ==
    [st |-> "claimed", ref |-> d.ref, size |-> d.size, onCard |-> PageOnCard(d),
     env |-> d.env, conf |-> Fields(d.env, d.ref), waf |-> Waf(d.env),
     odd |-> FALSE, moved |-> FALSE]

Adopt ==
    /\ step = "claim" /\ bond /\ ~Serving
    /\ rec' = Adopted(page) /\ step' = "launch"
    /\ UNCHANGED <<World, hold, yank, bond, faults>>

\* provisionTenant. A record torn down meanwhile is set running all the same.
LaunchEnds ==
    /\ step = "launch"
    /\ \E failed \in BOOLEAN :
         /\ Fails(failed)
         /\ rec' = [rec EXCEPT !.st = IF failed THEN "failed" ELSE "running"]
         /\ hold' = IF failed THEN [ref |-> rec.ref, stage |-> "provision"] ELSE NoHold
    /\ step' = "idle"
    /\ UNCHANGED <<World, yank, bond>>

-----------------------------------------------------------------------------
(* The audit of a serving record                                             *)

GoneFrom(r) == [r EXCEPT !.st = "terminated"]

\* shareResizeVerdict, needsVersionSwitch.
Resized == rec.size # page.size
NeedsSwitch == rec.ref # page.ref \/ Resized

AuditStopped ==
    /\ step = "audit" /\ rec.st = "running" /\ ~page.active
    /\ rec' = GoneFrom(rec) /\ step' = "idle"
    /\ UNCHANGED <<World, hold, yank, bond, faults>>

\* A record torn down since the page was read is left alone; one still claimed
\* (a restart in the middle of a launch) is launched.
AuditSkips ==
    /\ step = "audit" /\ rec.st # "running"
    /\ step' = IF rec.st = "claimed" /\ page.active THEN "launch" ELSE "idle"
    /\ UNCHANGED <<World, rec, hold, yank, bond, faults>>

\* A refusal keeps the old version serving, unless the shares changed and it is
\* not a passing one: then the record is evicted.
SwitchRefused(transient) ==
    rec' = IF Resized /\ ~transient THEN [rec EXCEPT !.st = "expired"] ELSE rec

\* The gates a switch passes again: not the price, which the ledger moved already, nor the
\* runtime, the volumes and the secrets. On cores it asks nothing of a card.
SwitchGates(failed) ==
    LET g == GateApp(page.ref, page.public, failed)
        volGb == VolumeGb(NeededVolumes(page.env, page.size.gpu, page.ref), failed)
    IN  IF /\ Resized /\ page.size.gpu > 0 /\ ~Box.gpu
           /\ ~GpuOptional(page.env, page.size.gpu) THEN "evict"
        ELSE IF g = "unread" THEN "later"
        ELSE IF g = "refused" \/ ~MeetsMinimum(page, Mins(page.ref, volGb), rec.onCard) THEN "refused"
        ELSE IF FeeGate(page, failed) # "ok" THEN FeeGate(page, failed)
        ELSE IF failed = "prefetch" THEN "later" ELSE "ok"

\* switchTenantVersion up to the stop of the old instance.
SwitchVersion ==
    /\ step = "audit" /\ rec.st = "running" /\ page.active /\ NeedsSwitch
    /\ \E failed \in Reads :
         /\ Fails(failed # "none")
         /\ LET v == SwitchGates(failed)
            IN  /\ step' = IF v = "ok" THEN "switch" ELSE "idle"
                /\ CASE v = "evict" -> rec' = [rec EXCEPT !.st = "expired"]
                     [] v = "later" -> SwitchRefused(TRUE)
                     [] v = "refused" -> SwitchRefused(FALSE)
                     [] OTHER -> UNCHANGED rec
    /\ UNCHANGED <<World, hold, yank, bond>>

\* The record after the switch: its configuration and the envelope's stamp, not
\* its firewall rules; an envelope that does not parse leaves the version's
\* configuration and the old stamp.
Switched ==
    LET parses == Parses(page.env, page.size.gpu)
    IN  [rec EXCEPT !.st = "claimed", !.ref = page.ref, !.moved = TRUE, !.odd = TRUE,
                    !.size = page.size, !.onCard = IF Resized THEN page.size.gpu > 0 ELSE @,
                    !.conf = IF parses THEN Fields(page.env, page.ref) ELSE VersionsOwn(page.ref),
                    !.env = IF parses THEN page.env ELSE @]

\* The stop is confirmed or the switch waits; a slice that does not fit evicts,
\* and a card's never fits a box without one.
SwitchEnds ==
    /\ step = "switch"
    /\ \E stopped, full \in BOOLEAN :
         LET fits == Resized => ~full /\ (page.size.gpu > 0 => Box.gpu)
         IN  /\ Fails(~stopped)
             /\ rec' = IF ~stopped THEN rec
                       ELSE IF fits THEN Switched ELSE [rec EXCEPT !.st = "expired"]
             /\ step' = IF stopped /\ fits THEN "launch" ELSE "idle"
    /\ UNCHANGED <<World, hold, yank, bond>>

Aligned == step = "audit" /\ rec.st = "running" /\ page.active /\ ~NeedsSwitch

\* applyEnvelopeEdit: rules go in live, before anything can refuse.
EditLive ==
    /\ Aligned /\ EditVerdict(rec, page.env) = "waf"
    /\ rec' = [rec EXCEPT !.waf = Waf(page.env), !.env = page.env] /\ step' = "idle"
    /\ UNCHANGED <<World, hold, yank, bond, faults>>

EditRefused ==
    /\ Aligned
    /\ LET v == EditVerdict(rec, page.env)
       IN  \/ v = "error" /\ UNCHANGED <<rec, faults>>
           \/ /\ v = "restart" /\ Override(page.env) = NoOverride
              /\ \E failed \in Reads : /\ GateApp(page.ref, page.public, failed) # "ok"
                                       /\ Fails(failed # "none")
              /\ rec' = [rec EXCEPT !.waf = Waf(page.env), !.odd = TRUE]
    /\ step' = "idle"
    /\ UNCHANGED <<World, hold, yank, bond>>

\* The configuration changed: stopped, confirmed or not, and launched anew.
EditRestarts ==
    /\ Aligned /\ EditVerdict(rec, page.env) = "restart"
    /\ Override(page.env) = NoOverride => GateApp(page.ref, page.public, "none") = "ok"
    /\ rec' = [rec EXCEPT !.st = "claimed", !.env = page.env,
                          !.conf = Fields(page.env, page.ref), !.waf = Waf(page.env)]
    /\ step' = "launch"
    /\ UNCHANGED <<World, hold, yank, bond, faults>>

AuditHealthy ==
    /\ Aligned /\ EditVerdict(rec, page.env) = "skip" /\ step' = "idle"
    /\ UNCHANGED <<World, rec, hold, yank, bond, faults>>

-----------------------------------------------------------------------------
(* Sweeps beside the pass                                                    *)

\* yankSweep reads the versions served, and plans on the records as they are then.
YankRead ==
    /\ Serving /\ yank = {} /\ cat[rec.ref] = "yanked" /\ yank' = {rec.ref}
    /\ UNCHANGED <<World, step, rec, hold, bond, faults>>

YankTeardown ==
    /\ yank # {} /\ yank' = {}
    /\ rec' = IF Serving /\ rec.ref \in yank THEN GoneFrom(rec) ELSE rec
    /\ UNCHANGED <<World, step, hold, bond, faults>>

\* ledgerMoveSweep: the ledger the lease was taken on was retired.
LedgerMoves ==
    /\ Serving /\ edits > 0 /\ edits' = edits - 1
    /\ rec' = GoneFrom(rec)
    /\ UNCHANGED <<box, cat, row, step, hold, yank, bond, faults>>

-----------------------------------------------------------------------------
(* Owner, publisher, catalog                                                 *)

OwnerEdits ==
    /\ edits > 0 /\ edits' = edits - 1
    /\ row' \in {[row EXCEPT !.ref = v] : v \in Versions}
           \union {[row EXCEPT !.size = z] : z \in Sizes}
           \union {[row EXCEPT !.env = e] : e \in DOMAIN Envelopes}
           \union {[row EXCEPT !.terms = m] : m \in {m \in Terms : m.fee = row.terms.fee}}
           \union {[row EXCEPT !.active = ~@], [row EXCEPT !.public = ~@]}
    /\ UNCHANGED <<box, cat, step, rec, hold, yank, bond, faults>>

CatalogChanges ==
    /\ edits > 0 /\ edits' = edits - 1
    /\ \E v \in Versions, c \in {"approved", "rejected", "yanked"} : cat' = [cat EXCEPT ![v] = c]
    /\ UNCHANGED <<box, row, step, rec, hold, yank, bond, faults>>

Init ==
    /\ box \in DOMAIN Kinds
    /\ cat \in [Versions -> {"approved", "pending"}]
    /\ row \in Starts
    /\ page = NoPage /\ step = "idle" /\ rec = NoRec /\ hold = NoHold /\ yank = {}
    /\ bond = FALSE /\ edits = MaxEdits /\ faults = MaxFaults

Steps ==
    \/ HoldEnds \/ PrefetchFails \/ LostTheRace \/ Adopt
    \/ AuditStopped \/ AuditSkips \/ EditLive \/ EditRestarts \/ AuditHealthy
    \/ YankRead \/ YankTeardown \/ LedgerMoves \/ OwnerEdits \/ CatalogChanges
    \/ Consider \/ PostBond \/ LaunchEnds \/ SwitchVersion \/ SwitchEnds \/ EditRefused

\* The page is looked at by the pass that read it, and by nothing after.
Next == ReadPage \/ (Steps /\ page' = IF step' = "idle" THEN NoPage ELSE page)

Spec == Init /\ [][Next]_vars

-----------------------------------------------------------------------------
\* A serving record runs the configuration that its stamped envelope and its
\* version give, and the rules of that envelope unless a switch or a refused edit
\* came between; until a switch, a version that must have a card and was sold one
\* is on one that is big enough, and the runtime serves what the version uses;
\* nothing is on a card of a box without one (adopt, switchTenantVersion,
\* applyEnvelopeEdit, envelopeEditVerdict, gpuRouting).
ServesWhatWasOrdered ==
    Serving =>
        /\ rec.conf \in {Fields(rec.env, rec.ref)} \union IF rec.odd THEN {VersionsOwn(rec.ref)} ELSE {}
        /\ ~rec.odd => rec.waf = Waf(rec.env)
        /\ rec.moved \/ Uses(rec.ref) \subseteq Box.serves
        /\ rec.moved \/ (DeclaresGpu(rec.ref) /\ ~Specs[rec.ref].soft /\ rec.size.gpu > 0 =>
                             rec.onCard /\ (Box.shielded \/ Mins(rec.ref, 0).gpu <= Whole))
        /\ rec.onCard => Box.gpu
===============================================================================
