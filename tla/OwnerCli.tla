------------------------------- MODULE OwnerCli -------------------------------
(***************************************************************************)
(* The command line of a deployment's owner (src/cli/enclave.mjs).  A      *)
(* command reads the ledger, works out what it would do, asks, and then    *)
(* walks a list of calls: transactions, requests to the serving box,       *)
(* secrets put on the relay.  Between any two of them the boxes claim,     *)
(* launch and reprice, the owner's browser edits the same record, a call   *)
(* fails, or the command is interrupted.                                   *)
(***************************************************************************)
EXTENDS Integers, Sequences, FiniteSets

CONSTANTS
    Boxes,      \* the fleet
    Own,        \* boxes whose declared payout wallet is the owner: free of charge
    MaxRate,    \* bound: the dearest ceiling anyone names
    MaxCmds,    \* bound: commands run
    MaxEdits,   \* bound: edits from the browser, fundings by others
    MaxFaults   \* bound: failed calls, interruptions, repricings

VARIABLES
    rec,     \* the ledger's record
    price,   \* per box: what it posts for one share
    inst,    \* [up, secrets, conf]: the instance on the box that holds the lease
    away,    \* boxes that stand down after a move
    store,   \* the relay has secrets for it
    cmd,     \* the running command: [name, steps, arg, unsigned], seen what an edit started from
    told,    \* [cap, stopped, gift]: what the owner was told or confirmed
    limits   \* [cmds, edits, faults] left

vars == <<rec, price, inst, away, store, cmd, told, limits>>

NoRec == [made |-> FALSE, active |-> FALSE, mine |-> FALSE, funded |-> FALSE, ver |-> 1,
          shares |-> 1, cap |-> 0, rate |-> 0, waf |-> 0, conf |-> 0, box |-> 0]
NoInst == [up |-> FALSE, secrets |-> FALSE, conf |-> 0]
NoCmd == [name |-> "none", steps |-> <<>>, seen |-> NoRec, arg |-> 0, unsigned |-> FALSE]

Init ==
    /\ rec = NoRec /\ price = [b \in Boxes |-> 1] /\ inst = NoInst /\ away = {}
    /\ store = FALSE /\ cmd = NoCmd
    /\ told = [cap |-> 0, stopped |-> FALSE, gift |-> FALSE]
    /\ limits = [cmds |-> MaxCmds, edits |-> MaxEdits, faults |-> MaxFaults]

Fault == limits.faults > 0 /\ limits' = [limits EXCEPT !.faults = @ - 1]
World == <<price, inst, away, store>>

-----------------------------------------------------------------------------
(* Starting a command                                                        *)

\* livePrices6 and rate6Of before a claim: the cheapest live box.
Cheapest(shares) == shares * (CHOOSE p \in {price[b] : b \in Boxes} :
                                 \A q \in {price[b] : b \in Boxes} : p <= q)

\* hostPricing: what the box that serves it would charge, nothing its own wallet.
HostRate(b, shares) == IF b \in Own THEN 0 ELSE price[b] * shares

\* What a resize would cost: at the serving box, else at the cheapest one.
Quote(d, shares) == IF d.box = 0 THEN Cheapest(shares) ELSE HostRate(d.box, shares)

\* resolveId and the ownership gate of every command that changes the record.
Owned(d) == d.made /\ d.mine

\* Mutant: the money goes first.
DeploySteps2(secrets) == IF secrets THEN <<"create", "fund", "stage", "hint">>
                         ELSE <<"create", "fund", "hint">>
\* cmdDeploy: secrets are on the relay before the record is worth claiming.
DeploySteps(secrets) == IF secrets THEN <<"create", "stage", "fund", "hint">>
                        ELSE <<"create", "fund", "hint">>

\* The confirmed command and its calls. unsigned prints a transaction and exits.
Start(name, steps, arg) ==
    /\ cmd.name = "none" /\ limits.cmds > 0
    /\ \E u \in BOOLEAN : cmd' = [name |-> name, steps |-> steps, arg |-> arg, unsigned |-> u,
                                  seen |-> IF name = "config" THEN rec ELSE NoRec]
    /\ limits' = [limits EXCEPT !.cmds = @ - 1]
    /\ UNCHANGED <<rec, World>>

\* The ceiling defaults to the quote and is never below it.
Worth(max) == max >= Cheapest(1)

\* cmdDeploy: the app and its terms checked, then the quote confirmed.
Deploy ==
    /\ ~rec.made
    /\ \E secrets \in BOOLEAN, conf \in 0 .. 1, max \in 1 .. MaxRate :
          /\ Worth(max)
          /\ Start("deploy", DeploySteps(secrets), [cap |-> max, conf |-> conf])
          /\ told' = [told EXCEPT !.cap = max]

Fund == rec.made /\ Start("fund", <<"fund">>, 0) /\ UNCHANGED told

\* The first read may fail: then the record is taken for inactive.
Stop ==
    /\ rec.made
    /\ Start("stop", <<"deactivate", "delete">>, 0)
    /\ UNCHANGED told

Restart == rec.made /\ Start("restart", <<"restart">>, 0) /\ UNCHANGED told

\* cmdMove: a lease is handed back first, and seen to be gone.
Move(b) ==
    /\ Owned(rec) /\ rec.box # b
    /\ Start("move", IF rec.box = 0 THEN <<"hint", "landed">>
                     ELSE <<"evacuate", "await", "hint", "landed">>, b)
    /\ UNCHANGED told

\* cmdRateCap.
RateCap(cap) ==
    /\ Owned(rec) /\ cap # rec.cap
    /\ Start("cap", <<"cap">>, cap)
    /\ told' = [told EXCEPT !.cap = IF cap > @ THEN cap ELSE @]

\* cmdRefund: refundableOf is not zero.
Refund == Owned(rec) /\ rec.funded /\ Start("refund", <<"refund", "delete">>, 0) /\ UNCHANGED told

\* cmdTransfer: money goes home first, and a reserve that is left stops it.
Transfer ==
    /\ Owned(rec)
    /\ Start("transfer", IF rec.funded THEN <<"refund", "recheck", "transfer">> ELSE <<"transfer">>, 0)
    /\ UNCHANGED told

Resume == Owned(rec) /\ Start("resume", <<"activate", "hint">>, 0) /\ UNCHANGED told

\* A resize that the ceiling would refuse is not sent.
UnderCap(shares) == shares # rec.shares => Quote(rec, shares) <= rec.cap

\* cmdUpgrade, resize: not over the cap, and for a price that was shown.
Retune(ver, shares) ==
    /\ Owned(rec) /\ <<ver, shares>> # <<rec.ver, rec.shares>>
    /\ UnderCap(shares)
    /\ Start("retune", <<"retune", "hint">>, <<ver, shares>>)
    /\ UNCHANGED told

\* cmdConfig: the namespace that was not passed keeps the value it was read with.
Envelope(d, ns, v) == IF ns = "waf" THEN [waf |-> v, conf |-> d.conf] ELSE [waf |-> d.waf, conf |-> v]

Config(ns, v) ==
    /\ Owned(rec) /\ rec[ns] # v
    /\ Start("config", <<"config">>, Envelope(rec, ns, v))
    /\ UNCHANGED told

\* cmdSecrets: set or clear, and a restart that makes the app read them.
Secrets(on, restart) ==
    /\ Owned(rec)
    /\ Start("secrets", IF restart THEN <<IF on THEN "stage" ELSE "clear", "restart">>
                        ELSE <<IF on THEN "stage" ELSE "clear">>, 0)
    /\ UNCHANGED told

-----------------------------------------------------------------------------
(* One call of the running command                                           *)

At(step) == cmd.steps # <<>> /\ Head(cmd.steps) = step
Rest == IF Tail(cmd.steps) = <<>> THEN NoCmd ELSE [cmd EXCEPT !.steps = Tail(@)]

\* emitUnsigned: the first transaction is printed (and signed elsewhere), the rest
\* is up to another run.
Sent == IF cmd.unsigned THEN NoCmd ELSE Rest
Die == cmd' = NoCmd

\* sendTx: the ledger takes it, or it reverts and the command ends there.
Tx(ok, after) ==
    /\ IF ok THEN rec' = after /\ cmd' = Sent ELSE UNCHANGED rec /\ Die
    /\ UNCHANGED <<World, limits>>

Create ==
    /\ At("create")
    /\ Tx(~rec.made, [NoRec EXCEPT !.made = TRUE, !.active = TRUE, !.mine = TRUE,
                                   !.cap = cmd.arg.cap, !.rate = cmd.arg.cap, !.conf = cmd.arg.conf])
    /\ UNCHANGED told

\* fundUsdc, fundEth: an inactive record takes no money. USDC needs a signature.
SendFund ==
    /\ At("fund")
    /\ Tx(rec.active, [rec EXCEPT !.funded = TRUE])
    /\ UNCHANGED told

\* The read before the transaction: unreadable, inactive or foreign skips it.
Deactivate(readable) ==
    /\ At("deactivate")
    /\ IF readable THEN UNCHANGED limits ELSE Fault
    /\ IF readable /\ rec.active /\ rec.mine
       THEN rec' = [rec EXCEPT !.active = FALSE] /\ cmd' = Sent
       ELSE UNCHANGED rec /\ cmd' = Rest
    /\ told' = [told EXCEPT !.stopped = @ \/ (readable /\ (rec.mine \/ ~rec.active))]
    /\ UNCHANGED <<World>>

Activate ==
    /\ At("activate")
    /\ Tx(rec.mine, [rec EXCEPT !.active = TRUE])
    /\ told' = [told EXCEPT !.stopped = FALSE]

SendRefund ==
    /\ At("refund")
    /\ Tx(rec.mine /\ rec.funded, [rec EXCEPT !.funded = FALSE, !.active = FALSE])
    /\ UNCHANGED told

\* Between the two transactions: what a lease still reserves stops the second.
Recheck ==
    /\ At("recheck")
    /\ IF rec.funded THEN Die ELSE cmd' = Rest
    /\ UNCHANGED <<rec, World, told, limits>>

SendTransfer ==
    /\ At("transfer")
    /\ Tx(rec.mine /\ ~rec.funded, [rec EXCEPT !.mine = FALSE])
    /\ UNCHANGED told

SendCap ==
    /\ At("cap")
    /\ Tx(rec.mine, [rec EXCEPT !.cap = cmd.arg, !.rate = IF rec.box = 0 THEN cmd.arg ELSE @])
    /\ told' = [told EXCEPT !.cap = IF rec.mine THEN cmd.arg ELSE @]

\* setAppRef and setShares, in one multicall when both change.
Retuned(d, ver, shares) ==
    [d EXCEPT !.ver = ver, !.shares = shares,
              !.rate = IF shares = d.shares THEN @
                       ELSE IF d.box = 0 THEN d.cap ELSE HostRate(d.box, shares)]
SendRetune ==
    /\ At("retune")
    /\ LET after == Retuned(rec, cmd.arg[1], cmd.arg[2])
       IN  Tx(rec.mine /\ (after.shares = rec.shares \/ after.rate <= rec.cap), after)
    /\ UNCHANGED told

SendConfig ==
    /\ At("config")
    /\ Tx(rec.mine, [rec EXCEPT !.waf = cmd.arg.waf, !.conf = cmd.arg.conf])
    /\ UNCHANGED told

\* A signed message is out of reach of an unsigned run.
\* bearer: the cached token, a fresh login, or (a 401) one more login: both need the key.
Signs == ~cmd.unsigned

\* secretsCall: the relay checks the owner on the ledger. In a deploy a failure is
\* a warning, anywhere else the end of the command.
Stage(on, ok) ==
    /\ At(IF on THEN "stage" ELSE "clear")
    /\ IF ok THEN Signs /\ rec.mine /\ store' = on /\ cmd' = Rest /\ UNCHANGED limits
       ELSE /\ UNCHANGED store
            /\ IF Signs /\ rec.mine THEN Fault ELSE UNCHANGED limits
            /\ cmd' = IF cmd.name = "deploy" THEN Rest ELSE NoCmd
    /\ UNCHANGED <<rec, price, inst, away, told>>

\* Nothing here serves it: 404.
Serving == rec.box # 0

\* DELETE at the box: the instance goes, the lease is handed back; 404 is fine for
\* a stop, and a refund does not wait for it at all.
Delete(ok) ==
    /\ At("delete")
    /\ IF ok
       THEN /\ Signs /\ inst' = NoInst
            /\ rec' = [rec EXCEPT !.box = 0, !.rate = IF rec.box = 0 THEN @ ELSE rec.cap]
            /\ UNCHANGED limits
       ELSE /\ IF Signs THEN Fault ELSE UNCHANGED limits
            /\ UNCHANGED <<inst, rec>>
    /\ Die
    /\ UNCHANGED <<price, away, store, told>>

\* ?evacuate=1: the source stands down for a while. Nothing there is an error.
Evacuate(ok) ==
    /\ At("evacuate")
    /\ IF ok /\ Signs /\ Serving
       THEN /\ inst' = NoInst /\ away' = away \union {rec.box} /\ cmd' = Rest
            /\ rec' = [rec EXCEPT !.box = 0, !.rate = rec.cap] /\ UNCHANGED limits
       ELSE /\ IF Signs /\ Serving THEN Fault ELSE UNCHANGED limits
            /\ Die /\ UNCHANGED <<inst, away, rec>>
    /\ UNCHANGED <<price, store, told>>

\* leaseGone, polled for a minute.
Await ==
    /\ At("await")
    /\ IF rec.box = 0 THEN cmd' = Rest /\ UNCHANGED limits ELSE Fault /\ Die
    /\ UNCHANGED <<rec, World, told>>

\* A hint is a request to look; it changes nothing, and nobody waits for it.
Hint == At("hint") /\ cmd' = Rest /\ UNCHANGED <<rec, World, told, limits>>

\* Where it really went, or that nobody took it yet.
Landed ==
    /\ At("landed") /\ cmd' = Rest
    /\ UNCHANGED <<rec, World, told, limits>>

\* POST restart: the app comes back with what the relay holds now.
SendRestart(ok) ==
    /\ At("restart")
    /\ IF ok /\ Signs /\ inst.up
       THEN inst' = [inst EXCEPT !.secrets = store] /\ UNCHANGED limits
       ELSE /\ IF Signs /\ inst.up THEN Fault ELSE UNCHANGED limits
            /\ UNCHANGED <<inst>>
    /\ Die
    /\ UNCHANGED <<rec, price, away, store, told>>

Interrupted == cmd.name # "none" /\ Fault /\ Die /\ UNCHANGED <<rec, World, told>>

-----------------------------------------------------------------------------
(* Everyone else                                                             *)

Claim(b) ==
    /\ rec.active /\ rec.box = 0 /\ b \notin away
    /\ LET r == HostRate(b, rec.shares)
       IN  /\ r <= rec.cap /\ (rec.funded \/ r = 0)
           /\ rec' = [rec EXCEPT !.box = b, !.rate = r]
    /\ inst' = NoInst
    /\ UNCHANGED <<price, away, store, cmd, told, limits>>

Launch ==
    /\ rec.box # 0 /\ ~inst.up
    /\ inst' = [up |-> TRUE, secrets |-> store, conf |-> rec.conf]
    /\ UNCHANGED <<rec, price, away, store, cmd, told, limits>>

\* The holder applies an edit, and lets go of what was switched off or ran dry.
Applies ==
    /\ inst.up /\ inst.conf # rec.conf /\ inst' = [inst EXCEPT !.conf = rec.conf]
    /\ UNCHANGED <<rec, price, away, store, cmd, told, limits>>
LetsGo ==
    /\ rec.box # 0 /\ inst' = NoInst
    /\ \/ ~rec.active /\ rec' = [rec EXCEPT !.box = 0, !.rate = rec.cap]
       \/ rec.rate > 0 /\ rec' = [rec EXCEPT !.box = 0, !.rate = rec.cap, !.funded = FALSE]
    /\ UNCHANGED <<price, away, store, cmd, told, limits>>
StandDownEnds == away # {} /\ away' = {} /\ UNCHANGED <<rec, price, inst, store, cmd, told, limits>>
Reprices(b) ==
    /\ Fault /\ price' = [price EXCEPT ![b] = 3 - @]
    /\ UNCHANGED <<rec, inst, away, store, cmd, told>>

\* The owner's browser, and anyone who funds it.
Browser ==
    /\ limits.edits > 0 /\ limits' = [limits EXCEPT !.edits = @ - 1] /\ rec.mine
    /\ \/ \E cap \in 1 .. MaxRate :
             /\ rec' = [rec EXCEPT !.cap = cap, !.rate = IF rec.box = 0 THEN cap ELSE @]
             /\ told' = [told EXCEPT !.cap = IF cmd.name = "cap" /\ cmd.arg > cap THEN cmd.arg ELSE cap]
       \/ \E v \in 0 .. 1, ns \in {"waf", "conf"} : rec' = [rec EXCEPT ![ns] = v] /\ UNCHANGED told
       \/ rec' = [rec EXCEPT !.active = ~@] /\ told' = [told EXCEPT !.stopped = @ /\ rec.active]
       \/ rec.active /\ rec' = [rec EXCEPT !.funded = TRUE] /\ told' = [told EXCEPT !.gift = TRUE]
    /\ UNCHANGED <<World, cmd>>

Command ==
    \/ Deploy \/ Fund \/ Stop \/ Restart \/ Refund \/ Transfer \/ Resume
    \/ \E b \in Boxes : Move(b)
    \/ \E cap \in 1 .. MaxRate : RateCap(cap)
    \/ \E ver \in 1 .. 2, shares \in 1 .. 2 : Retune(ver, shares)
    \/ \E ns \in {"waf", "conf"}, v \in 0 .. 1 : Config(ns, v)
    \/ \E on, restart \in BOOLEAN : Secrets(on, restart)

Call ==
    \/ Create \/ SendFund \/ Activate \/ SendRefund \/ Recheck \/ SendTransfer \/ SendCap
    \/ SendRetune \/ SendConfig \/ Await \/ Hint \/ Landed \/ Interrupted
    \/ \E ok \in BOOLEAN : Deactivate(ok) \/ Delete(ok) \/ Evacuate(ok) \/ SendRestart(ok)
    \/ \E on, ok \in BOOLEAN : Stage(on, ok)

Next ==
    \/ Command \/ Call \/ Browser
    \/ \E b \in Boxes : Claim(b) \/ Reprices(b)
    \/ Launch \/ Applies \/ LetsGo \/ StandDownEnds

Spec == Init /\ [][Next]_vars

-----------------------------------------------------------------------------
\* What a command said holds, however boxes, browser and failures come between
\* its calls (cmdDeploy, cmdStop, cmdConfig, cmdTransfer):
\*  - what the deployment pays rises only to a ceiling its owner confirmed;
\*  - an app starts before its secrets are staged only where it is free or others paid;
\*  - nothing is leased after a stop that read the record;
\*  - a config edit changes the other namespace only if that was edited meanwhile;
\*  - a record changes hands without money of the old owner in it.
AsConfirmed ==
    /\ rec'.rate > rec.rate => rec'.rate <= told'.cap
    /\ inst'.up /\ ~inst.up /\ cmd.name = "deploy" /\ (\E i \in DOMAIN cmd.steps : cmd.steps[i] = "stage")
          => rec.rate = 0 \/ told.gift
    /\ rec.box = 0 /\ rec'.box # 0 => ~told.stopped
    /\ At("config") /\ rec' # rec => \E ns \in {"waf", "conf"} : rec'[ns] = rec[ns] \/ rec[ns] # cmd.seen[ns]
    /\ rec.mine /\ rec.made /\ ~rec'.mine => ~rec.funded
===============================================================================
