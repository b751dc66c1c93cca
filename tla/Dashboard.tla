----------------------------- MODULE Dashboard -----------------------------
(***************************************************************************)
(* The owner's page over a deployment                                      *)
(* (src/site/components/deployments/deployments.js): panels that read the  *)
(* ledger once, sit open, and send what was confirmed over what they read; *)
(* two of them open at a time, the record changing under both.  A wallet   *)
(* signs a transaction, a credit vault an operation over its nonce.  A     *)
(* refund, a transfer and a move are chains of steps that may stop.        *)
(***************************************************************************)
EXTENDS Integers, FiniteSets

CONSTANTS
    Spaces,     \* namespaces of the options envelope
    MaxOps,     \* bound: panels confirmed
    MaxFaults   \* bound: calls that fail, reads that do not answer

Tabs == {1, 2}
Boxes == {1, 2}
\* The smallest share each version of the app runs in.
Mins == [v \in {1, 2} |-> v]

VARIABLES
    led,     \* the record: [vault, active, env, ver, size, bal, runner, mine, nonce]
    leaving, \* boxes that tore the app down and owe the release, and those that stand down
    panel,   \* [Tabs -> [kind, step, snap, op]]: what was read, what is signed
    did,     \* [Tabs -> writes landed since the last click]
    moved,   \* [Tabs -> what changed since the panel read it, its own unseen writes too]
    ops, faults

vars == <<led, leaving, panel, did, moved, ops, faults>>

NoEnv == [n \in Spaces |-> 0]
NoOp == [name |-> "none", env |-> NoEnv, ver |-> 0, size |-> 0, nonce |-> 0]
NoSnap == [env |-> NoEnv, ver |-> 0, size |-> 0, bal |-> 0]
Closed == [kind |-> "none", step |-> "closed", snap |-> NoSnap, op |-> NoOp]
Kinds == Spaces \cup {"version", "refund", "transfer", "move", "suspend", "resume"}

Init ==
    /\ \E vault \in BOOLEAN :
       led = [vault |-> vault, active |-> TRUE, env |-> NoEnv, ver |-> 1, size |-> 2, bal |-> 1,
              runner |-> 0, mine |-> TRUE, nonce |-> 0]
    /\ leaving = [owes |-> 0, down |-> 0]
    /\ panel = [t \in Tabs |-> Closed] /\ did = [t \in Tabs |-> 0]
    /\ moved = [t \in Tabs |-> {}]
    /\ ops = MaxOps /\ faults = MaxFaults

Fault == faults > 0 /\ faults' = faults - 1
Fine == UNCHANGED faults

\* What the ledger still holds, and what of it no lease reserves.
Held(r) == r.bal + (IF r.runner # 0 THEN 1 ELSE 0)
Refundable(r) == r.bal

Step(t, s) == panel' = [panel EXCEPT ![t].step = s, ![t].op = IF s = "open" THEN NoOp ELSE @]
\* A panel that failed stays open for another try; one that is done closes.
Done(t) == panel' = [panel EXCEPT ![t] = Closed]
Others(t, what, seen) ==
    moved' = [u \in Tabs |-> IF panel[u].step = "closed" \/ (u = t /\ seen) THEN moved[u] ELSE moved[u] \cup what]
\* A tab is a name for a panel: the first closed one is taken.
Vacant(t) == panel[t].step = "closed" /\ \A u \in Tabs : u < t => panel[u].step # "closed"

-----------------------------------------------------------------------------
(* Opening                                                                   *)

\* _transfer: held backing no refund can free now sends the owner to Suspend first.
CanOpen(k, r) ==
    /\ r.mine
    /\ k = "transfer" => ~led.vault /\ ~(Held(r) > 0 /\ Refundable(r) = 0)
    /\ k = "refund" => Refundable(r) > 0
    /\ k = "move" => r.runner # 0

Read == [env |-> led.env, ver |-> led.ver, size |-> led.size, bal |-> led.bal]

\* _waf, _network, _cfgRead, _upgrade, _move, _transfer: one read of the ledger.
Open(t, k) ==
    /\ Vacant(t) /\ ops > 0 /\ ops' = ops - 1 /\ CanOpen(k, led)
    /\ panel' = [panel EXCEPT ![t] = [Closed EXCEPT !.kind = k, !.step = "open", !.snap = Read]]
    /\ moved' = [moved EXCEPT ![t] = {}] /\ Fine
    /\ did' = [did EXCEPT ![t] = 0]
    /\ UNCHANGED <<led, leaving>>

Close(t) ==
    /\ panel[t].step = "open" /\ Done(t)
    /\ UNCHANGED <<led, leaving, did, moved, ops, faults>>

-----------------------------------------------------------------------------
(* Confirming: what is signed is made of what the panel read                 *)

\* Mutant: the envelope is rebuilt from this panel's namespace alone.
RebuiltEnvelope(t) == [n \in Spaces |-> IF n = panel[t].kind THEN 1 - panel[t].snap.env[n] ELSE 0]
\* Its own namespace is rewritten, the others ride along verbatim.
EnvelopeFor(t) == [panel[t].snap.env EXCEPT ![panel[t].kind] = 1 - @]

\* problem: the dials must cover the version's minimum, re-checked at the click.
Problem(v, s) == s < Mins[v]

\* A vault's operation is prepared for the nonce it has now.
Signed(op) == [op EXCEPT !.nonce = led.nonce]
Op(name) == [NoOp EXCEPT !.name = name]
Retune(t, v, s) ==
    [Op("retune") EXCEPT !.ver = IF v = panel[t].snap.ver THEN 0 ELSE v,
                         !.size = IF s = panel[t].snap.size THEN 0 ELSE s]
Sign(t, op, step) == panel' = [panel EXCEPT ![t].op = Signed(op), ![t].step = step]

\* _waf, _network, _cfgCommit: one setConfig; a big config is pinned first.
ConfirmOptions(t) ==
    /\ panel[t].kind \in Spaces
    /\ Sign(t, [Op("config") EXCEPT !.env = EnvelopeFor(t)], "signed")

\* _upgrade: setAppRef, setShares, or both in one call.
ConfirmVersion(t) ==
    \E v, s \in DOMAIN Mins :
        /\ panel[t].kind = "version" /\ ~Problem(v, s)
        /\ v # panel[t].snap.ver \/ s # panel[t].snap.size
        /\ Sign(t, Retune(t, v, s), "signed")

ConfirmRefund(t) == panel[t].kind = "refund" /\ Sign(t, Op("refund"), "signed")

\* _transfer: the refund rides in front when the owner's money is still in it.
ConfirmTransfer(t) ==
    /\ panel[t].kind = "transfer"
    /\ IF panel[t].snap.bal > 0 THEN Sign(t, Op("refund"), "refunding")
       ELSE Sign(t, Op("transfer"), "signed")

\* _doMove: a new size is bought first.
ConfirmMove(t) ==
    /\ panel[t].kind = "move"
    /\ \E s \in DOMAIN Mins :
          /\ ~Problem(panel[t].snap.ver, s)
          /\ IF s = panel[t].snap.size THEN Step(t, "asking")
             ELSE Sign(t, Retune(t, panel[t].snap.ver, s), "resizing")

ConfirmSuspend(t) == panel[t].kind = "suspend" /\ Sign(t, Op("suspend"), "signed")

\* _resume: nothing is signed for a record the ledger says is active.
ConfirmResume(t) ==
    /\ panel[t].kind = "resume"
    /\ IF led.active THEN panel' = [panel EXCEPT ![t] = Closed]
       ELSE Sign(t, Op("resume"), "signed")

Confirm(t) ==
    /\ panel[t].step = "open"
    /\ \/ ConfirmOptions(t) \/ ConfirmVersion(t) \/ ConfirmRefund(t) \/ ConfirmTransfer(t)
       \/ ConfirmMove(t) \/ ConfirmSuspend(t) \/ ConfirmResume(t)
    /\ did' = [did EXCEPT ![t] = 0]
    /\ UNCHANGED <<led, leaving, moved, ops, faults>>

-----------------------------------------------------------------------------
(* The write lands, or does not                                              *)

\* What expectedControlCall can rebuild; the rest is refused before the passkey, and
\* what only a wallet sends reverts on a record the vault owns.
Sendable(t) ==
    led.vault => panel[t].op.name # "refund" /\ panel[t].step # "resizing" /\ panel[t].op.nonce = led.nonce

\* The ledger's own gates.
Accepts(op) ==
    /\ led.mine
    /\ op.name = "refund" => Refundable(led) > 0
    /\ op.name = "transfer" => Held(led) = 0

Written(op) ==
    LET r == [led EXCEPT !.nonce = IF led.vault THEN @ + 1 ELSE @]
    IN  CASE op.name = "config" -> [r EXCEPT !.env = op.env]
          [] op.name = "retune" -> [r EXCEPT !.ver = IF op.ver = 0 THEN @ ELSE op.ver,
                                             !.size = IF op.size = 0 THEN @ ELSE op.size]
          [] op.name = "refund" -> [r EXCEPT !.bal = 0, !.active = FALSE]
          [] op.name = "transfer" -> [r EXCEPT !.mine = FALSE]
          [] op.name = "suspend" -> [r EXCEPT !.active = FALSE]
          [] op.name = "resume" -> [r EXCEPT !.active = TRUE]

Touched(op) ==
    CASE op.name = "config" -> {"env"} [] op.name = "retune" -> {"ver", "size"}
      [] op.name = "refund" -> {"bal"} [] OTHER -> {}

\* waitReceipt: the next step of the chain, or the end of it; what the page did not
\* see mined it takes for failed.
Land(t, seen) ==
    LET op == panel[t].op
    IN  /\ panel[t].step \in {"signed", "refunding", "resizing"} /\ Sendable(t) /\ Accepts(op)
        /\ led' = Written(op) /\ Others(t, Touched(op), seen) /\ did' = [did EXCEPT ![t] = @ + 1]
        /\ CASE ~seen -> Fault /\ Step(t, "open")
             [] seen /\ panel[t].step = "refunding" -> Fine /\ Sign(t, Op("transfer"), "signed")
             [] seen /\ panel[t].step = "resizing" -> Fine /\ Step(t, "asking")
             [] OTHER -> Fine /\ Done(t)
        \* a stopped record's box is asked to stop serving, best effort
        /\ leaving' = IF op.name \in {"suspend", "refund"} /\ seen /\ panel[t].step = "signed"
                      THEN [leaving EXCEPT !.owes = led.runner] ELSE leaving
        /\ UNCHANGED ops

\* Rejected in the wallet, refused by the ledger, a nonce that moved on.
Refused(t) ==
    /\ panel[t].step \in {"signed", "refunding", "resizing"}
    /\ IF Sendable(t) /\ Accepts(panel[t].op) THEN Fault ELSE Fine
    /\ Step(t, "open")
    /\ UNCHANGED <<led, leaving, did, moved, ops>>

-----------------------------------------------------------------------------
(* A move                                                                    *)

\* _asHost: the box that holds the lease is asked under a session of its own, once
\* more if it no longer knows the session; it tears down before it answers, and the
\* answer may be lost.
Evacuate(t, asked, answered) ==
    /\ panel[t].step = "asking"
    /\ asked => led.runner # 0
    /\ leaving' = IF asked THEN [owes |-> led.runner, down |-> led.runner] ELSE leaving
    /\ IF asked /\ answered THEN Step(t, "clearing") /\ Fine
       ELSE Step(t, "open") /\ IF led.runner # 0 THEN Fault ELSE Fine
    /\ UNCHANGED <<led, did, moved, ops>>

Cleared(t) ==
    /\ panel[t].step = "clearing"
    /\ IF led.runner = 0 THEN Step(t, "hinting") ELSE Done(t)
    /\ UNCHANGED <<led, leaving, did, moved, ops, faults>>

\* The steer is watched on the ledger, and it may lose its race or never be run.
Landed(t) ==
    /\ panel[t].step = "hinting" /\ Done(t)
    /\ UNCHANGED <<led, leaving, did, moved, ops, faults>>

-----------------------------------------------------------------------------
(* The boxes                                                                 *)

Box(r) ==
    /\ led' = r /\ moved' = [t \in Tabs |-> IF panel[t].step = "closed" THEN moved[t] ELSE moved[t] \cup {"bal"}]
    /\ UNCHANGED <<panel, did, ops>>

Claim(b) ==
    /\ led.runner = 0 /\ led.active /\ led.bal > 0 /\ b # leaving.down
    /\ Box([led EXCEPT !.runner = b, !.bal = @ - 1]) /\ Fine
    /\ leaving' = [leaving EXCEPT !.owes = 0]

\* The release of a box that was asked to leave, or that finds its record stopped.
Release ==
    /\ led.runner # 0 /\ (leaving.owes = led.runner \/ ~led.active)
    /\ Box([led EXCEPT !.runner = 0, !.bal = @ + 1]) /\ Fine
    /\ leaving' = [leaving EXCEPT !.owes = 0]

\* The lease runs out: its second was earned.
Lapse ==
    /\ led.runner # 0 /\ Box([led EXCEPT !.runner = 0]) /\ Fault
    /\ leaving' = [leaving EXCEPT !.owes = 0]

StandDownEnds ==
    /\ leaving.down # 0 /\ leaving' = [leaving EXCEPT !.down = 0]
    /\ UNCHANGED <<led, panel, did, moved, ops, faults>>

Next ==
    \/ Release \/ Lapse \/ StandDownEnds \/ \E b \in Boxes : Claim(b)
    \/ \E t \in Tabs : \/ \E k \in Kinds : Open(t, k)
                       \/ Close(t) \/ Confirm(t) \/ Refused(t) \/ Cleared(t) \/ Landed(t)
                       \/ \E ok \in BOOLEAN : Land(t, ok) \/ \E asked \in BOOLEAN : Evacuate(t, asked, ok)

Spec == Init /\ [][Next]_vars

-----------------------------------------------------------------------------
\* What the owner confirmed is what the ledger gets: a panel's write leaves the other
\* namespaces as they are and a version never lands in too small a share, unless the
\* record was rewritten under the open panel; the refund is the one quoted unless a
\* lease moved money; and a move lets go of its box only in shares its version runs
\* in (_cfgSubmit, _upgrade, _refund, _doMove).
AsConfirmed ==
    \A t \in Tabs :
        LET op == panel[t].op
            fits(r) == moved[t] \cap {"ver", "size"} = {} => r.size >= Mins[r.ver]
        IN  /\ did'[t] = did[t] + 1 =>
                  /\ op.name = "config" /\ "env" \notin moved[t] =>
                        \A n \in Spaces : led'.env[n] # led.env[n] <=> n = panel[t].kind
                  /\ op.name = "retune" => fits(led')
                  /\ op.name = "refund" /\ panel[t].kind = "refund" /\ "bal" \notin moved[t] =>
                        led.bal = panel[t].snap.bal
            /\ panel[t].step = "asking" /\ panel'[t].step = "clearing" => fits(led)
===============================================================================
