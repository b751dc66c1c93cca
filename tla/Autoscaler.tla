---------------------------- MODULE Autoscaler ----------------------------
(***************************************************************************)
(* The fleet autoscaler (src/scripts/autoscale.mjs).  `plan` reads the     *)
(* ledger, the relay and the controlplane one after the other and proposes *)
(* starts, creations, idle stops and evacuations; a reviewer lets `apply`  *)
(* run the plan later, one apply at a time, while boxes boot and fail,     *)
(* records queue, are claimed and end, and newer plans are made.           *)
(***************************************************************************)
EXTENDS Integers, Sequences, FiniteSets, FiniteSetsExt

CONSTANTS
    Base,        \* boxes of the baseline fleet, gpu ones, always up
    Autos,       \* auto-managed boxes of the cpu flavor, in the order of their names
    Records,     \* deployments, each of a cpu share of one
    Structural,  \* those no box will ever take
    Short,       \* those with less than half an hour left
    Untrusted,   \* boxes whose operator the relay does not list
    MaxAuto, Unmet,   \* cap of running auto boxes, unmet share that justifies one
    AllowCreate,      \* BOOLEAN, AUTOSCALE_ALLOW_CREATE
    MaxPlans, MaxFaults

VARIABLES
    box,     \* status of each auto box, and whether the relay lists it
    rec,     \* [st, at]: none, young, due, hosted at a box, over
    clock,   \* [idle, cooling]: boxes without work for long, the flavor's last action
    snap,    \* the plan being made: [step, due, listed, free, ok]
    plans,   \* plans made and not applied
    job,     \* the apply under way
    budget

vars == <<box, rec, clock, snap, plans, job, budget>>

Boxes == Base \union Autos
Hosted(b) == {r \in Records : rec[r].st = "hosted" /\ rec[r].at = b}
Up(b) == IF b \in Base THEN TRUE ELSE box[b].st = "ready"
IsRunning(st) == st \notin {"none", "stopped", "failed"}
Statuses == [b \in Autos |-> box[b].st]

NoSnap == [step |-> "idle", due |-> {}, listed |-> {}, free |-> {}, ok |-> FALSE]
NoJob  == [step |-> "none", acts |-> <<>>, list |-> <<>>, seen |-> <<>>, failed |-> FALSE, late |-> {}]

Init ==
    /\ box \in [Autos -> {[st |-> "stopped", listed |-> FALSE]}
                          \union IF AllowCreate THEN {[st |-> "none", listed |-> FALSE]} ELSE {}]
    /\ rec = [r \in Records |-> [st |-> "none", at |-> 0]]
    /\ clock = [idle |-> {}, cooling |-> FALSE]
    /\ snap = NoSnap /\ plans = <<>> /\ job = NoJob
    /\ budget = [plans |-> MaxPlans, faults |-> MaxFaults]

Fault == budget.faults > 0 /\ budget' = [budget EXCEPT !.faults = @ - 1]
Call(ok) == ok \/ budget.faults > 0
Spend(ok) == budget' = [budget EXCEPT !.faults = @ - IF ok THEN 0 ELSE 1]

-----------------------------------------------------------------------------
(* The market, the controlplane and the clock                                *)

\* A record is funded, waits out the claim path, is claimed, and ends.
Queues(r) == rec[r].st = "none" /\ rec' = [rec EXCEPT ![r].st = "young"]
             /\ UNCHANGED <<box, clock, snap, plans, job, budget>>
Dwells(r) == rec[r].st = "young" /\ rec' = [rec EXCEPT ![r].st = "due"]
             /\ UNCHANGED <<box, clock, snap, plans, job, budget>>
Claim(r, b) ==
    /\ rec[r].st \in {"young", "due"} /\ r \notin Structural /\ Up(b) /\ Hosted(b) = {}
    /\ rec' = [rec EXCEPT ![r] = [st |-> "hosted", at |-> b]]
    /\ clock' = [clock EXCEPT !.idle = @ \ {b}]
    /\ job' = [job EXCEPT !.late = IF job.step = "stopping" THEN @ \union {r} ELSE @]
    /\ UNCHANGED <<box, snap, plans, budget>>
Ends(r) == rec[r].st = "hosted" /\ rec' = [rec EXCEPT ![r] = [st |-> "over", at |-> 0]]
           /\ UNCHANGED <<box, clock, snap, plans, job, budget>>

\* A box boots or fails to; the relay lists it, unless it does not trust its operator.
Boots(b) ==
    /\ box[b].st = "starting"
    /\ \/ box' = [box EXCEPT ![b].st = "ready"] /\ UNCHANGED budget
       \/ box' = [box EXCEPT ![b].st = "failed"] /\ Fault
    /\ UNCHANGED <<rec, clock, snap, plans, job>>
Lists(b) == box[b].st = "ready" /\ b \notin Untrusted /\ box' = [box EXCEPT ![b].listed = TRUE]
            /\ UNCHANGED <<rec, clock, snap, plans, job, budget>>

Passes ==
    /\ \/ \E b \in Autos : /\ box[b].st = "ready" /\ Hosted(b) = {}
                           /\ clock' = [clock EXCEPT !.idle = @ \union {b}]
       \/ clock' = [clock EXCEPT !.cooling = FALSE]
    /\ UNCHANGED <<box, rec, snap, plans, job, budget>>

-----------------------------------------------------------------------------
(* plan                                                                      *)

\* toCandidate: funded, unleased and past the dwell.
ReadLedger ==
    /\ snap.step = "idle" /\ budget.plans > 0 /\ Len(plans) < 2
    /\ snap' = [NoSnap EXCEPT !.step = "relay", !.due = {r \in Records : rec[r].st = "due"}]
    /\ budget' = [budget EXCEPT !.plans = @ - 1]
    /\ UNCHANGED <<box, rec, clock, plans, job>>

\* The relay's list with the shares free; when it fails the fleet is unknown.  Hints
\* take the structural and the meanwhile claimed ones out of the candidates.
ReadRelay(ok) ==
    /\ snap.step = "relay" /\ Call(ok) /\ Spend(ok)
    /\ LET seen == IF ok THEN Base \union {b \in Autos : Up(b) /\ box[b].listed} ELSE {}
       IN  snap' = [snap EXCEPT !.step = "containers", !.ok = ok, !.listed = seen,
                       !.free = {b \in seen : Hosted(b) = {}},
                       !.due = IF ok THEN {r \in @ : r \notin Structural /\ rec[r].st # "hosted"} ELSE @]
    /\ UNCHANGED <<box, rec, clock, plans, job>>

Demand == IF snap.free = {} THEN snap.due ELSE {}
Running == {b \in Autos : IsRunning(box[b].st)}
WantUp == snap.ok /\ Cardinality(Demand) >= Unmet

\* Mutant: the cap lets one more box through.
AtCapLate == Cardinality(Running) > MaxAuto
AtCap == Cardinality(Running) >= MaxAuto

\* Scale up: the first stopped standby, else a new box where that is allowed.
Ups ==
    IF ~WantUp \/ clock.cooling \/ AtCap THEN {}
    ELSE LET stopped == {b \in Autos : box[b].st = "stopped"}
             absent  == {b \in Autos : box[b].st = "none"}
         IN  CASE stopped # {} -> {[type |-> "start", at |-> Min(stopped)]}
               [] stopped = {} /\ AllowCreate /\ absent # {} -> {[type |-> "create", at |-> Min(absent)]}
               [] OTHER -> {}

\* Scale down: boxes that answered, have no deployments and were long idle.
Quiet == snap.ok /\ Demand = {} /\ ~clock.cooling
Downs(answer) ==
    IF Quiet THEN {[type |-> "stop", at |-> b] : b \in {x \in Running \intersect answer : Hosted(x) = {} /\ x \in clock.idle}}
    ELSE {}

\* Consolidation: one box whose tenants all fit on one other; it carries no image tag.
Movable == {b \in Running : /\ Hosted(b) # {} /\ Hosted(b) \intersect Short = {}
                            /\ snap.free \ {b} # {}}
Evacuations(answer) ==
    IF Quiet /\ Downs(answer) = {} /\ Movable # {} THEN {[type |-> "evacuate", at |-> Min(Movable)]} ELSE {}

\* plan(): whatever is no stop and has no tag is dropped, which is every evacuation;
\* a tag derived from the gpu fleet must exist.
Kept(acts, tagged) == {a \in acts : a.type = "stop" \/ (a.type \in {"start", "create"} /\ tagged)}
Ordered(acts) == IF acts = {} THEN <<>>
                 ELSE LET ids == {a.at : a \in acts}
                      IN  [i \in 1 .. Cardinality(acts) |->
                             CHOOSE a \in acts : Cardinality({x \in ids : x < a.at}) = i - 1]

Decide(answer, tagged) ==
    /\ snap.step = "containers" /\ Call(answer = Running /\ tagged) /\ Spend(answer = Running /\ tagged)
    /\ LET acts == Kept(Ups \union Downs(answer) \union Evacuations(answer), tagged)
       IN  plans' = IF acts = {} THEN plans ELSE Append(plans, [acts |-> Ordered(acts), seen |-> Statuses])
    /\ snap' = NoSnap
    /\ UNCHANGED <<box, rec, clock, job>>

-----------------------------------------------------------------------------
(* apply                                                                     *)

\* A reviewed plan, or one written by hand to evacuate a box, starts: the containers
\* are listed once, for all its actions.
Take(i) ==
    /\ job.step = "none"
    /\ job' = [NoJob EXCEPT !.step = "next", !.acts = plans[i].acts, !.list = Statuses, !.seen = plans[i].seen]
    /\ plans' = SubSeq(plans, 1, i - 1) \o SubSeq(plans, i + 1, Len(plans))
    /\ UNCHANGED <<box, rec, clock, snap, budget>>
TakeHandWritten(b) ==
    /\ job.step = "none" /\ Fault
    /\ job' = [NoJob EXCEPT !.step = "next", !.acts = <<[type |-> "evacuate", at |-> b]>>,
                            !.list = Statuses, !.seen = Statuses]
    /\ UNCHANGED <<box, rec, clock, snap, plans>>

Act == Head(job.acts)
Doing(type) == job.step = "next" /\ job.acts # <<>> /\ Act.type = type
Done(failed) == [job EXCEPT !.step = "next", !.acts = Tail(@), !.failed = @ \/ failed]
Skip == job' = Done(FALSE) /\ UNCHANGED <<box, rec, clock, snap, plans, budget>>

\* Mutant: the plan's word is taken for it that the box is idle.
IdleAsPlanned(b) == TRUE
\* The last-second check: the box answers that it serves nobody.
StillIdle(b) == box[b].st = "ready" /\ Hosted(b) = {}

AskIdle ==
    /\ Doing("stop")
    /\ IF ~IsRunning(job.list[Act.at]) \/ ~StillIdle(Act.at) THEN Skip
       ELSE job' = [job EXCEPT !.step = "stopping", !.late = {}] /\ UNCHANGED <<box, rec, clock, snap, plans, budget>>

\* A stopped box loses its tenants: their leases lapse and they queue again.
Halt(b) == /\ box' = [box EXCEPT ![b] = [st |-> "stopped", listed |-> FALSE]]
           /\ rec' = [r \in Records |-> IF r \in Hosted(b) THEN [st |-> "due", at |-> 0] ELSE rec[r]]
           /\ clock' = [clock EXCEPT !.idle = @ \ {b}]
StopIdle ==
    /\ job.step = "stopping"
    /\ Halt(Act.at) /\ job' = Done(FALSE) /\ UNCHANGED <<snap, plans, budget>>

\* start, create: as the list said, which no other apply outdates.
Startable(b) == CASE Act.type = "start" -> job.list[b] \in {"stopped", "failed"}
                  [] Act.type = "create" -> AllowCreate /\ job.list[b] = "none"
Start ==
    /\ Doing("start") \/ Doing("create")
    /\ IF ~Startable(Act.at) THEN Skip
       ELSE /\ box' = [box EXCEPT ![Act.at].st = "starting"]
            /\ clock' = [clock EXCEPT !.cooling = @ \/ Act.type = "create"]
            /\ job' = [job EXCEPT !.step = "boot"]
            /\ UNCHANGED <<rec, snap, plans, budget>>

\* waitServing: up, or failed, or not up in time, when the box is left as it is.
WaitServing(late) ==
    /\ job.step = "boot" /\ (late => budget.faults > 0) /\ Spend(~late)
    /\ CASE late -> job' = Done(TRUE)
         [] ~late /\ box[Act.at].st = "ready" -> job' = [job EXCEPT !.step = "trust"]
         [] ~late /\ box[Act.at].st \in {"failed", "stopped"} -> job' = Done(TRUE)
         [] OTHER -> FALSE
    /\ UNCHANGED <<box, rec, clock, snap, plans>>

\* waitRelayTrust: listed in time, or rolled back to stopped.
WaitRelayTrust ==
    /\ job.step = "trust"
    /\ \/ box[Act.at].listed /\ job' = Done(FALSE) /\ UNCHANGED <<box, rec, clock>>
       \/ ~box[Act.at].listed /\ Halt(Act.at) /\ job' = Done(TRUE)
    /\ UNCHANGED <<snap, plans, budget>>

\* Every tenant of the plan is let go, to queue for whoever sweeps first.
Evacuate ==
    /\ Doing("evacuate")
    /\ IF ~IsRunning(job.list[Act.at]) THEN Skip
       ELSE /\ rec' = [r \in Records |-> IF r \in Hosted(Act.at) THEN [st |-> "due", at |-> 0] ELSE rec[r]]
            /\ job' = Done(FALSE) /\ UNCHANGED <<box, clock, snap, plans, budget>>

\* The flavor's clock is stamped when an action did not fail, the skipped ones included;
\* a job that runs out of its minutes ends where it stands.
Finish == /\ job.step = "next" /\ job.acts = <<>>
          /\ clock' = [clock EXCEPT !.cooling = @ \/ ~job.failed]
          /\ job' = NoJob /\ UNCHANGED <<box, rec, snap, plans, budget>>
Killed == job.step # "none" /\ Fault /\ job' = NoJob /\ UNCHANGED <<box, rec, clock, snap, plans>>

Next ==
    \/ \E r \in Records : Queues(r) \/ Dwells(r) \/ Ends(r) \/ \E b \in Boxes : Claim(r, b)
    \/ \E b \in Autos : Boots(b) \/ Lists(b) \/ TakeHandWritten(b)
    \/ Passes \/ ReadLedger \/ (\E ok \in BOOLEAN : ReadRelay(ok))
    \/ \E answer \in SUBSET Running, tagged \in BOOLEAN : Decide(answer, tagged)
    \/ (\E i \in DOMAIN plans : Take(i)) \/ AskIdle \/ StopIdle \/ Start
    \/ (\E late \in BOOLEAN : WaitServing(late)) \/ WaitRelayTrust \/ Evacuate \/ Finish \/ Killed

Spec == Init /\ [][Next]_vars

-----------------------------------------------------------------------------
(* What a reviewer is told                                                   *)

Started == {b \in Autos : box[b].st # "starting" /\ box'[b].st = "starting"}
Stopped == {b \in Autos : box[b].st # "stopped" /\ box'[b].st = "stopped"}

\* An approved plan does what it was approved for, however late: an idle stop takes no
\* tenant that was there when the box was asked, and a start whose plan saw the boxes as
\* they are now leaves no more of them running than the cap.
AsReviewed ==
    /\ (job.step = "stopping" /\ Stopped # {}) => \A b \in Stopped : Hosted(b) \subseteq job.late
    /\ (Started # {} /\ job.seen = Statuses)
          => Cardinality({b \in Autos : IsRunning(box'[b].st)}) <= MaxAuto
=============================================================================
