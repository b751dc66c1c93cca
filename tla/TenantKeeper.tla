------------------------------ MODULE TenantKeeper ------------------------------
(***************************************************************************)
(* The tenants of one box (src/supervisor.js): a record and a slice of the *)
(* capacity pool on one side, the runtime manager's instances on the       *)
(* other, and the sweeps that make the second follow the first.  Handlers  *)
(* await the manager between their steps, so any two of them interleave.   *)
(***************************************************************************)
EXTENDS Integers, FiniteSets, Functions

CONSTANTS
    Ids,        \* deployments
    Capacity,   \* units of the pool; a deployment buys 1 or 2
    Ttl,        \* WASM_TENANT_LEASE_TTL_SEC, in ticks
    Silence,    \* WASM_TENANT_LEASE_SILENCE_SEC
    MaxVm,      \* bound: instances ever created
    MaxTasks,   \* bound: handlers awaiting the manager at once
    MaxFaults   \* bound: lost requests, lost answers, deaths and restarts

VARIABLES
    rec,        \* the record: [st, slice, vm, ended]; ended: once torn down
    free,       \* cpuPool / gpuCards, in units
    want,       \* the shares the ledger says the owner bought
    tasks,      \* handlers in flight, each holding a record object
    inst,       \* the manager's instances: [name, vm, left]
    beat,       \* ticks since the manager last heard vouchTenants
    sweep,      \* the reconciler: its stage and the listing or plan it holds
    doomed,     \* the manager's own list of lapsed instances, while it tears down
    other,      \* the slice of a neighbour that comes and goes, 0 or 1
    limits      \* [vms, faults]: what is left of the bounds

vars == <<rec, free, want, tasks, inst, beat, sweep, other, doomed, limits>>

NoSweep == [at |-> "idle", vms |-> {}]
NoRec == [st |-> "none", slice |-> 0, vm |-> 0, ended |-> FALSE]
Live(id) == rec[id].st \in {"claimed", "running"}
NeverHeard == Silence + 1

Init ==
    /\ rec = [id \in Ids |-> NoRec]
    /\ free = Capacity
    /\ want = [id \in Ids |-> 1]
    /\ tasks = {}
    /\ inst = {}
    /\ beat = NeverHeard
    /\ sweep = NoSweep
    /\ doomed = {}
    /\ other = 0
    /\ limits = [vms |-> MaxVm, faults |-> MaxFaults]

Fault == limits.faults > 0 /\ limits' = [limits EXCEPT !.faults = @ - 1]

\* A task works on a record object; "cur" says it is still the one in the map.
Task(id, what, vm) == [id |-> id, cur |-> TRUE, what |-> what, vm |-> vm, at |-> "ask"]
Mine(t) == tasks \ {t}
Room == Cardinality(tasks) < MaxTasks

\* provisionTenant: a second launch of the same record joins the first.
WithLaunch(id, ts) ==
    IF \E t \in ts : t.id = id /\ t.cur /\ t.what = "launch"
      THEN ts ELSE ts \union {Task(id, "launch", 0)}

Released(r) == [r EXCEPT !.slice = 0]
\* Mutant: a teardown that returns the slice and keeps the handle.
OverHolding(r) == [r EXCEPT !.st = "over", !.ended = TRUE]

Over(r) == [Released(r) EXCEPT !.st = "over", !.vm = 0, !.ended = TRUE]

Back(n) == IF free + n > Capacity THEN Capacity ELSE free + n

-----------------------------------------------------------------------------
(* Adoption and launches                                                     *)

\* adopt: a leftover's slice goes back first, then a new object takes its place.
Adopt(id) ==
    /\ ~Live(id) /\ Room
    /\ LET room == Back(rec[id].slice)
       IN  IF room >= want[id]
             THEN /\ rec' = [rec EXCEPT ![id] = [NoRec EXCEPT !.st = "claimed",
                                                         !.slice = want[id]]]
                  /\ free' = room - want[id]
                  /\ tasks' = {[t EXCEPT !.cur = @ /\ t.id # id] : t \in tasks}
                                \union {Task(id, "launch", 0)}
             ELSE /\ rec[id].st # "none"
                  /\ rec' = [rec EXCEPT ![id] = NoRec]
                  /\ free' = room
                  /\ tasks' = {[t EXCEPT !.cur = @ /\ t.id # id] : t \in tasks}
    /\ UNCHANGED <<want, inst, beat, sweep, other, doomed, limits>>

NewVm == MaxVm - limits.vms + 1

\* POST /vms: the manager reaps every live instance of that name, then admits.
Spawn(t) ==
    /\ t.at = "ask" /\ t.what \in {"launch", "respawn"}
    /\ LET others == {i \in inst : i.name # t.id}
       IN  \/ /\ limits.vms > 0
              /\ inst' = others \union {[name |-> t.id, vm |-> NewVm, left |-> Ttl]}
              /\ tasks' = Mine(t) \union {[t EXCEPT !.at = "wait", !.vm = NewVm]}
              /\ limits' = [limits EXCEPT !.vms = @ - 1]
           \/ /\ limits.faults > 0
              /\ limits' = [limits EXCEPT !.faults = @ - 1]
              /\ inst' \in {inst, others}           \* unreachable, or 429 / 5xx
              /\ tasks' = Mine(t) \union {[t EXCEPT !.at = "wait", !.vm = 0]}
    /\ UNCHANGED <<rec, free, want, beat, sweep, other, doomed>>

\* performTenantProvision: the answer decides what the record says, whatever
\* became of the record meanwhile.
Provisioned(t, ok) ==
    /\ t.what = "launch" /\ t.at = "wait"
    /\ IF ok THEN t.vm # 0 /\ limits' = limits
             ELSE IF t.vm = 0 THEN limits' = limits ELSE Fault       \* the answer is lost
    /\ tasks' = Mine(t)
    /\ IF ~t.cur THEN UNCHANGED <<rec, free>>
       ELSE IF ok
         THEN /\ rec' = [rec EXCEPT ![t.id].st = "running", ![t.id].vm = t.vm]
              /\ free' = free
         ELSE /\ rec' = [rec EXCEPT ![t.id] = Over(@)]
              /\ free' = Back(rec[t.id].slice)
    /\ UNCHANGED <<want, inst, beat, sweep, other, doomed>>

\* respawnTenant: relaunches an instance that vanished, or that the manager did
\* not answer for, beside whatever else runs.
Respawn(id) ==
    /\ rec[id].st = "running" /\ Room
    /\ IF \E i \in inst : i.vm = rec[id].vm THEN Fault ELSE limits' = limits
    /\ ~\E t \in tasks : t.id = id /\ t.cur /\ t.what = "respawn"
    /\ tasks' = tasks \union {Task(id, "respawn", 0)}
    /\ UNCHANGED <<rec, free, want, inst, beat, sweep, other, doomed>>

Respawned(t) ==
    /\ t.what = "respawn" /\ t.at = "wait"
    /\ tasks' = Mine(t)
    /\ rec' = IF t.cur /\ t.vm # 0 THEN [rec EXCEPT ![t.id].vm = t.vm] ELSE rec
    /\ UNCHANGED <<free, want, inst, beat, sweep, other, doomed, limits>>

-----------------------------------------------------------------------------
(* Teardowns and in-place changes: each awaits stopContainer first           *)

StopsWith(id, what) ==
    /\ Room
    /\ ~\E t \in tasks : t.id = id /\ t.what = what
    /\ tasks' = tasks \union {[Task(id, what, rec[id].vm) EXCEPT !.at = "wait"]}
    /\ UNCHANGED <<rec, free, want, inst, beat, sweep, other, doomed, limits>>

\* Owner delete, operator release, retired ledger, yanked version, the reaper
\* and the audit's owner-stop all stop, release the slice and turn terminal.
DeleteDeployment(id) == Live(id) /\ StopsWith(id, "delete")
ReapLease(id) == rec[id].st = "running" /\ StopsWith(id, "reap")
SwitchVersion(id) == rec[id].st = "running" /\ StopsWith(id, "switch")
RestartTenant(id) == rec[id].st = "running" /\ StopsWith(id, "restart")
ApplyEnvelope(id) == rec[id].st = "running" /\ StopsWith(id, "envelope")

\* The audit found the instance dead and starts it anew.
RelaunchDead(id) ==
    /\ rec[id].st = "running"
    /\ ~\E i \in inst : i.vm = rec[id].vm
    /\ rec' = [rec EXCEPT ![id].st = "claimed"]
    /\ tasks' = WithLaunch(id, tasks)
    /\ Cardinality(tasks') <= MaxTasks
    /\ UNCHANGED <<free, want, inst, beat, sweep, other, doomed, limits>>

\* The fourth death: the record fails and the slice goes back.
GiveUpOnDead(id) ==
    /\ rec[id].st = "running"
    /\ ~\E i \in inst : i.vm = rec[id].vm
    /\ Fault
    /\ rec' = [rec EXCEPT ![id] = Over(@)]
    /\ free' = Back(rec[id].slice)
    /\ UNCHANGED <<want, tasks, inst, beat, sweep, other, doomed>>

\* A stop is confirmed (200, 404, nothing provisioned) or it is not.
Stopping(t, confirmed) ==
    /\ t.at = "wait" /\ t.what \in {"delete", "reap", "switch", "restart", "envelope"}
    /\ inst' \in {inst, {i \in inst : i.vm # t.vm}}
    /\ IF confirmed
         THEN inst' = {i \in inst : i.vm # t.vm} /\ limits' = limits
         ELSE t.vm # 0 /\ Fault

StopEnds(t, confirmed) ==
    /\ t.what \in {"delete", "reap"}
    /\ Stopping(t, confirmed)
    /\ tasks' = Mine(t)
    /\ IF t.cur
         THEN /\ rec' = [rec EXCEPT ![t.id] = Over(@)]
              /\ free' = Back(rec[t.id].slice)
         ELSE UNCHANGED <<rec, free>>
    /\ UNCHANGED <<want, beat, sweep, other, doomed>>

\* Restart and envelope edits go on whatever the stop said.
ChangeEnds(t, confirmed) ==
    /\ t.what \in {"restart", "envelope"}
    /\ Stopping(t, confirmed)
    /\ tasks' = IF t.cur THEN WithLaunch(t.id, Mine(t))
                ELSE Mine(t) \union {[Task(t.id, "launch", 0) EXCEPT !.cur = FALSE]}
    /\ rec' = IF t.cur THEN [rec EXCEPT ![t.id].st = "claimed"] ELSE rec
    /\ UNCHANGED <<free, want, beat, sweep, other, doomed>>

\* switchTenantVersion: an unconfirmed stop defers; a confirmed one swaps the
\* slice in one synchronous step, or evicts.
SwitchEnds(t, confirmed) ==
    /\ t.what = "switch"
    /\ Stopping(t, confirmed)
    /\ LET held == IF t.cur THEN rec[t.id].slice ELSE 0
           room == Back(held)
           size == want[t.id]
       IN  IF ~confirmed THEN tasks' = Mine(t) /\ UNCHANGED <<rec, free>>
           ELSE IF room < size
             THEN /\ tasks' = Mine(t)
                  /\ rec' = IF t.cur THEN [rec EXCEPT ![t.id] = Over(@)] ELSE rec
                  /\ free' = room
             ELSE /\ tasks' = IF t.cur THEN WithLaunch(t.id, Mine(t))
                              ELSE Mine(t) \union {[Task(t.id, "launch", 0) EXCEPT !.cur = FALSE]}
                  /\ rec' = IF t.cur THEN [rec EXCEPT ![t.id] = [@ EXCEPT !.st = "claimed", !.slice = size]]
                                     ELSE rec
                  /\ free' = room - size
    /\ UNCHANGED <<want, beat, sweep, other, doomed>>

Resize(id) ==
    /\ want' = [want EXCEPT ![id] = 3 - @]
    /\ UNCHANGED <<rec, free, tasks, inst, beat, sweep, other, doomed, limits>>

-----------------------------------------------------------------------------
(* The sweeps                                                                *)

HeldBy(S) == SumFunction([id \in S |-> rec[id].slice])
Held(S) == other + HeldBy(S)

\* A neighbour's adoption and teardown, each one synchronous step.
Neighbour ==
    /\ \/ other = 0 /\ free >= 1 /\ other' = 1 /\ free' = free - 1
       \/ other = 1 /\ other' = 0 /\ free' = Back(1)
    /\ UNCHANGED <<rec, want, tasks, inst, beat, sweep, doomed, limits>>

\* reconcilePools: terminal records hold nothing, the pool is rebuilt.
ReconcilePools ==
    /\ rec' = [id \in Ids |-> IF Live(id) THEN rec[id] ELSE Released(rec[id])]
    /\ free' = LET n == Capacity - Held({id \in Ids : Live(id)})
               IN  IF n < 0 THEN 0 ELSE n
    /\ <<rec', free'>> # <<rec, free>>
    /\ UNCHANGED <<want, tasks, inst, beat, sweep, other, doomed, limits>>

\* vouchTenants, first thing of every pass; a lost heartbeat changes nothing.
Vouch ==
    /\ sweep.at = "idle"
    /\ \/ /\ inst' = {[i EXCEPT !.left = IF Live(i.name) THEN Ttl ELSE @] : i \in inst}
          /\ beat' = 0
          /\ limits' = limits
       \/ /\ Fault
          /\ UNCHANGED <<inst, beat>>
    /\ sweep' = [at |-> "list", vms |-> {}]
    /\ UNCHANGED <<rec, free, want, tasks, other, doomed>>

\* The manager answers the listing ...
ListInstances ==
    /\ sweep.at = "list"
    /\ \/ sweep' = [at |-> "listed", vms |-> {<<i.name, i.vm>> : i \in inst}] /\ limits' = limits
       \/ sweep' = NoSweep /\ Fault                 \* no answer is not an empty fleet
    /\ UNCHANGED <<rec, free, want, tasks, inst, beat, other, doomed>>

\* Mutant: an instance counts as owned only once its record runs.
PlanUnserved ==
    /\ sweep.at = "listed"
    /\ LET plan == {p \in sweep.vms : rec[p[1]].st # "running"}
       IN  sweep' = IF plan = {} THEN NoSweep ELSE [at |-> "reap", vms |-> plan]
    /\ UNCHANGED <<rec, free, want, tasks, inst, beat, other, doomed, limits>>

\* ... and the plan is made against the records of that moment.
PlanOrphans ==
    /\ sweep.at = "listed"
    /\ LET plan == {p \in sweep.vms : ~Live(p[1])}
       IN  sweep' = IF plan = {} THEN NoSweep ELSE [at |-> "reap", vms |-> plan]
    /\ UNCHANGED <<rec, free, want, tasks, inst, beat, other, doomed, limits>>

ReapOrphan ==
    /\ sweep.at = "reap"
    /\ \E p \in sweep.vms :
        /\ sweep' = IF sweep.vms = {p} THEN NoSweep ELSE [sweep EXCEPT !.vms = @ \ {p}]
        /\ \/ inst' = {i \in inst : i.vm # p[2]} /\ limits' = limits
           \/ inst' = inst /\ Fault
    /\ UNCHANGED <<rec, free, want, tasks, beat, other, doomed>>

\* The manager's dead-man lease: only while it hears from the box does a lapse
\* mean that nobody owns the instance ...
LeaseCheck ==
    /\ beat <= Silence /\ doomed = {}
    /\ doomed' = {i.vm : i \in {x \in inst : x.left = 0}}
    /\ doomed' # {}
    /\ UNCHANGED <<rec, free, want, tasks, inst, beat, sweep, other, limits>>

\* ... and each of them is torn down in its turn, without looking again.
LeaseTeardown ==
    /\ \E v \in doomed :
        /\ doomed' = doomed \ {v}
        /\ inst' = {i \in inst : i.vm # v}
    /\ UNCHANGED <<rec, free, want, tasks, beat, sweep, other, limits>>

Tick ==
    /\ inst # {}
    /\ inst' = {[i EXCEPT !.left = IF @ > 0 THEN @ - 1 ELSE 0] : i \in inst}
    /\ beat' = IF beat > Silence THEN beat ELSE beat + 1
    /\ UNCHANGED <<rec, free, want, tasks, sweep, other, doomed, limits>>

\* The manager loses an instance.
Dies ==
    /\ Fault
    /\ \E i \in inst : inst' = inst \ {i}
    /\ UNCHANGED <<rec, free, want, tasks, beat, sweep, other, doomed>>

\* The supervisor restarts: mid-provision records expire and hold nothing.
Reboot ==
    /\ Fault
    /\ rec' = [id \in Ids |-> IF rec[id].st = "claimed" THEN Over(rec[id]) ELSE rec[id]]
    /\ free' = LET n == Capacity - Held({id \in Ids : rec[id].st = "running"})
               IN  IF n < 0 THEN 0 ELSE n
    /\ tasks' = {}
    /\ sweep' = NoSweep
    /\ UNCHANGED <<want, inst, beat, other, doomed>>

-----------------------------------------------------------------------------
Handlers(id) ==
    \/ Adopt(id) \/ Respawn(id) \/ RelaunchDead(id) \/ GiveUpOnDead(id)
    \/ DeleteDeployment(id) \/ ReapLease(id) \/ SwitchVersion(id)
    \/ RestartTenant(id) \/ ApplyEnvelope(id) \/ Resize(id)

Answers(t) ==
    \/ Spawn(t) \/ Respawned(t)
    \/ \E ok \in BOOLEAN : \/ Provisioned(t, ok) \/ StopEnds(t, ok)
                           \/ ChangeEnds(t, ok) \/ SwitchEnds(t, ok)

Next ==
    \/ \E id \in Ids : Handlers(id)
    \/ \E t \in tasks : Answers(t)
    \/ Neighbour \/ ReconcilePools \/ Vouch \/ ListInstances \/ PlanOrphans \/ ReapOrphan
    \/ LeaseCheck \/ LeaseTeardown \/ Tick \/ Dies \/ Reboot

Spec == Init /\ [][Next]_vars

\* The pool is never sold twice: what live records hold and what is still
\* offered fit into the capacity, through teardowns that race launches,
\* resizes and restarts (allocCpu, releaseGpu, adopt, switchTenantVersion,
\* loadState, reconcilePools).
NeverOversold == free >= 0 /\ free + Held(Ids) <= Capacity

Backed(id) ==
    /\ Live(id) /\ ~rec[id].ended
    /\ \/ rec[id].st = "running" /\ \E i \in inst : i.vm = rec[id].vm
       \/ \E t \in tasks : /\ t.id = id /\ t.cur /\ t.what = "launch"
                           /\ \E i \in inst : i.vm = t.vm

\* No sweep kills paid work: neither the reconciler's plan, made from an older
\* listing, nor the manager's list of lapsed leases, made before its teardowns,
\* removes an instance that a live record serves or is just launching
\* (orphanInstancePlan, reconcileInstances, vouchTenants, _lease_reap). Except
\* for a record that was torn down and that a handler still holding it brings
\* back to life: performTenantProvision and switchTenantVersion set its status
\* without looking at it again, and the plan of its dead moment is carried out.
SweepsSpare ==
    (ReapOrphan \/ LeaseTeardown) => \A id \in Ids : Backed(id) => Backed(id)'
=============================================================================
