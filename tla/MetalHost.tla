------------------------------- MODULE MetalHost -------------------------------
(***************************************************************************)
(* The host side of a self-hosted box (src/metal): the updater that builds *)
(* a published release beside the live image, swaps it in and rolls it     *)
(* back unless the box comes back healthy; the builder of model volumes;   *)
(* the launcher that binds the volume table into the guest it starts; and  *)
(* the guest's refusal to mount anything else.  Releases, and the root     *)
(* hashes of volume trees, are numbers; 0 is an absent directory or file.  *)
(***************************************************************************)
EXTENDS Integers

CONSTANTS
    Tags,         \* releases, in order; the first is live
    Roots,        \* contents a volume may be built from
    Patience,     \* autoUpdate.maxDeferSec, in timer runs
    Idle,         \* autoUpdate.onlyWhenIdle
    Attested,     \* mode is snp
    MaxFaults     \* bound: kills, failed builds and lookups, deaths

VARIABLES
    released,     \* the newest published release
    sick,         \* releases whose guest never reports healthy
    dist, prev, staging,   \* the image directories; staging from the build's start
    updater,      \* where update.mjs is
    since,        \* age of deferredSince, -1 for none
    halted,       \* the marker
    ghost,        \* [proven, failed: images that passed, missed the gate; deaf: those
                  \* swapped in without a restart; torn: killed between two steps]
    image, json,  \* of the volume: the file's content, the root in volume.json
    building,     \* volumes.mjs is between the two
    launcher,     \* [up, table: the volume table it read at its start]
    guest,        \* [img, table, disk, booted, mounted, bound]
    faults

upd == <<released, sick, dist, prev, staging, updater, since, halted, ghost>>
vol == <<image, json, building>>
box == <<launcher, guest>>
vars == <<upd, vol, box, faults>>

Off == [img |-> 0, table |-> 0, disk |-> 0, booted |-> FALSE, mounted |-> FALSE, bound |-> FALSE]
Stopped == [up |-> FALSE, table |-> 0]
First == CHOOSE t \in Tags : \A x \in Tags : t <= x
Newest == CHOOSE t \in Tags : \A x \in Tags : t >= x

Init ==
    /\ released = First /\ sick \in SUBSET (Tags \ {First})
    /\ dist = First /\ prev = 0 /\ staging = 0 /\ updater = "idle" /\ since = -1
    /\ halted = FALSE /\ ghost = [proven |-> {First}, failed |-> {}, deaf |-> {}, torn |-> FALSE]
    /\ image \in Roots /\ json = image /\ building = FALSE
    /\ launcher = Stopped /\ guest = Off /\ faults = MaxFaults

Fault == faults > 0 /\ faults' = faults - 1

-----------------------------------------------------------------------------
(* The updater                                                               *)

\* CI cuts a release of this flavor.
Publish ==
    /\ released < Newest /\ released' \in {t \in Tags : t > released}
    /\ UNCHANGED <<sick, dist, prev, staging, updater, since, halted, ghost, vol, box, faults>>

\* Mutant: the marker of a failed update is not read.
VerdictDespiteMarker(latest, running, halt) ==
    IF latest = 0 \/ dist >= latest THEN "skip"
    ELSE IF ~Idle \/ ~running \/ since >= Patience THEN "update" ELSE "defer"
\* updateVerdict.
Verdict(latest, running, halt) ==
    IF halt \/ latest = 0 \/ dist >= latest THEN "skip"
    ELSE IF ~Idle \/ ~running \/ since >= Patience THEN "update" ELSE "defer"

\* One run of the timer; latestTag fails as "no release". --force does not wait.
Run(running, lookup, force) ==
    /\ updater = "idle"
    /\ LET v == Verdict(IF lookup THEN released ELSE 0, running, halted)
       IN  CASE v = "skip" -> FALSE
             [] v = "defer" /\ ~force -> since' = (IF since < 0 THEN 0 ELSE since + 1)
                                         /\ UNCHANGED <<updater, staging>>
             [] OTHER -> updater' = "build" /\ staging' = released /\ UNCHANGED since
    /\ UNCHANGED <<released, sick, dist, prev, halted, ghost, vol, box, faults>>

\* apply: a throw-away worktree at the tag that was found, built into the staging
\* directory; a build that fails swaps nothing.
Build(ok) ==
    /\ updater = "build"
    /\ ~ok => Fault
    /\ ok => UNCHANGED faults
    /\ staging' = IF ok THEN staging ELSE 0
    /\ updater' = IF ok THEN "swap" ELSE "idle"
    /\ UNCHANGED <<released, sick, dist, prev, since, halted, ghost, vol, box>>

\* The swap, one rename at a time.
MoveAside ==
    /\ updater = "swap" /\ updater' = "swapped"
    /\ prev' = dist /\ dist' = 0
    /\ UNCHANGED <<released, sick, staging, since, halted, ghost, vol, box, faults>>

\* systemctl restart: the launcher reads its configuration and volumes anew. Its
\* exit status is not looked at: what was running may go on running.
Restart(obeyed) ==
    IF obeyed THEN launcher' = Stopped /\ guest' = Off /\ UNCHANGED faults
    ELSE Fault /\ UNCHANGED box

MoveIn(obeyed) ==
    /\ updater = "swapped" /\ updater' = "gate"
    /\ dist' = staging /\ staging' = 0 /\ Restart(obeyed)
    /\ ghost' = [ghost EXCEPT !.deaf = IF obeyed THEN @ ELSE @ \union {staging}]
    /\ UNCHANGED <<released, sick, prev, since, halted, vol>>

\* health: the supervisor of the guest answers and its watcher is fresh.
Healthy == guest.booted /\ guest.img \notin sick

\* waitHealthy within the grace; the deferral is over.
Passed ==
    /\ updater = "gate" /\ Healthy
    /\ updater' = "idle" /\ since' = -1
    /\ ghost' = [ghost EXCEPT !.proven = @ \union {guest.img}]
    /\ UNCHANGED <<released, sick, dist, prev, staging, halted, vol, box, faults>>

\* The grace ran out (a healthy image may be too slow): the image is removed ...
Missed ==
    /\ updater = "gate" /\ updater' = "rollback"
    /\ dist \notin sick => Fault
    /\ dist \in sick => UNCHANGED faults
    /\ dist' = 0 /\ ghost' = [ghost EXCEPT !.failed = @ \union {dist}]
    /\ UNCHANGED <<released, sick, prev, staging, since, halted, vol, box>>

\* ... the previous one put back, and the service restarted. Without one, rename throws.
RollBack(obeyed) ==
    /\ updater = "rollback"
    /\ IF prev = 0 THEN updater' = "idle" /\ UNCHANGED <<dist, prev, box, faults>>
       ELSE updater' = "regate" /\ dist' = prev /\ prev' = 0 /\ Restart(obeyed)
    /\ UNCHANGED <<released, sick, staging, since, halted, ghost, vol>>

\* After the second wait, whatever it saw, the marker.
Halt ==
    /\ updater = "regate" /\ updater' = "idle"
    /\ halted' = TRUE /\ since' = -1
    /\ UNCHANGED <<released, sick, dist, prev, staging, ghost, vol, box, faults>>

\* A human fixes the cause and deletes the marker.
Clear ==
    /\ halted /\ halted' = FALSE
    /\ ghost' = [ghost EXCEPT !.failed = {}]
    /\ UNCHANGED <<released, sick, dist, prev, staging, updater, since, vol, box, faults>>

\* The updater is killed between two of its steps, or the host reboots under it.
Killed ==
    /\ Fault /\ updater # "idle" /\ updater' = "idle"
    /\ ghost' = [ghost EXCEPT !.torn = @ \/ updater # "build"]
    /\ \/ UNCHANGED box
       \/ launcher' = Stopped /\ guest' = Off
    /\ UNCHANGED <<released, sick, dist, prev, staging, since, halted, vol>>

-----------------------------------------------------------------------------
(* Volumes                                                                   *)

\* build --force: the old image goes first, a guest that has it open keeps it.
VolumeBuilt(r) ==
    /\ ~building /\ building' = TRUE /\ image' = r
    /\ UNCHANGED <<upd, json, box, faults>>

\* volume.json last, with the root hash of what was built.
VolumeNamed ==
    /\ building /\ building' = FALSE /\ json' = image
    /\ UNCHANGED <<upd, image, box, faults>>

VolumeTorn ==
    /\ Fault /\ building /\ building' = FALSE
    /\ UNCHANGED <<upd, image, json, box>>

VolumeRemoved ==
    /\ ~building /\ image # 0 /\ image' = 0 /\ json' = 0
    /\ UNCHANGED <<upd, building, box, faults>>

-----------------------------------------------------------------------------
(* The launcher and the guest                                                *)

\* loadVolumes: a volume without a description or an image is left out.
Table == IF image = 0 THEN 0 ELSE json

\* enclave-metal.mjs exits without an image; the service manager starts it again.
Start ==
    /\ ~launcher.up /\ dist # 0
    /\ launcher' = [up |-> TRUE, table |-> Table]
    /\ UNCHANGED <<upd, vol, guest, faults>>

\* baseArgs, launch: QEMU opens the live image and the volumes of the table read at
\* the start, whose digest the hardware will sign; it fails without their files.
Launch ==
    /\ launcher.up /\ guest.img = 0 /\ dist # 0 /\ (launcher.table # 0 => image # 0)
    /\ guest' = [Off EXCEPT !.img = dist, !.table = launcher.table, !.disk = image]
    /\ UNCHANGED <<upd, vol, launcher, faults>>

\* dm-verity: a disk that does not hash to the root of its table fails to mount.
Mounts(table, disk) == table # 0 /\ disk = table
\* gsup: nothing is mounted unless the CPU's HOST_DATA is the digest of the table.
Boot(readable) ==
    /\ guest.img # 0 /\ ~guest.booted
    /\ ~readable => Fault
    /\ readable => UNCHANGED faults
    /\ LET bound == Attested /\ readable /\ guest.table # 0
       IN  guest' = [guest EXCEPT !.booted = TRUE, !.bound = bound,
                        !.mounted = (bound \/ ~Attested) /\ Mounts(guest.table, guest.disk)]
    /\ UNCHANGED <<upd, vol, launcher>>

\* The guest exits; the launcher starts it again.
GuestDies ==
    /\ Fault /\ guest.img # 0 /\ guest' = Off
    /\ UNCHANGED <<upd, vol, launcher>>

\* verify.mjs on the table the guest published.
Verifies == guest.bound \/ guest.table = 0

Next ==
    \/ Publish \/ MoveAside \/ Passed \/ Missed \/ Halt \/ Clear
    \/ Killed \/ VolumeNamed \/ VolumeTorn \/ VolumeRemoved \/ Start \/ Launch \/ GuestDies
    \/ \E r \in Roots : VolumeBuilt(r)
    \/ \E ok \in BOOLEAN : Build(ok) \/ MoveIn(ok) \/ RollBack(ok) \/ Boot(ok)
    \/ \E running, lookup, force \in BOOLEAN : Run(running, lookup, force)

Spec == Init /\ [][Next]_vars

-----------------------------------------------------------------------------
\* An updater that was not killed half-way leaves an image it saw healthy, or the one
\* that was live before, and no image that missed the gate while the marker stands;
\* and a tenant reads a volume only as the root a verifier of the quote is shown
\* (apply, updateVerdict, gsup mountVolumes, volumes.mjs build). Except for an image
\* whose restart did not take place: the old guest passes the new image's gate.
GateHolds ==
    LET kept == ghost.proven \union ghost.deaf
    IN  /\ ~ghost.torn => /\ updater \in {"idle", "build", "swap"} => dist \in kept
                          /\ updater = "gate" => prev \in kept
        /\ ~ghost.torn /\ halted => updater = "idle" /\ dist \notin ghost.failed
        /\ guest.mounted => guest.disk = guest.table /\ (Attested => Verifies)
===============================================================================
