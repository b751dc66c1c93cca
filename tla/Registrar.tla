------------------------------ MODULE Registrar ------------------------------
(***************************************************************************)
(* How a box announces itself (src/supervisor.js): one registration at a   *)
(* time, on whichever registry the address book names, heartbeats that     *)
(* republish price and proof key, and the schema of the registry sniffed   *)
(* once per registry.  The book is moved, calls fail, and a transaction    *)
(* thought lost was mined.                                                 *)
(***************************************************************************)
EXTENDS Integers, FiniteSets

CONSTANTS
    Schema,     \* [registries -> what registrySchema answers there]
    MaxBoots,   \* bound: launches of the machine, each with a price and key of its own
    MaxBeats,   \* bound: heartbeat clocks
    MaxFaults   \* bound: failed calls, moves of the book

VARIABLES
    book,    \* REGISTRY_ADDRESS: the registry the address book names now
    chain,   \* [registries -> [on, price, key]]: our entry on each
    boot,    \* this launch: its price and its proof key
    reg,     \* [done, of, id, san]: _registered, _registeredOn, _enclaveId, _certSan
    call,    \* the registration in flight: none, sniff, send
    rev,     \* [of, n]: _registryRev and which registry it was sniffed on
    beats,   \* heartbeat clocks that run, one per registration that succeeded
    round,   \* [at, clean]: the round a clock is in, nothing failed in it so far
    moved,   \* the book was moved while a registration was in flight
    faults

vars == <<book, chain, boot, reg, call, rev, beats, round, moved, faults>>

Regs == DOMAIN Schema
NoReg == [done |-> FALSE, of |-> 0, id |-> FALSE, san |-> FALSE]
NoEntry == [on |-> FALSE, price |-> 0, key |-> 0]
NoRound == [at |-> "none", clean |-> FALSE]

Init ==
    /\ book = 1 /\ chain = [r \in Regs |-> NoEntry] /\ boot = 1
    /\ reg = NoReg /\ call = "none" /\ rev = [of |-> 0, n |-> 0]
    /\ beats = 0 /\ round = NoRound /\ moved = FALSE /\ faults = MaxFaults

Fault == faults > 0 /\ faults' = faults - 1

\* Mutant: sniffed once in the life of the process.
KnownOnce == rev.n # 0
\* registryRev: the cached schema counts only for the registry it was read from.
Known == rev.n # 0 /\ rev.of = book
Sniff(ok) ==
    \/ Known /\ ok /\ UNCHANGED <<rev, faults>>
    \/ ~Known /\ ok /\ rev' = [of |-> book, n |-> Schema[book]] /\ UNCHANGED faults
    \/ ~Known /\ ~ok /\ Fault /\ UNCHANGED rev

\* registryRepointed.
Repointed == reg.done /\ reg.of # 0 /\ reg.of # book

\* registerFromShimCert, registerOnChain: any request, the advertising loop and a
\* repointed heartbeat come here; the first one through takes the registration.
Register ==
    /\ call = "none" /\ (~reg.done \/ Repointed)
    /\ reg' = [done |-> TRUE, of |-> book, id |-> FALSE, san |-> TRUE]
    /\ call' = "sniff" /\ moved' = FALSE

Asked == Register /\ UNCHANGED <<book, chain, boot, rev, beats, round, faults>>

\* shimCertHostname: no public name on the certificate yet.
NoName == ~reg.san /\ Fault /\ UNCHANGED <<book, chain, boot, reg, call, rev, beats, round, moved>>

GiveUp == call' = "none" /\ reg' = [reg EXCEPT !.done = FALSE, !.of = 0]

Sniffed(ok) ==
    /\ call = "sniff" /\ Sniff(ok)
    /\ IF ok THEN call' = "send" /\ UNCHANGED reg ELSE GiveUp
    /\ UNCHANGED <<book, chain, boot, beats, round, moved>>

\* register: what an older registry has no field for is not sent to it.
Entry(n) == [on |-> TRUE, price |-> IF n >= 2 THEN boot ELSE 0, key |-> IF n >= 3 THEN boot ELSE 0]

\* A registry decodes only its own register; another schema's call reverts.
Accepts == rev.n = Schema[book]

\* The transaction goes to the registry the book names when it is sent.
Sent(ok, mined) ==
    /\ call = "send"
    /\ IF ok THEN Accepts /\ mined /\ UNCHANGED faults
       ELSE IF Accepts THEN Fault ELSE ~mined /\ UNCHANGED faults
    /\ chain' = IF mined THEN [chain EXCEPT ![book] = Entry(rev.n)] ELSE chain
    /\ IF ok THEN /\ beats < MaxBeats /\ beats' = beats + 1 /\ call' = "none"
                  /\ reg' = [reg EXCEPT !.id = TRUE]
       ELSE GiveUp /\ UNCHANGED beats
    /\ UNCHANGED <<book, boot, rev, round, moved>>

-----------------------------------------------------------------------------
(* The heartbeat                                                             *)

Round(at, clean) == round' = [at |-> at, clean |-> clean]

\* heartbeat: a failed one is logged and the round goes on.
Beat(ok) ==
    /\ beats > 0 /\ round.at = "none"
    /\ IF ok THEN chain[book].on /\ UNCHANGED faults ELSE IF chain[book].on THEN Fault ELSE UNCHANGED faults
    /\ Round("check", ok)
    /\ UNCHANGED <<book, chain, boot, reg, call, rev, beats, moved>>

\* A repointed registry ends the round with a registration.
Check ==
    /\ round.at = "check"
    /\ IF Repointed THEN /\ Round("none", FALSE)
                         /\ IF call = "none" THEN Register ELSE UNCHANGED <<reg, call, moved>>
       ELSE Round("price", round.clean) /\ UNCHANGED <<reg, call, moved>>
    /\ UNCHANGED <<book, chain, boot, rev, beats, faults>>

\* registryEntry: an entry is there, and the sniffed schema decodes it.
Readable == chain[book].on /\ rev'.n = Schema[book]

\* syncRegisteredPrice, syncRegisteredProofKey: read, compare, publish; what fails
\* waits for the next round.
Step(at, next, least) ==
    \E ok \in BOOLEAN :
    /\ round.at = at /\ Round(next, round.clean /\ ok)
    /\ IF ok THEN Sniff(TRUE) ELSE Fault /\ UNCHANGED rev
    /\ chain' = IF ~ok \/ rev'.n < least \/ ~Readable THEN chain
                ELSE IF at = "price" THEN [chain EXCEPT ![book].price = boot]
                ELSE [chain EXCEPT ![book].key = boot]
    /\ UNCHANGED <<book, boot, reg, call, beats, moved>>
SyncRegisteredPrice == Step("price", "key", 2)
SyncRegisteredProofKey == Step("key", "done", 3)

\* syncDeclaredPayoutWallet only reads and warns.
SyncDeclaredPayoutWallet ==
    /\ round.at = "done" /\ Round("none", FALSE)
    /\ UNCHANGED <<book, chain, boot, reg, call, rev, beats, moved, faults>>

-----------------------------------------------------------------------------
\* The address book names another registry.
MoveBook(r) ==
    /\ Fault /\ r # book /\ book' = r
    /\ moved' = (moved \/ call # "none")
    /\ round' = [round EXCEPT !.clean = FALSE]
    /\ UNCHANGED <<chain, boot, reg, call, rev, beats>>

\* A new launch: a key and a price of its own, nothing remembered.
Relaunch ==
    /\ boot < MaxBoots /\ boot' = boot + 1
    /\ reg' = NoReg /\ call' = "none" /\ rev' = [of |-> 0, n |-> 0] /\ beats' = 0
    /\ round' = NoRound /\ moved' = FALSE
    /\ UNCHANGED <<book, chain, faults>>

Next ==
    \/ Asked \/ NoName \/ Check \/ SyncRegisteredPrice \/ SyncRegisteredProofKey
    \/ SyncDeclaredPayoutWallet \/ Relaunch
    \/ \E ok \in BOOLEAN : Sniffed(ok) \/ Beat(ok) \/ \E mined \in BOOLEAN : Sent(ok, mined)
    \/ \E r \in Regs : MoveBook(r)

Spec == Init /\ [][Next]_vars

-----------------------------------------------------------------------------
\* After every step: a box that holds itself for registered has an entry on the registry it means,
\* unless the book was moved under that very registration; and a heartbeat round in
\* which nothing failed and nothing moved leaves this boot's price and proof key on
\* the registry the book names, as far as that has room for them (registerOnChain,
\* syncRegisteredPrice, syncRegisteredProofKey).
Announced ==
    /\ reg'.id /\ ~moved' => chain'[reg'.of].on
    /\ round'.at = "done" /\ round'.clean /\ ~moved' =>
          /\ chain'[book'].on
          /\ Schema[book'] >= 2 => chain'[book'].price = boot'
          /\ Schema[book'] >= 3 => chain'[book'].key = boot'
===============================================================================
