------------------------------ MODULE PartsProofs ------------------------------
(***************************************************************************)
(* The runs' properties of the machines that stand side by side in         *)
(* MCParts, from the theorems about each component.  A behaviour is of one *)
(* machine: as long as "part" names it, the slots are that component's     *)
(* variables and its theorem applies; for any other part nothing is said.  *)
(* One instance of each proof module serves all its components: a name    *)
(* that several of them use carries the component's there.                 *)
(***************************************************************************)
EXTENDS MCParts, FiniteSetTheorems, TLAPS

\* A behaviour is of one machine.
LEMMA PartFixed == [Next]_vars => part' = part
  BY Zenon DEF Next, vars

LEMMA PairFinite == IsFiniteSet({1, 2})
<1>1. IsFiniteSet({1}) /\ {1, 2} = {1} \union {2}
  BY FS_Singleton
<1> QED BY <1>1, FS_AddElement

-----------------------------------------------------------------------------
Relays == INSTANCE RelayProofs WITH tunnel <- a, mem <- b, dealtDisk <- c, signed <- d,
    out <- e, upload <- f, artifacts <- g, dealtFaults <- h, Devices <- {1, 2},
    MaxWindow <- 1, NonceMemory <- 1, MaxNonces <- 2, MaxServed <- 2, MaxDealtFaults <- 2,
    db <- a, peopleDisk <- b, tokens <- c, reqs <- d, grants <- e, born <- f, crossed <- g,
    peopleFaults <- h, Creds <- {1, 2}, Wallets <- {1}, MaxAccts <- 2, MaxTokens <- 3,
    MaxReqs <- 2, MaxPeopleFaults <- 1, dns <- a, recs <- b, host <- c, namesDisk <- d,
    checks <- e, ledger <- f, serves <- g, proven <- h, namesFaults <- i, Deps <- {1, 2},
    Demote <- 1, Fail <- 2, MaxRecs <- 2, MaxChecks <- 2, MaxNamesFaults <- 1, box <- a,
    keys <- b, issuerLease <- c, issue <- d, held <- e, cached <- f, cao <- g, down <- h,
    acct <- i, issuerGiven <- j, issuerFaults <- k, CAs <- {1, 2}, MaxKeys <- 2,
    MaxOrders <- 2, MaxIssuerFaults <- 2, gateLease <- a, since <- b, row <- c,
    reading <- d, listed <- e, ask <- f, txt <- g, gateGiven <- h, gateFaults <- i,
    Boxes <- {1, 2}, Ttl <- 1, MaxTxt <- 1, MaxGateFaults <- 2

\* No pad leaves twice, and a receipt is counted again only past the nonce memory
\* (reserve, receipt).
THEOREM PadsUsedOnceComposed == Spec => []PadsUsedOnce
<1> DEFINE On == part = "pads"
<1>1. On /\ Init => Relays!Dealt!Init
  BY Zenon DEF Init,
        Dealt!Init, Relays!Dealt!Init, Dealt!NoRecord, Relays!Dealt!NoRecord, Dealt!NoUpload,
        Relays!Dealt!NoUpload
<1>2. On /\ [Next]_vars => [Relays!Dealt!Next]_(Relays!Dealt!vars)
  <2>1. On /\ Next => Dealt!Next
    BY Zenon DEF Next
  <2>2. ASSUME Dealt!Next PROVE Relays!Dealt!Next
    BY <2>2, ZenonT(60) DEF
          Dealt!Next, Relays!Dealt!Next, Dealt!vars, Relays!Dealt!vars, Dealt!Attach,
          Relays!Dealt!Attach, Dealt!Seed, Relays!Dealt!Seed, Dealt!Detach, Relays!Dealt!Detach,
          Dealt!Sign, Relays!Dealt!Sign, Dealt!Cardinality, Relays!Dealt!Cardinality,
          Dealt!IsFiniteSet, Relays!Dealt!IsFiniteSet, Dealt!Crash, Relays!Dealt!Crash,
          Dealt!Reserve, Relays!Dealt!Reserve, Dealt!Receipt, Relays!Dealt!Receipt, Dealt!Put,
          Relays!Dealt!Put, Dealt!PutFinished, Relays!Dealt!PutFinished, Dealt!RemoveArtifact,
          Relays!Dealt!RemoveArtifact, Dealt!Store, Relays!Dealt!Store, Dealt!Saves,
          Relays!Dealt!Saves, Dealt!NoRecord, Relays!Dealt!NoRecord, Dealt!Fault,
          Relays!Dealt!Fault, Dealt!NoUpload, Relays!Dealt!NoUpload, Dealt!Admitted,
          Relays!Dealt!Admitted, Dealt!Contains, Relays!Dealt!Contains, Dealt!Remember,
          Relays!Dealt!Remember
  <2>3. vars' = vars => UNCHANGED Relays!Dealt!vars
    BY DEF vars, Relays!Dealt!vars
  <2> QED BY <2>1, <2>2, <2>3, Zenon
<1>3. On /\ Relays!Dealt!PadsUsedOnce => PadsUsedOnce
  BY Zenon DEF PadsUsedOnce,
        Dealt!PadsUsedOnce, Relays!Dealt!PadsUsedOnce, Dealt!Cardinality, Relays!Dealt!Cardinality,
        Dealt!IsFiniteSet, Relays!Dealt!IsFiniteSet, Dealt!Disjoint, Relays!Dealt!Disjoint
<1>4. ~On => PadsUsedOnce
  BY DEF PadsUsedOnce
<1>5. Relays!Dealt!Spec => []Relays!Dealt!PadsUsedOnce
  BY Relays!PadsAreUsedOnce
<1>6. [Next]_vars => (On' <=> On)
  BY PartFixed
<1> HIDE DEF On
<1> QED BY <1>1, <1>2, <1>3, <1>4, <1>5, <1>6, PTL DEF Spec, Relays!Dealt!Spec

-----------------------------------------------------------------------------

\* A sign-in token is used once, and every passkey and wallet has one account
\* (handleAccount).
THEOREM SignInSoundComposed == Spec => []SignInSound
<1> DEFINE On == part = "accounts"
<1>1. On /\ Init => Relays!People!Init
  BY Zenon DEF Init,
        People!Init, Relays!People!Init, People!Empty, Relays!People!Empty, People!NoAcct,
        Relays!People!NoAcct
<1>2. On /\ [Next]_vars => [Relays!People!Next]_(Relays!People!vars)
  <2>1. On /\ Next => People!Next
    BY Zenon DEF Next
  <2>2. ASSUME People!Next PROVE Relays!People!Next
    BY <2>2, ZenonT(60) DEF
          People!Next, Relays!People!Next, People!vars, Relays!People!vars, People!Mint,
          Relays!People!Mint, People!Expire, Relays!People!Expire, People!Flush,
          Relays!People!Flush, People!Restart, Relays!People!Restart, People!RegisterVerify,
          Relays!People!RegisterVerify, People!LoginVerify, Relays!People!LoginVerify,
          People!Contains, Relays!People!Contains, People!SiweVerify, Relays!People!SiweVerify,
          People!DeviceClaim, Relays!People!DeviceClaim, People!DeviceApprove,
          Relays!People!DeviceApprove, People!Registered, Relays!People!Registered,
          People!LoggedIn, Relays!People!LoggedIn, People!SiweSigned, Relays!People!SiweSigned,
          People!Linked, Relays!People!Linked, People!NotVerified, Relays!People!NotVerified,
          People!BalanceRead, Relays!People!BalanceRead, People!DeletePasskey,
          Relays!People!DeletePasskey, People!Cardinality, Relays!People!Cardinality,
          People!IsFiniteSet, Relays!People!IsFiniteSet, People!Hand, Relays!People!Hand,
          People!NoAcct, Relays!People!NoAcct, People!Session, Relays!People!Session, People!Spend,
          Relays!People!Spend, People!Open, Relays!People!Open, People!Take, Relays!People!Take,
          People!Req, Relays!People!Req, People!Live, Relays!People!Live, People!Grant,
          Relays!People!Grant, People!Refused, Relays!People!Refused, People!NewAcct,
          Relays!People!NewAcct, People!Accts, Relays!People!Accts, People!WithAcct,
          Relays!People!WithAcct, People!Finish, Relays!People!Finish, People!Without,
          Relays!People!Without, People!RemoveAt, Relays!People!RemoveAt
  <2>3. vars' = vars => UNCHANGED Relays!People!vars
    BY DEF vars, Relays!People!vars
  <2> QED BY <2>1, <2>2, <2>3, Zenon
<1>3. On /\ Relays!People!SignInSound => SignInSound
  BY Zenon DEF SignInSound,
        People!SignInSound, Relays!People!SignInSound, People!SingleUse, Relays!People!SingleUse,
        People!OneOwner, Relays!People!OneOwner, People!Contains, Relays!People!Contains,
        People!NoLockout, Relays!People!NoLockout
<1>4. ~On => SignInSound
  BY DEF SignInSound
<1>5. Relays!People!Spec => []Relays!People!SignInSound
  BY Relays!SignInIsSound
<1>6. [Next]_vars => (On' <=> On)
  BY PartFixed
<1> HIDE DEF On
<1> QED BY <1>1, <1>2, <1>3, <1>4, <1>5, <1>6, PTL DEF Spec, Relays!People!Spec

-----------------------------------------------------------------------------

\* A custom hostname is served only where it was proven (applyVerdict).
THEOREM ServedOnlyProvenComposed == Spec => []ServedOnlyProven
<1> DEFINE On == part = "domains"
<1>1. On /\ Init => Relays!Names!Init
  BY Zenon DEF Init,
        Names!Init, Relays!Names!Init
<1>2. On /\ [Next]_vars => [Relays!Names!Next]_(Relays!Names!vars)
  <2>1. On /\ Next => Names!Next
    BY Zenon DEF Next
  <2>2. ASSUME Names!Next PROVE Relays!Names!Next
    BY <2>2, ZenonT(60) DEF
          Names!Next, Relays!Names!Next, Names!vars, Relays!Names!vars, Names!Sweep,
          Relays!Names!Sweep, Names!ApplyVerdict, Relays!Names!ApplyVerdict, Names!Purge,
          Relays!Names!Purge, Names!Save, Relays!Names!Save, Names!Restart, Relays!Names!Restart,
          Names!PublishDns, Relays!Names!PublishDns, Names!Pruned, Relays!Names!Pruned, Names!Add,
          Relays!Names!Add, Names!Verify, Relays!Names!Verify, Names!Delete, Relays!Names!Delete,
          Names!Fetch, Relays!Names!Fetch, Names!Forget, Relays!Names!Forget, Names!StartCheck,
          Relays!Names!StartCheck, Names!Cardinality, Relays!Names!Cardinality, Names!IsFiniteSet,
          Relays!Names!IsFiniteSet, Names!World, Relays!Names!World, Names!Target,
          Relays!Names!Target, Names!Judged, Relays!Names!Judged, Names!Saved, Relays!Names!Saved,
          Names!Fault, Relays!Names!Fault, Names!Admitted, Relays!Names!Admitted, Names!Record,
          Relays!Names!Record, Names!Attached, Relays!Names!Attached, Names!Reported,
          Relays!Names!Reported, Names!DomainMap, Relays!Names!DomainMap, Names!Lookup,
          Relays!Names!Lookup, Names!Live, Relays!Names!Live, Names!OwnerGate,
          Relays!Names!OwnerGate, Names!Spellings, Relays!Names!Spellings, Names!CheckHostname,
          Relays!Names!CheckHostname, Names!Evaluate, Relays!Names!Evaluate, Names!TxtMatches,
          Relays!Names!TxtMatches, Names!RoutingMatches, Relays!Names!RoutingMatches
  <2>3. vars' = vars => UNCHANGED Relays!Names!vars
    BY DEF vars, Relays!Names!vars
  <2> QED BY <2>1, <2>2, <2>3, Zenon
<1>3. On /\ Relays!Names!ServedOnlyProven => ServedOnlyProven
  BY Zenon DEF ServedOnlyProven,
        Names!ServedOnlyProven, Relays!Names!ServedOnlyProven, Names!Live, Relays!Names!Live
<1>4. ~On => ServedOnlyProven
  BY DEF ServedOnlyProven
<1>5. Relays!Names!Spec => []Relays!Names!ServedOnlyProven
  BY Relays!DomainsServedOnlyProven
<1>6. [Next]_vars => (On' <=> On)
  BY PartFixed
<1> HIDE DEF On
<1> QED BY <1>1, <1>2, <1>3, <1>4, <1>5, <1>6, PTL DEF Spec, Relays!Names!Spec

-----------------------------------------------------------------------------

\* No key has two orders a CA still works on, but where the relay gave one up
\* (acmeIssue, sweep).
THEOREM NoOrderOrphanedComposed == Spec => []NoOrderOrphaned
<1> DEFINE On == part = "certs"
<1>1. On /\ Init => Relays!Issuer!Init
  BY Zenon DEF Init,
        Issuer!Init, Relays!Issuer!Init, Issuer!Keys, Relays!Issuer!Keys, Issuer!NoIssue,
        Relays!Issuer!NoIssue
<1>2. On /\ [Next]_vars => [Relays!Issuer!Next]_(Relays!Issuer!vars)
  <2>1. On /\ Next => Issuer!Next
    BY Zenon DEF Next
  <2>2. ASSUME Issuer!Next PROVE Relays!Issuer!Next
    <3>1. Relays!Issuer!Walk = Issuer!Walk
      BY Zenon DEF Issuer!Walk, Relays!Issuer!Walk, Issuer!Cardinality, Relays!Issuer!Cardinality,
          Issuer!IsFiniteSet, Relays!Issuer!IsFiniteSet
    <3>2. Relays!Issuer!Usable = Issuer!Usable
      BY <3>1, Zenon DEF Issuer!Usable, Relays!Issuer!Usable
    <3>3. /\ Issuer!Pump <=> Relays!Issuer!Pump
          /\ Issuer!RenewalDue <=> Relays!Issuer!RenewalDue
          /\ Issuer!PendingKeyExpires <=> Relays!Issuer!PendingKeyExpires
          /\ Issuer!BoxTimeout <=> Relays!Issuer!BoxTimeout
      BY <3>2, ZenonT(60) DEF
          Issuer!Pump, Relays!Issuer!Pump, Issuer!RenewalDue, Relays!Issuer!RenewalDue,
          Issuer!PendingKeyExpires, Relays!Issuer!PendingKeyExpires, Issuer!BoxTimeout,
          Relays!Issuer!BoxTimeout, Issuer!FreshKey, Relays!Issuer!FreshKey, Issuer!Relay,
          Relays!Issuer!Relay, Issuer!Fault, Relays!Issuer!Fault
    <3>4. /\ Issuer!Answer <=> Relays!Issuer!Answer
          /\ Issuer!AnswerLater <=> Relays!Issuer!AnswerLater
          /\ Issuer!OwnCa <=> Relays!Issuer!OwnCa
      BY <3>2, ZenonT(60) DEF
          Issuer!Answer, Relays!Issuer!Answer, Issuer!AnswerLater, Relays!Issuer!AnswerLater,
          Issuer!OwnCa, Relays!Issuer!OwnCa, Issuer!Keep, Relays!Issuer!Keep, Issuer!NoIssue,
          Relays!Issuer!NoIssue, Issuer!Relay, Relays!Issuer!Relay, Issuer!FreshKey,
          Relays!Issuer!FreshKey, Issuer!Backoff, Relays!Issuer!Backoff
    <3>5. /\ Issuer!BoxRestart <=> Relays!Issuer!BoxRestart
          /\ Issuer!LeaseMoves <=> Relays!Issuer!LeaseMoves
          /\ Issuer!Issue <=> Relays!Issuer!Issue
      BY <3>2, ZenonT(60) DEF
          Issuer!BoxRestart, Relays!Issuer!BoxRestart, Issuer!LeaseMoves, Relays!Issuer!LeaseMoves,
          Issuer!Issue, Relays!Issuer!Issue, Issuer!Fault, Relays!Issuer!Fault, Issuer!Relay,
          Relays!Issuer!Relay, Issuer!Zones, Relays!Issuer!Zones, Issuer!Authorized,
          Relays!Issuer!Authorized, Issuer!Admitted, Relays!Issuer!Admitted, Issuer!NoIssue,
          Relays!Issuer!NoIssue, Issuer!Start, Relays!Issuer!Start, Issuer!CsrOk,
          Relays!Issuer!CsrOk
    <3>6. /\ Issuer!Sweep <=> Relays!Issuer!Sweep
          /\ Issuer!RelayRestart <=> Relays!Issuer!RelayRestart
          /\ Issuer!CaWorks <=> Relays!Issuer!CaWorks
          /\ Issuer!CoolOffEnds <=> Relays!Issuer!CoolOffEnds
      BY <3>2, ZenonT(60) DEF
          Issuer!Sweep, Relays!Issuer!Sweep, Issuer!RelayRestart, Relays!Issuer!RelayRestart,
          Issuer!CaWorks, Relays!Issuer!CaWorks, Issuer!CoolOffEnds, Relays!Issuer!CoolOffEnds,
          Issuer!Fault, Relays!Issuer!Fault, Issuer!Keys, Relays!Issuer!Keys, Issuer!At,
          Relays!Issuer!At, Issuer!Drop, Relays!Issuer!Drop, Issuer!NoIssue, Relays!Issuer!NoIssue,
          Issuer!Validated, Relays!Issuer!Validated
    <3>7. ASSUME NEW x
          PROVE  /\ Issuer!NextCa(x) <=> Relays!Issuer!NextCa(x)
                 /\ Issuer!CaFails(x) <=> Relays!Issuer!CaFails(x)
                 /\ Issuer!NameRefused(x) <=> Relays!Issuer!NameRefused(x)
      BY <3>2, ZenonT(60) DEF
          Issuer!NextCa, Relays!Issuer!NextCa, Issuer!CaFails, Relays!Issuer!CaFails,
          Issuer!NameRefused, Relays!Issuer!NameRefused, Issuer!At, Relays!Issuer!At, Issuer!Asks,
          Relays!Issuer!Asks, Issuer!Fault, Relays!Issuer!Fault, Issuer!Drop, Relays!Issuer!Drop,
          Issuer!Forsaken, Relays!Issuer!Forsaken, Issuer!Cao, Relays!Issuer!Cao
    <3>8. ASSUME NEW x
          PROVE  /\ Issuer!NewOrder(x) <=> Relays!Issuer!NewOrder(x)
                 /\ Issuer!RegisterAccount(x) <=> Relays!Issuer!RegisterAccount(x)
                 /\ Issuer!AccountLost(x) <=> Relays!Issuer!AccountLost(x)
      BY <3>2, ZenonT(60) DEF
          Issuer!NewOrder, Relays!Issuer!NewOrder, Issuer!RegisterAccount,
          Relays!Issuer!RegisterAccount, Issuer!AccountLost, Relays!Issuer!AccountLost, Issuer!At,
          Relays!Issuer!At, Issuer!Asks, Relays!Issuer!Asks, Issuer!Fault, Relays!Issuer!Fault,
          Issuer!Drop, Relays!Issuer!Drop
    <3>9. ASSUME NEW x
          PROVE  /\ Issuer!Finalize(x) <=> Relays!Issuer!Finalize(x)
                 /\ Issuer!Resume(x) <=> Relays!Issuer!Resume(x)
      BY <3>2, ZenonT(60) DEF
          Issuer!Finalize, Relays!Issuer!Finalize, Issuer!Resume, Relays!Issuer!Resume, Issuer!At,
          Relays!Issuer!At, Issuer!Cao, Relays!Issuer!Cao
    <3>10. ASSUME NEW x
          PROVE  /\ Issuer!Collect(x) <=> Relays!Issuer!Collect(x)
                 /\ Issuer!StillProcessing(x) <=> Relays!Issuer!StillProcessing(x)
                 /\ Issuer!Settled(x) <=> Relays!Issuer!Settled(x)
      BY <3>2, ZenonT(60) DEF
          Issuer!Collect, Relays!Issuer!Collect, Issuer!StillProcessing,
          Relays!Issuer!StillProcessing, Issuer!Settled, Relays!Issuer!Settled, Issuer!At,
          Relays!Issuer!At, Issuer!Cao, Relays!Issuer!Cao, Issuer!Drop, Relays!Issuer!Drop,
          Issuer!NoIssue, Relays!Issuer!NoIssue, Issuer!Kept, Relays!Issuer!Kept
    <3> QED BY <2>2, <3>3, <3>4, <3>5, <3>6, <3>7, <3>8, <3>9, <3>10, ZenonT(60) DEF Issuer!Next, Relays!Issuer!Next, Issuer!Keys, Relays!Issuer!Keys
  <2>3. vars' = vars => UNCHANGED Relays!Issuer!vars
    BY DEF vars, Relays!Issuer!vars
  <2> QED BY <2>1, <2>2, <2>3, Zenon
<1>3. On /\ Relays!Issuer!NoOrderOrphaned => NoOrderOrphaned
  BY Zenon DEF NoOrderOrphaned,
        Issuer!NoOrderOrphaned, Relays!Issuer!NoOrderOrphaned, Issuer!Cardinality,
        Relays!Issuer!Cardinality, Issuer!IsFiniteSet, Relays!Issuer!IsFiniteSet, Issuer!Keys,
        Relays!Issuer!Keys
<1>4. ~On => NoOrderOrphaned
  BY DEF NoOrderOrphaned
<1>5. Relays!Issuer!Spec => []Relays!Issuer!NoOrderOrphaned
  BY Relays!OrdersNotDoubled
<1>6. [Next]_vars => (On' <=> On)
  BY PartFixed
<1> HIDE DEF On
<1> QED BY <1>1, <1>2, <1>3, <1>4, <1>5, <1>6, PTL DEF Spec, Relays!Issuer!Spec

-----------------------------------------------------------------------------

\* Secrets and challenges go to the box that holds the lease, or held it one cache
\* and its read ago (holdsLease).
THEOREM OnlyHoldersComposed == Spec => OnlyHolders
<1> DEFINE On == part = "gate"
<1>1. On /\ Init => Relays!Gate!Init
  BY Zenon DEF Init,
        Gate!Init, Relays!Gate!Init, Gate!NoRead, Relays!Gate!NoRead, Gate!Idle, Relays!Gate!Idle,
        Gate!Nothing, Relays!Gate!Nothing
<1>2. On /\ [Next]_vars => [Relays!Gate!Next]_(Relays!Gate!vars)
  <2>1. On /\ Next => Gate!Next
    BY Zenon DEF Next
  <2>2. ASSUME Gate!Next PROVE Relays!Gate!Next
    <3>1. /\ Gate!StartRead <=> Relays!Gate!StartRead
          /\ Gate!EndRead <=> Relays!Gate!EndRead
      BY ZenonT(60) DEF
          Gate!StartRead, Relays!Gate!StartRead, Gate!EndRead, Relays!Gate!EndRead, Gate!NoRead,
          Relays!Gate!NoRead, Gate!Chain, Relays!Gate!Chain
    <3>2. /\ Gate!Received <=> Relays!Gate!Received
          /\ Gate!Tick <=> Relays!Gate!Tick
          /\ Gate!Lease <=> Relays!Gate!Lease
          /\ Gate!Registry <=> Relays!Gate!Registry
      BY ZenonT(60) DEF
          Gate!Received, Relays!Gate!Received, Gate!Tick, Relays!Gate!Tick, Gate!Lease,
          Relays!Gate!Lease, Gate!Registry, Relays!Gate!Registry, Gate!Nothing,
          Relays!Gate!Nothing, Gate!Chain, Relays!Gate!Chain, Gate!Cache, Relays!Gate!Cache,
          Gate!Cap, Relays!Gate!Cap, Gate!NoRead, Relays!Gate!NoRead, Gate!Fault, Relays!Gate!Fault
    <3>3. ASSUME NEW x
          PROVE  /\ Gate!Ask(x) <=> Relays!Gate!Ask(x)
                 /\ Gate!Authorize(x) <=> Relays!Gate!Authorize(x)
      BY ZenonT(60) DEF
          Gate!Ask, Relays!Gate!Ask, Gate!Authorize, Relays!Gate!Authorize, Gate!Idle,
          Relays!Gate!Idle, Gate!Nothing, Relays!Gate!Nothing, Gate!Chain, Relays!Gate!Chain,
          Gate!Cache, Relays!Gate!Cache, Gate!Requests, Relays!Gate!Requests, Gate!WellFormed,
          Relays!Gate!WellFormed, Gate!Authorized, Relays!Gate!Authorized
    <3>4. ASSUME NEW x
          PROVE  /\ Gate!CheckLease(x) <=> Relays!Gate!CheckLease(x)
                 /\ Gate!Unreadable(x) <=> Relays!Gate!Unreadable(x)
      BY ZenonT(60) DEF
          Gate!CheckLease, Relays!Gate!CheckLease, Gate!Unreadable, Relays!Gate!Unreadable,
          Gate!Nothing, Relays!Gate!Nothing, Gate!ByFleet, Relays!Gate!ByFleet, Gate!Serve,
          Relays!Gate!Serve, Gate!HoldsLease, Relays!Gate!HoldsLease, Gate!Idle, Relays!Gate!Idle,
          Gate!Chain, Relays!Gate!Chain, Gate!Fault, Relays!Gate!Fault, Gate!Cache,
          Relays!Gate!Cache, Gate!Kept, Relays!Gate!Kept, Gate!Cardinality,
          Relays!Gate!Cardinality, Gate!IsFiniteSet, Relays!Gate!IsFiniteSet
    <3> QED BY <2>2, <3>1, <3>2, <3>3, <3>4, Zenon DEF Gate!Next, Relays!Gate!Next
  <2>3. vars' = vars => UNCHANGED Relays!Gate!vars
    BY DEF vars, Relays!Gate!vars
  <2> QED BY <2>1, <2>2, <2>3, Zenon
<1>3. On /\ [Next]_vars /\ [Relays!Gate!OnlyHolders]_(Relays!Gate!vars) => [part = "gate" => Gate!OnlyHolders]_vars
  <2>1. Relays!Gate!OnlyHolders => Gate!OnlyHolders
    BY Zenon DEF
        Gate!OnlyHolders, Relays!Gate!OnlyHolders
  <2>2. UNCHANGED Relays!Gate!vars => Relays!Gate!OnlyHolders
    BY DEF Relays!Gate!vars, Relays!Gate!OnlyHolders
  <2> QED BY <2>1, <2>2, Zenon
<1>4. ~On => [part = "gate" => Gate!OnlyHolders]_vars
  OBVIOUS
<1>5. Relays!Gate!Spec => [][Relays!Gate!OnlyHolders]_(Relays!Gate!vars)
  BY Relays!SecretsToHolders
<1>6. [Next]_vars => (On' <=> On)
  BY PartFixed
<1> HIDE DEF On
<1> QED BY <1>1, <1>2, <1>3, <1>4, <1>5, <1>6, PTL DEF Spec, OnlyHolders, Relays!Gate!Spec

-----------------------------------------------------------------------------
Money == INSTANCE PaymentProofs WITH bookChain <- a, bookOrder <- b, booked <- c,
    strays <- d, reviews <- e, bookDisk <- f, refused <- g, bookTorn <- h, inHand <- i,
    cursor <- j, over <- k, bookSeen <- l, job <- m, bookFaults <- n, Quote <- 2,
    Confirmations <- 1, Rescan <- 1, Chunk <- 1, Catchup <- 1, Lag <- 2, MaxBlocks <- 3,
    MaxPays <- 2, MaxBookFaults <- 2, tenantsRec <- a, free <- b, want <- c, tasks <- d,
    inst <- e, beat <- f, sweep <- g, other <- h, tenantsLimits <- i, doomed <- j,
    TenantsIds <- {1}, Capacity <- 2, Ttl <- 1, Silence <- 0, MaxVm <- 2, MaxTasks <- 2,
    MaxTenantsFaults <- 1, book <- a, cached <- b, vault <- c, treasury <- d, bought <- e,
    page <- f, taps <- g, landed <- h, now <- i, Factories <- {1, 2}, Keys <- {1, 2},
    Credit <- 2, Life <- 0, MaxTime <- 1, MaxTaps <- 2, prov <- a, walletQueue <- b,
    run <- c, walletTxs <- d, walletTorn <- e, walletFaults <- f, Orders <- {1, 2},
    MaxWalletTxs <- 5, MaxWalletFaults <- 2, mode <- a, total <- b, vram <- c,
    compute <- d, ready <- e, cores <- f, slice <- g, routed <- h, clamped <- i,
    probes <- j, CardIds <- {1, 2}, PoolsIds <- {1, 2}, Whole <- 2, Context <- 1,
    Sizes <- {3, 4}, MaxProbes <- 3, floatOrder <- a, settling <- b, floatTxs <- c,
    float <- d, credit <- e, head <- f, floatSilent <- g, floatLimits <- h,
    FloatIds <- {1}, Cap <- 1, Target <- 1, Ceiling <- 2, Refills <- 1, MaxFloatTxs <- 3,
    MaxFloatFaults <- 2, meterRec <- a, meterChain <- b, early <- c, meterSeen <- d,
    meterQueue <- e, busy <- f, meterSilent <- g, up <- h, served <- i, disk <- j,
    meterTorn <- k, unpriced <- l, meterFaults <- m, Pays <- {1, 2}, EthPays <- {2},
    MeterWindow <- 3, Confirm <- 1, Stale <- 1, MaxMeterFaults <- 2, proofsNow <- a,
    lease <- b, proofsRec <- c, round <- d, ending <- e, burst <- f, proofsFaults <- g,
    ProofsIds <- {1, 2}, ProofsWindow <- 1, Interval <- 1, Quantum <- 1, PerTx <- 1,
    MaxProofsTime <- 2, MaxProofsFaults <- 1

\* While part names it, the machine takes the steps of Orders and no other.
LEMMA BookRefined ==
    /\ part = "orders" /\ Init => Money!Book!Init
    /\ part = "orders" /\ [Next]_vars => [Money!Book!Next]_(Money!Book!vars)
<1>1. part = "orders" /\ Init => Money!Book!Init
  BY Zenon DEF Init,
        Book!Init, Money!Book!Init, Book!Idle, Money!Book!Idle
<1>2. part = "orders" /\ [Next]_vars => [Money!Book!Next]_(Money!Book!vars)
  <2>1. part = "orders" /\ Next => Book!Next
    BY Zenon DEF Next
  <2>2. ASSUME Book!Next PROVE Money!Book!Next
    <3>1. /\ Book!Block <=> Money!Book!Block
          /\ Book!Poll <=> Money!Book!Poll
      BY ZenonT(60) DEF
          Book!Block, Money!Book!Block, Book!Cardinality, Money!Book!Cardinality, Book!IsFiniteSet,
          Money!Book!IsFiniteSet, Book!Poll, Money!Book!Poll, Book!Tip, Money!Book!Tip, Book!NoPay,
          Money!Book!NoPay, Book!history, Money!Book!history, Book!scanner, Money!Book!scanner,
          Book!Idle, Money!Book!Idle, Book!GetLogs, Money!Book!GetLogs, Book!ScanFrom,
          Money!Book!ScanFrom
    <3>2. /\ Book!PollDone <=> Money!Book!PollDone
          /\ Book!PollFails <=> Money!Book!PollFails
          /\ Book!Restart <=> Money!Book!Restart
          /\ Book!HandlePendingPayment <=> Money!Book!HandlePendingPayment
      BY ZenonT(60) DEF
          Book!PollDone, Money!Book!PollDone, Book!PollFails, Money!Book!PollFails, Book!Restart,
          Money!Book!Restart, Book!HandlePendingPayment, Money!Book!HandlePendingPayment,
          Book!Idle, Money!Book!Idle, Book!GetLogs, Money!Book!GetLogs, Book!history,
          Money!Book!history, Book!Fault, Money!Book!Fault, Book!AllSaved, Money!Book!AllSaved,
          Book!Tip, Money!Book!Tip, Book!Moved, Money!Book!Moved, Book!OrderSaved,
          Money!Book!OrderSaved, Book!scanner, Money!Book!scanner, Book!ScanFrom,
          Money!Book!ScanFrom, Book!NoPay, Money!Book!NoPay, Book!Terminal, Money!Book!Terminal
    <3>3. ASSUME NEW x
          PROVE  Book!Paid(x) = Money!Book!Paid(x)
      BY ZenonT(60) DEF
          Book!Paid, Money!Book!Paid, Book!MapThenSumSet, Money!Book!MapThenSumSet,
          Book!MapThenFoldSet, Money!Book!MapThenFoldSet
    <3>4. ASSUME NEW x
          PROVE  /\ Book!Opens(x) = Money!Book!Opens(x)
                 /\ Book!ToReview(x) = Money!Book!ToReview(x)
      BY ZenonT(60) DEF
          Book!Opens, Money!Book!Opens, Book!ToReview, Money!Book!ToReview, Book!Held,
          Money!Book!Held, Book!Flagged, Money!Book!Flagged, Book!Moved, Money!Book!Moved,
          Book!Screened, Money!Book!Screened, Book!Terminal, Money!Book!Terminal
    <3>5. ASSUME NEW x
          PROVE  Book!Provision(x) = Money!Book!Provision(x)
      BY ZenonT(60) DEF
          Book!Provision, Money!Book!Provision, Book!Moved, Money!Book!Moved, Book!TooMuch,
          Money!Book!TooMuch, Book!Screened, Money!Book!Screened, Book!Held, Money!Book!Held,
          Book!Terminal, Money!Book!Terminal
    <3>6. Book!Underpaid = Money!Book!Underpaid
      BY <3>4, ZenonT(60) DEF
          Book!Underpaid, Money!Book!Underpaid, Book!Screened, Money!Book!Screened, Book!Held,
          Money!Book!Held
    <3>7. ASSUME NEW x
          PROVE  Book!Verdict(x) = Money!Book!Verdict(x)
      BY <3>5, <3>6, ZenonT(60) DEF
          Book!Verdict, Money!Book!Verdict, Book!Enough, Money!Book!Enough, Book!HumanOnly,
          Money!Book!HumanOnly, Book!Screened, Money!Book!Screened, Book!Held, Money!Book!Held
    <3>8. ASSUME NEW x
          PROVE  Book!Decision(x) = Money!Book!Decision(x)
      BY <3>3, <3>4, <3>7 DEF
          Book!Decision, Money!Book!Decision
    <3>9. ASSUME NEW x
          PROVE  Book!HandleConfirmedPayment(x) <=> Money!Book!HandleConfirmedPayment(x)
      BY <3>8, ZenonT(60) DEF
          Book!HandleConfirmedPayment, Money!Book!HandleConfirmedPayment, Book!Kept,
          Money!Book!Kept, Book!history, Money!Book!history
    <3>10. ASSUME NEW x
          PROVE  Book!FirstWriteRefused(x) <=> Money!Book!FirstWriteRefused(x)
      BY ZenonT(60) DEF
          Book!FirstWriteRefused, Money!Book!FirstWriteRefused, Book!Fault, Money!Book!Fault,
          Book!Idle, Money!Book!Idle
    <3>11. ASSUME NEW x
          PROVE  Book!LaterWriteRefused(x) <=> Money!Book!LaterWriteRefused(x)
      BY <3>8, ZenonT(60) DEF
          Book!LaterWriteRefused, Money!Book!LaterWriteRefused, Book!Fault, Money!Book!Fault,
          Book!Idle, Money!Book!Idle, Book!Kept, Money!Book!Kept, Book!Screened,
          Money!Book!Screened, Book!Held, Money!Book!Held
    <3>12. Book!PollLog <=> Money!Book!PollLog
      BY <3>9, <3>10, <3>11, ZenonT(60) DEF
          Book!PollLog, Money!Book!PollLog
    <3>13. /\ Book!StripeWebhook <=> Money!Book!StripeWebhook
           /\ Book!Falls <=> Money!Book!Falls
           /\ Book!TakeUp <=> Money!Book!TakeUp
           /\ Book!Provisioned <=> Money!Book!Provisioned
      BY ZenonT(60) DEF
          Book!StripeWebhook, Money!Book!StripeWebhook, Book!Falls, Money!Book!Falls, Book!TakeUp,
          Money!Book!TakeUp, Book!Provisioned, Money!Book!Provisioned, Book!Terminal,
          Money!Book!Terminal, Book!Moved, Money!Book!Moved, Book!OrderSaved,
          Money!Book!OrderSaved, Book!history, Money!Book!history, Book!scanner, Money!Book!scanner
    <3>14. /\ Book!ExpirySweep <=> Money!Book!ExpirySweep
           /\ Book!ResolveReview <=> Money!Book!ResolveReview
      BY ZenonT(60) DEF
          Book!ExpirySweep, Money!Book!ExpirySweep, Book!ResolveReview, Money!Book!ResolveReview,
          Book!Flagged, Money!Book!Flagged, Book!Moved, Money!Book!Moved, Book!AllSaved,
          Money!Book!AllSaved, Book!OrderSaved, Money!Book!OrderSaved, Book!history,
          Money!Book!history, Book!scanner, Money!Book!scanner, Book!Terminal, Money!Book!Terminal
    <3> QED BY <2>2, <3>1, <3>2, <3>12, <3>13, <3>14 DEF
          Book!Next, Money!Book!Next
  <2>3. vars' = vars => UNCHANGED Money!Book!vars
    BY DEF vars, Money!Book!vars, Money!Book!history, Money!Book!scanner
  <2> QED BY <2>1, <2>2, <2>3, Zenon
<1> QED BY <1>1, <1>2

\* No payment is lost between nodes of different heights, kills and refused writes, but
\* one whose first write the disk refused (indexer.js poll, store.js flush).
THEOREM EveryPaymentBookedComposed == Spec => []EveryPaymentBooked
<1> DEFINE On == part = "orders"
<1>1. On /\ Init => Money!Book!Init
  BY BookRefined
<1>2. On /\ [Next]_vars => [Money!Book!Next]_(Money!Book!vars)
  BY BookRefined
<1>3. On /\ Money!Book!EveryPaymentBooked => EveryPaymentBooked
  BY Zenon DEF EveryPaymentBooked,
        Book!EveryPaymentBooked, Money!Book!EveryPaymentBooked, Book!Tip, Money!Book!Tip,
        Book!NoPay, Money!Book!NoPay, Book!Idle, Money!Book!Idle, Book!ScanFrom,
        Money!Book!ScanFrom
<1>4. ~On => EveryPaymentBooked
  BY DEF EveryPaymentBooked
<1>5. Money!Book!Spec => []Money!Book!EveryPaymentBooked
  BY Money!PaymentsBooked DEF Money!ScannerConstants
<1>6. [Next]_vars => (On' <=> On)
  BY PartFixed
<1> HIDE DEF On
<1> QED BY <1>1, <1>2, <1>3, <1>4, <1>5, <1>6, PTL DEF Spec, Money!Book!Spec

\* Payments alone move an order to provisioning only in time, when they are enough and
\* clean but for those whose handler threw (handleConfirmedPayment).
THEOREM AutoProvisionsCleanComposed == Spec => AutoProvisionsClean
<1> DEFINE On == part = "orders"
<1>1. On /\ Init => Money!Book!Init
  BY BookRefined
<1>2. On /\ [Next]_vars => [Money!Book!Next]_(Money!Book!vars)
  BY BookRefined
<1>3. On /\ [Next]_vars /\ [Money!Book!AutoProvisionsClean]_(Money!Book!vars) => [part = "orders" => Book!AutoProvisionsClean]_vars
  <2>1. Money!Book!AutoProvisionsClean => Book!AutoProvisionsClean
    BY Zenon DEF
        Book!AutoProvisionsClean, Money!Book!AutoProvisionsClean, Book!PollLog, Money!Book!PollLog,
        Book!Enough, Money!Book!Enough, Book!Paid, Money!Book!Paid, Book!MapThenSumSet,
        Money!Book!MapThenSumSet, Book!MapThenFoldSet, Money!Book!MapThenFoldSet,
        Book!HandleConfirmedPayment, Money!Book!HandleConfirmedPayment, Book!FirstWriteRefused,
        Money!Book!FirstWriteRefused, Book!LaterWriteRefused, Money!Book!LaterWriteRefused,
        Book!Decision, Money!Book!Decision, Book!Kept, Money!Book!Kept, Book!history,
        Money!Book!history, Book!Fault, Money!Book!Fault, Book!Idle, Money!Book!Idle,
        Book!Screened, Money!Book!Screened, Book!Opens, Money!Book!Opens, Book!ToReview,
        Money!Book!ToReview, Book!Verdict, Money!Book!Verdict, Book!Held, Money!Book!Held,
        Book!Flagged, Money!Book!Flagged, Book!Moved, Money!Book!Moved, Book!Underpaid,
        Money!Book!Underpaid, Book!HumanOnly, Money!Book!HumanOnly, Book!Provision,
        Money!Book!Provision, Book!Terminal, Money!Book!Terminal, Book!TooMuch, Money!Book!TooMuch
  <2>2. UNCHANGED Money!Book!vars => Money!Book!AutoProvisionsClean
    BY DEF Money!Book!vars, Money!Book!AutoProvisionsClean
  <2> QED BY <2>1, <2>2, Zenon
<1>4. ~On => [part = "orders" => Book!AutoProvisionsClean]_vars
  OBVIOUS
<1>5. Money!Book!Spec => [][Money!Book!AutoProvisionsClean]_(Money!Book!vars)
  BY Money!ProvisionedClean DEF Money!ScannerConstants
<1>6. [Next]_vars => (On' <=> On)
  BY PartFixed
<1> HIDE DEF On
<1> QED BY <1>1, <1>2, <1>3, <1>4, <1>5, <1>6, PTL DEF Spec, AutoProvisionsClean, Money!Book!Spec

-----------------------------------------------------------------------------

\* A box sells no unit of its pool twice (allocCpu, releaseGpu, reconcilePools).
THEOREM NeverOversoldComposed == Spec => []NeverOversold
<1> DEFINE On == part = "tenants"
<1>1. On /\ Init => Money!Tenants!Init
  BY Zenon DEF Init,
        Tenants!Init, Money!Tenants!Init, Tenants!NoRec, Money!Tenants!NoRec, Tenants!NeverHeard,
        Money!Tenants!NeverHeard, Tenants!NoSweep, Money!Tenants!NoSweep
<1>2. On /\ [Next]_vars => [Money!Tenants!Next]_(Money!Tenants!vars)
  <2>1. On /\ Next => Tenants!Next
    BY Zenon DEF Next
  <2>2. ASSUME Tenants!Next PROVE Money!Tenants!Next
    <3>1. ASSUME NEW x PROVE Money!Tenants!Held(x) = Tenants!Held(x)
      BY Zenon DEF Tenants!Held, Money!Tenants!Held, Tenants!HeldBy, Money!Tenants!HeldBy,
          Tenants!SumFunction, Money!Tenants!SumFunction, Tenants!SumFunctionOnSet,
          Money!Tenants!SumFunctionOnSet, Tenants!FoldFunctionOnSet,
          Money!Tenants!FoldFunctionOnSet, Tenants!MapThenFoldSet, Money!Tenants!MapThenFoldSet
    <3>2. /\ Tenants!Neighbour <=> Money!Tenants!Neighbour
          /\ Tenants!ReconcilePools <=> Money!Tenants!ReconcilePools
          /\ Tenants!Vouch <=> Money!Tenants!Vouch
          /\ Tenants!ListInstances <=> Money!Tenants!ListInstances
          /\ Tenants!PlanOrphans <=> Money!Tenants!PlanOrphans
          /\ Tenants!ReapOrphan <=> Money!Tenants!ReapOrphan
          /\ Tenants!LeaseCheck <=> Money!Tenants!LeaseCheck
          /\ Tenants!LeaseTeardown <=> Money!Tenants!LeaseTeardown
          /\ Tenants!Tick <=> Money!Tenants!Tick
          /\ Tenants!Dies <=> Money!Tenants!Dies
          /\ Tenants!Reboot <=> Money!Tenants!Reboot
      BY <3>1, ZenonT(60) DEF
          Tenants!Neighbour, Money!Tenants!Neighbour, Tenants!ReconcilePools,
          Money!Tenants!ReconcilePools, Tenants!Vouch, Money!Tenants!Vouch, Tenants!ListInstances,
          Money!Tenants!ListInstances, Tenants!PlanOrphans, Money!Tenants!PlanOrphans,
          Tenants!ReapOrphan, Money!Tenants!ReapOrphan, Tenants!LeaseCheck,
          Money!Tenants!LeaseCheck, Tenants!LeaseTeardown, Money!Tenants!LeaseTeardown,
          Tenants!Tick, Money!Tenants!Tick, Tenants!Dies, Money!Tenants!Dies, Tenants!Reboot,
          Money!Tenants!Reboot, Tenants!Back, Money!Tenants!Back, Tenants!Live, Money!Tenants!Live,
          Tenants!Released, Money!Tenants!Released, Tenants!Fault, Money!Tenants!Fault,
          Tenants!NoSweep, Money!Tenants!NoSweep, Tenants!Over, Money!Tenants!Over
    <3>3. ASSUME NEW x
          PROVE  /\ Tenants!Adopt(x) <=> Money!Tenants!Adopt(x)
                 /\ Tenants!Respawn(x) <=> Money!Tenants!Respawn(x)
                 /\ Tenants!RelaunchDead(x) <=> Money!Tenants!RelaunchDead(x)
                 /\ Tenants!GiveUpOnDead(x) <=> Money!Tenants!GiveUpOnDead(x)
                 /\ Tenants!DeleteDeployment(x) <=> Money!Tenants!DeleteDeployment(x)
                 /\ Tenants!ReapLease(x) <=> Money!Tenants!ReapLease(x)
                 /\ Tenants!SwitchVersion(x) <=> Money!Tenants!SwitchVersion(x)
                 /\ Tenants!RestartTenant(x) <=> Money!Tenants!RestartTenant(x)
                 /\ Tenants!ApplyEnvelope(x) <=> Money!Tenants!ApplyEnvelope(x)
                 /\ Tenants!Resize(x) <=> Money!Tenants!Resize(x)
      BY ZenonT(60) DEF
          Tenants!Adopt, Money!Tenants!Adopt, Tenants!Respawn, Money!Tenants!Respawn,
          Tenants!RelaunchDead, Money!Tenants!RelaunchDead, Tenants!Cardinality,
          Money!Tenants!Cardinality, Tenants!IsFiniteSet, Money!Tenants!IsFiniteSet,
          Tenants!GiveUpOnDead, Money!Tenants!GiveUpOnDead, Tenants!DeleteDeployment,
          Money!Tenants!DeleteDeployment, Tenants!ReapLease, Money!Tenants!ReapLease,
          Tenants!SwitchVersion, Money!Tenants!SwitchVersion, Tenants!RestartTenant,
          Money!Tenants!RestartTenant, Tenants!ApplyEnvelope, Money!Tenants!ApplyEnvelope,
          Tenants!Resize, Money!Tenants!Resize, Tenants!Live, Money!Tenants!Live, Tenants!Room,
          Money!Tenants!Room, Tenants!Back, Money!Tenants!Back, Tenants!NoRec, Money!Tenants!NoRec,
          Tenants!Task, Money!Tenants!Task, Tenants!Fault, Money!Tenants!Fault, Tenants!WithLaunch,
          Money!Tenants!WithLaunch, Tenants!Over, Money!Tenants!Over, Tenants!StopsWith,
          Money!Tenants!StopsWith, Tenants!Released, Money!Tenants!Released
    <3>4. ASSUME NEW x, NEW ok
          PROVE  /\ Tenants!Spawn(x) <=> Money!Tenants!Spawn(x)
                 /\ Tenants!Respawned(x) <=> Money!Tenants!Respawned(x)
                 /\ Tenants!Provisioned(x, ok) <=> Money!Tenants!Provisioned(x, ok)
                 /\ Tenants!StopEnds(x, ok) <=> Money!Tenants!StopEnds(x, ok)
                 /\ Tenants!ChangeEnds(x, ok) <=> Money!Tenants!ChangeEnds(x, ok)
                 /\ Tenants!SwitchEnds(x, ok) <=> Money!Tenants!SwitchEnds(x, ok)
      BY ZenonT(60) DEF
          Tenants!Spawn, Money!Tenants!Spawn, Tenants!Respawned, Money!Tenants!Respawned,
          Tenants!Provisioned, Money!Tenants!Provisioned, Tenants!StopEnds, Money!Tenants!StopEnds,
          Tenants!ChangeEnds, Money!Tenants!ChangeEnds, Tenants!SwitchEnds,
          Money!Tenants!SwitchEnds, Tenants!NewVm, Money!Tenants!NewVm, Tenants!Mine,
          Money!Tenants!Mine, Tenants!Fault, Money!Tenants!Fault, Tenants!Over, Money!Tenants!Over,
          Tenants!Back, Money!Tenants!Back, Tenants!Stopping, Money!Tenants!Stopping,
          Tenants!WithLaunch, Money!Tenants!WithLaunch, Tenants!Task, Money!Tenants!Task,
          Tenants!Released, Money!Tenants!Released
    <3>5. ASSUME NEW x PROVE (Tenants!Handlers(x) <=> Money!Tenants!Handlers(x)) /\ (Tenants!Answers(x) <=> Money!Tenants!Answers(x))
      BY <3>3, <3>4, Zenon DEF Tenants!Handlers, Money!Tenants!Handlers, Tenants!Answers, Money!Tenants!Answers
    <3> QED BY <2>2, <3>2, <3>5, ZenonT(60) DEF Tenants!Next, Money!Tenants!Next
  <2>3. vars' = vars => UNCHANGED Money!Tenants!vars
    BY DEF vars, Money!Tenants!vars
  <2> QED BY <2>1, <2>2, <2>3, Zenon
<1>3. On /\ Money!Tenants!NeverOversold => NeverOversold
  BY Zenon DEF NeverOversold,
        Tenants!NeverOversold, Money!Tenants!NeverOversold, Tenants!Held, Money!Tenants!Held,
        Tenants!HeldBy, Money!Tenants!HeldBy, Tenants!SumFunction, Money!Tenants!SumFunction,
        Tenants!SumFunctionOnSet, Money!Tenants!SumFunctionOnSet, Tenants!FoldFunctionOnSet,
        Money!Tenants!FoldFunctionOnSet, Tenants!MapThenFoldSet, Money!Tenants!MapThenFoldSet
<1>4. ~On => NeverOversold
  BY DEF NeverOversold
<1>5. Money!Tenants!Spec => []Money!Tenants!NeverOversold
  <2>1. Money!IsFiniteSet({1})
    BY FS_Singleton, Zenon DEF Money!IsFiniteSet, IsFiniteSet
  <2> QED BY <2>1, Money!PoolIsNotOversold DEF Money!PoolConstants
<1>6. [Next]_vars => (On' <=> On)
  BY PartFixed
<1> HIDE DEF On
<1> QED BY <1>1, <1>2, <1>3, <1>4, <1>5, <1>6, PTL DEF Spec, Money!Tenants!Spec

-----------------------------------------------------------------------------

\* One tap of a passkey has one effect, and credit is conserved (_auth,
\* migrateToSuccessor).
THEOREM SpentAsTappedComposed == Spec => []SpentAsTapped
<1> DEFINE On == part = "vault"
<1>1. On /\ Init => Money!Init
  BY Zenon DEF Init,
        Vault!Init, Money!Init, Vault!NewVault, Money!NewVault, Vault!Closed, Money!Closed
<1>2. On /\ [Next]_vars => [Money!Next]_(Money!vars)
  <2>1. On /\ Next => Vault!Next
    BY Zenon DEF Next
  <2>2. ASSUME Vault!Next PROVE Money!Next
    <3>1. /\ Vault!Deposit <=> Money!Deposit
          /\ Vault!Refresh <=> Money!Refresh
          /\ Vault!Tap <=> Money!Tap
          /\ Vault!Publish <=> Money!Publish
          /\ Vault!Mint <=> Money!Mint
          /\ Vault!Tick <=> Money!Tick
      BY ZenonT(60) DEF
          Vault!Deposit, Money!Deposit, Vault!Refresh, Money!Refresh, Vault!Tap, Money!Tap,
          Vault!Cardinality, Money!Cardinality, Vault!IsFiniteSet, Money!IsFiniteSet,
          Vault!Publish, Money!Publish, Vault!Mint, Money!Mint, Vault!Tick, Money!Tick, Vault!Made,
          Money!Made, Vault!Closed, Money!Closed, Vault!AsAsked, Money!AsAsked, Vault!Given,
          Money!Given, Vault!Root, Money!Root
    <3>2. ASSUME NEW x, NEW y, NEW z
          PROVE  /\ Vault!Prepare(x, y, z) <=> Money!Prepare(x, y, z)
                 /\ Vault!TapElsewhere(x, y, z) <=> Money!TapElsewhere(x, y, z)
      BY ZenonT(60) DEF
          Vault!Prepare, Money!Prepare, Vault!TapElsewhere, Money!TapElsewhere, Vault!Cardinality,
          Money!Cardinality, Vault!IsFiniteSet, Money!IsFiniteSet, Vault!Closed, Money!Closed,
          Vault!Moves, Money!Moves, Vault!Given, Money!Given
    <3>3. ASSUME NEW x, NEW y
          PROVE  Vault!Submit(x, y) <=> Money!Submit(x, y)
      BY ZenonT(60) DEF
          Vault!Submit, Money!Submit, Vault!Made, Money!Made, Vault!Signed, Money!Signed,
          Vault!Allowed, Money!Allowed, Vault!Cardinality, Money!Cardinality, Vault!IsFiniteSet,
          Money!IsFiniteSet, Vault!Effect, Money!Effect, Vault!Root, Money!Root, Vault!Moves,
          Money!Moves, Vault!Extra, Money!Extra, Vault!NextNonce, Money!NextNonce
    <3>4. ASSUME NEW x
          PROVE  Vault!MigrateToSuccessor(x) <=> Money!MigrateToSuccessor(x)
      BY ZenonT(60) DEF
          Vault!MigrateToSuccessor, Money!MigrateToSuccessor
    <3> QED BY <2>2, <3>1, <3>2, <3>3, <3>4, ZenonT(60) DEF
          Vault!Next, Money!Next, Vault!Moves, Money!Moves
  <2>3. vars' = vars => UNCHANGED Money!vars
    BY DEF vars, Money!vars
  <2> QED BY <2>1, <2>2, <2>3, Zenon
<1>3. On /\ Money!SpentAsTapped => SpentAsTapped
  BY Zenon DEF SpentAsTapped,
        Vault!SpentAsTapped, Money!SpentAsTapped, Vault!SumFunction, Money!SumFunction,
        Vault!SumFunctionOnSet, Money!SumFunctionOnSet, Vault!FoldFunctionOnSet,
        Money!FoldFunctionOnSet, Vault!MapThenFoldSet, Money!MapThenFoldSet, Vault!Typed,
        Money!Typed, Vault!Done, Money!Done
<1>4. ~On => SpentAsTapped
  BY DEF SpentAsTapped
<1>5. Money!Spec => []Money!SpentAsTapped
  <2>1. Money!IsFiniteSet({1, 2})
    BY PairFinite, Zenon DEF Money!IsFiniteSet, IsFiniteSet
  <2> QED BY <2>1, Money!CreditIsSpentAsTapped
<1>6. [Next]_vars => (On' <=> On)
  BY PartFixed
<1> HIDE DEF On
<1> QED BY <1>1, <1>2, <1>3, <1>4, <1>5, <1>6, PTL DEF Spec, Money!Spec

-----------------------------------------------------------------------------

\* A paid order becomes one deployment, funded once (planRecovery).
THEOREM ConvertedOnceComposed == Spec => []ConvertedOnce
<1> DEFINE On == part = "provision"
<1>1. On /\ Init => Money!Wallet!Init
  BY Zenon DEF Init,
        Wallet!Init, Money!Wallet!Init, Wallet!Unplanned, Money!Wallet!Unplanned, Wallet!Nobody,
        Money!Wallet!Nobody
<1>2. On /\ [Next]_vars => [Money!Wallet!Next]_(Money!Wallet!vars)
  <2>1. On /\ Next => Wallet!Next
    BY Zenon DEF Next
  <2>2. ASSUME Wallet!Next PROVE Money!Wallet!Next
    <3>1. ASSUME NEW x
          PROVE  Wallet!EnqueueProvision(x) <=> Money!Wallet!EnqueueProvision(x)
      BY ZenonT(60) DEF
          Wallet!EnqueueProvision, Money!Wallet!EnqueueProvision
    <3>2. /\ Wallet!Drain <=> Money!Wallet!Drain
          /\ Wallet!Plan <=> Money!Wallet!Plan
          /\ Wallet!Underfunded <=> Money!Wallet!Underfunded
          /\ Wallet!AdoptOrphanCreate <=> Money!Wallet!AdoptOrphanCreate
      BY ZenonT(60) DEF
          Wallet!Drain, Money!Wallet!Drain, Wallet!Plan, Money!Wallet!Plan, Wallet!Underfunded,
          Money!Wallet!Underfunded, Wallet!AdoptOrphanCreate, Money!Wallet!AdoptOrphanCreate,
          Wallet!Cardinality, Money!Wallet!Cardinality, Wallet!IsFiniteSet,
          Money!Wallet!IsFiniteSet, Wallet!Nobody, Money!Wallet!Nobody, Wallet!PlanRecovery,
          Money!Wallet!PlanRecovery, Wallet!SaidOf, Money!Wallet!SaidOf, Wallet!Status,
          Money!Wallet!Status, Wallet!Stop, Money!Wallet!Stop, Wallet!Fault, Money!Wallet!Fault,
          Wallet!Orphans, Money!Wallet!Orphans, Wallet!Tx, Money!Wallet!Tx, Wallet!Created,
          Money!Wallet!Created, Wallet!Mapped, Money!Wallet!Mapped
    <3>3. /\ Wallet!WriteAheadCreate <=> Money!Wallet!WriteAheadCreate
          /\ Wallet!SendCreate <=> Money!Wallet!SendCreate
          /\ Wallet!CreateMined <=> Money!Wallet!CreateMined
          /\ Wallet!PlanFund <=> Money!Wallet!PlanFund
      BY ZenonT(60) DEF
          Wallet!WriteAheadCreate, Money!Wallet!WriteAheadCreate, Wallet!SendCreate,
          Money!Wallet!SendCreate, Wallet!CreateMined, Money!Wallet!CreateMined, Wallet!PlanFund,
          Money!Wallet!PlanFund, Wallet!Unplanned, Money!Wallet!Unplanned, Wallet!Send,
          Money!Wallet!Send, Wallet!Cardinality, Money!Wallet!Cardinality, Wallet!IsFiniteSet,
          Money!Wallet!IsFiniteSet, Wallet!Status, Money!Wallet!Status, Wallet!Stop,
          Money!Wallet!Stop, Wallet!SaidOf, Money!Wallet!SaidOf, Wallet!PlanRecovery,
          Money!Wallet!PlanRecovery, Wallet!NewTx, Money!Wallet!NewTx, Wallet!Fault,
          Money!Wallet!Fault, Wallet!Tx, Money!Wallet!Tx, Wallet!Nobody, Money!Wallet!Nobody
    <3>4. /\ Wallet!SendFund <=> Money!Wallet!SendFund
          /\ Wallet!FundMined <=> Money!Wallet!FundMined
          /\ Wallet!ReceiptTimeout <=> Money!Wallet!ReceiptTimeout
          /\ Wallet!Complete <=> Money!Wallet!Complete
      BY ZenonT(60) DEF
          Wallet!SendFund, Money!Wallet!SendFund, Wallet!FundMined, Money!Wallet!FundMined,
          Wallet!ReceiptTimeout, Money!Wallet!ReceiptTimeout, Wallet!Complete,
          Money!Wallet!Complete, Wallet!Send, Money!Wallet!Send, Wallet!Cardinality,
          Money!Wallet!Cardinality, Wallet!IsFiniteSet, Money!Wallet!IsFiniteSet, Wallet!Status,
          Money!Wallet!Status, Wallet!Stop, Money!Wallet!Stop, Wallet!Fault, Money!Wallet!Fault,
          Wallet!NewTx, Money!Wallet!NewTx, Wallet!Tx, Money!Wallet!Tx, Wallet!Nobody,
          Money!Wallet!Nobody
    <3>5. /\ Wallet!Mine <=> Money!Wallet!Mine
          /\ Wallet!Crash <=> Money!Wallet!Crash
      BY ZenonT(60) DEF
          Wallet!Mine, Money!Wallet!Mine, Wallet!Crash, Money!Wallet!Crash, Wallet!Fault,
          Money!Wallet!Fault, Wallet!Nobody, Money!Wallet!Nobody
    <3> QED BY <2>2, <3>1, <3>2, <3>3, <3>4, <3>5, ZenonT(60) DEF
          Wallet!Next, Money!Wallet!Next
  <2>3. vars' = vars => UNCHANGED Money!Wallet!vars
    BY DEF vars, Money!Wallet!vars
  <2> QED BY <2>1, <2>2, <2>3, Zenon
<1>3. On /\ Money!Wallet!ConvertedOnce => ConvertedOnce
  BY Zenon DEF ConvertedOnce,
        Wallet!ConvertedOnce, Money!Wallet!ConvertedOnce, Wallet!Cardinality,
        Money!Wallet!Cardinality, Wallet!IsFiniteSet, Money!Wallet!IsFiniteSet
<1>4. ~On => ConvertedOnce
  BY DEF ConvertedOnce
<1>5. Money!Wallet!Spec => []Money!Wallet!ConvertedOnce
  BY Money!OrdersConvertedOnce
<1>6. [Next]_vars => (On' <=> On)
  BY PartFixed
<1> HIDE DEF On
<1> QED BY <1>1, <1>2, <1>3, <1>4, <1>5, <1>6, PTL DEF Spec, Money!Wallet!Spec

-----------------------------------------------------------------------------

\* What the cards' operators say is the same in both instances.
LEMMA PoolsAgree ==
    /\ \A x : Money!Pools!SumFunction(x) = Pools!SumFunction(x)
    /\ \A x : Money!Pools!Taken(x) = Pools!Taken(x)
    /\ \A x, y : Money!Pools!Needed(x, y) = Pools!Needed(x, y)
    /\ \A x : Money!Pools!Placement(x) = Pools!Placement(x)
    /\ \A x, y : Money!Pools!Offered(x, y) = Pools!Offered(x, y)
<1>1. ASSUME NEW x PROVE Money!Pools!SumFunction(x) = Pools!SumFunction(x)
  BY Zenon DEF
      Pools!SumFunction, Money!Pools!SumFunction, Pools!SumFunctionOnSet,
      Money!Pools!SumFunctionOnSet, Pools!FoldFunctionOnSet, Money!Pools!FoldFunctionOnSet,
      Pools!MapThenFoldSet, Money!Pools!MapThenFoldSet
<1>2. ASSUME NEW x PROVE Money!Pools!Taken(x) = Pools!Taken(x)
  BY <1>1, ZenonT(60) DEF Pools!Taken, Money!Pools!Taken, Pools!Holds, Money!Pools!Holds
<1>3. ASSUME NEW x, NEW y PROVE Money!Pools!Needed(x, y) = Pools!Needed(x, y)
  BY ZenonT(60) DEF
      Pools!Needed, Money!Pools!Needed, Pools!Granules, Money!Pools!Granules, Pools!Overhead,
      Money!Pools!Overhead
<1>4. ASSUME NEW x PROVE Money!Pools!Placement(x) = Pools!Placement(x)
  BY ZenonT(60) DEF
      Pools!Placement, Money!Pools!Placement, Pools!Fits, Money!Pools!Fits, Pools!FreeOn,
      Money!Pools!FreeOn, Pools!Needed, Money!Pools!Needed, Pools!Granules, Money!Pools!Granules,
      Pools!Overhead, Money!Pools!Overhead
<1>5. ASSUME NEW S PROVE Money!Pools!Least(S) = Pools!Least(S) /\ Money!Pools!Most(S) = Pools!Most(S)
  BY ZenonT(60) DEF Pools!Least, Money!Pools!Least, Pools!Most, Money!Pools!Most
<1>6. ASSUME NEW x PROVE Money!Pools!ShareOn(x) = Pools!ShareOn(x)
  BY ZenonT(60) DEF
      Pools!ShareOn, Money!Pools!ShareOn, Pools!Least, Money!Pools!Least, Pools!FreeOn,
      Money!Pools!FreeOn, Pools!UpTo0, Money!Pools!UpTo0, Pools!Overhead, Money!Pools!Overhead
<1>7. Money!Pools!MaxFreeGpuShare = Pools!MaxFreeGpuShare
  <2>1. {Money!Pools!ShareOn(x) : x \in {1, 2}} = {Pools!ShareOn(x) : x \in {1, 2}}
    BY <1>6, ZenonT(60)
  <2> QED BY <1>5, <2>1, ZenonT(60) DEF Pools!MaxFreeGpuShare, Money!Pools!MaxFreeGpuShare
<1>8. ASSUME NEW x, NEW y PROVE Money!Pools!Offered(x, y) = Pools!Offered(x, y)
  <2>1. Money!Pools!Least({Pools!MaxFreeGpuShare, x}) = Pools!Least({Pools!MaxFreeGpuShare, x})
    BY <1>5, ZenonT(60)
  <2> QED BY <1>7, <2>1, ZenonT(60) DEF Pools!Offered, Money!Pools!Offered
<1> QED BY <1>1, <1>2, <1>3, <1>4, <1>8, ZenonT(60)

\* The pools of a box balance, and what is offered can be taken (allocGpu, releaseGpu,
\* adoptShieldedCards).
THEOREM PoolsBalanceComposed == Spec => []PoolsBalance
<1> DEFINE On == part = "cards"
<1>1. On /\ Init => Money!Pools!Init
  BY Zenon DEF Init,
        Pools!Init, Money!Pools!Init, Pools!None, Money!Pools!None
<1>2. On /\ [Next]_vars => [Money!Pools!Next]_(Money!Pools!vars)
  <2>1. On /\ Next => Pools!Next
    BY Zenon DEF Next
  <2>2. ASSUME Pools!Next PROVE Money!Pools!Next
    <3>1. /\ Pools!VerdictGone <=> Money!Pools!VerdictGone
          /\ Pools!Reconcile <=> Money!Pools!Reconcile
      BY PoolsAgree, ZenonT(60) DEF
          Pools!VerdictGone, Money!Pools!VerdictGone, Pools!Reconcile, Money!Pools!Reconcile,
          Pools!Overheld, Money!Pools!Overheld, Pools!Reconciled, Money!Pools!Reconciled,
          Pools!Within, Money!Pools!Within, Pools!UpTo0, Money!Pools!UpTo0
    <3>2. ASSUME NEW x
          PROVE  /\ Pools!Probe(x) <=> Money!Pools!Probe(x)
                 /\ Pools!Release(x) <=> Money!Pools!Release(x)
                 /\ Pools!Launch(x) <=> Money!Pools!Launch(x)
      BY ZenonT(60) DEF
          Pools!Probe, Money!Pools!Probe, Pools!Release, Money!Pools!Release, Pools!Launch,
          Money!Pools!Launch, Pools!Shrunk, Money!Pools!Shrunk, Pools!Clamps, Money!Pools!Clamps,
          Pools!None, Money!Pools!None, Pools!Within, Money!Pools!Within, Pools!Back,
          Money!Pools!Back, Pools!Holds, Money!Pools!Holds, Pools!UpTo0, Money!Pools!UpTo0
    <3>3. ASSUME NEW x, NEW y, NEW z
          PROVE  /\ Pools!AllocCores(x, y) <=> Money!Pools!AllocCores(x, y)
                 /\ Pools!Alloc(x, y, z) <=> Money!Pools!Alloc(x, y, z)
                 /\ Pools!Verdict(x, y, z) <=> Money!Pools!Verdict(x, y, z)
      BY PoolsAgree, ZenonT(60) DEF
          Pools!AllocCores, Money!Pools!AllocCores, Pools!Alloc, Money!Pools!Alloc, Pools!Verdict,
          Money!Pools!Verdict, Pools!None, Money!Pools!None, Pools!Offers, Money!Pools!Offers,
          Pools!Reconciled, Money!Pools!Reconciled, Pools!Overheld, Money!Pools!Overheld,
          Pools!Shrunk, Money!Pools!Shrunk, Pools!Clamps, Money!Pools!Clamps, Pools!Within,
          Money!Pools!Within, Pools!UpTo0, Money!Pools!UpTo0
    <3> QED BY <2>2, <3>1, <3>2, <3>3, ZenonT(60) DEF Pools!Next, Money!Pools!Next
  <2>3. vars' = vars => UNCHANGED Money!Pools!vars
    BY DEF vars, Money!Pools!vars
  <2> QED BY <2>1, <2>2, <2>3, Zenon
<1>3. On /\ Money!Pools!PoolsBalance => PoolsBalance
  BY PoolsAgree, ZenonT(60) DEF PoolsBalance, Pools!PoolsBalance, Money!Pools!PoolsBalance,
        Pools!Holds, Money!Pools!Holds, Pools!UpTo0, Money!Pools!UpTo0
<1>4. ~On => PoolsBalance
  BY DEF PoolsBalance
<1>5. Money!Pools!Spec => []Money!Pools!PoolsBalance
  <2>1. Money!IsFiniteSet({1, 2})
    BY PairFinite, Zenon DEF Money!IsFiniteSet, IsFiniteSet
  <2> QED BY <2>1, Money!PoolsAreBalanced DEF Money!CardsConstants
<1>6. [Next]_vars => (On' <=> On)
  BY PartFixed
<1> HIDE DEF On
<1> QED BY <1>1, <1>2, <1>3, <1>4, <1>5, <1>6, PTL DEF Spec, Money!Pools!Spec

-----------------------------------------------------------------------------

\* A card top-up is deposited into the vault at most once (settleTopup, topupPlan).
THEOREM CreditedOnceComposed == Spec => []CreditedOnce
<1> DEFINE On == part = "topups"
<1>1. On /\ Init => Money!Float!Init
  BY Zenon DEF Init,
        Float!Init, Money!Float!Init, Float!Fresh, Money!Float!Fresh
<1>2. On /\ [Next]_vars => [Money!Float!Next]_(Money!Float!vars)
  <2>1. On /\ Next => Float!Next
    BY Zenon DEF Next
  <2>2. ASSUME Float!Next PROVE Money!Float!Next
    <3>1. ASSUME NEW x
          PROVE  /\ Float!CreateTopup(x) <=> Money!Float!CreateTopup(x)
                 /\ Float!StripeWebhook(x) <=> Money!Float!StripeWebhook(x)
                 /\ Float!UsdcArrives(x) <=> Money!Float!UsdcArrives(x)
                 /\ Float!ExpirySweep(x) <=> Money!Float!ExpirySweep(x)
                 /\ Float!SweepCrediting(x) <=> Money!Float!SweepCrediting(x)
      BY ZenonT(60) DEF
          Float!CreateTopup, Money!Float!CreateTopup, Float!StripeWebhook,
          Money!Float!StripeWebhook, Float!UsdcArrives, Money!Float!UsdcArrives, Float!ExpirySweep,
          Money!Float!ExpirySweep, Float!SweepCrediting, Money!Float!SweepCrediting,
          Float!Reserved, Money!Float!Reserved, Float!Cardinality, Money!Float!Cardinality,
          Float!IsFiniteSet, Money!Float!IsFiniteSet, Float!Terminal, Money!Float!Terminal,
          Float!SettleTopup, Money!Float!SettleTopup, Float!Moved, Money!Float!Moved,
          Float!TopupPlan, Money!Float!TopupPlan
    <3>2. ASSUME NEW x
          PROVE  /\ Float!VerifyDeposit(x) <=> Money!Float!VerifyDeposit(x)
                 /\ Float!CheckBalance(x) <=> Money!Float!CheckBalance(x)
                 /\ Float!TakeWallet(x) <=> Money!Float!TakeWallet(x)
      BY ZenonT(60) DEF
          Float!VerifyDeposit, Money!Float!VerifyDeposit, Float!CheckBalance,
          Money!Float!CheckBalance, Float!TakeWallet, Money!Float!TakeWallet, Float!Tx,
          Money!Float!Tx, Float!Ended, Money!Float!Ended, Float!Moved, Money!Float!Moved,
          Float!Fault, Money!Float!Fault, Float!Terminal, Money!Float!Terminal
    <3>3. ASSUME NEW x
          PROVE  /\ Float!Deposit(x) <=> Money!Float!Deposit(x)
                 /\ Float!Deposited(x) <=> Money!Float!Deposited(x)
      BY ZenonT(60) DEF
          Float!Deposit, Money!Float!Deposit, Float!Cardinality, Money!Float!Cardinality,
          Float!IsFiniteSet, Money!Float!IsFiniteSet, Float!Deposited, Money!Float!Deposited,
          Float!Failed, Money!Float!Failed, Float!Ended, Money!Float!Ended, Float!Fault,
          Money!Float!Fault, Float!Tx, Money!Float!Tx, Float!Moved, Money!Float!Moved,
          Float!Terminal, Money!Float!Terminal
    <3>4. ASSUME NEW x, NEW y
          PROVE  /\ Float!Approve(x, y) <=> Money!Float!Approve(x, y)
                 /\ Float!Reject(x, y) <=> Money!Float!Reject(x, y)
      BY ZenonT(60) DEF
          Float!Approve, Money!Float!Approve, Float!Reject, Money!Float!Reject, Float!SettleTopup,
          Money!Float!SettleTopup, Float!Moved, Money!Float!Moved, Float!TopupPlan,
          Money!Float!TopupPlan, Float!Terminal, Money!Float!Terminal
    <3>5. /\ Float!FloatPass <=> Money!Float!FloatPass
          /\ Float!Payout <=> Money!Float!Payout
          /\ Float!Mine <=> Money!Float!Mine
          /\ Float!Spend <=> Money!Float!Spend
          /\ Float!Crash <=> Money!Float!Crash
      BY ZenonT(60) DEF
          Float!FloatPass, Money!Float!FloatPass, Float!Payout, Money!Float!Payout, Float!Mine,
          Money!Float!Mine, Float!Spend, Money!Float!Spend, Float!Crash, Money!Float!Crash,
          Float!FloatSweepAmount, Money!Float!FloatSweepAmount, Float!Fault, Money!Float!Fault,
          Float!Greater, Money!Float!Greater, Float!Reserved, Money!Float!Reserved,
          Float!Cardinality, Money!Float!Cardinality, Float!IsFiniteSet, Money!Float!IsFiniteSet,
          Float!Terminal, Money!Float!Terminal
    <3> QED BY <2>2, <3>1, <3>2, <3>3, <3>4, <3>5, ZenonT(60) DEF
          Float!Next, Money!Float!Next, Float!Reasons, Money!Float!Reasons
  <2>3. vars' = vars => UNCHANGED Money!Float!vars
    BY DEF vars, Money!Float!vars
  <2> QED BY <2>1, <2>2, <2>3, Zenon
<1>3. On /\ Money!Float!CreditedOnce => CreditedOnce
  BY Zenon DEF CreditedOnce,
        Float!CreditedOnce, Money!Float!CreditedOnce, Float!Cardinality, Money!Float!Cardinality,
        Float!IsFiniteSet, Money!Float!IsFiniteSet
<1>4. ~On => CreditedOnce
  BY DEF CreditedOnce
<1>5. Money!Float!Spec => []Money!Float!CreditedOnce
  BY Money!TopupsCreditedOnce
<1>6. [Next]_vars => (On' <=> On)
  BY PartFixed
<1> HIDE DEF On
<1> QED BY <1>1, <1>2, <1>3, <1>4, <1>5, <1>6, PTL DEF Spec, Money!Float!Spec

-----------------------------------------------------------------------------

\* What a pay-per-deploy record was paid is what it has left and has used, and no record
\* paid early expires, but for a crash between mark and credit and an ETH payment without
\* a price (onPaid, startBillingTicker).
THEOREM PaidTimeServedComposed == Spec => []PaidTimeServed
<1> DEFINE On == part = "metered"
<1>1. On /\ Init => Money!Meter!Init
  BY Zenon DEF Init,
        Meter!Init, Money!Meter!Init, Meter!Reserved, Money!Meter!Reserved
<1>2. On /\ [Next]_vars => [Money!Meter!Next]_(Money!Meter!vars)
  <2>1. On /\ Next => Meter!Next
    BY Zenon DEF Next
  <2>2. ASSUME Meter!Next PROVE Money!Meter!Next
    BY <2>2, ZenonT(60) DEF
          Meter!Next, Money!Meter!Next, Meter!vars, Money!Meter!vars, Meter!PollEnds,
          Money!Meter!PollEnds, Meter!Expire, Money!Meter!Expire, Meter!Dies, Money!Meter!Dies,
          Meter!Respawn, Money!Meter!Respawn, Meter!Save, Money!Meter!Save, Meter!Crash,
          Money!Meter!Crash, Meter!Pay, Money!Meter!Pay, Meter!HandleUsdc, Money!Meter!HandleUsdc,
          Meter!HandleEth, Money!Meter!HandleEth, Meter!LaunchEnds, Money!Meter!LaunchEnds,
          Meter!Tick, Money!Meter!Tick, Meter!Cardinality, Money!Meter!Cardinality,
          Meter!IsFiniteSet, Money!Meter!IsFiniteSet, Meter!Fresh, Money!Meter!Fresh, Meter!Meter,
          Money!Meter!Meter, Meter!Fault, Money!Meter!Fault, Meter!Restored, Money!Meter!Restored,
          Meter!Deep, Money!Meter!Deep, Meter!Credit, Money!Meter!Credit, Meter!Billed,
          Money!Meter!Billed, Meter!Frozen, Money!Meter!Frozen, Meter!Reaped, Money!Meter!Reaped
  <2>3. vars' = vars => UNCHANGED Money!Meter!vars
    BY DEF vars, Money!Meter!vars
  <2> QED BY <2>1, <2>2, <2>3, Zenon
<1>3. On /\ Money!Meter!PaidTimeServed => PaidTimeServed
  BY Zenon DEF PaidTimeServed,
        Meter!PaidTimeServed, Money!Meter!PaidTimeServed, Meter!Cardinality,
        Money!Meter!Cardinality, Meter!IsFiniteSet, Money!Meter!IsFiniteSet, Meter!Terminal,
        Money!Meter!Terminal
<1>4. ~On => PaidTimeServed
  BY DEF PaidTimeServed
<1>5. Money!Meter!Spec => []Money!Meter!PaidTimeServed
  <2>1. Money!IsFiniteSet({1, 2})
    BY PairFinite, Zenon DEF Money!IsFiniteSet, IsFiniteSet
  <2> QED BY <2>1, Money!PaidTimeIsServed DEF Money!MeterConstants
<1>6. [Next]_vars => (On' <=> On)
  BY PartFixed
<1> HIDE DEF On
<1> QED BY <1>1, <1>2, <1>3, <1>4, <1>5, <1>6, PTL DEF Spec, Money!Meter!Spec

-----------------------------------------------------------------------------

\* While part names it, the machine takes the steps of ProofKeeper and no other.
LEMMA ProofsRefined ==
    /\ part = "proofs" /\ Init => Money!Proofs!Init
    /\ part = "proofs" /\ [Next]_vars => [Money!Proofs!Next]_(Money!Proofs!vars)
<1>1. part = "proofs" /\ Init => Money!Proofs!Init
  BY Zenon DEF Init,
        Proofs!Init, Money!Proofs!Init, Proofs!NoLease, Money!Proofs!NoLease, Proofs!NoRec,
        Money!Proofs!NoRec, Proofs!NoRound, Money!Proofs!NoRound, Proofs!NotEnding,
        Money!Proofs!NotEnding, Proofs!LongAgo, Money!Proofs!LongAgo
<1>2. part = "proofs" /\ [Next]_vars => [Money!Proofs!Next]_(Money!Proofs!vars)
  <2>1. part = "proofs" /\ Next => Proofs!Next
    BY Zenon DEF Next
  <2>2. ASSUME Proofs!Next PROVE Money!Proofs!Next
    <3>1. /\ Proofs!Tick <=> Money!Proofs!Tick
          /\ Proofs!ProofTick <=> Money!Proofs!ProofTick
          /\ Proofs!SignBatch <=> Money!Proofs!SignBatch
      BY ZenonT(60) DEF
          Proofs!Tick, Money!Proofs!Tick, Proofs!ProofTick, Money!Proofs!ProofTick,
          Proofs!SignBatch, Money!Proofs!SignBatch, Proofs!Smaller, Money!Proofs!Smaller,
          Proofs!LongAgo, Money!Proofs!LongAgo, Proofs!NoRound, Money!Proofs!NoRound,
          Proofs!Stalest, Money!Proofs!Stalest, Proofs!Cardinality, Money!Proofs!Cardinality,
          Proofs!IsFiniteSet, Money!Proofs!IsFiniteSet
    <3>2. /\ Proofs!BatchLands <=> Money!Proofs!BatchLands
          /\ Proofs!BatchLost <=> Money!Proofs!BatchLost
          /\ Proofs!Shutdown <=> Money!Proofs!Shutdown
          /\ Proofs!Exit <=> Money!Proofs!Exit
      BY ZenonT(60) DEF
          Proofs!BatchLands, Money!Proofs!BatchLands, Proofs!BatchLost, Money!Proofs!BatchLost,
          Proofs!Shutdown, Money!Proofs!Shutdown, Proofs!Exit, Money!Proofs!Exit, Proofs!Lands,
          Money!Proofs!Lands, Proofs!Checkpointed, Money!Proofs!Checkpointed, Proofs!NoRound,
          Money!Proofs!NoRound, Proofs!Fault, Money!Proofs!Fault, Proofs!Ending,
          Money!Proofs!Ending, Proofs!NoRec, Money!Proofs!NoRec, Proofs!NotEnding,
          Money!Proofs!NotEnding, Proofs!Through, Money!Proofs!Through, Proofs!Smaller,
          Money!Proofs!Smaller, Proofs!Budget, Money!Proofs!Budget
    <3>3. ASSUME NEW x
          PROVE  /\ Proofs!Claim(x) <=> Money!Proofs!Claim(x)
                 /\ Proofs!Renew(x) <=> Money!Proofs!Renew(x)
                 /\ Proofs!SignFinal(x) <=> Money!Proofs!SignFinal(x)
      BY ZenonT(60) DEF
          Proofs!Claim, Money!Proofs!Claim, Proofs!Renew, Money!Proofs!Renew, Proofs!SignFinal,
          Money!Proofs!SignFinal, Proofs!NoRec, Money!Proofs!NoRec, Proofs!NotEnding,
          Money!Proofs!NotEnding, Proofs!Smaller, Money!Proofs!Smaller
    <3>4. ASSUME NEW x
          PROVE  /\ Proofs!FinalLands(x) <=> Money!Proofs!FinalLands(x)
                 /\ Proofs!FinalLost(x) <=> Money!Proofs!FinalLost(x)
                 /\ Proofs!ReleaseLands(x) <=> Money!Proofs!ReleaseLands(x)
      BY ZenonT(60) DEF
          Proofs!FinalLands, Money!Proofs!FinalLands, Proofs!FinalLost, Money!Proofs!FinalLost,
          Proofs!ReleaseLands, Money!Proofs!ReleaseLands, Proofs!Lands, Money!Proofs!Lands,
          Proofs!Checkpointed, Money!Proofs!Checkpointed, Proofs!AfterProof,
          Money!Proofs!AfterProof, Proofs!Fault, Money!Proofs!Fault, Proofs!NotEnding,
          Money!Proofs!NotEnding, Proofs!Through, Money!Proofs!Through, Proofs!Smaller,
          Money!Proofs!Smaller, Proofs!Budget, Money!Proofs!Budget
    <3>5. ASSUME NEW x, NEW y
          PROVE  Proofs!BeginEnding(x, y) <=> Money!Proofs!BeginEnding(x, y)
      BY ZenonT(60) DEF
          Proofs!BeginEnding, Money!Proofs!BeginEnding, Proofs!NoRec, Money!Proofs!NoRec,
          Proofs!Ending, Money!Proofs!Ending
    <3> QED BY <2>2, <3>1, <3>2, <3>3, <3>4, <3>5, ZenonT(60) DEF
          Proofs!Next, Money!Proofs!Next
  <2>3. vars' = vars => UNCHANGED Money!Proofs!vars
    BY DEF vars, Money!Proofs!vars
  <2> QED BY <2>1, <2>2, <2>3, Zenon
<1> QED BY <1>1, <1>2

\* In one instant the prover accepts one window at most
\* (EnclaveProofOfTime.checkpoint).
THEOREM IncompressibleComposed == Spec => []Incompressible
<1> DEFINE On == part = "proofs"
<1>1. On /\ Init => Money!Proofs!Init
  BY ProofsRefined
<1>2. On /\ [Next]_vars => [Money!Proofs!Next]_(Money!Proofs!vars)
  BY ProofsRefined
<1>3. On /\ Money!Proofs!Incompressible => Incompressible
  BY Zenon DEF Incompressible,
        Proofs!Incompressible, Money!Proofs!Incompressible
<1>4. ~On => Incompressible
  BY DEF Incompressible
<1>5. Money!Proofs!Spec => []Money!Proofs!Incompressible
  BY Money!TimeIsIncompressible DEF Money!ProverConstants
<1>6. [Next]_vars => (On' <=> On)
  BY PartFixed
<1> HIDE DEF On
<1> QED BY <1>1, <1>2, <1>3, <1>4, <1>5, <1>6, PTL DEF Spec, Money!Proofs!Spec

\* An orderly hand-back settles what was served before it releases (proveAndRelease,
\* releaseClaimsOnShutdown).
THEOREM HandBackPaysUpComposed == Spec => HandBackPaysUp
<1> DEFINE On == part = "proofs"
<1>1. On /\ Init => Money!Proofs!Init
  BY ProofsRefined
<1>2. On /\ [Next]_vars => [Money!Proofs!Next]_(Money!Proofs!vars)
  BY ProofsRefined
<1>3. On /\ [Next]_vars /\ [Money!Proofs!PaysUp]_(Money!Proofs!vars) => [part = "proofs" => Proofs!PaysUp]_vars
  <2>1. Money!Proofs!PaysUp => Proofs!PaysUp
    BY Zenon DEF
        Proofs!PaysUp, Money!Proofs!PaysUp, Proofs!ReleaseLands, Money!Proofs!ReleaseLands,
        Proofs!Smaller, Money!Proofs!Smaller, Proofs!NotEnding, Money!Proofs!NotEnding
  <2>2. On /\ Next => UNCHANGED <<part, h, i, j, k, l, m, n, o>>
    BY ZenonT(60) DEF Next
  <2>3. UNCHANGED <<part, h, i, j, k, l, m, n, o>> /\ UNCHANGED Money!Proofs!vars => UNCHANGED vars
    BY DEF vars, Money!Proofs!vars
  <2> HIDE DEF On
  <2> QED BY <2>1, <2>2, <2>3, ZenonT(60)
<1>4. ~On => [part = "proofs" => Proofs!PaysUp]_vars
  OBVIOUS
<1>5. Money!Proofs!Spec => [][Money!Proofs!PaysUp]_(Money!Proofs!vars)
  BY Money!HandBackIsPaid DEF Money!HandBackConstants, Money!ProverConstants
<1>6. [Next]_vars => (On' <=> On)
  BY PartFixed
<1> HIDE DEF On
<1> QED BY <1>1, <1>2, <1>3, <1>4, <1>5, <1>6, PTL DEF Spec, HandBackPaysUp, Money!Proofs!Spec
================================================================================
