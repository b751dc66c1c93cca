--------------------------- MODULE LeaseKeeperProofs ---------------------------
(***************************************************************************)
(* Proofs about LeaseKeeper, for every set of deployments, every quantum,  *)
(* margin, grace and bound, and every combination of disturbances.         *)
(*                                                                         *)
(* TypeOK is not inductive: what a receipt writes into a record comes from *)
(* the queue, what an adoption writes comes from a call that read it off a *)
(* page, and the queue stays bounded only because nothing is sent without  *)
(* room for it.  KeeperInv adds the types of all that is in flight, and    *)
(* the room.                                                               *)
(***************************************************************************)
EXTENDS LeaseKeeper, FiniteSetTheorems, TLAPS

Leases == [runner : Parties, left : Int]
Rows == [runner : Parties, left : Int, active : BOOLEAN, funds : BOOLEAN]
Records == [st : Statuses, left : Int, strikes : 0 .. 1,
            renewing : BOOLEAN, resting : BOOLEAN, reaped : BOOLEAN]
Transactions == [verb : {"claim", "renew", "release"}, id : Ids,
                 by : {"renew", "audit", "claim", "release"}, n : Int]
Attempts == [id : Ids, resume : BOOLEAN, left : Int]

LedgerTyped == /\ lease \in [Ids -> Leases]
               /\ active \in [Ids -> BOOLEAN]
               /\ funds \in [Ids -> 0 .. MaxFunds]

ReadsTyped == prev \in [Ids -> Rows] /\ page \in [Ids -> Rows]

RecordsTyped == rec \in [Ids -> Records]

FlightTyped == trying \subseteq Attempts /\ late \subseteq Transactions
               /\ retry \subseteq Transactions

\* Nothing is sent without room for it.
QueueBounded == txq \in Seq(Transactions) /\ Len(txq) <= Room

KeeperInv == LedgerTyped /\ ReadsTyped /\ RecordsTyped /\ FlightTyped /\ QueueBounded

-----------------------------------------------------------------------------
(* The operators                                                             *)

\* A countdown stays a number.
LEMMA DownInt ==
    ASSUME NEW n \in Int, NEW floor \in Int PROVE Down(n, floor) \in Int
BY DEF Down

\* The constants, one by one.
LEMMA ConstantsNat ==
    /\ Quantum \in Nat /\ Margin \in Nat /\ Grace \in Nat
    /\ MaxFunds \in Nat /\ MaxQueue \in Nat /\ MaxFaults \in Nat
BY KeeperAssumption

\* The queue always has room for one transaction, and for no more than the bound.
LEMMA RoomNat == Room \in Nat /\ 1 <= Room + 1 /\ Room <= MaxQueue + 1
BY ConstantsNat DEF Room

\* A clock tick keeps rows of every kind.
LEMMA TickRowsTyped ==
    ASSUME NEW floor \in Int
    PROVE  /\ \A f \in [Ids -> Leases] : TickRows(f, floor) \in [Ids -> Leases]
           /\ \A f \in [Ids -> Rows] : TickRows(f, floor) \in [Ids -> Rows]
           /\ \A f \in [Ids -> Records] : TickRows(f, floor) \in [Ids -> Records]
<1>1. ASSUME NEW f \in [Ids -> Leases] PROVE TickRows(f, floor) \in [Ids -> Leases]
  <2>1. ASSUME NEW id \in Ids PROVE [f[id] EXCEPT !.left = Down(@, floor)] \in Leases
    <3>1. Down(f[id].left, floor) \in Int
      BY DownInt DEF Leases
    <3> QED BY <3>1 DEF Leases
  <2> QED BY <2>1 DEF TickRows
<1>2. ASSUME NEW f \in [Ids -> Rows] PROVE TickRows(f, floor) \in [Ids -> Rows]
  <2>1. ASSUME NEW id \in Ids PROVE [f[id] EXCEPT !.left = Down(@, floor)] \in Rows
    <3>1. Down(f[id].left, floor) \in Int
      BY DownInt DEF Rows
    <3> QED BY <3>1 DEF Rows
  <2> QED BY <2>1 DEF TickRows
<1>3. ASSUME NEW f \in [Ids -> Records] PROVE TickRows(f, floor) \in [Ids -> Records]
  <2>1. ASSUME NEW id \in Ids PROVE [f[id] EXCEPT !.left = Down(@, floor)] \in Records
    <3>1. Down(f[id].left, floor) \in Int
      BY DownInt DEF Records
    <3> QED BY <3>1 DEF Records
  <2> QED BY <2>1 DEF TickRows
<1> QED BY <1>1, <1>2, <1>3

\* A row read off the ledger is a row.
LEMMA RowTyped == ASSUME LedgerTyped, NEW id \in Ids PROVE Row(id) \in Rows
BY ConstantsNat DEF LedgerTyped, Leases, Rows, Row

\* The record of a fresh adoption, and a missing record.
LEMMA FreshRecords == NoRec \in Records /\ \A left \in Int : NewRec(left) \in Records
<1>1. \A left \in Int : NewRec(left) \in Records
  BY DEF NewRec, Records, Statuses, Terminal
<1>2. NewRec(-1 - Grace) \in Records
  BY <1>1, ConstantsNat
<1> HIDE DEF NewRec
<1>3. NoRec \in Records
  BY <1>2 DEF NoRec, Records, Statuses, Terminal
<1> QED BY <1>1, <1>3

\* A teardown leaves a record.
LEMMA TeardownTyped ==
    ASSUME RecordsTyped, NEW id \in Ids, NEW st \in Statuses
    PROVE  Teardown(id, st) \in Records
BY FreshRecords DEF Teardown, RecordsTyped, Records

\* A strike leaves a record.
LEMMA StruckTyped ==
    ASSUME RecordsTyped, NEW id \in Ids PROVE Struck(id) \in Records
<1>1. Teardown(id, "expired") \in Records
  BY TeardownTyped DEF Statuses, Terminal
<1> QED BY <1>1 DEF Struck, RecordsTyped, Records

\* What a claim or a renewal buys is paid out of the balance.
LEMMA QuantityBounded ==
    ASSUME LedgerTyped, NEW id \in Ids PROVE Quantity(id) \in 0 .. funds[id]
BY ConstantsNat DEF LedgerTyped, Quantity

\* A transaction that lands, or reverts, leaves a ledger.
LEMMA LandTyped ==
    ASSUME LedgerTyped, NEW tx \in Transactions, Land(tx)
    PROVE  LedgerTyped'
<1>1. tx.id \in Ids /\ tx.verb \in {"claim", "renew", "release"}
  BY DEF Transactions
<1>2. Quantity(tx.id) \in 0 .. funds[tx.id] /\ funds[tx.id] \in 0 .. MaxFunds
  BY <1>1, QuantityBounded DEF LedgerTyped
<1>3. lease[tx.id] \in Leases /\ lease[tx.id].left \in Int
  BY <1>1 DEF LedgerTyped, Leases
<1>4. LeaseAfter(tx) \in Leases
  BY <1>1, <1>2, <1>3, ConstantsNat DEF LeaseAfter, Leases, Parties
<1>5. FundsAfter(tx) \in 0 .. MaxFunds
  BY <1>1, <1>2, <1>3, ConstantsNat DEF FundsAfter, Refund
<1> HIDE DEF Accepted
<1> QED BY <1>4, <1>5 DEF Land, LedgerTyped

\* A transaction is built from its parts.
LEMMA TxTyped ==
    ASSUME NEW verb \in {"claim", "renew", "release"}, NEW id \in Ids,
           NEW by \in {"renew", "audit", "claim", "release"}, NEW n \in Int
    PROVE  Tx(verb, id, by, n) \in Transactions
BY DEF Tx, Transactions

\* What is sent into a queue with room leaves it bounded.
LEMMA SendBounded ==
    ASSUME NEW q \in Seq(Transactions), Len(q) < Room, NEW tx \in Transactions
    PROVE  Append(q, tx) \in Seq(Transactions) /\ Len(Append(q, tx)) <= Room
BY RoomNat

\* The head leaves a shorter queue.
LEMMA TailBounded ==
    ASSUME QueueBounded, txq # <<>>
    PROVE  /\ Head(txq) \in Transactions /\ Tail(txq) \in Seq(Transactions)
           /\ Len(Tail(txq)) < Room
<1>1. Len(txq) \in Nat /\ Len(Tail(txq)) = Len(txq) - 1
  BY DEF QueueBounded
<1> QED BY <1>1, RoomNat DEF QueueBounded

\* How the head of the queue ends leaves a ledger, and what may still land.
LEMMA HeadEndsTyped ==
    ASSUME LedgerTyped, late \subseteq Transactions, NEW tx \in Transactions,
           NEW ok \in BOOLEAN, NEW left \in Int, HeadEnds(tx, ok, left)
    PROVE  LedgerTyped' /\ late' \subseteq Transactions
<1>1. CASE Land(tx) /\ UNCHANGED <<late, faults>>
  BY <1>1, LandTyped
<1>2. CASE late' = late \union {tx} /\ UNCHANGED ledgerVars
  BY <1>2 DEF LedgerTyped, ledgerVars
<1> QED BY <1>1, <1>2 DEF HeadEnds

\* An adoption installs a record or hands the lease back.
LEMMA AdoptTyped ==
    ASSUME RecordsTyped, NEW id \in Ids, NEW left \in Int,
           NEW q \in Seq(Transactions), Len(q) < Room, Adopt(id, left, q)
    PROVE  /\ RecordsTyped'
           /\ txq' \in Seq(Transactions) /\ Len(txq') <= Room
<1>1. Tx("release", id, "release", 1) \in Transactions
  BY TxTyped
<1>2. /\ Append(q, Tx("release", id, "release", 1)) \in Seq(Transactions)
      /\ Len(Append(q, Tx("release", id, "release", 1))) <= Room
  BY <1>1, SendBounded
<1>3. Len(q) \in Nat /\ Len(q) <= Room
  BY RoomNat
<1>4. CASE txq' = q /\ rec' = rec
  BY <1>3, <1>4 DEF RecordsTyped
<1>5. CASE txq' = q /\ rec' = [rec EXCEPT ![id] = NewRec(left)]
  BY <1>3, <1>5, FreshRecords DEF RecordsTyped
<1>6. CASE /\ txq' = Append(q, Tx("release", id, "release", 1))
           /\ rec' = [rec EXCEPT ![id] = NoRec]
  BY <1>2, <1>6, FreshRecords DEF RecordsTyped
<1> QED BY <1>4, <1>5, <1>6 DEF Adopt

\* A finite set is listed as a sequence of its own length.
LEMMA SetListed ==
    ASSUME NEW S, IsFiniteSet(S)
    PROVE  SetToSeqOf(S) \in Seq(S) /\ Len(SetToSeqOf(S)) = Cardinality(S)
<1> DEFINE n == Cardinality(S)
<1>1. n \in Nat /\ ExistsBijection(1 .. n, S)
  BY FS_CardinalityType
<1> HIDE DEF n
<1>2. \E q \in [1 .. n -> S] : \A i, j \in DOMAIN q : i # j => q[i] # q[j]
  <2>1. PICK q \in Bijection(1 .. n, S) : TRUE
    BY <1>1 DEF ExistsBijection
  <2>2. q \in [1 .. n -> S] /\ \A i, j \in 1 .. n : q[i] = q[j] => i = j
    BY <2>1 DEF Bijection, Injection, IsInjective
  <2> QED BY <2>2
<1>3. SetToSeqOf(S) \in [1 .. n -> S]
  BY <1>2 DEF SetToSeqOf, n
<1> QED BY <1>1, <1>3 DEF n

\* Handing back a set of deployments takes no more room than there are of them.
LEMMA ReleasesListed ==
    ASSUME NEW S \in SUBSET Ids
    PROVE  /\ SetToSeqOf(ReleaseJobs(S)) \in Seq(Transactions)
           /\ Len(SetToSeqOf(ReleaseJobs(S))) <= Cardinality(S)
<1> DEFINE f == [id \in S |-> Tx("release", id, "release", 1)]
<1>1. IsFiniteSet(S)
  BY KeeperAssumption, FS_Subset
<1>2. f \in Surjection(S, ReleaseJobs(S))
  BY DEF Surjection, ReleaseJobs
<1>3. IsFiniteSet(ReleaseJobs(S)) /\ Cardinality(ReleaseJobs(S)) <= Cardinality(S)
  <2> HIDE DEF f
  <2> QED BY <1>1, <1>2, FS_Surjection
<1>4. ReleaseJobs(S) \subseteq Transactions
  BY TxTyped DEF ReleaseJobs
<1>5. SetToSeqOf(ReleaseJobs(S)) \in Seq(ReleaseJobs(S))
      /\ Len(SetToSeqOf(ReleaseJobs(S))) = Cardinality(ReleaseJobs(S))
  BY <1>3, SetListed
<1>6. SetToSeqOf(ReleaseJobs(S)) \in Seq(Transactions)
  <2> HIDE DEF ReleaseJobs
  <2> QED BY <1>4, <1>5
<1> QED BY <1>3, <1>5, <1>6

\* The queue, when it is left alone, sent into, and served.
LEMMA QueueKept == ASSUME QueueBounded, UNCHANGED <<txq, upset>> PROVE QueueBounded'
BY DEF QueueBounded, Room

LEMMA QueueSent ==
    ASSUME QueueBounded, HasRoom, upset' = upset,
           NEW tx \in Transactions, txq' = Append(txq, tx)
    PROVE  QueueBounded'
BY SendBounded DEF QueueBounded, HasRoom, Room

LEMMA QueueServed ==
    ASSUME QueueBounded, txq # <<>>, upset' = upset, txq' = Tail(txq)
    PROVE  QueueBounded'
<1>1. Tail(txq) \in Seq(Transactions) /\ Len(Tail(txq)) < Room
  BY TailBounded
<1>2. Len(Tail(txq)) \in Nat
  BY <1>1
<1> QED BY <1>1, <1>2, RoomNat DEF QueueBounded, Room

-----------------------------------------------------------------------------
(* Every step keeps KeeperInv                                                *)

\* One tick of the clock.
LEMMA TickKeeps == KeeperInv /\ Tick => KeeperInv'
<1> SUFFICES ASSUME KeeperInv, Tick PROVE KeeperInv'
  OBVIOUS
<1>0. -1 \in Int
  OBVIOUS
<1>1. LedgerTyped'
  <2>1. TickRows(lease, -1) \in [Ids -> Leases]
    BY <1>0, TickRowsTyped DEF KeeperInv, LedgerTyped
  <2> QED BY <2>1 DEF KeeperInv, LedgerTyped, Tick
<1>2. ReadsTyped'
  <2>1. TickRows(prev, -1) \in [Ids -> Rows] /\ TickRows(page, -1) \in [Ids -> Rows]
    BY <1>0, TickRowsTyped DEF KeeperInv, ReadsTyped
  <2> QED BY <2>1 DEF ReadsTyped, Tick
<1>3. RecordsTyped'
  <2>1. -1 - Grace \in Int
    BY ConstantsNat
  <2> QED BY <2>1, TickRowsTyped DEF KeeperInv, RecordsTyped, Tick
<1>4. FlightTyped'
  <2>1. ASSUME NEW t \in trying
        PROVE  [t EXCEPT !.left = IF t.resume THEN Down(t.left, -1) ELSE t.left] \in Attempts
    <3>1. t \in Attempts /\ t.left \in Int
      BY DEF KeeperInv, FlightTyped, Attempts
    <3>2. Down(t.left, -1) \in Int
      BY <1>0, <3>1, DownInt
    <3> QED BY <3>1, <3>2 DEF Attempts
  <2> QED BY <2>1 DEF KeeperInv, FlightTyped, Tick
<1>5. QueueBounded'
  BY QueueKept DEF KeeperInv, Tick
<1> QED BY <1>1, <1>2, <1>3, <1>4, <1>5 DEF KeeperInv

\* The owner, the rivals and the money.
LEMMA LedgerMovesKeep ==
    ASSUME KeeperInv, NEW id \in Ids,
           SetActive(id) \/ Fund(id) \/ OtherClaims(id) \/ OtherReleases(id)
    PROVE  KeeperInv'
<1> USE DEF KeeperInv, readVars, BoxVars
<1>1. UNCHANGED <<prev, page, rec, trying, late, retry, txq, upset>>
  BY DEF SetActive, Fund, OtherClaims, OtherReleases
<1>2. LedgerTyped'
  <2>1. CASE SetActive(id)
    BY <2>1 DEF SetActive, LedgerTyped
  <2>2. CASE Fund(id)
    BY <2>2, ConstantsNat DEF Fund, LedgerTyped
  <2>3. CASE OtherClaims(id)
    <3>1. Quantity(id) \in 0 .. funds[id] /\ funds[id] \in 0 .. MaxFunds
      BY QuantityBounded DEF LedgerTyped
    <3>2. [runner |-> "them", left |-> Quantity(id)] \in Leases
      BY <3>1 DEF Leases, Parties
    <3>3. funds[id] - Quantity(id) \in 0 .. MaxFunds
      BY <3>1, ConstantsNat
    <3> QED BY <2>3, <3>2, <3>3 DEF OtherClaims, LedgerTyped
  <2>4. CASE OtherReleases(id)
    <3>1. [runner |-> "none", left |-> -1] \in Leases
      BY DEF Leases, Parties
    <3> QED BY <2>4, <3>1 DEF OtherReleases, LedgerTyped
  <2> QED BY <2>1, <2>2, <2>3, <2>4
<1> QED BY <1>1, <1>2, QueueKept DEF ReadsTyped, RecordsTyped, FlightTyped

\* A transaction given up on lands after all.
LEMMA LateLandsKeeps == KeeperInv /\ LateLands => KeeperInv'
<1> SUFFICES ASSUME KeeperInv, NEW tx \in late, Land(tx), late' = late \ {tx},
                    UNCHANGED <<readVars, rec, trying, txq, retry, upset>>
             PROVE  KeeperInv'
  BY DEF LateLands
<1>1. LedgerTyped'
  BY LandTyped DEF KeeperInv, FlightTyped
<1> QED BY <1>1, QueueKept DEF KeeperInv, ReadsTyped, RecordsTyped, FlightTyped, readVars

\* What the box had sent when it died.
LEMMA RestartKeeps ==
    ASSUME KeeperInv, NEW records, records \in [Ids -> Records],
           NEW txs, txs \subseteq Transactions, Restart(records, txs)
    PROVE  KeeperInv'
<1> USE DEF KeeperInv
<1>1. LedgerTyped' /\ late' \subseteq Transactions
  <2>1. CASE late' = late \union txs /\ UNCHANGED ledgerVars
    BY <2>1 DEF LedgerTyped, FlightTyped, ledgerVars
  <2>2. CASE late' = late /\ UNCHANGED ledgerVars
    BY <2>2 DEF LedgerTyped, FlightTyped, ledgerVars
  <2>3. ASSUME NEW tx \in txs, Land(tx), late' = late
        PROVE  LedgerTyped' /\ late' \subseteq Transactions
    BY <2>3, LandTyped DEF FlightTyped
  <2> QED BY <2>1, <2>2, <2>3 DEF Restart, Afloat
<1>2. ReadsTyped'
  <2>1. NoPage \in [Ids -> Rows]
    BY DEF NoPage, NoRow, Rows, Parties
  <2> QED BY <2>1 DEF Restart, ReadsTyped
<1>3. QueueBounded'
  BY RoomNat DEF Restart, QueueBounded, Room
<1> QED BY <1>1, <1>2, <1>3 DEF Restart, RecordsTyped, FlightTyped

\* A crash, an update reboot and a shutdown leave records.
LEMMA LivesEndTyped ==
    ASSUME KeeperInv, Crash \/ Wipe \/ Shutdown PROVE KeeperInv'
<1> USE DEF KeeperInv
<1>1. InFlight \subseteq Transactions
  BY TailBounded DEF InFlight
<1>2. CASE Crash
  <2>1. ASSUME NEW id \in Ids PROVE Restored(rec[id]) \in Records
    BY DEF Restored, RecordsTyped, Records, Statuses, Terminal
  <2> HIDE DEF Restored
  <2>2. [id \in Ids |-> Restored(rec[id])] \in [Ids -> Records]
    BY <2>1
  <2> QED BY <1>1, <1>2, <2>2, RestartKeeps DEF Crash
<1>3. CASE Wipe
  <2>1. [id \in Ids |-> NoRec] \in [Ids -> Records]
    BY FreshRecords
  <2> QED BY <1>1, <1>3, <2>1, RestartKeeps DEF Wipe
<1>4. CASE Shutdown
  <2> DEFINE records == [id \in Ids |-> IF Held(id) THEN Teardown(id, "terminated")
                                                    ELSE rec[id]]
  <2>1. PICK S \in SUBSET {id \in Ids : Held(id)} :
            Restart(records, InFlight \union ReleaseJobs(S))
    BY <1>4 DEF Shutdown
  <2>2. records \in [Ids -> Records]
    <3>1. "terminated" \in Statuses
      BY DEF Statuses, Terminal
    <3> QED BY <3>1, TeardownTyped DEF RecordsTyped
  <2>3. ReleaseJobs(S) \subseteq Transactions
    BY <2>1, TxTyped DEF ReleaseJobs
  <2> HIDE DEF records
  <2> QED BY <1>1, <2>1, <2>2, <2>3, RestartKeeps
<1> QED BY <1>2, <1>3, <1>4

\* A release of one deployment is a transaction.
LEMMA ReleaseTyped ==
    ASSUME NEW id \in Ids PROVE Tx("release", id, "release", 1) \in Transactions
BY TxTyped

\* Stop here and hand the lease back.
LEMMA HandBackKeeps ==
    ASSUME KeeperInv, NEW id \in Ids, NEW st \in Statuses, NEW standDown,
           HandBack(id, st, standDown)
    PROVE  KeeperInv'
<1> USE DEF KeeperInv, HandBack
<1>1. RecordsTyped'
  BY TeardownTyped DEF RecordsTyped
<1>2. QueueBounded'
  BY ReleaseTyped, QueueSent DEF Send
<1> QED BY <1>1, <1>2 DEF LedgerTyped, ReadsTyped, FlightTyped, ledgerVars, readVars

\* What a call carries off a row.
LEMMA CallTyped ==
    ASSUME NEW id \in Ids, NEW row \in Rows PROVE Call(id, row) \in Attempts
BY DEF Call, Attempts, Rows, Ours

LEMMA ClaimHintKeeps ==
    ASSUME KeeperInv, NEW id \in Ids, NEW forced, ClaimHint(id, forced)
    PROVE  KeeperInv'
<1> USE DEF KeeperInv, ClaimHint
<1>1. Call(id, Row(id)) \in Attempts
  BY RowTyped, CallTyped
<1>2. FlightTyped'
  BY <1>1 DEF FlightTyped
<1> QED BY <1>2, QueueKept
        DEF LedgerTyped, ReadsTyped, RecordsTyped, ledgerVars, readVars

\* Everything the box does to one record on its own clocks.
LEMMA BoxKeeps == ASSUME KeeperInv, NEW id \in Ids, Box(id) PROVE KeeperInv'
<1> USE DEF KeeperInv
<1>1. ASSUME UNCHANGED <<ledgerVars, prev, page, trying, late, retry, upset>>,
             RecordsTyped', QueueBounded'
      PROVE  KeeperInv'
  BY <1>1 DEF LedgerTyped, ReadsTyped, FlightTyped, ledgerVars
<1>2. rec[id] \in Records
  BY DEF RecordsTyped
<1>3. CASE RenewLease(id)
  <2>1. RecordsTyped'
    BY <1>2, <1>3 DEF RenewLease, RecordsTyped, Records
  <2>2. Tx(IF Lapsed(id) THEN "claim" ELSE "renew", id, "renew", 1) \in Transactions
    BY TxTyped
  <2>3. QueueBounded'
    BY <1>3, <2>2, QueueSent DEF RenewLease, Send
  <2> QED BY <1>1, <1>3, <2>1, <2>3 DEF RenewLease, readVars
<1>4. CASE RestOver(id)
  <2>1. RecordsTyped'
    BY <1>2, <1>4 DEF RestOver, RecordsTyped, Records
  <2> QED BY <1>1, <1>4, <2>1, QueueKept DEF RestOver, readVars
<1>5. CASE HoldOver(id)
  BY <1>1, <1>5, QueueKept DEF HoldOver, RecordsTyped, readVars
<1>6. CASE ReapStart(id)
  <2>1. RecordsTyped'
    BY <1>2, <1>6 DEF ReapStart, RecordsTyped, Records
  <2> QED BY <1>1, <1>6, <2>1, QueueKept DEF ReapStart, readVars
<1>7. CASE ReapEnd(id)
  <2>1. Teardown(id, "expired") \in Records
    BY TeardownTyped DEF Statuses, Terminal
  <2>2. RecordsTyped'
    BY <1>7, <2>1 DEF ReapEnd, RecordsTyped
  <2> QED BY <1>1, <1>7, <2>2, QueueKept DEF ReapEnd, readVars
<1>8. ASSUME NEW ok \in BOOLEAN, LaunchEnds(id, ok) PROVE KeeperInv'
  <2>1. RecordsTyped'
    <3> DEFINE st == IF ok THEN "running" ELSE "failed"
    <3>1. st \in Statuses
      BY DEF Statuses, Terminal
    <3>2. rec' = [rec EXCEPT ![id] = [[rec[id] EXCEPT !.st = st] EXCEPT !.reaped = FALSE]]
      BY <1>8 DEF LaunchEnds, RecordsTyped
    <3> HIDE DEF st
    <3>3. [[rec[id] EXCEPT !.st = st] EXCEPT !.reaped = FALSE] \in Records
      BY <1>2, <3>1 DEF Records
    <3> QED BY <3>2, <3>3 DEF RecordsTyped
  <2>2. QueueBounded'
    <3>1. CASE ok
      BY <1>8, <3>1, QueueKept DEF LaunchEnds
    <3>2. CASE ~ok
      BY <1>8, <3>2, ReleaseTyped, QueueSent DEF LaunchEnds
    <3> QED BY <3>1, <3>2
  <2> QED BY <1>1, <1>8, <2>1, <2>2 DEF LaunchEnds
<1>9. CASE OldLaunchFails(id)
  <2>1. QueueBounded'
    BY <1>9, ReleaseTyped, QueueSent DEF OldLaunchFails, Send
  <2> QED BY <1>1, <1>9, <2>1 DEF OldLaunchFails, RecordsTyped
<1>10. CASE OldLaunchSucceeds(id)
  BY <1>1, <1>10, QueueKept DEF OldLaunchSucceeds, RecordsTyped
<1> QED BY <1>3, <1>4, <1>5, <1>6, <1>7, <1>8, <1>9, <1>10 DEF Box

\* A watchdog round hands back no more than the queue has room for.
LEMMA ReachTickKeeps ==
    ASSUME KeeperInv, NEW verdict, ReachTick(verdict) PROVE KeeperInv'
<1> USE DEF KeeperInv
<1> DEFINE trips == ReachStep(verdict).tripped /\ ~reach.tripped
           lost == {id \in Ids : trips /\ Held(id)}
<1>1. /\ Len(txq) + Cardinality(lost) <= Room
      /\ rec' = [id \in Ids |-> IF id \in lost THEN Teardown(id, "expired") ELSE rec[id]]
      /\ txq' = txq \o SetToSeqOf(ReleaseJobs(lost))
      /\ UNCHANGED <<ledgerVars, prev, page, trying, late, retry, upset>>
  BY DEF ReachTick
<1>2. lost \in SUBSET Ids
  OBVIOUS
<1> HIDE DEF lost
<1>3. RecordsTyped'
  <2>1. "expired" \in Statuses
    BY DEF Statuses, Terminal
  <2> QED BY <1>1, <2>1, TeardownTyped DEF RecordsTyped
<1>4. QueueBounded'
  <2> DEFINE q == SetToSeqOf(ReleaseJobs(lost))
  <2>1. q \in Seq(Transactions) /\ Len(q) <= Cardinality(lost)
    BY <1>2, ReleasesListed
  <2>2. Cardinality(lost) \in Nat
    BY <1>2, KeeperAssumption, FS_Subset, FS_CardinalityType
  <2> HIDE DEF q
  <2>3. txq \o q \in Seq(Transactions) /\ Len(txq \o q) = Len(txq) + Len(q)
        /\ Len(txq) \in Nat /\ Len(q) \in Nat
    BY <2>1 DEF QueueBounded
  <2>4. txq' = txq \o q
    BY <1>1 DEF q
  <2>5. Len(txq \o q) <= Room
    BY <1>1, <2>1, <2>2, <2>3, RoomNat
  <2> QED BY <1>1, <2>3, <2>4, <2>5 DEF QueueBounded, Room
<1> QED BY <1>1, <1>3, <1>4 DEF LedgerTyped, ReadsTyped, FlightTyped, ledgerVars

\* The audit of one row.
LEMMA AuditKeeps == ASSUME KeeperInv, NEW id \in Ids, Audit(id) PROVE KeeperInv'
<1> USE DEF KeeperInv
<1>1. ASSUME UNCHANGED <<ledgerVars, prev, page, trying, late, retry, upset>>,
             RecordsTyped', QueueBounded'
      PROVE  KeeperInv'
  BY <1>1 DEF LedgerTyped, ReadsTyped, FlightTyped, ledgerVars
<1>2. rec[id] \in Records
  BY DEF RecordsTyped
<1>3. CASE AuditSkip(id)
  BY <1>1, <1>3, QueueKept DEF AuditSkip, RecordsTyped, BoxVars
<1>4. CASE AuditHealthy(id)
  <2>1. RecordsTyped'
    BY <1>2, <1>4 DEF AuditHealthy, RecordsTyped, Records
  <2> QED BY <1>1, <1>4, <2>1, QueueKept DEF AuditHealthy
<1>5. CASE AuditStopped(id)
  <2>1. Teardown(id, "terminated") \in Records
    BY TeardownTyped DEF Statuses, Terminal
  <2>2. RecordsTyped'
    BY <1>5, <2>1 DEF AuditStopped, RecordsTyped
  <2>3. QueueBounded'
    <3>1. CASE Ours(page[id])
      BY <1>5, <3>1, ReleaseTyped, QueueSent DEF AuditStopped
    <3>2. CASE ~Ours(page[id])
      BY <1>5, <3>2, QueueKept DEF AuditStopped
    <3> QED BY <3>1, <3>2
  <2> QED BY <1>1, <1>5, <2>2, <2>3 DEF AuditStopped
<1>6. CASE AuditReacquire(id)
  <2>1. Tx("claim", id, "audit", 1) \in Transactions
    BY TxTyped
  <2>2. QueueBounded'
    BY <1>6, <2>1, QueueSent DEF AuditReacquire, Send
  <2> QED BY <1>1, <1>6, <2>2 DEF AuditReacquire, RecordsTyped
<1>7. CASE AuditStrike(id)
  <2>1. RecordsTyped'
    BY <1>7, StruckTyped DEF AuditStrike, RecordsTyped
  <2> QED BY <1>1, <1>7, <2>1, QueueKept DEF AuditStrike
<1> QED BY <1>3, <1>4, <1>5, <1>6, <1>7 DEF Audit

\* Reading the ledger, and sweeping what was read.
LEMMA SweepKeeps ==
    ASSUME KeeperInv,
           \/ FetchLedger \/ FetchFails \/ SweepStart \/ SweepEnds
           \/ \E id \in Ids : SweepOwn(id) \/ SweepRest(id)
    PROVE  KeeperInv'
<1> USE DEF KeeperInv
<1>1. ASSUME UNCHANGED <<ledgerVars, rec, txq, late, retry, upset>>,
             ReadsTyped', trying' \subseteq Attempts
      PROVE  KeeperInv'
  BY <1>1, QueueKept DEF LedgerTyped, RecordsTyped, FlightTyped, ledgerVars
<1>2. NoRow \in Rows
  BY DEF NoRow, Rows, Parties
<1>3. CASE FetchLedger
  <2>1. \A id \in Ids : Row(id) \in Rows /\ prev[id] \in Rows
    BY RowTyped DEF ReadsTyped
  <2>2. page' \in [Ids -> Rows]
    BY <1>3, <2>1 DEF FetchLedger
  <2>3. prev' \in [Ids -> Rows]
    BY <1>3, <2>1 DEF FetchLedger, ReadsTyped
  <2> QED BY <1>1, <1>3, <2>2, <2>3 DEF FetchLedger, ReadsTyped, BoxVars, FlightTyped
<1>4. CASE FetchFails
  BY <1>1, <1>4 DEF FetchFails, ReadsTyped, FlightTyped
<1>5. CASE SweepStart
  BY <1>1, <1>5 DEF SweepStart, ReadsTyped, FlightTyped, BoxVars
<1>6. CASE SweepEnds
  <2>1. NoPage \in [Ids -> Rows]
    BY <1>2 DEF NoPage
  <2> QED BY <1>1, <1>6, <2>1 DEF SweepEnds, ReadsTyped, FlightTyped, BoxVars
<1>7. ASSUME NEW id \in Ids, SweepOwn(id) \/ SweepRest(id) PROVE KeeperInv'
  <2>1. Call(id, page[id]) \in Attempts
    BY CallTyped DEF ReadsTyped
  <2>2. trying' \subseteq Attempts
    BY <1>7, <2>1 DEF SweepOwn, SweepRest, Consider, FlightTyped
  <2>3. ReadsTyped'
    BY <1>2, <1>7 DEF SweepOwn, SweepRest, ReadsTyped
  <2> QED BY <1>1, <1>7, <2>2, <2>3 DEF SweepOwn, SweepRest
<1> QED BY <1>3, <1>4, <1>5, <1>6, <1>7

\* The calls between a decision and its transaction.
LEMMA CallsKeep == ASSUME KeeperInv, Calls PROVE KeeperInv'
<1> USE DEF KeeperInv
<1>1. ASSUME UNCHANGED <<ledgerVars, prev, page, late, upset>>,
             RecordsTyped', QueueBounded', trying' \subseteq trying, retry' \subseteq retry
      PROVE  KeeperInv'
  BY <1>1 DEF LedgerTyped, ReadsTyped, FlightTyped, ledgerVars
<1>2. txq \in Seq(Transactions) /\ (HasRoom => Len(txq) < Room)
  BY DEF QueueBounded, HasRoom
<1>3. \A t \in trying : t.id \in Ids /\ t.left \in Int
  BY DEF FlightTyped, Attempts
<1>4. CASE TryResume
  <2>1. PICK t \in trying :
            /\ HasRoom /\ trying' = trying \ {t} /\ Adopt(t.id, t.left, txq)
            /\ UNCHANGED <<ledgerVars, prev, page, late, retry, upset>>
    BY <1>4 DEF TryResume
  <2>2. RecordsTyped' /\ txq' \in Seq(Transactions) /\ Len(txq') <= Room
    BY <1>2, <1>3, <2>1, AdoptTyped
  <2>3. QueueBounded'
    BY <2>1, <2>2 DEF QueueBounded, Room
  <2> QED BY <1>1, <2>1, <2>2, <2>3
<1>5. CASE TryClaim
  <2>1. PICK t \in trying :
            /\ HasRoom /\ trying' = trying \ {t}
            /\ txq' = Append(txq, Tx("claim", t.id, "claim", 1)) \/ txq' = txq
            /\ UNCHANGED <<ledgerVars, prev, page, rec, late, retry, upset>>
    BY <1>5 DEF TryClaim, Send
  <2>2. Tx("claim", t.id, "claim", 1) \in Transactions
    BY <1>3, TxTyped
  <2>3. QueueBounded'
    BY <2>1, <2>2, QueueKept, QueueSent
  <2> QED BY <1>1, <2>1, <2>3 DEF RecordsTyped
<1>6. CASE PrefetchFails
  BY <1>1, <1>6, QueueKept DEF PrefetchFails, RecordsTyped
<1>7. CASE ReleaseRetry
  <2>1. PICK tx \in retry :
            /\ HasRoom /\ txq' = Append(txq, tx) /\ retry' = retry \ {tx}
            /\ UNCHANGED <<ledgerVars, prev, page, rec, trying, late, upset>>
    BY <1>7 DEF ReleaseRetry, Send, readVars
  <2>2. QueueBounded'
    BY <2>1, QueueSent DEF FlightTyped
  <2> QED BY <1>1, <2>1, <2>2 DEF RecordsTyped
<1> QED BY <1>4, <1>5, <1>6, <1>7 DEF Calls

\* Whatever a receipt says is a number.
LEMMA LeftsInt == Lefts \subseteq Int
BY DEF Lefts

\* The receipt of the head of the queue, whoever waits for it.
LEMMA ReceiptsKeep == ASSUME KeeperInv, Receipts PROVE KeeperInv'
<1> USE DEF KeeperInv
<1>1. PICK ok \in BOOLEAN, left \in Lefts :
        /\ txq # <<>> /\ HeadEnds(Head(txq), ok, left)
        /\ UNCHANGED <<prev, page, trying, upset>>
        /\ \/ /\ rec' = [rec EXCEPT ![Head(txq).id] = Renewed(@, ok, left)]
              /\ txq' = Tail(txq) /\ retry' = retry
           \/ /\ rec' = [rec EXCEPT ![Head(txq).id] =
                    IF ok /\ Held(Head(txq).id) THEN [@ EXCEPT !.left = left, !.strikes = 0]
                                                ELSE Struck(Head(txq).id)]
              /\ txq' = Tail(txq) /\ retry' = retry
           \/ /\ IF ok THEN Adopt(Head(txq).id, left, Tail(txq))
                       ELSE txq' = Tail(txq) /\ rec' = rec
              /\ retry' = retry
           \/ /\ retry' = IF ok \/ Head(txq).n = Retries THEN retry
                          ELSE retry \union {[Head(txq) EXCEPT !.n = @ + 1]}
              /\ rec' = rec /\ txq' = Tail(txq)
  <2>1. CASE RenewReceipt
    BY <2>1 DEF RenewReceipt, readVars
  <2>2. CASE AuditReceipt
    BY <2>2 DEF AuditReceipt
  <2>3. CASE ClaimReceipt
    BY <2>3 DEF ClaimReceipt
  <2>4. CASE ReleaseReceipt
    BY <2>4 DEF ReleaseReceipt, readVars
  <2> QED BY <2>1, <2>2, <2>3, <2>4 DEF Receipts
<1> DEFINE tx == Head(txq)
<1>2. /\ tx \in Transactions /\ Tail(txq) \in Seq(Transactions)
      /\ Len(Tail(txq)) < Room
  BY <1>1, TailBounded
<1>3. tx.id \in Ids /\ tx.n \in Int /\ left \in Int
  BY <1>2, LeftsInt DEF Transactions
<1>4. LedgerTyped' /\ late' \subseteq Transactions
  BY <1>1, <1>2, <1>3, HeadEndsTyped DEF FlightTyped
<1>5. rec[tx.id] \in Records
  BY <1>3 DEF RecordsTyped
<1> HIDE DEF tx
<1>6. ASSUME RecordsTyped', QueueBounded', retry' \subseteq Transactions PROVE KeeperInv'
  BY <1>1, <1>4, <1>6 DEF ReadsTyped, FlightTyped
<1>7. txq' = Tail(txq) => QueueBounded'
  BY <1>1, QueueServed
<1>8. CASE /\ rec' = [rec EXCEPT ![tx.id] = Renewed(@, ok, left)]
           /\ txq' = Tail(txq) /\ retry' = retry
  <2>1. Renewed(rec[tx.id], ok, left) \in Records
    BY <1>3, <1>5 DEF Renewed, Records
  <2> QED BY <1>6, <1>7, <1>8, <2>1 DEF RecordsTyped, FlightTyped
<1>9. CASE /\ rec' = [rec EXCEPT ![tx.id] =
                  IF ok /\ Held(tx.id) THEN [@ EXCEPT !.left = left, !.strikes = 0]
                                       ELSE Struck(tx.id)]
           /\ txq' = Tail(txq) /\ retry' = retry
  <2>1. Struck(tx.id) \in Records
    BY <1>3, StruckTyped
  <2>2. [rec[tx.id] EXCEPT !.left = left, !.strikes = 0] \in Records
    <3> DEFINE r == [rec[tx.id] EXCEPT !.left = left]
    <3>1. r \in Records
      BY <1>3, <1>5 DEF Records
    <3> HIDE DEF r
    <3>2. [r EXCEPT !.strikes = 0] \in Records
      BY <3>1 DEF Records
    <3> QED BY <3>2 DEF r
  <2> QED BY <1>6, <1>7, <1>9, <2>1, <2>2 DEF RecordsTyped, FlightTyped
<1>10. CASE /\ IF ok THEN Adopt(tx.id, left, Tail(txq)) ELSE txq' = Tail(txq) /\ rec' = rec
            /\ retry' = retry
  <2>1. CASE ok
    <3>1. RecordsTyped' /\ txq' \in Seq(Transactions) /\ Len(txq') <= Room
      BY <1>2, <1>3, <1>10, <2>1, AdoptTyped
    <3>2. QueueBounded'
      BY <1>1, <3>1 DEF QueueBounded, Room
    <3> QED BY <1>6, <1>10, <3>1, <3>2 DEF FlightTyped
  <2>2. CASE ~ok
    BY <1>6, <1>7, <1>10, <2>2 DEF RecordsTyped, FlightTyped
  <2> QED BY <2>1, <2>2
<1>11. CASE /\ retry' = IF ok \/ tx.n = Retries THEN retry
                        ELSE retry \union {[tx EXCEPT !.n = @ + 1]}
            /\ rec' = rec /\ txq' = Tail(txq)
  <2>1. [tx EXCEPT !.n = tx.n + 1] \in Transactions
    BY <1>2, <1>3 DEF Transactions
  <2> QED BY <1>6, <1>7, <1>11, <2>1 DEF RecordsTyped, FlightTyped
<1> QED BY <1>1, <1>8, <1>9, <1>10, <1>11 DEF tx

-----------------------------------------------------------------------------
(* The claim loop keeps what it knows well formed, whatever happens to it: no *)
(* restart, lost receipt, stale page, repeated hint or refused adoption       *)
(* leaves a half-written record, a balance outside 0 .. MaxFunds, or a queue  *)
(* longer than its bound (claimPass, renewLeases, tryClaim, releaseLease).    *)

\* The initial state.
LEMMA KeeperStarts == Init => KeeperInv
<1> SUFFICES ASSUME Init PROVE KeeperInv
  OBVIOUS
<1>1. LedgerTyped
  BY ConstantsNat DEF Init, LedgerTyped, Leases, Parties
<1>2. ReadsTyped
  BY DEF Init, ReadsTyped, NoPage, NoRow, Rows, Parties
<1>3. RecordsTyped
  BY FreshRecords DEF Init, RecordsTyped
<1>4. FlightTyped
  BY DEF Init, FlightTyped
<1>5. QueueBounded
  BY RoomNat DEF Init, QueueBounded
<1> QED BY <1>1, <1>2, <1>3, <1>4, <1>5 DEF KeeperInv

\* Every step.
LEMMA KeeperSteps == KeeperInv /\ [Next]_vars => KeeperInv'
<1> SUFFICES ASSUME KeeperInv, [Next]_vars PROVE KeeperInv'
  OBVIOUS
<1>1. CASE Environment
  <2>1. CASE Tick
    BY <2>1, TickKeeps
  <2>2. CASE LateLands
    BY <2>2, LateLandsKeeps
  <2>3. CASE Crash \/ Wipe \/ Shutdown
    BY <2>3, LivesEndTyped
  <2>4. ASSUME NEW id \in Ids,
               SetActive(id) \/ Fund(id) \/ OtherClaims(id) \/ OtherReleases(id)
        PROVE  KeeperInv'
    BY <2>4, LedgerMovesKeep
  <2>5. ASSUME NEW id \in Ids,
               OperatorRelease(id) \/ \E evacuate \in BOOLEAN : OwnerDelete(id, evacuate)
        PROVE  KeeperInv'
    <3>1. "expired" \in Statuses /\ "terminated" \in Statuses
      BY DEF Statuses, Terminal
    <3> QED BY <2>5, <3>1, HandBackKeeps DEF OperatorRelease, OwnerDelete
  <2>6. ASSUME NEW id \in Ids, NEW forced \in BOOLEAN, ClaimHint(id, forced)
        PROVE  KeeperInv'
    BY <2>6, ClaimHintKeeps
  <2> QED BY <1>1, <2>1, <2>2, <2>3, <2>4, <2>5, <2>6 DEF Environment
<1>2. ASSUME NEW id \in Ids, Box(id) PROVE KeeperInv'
  BY <1>2, BoxKeeps
<1>3. CASE Pass
  BY <1>3, ReachTickKeeps, AuditKeeps, SweepKeeps DEF Pass
<1>4. CASE Calls
  BY <1>4, CallsKeep
<1>5. CASE Receipts
  BY <1>5, ReceiptsKeep
<1>6. CASE UNCHANGED vars
  BY <1>6, QueueKept DEF KeeperInv, LedgerTyped, ReadsTyped, RecordsTyped, FlightTyped, vars
<1> QED BY <1>1, <1>2, <1>3, <1>4, <1>5, <1>6 DEF Next

\* What the ledger and the box keep of a deployment is well formed in every
\* reachable state, and nothing is sent without room in the operator queue.
THEOREM KeeperTypeOK == Spec => []TypeOK
<1>1. KeeperInv => TypeOK
  <2> SUFFICES ASSUME KeeperInv PROVE TypeOK
    OBVIOUS
  <2>1. Len(txq) \in Nat /\ Len(txq) <= MaxQueue + 1
    BY RoomNat, ConstantsNat DEF KeeperInv, QueueBounded
  <2> QED BY <2>1 DEF KeeperInv, LedgerTyped, RecordsTyped, TypeOK, Leases, Records
<1> QED BY <1>1, KeeperStarts, KeeperSteps, PTL DEF Spec

=============================================================================
