----------------------------- MODULE PaymentProofs -----------------------------
(***************************************************************************)
(* Proofs about money, and what it buys, on the way through the system.    *)
(* Credit vaults (whose module this one extends): a signature that had its *)
(* effect was for a nonce its vault has passed, so it never runs again,    *)
(* and the sums over vaults and signatures move together.  The others are  *)
(* under names of their own.  Provisioner and top-ups: what stands on the  *)
(* chain for an order is one transaction per step, and its hash is on      *)
(* record before anything can be sent again.  Orders: whatever the cursor  *)
(* has passed was handled, or is in the logs in hand.  Pay per deploy: a   *)
(* payment the watcher has not marked is waited for.  Proofs of time: what *)
(* was accepted in one instant leaves no elapsed time to accept more.  The *)
(* pool of a box: only live records hold anything, and what they hold and  *)
(* what is still offered fit into the capacity.  Its cards: each learns,   *)
(* sells and gets back its own memory, in whole granules until it is one   *)
(* of a pool.                                                              *)
(***************************************************************************)
EXTENDS CreditVault, Sequences, SumLemmas

\* Of the components below; a name that two of them share carries its component's.
CONSTANTS
    Orders, MaxWalletTxs, MaxWalletFaults, FloatIds, Cap, Target, Ceiling, Refills,
    MaxFloatTxs, MaxFloatFaults, Quote, Confirmations, Rescan, Chunk, Catchup, Lag,
    MaxBlocks, MaxPays, MaxBookFaults, Pays, EthPays, MeterWindow, Confirm, Stale,
    MaxMeterFaults, ProofsIds, ProofsWindow, Interval, Quantum, PerTx, MaxProofsTime,
    MaxProofsFaults, TenantsIds, Capacity, Ttl, Silence, MaxVm, MaxTasks,
    MaxTenantsFaults, CardIds, PoolsIds, Whole, Context, Sizes, MaxProbes
VARIABLES
    prov, walletQueue, run, walletTxs, walletTorn, walletFaults, floatOrder, settling,
    floatTxs, float, credit, head, floatSilent, floatLimits, bookChain, bookOrder,
    booked, strays, reviews, bookDisk, refused, bookTorn, inHand, cursor, over, bookSeen,
    job, bookFaults, meterRec, meterChain, early, unpriced, meterSeen, meterQueue, busy,
    meterSilent, up, served, disk, meterTorn, meterFaults, proofsNow, lease, proofsRec, round, ending, burst,
    proofsFaults, tenantsRec, free, want, tasks, inst, beat, sweep, doomed, other,
    tenantsLimits, mode, total, vram, compute, ready, cores, slice, routed, clamped,
    probes

-----------------------------------------------------------------------------
(* Credit vaults                                                             *)

\* A customer's vault.
Account == [made : BOOLEAN, keys : SUBSET (Keys \union {Root, Extra}),
            nonce : Nat, bal : Nat, dep : Nat]

\* What an operation names: a kind, an amount, what was typed, a vault and its nonce.
Kinds == Moves \union {"control", "cancel", "addkey", "dropkey"}
OperationOk(p) ==
    /\ p.op \in Kinds /\ p.amt \in Nat /\ p.typed \in Nat
    /\ p.to \in Factories /\ p.nonce \in Nat

\* Signatures are told apart by their numbers, and move no more than was typed.
TapsOk ==
    /\ IsFiniteSet(taps) /\ Cardinality(taps) <= MaxTaps
    /\ \A t \in taps : /\ OperationOk(t) /\ t.amt <= t.typed
                       /\ t.n \in 1 .. Cardinality(taps)
    /\ \A t, u \in taps : t.n = u.n => t = u

\* A signature that had its effect was for a nonce its vault has passed.
LandedOk ==
    /\ landed \in [1 .. MaxTaps -> {0, 1}]
    /\ \A n \in 1 .. MaxTaps : n > Cardinality(taps) => landed[n] = 0
    /\ \A t \in taps : landed[t.n] = 1 => t.nonce < vault[t.to].nonce

Balances(v) == SumFunction([f \in Factories |-> v[f].bal + v[f].dep])
Deposits(v) == SumFunction([f \in Factories |-> v[f].dep])

MoneyOk ==
    /\ treasury \in Int /\ bought \in Int
    /\ Typed("refund") \in Int /\ Typed("fund") \in Int
    /\ Balances(vault) + treasury = bought
    /\ treasury <= Typed("refund")
    /\ Deposits(vault) <= Typed("fund")

VaultInv ==
    /\ book \in Factories /\ cached \in Factories
    /\ vault \in [Factories -> Account]
    /\ page # Closed => OperationOk(page)
    /\ TapsOk
    /\ LandedOk
    /\ MoneyOk

\* What the constants are: some factories, the first among them, and a bound.
Constants == IsFiniteSet(Factories) /\ 1 \in Factories /\ MaxTaps \in Nat

-----------------------------------------------------------------------------
(* Credit vaults: sums                                                       *)

\* Replacing one vault changes the totals by the difference.
LEMMA OneVault ==
    ASSUME IsFiniteSet(Factories), NEW v \in [Factories -> Account],
           NEW f \in Factories, NEW w \in Account
    PROVE  /\ [v EXCEPT ![f] = w] \in [Factories -> Account]
           /\ Balances(v) \in Int /\ Deposits(v) \in Int
           /\ Balances([v EXCEPT ![f] = w])
                = Balances(v) + ((w.bal + w.dep) - (v[f].bal + v[f].dep))
           /\ Deposits([v EXCEPT ![f] = w]) = Deposits(v) + (w.dep - v[f].dep)
<1> DEFINE b == [g \in Factories |-> v[g].bal + v[g].dep]
           d == [g \in Factories |-> v[g].dep]
           u == [v EXCEPT ![f] = w]
<1>1. \A x \in Account : x.bal \in Nat /\ x.dep \in Nat
  BY DEF Account
<1>2. b \in [Factories -> Int] /\ d \in [Factories -> Int]
  BY <1>1
<1>3. u \in [Factories -> Account] /\ u[f] = w /\ \A g \in Factories : g # f => u[g] = v[g]
  OBVIOUS
<1>4. w.bal + w.dep \in Int /\ w.dep \in Int
  BY <1>1
<1>5. [g \in Factories |-> u[g].bal + u[g].dep] = [b EXCEPT ![f] = w.bal + w.dep]
  <2> HIDE DEF u
  <2> QED BY <1>3
<1>6. [g \in Factories |-> u[g].dep] = [d EXCEPT ![f] = w.dep]
  <2> HIDE DEF u
  <2> QED BY <1>3
<1>7. b[f] = v[f].bal + v[f].dep /\ d[f] = v[f].dep
  OBVIOUS
<1>8. Balances(v) = SumFunction(b) /\ Deposits(v) = SumFunction(d)
  BY DEF Balances, Deposits
<1>9. Balances(u) = SumFunction([b EXCEPT ![f] = w.bal + w.dep])
  BY <1>5 DEF Balances
<1>10. Deposits(u) = SumFunction([d EXCEPT ![f] = w.dep])
  BY <1>6 DEF Deposits
<1> HIDE DEF b, d, u
<1>11. SumFunction(b) \in Int /\ SumFunction(d) \in Int
  BY <1>2, TableInt
<1>12. SumFunction([b EXCEPT ![f] = w.bal + w.dep]) = SumFunction(b) + ((w.bal + w.dep) - b[f])
  <2> DEFINE x == w.bal + w.dep
  <2> HIDE DEF x
  <2> QED BY <1>2, <1>4, TableEntry DEF x
<1>13. SumFunction([d EXCEPT ![f] = w.dep]) = SumFunction(d) + (w.dep - d[f])
  BY <1>2, <1>4, TableEntry
<1> QED BY <1>3, <1>7, <1>8, <1>9, <1>10, <1>11, <1>12, <1>13 DEF u

\* A signature that has its effect for the first time adds what was typed for it.
LEMMA TypedGrows ==
    ASSUME MaxTaps \in Nat, TapsOk, LandedOk, NEW t \in taps, landed[t.n] = 0,
           taps' = taps, landed' = [landed EXCEPT ![t.n] = 1], NEW op
    PROVE  Typed(op)' = Typed(op) + IF t.op = op THEN t.typed ELSE 0
<1>1. \A u \in taps : u.n \in 1 .. MaxTaps
  <2>1. Cardinality(taps) \in Nat
    BY FS_CardinalityType DEF TapsOk
  <2> QED BY <2>1 DEF TapsOk
<1>2. \A u \in taps : u # t => landed'[u.n] = landed[u.n]
  BY <1>1 DEF TapsOk, LandedOk
<1>3. landed'[t.n] = 1
  BY <1>1 DEF LandedOk
<1> DEFINE old == [u \in Done(op) |-> u.typed]
           new == [u \in Done(op)' |-> u.typed]
<1>4. Typed(op) = SumFunction(old) /\ Typed(op)' = SumFunction(new)
  BY DEF Typed
<1>5. IsFiniteSet(Done(op)) /\ t \notin Done(op)
  <2>1. Done(op) \in SUBSET taps
    BY DEF Done
  <2>2. t \notin Done(op)
    BY DEF Done
  <2> QED BY <2>1, <2>2, FS_Subset DEF TapsOk
<1>6. old \in [Done(op) -> Int]
  BY DEF Done, TapsOk, OperationOk
<1>7. SumFunction(old) \in Int
  BY <1>5, <1>6, TableInt
<1>8. CASE t.op = op
  <2>1. Done(op)' = Done(op) \union {t}
    BY <1>2, <1>3, <1>8 DEF Done
  <2>2. new \in [Done(op) \union {t} -> Int] /\ new[t] = t.typed
    BY <1>6, <2>1 DEF TapsOk, OperationOk
  <2>3. \A u \in Done(op) : new[u] = old[u]
    BY <2>1
  <2> HIDE DEF new, old
  <2>4. SumFunction(new) = SumFunction(old) + new[t]
    <3> DEFINE S == Done(op)
    <3>1. /\ IsFiniteSet(S) /\ t \notin S /\ old \in [S -> Int]
          /\ new \in [S \union {t} -> Int] /\ \A u \in S : new[u] = old[u]
      BY <1>5, <1>6, <2>2, <2>3
    <3> HIDE DEF S
    <3> QED BY ONLY <3>1, TableGrows, SMTT(60)
  <2> QED BY <1>4, <1>8, <2>2, <2>4
<1>9. CASE t.op # op
  <2>1. Done(op)' = Done(op)
    BY <1>2, <1>9 DEF Done
  <2>2. new = old
    BY <2>1
  <2> HIDE DEF new, old
  <2> QED BY <1>4, <1>7, <1>9, <2>2
<1> QED BY <1>8, <1>9

\* A new signature has had no effect, so nothing more was typed for one that had.
LEMMA TypedStands ==
    ASSUME TapsOk, LandedOk, NEW op, UNCHANGED landed,
           taps' = taps \/ \E t : /\ taps' = taps \union {t}
                                  /\ t.n \in 1 .. MaxTaps /\ landed[t.n] = 0
    PROVE  Typed(op)' = Typed(op)
<1>1. Done(op)' = Done(op)
  BY DEF Done
<1> QED BY <1>1 DEF Typed

-----------------------------------------------------------------------------
(* Credit vaults: one step per action                                        *)

\* Nothing the invariant speaks of moves, but the page and the factories known.
LEMMA QuietVault ==
    ASSUME VaultInv, UNCHANGED <<vault, treasury, bought, taps, landed>>,
           book' \in Factories, cached' \in Factories, page' # Closed => OperationOk(page')
    PROVE  VaultInv'
<1>1. TapsOk' /\ LandedOk'
  BY DEF VaultInv, TapsOk, LandedOk, OperationOk
<1>2. \A op : Typed(op)' = Typed(op)
  BY DEF Typed, Done
<1>3. MoneyOk'
  BY <1>2 DEF VaultInv, MoneyOk, Balances, Deposits
<1> QED BY <1>1, <1>3 DEF VaultInv, OperationOk

\* Vaults whose nonces do not go back leave the signatures in order.
LEMMA NoncesStand ==
    ASSUME VaultInv, UNCHANGED <<taps, landed>>, vault' \in [Factories -> Account],
           \A f \in Factories : vault'[f].nonce >= vault[f].nonce
    PROVE  TapsOk' /\ LandedOk' /\ \A op : Typed(op)' = Typed(op)
<1>1. TapsOk'
  BY DEF VaultInv, TapsOk, OperationOk
<1>2. \A op : Typed(op)' = Typed(op)
  BY DEF Typed, Done
<1>3. ASSUME NEW t \in taps, landed[t.n] = 1 PROVE t.nonce < vault'[t.to].nonce
  <2>1. t.to \in Factories /\ t.nonce \in Nat /\ t.nonce < vault[t.to].nonce
    BY <1>3 DEF VaultInv, TapsOk, LandedOk, OperationOk
  <2>2. vault[t.to].nonce \in Nat /\ vault'[t.to].nonce \in Nat
    BY <2>1 DEF VaultInv, Account
  <2> QED BY <2>1, <2>2
<1> QED BY <1>1, <1>2, <1>3 DEF VaultInv, LandedOk

\* Minting a vault moves neither its credit nor its nonce.
LEMMA MadeAccount ==
    ASSUME NEW v \in Account
    PROVE  /\ Made(v) \in Account /\ Made(v).made /\ Made(v).bal = v.bal
           /\ Made(v).dep = v.dep /\ Made(v).nonce = v.nonce
<1>1. CASE v.made
  BY <1>1 DEF Made
<1>2. CASE ~v.made
  <2>1. Made(v) = [v EXCEPT !.made = TRUE, !.keys = {Root}]
    BY <1>2 DEF Made
  <2> QED BY <2>1 DEF Account
<1> QED BY <1>1, <1>2

\* One vault is replaced by another with no smaller nonce.
LEMMA VaultReplaced ==
    ASSUME Constants, VaultInv, NEW f \in Factories, NEW w \in Account,
           vault' = [vault EXCEPT ![f] = w], w.nonce >= vault[f].nonce
    PROVE  /\ vault' \in [Factories -> Account]
           /\ \A g \in Factories : vault'[g].nonce >= vault[g].nonce
           /\ Balances(vault) \in Int /\ Deposits(vault) \in Int
           /\ vault[f].bal \in Nat /\ vault[f].dep \in Nat /\ w.bal \in Nat /\ w.dep \in Nat
           /\ Balances(vault)' = Balances(vault) + ((w.bal + w.dep) - (vault[f].bal + vault[f].dep))
           /\ Deposits(vault)' = Deposits(vault) + (w.dep - vault[f].dep)
<1>1. IsFiniteSet(Factories) /\ vault \in [Factories -> Account]
  BY DEF Constants, VaultInv
<1>2. /\ vault' \in [Factories -> Account]
      /\ Balances(vault) \in Int /\ Deposits(vault) \in Int
      /\ Balances(vault') = Balances(vault) + ((w.bal + w.dep) - (vault[f].bal + vault[f].dep))
      /\ Deposits(vault') = Deposits(vault) + (w.dep - vault[f].dep)
  <2>1. f \in Factories /\ w \in Account /\ vault' = [vault EXCEPT ![f] = w]
    OBVIOUS
  <2> QED BY ONLY <1>1, <2>1, OneVault
<1>3. Balances(vault)' = Balances(vault') /\ Deposits(vault)' = Deposits(vault')
  BY DEF Balances, Deposits
<1>4. \A g \in Factories : vault'[g].nonce >= vault[g].nonce
  <2>1. \A g \in Factories : vault[g].nonce \in Nat
    BY <1>1 DEF Account
  <2> QED BY <1>1, <2>1
<1>5. vault[f].bal \in Nat /\ vault[f].dep \in Nat /\ w.bal \in Nat /\ w.dep \in Nat
  BY <1>1 DEF Account
<1> QED BY <1>2, <1>3, <1>4, <1>5

LEMMA DepositKeeps == ASSUME Constants, VaultInv, Deposit PROVE VaultInv'
<1> DEFINE u == Made(vault[cached])
           w == [u EXCEPT !.bal = @ + 1]
<1>1. /\ vault \in [Factories -> Account] /\ cached \in Factories
      /\ vault' = [vault EXCEPT ![cached] = w] /\ bought' = bought + 1
      /\ UNCHANGED <<book, cached, treasury, page, taps, landed>>
  BY DEF Deposit, VaultInv
<1>2. /\ w \in Account /\ w.bal = vault[cached].bal + 1
      /\ w.dep = vault[cached].dep /\ w.nonce = vault[cached].nonce
  <2>1. /\ u \in Account /\ u.bal = vault[cached].bal
        /\ u.dep = vault[cached].dep /\ u.nonce = vault[cached].nonce
    BY <1>1, MadeAccount
  <2> HIDE DEF u
  <2>2. w \in Account /\ w.bal = u.bal + 1 /\ w.dep = u.dep /\ w.nonce = u.nonce
    BY <2>1 DEF Account
  <2> QED BY <2>1, <2>2
<1> HIDE DEF w
<1>3. w.nonce >= vault[cached].nonce
  BY <1>1, <1>2 DEF Account
<1>4. /\ vault' \in [Factories -> Account]
      /\ Balances(vault)' = Balances(vault) + 1 /\ Deposits(vault)' = Deposits(vault)
      /\ Balances(vault) \in Int /\ Deposits(vault) \in Int
      /\ \A f \in Factories : vault'[f].nonce >= vault[f].nonce
  <2>1. /\ vault' \in [Factories -> Account]
        /\ \A g \in Factories : vault'[g].nonce >= vault[g].nonce
        /\ Balances(vault) \in Int /\ Deposits(vault) \in Int
        /\ vault[cached].bal \in Nat /\ vault[cached].dep \in Nat /\ w.bal \in Nat /\ w.dep \in Nat
        /\ Balances(vault)' = Balances(vault)
             + ((w.bal + w.dep) - (vault[cached].bal + vault[cached].dep))
        /\ Deposits(vault)' = Deposits(vault) + (w.dep - vault[cached].dep)
    BY <1>1, <1>2, <1>3, VaultReplaced, Zenon
  <2> QED BY <1>2, <2>1
<1>5. TapsOk' /\ LandedOk' /\ \A op : Typed(op)' = Typed(op)
  BY <1>1, <1>4, NoncesStand
<1>6. MoneyOk'
  BY <1>1, <1>4, <1>5 DEF VaultInv, MoneyOk
<1> QED BY <1>1, <1>4, <1>5, <1>6 DEF VaultInv, OperationOk

LEMMA MintKeeps == ASSUME Constants, VaultInv, Mint PROVE VaultInv'
<1> DEFINE w == Made(vault[book])
<1>1. /\ vault \in [Factories -> Account] /\ book \in Factories
      /\ vault' = [vault EXCEPT ![book] = w]
      /\ UNCHANGED <<book, cached, treasury, bought, page, taps, landed>>
  BY DEF Mint, VaultInv
<1>2. /\ w \in Account /\ w.bal = vault[book].bal
      /\ w.dep = vault[book].dep /\ w.nonce = vault[book].nonce
  BY <1>1, MadeAccount
<1> HIDE DEF w
<1>3. w.nonce >= vault[book].nonce
  BY <1>1, <1>2 DEF Account
<1>4. /\ vault' \in [Factories -> Account]
      /\ Balances(vault)' = Balances(vault) /\ Deposits(vault)' = Deposits(vault)
      /\ \A f \in Factories : vault'[f].nonce >= vault[f].nonce
  <2>1. /\ vault' \in [Factories -> Account]
        /\ \A g \in Factories : vault'[g].nonce >= vault[g].nonce
        /\ Balances(vault) \in Int /\ Deposits(vault) \in Int
        /\ vault[book].bal \in Nat /\ vault[book].dep \in Nat /\ w.bal \in Nat /\ w.dep \in Nat
        /\ Balances(vault)' = Balances(vault)
             + ((w.bal + w.dep) - (vault[book].bal + vault[book].dep))
        /\ Deposits(vault)' = Deposits(vault) + (w.dep - vault[book].dep)
    BY <1>1, <1>2, <1>3, VaultReplaced, Zenon
  <2> QED BY <1>2, <2>1
<1>5. TapsOk' /\ LandedOk' /\ \A op : Typed(op)' = Typed(op)
  BY <1>1, <1>4, NoncesStand
<1>6. MoneyOk'
  BY <1>1, <1>4, <1>5 DEF VaultInv, MoneyOk
<1> QED BY <1>1, <1>4, <1>5, <1>6 DEF VaultInv, OperationOk

\* The old vault's balance moves over to its successor's.
LEMMA MigrateKeeps ==
    ASSUME Constants, VaultInv, NEW f \in Factories, MigrateToSuccessor(f) PROVE VaultInv'
<1> DEFINE w == [vault[f] EXCEPT !.bal = 0]
           mid == [vault EXCEPT ![f] = w]
           x == [vault[book] EXCEPT !.bal = @ + vault[f].bal]
           fin == [mid EXCEPT ![book] = x]
<1>1. /\ vault \in [Factories -> Account] /\ book \in Factories /\ f # book
      /\ UNCHANGED <<book, cached, treasury, bought, page, taps, landed>>
  BY DEF MigrateToSuccessor, VaultInv
<1>2. vault' = fin
  BY <1>1 DEF MigrateToSuccessor
<1>3. /\ vault[f].bal \in Nat /\ vault[f].dep \in Nat /\ vault[f].nonce \in Nat
      /\ vault[book].bal \in Nat /\ vault[book].dep \in Nat /\ vault[book].nonce \in Nat
  BY <1>1 DEF Account
<1>4. /\ w \in Account /\ w.bal = 0 /\ w.dep = vault[f].dep /\ w.nonce = vault[f].nonce
      /\ x \in Account /\ x.bal = vault[book].bal + vault[f].bal
      /\ x.dep = vault[book].dep /\ x.nonce = vault[book].nonce
  BY <1>1, <1>3 DEF Account
<1> HIDE DEF w, x
<1>5. /\ mid \in [Factories -> Account] /\ mid[book] = vault[book]
      /\ Balances(vault) \in Int /\ Deposits(vault) \in Int
      /\ Balances(mid) = Balances(vault) + ((w.bal + w.dep) - (vault[f].bal + vault[f].dep))
      /\ Deposits(mid) = Deposits(vault) + (w.dep - vault[f].dep)
  <2>1. /\ IsFiniteSet(Factories) /\ vault \in [Factories -> Account]
        /\ f \in Factories /\ w \in Account
    BY <1>1, <1>4 DEF Constants
  <2>2. mid[book] = vault[book]
    BY <1>1
  <2>3. /\ mid \in [Factories -> Account]
        /\ Balances(vault) \in Int /\ Deposits(vault) \in Int
        /\ Balances(mid) = Balances(vault) + ((w.bal + w.dep) - (vault[f].bal + vault[f].dep))
        /\ Deposits(mid) = Deposits(vault) + (w.dep - vault[f].dep)
    <3>1. LET u == [vault EXCEPT ![f] = w]
          IN  /\ u \in [Factories -> Account]
              /\ Balances(vault) \in Int /\ Deposits(vault) \in Int
              /\ Balances(u) = Balances(vault) + ((w.bal + w.dep) - (vault[f].bal + vault[f].dep))
              /\ Deposits(u) = Deposits(vault) + (w.dep - vault[f].dep)
      BY ONLY <2>1, OneVault, ZenonT(60)
    <3> QED BY ONLY <3>1 DEF mid
  <2> QED BY ONLY <2>2, <2>3
<1> HIDE DEF mid
<1>6. /\ fin \in [Factories -> Account]
      /\ Balances(fin) = Balances(mid) + ((x.bal + x.dep) - (mid[book].bal + mid[book].dep))
      /\ Deposits(fin) = Deposits(mid) + (x.dep - mid[book].dep)
  <2>1. /\ IsFiniteSet(Factories) /\ mid \in [Factories -> Account]
        /\ book \in Factories /\ x \in Account
    BY <1>1, <1>4, <1>5 DEF Constants
  <2>2. LET u == [mid EXCEPT ![book] = x]
        IN  /\ u \in [Factories -> Account]
            /\ Balances(mid) \in Int /\ Deposits(mid) \in Int
            /\ Balances(u) = Balances(mid) + ((x.bal + x.dep) - (mid[book].bal + mid[book].dep))
            /\ Deposits(u) = Deposits(mid) + (x.dep - mid[book].dep)
    BY ONLY <2>1, OneVault, ZenonT(60)
  <2> QED BY ONLY <2>2 DEF fin
<1>7. \A g \in Factories : vault'[g].nonce >= vault[g].nonce
  <2>1. \A g \in Factories : vault[g].nonce \in Nat
    BY <1>1 DEF Account
  <2>2. \A g \in Factories : fin[g].nonce = vault[g].nonce
    BY <1>1, <1>4 DEF mid
  <2> QED BY <1>2, <2>1, <2>2
<1>8. Balances(vault)' = Balances(fin) /\ Deposits(vault)' = Deposits(fin)
  BY <1>2 DEF Balances, Deposits
<1> HIDE DEF fin
<1>9. Balances(vault)' = Balances(vault) /\ Deposits(vault)' = Deposits(vault)
  BY <1>3, <1>4, <1>5, <1>6, <1>8
<1>10. TapsOk' /\ LandedOk' /\ \A op : Typed(op)' = Typed(op)
  BY <1>1, <1>2, <1>6, <1>7, NoncesStand
<1>11. MoneyOk'
  BY <1>1, <1>9, <1>10 DEF VaultInv, MoneyOk
<1> QED BY <1>1, <1>2, <1>6, <1>10, <1>11 DEF VaultInv, OperationOk

\* A new signature: numbered after all others, without effect so far.
LEMMA GivenKeeps ==
    ASSUME Constants, VaultInv, NEW p, NEW k, OperationOk(p), p.amt <= p.typed,
           Cardinality(taps) < MaxTaps, Given(p, k),
           UNCHANGED <<book, cached, vault, treasury, bought, landed>>,
           page' = Closed \/ page' = page
    PROVE  VaultInv'
<1> DEFINE n == Cardinality(taps) + 1
           t == [n |-> n, by |-> k, op |-> p.op, amt |-> p.amt, typed |-> p.typed,
                 to |-> p.to, nonce |-> p.nonce, till |-> p.till]
<1>1. taps' = taps \union {t}
  BY DEF Given
<1>2. /\ IsFiniteSet(taps) /\ Cardinality(taps) \in Nat /\ MaxTaps \in Nat
      /\ \A u \in taps : u.n \in 1 .. Cardinality(taps)
  BY FS_CardinalityType DEF VaultInv, TapsOk, Constants
<1>3. /\ t.n = n /\ t.amt = p.amt /\ t.typed = p.typed /\ t.op = p.op
      /\ t.to = p.to /\ t.nonce = p.nonce
  OBVIOUS
<1> HIDE DEF t
<1>4. n \in 1 .. MaxTaps /\ \A u \in taps : u.n # n
  BY <1>2
<1>5. t \notin taps
  BY <1>3, <1>4
<1>6. IsFiniteSet(taps') /\ Cardinality(taps') = n
  BY <1>1, <1>2, <1>5, FS_AddElement
<1>7. OperationOk(t)
  BY <1>3 DEF OperationOk
<1>8. TapsOk'
  <2>1. n \in Nat /\ n <= MaxTaps /\ t.n \in 1 .. n /\ \A u \in taps : u.n \in 1 .. n
    BY <1>2, <1>3, <1>4
  <2> HIDE DEF n
  <2>2. \A u \in taps' : OperationOk(u) /\ u.amt <= u.typed /\ u.n \in 1 .. n
    BY <1>1, <1>3, <1>7, <2>1 DEF VaultInv, TapsOk
  <2>3. \A u, v \in taps' : u.n = v.n => u = v
    BY <1>1, <1>3, <1>4 DEF VaultInv, TapsOk
  <2> QED BY <1>6, <2>1, <2>2, <2>3 DEF TapsOk, OperationOk
<1>9. landed[n] = 0
  BY <1>2, <1>4 DEF VaultInv, LandedOk
<1>10. LandedOk'
  BY <1>1, <1>2, <1>3, <1>6, <1>9 DEF VaultInv, LandedOk
<1>11. \A op : Typed(op)' = Typed(op)
  <2> TAKE op
  <2>1. taps' = taps \union {t} /\ t.n \in 1 .. MaxTaps /\ landed[t.n] = 0
    BY <1>1, <1>3, <1>4, <1>9
  <2> HIDE DEF n
  <2> QED BY <2>1, TypedStands DEF VaultInv
<1>12. MoneyOk'
  BY <1>11 DEF VaultInv, MoneyOk, Balances, Deposits
<1> QED BY <1>8, <1>10, <1>12 DEF VaultInv, OperationOk

LEMMA PrepareKeeps ==
    ASSUME VaultInv, NEW op \in Moves \union {"control"},
           NEW typed \in 0 .. Credit, NEW amt \in 0 .. Credit, Prepare(op, typed, amt)
    PROVE  VaultInv'
<1>1. /\ typed \in Nat /\ amt \in Nat /\ op \in Kinds
      /\ cached \in Factories /\ vault[cached].nonce \in Nat
  BY DEF VaultInv, Account, Kinds
<1>2. OperationOk(page')
  BY <1>1 DEF Prepare, OperationOk
<1> QED BY <1>2, QuietVault DEF Prepare, VaultInv

LEMMA TapKeeps == ASSUME Constants, VaultInv, Tap PROVE VaultInv'
<1>1. page # Closed /\ page' = Closed
  BY DEF Tap, Closed
<1>2. CASE AsAsked(page) /\ Cardinality(taps) < MaxTaps
  <2>1. OperationOk(page) /\ page.amt <= page.typed
    BY <1>1, <1>2 DEF VaultInv, AsAsked
  <2>2. Given(page, Root) /\ UNCHANGED <<book, cached, vault, treasury, bought, landed>>
    BY <1>2 DEF Tap
  <2> QED BY <1>1, <1>2, <2>1, <2>2, GivenKeeps
<1>3. CASE ~(AsAsked(page) /\ Cardinality(taps) < MaxTaps)
  BY <1>1, <1>3, QuietVault DEF Tap, VaultInv
<1> QED BY <1>2, <1>3

LEMMA TapElsewhereKeeps ==
    ASSUME Constants, VaultInv, NEW f \in Factories, NEW k \in Keys,
           NEW op \in {"addkey", "dropkey", "cancel"}, TapElsewhere(f, k, op)
    PROVE  VaultInv'
<1> DEFINE p == [op |-> op, amt |-> 0, typed |-> 0, to |-> f,
                 nonce |-> vault[f].nonce, till |-> now + Life]
<1>1. /\ Given(p, k) /\ Cardinality(taps) < MaxTaps
      /\ UNCHANGED <<book, cached, vault, treasury, bought, landed, page>>
  BY DEF TapElsewhere
<1>2. vault[f].nonce \in Nat
  BY DEF VaultInv, Account
<1>3. OperationOk(p) /\ p.amt <= p.typed
  BY <1>2 DEF OperationOk, Kinds
<1> HIDE DEF p
<1> QED BY <1>1, <1>3, GivenKeeps

\* What an executed operation does to its vault.
LEMMA EffectIs ==
    ASSUME NEW v \in Account, NEW t, OperationOk(t), Allowed(v, t)
    PROVE  /\ Effect(v, t) \in Account
           /\ Effect(v, t).nonce = v.nonce + 1
           /\ Effect(v, t).bal + Effect(v, t).dep
                = v.bal + v.dep - (IF t.op = "refund" THEN t.amt ELSE 0)
           /\ Effect(v, t).dep <= v.dep + (IF t.op = "fund" THEN t.amt ELSE 0)
<1> DEFINE w == [v EXCEPT !.nonce = NextNonce(v, t)]
<1>1. v.bal \in Nat /\ v.dep \in Nat /\ v.nonce \in Nat /\ t.amt \in Nat
  BY DEF Account, OperationOk
<1>2. /\ w \in Account /\ w.bal = v.bal /\ w.dep = v.dep /\ w.nonce = v.nonce + 1
      /\ w.keys \in SUBSET (Keys \union {Root, Extra})
  BY <1>1 DEF Account, NextNonce
<1> HIDE DEF w
<1>3. CASE t.op = "fund"
  <2>1. v.bal >= t.amt
    BY <1>3 DEF Allowed, Moves
  <2>2. Effect(v, t) = [w EXCEPT !.bal = @ - t.amt, !.dep = @ + t.amt]
    BY <1>3 DEF Effect, w
  <2>3. w.bal - t.amt \in Nat /\ w.dep + t.amt \in Nat
    BY <1>1, <1>2, <2>1
  <2> DEFINE b == w.bal - t.amt
             d == w.dep + t.amt
  <2>4. Effect(v, t) = [w EXCEPT !.bal = b, !.dep = d]
    BY <2>2
  <2> HIDE DEF b, d
  <2>5. /\ Effect(v, t) \in Account /\ Effect(v, t).bal = b
        /\ Effect(v, t).dep = d /\ Effect(v, t).nonce = w.nonce
    <3> DEFINE y == [w EXCEPT !.bal = b]
    <3>1. b \in Nat /\ d \in Nat
      BY <2>3 DEF b, d
    <3>2. y \in Account /\ y.bal = b /\ y.nonce = w.nonce
      BY <1>2, <3>1 DEF Account
    <3>3. Effect(v, t) = [y EXCEPT !.dep = d]
      BY <2>4
    <3> HIDE DEF y
    <3> QED BY <3>1, <3>2, <3>3 DEF Account
  <2> QED BY <1>1, <1>2, <1>3, <2>5 DEF b, d
<1>4. CASE t.op = "refund"
  <2>1. v.bal >= t.amt
    BY <1>4 DEF Allowed, Moves
  <2>2. Effect(v, t) = [w EXCEPT !.bal = @ - t.amt]
    BY <1>4 DEF Effect, w
  <2>3. w.bal - t.amt \in Nat
    BY <1>1, <1>2, <2>1
  <2> QED BY <1>1, <1>2, <1>4, <2>2, <2>3 DEF Account
<1>5. CASE t.op = "control"
  <2>1. Effect(v, t) = w
    BY <1>5 DEF Effect, w
  <2> QED BY <1>1, <1>2, <1>5, <2>1
<1>6. CASE t.op = "cancel"
  <2>1. Effect(v, t) = [w EXCEPT !.bal = @ + v.dep, !.dep = 0]
    BY <1>6 DEF Effect, w
  <2> DEFINE b == w.bal + v.dep
  <2>2. b \in Nat /\ Effect(v, t) = [w EXCEPT !.bal = b, !.dep = 0]
    BY <1>1, <1>2, <2>1
  <2> HIDE DEF b
  <2>3. /\ Effect(v, t) \in Account /\ Effect(v, t).bal = b
        /\ Effect(v, t).dep = 0 /\ Effect(v, t).nonce = w.nonce
    <3> DEFINE y == [w EXCEPT !.bal = b]
    <3>2. y \in Account /\ y.bal = b /\ y.nonce = w.nonce
      BY <1>2, <2>2 DEF Account
    <3>3. Effect(v, t) = [y EXCEPT !.dep = 0]
      BY <2>2
    <3> HIDE DEF y
    <3> QED BY <2>2, <3>2, <3>3 DEF Account
  <2> QED BY <1>1, <1>2, <1>6, <2>3 DEF b
<1>7. CASE t.op = "addkey"
  <2>1. Effect(v, t) = [w EXCEPT !.keys = @ \union {Extra}]
    BY <1>7 DEF Effect, w
  <2> QED BY <1>1, <1>2, <1>7, <2>1 DEF Account
<1>8. CASE t.op = "dropkey"
  <2>1. Effect(v, t) = [w EXCEPT !.keys = @ \ {Root}]
    BY <1>8 DEF Effect, w
  <2> QED BY <1>1, <1>2, <1>8, <2>1 DEF Account
<1> QED BY <1>3, <1>4, <1>5, <1>6, <1>7, <1>8 DEF OperationOk, Kinds, Moves

LEMMA SubmitKeeps ==
    ASSUME Constants, VaultInv, NEW t \in taps, NEW byRelay \in BOOLEAN, Submit(t, byRelay)
    PROVE  VaultInv'
<1> DEFINE f == IF byRelay THEN cached ELSE t.to
           v == IF byRelay THEN Made(vault[f]) ELSE vault[f]
           runs == v.made /\ Signed(f, t) /\ Allowed(v, t)
           w == IF runs THEN Effect(v, t) ELSE v
<1>1. /\ OperationOk(t) /\ t.amt <= t.typed /\ t.amt \in Nat /\ t.typed \in Nat
      /\ f \in Factories /\ vault \in [Factories -> Account]
      /\ MaxTaps \in Nat /\ t.n \in 1 .. MaxTaps
  <2>1. Cardinality(taps) \in Nat /\ Cardinality(taps) <= MaxTaps /\ MaxTaps \in Nat
    BY FS_CardinalityType DEF VaultInv, TapsOk, Constants
  <2>2. OperationOk(t) /\ t.amt <= t.typed /\ t.n \in 1 .. Cardinality(taps)
    BY DEF VaultInv, TapsOk
  <2>3. cached \in Factories /\ vault \in [Factories -> Account]
    BY DEF VaultInv
  <2> QED BY <2>1, <2>2, <2>3 DEF OperationOk
<1>2. /\ vault' = [vault EXCEPT ![f] = w]
      /\ treasury' = treasury + IF runs /\ t.op = "refund" THEN t.amt ELSE 0
      /\ landed' = [landed EXCEPT ![t.n] = @ + IF runs THEN 1 ELSE 0]
      /\ UNCHANGED <<book, cached, bought, page, taps>>
  BY DEF Submit
<1>3. /\ v \in Account /\ v.bal = vault[f].bal /\ v.dep = vault[f].dep
      /\ v.nonce = vault[f].nonce /\ v.nonce \in Nat
  <2>1. vault[f] \in Account
    BY <1>1
  <2> HIDE DEF f
  <2>2. v.nonce = vault[f].nonce /\ v \in Account /\ v.bal = vault[f].bal /\ v.dep = vault[f].dep
    BY <2>1, MadeAccount
  <2> QED BY <2>1, <2>2 DEF Account
<1>4. runs => t.to = f /\ t.nonce = vault[f].nonce
  BY DEF Signed
<1>5. runs => Allowed(v, t)
  OBVIOUS
<1>6. runs => w = Effect(v, t)
  OBVIOUS
<1>7. ~runs => w = v
  OBVIOUS
<1>8. runs \in BOOLEAN
  OBVIOUS
<1> HIDE DEF f, v, runs, w
<1>9. CASE ~runs
  <2>1. /\ vault' = [vault EXCEPT ![f] = v] /\ treasury' = treasury
        /\ UNCHANGED <<landed, book, cached, bought, page, taps>>
    BY <1>1, <1>2, <1>7, <1>9 DEF VaultInv, MoneyOk, LandedOk
  <2>2. /\ vault' \in [Factories -> Account]
        /\ \A g \in Factories : vault'[g].nonce >= vault[g].nonce
        /\ Balances(vault) \in Int /\ Deposits(vault) \in Int
        /\ vault[f].bal \in Nat /\ vault[f].dep \in Nat
        /\ Balances(vault)' = Balances(vault) + ((v.bal + v.dep) - (vault[f].bal + vault[f].dep))
        /\ Deposits(vault)' = Deposits(vault) + (v.dep - vault[f].dep)
    <3>1. v.nonce >= vault[f].nonce
      BY <1>3
    <3> QED BY <1>1, <1>3, <2>1, <3>1, VaultReplaced, Zenon
  <2>3. Balances(vault)' = Balances(vault) /\ Deposits(vault)' = Deposits(vault)
    BY <1>3, <2>2
  <2>4. TapsOk' /\ LandedOk' /\ \A op : Typed(op)' = Typed(op)
    BY <2>1, <2>2, NoncesStand
  <2>5. MoneyOk'
    BY <2>1, <2>3, <2>4 DEF VaultInv, MoneyOk
  <2> QED BY <2>1, <2>2, <2>4, <2>5 DEF VaultInv, OperationOk
<1>10. CASE runs
  <2> DEFINE out == IF t.op = "refund" THEN t.amt ELSE 0
             in == IF t.op = "fund" THEN t.amt ELSE 0
  <2>1. /\ w \in Account /\ w.nonce = v.nonce + 1
        /\ w.bal + w.dep = v.bal + v.dep - out /\ w.dep <= v.dep + in
    BY <1>1, <1>3, <1>5, <1>6, <1>10, EffectIs
  <2>2. /\ vault' \in [Factories -> Account]
        /\ \A g \in Factories : vault'[g].nonce >= vault[g].nonce
        /\ Balances(vault) \in Int /\ Deposits(vault) \in Int
        /\ vault[f].bal \in Nat /\ vault[f].dep \in Nat /\ w.bal \in Nat /\ w.dep \in Nat
        /\ Balances(vault)' = Balances(vault) + ((w.bal + w.dep) - (vault[f].bal + vault[f].dep))
        /\ Deposits(vault)' = Deposits(vault) + (w.dep - vault[f].dep)
    <3>1. w.nonce >= vault[f].nonce
      BY <1>3, <2>1
    <3> QED BY <1>1, <1>2, <2>1, <3>1, VaultReplaced, Zenon
  <2>3. landed[t.n] = 0
    BY <1>1, <1>3, <1>4, <1>10 DEF VaultInv, LandedOk
  <2>4. landed' = [landed EXCEPT ![t.n] = 1]
    BY <1>2, <1>10, <2>3
  <2>5. \A op : Typed(op)' = Typed(op) + IF t.op = op THEN t.typed ELSE 0
    BY <1>1, <1>2, <2>3, <2>4, TypedGrows DEF VaultInv
  <2>6. MoneyOk'
    <3>1. out \in Nat /\ in \in Nat /\ treasury' = treasury + out
      BY <1>1, <1>2, <1>10
    <3>2. /\ Balances(vault)' = Balances(vault) - out
          /\ Deposits(vault)' <= Deposits(vault) + in /\ Deposits(vault)' \in Int
      BY <1>3, <2>1, <2>2, <3>1
    <3>3. Typed("refund") \in Int /\ Typed("fund") \in Int
      BY DEF VaultInv, MoneyOk
    <3>4. /\ Typed("refund")' \in Int /\ Typed("refund")' >= Typed("refund") + out
          /\ Typed("fund")' \in Int /\ Typed("fund")' >= Typed("fund") + in
      BY <1>1, <2>5, <3>3
    <3> HIDE DEF out, in
    <3>5. bought' = bought
      BY <1>2
    <3> QED BY <2>2, <3>1, <3>2, <3>3, <3>4, <3>5 DEF VaultInv, MoneyOk
  <2>7. TapsOk'
    BY <1>2 DEF VaultInv, TapsOk, OperationOk
  <2>8. LandedOk'
    <3>1. landed' \in [1 .. MaxTaps -> {0, 1}]
      BY <2>4 DEF VaultInv, LandedOk
    <3>2. \A n \in 1 .. MaxTaps : n > Cardinality(taps) => landed'[n] = 0
      <4>1. t.n <= Cardinality(taps) /\ Cardinality(taps) \in Nat
        BY FS_CardinalityType DEF VaultInv, TapsOk
      <4> QED BY <1>1, <2>4, <4>1 DEF VaultInv, LandedOk
    <3>3. ASSUME NEW u \in taps, landed'[u.n] = 1 PROVE u.nonce < vault'[u.to].nonce
      <4>1. u.to \in Factories /\ u.nonce \in Nat
        BY DEF VaultInv, TapsOk, OperationOk
      <4>2. vault[u.to].nonce \in Nat /\ vault'[u.to].nonce \in Nat
        BY <1>1, <2>2, <4>1 DEF Account
      <4>3. CASE u = t
        BY <1>1, <1>2, <1>3, <1>4, <1>10, <2>1, <4>3
      <4>4. CASE u # t
        <5>1. u.n # t.n
          BY <4>4 DEF VaultInv, TapsOk
        <5>2. landed[u.n] = 1
          BY <2>4, <3>3, <5>1 DEF VaultInv, LandedOk
        <5>3. u.nonce < vault[u.to].nonce
          BY <5>2 DEF VaultInv, LandedOk
        <5> QED BY <2>2, <4>1, <4>2, <5>3
      <4> QED BY <4>3, <4>4
    <3> QED BY <1>2, <3>1, <3>2, <3>3 DEF LandedOk
  <2> QED BY <1>2, <2>2, <2>6, <2>7, <2>8 DEF VaultInv, OperationOk
<1> QED BY <1>8, <1>9, <1>10

-----------------------------------------------------------------------------
(* Credit vaults: the theorem                                                *)

LEMMA VaultStart == ASSUME Constants, Init PROVE VaultInv
<1>1. NewVault \in Account /\ NewVault.bal = 0 /\ NewVault.dep = 0
  BY DEF NewVault, Account
<1>2. /\ book = 1 /\ cached = 1 /\ vault = [f \in Factories |-> NewVault]
      /\ treasury = 0 /\ bought = 0 /\ page = Closed /\ taps = {}
      /\ landed = [n \in 1 .. MaxTaps |-> 0]
  BY DEF Init
<1>3. IsFiniteSet(taps) /\ Cardinality(taps) = 0
  BY <1>2, FS_EmptySet
<1>4. TapsOk /\ LandedOk
  BY <1>2, <1>3 DEF TapsOk, LandedOk, Constants
<1>5. \A op : Typed(op) = 0
  <2> TAKE op
  <2>1. Done(op) = {}
    BY <1>2 DEF Done
  <2>2. [t \in Done(op) |-> t.typed] = [t \in {} |-> 0]
    BY <2>1
  <2> QED BY <2>2, SumOfZeros, FS_EmptySet DEF Typed
<1>6. Balances(vault) = 0 /\ Deposits(vault) = 0
  <2>1. [f \in Factories |-> vault[f].bal + vault[f].dep] = [f \in Factories |-> 0]
    BY <1>1, <1>2
  <2>2. [f \in Factories |-> vault[f].dep] = [f \in Factories |-> 0]
    BY <1>1, <1>2
  <2> QED BY <2>1, <2>2, SumOfZeros DEF Balances, Deposits, Constants
<1>7. MoneyOk
  BY <1>2, <1>5, <1>6 DEF MoneyOk
<1> QED BY <1>1, <1>2, <1>4, <1>7 DEF VaultInv, Constants

LEMMA VaultStep == ASSUME Constants, VaultInv, [Next]_vars PROVE VaultInv'
<1>1. CASE Deposit
  BY <1>1, DepositKeeps
<1>2. CASE Refresh
  BY <1>2, QuietVault DEF Refresh, VaultInv
<1>3. CASE Tap
  BY <1>3, TapKeeps
<1>4. CASE Publish
  BY <1>4, QuietVault DEF Publish, VaultInv
<1>5. CASE Mint
  BY <1>5, MintKeeps
<1>6. CASE Tick \/ UNCHANGED vars
  BY <1>6, QuietVault DEF Tick, vars, VaultInv
<1>7. CASE \E op \in Moves \union {"control"}, typed, amt \in 0 .. Credit : Prepare(op, typed, amt)
  BY <1>7, PrepareKeeps
<1>8. CASE \E f \in Factories, k \in Keys, op \in {"addkey", "dropkey", "cancel"} :
               TapElsewhere(f, k, op)
  BY <1>8, TapElsewhereKeeps
<1>9. CASE \E t \in taps, byRelay \in BOOLEAN : Submit(t, byRelay)
  BY <1>9, SubmitKeeps
<1>10. CASE \E f \in Factories : MigrateToSuccessor(f)
  BY <1>10, MigrateKeeps
<1> QED BY <1>1, <1>2, <1>3, <1>4, <1>5, <1>6, <1>7, <1>8, <1>9, <1>10, Zenon DEF Next

\* One tap has one effect; credit is conserved over vaults, deployments and the
\* treasury; and what left is within what was typed (_auth, migrateToSuccessor in
\* EnclaveCreditVault.sol, assertIsWhatIAskedFor in vault.js), whoever submits,
\* how often and how late, over any number of successor factories.
THEOREM CreditIsSpentAsTapped ==
    ASSUME IsFiniteSet(Factories), 1 \in Factories, MaxTaps \in Nat
    PROVE  Spec => []SpentAsTapped
<1>1. Constants
  BY DEF Constants
<1>2. Init => VaultInv
  BY <1>1, VaultStart
<1>3. VaultInv /\ [Next]_vars => VaultInv'
  BY <1>1, VaultStep
<1>4. VaultInv => SpentAsTapped
  BY DEF VaultInv, LandedOk, MoneyOk, Balances, Deposits, SpentAsTapped
<1> QED BY <1>2, <1>3, <1>4, PTL DEF Spec

-----------------------------------------------------------------------------
(* Transactions of one wallet                                                *)

LEMMA AtMostOne ==
    ASSUME NEW S, \A s, t \in S : s = t PROVE IsFiniteSet(S) /\ Cardinality(S) <= 1
<1>1. CASE S = {}
  BY <1>1, FS_EmptySet
<1>2. CASE S # {}
  <2>1. PICK s \in S : TRUE
    BY <1>2
  <2>2. S = {s}
    BY <2>1
  <2>3. IsFiniteSet({s}) /\ Cardinality({s}) = 1
    BY FS_Singleton, Zenon
  <2> QED BY <2>2, <2>3
<1> QED BY <1>1, <1>2

\* Transactions are numbered in the order they were sent.
Numbered(S) ==
    /\ IsFiniteSet(S)
    /\ \A t \in S : t.n \in Int /\ t.n >= 1 /\ t.n <= Cardinality(S)
    /\ \A s, t \in S : s.n = t.n => s = t

LEMMA OneMore ==
    ASSUME NEW S, Numbered(S), NEW t, t.n = Cardinality(S) + 1
    PROVE  Numbered(S \union {t}) /\ t.n \in Int /\ t.n # 0
<1>1. Cardinality(S) \in Nat /\ IsFiniteSet(S)
  BY FS_CardinalityType DEF Numbered
<1>2. t \notin S
  BY <1>1 DEF Numbered
<1>3. IsFiniteSet(S \union {t}) /\ Cardinality(S \union {t}) = Cardinality(S) + 1
  BY <1>1, <1>2, FS_AddElement
<1>4. \A s \in S \union {t} : s.n \in Int /\ s.n >= 1 /\ s.n <= Cardinality(S) + 1
  BY <1>1 DEF Numbered
<1>5. \A r, s \in S \union {t} : r.n = s.n => r = s
  BY <1>1 DEF Numbered
<1>6. Numbered(S \union {t})
  BY <1>3, <1>4, <1>5 DEF Numbered
<1> QED BY <1>1, <1>6

LEMMA SameNumber ==
    ASSUME NEW S, Numbered(S), NEW t \in S, NEW u, u.n = t.n
    PROVE  Numbered((S \ {t}) \union {u})
<1> DEFINE T == (S \ {t}) \union {u}
<1>1. /\ IsFiniteSet(S \ {t}) /\ Cardinality(S \ {t}) = Cardinality(S) - 1 /\ Cardinality(S) \in Nat
  BY FS_RemoveElement, FS_CardinalityType DEF Numbered
<1>2. u \notin S \ {t}
  BY DEF Numbered
<1>3. IsFiniteSet(T) /\ Cardinality(T) = Cardinality(S \ {t}) + 1
  BY <1>1, <1>2, FS_AddElement
<1>4. \A s \in T : s.n \in Int /\ s.n >= 1 /\ s.n <= Cardinality(S)
  BY DEF Numbered
<1>5. \A r, s \in T : r.n = s.n => r = s
  BY DEF Numbered
<1> HIDE DEF T
<1>6. Numbered(T)
  BY <1>1, <1>3, <1>4, <1>5 DEF Numbered
<1> QED BY <1>6 DEF T

LEMMA ByNumber ==
    ASSUME NEW S, Numbered(S), NEW t \in S PROVE (CHOOSE s \in S : s.n = t.n) = t
BY DEF Numbered

-----------------------------------------------------------------------------
(* The wallet that provisions paid orders                                    *)

Wallet == INSTANCE Provisioner WITH queue <- walletQueue, txs <- walletTxs,
    torn <- walletTorn, faults <- walletFaults, MaxTxs <- MaxWalletTxs,
    MaxFaults <- MaxWalletFaults

LEMMA WalletCounts == \A S : Wallet!Cardinality(S) = Cardinality(S)
  BY Zenon DEF Wallet!Cardinality, Cardinality, Wallet!IsFiniteSet, IsFiniteSet

Steps == {"none", "creating", "funding", "complete"}
Places == {"plan", "scan", "create", "send_create", "create_sent", "fund", "send_fund", "fund_sent", "done"}
Sent == [n : Int, id : Orders, kind : {"create", "fund"}, dep : Int, st : {"pending", "success", "reverted"}]
Standing(o, kind) == {t \in walletTxs : t.id = o /\ t.kind = kind /\ t.st \in {"pending", "success"}}

\* Transactions are numbered in the order they were sent.
WalletTypes ==
    /\ prov \in [Orders -> [step : Steps, create : Int, dep : Int, fund : Int]]
    /\ walletQueue \in Seq(Orders)
    /\ run = Wallet!Nobody \/ run \in [id : Orders, at : Places]
    /\ IsFiniteSet(walletTxs) /\ walletTxs \subseteq Sent
    /\ \A t \in walletTxs : t.n >= 1 /\ t.n <= Cardinality(walletTxs)
    /\ \A s, t \in walletTxs : s.n = t.n => s = t

\* A record says no more than its step allows.
RecordOk(o) ==
    LET p == prov[o]
    IN  /\ p.step = "none" => p.create = 0
        /\ p.step \in {"none", "creating"} => p.dep = 0 /\ p.fund = 0
        /\ p.step = "funding" => p.dep # 0
        /\ p.create # 0 => \E t \in walletTxs : t.n = p.create

\* What is in flight or landed for an order whose hashes were kept is what its record names.
HashesKept ==
    \A o \in Orders \ walletTorn :
        /\ \A t \in Standing(o, "create") : t.n = prov[o].create
        /\ \A t \in Standing(o, "fund") : t.n = prov[o].fund

\* Where the run is, nothing stands in the way of what it sends next.
RunOk ==
    run # Wallet!Nobody =>
        LET o == run.id
        IN  /\ prov[o].step # "complete"
            /\ run.at = "scan" => o \in walletTorn
            /\ run.at = "create" => o \in walletTorn \/ (Standing(o, "create") = {} /\ Standing(o, "fund") = {})
            /\ run.at \in {"send_create", "create_sent"} => prov[o].step = "creating"
            /\ run.at = "send_create" => prov[o].create = 0
            /\ run.at = "create_sent" => prov[o].create # 0
            /\ run.at = "send_fund" => /\ prov[o].step = "funding"
                                       /\ o \in walletTorn \/ Standing(o, "fund") = {}

WalletInv == WalletTypes /\ (\A o \in Orders : RecordOk(o)) /\ HashesKept /\ RunOk

\* The status of a hash whose transaction is in the chain or on its way.
LEMMA StatusIs ==
    ASSUME WalletTypes, NEW t \in walletTxs PROVE Wallet!Status(t.n) = t.st /\ t.n # 0 /\ t \in Sent
<1>1. t \in Sent /\ t.n >= 1
  BY DEF WalletTypes
<1>2. Wallet!Tx(t.n) = t
  BY DEF Wallet!Tx, WalletTypes
<1> QED BY <1>1, <1>2 DEF Wallet!Status, Sent

\* A hash that stands for nothing that stands leaves the way free.
LEMMA NothingStands ==
    ASSUME WalletTypes, HashesKept, NEW o \in Orders, o \notin walletTorn
    PROVE  /\ Wallet!Status(prov[o].create) \in {"null", "reverted"} => Standing(o, "create") = {}
           /\ Wallet!Status(prov[o].fund) \in {"null", "reverted"} => Standing(o, "fund") = {}
           /\ prov[o].create = 0 => Standing(o, "create") = {}
           /\ prov[o].fund = 0 => Standing(o, "fund") = {}
<1>1. ASSUME NEW t \in Standing(o, "create") PROVE Wallet!Status(prov[o].create) = t.st /\ prov[o].create # 0
  BY <1>1, StatusIs DEF HashesKept, Standing
<1>2. ASSUME NEW t \in Standing(o, "fund") PROVE Wallet!Status(prov[o].fund) = t.st /\ prov[o].fund # 0
  BY <1>2, StatusIs DEF HashesKept, Standing
<1> QED BY <1>1, <1>2 DEF Standing

\* A step that sends nothing and writes nothing keeps what hashes say.
LEMMA WalletQuiet ==
    ASSUME WalletInv, UNCHANGED <<prov, walletTxs>>, walletTorn \subseteq walletTorn',
           walletQueue' \in Seq(Orders), run' = Wallet!Nobody \/ run' \in [id : Orders, at : Places]
    PROVE  WalletTypes' /\ (\A o \in Orders : RecordOk(o)') /\ HashesKept'
<1>1. WalletTypes'
  BY DEF WalletInv, WalletTypes
<1>2. \A o \in Orders : RecordOk(o)'
  BY DEF WalletInv, RecordOk
<1>3. HashesKept'
  BY DEF WalletInv, HashesKept, Standing
<1> QED BY <1>1, <1>2, <1>3

LEMMA NobodyOk == ASSUME run' = Wallet!Nobody PROVE RunOk'
  BY DEF RunOk, Wallet!Nobody

\* The run goes on, or ends, and nothing else moves.
LEMMA RunEnds ==
    ASSUME WalletInv, UNCHANGED <<prov, walletTxs>>, walletTorn \subseteq walletTorn', walletQueue' \in Seq(Orders), run' = Wallet!Nobody
    PROVE  WalletInv'
BY WalletQuiet, NobodyOk DEF WalletInv

LEMMA RunIs ==
    ASSUME WalletInv, run.at \in Places
    PROVE  run \in [id : Orders, at : Places] /\ run.id \in Orders /\ run # Wallet!Nobody
BY DEF WalletInv, WalletTypes, Wallet!Nobody, Places

LEMMA EnqueueKeeps == ASSUME WalletInv, NEW o \in Orders, Wallet!EnqueueProvision(o) PROVE WalletInv'
<1>1. walletQueue' \in Seq(Orders) /\ UNCHANGED <<prov, run, walletTxs, walletTorn>>
  BY DEF Wallet!EnqueueProvision, WalletInv, WalletTypes
<1>2. RunOk'
  BY <1>1 DEF WalletInv, RunOk, Standing
<1> QED BY <1>1, <1>2, WalletQuiet DEF WalletInv, WalletTypes

LEMMA DrainKeeps == ASSUME WalletInv, Wallet!Drain PROVE WalletInv'
<1>1. walletQueue' \in Seq(Orders) /\ Head(walletQueue) \in Orders /\ UNCHANGED <<prov, walletTxs, walletTorn>>
  BY DEF Wallet!Drain, WalletInv, WalletTypes
<1>2. CASE run' = Wallet!Nobody
  BY <1>1, <1>2, RunEnds
<1>3. CASE prov[Head(walletQueue)].step # "complete" /\ run' = [id |-> Head(walletQueue), at |-> "plan"]
  <2>1. run' \in [id : Orders, at : Places]
    BY <1>1, <1>3 DEF Places
  <2>2. RunOk'
    BY <1>1, <1>3 DEF RunOk
  <2> QED BY <1>1, <2>1, <2>2, WalletQuiet DEF WalletInv
<1> QED BY <1>2, <1>3 DEF Wallet!Drain

LEMMA SaidFacts ==
    ASSUME NEW n, NEW said, Wallet!SaidOf(n, said)
    PROVE  /\ walletTorn \subseteq walletTorn'
           /\ said # Wallet!Status(n) => said = "null" /\ run.id \in walletTorn'
BY DEF Wallet!SaidOf

LEMMA PlanKeeps == ASSUME WalletInv, Wallet!Plan PROVE WalletInv'
<1> DEFINE o == run.id
           p == prov[o]
<1>1. /\ run.at = "plan" /\ run \in [id : Orders, at : Places] /\ o \in Orders /\ run # Wallet!Nobody
      /\ UNCHANGED <<prov, walletQueue, walletTxs>>
  BY RunIs DEF Wallet!Plan, Places
<1>2. PICK create, fund \in {"null", "pending", "success", "reverted"} :
        /\ \/ Wallet!SaidOf(p.create, create) /\ fund = Wallet!Status(p.fund)
           \/ Wallet!SaidOf(p.fund, fund) /\ create = Wallet!Status(p.create)
        /\ CASE Wallet!PlanRecovery(p, create, fund) = "hold" -> Wallet!Stop
             [] Wallet!PlanRecovery(p, create, fund) = "send_create" -> run' = [run EXCEPT !.at = "create"]
             [] Wallet!PlanRecovery(p, create, fund) = "adopt_or_resend_create" -> run' = [run EXCEPT !.at = "scan"]
             [] OTHER -> run' = [run EXCEPT !.at = "fund"]
  BY Zenon DEF Wallet!Plan
<1>3. /\ walletTorn \subseteq walletTorn'
      /\ create = Wallet!Status(p.create) \/ (create = "null" /\ o \in walletTorn')
  BY <1>2, SaidFacts
<1>4. walletQueue' \in Seq(Orders) /\ RecordOk(o) /\ p.step \in Steps /\ p.step # "complete" /\ p.create \in Int
  BY <1>1 DEF WalletInv, WalletTypes, RunOk
<1>5. CASE run' = Wallet!Nobody
  BY <1>1, <1>3, <1>4, <1>5, RunEnds
<1>6. CASE run' = [run EXCEPT !.at = "create"] /\ Wallet!PlanRecovery(p, create, fund) = "send_create"
  <2>1. run' \in [id : Orders, at : Places] /\ run'.id = o /\ run'.at = "create"
    BY <1>1, <1>6 DEF Places
  <2>2. p.create = 0 \/ create = "reverted"
    BY <1>4, <1>6 DEF Wallet!PlanRecovery, RecordOk, Steps
  <2>3. p.fund = 0
    BY <1>4, <1>6 DEF Wallet!PlanRecovery, RecordOk, Steps
  <2>4. o \in walletTorn' \/ (Standing(o, "create") = {} /\ Standing(o, "fund") = {})
    BY <1>1, <1>3, <2>2, <2>3, NothingStands DEF WalletInv
  <2>5. RunOk'
    BY <1>1, <1>4, <2>1, <2>4 DEF RunOk, Standing
  <2> QED BY <1>1, <1>3, <1>4, <2>1, <2>5, WalletQuiet DEF WalletInv
<1>7. CASE run' = [run EXCEPT !.at = "scan"] /\ Wallet!PlanRecovery(p, create, fund) = "adopt_or_resend_create"
  <2>1. run' \in [id : Orders, at : Places] /\ run'.id = o /\ run'.at = "scan"
    BY <1>1, <1>7 DEF Places
  <2>2. p.create # 0 /\ create = "null"
    <3>1. p.step = "creating"
      BY <1>4, <1>7, Zenon DEF Wallet!PlanRecovery, RecordOk, Steps
    <3>2. ASSUME p.create = 0 PROVE FALSE
      BY <1>7, <3>1, <3>2, Zenon DEF Wallet!PlanRecovery
    <3>3. ASSUME p.create # 0, create # "null" PROVE Wallet!PlanRecovery(p, create, fund) \in {"hold", "fund", "send_create"}
      BY <3>1, <3>3, Zenon DEF Wallet!PlanRecovery
    <3> QED BY <1>7, <3>2, <3>3
  <2>3. PICK t \in walletTxs : t.n = p.create
    BY <1>4, <2>2 DEF RecordOk
  <2>4. Wallet!Status(p.create) \in {"pending", "success", "reverted"}
    BY <2>3, StatusIs DEF WalletInv, Sent
  <2>5. RunOk'
    BY <1>1, <1>3, <1>4, <2>1, <2>2, <2>4 DEF RunOk
  <2> QED BY <1>1, <1>3, <1>4, <2>1, <2>5, WalletQuiet DEF WalletInv
<1>8. CASE run' = [run EXCEPT !.at = "fund"]
  <2>1. run' \in [id : Orders, at : Places] /\ run'.id = o /\ run'.at = "fund"
    BY <1>1, <1>8 DEF Places
  <2>2. RunOk'
    BY <1>1, <1>4, <2>1 DEF RunOk
  <2> QED BY <1>1, <1>3, <1>4, <2>1, <2>2, WalletQuiet DEF WalletInv
<1> QED BY <1>2, <1>5, <1>6, <1>7, <1>8 DEF Wallet!Stop

LEMMA StopsKeep ==
    ASSUME WalletInv, Wallet!Underfunded \/ Wallet!ReceiptTimeout \/ Wallet!Crash PROVE WalletInv'
<1>1. UNCHANGED <<prov, walletTxs, walletTorn>> /\ run' = Wallet!Nobody /\ walletQueue' \in {walletQueue, <<>>}
  BY DEF Wallet!Underfunded, Wallet!ReceiptTimeout, Wallet!Crash, Wallet!Stop
<1>2. walletQueue \in Seq(Orders) /\ <<>> \in Seq(Orders)
  BY DEF WalletInv, WalletTypes
<1> QED BY <1>1, <1>2, RunEnds

\* A record of an order that is written over, nothing being sent, keeps what hashes say of
\* the other orders.
LEMMA RecordWritten ==
    ASSUME WalletInv, NEW o \in Orders, UNCHANGED <<walletTxs, walletQueue>>, walletTorn \subseteq walletTorn',
           NEW p \in [step : Steps, create : Int, dep : Int, fund : Int],
           prov' = [prov EXCEPT ![o] = p],
           run' = Wallet!Nobody \/ run' \in [id : Orders, at : Places],
           RecordOk(o)',
           o \in walletTorn' \/ /\ \A t \in Standing(o, "create") : t.n = p.create
                                /\ \A t \in Standing(o, "fund") : t.n = p.fund
    PROVE  WalletTypes' /\ (\A q \in Orders : RecordOk(q)') /\ HashesKept'
<1>1. WalletTypes'
  BY DEF WalletInv, WalletTypes
<1>2. \A q \in Orders : q # o => prov'[q] = prov[q]
  BY DEF WalletInv, WalletTypes
<1>3. prov'[o] = p
  BY DEF WalletInv, WalletTypes
<1>4. \A q \in Orders : RecordOk(q)'
  BY <1>2 DEF WalletInv, RecordOk
<1>5. HashesKept'
  BY <1>2, <1>3 DEF WalletInv, HashesKept, Standing
<1> QED BY <1>1, <1>4, <1>5

LEMMA AdoptKeeps == ASSUME WalletInv, Wallet!AdoptOrphanCreate PROVE WalletInv'
<1>0. PICK o \in Orders : o = run.id
  BY RunIs DEF Wallet!AdoptOrphanCreate, Places
<1>1. /\ run.at = "scan" /\ run \in [id : Orders, at : Places] /\ run # Wallet!Nobody
      /\ UNCHANGED <<walletQueue, walletTxs>> /\ walletTorn \subseteq walletTorn'
  BY <1>0, RunIs DEF Wallet!AdoptOrphanCreate, Places
<1>2. walletQueue' \in Seq(Orders) /\ o \in walletTorn /\ prov[o].step # "complete"
  BY <1>0, <1>1 DEF WalletInv, WalletTypes, RunOk
<1>3. CASE run' = Wallet!Nobody /\ prov' = prov
  BY <1>0, <1>1, <1>2, <1>3, RunEnds
<1>4. CASE run' = [run EXCEPT !.at = "create"] /\ prov' = prov
  <2>1. run' \in [id : Orders, at : Places] /\ run'.id = o /\ run'.at = "create"
    BY <1>0, <1>1, <1>4 DEF Places
  <2>2. RunOk'
    BY <1>0, <1>1, <1>2, <1>4, <2>1 DEF RunOk
  <2> QED BY <1>0, <1>1, <1>2, <1>4, <2>1, <2>2, WalletQuiet DEF WalletInv
<1>5. CASE /\ Wallet!Cardinality(Wallet!Orphans) = 1
           /\ prov' = [prov EXCEPT ![run.id] = [@ EXCEPT !.step = "funding",
                          !.create = (CHOOSE t \in Wallet!Orphans : TRUE).n,
                          !.dep = (CHOOSE t \in Wallet!Orphans : TRUE).n]]
           /\ run' = [run EXCEPT !.at = "plan"]
  <2> DEFINE t == CHOOSE u \in Wallet!Orphans : TRUE
             p == [prov[o] EXCEPT !.step = "funding", !.create = t.n, !.dep = t.n]
  <2>1. Wallet!Orphans # {}
    <3>1. Cardinality(Wallet!Orphans) = 1
      BY <1>5, WalletCounts
    <3> QED BY <3>1, FS_EmptySet
  <2>2. t \in walletTxs /\ t.n # 0 /\ t.n \in Int
    <3>1. t \in Wallet!Orphans
      BY <2>1
    <3>2. t \in walletTxs
      BY <3>1 DEF Wallet!Orphans, Wallet!Created
    <3> QED BY <3>2, StatusIs DEF WalletInv, Sent
  <2>3. /\ p \in [step : Steps, create : Int, dep : Int, fund : Int]
        /\ p.step = "funding" /\ p.create = t.n /\ p.dep = t.n
    BY <1>0, <1>1, <2>2 DEF WalletInv, WalletTypes, Steps
  <2>4. prov' = [prov EXCEPT ![o] = p] /\ prov'[o] = p
    BY <1>0, <1>1, <1>5 DEF WalletInv, WalletTypes
  <2>5. RecordOk(o)'
    BY <1>0, <1>1, <2>2, <2>3, <2>4 DEF RecordOk
  <2>6. run' \in [id : Orders, at : Places] /\ run'.id = o /\ run'.at = "plan"
    BY <1>0, <1>1, <1>5 DEF Places
  <2>7. RunOk'
    BY <1>0, <1>1, <2>3, <2>4, <2>6 DEF RunOk
  <2> HIDE DEF p, t
  <2> QED BY <1>0, <1>1, <1>2, <2>3, <2>4, <2>5, <2>6, <2>7, RecordWritten DEF WalletInv
<1> QED BY <1>3, <1>4, <1>5 DEF Wallet!AdoptOrphanCreate, Wallet!Stop

LEMMA WriteAheadKeeps == ASSUME WalletInv, Wallet!WriteAheadCreate PROVE WalletInv'
<1>0. PICK o \in Orders : o = run.id
  BY RunIs DEF Wallet!WriteAheadCreate, Places
<1> DEFINE p == [Wallet!Unplanned EXCEPT !.step = "creating"]
<1>1. /\ run.at = "create" /\ run \in [id : Orders, at : Places] /\ run # Wallet!Nobody
      /\ UNCHANGED <<walletQueue, walletTxs, walletTorn>> /\ prov' = [prov EXCEPT ![o] = p]
      /\ run' = [run EXCEPT !.at = "send_create"]
  BY <1>0, RunIs DEF Wallet!WriteAheadCreate, Places
<1>2. run' \in [id : Orders, at : Places] /\ run'.id = o /\ run'.at = "send_create"
  BY <1>0, <1>1 DEF Places
<1>3. /\ p \in [step : Steps, create : Int, dep : Int, fund : Int]
      /\ p.step = "creating" /\ p.create = 0 /\ p.dep = 0 /\ p.fund = 0
  BY DEF Wallet!Unplanned, Steps
<1>4. prov'[o] = p
  BY <1>0, <1>1 DEF WalletInv, WalletTypes
<1>5. o \in walletTorn \/ (Standing(o, "create") = {} /\ Standing(o, "fund") = {})
  BY <1>0, <1>1 DEF WalletInv, RunOk
<1>6. RecordOk(o)'
  BY <1>3, <1>4 DEF RecordOk
<1>7. RunOk'
  BY <1>2, <1>3, <1>4 DEF RunOk
<1> HIDE DEF p
<1> QED BY <1>0, <1>1, <1>2, <1>3, <1>5, <1>6, <1>7, RecordWritten DEF WalletInv

LEMMA CreateMinedKeeps == ASSUME WalletInv, Wallet!CreateMined PROVE WalletInv'
<1>0. PICK o \in Orders : o = run.id
  BY RunIs DEF Wallet!CreateMined, Places
<1> DEFINE p == [prov[o] EXCEPT !.step = "funding", !.dep = prov[o].create]
<1>1. /\ run.at = "create_sent" /\ run \in [id : Orders, at : Places] /\ run # Wallet!Nobody
      /\ UNCHANGED <<walletQueue, walletTxs, walletTorn>>
      /\ \/ prov' = [prov EXCEPT ![o] = p] /\ run' = [run EXCEPT !.at = "fund"]
         \/ run' = Wallet!Nobody /\ prov' = prov
  BY <1>0, RunIs DEF Wallet!CreateMined, Wallet!Stop, Places
<1>2. prov[o].create # 0 /\ RecordOk(o) /\ prov[o].step = "creating" /\ walletQueue' \in Seq(Orders)
  BY <1>0, <1>1 DEF WalletInv, RunOk, WalletTypes
<1>3. CASE run' = Wallet!Nobody /\ prov' = prov
  BY <1>0, <1>1, <1>2, <1>3, RunEnds
<1>4. CASE prov' = [prov EXCEPT ![o] = p] /\ run' = [run EXCEPT !.at = "fund"]
  <2>1. run' \in [id : Orders, at : Places] /\ run'.id = o /\ run'.at = "fund"
    BY <1>0, <1>1, <1>4 DEF Places
  <2>2. /\ p \in [step : Steps, create : Int, dep : Int, fund : Int]
        /\ p.step = "funding" /\ p.create = prov[o].create /\ p.dep = prov[o].create /\ p.fund = prov[o].fund
    BY <1>0, <1>1 DEF WalletInv, WalletTypes, Steps
  <2>3. prov'[o] = p
    BY <1>0, <1>1, <1>4 DEF WalletInv, WalletTypes
  <2>4. RecordOk(o)'
    BY <1>0, <1>1, <1>2, <2>2, <2>3 DEF RecordOk
  <2>5. RunOk'
    BY <2>1, <2>2, <2>3 DEF RunOk
  <2>6. o \in walletTorn \/ /\ \A t \in Standing(o, "create") : t.n = p.create
                            /\ \A t \in Standing(o, "fund") : t.n = p.fund
    BY <1>0, <1>1, <2>2 DEF WalletInv, HashesKept
  <2> HIDE DEF p
  <2> QED BY <1>0, <1>1, <1>4, <2>1, <2>2, <2>4, <2>5, <2>6, RecordWritten DEF WalletInv
<1> QED BY <1>0, <1>1, <1>3, <1>4

LEMMA PlanFundKeeps == ASSUME WalletInv, Wallet!PlanFund PROVE WalletInv'
<1> DEFINE o == run.id
           p == prov[o]
<1>1. /\ run.at = "fund" /\ run \in [id : Orders, at : Places] /\ o \in Orders /\ run # Wallet!Nobody
      /\ UNCHANGED <<prov, walletQueue, walletTxs>>
  BY RunIs DEF Wallet!PlanFund, Places
<1>2. PICK fund \in {"null", "pending", "success", "reverted"} :
        /\ Wallet!SaidOf(p.fund, fund)
        /\ IF p.dep = 0 \/ fund = "pending" THEN Wallet!Stop
           ELSE run' = [run EXCEPT !.at = IF Wallet!PlanRecovery(p, "null", fund) = "complete" THEN "done" ELSE "send_fund"]
  BY Zenon DEF Wallet!PlanFund
<1>3. walletTorn \subseteq walletTorn' /\ (fund = Wallet!Status(p.fund) \/ (fund = "null" /\ o \in walletTorn'))
  BY <1>2, SaidFacts
<1>4. walletQueue' \in Seq(Orders) /\ RecordOk(o) /\ p.step \in Steps /\ p.step # "complete"
  BY <1>1 DEF WalletInv, WalletTypes, RunOk
<1>5. CASE run' = Wallet!Nobody
  BY <1>1, <1>3, <1>4, <1>5, RunEnds
<1>6. CASE run' = [run EXCEPT !.at = "done"]
  <2>1. run' \in [id : Orders, at : Places] /\ run'.id = o /\ run'.at = "done"
    BY <1>1, <1>6 DEF Places
  <2>2. RunOk'
    BY <1>1, <1>4, <2>1 DEF RunOk
  <2> QED BY <1>1, <1>3, <1>4, <2>1, <2>2, WalletQuiet DEF WalletInv
<1>7. CASE /\ run' = [run EXCEPT !.at = "send_fund"] /\ p.dep # 0 /\ fund # "pending"
           /\ Wallet!PlanRecovery(p, "null", fund) # "complete"
  <2>1. run' \in [id : Orders, at : Places] /\ run'.id = o /\ run'.at = "send_fund"
    BY <1>1, <1>7 DEF Places
  <2>2. p.step = "funding"
    BY <1>4, <1>7 DEF RecordOk, Steps
  <2>3. p.fund = 0 \/ fund # "success"
    BY <1>7, <2>2 DEF Wallet!PlanRecovery
  <2>4. p.fund = 0 \/ fund \in {"null", "reverted"}
    BY <1>2, <1>7, <2>3
  <2>5. o \in walletTorn' \/ Standing(o, "fund") = {}
    BY <1>1, <1>3, <2>4, NothingStands DEF WalletInv
  <2>6. RunOk'
    BY <1>1, <1>4, <2>1, <2>2, <2>5 DEF RunOk, Standing
  <2> QED BY <1>1, <1>3, <1>4, <2>1, <2>6, WalletQuiet DEF WalletInv
<1> QED BY <1>2, <1>5, <1>6, <1>7 DEF Wallet!Stop

\* One more transaction has a number of its own.
LEMMA SentTypes ==
    ASSUME WalletInv, NEW o \in Orders, NEW kind \in {"create", "fund"},
           NEW t, t = [n |-> Wallet!NewTx, id |-> o, kind |-> kind, dep |-> prov[o].dep, st |-> "pending"],
           walletTxs' = walletTxs \union {t}
    PROVE  /\ t \in Sent /\ t.id = o /\ t.kind = kind /\ t.n = Wallet!NewTx /\ t.n # 0
           /\ IsFiniteSet(walletTxs') /\ walletTxs' \subseteq Sent
           /\ \A s \in walletTxs' : s.n >= 1 /\ s.n <= Cardinality(walletTxs')
           /\ \A r, s \in walletTxs' : r.n = s.n => r = s
<1>1. Wallet!NewTx = Cardinality(walletTxs) + 1 /\ Cardinality(walletTxs) \in Nat /\ IsFiniteSet(walletTxs)
  BY WalletCounts, FS_CardinalityType DEF WalletInv, WalletTypes, Wallet!NewTx
<1>2. t \in Sent /\ t.id = o /\ t.kind = kind /\ t.n = Cardinality(walletTxs) + 1
  BY <1>1 DEF WalletInv, WalletTypes, Sent
<1>3. t \notin walletTxs
  BY <1>1, <1>2 DEF WalletInv, WalletTypes
<1>4. IsFiniteSet(walletTxs') /\ Cardinality(walletTxs') = Cardinality(walletTxs) + 1
  BY <1>1, <1>3, FS_AddElement
<1>5. \A s \in walletTxs : s \in Sent /\ s.n >= 1 /\ s.n <= Cardinality(walletTxs) /\ s.n \in Int
  BY DEF WalletInv, WalletTypes, Sent
<1>6. \A s \in walletTxs' : s \in Sent /\ s.n >= 1 /\ s.n <= Cardinality(walletTxs')
  BY <1>1, <1>2, <1>4, <1>5
<1>7. \A r, s \in walletTxs' : r.n = s.n => r = s
  <2>1. ASSUME NEW r \in walletTxs', NEW s \in walletTxs', r.n = s.n PROVE r = s
    <3>1. r \in walletTxs \/ r = t
      OBVIOUS
    <3>2. s \in walletTxs \/ s = t
      OBVIOUS
    <3>3. CASE r \in walletTxs /\ s \in walletTxs
      BY <2>1, <3>3 DEF WalletInv, WalletTypes
    <3>4. CASE r = t /\ s \in walletTxs
      BY <1>1, <1>2, <1>5, <2>1, <3>4
    <3>5. CASE r \in walletTxs /\ s = t
      BY <1>1, <1>2, <1>5, <2>1, <3>5
    <3> QED BY <3>1, <3>2, <3>3, <3>4, <3>5
  <2> QED BY <2>1
<1>8. walletTxs' \subseteq Sent
  BY <1>6
<1>9. t.n = Wallet!NewTx /\ t.n # 0
  BY <1>1, <1>2
<1> QED BY <1>2, <1>4, <1>6, <1>7, <1>8, <1>9, Zenon

LEMMA SendKeeps ==
    ASSUME WalletInv, NEW kind \in {"create", "fund"}, Wallet!Send(kind),
           run.at = IF kind = "create" THEN "send_create" ELSE "send_fund"
    PROVE  WalletInv'
<1>0. PICK o \in Orders : o = run.id
  BY RunIs DEF Places
<1> DEFINE t == [n |-> Wallet!NewTx, id |-> o, kind |-> kind, dep |-> prov[o].dep, st |-> "pending"]
           p == IF kind = "create" THEN [prov[o] EXCEPT !.create = t.n] ELSE [prov[o] EXCEPT !.fund = t.n]
<1>1. /\ run \in [id : Orders, at : Places] /\ run # Wallet!Nobody /\ walletQueue' = walletQueue /\ walletQueue' \in Seq(Orders)
  BY RunIs DEF Wallet!Send, Places, WalletInv, WalletTypes
<1>2. /\ prov[o].step = IF kind = "create" THEN "creating" ELSE "funding"
      /\ kind = "create" => prov[o].create = 0
      /\ o \in walletTorn \/ Standing(o, kind) = {}
      /\ RecordOk(o)
  <2>1. prov[o].step = (IF kind = "create" THEN "creating" ELSE "funding") /\ (kind = "create" => prov[o].create = 0)
    BY <1>0, <1>1 DEF WalletInv, RunOk
  <2>2. CASE kind = "create"
    BY <1>0, <2>1, <2>2, NothingStands DEF WalletInv
  <2>3. CASE kind = "fund"
    BY <1>0, <1>1, <2>3 DEF WalletInv, RunOk
  <2> QED BY <2>1, <2>2, <2>3 DEF WalletInv
<1>3. CASE walletTxs' = walletTxs /\ walletTorn' = walletTorn /\ prov' = prov /\ run' = Wallet!Nobody
  BY <1>1, <1>3, RunEnds
<1>4. CASE walletTxs' = walletTxs \union {t} /\ walletTorn' = walletTorn \union {o} /\ prov' = prov /\ run' = Wallet!Nobody
  <2>1. /\ t.id = o /\ IsFiniteSet(walletTxs') /\ walletTxs' \subseteq Sent
        /\ \A s \in walletTxs' : s.n >= 1 /\ s.n <= Cardinality(walletTxs')
        /\ \A r, s \in walletTxs' : r.n = s.n => r = s
    BY <1>4, SentTypes
  <2> HIDE DEF t
  <2>2. WalletTypes'
    BY <1>1, <1>4, <2>1 DEF WalletInv, WalletTypes
  <2>3. \A q \in Orders : RecordOk(q)'
    BY <1>4 DEF WalletInv, RecordOk
  <2>4. HashesKept'
    BY <1>4, <2>1 DEF WalletInv, HashesKept, Standing
  <2> QED BY <1>4, <2>2, <2>3, <2>4, NobodyOk DEF WalletInv
<1>5. CASE /\ walletTxs' = walletTxs \union {t} /\ walletTorn' = walletTorn /\ prov' = [prov EXCEPT ![o] = p]
           /\ run' = [run EXCEPT !.at = IF kind = "create" THEN "create_sent" ELSE "fund_sent"]
  <2>1. /\ t.id = o /\ t.kind = kind /\ t.n \in Int /\ t.n # 0 /\ IsFiniteSet(walletTxs') /\ walletTxs' \subseteq Sent
        /\ \A s \in walletTxs' : s.n >= 1 /\ s.n <= Cardinality(walletTxs')
        /\ \A r, s \in walletTxs' : r.n = s.n => r = s
    BY <1>5, SentTypes DEF Sent
  <2> HIDE DEF t
  <2>2. /\ p \in [step : Steps, create : Int, dep : Int, fund : Int]
        /\ p.step = prov[o].step /\ p.dep = prov[o].dep
        /\ kind = "create" => p.create = t.n /\ p.fund = prov[o].fund
        /\ kind = "fund" => p.create = prov[o].create /\ p.fund = t.n
    BY <2>1, ZenonT(30) DEF WalletInv, WalletTypes
  <2> HIDE DEF p
  <2>3. prov'[o] = p /\ \A q \in Orders : q # o => prov'[q] = prov[q]
    BY <1>5 DEF WalletInv, WalletTypes
  <2>4. run' \in [id : Orders, at : Places] /\ run'.id = o
        /\ run'.at = IF kind = "create" THEN "create_sent" ELSE "fund_sent"
    BY <1>0, <1>1, <1>5 DEF Places
  <2>5. WalletTypes'
    BY <1>1, <1>5, <2>1, <2>2, <2>4 DEF WalletInv, WalletTypes
  <2>6. \A q \in Orders : RecordOk(q)'
    <3>1. ASSUME NEW q \in Orders, q # o PROVE RecordOk(q)'
      BY <1>5, <2>3, <3>1 DEF WalletInv, RecordOk
    <3>2. RecordOk(o)'
      BY <1>2, <1>5, <2>1, <2>2, <2>3 DEF RecordOk
    <3> QED BY <3>1, <3>2
  <2>7. HashesKept'
    <3>1. ASSUME NEW q \in Orders, q \notin walletTorn, q # o, NEW k \in {"create", "fund"}
          PROVE  Standing(q, k)' = Standing(q, k)
      BY <1>5, <2>1, <3>1 DEF Standing
    <3>2. ASSUME o \notin walletTorn PROVE /\ \A s \in Standing(o, "create")' : s.n = p.create
                                           /\ \A s \in Standing(o, "fund")' : s.n = p.fund
      <4>1. Standing(o, kind)' \subseteq {t}
        BY <1>2, <1>5, <3>2 DEF Standing
      <4>2. \A k : k # kind => Standing(o, k)' = Standing(o, k)
        BY <1>5, <2>1 DEF Standing
      <4>3. /\ \A s \in Standing(o, "create") : s.n = prov[o].create
            /\ \A s \in Standing(o, "fund") : s.n = prov[o].fund
        BY <3>2 DEF WalletInv, HashesKept
      <4>4. CASE kind = "create"
        BY <2>2, <4>1, <4>2, <4>3, <4>4
      <4>5. CASE kind = "fund"
        BY <2>2, <4>1, <4>2, <4>3, <4>5
      <4> QED BY <4>4, <4>5
    <3> QED BY <1>5, <2>3, <3>1, <3>2 DEF WalletInv, HashesKept
  <2>8. RunOk'
    BY <1>2, <2>1, <2>2, <2>3, <2>4 DEF RunOk
  <2> QED BY <2>5, <2>6, <2>7, <2>8 DEF WalletInv
<1>6. prov[o] = prov[run.id] /\ [prov EXCEPT ![o] = p] = IF kind = "create" THEN [prov EXCEPT ![run.id].create = Wallet!NewTx]
                                                      ELSE [prov EXCEPT ![run.id].fund = Wallet!NewTx]
  BY <1>0
<1> HIDE DEF p
<1> QED BY <1>0, <1>3, <1>4, <1>5, <1>6 DEF Wallet!Send, Wallet!Stop

LEMMA FundMinedKeeps == ASSUME WalletInv, Wallet!FundMined PROVE WalletInv'
<1>0. PICK o \in Orders : o = run.id
  BY RunIs DEF Wallet!FundMined, Places
<1>1. /\ run.at = "fund_sent" /\ run \in [id : Orders, at : Places] /\ run # Wallet!Nobody
      /\ UNCHANGED <<prov, walletQueue, walletTxs, walletTorn>> /\ walletQueue' \in Seq(Orders)
      /\ run' = [run EXCEPT !.at = "done"] \/ run' = Wallet!Nobody
  BY RunIs DEF Wallet!FundMined, Wallet!Stop, Places, WalletInv, WalletTypes
<1>2. CASE run' = Wallet!Nobody
  BY <1>1, <1>2, RunEnds
<1>3. CASE run' = [run EXCEPT !.at = "done"]
  <2>1. run' \in [id : Orders, at : Places] /\ run'.id = o /\ run'.at = "done"
    BY <1>0, <1>1, <1>3 DEF Places
  <2>2. RunOk'
    BY <1>0, <1>1, <2>1 DEF WalletInv, RunOk
  <2> QED BY <1>1, <2>1, <2>2, WalletQuiet DEF WalletInv
<1> QED BY <1>1, <1>2, <1>3

LEMMA CompleteKeeps == ASSUME WalletInv, Wallet!Complete PROVE WalletInv'
<1>0. PICK o \in Orders : o = run.id
  BY RunIs DEF Wallet!Complete, Places
<1> DEFINE p == [prov[o] EXCEPT !.step = "complete"]
<1>1. UNCHANGED <<walletQueue, walletTxs, walletTorn>> /\ prov' = [prov EXCEPT ![o] = p] /\ run' = Wallet!Nobody
  BY <1>0 DEF Wallet!Complete, Wallet!Stop
<1>2. /\ p \in [step : Steps, create : Int, dep : Int, fund : Int]
      /\ p.step = "complete" /\ p.create = prov[o].create /\ p.dep = prov[o].dep /\ p.fund = prov[o].fund
  BY DEF WalletInv, WalletTypes, Steps
<1>3. prov'[o] = p
  BY <1>1 DEF WalletInv, WalletTypes
<1>4. RecordOk(o)'
  BY <1>1, <1>2, <1>3 DEF WalletInv, RecordOk
<1>5. o \in walletTorn \/ /\ \A t \in Standing(o, "create") : t.n = p.create
                          /\ \A t \in Standing(o, "fund") : t.n = p.fund
  BY <1>2 DEF WalletInv, HashesKept
<1> HIDE DEF p
<1> QED BY <1>1, <1>2, <1>4, <1>5, RecordWritten, NobodyOk DEF WalletInv

\* A mined transaction is the same one with another status.
LEMMA MineKeeps == ASSUME WalletInv, Wallet!Mine PROVE WalletInv'
<1>1. PICK t \in walletTxs, s \in {"success", "reverted"} :
        t.st = "pending" /\ walletTxs' = (walletTxs \ {t}) \union {[t EXCEPT !.st = s]}
  BY DEF Wallet!Mine
<1>2. UNCHANGED <<prov, walletQueue, run, walletTorn>>
  BY DEF Wallet!Mine
<1> DEFINE u == [t EXCEPT !.st = s]
<1>3. t \in Sent /\ u \in Sent /\ u.n = t.n /\ u.id = t.id /\ u.kind = t.kind /\ u.st = s
  BY <1>1 DEF WalletInv, WalletTypes, Sent
<1>4. IsFiniteSet(walletTxs \ {t}) /\ Cardinality(walletTxs \ {t}) = Cardinality(walletTxs) - 1 /\ Cardinality(walletTxs) \in Nat
  BY <1>1, FS_RemoveElement, FS_CardinalityType DEF WalletInv, WalletTypes
<1>5. u \notin walletTxs \ {t}
  BY <1>1, <1>3 DEF WalletInv, WalletTypes
<1>6. IsFiniteSet(walletTxs') /\ Cardinality(walletTxs') = Cardinality(walletTxs)
  <2>1. walletTxs' = (walletTxs \ {t}) \union {u}
    BY <1>1
  <2> HIDE DEF u
  <2>2. IsFiniteSet(walletTxs') /\ Cardinality(walletTxs') = Cardinality(walletTxs \ {t}) + 1
    BY <1>4, <1>5, <2>1, FS_AddElement
  <2> QED BY <1>4, <2>2
<1>7. /\ \A x \in walletTxs' : x \in walletTxs \/ x = u
      /\ \A x \in walletTxs : x = t \/ x \in walletTxs'
      /\ u \in walletTxs'
  BY <1>1
<1> HIDE DEF u
<1>8. WalletTypes'
  <2>1. walletTxs' \subseteq Sent
    BY <1>3, <1>7 DEF WalletInv, WalletTypes
  <2>2. \A x \in walletTxs' : x.n >= 1 /\ x.n <= Cardinality(walletTxs')
    BY <1>1, <1>3, <1>6, <1>7 DEF WalletInv, WalletTypes
  <2>3. t \notin walletTxs' \/ t = u
    BY <1>1 DEF u
  <2>4. \A x, y \in walletTxs' : x.n = y.n => x = y
    BY <1>1, <1>3, <1>7, <2>3 DEF WalletInv, WalletTypes
  <2> QED BY <1>2, <1>6, <2>1, <2>2, <2>4 DEF WalletInv, WalletTypes
<1>9. \A o \in Orders : RecordOk(o)'
  BY <1>2, <1>3, <1>7 DEF WalletInv, RecordOk
<1>10. \A o, k : \A x \in Standing(o, k)' : \E y \in Standing(o, k) : y.n = x.n
  BY <1>1, <1>3, <1>7 DEF Standing
<1>11. HashesKept'
  <2>1. ASSUME NEW o \in Orders, o \notin walletTorn
        PROVE  /\ \A x \in Standing(o, "create")' : x.n = prov[o].create
               /\ \A x \in Standing(o, "fund")' : x.n = prov[o].fund
    BY <1>10, <2>1 DEF WalletInv, HashesKept
  <2> QED BY <1>2, <2>1 DEF HashesKept
<1>12. RunOk'
  BY <1>2, <1>10 DEF WalletInv, RunOk
<1> QED BY <1>8, <1>9, <1>11, <1>12 DEF WalletInv

LEMMA WalletStep == ASSUME WalletInv, [Wallet!Next]_(Wallet!vars) PROVE WalletInv'
<1>1. CASE \E o \in Orders : Wallet!EnqueueProvision(o)
  BY <1>1, EnqueueKeeps
<1>2. CASE Wallet!Drain
  BY <1>2, DrainKeeps
<1>3. CASE Wallet!Plan
  BY <1>3, PlanKeeps
<1>4. CASE Wallet!Underfunded \/ Wallet!ReceiptTimeout \/ Wallet!Crash
  BY <1>4, StopsKeep
<1>5. CASE Wallet!AdoptOrphanCreate
  BY <1>5, AdoptKeeps
<1>6. CASE Wallet!WriteAheadCreate
  BY <1>6, WriteAheadKeeps
<1>7. CASE Wallet!SendCreate
  BY <1>7, SendKeeps DEF Wallet!SendCreate
<1>8. CASE Wallet!CreateMined
  BY <1>8, CreateMinedKeeps
<1>9. CASE Wallet!PlanFund
  BY <1>9, PlanFundKeeps
<1>10. CASE Wallet!SendFund
  BY <1>10, SendKeeps DEF Wallet!SendFund
<1>11. CASE Wallet!FundMined
  BY <1>11, FundMinedKeeps
<1>12. CASE Wallet!Complete
  BY <1>12, CompleteKeeps
<1>13. CASE Wallet!Mine
  BY <1>13, MineKeeps
<1>14. CASE UNCHANGED Wallet!vars
  <2>1. UNCHANGED <<prov, walletQueue, run, walletTxs, walletTorn>>
    BY <1>14 DEF Wallet!vars
  <2>2. RunOk'
    BY <2>1 DEF WalletInv, RunOk, Standing
  <2> QED BY <2>1, <2>2, WalletQuiet DEF WalletInv, WalletTypes
<1> QED BY <1>1, <1>2, <1>3, <1>4, <1>5, <1>6, <1>7, <1>8, <1>9, <1>10, <1>11, <1>12, <1>13,
    <1>14, Zenon DEF Wallet!Next

LEMMA WalletStart == ASSUME Wallet!Init PROVE WalletInv
<1>1. /\ prov = [o \in Orders |-> Wallet!Unplanned] /\ walletQueue = <<>> /\ run = Wallet!Nobody /\ walletTxs = {}
      /\ IsFiniteSet(walletTxs)
  BY FS_EmptySet DEF Wallet!Init
<1> QED BY <1>1 DEF WalletInv, WalletTypes, RecordOk, HashesKept, RunOk, Standing,
    Wallet!Unplanned, Steps

\* planRecovery's promise (provisioner.js:12): whatever crashes, reverts and receipt timeouts come
\* between its steps, a paid order whose hashes stayed on disk, and whose mined transactions no
\* node denied, stands on one deployment that is funded once.
THEOREM OrdersConvertedOnce == Wallet!Spec => []Wallet!ConvertedOnce
<1>1. WalletInv => Wallet!ConvertedOnce
  <2>1. ASSUME WalletInv, NEW o \in Orders, o \notin walletTorn, NEW kind \in {"create", "fund"}
        PROVE  Cardinality(Standing(o, kind)) <= 1
    <3>1. \A s, t \in Standing(o, kind) : s = t
      BY <2>1 DEF WalletInv, WalletTypes, HashesKept, Standing
    <3> QED BY <3>1, AtMostOne
  <2> QED BY <2>1, WalletCounts DEF Wallet!ConvertedOnce, Standing
<1> QED BY <1>1, WalletStart, WalletStep, PTL DEF Wallet!Spec

-----------------------------------------------------------------------------
(* The top-ups of credit vaults                                              *)

Float == INSTANCE TopUps WITH order <- floatOrder, txs <- floatTxs,
    silent <- floatSilent, limits <- floatLimits, Ids <- FloatIds,
    MaxTxs <- MaxFloatTxs, MaxFaults <- MaxFloatFaults

LEMMA FloatCounts == \A S : Float!Cardinality(S) = Cardinality(S)
  BY Zenon DEF Float!Cardinality, Cardinality, Float!IsFiniteSet, IsFiniteSet

Stages == {"no", "verify", "balance", "queue", "send", "receipt"}
Attempts == {"none", "failed", "depositing", "done"}
States == {"none", "awaiting_payment", "crediting", "under_review", "complete", "expired", "rejected"}
Topup == [st : States, step : Attempts, tx : Int, flags : SUBSET Float!Reasons]
\* The deposits of a top-up that landed or still may.
Owed(o) == {t \in floatTxs : t.id = o /\ t.st # "reverted"}

\* What is owed is what the record names, or waits for a human behind a record without a hash; before
\* a deposit leaves nothing is owed.
DepositOk(o) ==
    /\ floatOrder[o].step \in {"none", "failed"} => floatOrder[o].tx = 0
    /\ settling[o] \in {"queue", "send"} => floatOrder[o].tx = 0
    /\ o \in floatSilent
       \/ /\ \A s, t \in Owed(o) : s = t
          /\ settling[o] \in {"balance", "queue", "send"} => Owed(o) = {}
          /\ \A t \in Owed(o) : t.n = floatOrder[o].tx
                                \/ (floatOrder[o].step = "depositing" /\ floatOrder[o].tx = 0 /\ settling[o] = "no")

TopupInv ==
    /\ floatOrder \in [FloatIds -> Topup]
    /\ settling \in [FloatIds -> Stages]
    /\ Numbered(floatTxs)
    /\ \A o \in FloatIds : DepositOk(o)

Restepped(v, s) == [v EXCEPT !.step = s, !.tx = 0]

LEMMA Restep ==
    ASSUME NEW v \in Topup, NEW s \in Attempts
    PROVE  Restepped(v, s) \in Topup /\ Restepped(v, s).step = s /\ Restepped(v, s).tx = 0
<1> DEFINE u == [v EXCEPT !.step = s]
<1>1. u \in Topup /\ u.step = s
  BY DEF Topup
<1> HIDE DEF u
<1>2. [u EXCEPT !.tx = 0] \in Topup /\ [u EXCEPT !.tx = 0].step = s /\ [u EXCEPT !.tx = 0].tx = 0
  BY <1>1 DEF Topup
<1> QED BY <1>2 DEF u, Restepped

\* A record and a stage that agree with what is owed.
Agrees(o, v, s) ==
    /\ v \in Topup /\ s \in Stages
    /\ v.step \in {"none", "failed"} => v.tx = 0
    /\ s \in {"queue", "send"} => v.tx = 0
    /\ o \in floatSilent
       \/ /\ s \in {"balance", "queue", "send"} => Owed(o) = {}
          /\ \A t \in Owed(o) : t.n = v.tx \/ (v.step = "depositing" /\ v.tx = 0 /\ s = "no")

\* A step of one top-up that sends nothing.
LEMMA TopupWritten ==
    ASSUME TopupInv, NEW o \in FloatIds, NEW v, NEW s, Agrees(o, v, s), UNCHANGED <<floatTxs, floatSilent>>,
           floatOrder' = [floatOrder EXCEPT ![o] = v], settling' = [settling EXCEPT ![o] = s]
    PROVE  TopupInv'
<1>1. floatOrder' \in [FloatIds -> Topup] /\ settling' \in [FloatIds -> Stages]
  BY DEF TopupInv, Agrees
<1>2. floatOrder'[o] = v /\ settling'[o] = s
  BY DEF TopupInv
<1>3. ASSUME NEW q \in FloatIds, q # o PROVE DepositOk(q)'
  <2>1. floatOrder'[q] = floatOrder[q] /\ settling'[q] = settling[q]
    BY <1>3 DEF TopupInv
  <2> QED BY <2>1 DEF TopupInv, DepositOk, Owed
<1>4. DepositOk(o)'
  BY <1>2 DEF TopupInv, DepositOk, Agrees, Owed
<1>5. Numbered(floatTxs)'
  BY DEF TopupInv, Numbered
<1> QED BY <1>1, <1>3, <1>4, <1>5 DEF TopupInv

LEMMA TopupIs ==
    ASSUME TopupInv, NEW o \in FloatIds
    PROVE  /\ Agrees(o, floatOrder[o], settling[o])
           /\ floatOrder = [floatOrder EXCEPT ![o] = floatOrder[o]]
           /\ settling = [settling EXCEPT ![o] = settling[o]]
BY DEF TopupInv, DepositOk, Agrees

\* settleTopup from its call to its first await, on a record that agrees.
LEMMA SettleKeeps ==
    ASSUME TopupInv, NEW o \in FloatIds, NEW v, Agrees(o, v, settling[o]), Float!SettleTopup(o, v),
           UNCHANGED <<floatTxs, floatSilent>>
    PROVE  TopupInv'
<1> DEFINE plan == IF v.st = "crediting" /\ settling[o] = "no" THEN Float!TopupPlan(v) ELSE "wait"
<1>1. /\ floatOrder' = [floatOrder EXCEPT ![o] = IF plan = "review" THEN [v EXCEPT !.flags = @ \union {"uncertain"}] ELSE v]
      /\ settling' = CASE plan = "verify" -> [settling EXCEPT ![o] = "verify"]
                       [] plan = "settle" -> [settling EXCEPT ![o] = "balance"]
                       [] OTHER -> settling
  BY Zenon DEF Float!SettleTopup
<1>2. /\ plan = "verify" => settling[o] = "no" /\ v.step = "depositing" /\ v.tx # 0
      /\ plan = "settle" => settling[o] = "no" /\ v.step \in {"none", "failed"}
  BY DEF Float!TopupPlan
<1>3. \A t \in Owed(o) : t.n # 0
  BY DEF Owed, TopupInv, Numbered
<1> HIDE DEF plan
<1>4. CASE plan = "verify"
  <2>1. Agrees(o, v, "verify")
    BY <1>2, <1>4 DEF Agrees, Stages
  <2> QED BY <1>1, <1>4, <2>1, TopupWritten
<1>5. CASE plan = "settle"
  <2>1. Agrees(o, v, "balance")
    BY <1>2, <1>3, <1>5 DEF Agrees, Stages
  <2> QED BY <1>1, <1>5, <2>1, TopupWritten
<1>6. CASE plan \notin {"verify", "settle"}
  <2> DEFINE w == IF plan = "review" THEN [v EXCEPT !.flags = @ \union {"uncertain"}] ELSE v
  <2>1. Agrees(o, w, settling[o])
    BY DEF Agrees, Topup, Float!Reasons
  <2>2. floatOrder' = [floatOrder EXCEPT ![o] = w] /\ settling' = [settling EXCEPT ![o] = settling[o]]
    BY <1>1, <1>6, TopupIs
  <2> HIDE DEF w
  <2> QED BY <2>1, <2>2, TopupWritten
<1> QED BY <1>4, <1>5, <1>6

\* Only the state or the flags of a record change.
LEMMA MovedAgrees ==
    ASSUME NEW o, NEW v, NEW s, Agrees(o, v, s), NEW to \in States, NEW r \in Float!Reasons
    PROVE  /\ Agrees(o, Float!Moved(v, to), s)
           /\ Agrees(o, [v EXCEPT !.flags = @ \union {r}], s)
           /\ Agrees(o, [v EXCEPT !.flags = @ \ {r}], s)
           /\ v \in Topup
BY DEF Agrees, Topup, Float!Moved

LEMMA OrderKeeps ==
    ASSUME TopupInv, NEW o \in FloatIds,
           Float!CreateTopup(o) \/ Float!StripeWebhook(o) \/ Float!UsdcArrives(o) \/ Float!ExpirySweep(o)
           \/ Float!SweepCrediting(o)
    PROVE  TopupInv'
<1>1. Agrees(o, floatOrder[o], settling[o]) /\ settling = [settling EXCEPT ![o] = settling[o]]
  BY TopupIs
<1>2. CASE Float!CreateTopup(o)
  <2> DEFINE v == [floatOrder[o] EXCEPT !.st = "awaiting_payment"]
  <2>1. Agrees(o, v, settling[o])
    BY <1>1 DEF Agrees, Topup, States
  <2>2. floatOrder' = [floatOrder EXCEPT ![o] = v] /\ UNCHANGED <<settling, floatTxs, floatSilent>>
    BY <1>2 DEF Float!CreateTopup
  <2> HIDE DEF v
  <2> QED BY <1>1, <2>1, <2>2, TopupWritten
<1>3. CASE Float!StripeWebhook(o)
  <2>1. Agrees(o, Float!Moved(floatOrder[o], "crediting"), settling[o])
    BY <1>1, MovedAgrees DEF States, Float!Reasons
  <2> QED BY <1>3, <2>1, SettleKeeps DEF Float!StripeWebhook
<1>4. CASE Float!UsdcArrives(o)
  <2> DEFINE v == [Float!Moved(floatOrder[o], "under_review") EXCEPT !.flags = @ \union {"usdc"}]
  <2>1. Agrees(o, v, settling[o])
    BY <1>1, MovedAgrees DEF States, Float!Reasons
  <2>2. floatOrder' = [floatOrder EXCEPT ![o] = v] /\ UNCHANGED <<settling, floatTxs, floatSilent>>
    BY <1>4 DEF Float!UsdcArrives
  <2> HIDE DEF v
  <2> QED BY <1>1, <2>1, <2>2, TopupWritten
<1>5. CASE Float!ExpirySweep(o)
  <2>1. Agrees(o, Float!Moved(floatOrder[o], "expired"), settling[o])
    BY <1>1, MovedAgrees DEF States, Float!Reasons
  <2>2. floatOrder' = [floatOrder EXCEPT ![o] = Float!Moved(floatOrder[o], "expired")] /\ UNCHANGED <<settling, floatTxs, floatSilent>>
    BY <1>5 DEF Float!ExpirySweep
  <2> QED BY <1>1, <2>1, <2>2, TopupWritten
<1>6. CASE Float!SweepCrediting(o)
  BY <1>1, <1>6, SettleKeeps DEF Float!SweepCrediting
<1> QED BY <1>2, <1>3, <1>4, <1>5, <1>6

LEMMA ReviewKeeps ==
    ASSUME TopupInv, NEW o \in FloatIds, NEW r \in Float!Reasons, Float!Approve(o, r) \/ Float!Reject(o, r)
    PROVE  TopupInv'
<1> DEFINE v == [floatOrder[o] EXCEPT !.flags = @ \ {r}]
<1>1. Agrees(o, floatOrder[o], settling[o]) /\ settling = [settling EXCEPT ![o] = settling[o]]
  BY TopupIs
<1>2. Agrees(o, v, settling[o]) /\ v \in Topup
  BY <1>1, MovedAgrees DEF States
<1>3. CASE Float!Approve(o, r)
  <2> DEFINE clears == floatOrder[o].step # "done" /\ floatOrder[o].tx = 0
             w == [floatOrder[o] EXCEPT !.flags = @ \ {r}, !.step = IF clears THEN "none" ELSE @]
  <2>1. Agrees(o, w, settling[o])
    <3>1. clears => Owed(o) = {}
      BY <1>3 DEF Float!Approve, Owed
    <3>2. w \in Topup /\ w.tx = floatOrder[o].tx /\ w.step = IF clears THEN "none" ELSE floatOrder[o].step
      BY <1>1 DEF Agrees, Topup, Attempts
    <3> QED BY <1>1, <3>1, <3>2 DEF Agrees
  <2>2. /\ Float!SettleTopup(o, IF w.st = "under_review" THEN Float!Moved(w, "crediting") ELSE w)
        /\ UNCHANGED <<floatTxs, floatSilent>>
    BY <1>3 DEF Float!Approve
  <2> HIDE DEF w
  <2>3. Agrees(o, IF w.st = "under_review" THEN Float!Moved(w, "crediting") ELSE w, settling[o])
    BY <2>1, MovedAgrees DEF States
  <2> QED BY <2>2, <2>3, SettleKeeps
<1>4. CASE Float!Reject(o, r)
  <2> DEFINE w == IF v.st \in {"under_review", "crediting"} THEN Float!Moved(v, "rejected") ELSE v
  <2>1. floatOrder' = [floatOrder EXCEPT ![o] = w] /\ UNCHANGED <<settling, floatTxs, floatSilent>>
    BY <1>4 DEF Float!Reject
  <2>2. Agrees(o, w, settling[o])
    BY <1>2, MovedAgrees DEF States
  <2> HIDE DEF w
  <2> QED BY <1>1, <2>1, <2>2, TopupWritten
<1> QED BY <1>3, <1>4

LEMMA VerifyKeeps == ASSUME TopupInv, NEW o \in FloatIds, Float!VerifyDeposit(o) PROVE TopupInv'
<1> DEFINE v == floatOrder[o]
<1>1. /\ Agrees(o, v, "verify") /\ v \in Topup /\ UNCHANGED <<floatTxs, floatSilent>>
      /\ floatOrder = [floatOrder EXCEPT ![o] = v]
  BY TopupIs DEF Float!VerifyDeposit, Agrees
<1>2. CASE /\ floatOrder' = [floatOrder EXCEPT ![o] = Float!Moved([v EXCEPT !.step = "done"], "complete")]
           /\ settling' = [settling EXCEPT ![o] = "no"]
  <2>1. Agrees(o, [v EXCEPT !.step = "done"], "no")
    BY <1>1 DEF Agrees, Topup, Stages, Attempts
  <2>2. Agrees(o, Float!Moved([v EXCEPT !.step = "done"], "complete"), "no")
    BY <2>1, MovedAgrees DEF States, Float!Reasons
  <2> QED BY <1>1, <1>2, <2>2, TopupWritten
<1>3. CASE /\ Float!Tx(v.tx).st = "reverted" /\ settling' = [settling EXCEPT ![o] = "balance"]
           /\ floatOrder' = [floatOrder EXCEPT ![o].step = "none", ![o].tx = 0]
  <2> DEFINE w == Restepped(v, "none")
  <2>1. o \in floatSilent \/ Owed(o) = {}
    <3>1. ASSUME o \notin floatSilent, NEW t \in Owed(o) PROVE FALSE
      <4>1. t \in floatTxs /\ t.n = v.tx
        BY <1>1, <3>1 DEF Agrees, Owed
      <4>2. Float!Tx(v.tx) = t
        BY <4>1, ByNumber DEF Float!Tx, TopupInv
      <4> QED BY <1>3, <3>1, <4>2 DEF Owed
    <3> QED BY <3>1
  <2>2. w \in Topup /\ w.step = "none" /\ w.tx = 0
    BY <1>1, Restep DEF Attempts
  <2>3. floatOrder' = [floatOrder EXCEPT ![o] = w]
    BY <1>3 DEF TopupInv, Restepped
  <2> HIDE DEF w
  <2>4. Agrees(o, w, "balance")
    BY <2>1, <2>2 DEF Agrees, Stages
  <2> QED BY <1>1, <1>3, <2>3, <2>4, TopupWritten
<1>4. CASE settling' = [settling EXCEPT ![o] = "no"] /\ floatOrder' = floatOrder
  <2>1. Agrees(o, v, "no")
    BY <1>1 DEF Agrees, Stages
  <2> QED BY <1>1, <1>4, <2>1, TopupWritten
<1>5. CASE settling' = [settling EXCEPT ![o] = "no"] /\ floatOrder' = [floatOrder EXCEPT ![o].flags = @ \union {"uncertain"}]
  <2>1. Agrees(o, [v EXCEPT !.flags = @ \union {"uncertain"}], "no")
    BY <1>1 DEF Agrees, Stages, Topup, Float!Reasons
  <2> QED BY <1>1, <1>5, <2>1, TopupWritten
<1> QED BY <1>2, <1>3, <1>4, <1>5 DEF Float!VerifyDeposit, Float!Ended

LEMMA BalanceKeeps == ASSUME TopupInv, NEW o \in FloatIds, Float!CheckBalance(o) PROVE TopupInv'
<1> DEFINE v == floatOrder[o]
           w == [v EXCEPT !.flags = @ \union {"held"}]
           d == Restepped(v, "depositing")
<1>1. /\ Agrees(o, v, "balance") /\ v \in Topup /\ UNCHANGED <<floatTxs, floatSilent>>
      /\ floatOrder = [floatOrder EXCEPT ![o] = v]
  BY TopupIs DEF Float!CheckBalance, Agrees
<1>2. o \in floatSilent \/ Owed(o) = {}
  BY <1>1 DEF Agrees
<1>3. w \in Topup /\ w.tx = v.tx /\ w.step = v.step
  BY <1>1 DEF Topup, Float!Reasons
<1>4. d \in Topup /\ d.tx = 0 /\ d.step = "depositing"
  BY <1>1, Restep DEF Attempts
<1> HIDE DEF w, d
<1>5. Agrees(o, v, "no") /\ Agrees(o, w, "no")
  BY <1>1, <1>2, <1>3 DEF Agrees, Stages
<1>6. Agrees(o, d, "queue")
  BY <1>1, <1>2, <1>4 DEF Agrees, Stages
<1> USE DEF w, d
<1>7. \/ settling' = [settling EXCEPT ![o] = "no"] /\ floatOrder' = [floatOrder EXCEPT ![o] = v]
      \/ settling' = [settling EXCEPT ![o] = "no"] /\ floatOrder' = [floatOrder EXCEPT ![o] = w]
      \/ settling' = [settling EXCEPT ![o] = "queue"] /\ floatOrder' = [floatOrder EXCEPT ![o] = d]
  BY <1>1 DEF Float!CheckBalance, Float!Ended, TopupInv, Restepped
<1> HIDE DEF v, w, d
<1> QED BY <1>1, <1>5, <1>6, <1>7, TopupWritten

LEMMA TakeKeeps == ASSUME TopupInv, NEW o \in FloatIds, Float!TakeWallet(o) PROVE TopupInv'
<1>1. /\ Agrees(o, floatOrder[o], "queue") /\ UNCHANGED <<floatOrder, floatTxs, floatSilent>> /\ settling' = [settling EXCEPT ![o] = "send"]
      /\ floatOrder = [floatOrder EXCEPT ![o] = floatOrder[o]]
  BY TopupIs DEF Float!TakeWallet
<1>2. Agrees(o, floatOrder[o], "send")
  BY <1>1 DEF Agrees, Stages
<1> QED BY <1>1, <1>2, TopupWritten

\* A failed attempt leaves a record without a hash, when nothing is owed.
LEMMA FailedKeeps ==
    ASSUME TopupInv, NEW o \in FloatIds, Float!Failed(o), UNCHANGED <<floatTxs, floatSilent>>, o \in floatSilent \/ Owed(o) = {}
    PROVE  TopupInv'
<1> DEFINE v == floatOrder[o]
           w == IF v.step = "none" THEN v ELSE Restepped(v, "failed")
<1>1. floatOrder' = [floatOrder EXCEPT ![o] = w] /\ settling' = [settling EXCEPT ![o] = "no"]
  BY DEF Float!Failed, Float!Ended, TopupInv, Restepped
<1>2. Agrees(o, v, settling[o]) /\ v \in Topup /\ (\A t \in Owed(o) : t.n # 0)
  BY TopupIs DEF Agrees, Owed, TopupInv, Numbered
<1>3. w \in Topup /\ ((w.step = "failed" /\ w.tx = 0) \/ (w.step = "none" /\ w = v))
  BY <1>2, Restep DEF Attempts
<1> HIDE DEF w
<1>4. Agrees(o, w, "no")
  BY <1>2, <1>3 DEF Agrees, Stages
<1> QED BY <1>1, <1>4, TopupWritten

\* A deposit that leaves the wallet, of a top-up that owes nothing.
LEMMA DepositLeaves ==
    ASSUME TopupInv, NEW o \in FloatIds, NEW t, t = [n |-> Float!Cardinality(floatTxs) + 1, id |-> o, st |-> "pending"],
           floatTxs' = floatTxs \union {t}, floatSilent \subseteq floatSilent', floatOrder' \in [FloatIds -> Topup], settling' \in [FloatIds -> Stages],
           \A q \in FloatIds : q # o => floatOrder'[q] = floatOrder[q] /\ settling'[q] \in {settling[q], "no"},
           floatOrder'[o].step \in {"none", "failed"} => floatOrder'[o].tx = 0,
           settling'[o] \notin {"balance", "queue", "send"},
           o \in floatSilent' \/ /\ o \in floatSilent \/ Owed(o) = {}
                                 /\ t.n = floatOrder'[o].tx
                                    \/ (floatOrder'[o].step = "depositing" /\ floatOrder'[o].tx = 0 /\ settling'[o] = "no")
    PROVE  TopupInv'
<1>1. Numbered(floatTxs') /\ t.id = o
  BY FloatCounts, OneMore DEF TopupInv
<1>2. ASSUME NEW q \in FloatIds, q # o PROVE DepositOk(q)'
  <2>1. Owed(q)' = Owed(q)
    BY <1>1, <1>2 DEF Owed
  <2> QED BY <1>2, <2>1 DEF TopupInv, DepositOk
<1>3. DepositOk(o)'
  <2>1. CASE o \in floatSilent'
    BY <2>1 DEF DepositOk
  <2>2. CASE o \notin floatSilent'
    <3>1. Owed(o)' \subseteq {t}
      BY <2>2 DEF Owed
    <3> QED BY <2>2, <3>1 DEF DepositOk
  <2> QED BY <2>1, <2>2
<1> QED BY <1>1, <1>2, <1>3 DEF TopupInv

LEMMA FloatDepositKeeps == ASSUME TopupInv, NEW o \in FloatIds, Float!Deposit(o) PROVE TopupInv'
<1> DEFINE v == floatOrder[o]
           t == [n |-> Float!Cardinality(floatTxs) + 1, id |-> o, st |-> "pending"]
<1>1. /\ v \in Topup /\ settling[o] = "send" /\ (v.step \in {"none", "failed"} => v.tx = 0) /\ v.tx = 0
      /\ o \in floatSilent \/ Owed(o) = {}
      /\ floatOrder \in [FloatIds -> Topup] /\ settling \in [FloatIds -> Stages]
  BY TopupIs DEF Float!Deposit, Agrees, TopupInv
<1>2. CASE Float!Failed(o) /\ UNCHANGED <<floatTxs, floatSilent>>
  BY <1>1, <1>2, FailedKeeps
<1>3. CASE /\ v.step = "depositing" /\ floatTxs' = floatTxs \union {t} /\ floatOrder' = [floatOrder EXCEPT ![o].tx = t.n]
           /\ settling' = [settling EXCEPT ![o] = "receipt"] /\ floatSilent' = floatSilent
  <2>1. t.n \in Int
    BY FloatCounts, OneMore DEF TopupInv
  <2> HIDE DEF t
  <2>2. floatOrder' \in [FloatIds -> Topup] /\ settling' \in [FloatIds -> Stages]
    BY <1>1, <1>3, <2>1 DEF Topup, Stages
  <2>3. floatOrder'[o].tx = t.n /\ floatOrder'[o].step = "depositing" /\ settling'[o] = "receipt"
    BY <1>1, <1>3 DEF Topup
  <2>4. \A q \in FloatIds : q # o => floatOrder'[q] = floatOrder[q] /\ settling'[q] = settling[q]
    BY <1>1, <1>3
  <2> QED BY <1>1, <1>3, <2>2, <2>3, <2>4, DepositLeaves DEF t
<1>4. CASE /\ floatTxs' = floatTxs \union {t} /\ floatSilent' = floatSilent \union {o} /\ settling' = [settling EXCEPT ![o] = "no"]
           /\ floatOrder' = floatOrder \/ floatOrder' = [floatOrder EXCEPT ![o].step = "failed", ![o].tx = 0]
  <2>1. floatOrder' \in [FloatIds -> Topup] /\ settling' \in [FloatIds -> Stages]
    BY <1>1, <1>4 DEF Topup, Stages, Attempts
  <2>2. floatOrder'[o].tx = 0 /\ settling'[o] = "no" /\ \A q \in FloatIds : q # o => floatOrder'[q] = floatOrder[q] /\ settling'[q] = settling[q]
    BY <1>1, <1>4 DEF Topup
  <2> HIDE DEF t
  <2> QED BY <1>4, <2>1, <2>2, DepositLeaves DEF t
<1>5. CASE /\ floatTxs' = floatTxs \union {t} /\ settling' = [p \in FloatIds |-> "no"] /\ floatOrder' = floatOrder
           /\ floatSilent' = IF v.step = "depositing" THEN floatSilent ELSE floatSilent \union {o}
  <2>1. settling' \in [FloatIds -> Stages] /\ \A q \in FloatIds : settling'[q] = "no"
    BY <1>5 DEF Stages
  <2> HIDE DEF t
  <2> QED BY <1>1, <1>5, <2>1, DepositLeaves DEF t
<1> QED BY <1>2, <1>3, <1>4, <1>5 DEF Float!Deposit, Float!Failed, Float!Ended

LEMMA DepositedKeeps == ASSUME TopupInv, NEW o \in FloatIds, Float!Deposited(o) PROVE TopupInv'
<1> DEFINE v == floatOrder[o]
<1>1. Agrees(o, v, "receipt") /\ UNCHANGED <<floatTxs, floatSilent>> /\ floatOrder = [floatOrder EXCEPT ![o] = v]
  BY TopupIs DEF Float!Deposited
<1>2. CASE /\ floatOrder' = [floatOrder EXCEPT ![o] = Float!Moved([v EXCEPT !.step = "done"], "complete")]
           /\ settling' = [settling EXCEPT ![o] = "no"]
  <2>1. Agrees(o, [v EXCEPT !.step = "done"], "no")
    BY <1>1 DEF Agrees, Topup, Stages, Attempts
  <2>2. Agrees(o, Float!Moved([v EXCEPT !.step = "done"], "complete"), "no")
    BY <2>1, MovedAgrees DEF States, Float!Reasons
  <2> QED BY <1>1, <1>2, <2>2, TopupWritten
<1>3. CASE Float!Tx(v.tx).st = "reverted" /\ Float!Failed(o)
  <2>1. o \in floatSilent \/ Owed(o) = {}
    <3>1. ASSUME o \notin floatSilent, NEW t \in Owed(o) PROVE FALSE
      <4>1. t \in floatTxs /\ t.n = v.tx
        BY <1>1, <3>1 DEF Agrees, Owed
      <4>2. Float!Tx(v.tx) = t
        BY <4>1, ByNumber DEF Float!Tx, TopupInv
      <4> QED BY <1>3, <3>1, <4>2 DEF Owed
    <3> QED BY <3>1
  <2> QED BY <1>1, <1>3, <2>1, FailedKeeps
<1>4. CASE settling' = [settling EXCEPT ![o] = "no"] /\ floatOrder' = floatOrder
  <2>1. Agrees(o, v, "no")
    BY <1>1 DEF Agrees, Stages
  <2> QED BY <1>1, <1>4, <2>1, TopupWritten
<1> QED BY <1>2, <1>3, <1>4 DEF Float!Deposited, Float!Ended

\* Nothing is owed that was not.
LEMMA ChainKeeps ==
    ASSUME TopupInv, Float!Mine \/ Float!FloatPass \/ Float!Payout \/ Float!Spend \/ Float!Crash \/ UNCHANGED Float!vars
    PROVE  TopupInv'
<1>1. CASE Float!Mine
  <2>1. PICK t \in floatTxs, s \in {"success", "reverted"} :
            t.st = "pending" /\ floatTxs' = (floatTxs \ {t}) \union {[t EXCEPT !.st = s]}
    BY <1>1 DEF Float!Mine
  <2> DEFINE u == [t EXCEPT !.st = s]
  <2>2. u.n = t.n /\ (u.id = t.id) /\ floatTxs' = (floatTxs \ {t}) \union {u} /\ UNCHANGED <<floatOrder, settling, floatSilent>>
    BY <1>1, <2>1 DEF Float!Mine
  <2> HIDE DEF u
  <2>3. Numbered(floatTxs')
    BY <2>2, SameNumber DEF TopupInv
  <2>4. \A o : \A x \in Owed(o)' : \E y \in Owed(o) : y.n = x.n
    BY <2>1, <2>2 DEF Owed
  <2>5. \A o \in FloatIds : DepositOk(o)'
    <3>1. ASSUME NEW o \in FloatIds PROVE DepositOk(o)'
      <4>1. DepositOk(o) /\ \A x, y \in Owed(o)' : x.n = y.n => x = y
        BY <2>3 DEF TopupInv, Numbered, Owed
      <4> QED BY <2>2, <2>4, <4>1 DEF DepositOk
    <3> QED BY <3>1
  <2> QED BY <2>2, <2>3, <2>5 DEF TopupInv
<1>2. CASE UNCHANGED <<floatOrder, settling, floatTxs, floatSilent>>
  BY <1>2 DEF TopupInv, DepositOk, Owed, Numbered
<1>3. CASE UNCHANGED <<floatOrder, floatTxs, floatSilent>> /\ settling' = [o \in FloatIds |-> "no"]
  <2>1. settling' \in [FloatIds -> Stages] /\ \A q \in FloatIds : settling'[q] = "no"
    BY <1>3 DEF Stages
  <2> QED BY <1>3, <2>1 DEF TopupInv, DepositOk, Owed, Numbered
<1> QED BY <1>1, <1>2, <1>3 DEF Float!FloatPass, Float!Payout, Float!Spend, Float!Crash,
    Float!vars

LEMMA TopupStep == ASSUME TopupInv, [Float!Next]_(Float!vars) PROVE TopupInv'
<1>1. ASSUME NEW o \in FloatIds, \/ Float!CreateTopup(o) \/ Float!StripeWebhook(o) \/ Float!UsdcArrives(o)
                                 \/ Float!ExpirySweep(o) \/ Float!SweepCrediting(o)
      PROVE  TopupInv'
  BY <1>1, OrderKeeps
<1>2. ASSUME NEW o \in FloatIds, NEW r \in Float!Reasons, Float!Approve(o, r) \/ Float!Reject(o, r) PROVE TopupInv'
  BY <1>2, ReviewKeeps
<1>3. ASSUME NEW o \in FloatIds, \/ Float!VerifyDeposit(o) \/ Float!CheckBalance(o) \/ Float!TakeWallet(o)
                                 \/ Float!Deposit(o) \/ Float!Deposited(o)
      PROVE  TopupInv'
  BY <1>3, VerifyKeeps, BalanceKeeps, TakeKeeps, FloatDepositKeeps, DepositedKeeps
<1>4. CASE Float!FloatPass \/ Float!Payout \/ Float!Mine \/ Float!Spend \/ Float!Crash \/ UNCHANGED Float!vars
  BY <1>4, ChainKeeps
<1> QED BY <1>1, <1>2, <1>3, <1>4, Zenon DEF Float!Next

LEMMA TopupStart == ASSUME Float!Init PROVE TopupInv
<1>1. floatOrder = [o \in FloatIds |-> Float!Fresh] /\ settling = [o \in FloatIds |-> "no"] /\ floatTxs = {} /\ IsFiniteSet(floatTxs)
  BY FS_EmptySet DEF Float!Init
<1>2. Float!Fresh \in Topup /\ Float!Fresh.step = "none" /\ Float!Fresh.tx = 0
  BY DEF Float!Fresh, Topup, States, Attempts
<1> QED BY <1>1, <1>2 DEF TopupInv, DepositOk, Owed, Numbered, Stages

\* The money of a top-up moves once (settleTopup in billing.js, depositToVault in vaultsvc.js): through
\* crashes at every step, receipt timeouts, reverts, webhook retries and reviews, at most one deposit of
\* it lands or still may, as long as every broadcast's hash reached its record.
THEOREM TopupsCreditedOnce == Float!Spec => []Float!CreditedOnce
<1>1. TopupInv => Float!CreditedOnce
  <2>1. ASSUME TopupInv, NEW o \in FloatIds, o \notin floatSilent PROVE Cardinality(Owed(o)) <= 1
    BY <2>1, AtMostOne DEF TopupInv, DepositOk
  <2> QED BY <2>1, FloatCounts DEF Float!CreditedOnce, Owed
<1> QED BY <1>1, TopupStart, TopupStep, PTL DEF Float!Spec

-----------------------------------------------------------------------------
(* Crypto payments on the chain                                              *)

Book == INSTANCE Orders WITH chain <- bookChain, order <- bookOrder, disk <- bookDisk,
    torn <- bookTorn, seen <- bookSeen, faults <- bookFaults, MaxFaults <- MaxBookFaults

\* The look-back makes up for what confirmations leave of the nodes' lag.
ScannerConstants ==
    /\ Confirmations \in Nat /\ Rescan \in Nat /\ Chunk \in Nat /\ Catchup \in Nat /\ Lag \in Nat
    /\ Lag <= Rescan + Confirmations

Payment == {Book!NoPay} \union [amt : 1 .. Quote, who : {"clean"}, ours : {TRUE}]
           \union [amt : {1}, who : {"tainted"}, ours : {TRUE}] \union [amt : {1}, who : {"clean"}, ours : {FALSE}]

\* The payments in the files, and those whose first write never got there.
Handled == bookDisk.booked \union bookDisk.strays \union refused

\* The files are never ahead of memory, and behind it only by writes that were refused.
FilesInv ==
    /\ bookDisk = [order |-> bookDisk.order, booked |-> bookDisk.booked,
                   reviews |-> bookDisk.reviews, strays |-> bookDisk.strays]
    /\ bookDisk.booked \subseteq booked /\ booked \subseteq bookDisk.booked \union refused
    /\ bookDisk.strays \subseteq strays /\ strays \subseteq bookDisk.strays \union refused

LEMMA OrderWritten ==
    ASSUME NEW f, NEW x, NEW y,
           f = [order |-> f.order, booked |-> f.booked, reviews |-> f.reviews, strays |-> f.strays]
    PROVE  [f EXCEPT !.order = x, !.booked = y]
              = [order |-> x, booked |-> y, reviews |-> f.reviews, strays |-> f.strays]
<1>1. [f EXCEPT !.order = x, !.booked = y] = [[f EXCEPT !.order = x] EXCEPT !.booked = y]
  OBVIOUS
<1>2. [f EXCEPT !.order = x] = [order |-> x, booked |-> f.booked, reviews |-> f.reviews, strays |-> f.strays]
  OBVIOUS
<1>3. [[order |-> x, booked |-> f.booked, reviews |-> f.reviews, strays |-> f.strays] EXCEPT !.booked = y]
         = [order |-> x, booked |-> y, reviews |-> f.reviews, strays |-> f.strays]
  OBVIOUS
<1> QED BY <1>1, <1>2, <1>3, Zenon

LEMMA StrayWritten ==
    ASSUME NEW f, NEW x, NEW y,
           f = [order |-> f.order, booked |-> f.booked, reviews |-> f.reviews, strays |-> f.strays]
    PROVE  [f EXCEPT !.strays = x, !.reviews = y]
              = [order |-> f.order, booked |-> f.booked, reviews |-> y, strays |-> x]
<1>1. [f EXCEPT !.strays = x, !.reviews = y] = [[f EXCEPT !.strays = x] EXCEPT !.reviews = y]
  OBVIOUS
<1>2. [f EXCEPT !.strays = x] = [order |-> f.order, booked |-> f.booked, reviews |-> f.reviews, strays |-> x]
  OBVIOUS
<1>3. [[order |-> f.order, booked |-> f.booked, reviews |-> f.reviews, strays |-> x] EXCEPT !.reviews = y]
         = [order |-> f.order, booked |-> f.booked, reviews |-> y, strays |-> x]
  OBVIOUS
<1> QED BY <1>1, <1>2, <1>3, Zenon

\* A handler that books a payment: what is written by the time it ends or throws.
LEMMA WrittenIs ==
    ASSUME FilesInv, NEW h, bookDisk' = Book!Kept(h)
    PROVE  /\ bookDisk' = [order |-> h.order, booked |-> booked', reviews |-> bookDisk'.reviews, strays |-> bookDisk'.strays]
           /\ bookDisk'.order = h.order /\ bookDisk'.booked = booked'
           /\ bookDisk'.strays = strays \/ bookDisk'.strays = bookDisk.strays
BY DEF Book!Kept

LEMMA SavedIs ==
    ASSUME FilesInv, Book!OrderSaved \/ Book!AllSaved
    PROVE  /\ bookDisk' = [order |-> bookOrder', booked |-> booked, reviews |-> bookDisk'.reviews, strays |-> bookDisk'.strays]
           /\ bookDisk'.order = bookOrder' /\ bookDisk'.booked = booked
           /\ bookDisk'.strays = strays \/ bookDisk'.strays = bookDisk.strays
<1>1. CASE Book!OrderSaved
  <2>1. bookDisk' = [order |-> bookOrder', booked |-> booked, reviews |-> bookDisk.reviews, strays |-> bookDisk.strays]
    BY <1>1, OrderWritten DEF Book!OrderSaved, FilesInv
  <2> QED BY <2>1
<1>2. CASE Book!AllSaved
  BY <1>2 DEF Book!AllSaved
<1> QED BY <1>1, <1>2

\* One log, handled to the end or not: what it does to memory and files.
LEMMA LogWrites ==
    ASSUME FilesInv, NEW k, Book!HandleConfirmedPayment(k) \/ Book!FirstWriteRefused(k) \/ Book!LaterWriteRefused(k)
    PROVE  FilesInv' /\ Handled \union {k} \subseteq Handled'
<1>1. CASE Book!HandleConfirmedPayment(k)
  <2>1. UNCHANGED refused
    BY <1>1 DEF Book!HandleConfirmedPayment, Book!history
  <2>2. CASE UNCHANGED <<booked, strays, bookDisk>> /\ k \in booked
    BY <2>1, <2>2 DEF FilesInv, Handled
  <2>3. CASE strays' = strays \union {k} /\ bookDisk' = [bookDisk EXCEPT !.strays = strays', !.reviews = reviews] /\ booked' = booked
    <3>1. bookDisk' = [order |-> bookDisk.order, booked |-> bookDisk.booked, reviews |-> reviews, strays |-> strays']
      BY <2>3, StrayWritten DEF FilesInv
    <3> QED BY <2>1, <2>3, <3>1 DEF FilesInv, Handled
  <2>4. CASE booked' = booked \union {k} /\ strays' = strays /\ \E h : bookDisk' = Book!Kept(h)
    <3>1. PICK h : bookDisk' = Book!Kept(h)
      BY <2>4
    <3> QED BY <2>1, <2>4, <3>1, WrittenIs DEF FilesInv, Handled
  <2> QED BY <1>1, <2>2, <2>3, <2>4 DEF Book!HandleConfirmedPayment
<1>2. CASE Book!FirstWriteRefused(k)
  BY <1>2 DEF Book!FirstWriteRefused, FilesInv, Handled
<1>3. CASE Book!LaterWriteRefused(k)
  <2>1. booked' = booked \union {k} /\ UNCHANGED <<strays, refused>>
    BY <1>3 DEF Book!LaterWriteRefused
  <2>2. PICK h : bookDisk' = Book!Kept(h)
    BY <1>3 DEF Book!LaterWriteRefused
  <2> QED BY <2>1, <2>2, WrittenIs DEF FilesInv, Handled
<1> QED BY <1>1, <1>2, <1>3

\* The other actions write what memory holds, or read the files back.
LEMMA FilesKeep ==
    ASSUME FilesInv,
           \/ Book!PollFails \/ Book!HandlePendingPayment \/ Book!Restart \/ Book!StripeWebhook \/ Book!Falls
           \/ Book!ExpirySweep \/ Book!ResolveReview \/ Book!TakeUp \/ Book!Provisioned \/ UNCHANGED Book!vars
    PROVE  FilesInv' /\ Handled \subseteq Handled'
<1>1. UNCHANGED refused
  BY DEF Book!PollFails, Book!HandlePendingPayment, Book!Restart, Book!StripeWebhook, Book!Falls,
         Book!ExpirySweep, Book!ResolveReview, Book!TakeUp, Book!Provisioned, Book!vars, Book!history
<1>2. CASE UNCHANGED <<booked, strays, bookDisk>>
  BY <1>1, <1>2 DEF FilesInv, Handled
<1>3. CASE UNCHANGED <<booked, strays>> /\ (Book!OrderSaved \/ Book!AllSaved)
  BY <1>1, <1>3, SavedIs DEF FilesInv, Handled
<1>4. CASE booked' = bookDisk.booked /\ strays' = bookDisk.strays /\ bookDisk' = bookDisk
  BY <1>1, <1>4 DEF FilesInv, Handled
<1>5. \/ UNCHANGED <<booked, strays, bookDisk>>
      \/ UNCHANGED <<booked, strays>> /\ (Book!OrderSaved \/ Book!AllSaved)
      \/ booked' = bookDisk.booked /\ strays' = bookDisk.strays /\ bookDisk' = bookDisk
  BY ZenonT(60) DEF Book!PollFails, Book!HandlePendingPayment, Book!Restart, Book!StripeWebhook, Book!Falls,
         Book!ExpirySweep, Book!ResolveReview, Book!TakeUp, Book!Provisioned, Book!vars, Book!history
<1> QED BY <1>2, <1>3, <1>4, <1>5

\* Every payment before p was handled, or will be by the logs in hand.
CoveredBefore(p, logs) ==
    \A k \in (1 .. Len(bookChain)) \ over : bookChain[k] # Book!NoPay /\ k < p => k \in Handled \union logs

ScannerInv ==
    /\ bookChain \in Seq(Payment)
    /\ cursor \in 1 .. Len(bookChain) + 1
    /\ bookSeen \subseteq Handled
    /\ FilesInv
    /\ CoveredBefore(Book!ScanFrom(cursor), {})
    /\ \/ job = Book!Idle
       \/ /\ job = [to |-> job.to, safe |-> job.safe, logs |-> job.logs]
          /\ job.to \in Int /\ job.safe \in Int /\ job.to >= 1
          /\ job.to <= job.safe /\ job.safe <= Len(bookChain) - Confirmations
          /\ job.logs \subseteq 1 .. Len(bookChain)
          /\ CoveredBefore(Book!ScanFrom(job.to + 1), job.logs)

\* A chunk is asked for: what it does not hand over was handled.
LEMMA ChunkCovers ==
    ASSUME ScannerConstants, ScannerInv, NEW from \in Int, NEW safe \in Int, from >= 1, from <= safe,
           safe <= Len(bookChain) - Confirmations, UNCHANGED <<bookChain, booked, strays, bookDisk, refused>>, over \subseteq over',
           Book!GetLogs(from, safe), CoveredBefore(Book!ScanFrom(from), {})',
           cursor' \in 1 .. Len(bookChain) + 1, CoveredBefore(Book!ScanFrom(cursor), {})'
    PROVE  ScannerInv'
<1> DEFINE scan == Book!ScanFrom(from)
           end  == IF safe - scan > Chunk THEN scan + Chunk ELSE safe
           to   == IF end < from THEN from ELSE end
<1>1. scan \in Int /\ scan >= 0
  BY DEF Book!ScanFrom, ScannerConstants
<1>2. to \in Int /\ to >= 1 /\ to <= safe
  BY <1>1 DEF ScannerConstants
<1>3. PICK height \in (Len(bookChain) - Lag) .. Len(bookChain) :
         job' = [to |-> to, safe |-> safe,
                 logs |-> {k \in 1 .. Len(bookChain) : k >= scan /\ k <= to /\ k <= height
                                                       /\ bookChain[k] # Book!NoPay /\ k \notin bookSeen'}]
  BY DEF Book!GetLogs, Book!Tip
<1>4. bookSeen' \subseteq bookSeen
  BY DEF Book!GetLogs
<1> HIDE DEF scan, to
<1>5. ASSUME NEW k \in (1 .. Len(bookChain)) \ over', bookChain[k] # Book!NoPay, k < Book!ScanFrom(to + 1)
      PROVE  k \in Handled' \union job'.logs
  <2>1. Len(bookChain) \in Nat /\ k \in Int /\ k >= 1
    BY DEF ScannerInv
  <2>2. k + Rescan <= to
    BY <1>2, <1>5, <2>1 DEF Book!ScanFrom, ScannerConstants
  <2>3. height \in Int /\ k <= height
    BY <1>2, <1>3, <2>1, <2>2 DEF ScannerConstants
  <2>4. CASE k < scan
    BY <1>5, <2>4 DEF CoveredBefore, Handled, scan
  <2>5. CASE k >= scan
    <3>1. k <= to /\ k \in 1 .. Len(bookChain)
      BY <1>2, <1>5, <2>1, <2>2 DEF ScannerConstants
    <3>2. CASE k \in bookSeen'
      BY <1>4, <3>2 DEF ScannerInv, Handled
    <3>3. CASE k \notin bookSeen'
      BY <1>3, <1>5, <2>3, <2>5, <3>1, <3>3
    <3> QED BY <3>2, <3>3
  <2> QED BY <1>1, <2>1, <2>4, <2>5
<1>6. CoveredBefore(Book!ScanFrom(job.to + 1), job.logs)'
  BY <1>3, <1>5 DEF CoveredBefore, Book!ScanFrom
<1>7. job'.logs \subseteq 1 .. Len(bookChain') /\ job'.to = to /\ job'.safe = safe
      /\ job' = [to |-> job'.to, safe |-> job'.safe, logs |-> job'.logs]
  BY <1>3
<1> QED BY <1>2, <1>4, <1>6, <1>7 DEF ScannerInv, Handled, FilesInv

LEMMA PollKeeps == ASSUME ScannerConstants, ScannerInv, Book!Poll PROVE ScannerInv'
<1> DEFINE tip == Len(bookChain) - Confirmations
           from == IF tip - cursor > Catchup THEN tip - Catchup ELSE cursor
<1>1. /\ tip >= from /\ Book!GetLogs(from, tip) /\ UNCHANGED <<bookChain, booked, strays, bookDisk, refused, cursor>>
      /\ over' = over \union {k \in 1 .. Len(bookChain) : k >= Book!ScanFrom(cursor) /\ k < Book!ScanFrom(from)}
  BY DEF Book!Poll, Book!Tip, Book!history
<1>2. tip \in Int /\ from \in Int /\ from >= 1
  BY DEF ScannerConstants, ScannerInv
<1>3. PICK safe \in Int, start \in Int : safe = tip /\ start = from
  BY <1>2
<1>4. CoveredBefore(Book!ScanFrom(start), {})'
  <2>1. Book!ScanFrom(cursor) \in Int
    BY DEF Book!ScanFrom, ScannerConstants, ScannerInv
  <2> HIDE DEF from
  <2>2. ASSUME NEW k \in (1 .. Len(bookChain)) \ over', bookChain[k] # Book!NoPay, k < Book!ScanFrom(start)
        PROVE  k \in Handled'
    <3>1. k < Book!ScanFrom(cursor)
      BY <1>1, <1>3, <2>1, <2>2 DEF ScannerInv
    <3> QED BY <1>1, <2>2, <3>1 DEF ScannerInv, CoveredBefore, Handled
  <2> QED BY <1>1, <2>2 DEF CoveredBefore, Book!ScanFrom
<1>6. cursor' \in 1 .. Len(bookChain) + 1 /\ CoveredBefore(Book!ScanFrom(cursor), {})'
  BY <1>1 DEF ScannerInv, CoveredBefore, Handled, Book!ScanFrom
<1>5. start >= 1 /\ start <= safe /\ Book!GetLogs(start, safe) /\ safe <= Len(bookChain) - Confirmations
  BY <1>1, <1>2, <1>3
<1> HIDE DEF from, tip
<1> QED BY <1>1, <1>4, <1>5, <1>6, ChunkCovers

LEMMA PollDoneKeeps == ASSUME ScannerConstants, ScannerInv, Book!PollDone PROVE ScannerInv'
<1>1. job # Book!Idle /\ job.logs = {} /\ UNCHANGED <<bookChain, booked, strays, bookDisk, refused, over>> /\ cursor' = job.to + 1
  BY DEF Book!PollDone, Book!history
<1>2. job.to \in Int /\ job.safe \in Int /\ job.to >= 1 /\ job.to <= job.safe /\ job.safe <= Len(bookChain) - Confirmations
      /\ CoveredBefore(Book!ScanFrom(job.to + 1), {}) /\ cursor' \in 1 .. Len(bookChain) + 1
  BY <1>1 DEF ScannerInv, ScannerConstants
<1>3. CoveredBefore(Book!ScanFrom(cursor), {})'
  BY <1>1, <1>2 DEF CoveredBefore, Handled, Book!ScanFrom
<1>4. CASE job' = Book!Idle /\ bookSeen' = bookSeen
  BY <1>1, <1>2, <1>3, <1>4 DEF ScannerInv, Handled, FilesInv
<1>5. CASE job.to < job.safe /\ Book!GetLogs(job.to + 1, job.safe)
  <2>1. PICK from \in Int, safe \in Int : from = job.to + 1 /\ safe = job.safe
    BY <1>2
  <2>2. CoveredBefore(Book!ScanFrom(from), {})'
    BY <1>1, <1>3, <2>1 DEF CoveredBefore, Book!ScanFrom
  <2>3. from >= 1 /\ from <= safe /\ safe <= Len(bookChain) - Confirmations /\ Book!GetLogs(from, safe)
    BY <1>2, <1>5, <2>1
  <2> QED BY <1>1, <1>2, <1>3, <2>2, <2>3, ChunkCovers
<1> QED BY <1>1, <1>4, <1>5 DEF Book!PollDone

\* More is handled, and the chain grows.
LEMMA HandledGrows ==
    ASSUME ScannerInv, FilesInv', UNCHANGED <<bookChain, over, cursor>>, Handled \subseteq Handled', bookSeen' \subseteq Handled',
           job' = Book!Idle \/ job' = job
    PROVE  ScannerInv'
<1>1. CoveredBefore(Book!ScanFrom(cursor), {})'
  BY DEF ScannerInv, CoveredBefore, Book!ScanFrom
<1>2. CASE job' = Book!Idle
  BY <1>1, <1>2 DEF ScannerInv
<1>3. CASE job' = job /\ job # Book!Idle
  <2>1. CoveredBefore(Book!ScanFrom(job.to + 1), job.logs)'
    BY <1>3 DEF ScannerInv, CoveredBefore, Book!ScanFrom
  <2> QED BY <1>1, <1>3, <2>1 DEF ScannerInv
<1> QED BY <1>2, <1>3

LEMMA LogKeeps == ASSUME ScannerInv, Book!PollLog PROVE ScannerInv'
<1>1. PICK k \in job.logs :
         /\ bookSeen' = bookSeen \union {k}
         /\ Book!HandleConfirmedPayment(k) \/ Book!FirstWriteRefused(k) \/ Book!LaterWriteRefused(k)
         /\ job' = [job EXCEPT !.logs = @ \ {k}] \/ job' = Book!Idle
  BY DEF Book!PollLog, Book!HandleConfirmedPayment, Book!FirstWriteRefused, Book!LaterWriteRefused
<1>2. FilesInv' /\ Handled \union {k} \subseteq Handled'
  BY <1>1, LogWrites DEF ScannerInv
<1>3. UNCHANGED <<bookChain, over, cursor>> /\ bookSeen' \subseteq Handled'
  BY <1>1, <1>2 DEF Book!PollLog, ScannerInv
<1>4. CASE job' = Book!Idle
  BY <1>2, <1>3, <1>4, HandledGrows
<1>5. CASE job' = [job EXCEPT !.logs = @ \ {k}]
  <2>1. job # Book!Idle
    BY DEF Book!PollLog, Book!Idle
  <2>2. /\ job = [to |-> job.to, safe |-> job.safe, logs |-> job.logs]
        /\ CoveredBefore(Book!ScanFrom(job.to + 1), job.logs)
    BY <2>1 DEF ScannerInv
  <2>3. job'.to = job.to /\ job'.safe = job.safe /\ job'.logs = job.logs \ {k}
        /\ job' = [to |-> job'.to, safe |-> job'.safe, logs |-> job'.logs]
    BY <1>5, <2>2
  <2>4. CoveredBefore(Book!ScanFrom(job.to + 1), job.logs)'
    BY <1>2, <1>3, <2>2, <2>3 DEF CoveredBefore, Book!ScanFrom
  <2>5. CoveredBefore(Book!ScanFrom(cursor), {})'
    BY <1>2, <1>3 DEF ScannerInv, CoveredBefore, Book!ScanFrom
  <2> QED BY <1>2, <1>3, <2>1, <2>3, <2>4, <2>5 DEF ScannerInv
<1> QED BY <1>1, <1>4, <1>5

LEMMA ScannerStep == ASSUME ScannerConstants, ScannerInv, [Book!Next]_(Book!vars) PROVE ScannerInv'
<1>1. CASE Book!Block
  <2>1. PICK p \in Payment : bookChain' = Append(bookChain, p)
    BY <1>1, Zenon DEF Book!Block, Payment
  <2>2. UNCHANGED <<booked, strays, bookDisk, refused, cursor, over, bookSeen, job>>
    BY <1>1 DEF Book!Block, Book!history, Book!scanner
  <2>3. /\ Len(bookChain') = Len(bookChain) + 1 /\ \A k \in 1 .. Len(bookChain) : bookChain'[k] = bookChain[k]
        /\ bookChain' \in Seq(Payment) /\ Len(bookChain) \in Nat
    BY <2>1 DEF ScannerInv
  <2>4. ASSUME NEW q \in Int, q <= Len(bookChain) + 1, NEW logs, CoveredBefore(Book!ScanFrom(q), logs)
        PROVE  CoveredBefore(Book!ScanFrom(q), logs)'
    <3>1. Book!ScanFrom(q) \in Int /\ Book!ScanFrom(q) <= Len(bookChain) + 1
      BY <2>3, <2>4 DEF Book!ScanFrom, ScannerConstants
    <3> QED BY <2>2, <2>3, <2>4, <3>1 DEF CoveredBefore, Handled, Book!ScanFrom
  <2>5. PICK at \in Int : at = cursor /\ at <= Len(bookChain) + 1
    BY <2>3 DEF ScannerInv
  <2>6. CoveredBefore(Book!ScanFrom(cursor), {})'
    BY <2>2, <2>4, <2>5 DEF ScannerInv
  <2>7. CASE job = Book!Idle
    BY <2>2, <2>3, <2>6, <2>7 DEF ScannerInv, Handled, FilesInv, Book!Idle
  <2>8. CASE job # Book!Idle
    <3>1. /\ job = [to |-> job.to, safe |-> job.safe, logs |-> job.logs]
          /\ job.to \in Int /\ job.safe \in Int /\ job.to >= 1
          /\ job.to <= job.safe /\ job.safe <= Len(bookChain) - Confirmations
          /\ job.logs \subseteq 1 .. Len(bookChain)
          /\ CoveredBefore(Book!ScanFrom(job.to + 1), job.logs)
      BY <2>8 DEF ScannerInv
    <3>2. PICK to \in Int : to = job.to + 1 /\ to <= Len(bookChain) + 1
      BY <2>3, <3>1 DEF ScannerConstants
    <3>6. PICK logs : logs = job.logs
      OBVIOUS
    <3>3. CoveredBefore(Book!ScanFrom(job.to + 1), job.logs)'
      BY <2>2, <2>4, <3>1, <3>2, <3>6
    <3>4. job.safe <= Len(bookChain') - Confirmations /\ job.logs \subseteq 1 .. Len(bookChain') /\ cursor \in 1 .. Len(bookChain') + 1
      BY <2>3, <3>1, SMTT(30) DEF ScannerInv, ScannerConstants
    <3>5. bookSeen' \subseteq Handled' /\ FilesInv'
      BY <2>2 DEF ScannerInv, Handled, FilesInv
    <3> QED BY <2>2, <2>3, <2>6, <3>1, <3>3, <3>4, <3>5 DEF ScannerInv
  <2> QED BY <2>7, <2>8
<1>2. CASE Book!Restart
  <2>1. bookSeen' = {} /\ job' = Book!Idle /\ cursor' \in 1 .. cursor /\ UNCHANGED <<bookChain, over>>
    BY <1>2 DEF Book!Restart
  <2>2. FilesInv' /\ Handled \subseteq Handled'
    BY <1>2, FilesKeep DEF ScannerInv
  <2>3. Book!ScanFrom(cursor)' <= Book!ScanFrom(cursor) /\ Book!ScanFrom(cursor)' \in Int /\ Book!ScanFrom(cursor) \in Int
    BY <2>1 DEF Book!ScanFrom, ScannerConstants, ScannerInv
  <2>4. CoveredBefore(Book!ScanFrom(cursor), {})'
    BY <2>1, <2>2, <2>3 DEF ScannerInv, CoveredBefore
  <2> QED BY <2>1, <2>2, <2>4 DEF ScannerInv
<1>3. CASE \/ Book!PollFails \/ Book!HandlePendingPayment \/ Book!StripeWebhook \/ Book!Falls \/ Book!ExpirySweep
           \/ Book!ResolveReview \/ Book!TakeUp \/ Book!Provisioned \/ UNCHANGED Book!vars
  <2>1. UNCHANGED <<bookChain, over, cursor, bookSeen>> /\ (job' = Book!Idle \/ job' = job)
    BY <1>3 DEF Book!PollFails, Book!HandlePendingPayment, Book!StripeWebhook, Book!Falls, Book!ExpirySweep,
                Book!ResolveReview, Book!TakeUp, Book!Provisioned, Book!vars, Book!scanner
  <2>2. FilesInv' /\ Handled \subseteq Handled'
    BY <1>3, FilesKeep DEF ScannerInv
  <2>3. bookSeen' \subseteq Handled'
    BY <2>1, <2>2 DEF ScannerInv
  <2> QED BY <2>1, <2>2, <2>3, HandledGrows
<1> QED BY <1>1, <1>2, <1>3, PollKeeps, PollDoneKeeps, LogKeeps DEF Book!Next

LEMMA ScannerStart == ASSUME Book!Init PROVE ScannerInv
BY DEF Book!Init, ScannerInv, CoveredBefore, FilesInv

\* The payment of a block the scanner will never look at again is in the files, booked or
\* as an unmatched payment, unless the disk refused that payment's very first write
\* (store.js flush) or the catch-up clamp jumped the block (indexer.js poll), for any
\* depth of confirmation, look-back, chunk and catch-up limit, as long as the nodes
\* lag by no more than the look-back and the confirmations make up for.
THEOREM PaymentsBooked == ASSUME ScannerConstants PROVE Book!Spec => []Book!EveryPaymentBooked
<1>1. ScannerInv => Book!EveryPaymentBooked
  BY DEF ScannerInv, CoveredBefore, Handled, Book!EveryPaymentBooked, Book!Tip
<1> QED BY <1>1, ScannerStart, ScannerStep, PTL DEF Book!Spec

-----------------------------------------------------------------------------
(* Orders: what moves one to provisioning by itself                          *)

OrderStates == {"awaiting_payment", "pending_confirmations", "under_review", "confirmed_provisioning",
                "complete", "expired", "rejected"}
Reasons == {"underpayment", "large_overpayment", "payment_after_settlement", "ofac_hit",
            "payment_after_expiry", "partial_payment_expired"}
Order == [st : OrderStates, flags : SUBSET Reasons, due : BOOLEAN]
Waiting == {"awaiting_payment", "pending_confirmations"}
Settled == {"complete", "rejected"}

\* A tainted payment whose handler did not throw left its mark, or the order was settled
\* before; an order with that mark is past waiting.
Marked(o, paid) ==
    /\ o \in Order
    /\ \A k \in paid \ bookTorn : bookChain[k].who # "tainted" \/ "ofac_hit" \in o.flags \/ o.st \in Settled
    /\ "ofac_hit" \in o.flags => o.st \notin Waiting

\* In memory, and in the file a restart may go back to.
CleanInv ==
    /\ booked \subseteq {k \in 1 .. Len(bookChain) : bookChain[k].ours}
    /\ Marked(bookOrder, booked)
    /\ Marked(bookDisk.order, bookDisk.booked)

\* What any hand may do to an order: marks stay, what is settled stays, nothing waits again.
Onward(o, p) ==
    /\ p \in Order /\ o.flags \subseteq p.flags
    /\ o.st \in Settled => p.st = o.st
    /\ "ofac_hit" \in p.flags \ o.flags => p.st \notin Waiting
    /\ p.st \in Waiting => o.st \in Waiting

LEMMA MarkedOnward ==
    ASSUME NEW o, NEW p, NEW paid, Marked(o, paid), Onward(o, p)
    PROVE  Marked(p, paid)
BY DEF Marked, Onward, Order

LEMMA MovedIs ==
    ASSUME NEW o \in Order, NEW to \in OrderStates
    PROVE  /\ Book!Moved(o, to) \in Order
           /\ Book!Moved(o, to).flags = o.flags
           /\ \/ Book!Moved(o, to).st = o.st /\ o.st \in {"complete", "expired", "rejected"}
                 /\ ~(o.st = "expired" /\ to = "under_review")
              \/ Book!Moved(o, to).st = to /\ o.st \notin Settled
BY DEF Book!Moved, Book!Terminal, Order, OrderStates, Settled

LEMMA MovedOnward ==
    ASSUME NEW o \in Order, NEW to \in OrderStates, to \notin Waiting \/ o.st = "awaiting_payment"
    PROVE  Onward(o, Book!Moved(o, to))
BY MovedIs DEF Onward, Waiting, Settled

LEMMA FlaggedIs ==
    ASSUME NEW o \in Order, NEW reason \in Reasons
    PROVE  /\ Book!Flagged(o, reason) \in Order
           /\ Book!Flagged(o, reason).flags = o.flags \union {reason}
           /\ Book!Flagged(o, reason).st = o.st
BY DEF Book!Flagged, Order

\* A payment of this order came from somebody clean or tainted.
LEMMA OursIs == ASSUME NEW p \in Payment, p.ours PROVE p.who = "clean" \/ p.who = "tainted"
<1>1. CASE p = Book!NoPay
  <2>1. p.ours = FALSE
    BY <1>1 DEF Book!NoPay
  <2> QED BY <2>1
<1>2. CASE p \in [amt : 1 .. Quote, who : {"clean"}, ours : {TRUE}]
  BY <1>2
<1>3. CASE p \in [amt : {1}, who : {"tainted"}, ours : {TRUE}]
  BY <1>3
<1>4. CASE p \in [amt : {1}, who : {"clean"}, ours : {FALSE}]
  BY <1>4
<1> QED BY <1>1, <1>2, <1>3, <1>4 DEF Payment

-----------------------------------------------------------------------------
(* Orders: the writes of one payment                                         *)

\* The orders a decision writes, one after the other.
Writes(d) == {d[w].order : w \in 1 .. Len(d)}
Last(d) == d[Len(d)].order

LEMMA OneStep ==
    ASSUME NEW x PROVE /\ Len(<<x>>) = 1 /\ Writes(<<x>>) = {x.order} /\ Last(<<x>>) = x.order
BY DEF Writes, Last

LEMMA TwoSteps ==
    ASSUME NEW x, NEW y
    PROVE /\ Len(<<x, y>>) = 2 /\ Writes(<<x, y>>) = {x.order, y.order} /\ Last(<<x, y>>) = y.order
BY DEF Writes, Last

LEMMA ThreeSteps ==
    ASSUME NEW x, NEW y, NEW z
    PROVE /\ Len(<<x, y, z>>) = 3 /\ Writes(<<x, y, z>>) = {x.order, y.order, z.order} /\ Last(<<x, y, z>>) = z.order
BY DEF Writes, Last

LEMMA FourSteps ==
    ASSUME NEW x, NEW y, NEW z, NEW u
    PROVE /\ Len(<<x, y, z, u>>) = 4 /\ Writes(<<x, y, z, u>>) = {x.order, y.order, z.order, u.order}
          /\ Last(<<x, y, z, u>>) = u.order
BY DEF Writes, Last

\* A decision sends the order onward with each write, and does not provision it.
Holds(d) ==
    /\ Len(d) \in Nat \ {0}
    /\ \A p \in Writes(d) : Onward(bookOrder, p) /\ (p.st = "confirmed_provisioning" => bookOrder.st = p.st)
    /\ Last(d) \in Writes(d)

LEMMA ReviewHolds ==
    ASSUME bookOrder \in Order, NEW reason \in Reasons, bookOrder.st \notin Settled
    PROVE  Holds(Book!ToReview(reason)) /\ reason \in Last(Book!ToReview(reason)).flags
<1> DEFINE o == Book!Moved(bookOrder, "under_review")
           r == reviews \union {reason}
           x == Book!Screened
           y == Book!Held(o, reviews, FALSE)
           z == Book!Held(o, r, TRUE)
           u == Book!Held(Book!Flagged(o, reason), r, TRUE)
<1>1. Book!ToReview(reason) = <<x, y, z, u>>
  BY DEF Book!ToReview
<1>2. x.order = bookOrder /\ y.order = o /\ z.order = o /\ u.order = Book!Flagged(o, reason)
  BY DEF Book!Held, Book!Screened
<1>3. o \in Order /\ o.flags = bookOrder.flags /\ o.st = "under_review"
  BY MovedIs DEF OrderStates, Settled, Order
<1>4. Onward(bookOrder, bookOrder) /\ Onward(bookOrder, o)
  BY <1>3 DEF Onward, Waiting, Settled
<1>5. Onward(bookOrder, Book!Flagged(o, reason)) /\ reason \in Book!Flagged(o, reason).flags
      /\ Book!Flagged(o, reason).st = "under_review"
  <2> HIDE DEF o
  <2> QED BY <1>3, FlaggedIs DEF Onward, Waiting, Settled
<1> HIDE DEF o, x, y, z, u
<1> QED BY <1>1, <1>2, <1>3, <1>4, <1>5, FourSteps DEF Holds

LEMMA OpensHolds ==
    ASSUME bookOrder \in Order, NEW reason \in Reasons, reason # "ofac_hit"
    PROVE  Holds(Book!Opens(reason))
<1> DEFINE r == reviews \union {reason}
           x == Book!Held(bookOrder, r, TRUE)
           y == Book!Held(Book!Flagged(bookOrder, reason), r, TRUE)
<1>1. Book!Opens(reason) = <<x, y>>
  BY DEF Book!Opens
<1>2. x.order = bookOrder /\ y.order = Book!Flagged(bookOrder, reason)
  BY DEF Book!Held
<1>3. Onward(bookOrder, bookOrder) /\ Onward(bookOrder, Book!Flagged(bookOrder, reason))
      /\ Book!Flagged(bookOrder, reason).st = bookOrder.st
  BY FlaggedIs DEF Onward
<1> HIDE DEF x, y
<1> QED BY <1>1, <1>2, <1>3, TwoSteps DEF Holds

LEMMA ScreenedHolds == ASSUME bookOrder \in Order PROVE Holds(<<Book!Screened>>)
<1>1. Book!Screened.order = bookOrder
  BY DEF Book!Screened, Book!Held
<1>2. Onward(bookOrder, bookOrder)
  BY DEF Onward
<1> QED BY <1>1, <1>2, OneStep DEF Holds

\* What is provisioned is only what is not marked under review.
LEMMA ProvisionIs ==
    ASSUME bookOrder \in Order, NEW sum, bookOrder.st \notin Settled
    PROVE  LET d == Book!Provision(sum)
           IN  Len(d) \in Nat \ {0} /\ Last(d) \in Writes(d) /\ \A p \in Writes(d) : Onward(bookOrder, p)
<1> DEFINE o == Book!Moved(bookOrder, "confirmed_provisioning")
           r == reviews \union {"large_overpayment"}
           x == Book!Screened
           y == Book!Held(bookOrder, r, TRUE)
           z == Book!Held(o, r, TRUE)
           u == Book!Held(o, reviews, FALSE)
<1>1. x.order = bookOrder /\ y.order = bookOrder /\ z.order = o /\ u.order = o
  BY DEF Book!Held, Book!Screened
<1>2. Onward(bookOrder, bookOrder) /\ Onward(bookOrder, o)
  BY MovedOnward DEF Onward, Waiting, OrderStates
<1>3. Book!Provision(sum) = IF Book!TooMuch(sum) THEN <<x, y, z>> ELSE <<x, u>>
  BY DEF Book!Provision
<1> HIDE DEF o, x, y, z, u
<1>4. CASE Book!Provision(sum) = <<x, y, z>>
  BY <1>1, <1>2, <1>4, ThreeSteps
<1>5. CASE Book!Provision(sum) = <<x, u>>
  BY <1>1, <1>2, <1>5, TwoSteps
<1> QED BY <1>3, <1>4, <1>5

\* What one payment's handler writes: it provisions only a clean payment that makes the
\* money suffice, before the TTL, on an order no human must clear; and once it is through,
\* a tainted payment has left its mark.
LEMMA DecisionIs ==
    ASSUME bookOrder \in Order, NEW k, bookChain[k] \in Payment, bookChain[k].ours
    PROVE  LET d == Book!Decision(k) IN
           /\ Len(d) \in Nat \ {0} /\ Last(d) \in Writes(d)
           /\ \A p \in Writes(d) :
                /\ Onward(bookOrder, p)
                /\ bookOrder.st # "confirmed_provisioning" /\ p.st = "confirmed_provisioning" =>
                     /\ bookChain[k].who = "clean" /\ ~bookOrder.due /\ Book!Enough(Book!Paid(booked \union {k}))
                     /\ bookOrder.st # "expired" /\ (bookOrder.st = "under_review" => "ofac_hit" \notin bookOrder.flags)
           /\ bookChain[k].who = "tainted" => "ofac_hit" \in Last(d).flags \/ Last(d).st \in Settled
<1> DEFINE d == Book!Decision(k)
           sum == Book!Paid(booked \union {k})
<1> HIDE DEF sum
<1>1. {"payment_after_settlement", "ofac_hit", "payment_after_expiry", "underpayment"} \subseteq Reasons
  BY DEF Reasons
<1>2. CASE bookOrder.st \in Settled
  <2>1. d = Book!Opens("payment_after_settlement")
    BY <1>2 DEF Book!Decision, Settled
  <2> HIDE DEF d
  <2>2. Holds(d)
    BY <1>1, <2>1, OpensHolds
  <2>3. Last(d).st \in Settled
    BY <1>2, <2>2 DEF Holds, Onward
  <2> QED BY <1>2, <2>2, <2>3 DEF Holds, d
<1>3. CASE bookOrder.st \notin Settled /\ bookChain[k].who = "tainted"
  <2>1. d = Book!ToReview("ofac_hit")
    BY <1>3 DEF Book!Decision, Settled
  <2> HIDE DEF d
  <2>2. Holds(d) /\ "ofac_hit" \in Last(d).flags
    BY <1>1, <1>3, <2>1, ReviewHolds
  <2> QED BY <2>2 DEF Holds, d
<1>4. CASE bookOrder.st \notin Settled /\ bookChain[k].who = "clean" /\ (bookOrder.st = "expired" \/ bookOrder.due)
  <2>1. d = Book!ToReview("payment_after_expiry")
    BY <1>4 DEF Book!Decision, Settled
  <2> HIDE DEF d
  <2>2. Holds(d)
    BY <1>1, <1>4, <2>1, ReviewHolds
  <2> QED BY <1>4, <2>2 DEF Holds, d
<1>5. CASE bookOrder.st \notin Settled /\ bookChain[k].who = "clean" /\ bookOrder.st # "expired" /\ ~bookOrder.due
  <2>1. d = Book!Verdict(sum)
    BY <1>5 DEF Book!Decision, Settled, sum
  <2> HIDE DEF d
  <2>2. CASE d = <<Book!Screened>>
    <3>1. Holds(d)
      BY <2>2, ScreenedHolds
    <3> QED BY <1>5, <3>1 DEF Holds, d
  <2>3. CASE d = Book!ToReview("underpayment")
    <3>1. Holds(d)
      BY <1>1, <1>5, <2>3, ReviewHolds
    <3> QED BY <1>5, <3>1 DEF Holds, d
  <2>4. CASE /\ d = Book!Provision(sum) /\ Book!Enough(sum)
             /\ bookOrder.st = "under_review" => bookOrder.flags \intersect Book!HumanOnly = {}
    <3>1. Len(d) \in Nat \ {0} /\ Last(d) \in Writes(d) /\ \A p \in Writes(d) : Onward(bookOrder, p)
      BY <1>5, <2>4, ProvisionIs
    <3>2. bookOrder.st = "under_review" => "ofac_hit" \notin bookOrder.flags
      BY <2>4 DEF Book!HumanOnly
    <3> QED BY <1>5, <2>4, <3>1, <3>2 DEF d, sum
  <2>5. d = <<Book!Screened>> \/ d = Book!ToReview("underpayment")
        \/ /\ d = Book!Provision(sum) /\ Book!Enough(sum)
           /\ bookOrder.st = "under_review" => bookOrder.flags \intersect Book!HumanOnly = {}
    BY <2>1, Zenon DEF Book!Verdict, Book!Underpaid
  <2> QED BY <2>2, <2>3, <2>4, <2>5
<1>6. bookChain[k].who = "clean" \/ bookChain[k].who = "tainted"
  BY OursIs
<1> QED BY <1>2, <1>3, <1>4, <1>5, <1>6

-----------------------------------------------------------------------------
(* Orders: one step per action                                               *)

\* A payment is booked and its handler writes some of what it decided.
LEMMA BookedIs ==
    ASSUME ScannerInv, CleanInv, NEW k \in 1 .. Len(bookChain), bookChain[k].ours, bookChain' = bookChain,
           booked' = booked \union {k}, bookTorn \subseteq bookTorn',
           NEW d, d = Book!Decision(k), bookOrder' \in Writes(d), NEW h, bookDisk' = Book!Kept(h),
           h.order \in Writes(d) \union {bookOrder},
           k \in bookTorn' \/ (bookOrder' = Last(d) /\ h.order = Last(d))
    PROVE  /\ CleanInv'
           /\ bookOrder.st # "confirmed_provisioning" /\ bookOrder'.st = "confirmed_provisioning" =>
                 /\ \A m \in booked' \ bookTorn : bookChain[m].who = "clean"
                 /\ Book!Enough(Book!Paid(booked')) /\ ~bookOrder.due
<1>1. bookOrder \in Order /\ bookChain \in Seq(Payment) /\ Marked(bookOrder, booked) /\ bookChain[k] \in Payment
  BY DEF CleanInv, Marked, ScannerInv
<1>2. /\ \A p \in Writes(d) :
           /\ Onward(bookOrder, p)
           /\ bookOrder.st # "confirmed_provisioning" /\ p.st = "confirmed_provisioning" =>
                /\ bookChain[k].who = "clean" /\ ~bookOrder.due /\ Book!Enough(Book!Paid(booked \union {k}))
                /\ bookOrder.st # "expired" /\ (bookOrder.st = "under_review" => "ofac_hit" \notin bookOrder.flags)
      /\ bookChain[k].who = "tainted" => "ofac_hit" \in Last(d).flags \/ Last(d).st \in Settled
  BY <1>1, DecisionIs
<1>3. bookDisk'.order = h.order /\ bookDisk'.booked = booked'
  BY WrittenIs DEF ScannerInv
<1>4. Onward(bookOrder, bookOrder)
  BY <1>1 DEF Onward
<1>5. ASSUME NEW p, Onward(bookOrder, p), k \in bookTorn' \/ p = Last(d) PROVE Marked(p, booked)'
  BY <1>1, <1>2, <1>5, MarkedOnward DEF Marked
<1>6. Marked(bookOrder, booked)' /\ Marked(bookDisk.order, bookDisk.booked)'
  <2>1. PICK p, q : p = bookOrder' /\ q = h.order
    OBVIOUS
  <2>2. Marked(p, booked)' /\ Marked(q, booked)'
    BY <1>2, <1>4, <1>5, <2>1
  <2> QED BY <1>3, <2>1, <2>2 DEF Marked
<1>7. CleanInv'
  BY <1>6 DEF CleanInv
<1>8. ASSUME bookOrder.st # "confirmed_provisioning", bookOrder'.st = "confirmed_provisioning"
      PROVE  /\ \A m \in booked' \ bookTorn : bookChain[m].who = "clean"
             /\ Book!Enough(Book!Paid(booked')) /\ ~bookOrder.due
  <2>1. /\ bookChain[k].who = "clean" /\ ~bookOrder.due /\ Book!Enough(Book!Paid(booked'))
        /\ bookOrder.st # "expired" /\ (bookOrder.st = "under_review" => "ofac_hit" \notin bookOrder.flags)
    BY <1>2, <1>8
  <2>2. bookOrder.st \notin Settled
    BY <1>2, <1>8 DEF Onward, Settled
  <2>4. "ofac_hit" \notin bookOrder.flags
    BY <1>1, <1>8, <2>1, <2>2 DEF Marked, Order, OrderStates, Waiting, Settled
  <2>5. ASSUME NEW m \in booked' \ bookTorn, m # k PROVE bookChain[m].who = "clean"
    <3>1. bookChain[m].who # "tainted" /\ bookChain[m].ours /\ bookChain[m] \in Payment
      BY <1>1, <2>2, <2>4, <2>5 DEF Marked, CleanInv
    <3> QED BY <3>1, OursIs
  <2> QED BY <2>1, <2>5
<1> QED BY <1>7, <1>8

LEMMA LogIsClean == ASSUME ScannerInv, CleanInv, Book!PollLog PROVE CleanInv' /\ Book!AutoProvisionsClean
<1>1. PICK k \in job.logs :
         Book!HandleConfirmedPayment(k) \/ Book!FirstWriteRefused(k) \/ Book!LaterWriteRefused(k)
  BY DEF Book!PollLog
<1>2. bookChain' = bookChain /\ k \in 1 .. Len(bookChain)
  <2>1. job # Book!Idle
    BY <1>1 DEF Book!Idle
  <2> QED BY <1>1, <2>1 DEF ScannerInv, Book!PollLog
<1> DEFINE d == Book!Decision(k)
<1>3. bookOrder \in Order /\ (bookChain[k].ours => Last(d) \in Writes(d) /\ Len(d) \in Nat \ {0})
  <2>1. bookOrder \in Order /\ bookChain[k] \in Payment
    BY <1>2 DEF CleanInv, Marked, ScannerInv
  <2> QED BY <2>1, DecisionIs
<1>4. CASE UNCHANGED <<bookOrder, booked>> /\ bookTorn \subseteq bookTorn'
           /\ bookDisk'.order = bookDisk.order /\ bookDisk'.booked = bookDisk.booked
  BY <1>2, <1>4 DEF CleanInv, Marked, Book!AutoProvisionsClean
<1>5. CASE Book!HandleConfirmedPayment(k)
  <2>1. bookTorn' = bookTorn
    BY <1>5 DEF Book!HandleConfirmedPayment, Book!history
  <2>2. CASE bookDisk' = [bookDisk EXCEPT !.strays = strays', !.reviews = reviews] /\ UNCHANGED <<bookOrder, booked>>
    <3>1. bookDisk' = [order |-> bookDisk.order, booked |-> bookDisk.booked, reviews |-> reviews, strays |-> strays']
      BY <2>2, StrayWritten DEF ScannerInv, FilesInv
    <3> QED BY <1>4, <2>1, <2>2, <3>1
  <2>3. CASE UNCHANGED <<bookOrder, booked, bookDisk>>
    BY <1>4, <2>1, <2>3
  <2>4. CASE /\ bookChain[k].ours /\ booked' = booked \union {k}
             /\ bookOrder' = d[Len(d)].order /\ bookDisk' = Book!Kept(d[Len(d)])
    <3>1. PICK h : h = d[Len(d)]
      OBVIOUS
    <3>2. bookOrder' = Last(d) /\ h.order = Last(d) /\ bookDisk' = Book!Kept(h)
      BY <2>4, <3>1 DEF Last
    <3> HIDE DEF d
    <3>3. /\ CleanInv'
          /\ bookOrder.st # "confirmed_provisioning" /\ bookOrder'.st = "confirmed_provisioning" =>
                 /\ \A m \in booked' \ bookTorn : bookChain[m].who = "clean"
                 /\ Book!Enough(Book!Paid(booked')) /\ ~bookOrder.due
      BY <1>2, <1>3, <2>1, <2>4, <3>2, BookedIs DEF d
    <3> QED BY <1>2, <3>3 DEF Book!AutoProvisionsClean, Book!Paid
  <2> QED BY <1>5, <2>2, <2>3, <2>4, ZenonT(60) DEF Book!HandleConfirmedPayment
<1>6. CASE Book!FirstWriteRefused(k)
  <2>1. UNCHANGED <<bookOrder, bookDisk>> /\ bookTorn' = bookTorn \union {k}
    BY <1>6 DEF Book!FirstWriteRefused
  <2>2. booked' = booked \/ (booked' = booked \union {k} /\ bookChain[k].ours)
    BY <1>6 DEF Book!FirstWriteRefused
  <2> QED BY <1>2, <2>1, <2>2 DEF CleanInv, Marked, Book!AutoProvisionsClean
<1>7. CASE Book!LaterWriteRefused(k)
  <2>1. bookChain[k].ours /\ booked' = booked \union {k} /\ bookTorn' = bookTorn \union {k}
    BY <1>7 DEF Book!LaterWriteRefused
  <2>2. PICK w \in 1 .. Len(d) : /\ bookOrder' = d[w].order
                                 /\ bookDisk' = Book!Kept(IF w = 1 THEN Book!Screened ELSE d[w - 1])
    BY <1>7 DEF Book!LaterWriteRefused
  <2>3. PICK h : h = IF w = 1 THEN Book!Screened ELSE d[w - 1]
    OBVIOUS
  <2>4. h.order \in Writes(d) \union {bookOrder}
    <3>1. CASE w = 1
      BY <2>3, <3>1 DEF Book!Screened, Book!Held
    <3>2. CASE w # 1
      <4>1. w - 1 \in 1 .. Len(d)
        BY <1>3, <2>1, <3>2
      <4> HIDE DEF d
      <4> QED BY <2>3, <3>2, <4>1 DEF Writes
    <3> QED BY <3>1, <3>2
  <2>5. bookOrder' \in Writes(d) /\ bookDisk' = Book!Kept(h)
    BY <2>2, <2>3 DEF Writes
  <2>7. d = Book!Decision(k) /\ bookTorn \subseteq bookTorn' /\ k \in bookTorn'
    BY <2>1
  <2> HIDE DEF d
  <2>6. /\ CleanInv'
        /\ bookOrder.st # "confirmed_provisioning" /\ bookOrder'.st = "confirmed_provisioning" =>
               /\ \A m \in booked' \ bookTorn : bookChain[m].who = "clean"
               /\ Book!Enough(Book!Paid(booked')) /\ ~bookOrder.due
    BY <1>2, <2>1, <2>4, <2>5, <2>7, BookedIs
  <2> QED BY <1>2, <2>6 DEF Book!AutoProvisionsClean, Book!Paid
<1> QED BY <1>1, <1>5, <1>6, <1>7

\* The other hands send the order onward, and write it with what it was paid.
LEMMA HandKeeps ==
    ASSUME ScannerInv, CleanInv, UNCHANGED <<bookChain, booked, bookTorn>>, Onward(bookOrder, bookOrder'),
           bookDisk' = bookDisk \/ Book!OrderSaved \/ Book!AllSaved
    PROVE  CleanInv'
<1>1. Marked(bookOrder', booked)
  BY MarkedOnward DEF CleanInv
<1>2. Marked(bookOrder, booked)'
  BY <1>1 DEF Marked
<1>3. bookDisk' = bookDisk \/ (bookDisk'.order = bookOrder' /\ bookDisk'.booked = booked)
  <2>1. FilesInv
    BY DEF ScannerInv
  <2> QED BY <2>1, SavedIs
<1>4. Marked(bookDisk.order, bookDisk.booked)'
  BY <1>2, <1>3 DEF CleanInv, Marked
<1> QED BY <1>2, <1>4 DEF CleanInv

LEMMA HandsAreClean ==
    ASSUME ScannerInv, CleanInv,
           \/ Book!HandlePendingPayment \/ Book!StripeWebhook \/ Book!Falls
           \/ Book!ExpirySweep \/ Book!ResolveReview \/ Book!TakeUp \/ Book!Provisioned
    PROVE  CleanInv'
<1>1. bookOrder \in Order /\ UNCHANGED <<bookChain, booked, bookTorn>>
  BY DEF CleanInv, Marked, Book!HandlePendingPayment, Book!StripeWebhook, Book!Falls, Book!ExpirySweep,
         Book!ResolveReview, Book!TakeUp, Book!Provisioned, Book!history
<1>2. bookDisk' = bookDisk \/ Book!OrderSaved \/ Book!AllSaved
  BY ZenonT(60) DEF Book!HandlePendingPayment, Book!StripeWebhook, Book!Falls, Book!ExpirySweep,
         Book!ResolveReview, Book!TakeUp, Book!Provisioned
<1>3. \/ bookOrder' = bookOrder \/ bookOrder' = [bookOrder EXCEPT !.due = TRUE]
      \/ \E to \in OrderStates \ Waiting : bookOrder' = Book!Moved(bookOrder, to)
      \/ /\ bookOrder.st = "awaiting_payment"
         /\ bookOrder' = Book!Moved(bookOrder, "pending_confirmations")
      \/ /\ bookOrder' = Book!Flagged(Book!Moved(bookOrder, "under_review"), "partial_payment_expired")
         /\ bookOrder.st \in Waiting
  <2>1. {"confirmed_provisioning", "expired", "rejected", "complete"} \subseteq OrderStates \ Waiting
    BY DEF OrderStates, Waiting
  <2>2. CASE Book!HandlePendingPayment \/ Book!StripeWebhook \/ Book!Falls
    BY <2>1, <2>2, Zenon DEF Book!HandlePendingPayment, Book!StripeWebhook, Book!Falls
  <2>3. CASE Book!ExpirySweep
    BY <2>1, <2>3, Zenon DEF Book!ExpirySweep, Waiting
  <2>4. CASE Book!ResolveReview
    <3>1. PICK approve \in BOOLEAN :
             bookOrder' = IF bookOrder.st # "under_review" THEN bookOrder
                          ELSE Book!Moved(bookOrder, IF approve THEN "confirmed_provisioning" ELSE "rejected")
      BY <2>4 DEF Book!ResolveReview
    <3> QED BY <2>1, <3>1
  <2>5. CASE Book!TakeUp \/ Book!Provisioned
    BY <2>1, <2>5 DEF Book!TakeUp, Book!Provisioned
  <2> QED BY <2>2, <2>3, <2>4, <2>5
<1>4. CASE bookOrder' = bookOrder
  BY <1>1, <1>2, <1>4, HandKeeps DEF Onward
<1>5. CASE bookOrder' = [bookOrder EXCEPT !.due = TRUE]
  <2>1. bookOrder' \in Order /\ bookOrder'.flags = bookOrder.flags /\ bookOrder'.st = bookOrder.st
    BY <1>1, <1>5 DEF Order
  <2> QED BY <1>1, <1>2, <2>1, HandKeeps DEF Onward
<1>6. CASE \E to \in OrderStates \ Waiting : bookOrder' = Book!Moved(bookOrder, to)
  <2>1. Onward(bookOrder, bookOrder')
    BY <1>1, <1>6, MovedOnward
  <2> QED BY <1>1, <1>2, <2>1, HandKeeps
<1>7. CASE bookOrder.st = "awaiting_payment" /\ bookOrder' = Book!Moved(bookOrder, "pending_confirmations")
  <2>1. Onward(bookOrder, bookOrder')
    BY <1>1, <1>7, MovedOnward DEF OrderStates
  <2> QED BY <1>1, <1>2, <2>1, HandKeeps
<1>8. CASE /\ bookOrder' = Book!Flagged(Book!Moved(bookOrder, "under_review"), "partial_payment_expired")
           /\ bookOrder.st \in Waiting
  <2> DEFINE o == Book!Moved(bookOrder, "under_review")
  <2>1. o \in Order /\ o.flags = bookOrder.flags /\ o.st = "under_review"
    BY <1>1, <1>8, MovedIs DEF OrderStates, Waiting, Settled
  <2>2. bookOrder' = Book!Flagged(o, "partial_payment_expired") /\ "partial_payment_expired" \in Reasons
    BY <1>8 DEF Reasons
  <2> HIDE DEF o
  <2>3. bookOrder' \in Order /\ bookOrder'.st = "under_review"
        /\ bookOrder'.flags = bookOrder.flags \union {"partial_payment_expired"}
    BY <2>1, <2>2, FlaggedIs
  <2>4. Onward(bookOrder, bookOrder')
    BY <1>8, <2>3 DEF Onward, Waiting, Settled
  <2> QED BY <1>1, <1>2, <2>4, HandKeeps
<1> QED BY <1>3, <1>4, <1>5, <1>6, <1>7, <1>8

\* A kill goes back to the files, an orderly stop writes them.
LEMMA RestartIsClean == ASSUME ScannerInv, CleanInv, Book!Restart PROVE CleanInv'
<1>1. UNCHANGED <<bookChain, bookTorn>>
  BY DEF Book!Restart, Book!history
<1>2. CASE UNCHANGED <<bookOrder, booked>> /\ Book!AllSaved
  <2>1. Onward(bookOrder, bookOrder')
    BY <1>2 DEF Onward, CleanInv, Marked
  <2> QED BY <1>1, <1>2, <2>1, HandKeeps
<1>3. CASE bookOrder' = [bookDisk.order EXCEPT !.due = bookOrder.due] /\ booked' = bookDisk.booked /\ bookDisk' = bookDisk
  <2>1. PICK o : o = bookDisk.order /\ o \in Order /\ bookOrder.due \in BOOLEAN
    BY DEF CleanInv, Marked, Order
  <2>2. bookOrder' \in Order /\ bookOrder'.flags = o.flags /\ bookOrder'.st = o.st
    BY <1>3, <2>1 DEF Order
  <2>3. booked' \subseteq booked
    BY <1>3 DEF ScannerInv, FilesInv
  <2> QED BY <1>1, <1>3, <2>1, <2>2, <2>3 DEF CleanInv, Marked
<1> QED BY <1>2, <1>3 DEF Book!Restart

LEMMA CleanStep ==
    ASSUME ScannerInv, CleanInv, [Book!Next]_(Book!vars)
    PROVE  CleanInv' /\ [Book!AutoProvisionsClean]_(Book!vars)
<1>1. CASE Book!PollLog
  BY <1>1, LogIsClean
<1>2. CASE ~Book!PollLog
  <2>1. Book!AutoProvisionsClean
    BY <1>2 DEF Book!AutoProvisionsClean
  <2>2. CASE Book!Block
    <3>1. PICK p \in Payment : bookChain' = Append(bookChain, p)
      BY <2>2, Zenon DEF Book!Block, Payment
    <3>2. Len(bookChain') = Len(bookChain) + 1 /\ Len(bookChain) \in Nat /\ \A k \in 1 .. Len(bookChain) : bookChain'[k] = bookChain[k]
      BY <3>1 DEF ScannerInv
    <3>3. UNCHANGED <<bookOrder, booked, bookDisk, bookTorn>> /\ bookDisk.booked \subseteq booked
      BY <2>2 DEF Book!Block, Book!history, ScannerInv, FilesInv
    <3>4. booked' \subseteq {k \in 1 .. Len(bookChain') : bookChain'[k].ours}
      BY <3>2, <3>3 DEF CleanInv
    <3>5. \A k \in booked : bookChain'[k] = bookChain[k]
      BY <3>2 DEF CleanInv
    <3>6. Marked(bookOrder, booked)' /\ Marked(bookDisk.order, bookDisk.booked)'
      BY <3>3, <3>5 DEF CleanInv, Marked
    <3> QED BY <2>1, <3>4, <3>6 DEF CleanInv
  <2>3. CASE UNCHANGED <<bookChain, bookOrder, booked, bookDisk, bookTorn>>
    BY <2>1, <2>3 DEF CleanInv, Marked
  <2> QED BY <1>2, <2>1, <2>2, <2>3, HandsAreClean, RestartIsClean
          DEF Book!Next, Book!vars, Book!Poll, Book!PollDone, Book!PollFails, Book!history
<1> QED BY <1>1, <1>2

\* Only a human clears a tainted order, whatever arrives in whichever pieces: a payment
\* alone moves an order to provisioning only before its TTL, when what it was paid is
\* enough, and when every payer is clean but for those whose handler threw at a write
\* (handleConfirmedPayment), through kills that go back to the files.
THEOREM ProvisionedClean ==
    ASSUME ScannerConstants
    PROVE  Book!Spec => [][Book!AutoProvisionsClean]_(Book!vars)
<1>1. Book!Init => CleanInv
  BY DEF Book!Init, CleanInv, Marked, Order, OrderStates, Waiting
<1> QED BY <1>1, CleanStep, ScannerStart, ScannerStep, PTL DEF Book!Spec

-----------------------------------------------------------------------------
(* Pay per deploy                                                            *)

Meter == INSTANCE Metered WITH rec <- meterRec, chain <- meterChain, seen <- meterSeen,
    queue <- meterQueue, silent <- meterSilent, torn <- meterTorn,
    faults <- meterFaults, Window <- MeterWindow, MaxFaults <- MaxMeterFaults

MeterConstants == IsFiniteSet(Pays) /\ 0 \notin Pays /\ MeterWindow \in Nat /\ Confirm \in Nat /\ Stale \in Nat

Reservation == [st : {"awaiting", "running", "expired", "failed"}, left : Int, used : Int, got : SUBSET Pays,
                slice : BOOLEAN, paused : BOOLEAN, win : Int]

\* What a record was paid is what it has left and has used.
PaidUp(r, s, n) ==
    /\ r \in Reservation /\ r.win >= 0
    /\ s \subseteq Pays /\ r.got \subseteq s /\ n \in Int /\ r.used <= n
    /\ r.left + r.used = Cardinality(r.got)
    /\ r.slice = IF r.st \in Meter!Terminal THEN FALSE ELSE TRUE
    /\ r.st = "awaiting" => r.got = {} /\ r.left = 0 /\ r.used = 0
    /\ r.st = "running" => r.got # {} /\ r.left >= 0

\* Nothing holds the expiry off for ever, and nothing lets it come before the watcher has had its chance.
Waits(p) ==
    IF meterChain[p] < Confirm THEN meterRec.win > Confirm - meterChain[p] + Stale ELSE meterRec.win + meterSilent > Stale

WatchKept ==
    /\ meterRec.st = "awaiting" => /\ disk.rec.st = "awaiting" /\ meterRec.win <= disk.rec.win
                                   /\ \A p \in early : IF p \in meterSeen THEN p \in meterTorn \union {busy} \union meterQueue ELSE Waits(p)
    /\ disk.rec.st = "awaiting" => \A p \in early : meterChain[p] < Confirm => disk.rec.win > Confirm - meterChain[p] + Stale
    /\ meterRec.st = "expired" /\ meterRec.got = {} => early \subseteq meterTorn \union unpriced
    /\ disk.rec.st = "expired" /\ disk.rec.got = {} => early \subseteq meterTorn \union unpriced

MeterInv ==
    /\ PaidUp(meterRec, meterSeen, served)
    /\ disk = [rec |-> disk.rec, seen |-> disk.seen, served |-> disk.served]
    /\ PaidUp(disk.rec, disk.seen, disk.served)
    /\ meterChain \in [Pays -> Int] /\ \A p \in Pays : meterChain[p] <= Confirm
    /\ early \subseteq Pays /\ \A p \in early : meterChain[p] >= 0
    /\ \A p \in meterSeen \union disk.seen : meterChain[p] = Confirm
    /\ meterQueue \subseteq meterSeen /\ meterQueue \intersect meterRec.got = {}
    /\ busy \in Pays \union {0} /\ (busy # 0 => busy \in meterSeen /\ busy \notin meterQueue /\ meterRec.st = "awaiting")
    /\ meterSilent \in Int /\ meterSilent >= 0
    /\ WatchKept


LEMMA MeterCounts == \A S : Meter!Cardinality(S) = Cardinality(S)
  BY Zenon DEF Meter!Cardinality, Cardinality, Meter!IsFiniteSet, IsFiniteSet

LEMMA OnePaid ==
    ASSUME MeterConstants, NEW S, S \subseteq Pays, NEW p \in Pays, p \notin S
    PROVE  /\ Cardinality(S \union {p}) = Cardinality(S) + 1 /\ Cardinality(S) \in Nat
           /\ Cardinality({}) = 0
<1>1. IsFiniteSet(S)
  BY FS_Subset DEF MeterConstants
<1> QED BY <1>1, FS_AddElement, FS_CardinalityType, FS_EmptySet

\* A record with these fields.
Opened(st, left, used, got, piece, paused, win) ==
    [st |-> st, left |-> left, used |-> used, got |-> got, slice |-> piece, paused |-> paused, win |-> win]

LEMMA Rebuilt ==
    ASSUME NEW r \in Reservation
    PROVE  /\ r = Opened(r.st, r.left, r.used, r.got, r.slice, r.paused, r.win)
           /\ \A x : [r EXCEPT !.paused = x] = Opened(r.st, r.left, r.used, r.got, r.slice, x, r.win)
           /\ \A x : [r EXCEPT !.win = x] = Opened(r.st, r.left, r.used, r.got, r.slice, r.paused, x)
  BY DEF Reservation, Opened

Granted(r, st, on) == [r EXCEPT !.st = st, !.slice = on]
Started(r, S) == [r EXCEPT !.st = "running", !.left = 1, !.got = S]
Extended(r, n, S) == [r EXCEPT !.left = n, !.got = S]
Metered(r, m, n) == [r EXCEPT !.left = m, !.used = n]

LEMMA GrantedIs ==
    ASSUME NEW r \in Reservation, NEW st, NEW on
    PROVE  Granted(r, st, on) = Opened(st, r.left, r.used, r.got, on, r.paused, r.win)
<1> DEFINE u == [r EXCEPT !.st = st]
<1>1. u = Opened(st, r.left, r.used, r.got, r.slice, r.paused, r.win)
  BY DEF Reservation, Opened
<1> HIDE DEF u
<1>2. [u EXCEPT !.slice = on] = Opened(st, r.left, r.used, r.got, on, r.paused, r.win)
  BY <1>1 DEF Opened
<1> QED BY <1>2 DEF u, Granted

LEMMA StartedIs ==
    ASSUME NEW r \in Reservation, NEW S
    PROVE  Started(r, S) = Opened("running", 1, r.used, S, r.slice, r.paused, r.win)
<1> DEFINE u == [r EXCEPT !.st = "running"]
           v == [u EXCEPT !.left = 1]
<1>1. u = Opened("running", r.left, r.used, r.got, r.slice, r.paused, r.win)
  BY DEF Reservation, Opened
<1> HIDE DEF u
<1>2. v = Opened("running", 1, r.used, r.got, r.slice, r.paused, r.win)
  BY <1>1 DEF Opened
<1> HIDE DEF v
<1>3. [v EXCEPT !.got = S] = Opened("running", 1, r.used, S, r.slice, r.paused, r.win)
  BY <1>2 DEF Opened
<1> QED BY <1>3 DEF u, v, Started

LEMMA ExtendedIs ==
    ASSUME NEW r \in Reservation, NEW n, NEW S
    PROVE  Extended(r, n, S) = Opened(r.st, n, r.used, S, r.slice, r.paused, r.win)
<1> DEFINE u == [r EXCEPT !.left = n]
<1>1. u = Opened(r.st, n, r.used, r.got, r.slice, r.paused, r.win)
  BY DEF Reservation, Opened
<1> HIDE DEF u
<1>2. [u EXCEPT !.got = S] = Opened(r.st, n, r.used, S, r.slice, r.paused, r.win)
  BY <1>1 DEF Opened
<1> QED BY <1>2 DEF u, Extended

LEMMA MeteredIs ==
    ASSUME NEW r \in Reservation, NEW m, NEW n
    PROVE  Metered(r, m, n) = Opened(r.st, m, n, r.got, r.slice, r.paused, r.win)
<1> DEFINE u == [r EXCEPT !.left = m]
<1>1. u = Opened(r.st, m, r.used, r.got, r.slice, r.paused, r.win)
  BY DEF Reservation, Opened
<1> HIDE DEF u
<1>2. [u EXCEPT !.used = n] = Opened(r.st, m, n, r.got, r.slice, r.paused, r.win)
  BY <1>1 DEF Opened
<1> QED BY <1>2 DEF u, Metered

LEMMA PayKeeps == ASSUME MeterConstants, MeterInv, NEW p \in Pays, Meter!Pay(p) PROVE MeterInv'
<1>1. UNCHANGED <<meterRec, meterSeen, meterQueue, busy, meterSilent, served, disk, meterTorn, unpriced>>
  BY DEF Meter!Pay, Meter!Meter
<1>2. /\ meterChain[p] = -1 /\ meterChain' = [meterChain EXCEPT ![p] = 0]
      /\ early' = IF meterRec.st = "awaiting" /\ meterRec.win > Confirm + Stale THEN early \union {p} ELSE early
  BY DEF Meter!Pay, Meter!Deep
<1>3. p \notin early /\ p \notin meterSeen /\ p \notin disk.seen
  BY <1>2 DEF MeterInv, MeterConstants
<1>4. /\ meterChain' \in [Pays -> Int] /\ \A q \in Pays : meterChain'[q] <= Confirm
      /\ early' \subseteq Pays /\ \A q \in early' : meterChain'[q] >= 0
      /\ \A q \in meterSeen \union disk.seen : meterChain'[q] = Confirm
      /\ \A q \in Pays \ {p} : meterChain'[q] = meterChain[q]
      /\ meterChain'[p] = 0
  BY <1>2, <1>3 DEF MeterInv, MeterConstants, PaidUp
<1>5. WatchKept'
  <2>1. ASSUME NEW q \in early', q \notin early
        PROVE  q = p /\ meterRec.st = "awaiting" /\ meterRec.win > Confirm + Stale
    BY <1>2, <2>1
  <2>2. early \subseteq early' /\ p \notin early
    BY <1>2, <1>3
  <2>7. meterRec \in Reservation /\ disk.rec \in Reservation
    BY DEF MeterInv, PaidUp
  <2>3. meterRec.st = "awaiting" => \A q \in early' : IF q \in meterSeen THEN q \in meterTorn \union {busy} \union meterQueue ELSE Waits(q)'
    BY <1>1, <1>3, <1>4, <2>1, <2>7 DEF MeterInv, WatchKept, Waits, MeterConstants,
        Reservation
  <2>4. disk.rec.st = "awaiting" => \A q \in early' : meterChain'[q] < Confirm => disk.rec.win > Confirm - meterChain'[q] + Stale
    BY <1>1, <1>3, <1>4, <2>1, <2>7 DEF MeterInv, WatchKept, MeterConstants, Reservation
  <2>5. meterRec.st = "expired" /\ meterRec.got = {} => early' \subseteq meterTorn \union unpriced
    BY <2>1 DEF MeterInv, WatchKept
  <2>6. disk.rec.st = "expired" /\ disk.rec.got = {} => early' \subseteq meterTorn \union unpriced
    BY <2>1 DEF MeterInv, WatchKept
  <2>8. meterRec.st = "awaiting" => disk.rec.st = "awaiting" /\ meterRec.win <= disk.rec.win
    BY DEF MeterInv, WatchKept
  <2> QED BY <1>1, <2>3, <2>4, <2>5, <2>6, <2>8 DEF WatchKept
<1> QED BY <1>1, <1>4, <1>5 DEF MeterInv, PaidUp

\* What a payment that is credited leaves.
LEMMA CreditKeeps ==
    ASSUME MeterConstants, MeterInv, NEW p \in Pays, busy = 0, meterChain[p] >= Confirm, p \notin meterRec.got, Meter!Credit(p),
           UNCHANGED <<meterChain, early, meterSilent, served, disk, meterTorn, unpriced>>,
           meterSeen' = meterSeen \union {p}, meterQueue' = meterQueue \ {p}, p \in EthPays \/ p \notin meterSeen
    PROVE  MeterInv'
<1>1. meterRec \in Reservation /\ meterRec.win \in Int /\ meterRec.left \in Int /\ meterRec.used \in Int /\ meterRec.got \subseteq Pays
      /\ meterChain[p] = Confirm
  BY DEF MeterInv, PaidUp, Reservation, MeterConstants
<1>2. CASE meterRec.st = "awaiting"
  <2>1. busy' = p /\ meterRec' = meterRec /\ p # 0
    BY <1>2 DEF Meter!Credit, MeterConstants
  <2>2. WatchKept'
    <3>1. ASSUME NEW q \in early' PROVE IF q \in meterSeen' THEN q \in meterTorn' \union {busy'} \union meterQueue' ELSE Waits(q)'
      <4>1. q \in early /\ q # 0 /\ (q \in meterSeen' <=> q \in meterSeen \/ q = p)
        BY <3>1 DEF MeterInv, MeterConstants
      <4>2. IF q \in meterSeen THEN q \in meterTorn \union {busy} \union meterQueue ELSE Waits(q)
        BY <1>2, <4>1 DEF MeterInv, WatchKept
      <4>3. Waits(q)' <=> Waits(q)
        BY <2>1 DEF Waits
      <4> QED BY <2>1, <4>1, <4>2, <4>3
    <3>2. early' = early
      OBVIOUS
    <3> QED BY <1>2, <2>1, <3>1, <3>2 DEF MeterInv, WatchKept
  <2>3. PaidUp(meterRec, meterSeen, served)'
    BY <2>1, <1>1 DEF MeterInv, PaidUp
  <2> QED BY <1>1, <1>2, <2>1, <2>2, <2>3 DEF MeterInv, PaidUp
<1>3. CASE meterRec.st = "running"
  <2>1. /\ busy' = busy
        /\ meterRec' = [meterRec EXCEPT !.left = (IF @ < 0 THEN 0 ELSE @) + 1, !.got = @ \union {p}]
    BY <1>3 DEF Meter!Credit
  <2>2. meterRec' = Opened(meterRec.st, meterRec.left + 1, meterRec.used, meterRec.got \union {p}, meterRec.slice, meterRec.paused, meterRec.win)
    <3>1. meterRec.left >= 0
      BY <1>3 DEF MeterInv, PaidUp
    <3>2. meterRec' = Extended(meterRec, (IF meterRec.left < 0 THEN 0 ELSE meterRec.left) + 1, meterRec.got \union {p})
      BY <2>1 DEF Extended
    <3>3. (IF meterRec.left < 0 THEN 0 ELSE meterRec.left) + 1 = meterRec.left + 1
      BY <3>1, <1>1
    <3> QED BY <3>2, <3>3, <1>1, ExtendedIs
  <2>3. PaidUp(meterRec, meterSeen, served)'
    BY <1>1, <1>3, <2>2, OnePaid DEF MeterInv, PaidUp, Opened, Reservation, Meter!Terminal
  <2>4. WatchKept'
    BY <1>1, <1>3, <2>2 DEF MeterInv, WatchKept, Opened
  <2> QED BY <1>1, <1>3, <2>1, <2>2, <2>3, <2>4 DEF MeterInv, PaidUp, Opened
<1>4. CASE meterRec.st \notin {"awaiting", "running"}
  <2>1. busy' = busy /\ meterRec' = meterRec
    BY <1>4 DEF Meter!Credit
  <2>2. PaidUp(meterRec, meterSeen, served)'
    BY <2>1, <1>1 DEF MeterInv, PaidUp
  <2>3. WatchKept'
    BY <1>4, <2>1 DEF MeterInv, WatchKept
  <2> QED BY <1>1, <1>4, <2>1, <2>2, <2>3 DEF MeterInv, PaidUp
<1> QED BY <1>2, <1>3, <1>4

LEMMA HandleKeeps ==
    ASSUME MeterConstants, MeterInv, NEW p \in Pays, Meter!HandleUsdc(p) \/ \E ok \in BOOLEAN : Meter!HandleEth(p, ok)
    PROVE  MeterInv'
<1>1. CASE Meter!HandleUsdc(p)
  <2>1. /\ busy = 0 /\ meterChain[p] >= Confirm /\ p \notin meterSeen /\ Meter!Credit(p) /\ meterSeen' = meterSeen \union {p}
        /\ UNCHANGED <<meterChain, early, meterQueue, meterSilent, served, disk, meterTorn, unpriced>>
    BY <1>1 DEF Meter!HandleUsdc, Meter!Fresh, Meter!Meter
  <2>2. p \notin meterRec.got /\ meterQueue' = meterQueue \ {p}
    BY <2>1 DEF MeterInv, PaidUp
  <2> QED BY <2>1, <2>2, CreditKeeps
<1>2. CASE \E ok \in BOOLEAN : Meter!HandleEth(p, ok)
  <2>1. PICK ok \in BOOLEAN : Meter!HandleEth(p, ok)
    BY <1>2
  <2>2. /\ busy = 0 /\ p \in EthPays /\ meterSeen' = meterSeen \union {p}
        /\ UNCHANGED <<meterChain, early, meterSilent, served, disk, meterTorn, unpriced>>
    BY <2>1 DEF Meter!HandleEth, Meter!Meter
  <2>3. p \notin meterRec.got /\ meterChain[p] = Confirm
    BY <2>1 DEF Meter!HandleEth, Meter!Fresh, MeterInv, PaidUp, MeterConstants
  <2>4. CASE ok
    <3>1. Meter!Credit(p) /\ meterQueue' = meterQueue \ {p}
      BY <2>1, <2>4 DEF Meter!HandleEth
    <3>2. meterChain[p] >= Confirm
      BY <2>3 DEF MeterConstants
    <3> QED BY <2>2, <2>3, <3>1, <3>2, CreditKeeps
  <2>5. CASE ~ok
    <3>1. UNCHANGED <<meterRec, busy>> /\ meterQueue' = meterQueue \union {p}
      BY <2>1, <2>5 DEF Meter!HandleEth
    <3>2. PaidUp(meterRec, meterSeen, served)'
      BY <2>2, <3>1 DEF MeterInv, PaidUp
    <3>3. WatchKept'
      BY <2>2, <2>3, <3>1 DEF MeterInv, WatchKept, Waits
    <3> QED BY <2>2, <2>3, <3>1, <3>2, <3>3 DEF MeterInv
  <2> QED BY <2>4, <2>5
<1> QED BY <1>1, <1>2

LEMMA LaunchKeeps ==
    ASSUME MeterConstants, MeterInv, NEW ok \in BOOLEAN, Meter!LaunchEnds(ok) PROVE MeterInv'
<1>1. /\ busy # 0 /\ busy' = 0 /\ UNCHANGED <<meterChain, early, meterSeen, meterQueue, meterSilent, served, disk, meterTorn, unpriced>>
      /\ meterRec' = IF ok THEN [meterRec EXCEPT !.st = "running", !.left = 1, !.got = @ \union {busy}]
                     ELSE [meterRec EXCEPT !.st = "failed", !.slice = FALSE]
  BY DEF Meter!LaunchEnds
<1>2. meterRec \in Reservation /\ meterRec.st = "awaiting" /\ meterRec.got = {} /\ meterRec.used = 0 /\ meterRec.slice = TRUE /\ meterRec.win \in Int
      /\ busy \in Pays /\ busy \in meterSeen /\ busy \notin meterQueue /\ served \in Int /\ served >= 0 /\ meterRec.win >= 0 /\ meterRec.left = 0
  BY <1>1 DEF MeterInv, PaidUp, Reservation, Meter!Terminal
<1>3. CASE ok
  <2>0. meterRec' = Started(meterRec, meterRec.got \union {busy})
    BY <1>1, <1>3 DEF Started
  <2>1. meterRec' = Opened("running", 1, 0, {busy}, meterRec.slice, meterRec.paused, meterRec.win)
    <3>1. meterRec' = Opened("running", 1, meterRec.used, meterRec.got \union {busy}, meterRec.slice, meterRec.paused, meterRec.win)
      BY <2>0, <1>2, StartedIs
    <3> QED BY <3>1, <1>2
  <2>2. PaidUp(meterRec, meterSeen, served)'
    <3>1. Cardinality({busy}) = 1
      BY FS_Singleton
    <3>2. meterRec' \in Reservation
      BY <1>2, <2>1 DEF Opened, Reservation
    <3>3. /\ meterRec'.win = meterRec.win /\ meterRec'.got = {busy} /\ meterRec'.used = 0 /\ meterRec'.left = 1 /\ meterRec'.st = "running"
          /\ meterRec'.slice = TRUE
      BY <1>2, <2>1 DEF Opened
    <3>4. meterSeen' \subseteq Pays /\ {busy} \subseteq meterSeen' /\ served' = served
      BY <1>1, <1>2 DEF MeterInv, PaidUp
    <3>5. meterRec'.slice = IF meterRec'.st \in Meter!Terminal THEN FALSE ELSE TRUE
      BY <3>3 DEF Meter!Terminal
    <3>6. meterRec'.left + meterRec'.used = Cardinality(meterRec'.got) /\ meterRec'.used <= served' /\ meterRec'.got \subseteq meterSeen'
      BY <1>2, <3>1, <3>3, <3>4
    <3> QED BY <1>2, <3>2, <3>3, <3>4, <3>5, <3>6 DEF PaidUp
  <2>3. WatchKept'
    BY <1>1, <1>2, <2>1 DEF MeterInv, WatchKept, Opened
  <2> QED BY <1>1, <1>2, <2>1, <2>2, <2>3 DEF MeterInv, Opened, MeterConstants
<1>4. CASE ~ok
  <2>0. meterRec' = Granted(meterRec, "failed", FALSE)
    BY <1>1, <1>4 DEF Granted
  <2>1. meterRec' = Opened("failed", meterRec.left, meterRec.used, meterRec.got, FALSE, meterRec.paused, meterRec.win)
    BY <2>0, <1>2, GrantedIs
  <2>2. PaidUp(meterRec, meterSeen, served)'
    <3>2. meterRec' \in Reservation
      BY <1>2, <2>1 DEF Opened, Reservation
    <3>3. /\ meterRec'.win = meterRec.win /\ meterRec'.got = {} /\ meterRec'.used = 0 /\ meterRec'.left = 0 /\ meterRec'.st = "failed"
          /\ meterRec'.slice = FALSE
      BY <1>2, <2>1 DEF Opened
    <3>4. meterSeen' \subseteq Pays /\ served' = served /\ Cardinality({}) = 0
      BY <1>1, FS_EmptySet DEF MeterInv, PaidUp
    <3>5. meterRec'.slice = IF meterRec'.st \in Meter!Terminal THEN FALSE ELSE TRUE
      BY <3>3 DEF Meter!Terminal
    <3>6. meterRec'.left + meterRec'.used = Cardinality(meterRec'.got) /\ meterRec'.used <= served' /\ meterRec'.got \subseteq meterSeen'
      BY <1>2, <3>3, <3>4
    <3> QED BY <1>2, <3>2, <3>3, <3>4, <3>5, <3>6 DEF PaidUp
  <2>3. WatchKept'
    BY <1>1, <1>2, <2>1 DEF MeterInv, WatchKept, Opened
  <2> QED BY <1>1, <1>2, <2>1, <2>2, <2>3 DEF MeterInv, Opened
<1> QED BY <1>3, <1>4

LEMMA ExpireKeeps == ASSUME MeterConstants, MeterInv, Meter!Expire PROVE MeterInv'
<1>1. /\ meterRec.st = "awaiting" /\ busy = 0 /\ meterRec.win = 0 /\ meterSilent <= Stale
      /\ meterRec' = [meterRec EXCEPT !.st = "expired", !.slice = FALSE]
      /\ UNCHANGED <<meterChain, early, meterSeen, meterQueue, busy, meterSilent, served, disk, meterTorn>>
      /\ unpriced' = unpriced \union meterQueue
  BY DEF Meter!Expire, Meter!Meter
<1>2. meterRec \in Reservation
  BY DEF MeterInv, PaidUp
<1>3. meterRec' = Opened("expired", meterRec.left, meterRec.used, meterRec.got, FALSE, meterRec.paused, meterRec.win)
  BY <1>1, <1>2, GrantedIs DEF Granted
<1>4. PaidUp(meterRec, meterSeen, served)'
  BY <1>1, <1>2, <1>3 DEF MeterInv, PaidUp, Opened, Reservation, Meter!Terminal
<1>5. early \subseteq meterTorn \union unpriced'
  <2> SUFFICES ASSUME NEW p \in early PROVE p \in meterTorn \union unpriced'
    OBVIOUS
  <2>1. p \in Pays /\ meterChain[p] \in Int /\ p # 0 /\ meterChain[p] <= Confirm
    BY DEF MeterInv, MeterConstants
  <2>2. ~Waits(p)
    BY <1>1, <2>1 DEF Waits, MeterConstants, MeterInv
  <2> QED BY <1>1, <2>1, <2>2 DEF MeterInv, WatchKept
<1>6. WatchKept'
  BY <1>1, <1>3, <1>5 DEF MeterInv, WatchKept, Opened
<1> QED BY <1>1, <1>3, <1>4, <1>6 DEF MeterInv, Opened

LEMMA TickKeeps == ASSUME MeterConstants, MeterInv, NEW ok \in BOOLEAN, Meter!Tick(ok) PROVE MeterInv'
<1> DEFINE b == Meter!Billed(meterRec, ok)
           w == IF b.st = "awaiting" /\ b.win > 0 THEN b.win - 1 ELSE b.win
           n == IF meterRec.st = "running" /\ up THEN served + 1 ELSE served
<1>1. /\ UNCHANGED <<early, meterSeen, meterQueue, busy, disk, meterTorn, unpriced>>
      /\ meterSilent' = IF meterSilent <= Stale THEN meterSilent + 1 ELSE meterSilent
      /\ meterChain' = [p \in Pays |-> IF meterChain[p] \in 0 .. Confirm - 1 THEN meterChain[p] + 1 ELSE meterChain[p]]
      /\ meterRec' = [b EXCEPT !.win = w]
      /\ served' = n
  BY DEF Meter!Tick
<1>2. meterRec \in Reservation /\ meterRec.left \in Int /\ meterRec.used \in Int /\ served \in Int /\ meterRec.win \in Int /\ meterRec.paused \in BOOLEAN
      /\ meterRec.win >= 0
  BY DEF MeterInv, PaidUp, Reservation
<1>3. /\ PaidUp(b, meterSeen, n) /\ b.win = meterRec.win /\ b.got = meterRec.got
      /\ (b.st = "awaiting" <=> meterRec.st = "awaiting") /\ (b.st = "expired" => meterRec.st = "expired" \/ b.got # {})
  <2>1. CASE meterRec.st # "running"
    <3>1. b = meterRec
      BY <2>1 DEF Meter!Billed
    <3> QED BY <2>1, <3>1 DEF MeterInv
  <2>2. CASE meterRec.st = "running" /\ Meter!Frozen(ok)
    <3>1. b = [meterRec EXCEPT !.paused = TRUE]
      BY <2>2 DEF Meter!Billed
    <3>2. b = Opened(meterRec.st, meterRec.left, meterRec.used, meterRec.got, meterRec.slice, TRUE, meterRec.win)
      BY <3>1, <1>2, Rebuilt, Zenon
    <3> HIDE DEF b
    <3> QED BY <1>2, <2>2, <3>2 DEF MeterInv, PaidUp, Opened, Reservation
  <2>3. CASE meterRec.st = "running" /\ ~Meter!Frozen(ok) /\ meterRec.paused
    <3>1. b = [meterRec EXCEPT !.paused = FALSE]
      BY <2>3 DEF Meter!Billed
    <3>2. b = Opened(meterRec.st, meterRec.left, meterRec.used, meterRec.got, meterRec.slice, FALSE, meterRec.win)
      BY <3>1, <1>2, Rebuilt, Zenon
    <3> HIDE DEF b
    <3> QED BY <1>2, <2>3, <3>2 DEF MeterInv, PaidUp, Opened, Reservation
  <2>4. CASE meterRec.st = "running" /\ ~Meter!Frozen(ok) /\ ~meterRec.paused
    <3> DEFINE r == Metered(meterRec, meterRec.left - 1, meterRec.used + 1)
    <3>1. b = Meter!Reaped(r)
      BY <2>4 DEF Meter!Billed, Metered
    <3>2. r = Opened(meterRec.st, meterRec.left - 1, meterRec.used + 1, meterRec.got, meterRec.slice, meterRec.paused, meterRec.win)
      BY <1>2, MeteredIs
    <3>3. n = served + 1 /\ meterRec.used + 1 <= n
      BY <1>2, <2>4 DEF Meter!Frozen, MeterInv, PaidUp
    <3> HIDE DEF r, b
    <3>4. r \in Reservation
      BY <1>2, <3>2 DEF Opened, Reservation
    <3>5. CASE r.left < 0
      <4>1. b = Granted(r, "expired", FALSE)
        BY <3>1, <3>5 DEF Meter!Reaped, Granted
      <4>2. b = Opened("expired", r.left, r.used, r.got, FALSE, r.paused, r.win)
        BY <4>1, <3>4, GrantedIs
      <4> QED BY <1>2, <2>4, <3>2, <3>3, <4>2 DEF MeterInv, PaidUp, Opened, Reservation,
          Meter!Terminal
    <3>6. CASE ~(r.left < 0)
      <4>1. b = r
        BY <3>1, <3>6 DEF Meter!Reaped
      <4> QED BY <1>2, <2>4, <3>2, <3>3, <3>6, <4>1 DEF MeterInv, PaidUp, Opened, Reservation,
          Meter!Terminal
    <3> QED BY <3>5, <3>6
  <2> QED BY <2>1, <2>2, <2>3, <2>4
<1> HIDE DEF b
<1>4. w \in Int /\ w >= 0 /\ w <= meterRec.win /\ (meterRec.st = "awaiting" => w = IF meterRec.win > 0 THEN meterRec.win - 1 ELSE 0)
  BY <1>2, <1>3
<1>5. meterRec' = Opened(b.st, b.left, b.used, b.got, b.slice, b.paused, w)
  <2>1. b \in Reservation
    BY <1>3 DEF PaidUp
  <2> QED BY <1>1, <2>1, Rebuilt, Zenon
<1>6. PaidUp(meterRec', meterSeen, n)
  BY <1>3, <1>4, <1>5 DEF PaidUp, Opened, Reservation
<1>7. /\ meterChain' \in [Pays -> Int] /\ \A p \in Pays : meterChain'[p] <= Confirm
      /\ \A p \in early : meterChain'[p] >= 0
      /\ \A p \in meterSeen \union disk.seen : meterChain'[p] = Confirm
      /\ meterSilent' \in Int /\ meterSilent' >= 0
      /\ \A p \in Pays : meterChain[p] \in Int /\ meterChain'[p] \in Int
                         /\ (meterChain[p] >= 0 /\ meterChain[p] < Confirm => meterChain'[p] = meterChain[p] + 1) /\ (meterChain[p] = Confirm => meterChain'[p] = Confirm)
  BY <1>1 DEF MeterInv, MeterConstants, PaidUp
<1>8. WatchKept'
  <2>0. early' = early /\ early \subseteq Pays /\ \A p \in early : meterChain[p] >= 0
    BY <1>1 DEF MeterInv
  <2>1. (meterRec'.st = "awaiting" <=> meterRec.st = "awaiting") /\ meterRec'.win = w /\ meterRec'.got = meterRec.got
        /\ (meterRec'.st = "expired" => meterRec.st = "expired" \/ meterRec.got # {})
    BY <1>3, <1>5 DEF Opened
  <2>2. ASSUME meterRec.st = "awaiting", NEW p \in early, Waits(p) PROVE Waits(p)'
    BY <1>1, <1>2, <1>4, <1>7, <2>0, <2>1, <2>2 DEF Waits, MeterConstants, MeterInv
  <2>3. meterRec'.st = "awaiting" => disk'.rec.st = "awaiting" /\ meterRec'.win <= disk'.rec.win
    BY <1>1, <1>2, <1>4, <2>1 DEF MeterInv, WatchKept, PaidUp, Reservation
  <2>4. meterRec'.st = "awaiting" => \A p \in early : IF p \in meterSeen THEN p \in meterTorn \union {busy} \union meterQueue ELSE Waits(p)'
    BY <2>1, <2>2 DEF MeterInv, WatchKept
  <2>5. disk.rec.st = "awaiting" => \A p \in early : meterChain'[p] < Confirm => disk.rec.win > Confirm - meterChain'[p] + Stale
    <3> SUFFICES ASSUME disk.rec.st = "awaiting", NEW p \in early, meterChain'[p] < Confirm
                 PROVE  disk.rec.win > Confirm - meterChain'[p] + Stale
      OBVIOUS
    <3>1. meterChain[p] >= 0 /\ meterChain[p] \in Int /\ p \in Pays
      BY <1>7, <2>0
    <3>2. meterChain[p] < Confirm /\ meterChain'[p] = meterChain[p] + 1
      BY <1>7, <3>1 DEF MeterInv, MeterConstants
    <3>3. disk.rec.win > Confirm - meterChain[p] + Stale /\ disk.rec.win \in Int
      BY <3>2 DEF MeterInv, WatchKept, PaidUp, Reservation
    <3> QED BY <3>1, <3>2, <3>3 DEF MeterConstants
  <2>6. meterRec'.st = "expired" /\ meterRec'.got = {} => early \subseteq meterTorn \union unpriced
    BY <2>1 DEF MeterInv, WatchKept
  <2> QED BY <1>1, <2>0, <2>3, <2>4, <2>5, <2>6 DEF MeterInv, WatchKept
<1>9. busy # 0 => meterRec'.st = "awaiting"
  BY <1>3, <1>5 DEF MeterInv, Opened
<1>10. meterRec'.got = meterRec.got
  BY <1>3, <1>5 DEF Opened
<1> HIDE DEF n, w
<1> QED BY <1>1, <1>6, <1>7, <1>8, <1>9, <1>10 DEF MeterInv

LEMMA PollEndsKeeps == ASSUME MeterConstants, MeterInv, Meter!PollEnds PROVE MeterInv'
<1>1. /\ \A p \in Pays : meterChain[p] >= Confirm => p \in meterSeen
      /\ meterSilent' = 0 /\ UNCHANGED <<meterRec, meterChain, early, meterSeen, meterQueue, busy, served, disk, meterTorn, unpriced>>
  BY DEF Meter!PollEnds, Meter!Fresh, Meter!Meter
<1>2. ASSUME NEW p \in early, p \notin meterSeen, Waits(p) PROVE Waits(p)'
  BY <1>1, <1>2 DEF Waits, MeterInv, MeterConstants
<1>3. WatchKept'
  BY <1>1, <1>2 DEF MeterInv, WatchKept
<1>4. PaidUp(meterRec, meterSeen, served)' /\ PaidUp(disk.rec, disk.seen, disk.served)'
  BY <1>1 DEF MeterInv, PaidUp
<1> QED BY <1>1, <1>3, <1>4 DEF MeterInv

LEMMA SaveKeeps == ASSUME MeterConstants, MeterInv, Meter!Save PROVE MeterInv'
<1>1. /\ disk' = [rec |-> meterRec, seen |-> meterSeen, served |-> served]
      /\ UNCHANGED <<meterRec, meterChain, early, meterSeen, meterQueue, busy, meterSilent, served, meterTorn, unpriced>>
  BY DEF Meter!Save, Meter!Meter
<1>2. disk'.rec = meterRec /\ disk'.seen = meterSeen /\ disk'.served = served
  BY <1>1
<1>3. WatchKept'
  <2>1. meterRec.st = "awaiting" => \A p \in early : meterChain[p] < Confirm => meterRec.win > Confirm - meterChain[p] + Stale
    <3> SUFFICES ASSUME meterRec.st = "awaiting", NEW p \in early, meterChain[p] < Confirm PROVE meterRec.win > Confirm - meterChain[p] + Stale
      OBVIOUS
    <3>1. p \notin meterSeen
      BY DEF MeterInv, MeterConstants
    <3> QED BY <3>1 DEF MeterInv, WatchKept, Waits
  <2>2. meterRec.win \in Int
    BY DEF MeterInv, PaidUp, Reservation
  <2> QED BY <1>1, <1>2, <2>1, <2>2 DEF MeterInv, WatchKept, Waits
<1> QED BY <1>1, <1>2, <1>3 DEF MeterInv, PaidUp

LEMMA CrashedKeeps == ASSUME MeterConstants, MeterInv, Meter!Crash PROVE MeterInv'
<1>1. /\ meterRec' = [disk.rec EXCEPT !.paused = (disk.rec.st = "running")]
      /\ meterSeen' = disk.seen /\ meterQueue' = {} /\ busy' = 0 /\ served' = disk.served
      /\ meterSilent' = Stale + 1
      /\ meterTorn' = meterTorn \union {p \in disk.seen : p \notin disk.rec.got /\ disk.rec.st = "awaiting"}
                                \union (meterQueue \intersect disk.seen)
      /\ UNCHANGED <<meterChain, early, disk, unpriced>>
  BY DEF Meter!Crash, Meter!Restored
<1> DEFINE r == disk.rec
<1>2. r \in Reservation /\ r.win >= 0 /\ r.win \in Int /\ (r.st = "awaiting" => r.got = {})
  BY DEF MeterInv, PaidUp, Reservation
<1>3. meterRec' = Opened(r.st, r.left, r.used, r.got, r.slice, r.st = "running", r.win)
  BY <1>1, <1>2, Rebuilt, Zenon
<1>4. PaidUp(meterRec, meterSeen, served)'
  <2>1. (r.st = "running") \in BOOLEAN
    OBVIOUS
  <2>2. PaidUp(r, disk.seen, disk.served)
    BY DEF MeterInv
  <2> HIDE DEF r
  <2>3. PaidUp(meterRec', disk.seen, disk.served)
    <3> DEFINE started == r.st = "running"
    <3>1. started \in BOOLEAN
      OBVIOUS
    <3> HIDE DEF started
    <3> QED BY <1>3, <2>2, <3>1 DEF PaidUp, Opened, Reservation, started
  <2> QED BY <1>1, <2>3
<1>5. meterRec'.st = r.st /\ meterRec'.win = r.win /\ meterRec'.got = r.got
  BY <1>3 DEF Opened
<1>6. WatchKept'
  <2>1. early' = early /\ meterTorn \subseteq meterTorn'
    BY <1>1
  <2>2. ASSUME r.st = "awaiting", NEW p \in early PROVE IF p \in meterSeen' THEN p \in meterTorn' ELSE Waits(p)'
    <3>1. CASE p \in disk.seen
      BY <1>1, <1>2, <2>2, <3>1
    <3>2. CASE p \notin disk.seen
      <4>1. meterChain[p] \in Int /\ meterChain'[p] = meterChain[p]
        BY <1>1 DEF MeterInv
      <4>2. meterChain[p] < Confirm => r.win > Confirm - meterChain[p] + Stale
        BY <2>2 DEF MeterInv, WatchKept
      <4> QED BY <1>1, <1>2, <1>5, <3>2, <4>1, <4>2 DEF Waits, MeterConstants
    <3> QED BY <3>1, <3>2
  <2> QED BY <1>1, <1>2, <1>5, <2>1, <2>2 DEF MeterInv, WatchKept
<1> QED BY <1>1, <1>4, <1>5, <1>6 DEF MeterInv, MeterConstants

LEMMA MeterStep == ASSUME MeterConstants, MeterInv, [Meter!Next]_(Meter!vars) PROVE MeterInv'
<1>1. CASE \E p \in Pays : Meter!Pay(p)
  BY <1>1, PayKeeps
<1>2. CASE \E p \in Pays : Meter!HandleUsdc(p) \/ \E ok \in BOOLEAN : Meter!HandleEth(p, ok)
  BY <1>2, HandleKeeps
<1>3. CASE \E ok \in BOOLEAN : Meter!LaunchEnds(ok)
  BY <1>3, LaunchKeeps
<1>4. CASE \E ok \in BOOLEAN : Meter!Tick(ok)
  BY <1>4, TickKeeps
<1>5. CASE Meter!Expire
  BY <1>5, ExpireKeeps
<1>6. CASE Meter!PollEnds
  BY <1>6, PollEndsKeeps
<1>7. CASE Meter!Save
  BY <1>7, SaveKeeps
<1>8. CASE Meter!Crash
  BY <1>8, CrashedKeeps
<1>9. CASE Meter!Dies \/ Meter!Respawn \/ UNCHANGED Meter!vars
  <2>1. UNCHANGED <<meterRec, meterChain, early, meterSeen, meterQueue, busy, meterSilent, served, disk, meterTorn, unpriced>>
    BY <1>9 DEF Meter!Dies, Meter!Respawn, Meter!vars
  <2> QED BY <2>1 DEF MeterInv, PaidUp, WatchKept, Waits
<1> QED BY <1>1, <1>2, <1>3, <1>4, <1>5, <1>6, <1>7, <1>8, <1>9, Zenon DEF Meter!Next

LEMMA MeterStart == ASSUME MeterConstants, Meter!Init PROVE MeterInv
<1>1. /\ meterRec = Meter!Reserved /\ disk = [rec |-> Meter!Reserved, seen |-> {}, served |-> 0] /\ served = 0
      /\ meterChain = [p \in Pays |-> -1] /\ early = {} /\ meterSeen = {} /\ meterQueue = {} /\ busy = 0 /\ meterSilent = 0
  BY DEF Meter!Init
<1>2. PaidUp(Meter!Reserved, {}, 0)
  BY FS_EmptySet DEF PaidUp, Meter!Reserved, Reservation, MeterConstants, Meter!Terminal
<1>3. WatchKept
  BY <1>1 DEF WatchKept, Meter!Reserved, MeterConstants
<1> QED BY <1>1, <1>2, <1>3 DEF MeterInv, MeterConstants

\* What a record was paid is what it has left and has used, to the poll; no more is
\* used than the instance was up; and a reservation paid early enough, in USDC or in
\* ETH, never expires unpaid, but for the two payments the code loses: the one a crash
\* found marked as seen and not credited, and the one in ETH that had no price until
\* the window ended (onPaid, onPaidEth, startBillingTicker, armPayTimer, loadState),
\* for any payments, window, confirmations and staleness.
THEOREM PaidTimeIsServed == ASSUME MeterConstants PROVE Meter!Spec => []Meter!PaidTimeServed
<1>1. Meter!Init => MeterInv
  BY MeterStart
<1>2. MeterInv /\ [Meter!Next]_(Meter!vars) => MeterInv'
  BY MeterStep
<1>3. MeterInv => Meter!PaidTimeServed
  <2> SUFFICES ASSUME MeterInv PROVE Meter!PaidTimeServed
    OBVIOUS
  <2>1. meterRec.slice = (meterRec.st \notin Meter!Terminal)
    BY DEF MeterInv, PaidUp
  <2>2. meterRec.left + meterRec.used = Cardinality(meterRec.got) /\ meterRec.used <= served
        /\ (meterRec.st = "expired" /\ meterRec.got = {} => early \subseteq meterTorn \union unpriced)
    BY DEF MeterInv, PaidUp, WatchKept
  <2> QED BY <2>1, <2>2, MeterCounts, Zenon DEF Meter!PaidTimeServed
<1> QED BY <1>1, <1>2, <1>3, PTL DEF Meter!Spec

-----------------------------------------------------------------------------
(* Proofs of time                                                            *)

Proofs == INSTANCE ProofKeeper WITH now <- proofsNow, rec <- proofsRec,
    faults <- proofsFaults, Ids <- ProofsIds, Window <- ProofsWindow,
    MaxTime <- MaxProofsTime, MaxFaults <- MaxProofsFaults

ProverConstants == ProofsWindow \in Nat /\ Quantum \in Int /\ MaxProofsTime \in Int

Lease == [held : BOOLEAN, until : Int, proven : Int, gap : Int]
Run == [st : {"over", "running"}, provenAt : Int, until : Int]
Teardown == [at : {"no", "prove", "sent", "release"}, since : Int, until : Int, upto : Int, release : BOOLEAN]

\* What was accepted at this instant fits a window, and nothing was if time has passed since.
ProverInv ==
    /\ proofsNow \in Int
    /\ lease \in [ProofsIds -> Lease] /\ proofsRec \in [ProofsIds -> Run] /\ ending \in [ProofsIds -> Teardown]
    /\ round.rest \subseteq ProofsIds /\ \A x \in round.cps : x[1] \in ProofsIds /\ x[2] \in Int
    /\ burst \in [ProofsIds -> Int]
    /\ \A id \in ProofsIds : burst[id] <= ProofsWindow /\ (lease[id].gap # 0 => burst[id] <= 0)

\* What one proof gains.
LEMMA Gain ==
    ASSUME ProverConstants, ProverInv, NEW id \in ProofsIds, NEW upto \in Int
    PROVE  /\ Proofs!Checkpointed(id, upto) \in Lease
           /\ Proofs!Checkpointed(id, upto).gap = 0
           /\ burst[id] + Proofs!Checkpointed(id, upto).proven - lease[id].proven <= ProofsWindow
           /\ Proofs!Checkpointed(id, upto).proven - lease[id].proven \in Int
<1>1. /\ lease[id] \in Lease /\ lease[id].gap \in Int /\ lease[id].proven \in Int /\ lease[id].until \in Int /\ proofsNow \in Int
      /\ burst[id] \in Int /\ ProofsWindow \in Int
  BY DEF ProverInv, Lease, ProverConstants
<1>2. /\ Proofs!Budget(id) \in Int /\ Proofs!Budget(id) <= ProofsWindow /\ Proofs!Budget(id) <= lease[id].gap
  BY <1>1 DEF Proofs!Budget, Proofs!Smaller
<1>3. Proofs!Through(id, upto) \in Int /\ Proofs!Through(id, upto) <= lease[id].proven + Proofs!Budget(id)
  BY <1>1, <1>2 DEF Proofs!Through, Proofs!Smaller
<1> DEFINE gain == Proofs!Through(id, upto) - lease[id].proven
           l == [lease[id] EXCEPT !.proven = lease[id].proven + gain]
<1>4. gain \in Int /\ gain <= ProofsWindow /\ gain <= lease[id].gap
  BY <1>1, <1>2, <1>3
<1>5. Proofs!Checkpointed(id, upto) = [l EXCEPT !.gap = 0]
  BY <1>1 DEF Proofs!Checkpointed
<1> HIDE DEF gain
<1>6. l \in Lease /\ l.proven = lease[id].proven + gain
  BY <1>1, <1>4 DEF Lease
<1> HIDE DEF l
<1>7. [l EXCEPT !.gap = 0] \in Lease /\ [l EXCEPT !.gap = 0].gap = 0 /\ [l EXCEPT !.gap = 0].proven = l.proven
  BY <1>6 DEF Lease
<1>8. burst[id] + gain <= ProofsWindow
  BY <1>1, <1>4 DEF ProverInv
<1> QED BY <1>1, <1>4, <1>5, <1>6, <1>7, <1>8

\* A lease that is claimed, renewed or released keeps the age of its last proof.
Leased(l, held, until, at) == [l EXCEPT !.held = held, !.until = until, !.proven = at]

LEMMA LeasedIs ==
    ASSUME NEW l \in Lease, NEW held \in BOOLEAN, NEW until \in Int, NEW at \in Int
    PROVE  Leased(l, held, until, at) \in Lease /\ Leased(l, held, until, at).gap = l.gap
<1> DEFINE u == [l EXCEPT !.held = held]
           v == [u EXCEPT !.until = until]
<1>1. u \in Lease /\ u.gap = l.gap
  BY DEF Lease
<1> HIDE DEF u
<1>2. v \in Lease /\ v.gap = l.gap
  BY <1>1 DEF Lease
<1> HIDE DEF v
<1>3. [v EXCEPT !.proven = at] \in Lease /\ [v EXCEPT !.proven = at].gap = l.gap
  BY <1>2 DEF Lease
<1> QED BY <1>3 DEF u, v, Leased

LEMMA RoundKeeps ==
    ASSUME ProverConstants, ProverInv,
           Proofs!ProofTick \/ Proofs!SignBatch \/ Proofs!BatchLands \/ Proofs!BatchLost
    PROVE  ProverInv'
<1>1. CASE Proofs!ProofTick
  <2>1. (\A x \in round'.cps : x \in round.cps) /\ round'.rest \subseteq ProofsIds
    BY <1>1 DEF Proofs!ProofTick, ProverInv
  <2> QED BY <1>1, <2>1 DEF Proofs!ProofTick, ProverInv
<1>2. CASE Proofs!SignBatch
  <2>1. PICK alive \in SUBSET round.rest :
            IF alive = {} THEN round' = [Proofs!NoRound EXCEPT !.age = round.age]
            ELSE \E batch \in Proofs!Stalest(alive, PerTx) :
                    round' = [round EXCEPT !.at = "sent", !.cps = {<<id, Proofs!Smaller(proofsNow, proofsRec[id].until)>> : id \in batch}]
    BY <1>2, Zenon DEF Proofs!SignBatch
  <2>2. CASE alive = {}
    BY <1>2, <2>1, <2>2 DEF Proofs!SignBatch, Proofs!NoRound, ProverInv
  <2>3. CASE alive # {}
    <3>1. PICK batch \in Proofs!Stalest(alive, PerTx) :
            round' = [round EXCEPT !.at = "sent", !.cps = {<<id, Proofs!Smaller(proofsNow, proofsRec[id].until)>> : id \in batch}]
      BY <2>1, <2>3, Zenon
    <3>2. batch \subseteq ProofsIds
      BY DEF Proofs!Stalest, ProverInv
    <3>3. \A id \in batch : Proofs!Smaller(proofsNow, proofsRec[id].until) \in Int
      BY <3>2 DEF Proofs!Smaller, ProverInv, Run
    <3>4. round'.rest = round.rest
      BY <3>1
    <3>5. \A x \in round'.cps : x[1] \in ProofsIds /\ x[2] \in Int
      BY <3>1, <3>2, <3>3
    <3> QED BY <1>2, <3>4, <3>5 DEF Proofs!SignBatch, ProverInv
  <2> QED BY <2>2, <2>3
<1>3. CASE Proofs!BatchLands
  <2> DEFINE good == {c \in round.cps : Proofs!Lands(c[1], c[2])}
             ids == {c[1] : c \in good}
             upto(id) == (CHOOSE c \in good : c[1] = id)[2]
  <2>1. /\ lease' = [id \in ProofsIds |-> IF id \in ids THEN Proofs!Checkpointed(id, upto(id)) ELSE lease[id]]
        /\ burst' = [id \in ProofsIds |-> burst[id] + lease'[id].proven - lease[id].proven]
        /\ proofsRec' = [id \in ProofsIds |-> IF id \in ids THEN [proofsRec[id] EXCEPT !.provenAt = proofsNow] ELSE proofsRec[id]]
        /\ round'.cps = {} /\ round'.rest \subseteq round.rest /\ UNCHANGED <<proofsNow, ending>>
    BY <1>3 DEF Proofs!BatchLands, Proofs!NoRound
  <2>2. \A id \in ids : upto(id) \in Int
    BY DEF ProverInv
  <2> HIDE DEF good, ids, upto
  <2>3. proofsRec' \in [ProofsIds -> Run]
    BY <2>1 DEF ProverInv, Run
  <2>4. ASSUME NEW id \in ProofsIds
        PROVE  lease'[id] \in Lease /\ burst'[id] \in Int /\ burst'[id] <= ProofsWindow /\ (lease'[id].gap # 0 => burst'[id] <= 0)
    <3>1. CASE id \in ids
      <4>1. lease'[id] = Proofs!Checkpointed(id, upto(id)) /\ burst'[id] = burst[id] + lease'[id].proven - lease[id].proven
        BY <2>1, <3>1
      <4> QED BY <2>2, <3>1, <4>1, Gain DEF ProverInv
    <3>2. CASE id \notin ids
      <4>1. lease'[id] = lease[id] /\ burst'[id] = burst[id] + lease[id].proven - lease[id].proven
        BY <2>1, <3>2
      <4> QED BY <4>1 DEF ProverInv, Lease
    <3> QED BY <3>1, <3>2
  <2> QED BY <2>1, <2>3, <2>4 DEF ProverInv
<1>4. CASE Proofs!BatchLost
  BY <1>4 DEF Proofs!BatchLost, Proofs!NoRound, ProverInv
<1> QED BY <1>1, <1>2, <1>3, <1>4

LEMMA LeaseKeeps ==
    ASSUME ProverConstants, ProverInv, NEW id \in ProofsIds,
           Proofs!Claim(id) \/ Proofs!Renew(id) \/ Proofs!ReleaseLands(id)
    PROVE  ProverInv'
<1>1. lease[id] \in Lease /\ proofsRec[id] \in Run /\ ending[id] \in Teardown /\ proofsNow \in Int /\ Quantum \in Int
  BY DEF ProverInv, ProverConstants
<1>2. PICK held \in BOOLEAN, until \in Int, at \in Int : lease' = [lease EXCEPT ![id] = Leased(lease[id], held, until, at)]
  <2>1. CASE Proofs!Claim(id)
    <3>1. lease' = [lease EXCEPT ![id] = Leased(lease[id], TRUE, proofsNow + Quantum, proofsNow)]
      BY <2>1, Zenon DEF Proofs!Claim, Leased
    <3>2. TRUE \in BOOLEAN /\ proofsNow + Quantum \in Int /\ proofsNow \in Int
      BY <1>1
    <3> QED BY <3>1, <3>2, Zenon
  <2>2. CASE Proofs!Renew(id)
    <3> DEFINE l == lease[id]
    <3>1. lease' = [lease EXCEPT ![id] = [l EXCEPT !.until = l.until + Quantum]]
      BY <2>2 DEF Proofs!Renew, ProverInv
    <3>2. [l EXCEPT !.until = l.until + Quantum] = Leased(l, l.held, l.until + Quantum, l.proven)
      BY <1>1 DEF Leased, Lease
    <3>3. l.held \in BOOLEAN /\ l.until + Quantum \in Int /\ l.proven \in Int
      BY <1>1 DEF Lease
    <3> QED BY <3>1, <3>2, <3>3
  <2>3. CASE Proofs!ReleaseLands(id)
    <3>1. lease' = [lease EXCEPT ![id] = Leased(lease[id], FALSE, 0, 0)]
      BY <2>3, Zenon DEF Proofs!ReleaseLands, Leased
    <3>2. FALSE \in BOOLEAN /\ 0 \in Int
      OBVIOUS
    <3> QED BY <3>1, <3>2, Zenon
  <2> QED BY <2>1, <2>2, <2>3
<1> DEFINE l == Leased(lease[id], held, until, at)
<1>5. l \in Lease /\ l.gap = lease[id].gap
  BY <1>1, LeasedIs
<1>3. proofsRec' \in [ProofsIds -> Run] /\ ending' \in [ProofsIds -> Teardown]
  <2>1. CASE Proofs!Claim(id)
    <3>1. PICK ok \in BOOLEAN :
              /\ proofsRec' = [proofsRec EXCEPT ![id] = IF ok THEN [st |-> "running", provenAt |-> 0, until |-> proofsNow + Quantum]
                                                        ELSE Proofs!NoRec]
              /\ ending' = [ending EXCEPT ![id] = IF ok THEN Proofs!NotEnding
                                            ELSE [Proofs!NotEnding EXCEPT !.at = "release", !.release = TRUE]]
      BY <2>1, Zenon DEF Proofs!Claim
    <3>2. [st |-> "running", provenAt |-> 0, until |-> proofsNow + Quantum] \in Run /\ Proofs!NoRec \in Run
      BY <1>1 DEF Run, Proofs!NoRec
    <3>3. proofsRec' \in [ProofsIds -> Run]
      BY <3>1, <3>2 DEF ProverInv
    <3>7. Proofs!NotEnding \in Teardown
      BY DEF Teardown, Proofs!NotEnding
    <3> DEFINE u == [Proofs!NotEnding EXCEPT !.at = "release"]
    <3>4. u \in Teardown /\ Proofs!NotEnding \in Teardown
      BY <3>7 DEF Teardown
    <3> HIDE DEF u
    <3>6. [u EXCEPT !.release = TRUE] \in Teardown
      BY <3>4 DEF Teardown
    <3>5. [Proofs!NotEnding EXCEPT !.at = "release", !.release = TRUE] \in Teardown /\ Proofs!NotEnding \in Teardown
      BY <3>4, <3>6 DEF u
    <3> QED BY <3>1, <3>3, <3>5 DEF ProverInv
  <2>2. CASE Proofs!Renew(id)
    BY <1>1, <2>2 DEF Proofs!Renew, ProverInv, Run, Lease
  <2>3. CASE Proofs!ReleaseLands(id)
    BY <1>1, <2>3 DEF Proofs!ReleaseLands, Proofs!NotEnding, ProverInv, Teardown
  <2> QED BY <2>1, <2>2, <2>3
<1>4. UNCHANGED <<proofsNow, round, burst>>
  BY DEF Proofs!Claim, Proofs!Renew, Proofs!ReleaseLands
<1> HIDE DEF l
<1>6. lease' = [lease EXCEPT ![id] = l]
  BY <1>2 DEF l
<1> QED BY <1>3, <1>4, <1>5, <1>6 DEF ProverInv

LEMMA TeardownKeeps ==
    ASSUME ProverConstants, ProverInv, NEW id \in ProofsIds, 
           (\E release \in BOOLEAN : Proofs!BeginEnding(id, release)) \/ Proofs!SignFinal(id) \/ Proofs!FinalLands(id) \/ Proofs!FinalLost(id)
    PROVE  ProverInv'
<1>1. proofsRec[id] \in Run /\ ending[id] \in Teardown /\ proofsNow \in Int /\ lease[id] \in Lease
  BY DEF ProverInv
<1>2. Proofs!AfterProof(id) \in Teardown
  <2>1. CASE ending[id].release
    <3>1. Proofs!AfterProof(id) = [at |-> "release", since |-> ending[id].since, until |-> 0, upto |-> 0, release |-> ending[id].release]
      BY <1>1, <2>1 DEF Proofs!AfterProof, Teardown
    <3> QED BY <1>1, <3>1 DEF Teardown
  <2>2. CASE ~ending[id].release
    BY <2>2 DEF Proofs!AfterProof, Proofs!NotEnding, Teardown
  <2> QED BY <2>1, <2>2
<1>3. CASE \E release \in BOOLEAN : Proofs!BeginEnding(id, release)
  BY <1>1, <1>3 DEF Proofs!BeginEnding, Proofs!Ending, Proofs!NoRec, ProverInv, Run, Teardown
<1>4. CASE Proofs!SignFinal(id)
  <2> DEFINE upto == Proofs!Smaller(proofsNow, ending[id].until)
             r == [ending[id] EXCEPT !.at = "sent"]
  <2>1. upto \in Int
    BY <1>1 DEF Proofs!Smaller, Teardown
  <2>2. ending' = [ending EXCEPT ![id] = [r EXCEPT !.upto = upto]]
    BY <1>4 DEF Proofs!SignFinal, ProverInv
  <2> HIDE DEF upto
  <2>3. r \in Teardown
    BY <1>1 DEF Teardown
  <2> HIDE DEF r
  <2>4. [r EXCEPT !.upto = upto] \in Teardown
    BY <2>1, <2>3 DEF Teardown
  <2>5. ending' \in [ProofsIds -> Teardown]
    BY <2>2, <2>4 DEF ProverInv
  <2> QED BY <1>4, <2>5 DEF ProverInv, Proofs!SignFinal
<1>5. CASE Proofs!FinalLands(id)
  <2>1. ending[id].upto \in Int /\ UNCHANGED <<proofsNow, proofsRec, round>> /\ ending' \in [ProofsIds -> Teardown]
    BY <1>1, <1>2, <1>5 DEF Proofs!FinalLands, Teardown, ProverInv
  <2>2. PICK l \in Lease : /\ lease' = [lease EXCEPT ![id] = l]
                           /\ l = Proofs!Checkpointed(id, ending[id].upto) \/ l = lease[id]
    BY <1>1, <1>5, <2>1, Gain DEF Proofs!FinalLands
  <2>3. burst' = [burst EXCEPT ![id] = burst[id] + l.proven - lease[id].proven]
    BY <1>5, <2>2 DEF Proofs!FinalLands, ProverInv
  <2>4. burst[id] + l.proven - lease[id].proven \in Int /\ burst[id] + l.proven - lease[id].proven <= ProofsWindow
        /\ (l.gap # 0 => burst[id] + l.proven - lease[id].proven <= 0)
    <3>1. CASE l = lease[id]
      BY <1>1, <3>1 DEF ProverInv, Lease
    <3>2. CASE l = Proofs!Checkpointed(id, ending[id].upto)
      BY <2>1, <3>2, Gain DEF ProverInv
    <3> QED BY <2>2, <3>1, <3>2
  <2> QED BY <2>1, <2>2, <2>3, <2>4 DEF ProverInv
<1>6. CASE Proofs!FinalLost(id)
  BY <1>2, <1>6 DEF Proofs!FinalLost, ProverInv
<1> QED BY <1>3, <1>4, <1>5, <1>6

LEMMA ProverStep == ASSUME ProverConstants, ProverInv, [Proofs!Next]_(Proofs!vars) PROVE ProverInv'
<1>1. CASE Proofs!Tick
  <2>1. /\ proofsNow' = proofsNow + 1 /\ burst' = [id \in ProofsIds |-> 0] /\ UNCHANGED <<proofsRec, ending>> /\ round'.cps = round.cps /\ round'.rest = round.rest
        /\ lease' = [id \in ProofsIds |-> [lease[id] EXCEPT !.gap = Proofs!Smaller(lease[id].gap + 1, Proofs!LongAgo)]]
    BY <1>1 DEF Proofs!Tick
  <2>2. \A id \in ProofsIds : Proofs!Smaller(lease[id].gap + 1, Proofs!LongAgo) \in Int /\ lease[id] \in Lease
    BY DEF Proofs!Smaller, Proofs!LongAgo, ProverInv, Lease, ProverConstants
  <2>3. lease' \in [ProofsIds -> Lease]
    BY <2>1, <2>2 DEF Lease
  <2> QED BY <2>1, <2>3 DEF ProverInv, ProverConstants
<1>2. CASE Proofs!Shutdown
  <2>1. /\ ending' = [id \in ProofsIds |-> IF proofsRec[id].st = "running" THEN Proofs!Ending(id, TRUE) ELSE ending[id]]
        /\ proofsRec' = [id \in ProofsIds |-> Proofs!NoRec] /\ UNCHANGED <<proofsNow, lease, round, burst>>
    BY <1>2 DEF Proofs!Shutdown
  <2>2. \A id \in ProofsIds : Proofs!Ending(id, TRUE) \in Teardown
    BY DEF Proofs!Ending, Teardown, ProverInv, Run
  <2>3. Proofs!NoRec \in Run
    BY DEF Proofs!NoRec, Run
  <2>4. ending' \in [ProofsIds -> Teardown] /\ proofsRec' \in [ProofsIds -> Run]
    BY <2>1, <2>2, <2>3 DEF ProverInv
  <2> QED BY <2>1, <2>4 DEF ProverInv
<1>3. CASE Proofs!Exit
  BY <1>3 DEF Proofs!Exit, Proofs!NotEnding, Proofs!NoRound, ProverInv, Teardown
<1>4. CASE UNCHANGED Proofs!vars
  BY <1>4 DEF ProverInv, Proofs!vars
<1> QED BY <1>1, <1>2, <1>3, <1>4, RoundKeeps, LeaseKeeps, TeardownKeeps DEF Proofs!Next

LEMMA ProverStart == ASSUME ProverConstants, Proofs!Init PROVE ProverInv
BY DEF Proofs!Init, Proofs!NoLease, Proofs!NoRec, Proofs!NotEnding, Proofs!NoRound,
    Proofs!LongAgo, ProverInv, Lease, Run,
       Teardown, ProverConstants

\* Whatever rounds, final proofs, re-takes and failures land in one instant, the
\* prover accepts at most one window of service for a deployment
\* (EnclaveProofOfTime.checkpoint's elapsed budget), for any window, quantum and batch.
THEOREM TimeIsIncompressible == ASSUME ProverConstants PROVE Proofs!Spec => []Proofs!Incompressible
<1>1. ProverInv => Proofs!Incompressible
  BY DEF ProverInv, Proofs!Incompressible
<1> QED BY <1>1, ProverStart, ProverStep, PTL DEF Proofs!Spec

-----------------------------------------------------------------------------
(* Proofs of time: what an orderly hand-back has settled                     *)

\* The contract requires a window of at least a minute.
HandBackConstants == ProverConstants /\ ProofsWindow > 0 /\ MaxProofsFaults \in Int

\* A running record knows its lease, a teardown the end it tore down, what it sent covers
\* what was served, and after an undisturbed final proof nothing served is unsettled.
KeptOk(id) ==
    /\ proofsRec[id].st = "running" => lease[id].held /\ proofsRec[id].until = lease[id].until /\ ending[id].at = "no"
    /\ 0 <= ending[id].since /\ ending[id].since <= proofsNow
    /\ ending[id].at \in {"prove", "sent"} => lease[id].held /\ ending[id].until = lease[id].until
    /\ ending[id].at = "sent" => ending[id].upto >= Proofs!Smaller(ending[id].since, ending[id].until)
    /\ ending[id].at = "release" /\ proofsFaults = MaxProofsFaults =>
          \/ lease[id].proven >= Proofs!Smaller(ending[id].since, lease[id].until)
          \/ proofsNow - lease[id].gap >= ending[id].since

KeptInv == proofsNow >= 0 /\ proofsFaults \in Int /\ proofsFaults <= MaxProofsFaults /\ \A id \in ProofsIds : KeptOk(id)

\* The fields of the three records are of their types.
LEMMA ProverTypes ==
    ASSUME ProverInv, NEW id \in ProofsIds
    PROVE  /\ proofsNow \in Int /\ lease[id] \in Lease /\ proofsRec[id] \in Run /\ ending[id] \in Teardown
           /\ lease[id].until \in Int /\ lease[id].proven \in Int /\ lease[id].gap \in Int
           /\ proofsRec[id].until \in Int /\ ending[id].since \in Int /\ ending[id].until \in Int
           /\ ending[id].upto \in Int
BY DEF ProverInv, Lease, Run, Teardown

\* A proof that is accepted leaves the lease's end alone, and no time since it.
LEMMA CheckpointIs ==
    ASSUME ProverConstants, ProverInv, NEW id \in ProofsIds, NEW upto \in Int
    PROVE  /\ Proofs!Checkpointed(id, upto).held = lease[id].held
           /\ Proofs!Checkpointed(id, upto).until = lease[id].until
           /\ Proofs!Checkpointed(id, upto).gap = 0
<1> DEFINE gain == Proofs!Through(id, upto) - lease[id].proven
           l == [lease[id] EXCEPT !.proven = lease[id].proven + gain]
<1>1. Proofs!Checkpointed(id, upto) = [l EXCEPT !.gap = 0]
  BY DEF Proofs!Checkpointed
<1> HIDE DEF gain
<1>2. /\ DOMAIN l = {"held", "until", "proven", "gap"}
      /\ l.held = lease[id].held /\ l.until = lease[id].until
  BY ProverTypes DEF Lease
<1> HIDE DEF l
<1> QED BY <1>1, <1>2

\* An undisturbed final proof that is not accepted had nothing left to settle.
LEMMA NothingLeft ==
    ASSUME HandBackConstants, ProverInv, KeptInv, NEW id \in ProofsIds, ending[id].at = "sent",
           ~Proofs!Lands(id, ending[id].upto)
    PROVE  \/ lease[id].proven >= Proofs!Smaller(ending[id].since, lease[id].until)
           \/ proofsNow - lease[id].gap >= ending[id].since
<1>1. /\ lease[id].held /\ ending[id].until = lease[id].until /\ ending[id].since <= proofsNow
      /\ ending[id].upto >= Proofs!Smaller(ending[id].since, ending[id].until)
  BY DEF KeptInv, KeptOk
<1>2. Proofs!Through(id, ending[id].upto) <= lease[id].proven
  <2>1. ~(Proofs!Through(id, ending[id].upto) > lease[id].proven)
    BY <1>1 DEF Proofs!Lands
  <2>2. Proofs!Through(id, ending[id].upto) \in Int
    BY ProverTypes DEF Proofs!Through, Proofs!Budget, Proofs!Smaller, HandBackConstants,
        ProverConstants
  <2> QED BY <2>1, <2>2, ProverTypes
<1>3. CASE lease[id].gap <= 0
  BY <1>1, <1>3, ProverTypes
<1>4. CASE lease[id].gap > 0
  <2>1. lease[id].proven + Proofs!Budget(id) > lease[id].proven
    BY <1>4, ProverTypes DEF Proofs!Budget, Proofs!Smaller, HandBackConstants, ProverConstants
  <2>2. Proofs!Budget(id) \in Int
    BY ProverTypes DEF Proofs!Budget, Proofs!Smaller, HandBackConstants, ProverConstants
  <2> QED BY <1>1, <1>2, <2>1, <2>2, ProverTypes DEF Proofs!Through, Proofs!Smaller
<1> QED BY <1>3, <1>4, ProverTypes

\* A step of one record, at one instant.
LEMMA OneKept ==
    ASSUME KeptInv, NEW id \in ProofsIds, proofsNow' = proofsNow, proofsFaults' \in Int, proofsFaults' <= proofsFaults, MaxProofsFaults \in Int,
           \A j \in ProofsIds \ {id} : lease'[j] = lease[j] /\ proofsRec'[j] = proofsRec[j] /\ ending'[j] = ending[j],
           KeptOk(id)'
    PROVE  KeptInv'
<1>1. proofsFaults' <= MaxProofsFaults /\ (proofsFaults' = MaxProofsFaults => proofsFaults = MaxProofsFaults)
  BY DEF KeptInv
<1>2. ASSUME NEW j \in ProofsIds \ {id} PROVE KeptOk(j)'
  BY <1>1, <1>2 DEF KeptInv, KeptOk
<1> QED BY <1>1, <1>2 DEF KeptInv

LEMMA RoundIsKept ==
    ASSUME HandBackConstants, ProverInv, KeptInv, Proofs!BatchLands
    PROVE  KeptInv'
<1> DEFINE good == {c \in round.cps : Proofs!Lands(c[1], c[2])}
           ids == {c[1] : c \in good}
           upto(id) == (CHOOSE c \in good : c[1] = id)[2]
<1>1. /\ lease' = [id \in ProofsIds |-> IF id \in ids THEN Proofs!Checkpointed(id, upto(id)) ELSE lease[id]]
      /\ proofsRec' = [id \in ProofsIds |-> IF id \in ids THEN [proofsRec[id] EXCEPT !.provenAt = proofsNow] ELSE proofsRec[id]]
      /\ UNCHANGED <<proofsNow, ending, proofsFaults>>
  BY DEF Proofs!BatchLands
<1>2. \A id \in ids : upto(id) \in Int
  BY DEF ProverInv
<1> HIDE DEF good, ids, upto
<1>3. ASSUME NEW id \in ProofsIds PROVE KeptOk(id)'
  <2>1. proofsRec'[id].st = proofsRec[id].st /\ proofsRec'[id].until = proofsRec[id].until
    BY <1>1, ProverTypes DEF Run
  <2>2. CASE id \in ids
    <3>1. lease'[id] = Proofs!Checkpointed(id, upto(id)) /\ upto(id) \in Int
      BY <1>1, <1>2, <2>2
    <3>2. lease'[id].held = lease[id].held /\ lease'[id].until = lease[id].until /\ lease'[id].gap = 0
      BY <3>1, CheckpointIs DEF HandBackConstants
    <3> QED BY <1>1, <2>1, <3>2, ProverTypes DEF KeptInv, KeptOk
  <2>3. CASE id \notin ids
    <3>1. lease'[id] = lease[id]
      BY <1>1, <2>3
    <3> QED BY <1>1, <2>1, <3>1 DEF KeptInv, KeptOk
  <2> QED BY <2>2, <2>3
<1> QED BY <1>1, <1>3 DEF KeptInv

LEMMA LeaseIsKept ==
    ASSUME HandBackConstants, ProverInv, KeptInv, NEW id \in ProofsIds,
           Proofs!Claim(id) \/ Proofs!Renew(id) \/ Proofs!ReleaseLands(id)
    PROVE  KeptInv'
<1> USE DEF HandBackConstants, ProverConstants
<1>1. CASE Proofs!Claim(id)
  <2>1. PICK ok \in BOOLEAN :
           /\ ok \/ proofsFaults > 0
           /\ proofsFaults' = IF ok THEN proofsFaults ELSE proofsFaults - 1
           /\ proofsRec' = [proofsRec EXCEPT ![id] = IF ok THEN [st |-> "running", provenAt |-> 0, until |-> proofsNow + Quantum]
                                                     ELSE Proofs!NoRec]
           /\ ending' = [ending EXCEPT ![id] = IF ok THEN Proofs!NotEnding
                            ELSE [Proofs!NotEnding EXCEPT !.at = "release", !.release = TRUE]]
    BY <1>1, Zenon DEF Proofs!Claim
  <2>2. lease' = [lease EXCEPT ![id] = Leased(lease[id], TRUE, proofsNow + Quantum, proofsNow)] /\ proofsNow' = proofsNow
    BY <1>1, Zenon DEF Proofs!Claim, Leased
  <2>3. proofsFaults' \in Int /\ proofsFaults' <= proofsFaults /\ (~ok => proofsFaults' < MaxProofsFaults)
    BY <2>1 DEF KeptInv
  <2>4. Leased(lease[id], TRUE, proofsNow + Quantum, proofsNow).held /\ Leased(lease[id], TRUE, proofsNow + Quantum, proofsNow).until = proofsNow + Quantum
    BY ProverTypes DEF Leased, Lease
  <2>5. lease'[id] = Leased(lease[id], TRUE, proofsNow + Quantum, proofsNow)
    BY <2>2 DEF ProverInv
  <2>6. CASE ok
    <3>1. proofsRec'[id] = [st |-> "running", provenAt |-> 0, until |-> proofsNow + Quantum] /\ ending'[id] = Proofs!NotEnding
      BY <2>1, <2>6 DEF ProverInv
    <3>3. /\ proofsRec'[id].until = proofsNow + Quantum /\ ending'[id].at = "no" /\ ending'[id].since = 0
          /\ lease'[id].held /\ lease'[id].until = proofsNow + Quantum
      <4>1. proofsRec'[id].until = proofsNow + Quantum /\ ending'[id].at = "no" /\ ending'[id].since = 0
        BY <3>1 DEF Proofs!NotEnding
      <4> QED BY <2>4, <2>5, <4>1, Zenon
    <3>4. proofsNow' = proofsNow /\ proofsNow >= 0
      BY <2>2 DEF KeptInv
    <3>2. KeptOk(id)'
      BY <3>3, <3>4, ProverTypes DEF KeptOk
    <3> QED BY <2>1, <2>2, <2>3, <3>2, OneKept DEF ProverInv
  <2>7. CASE ~ok
    <3>1. proofsRec'[id] = Proofs!NoRec /\ ending'[id] = [Proofs!NotEnding EXCEPT !.at = "release", !.release = TRUE]
      BY <2>1, <2>7 DEF ProverInv
    <3>2. ending'[id].at = "release" /\ ending'[id].since = 0 /\ proofsRec'[id].st = "over"
      BY <3>1 DEF Proofs!NotEnding, Proofs!NoRec
    <3>4. proofsNow' = proofsNow /\ proofsNow >= 0 /\ proofsFaults' # MaxProofsFaults
      BY <2>2, <2>3, <2>7 DEF KeptInv
    <3>3. KeptOk(id)'
      BY <3>2, <3>4, ProverTypes DEF KeptOk
    <3> QED BY <2>1, <2>2, <2>3, <3>3, OneKept DEF ProverInv
  <2> QED BY <2>6, <2>7
<1>2. CASE Proofs!Renew(id)
  <2> DEFINE l == lease[id]
             r == proofsRec[id]
  <2>1. /\ lease' = [lease EXCEPT ![id] = [l EXCEPT !.until = l.until + Quantum]]
        /\ proofsRec' = [proofsRec EXCEPT ![id] = [r EXCEPT !.until = l.until + Quantum]]
        /\ r.st = "running" /\ UNCHANGED <<proofsNow, ending, proofsFaults>>
    BY <1>2 DEF Proofs!Renew, ProverInv
  <2>2. /\ lease'[id].held = l.held /\ lease'[id].until = l.until + Quantum
        /\ proofsRec'[id].until = l.until + Quantum
    BY <2>1, ProverTypes DEF ProverInv, Lease, Run
  <2>3. KeptOk(id)'
    BY <2>1, <2>2 DEF KeptOk, KeptInv
  <2> QED BY <2>1, <2>3, OneKept DEF ProverInv, KeptInv
<1>3. CASE Proofs!ReleaseLands(id)
  <2>1. /\ \A j \in ProofsIds \ {id} : lease'[j] = lease[j] /\ ending'[j] = ending[j]
        /\ ending'[id] = Proofs!NotEnding /\ ending[id].at = "release" /\ UNCHANGED <<proofsNow, proofsRec, proofsFaults>>
    BY <1>3 DEF Proofs!ReleaseLands, ProverInv
  <2>2. KeptOk(id)'
    BY <2>1 DEF KeptOk, KeptInv, Proofs!NotEnding
  <2> QED BY <2>1, <2>2, OneKept DEF KeptInv
<1> QED BY <1>1, <1>2, <1>3

\* After its proof a teardown releases, or is over.
LEMMA AfterIs ==
    ASSUME ProverInv, NEW id \in ProofsIds
    PROVE  \/ /\ Proofs!AfterProof(id).at = "release"
              /\ Proofs!AfterProof(id).since = ending[id].since
           \/ Proofs!AfterProof(id).at = "no" /\ Proofs!AfterProof(id).since = 0
<1>1. CASE ending[id].release
  <2>1. Proofs!AfterProof(id) = [at |-> "release", since |-> ending[id].since, until |-> 0, upto |-> 0,
                                 release |-> ending[id].release]
    BY <1>1, ProverTypes DEF Proofs!AfterProof, Teardown
  <2> QED BY <2>1
<1>2. CASE ~ending[id].release
  BY <1>2 DEF Proofs!AfterProof, Proofs!NotEnding
<1> QED BY <1>1, <1>2

LEMMA TeardownIsKept ==
    ASSUME HandBackConstants, ProverInv, KeptInv, NEW id \in ProofsIds,
           \/ \E release \in BOOLEAN : Proofs!BeginEnding(id, release)
           \/ Proofs!SignFinal(id) \/ Proofs!FinalLands(id) \/ Proofs!FinalLost(id)
    PROVE  KeptInv'
<1> USE DEF HandBackConstants, ProverConstants
<1>1. CASE \E release \in BOOLEAN : Proofs!BeginEnding(id, release)
  <2>1. PICK release \in BOOLEAN : Proofs!BeginEnding(id, release)
    BY <1>1
  <2>2. /\ proofsRec' = [proofsRec EXCEPT ![id] = Proofs!NoRec] /\ proofsRec[id].st = "running"
        /\ ending' = [ending EXCEPT ![id] = Proofs!Ending(id, release)] /\ UNCHANGED <<proofsNow, lease, proofsFaults>>
    BY <2>1 DEF Proofs!BeginEnding
  <2>3. KeptOk(id)'
    BY <2>2, ProverTypes DEF KeptOk, KeptInv, ProverInv, Proofs!Ending, Proofs!NoRec
  <2> QED BY <2>2, <2>3, OneKept DEF ProverInv, KeptInv
<1>2. CASE Proofs!SignFinal(id)
  <2> DEFINE upto == Proofs!Smaller(proofsNow, ending[id].until)
             r == [ending[id] EXCEPT !.at = "sent"]
  <2>1. /\ ending' = [ending EXCEPT ![id] = [r EXCEPT !.upto = upto]] /\ ending[id].at = "prove"
        /\ UNCHANGED <<proofsNow, lease, proofsRec, proofsFaults>>
    BY <1>2 DEF Proofs!SignFinal, ProverInv
  <2>2. upto \in Int /\ upto >= Proofs!Smaller(ending[id].since, ending[id].until)
    BY ProverTypes DEF Proofs!Smaller, KeptInv, KeptOk
  <2> HIDE DEF upto
  <2>3. r \in Teardown /\ r.at = "sent" /\ r.since = ending[id].since /\ r.until = ending[id].until
    BY ProverTypes DEF Teardown
  <2> HIDE DEF r
  <2>4. ending'[id] = [r EXCEPT !.upto = upto]
    BY <2>1 DEF ProverInv
  <2>5. ending'[id].upto = upto /\ ending'[id].at = "sent" /\ ending'[id].since = ending[id].since
        /\ ending'[id].until = ending[id].until
    BY <2>3, <2>4 DEF Teardown
  <2>6. KeptOk(id)'
    BY <2>1, <2>2, <2>5 DEF KeptOk, KeptInv
  <2> QED BY <2>1, <2>6, OneKept DEF ProverInv, KeptInv
<1>3. CASE Proofs!FinalLands(id)
  <2>1. /\ ending[id].at = "sent" /\ ending' = [ending EXCEPT ![id] = Proofs!AfterProof(id)]
        /\ UNCHANGED <<proofsNow, proofsRec, proofsFaults>>
        /\ \A j \in ProofsIds \ {id} : lease'[j] = lease[j]
        /\ ending'[id] = Proofs!AfterProof(id)
    BY <1>3 DEF Proofs!FinalLands, ProverInv
  <2>2. CASE Proofs!Lands(id, ending[id].upto)
    <3>1. lease'[id] = Proofs!Checkpointed(id, ending[id].upto)
      BY <1>3, <2>2 DEF Proofs!FinalLands, ProverInv
    <3>2. lease'[id].gap = 0
      BY <3>1, CheckpointIs, ProverTypes
    <3>3. KeptOk(id)'
      BY <2>1, <3>2, AfterIs, ProverTypes DEF KeptOk, KeptInv
    <3> QED BY <2>1, <3>3, OneKept DEF ProverInv, KeptInv
  <2>3. CASE ~Proofs!Lands(id, ending[id].upto)
    <3>1. lease'[id] = lease[id]
      BY <1>3, <2>3 DEF Proofs!FinalLands, ProverInv
    <3>2. \/ lease[id].proven >= Proofs!Smaller(ending[id].since, lease[id].until)
          \/ proofsNow - lease[id].gap >= ending[id].since
      BY <2>1, <2>3, NothingLeft
    <3>3. KeptOk(id)'
      BY <2>1, <3>1, <3>2, AfterIs, ProverTypes DEF KeptOk, KeptInv
    <3> QED BY <2>1, <3>3, OneKept DEF ProverInv, KeptInv
  <2> QED BY <2>2, <2>3
<1>4. CASE Proofs!FinalLost(id)
  <2>1. /\ ending[id].at = "sent" /\ ending' = [ending EXCEPT ![id] = Proofs!AfterProof(id)]
        /\ UNCHANGED <<proofsNow, proofsRec, lease>> /\ proofsFaults' = proofsFaults - 1
        /\ ending'[id] = Proofs!AfterProof(id)
    BY <1>4 DEF Proofs!FinalLost, Proofs!Fault, ProverInv
  <2>2. proofsFaults' \in Int /\ proofsFaults' <= proofsFaults /\ proofsFaults' # MaxProofsFaults
    BY <2>1 DEF KeptInv
  <2>3. KeptOk(id)'
    BY <2>1, <2>2, AfterIs, ProverTypes DEF KeptOk, KeptInv
  <2> QED BY <2>1, <2>2, <2>3, OneKept DEF ProverInv
<1> QED BY <1>1, <1>2, <1>3, <1>4

LEMMA KeptStep ==
    ASSUME HandBackConstants, ProverInv, KeptInv, [Proofs!Next]_(Proofs!vars)
    PROVE  KeptInv'
<1> USE DEF HandBackConstants, ProverConstants
<1>1. CASE Proofs!Tick
  <2>1. /\ proofsNow' = proofsNow + 1 /\ UNCHANGED <<proofsRec, ending, proofsFaults>>
        /\ lease' = [id \in ProofsIds |-> [lease[id] EXCEPT !.gap = Proofs!Smaller(lease[id].gap + 1, Proofs!LongAgo)]]
    BY <1>1 DEF Proofs!Tick
  <2>2. ASSUME NEW id \in ProofsIds PROVE KeptOk(id)'
    <3>1. PICK gap \in Int : gap = Proofs!Smaller(lease[id].gap + 1, Proofs!LongAgo) /\ gap <= lease[id].gap + 1
      BY ProverTypes DEF Proofs!Smaller, Proofs!LongAgo
    <3>2. lease'[id] = [lease[id] EXCEPT !.gap = gap]
      BY <2>1, <3>1
    <3>3. /\ lease'[id].held = lease[id].held /\ lease'[id].until = lease[id].until
          /\ lease'[id].proven = lease[id].proven /\ lease'[id].gap = gap
      BY <3>2, ProverTypes DEF Lease
    <3> QED BY <2>1, <3>1, <3>3, ProverTypes DEF KeptInv, KeptOk
  <2> QED BY <2>1, <2>2 DEF KeptInv, ProverInv
<1>2. CASE Proofs!Shutdown
  <2>1. /\ ending' = [id \in ProofsIds |-> IF proofsRec[id].st = "running" THEN Proofs!Ending(id, TRUE) ELSE ending[id]]
        /\ proofsRec' = [id \in ProofsIds |-> Proofs!NoRec] /\ UNCHANGED <<proofsNow, lease, proofsFaults>>
    BY <1>2 DEF Proofs!Shutdown
  <2>2. ASSUME NEW id \in ProofsIds PROVE KeptOk(id)'
    <3>1. proofsRec'[id].st = "over"
      BY <2>1 DEF Proofs!NoRec
    <3>2. CASE proofsRec[id].st = "running"
      <4>1. ending'[id] = [at |-> "prove", since |-> proofsNow, until |-> proofsRec[id].until, upto |-> 0, release |-> TRUE]
        BY <2>1, <3>2 DEF Proofs!Ending
      <4>2. /\ ending'[id].at = "prove" /\ ending'[id].since = proofsNow /\ ending'[id].until = proofsRec[id].until
            /\ lease'[id] = lease[id] /\ proofsNow' = proofsNow
        <5>1. ending'[id].at = "prove" /\ ending'[id].since = proofsNow /\ ending'[id].until = proofsRec[id].until
          BY <4>1
        <5> QED BY <2>1, <5>1
      <4>3. lease[id].held /\ proofsRec[id].until = lease[id].until /\ proofsNow >= 0
        BY <3>2 DEF KeptInv, KeptOk
      <4> QED BY <3>1, <4>2, <4>3, ProverTypes DEF KeptOk
    <3>3. CASE proofsRec[id].st # "running"
      <4>1. ending'[id] = ending[id]
        BY <2>1, <3>3
      <4> QED BY <2>1, <3>1, <4>1 DEF KeptInv, KeptOk
    <3> QED BY <3>2, <3>3
  <2> QED BY <2>1, <2>2 DEF KeptInv
<1>3. CASE Proofs!Exit
  <2>1. ending' = [id \in ProofsIds |-> Proofs!NotEnding] /\ UNCHANGED <<proofsNow, lease, proofsRec>> /\ proofsFaults' = proofsFaults - 1
    BY <1>3 DEF Proofs!Exit, Proofs!Fault
  <2>2. \A id \in ProofsIds : ending'[id].at = "no" /\ ending'[id].since = 0
    BY <2>1 DEF Proofs!NotEnding
  <2> QED BY <2>1, <2>2 DEF KeptInv, KeptOk
<1>4. CASE Proofs!ProofTick \/ Proofs!SignBatch \/ Proofs!BatchLost
  <2>1. UNCHANGED <<proofsNow, lease, proofsRec, ending>> /\ (proofsFaults' = proofsFaults \/ proofsFaults' = proofsFaults - 1)
    BY <1>4 DEF Proofs!ProofTick, Proofs!SignBatch, Proofs!BatchLost, Proofs!Fault
  <2> QED BY <2>1 DEF KeptInv, KeptOk
<1>5. CASE UNCHANGED Proofs!vars
  BY <1>5 DEF KeptInv, KeptOk, Proofs!vars
<1> QED BY <1>1, <1>2, <1>3, <1>4, <1>5, RoundIsKept, LeaseIsKept, TeardownIsKept DEF Proofs!Next

LEMMA KeptStart == ASSUME HandBackConstants, Proofs!Init PROVE KeptInv
BY DEF Proofs!Init, Proofs!NoLease, Proofs!NoRec, Proofs!NotEnding, HandBackConstants, KeptInv,
    KeptOk

\* An orderly hand-back gives nothing away: when the release lands and nothing failed,
\* what was served until the teardown began is settled, or a proof was accepted since
\* (proveAndRelease, releaseClaimsOnShutdown), for any positive window, any number of
\* records and any mixture of rounds, renewals and shutdowns.
THEOREM HandBackIsPaid ==
    ASSUME HandBackConstants
    PROVE  Proofs!Spec => [][Proofs!PaysUp]_(Proofs!vars)
<1>1. KeptInv /\ [Proofs!Next]_(Proofs!vars) => [Proofs!PaysUp]_(Proofs!vars)
  BY DEF KeptInv, KeptOk, Proofs!PaysUp, Proofs!ReleaseLands
<1>2. ProverConstants
  BY DEF HandBackConstants
<1> QED BY <1>1, <1>2, KeptStart, KeptStep, ProverStart, ProverStep, PTL DEF Proofs!Spec

-----------------------------------------------------------------------------
(* The pool of a box                                                         *)

Tenants == INSTANCE TenantKeeper WITH rec <- tenantsRec, limits <- tenantsLimits,
    Ids <- TenantsIds, MaxFaults <- MaxTenantsFaults

LEMMA SlicesAddUp == ASSUME NEW f PROVE Tenants!SumFunction(f) = SumFunction(f)
BY Zenon DEF Tenants!SumFunction, SumFunction, Tenants!SumFunctionOnSet, SumFunctionOnSet,
   Tenants!FoldFunctionOnSet, FoldFunctionOnSet, Tenants!MapThenFoldSet, MapThenFoldSet

Sold(r) ==
    /\ r = [st |-> r.st, slice |-> r.slice, vm |-> r.vm, ended |-> r.ended] /\ r.slice \in Nat
    /\ r.st \notin {"claimed", "running"} => r.slice = 0
Job(t) == t = [id |-> t.id, cur |-> t.cur, what |-> t.what, vm |-> t.vm, at |-> t.at] /\ t.id \in TenantsIds
Slices == [id \in TenantsIds |-> tenantsRec[id].slice]

\* What records hold, the neighbour holds and the pool offers fits into the capacity, and
\* only live records hold anything.
PoolInv ==
    /\ tenantsRec = [id \in TenantsIds |-> tenantsRec[id]] /\ \A id \in TenantsIds : Sold(tenantsRec[id])
    /\ want = [id \in TenantsIds |-> want[id]] /\ \A id \in TenantsIds : want[id] \in {1, 2}
    /\ free \in Nat /\ other \in {0, 1}
    /\ \A t \in tasks : Job(t)
    /\ free + other + SumFunction(Slices) <= Capacity

PoolConstants == IsFiniteSet(TenantsIds) /\ Capacity \in Nat

-----------------------------------------------------------------------------
(* The pool of a box: slices, jobs and records                               *)

LEMMA SlicesType == ASSUME PoolConstants, PoolInv PROVE Slices \in [TenantsIds -> Int] /\ SumFunction(Slices) \in Int
<1>1. Slices \in [TenantsIds -> Int]
  BY DEF PoolInv, Slices, Sold
<1> QED BY <1>1, TableInt DEF PoolConstants

LEMMA BackIs ==
    ASSUME PoolConstants, PoolInv, NEW n \in Nat PROVE Tenants!Back(n) \in Nat /\ Tenants!Back(n) <= free + n
BY DEF PoolConstants, PoolInv, Tenants!Back

\* One record changes, and what it takes more the pool offers less.
LEMMA RecordChanges ==
    ASSUME PoolConstants, PoolInv, NEW id \in TenantsIds, NEW r, Sold(r), tenantsRec' = [tenantsRec EXCEPT ![id] = r],
           free' \in Nat, free' + r.slice <= free + tenantsRec[id].slice, UNCHANGED <<want, other>>, \A t \in tasks' : Job(t)
    PROVE  PoolInv'
<1>1. Slices \in [TenantsIds -> Int] /\ SumFunction(Slices) \in Int /\ Slices[id] = tenantsRec[id].slice /\ r.slice \in Int
  BY SlicesType DEF Slices, Sold
<1>2. tenantsRec' = [x \in TenantsIds |-> tenantsRec'[x]] /\ \A x \in TenantsIds : tenantsRec'[x] = IF x = id THEN r ELSE tenantsRec[x]
  BY DEF PoolInv
<1>3. Slices' = [Slices EXCEPT ![id] = r.slice]
  BY <1>2 DEF Slices
<1>4. SumFunction(Slices') = SumFunction(Slices) + (r.slice - Slices[id])
  BY <1>1, <1>3, TableEntry DEF PoolConstants
<1>5. PICK s, u \in Int : s = SumFunction(Slices) /\ u = SumFunction(Slices')
  BY <1>1, <1>4
<1>6. tenantsRec[id].slice \in Int /\ free \in Int /\ other \in Int
  BY <1>1 DEF PoolInv, Sold
<1>7. free' + other' + u <= Capacity
  <2>1. free + other + s <= Capacity /\ u = s + (r.slice - tenantsRec[id].slice)
    BY <1>1, <1>4, <1>5 DEF PoolInv
  <2> QED BY <1>1, <1>5, <1>6, <2>1 DEF PoolConstants
<1>8. \A x \in TenantsIds : Sold(tenantsRec[x])'
  BY <1>2 DEF PoolInv, Sold
<1>9. \A t \in tasks' : Job(t)'
  BY DEF Job
<1> QED BY <1>2, <1>5, <1>7, <1>8, <1>9 DEF PoolInv

\* No record changes.
LEMMA RecordsStay ==
    ASSUME PoolConstants, PoolInv, tenantsRec' = tenantsRec, free' \in Nat, other' \in {0, 1}, free' + other' <= free + other,
           want' = [id \in TenantsIds |-> want'[id]], \A id \in TenantsIds : want'[id] \in {1, 2}, \A t \in tasks' : Job(t)
    PROVE  PoolInv'
<1>1. SumFunction(Slices) \in Int /\ Slices' = Slices
  BY SlicesType DEF Slices
<1>2. PICK s \in Int : s = SumFunction(Slices)
  BY <1>1
<1>3. free' + other' + s <= Capacity
  BY <1>2 DEF PoolInv, PoolConstants
<1>4. \A x \in TenantsIds : Sold(tenantsRec[x])'
  BY DEF PoolInv, Sold
<1>5. \A t \in tasks' : Job(t)'
  BY DEF Job
<1> QED BY <1>1, <1>2, <1>3, <1>4, <1>5 DEF PoolInv

LEMMA JobField ==
    ASSUME NEW t, Job(t), NEW x
    PROVE  Job([t EXCEPT !.cur = x]) /\ Job([t EXCEPT !.vm = x]) /\ Job([t EXCEPT !.at = x])
<1>1. Job([t EXCEPT !.cur = x])
  BY DEF Job
<1>2. Job([t EXCEPT !.vm = x])
  BY DEF Job
<1>3. Job([t EXCEPT !.at = x])
  BY DEF Job
<1> QED BY <1>1, <1>2, <1>3

LEMMA JobStarts ==
    ASSUME NEW id \in TenantsIds, NEW what, NEW vm, NEW x
    PROVE  /\ Job(Tenants!Task(id, what, vm)) /\ Job([Tenants!Task(id, what, vm) EXCEPT !.at = x])
           /\ Job([Tenants!Task(id, what, vm) EXCEPT !.cur = x])
<1>1. Job(Tenants!Task(id, what, vm))
  BY DEF Job, Tenants!Task
<1> QED BY <1>1, JobField

LEMMA JobMoves ==
    ASSUME NEW t, Job(t), NEW x, NEW y PROVE Job([t EXCEPT !.at = x, !.vm = y])
<1> DEFINE a == [t EXCEPT !.at = x]
<1>1. Job(a)
  BY JobField
<1> HIDE DEF a
<1>2. Job([a EXCEPT !.vm = y])
  BY <1>1, JobField
<1> QED BY <1>2 DEF a

LEMMA RecordField ==
    ASSUME NEW r, Sold(r), NEW x
    PROVE  /\ Sold([r EXCEPT !.vm = x]) /\ [r EXCEPT !.vm = x].slice = r.slice
           /\ x \in {"claimed", "running"} => Sold([r EXCEPT !.st = x]) /\ [r EXCEPT !.st = x].slice = r.slice
BY DEF Sold

LEMMA RecordEnds == ASSUME NEW r, Sold(r) PROVE Sold(Tenants!Over(r)) /\ Tenants!Over(r).slice = 0
<1>0. PICK yes : yes = TRUE
  OBVIOUS
<1> DEFINE a == [r EXCEPT !.slice = 0]
           b == [a EXCEPT !.st = "over"]
           c == [b EXCEPT !.vm = 0]
           d == [c EXCEPT !.ended = yes]
<1>1. a = [st |-> r.st, slice |-> 0, vm |-> r.vm, ended |-> r.ended]
  BY DEF Sold
<1>2. b = [st |-> "over", slice |-> 0, vm |-> r.vm, ended |-> r.ended]
  <2> HIDE DEF a
  <2> QED BY <1>1
<1>3. c = [st |-> "over", slice |-> 0, vm |-> 0, ended |-> r.ended]
  <2> HIDE DEF b
  <2> QED BY <1>2
<1>4. d = [st |-> "over", slice |-> 0, vm |-> 0, ended |-> yes]
  <2> HIDE DEF c
  <2> QED BY <1>3
<1>5. Tenants!Over(r) = d
  BY <1>0, Zenon DEF Tenants!Over, Tenants!Released
<1> QED BY <1>4, <1>5 DEF Sold

-----------------------------------------------------------------------------
(* The pool of a box: one step per action                                    *)

LEMMA TenantAdopted == ASSUME PoolConstants, PoolInv, NEW id \in TenantsIds, Tenants!Adopt(id) PROVE PoolInv'
<1>1. PICK room \in Nat : room = Tenants!Back(tenantsRec[id].slice) /\ room <= free + tenantsRec[id].slice
  BY BackIs DEF PoolInv, Sold
<1> DEFINE Cut(u) == [u EXCEPT !.cur = @ /\ u.id # id]
<1>2. ASSUME NEW u \in tasks PROVE Job(Cut(u))
  <2>1. PICK x \in BOOLEAN : x = (u.cur /\ u.id # id)
    OBVIOUS
  <2>2. Job(u) /\ Cut(u) = [u EXCEPT !.cur = x]
    BY <2>1, Zenon DEF PoolInv
  <2> QED BY <2>2, JobField, Zenon
<1>3. \A t \in tasks' : Job(t)
  <2>1. tasks' \subseteq {Cut(u) : u \in tasks} \union {Tenants!Task(id, "launch", 0)}
    BY Zenon DEF Tenants!Adopt
  <2>2. Job(Tenants!Task(id, "launch", 0))
    BY JobStarts, Zenon
  <2> HIDE DEF Cut
  <2> QED BY <1>2, <2>1, <2>2, Zenon
<1>4. want[id] \in {1, 2} /\ UNCHANGED <<want, other>> /\ tenantsRec[id].slice \in Nat /\ free \in Nat
  BY DEF Tenants!Adopt, PoolInv, Sold
<1>5. CASE room >= want[id]
  <2>0. PICK q : q = [Tenants!NoRec EXCEPT !.st = "claimed"]
    OBVIOUS
  <2>1. PICK r : r = [q EXCEPT !.slice = want[id]]
    OBVIOUS
  <2>5. r = [Tenants!NoRec EXCEPT !.st = "claimed", !.slice = want[id]]
    BY <2>0, <2>1, Zenon
  <2>2. tenantsRec' = [tenantsRec EXCEPT ![id] = r] /\ free' = room - want[id]
    BY <1>1, <1>5, <2>5 DEF Tenants!Adopt
  <2>6. PICK no : q = [st |-> "claimed", slice |-> 0, vm |-> 0, ended |-> no]
    <3>1. PICK no : no = FALSE
      OBVIOUS
    <3>2. PICK z : z = [st |-> "none", slice |-> 0, vm |-> 0, ended |-> no]
      OBVIOUS
    <3>3. q = [z EXCEPT !.st = "claimed"]
      BY <2>0, <3>1, <3>2, Zenon DEF Tenants!NoRec
    <3> QED BY <3>2, <3>3
  <2>3. Sold(r) /\ r.slice = want[id]
    BY <1>4, <2>1, <2>6 DEF Sold
  <2>4. free' \in Nat /\ free' + r.slice <= free + tenantsRec[id].slice
    BY <1>1, <1>4, <1>5, <2>2, <2>3
  <2> QED BY <1>3, <1>4, <2>2, <2>3, <2>4, RecordChanges
<1>6. CASE ~(room >= want[id])
  <2>1. PICK r : r = Tenants!NoRec
    OBVIOUS
  <2>2. tenantsRec' = [tenantsRec EXCEPT ![id] = r] /\ free' = room
    BY <1>1, <1>6, <2>1 DEF Tenants!Adopt
  <2>3. Sold(r) /\ r.slice = 0
    BY <2>1 DEF Sold, Tenants!NoRec
  <2>4. free' \in Nat /\ free' + r.slice <= free + tenantsRec[id].slice
    BY <1>1, <1>4, <2>2, <2>3
  <2> QED BY <1>3, <1>4, <2>2, <2>3, <2>4, RecordChanges
<1> QED BY <1>5, <1>6

\* A record ends, and its slice goes back.
LEMMA EndKeeps ==
    ASSUME PoolConstants, PoolInv, NEW id \in TenantsIds, tenantsRec' = [tenantsRec EXCEPT ![id] = Tenants!Over(@)],
           free' = Tenants!Back(tenantsRec[id].slice), UNCHANGED <<want, other>>, \A t \in tasks' : Job(t)
    PROVE  PoolInv'
<1>1. Sold(tenantsRec[id]) /\ tenantsRec[id].slice \in Nat /\ free \in Nat
  BY DEF PoolInv, Sold
<1>2. PICK r : r = Tenants!Over(tenantsRec[id])
  OBVIOUS
<1>3. Sold(r) /\ r.slice = 0
  BY <1>1, <1>2, RecordEnds
<1>4. free' \in Nat /\ free' + r.slice <= free + tenantsRec[id].slice
  BY <1>1, <1>3, BackIs
<1>5. tenantsRec' = [tenantsRec EXCEPT ![id] = r]
  BY <1>2
<1> QED BY <1>3, <1>4, <1>5, RecordChanges

\* A record changes its state or its instance and keeps its slice.
LEMMA StateKeeps ==
    ASSUME PoolConstants, PoolInv, NEW id \in TenantsIds, NEW r, Sold(r), r.slice = tenantsRec[id].slice, tenantsRec' = [tenantsRec EXCEPT ![id] = r],
           UNCHANGED <<free, want, other>>, \A t \in tasks' : Job(t)
    PROVE  PoolInv'
<1>1. tenantsRec[id].slice \in Nat /\ free \in Nat
  BY DEF PoolInv, Sold
<1>2. free' \in Nat /\ free' + r.slice <= free + tenantsRec[id].slice /\ UNCHANGED <<want, other>>
  BY <1>1
<1> QED BY <1>2, RecordChanges, Zenon

\* Neither records nor pool change.
LEMMA PoolStill ==
    ASSUME PoolConstants, PoolInv, UNCHANGED <<tenantsRec, free, want, other>>, \A t \in tasks' : Job(t) PROVE PoolInv'
<1>1. free' \in Nat /\ other' \in {0, 1} /\ free' + other' <= free + other
  BY DEF PoolInv
<1>2. want' = [id \in TenantsIds |-> want'[id]] /\ \A id \in TenantsIds : want'[id] \in {1, 2}
  BY DEF PoolInv
<1>3. tenantsRec' = tenantsRec
  OBVIOUS
<1> QED BY <1>1, <1>2, <1>3, RecordsStay, Zenon

LEMMA LaunchJobs ==
    ASSUME NEW id \in TenantsIds, NEW S, \A t \in S : Job(t) PROVE \A t \in Tenants!WithLaunch(id, S) : Job(t)
<1>1. Tenants!WithLaunch(id, S) \subseteq S \union {Tenants!Task(id, "launch", 0)}
  BY DEF Tenants!WithLaunch
<1> QED BY <1>1, JobStarts

LEMMA HandlersKeep ==
    ASSUME PoolConstants, PoolInv, NEW id \in TenantsIds, Tenants!Handlers(id) PROVE PoolInv'
<1>1. CASE Tenants!Adopt(id)
  BY <1>1, TenantAdopted
<1>2. CASE Tenants!Respawn(id)
  <2>1. PICK v : v = Tenants!Task(id, "respawn", 0) /\ Job(v)
    BY JobStarts, Zenon
  <2>2. tasks' = tasks \union {v} /\ UNCHANGED <<tenantsRec, free, want, other>>
    BY <1>2, <2>1 DEF Tenants!Respawn
  <2>3. \A t \in tasks' : Job(t)
    BY <2>1, <2>2 DEF PoolInv
  <2> QED BY <2>2, <2>3, PoolStill
<1>3. CASE Tenants!RelaunchDead(id)
  <2>1. PICK r : r = [tenantsRec[id] EXCEPT !.st = "claimed"]
    OBVIOUS
  <2>2. Sold(r) /\ r.slice = tenantsRec[id].slice
    BY <2>1, RecordField DEF PoolInv
  <2>3. tenantsRec' = [tenantsRec EXCEPT ![id] = r] /\ UNCHANGED <<free, want, other>> /\ tasks' = Tenants!WithLaunch(id, tasks)
    BY <1>3, <2>1 DEF Tenants!RelaunchDead
  <2>4. \A t \in tasks' : Job(t)
    BY <2>3, LaunchJobs DEF PoolInv
  <2> QED BY <2>2, <2>3, <2>4, StateKeeps
<1>4. CASE Tenants!GiveUpOnDead(id)
  BY <1>4, EndKeeps DEF Tenants!GiveUpOnDead, PoolInv
<1>5. ASSUME NEW what, Tenants!StopsWith(id, what) PROVE PoolInv'
  <2>1. PICK v : v = [Tenants!Task(id, what, tenantsRec[id].vm) EXCEPT !.at = "wait"] /\ Job(v)
    BY JobStarts, Zenon
  <2>2. tasks' = tasks \union {v} /\ UNCHANGED <<tenantsRec, free, want, other>>
    BY <1>5, <2>1 DEF Tenants!StopsWith
  <2>3. \A t \in tasks' : Job(t)
    BY <2>1, <2>2 DEF PoolInv
  <2> QED BY <2>2, <2>3, PoolStill
<1>6. CASE Tenants!Resize(id)
  <2>1. want' = [want EXCEPT ![id] = 3 - want[id]] /\ UNCHANGED <<tenantsRec, free, tasks, other>>
    BY <1>6 DEF Tenants!Resize
  <2>2. want' = [x \in TenantsIds |-> want'[x]] /\ \A x \in TenantsIds : want'[x] \in {1, 2}
    BY <2>1 DEF PoolInv
  <2>3. free' \in Nat /\ other' \in {0, 1} /\ free' + other' <= free + other /\ \A t \in tasks' : Job(t)
    BY <2>1 DEF PoolInv
  <2> QED BY <2>1, <2>2, <2>3, RecordsStay
<1> QED BY <1>1, <1>2, <1>3, <1>4, <1>5, <1>6 DEF Tenants!Handlers, Tenants!DeleteDeployment,
    Tenants!ReapLease,
        Tenants!SwitchVersion, Tenants!RestartTenant, Tenants!ApplyEnvelope

LEMMA ProvisionedKeeps ==
    ASSUME PoolConstants, PoolInv, NEW t \in tasks, NEW ok \in BOOLEAN, Tenants!Provisioned(t, ok) PROVE PoolInv'
<1>1. PICK id \in TenantsIds : id = t.id
  BY DEF PoolInv, Job
<1>2. (\A u \in tasks' : Job(u)) /\ UNCHANGED <<want, other>>
  BY DEF Tenants!Provisioned, Tenants!Mine, PoolInv
<1>3. CASE UNCHANGED <<tenantsRec, free>>
  BY <1>2, <1>3, PoolStill
<1>4. CASE tenantsRec' = [tenantsRec EXCEPT ![t.id].st = "running", ![t.id].vm = t.vm] /\ free' = free
  <2>1. PICK v : v = t.vm
    OBVIOUS
  <2>2. PICK q : q = [tenantsRec[id] EXCEPT !.st = "running"]
    OBVIOUS
  <2>3. PICK r : r = [q EXCEPT !.vm = v]
    OBVIOUS
  <2>4. Sold(q) /\ q.slice = tenantsRec[id].slice
    BY <2>2, RecordField DEF PoolInv
  <2>5. Sold(r) /\ r.slice = tenantsRec[id].slice
    BY <2>3, <2>4, RecordField
  <2>6. tenantsRec' = [tenantsRec EXCEPT ![id] = r]
    <3>1. PICK w : w = [tenantsRec EXCEPT ![id].st = "running"]
      OBVIOUS
    <3>2. w = [tenantsRec EXCEPT ![id] = q]
      BY <2>2, <3>1
    <3>3. tenantsRec' = [w EXCEPT ![id].vm = v]
      BY <1>1, <1>4, <2>1, <3>1
    <3>4. w[id] = q /\ tenantsRec' = [w EXCEPT ![id] = r]
      BY <2>3, <3>2, <3>3 DEF PoolInv
    <3> QED BY <3>2, <3>4 DEF PoolInv
  <2> QED BY <1>2, <1>4, <2>5, <2>6, StateKeeps
<1>5. CASE tenantsRec' = [tenantsRec EXCEPT ![t.id] = Tenants!Over(@)] /\ free' = Tenants!Back(tenantsRec[t.id].slice)
  BY <1>1, <1>2, <1>5, EndKeeps
<1> QED BY <1>3, <1>4, <1>5 DEF Tenants!Provisioned

LEMMA SpawnKeeps == ASSUME PoolConstants, PoolInv, NEW t \in tasks, Tenants!Spawn(t) PROVE PoolInv'
<1>1. \E v : tasks' = Tenants!Mine(t) \union {[t EXCEPT !.at = "wait", !.vm = v]}
  BY DEF Tenants!Spawn
<1>2. \A u \in tasks' : Job(u)
  <2>1. PICK v : tasks' = Tenants!Mine(t) \union {[t EXCEPT !.at = "wait", !.vm = v]}
    BY <1>1
  <2>2. Job(t)
    BY DEF PoolInv
  <2>3. PICK w : w = [t EXCEPT !.at = "wait", !.vm = v] /\ Job(w)
    BY <2>2, JobMoves, Zenon
  <2>4. tasks' = Tenants!Mine(t) \union {w}
    BY <2>1, <2>3
  <2> QED BY <2>3, <2>4 DEF PoolInv, Tenants!Mine
<1> QED BY <1>2, PoolStill DEF Tenants!Spawn

LEMMA RespawnedKeeps == ASSUME PoolConstants, PoolInv, NEW t \in tasks, Tenants!Respawned(t) PROVE PoolInv'
<1>1. PICK id \in TenantsIds : id = t.id
  BY DEF PoolInv, Job
<1>0. PICK v : v = t.vm
  OBVIOUS
<1>2. (\A u \in tasks' : Job(u)) /\ UNCHANGED <<free, want, other>>
  BY DEF Tenants!Respawned, Tenants!Mine, PoolInv
<1>3. CASE tenantsRec' = tenantsRec
  BY <1>2, <1>3, PoolStill
<1>4. CASE tenantsRec' = [tenantsRec EXCEPT ![id].vm = v]
  <2>1. PICK r : r = [tenantsRec[id] EXCEPT !.vm = v]
    OBVIOUS
  <2>2. Sold(r) /\ r.slice = tenantsRec[id].slice /\ tenantsRec' = [tenantsRec EXCEPT ![id] = r]
    BY <1>4, <2>1, RecordField DEF PoolInv
  <2> QED BY <1>2, <2>2, StateKeeps
<1> QED BY <1>0, <1>1, <1>3, <1>4 DEF Tenants!Respawned

LEMMA ChangeKeeps ==
    ASSUME PoolConstants, PoolInv, NEW t \in tasks, NEW ok \in BOOLEAN, Tenants!StopEnds(t, ok) \/ Tenants!ChangeEnds(t, ok)
    PROVE  PoolInv'
<1>1. PICK id \in TenantsIds : id = t.id
  BY DEF PoolInv, Job
<1>2. \A u \in Tenants!Mine(t) : Job(u)
  BY DEF Tenants!Mine, PoolInv
<1>3. CASE Tenants!StopEnds(t, ok)
  <2>1. tasks' = Tenants!Mine(t) /\ UNCHANGED <<want, other>>
    BY <1>3 DEF Tenants!StopEnds
  <2>2. CASE UNCHANGED <<tenantsRec, free>>
    BY <1>2, <2>1, <2>2, PoolStill
  <2>3. CASE tenantsRec' = [tenantsRec EXCEPT ![t.id] = Tenants!Over(@)] /\ free' = Tenants!Back(tenantsRec[t.id].slice)
    BY <1>1, <1>2, <2>1, <2>3, EndKeeps
  <2> QED BY <1>3, <2>2, <2>3 DEF Tenants!StopEnds
<1>4. CASE Tenants!ChangeEnds(t, ok)
  <2>1. UNCHANGED <<free, want, other>>
    BY <1>4 DEF Tenants!ChangeEnds
  <2>2. \A u \in tasks' : Job(u)
    <3>1. PICK v : v = [Tenants!Task(id, "launch", 0) EXCEPT !.cur = FALSE] /\ Job(v)
      BY JobStarts, Zenon
    <3>2. tasks' = Tenants!WithLaunch(id, Tenants!Mine(t)) \/ tasks' = Tenants!Mine(t) \union {v}
      BY <1>1, <1>4, <3>1 DEF Tenants!ChangeEnds
    <3> QED BY <1>2, <3>1, <3>2, LaunchJobs
  <2>3. CASE tenantsRec' = tenantsRec
    BY <2>1, <2>2, <2>3, PoolStill
  <2>4. CASE tenantsRec' = [tenantsRec EXCEPT ![t.id].st = "claimed"]
    <3>1. PICK r : r = [tenantsRec[id] EXCEPT !.st = "claimed"]
      OBVIOUS
    <3>2. Sold(r) /\ r.slice = tenantsRec[id].slice /\ tenantsRec' = [tenantsRec EXCEPT ![id] = r]
      BY <1>1, <2>4, <3>1, RecordField DEF PoolInv
    <3> QED BY <2>1, <2>2, <3>2, StateKeeps
  <2> QED BY <1>4, <2>3, <2>4 DEF Tenants!ChangeEnds
<1> QED BY <1>3, <1>4

LEMMA SwitchKeeps ==
    ASSUME PoolConstants, PoolInv, NEW t \in tasks, NEW ok \in BOOLEAN, Tenants!SwitchEnds(t, ok) PROVE PoolInv'
<1>1. PICK id \in TenantsIds, cur \in BOOLEAN : id = t.id /\ (cur <=> t.cur)
  BY DEF PoolInv, Job
<1>2. \A u \in Tenants!Mine(t) : Job(u)
  BY DEF Tenants!Mine, PoolInv
<1>3. PICK held \in Nat : held = IF cur THEN tenantsRec[id].slice ELSE 0
  BY DEF PoolInv, Sold
<1>4. PICK room \in Nat : room = Tenants!Back(held) /\ room <= free + held
  BY BackIs
<1>5. PICK size \in {1, 2} : size = want[id]
  BY DEF PoolInv
<1>6. UNCHANGED <<want, other>> /\ tenantsRec[id].slice \in Nat /\ free \in Nat /\ Sold(tenantsRec[id])
  BY DEF Tenants!SwitchEnds, PoolInv, Sold
<1>7. \/ tasks' = Tenants!Mine(t) /\ UNCHANGED <<tenantsRec, free>>
      \/ /\ tasks' = Tenants!Mine(t)
         /\ tenantsRec' = IF cur THEN [tenantsRec EXCEPT ![id] = Tenants!Over(@)] ELSE tenantsRec
         /\ free' = room
      \/ /\ room >= size
         /\ tasks' = IF cur THEN Tenants!WithLaunch(id, Tenants!Mine(t))
                     ELSE Tenants!Mine(t) \union {[Tenants!Task(id, "launch", 0) EXCEPT !.cur = FALSE]}
         /\ tenantsRec' = IF cur THEN [tenantsRec EXCEPT ![id] = [@ EXCEPT !.st = "claimed", !.slice = size]] ELSE tenantsRec
         /\ free' = room - size
  BY <1>1, <1>3, <1>4, <1>5 DEF Tenants!SwitchEnds
<1>8. \A u \in tasks' : Job(u)
  <2>1. PICK v : v = [Tenants!Task(id, "launch", 0) EXCEPT !.cur = FALSE] /\ Job(v)
    BY JobStarts, Zenon
  <2>2. \/ tasks' = Tenants!Mine(t) \/ tasks' = Tenants!WithLaunch(id, Tenants!Mine(t))
        \/ tasks' = Tenants!Mine(t) \union {v}
    BY <1>7, <2>1
  <2> QED BY <1>2, <2>1, <2>2, LaunchJobs
<1>9. CASE UNCHANGED <<tenantsRec, free>>
  BY <1>6, <1>8, <1>9, PoolStill
<1>10. CASE ~cur /\ tenantsRec' = tenantsRec /\ (free' = room \/ (room >= size /\ free' = room - size))
  <2>1. free' \in Nat /\ free' <= free
    BY <1>3, <1>4, <1>6, <1>10
  <2>2. free' + other' <= free + other /\ other' \in {0, 1}
    BY <1>6, <2>1 DEF PoolInv
  <2>3. want' = [x \in TenantsIds |-> want'[x]] /\ \A x \in TenantsIds : want'[x] \in {1, 2}
    BY <1>6 DEF PoolInv
  <2> QED BY <1>8, <1>10, <2>1, <2>2, <2>3, RecordsStay
<1>11. CASE cur /\ tenantsRec' = [tenantsRec EXCEPT ![id] = Tenants!Over(@)] /\ free' = room
  BY <1>3, <1>4, <1>6, <1>8, <1>11, EndKeeps
<1>12. CASE /\ cur /\ room >= size /\ free' = room - size
            /\ tenantsRec' = [tenantsRec EXCEPT ![id] = [@ EXCEPT !.st = "claimed", !.slice = size]]
  <2>1. PICK q : q = [tenantsRec[id] EXCEPT !.st = "claimed"]
    OBVIOUS
  <2>2. PICK r : r = [q EXCEPT !.slice = size]
    OBVIOUS
  <2>3. q = [st |-> "claimed", slice |-> q.slice, vm |-> q.vm, ended |-> q.ended]
    BY <1>6, <2>1 DEF Sold
  <2>4. r = [st |-> "claimed", slice |-> size, vm |-> r.vm, ended |-> r.ended]
    BY <2>2, <2>3
  <2>5. Sold(r) /\ r.slice = size
    BY <2>4 DEF Sold
  <2>6. tenantsRec' = [tenantsRec EXCEPT ![id] = r]
    BY <1>12, <2>1, <2>2, Zenon
  <2>7. free' \in Nat /\ free' + r.slice <= free + tenantsRec[id].slice
    BY <1>3, <1>4, <1>6, <1>12, <2>5
  <2> QED BY <1>6, <1>8, <2>5, <2>6, <2>7, RecordChanges
<1> QED BY <1>7, <1>9, <1>10, <1>11, <1>12

LEMMA NeighbourKeeps == ASSUME PoolConstants, PoolInv, Tenants!Neighbour PROVE PoolInv'
<1>1. Tenants!Back(1) \in Nat /\ Tenants!Back(1) <= free + 1 /\ free \in Nat
  BY BackIs DEF PoolInv
<1>2. free' \in Nat /\ other' \in {0, 1} /\ free' + other' <= free + other
  BY <1>1 DEF Tenants!Neighbour
<1>3. UNCHANGED <<tenantsRec, want, tasks>> /\ (\A t \in tasks' : Job(t))
  BY DEF Tenants!Neighbour, PoolInv
<1>4. want' = [x \in TenantsIds |-> want'[x]] /\ \A x \in TenantsIds : want'[x] \in {1, 2}
  BY <1>3 DEF PoolInv
<1> QED BY <1>2, <1>3, <1>4, RecordsStay

\* The pool is rebuilt from the records that stay live.
LEMMA PoolRebuilt ==
    ASSUME PoolConstants, PoolInv, NEW L \in SUBSET TenantsIds, tenantsRec' = [id \in TenantsIds |-> tenantsRec'[id]],
           \A id \in TenantsIds : Sold(tenantsRec'[id]) /\ tenantsRec'[id].slice = IF id \in L THEN tenantsRec[id].slice ELSE 0,
           free' = (LET n == Capacity - Tenants!Held(L) IN IF n < 0 THEN 0 ELSE n),
           UNCHANGED <<want, other>>, \A t \in tasks' : Job(t)
    PROVE  PoolInv'
<1> DEFINE f == [id \in TenantsIds |-> tenantsRec'[id].slice]
           g == [id \in L |-> tenantsRec[id].slice]
<1>1. IsFiniteSet(TenantsIds) /\ IsFiniteSet(L)
  BY FS_Subset DEF PoolConstants
<1>2. \A id \in TenantsIds : f[id] \in Int /\ Slices[id] \in Int /\ f[id] <= Slices[id]
  BY DEF Slices, PoolInv, Sold
<1>3. Sum(f, TenantsIds) <= Sum(Slices, TenantsIds)
  <2> HIDE DEF f
  <2> QED BY <1>1, <1>2, SumLess
<1>4. Sum(f, TenantsIds) = Sum(f, L)
  <2>1. \A id \in TenantsIds \ L : f[id] = 0
    OBVIOUS
  <2> HIDE DEF f
  <2> QED BY <1>1, <1>2, <2>1, SumDropsZeros
<1>5. Sum(f, L) = Sum(g, L)
  <2>1. \A id \in L : f[id] = g[id]
    OBVIOUS
  <2> HIDE DEF f, g
  <2> QED BY <1>1, <2>1, SumSame
<1>6. SumFunction(Slices) = Sum(Slices, TenantsIds) /\ SumFunction(f) = Sum(f, TenantsIds) /\ SumFunction(g) = Sum(g, L)
  BY DEF SumFunction, Sum, Slices
<1>7. Slices' = f
  BY DEF Slices
<1>8. Tenants!Held(L) = other + SumFunction(g)
  BY SlicesAddUp, Zenon DEF Tenants!Held, Tenants!HeldBy
<1>9. f \in [TenantsIds -> Int]
  BY <1>2
<1> HIDE DEF f, g
<1>10. SumFunction(f) \in Int /\ SumFunction(Slices) \in Int
  BY <1>1, <1>9, TableInt, SlicesType
<1>11. PICK s, u \in Int : s = SumFunction(Slices) /\ u = SumFunction(f)
  BY <1>10
<1>12. u <= s /\ Tenants!Held(L) = other + u
  BY <1>3, <1>4, <1>5, <1>6, <1>8, <1>11
<1>13. free' \in Nat /\ free' + other' + u <= Capacity
  <2>1. free + other + s <= Capacity /\ free \in Nat /\ other \in {0, 1} /\ other' = other /\ Capacity \in Nat
    BY <1>11 DEF PoolInv, PoolConstants
  <2>2. free' = IF Capacity - (other + u) < 0 THEN 0 ELSE Capacity - (other + u)
    BY <1>12
  <2> QED BY <1>11, <1>12, <2>1, <2>2
<1>14. (\A id \in TenantsIds : Sold(tenantsRec[id])') /\ (\A t \in tasks' : Job(t)')
  BY DEF Sold, Job
<1> QED BY <1>7, <1>11, <1>13, <1>14 DEF PoolInv

LEMMA ReconcileKeeps == ASSUME PoolConstants, PoolInv, Tenants!ReconcilePools PROVE PoolInv'
<1>1. PICK L \in SUBSET TenantsIds : L = {id \in TenantsIds : Tenants!Live(id)}
  OBVIOUS
<1>2. UNCHANGED <<want, other, tasks>> /\ (\A t \in tasks' : Job(t))
  BY DEF Tenants!ReconcilePools, PoolInv
<1>3. free' = (LET n == Capacity - Tenants!Held(L) IN IF n < 0 THEN 0 ELSE n)
  BY <1>1 DEF Tenants!ReconcilePools
<1>4. ASSUME NEW id \in TenantsIds PROVE Sold(tenantsRec'[id]) /\ tenantsRec'[id].slice = IF id \in L THEN tenantsRec[id].slice ELSE 0
  <2>1. tenantsRec'[id] = IF id \in L THEN tenantsRec[id] ELSE [tenantsRec[id] EXCEPT !.slice = 0]
    BY <1>1 DEF Tenants!ReconcilePools, Tenants!Released
  <2> QED BY <2>1 DEF PoolInv, Sold
<1>5. tenantsRec' = [id \in TenantsIds |-> tenantsRec'[id]]
  BY DEF Tenants!ReconcilePools
<1> QED BY <1>2, <1>3, <1>4, <1>5, PoolRebuilt

LEMMA RebootKeeps == ASSUME PoolConstants, PoolInv, Tenants!Reboot PROVE PoolInv'
<1>1. PICK L \in SUBSET TenantsIds : L = {id \in TenantsIds : tenantsRec[id].st = "running"}
  OBVIOUS
<1>2. UNCHANGED <<want, other>> /\ (\A t \in tasks' : Job(t))
  BY DEF Tenants!Reboot
<1>3. free' = (LET n == Capacity - Tenants!Held(L) IN IF n < 0 THEN 0 ELSE n)
  BY <1>1 DEF Tenants!Reboot
<1>4. ASSUME NEW id \in TenantsIds PROVE Sold(tenantsRec'[id]) /\ tenantsRec'[id].slice = IF id \in L THEN tenantsRec[id].slice ELSE 0
  <2>1. PICK r : r = tenantsRec[id]
    OBVIOUS
  <2>2. tenantsRec'[id] = IF r.st = "claimed" THEN Tenants!Over(r) ELSE r
    BY <2>1 DEF Tenants!Reboot
  <2>3. Sold(r) /\ Sold(Tenants!Over(r)) /\ Tenants!Over(r).slice = 0
    BY <2>1, RecordEnds DEF PoolInv
  <2>4. id \in L <=> r.st = "running"
    BY <1>1, <2>1
  <2> QED BY <2>1, <2>2, <2>3, <2>4 DEF Sold
<1>5. tenantsRec' = [id \in TenantsIds |-> tenantsRec'[id]]
  BY DEF Tenants!Reboot
<1> QED BY <1>2, <1>3, <1>4, <1>5, PoolRebuilt

LEMMA PoolStep == ASSUME PoolConstants, PoolInv, [Tenants!Next]_(Tenants!vars) PROVE PoolInv'
<1>1. ASSUME UNCHANGED <<tenantsRec, free, want, tasks, other>> PROVE PoolInv'
  BY <1>1, PoolStill DEF PoolInv
<1>2. CASE \/ Tenants!Vouch \/ Tenants!ListInstances \/ Tenants!PlanOrphans \/ Tenants!ReapOrphan
           \/ Tenants!LeaseCheck \/ Tenants!LeaseTeardown \/ Tenants!Tick \/ Tenants!Dies \/ UNCHANGED Tenants!vars
  BY <1>1, <1>2 DEF Tenants!Vouch, Tenants!ListInstances, Tenants!PlanOrphans,
      Tenants!ReapOrphan, Tenants!LeaseCheck, Tenants!LeaseTeardown, Tenants!Tick,
      Tenants!Dies, Tenants!vars
<1>3. ASSUME NEW t \in tasks, Tenants!Answers(t) PROVE PoolInv'
  BY <1>3, SpawnKeeps, RespawnedKeeps, ProvisionedKeeps, ChangeKeeps, SwitchKeeps
      DEF Tenants!Answers
<1> QED BY <1>2, <1>3, HandlersKeep, NeighbourKeeps, ReconcileKeeps, RebootKeeps DEF Tenants!Next

LEMMA PoolStart == ASSUME PoolConstants, Tenants!Init PROVE PoolInv
<1>1. tenantsRec = [id \in TenantsIds |-> Tenants!NoRec] /\ want = [id \in TenantsIds |-> 1] /\ tasks = {} /\ free = Capacity /\ other = 0
  BY DEF Tenants!Init
<1>2. Tenants!NoRec.slice = 0 /\ Sold(Tenants!NoRec)
  BY DEF Tenants!NoRec, Sold
<1>3. Slices = [id \in TenantsIds |-> 0]
  BY <1>1, <1>2 DEF Slices
<1>4. SumFunction(Slices) = 0
  BY <1>3, SumOfZeros DEF PoolConstants
<1> QED BY <1>1, <1>2, <1>4 DEF PoolInv, PoolConstants

\* A box never sells a unit of its pool twice: what records hold and what is still
\* offered fit into the capacity, for any number of deployments, any capacity and
\* however teardowns, launches, resizes, restarts and rebuilds of the pool interleave
\* (allocCpu, releaseGpu, switchTenantVersion, reconcilePools).
THEOREM PoolIsNotOversold == ASSUME PoolConstants PROVE Tenants!Spec => []Tenants!NeverOversold
<1>1. ASSUME PoolInv PROVE Tenants!NeverOversold
  <2>1. Tenants!Held(TenantsIds) = other + SumFunction(Slices)
    BY SlicesAddUp, Zenon DEF Tenants!Held, Tenants!HeldBy, Slices
  <2>2. PICK s \in Int : s = SumFunction(Slices)
    BY <1>1, SlicesType
  <2> QED BY <1>1, <2>1, <2>2 DEF Tenants!NeverOversold, PoolInv, PoolConstants
<1> QED BY <1>1, PoolStart, PoolStep, PTL DEF Tenants!Spec

-----------------------------------------------------------------------------
(* The cards of a box                                                        *)

Pools == INSTANCE Cards WITH Ids <- PoolsIds

LEMMA SharesAddUp == ASSUME NEW f PROVE Pools!SumFunction(f) = SumFunction(f)
BY Zenon DEF Pools!SumFunction, SumFunction, Pools!SumFunctionOnSet, SumFunctionOnSet,
   Pools!FoldFunctionOnSet, FoldFunctionOnSet, Pools!MapThenFoldSet, MapThenFoldSet

CardsConstants ==
    /\ IsFiniteSet(CardIds) /\ CardIds # {} /\ CardIds \subseteq Int /\ IsFiniteSet(PoolsIds)
    /\ Whole \in Nat \ {0} /\ Context \in Nat /\ Sizes \subseteq Nat \ {0}

Slice == [shares : Nat, cores : Nat, on : [CardIds -> Nat]]
Memory(s, c) == [i \in PoolsIds |-> s[i].on[c]]
Shares(s, c) == [i \in PoolsIds |-> IF s[i].on[c] > 0 THEN s[i].shares ELSE 0]
Cores(s) == [i \in PoolsIds |-> s[i].cores]
InWhole(x) == \E m \in Int : x = m * Whole

CardsTyped ==
    /\ mode \in {"local", "shielded", "pool"}
    /\ total \in [CardIds -> Int] /\ \A c \in CardIds : \E n \in Nat \ {0} : total[c] = n * Whole
    /\ vram \in [CardIds -> Nat] /\ compute \in [CardIds -> Int] /\ cores \in Int
    /\ slice \in [PoolsIds -> Slice] /\ routed \in [PoolsIds -> SUBSET CardIds]
    /\ clamped \in SUBSET CardIds

\* What a pool takes of a card is exact; before it is one, whole granules are taken.
WholeGranules ==
    mode # "pool" => \A c \in CardIds : InWhole(vram[c]) /\ \A i \in PoolsIds : InWhole(slice[i].on[c])
MemoryKept == \A c \in CardIds \ clamped : vram[c] = total[c] - SumFunction(Memory(slice, c))
ComputeKept == \A c \in CardIds : compute[c] = Whole - SumFunction(Shares(slice, c))
CoresKept == cores = Whole - SumFunction(Cores(slice))
RoutesKept == \A i \in PoolsIds : routed[i] # {} => routed[i] = {c \in CardIds : slice[i].on[c] > 0}

CardsInv == CardsTyped /\ WholeGranules /\ MemoryKept /\ ComputeKept /\ CoresKept /\ RoutesKept

-----------------------------------------------------------------------------
(* The cards of a box: arithmetic of shares                                  *)

LEMMA ScaledBack == ASSUME NEW a \in Int, NEW b \in Nat \ {0} PROVE (a * b) \div b = a
OBVIOUS

LEMMA Associates == ASSUME NEW a \in Int, NEW b \in Int, NEW c \in Int PROVE a * (b * c) = (a * b) * c
OBVIOUS

LEMMA QuotientIs ==
    ASSUME NEW x \in Int, NEW b \in Nat \ {0}
    PROVE  x \div b \in Int /\ (x \div b) * b <= x /\ x < (x \div b) * b + b
OBVIOUS

LEMMA Cancels ==
    ASSUME NEW x \in Int, NEW y \in Int, NEW b \in Nat \ {0}, x * b <= y * b
    PROVE  x <= y
<1> SUFFICES ASSUME x >= y + 1 PROVE FALSE
  OBVIOUS
<1>1. (x - (y + 1)) * b >= 0
  OBVIOUS
<1> QED BY <1>1

LEMMA PosProduct == ASSUME NEW a \in Nat \ {0}, NEW b \in Nat \ {0} PROVE a * b \in Nat \ {0} /\ a * b >= a
OBVIOUS

LEMMA Rounded ==
    ASSUME CardsConstants, NEW x \in Int
    PROVE  /\ InWhole(Pools!Granules(x)) /\ Pools!Granules(x) \in Int /\ x <= Pools!Granules(x)
           /\ \A y \in Int : InWhole(y) /\ x <= y => Pools!Granules(x) <= y
<1>1. PICK q \in Int : q = (x + Whole - 1) \div Whole
  BY QuotientIs DEF CardsConstants
<1>2. Pools!Granules(x) = q * Whole
  BY <1>1 DEF Pools!Granules
<1>3. q * Whole <= x + Whole - 1 /\ x + Whole - 1 < q * Whole + Whole
  BY <1>1, QuotientIs DEF CardsConstants
<1>4. q * Whole \in Int
  BY DEF CardsConstants
<1>5. x <= q * Whole
  BY <1>3, <1>4 DEF CardsConstants
<1>6. ASSUME NEW m \in Int, x <= m * Whole PROVE q * Whole <= m * Whole
  <2>1. m * Whole \in Int /\ Whole \in Nat \ {0}
    BY DEF CardsConstants
  <2>2. q * Whole < m * Whole + Whole
    BY <2>1, <1>3, <1>4, <1>6
  <2>3. m * Whole + Whole = (m + 1) * Whole
    BY <2>1
  <2>4. q < m + 1
    <3> SUFFICES ASSUME m + 1 <= q PROVE FALSE
      OBVIOUS
    <3>1. (m + 1) * Whole <= q * Whole
      BY <2>1
    <3> QED BY <3>1, <2>1, <2>2, <2>3, <1>4
  <2>5. (m - q) * Whole >= 0
    BY <2>4, <2>1
  <2> QED BY <2>5, <2>1, <1>4
<1> QED BY <1>2, <1>4, <1>5, <1>6 DEF InWhole

LEMMA ZeroIsWhole == ASSUME CardsConstants PROVE InWhole(0)
<1>1. 0 = 0 * Whole
  BY DEF CardsConstants
<1> QED BY <1>1 DEF InWhole

LEMMA WholeSums ==
    ASSUME CardsConstants, NEW x \in Int, NEW y \in Int, InWhole(x), InWhole(y)
    PROVE  InWhole(x + y) /\ InWhole(x - y)
<1>1. PICK m \in Int : x = m * Whole
  BY DEF InWhole
<1>2. PICK k \in Int : y = k * Whole
  BY DEF InWhole
<1>3. x + y = (m + k) * Whole /\ x - y = (m - k) * Whole
  BY <1>1, <1>2 DEF CardsConstants
<1> QED BY <1>3 DEF InWhole

\* Least and greatest of what is compared.
LEMMA TheLesser ==
    ASSUME NEW x \in Int, NEW y \in Int
    PROVE  /\ Pools!Least({x, y}) \in {x, y} /\ Pools!Least({x, y}) <= x /\ Pools!Least({x, y}) <= y
<1>1. \E z \in {x, y} : \A w \in {x, y} : z <= w
  <2>1. CASE x <= y
    BY <2>1
  <2>2. CASE ~(x <= y)
    BY <2>2
  <2> QED BY <2>1, <2>2
<1>2. \A w \in {x, y} : Pools!Least({x, y}) <= w
  BY <1>1 DEF Pools!Least
<1> QED BY <1>1, <1>2 DEF Pools!Least

LEMMA LeastOfMany ==
    ASSUME NEW S, IsFiniteSet(S), S # {}, NEW f \in [S -> Int]
    PROVE  \A c \in S : Pools!Least({f[d] : d \in S}) \in Int /\ Pools!Least({f[d] : d \in S}) <= f[c]
<1> DEFINE V == {f[d] : d \in S}
<1>1. PICK d \in S : \A c \in S : f[d] <= f[c]
  BY LeastEntry
<1>2. \E z \in V : \A w \in V : z <= w
  BY <1>1
<1>3. PICK z : z = Pools!Least(V)
  OBVIOUS
<1>4. z \in V /\ \A w \in V : z <= w
  BY <1>2, <1>3 DEF Pools!Least
<1> QED BY <1>3, <1>4

LEMMA MostOfMany ==
    ASSUME NEW S, IsFiniteSet(S), S # {}, NEW f \in [S -> Int]
    PROVE  \E c \in S : Pools!Most({f[d] : d \in S}) = f[c]
<1> DEFINE V == {f[d] : d \in S}
           g == [d \in S |-> 0 - f[d]]
<1>1. PICK d \in S : \A c \in S : g[d] <= g[c]
  <2>1. \A x \in S : g[x] \in Int
    OBVIOUS
  <2> HIDE DEF g
  <2> QED BY <2>1, LeastEntry
<1>2. \E z \in V : \A w \in V : w <= z
  <2>1. \A c \in S : f[c] <= f[d]
    BY <1>1
  <2> QED BY <2>1
<1>3. PICK z : z = Pools!Most(V)
  OBVIOUS
<1>4. z \in V
  BY <1>2, <1>3 DEF Pools!Most
<1> QED BY <1>3, <1>4

-----------------------------------------------------------------------------
(* The cards of a box: sums spare slices                                      *)

LEMMA TableTypes ==
    ASSUME NEW s \in [PoolsIds -> Slice], NEW c \in CardIds
    PROVE  Memory(s, c) \in [PoolsIds -> Int] /\ Shares(s, c) \in [PoolsIds -> Int] /\ Cores(s) \in [PoolsIds -> Int]
BY DEF Memory, Shares, Cores, Slice

LEMMA SumsAre ==
    ASSUME CardsConstants, NEW s \in [PoolsIds -> Slice], NEW c \in CardIds
    PROVE  /\ SumFunction(Memory(s, c)) \in Int /\ SumFunction(Shares(s, c)) \in Int
           /\ SumFunction(Cores(s)) \in Int
BY TableTypes, TableInt DEF CardsConstants

\* Natural entries add up to no less than one of them.
LEMMA SumCovers ==
    ASSUME IsFiniteSet(PoolsIds), NEW f \in [PoolsIds -> Nat], NEW i \in PoolsIds
    PROVE  SumFunction(f) \in Nat /\ f[i] <= SumFunction(f)
<1> DEFINE g == [f EXCEPT ![i] = 0]
<1>1. f \in [PoolsIds -> Int] /\ 0 \in Int
  OBVIOUS
<1>2. SumFunction(g) = SumFunction(f) + (0 - f[i]) /\ SumFunction(f) \in Int
  BY <1>1, TableEntry, TableInt
<1>3. \A h \in [PoolsIds -> Nat] : SumFunction(h) >= 0
  <2> TAKE h \in [PoolsIds -> Nat]
  <2> DEFINE z == [j \in PoolsIds |-> 0]
  <2>1. SumFunction(z) = 0
    BY SumOfZeros
  <2>2. \A x \in PoolsIds : z[x] \in Int /\ h[x] \in Int /\ z[x] <= h[x]
    OBVIOUS
  <2>3. DOMAIN z = PoolsIds /\ DOMAIN h = PoolsIds
    OBVIOUS
  <2> HIDE DEF z
  <2>4. Sum(z, PoolsIds) <= Sum(h, PoolsIds) /\ Sum(z, PoolsIds) \in Int /\ Sum(h, PoolsIds) \in Int
    BY <2>2, SumLess, SumInt
  <2>5. SumFunction(z) = Sum(z, PoolsIds) /\ SumFunction(h) = Sum(h, PoolsIds)
    BY <2>3, Zenon DEF SumFunction, Sum
  <2> QED BY <2>1, <2>4, <2>5
<1>4. g \in [PoolsIds -> Nat]
  OBVIOUS
<1> HIDE DEF g
<1>5. SumFunction(g) >= 0 /\ SumFunction(f) >= 0
  BY <1>3, <1>4
<1> QED BY <1>2, <1>5

LEMMA NoneHeld ==
    ASSUME CardsConstants, NEW c \in CardIds, NEW s, s = [i \in PoolsIds |-> Pools!None]
    PROVE  /\ SumFunction(Memory(s, c)) = 0 /\ SumFunction(Shares(s, c)) = 0
           /\ SumFunction(Cores(s)) = 0
<1>1. Memory(s, c) = [x \in PoolsIds |-> 0] /\ Shares(s, c) = [x \in PoolsIds |-> 0] /\ Cores(s) = [x \in PoolsIds |-> 0]
  BY DEF Memory, Shares, Cores, Pools!None
<1> QED BY <1>1, SumOfZeros DEF CardsConstants

With(s, i, v) == [s EXCEPT ![i] = v]

\* One slice changes, and the sums by what it changes.
LEMMA SlicesChange ==
    ASSUME CardsConstants, NEW s \in [PoolsIds -> Slice], NEW i \in PoolsIds, NEW v \in Slice,
           NEW t, t = With(s, i, v), NEW c \in CardIds
    PROVE  /\ SumFunction(Memory(t, c)) = SumFunction(Memory(s, c)) + (v.on[c] - s[i].on[c])
           /\ SumFunction(Shares(t, c)) = SumFunction(Shares(s, c)) +
                 ((IF v.on[c] > 0 THEN v.shares ELSE 0) - (IF s[i].on[c] > 0 THEN s[i].shares ELSE 0))
           /\ SumFunction(Cores(t)) = SumFunction(Cores(s)) + (v.cores - s[i].cores)
<1> DEFINE w == IF v.on[c] > 0 THEN v.shares ELSE 0
<1>1. v.on[c] \in Int /\ v.cores \in Int /\ w \in Int
  BY DEF Slice
<1>2. Memory(t, c) = [Memory(s, c) EXCEPT ![i] = v.on[c]]
  BY DEF Memory, With
<1>3. Shares(t, c) = [Shares(s, c) EXCEPT ![i] = w]
  BY DEF Shares, With
<1>4. Cores(t) = [Cores(s) EXCEPT ![i] = v.cores]
  BY DEF Cores, With
<1>5. /\ Memory(s, c)[i] = s[i].on[c] /\ Cores(s)[i] = s[i].cores
      /\ Shares(s, c)[i] = IF s[i].on[c] > 0 THEN s[i].shares ELSE 0
  BY DEF Memory, Shares, Cores
<1> HIDE DEF w
<1>6. /\ Memory(s, c) \in [PoolsIds -> Int] /\ Shares(s, c) \in [PoolsIds -> Int] /\ Cores(s) \in [PoolsIds -> Int]
      /\ IsFiniteSet(PoolsIds)
  BY TableTypes DEF CardsConstants
<1>7. \A f \in [PoolsIds -> Int] : \A x \in Int : SumFunction([f EXCEPT ![i] = x]) = SumFunction(f) + (x - f[i])
  BY <1>6, TableEntry
<1>8. SumFunction(Memory(t, c)) = SumFunction(Memory(s, c)) + (v.on[c] - Memory(s, c)[i])
  BY <1>1, <1>2, <1>6, <1>7
<1>9. SumFunction(Cores(t)) = SumFunction(Cores(s)) + (v.cores - Cores(s)[i])
  BY <1>1, <1>4, <1>6, <1>7
<1>10. SumFunction(Shares(t, c)) = SumFunction(Shares(s, c)) + (w - Shares(s, c)[i])
  BY <1>1, <1>3, <1>6, <1>7
<1> QED BY <1>5, <1>8, <1>9, <1>10 DEF w

\* Whole granules add up to whole granules.
LEMMA WholeTaken ==
    ASSUME CardsConstants, NEW s \in [PoolsIds -> Slice], NEW c \in CardIds, \A i \in PoolsIds : InWhole(s[i].on[c])
    PROVE  InWhole(SumFunction(Memory(s, c)))
<1> DEFINE f == Memory(s, c)
<1>1. \A x \in PoolsIds : \E m \in Int : f[x] = m * Whole
  BY DEF InWhole, Memory
<1>2. DOMAIN f = PoolsIds
  BY DEF Memory
<1> HIDE DEF f
<1>3. \E m \in Int : Sum(f, PoolsIds) = m * Whole
  <2>1. Whole \in Int /\ IsFiniteSet(PoolsIds)
    BY DEF CardsConstants
  <2> QED BY <1>1, <2>1, SumOfMultiples
<1>4. SumFunction(f) = Sum(f, PoolsIds)
  BY <1>2, Zenon DEF SumFunction, Sum
<1> QED BY <1>3, <1>4 DEF InWhole, f

-----------------------------------------------------------------------------
(* The cards of a box: what a share needs, and where it fits                 *)

LEMMA NeedIs ==
    ASSUME CardsConstants, CardsTyped, NEW c \in CardIds, NEW n \in Nat \ {0}, total[c] = n * Whole,
           NEW s \in Nat \ {0}
    PROVE  /\ Pools!Needed(s, c) \in Nat \ {0} /\ s * n \in Nat \ {0}
           /\ mode = "pool" => Pools!Needed(s, c) = s * n
           /\ mode # "pool" => /\ InWhole(Pools!Needed(s, c))
                               /\ Pools!Needed(s, c) = Pools!Granules(s * n) + Pools!Overhead
                               /\ Pools!Overhead \in Nat /\ InWhole(Pools!Overhead)
<1> DEFINE part == (s * total[c]) \div Whole
<1>1. s * n \in Nat \ {0}
  BY PosProduct
<1>2. part = s * n
  <2>1. s * total[c] = (s * n) * Whole
    BY Associates DEF CardsConstants
  <2> QED BY <1>1, <2>1, ScaledBack DEF CardsConstants
<1>3. Pools!Overhead \in Nat /\ InWhole(Pools!Overhead)
  <2>1. Context * Whole \in Nat /\ InWhole(Context * Whole)
    BY DEF CardsConstants, InWhole
  <2>2. InWhole(0)
    BY ZeroIsWhole
  <2> QED BY <2>1, <2>2 DEF Pools!Overhead
<1>4. Pools!Needed(s, c) = IF mode = "pool" THEN part ELSE Pools!Granules(part) + Pools!Overhead
  BY Zenon DEF Pools!Needed
<1> HIDE DEF part
<1>5. /\ InWhole(Pools!Granules(s * n)) /\ Pools!Granules(s * n) \in Int
      /\ s * n <= Pools!Granules(s * n)
  BY <1>1, Rounded
<1>6. InWhole(Pools!Granules(s * n) + Pools!Overhead)
  BY <1>3, <1>5, WholeSums
<1> QED BY <1>1, <1>2, <1>3, <1>4, <1>5, <1>6

\* What fits takes no more than the card has.
LEMMA FitIs ==
    ASSUME CardsConstants, CardsTyped, NEW c \in CardIds, NEW s \in Nat \ {0}
    PROVE  /\ Pools!Needed(s, c) \in Nat \ {0} /\ Pools!FreeOn(c) \in Nat
           /\ mode # "pool" => InWhole(Pools!Needed(s, c))
           /\ Pools!Fits(s, c) => Pools!Needed(s, c) <= vram[c]
<1>1. PICK n \in Nat \ {0} : total[c] = n * Whole
  BY DEF CardsTyped
<1>2. Pools!Needed(s, c) \in Nat \ {0} /\ (mode # "pool" => InWhole(Pools!Needed(s, c)))
  BY <1>1, NeedIs
<1>3. vram[c] \in Nat /\ (Pools!FreeOn(c) = 0 \/ Pools!FreeOn(c) = vram[c])
  BY DEF CardsTyped, Pools!FreeOn
<1>4. Pools!Fits(s, c) => Pools!FreeOn(c) >= Pools!Needed(s, c)
  BY DEF Pools!Fits
<1> QED BY <1>2, <1>3, <1>4

\* The tightest card that fits is one that fits.
LEMMA PlacedWhereItFits ==
    ASSUME CardsConstants, CardsTyped, NEW s \in Nat \ {0}
    PROVE  /\ Pools!Placement(s) \subseteq CardIds /\ \A c \in Pools!Placement(s) : Pools!Fits(s, c)
           /\ mode # "pool" /\ (\E c \in CardIds : Pools!Fits(s, c)) => Pools!Placement(s) # {}
           /\ mode = "pool" /\ (\A c \in CardIds : Pools!Fits(s, c)) => Pools!Placement(s) = CardIds
<1>1. CASE mode = "pool"
  <2>1. Pools!Placement(s) = IF \A c \in CardIds : Pools!Fits(s, c) THEN CardIds ELSE {}
    BY <1>1 DEF Pools!Placement
  <2> QED BY <1>1, <2>1, Zenon
<1>2. CASE mode # "pool"
  <2> DEFINE fit == {c \in CardIds : Pools!Fits(s, c)}
             spare(c) == Pools!FreeOn(c) - Pools!Needed(s, c)
             first(c) == \A d \in fit : \/ spare(c) < spare(d)
                                        \/ spare(c) = spare(d) /\ c <= d
             f == [c \in fit |-> spare(c)]
  <2>1. Pools!Placement(s) = IF fit = {} THEN {} ELSE {CHOOSE c \in fit : first(c)}
    BY <1>2 DEF Pools!Placement
  <2>2. CASE fit = {}
    BY <1>2, <2>1, <2>2
  <2>3. CASE fit # {}
    <3>1. \A c \in fit : spare(c) \in Int
      BY FitIs
    <3> HIDE DEF spare
    <3>2. IsFiniteSet(fit) /\ fit \subseteq Int
      BY FS_Subset DEF CardsConstants
    <3>3. PICK d \in fit : \A c \in fit : f[d] <= f[c]
      <4>1. \A x \in fit : f[x] \in Int
        BY <3>1
      <4> HIDE DEF f, fit
      <4> QED BY <4>1, <3>2, <2>3, LeastEntry
    <3> DEFINE tie == {c \in fit : spare(c) = spare(d)}
               g == [c \in tie |-> c]
    <3>4. PICK e \in tie : \A c \in tie : g[e] <= g[c]
      <4>1. \A x \in tie : g[x] \in Int
        BY <3>2
      <4>2. IsFiniteSet(tie) /\ tie # {}
        BY <3>2, FS_Subset
      <4> HIDE DEF g, tie, fit
      <4> QED BY <4>1, <4>2, LeastEntry
    <3>5. first(e)
      <4> SUFFICES ASSUME NEW c \in fit PROVE spare(e) < spare(c) \/ (spare(e) = spare(c) /\ e <= c)
        OBVIOUS
      <4>1. spare(e) = spare(d) /\ spare(d) <= spare(c) /\ spare(c) \in Int /\ spare(d) \in Int
        BY <3>1, <3>3, <3>4
      <4>2. spare(c) = spare(d) => e <= c
        BY <3>4
      <4> HIDE DEF fit, tie, g, f
      <4> QED BY <4>1, <4>2
    <3>6. e \in fit
      BY <3>4
    <3> HIDE DEF first
    <3>7. (CHOOSE c \in fit : first(c)) \in fit
      <4> HIDE DEF fit
      <4> QED BY <3>5, <3>6
    <3>8. PICK z : z = CHOOSE c \in fit : first(c)
      OBVIOUS
    <3>9. Pools!Placement(s) = {z} /\ z \in fit
      BY <2>1, <2>3, <3>7, <3>8, Zenon
    <3> QED BY <1>2, <3>9
  <2> QED BY <2>2, <2>3
<1> QED BY <1>1, <1>2

\* A share a card is said to have left fits on it.
LEMMA ShareFits ==
    ASSUME CardsConstants, CardsTyped, WholeGranules, NEW c \in CardIds
    PROVE  /\ Pools!ShareOn(c) \in Int
           /\ \A s \in Nat \ {0} : s <= Pools!ShareOn(c) => Pools!Fits(s, c)
<1>1. PICK n \in Nat \ {0} : total[c] = n * Whole
  BY DEF CardsTyped
<1> DEFINE spare == Pools!FreeOn(c) - Pools!Overhead
           part == (spare * Whole) \div total[c]
<1>2. Pools!FreeOn(c) \in Nat /\ Pools!Overhead \in Nat /\ spare \in Int
  <2>1. 1 \in Nat \ {0}
    OBVIOUS
  <2>2. Pools!FreeOn(c) \in Nat
    BY <2>1, FitIs
  <2>3. Pools!Overhead \in Nat
    BY DEF Pools!Overhead, CardsConstants
  <2> QED BY <2>2, <2>3
<1> HIDE DEF spare
<1>3. total[c] \in Nat \ {0} /\ spare * Whole \in Int
  BY <1>1, <1>2, PosProduct DEF CardsConstants
<1>4. part \in Int /\ part * total[c] <= spare * Whole
  BY <1>3, QuotientIs
<1> HIDE DEF part
<1>5. Pools!ShareOn(c) = Pools!Least({compute[c], Pools!UpTo0(part)})
  BY Zenon DEF Pools!ShareOn, part, spare
<1>6. compute[c] \in Int /\ Pools!UpTo0(part) \in Int /\ (Pools!UpTo0(part) > 0 => Pools!UpTo0(part) = part)
  BY <1>4 DEF CardsTyped, Pools!UpTo0
<1>7. Pools!ShareOn(c) \in Int /\ Pools!ShareOn(c) <= compute[c] /\ Pools!ShareOn(c) <= Pools!UpTo0(part)
  BY <1>5, <1>6, TheLesser
<1>8. ASSUME NEW s \in Nat \ {0}, s <= Pools!ShareOn(c) PROVE Pools!Fits(s, c)
  <2>1. s <= compute[c] /\ s <= part
    BY <1>4, <1>6, <1>7, <1>8
  <2>2. s * n \in Nat \ {0}
    BY PosProduct
  <2>3. s * n <= spare
    <3>1. (part - s) * total[c] >= 0
      BY <2>1, <1>3, <1>4
    <3>2. s * total[c] <= spare * Whole
      BY <3>1, <1>3, <1>4, <2>1
    <3>3. s * total[c] = (s * n) * Whole
      BY <1>1, Associates DEF CardsConstants
    <3> QED BY <3>2, <3>3, <2>2, <1>2, Cancels DEF CardsConstants
  <2>4. Pools!Needed(s, c) <= Pools!FreeOn(c)
    <3>1. CASE mode = "pool"
      <4>1. Pools!Needed(s, c) = s * n /\ Pools!Overhead = 0
        BY <3>1, <1>1, NeedIs DEF Pools!Overhead
      <4> QED BY <4>1, <2>3, <1>2 DEF spare
    <3>2. CASE mode # "pool"
      <4>1. Pools!Needed(s, c) = Pools!Granules(s * n) + Pools!Overhead /\ InWhole(Pools!Overhead)
        BY <3>2, <1>1, NeedIs
      <4>2. InWhole(Pools!FreeOn(c))
        <5>1. InWhole(vram[c])
          BY <3>2 DEF WholeGranules
        <5>2. InWhole(0)
          BY ZeroIsWhole
        <5> QED BY <5>1, <5>2 DEF Pools!FreeOn
      <4>3. InWhole(spare)
        BY <4>1, <4>2, <1>2, WholeSums DEF spare
      <4>4. Pools!Granules(s * n) <= spare /\ Pools!Granules(s * n) \in Int
        BY <4>3, <2>2, <2>3, <1>2, Rounded
      <4> QED BY <4>1, <4>4, <1>2 DEF spare
    <3> QED BY <3>1, <3>2
  <2>5. s \in Int /\ compute[c] \in Int /\ Pools!Needed(s, c) \in Int
    BY <1>6, FitIs
  <2> QED BY <2>1, <2>4, <2>5, <1>2 DEF Pools!Fits
<1> QED BY <1>7, <1>8

LEMMA OfferedIsThere ==
    ASSUME CardsConstants, CardsTyped, WholeGranules, Pools!Offered(Whole, TRUE) > 0
    PROVE  Pools!Placement(Pools!Offered(Whole, TRUE)) # {}
<1> DEFINE f == [c \in CardIds |-> Pools!ShareOn(c)]
           o == Pools!Offered(Whole, TRUE)
<1>1. f \in [CardIds -> Int]
  BY ShareFits
<1>2. {f[c] : c \in CardIds} = {Pools!ShareOn(c) : c \in CardIds}
  OBVIOUS
<1>3. PICK most : most = Pools!MaxFreeGpuShare
  OBVIOUS
<1>7. o = Pools!Least({most, Whole}) /\ o > 0
  BY <1>3 DEF Pools!Offered
<1>8. ASSUME most \in Int PROVE o \in Nat \ {0} /\ o <= most
  <2>1. Pools!Least({most, Whole}) \in {most, Whole} /\ Pools!Least({most, Whole}) <= most
    BY <1>8, TheLesser DEF CardsConstants
  <2>2. Whole \in Int
    BY DEF CardsConstants
  <2> HIDE DEF o
  <2> QED BY <2>1, <2>2, <1>7, <1>8
<1> HIDE DEF o
<1>4. Whole \in Nat \ {0} /\ IsFiniteSet(CardIds) /\ CardIds # {}
  BY DEF CardsConstants
<1>5. CASE mode = "pool"
  <2>1. Pools!MaxFreeGpuShare = Pools!Least({f[c] : c \in CardIds})
    BY <1>2, <1>5, Zenon DEF Pools!MaxFreeGpuShare
  <2> HIDE DEF f
  <2>2. \A c \in CardIds : Pools!MaxFreeGpuShare \in Int /\ Pools!MaxFreeGpuShare <= f[c]
    BY <1>1, <1>4, <2>1, LeastOfMany
  <2>3. Pools!MaxFreeGpuShare \in Int
    BY <1>4, <2>2
  <2>4. o \in Nat \ {0} /\ o <= most
    BY <1>3, <1>8, <2>3
  <2>5. \A c \in CardIds : o <= Pools!ShareOn(c)
    <3> TAKE c \in CardIds
    <3>1. f[c] \in Int /\ f[c] = Pools!ShareOn(c)
      BY <1>1 DEF f
    <3> QED BY <1>3, <2>2, <2>3, <2>4, <3>1
  <2>6. \A c \in CardIds : Pools!Fits(o, c)
    BY <2>4, <2>5, ShareFits
  <2>7. Pools!Placement(o) = CardIds
    BY <2>4, <2>6, <1>5, PlacedWhereItFits
  <2> QED BY <2>7, <1>4 DEF o
<1>6. CASE mode # "pool"
  <2>1. Pools!MaxFreeGpuShare = Pools!Most({f[c] : c \in CardIds})
    BY <1>2, <1>6, Zenon DEF Pools!MaxFreeGpuShare
  <2> HIDE DEF f
  <2>2. PICK c \in CardIds : Pools!MaxFreeGpuShare = f[c]
    BY <1>1, <1>4, <2>1, MostOfMany
  <2>3. f[c] \in Int /\ f[c] = Pools!ShareOn(c)
    BY <1>1 DEF f
  <2>4. o \in Nat \ {0} /\ o <= Pools!ShareOn(c)
    BY <1>3, <1>8, <2>2, <2>3
  <2>5. Pools!Fits(o, c)
    BY <2>4, ShareFits
  <2>6. Pools!Placement(o) # {}
    BY <2>4, <2>5, <1>6, PlacedWhereItFits
  <2> QED BY <2>6 DEF o
<1> QED BY <1>5, <1>6

-----------------------------------------------------------------------------
(* The cards of a box: one step per action                                   *)

LEMMA TakenIs == ASSUME NEW c PROVE Pools!Taken(c) = SumFunction(Memory(slice, c))
BY SharesAddUp, Zenon DEF Pools!Taken, Pools!Holds, Memory

LEMMA CardsBegin == ASSUME CardsConstants, Pools!Init PROVE CardsInv
<1>1. PICK n \in Sizes : total = [c \in CardIds |-> n * Whole]
  BY DEF Pools!Init
<1>2. n \in Nat \ {0} /\ Whole \in Nat \ {0} /\ n * Whole \in Nat \ {0}
  BY PosProduct DEF CardsConstants
<1>3. /\ mode \in {"local", "shielded"} /\ vram = total /\ compute = [c \in CardIds |-> Whole]
      /\ cores = Whole /\ slice = [i \in PoolsIds |-> Pools!None] /\ routed = [i \in PoolsIds |-> {}] /\ clamped = {}
  BY DEF Pools!Init
<1>4. Pools!None \in Slice /\ \A c \in CardIds : Pools!None.on[c] = 0
  BY DEF Pools!None, Slice
<1>5. CardsTyped
  <2>1. total \in [CardIds -> Int] /\ \A c \in CardIds : \E m \in Nat \ {0} : total[c] = m * Whole
    BY <1>1, <1>2
  <2>2. vram \in [CardIds -> Nat] /\ compute \in [CardIds -> Int] /\ cores \in Int
    BY <1>1, <1>2, <1>3
  <2> QED BY <2>1, <2>2, <1>3, <1>4 DEF CardsTyped
<1>6. \A c \in CardIds : /\ SumFunction(Memory(slice, c)) = 0 /\ SumFunction(Shares(slice, c)) = 0
                         /\ SumFunction(Cores(slice)) = 0
  BY <1>3, NoneHeld
<1>7. WholeGranules
  <2>1. InWhole(0)
    BY ZeroIsWhole
  <2>2. \A c \in CardIds : InWhole(vram[c])
    BY <1>1, <1>2, <1>3 DEF InWhole
  <2> QED BY <2>1, <2>2, <1>3, <1>4 DEF WholeGranules
<1>8. MemoryKept
  BY <1>1, <1>2, <1>3, <1>6 DEF MemoryKept
<1>9. ComputeKept
  BY <1>2, <1>3, <1>6 DEF ComputeKept
<1>10. CoresKept
  <2>1. \E c : c \in CardIds
    BY DEF CardsConstants
  <2> QED BY <2>1, <1>2, <1>3, <1>6 DEF CoresKept
<1>11. RoutesKept
  BY <1>3 DEF RoutesKept
<1> QED BY <1>5, <1>7, <1>8, <1>9, <1>10, <1>11 DEF CardsInv

\* A lease without a slice holds nothing of any card.
LEMMA WithoutSlice ==
    ASSUME CardsInv, NEW i \in PoolsIds, slice[i] = Pools!None
    PROVE  /\ slice[i].cores = 0 /\ routed[i] = {}
           /\ \A c \in CardIds : slice[i].on[c] = 0
<1>1. slice[i].cores = 0 /\ \A c \in CardIds : slice[i].on[c] = 0
  BY DEF Pools!None
<1>2. {c \in CardIds : slice[i].on[c] > 0} = {}
  BY <1>1
<1> QED BY <1>1, <1>2 DEF CardsInv, RoutesKept

\* One lease's slice is exchanged, and the pools move by what it holds more or less.
LEMMA SliceSwapped ==
    ASSUME CardsConstants, CardsInv, NEW i \in PoolsIds, NEW v \in Slice, slice' = With(slice, i, v),
           total' = total, mode' = mode, clamped' = clamped,
           vram' \in [CardIds -> Nat], compute' \in [CardIds -> Int],
           \A c \in CardIds : mode # "pool" => InWhole(vram'[c]) /\ InWhole(v.on[c]),
           \A c \in CardIds \ clamped : vram'[c] = vram[c] - (v.on[c] - slice[i].on[c]),
           \A c \in CardIds : compute'[c] = compute[c] -
              ((IF v.on[c] > 0 THEN v.shares ELSE 0) - (IF slice[i].on[c] > 0 THEN slice[i].shares ELSE 0)),
           cores' = cores - (v.cores - slice[i].cores),
           routed' \in [PoolsIds -> SUBSET CardIds], \A j \in PoolsIds : j # i => routed'[j] = routed[j], routed'[i] = {}
    PROVE  CardsInv'
<1>1. CardsTyped /\ WholeGranules /\ MemoryKept /\ ComputeKept /\ CoresKept /\ RoutesKept
  BY DEF CardsInv
<1>2. slice \in [PoolsIds -> Slice] /\ Whole \in Nat \ {0} /\ v.cores \in Int /\ slice[i].cores \in Int
  BY <1>1 DEF CardsTyped, CardsConstants, Slice
<1>3. slice' \in [PoolsIds -> Slice] /\ slice'[i] = v /\ \A j \in PoolsIds : j # i => slice'[j] = slice[j]
  BY <1>2 DEF With
<1>4. CardsTyped'
  <2>1. cores' \in Int
    BY <1>1, <1>2 DEF CardsTyped
  <2> QED BY <2>1, <1>1, <1>3 DEF CardsTyped
<1>5. WholeGranules'
  <2> SUFFICES ASSUME mode' # "pool", NEW c \in CardIds
               PROVE  InWhole(vram'[c]) /\ \A j \in PoolsIds : InWhole(slice'[j].on[c])
    BY DEF WholeGranules, InWhole
  <2>1. \A j \in PoolsIds : InWhole(slice[j].on[c])
    BY <1>1 DEF WholeGranules
  <2> QED BY <2>1, <1>3
<1>6. ASSUME NEW c \in CardIds
      PROVE  /\ v.on[c] \in Nat /\ slice[i].on[c] \in Nat /\ v.shares \in Nat /\ slice[i].shares \in Nat
             /\ SumFunction(Memory(slice, c)) \in Int /\ SumFunction(Shares(slice, c)) \in Int
             /\ SumFunction(Cores(slice)) \in Int
  <2>1. v \in Slice /\ slice[i] \in Slice
    BY <1>2
  <2>2. /\ SumFunction(Memory(slice, c)) \in Int /\ SumFunction(Shares(slice, c)) \in Int
        /\ SumFunction(Cores(slice)) \in Int
    BY <1>2, SumsAre
  <2> QED BY <2>1, <2>2 DEF Slice
<1>7. ASSUME NEW c \in CardIds
      PROVE  /\ SumFunction(Memory(slice', c)) = SumFunction(Memory(slice, c)) + (v.on[c] - slice[i].on[c])
             /\ SumFunction(Shares(slice', c)) = SumFunction(Shares(slice, c)) +
                  ((IF v.on[c] > 0 THEN v.shares ELSE 0) - (IF slice[i].on[c] > 0 THEN slice[i].shares ELSE 0))
             /\ SumFunction(Cores(slice')) = SumFunction(Cores(slice)) + (v.cores - slice[i].cores)
  <2>1. PICK t : t = slice'
    OBVIOUS
  <2>2. t = With(slice, i, v)
    BY <2>1
  <2>3. /\ SumFunction(Memory(t, c)) = SumFunction(Memory(slice, c)) + (v.on[c] - slice[i].on[c])
        /\ SumFunction(Shares(t, c)) = SumFunction(Shares(slice, c)) +
             ((IF v.on[c] > 0 THEN v.shares ELSE 0) - (IF slice[i].on[c] > 0 THEN slice[i].shares ELSE 0))
        /\ SumFunction(Cores(t)) = SumFunction(Cores(slice)) + (v.cores - slice[i].cores)
    BY <2>2, <1>2, SlicesChange
  <2> QED BY <2>1, <2>3
<1>8. MemoryKept'
  <2> SUFFICES ASSUME NEW c \in CardIds \ clamped'
               PROVE  vram'[c] = total'[c] - SumFunction(Memory(slice', c))
    BY DEF MemoryKept, Memory
  <2>1. vram[c] = total[c] - SumFunction(Memory(slice, c)) /\ total[c] \in Int
    BY <1>1 DEF MemoryKept, CardsTyped
  <2> QED BY <2>1, <1>6, <1>7
<1>9. ComputeKept'
  <2> SUFFICES ASSUME NEW c \in CardIds
               PROVE  compute'[c] = Whole - SumFunction(Shares(slice', c))
    BY DEF ComputeKept, Shares
  <2> DEFINE w == IF v.on[c] > 0 THEN v.shares ELSE 0
             u == IF slice[i].on[c] > 0 THEN slice[i].shares ELSE 0
  <2>1. compute[c] = Whole - SumFunction(Shares(slice, c)) /\ compute'[c] = compute[c] - (w - u)
    BY <1>1 DEF ComputeKept
  <2>2. SumFunction(Shares(slice', c)) = SumFunction(Shares(slice, c)) + (w - u)
    BY <1>7
  <2>3. w \in Int /\ u \in Int
    BY <1>6
  <2> HIDE DEF w, u
  <2> QED BY <2>1, <2>2, <2>3, <1>2, <1>6
<1>10. CoresKept'
  <2>1. PICK c : c \in CardIds
    BY DEF CardsConstants
  <2>2. cores = Whole - SumFunction(Cores(slice))
    BY <1>1 DEF CoresKept
  <2>3. cores' = Whole - SumFunction(Cores(slice'))
    BY <2>1, <2>2, <1>2, <1>6, <1>7
  <2> QED BY <2>3 DEF CoresKept, Cores
<1>11. RoutesKept'
  <2> SUFFICES ASSUME NEW j \in PoolsIds, routed'[j] # {}
               PROVE  routed'[j] = {c \in CardIds : slice'[j].on[c] > 0}
    BY DEF RoutesKept
  <2>1. j # i /\ routed[j] = {c \in CardIds : slice[j].on[c] > 0}
    BY <1>1 DEF RoutesKept
  <2> QED BY <2>1, <1>3
<1> QED BY <1>4, <1>5, <1>8, <1>9, <1>10, <1>11 DEF CardsInv

LEMMA AllocKeeps ==
    ASSUME CardsConstants, CardsInv, NEW i \in PoolsIds, NEW s \in 1 .. Whole, NEW k \in 1 .. Whole,
           Pools!Alloc(i, s, k)
    PROVE  CardsInv'
<1>1. PICK on : on = Pools!Placement(s)
  OBVIOUS
<1>2. s \in Nat \ {0} /\ k \in Nat \ {0} /\ Whole \in Nat \ {0}
  BY DEF CardsConstants
<1> DEFINE took == [c \in CardIds |-> IF c \in on THEN Pools!Needed(s, c) ELSE 0]
           v == [shares |-> s, cores |-> k, on |-> took]
<1>3. /\ slice[i] = Pools!None /\ slice' = [slice EXCEPT ![i] = v]
      /\ vram' = [c \in CardIds |-> IF c \in on THEN vram[c] - Pools!Needed(s, c) ELSE vram[c]]
      /\ compute' = [c \in CardIds |-> IF c \in on THEN compute[c] - s ELSE compute[c]]
      /\ cores' = cores - k
  BY <1>1 DEF Pools!Alloc
<1>4. /\ mode' = mode /\ total' = total /\ ready' = ready /\ routed' = routed
      /\ clamped' = clamped /\ probes' = probes
  BY DEF Pools!Alloc
<1>5. CardsTyped /\ WholeGranules /\ MemoryKept /\ ComputeKept /\ CoresKept /\ RoutesKept
  BY DEF CardsInv
<1>6. /\ on \subseteq CardIds
      /\ \A c \in on : /\ Pools!Needed(s, c) \in Nat \ {0} /\ Pools!Needed(s, c) <= vram[c]
                       /\ mode # "pool" => InWhole(Pools!Needed(s, c))
  BY <1>1, <1>2, <1>5, PlacedWhereItFits, FitIs
<1>7. /\ took \in [CardIds -> Nat] /\ \A c \in CardIds : took[c] > 0 <=> c \in on
      /\ \A c \in CardIds : c \notin on => took[c] = 0
      /\ \A c \in CardIds : took[c] <= vram[c] /\ vram'[c] = vram[c] - took[c]
  <2>1. \A c \in CardIds : vram[c] \in Nat
    BY <1>5 DEF CardsTyped
  <2> QED BY <2>1, <1>3, <1>6
<1>8. \A c \in CardIds : mode # "pool" => InWhole(took[c])
  <2>1. InWhole(0)
    BY ZeroIsWhole
  <2> QED BY <2>1, <1>6
<1> HIDE DEF took
<1>9. v \in Slice /\ v.on = took /\ v.shares = s /\ v.cores = k
  BY <1>2, <1>7 DEF Slice
<1>10. slice \in [PoolsIds -> Slice]
  BY <1>5 DEF CardsTyped
<1> HIDE DEF v
<1>11. /\ slice[i].cores = 0 /\ routed[i] = {}
       /\ \A c \in CardIds : slice[i].on[c] = 0
  BY <1>3, WithoutSlice
<1>12. slice' = With(slice, i, v)
  BY <1>3 DEF With
<1>13. vram' \in [CardIds -> Nat] /\ compute' \in [CardIds -> Int]
  <2>1. \A c \in CardIds : vram'[c] \in Nat
    BY <1>5, <1>7 DEF CardsTyped
  <2>2. vram' = [c \in CardIds |-> vram'[c]]
    BY <1>3
  <2> QED BY <2>1, <2>2, <1>2, <1>3, <1>5 DEF CardsTyped
<1>14. \A c \in CardIds : mode # "pool" => InWhole(vram'[c]) /\ InWhole(v.on[c])
  <2> SUFFICES ASSUME NEW c \in CardIds, mode # "pool" PROVE InWhole(vram'[c]) /\ InWhole(v.on[c])
    OBVIOUS
  <2>1. InWhole(vram[c]) /\ InWhole(took[c]) /\ vram[c] \in Int /\ took[c] \in Int
    BY <1>5, <1>7, <1>8 DEF WholeGranules, CardsTyped
  <2> QED BY <2>1, <1>7, <1>9, WholeSums
<1>15. \A c \in CardIds :
         /\ vram'[c] = vram[c] - (v.on[c] - slice[i].on[c])
         /\ compute'[c] = compute[c] -
              ((IF v.on[c] > 0 THEN v.shares ELSE 0) - (IF slice[i].on[c] > 0 THEN slice[i].shares ELSE 0))
  <2> TAKE c \in CardIds
  <2>1. vram[c] \in Int /\ compute[c] \in Int /\ took[c] \in Int
    BY <1>5, <1>7 DEF CardsTyped
  <2>2. slice[i].on[c] = 0
    BY <1>11
  <2>3. compute'[c] = compute[c] - (IF c \in on THEN s ELSE 0)
    BY <1>2, <1>3, <2>1
  <2>4. (IF v.on[c] > 0 THEN v.shares ELSE 0) = (IF c \in on THEN s ELSE 0)
    BY <1>7, <1>9
  <2>5. compute'[c] = compute[c] -
              ((IF v.on[c] > 0 THEN v.shares ELSE 0) - (IF slice[i].on[c] > 0 THEN slice[i].shares ELSE 0))
    BY <1>2, <2>1, <2>2, <2>3, <2>4
  <2> QED BY <2>1, <2>2, <2>5, <1>7, <1>9
<1>16. cores' = cores - (v.cores - slice[i].cores)
  BY <1>2, <1>3, <1>9, <1>11
<1>17. /\ routed' \in [PoolsIds -> SUBSET CardIds] /\ routed'[i] = {}
       /\ \A j \in PoolsIds : j # i => routed'[j] = routed[j]
  BY <1>4, <1>5, <1>11 DEF CardsTyped
<1> QED BY <1>4, <1>9, <1>12, <1>13, <1>14, <1>15, <1>16, <1>17, SliceSwapped

LEMMA AllocCoresKeeps ==
    ASSUME CardsConstants, CardsInv, NEW i \in PoolsIds, NEW k \in 1 .. Whole, Pools!AllocCores(i, k)
    PROVE  CardsInv'
<1> DEFINE v == [shares |-> 0, cores |-> k, on |-> [c \in CardIds |-> 0]]
<1>1. /\ slice[i] = Pools!None /\ slice' = [slice EXCEPT ![i].cores = k] /\ cores' = cores - k
      /\ mode' = mode /\ total' = total /\ vram' = vram /\ compute' = compute
      /\ routed' = routed /\ clamped' = clamped
  BY DEF Pools!AllocCores
<1>2. CardsTyped /\ WholeGranules
  BY DEF CardsInv
<1>3. slice' = With(slice, i, v)
  <2>1. slice' = [slice EXCEPT ![i] = [slice[i] EXCEPT !.cores = k]]
    BY <1>1
  <2>2. [slice[i] EXCEPT !.cores = k] = v
    BY <1>1 DEF Pools!None
  <2> QED BY <2>1, <2>2 DEF With
<1>4. v \in Slice /\ v.cores = k /\ \A c \in CardIds : v.on[c] = 0
  BY DEF Slice
<1> HIDE DEF v
<1>5. /\ slice[i].cores = 0 /\ routed[i] = {}
      /\ \A c \in CardIds : slice[i].on[c] = 0
  BY <1>1, WithoutSlice
<1>6. \A c \in CardIds : mode # "pool" => InWhole(vram'[c]) /\ InWhole(v.on[c])
  BY <1>1, <1>2, <1>4, ZeroIsWhole DEF WholeGranules
<1>7. \A c \in CardIds :
        /\ vram'[c] = vram[c] - (v.on[c] - slice[i].on[c])
        /\ compute'[c] = compute[c] -
             ((IF v.on[c] > 0 THEN v.shares ELSE 0) - (IF slice[i].on[c] > 0 THEN slice[i].shares ELSE 0))
  BY <1>1, <1>2, <1>4, <1>5 DEF CardsTyped
<1>8. cores' = cores - (v.cores - slice[i].cores)
  BY <1>1, <1>2, <1>4, <1>5 DEF CardsTyped
<1>9. vram' \in [CardIds -> Nat] /\ compute' \in [CardIds -> Int] /\ routed' \in [PoolsIds -> SUBSET CardIds]
  BY <1>1, <1>2 DEF CardsTyped
<1> QED BY <1>1, <1>3, <1>4, <1>5, <1>6, <1>7, <1>8, <1>9, SliceSwapped

LEMMA ReleaseKeeps ==
    ASSUME CardsConstants, CardsInv, NEW i \in PoolsIds, Pools!Release(i)
    PROVE  CardsInv'
<1> DEFINE share(c) == IF slice[i].on[c] > 0 THEN slice[i].shares ELSE 0
<1>1. /\ slice' = [slice EXCEPT ![i] = Pools!None] /\ routed' = [routed EXCEPT ![i] = {}]
      /\ mode' = mode /\ total' = total /\ clamped' = clamped
      /\ vram' = [c \in CardIds |-> Pools!Within(vram[c] + slice[i].on[c], total[c])]
      /\ compute' = [c \in CardIds |-> Pools!Within(compute[c] + share(c), Whole)]
      /\ cores' = Pools!Within(cores + slice[i].cores, Whole)
  BY DEF Pools!Release, Pools!Back, Pools!Holds
<1>2. CardsTyped /\ WholeGranules /\ MemoryKept /\ ComputeKept /\ CoresKept /\ Whole \in Nat \ {0}
  BY DEF CardsInv, CardsConstants
<1>3. Pools!None \in Slice /\ Pools!None.cores = 0 /\ \A c \in CardIds : Pools!None.on[c] = 0
  BY DEF Pools!None, Slice
<1>4. slice' = With(slice, i, Pools!None)
  BY <1>1 DEF With
<1>5. slice[i] \in Slice /\ slice[i].cores \in Nat /\ slice[i].shares \in Nat
      /\ \A c \in CardIds : slice[i].on[c] \in Nat /\ share(c) \in Nat
  <2>1. slice[i] \in Slice
    BY <1>2 DEF CardsTyped
  <2> QED BY <2>1 DEF Slice
<1>6. ASSUME NEW c \in CardIds
      PROVE  /\ SumFunction(Memory(slice, c)) \in Nat /\ slice[i].on[c] <= SumFunction(Memory(slice, c))
             /\ SumFunction(Shares(slice, c)) \in Nat /\ share(c) <= SumFunction(Shares(slice, c))
             /\ SumFunction(Cores(slice)) \in Nat /\ slice[i].cores <= SumFunction(Cores(slice))
  <2>1. /\ Memory(slice, c) \in [PoolsIds -> Nat] /\ Shares(slice, c) \in [PoolsIds -> Nat] /\ Cores(slice) \in [PoolsIds -> Nat]
        /\ Memory(slice, c)[i] = slice[i].on[c] /\ Shares(slice, c)[i] = share(c)
        /\ Cores(slice)[i] = slice[i].cores
    <3>1. \A j \in PoolsIds : slice[j] \in Slice
      BY <1>2 DEF CardsTyped
    <3> QED BY <3>1 DEF Memory, Shares, Cores, Slice
  <2> HIDE DEF share
  <2> QED BY <2>1, SumCovers DEF CardsConstants
<1> HIDE DEF share
<1>7. ASSUME NEW c \in CardIds
      PROVE  /\ vram[c] \in Nat /\ compute[c] \in Int /\ cores \in Int /\ total[c] \in Nat
             /\ (mode # "pool" => InWhole(vram[c]) /\ InWhole(slice[i].on[c]) /\ InWhole(total[c]))
             /\ (c \notin clamped => vram[c] = total[c] - SumFunction(Memory(slice, c)))
             /\ compute[c] = Whole - SumFunction(Shares(slice, c))
             /\ cores = Whole - SumFunction(Cores(slice))
  <2>1. PICK n \in Nat \ {0} : total[c] = n * Whole
    BY <1>2 DEF CardsTyped
  <2>2. total[c] \in Nat /\ InWhole(total[c])
    BY <2>1, <1>2, PosProduct DEF InWhole
  <2> QED BY <2>2, <1>2 DEF CardsTyped, WholeGranules, MemoryKept, ComputeKept, CoresKept
<1>8. \A c \in CardIds : /\ vram'[c] \in Nat /\ (mode # "pool" => InWhole(vram'[c]))
                         /\ c \notin clamped => vram'[c] = vram[c] + slice[i].on[c]
  <2> TAKE c \in CardIds
  <2>1. vram'[c] = IF vram[c] + slice[i].on[c] < total[c] THEN vram[c] + slice[i].on[c] ELSE total[c]
    BY <1>1 DEF Pools!Within
  <2>2. ASSUME mode # "pool" PROVE InWhole(vram[c] + slice[i].on[c])
    <3>1. InWhole(vram[c]) /\ InWhole(slice[i].on[c]) /\ vram[c] \in Int /\ slice[i].on[c] \in Int
      BY <1>5, <1>7, <2>2
    <3> QED BY <3>1, WholeSums
  <2> QED BY <2>1, <2>2, <1>5, <1>6, <1>7
<1>9. \A c \in CardIds : compute'[c] = compute[c] + share(c) /\ compute'[c] \in Int
  <2> TAKE c \in CardIds
  <2>1. compute'[c] = IF compute[c] + share(c) < Whole THEN compute[c] + share(c) ELSE Whole
    BY <1>1 DEF Pools!Within
  <2> QED BY <2>1, <1>2, <1>5, <1>6, <1>7
<1>10. cores' = cores + slice[i].cores
  <2>1. PICK c : c \in CardIds
    BY DEF CardsConstants
  <2>2. cores' = IF cores + slice[i].cores < Whole THEN cores + slice[i].cores ELSE Whole
    BY <1>1 DEF Pools!Within
  <2> QED BY <2>1, <2>2, <1>2, <1>5, <1>6, <1>7
<1>11. vram' \in [CardIds -> Nat] /\ compute' \in [CardIds -> Int]
  <2>1. vram' = [c \in CardIds |-> vram'[c]] /\ compute' = [c \in CardIds |-> compute'[c]]
    BY <1>1
  <2> QED BY <2>1, <1>8, <1>9
<1>12. \A c \in CardIds : mode # "pool" => InWhole(vram'[c]) /\ InWhole(Pools!None.on[c])
  BY <1>3, <1>8, ZeroIsWhole
<1>13. \A c \in CardIds \ clamped : vram'[c] = vram[c] - (Pools!None.on[c] - slice[i].on[c])
  BY <1>3, <1>5, <1>7, <1>8
<1>14. \A c \in CardIds : compute'[c] = compute[c] -
         ((IF Pools!None.on[c] > 0 THEN Pools!None.shares ELSE 0) -
          (IF slice[i].on[c] > 0 THEN slice[i].shares ELSE 0))
  <2> TAKE c \in CardIds
  <2>1. (IF Pools!None.on[c] > 0 THEN Pools!None.shares ELSE 0) = 0
    BY <1>3
  <2>2. (IF slice[i].on[c] > 0 THEN slice[i].shares ELSE 0) = share(c)
    BY DEF share
  <2> QED BY <2>1, <2>2, <1>5, <1>7, <1>9
<1>15. cores' = cores - (Pools!None.cores - slice[i].cores)
  BY <1>2, <1>3, <1>5, <1>10 DEF CardsTyped
<1>16. /\ routed' \in [PoolsIds -> SUBSET CardIds] /\ routed'[i] = {}
       /\ \A j \in PoolsIds : j # i => routed'[j] = routed[j]
  BY <1>1, <1>2 DEF CardsTyped
<1> QED BY <1>1, <1>3, <1>4, <1>11, <1>12, <1>13, <1>14, <1>15, <1>16, SliceSwapped

LEMMA CardsLaunchKeeps ==
    ASSUME CardsConstants, CardsInv, NEW i \in PoolsIds, Pools!Launch(i)
    PROVE  CardsInv'
<1> DEFINE on == {c \in CardIds : slice[i].on[c] > 0}
<1>1. routed' = [routed EXCEPT ![i] = on]
  BY DEF Pools!Launch, Pools!Holds
<1>2. /\ mode' = mode /\ total' = total /\ vram' = vram /\ compute' = compute /\ cores' = cores
      /\ slice' = slice /\ clamped' = clamped
  BY DEF Pools!Launch
<1>3. CardsTyped /\ WholeGranules /\ MemoryKept /\ ComputeKept /\ CoresKept /\ RoutesKept
  BY DEF CardsInv
<1>4. CardsTyped'
  BY <1>1, <1>2, <1>3 DEF CardsTyped
<1>5. WholeGranules'
  BY <1>2, <1>3 DEF WholeGranules, InWhole
<1>6. MemoryKept' /\ ComputeKept' /\ CoresKept'
  BY <1>2, <1>3 DEF MemoryKept, ComputeKept, CoresKept, Memory, Shares, Cores
<1>7. RoutesKept'
  BY <1>1, <1>2, <1>3 DEF RoutesKept, CardsTyped
<1> QED BY <1>4, <1>5, <1>6, <1>7 DEF CardsInv

\* The memory of cards is learnt anew, while the slices stay.
LEMMA MemoryLearnt ==
    ASSUME CardsConstants, CardsInv, UNCHANGED <<compute, cores, slice, routed>>,
           mode' \in {"local", "shielded", "pool"}, mode = "pool" => mode' = "pool",
           total' \in [CardIds -> Int], \A c \in CardIds : \E n \in Nat \ {0} : total'[c] = n * Whole,
           vram' \in [CardIds -> Nat], clamped' \in SUBSET CardIds,
           \A c \in CardIds : mode' # "pool" => InWhole(vram'[c]),
           \A c \in CardIds \ clamped' : vram'[c] = total'[c] - SumFunction(Memory(slice, c))
    PROVE  CardsInv'
<1>1. CardsTyped /\ WholeGranules /\ MemoryKept /\ ComputeKept /\ CoresKept /\ RoutesKept
  BY DEF CardsInv
<1>2. CardsTyped'
  BY <1>1 DEF CardsTyped
<1>3. WholeGranules'
  BY <1>1 DEF WholeGranules, InWhole
<1>4. MemoryKept'
  BY DEF MemoryKept, Memory
<1>5. ComputeKept' /\ CoresKept' /\ RoutesKept'
  BY <1>1 DEF ComputeKept, CoresKept, Shares, Cores, RoutesKept
<1> QED BY <1>1, <1>2, <1>3, <1>4, <1>5 DEF CardsInv

\* What a card of another size keeps free.
LEMMA ShrunkIs ==
    ASSUME CardsConstants, CardsInv, NEW c \in CardIds, NEW n \in Nat \ {0}
    PROVE  /\ n * Whole \in Nat \ {0} /\ Pools!Shrunk(c, n * Whole) \in Nat
           /\ mode # "pool" => InWhole(Pools!Shrunk(c, n * Whole))
           /\ c \notin clamped /\ ~Pools!Clamps(c, n * Whole) =>
                 Pools!Shrunk(c, n * Whole) = n * Whole - SumFunction(Memory(slice, c))
<1>1. CardsTyped /\ WholeGranules /\ MemoryKept
  BY DEF CardsInv
<1>2. PICK m \in Nat \ {0} : total[c] = m * Whole
  BY <1>1 DEF CardsTyped
<1>3. n * Whole \in Nat \ {0} /\ InWhole(n * Whole) /\ total[c] \in Nat /\ InWhole(total[c])
  BY <1>2, PosProduct DEF CardsConstants, InWhole
<1>4. PICK size : size = n * Whole
  OBVIOUS
<1>5. /\ vram[c] \in Nat /\ SumFunction(Memory(slice, c)) \in Int
      /\ c \notin clamped => vram[c] = total[c] - SumFunction(Memory(slice, c))
  BY <1>1, SumsAre DEF CardsTyped, MemoryKept
<1>6. ASSUME mode # "pool" PROVE InWhole(vram[c] + size - total[c])
  <2>1. InWhole(vram[c])
    BY <1>1, <1>6 DEF WholeGranules
  <2>2. InWhole(size) /\ size \in Int /\ vram[c] \in Int /\ total[c] \in Int
    BY <1>3, <1>4, <1>5
  <2>3. PICK x : x = size - total[c]
    OBVIOUS
  <2>4. InWhole(x) /\ x \in Int
    <3>1. InWhole(size - total[c])
      BY <2>2, <1>3, WholeSums
    <3>2. size - total[c] \in Int
      BY <2>2
    <3> QED BY <3>1, <3>2, <2>3, Zenon
  <2>5. InWhole(vram[c] + x)
    BY <2>1, <2>2, <2>4, WholeSums
  <2> QED BY <2>3, <2>5
<1>7. Pools!Shrunk(c, size) = (IF vram[c] + size - total[c] < 0 THEN 0 ELSE vram[c] + size - total[c])
  BY DEF Pools!Shrunk, Pools!UpTo0
<1>8. Pools!Clamps(c, size) <=> vram[c] + size - total[c] < 0
  BY DEF Pools!Clamps
<1>9. Pools!Shrunk(c, size) \in Nat
  BY <1>3, <1>4, <1>5, <1>7
<1>10. mode # "pool" => InWhole(Pools!Shrunk(c, size))
  BY <1>6, <1>7, ZeroIsWhole
<1>11. c \notin clamped /\ ~Pools!Clamps(c, size) =>
         Pools!Shrunk(c, size) = size - SumFunction(Memory(slice, c))
  BY <1>3, <1>4, <1>5, <1>7, <1>8
<1> QED BY <1>3, <1>4, <1>9, <1>10, <1>11

\* What reconciliation leaves free.
LEMMA ReconciledIs ==
    ASSUME CardsConstants, CardsInv, NEW t \in [CardIds -> Int], NEW c \in CardIds,
           NEW n \in Nat \ {0}, t[c] = n * Whole
    PROVE  /\ Pools!Reconciled(t)[c] \in Nat
           /\ mode # "pool" => InWhole(Pools!Reconciled(t)[c])
           /\ c \notin Pools!Overheld(t) => Pools!Reconciled(t)[c] = t[c] - SumFunction(Memory(slice, c))
<1>1. CardsTyped /\ WholeGranules
  BY DEF CardsInv
<1>2. t[c] \in Nat /\ InWhole(t[c])
  BY PosProduct DEF CardsConstants, InWhole
<1>3. PICK sum : sum = SumFunction(Memory(slice, c))
  OBVIOUS
<1>4. sum \in Nat
  <2>1. Memory(slice, c) \in [PoolsIds -> Nat] /\ sum \in Int
    BY <1>1, <1>3, SumsAre DEF Memory, Slice, CardsTyped
  <2>2. CASE PoolsIds = {}
    <3>1. Memory(slice, c) = [x \in PoolsIds |-> 0]
      BY <2>2 DEF Memory
    <3> QED BY <3>1, <1>3, SumOfZeros DEF CardsConstants
  <2>3. CASE PoolsIds # {}
    <3>1. PICK i : i \in PoolsIds
      BY <2>3
    <3> QED BY <3>1, <2>1, <1>3, SumCovers DEF CardsConstants
  <2> QED BY <2>2, <2>3
<1>5. Pools!Taken(c) = sum
  BY <1>3, TakenIs
<1>6. ASSUME mode # "pool" PROVE InWhole(t[c] - sum)
  <2>1. InWhole(sum)
    BY <1>1, <1>3, <1>6, WholeTaken DEF WholeGranules, CardsTyped
  <2> QED BY <2>1, <1>2, <1>4, WholeSums
<1>7. Pools!Reconciled(t)[c] = Pools!Within(Pools!UpTo0(t[c] - sum), t[c])
  BY <1>5 DEF Pools!Reconciled
<1>8. Pools!Reconciled(t)[c] = IF t[c] - sum < 0 THEN 0 ELSE t[c] - sum
  BY <1>2, <1>4, <1>7 DEF Pools!Within, Pools!UpTo0
<1>9. c \notin Pools!Overheld(t) => ~(sum > t[c])
  BY <1>5 DEF Pools!Overheld
<1>10. mode # "pool" => InWhole(Pools!Reconciled(t)[c])
  BY <1>6, <1>8, ZeroIsWhole
<1>11. Pools!Reconciled(t)[c] \in Nat
  BY <1>2, <1>4, <1>8
<1> QED BY <1>2, <1>3, <1>4, <1>8, <1>9, <1>10, <1>11

LEMMA ProbeKeeps ==
    ASSUME CardsConstants, CardsInv, NEW n \in Sizes, Pools!Probe(n * Whole)
    PROVE  CardsInv'
<1>1. n \in Nat \ {0}
  BY DEF CardsConstants
<1>2. PICK size : size = n * Whole
  OBVIOUS
<1>3. /\ mode = "local" /\ mode' = mode /\ UNCHANGED <<compute, cores, slice, routed>>
      /\ total' = [c \in CardIds |-> size] /\ vram' = [c \in CardIds |-> Pools!Shrunk(c, size)]
      /\ clamped' = clamped \union {c \in CardIds : Pools!Clamps(c, size)}
  BY <1>2 DEF Pools!Probe
<1>4. \A c \in CardIds :
        /\ size \in Nat \ {0} /\ vram'[c] \in Nat /\ InWhole(vram'[c]) /\ total'[c] = size
        /\ c \notin clamped' => vram'[c] = size - SumFunction(Memory(slice, c))
  BY <1>1, <1>2, <1>3, ShrunkIs
<1>5. /\ total' \in [CardIds -> Int] /\ \A c \in CardIds : \E m \in Nat \ {0} : total'[c] = m * Whole
  BY <1>1, <1>2, <1>3, <1>4
<1>6. vram' \in [CardIds -> Nat] /\ clamped' \in SUBSET CardIds
  BY <1>3, <1>4 DEF CardsInv, CardsTyped
<1>7. \A c \in CardIds \ clamped' : vram'[c] = total'[c] - SumFunction(Memory(slice, c))
  BY <1>4
<1> QED BY <1>3, <1>4, <1>5, <1>6, <1>7, MemoryLearnt

LEMMA VerdictKeeps ==
    ASSUME CardsConstants, CardsInv, NEW cards \in SUBSET CardIds, NEW n \in Sizes, NEW pooled \in BOOLEAN,
           Pools!Verdict(cards, n * Whole, pooled)
    PROVE  CardsInv'
<1>1. n \in Nat \ {0}
  BY DEF CardsConstants
<1>2. PICK size : size = n * Whole
  OBVIOUS
<1>3. PICK offers : offers = Pools!Offers(cards, pooled)
  OBVIOUS
<1>4. PICK t : t = [c \in CardIds |-> IF c \in offers THEN size ELSE total[c]]
  OBVIOUS
<1>5. offers \subseteq CardIds
  BY <1>3 DEF Pools!Offers
<1>6. /\ total' = t /\ UNCHANGED <<compute, cores, slice, routed>>
      /\ mode' = IF pooled /\ offers # {} THEN "pool" ELSE mode
      /\ IF mode' = "pool" /\ offers # {}
         THEN vram' = Pools!Reconciled(t) /\ clamped' = Pools!Overheld(t)
         ELSE /\ vram' = [c \in CardIds |-> IF c \in offers THEN Pools!Shrunk(c, size) ELSE vram[c]]
              /\ clamped' = clamped \union {c \in offers : Pools!Clamps(c, size)}
  BY <1>2, <1>3, <1>4, Zenon DEF Pools!Verdict
<1>7. CardsTyped /\ WholeGranules /\ MemoryKept
  BY DEF CardsInv
<1>8. mode' \in {"local", "shielded", "pool"} /\ (mode = "pool" => mode' = "pool")
      /\ (mode' # "pool" => mode # "pool")
  BY <1>6, <1>7 DEF CardsTyped
<1>9. n * Whole \in Nat \ {0}
  BY <1>1, PosProduct DEF CardsConstants
<1>10. t \in [CardIds -> Int] /\ \A c \in CardIds : \E m \in Nat \ {0} : t[c] = m * Whole
  <2>1. \A c \in CardIds : total[c] \in Int /\ \E m \in Nat \ {0} : total[c] = m * Whole
    BY <1>7 DEF CardsTyped
  <2> QED BY <2>1, <1>1, <1>2, <1>4, <1>9
<1>11. CASE mode' = "pool" /\ offers # {}
  <2>1. vram' = Pools!Reconciled(t) /\ clamped' = Pools!Overheld(t)
    BY <1>6, <1>11
  <2>2. \A c \in CardIds : vram'[c] \in Nat /\
          (c \notin clamped' => vram'[c] = t[c] - SumFunction(Memory(slice, c)))
    BY <2>1, <1>10, ReconciledIs
  <2>3. vram' \in [CardIds -> Nat]
    <3>1. vram' = [c \in CardIds |-> vram'[c]]
      BY <2>1 DEF Pools!Reconciled
    <3> QED BY <3>1, <2>2
  <2>4. clamped' \in SUBSET CardIds
    BY <2>1 DEF Pools!Overheld
  <2> QED BY <2>2, <2>3, <2>4, <1>6, <1>8, <1>10, <1>11, MemoryLearnt
<1>12. CASE ~(mode' = "pool" /\ offers # {})
  <2>1. /\ vram' = [c \in CardIds |-> IF c \in offers THEN Pools!Shrunk(c, size) ELSE vram[c]]
        /\ clamped' = clamped \union {c \in offers : Pools!Clamps(c, size)}
    BY <1>6, <1>12
  <2>2. \A c \in CardIds :
          /\ vram[c] \in Nat /\ (mode # "pool" => InWhole(vram[c]))
          /\ c \notin clamped => vram[c] = total[c] - SumFunction(Memory(slice, c))
    BY <1>7 DEF CardsTyped, WholeGranules, MemoryKept
  <2>3. \A c \in CardIds :
          /\ Pools!Shrunk(c, size) \in Nat /\ (mode # "pool" => InWhole(Pools!Shrunk(c, size)))
          /\ c \notin clamped /\ ~Pools!Clamps(c, size) =>
                Pools!Shrunk(c, size) = size - SumFunction(Memory(slice, c))
    BY <1>1, <1>2, ShrunkIs
  <2>4. \A c \in CardIds : vram'[c] \in Nat /\ (mode' # "pool" => InWhole(vram'[c]))
    BY <2>1, <2>2, <2>3, <1>8
  <2>5. \A c \in CardIds \ clamped' : vram'[c] = t[c] - SumFunction(Memory(slice, c))
    BY <2>1, <2>2, <2>3, <1>4
  <2>6. vram' \in [CardIds -> Nat] /\ clamped' \in SUBSET CardIds
    BY <2>1, <2>4, <1>5, <1>7 DEF CardsTyped
  <2> QED BY <2>4, <2>5, <2>6, <1>6, <1>8, <1>10, MemoryLearnt
<1> QED BY <1>11, <1>12

LEMMA CardsReconcileKeeps == ASSUME CardsConstants, CardsInv, Pools!Reconcile PROVE CardsInv'
<1>1. /\ clamped' = Pools!Overheld(total) /\ vram' = Pools!Reconciled(total) /\ mode' = mode
      /\ total' = total /\ UNCHANGED <<compute, cores, slice, routed>>
  BY DEF Pools!Reconcile
<1>2. total \in [CardIds -> Int] /\ (\A c \in CardIds : \E n \in Nat \ {0} : total[c] = n * Whole)
      /\ mode \in {"local", "shielded", "pool"}
  BY DEF CardsInv, CardsTyped
<1>3. \A c \in CardIds : /\ vram'[c] \in Nat /\ (mode # "pool" => InWhole(vram'[c]))
                         /\ c \notin clamped' => vram'[c] = total[c] - SumFunction(Memory(slice, c))
  BY <1>1, <1>2, ReconciledIs
<1>4. vram' \in [CardIds -> Nat] /\ clamped' \in SUBSET CardIds
  <2>1. vram' = [c \in CardIds |-> vram'[c]] /\ clamped' \in SUBSET CardIds
    BY <1>1 DEF Pools!Reconciled, Pools!Overheld
  <2> QED BY <2>1, <1>3
<1> QED BY <1>1, <1>2, <1>3, <1>4, MemoryLearnt

LEMMA NoticeKeeps ==
    ASSUME CardsInv, Pools!VerdictGone \/ UNCHANGED Pools!vars
    PROVE  CardsInv'
BY SMTT(30) DEF Pools!VerdictGone, Pools!vars, CardsInv, CardsTyped, WholeGranules, MemoryKept,
    ComputeKept,
       CoresKept, RoutesKept, InWhole, Memory, Shares, Cores

LEMMA CardsStep == ASSUME CardsConstants, CardsInv, [Pools!Next]_(Pools!vars) PROVE CardsInv'
<1>1. CASE Pools!VerdictGone \/ UNCHANGED Pools!vars
  BY <1>1, NoticeKeeps
<1>2. CASE Pools!Reconcile
  BY <1>2, CardsReconcileKeeps
<1>3. ASSUME NEW n \in Sizes, Pools!Probe(n * Whole) PROVE CardsInv'
  BY <1>3, ProbeKeeps
<1>4. ASSUME NEW n \in Sizes, NEW cards \in SUBSET CardIds, NEW p \in BOOLEAN,
             Pools!Verdict(cards, n * Whole, p)
      PROVE  CardsInv'
  BY <1>4, VerdictKeeps
<1>5. ASSUME NEW i \in PoolsIds, Pools!Release(i) PROVE CardsInv'
  BY <1>5, ReleaseKeeps
<1>6. ASSUME NEW i \in PoolsIds, Pools!Launch(i) PROVE CardsInv'
  BY <1>6, CardsLaunchKeeps
<1>7. ASSUME NEW i \in PoolsIds, NEW k \in 1 .. Whole, Pools!AllocCores(i, k) PROVE CardsInv'
  BY <1>7, AllocCoresKeeps
<1>8. ASSUME NEW i \in PoolsIds, NEW k \in 1 .. Whole, NEW s \in 1 .. Whole, Pools!Alloc(i, s, k) PROVE CardsInv'
  BY <1>8, AllocKeeps
<1> QED BY <1>1, <1>2, <1>3, <1>4, <1>5, <1>6, <1>7, <1>8 DEF Pools!Next

LEMMA CardsBalance == ASSUME CardsConstants, CardsInv PROVE Pools!PoolsBalance
<1>1. CardsTyped /\ WholeGranules /\ MemoryKept /\ ComputeKept /\ CoresKept /\ RoutesKept
  BY DEF CardsInv
<1>2. \A c \in CardIds \ clamped : vram[c] = Pools!UpTo0(total[c] - Pools!Taken(c))
  <2> TAKE c \in CardIds \ clamped
  <2>1. vram[c] = total[c] - Pools!Taken(c) /\ vram[c] \in Nat
    BY <1>1, TakenIs DEF MemoryKept, CardsTyped
  <2> QED BY <2>1 DEF Pools!UpTo0
<1>3. \A c \in CardIds : compute[c] = Whole -
         Pools!SumFunction([i \in PoolsIds |-> IF Pools!Holds(i, c) > 0 THEN slice[i].shares ELSE 0])
  <2> TAKE c \in CardIds
  <2>1. [i \in PoolsIds |-> IF Pools!Holds(i, c) > 0 THEN slice[i].shares ELSE 0] = Shares(slice, c)
    BY DEF Shares, Pools!Holds
  <2> QED BY <2>1, <1>1, SharesAddUp DEF ComputeKept
<1>4. cores = Whole - Pools!SumFunction([i \in PoolsIds |-> slice[i].cores])
  BY <1>1, SharesAddUp DEF CoresKept, Cores
<1>5. Pools!Offered(Whole, TRUE) > 0 => Pools!Placement(Pools!Offered(Whole, TRUE)) # {}
  BY <1>1, OfferedIsThere
<1>6. \A i \in PoolsIds : routed[i] # {} => routed[i] = {c \in CardIds : Pools!Holds(i, c) > 0}
  BY <1>1 DEF RoutesKept, Pools!Holds
<1> QED BY <1>2, <1>3, <1>4, <1>5, <1>6 DEF Pools!PoolsBalance

\* Free memory, compute and cores are what the slices do not hold, what is offered
\* can be taken, and a launch goes to the cards its slice is on (allocGpu, releaseGpu,
\* adoptCardVram, adoptShieldedCards, reconcilePools, maxFreeGpuShare, shieldedLaunchSpec),
\* for any number of cards and deployments, any sizes and any order of verdicts.
THEOREM PoolsAreBalanced == ASSUME CardsConstants PROVE Pools!Spec => []Pools!PoolsBalance
<1>1. Pools!Init => CardsInv
  BY CardsBegin
<1>2. CardsInv /\ [Pools!Next]_(Pools!vars) => CardsInv'
  BY CardsStep
<1>3. CardsInv => Pools!PoolsBalance
  BY CardsBalance
<1> QED BY <1>1, <1>2, <1>3, PTL DEF Pools!Spec
================================================================================
