------------------------------ MODULE RelayProofs ------------------------------
(***************************************************************************)
(* Proofs about what the relay keeps for its users, each component under   *)
(* its own name.  Pads: every window that left ends at or below the mark   *)
(* on disk, the mark in memory is never behind it, and a record remembers  *)
(* the last NonceMemory nonces it admitted, all different.  Domains: live  *)
(* attachments, in memory and on disk, were proven, and so was what a      *)
(* favourable verdict in flight is about.  Accounts: a waiting handler     *)
(* holds a spent token that signed nobody in, and the index of keys and    *)
(* wallets is the accounts' own lists read backwards.  Secrets: the row a   *)
(* relay answers from, or has in hand, is one that stood on the ledger     *)
(* within the cache's time.  Certificates: a key has at most the order on  *)
(* disk and the order in hand, and they are one when there are both.       *)
(***************************************************************************)
EXTENDS Integers, Sequences, FiniteSetTheorems, TLAPS

\* Of the components below; a name that two of them share carries its component's.
CONSTANTS
    Devices, MaxWindow, NonceMemory, MaxNonces, MaxServed, MaxDealtFaults, Deps, Demote,
    Fail, MaxRecs, MaxChecks, MaxNamesFaults, Creds, Wallets, MaxAccts, MaxTokens,
    MaxReqs, MaxPeopleFaults, Boxes, Ttl, MaxTxt, MaxGateFaults, CAs, MaxKeys,
    MaxOrders, MaxIssuerFaults
VARIABLES
    tunnel, mem, dealtDisk, signed, out, upload, artifacts, dealtFaults, dns, recs,
    host, namesDisk, checks, ledger, serves, proven, namesFaults, db, peopleDisk,
    tokens, reqs, grants, born, crossed, peopleFaults, gateLease, since, row, reading,
    listed, ask, txt, gateGiven, gateFaults, box, keys, issuerLease, issue, held,
    cached, cao, down, acct, issuerGiven, issuerFaults

-----------------------------------------------------------------------------
(* Dealt pads                                                                *)

Dealt == INSTANCE Pads WITH disk <- dealtDisk, faults <- dealtFaults,
    MaxFaults <- MaxDealtFaults

LEMMA PadCounts == \A S : Dealt!Cardinality(S) = Cardinality(S)
  BY Zenon DEF Dealt!Cardinality, Cardinality, Dealt!IsFiniteSet, IsFiniteSet

-----------------------------------------------------------------------------
(* Dealt pads: sequences of nonces                                           *)

\* A sequence without repetitions is no longer than the set it draws from.
LEMMA DistinctFit ==
    ASSUME NEW T, IsFiniteSet(T), NEW s \in Seq(Int),
           \A i \in 1 .. Len(s) : s[i] \in T,
           \A i, j \in 1 .. Len(s) : i # j => s[i] # s[j]
    PROVE  Len(s) <= Cardinality(T)
<1> DEFINE f == [i \in 1 .. Len(s) |-> s[i]]
<1>1. Len(s) \in Nat
  OBVIOUS
<1>2. f \in Injection(1 .. Len(s), T)
  BY Zenon DEF Injection, IsInjective
<1>3. Cardinality(1 .. Len(s)) <= Cardinality(T)
  BY <1>2, FS_Injection, Zenon
<1>4. Cardinality(1 .. Len(s)) = Len(s)
  <2>1. 1 \in Int /\ Len(s) \in Int
    BY <1>1
  <2>2. Cardinality(1 .. Len(s)) = IF 1 > Len(s) THEN 0 ELSE Len(s) - 1 + 1
    BY <2>1, FS_Interval, Zenon
  <2> QED BY <1>1, <2>2
<1> QED BY <1>3, <1>4

\* What a record that admitted requests with nonces of S has to show: s, the
\* nonces it remembers, and c, the ones it counted a receipt for.
Remembered(S, s, c) ==
    /\ s \in Seq(Int) /\ c \in Seq(Int)
    /\ Len(s) <= NonceMemory
    /\ \A i \in 1 .. Len(s) : s[i] \in S
    /\ \A i, j \in 1 .. Len(s) : i # j => s[i] # s[j]
    /\ \A i \in 1 .. Len(c) : Dealt!Contains(s, c[i]) \/ Len(s) = NonceMemory
    /\ \A i, j \in 1 .. Len(c) :
          i < j /\ c[i] = c[j] => Cardinality(S \ {c[i]}) >= NonceMemory

\* The nonces after one more request, as Remember keeps them.
After(s, x) == IF Len(Append(s, x)) > NonceMemory THEN Tail(Append(s, x)) ELSE Append(s, x)

\* More requests signed disturb no record.
LEMMA RememberedGrows ==
    ASSUME NonceMemory \in Nat, NEW S, NEW T, IsFiniteSet(T), S \subseteq T,
           NEW s, NEW c, Remembered(S, s, c)
    PROVE  Remembered(T, s, c)
<1>1. ASSUME NEW x PROVE /\ Cardinality(S \ {x}) \in Nat /\ Cardinality(T \ {x}) \in Nat
                         /\ Cardinality(S \ {x}) <= Cardinality(T \ {x})
  <2>1. IsFiniteSet(T \ {x}) /\ (S \ {x}) \in SUBSET (T \ {x})
    BY FS_RemoveElement
  <2>2. IsFiniteSet(S \ {x}) /\ Cardinality(S \ {x}) <= Cardinality(T \ {x})
    BY <2>1, FS_Subset, Zenon
  <2> QED BY <2>1, <2>2, FS_CardinalityType
<1>2. \A i, j \in 1 .. Len(c) :
         i < j /\ c[i] = c[j] => Cardinality(T \ {c[i]}) >= NonceMemory
  <2> TAKE i, j \in 1 .. Len(c)
  <2> HAVE i < j /\ c[i] = c[j]
  <2>1. Cardinality(S \ {c[i]}) >= NonceMemory
    BY DEF Remembered
  <2>2. /\ Cardinality(S \ {c[i]}) \in Nat /\ Cardinality(T \ {c[i]}) \in Nat
        /\ Cardinality(S \ {c[i]}) <= Cardinality(T \ {c[i]})
    BY <1>1, Zenon
  <2> QED BY <2>1, <2>2
<1> QED BY <1>2 DEF Remembered

\* An admitted nonce joins the remembered ones; the oldest leaves when full.
LEMMA AfterOf ==
    ASSUME NonceMemory \in Nat, NEW S \in SUBSET Int, NEW s, NEW c,
           Remembered(S, s, c), NEW x \in S, ~Dealt!Contains(s, x)
    PROVE  /\ After(s, x) \in Seq(Int)
           /\ Len(After(s, x)) <= NonceMemory
           /\ \A i \in 1 .. Len(After(s, x)) : After(s, x)[i] \in S
           /\ \A i, j \in 1 .. Len(After(s, x)) : i # j => After(s, x)[i] # After(s, x)[j]
           /\ Len(After(s, x)) = NonceMemory
              \/ /\ Dealt!Contains(After(s, x), x)
                 /\ \A y : Dealt!Contains(s, y) => Dealt!Contains(After(s, x), y)
           /\ Len(s) = NonceMemory => Len(After(s, x)) = NonceMemory
<1> DEFINE a == Append(s, x)
<1>1. s \in Seq(Int) /\ x \in Int /\ Len(s) \in Nat /\ Len(s) <= NonceMemory
  BY DEF Remembered
<1>2. \A i \in 1 .. Len(s) : s[i] \in S /\ s[i] # x
  BY DEF Remembered, Dealt!Contains
<1>3. \A i, j \in 1 .. Len(s) : i # j => s[i] # s[j]
  BY DEF Remembered
<1>4. /\ a \in Seq(Int) /\ Len(a) = Len(s) + 1 /\ a[Len(s) + 1] = x
      /\ \A i \in 1 .. Len(s) : a[i] = s[i]
  BY <1>1
<1>5. /\ \A i \in 1 .. Len(a) : a[i] \in S
      /\ \A i, j \in 1 .. Len(a) : i # j => a[i] # a[j]
  BY <1>1, <1>2, <1>3, <1>4
<1>6. CASE Len(s) = NonceMemory
  <2>1. After(s, x) = Tail(a)
    BY <1>1, <1>4, <1>6 DEF After
  <2> HIDE DEF a
  <2>2. /\ Tail(a) \in Seq(Int) /\ Len(Tail(a)) = NonceMemory
        /\ \A i \in 1 .. NonceMemory : Tail(a)[i] = a[i + 1]
    BY <1>1, <1>4, <1>6
  <2>3. \A i \in 1 .. NonceMemory : i + 1 \in 1 .. Len(a)
    BY <1>4, <1>6
  <2> QED BY <1>5, <2>1, <2>2, <2>3
<1>7. CASE Len(s) < NonceMemory
  <2>1. After(s, x) = a
    BY <1>1, <1>4, <1>7 DEF After
  <2>2. Dealt!Contains(a, x)
    BY <1>1, <1>4 DEF Dealt!Contains
  <2>3. ASSUME NEW y, Dealt!Contains(s, y) PROVE Dealt!Contains(a, y)
    BY <1>1, <1>4, <2>3 DEF Dealt!Contains
  <2> HIDE DEF a
  <2> QED BY <1>1, <1>4, <1>5, <1>7, <2>1, <2>2, <2>3
<1> QED BY <1>1, <1>6, <1>7

\* A request that only asks for a window keeps the record in order ...
LEMMA WindowRemembered ==
    ASSUME NonceMemory \in Nat, NEW S \in SUBSET Int, NEW s, NEW c,
           Remembered(S, s, c), NEW x \in S, ~Dealt!Contains(s, x)
    PROVE  Remembered(S, After(s, x), c)
BY AfterOf DEF Remembered

\* ... and so does one that counts a receipt, counted before or not.
LEMMA ReceiptRemembered ==
    ASSUME NonceMemory \in Nat, NEW S \in SUBSET Int, IsFiniteSet(S), NEW s, NEW c,
           Remembered(S, s, c), NEW x \in S, ~Dealt!Contains(s, x)
    PROVE  Remembered(S, After(s, x), Append(c, x))
<1> DEFINE e == Append(c, x)
<1>1. s \in Seq(Int) /\ c \in Seq(Int) /\ x \in Int /\ Len(c) \in Nat /\ Len(s) \in Nat
  BY DEF Remembered
<1>2. /\ e \in Seq(Int) /\ Len(e) = Len(c) + 1 /\ e[Len(c) + 1] = x
      /\ \A i \in 1 .. Len(c) : e[i] = c[i]
  BY <1>1
<1>3. \A j \in 1 .. Len(c) + 1 : j = Len(c) + 1 \/ j \in 1 .. Len(c)
  BY <1>1
<1> HIDE DEF e
<1>4. \A i \in 1 .. Len(e) : Dealt!Contains(After(s, x), e[i]) \/ Len(After(s, x)) = NonceMemory
  <2> TAKE i \in 1 .. Len(e)
  <2>1. CASE i = Len(c) + 1
    BY <1>2, <2>1, AfterOf
  <2>2. CASE i \in 1 .. Len(c)
    <3>1. Dealt!Contains(s, c[i]) \/ Len(s) = NonceMemory
      BY <2>2 DEF Remembered
    <3> QED BY <1>2, <2>2, <3>1, AfterOf
  <2> QED BY <1>1, <1>2, <2>1, <2>2
<1>5. ASSUME NEW i \in 1 .. Len(c), c[i] = x
      PROVE  Cardinality(S \ {x}) >= NonceMemory
  <2>1. Len(s) = NonceMemory
    BY <1>5 DEF Remembered
  <2>2. \A k \in 1 .. Len(s) : s[k] \in S \ {x}
    BY DEF Remembered, Dealt!Contains
  <2>3. \A k, l \in 1 .. Len(s) : k # l => s[k] # s[l]
    BY DEF Remembered
  <2>4. IsFiniteSet(S \ {x})
    BY FS_RemoveElement
  <2>5. Len(s) <= Cardinality(S \ {x})
    BY <1>1, <2>2, <2>3, <2>4, DistinctFit, Zenon
  <2>6. Cardinality(S \ {x}) \in Nat
    BY <2>4, FS_CardinalityType
  <2> QED BY <2>1, <2>5, <2>6
<1>6. \A i, j \in 1 .. Len(e) :
         i < j /\ e[i] = e[j] => Cardinality(S \ {e[i]}) >= NonceMemory
  <2> TAKE i, j \in 1 .. Len(e)
  <2> HAVE i < j /\ e[i] = e[j]
  <2>1. i \in 1 .. Len(c)
    BY <1>1, <1>2
  <2>2. CASE j = Len(c) + 1
    BY <1>2, <1>5, <2>1, <2>2
  <2>3. CASE j \in 1 .. Len(c)
    <3>1. c[i] = c[j] => Cardinality(S \ {c[i]}) >= NonceMemory
      BY <2>1, <2>3 DEF Remembered
    <3> QED BY <1>2, <2>1, <2>3, <3>1
  <2>4. j = Len(c) + 1 \/ j \in 1 .. Len(c)
    BY <1>2, <1>3, Zenon
  <2> QED BY <2>2, <2>3, <2>4, Zenon
<1>7. Remembered(S, After(s, x), e)
  <2>1. /\ After(s, x) \in Seq(Int)
        /\ Len(After(s, x)) <= NonceMemory
        /\ \A i \in 1 .. Len(After(s, x)) : After(s, x)[i] \in S
        /\ \A i, j \in 1 .. Len(After(s, x)) : i # j => After(s, x)[i] # After(s, x)[j]
    BY AfterOf
  <2> QED BY <1>2, <1>4, <1>6, <2>1, Zenon DEF Remembered
<1> QED BY <1>7 DEF e

-----------------------------------------------------------------------------
(* Dealt pads: the inductive invariant                                       *)

Record == [mark : Int, nonces : Seq(Int), counted : Seq(Int)]

\* The nonces a device has signed.
Asked(d) == {r.nonce : r \in {r \in signed : r.d = d}}

\* Requests name a device and a nonce of their own.
RequestsOk ==
    /\ IsFiniteSet(signed)
    /\ \A r \in signed : r.d \in Devices /\ r.nonce \in Int /\ r.want \in Nat

\* A ledger's records, in memory or on disk.
LedgerOk(book) ==
    /\ book \in [Devices -> Record]
    /\ \A d \in Devices : Remembered(Asked(d), book[d].nonces, book[d].counted)

\* A window lies below the mark on disk, which is not ahead of the one in memory.
MarksOk ==
    /\ \A d \in Devices : dealtDisk[d].mark <= mem[d].mark
    /\ \A w \in out : /\ w.d \in Devices /\ w.lo \in Int /\ w.hi \in Int
                      /\ w.hi <= dealtDisk[w.d].mark

WindowsApart == \A w, v \in out : w.d = v.d /\ w # v => Dealt!Disjoint(w, v)

PadInv ==
    /\ tunnel \in Devices \union {0}
    /\ RequestsOk
    /\ LedgerOk(mem)
    /\ LedgerOk(dealtDisk)
    /\ MarksOk
    /\ WindowsApart

\* What a device has signed is a finite set of numbers.
LEMMA NoncesFinite ==
    ASSUME NEW Q, IsFiniteSet(Q), \A r \in Q : r.nonce \in Int, NEW d
    PROVE  /\ {r.nonce : r \in {r \in Q : r.d = d}} \in SUBSET Int
           /\ IsFiniteSet({r.nonce : r \in {r \in Q : r.d = d}})
<1> DEFINE S == {r \in Q : r.d = d}
           T == {r.nonce : r \in S}
           f == [r \in S |-> r.nonce]
<1>1. IsFiniteSet(S)
  BY FS_Subset
<1>2. f \in Surjection(S, T)
  BY DEF Surjection
<1>3. T \in SUBSET Int
  OBVIOUS
<1>4. IsFiniteSet(T)
  <2> HIDE DEF f, S, T
  <2> QED BY <1>1, <1>2, FS_Surjection
<1> QED BY <1>3, <1>4

LEMMA AskedFinite ==
    ASSUME RequestsOk, NEW d PROVE Asked(d) \in SUBSET Int /\ IsFiniteSet(Asked(d))
BY NoncesFinite DEF RequestsOk, Asked

\* A save, whether the write lands or throws, keeps the invariant, if the
\* ledger it saves is in order, moves no mark back, and answers at most one
\* window, from the old mark in memory up to at most the new one.
LEMMA SavesKeep ==
    ASSUME PadInv, NEW after, NEW answer, Dealt!Saves(after, answer),
           UNCHANGED <<tunnel, signed>>, LedgerOk(after),
           \A d \in Devices : mem[d].mark <= after[d].mark,
           \A w \in answer : /\ w.d \in Devices /\ w.lo \in Int /\ w.hi \in Int
                             /\ mem[w.d].mark <= w.lo /\ w.hi <= after[w.d].mark,
           \A w, v \in answer : w = v
    PROVE  PadInv'
<1>1. /\ mem' = after
      /\ (dealtDisk' = after /\ out' = out \union answer) \/ UNCHANGED <<dealtDisk, out>>
  BY DEF Dealt!Saves
<1>2. \A d \in Devices : /\ mem[d].mark \in Int /\ dealtDisk[d].mark \in Int
                         /\ after[d].mark \in Int
  BY DEF PadInv, LedgerOk, Record
<1>3. LedgerOk(mem)' /\ LedgerOk(dealtDisk)'
  BY <1>1 DEF LedgerOk, PadInv, Asked
<1>4. MarksOk'
  <2>1. CASE dealtDisk' = after /\ out' = out \union answer
    <3>1. ASSUME NEW w \in out PROVE /\ w.d \in Devices /\ w.lo \in Int /\ w.hi \in Int
                                     /\ w.hi <= after[w.d].mark
      BY <1>2 DEF PadInv, MarksOk
    <3> QED BY <1>1, <1>2, <2>1, <3>1 DEF MarksOk
  <2>2. CASE UNCHANGED <<dealtDisk, out>>
    BY <1>1, <1>2, <2>2 DEF PadInv, MarksOk
  <2> QED BY <1>1, <2>1, <2>2
<1>5. WindowsApart'
  <2>1. CASE out' = out \union answer
    <3>1. ASSUME NEW w \in out, NEW v \in answer, w.d = v.d PROVE w.hi <= v.lo
      BY <1>2, <3>1 DEF PadInv, MarksOk
    <3> QED BY <2>1, <3>1 DEF PadInv, WindowsApart, Dealt!Disjoint
  <2>2. CASE UNCHANGED out
    BY <2>2 DEF PadInv, WindowsApart
  <2> QED BY <1>1, <2>1, <2>2
<1> QED BY <1>3, <1>4, <1>5 DEF PadInv, RequestsOk

-----------------------------------------------------------------------------
(* Dealt pads: one step per action                                           *)

\* Nothing of the ledger, the requests or the windows moves.
LEMMA QuietKeeps ==
    ASSUME PadInv, UNCHANGED <<mem, dealtDisk, signed, out>>, tunnel' \in Devices \union {0}
    PROVE  PadInv'
BY DEF PadInv, RequestsOk, LedgerOk, MarksOk, WindowsApart, Asked

LEMMA SignKeeps == ASSUME NonceMemory \in Nat, MaxWindow \in Nat, PadInv, Dealt!Sign PROVE PadInv'
<1>1. PICK kind \in {"reserve", "receipt"}, n \in 1 .. MaxWindow :
          signed' = signed \union {[d |-> tunnel, kind |-> kind, want |-> n,
                                    nonce |-> Cardinality(signed) + 1]}
  BY PadCounts DEF Dealt!Sign
<1> DEFINE q == [d |-> tunnel, kind |-> kind, want |-> n, nonce |-> Cardinality(signed) + 1]
<1>2. tunnel \in Devices /\ UNCHANGED <<tunnel, mem, dealtDisk, out>>
  BY DEF Dealt!Sign, PadInv
<1>3. IsFiniteSet(signed) /\ Cardinality(signed) \in Nat
  BY FS_CardinalityType DEF PadInv, RequestsOk
<1>4. q.d \in Devices /\ q.nonce \in Int /\ q.want \in Nat
  BY <1>2, <1>3
<1> HIDE DEF q
<1>5. RequestsOk'
  <2>1. IsFiniteSet(signed \union {q})
    BY <1>3, FS_AddElement
  <2> QED BY <1>1, <1>4, <2>1 DEF PadInv, RequestsOk, q
<1>6. ASSUME NEW d \in Devices PROVE Asked(d) \subseteq Asked(d)' /\ IsFiniteSet(Asked(d)')
  <2>1. Asked(d) \subseteq Asked(d)'
    BY <1>1 DEF Asked
  <2>2. Asked(d)' = {r.nonce : r \in {r \in signed' : r.d = d}}
    BY DEF Asked
  <2>3. IsFiniteSet(signed') /\ \A r \in signed' : r.nonce \in Int
    BY <1>5 DEF RequestsOk
  <2>4. IsFiniteSet(Asked(d)')
    <3>1. IsFiniteSet({r.nonce : r \in {r \in signed' : r.d = d}})
      BY <2>3, NoncesFinite, Zenon
    <3> QED BY <2>2, <3>1
  <2> QED BY <2>1, <2>4
<1>7. ASSUME NEW book, LedgerOk(book), NEW d \in Devices
      PROVE  Remembered(Asked(d)', book[d].nonces, book[d].counted)
  BY <1>6, <1>7, RememberedGrows DEF LedgerOk
<1> QED BY <1>2, <1>5, <1>7 DEF PadInv, LedgerOk, MarksOk, WindowsApart

LEMMA SeedKeeps == ASSUME NonceMemory \in Nat, PadInv, NEW d \in Devices, Dealt!Seed(d) PROVE PadInv'
<1> DEFINE rec == IF mem[d] = Dealt!NoRecord THEN [Dealt!NoRecord EXCEPT !.mark = 0] ELSE mem[d]
           after == [mem EXCEPT ![d] = rec]
<1>1. mem \in [Devices -> Record]
  BY DEF PadInv, LedgerOk
<1>2. Dealt!Saves(after, {}) /\ UNCHANGED <<tunnel, signed>>
  BY <1>1 DEF Dealt!Seed
<1>3. /\ rec \in Record /\ mem[d].mark <= rec.mark
      /\ rec.nonces = mem[d].nonces /\ rec.counted = mem[d].counted
  <2>1. CASE mem[d] = Dealt!NoRecord
    <3>1. rec = [mark |-> 0, nonces |-> <<>>, counted |-> <<>>]
      BY <2>1 DEF Dealt!NoRecord
    <3>2. mem[d].mark = -1 /\ mem[d].nonces = <<>> /\ mem[d].counted = <<>>
      BY <2>1 DEF Dealt!NoRecord
    <3> HIDE DEF rec
    <3>3. rec \in Record /\ rec.mark = 0 /\ rec.nonces = <<>> /\ rec.counted = <<>>
      BY <3>1 DEF Record
    <3> QED BY <3>2, <3>3
  <2>2. CASE mem[d] # Dealt!NoRecord
    <3>1. rec = mem[d]
      BY <2>2
    <3>2. mem[d].mark \in Int
      BY <1>1 DEF Record
    <3> HIDE DEF rec
    <3> QED BY <1>1, <3>1, <3>2
  <2> QED BY <2>1, <2>2
<1> HIDE DEF rec
<1>4. LedgerOk(after)
  BY <1>1, <1>3 DEF PadInv, LedgerOk
<1>5. \A i \in Devices : mem[i].mark <= after[i].mark
  BY <1>1, <1>3 DEF Record
<1> HIDE DEF after
<1> QED BY <1>2, <1>4, <1>5, SavesKeep

\* The record a request leaves behind, and the ledger with it in place.
LEMMA RecordKept ==
    ASSUME PadInv, NEW d \in Devices, NEW rec \in Record, mem[d].mark <= rec.mark,
           Remembered(Asked(d), rec.nonces, rec.counted)
    PROVE  /\ LedgerOk([mem EXCEPT ![d] = rec])
           /\ [mem EXCEPT ![d] = rec][d] = rec
           /\ \A i \in Devices : mem[i].mark <= [mem EXCEPT ![d] = rec][i].mark
<1> DEFINE after == [mem EXCEPT ![d] = rec]
<1>1. mem \in [Devices -> Record]
  BY DEF PadInv, LedgerOk
<1>3. after[d] = rec /\ \A i \in Devices : i # d => after[i] = mem[i]
  BY <1>1
<1>4. after \in [Devices -> Record]
  BY <1>1
<1> HIDE DEF after
<1>5. LedgerOk(after)
  <2>1. \A i \in Devices : Remembered(Asked(i), mem[i].nonces, mem[i].counted)
    BY DEF PadInv, LedgerOk
  <2> QED BY <1>3, <1>4, <2>1 DEF LedgerOk
<1>6. \A i \in Devices : mem[i].mark \in Int
  BY <1>1 DEF Record
<1> QED BY <1>3, <1>5, <1>6 DEF after

\* A record with a nonce remembered is its fields.
LEMMA RememberIs ==
    ASSUME NEW rec \in Record, NEW x
    PROVE  Dealt!Remember(rec, x) = [mark |-> rec.mark, nonces |-> After(rec.nonces, x),
                               counted |-> rec.counted]
<1>1. rec = [mark |-> rec.mark, nonces |-> rec.nonces, counted |-> rec.counted]
  BY DEF Record
<1>2. Dealt!Remember(rec, x) = [rec EXCEPT !.nonces = After(rec.nonces, x)]
  BY DEF Dealt!Remember, After
<1> DEFINE s == rec.nonces
           t == After(rec.nonces, x)
<1>3. [[mark |-> rec.mark, nonces |-> s, counted |-> rec.counted] EXCEPT !.nonces = t]
        = [mark |-> rec.mark, nonces |-> t, counted |-> rec.counted]
  <2> HIDE DEF s, t
  <2> QED OBVIOUS
<1> QED BY <1>1, <1>2, <1>3

\* What an admitted request shows.
LEMMA AdmittedFacts ==
    ASSUME PadInv, NEW r \in signed, Dealt!Admitted(r)
    PROVE  /\ r.d \in Devices /\ r.nonce \in Asked(r.d) /\ r.want \in Nat
           /\ mem[r.d] \in Record
           /\ Remembered(Asked(r.d), mem[r.d].nonces, mem[r.d].counted)
           /\ ~Dealt!Contains(mem[r.d].nonces, r.nonce)
           /\ Asked(r.d) \in SUBSET Int /\ IsFiniteSet(Asked(r.d))
<1>1. r.d \in Devices /\ r.nonce \in Asked(r.d) /\ r.want \in Nat
  BY DEF PadInv, RequestsOk, Asked
<1> QED BY <1>1, AskedFinite DEF PadInv, LedgerOk, Dealt!Admitted

LEMMA ReserveKeeps ==
    ASSUME NonceMemory \in Nat, PadInv, NEW r \in signed, Dealt!Reserve(r) PROVE PadInv'
<1> DEFINE rec == mem[r.d]
           hi == rec.mark + r.want
           w == [n |-> Cardinality(out), d |-> r.d, lo |-> rec.mark, hi |-> hi]
           left == [Dealt!Remember(rec, r.nonce) EXCEPT !.mark = hi]
           after == [mem EXCEPT ![r.d] = left]
<1>1. Dealt!Admitted(r) /\ Dealt!Saves(after, {w}) /\ UNCHANGED <<tunnel, signed>>
  BY PadCounts DEF Dealt!Reserve
<1>2. /\ r.d \in Devices /\ r.nonce \in Asked(r.d) /\ r.want \in Nat /\ rec \in Record
      /\ Remembered(Asked(r.d), rec.nonces, rec.counted) /\ ~Dealt!Contains(rec.nonces, r.nonce)
      /\ Asked(r.d) \in SUBSET Int
  BY <1>1, AdmittedFacts
<1>3. Remembered(Asked(r.d), After(rec.nonces, r.nonce), rec.counted)
  BY <1>2, WindowRemembered
<1>4. left = [mark |-> hi, nonces |-> After(rec.nonces, r.nonce), counted |-> rec.counted]
  <2>1. Dealt!Remember(rec, r.nonce) = [mark |-> rec.mark, nonces |-> After(rec.nonces, r.nonce),
                                  counted |-> rec.counted]
    BY <1>2, RememberIs
  <2> HIDE DEF rec, hi
  <2> QED BY <2>1
<1>5. hi \in Int /\ rec.mark \in Int /\ hi >= rec.mark
  BY <1>2 DEF Record
<1> HIDE DEF hi, left
<1>6. after = [mem EXCEPT ![r.d] = left]
  OBVIOUS
<1> HIDE DEF after
<1>7. /\ LedgerOk(after) /\ after[r.d].mark = hi
      /\ \A i \in Devices : mem[i].mark <= after[i].mark
  <2>1. left \in Record /\ mem[r.d].mark <= left.mark /\ left.mark = hi
    BY <1>3, <1>4, <1>5 DEF Remembered, Record
  <2>2. Remembered(Asked(r.d), left.nonces, left.counted)
    BY <1>3, <1>4
  <2> QED BY <1>2, <1>6, <2>1, <2>2, RecordKept
<1>8. w.d = r.d /\ w.lo = rec.mark /\ w.hi = hi
  OBVIOUS
<1> HIDE DEF w
<1> QED BY <1>1, <1>2, <1>5, <1>7, <1>8, SavesKeep

LEMMA ReceiptKeeps ==
    ASSUME NonceMemory \in Nat, PadInv, NEW r \in signed, Dealt!Receipt(r) PROVE PadInv'
<1> DEFINE rec == mem[r.d]
           left == [Dealt!Remember(rec, r.nonce) EXCEPT !.counted = Append(@, r.nonce)]
           after == [mem EXCEPT ![r.d] = left]
<1>1. Dealt!Admitted(r) /\ Dealt!Saves(after, {}) /\ UNCHANGED <<tunnel, signed>>
  BY DEF Dealt!Receipt
<1>2. /\ r.d \in Devices /\ r.nonce \in Asked(r.d) /\ rec \in Record
      /\ Remembered(Asked(r.d), rec.nonces, rec.counted) /\ ~Dealt!Contains(rec.nonces, r.nonce)
      /\ Asked(r.d) \in SUBSET Int /\ IsFiniteSet(Asked(r.d))
  BY <1>1, AdmittedFacts
<1>3. Remembered(Asked(r.d), After(rec.nonces, r.nonce), Append(rec.counted, r.nonce))
  BY <1>2, ReceiptRemembered
<1>4. left = [mark |-> rec.mark, nonces |-> After(rec.nonces, r.nonce),
              counted |-> Append(rec.counted, r.nonce)]
  <2>1. Dealt!Remember(rec, r.nonce) = [mark |-> rec.mark, nonces |-> After(rec.nonces, r.nonce),
                                  counted |-> rec.counted]
    BY <1>2, RememberIs
  <2> DEFINE kept == After(rec.nonces, r.nonce)
             more == Append(rec.counted, r.nonce)
  <2>2. left = [[mark |-> rec.mark, nonces |-> kept, counted |-> rec.counted]
                  EXCEPT !.counted = more]
    <3>1. Dealt!Remember(rec, r.nonce).counted = rec.counted
      BY <2>1
    <3> HIDE DEF rec
    <3> QED BY <2>1, <3>1
  <2> HIDE DEF rec, kept, more, left
  <2>3. left = [mark |-> rec.mark, nonces |-> kept, counted |-> more]
    BY <2>2
  <2> QED BY <2>3 DEF kept, more
<1>5. rec.mark \in Int /\ rec.mark >= mem[r.d].mark
  BY <1>2 DEF Record
<1> HIDE DEF left
<1>6. after = [mem EXCEPT ![r.d] = left]
  OBVIOUS
<1> HIDE DEF after
<1>7. LedgerOk(after) /\ \A i \in Devices : mem[i].mark <= after[i].mark
  <2>1. left \in Record /\ mem[r.d].mark <= left.mark
    BY <1>3, <1>4, <1>5 DEF Remembered, Record
  <2>2. Remembered(Asked(r.d), left.nonces, left.counted)
    BY <1>3, <1>4
  <2> QED BY <1>2, <1>6, <2>1, <2>2, RecordKept
<1> QED BY <1>1, <1>7, SavesKeep

\* A restart reads back the ledger on disk, where every window is accounted for.
LEMMA CrashKeeps == ASSUME PadInv, Dealt!Crash PROVE PadInv'
<1>1. mem' = dealtDisk /\ tunnel' = 0 /\ UNCHANGED <<dealtDisk, signed, out>>
  BY DEF Dealt!Crash
<1>2. \A d \in Devices : dealtDisk[d].mark \in Int
  BY DEF PadInv, LedgerOk, Record
<1>3. RequestsOk' /\ WindowsApart' /\ LedgerOk(mem)' /\ LedgerOk(dealtDisk)'
  BY <1>1 DEF PadInv, RequestsOk, WindowsApart, LedgerOk, Asked
<1>4. MarksOk'
  BY <1>1, <1>2 DEF PadInv, MarksOk
<1> QED BY <1>1, <1>3, <1>4 DEF PadInv

-----------------------------------------------------------------------------
(* Dealt pads: the theorem                                                   *)

LEMMA PadStep ==
    ASSUME NonceMemory \in Nat, MaxWindow \in Nat, PadInv, [Dealt!Next]_(Dealt!vars) PROVE PadInv'
<1>1. CASE \E d \in Devices : Dealt!Attach(d)
  BY <1>1, QuietKeeps DEF Dealt!Attach
<1>2. CASE \E d \in Devices : Dealt!Seed(d)
  BY <1>2, SeedKeeps
<1>3. CASE Dealt!Detach
  BY <1>3, QuietKeeps DEF Dealt!Detach
<1>4. CASE Dealt!Sign
  BY <1>4, SignKeeps
<1>5. CASE Dealt!Crash
  BY <1>5, CrashKeeps
<1>6. CASE \E r \in signed : Dealt!Reserve(r)
  BY <1>6, ReserveKeeps
<1>7. CASE \E r \in signed : Dealt!Receipt(r)
  BY <1>7, ReceiptKeeps
<1>8. CASE Dealt!Put \/ Dealt!PutFinished \/ Dealt!RemoveArtifact
  BY <1>8, QuietKeeps DEF Dealt!Put, Dealt!PutFinished, Dealt!RemoveArtifact, PadInv
<1>9. CASE UNCHANGED Dealt!vars
  BY <1>9, QuietKeeps DEF Dealt!vars, PadInv
<1> QED BY <1>1, <1>2, <1>3, <1>4, <1>5, <1>6, <1>7, <1>8, <1>9, Zenon DEF Dealt!Next

LEMMA PadStart == ASSUME NonceMemory \in Nat, Dealt!Init PROVE PadInv
<1>1. \A S : Remembered(S, <<>>, <<>>)
  BY DEF Remembered
<1>2. Dealt!NoRecord \in Record /\ Dealt!NoRecord.nonces = <<>> /\ Dealt!NoRecord.counted = <<>>
  BY DEF Dealt!NoRecord, Record
<1>3. mem = [d \in Devices |-> Dealt!NoRecord] /\ dealtDisk = mem /\ signed = {} /\ out = {} /\ tunnel = 0
  BY DEF Dealt!Init
<1>4. \A d \in Devices : mem[d].mark \in Int
  BY <1>2, <1>3 DEF Record
<1> QED BY <1>1, <1>2, <1>3, <1>4, FS_EmptySet
        DEF PadInv, RequestsOk, LedgerOk, MarksOk, WindowsApart

\* No two windows that ever left the relay overlap, and a receipt is counted
\* again only after NonceMemory other requests of its device (reserve, receipt,
\* save in pads.mjs), whatever crashes, failed writes and replays come between.
THEOREM PadsAreUsedOnce ==
    ASSUME NonceMemory \in Nat, MaxWindow \in Nat PROVE Dealt!Spec => []Dealt!PadsUsedOnce
<1>1. Dealt!Init => PadInv
  BY PadStart
<1>2. PadInv /\ [Dealt!Next]_(Dealt!vars) => PadInv'
  BY PadStep
<1>3. PadInv => Dealt!PadsUsedOnce
  BY PadCounts DEF PadInv, LedgerOk, Remembered, WindowsApart, Dealt!PadsUsedOnce, Asked
<1> QED BY <1>1, <1>2, <1>3, PTL DEF Dealt!Spec

-----------------------------------------------------------------------------
(* Custom domains                                                            *)

Names == INSTANCE Domains WITH disk <- namesDisk, faults <- namesFaults,
    MaxFaults <- MaxNamesFaults

Statuses == {"pending_dns", "verified", "active", "failed"}
Attachment == [dep : Deps, status : Statuses, strikes : Int, missing : BOOLEAN]

\* Attachments that are live were proven.
LiveProven(rs) == \A k \in DOMAIN rs : Names!Live(rs[k]) => k \in proven

DomainInv ==
    /\ recs \in Seq(Attachment) /\ host \in 0 .. Len(recs)
    /\ namesDisk.recs \in Seq(Attachment) /\ namesDisk.host \in 0 .. Len(namesDisk.recs) /\ Len(namesDisk.recs) <= Len(recs)
    /\ LiveProven(recs) /\ LiveProven(namesDisk.recs)
    /\ \A c \in checks : c.rec \in DOMAIN recs /\ c.v \in {"ok", "no", "indeterminate"} /\ (c.v = "ok" => c.rec \in proven)

\* A check proves what it saw, and changes no record.
LEMMA CheckStarts ==
    ASSUME NEW k, Names!StartCheck(k)
    PROVE  /\ proven \subseteq proven'
           /\ \A c \in checks' : \/ c \in checks
                                 \/ c.rec = k /\ c.v \in {"ok", "no", "indeterminate"} /\ (c.v = "ok" => k \in proven')
BY DEF Names!StartCheck, Names!Lookup, Names!Evaluate

\* Records change, none of them to a life it had not proven.
LEMMA RecordsChange ==
    ASSUME DomainInv, recs' \in Seq(Attachment), Len(recs') >= Len(recs), host' \in 0 .. Len(recs'), proven \subseteq proven',
           \A k \in DOMAIN recs' : Names!Live(recs'[k]) => k \in proven' \/ (k \in DOMAIN recs /\ Names!Live(recs[k])),
           \/ namesDisk' = namesDisk
           \/ namesDisk'.recs = recs' /\ namesDisk'.host \in 0 .. Len(recs'),
           \A c \in checks' : \/ c \in checks
                              \/ /\ c.rec \in DOMAIN recs' /\ c.v \in {"ok", "no", "indeterminate"}
                                 /\ c.v = "ok" => c.rec \in proven'
    PROVE  DomainInv'
<1>1. LiveProven(recs)'
  BY DEF DomainInv, LiveProven
<1>2. /\ namesDisk'.recs \in Seq(Attachment) /\ namesDisk'.host \in 0 .. Len(namesDisk'.recs) /\ Len(namesDisk'.recs) <= Len(recs')
      /\ LiveProven(namesDisk.recs)'
  BY <1>1 DEF DomainInv, LiveProven
<1>3. DOMAIN recs \subseteq DOMAIN recs'
  BY DEF DomainInv
<1> QED BY <1>1, <1>2, <1>3 DEF DomainInv

\* One record is rewritten, to one that is live only if it was or was proven.
LEMMA RecordChanges ==
    ASSUME DomainInv, NEW k \in DOMAIN recs, NEW r \in Attachment, recs' = [recs EXCEPT ![k] = r],
           Names!Live(r) => Names!Live(recs[k]) \/ k \in proven, proven \subseteq proven'
    PROVE  /\ recs' \in Seq(Attachment) /\ Len(recs') = Len(recs)
           /\ \A q \in DOMAIN recs' : Names!Live(recs'[q]) => q \in proven' \/ (q \in DOMAIN recs /\ Names!Live(recs[q]))
BY DEF DomainInv

Restate(r, n, st) == [r EXCEPT !.strikes = n, !.status = st]

LEMMA Restated ==
    ASSUME NEW r \in Attachment, NEW n \in Int, NEW st \in Statuses
    PROVE  Restate(r, n, st) \in Attachment /\ Restate(r, n, st).status = st
<1> DEFINE u == [r EXCEPT !.strikes = n]
<1>1. u \in Attachment
  BY DEF Attachment
<1> HIDE DEF u
<1>2. [u EXCEPT !.status = st] \in Attachment /\ [u EXCEPT !.status = st].status = st
  BY <1>1 DEF Attachment
<1> QED BY <1>2 DEF u, Restate

LEMMA JudgedIs ==
    ASSUME Fail \in Int, NEW r \in Attachment, NEW v \in {"ok", "no", "indeterminate"}
    PROVE  /\ Names!Judged(r, v) \in Attachment
           /\ Names!Live(Names!Judged(r, v)) => Names!Live(r) \/ v = "ok"
<1> DEFINE strikes == IF r.strikes < Fail THEN r.strikes + 1 ELSE Fail
           next == IF Names!Live(r) /\ strikes >= Demote THEN "pending_dns"
                 ELSE IF ~Names!Live(r) /\ strikes >= Fail THEN "failed" ELSE r.status
<1>1. CASE v = "indeterminate"
  BY <1>1 DEF Names!Judged
<1>2. CASE v = "ok"
  <2>1. Names!Judged(r, v) = Restate(r, 0, IF r.status = "active" THEN r.status ELSE "verified")
    BY <1>2 DEF Names!Judged, Restate
  <2> DEFINE to == IF r.status = "active" THEN r.status ELSE "verified"
  <2>2. to \in Statuses
    BY DEF Statuses
  <2> HIDE DEF to
  <2>3. Restate(r, 0, to) \in Attachment
    BY <2>2, Restated
  <2> QED BY <1>2, <2>1, <2>3 DEF to
<1>3. CASE v = "no"
  <2>1. Names!Judged(r, v) = Restate(r, strikes, next)
    BY <1>3 DEF Names!Judged, Restate
  <2>2. strikes \in Int /\ r.status \in Statuses
    BY DEF Attachment
  <2>3. next \in Statuses /\ next \in {"pending_dns", "failed", r.status}
    BY <2>2 DEF Statuses
  <2> HIDE DEF strikes, next
  <2>4. Restate(r, strikes, next) \in Attachment
        /\ Restate(r, strikes, next).status = next
    BY <2>2, <2>3, Restated
  <2> QED BY <1>3, <2>1, <2>3, <2>4 DEF Names!Live
<1> QED BY <1>1, <1>2, <1>3

LEMMA DomainStep == ASSUME Fail \in Int, DomainInv, [Names!Next]_(Names!vars) PROVE DomainInv'
<1>1. CASE Names!Sweep
  <2>1. UNCHANGED <<recs, host, namesDisk>> /\ host \in DOMAIN recs
    BY <1>1 DEF Names!Sweep, DomainInv
  <2> QED BY <1>1, <2>1, CheckStarts, RecordsChange DEF Names!Sweep, DomainInv
<1>2. CASE Names!ApplyVerdict
  <2>1. PICK c \in checks : checks' = checks \ {c} /\ recs' = [recs EXCEPT ![c.rec] = Names!Judged(recs[c.rec], c.v)]
    BY <1>2 DEF Names!ApplyVerdict, Names!Target
  <2>2. /\ UNCHANGED <<host, namesDisk, proven>> /\ c.rec \in DOMAIN recs /\ recs[c.rec] \in Attachment
        /\ c.v \in {"ok", "no", "indeterminate"} /\ (c.v = "ok" => c.rec \in proven)
    BY <1>2, <2>1 DEF Names!ApplyVerdict, DomainInv
  <2> DEFINE r == Names!Judged(recs[c.rec], c.v)
  <2>3. r \in Attachment /\ (Names!Live(r) => Names!Live(recs[c.rec]) \/ c.rec \in proven)
    BY <2>2, JudgedIs
  <2> HIDE DEF r
  <2>4. recs' = [recs EXCEPT ![c.rec] = r]
    BY <2>1 DEF r
  <2> QED BY <2>1, <2>2, <2>3, <2>4, RecordChanges, RecordsChange DEF DomainInv
<1>3. CASE Names!Purge
  <2>1. /\ host \in DOMAIN recs /\ recs[host] \in Attachment /\ host' \in 0 .. Len(recs) /\ UNCHANGED <<namesDisk, checks, proven>>
        /\ recs' = [recs EXCEPT ![host].missing = recs[host].dep \notin ledger]
    BY <1>3 DEF Names!Purge, DomainInv
  <2> DEFINE r == [recs[host] EXCEPT !.missing = recs[host].dep \notin ledger]
  <2>2. r \in Attachment /\ (Names!Live(r) => Names!Live(recs[host])) /\ recs' = [recs EXCEPT ![host] = r]
    BY <2>1 DEF Attachment, Names!Live
  <2> HIDE DEF r
  <2>3. /\ recs' \in Seq(Attachment) /\ Len(recs') = Len(recs)
        /\ \A q \in DOMAIN recs' : Names!Live(recs'[q]) => q \in proven' \/ (q \in DOMAIN recs /\ Names!Live(recs[q]))
    BY <2>1, <2>2, RecordChanges
  <2>4. host' \in 0 .. Len(recs') /\ namesDisk' = namesDisk /\ proven' = proven /\ \A c \in checks' : c \in checks
    BY <2>1, <2>3
  <2> QED BY <2>3, <2>4, RecordsChange
<1>4. CASE Names!Save
  BY <1>4, RecordsChange DEF Names!Save, Names!Saved, DomainInv
<1>5. CASE Names!Restart
  <2>1. /\ recs' = [k \in DOMAIN recs |-> IF k \in DOMAIN namesDisk.recs THEN namesDisk.recs[k] ELSE recs[k]]
        /\ host' = namesDisk.host /\ checks' = {} /\ UNCHANGED <<namesDisk, proven>>
    BY <1>5 DEF Names!Restart
  <2>2. recs' \in Seq(Attachment) /\ Len(recs') = Len(recs)
    BY <2>1 DEF DomainInv
  <2>3. \A k \in DOMAIN recs' : Names!Live(recs'[k]) => k \in proven
    BY <2>1 DEF DomainInv, LiveProven
  <2> QED BY <2>1, <2>2, <2>3, RecordsChange DEF DomainInv
<1>6. ASSUME NEW d \in Deps, Names!Add(d) PROVE DomainInv'
  <2>1. /\ recs' = Append(recs, Names!Record(d)) /\ host' = Len(recs') /\ Names!StartCheck(host')
        /\ namesDisk' = [host |-> host', recs |-> recs']
    BY <1>6 DEF Names!Add
  <2>2. Names!Record(d) \in Attachment /\ ~Names!Live(Names!Record(d))
    BY DEF Names!Record, Attachment, Statuses, Names!Live
  <2>3. /\ recs' \in Seq(Attachment) /\ Len(recs') = Len(recs) + 1 /\ host' \in DOMAIN recs'
        /\ \A k \in DOMAIN recs' : Names!Live(recs'[k]) => k \in DOMAIN recs /\ Names!Live(recs[k])
    BY <2>1, <2>2 DEF DomainInv
  <2>4. namesDisk'.recs = recs' /\ namesDisk'.host \in 0 .. Len(recs')
    BY <2>1, <2>3
  <2>5. /\ proven \subseteq proven'
        /\ \A c \in checks' : \/ c \in checks
                              \/ c.rec = host' /\ c.v \in {"ok", "no", "indeterminate"} /\ (c.v = "ok" => host' \in proven')
    BY <2>1, CheckStarts
  <2> QED BY <2>3, <2>4, <2>5, RecordsChange DEF DomainInv
<1>7. ASSUME NEW d \in Deps, Names!Verify(d) PROVE DomainInv'
  <2> DEFINE r == IF recs[host].status = "failed" THEN [recs[host] EXCEPT !.status = "pending_dns", !.strikes = 0]
                  ELSE recs[host]
  <2>1. /\ host \in DOMAIN recs /\ recs[host] \in Attachment /\ Names!StartCheck(host) /\ UNCHANGED <<host, namesDisk>>
        /\ recs' = [recs EXCEPT ![host] = r]
    BY <1>7 DEF Names!Verify, Names!Attached, DomainInv
  <2>2. r \in Attachment /\ (Names!Live(r) => Names!Live(recs[host]))
    <3> DEFINE w == [recs[host] EXCEPT !.status = "pending_dns", !.strikes = 0]
               u == [recs[host] EXCEPT !.status = "pending_dns"]
    <3>1. u \in Attachment /\ u.status = "pending_dns"
      BY <2>1 DEF Attachment, Statuses
    <3> HIDE DEF u
    <3>2. [u EXCEPT !.strikes = 0] \in Attachment /\ [u EXCEPT !.strikes = 0].status = "pending_dns"
      BY <3>1 DEF Attachment
    <3>3. w \in Attachment /\ w.status = "pending_dns"
      BY <3>2 DEF u
    <3> HIDE DEF w
    <3> QED BY <2>1, <3>3 DEF Names!Live, w
  <2> HIDE DEF r
  <2>3. proven \subseteq proven'
    BY <2>1, CheckStarts
  <2>4. /\ recs' \in Seq(Attachment) /\ Len(recs') = Len(recs)
        /\ \A q \in DOMAIN recs' : Names!Live(recs'[q]) => q \in proven' \/ (q \in DOMAIN recs /\ Names!Live(recs[q]))
    BY <2>1, <2>2, <2>3, RecordChanges
  <2> QED BY <2>1, <2>3, <2>4, CheckStarts, RecordsChange DEF DomainInv
<1>8. ASSUME NEW d \in Deps, Names!Delete(d) PROVE DomainInv'
  <2>1. UNCHANGED <<recs, checks, proven>> /\ host' = 0 /\ namesDisk' = [host |-> 0, recs |-> recs]
    BY <1>8 DEF Names!Delete
  <2> QED BY <2>1, RecordsChange DEF DomainInv
<1>9. ASSUME NEW d \in Deps, Names!Fetch(d) PROVE DomainInv'
  <2>1. PICK cert \in {"none", "ok", "bad"} :
            recs' = IF Names!Attached(d) THEN [recs EXCEPT ![host] = Names!Reported(recs[host], cert)] ELSE recs
    BY <1>9 DEF Names!Fetch
  <2>2. UNCHANGED <<host, namesDisk, checks, proven>>
    BY <1>9 DEF Names!Fetch
  <2>3. CASE recs' = recs
    BY <2>2, <2>3, RecordsChange DEF DomainInv
  <2>4. CASE Names!Attached(d) /\ recs' = [recs EXCEPT ![host] = Names!Reported(recs[host], cert)]
    <3> DEFINE r == Names!Reported(recs[host], cert)
    <3>1. host \in DOMAIN recs /\ recs[host] \in Attachment
      BY <2>4 DEF Names!Attached, DomainInv
    <3>2. r \in Attachment /\ (Names!Live(r) => Names!Live(recs[host]))
      <4>1. r \in {recs[host], [recs[host] EXCEPT !.status = "active"], [recs[host] EXCEPT !.status = "verified"]}
            /\ (r # recs[host] => Names!Live(recs[host]))
        BY DEF Names!Reported, Names!Live
      <4> HIDE DEF r
      <4> QED BY <3>1, <4>1 DEF Attachment, Statuses
    <3> HIDE DEF r
    <3>3. recs' = [recs EXCEPT ![host] = r]
      BY <2>4 DEF r
    <3> QED BY <2>2, <3>1, <3>2, <3>3, RecordChanges, RecordsChange DEF DomainInv
  <2> QED BY <2>1, <2>3, <2>4
<1>10. CASE UNCHANGED <<recs, host, namesDisk, checks, proven>>
  BY <1>10, RecordsChange DEF DomainInv
<1> QED BY <1>1, <1>2, <1>3, <1>4, <1>5, <1>6, <1>7, <1>8, <1>9, <1>10
        DEF Names!Next, Names!vars, Names!Forget, Names!PublishDns, Names!Pruned

LEMMA DomainStart == ASSUME Names!Init PROVE DomainInv
BY DEF Names!Init, DomainInv, LiveProven

\* A name is routed to a deployment only if a check since it was attached there
\* saw that attachment's own token and the routing in DNS (domainMap, applyVerdict):
\* for any number of deployments, attachments and checks, any demotion threshold,
\* and verdicts that come late, after a deletion, a re-attachment or a restart.
THEOREM DomainsServedOnlyProven == ASSUME Fail \in Int PROVE Names!Spec => []Names!ServedOnlyProven
<1>1. DomainInv => Names!ServedOnlyProven
  BY DEF DomainInv, LiveProven, Names!ServedOnlyProven
<1> QED BY <1>1, DomainStart, DomainStep, PTL DEF Names!Spec

-----------------------------------------------------------------------------
(* Accounts                                                                  *)

People == INSTANCE Accounts WITH disk <- peopleDisk, faults <- peopleFaults,
    MaxFaults <- MaxPeopleFaults

Account == [keys : Seq(Creds), wallets : SUBSET Wallets]
Token == [kind : {"authn", "siwe", "device", "reg"}, acct : Int, st : {"open", "spent", "approved", "denied"}]

\* A table of accounts: ids that were drawn, and an index of their keys and wallets.
Table(d) ==
    /\ d = [accs |-> d.accs, byCred |-> d.byCred, byWallet |-> d.byWallet]
    /\ DOMAIN d.accs \subseteq 1 .. born /\ d.accs \in [DOMAIN d.accs -> Account]
    /\ d.byCred \in [Creds -> 0 .. born] /\ d.byWallet \in [Wallets -> 0 .. born]

\* Every account lists what the index says, once, and has a way in.
Indexed(d) ==
    \A a \in DOMAIN d.accs :
        /\ \A c \in Creds : (\E n \in 1 .. Len(d.accs[a].keys) : d.accs[a].keys[n] = c) <=> d.byCred[c] = a
        /\ \A n, m \in 1 .. Len(d.accs[a].keys) : d.accs[a].keys[n] = d.accs[a].keys[m] => n = m
        /\ \A w \in Wallets : w \in d.accs[a].wallets <=> d.byWallet[w] = a
        /\ Len(d.accs[a].keys) > 0 \/ d.accs[a].wallets # {}

\* A handler that waits holds a token that is spent and signed nobody in.
Waiting(r) ==
    /\ r.op \in {"register", "login", "siwe", "link", "delete"}
    /\ r.op # "delete" => /\ r.tok \in 1 .. Len(tokens) /\ tokens[r.tok].st = "spent"
                          /\ \A g \in grants : g.tok # r.tok
                          /\ \A s \in reqs : s.op # "delete" /\ s.tok = r.tok => s = r
    /\ r.op \in {"register", "delete"} => r.what \in Creds
    /\ r.op \in {"siwe", "link"} => r.what \in Wallets
    /\ r.op \in {"link", "delete"} => r.acct \in DOMAIN db.accs
    /\ r.op = "delete" => r.idx = 1

\* The key whose vault is being looked at is still the first, and not the last way in.
Deletable(r) ==
    LET entry == db.accs[r.acct]
    IN  /\ Len(entry.keys) > 0 /\ entry.keys[1] = r.what
        /\ Len(entry.keys) > 1 \/ entry.wallets # {}
        /\ \A s \in reqs : s.op = "delete" /\ s.acct = r.acct => s = r

TokenInv ==
    /\ tokens \in Seq(Token)
    /\ \A g \in grants : g.tok \in 1 .. Len(tokens) /\ tokens[g.tok].st = "spent"
    /\ People!SingleUse
    /\ \A r \in reqs : Waiting(r)

IndexInv ==
    /\ crossed \in BOOLEAN
    /\ crossed \/ /\ Indexed(db) /\ Indexed(peopleDisk)
                  /\ \A r \in reqs : r.op = "delete" => Deletable(r)

TableInv == born \in Nat /\ Table(db) /\ Table(peopleDisk)

AccountInv == TableInv /\ TokenInv /\ IndexInv

-----------------------------------------------------------------------------
(* Accounts: tokens, handlers and sessions                                   *)

\* Nobody signs in, and no token comes back.
LEMMA NobodySignsIn ==
    ASSUME TokenInv, tokens' \in Seq(Token), Len(tokens') >= Len(tokens), grants' = grants, reqs' \subseteq reqs,
           \A t \in 1 .. Len(tokens) : tokens[t].st = "spent" => tokens'[t].st = "spent",
           reqs' = {} \/ DOMAIN db.accs \subseteq DOMAIN db'.accs
    PROVE  TokenInv'
<1>1. Len(tokens) \in Nat /\ Len(tokens') \in Nat
  BY DEF TokenInv
<1>2. \A g \in grants' : g.tok \in 1 .. Len(tokens') /\ tokens'[g.tok].st = "spent"
  BY <1>1 DEF TokenInv
<1>3. People!SingleUse'
  BY DEF TokenInv, People!SingleUse
<1>4. ASSUME NEW r \in reqs' PROVE Waiting(r)'
  <2>1. Waiting(r)
    BY <1>4 DEF TokenInv
  <2> QED BY <1>1, <1>4, <2>1 DEF Waiting
<1> QED BY <1>2, <1>3, <1>4 DEF TokenInv

\* A token that is open is spent.
LEMMA Spent ==
    ASSUME TokenInv, NEW t \in 1 .. Len(tokens), People!Spend(t)
    PROVE  /\ tokens' \in Seq(Token) /\ Len(tokens') = Len(tokens) /\ tokens'[t].st = "spent"
           /\ \A u \in 1 .. Len(tokens) : tokens[u].st = "spent" => tokens'[u].st = "spent"
<1> DEFINE k == [tokens[t] EXCEPT !.st = "spent"]
<1>1. tokens[t] \in Token
  BY DEF TokenInv
<1>2. k \in Token /\ k.st = "spent"
  BY <1>1 DEF Token
<1>3. tokens' = [tokens EXCEPT ![t] = k]
  BY DEF People!Spend
<1> HIDE DEF k
<1> QED BY <1>2, <1>3 DEF TokenInv

\* A handler takes a token and waits.
LEMMA TakeKeeps ==
    ASSUME TokenInv, NEW t \in 1 .. Len(tokens), tokens[t].st # "spent", NEW r, People!Spend(t), reqs' = reqs \union {r},
           r.op \in {"register", "login", "siwe", "link"}, r.tok = t,
           r.op = "register" => r.what \in Creds,
           r.op \in {"siwe", "link"} => r.what \in Wallets,
           r.op = "link" => r.acct \in DOMAIN db.accs,
           UNCHANGED <<db, grants>>
    PROVE  TokenInv'
<1>1. /\ tokens' \in Seq(Token) /\ Len(tokens') = Len(tokens) /\ tokens'[t].st = "spent"
      /\ \A u \in 1 .. Len(tokens) : tokens[u].st = "spent" => tokens'[u].st = "spent"
  BY Spent
<1>2. \A g \in grants : g.tok # t
  BY DEF TokenInv
<1>3. \A s \in reqs : s.op # "delete" => s.tok # t
  BY DEF TokenInv, Waiting
<1>4. \A g \in grants' : g.tok \in 1 .. Len(tokens') /\ tokens'[g.tok].st = "spent"
  BY <1>1 DEF TokenInv
<1>5. People!SingleUse'
  BY DEF TokenInv, People!SingleUse
<1>6. Waiting(r)'
  BY <1>1, <1>2, <1>3 DEF Waiting
<1>7. ASSUME NEW s \in reqs PROVE Waiting(s)'
  <2>1. Waiting(s)
    BY DEF TokenInv
  <2> QED BY <1>1, <1>3, <2>1 DEF Waiting
<1> QED BY <1>1, <1>4, <1>5, <1>6, <1>7 DEF TokenInv

\* A handler is done, and may sign somebody in for its token.
LEMMA GrantKeeps ==
    ASSUME TokenInv, NEW r \in reqs, r.op # "delete", reqs' = reqs \ {r}, tokens' = tokens,
           NEW g, g.tok = r.tok, grants' = grants \union {g},
           DOMAIN db.accs \subseteq DOMAIN db'.accs
    PROVE  TokenInv'
<1>1. Waiting(r)
  BY DEF TokenInv
<1>2. \A h \in grants' : h.tok \in 1 .. Len(tokens') /\ tokens'[h.tok].st = "spent"
  BY <1>1 DEF TokenInv, Waiting
<1>3. People!SingleUse'
  BY <1>1 DEF TokenInv, People!SingleUse, Waiting
<1>4. ASSUME NEW s \in reqs' PROVE Waiting(s)'
  <2>1. Waiting(s) /\ s # r /\ s \in reqs
    BY <1>4 DEF TokenInv
  <2>2. s.op # "delete" => s.tok # r.tok
    BY <1>1, <2>1 DEF Waiting
  <2> QED BY <1>4, <2>1, <2>2 DEF Waiting
<1> QED BY <1>2, <1>3, <1>4 DEF TokenInv

LEMMA DeviceKeeps ==
    ASSUME TokenInv, NEW t \in 1 .. Len(tokens), People!DeviceClaim(t) PROVE TokenInv'
<1>1. /\ tokens[t].st \in {"approved", "denied"} /\ People!Spend(t) /\ UNCHANGED <<db, reqs>>
      /\ grants' = grants \/ People!Grant(t, tokens[t].acct)
  BY DEF People!DeviceClaim
<1>2. /\ tokens' \in Seq(Token) /\ Len(tokens') = Len(tokens) /\ tokens'[t].st = "spent"
      /\ \A u \in 1 .. Len(tokens) : tokens[u].st = "spent" => tokens'[u].st = "spent"
  BY <1>1, Spent
<1>3. CASE grants' = grants
  BY <1>1, <1>2, <1>3, NobodySignsIn
<1>4. CASE People!Grant(t, tokens[t].acct)
  <2>1. PICK g : g.tok = t /\ grants' = grants \union {g}
    <3> DEFINE g == [tok |-> t, n |-> People!Cardinality(grants), acct |-> tokens[t].acct]
    <3>1. g.tok = t /\ grants' = grants \union {g}
      BY <1>4 DEF People!Grant
    <3> QED BY <3>1
  <2>2. (\A h \in grants : h.tok # t) /\ (\A s \in reqs : s.op # "delete" => s.tok # t)
    BY <1>1 DEF TokenInv, Waiting
  <2>3. \A h \in grants' : h.tok \in 1 .. Len(tokens') /\ tokens'[h.tok].st = "spent"
    BY <1>2, <2>1 DEF TokenInv
  <2>4. People!SingleUse'
    BY <2>1, <2>2 DEF TokenInv, People!SingleUse
  <2>5. ASSUME NEW s \in reqs PROVE Waiting(s)'
    <3>1. Waiting(s)
      BY DEF TokenInv
    <3> QED BY <1>1, <1>2, <2>1, <2>2, <3>1 DEF Waiting
  <2> QED BY <1>1, <1>2, <2>3, <2>4, <2>5 DEF TokenInv
<1> QED BY <1>1, <1>3, <1>4


-----------------------------------------------------------------------------
(* Accounts: keys and wallets                                                *)

Tabled(accs, byCred, byWallet) == [accs |-> accs, byCred |-> byCred, byWallet |-> byWallet]

\* The accounts of d, one of them as given.
Set(d, a, entry) == [x \in DOMAIN d.accs \union {a} |-> IF x = a THEN entry ELSE d.accs[x]]

LEMMA WithAcctIs ==
    ASSUME NEW d, d = Tabled(d.accs, d.byCred, d.byWallet), NEW a, NEW entry
    PROVE  People!WithAcct(d, a, entry) = Tabled(Set(d, a, entry), d.byCred, d.byWallet)
<1>1. People!WithAcct(d, a, entry) = [d EXCEPT !.accs = Set(d, a, entry)]
  BY DEF People!WithAcct, Set
<1>2. \A x : [d EXCEPT !.accs = x] = Tabled(x, d.byCred, d.byWallet)
  BY DEF Tabled
<1> QED BY <1>1, <1>2

\* The first key or a later one goes.
LEMMA Joined ==
    ASSUME NEW S, NEW p \in Seq(S), NEW q \in Seq(S)
    PROVE  p \o q \in Seq(S) /\ Len(p \o q) = Len(p) + Len(q)
  OBVIOUS

LEMMA RemoveIs ==
    ASSUME NEW s \in Seq(Creds), NEW i \in 1 .. Len(s)
    PROVE  /\ People!RemoveAt(s, i) \in Seq(Creds)
           /\ Len(People!RemoveAt(s, i)) = Len(s) - 1
           /\ \A n \in 1 .. Len(s) - 1 : People!RemoveAt(s, i)[n] = IF n < i THEN s[n] ELSE s[n + 1]
<1> DEFINE x == SubSeq(s, 1, i - 1)
           y == SubSeq(s, i + 1, Len(s))
<1>1. x \in Seq(Creds) /\ Len(x) = i - 1 /\ \A n \in 1 .. i - 1 : x[n] = s[n]
  OBVIOUS
<1>2. y \in Seq(Creds) /\ Len(y) = Len(s) - i /\ \A n \in i .. Len(s) - 1 : y[n - (i - 1)] = s[n + 1]
  BY SMTT(60)
<1>3. People!RemoveAt(s, i) = x \o y
  BY DEF People!RemoveAt
<1> HIDE DEF x, y
<1>0. Len(s) \in Nat /\ i \in Nat /\ i >= 1 /\ i <= Len(s)
  OBVIOUS
<1>4. x \o y \in Seq(Creds) /\ Len(x \o y) = Len(s) - 1
  <2>1. Len(x \o y) = Len(x) + Len(y)
    BY <1>1, <1>2, Joined, Zenon
  <2>2. x \o y \in Seq(Creds)
    BY <1>1, <1>2, Joined, Zenon
  <2>3. Len(x) + Len(y) = Len(s) - 1
    BY <1>0, <1>1, <1>2
  <2> QED BY <2>1, <2>2, <2>3
<1>5. ASSUME NEW n \in 1 .. Len(s) - 1 PROVE (x \o y)[n] = IF n < i THEN s[n] ELSE s[n + 1]
  <2>1. CASE n < i
    <3>1. (x \o y)[n] = x[n] /\ n \in 1 .. i - 1
      BY <1>0, <1>1, <1>2, <2>1
    <3> QED BY <1>1, <2>1, <3>1
  <2>2. CASE ~(n < i)
    <3>1. (x \o y)[n] = y[n - (i - 1)]
      BY <1>0, <1>1, <1>2, <2>2
    <3>2. y[n - (i - 1)] = s[n + 1]
      BY <1>0, <1>2, <2>2
    <3> QED BY <2>2, <3>1, <3>2, Zenon
  <2> QED BY <2>1, <2>2
<1> QED BY <1>3, <1>4, <1>5

Dropped(s, i) == IF i <= Len(s) THEN People!RemoveAt(s, i) ELSE s

LEMMA WithoutIs ==
    ASSUME Table(db), NEW a \in DOMAIN db.accs, NEW c \in Creds, NEW i
    PROVE  People!Without(db, a, c, i) =
               Tabled([db.accs EXCEPT ![a] = [keys |-> Dropped(db.accs[a].keys, i), wallets |-> db.accs[a].wallets]],
                      [db.byCred EXCEPT ![c] = 0], db.byWallet)
<1> DEFINE u == [db EXCEPT !.byCred[c] = 0]
           s == Dropped(db.accs[a].keys, i)
<1>0. db = Tabled(db.accs, db.byCred, db.byWallet) /\ db.accs[a] \in Account
  BY DEF Table, Tabled
<1>1. u = Tabled(db.accs, [db.byCred EXCEPT ![c] = 0], db.byWallet)
  BY <1>0 DEF Tabled
<1>2. People!Without(db, a, c, i) = [u EXCEPT !.accs[a].keys = s]
  BY <1>1 DEF People!Without, Dropped, People!NoAcct, Tabled
<1> HIDE DEF u, s
<1>3. [db.accs[a] EXCEPT !.keys = s] = [keys |-> s, wallets |-> db.accs[a].wallets]
  BY <1>0 DEF Account
<1>4. u.accs = db.accs /\ u.byCred = [db.byCred EXCEPT ![c] = 0] /\ u.byWallet = db.byWallet
  BY <1>1 DEF Tabled
<1>5. [u EXCEPT !.accs[a].keys = s] = [u EXCEPT !.accs = [db.accs EXCEPT ![a] = [db.accs[a] EXCEPT !.keys = s]]]
  BY <1>4
<1>6. \A x : [u EXCEPT !.accs = x] = Tabled(x, u.byCred, u.byWallet)
  BY <1>1 DEF Tabled
<1> QED BY <1>2, <1>3, <1>4, <1>5, <1>6 DEF s

LEMMA TableStays == ASSUME NEW d, Table(d), d' = d, born' \in Nat, born \in Nat, born' >= born PROVE Table(d)'
  BY DEF Table

\* A table with one account more, or another one.
LEMMA TableJoined ==
    ASSUME TableInv, NEW a \in 1 .. born', born' \in Nat, born' >= born, NEW entry \in Account,
           NEW byCred \in [Creds -> 0 .. born'], NEW byWallet \in [Wallets -> 0 .. born'],
           db' = Tabled(Set(db, a, entry), byCred, byWallet), peopleDisk' = peopleDisk
    PROVE  TableInv' /\ DOMAIN db'.accs = DOMAIN db.accs \union {a} /\ db'.accs[a] = entry
           /\ \A x \in DOMAIN db.accs \ {a} : db'.accs[x] = db.accs[x]
<1>1. db'.accs = Set(db, a, entry) /\ db'.byCred = byCred /\ db'.byWallet = byWallet
  BY DEF Tabled
<1>2. Table(db)'
  BY <1>1 DEF TableInv, Table, Set, Tabled
<1>3. Table(peopleDisk)'
  BY DEF TableInv, Table
<1> QED BY <1>1, <1>2, <1>3 DEF TableInv, Set

\* An account that gains a key or a wallet nobody has, or is new and has one.
LEMMA IndexJoined ==
    ASSUME TableInv, IndexInv, ~crossed, peopleDisk' = peopleDisk, crossed' = crossed, reqs' \subseteq reqs,
           \A r \in reqs : r.op = "delete" => r.acct \in DOMAIN db.accs,
           NEW a \in DOMAIN db'.accs, DOMAIN db'.accs = DOMAIN db.accs \union {a},
           \A x \in DOMAIN db.accs \ {a} : db'.accs[x] = db.accs[x],
           \A c \in Creds : db'.byCred[c] = db.byCred[c] \/ (db'.byCred[c] = a /\ db.byCred[c] \notin DOMAIN db.accs \ {a}),
           \A w \in Wallets : db'.byWallet[w] = db.byWallet[w] \/ (db'.byWallet[w] = a /\ db.byWallet[w] \notin DOMAIN db.accs \ {a}),
           \A c \in Creds : (\E n \in 1 .. Len(db'.accs[a].keys) : db'.accs[a].keys[n] = c) <=> db'.byCred[c] = a,
           \A n, m \in 1 .. Len(db'.accs[a].keys) : db'.accs[a].keys[n] = db'.accs[a].keys[m] => n = m,
           \A w \in Wallets : w \in db'.accs[a].wallets <=> db'.byWallet[w] = a,
           Len(db'.accs[a].keys) > 0 \/ db'.accs[a].wallets # {},
           \A r \in reqs' : r.op = "delete" /\ r.acct = a => Deletable(r)'
    PROVE  IndexInv'
<1>1. Indexed(db)'
  <2> SUFFICES ASSUME NEW x \in DOMAIN db'.accs
               PROVE  (/\ \A c \in Creds : (\E n \in 1 .. Len(db.accs[x].keys) : db.accs[x].keys[n] = c) <=> db.byCred[c] = x
                       /\ \A n, m \in 1 .. Len(db.accs[x].keys) : db.accs[x].keys[n] = db.accs[x].keys[m] => n = m
                       /\ \A w \in Wallets : w \in db.accs[x].wallets <=> db.byWallet[w] = x
                       /\ Len(db.accs[x].keys) > 0 \/ db.accs[x].wallets # {})'
    BY DEF Indexed
  <2>1. CASE x = a
    BY <2>1
  <2>2. CASE x # a
    <3>1. x \in DOMAIN db.accs /\ db'.accs[x] = db.accs[x]
      BY <2>2
    <3>2. \A c \in Creds : db'.byCred[c] = x <=> db.byCred[c] = x
      BY <2>2, <3>1
    <3>3. \A w \in Wallets : db'.byWallet[w] = x <=> db.byWallet[w] = x
      BY <2>2, <3>1
    <3> QED BY <3>1, <3>2, <3>3 DEF IndexInv, Indexed
  <2> QED BY <2>1, <2>2
<1>2. Indexed(peopleDisk)'
  BY DEF IndexInv, Indexed
<1>3. ASSUME NEW r \in reqs', r.op = "delete", r.acct # a, r.acct \in DOMAIN db.accs PROVE Deletable(r)'
  BY <1>3 DEF IndexInv, Deletable
<1> QED BY <1>1, <1>2, <1>3 DEF IndexInv

LEMMA RegisterKeeps ==
    ASSUME AccountInv, NEW r \in reqs, People!Registered(r) PROVE AccountInv'
<1>1. Waiting(r) /\ r.op = "register" /\ r.what \in Creds /\ UNCHANGED <<peopleDisk, tokens, crossed>> /\ reqs' = reqs \ {r}
  BY DEF People!Registered, People!Refused, People!Finish, AccountInv, TokenInv, Waiting
<1>2. CASE People!Refused(r)
  <2>1. UNCHANGED <<db, grants, born>>
    BY <1>2 DEF People!Refused
  <2>2. TokenInv'
    BY <1>1, <2>1, NobodySignsIn DEF AccountInv, TokenInv
  <2>3. IndexInv'
    BY <1>1, <2>1, SMTT(30) DEF AccountInv, IndexInv, Indexed, Deletable
  <2> QED BY <1>1, <2>1, <2>2, <2>3 DEF AccountInv, TableInv, Table
<1>3. CASE ~People!Refused(r)
  <2> DEFINE a == IF r.acct = 0 THEN born + 1 ELSE r.acct
             old == IF a \in DOMAIN db.accs THEN db.accs[a] ELSE [keys |-> <<>>, wallets |-> {}]
             entry == [keys |-> Append(old.keys, r.what), wallets |-> old.wallets]
             byCred == [db.byCred EXCEPT ![r.what] = a]
  <2>1. /\ db.byCred[r.what] = 0
        /\ r.acct = 0 \/ r.acct \in DOMAIN db.accs
        /\ db' = People!WithAcct([db EXCEPT !.byCred[r.what] = a], a, [old EXCEPT !.keys = Append(@, r.what)])
        /\ born' = IF r.acct = 0 THEN born + 1 ELSE born
        /\ People!Grant(r.tok, a)
    BY <1>3, Zenon DEF People!Registered, People!NoAcct, People!Live, People!NewAcct
  <2>2. born \in Nat /\ Table(db) /\ DOMAIN db.accs \subseteq 1 .. born
    BY DEF AccountInv, TableInv, Table
  <2>3. a \in 1 .. born' /\ born' \in Nat /\ born' >= born /\ (r.acct = 0 <=> a \notin DOMAIN db.accs)
    BY <2>1, <2>2
  <2>4. old \in Account
    BY <2>2 DEF Account, Table
  <2>5. entry \in Account /\ [old EXCEPT !.keys = Append(@, r.what)] = entry
    <3> HIDE DEF old
    <3> QED BY <1>1, <2>4, SMTT(30) DEF Account
  <2>6. byCred \in [Creds -> 0 .. born'] /\ db.byWallet \in [Wallets -> 0 .. born']
    BY <1>1, <2>2, <2>3 DEF Table
  <2>7. db' = Tabled(Set(db, a, entry), byCred, db.byWallet)
    <3> DEFINE d == [db EXCEPT !.byCred[r.what] = a]
    <3>1. d = Tabled(db.accs, byCred, db.byWallet)
      BY <2>2 DEF Table, Tabled
    <3>2. d.accs = db.accs /\ d.byCred = byCred /\ d.byWallet = db.byWallet
      BY <3>1 DEF Tabled
    <3> HIDE DEF d, a, old, entry, byCred
    <3>3. d = Tabled(d.accs, d.byCred, d.byWallet)
      BY <3>1, <3>2
    <3>4. People!WithAcct(d, a, entry) = Tabled(Set(d, a, entry), d.byCred, d.byWallet)
      BY <3>3, WithAcctIs
    <3>5. Set(d, a, entry) = Set(db, a, entry)
      BY <3>2 DEF Set
    <3> QED BY <2>1, <2>5, <3>2, <3>4, <3>5 DEF d
  <2>8. PICK g : g.tok = r.tok /\ grants' = grants \union {g}
    <3> DEFINE g == [tok |-> r.tok, n |-> People!Cardinality(grants), acct |-> a]
    <3>1. g.tok = r.tok /\ grants' = grants \union {g}
      BY <2>1 DEF People!Grant
    <3> QED BY <3>1
  <2>9. old.keys \in Seq(Creds) /\ entry.keys = Append(old.keys, r.what) /\ entry.wallets = old.wallets
    BY <2>4 DEF Account
  <2> HIDE DEF a, entry, byCred
  <2>10. TableInv' /\ DOMAIN db'.accs = DOMAIN db.accs \union {a} /\ db'.accs[a] = entry
         /\ (\A x \in DOMAIN db.accs \ {a} : db'.accs[x] = db.accs[x])
    BY <1>1, <2>3, <2>5, <2>6, <2>7, TableJoined DEF AccountInv
  <2>11. TokenInv'
    BY <1>1, <2>8, <2>10, GrantKeeps DEF AccountInv
  <2>12. db'.byCred = byCred /\ db'.byWallet = db.byWallet
    BY <2>7 DEF Tabled
  <2>13. ASSUME ~crossed PROVE IndexInv'
    <3>1. \A c \in Creds : db'.byCred[c] = IF c = r.what THEN a ELSE db.byCred[c]
      BY <2>2, <2>12 DEF Table, byCred
    <3>2. \A c \in Creds : (\E n \in 1 .. Len(old.keys) : old.keys[n] = c) <=> db.byCred[c] = a
      <4>1. CASE a \in DOMAIN db.accs
        BY <2>13, <4>1 DEF AccountInv, IndexInv, Indexed
      <4>2. CASE a \notin DOMAIN db.accs
        <5>1. \A c \in Creds : db.byCred[c] # a
          BY <2>1, <2>2, <2>3, <4>2 DEF Table, a
        <5> QED BY <4>2, <5>1
      <4> QED BY <4>1, <4>2
    <3>3. \A n, m \in 1 .. Len(old.keys) : old.keys[n] = old.keys[m] => n = m
      <4>1. CASE a \in DOMAIN db.accs
        BY <2>13, <4>1 DEF AccountInv, IndexInv, Indexed
      <4>2. CASE a \notin DOMAIN db.accs
        BY <4>2
      <4> QED BY <4>1, <4>2
    <3>4. \A w \in Wallets : w \in old.wallets <=> db.byWallet[w] = a
      <4>1. CASE a \in DOMAIN db.accs
        BY <2>13, <4>1 DEF AccountInv, IndexInv, Indexed
      <4>2. CASE a \notin DOMAIN db.accs
        <5>1. \A w \in Wallets : db.byWallet[w] # a
          BY <2>1, <2>2, <2>3, <4>2 DEF Table, a
        <5> QED BY <4>2, <5>1
      <4> QED BY <4>1, <4>2
    <3>5. a # 0 /\ \A n \in 1 .. Len(old.keys) : old.keys[n] # r.what
      <4>1. a # 0
        BY <2>2, <2>3
      <4> QED BY <1>1, <2>1, <2>9, <3>2, <4>1
    <3> HIDE DEF old
    <3>6. \A c \in Creds : (\E n \in 1 .. Len(entry.keys) : entry.keys[n] = c) <=> db'.byCred[c] = a
      <4>1. Len(entry.keys) = Len(old.keys) + 1 /\ entry.keys[Len(old.keys) + 1] = r.what
            /\ \A n \in 1 .. Len(old.keys) : entry.keys[n] = old.keys[n]
        BY <1>1, <2>9
      <4>2. Len(old.keys) \in Nat
        BY <2>9
      <4> QED BY <1>1, <3>1, <3>2, <4>1, <4>2
    <3>7. \A n, m \in 1 .. Len(entry.keys) : entry.keys[n] = entry.keys[m] => n = m
      BY <1>1, <2>9, <3>3, <3>5
    <3>8. Len(entry.keys) > 0
      BY <1>1, <2>9
    <3>9. ASSUME NEW s \in reqs', s.op = "delete", s.acct = a PROVE Deletable(s)'
      <4>1. s \in reqs /\ Waiting(s) /\ Deletable(s)
        BY <1>1, <2>13, <3>9 DEF AccountInv, TokenInv, IndexInv
      <4>2. a \in DOMAIN db.accs
        BY <3>9, <4>1 DEF Waiting
      <4>3. db.accs[a] = old
        BY <4>2 DEF old
      <4>4. Len(entry.keys) > Len(old.keys) /\ (Len(old.keys) > 0 => entry.keys[1] = old.keys[1])
        BY <1>1, <2>9
      <4>5. Len(old.keys) > 0 /\ old.keys[1] = s.what /\ Len(old.keys) \in Nat /\ Len(entry.keys) \in Nat
        BY <3>9, <4>1, <4>3, <2>9, <1>1 DEF Deletable
      <4> QED BY <1>1, <2>10, <3>9, <4>1, <4>4, <4>5 DEF Deletable
    <3>10. \A c \in Creds : db'.byCred[c] = db.byCred[c] \/ (db'.byCred[c] = a /\ db.byCred[c] \notin DOMAIN db.accs \ {a})
      BY <2>1, <2>2, <3>1, SMTT(30)
    <3>11. \A s \in reqs : s.op = "delete" => s.acct \in DOMAIN db.accs
      BY DEF AccountInv, TokenInv, Waiting
    <3>12. \A w \in Wallets : w \in entry.wallets <=> db'.byWallet[w] = a
      BY <2>9, <2>12, <3>4
    <3>13. /\ TableInv /\ IndexInv /\ ~crossed /\ peopleDisk' = peopleDisk /\ crossed' = crossed /\ reqs' \subseteq reqs
           /\ a \in DOMAIN db'.accs /\ DOMAIN db'.accs = DOMAIN db.accs \union {a} /\ db'.accs[a] = entry
           /\ \A x \in DOMAIN db.accs \ {a} : db'.accs[x] = db.accs[x]
           /\ \A w \in Wallets : db'.byWallet[w] = db.byWallet[w]
      BY <1>1, <2>10, <2>12, <2>13 DEF AccountInv
    <3>14. /\ \A c \in Creds : (\E n \in 1 .. Len(db'.accs[a].keys) : db'.accs[a].keys[n] = c) <=> db'.byCred[c] = a
           /\ \A n, m \in 1 .. Len(db'.accs[a].keys) : db'.accs[a].keys[n] = db'.accs[a].keys[m] => n = m
           /\ \A w \in Wallets : w \in db'.accs[a].wallets <=> db'.byWallet[w] = a
           /\ Len(db'.accs[a].keys) > 0 \/ db'.accs[a].wallets # {}
      BY <3>6, <3>7, <3>8, <3>12, <3>13, Zenon
    <3> QED BY <3>9, <3>10, <3>11, <3>13, <3>14, IndexJoined, Zenon
  <2>14. ASSUME crossed PROVE IndexInv'
    BY <1>1, <2>14 DEF IndexInv, AccountInv
  <2> QED BY <2>10, <2>11, <2>13, <2>14 DEF AccountInv
<1> QED BY <1>2, <1>3

LEMMA SiweKeeps ==
    ASSUME AccountInv, NEW r \in reqs, People!SiweSigned(r) PROVE AccountInv'
<1> DEFINE a == db.byWallet[r.what]
           new == born + 1
           entry == [keys |-> <<>>, wallets |-> {r.what}]
           byWallet == [db.byWallet EXCEPT ![r.what] = new]
<1>1. Waiting(r) /\ r.op = "siwe" /\ r.what \in Wallets /\ UNCHANGED <<peopleDisk, tokens, crossed>> /\ reqs' = reqs \ {r}
  BY DEF People!SiweSigned, People!Finish, AccountInv, TokenInv, Waiting
<1>2. born \in Nat /\ Table(db) /\ DOMAIN db.accs \subseteq 1 .. born
  BY DEF AccountInv, TableInv, Table
<1>3. PICK g : g.tok = r.tok /\ grants' = grants \union {g}
  <2>1. PICK x : People!Grant(r.tok, x)
    BY DEF People!SiweSigned
  <2> DEFINE g == [tok |-> r.tok, n |-> People!Cardinality(grants), acct |-> x]
  <2>2. g.tok = r.tok /\ grants' = grants \union {g}
    BY <2>1 DEF People!Grant
  <2> QED BY <2>2
<1>4. CASE a \in DOMAIN db.accs
  <2>1. UNCHANGED <<db, born>>
    BY <1>4 DEF People!SiweSigned, People!Live
  <2>2. TokenInv'
    BY <1>1, <1>3, <2>1, GrantKeeps DEF AccountInv
  <2>3. IndexInv'
    BY <1>1, <2>1, SMTT(30) DEF AccountInv, IndexInv, Indexed, Deletable
  <2> QED BY <1>1, <2>1, <2>2, <2>3 DEF AccountInv, TableInv, Table
<1>5. CASE a \notin DOMAIN db.accs
  <2>1. /\ db' = People!WithAcct([db EXCEPT !.byWallet[r.what] = new], new, entry)
        /\ born' = born + 1
    BY <1>5 DEF People!SiweSigned, People!Live, People!NewAcct
  <2>2. /\ new \in 1 .. born' /\ born' \in Nat /\ born' >= born /\ entry \in Account
        /\ byWallet \in [Wallets -> 0 .. born'] /\ db.byCred \in [Creds -> 0 .. born']
    BY <1>1, <1>2, <2>1 DEF Table, Account
  <2>3. db' = Tabled(Set(db, new, entry), db.byCred, byWallet)
    <3> DEFINE d == [db EXCEPT !.byWallet[r.what] = new]
    <3>1. d = Tabled(db.accs, db.byCred, byWallet)
      BY <1>2 DEF Table, Tabled
    <3>2. d.accs = db.accs /\ d.byCred = db.byCred /\ d.byWallet = byWallet
      BY <3>1 DEF Tabled
    <3> HIDE DEF d, entry, byWallet, new
    <3>3. d = Tabled(d.accs, d.byCred, d.byWallet)
      BY <3>1, <3>2
    <3>4. People!WithAcct(d, new, entry) = Tabled(Set(d, new, entry), d.byCred, d.byWallet)
      BY <3>3, WithAcctIs
    <3>5. Set(d, new, entry) = Set(db, new, entry)
      BY <3>2 DEF Set
    <3> QED BY <2>1, <3>2, <3>4, <3>5 DEF d
  <2>4. /\ \A c \in Creds : db.byCred[c] # new
        /\ \A w \in Wallets : db.byWallet[w] # new
        /\ new \notin DOMAIN db.accs
    BY <1>2 DEF Table
  <2>5. entry.keys = <<>> /\ entry.wallets = {r.what}
    OBVIOUS
  <2>6. \A w \in Wallets : byWallet[w] = IF w = r.what THEN new ELSE db.byWallet[w]
    BY <1>1, <1>2 DEF Table
  <2> HIDE DEF entry, byWallet, new
  <2>7. TableInv' /\ DOMAIN db'.accs = DOMAIN db.accs \union {new} /\ db'.accs[new] = entry
        /\ (\A x \in DOMAIN db.accs \ {new} : db'.accs[x] = db.accs[x])
    BY <1>1, <2>2, <2>3, TableJoined DEF AccountInv
  <2>8. TokenInv'
    BY <1>1, <1>3, <2>7, GrantKeeps DEF AccountInv
  <2>9. db'.byCred = db.byCred /\ db'.byWallet = byWallet
    BY <2>3 DEF Tabled
  <2>10. \A s \in reqs : s.op = "delete" => s.acct \in DOMAIN db.accs
    BY DEF AccountInv, TokenInv, Waiting
  <2>11. ASSUME ~crossed PROVE IndexInv'
    <3>1. /\ TableInv /\ IndexInv /\ ~crossed /\ peopleDisk' = peopleDisk /\ crossed' = crossed /\ reqs' \subseteq reqs
          /\ new \in DOMAIN db'.accs /\ DOMAIN db'.accs = DOMAIN db.accs \union {new}
          /\ \A x \in DOMAIN db.accs \ {new} : db'.accs[x] = db.accs[x]
          /\ \A c \in Creds : db'.byCred[c] = db.byCred[c]
      BY <1>1, <2>7, <2>9, <2>11 DEF AccountInv
    <3>2. \A w \in Wallets : db'.byWallet[w] = db.byWallet[w]
             \/ (db'.byWallet[w] = new /\ db.byWallet[w] \notin DOMAIN db.accs \ {new})
      BY <1>5, <2>6, <2>9
    <3>3. /\ \A c \in Creds : (\E n \in 1 .. Len(db'.accs[new].keys) : db'.accs[new].keys[n] = c) <=> db'.byCred[c] = new
          /\ \A n, m \in 1 .. Len(db'.accs[new].keys) : db'.accs[new].keys[n] = db'.accs[new].keys[m] => n = m
      <4>1. 1 .. Len(db'.accs[new].keys) = {}
        BY <2>5, <2>7
      <4> QED BY <2>4, <2>9, <4>1
    <3>4. /\ \A w \in Wallets : w \in db'.accs[new].wallets <=> db'.byWallet[w] = new
          /\ db'.accs[new].wallets # {}
      BY <1>1, <2>4, <2>5, <2>6, <2>7, <2>9
    <3>5. \A s \in reqs' : ~(s.op = "delete" /\ s.acct = new)
      BY <1>1, <2>4, <2>10
    <3> QED BY <2>10, <3>1, <3>2, <3>3, <3>4, <3>5, IndexJoined, Zenon
  <2>12. ASSUME crossed PROVE IndexInv'
    BY <1>1, <2>12 DEF IndexInv, AccountInv
  <2> QED BY <2>7, <2>8, <2>11, <2>12 DEF AccountInv
<1> QED BY <1>4, <1>5

LEMMA LinkKeeps ==
    ASSUME AccountInv, NEW r \in reqs, People!Linked(r) PROVE AccountInv'
<1>0. PICK a : a = r.acct
  OBVIOUS
<1> DEFINE entry == [keys |-> db.accs[a].keys, wallets |-> db.accs[a].wallets \union {r.what}]
           byWallet == [db.byWallet EXCEPT ![r.what] = a]
<1>1. Waiting(r) /\ r.op = "link" /\ r.what \in Wallets /\ a \in DOMAIN db.accs
      /\ UNCHANGED <<peopleDisk, tokens, grants, born, crossed>> /\ reqs' = reqs \ {r}
  BY <1>0 DEF People!Linked, People!Finish, AccountInv, TokenInv, Waiting
<1>2. born \in Nat /\ Table(db) /\ DOMAIN db.accs \subseteq 1 .. born /\ db.accs[a] \in Account
  BY <1>1 DEF AccountInv, TableInv, Table
<1>3. CASE db' = db
  <2>2. TokenInv'
    BY <1>1, <1>3, NobodySignsIn DEF AccountInv, TokenInv
  <2>3. IndexInv'
    BY <1>1, <1>3, SMTT(30) DEF AccountInv, IndexInv, Indexed, Deletable
  <2> QED BY <1>1, <1>3, <2>2, <2>3 DEF AccountInv, TableInv, Table
<1>4. CASE db' # db
  <2>1. /\ db.byWallet[r.what] \in {0, a}
        /\ db' = [db EXCEPT !.byWallet[r.what] = a, !.accs[a].wallets = @ \union {r.what}]
    BY <1>0, <1>4 DEF People!Linked, People!NoAcct
  <2>2. /\ a \in 1 .. born' /\ born' \in Nat /\ born' >= born /\ entry \in Account
        /\ byWallet \in [Wallets -> 0 .. born'] /\ db.byCred \in [Creds -> 0 .. born']
    BY <1>1, <1>2 DEF Table, Account
  <2>3. db' = Tabled(Set(db, a, entry), db.byCred, byWallet)
    <3> DEFINE d == [db EXCEPT !.byWallet[r.what] = a]
               w == db.accs[a].wallets \union {r.what}
    <3>1. d = Tabled(db.accs, db.byCred, byWallet)
      BY <1>2 DEF Table, Tabled
    <3>2. d.accs = db.accs /\ d.byCred = db.byCred /\ d.byWallet = byWallet
      BY <3>1 DEF Tabled
    <3>3. db' = [d EXCEPT !.accs[a].wallets = w]
      BY <2>1, <3>2
    <3>4. [db.accs[a] EXCEPT !.wallets = w] = entry
      <4>1. entry = [keys |-> db.accs[a].keys, wallets |-> w]
        OBVIOUS
      <4> HIDE DEF entry, w
      <4> QED BY <1>2, <4>1 DEF Account
    <3> HIDE DEF d, entry, byWallet, w
    <3>5. [d EXCEPT !.accs[a].wallets = w] = [d EXCEPT !.accs = [db.accs EXCEPT ![a] = [db.accs[a] EXCEPT !.wallets = w]]]
      BY <3>2
    <3>6. \A x : [d EXCEPT !.accs = x] = Tabled(x, d.byCred, d.byWallet)
      BY <3>1 DEF Tabled
    <3>7. [db.accs EXCEPT ![a] = entry] = Set(db, a, entry)
      <4>1. DOMAIN db.accs \union {a} = DOMAIN db.accs
        BY <1>1
      <4> QED BY <1>1, <1>2, <4>1 DEF Set, Table
    <3> QED BY <3>2, <3>3, <3>4, <3>5, <3>6, <3>7
  <2>4. entry.keys = db.accs[a].keys /\ entry.wallets = db.accs[a].wallets \union {r.what} /\ db.accs[a].keys \in Seq(Creds)
    BY <1>2 DEF Account
  <2>5. \A w \in Wallets : byWallet[w] = IF w = r.what THEN a ELSE db.byWallet[w]
    BY <1>1, <1>2 DEF Table
  <2>6. a # 0 /\ 0 \notin DOMAIN db.accs
    BY <1>1, <1>2
  <2> HIDE DEF entry, byWallet
  <2>7. TableInv' /\ DOMAIN db'.accs = DOMAIN db.accs \union {a} /\ db'.accs[a] = entry
        /\ (\A x \in DOMAIN db.accs \ {a} : db'.accs[x] = db.accs[x])
    BY <1>1, <2>2, <2>3, TableJoined DEF AccountInv
  <2>8. TokenInv'
    BY <1>1, <2>7, NobodySignsIn DEF AccountInv, TokenInv
  <2>9. db'.byCred = db.byCred /\ db'.byWallet = byWallet
    BY <2>3 DEF Tabled
  <2>10. \A s \in reqs : s.op = "delete" => s.acct \in DOMAIN db.accs
    BY DEF AccountInv, TokenInv, Waiting
  <2>11. ASSUME ~crossed PROVE IndexInv'
    <3>1. /\ TableInv /\ IndexInv /\ ~crossed /\ peopleDisk' = peopleDisk /\ crossed' = crossed /\ reqs' \subseteq reqs
          /\ a \in DOMAIN db'.accs /\ DOMAIN db'.accs = DOMAIN db.accs \union {a}
          /\ \A x \in DOMAIN db.accs \ {a} : db'.accs[x] = db.accs[x]
          /\ \A c \in Creds : db'.byCred[c] = db.byCred[c]
      BY <1>1, <2>7, <2>9, <2>11 DEF AccountInv
    <3>2. \A w \in Wallets : db'.byWallet[w] = db.byWallet[w]
             \/ (db'.byWallet[w] = a /\ db.byWallet[w] \notin DOMAIN db.accs \ {a})
      BY <2>1, <2>5, <2>6, <2>9
    <3>3. /\ \A c \in Creds : (\E n \in 1 .. Len(db'.accs[a].keys) : db'.accs[a].keys[n] = c) <=> db'.byCred[c] = a
          /\ \A n, m \in 1 .. Len(db'.accs[a].keys) : db'.accs[a].keys[n] = db'.accs[a].keys[m] => n = m
      <4>1. db'.accs[a].keys = db.accs[a].keys
        BY <2>4, <2>7
      <4> QED BY <1>1, <2>9, <2>11, <4>1 DEF AccountInv, IndexInv, Indexed
    <3>4. /\ \A w \in Wallets : w \in db'.accs[a].wallets <=> db'.byWallet[w] = a
          /\ db'.accs[a].wallets # {}
      <4>1. \A w \in Wallets : w \in db.accs[a].wallets <=> db.byWallet[w] = a
        BY <1>1, <2>11 DEF AccountInv, IndexInv, Indexed
      <4> QED BY <1>1, <2>4, <2>5, <2>7, <2>9, <4>1
    <3>5. ASSUME NEW s \in reqs', s.op = "delete", s.acct = a PROVE Deletable(s)'
      <4>1. s \in reqs /\ Deletable(s)
        BY <1>1, <2>11, <3>5 DEF AccountInv, IndexInv
      <4>2. db'.accs[s.acct].keys = db.accs[s.acct].keys /\ db'.accs[s.acct].wallets # {}
        BY <2>4, <2>7, <3>5, <1>1
      <4> QED BY <1>1, <4>1, <4>2 DEF Deletable
    <3> QED BY <2>10, <3>1, <3>2, <3>3, <3>4, <3>5, IndexJoined, Zenon
  <2>12. ASSUME crossed PROVE IndexInv'
    BY <1>1, <2>12 DEF IndexInv, AccountInv
  <2> QED BY <2>7, <2>8, <2>11, <2>12 DEF AccountInv
<1> QED BY <1>3, <1>4

LEMMA TableWithout ==
    ASSUME TableInv, NEW a \in DOMAIN db.accs, NEW c \in Creds, NEW i \in Nat \ {0}, 
           db' = People!Without(db, a, c, i), UNCHANGED <<peopleDisk, born>>
    PROVE  /\ TableInv' /\ DOMAIN db'.accs = DOMAIN db.accs
           /\ db'.accs[a] = [keys |-> Dropped(db.accs[a].keys, i), wallets |-> db.accs[a].wallets]
           /\ \A x \in DOMAIN db.accs \ {a} : db'.accs[x] = db.accs[x]
           /\ db'.byCred = [db.byCred EXCEPT ![c] = 0] /\ db'.byWallet = db.byWallet
<1> DEFINE s == Dropped(db.accs[a].keys, i)
           entry == [keys |-> s, wallets |-> db.accs[a].wallets]
<1>1. Table(db) /\ db.accs[a] \in Account
  BY DEF TableInv, Table
<1>2. s \in Seq(Creds)
  <2>1. db.accs[a].keys \in Seq(Creds)
    BY <1>1 DEF Account
  <2>2. CASE i <= Len(db.accs[a].keys)
    BY <2>1, <2>2, RemoveIs DEF Dropped
  <2>3. CASE ~(i <= Len(db.accs[a].keys))
    BY <2>1, <2>3 DEF Dropped
  <2> QED BY <2>2, <2>3
<1> HIDE DEF s
<1>3. entry \in Account
  BY <1>1, <1>2 DEF Account
<1>4. db' = Tabled([db.accs EXCEPT ![a] = entry], [db.byCred EXCEPT ![c] = 0], db.byWallet)
  BY <1>1, WithoutIs DEF s
<1> HIDE DEF entry
<1>5. db'.accs = [db.accs EXCEPT ![a] = entry] /\ db'.byCred = [db.byCred EXCEPT ![c] = 0] /\ db'.byWallet = db.byWallet
  BY <1>4 DEF Tabled
<1>6. db' = [accs |-> db'.accs, byCred |-> db'.byCred, byWallet |-> db'.byWallet]
  BY <1>4, <1>5 DEF Tabled
<1>7. Table(db)'
  BY <1>1, <1>3, <1>5, <1>6 DEF TableInv, Table
<1>8. Table(peopleDisk)'
  BY DEF TableInv, Table
<1> QED BY <1>1, <1>5, <1>7, <1>8 DEF TableInv, Table, entry, s

LEMMA IndexWithout ==
    ASSUME TableInv, Indexed(db), NEW a \in DOMAIN db.accs, NEW c \in Creds, NEW i \in 1 .. Len(db.accs[a].keys),
           db.accs[a].keys[i] = c, Len(db.accs[a].keys) > 1 \/ db.accs[a].wallets # {},
           db' = People!Without(db, a, c, i), UNCHANGED <<peopleDisk, born>>
    PROVE  Indexed(db)'
<1> DEFINE s == db.accs[a].keys
           t == People!RemoveAt(s, i)
<1>1. Table(db) /\ db.accs[a] \in Account /\ s \in Seq(Creds) /\ i \in Nat \ {0} /\ i <= Len(s) /\ 0 \notin DOMAIN db.accs
  BY SMTT(30) DEF TableInv, Table, Account
<1>2. /\ DOMAIN db'.accs = DOMAIN db.accs
      /\ db'.accs[a] = [keys |-> t, wallets |-> db.accs[a].wallets]
      /\ \A x \in DOMAIN db.accs \ {a} : db'.accs[x] = db.accs[x]
      /\ db'.byCred = [db.byCred EXCEPT ![c] = 0] /\ db'.byWallet = db.byWallet
  BY <1>1, TableWithout DEF Dropped
<1>3. t \in Seq(Creds) /\ Len(t) = Len(s) - 1 /\ \A n \in 1 .. Len(s) - 1 : t[n] = IF n < i THEN s[n] ELSE s[n + 1]
  BY <1>1, RemoveIs
<1>4. db'.accs[a].keys = t /\ db'.accs[a].wallets = db.accs[a].wallets
  BY <1>2
<1>5. \A d \in Creds : db'.byCred[d] = IF d = c THEN 0 ELSE db.byCred[d]
  BY <1>1, <1>2 DEF Table
<1>6. /\ \A d \in Creds : (\E n \in 1 .. Len(s) : s[n] = d) <=> db.byCred[d] = a
      /\ \A n, m \in 1 .. Len(s) : s[n] = s[m] => n = m
      /\ \A w \in Wallets : w \in db.accs[a].wallets <=> db.byWallet[w] = a
  BY DEF Indexed
<1>7. db.byCred[c] = a
  BY <1>6
<1> SUFFICES ASSUME NEW x \in DOMAIN db'.accs
             PROVE  (/\ \A d \in Creds : (\E n \in 1 .. Len(db.accs[x].keys) : db.accs[x].keys[n] = d) <=> db.byCred[d] = x
                     /\ \A n, m \in 1 .. Len(db.accs[x].keys) : db.accs[x].keys[n] = db.accs[x].keys[m] => n = m
                     /\ \A w \in Wallets : w \in db.accs[x].wallets <=> db.byWallet[w] = x
                     /\ Len(db.accs[x].keys) > 0 \/ db.accs[x].wallets # {})'
  BY DEF Indexed
<1>8. CASE x # a
  <2>1. x \in DOMAIN db.accs /\ db'.accs[x] = db.accs[x]
    BY <1>2, <1>8
  <2>2. \A d \in Creds : db'.byCred[d] = x <=> db.byCred[d] = x
    BY <1>1, <1>5, <1>7, <1>8, <2>1
  <2> QED BY <1>2, <2>1, <2>2 DEF Indexed
<1>9. CASE x = a
  <2> HIDE DEF t, s
  <2>1. ASSUME NEW d \in Creds PROVE (\E n \in 1 .. Len(t) : t[n] = d) <=> db'.byCred[d] = a
    <3>1. CASE d = c
      <4>1. ASSUME NEW n \in 1 .. Len(t) PROVE t[n] # c
        <5>1. n \in 1 .. Len(s) /\ n + 1 \in 1 .. Len(s) /\ Len(s) \in Nat
          BY <1>1, <1>3
        <5>2. CASE n < i
          BY <1>1, <1>3, <1>6, <5>1, <5>2 DEF s
        <5>3. CASE ~(n < i)
          BY <1>1, <1>3, <1>6, <5>1, <5>3 DEF s
        <5> QED BY <5>2, <5>3
      <4>2. db'.byCred[d] # a
        BY <1>1, <1>5, <3>1
      <4> QED BY <3>1, <4>1, <4>2
    <3>2. CASE d # c
      <4>1. db'.byCred[d] = db.byCred[d]
        BY <1>5, <3>2
      <4>2. ASSUME NEW n \in 1 .. Len(t) PROVE \E m \in 1 .. Len(s) : s[m] = t[n]
        <5>1. n \in 1 .. Len(s) /\ n + 1 \in 1 .. Len(s)
          BY <1>1, <1>3
        <5> QED BY <1>1, <1>3, <5>1
      <4>3. ASSUME NEW n \in 1 .. Len(s), s[n] = d PROVE \E m \in 1 .. Len(t) : t[m] = d
        <5>1. n # i /\ Len(s) \in Nat
          BY <1>1, <3>2, <4>3 DEF s
        <5>2. CASE n < i
          <6>1. n \in 1 .. Len(t) /\ t[n] = s[n]
            BY <1>1, <1>3, <5>1, <5>2
          <6> QED BY <4>3, <6>1
        <5>3. CASE n > i
          <6>1. PICK m \in 1 .. Len(t) : m = n - 1
            BY <1>1, <1>3, <5>1, <5>3
          <6>2. t[m] = s[m + 1] /\ m + 1 = n
            BY <1>1, <1>3, <5>1, <5>3, <6>1
          <6> QED BY <4>3, <6>2
        <5> QED BY <1>1, <5>1, <5>2, <5>3
      <4>4. (\E n \in 1 .. Len(t) : t[n] = d) <=> (\E n \in 1 .. Len(s) : s[n] = d)
        BY <4>2, <4>3
      <4> QED BY <1>6, <4>1, <4>4, Zenon
    <3> QED BY <3>1, <3>2
  <2>2. ASSUME NEW n \in 1 .. Len(t), NEW m \in 1 .. Len(t), t[n] = t[m] PROVE n = m
    <3>1. /\ n \in 1 .. Len(s) - 1 /\ m \in 1 .. Len(s) - 1 /\ Len(s) \in Nat
          /\ n \in 1 .. Len(s) /\ n + 1 \in 1 .. Len(s) /\ m \in 1 .. Len(s) /\ m + 1 \in 1 .. Len(s)
      BY <1>1, <1>3
    <3>2. PICK k \in 1 .. Len(s) : k = (IF n < i THEN n ELSE n + 1) /\ t[n] = s[k]
      BY <1>1, <1>3, <3>1
    <3>3. PICK l \in 1 .. Len(s) : l = (IF m < i THEN m ELSE m + 1) /\ t[m] = s[l]
      BY <1>1, <1>3, <3>1
    <3>4. s[k] = s[l]
      BY <2>2, <3>2, <3>3
    <3>5. k = l
      BY <1>6, <3>4, Zenon
    <3> QED BY <1>1, <3>1, <3>2, <3>3, <3>5
  <2>3. Len(t) > 0 \/ db.accs[a].wallets # {}
    BY <1>1, <1>3 DEF s
  <2> QED BY <1>2, <1>4, <1>6, <1>9, <2>1, <2>2, <2>3
<1> QED BY <1>8, <1>9

\* A key goes, at once or after its vault was found empty.
LEMMA DeleteKeeps ==
    ASSUME AccountInv, NEW a \in DOMAIN db.accs, NEW c \in Creds, People!DeletePasskey(a, c) PROVE AccountInv'
<1> DEFINE s == db.accs[a].keys
           i == CHOOSE i \in 1 .. Len(s) : s[i] = c
           entry == [op |-> "delete", tok |-> People!Cardinality(reqs), what |-> c, acct |-> a, idx |-> i]
<1>1. Table(db) /\ s \in Seq(Creds) /\ TableInv /\ UNCHANGED <<peopleDisk, tokens, grants, born>>
  BY DEF AccountInv, TableInv, Table, Account, People!DeletePasskey
<1>2. i \in 1 .. Len(s) /\ s[i] = c
  <2>1. \E n \in 1 .. Len(s) : s[n] = c
    BY <1>1 DEF People!DeletePasskey, People!Contains
  <2> QED BY <2>1
<1>3. /\ Len(s) > 1 \/ db.accs[a].wallets # {}
      /\ \/ i = 1 /\ reqs' = reqs \union {entry} /\ db' = db
         \/ i # 1 /\ db' = People!Without(db, a, c, i) /\ reqs' = reqs
      /\ crossed' = (crossed \/ \E r \in reqs : r.op = "delete" /\ r.acct = a)
  BY DEF People!DeletePasskey
<1> HIDE DEF i
<1>4. crossed' \in BOOLEAN
  BY <1>3 DEF AccountInv, IndexInv
<1>5. CASE i = 1
  <2>6. PICK d : d = entry
    OBVIOUS
  <2>0. reqs' = reqs \union {d} /\ db' = db
    BY <1>3, <1>5, <2>6
  <2>1. d.op = "delete" /\ d.what = c /\ d.acct = a /\ d.idx = 1
    BY <1>5, <2>6
  <2>2. TokenInv'
    <3>1. ASSUME NEW r \in reqs PROVE Waiting(r)'
      <4>1. Waiting(r)
        BY DEF AccountInv, TokenInv
      <4> QED BY <1>1, <2>0, <2>1, <4>1 DEF Waiting
    <3>2. Waiting(d)'
      BY <2>0, <2>1 DEF Waiting
    <3> QED BY <1>1, <2>0, <3>1, <3>2 DEF AccountInv, TokenInv, People!SingleUse
  <2>3. ASSUME ~crossed' PROVE IndexInv'
    <3>1. ~crossed /\ \A r \in reqs : r.op = "delete" => r.acct # a
      BY <1>3, <2>3
    <3>2. Deletable(d)'
      BY <1>1, <1>2, <1>3, <1>5, <2>0, <2>1, <3>1 DEF Deletable
    <3>3. ASSUME NEW r \in reqs, r.op = "delete" PROVE Deletable(r)'
      BY <2>0, <2>1, <3>1, <3>3 DEF Deletable, AccountInv, IndexInv
    <3>4. Indexed(db)' /\ Indexed(peopleDisk)'
      BY <1>1, <2>0, <3>1 DEF AccountInv, IndexInv, Indexed
    <3> QED BY <1>4, <2>0, <3>2, <3>3, <3>4 DEF IndexInv
  <2>4. ASSUME crossed' PROVE IndexInv'
    BY <1>4, <2>4 DEF IndexInv
  <2>5. TableInv'
    BY <1>1, <2>0 DEF TableInv, Table
  <2> QED BY <2>2, <2>3, <2>4, <2>5 DEF AccountInv
<1>6. CASE i # 1
  <2>0. reqs' = reqs /\ db' = People!Without(db, a, c, i)
    BY <1>3, <1>6
  <2>1. /\ TableInv' /\ DOMAIN db'.accs = DOMAIN db.accs
        /\ \A x \in DOMAIN db.accs \ {a} : db'.accs[x] = db.accs[x]
    <3>1. i \in Nat \ {0}
      BY <1>2
    <3> QED BY <1>1, <2>0, <3>1, TableWithout
  <2>2. TokenInv'
    BY <1>1, <2>0, <2>1, NobodySignsIn DEF AccountInv, TokenInv
  <2>3. ASSUME ~crossed' PROVE IndexInv'
    <3>1. ~crossed /\ \A r \in reqs : r.op = "delete" => r.acct # a
      BY <1>3, <2>3
    <3>2. Indexed(db)'
      BY <1>1, <1>2, <1>3, <2>0, <3>1, IndexWithout DEF AccountInv, IndexInv
    <3>3. ASSUME NEW r \in reqs, r.op = "delete" PROVE Deletable(r)'
      <4>1. Deletable(r) /\ r.acct \in DOMAIN db.accs /\ r.acct # a
        BY <3>1, <3>3 DEF AccountInv, IndexInv, TokenInv, Waiting
      <4> QED BY <2>0, <2>1, <4>1 DEF Deletable
    <3>4. Indexed(peopleDisk)'
      BY <1>1, <3>1 DEF AccountInv, IndexInv, Indexed
    <3> QED BY <1>4, <2>0, <3>2, <3>3, <3>4 DEF IndexInv
  <2>4. ASSUME crossed' PROVE IndexInv'
    BY <1>4, <2>4 DEF IndexInv
  <2> QED BY <2>1, <2>2, <2>3, <2>4 DEF AccountInv
<1> QED BY <1>5, <1>6

LEMMA BalanceKeeps ==
    ASSUME AccountInv, NEW r \in reqs, People!BalanceRead(r) PROVE AccountInv'
<1>1. /\ r.op = "delete" /\ reqs' = reqs \ {r} /\ UNCHANGED <<peopleDisk, tokens, grants, born, crossed>>
      /\ Waiting(r) /\ r.idx = 1 /\ r.what \in Creds /\ r.acct \in DOMAIN db.accs
      /\ db' = People!Without(db, r.acct, r.what, r.idx) \/ db' = db
  BY DEF People!BalanceRead, People!Finish, AccountInv, TokenInv, Waiting
<1>2. CASE db' = db
  <2>1. TokenInv'
    BY <1>1, <1>2, NobodySignsIn DEF AccountInv, TokenInv
  <2>2. IndexInv'
    BY <1>1, <1>2, SMTT(30) DEF AccountInv, IndexInv, Indexed, Deletable
  <2> QED BY <1>1, <1>2, <2>1, <2>2 DEF AccountInv, TableInv, Table
<1>3. CASE db' # db
  <2>0. PICK a : a = r.acct
    OBVIOUS
  <2>1. PICK c : c = r.what
    OBVIOUS
  <2>2. a \in DOMAIN db.accs /\ c \in Creds /\ db' = People!Without(db, a, c, 1) /\ TableInv
    BY <1>1, <1>3, <2>0, <2>1 DEF AccountInv
  <2>3. /\ TableInv' /\ DOMAIN db'.accs = DOMAIN db.accs
        /\ \A x \in DOMAIN db.accs \ {a} : db'.accs[x] = db.accs[x]
    <3>1. 1 \in Nat \ {0} /\ UNCHANGED <<peopleDisk, born>>
      BY <1>1
    <3> QED BY <2>2, <3>1, TableWithout
  <2>4. TokenInv'
    BY <1>1, <2>3, NobodySignsIn DEF AccountInv, TokenInv
  <2>5. ASSUME ~crossed PROVE IndexInv'
    <3>1. Deletable(r) /\ Indexed(db)
      BY <1>1, <2>5 DEF AccountInv, IndexInv
    <3>2. Len(db.accs[a].keys) \in Nat
      BY <2>2 DEF TableInv, Table, Account
    <3>3. 1 \in 1 .. Len(db.accs[a].keys) /\ db.accs[a].keys[1] = c /\ (Len(db.accs[a].keys) > 1 \/ db.accs[a].wallets # {})
      BY <2>0, <2>1, <3>1, <3>2 DEF Deletable
    <3>4. Indexed(db)'
      BY <1>1, <2>2, <3>1, <3>3, IndexWithout
    <3>5. ASSUME NEW q \in reqs', q.op = "delete" PROVE Deletable(q)'
      <4>1. Deletable(q) /\ q.acct \in DOMAIN db.accs /\ q.acct # a
        BY <1>1, <2>0, <2>5, <3>1, <3>5 DEF AccountInv, IndexInv, TokenInv, Waiting, Deletable
      <4> QED BY <1>1, <2>3, <4>1 DEF Deletable
    <3>6. Indexed(peopleDisk)'
      BY <1>1, <2>5 DEF AccountInv, IndexInv, Indexed
    <3> QED BY <1>1, <3>4, <3>5, <3>6 DEF AccountInv, IndexInv
  <2>6. ASSUME crossed PROVE IndexInv'
    BY <1>1, <2>6 DEF IndexInv, AccountInv
  <2> QED BY <2>3, <2>4, <2>5, <2>6 DEF AccountInv
<1> QED BY <1>2, <1>3

\* What asks for tokens and what takes them.
LEMMA AsksKeep ==
    ASSUME AccountInv, UNCHANGED <<db, peopleDisk, born, crossed>>, TokenInv',
           \A r \in reqs' : r.op = "delete" => r \in reqs
    PROVE  AccountInv'
<1>1. IndexInv'
  <2>1. \A r \in reqs : r.op = "delete" /\ Deletable(r) => Deletable(r)'
    BY DEF Deletable
  <2> QED BY <2>1 DEF AccountInv, IndexInv, Indexed
<1> QED BY <1>1 DEF AccountInv, TableInv, Table

LEMMA MintKeeps == ASSUME AccountInv, People!Mint PROVE AccountInv'
<1>1. UNCHANGED <<db, peopleDisk, reqs, grants, born, crossed>>
  BY DEF People!Mint
<1>2. PICK k \in Token : tokens' = Append(tokens, k)
  <2>1. CASE \E kind \in {"authn", "siwe", "device"} : People!Hand(kind, People!NoAcct)
    BY <2>1 DEF People!Hand, People!NoAcct, Token
  <2>2. CASE \E a \in DOMAIN db.accs \union {People!NoAcct} : People!Hand("reg", a)
    <3>1. PICK a \in Int : People!Hand("reg", a)
      BY <2>2 DEF AccountInv, TableInv, Table, People!NoAcct
    <3> QED BY <3>1 DEF People!Hand, Token
  <2> QED BY <2>1, <2>2 DEF People!Mint
<1>3. TokenInv'
  <2>1. tokens \in Seq(Token)
    BY DEF AccountInv, TokenInv
  <2>2. tokens' \in Seq(Token) /\ Len(tokens') >= Len(tokens) /\ \A t \in 1 .. Len(tokens) : tokens'[t] = tokens[t]
    BY <1>2, <2>1
  <2> QED BY <1>1, <2>2, NobodySignsIn DEF AccountInv
<1> QED BY <1>1, <1>3, AsksKeep

LEMMA TokenKeeps ==
    ASSUME AccountInv, NEW t \in 1 .. Len(tokens),
           \/ People!Spend(t) /\ UNCHANGED <<db, peopleDisk, reqs, grants, born, crossed>>
           \/ \E a \in DOMAIN db.accs : People!DeviceApprove(t, a)
           \/ People!RegisterVerify(t) \/ People!LoginVerify(t) \/ People!SiweVerify(t)
    PROVE  AccountInv'
<1>0. TokenInv /\ tokens \in Seq(Token) /\ tokens[t] \in Token
  BY DEF AccountInv, TokenInv
<1>1. CASE People!Spend(t) /\ UNCHANGED <<db, peopleDisk, reqs, grants, born, crossed>>
  <2>1. TokenInv'
    BY <1>0, <1>1, Spent, NobodySignsIn
  <2> QED BY <1>1, <2>1, AsksKeep
<1>2. CASE \E a \in DOMAIN db.accs : People!DeviceApprove(t, a)
  <2>1. PICK a \in DOMAIN db.accs : People!DeviceApprove(t, a)
    BY <1>2
  <2>2. PICK st \in {"approved", "denied"} : tokens' = [tokens EXCEPT ![t] = [tokens[t] EXCEPT !.st = st, !.acct = a]]
    BY <2>1 DEF People!DeviceApprove
  <2> DEFINE u == [tokens[t] EXCEPT !.st = st]
             v == [u EXCEPT !.acct = a]
  <2>3. a \in Int
    BY DEF AccountInv, TableInv, Table
  <2>4. u \in Token
    BY <1>0 DEF Token
  <2> HIDE DEF u
  <2>5. v \in Token
    BY <2>3, <2>4 DEF Token
  <2> HIDE DEF v
  <2>6. tokens' = [tokens EXCEPT ![t] = v]
    BY <2>2 DEF u, v
  <2>7. tokens[t].st = "open" /\ UNCHANGED <<db, peopleDisk, reqs, grants, born, crossed>>
    BY <2>1 DEF People!DeviceApprove, People!Open
  <2>8. TokenInv'
    BY <1>0, <2>5, <2>6, <2>7, NobodySignsIn
  <2> QED BY <2>7, <2>8, AsksKeep
<1>3. CASE People!RegisterVerify(t)
  <2>1. PICK c \in Creds : People!Take(t, People!Req("register", t, c, tokens[t].acct))
    BY <1>3 DEF People!RegisterVerify
  <2>2. /\ tokens[t].st = "open" /\ UNCHANGED <<db, peopleDisk, grants, born, crossed>>
        /\ People!Spend(t) /\ reqs' = reqs \union {People!Req("register", t, c, tokens[t].acct)}
    BY <1>3, <2>1 DEF People!RegisterVerify, People!Open, People!Take
  <2>3. PICK r : r = People!Req("register", t, c, tokens[t].acct)
    OBVIOUS
  <2>4. r.op = "register" /\ r.tok = t /\ r.what = c
    BY <2>3 DEF People!Req
  <2>5. TokenInv'
    BY <1>0, <2>2, <2>3, <2>4, TakeKeeps
  <2> QED BY <2>2, <2>3, <2>4, <2>5, AsksKeep
<1>4. CASE People!LoginVerify(t)
  <2>1. tokens[t].st = "open" /\ UNCHANGED <<db, peopleDisk, grants, born, crossed>>
    BY <1>4 DEF People!LoginVerify, People!Open
  <2>2. CASE People!Spend(t) /\ reqs' = reqs
    <3>1. TokenInv'
      BY <1>0, <2>1, <2>2, Spent, NobodySignsIn
    <3> QED BY <2>1, <2>2, <3>1, AsksKeep
  <2>3. CASE \E c \in Creds : People!Take(t, People!Req("login", t, c, db.byCred[c]))
    <3>1. PICK c \in Creds : People!Take(t, People!Req("login", t, c, db.byCred[c]))
      BY <2>3
    <3>2. PICK r : r = People!Req("login", t, c, db.byCred[c])
      OBVIOUS
    <3>3. People!Spend(t) /\ reqs' = reqs \union {r}
      BY <3>1, <3>2 DEF People!Take
    <3>4. r.op = "login" /\ r.tok = t
      BY <3>2 DEF People!Req
    <3>5. TokenInv'
      BY <1>0, <2>1, <3>3, <3>4, TakeKeeps
    <3> QED BY <2>1, <3>3, <3>4, <3>5, AsksKeep
  <2> QED BY <1>4, <2>2, <2>3 DEF People!LoginVerify
<1>5. CASE People!SiweVerify(t)
  <2>1. tokens[t].st = "open" /\ UNCHANGED <<db, peopleDisk, grants, born, crossed>>
    BY <1>5 DEF People!SiweVerify, People!Open
  <2>2. PICK w \in Wallets, a \in {People!NoAcct} \union {a \in DOMAIN db.accs : People!Session(a)} :
            People!Take(t, People!Req(IF a = People!NoAcct THEN "siwe" ELSE "link", t, w, a))
    BY <1>5 DEF People!SiweVerify
  <2>3. PICK r : r = People!Req(IF a = People!NoAcct THEN "siwe" ELSE "link", t, w, a)
    OBVIOUS
  <2>4. People!Spend(t) /\ reqs' = reqs \union {r}
    BY <2>2, <2>3 DEF People!Take
  <2>5. r.op \in {"siwe", "link"} /\ r.tok = t /\ r.what = w /\ (r.op = "link" => r.acct \in DOMAIN db.accs)
    BY <2>3 DEF People!Req
  <2>6. TokenInv'
    BY <1>0, <2>1, <2>4, <2>5, TakeKeeps
  <2> QED BY <2>1, <2>4, <2>5, <2>6, AsksKeep
<1> QED BY <1>1, <1>2, <1>3, <1>4, <1>5

LEMMA RequestKeeps ==
    ASSUME AccountInv, NEW r \in reqs, People!LoggedIn(r) \/ People!NotVerified(r) PROVE AccountInv'
<1>1. r.op # "delete" /\ reqs' = reqs \ {r} /\ UNCHANGED <<db, peopleDisk, tokens, born, crossed>>
  BY DEF People!LoggedIn, People!NotVerified, People!Refused, People!Finish
<1>2. TokenInv'
  <2>1. CASE People!LoggedIn(r)
    <3> DEFINE g == [tok |-> r.tok, n |-> People!Cardinality(grants), acct |-> r.acct]
    <3>1. g.tok = r.tok /\ grants' = grants \union {g}
      BY <2>1 DEF People!LoggedIn, People!Grant
    <3> QED BY <1>1, <3>1, GrantKeeps DEF AccountInv
  <2>2. CASE People!NotVerified(r)
    <3>1. grants' = grants
      BY <2>2 DEF People!NotVerified, People!Refused
    <3> QED BY <1>1, <3>1, NobodySignsIn DEF AccountInv, TokenInv
  <2> QED BY <2>1, <2>2
<1>3. IndexInv'
  <2>1. \A s \in reqs : s.op = "delete" /\ Deletable(s) => Deletable(s)'
    BY <1>1 DEF Deletable
  <2> QED BY <1>1, <2>1, SMTT(30) DEF AccountInv, IndexInv, Indexed
<1> QED BY <1>1, <1>2, <1>3 DEF AccountInv, TableInv, Table

LEMMA RestartKeeps == ASSUME AccountInv, People!Flush \/ People!Restart PROVE AccountInv'
<1>1. CASE People!Flush
  <2>1. peopleDisk' = db /\ UNCHANGED <<db, tokens, reqs, grants, born, crossed>>
    BY <1>1 DEF People!Flush
  <2>2. TokenInv'
    BY <2>1, NobodySignsIn DEF AccountInv, TokenInv
  <2>3. TableInv'
    BY <2>1 DEF AccountInv, TableInv, Table
  <2>4. IndexInv'
    <3>1. \A r \in reqs : r.op = "delete" /\ Deletable(r) => Deletable(r)'
      BY <2>1 DEF Deletable
    <3>2. Indexed(db) => Indexed(db)' /\ Indexed(peopleDisk)'
      BY <2>1 DEF Indexed
    <3> QED BY <2>1, <3>1, <3>2 DEF AccountInv, IndexInv
  <2> QED BY <2>2, <2>3, <2>4 DEF AccountInv
<1>2. CASE People!Restart
  <2>1. /\ db' = peopleDisk /\ reqs' = {} /\ UNCHANGED <<peopleDisk, grants, born, crossed>>
        /\ tokens' = [t \in DOMAIN tokens |-> [tokens[t] EXCEPT !.st = "spent"]]
    BY <1>2 DEF People!Restart
  <2>2. TokenInv'
    <3>1. tokens \in Seq(Token)
      BY DEF AccountInv, TokenInv
    <3>2. \A k \in Token : [k EXCEPT !.st = "spent"] \in Token /\ [k EXCEPT !.st = "spent"].st = "spent"
      BY DEF Token
    <3>3. tokens' \in Seq(Token) /\ Len(tokens') = Len(tokens) /\ \A t \in 1 .. Len(tokens) : tokens'[t].st = "spent"
      BY <2>1, <3>1, <3>2
    <3>4. Len(tokens') >= Len(tokens) /\ reqs' \subseteq reqs
      BY <2>1, <3>1, <3>3
    <3> QED BY <2>1, <3>3, <3>4, NobodySignsIn DEF AccountInv
  <2>3. TableInv'
    BY <2>1 DEF AccountInv, TableInv, Table
  <2>4. IndexInv'
    BY <2>1 DEF AccountInv, IndexInv, Indexed
  <2> QED BY <2>2, <2>3, <2>4 DEF AccountInv
<1> QED BY <1>1, <1>2

LEMMA AccountStep == ASSUME AccountInv, [People!Next]_(People!vars) PROVE AccountInv'
<1>1. CASE People!Mint
  BY <1>1, MintKeeps
<1>2. CASE People!Expire
  <2>1. PICK t \in 1 .. Len(tokens) : People!Spend(t)
    BY <1>2 DEF People!Expire
  <2>2. UNCHANGED <<db, peopleDisk, reqs, grants, born, crossed>>
    BY <1>2 DEF People!Expire
  <2> QED BY <2>1, <2>2, TokenKeeps
<1>3. CASE People!Flush \/ People!Restart
  BY <1>3, RestartKeeps
<1>4. CASE \E t \in 1 .. Len(tokens) : \/ People!RegisterVerify(t) \/ People!LoginVerify(t) \/ People!SiweVerify(t)
                                       \/ \E a \in DOMAIN db.accs : People!DeviceApprove(t, a)
  BY <1>4, TokenKeeps
<1>5. CASE \E t \in 1 .. Len(tokens) : People!DeviceClaim(t)
  <2>1. PICK t \in 1 .. Len(tokens) : People!DeviceClaim(t)
    BY <1>5
  <2>2. UNCHANGED <<db, peopleDisk, reqs, born, crossed>> /\ TokenInv'
    BY <2>1, DeviceKeeps DEF People!DeviceClaim, AccountInv
  <2> QED BY <2>2, AsksKeep
<1>6. CASE \E r \in reqs : People!LoggedIn(r) \/ People!NotVerified(r)
  <2>1. PICK r \in reqs : People!LoggedIn(r) \/ People!NotVerified(r)
    BY <1>6
  <2> QED BY <2>1, RequestKeeps
<1>7. CASE \E r \in reqs : People!Registered(r) \/ People!SiweSigned(r) \/ People!Linked(r) \/ People!BalanceRead(r)
  <2>1. PICK r \in reqs : People!Registered(r) \/ People!SiweSigned(r) \/ People!Linked(r) \/ People!BalanceRead(r)
    BY <1>7
  <2>2. CASE People!Registered(r)
    BY <2>2, RegisterKeeps
  <2>3. CASE People!SiweSigned(r)
    BY <2>3, SiweKeeps
  <2>4. CASE People!Linked(r)
    BY <2>4, LinkKeeps
  <2>5. CASE People!BalanceRead(r)
    BY <2>5, BalanceKeeps
  <2> QED BY <2>1, <2>2, <2>3, <2>4, <2>5
<1>8. CASE \E a \in DOMAIN db.accs, c \in Creds : People!DeletePasskey(a, c)
  BY <1>8, DeleteKeeps
<1>9. CASE UNCHANGED People!vars
  <2>1. UNCHANGED <<db, peopleDisk, tokens, reqs, grants, born, crossed>>
    BY <1>9 DEF People!vars
  <2>2. TokenInv'
    BY <2>1, NobodySignsIn DEF AccountInv, TokenInv
  <2> QED BY <2>1, <2>2, AsksKeep
<1> QED BY <1>1, <1>2, <1>3, <1>4, <1>5, <1>6, <1>7, <1>8, <1>9, Zenon DEF People!Next

LEMMA AccountStart == ASSUME People!Init PROVE AccountInv
<1>1. /\ db = People!Empty /\ peopleDisk = People!Empty /\ tokens = <<>> /\ reqs = {} /\ grants = {} /\ born = 0 /\ crossed = FALSE
  BY DEF People!Init
<1>2. DOMAIN People!Empty.accs = {} /\ Table(People!Empty) /\ Indexed(People!Empty)
  BY <1>1 DEF Table, Indexed, People!Empty, People!NoAcct
<1>3. TableInv
  BY <1>1, <1>2 DEF TableInv
<1>4. TokenInv
  BY <1>1 DEF TokenInv, People!SingleUse
<1>5. IndexInv
  BY <1>1, <1>2 DEF IndexInv
<1> QED BY <1>3, <1>4, <1>5 DEF AccountInv

\* A challenge, a nonce or a device code signs one session in, whatever handlers wait
\* at the same time; every passkey and wallet belongs to the one account that lists
\* it, and no account loses its last way in, unless two deletions crossed
\* (register, login, siwe, device and deleteCredential of the accounts), for any
\* number of accounts, keys, tokens and waiting requests.
THEOREM SignInIsSound == People!Spec => []People!SignInSound
<1>1. People!Init => AccountInv
  BY AccountStart
<1>2. AccountInv /\ [People!Next]_(People!vars) => AccountInv'
  BY AccountStep
<1>3. AccountInv => People!SignInSound
  <2> SUFFICES ASSUME AccountInv, ~crossed PROVE People!OneOwner /\ People!NoLockout
    BY DEF AccountInv, TokenInv, People!SignInSound
  <2>1. Indexed(db) /\ \A a \in DOMAIN db.accs : db.accs[a].keys \in Seq(Creds)
    BY DEF AccountInv, TableInv, Table, Account, IndexInv
  <2>2. People!NoLockout
    BY <2>1 DEF Indexed, People!NoLockout
  <2>3. People!OneOwner
    BY <2>1 DEF Indexed, People!OneOwner, People!Contains
  <2> QED BY <2>2, <2>3
<1> QED BY <1>1, <1>2, <1>3, PTL DEF People!Spec

-----------------------------------------------------------------------------
(* Secrets of the fleet                                                      *)

Gate == INSTANCE FleetGate WITH lease <- gateLease, given <- gateGiven,
    faults <- gateFaults, MaxFaults <- MaxGateFaults

\* A row that may still be used says what the ledger says, or the ledger changed no
\* longer ago than the row was read; the same of a read under way.
GateInv ==
    /\ since \in Int /\ since >= 0 /\ since <= Ttl + 1
    /\ gateLease = [runner |-> gateLease.runner, lapsed |-> gateLease.lapsed] /\ gateLease.lapsed \in BOOLEAN
    /\ row = [runner |-> row.runner, lapsed |-> row.lapsed, age |-> row.age]
    /\ row.age \in Int /\ row.age >= 0 /\ row.lapsed \in BOOLEAN
    /\ row.age < Ttl => \/ row.runner = gateLease.runner /\ row.lapsed = gateLease.lapsed
                        \/ since <= row.age + 1
    /\ \/ reading = Gate!NoRead
       \/ /\ reading = [runner |-> reading.runner, age |-> reading.age] /\ reading.age \in {0, 1}
          /\ reading.runner = gateLease.runner \/ since <= reading.age

LEMMA GateStart == ASSUME Ttl \in Nat, Gate!Init PROVE GateInv
BY DEF Gate!Init, GateInv

\* Asking, being refused and the registry touch neither ledger nor cache.
LEMMA GateStill ==
    ASSUME Ttl \in Nat, GateInv, UNCHANGED <<gateLease, since, reading>>,
           row' = row \/ row' = [row EXCEPT !.age = Ttl]
    PROVE  GateInv'
<1>1. CASE row' = row
  BY <1>1 DEF GateInv
<1>2. CASE row' = [row EXCEPT !.age = Ttl]
  <2>1. row' = [runner |-> row.runner, lapsed |-> row.lapsed, age |-> Ttl]
    BY <1>2 DEF GateInv
  <2> QED BY <2>1 DEF GateInv
<1> QED BY <1>1, <1>2

LEMMA ReadsKeep == ASSUME Ttl \in Nat, GateInv, Gate!StartRead \/ Gate!EndRead PROVE GateInv'
<1>1. CASE Gate!StartRead
  BY <1>1 DEF Gate!StartRead, Gate!Chain, GateInv
<1>2. CASE Gate!EndRead
  <2>1. PICK lapsed \in BOOLEAN : lapsed <=> gateLease.lapsed /\ reading.runner = gateLease.runner
    OBVIOUS
  <2>2. row' = [runner |-> reading.runner, lapsed |-> lapsed, age |-> 0]
    BY <1>2, <2>1 DEF Gate!EndRead
  <2>3. reading # Gate!NoRead /\ reading' = Gate!NoRead /\ gateLease' = gateLease /\ since' = since
    BY <1>2 DEF Gate!EndRead, Gate!Chain
  <2> QED BY <2>1, <2>2, <2>3 DEF GateInv
<1> QED BY <1>1, <1>2

LEMMA GateTicks == ASSUME Ttl \in Nat, GateInv, Gate!Tick PROVE GateInv'
<1>1. PICK age \in Int : age = IF row.age < Ttl THEN row.age + 1 ELSE row.age
  BY DEF GateInv
<1>2. row' = [runner |-> row.runner, lapsed |-> row.lapsed, age |-> age]
  BY <1>1 DEF Gate!Tick, GateInv
<1>3. since' = IF since < Ttl + 1 THEN since + 1 ELSE since
  BY DEF Gate!Tick, Gate!Cap
<1>4. \/ reading = Gate!NoRead /\ reading' = Gate!NoRead
      \/ reading # Gate!NoRead /\ reading.age = 0 /\ reading' = [runner |-> reading.runner, age |-> 1]
  BY DEF Gate!Tick, GateInv
<1>5. gateLease' = gateLease
  BY DEF Gate!Tick
<1> QED BY <1>1, <1>2, <1>3, <1>4, <1>5 DEF GateInv

LEMMA LeaseChanges == ASSUME Ttl \in Nat, GateInv, Gate!Lease PROVE GateInv'
<1>1. since' = 0 /\ reading' = reading
  BY DEF Gate!Lease
<1>2. /\ gateLease' = [runner |-> gateLease'.runner, lapsed |-> gateLease'.lapsed] /\ gateLease'.lapsed \in BOOLEAN
      /\ row' = row \/ row' = [row EXCEPT !.lapsed = TRUE]
  <2>1. PICK yes \in BOOLEAN : yes = TRUE
    OBVIOUS
  <2>2. CASE \E b \in Boxes \union {0} : gateLease' = [runner |-> b, lapsed |-> FALSE]
    BY <2>2 DEF Gate!Lease
  <2>3. CASE gateLease' = [gateLease EXCEPT !.lapsed = TRUE]
    <3>1. gateLease' = [runner |-> gateLease.runner, lapsed |-> yes]
      BY <2>1, <2>3 DEF GateInv
    <3> QED BY <2>3, <3>1 DEF Gate!Lease
  <2> QED BY <2>2, <2>3 DEF Gate!Lease
<1>3. CASE row' = row
  BY <1>1, <1>2, <1>3 DEF GateInv
<1>4. CASE row' = [row EXCEPT !.lapsed = TRUE]
  <2>1. PICK yes \in BOOLEAN : yes = TRUE
    OBVIOUS
  <2>2. row' = [runner |-> row.runner, lapsed |-> yes, age |-> row.age]
    BY <1>4, <2>1 DEF GateInv
  <2> QED BY <1>1, <1>2, <2>2 DEF GateInv
<1> QED BY <1>2, <1>3, <1>4

LEMMA GateStep == ASSUME Ttl \in Nat, GateInv, [Gate!Next]_(Gate!vars) PROVE GateInv'
<1>1. CASE Gate!StartRead \/ Gate!EndRead
  BY <1>1, ReadsKeep
<1>2. CASE Gate!Tick
  BY <1>2, GateTicks
<1>3. CASE Gate!Lease
  BY <1>3, LeaseChanges
<1>4. CASE Gate!Received \/ Gate!Registry
  BY <1>4, GateStill DEF Gate!Received, Gate!Registry, Gate!Chain, Gate!Cache
<1>5. ASSUME NEW b \in Boxes, Gate!Ask(b) \/ Gate!Authorize(b) \/ Gate!Unreadable(b) PROVE GateInv'
  BY <1>5, GateStill DEF Gate!Ask, Gate!Authorize, Gate!Unreadable, Gate!Chain, Gate!Cache
<1>6. ASSUME NEW b \in Boxes, Gate!CheckLease(b) PROVE GateInv'
  BY <1>6, GateStill DEF Gate!CheckLease, Gate!Chain
<1>7. CASE UNCHANGED Gate!vars
  BY <1>7, GateStill DEF Gate!vars
<1> QED BY <1>1, <1>2, <1>3, <1>4, <1>5, <1>6, <1>7 DEF Gate!Next

\* Only a check that found the box in a usable row hands anything out.
LEMMA HandedToHolder == ASSUME Ttl \in Nat, GateInv, [Gate!Next]_(Gate!vars) PROVE Gate!OnlyHolders
<1>1. ASSUME NEW b \in Boxes, Gate!CheckLease(b) PROVE Gate!OnlyHolders
  <2>1. CASE Gate!ByFleet(ask[b])
    <3>1. gateGiven'.what = "none"
      BY <1>1, <2>1 DEF Gate!CheckLease, Gate!Serve
    <3> QED BY <3>1 DEF Gate!OnlyHolders
  <2>2. CASE ~Gate!ByFleet(ask[b]) /\ Gate!HoldsLease(b)
    <3>1. gateGiven'.to = b /\ row.age < Ttl /\ row.runner = b /\ ~row.lapsed
      BY <1>1, <2>2 DEF Gate!CheckLease, Gate!Serve, Gate!HoldsLease
    <3> QED BY <3>1 DEF Gate!OnlyHolders, GateInv
  <2>3. CASE ~Gate!ByFleet(ask[b]) /\ ~Gate!HoldsLease(b)
    BY <1>1, <2>3 DEF Gate!CheckLease, Gate!OnlyHolders
  <2> QED BY <2>1, <2>2, <2>3
<1>2. CASE Gate!Received
  BY <1>2 DEF Gate!Received, Gate!Nothing, Gate!OnlyHolders
<1>3. ASSUME UNCHANGED gateGiven PROVE Gate!OnlyHolders
  BY <1>3 DEF Gate!OnlyHolders
<1> QED BY <1>1, <1>2, <1>3 DEF Gate!Next, Gate!vars, Gate!StartRead, Gate!EndRead, Gate!Tick,
    Gate!Lease, Gate!Registry, Gate!Ask,
        Gate!Authorize, Gate!Unreadable

\* Secrets and challenges go to the box whose lease runs, or ended no longer ago
\* than one ledger cache and the read that filled it (holdsLease, operatorAuth), for
\* any number of boxes and any age of the cache.
THEOREM SecretsToHolders == ASSUME Ttl \in Nat PROVE Gate!Spec => [][Gate!OnlyHolders]_(Gate!vars)
<1>1. GateInv /\ [Gate!Next]_(Gate!vars) => [Gate!OnlyHolders]_(Gate!vars)
  BY HandedToHolder
<1> QED BY <1>1, GateStart, GateStep, PTL DEF Gate!Spec

-----------------------------------------------------------------------------
(* Certificates                                                              *)

Issuer == INSTANCE Certs WITH lease <- issuerLease, given <- issuerGiven,
    faults <- issuerFaults, MaxFaults <- MaxIssuerFaults

LEMMA AtMostOne ==
    ASSUME NEW S, \A s, t \in S : s = t PROVE IsFiniteSet(S) /\ Cardinality(S) <= 1
<1>1. CASE S = {}
  BY <1>1, FS_EmptySet
<1>2. CASE S # {}
  <2>1. PICK s \in S : TRUE
    BY <1>2
  <2>2. S = {s}
    BY <2>1
  <2>3. IsFiniteSet({s}) /\ Cardinality({s}) = 1
    BY FS_Singleton, Zenon
  <2> QED BY <2>2, <2>3
<1> QED BY <1>1, <1>2

\* Orders of a key that a CA may still issue.
Open(k) == {n \in 1 .. Len(cao) : cao[n].key = k /\ n \notin issuerGiven /\ cao[n].st \notin {"invalid", "collected"}}

Stages == {"none", "walk", "order", "authz", "resume", "collect", "pending", "refused"}
Issuance(i) ==
    i = [at |-> i.at, ca |-> i.ca, n |-> i.n, left |-> i.left, cooled |-> i.cooled, proven |-> i.proven,
         again |-> i.again, retried |-> i.retried, resumed |-> i.resumed]

\* The order a key has is the one on disk or the one in hand, which are the same when there
\* are both; one in hand that is not on disk any more is given up, unless it is not finalized.
OneInHand(i, h, S) ==
    /\ i.at \in Stages
    /\ h \in 0 .. Len(cao) /\ i.n \in 0 .. Len(cao) /\ (h = 0 \/ i.n = 0 \/ h = i.n)
    /\ S \subseteq {h, i.n}
    /\ i.n # 0 => cao[i.n].ca = i.ca
    /\ i.at \in {"walk", "order", "refused"} => i.n = 0 /\ h = 0
    /\ i.at = "none" => i.n = 0
    /\ i.at \in {"authz", "collect", "resume"} => i.n # 0
    /\ i.at = "order" => ~i.resumed
    /\ i.at \in {"collect", "resume", "pending"} => i.n \in {0, h} \/ i.n \in issuerGiven

CertInv ==
    /\ \E S : cao \in Seq(S)
    /\ \A n \in 1 .. Len(cao) : cao[n] = [ca |-> cao[n].ca, key |-> cao[n].key, st |-> cao[n].st]
    /\ issue = [k \in Issuer!Keys |-> issue[k]] /\ held = [k \in Issuer!Keys |-> held[k]]
    /\ \A k \in Issuer!Keys : Issuance(issue[k]) /\ OneInHand(issue[k], held[k], Open(k))

-----------------------------------------------------------------------------
(* Issuances                                                                 *)

Has(i, at, n, ca) == Issuance(i) /\ i.at = at /\ i.n = n /\ i.ca = ca

\* A change of one field leaves the others.
LEMMA Field ==
    ASSUME NEW i, NEW at, NEW n, NEW ca, Has(i, at, n, ca), NEW x
    PROVE  /\ Has([i EXCEPT !.at = x], x, n, ca)
           /\ Has([i EXCEPT !.n = x], at, x, ca)
           /\ Has([i EXCEPT !.ca = x], at, n, x)
           /\ Has([i EXCEPT !.left = x], at, n, ca)
           /\ Has([i EXCEPT !.cooled = x], at, n, ca)
           /\ Has([i EXCEPT !.proven = x], at, n, ca)
           /\ Has([i EXCEPT !.again = x], at, n, ca)
           /\ Has([i EXCEPT !.retried = x], at, n, ca)
           /\ Has([i EXCEPT !.resumed = x], at, n, ca)
<1>1. Has([i EXCEPT !.at = x], x, n, ca)
  BY DEF Has, Issuance
<1>2. Has([i EXCEPT !.n = x], at, x, ca)
  BY DEF Has, Issuance
<1>3. Has([i EXCEPT !.ca = x], at, n, x)
  BY DEF Has, Issuance
<1>4. Has([i EXCEPT !.left = x], at, n, ca)
  BY DEF Has, Issuance
<1>5. Has([i EXCEPT !.cooled = x], at, n, ca)
  BY DEF Has, Issuance
<1>6. Has([i EXCEPT !.proven = x], at, n, ca)
  BY DEF Has, Issuance
<1>7. Has([i EXCEPT !.again = x], at, n, ca)
  BY DEF Has, Issuance
<1>8. Has([i EXCEPT !.retried = x], at, n, ca)
  BY DEF Has, Issuance
<1>9. Has([i EXCEPT !.resumed = x], at, n, ca)
  BY DEF Has, Issuance
<1> QED BY <1>1, <1>2, <1>3, <1>4, <1>5, <1>6, <1>7, <1>8, <1>9

\* A change of another field leaves what says that the issuance resumes an order.
LEMMA Resumes ==
    ASSUME NEW i, Issuance(i), NEW x
    PROVE  /\ [i EXCEPT !.at = x].resumed = i.resumed
           /\ [i EXCEPT !.n = x].resumed = i.resumed
           /\ [i EXCEPT !.ca = x].resumed = i.resumed
           /\ [i EXCEPT !.left = x].resumed = i.resumed
           /\ [i EXCEPT !.cooled = x].resumed = i.resumed
           /\ [i EXCEPT !.again = x].resumed = i.resumed
           /\ [i EXCEPT !.retried = x].resumed = i.resumed
           /\ [i EXCEPT !.resumed = x].resumed = x
BY DEF Issuance

\* What the steps of an issuance make of it.
LEMMA Moves ==
    ASSUME NEW i, Issuance(i), NEW at, NEW n, NEW ca, NEW s, NEW t
    PROVE  /\ Has([i EXCEPT !.at = at, !.n = n], at, n, i.ca)
           /\ Has([i EXCEPT !.at = at, !.n = n, !.cooled = s], at, n, i.ca)
           /\ Has([i EXCEPT !.at = at, !.n = n, !.proven = s], at, n, i.ca)
           /\ Has([i EXCEPT !.at = at, !.n = n, !.retried = s], at, n, i.ca)
           /\ Has([i EXCEPT !.at = at, !.ca = ca, !.left = s], at, i.n, ca)
           /\ Has([i EXCEPT !.at = at, !.ca = ca, !.left = s, !.cooled = t, !.again = n], at, i.n, ca)
           /\ Has([i EXCEPT !.at = at, !.n = n, !.left = s, !.cooled = t], at, n, i.ca)
           /\ Has([i EXCEPT !.at = at, !.n = n, !.left = s, !.resumed = t, !.ca = ca], at, n, ca)
           /\ Has([i EXCEPT !.at = at, !.retried = s], at, i.n, i.ca)
           /\ Has([i EXCEPT !.retried = s, !.resumed = t], i.at, i.n, i.ca)
<1> DEFINE a == [i EXCEPT !.at = at]
           an == [a EXCEPT !.n = n]
           ac == [a EXCEPT !.ca = ca]
           acl == [ac EXCEPT !.left = s]
           aclc == [acl EXCEPT !.cooled = t]
           anl == [an EXCEPT !.left = s]
           anlr == [anl EXCEPT !.resumed = t]
           e == [i EXCEPT !.retried = s]
<1>0. Has(i, i.at, i.n, i.ca)
  BY DEF Has
<1>1. Has(a, at, i.n, i.ca)
  BY <1>0, Field, Zenon
<1>2. Has(an, at, n, i.ca)
  <2> HIDE DEF a
  <2> QED BY <1>1, Field, Zenon
<1>3. Has(ac, at, i.n, ca)
  <2> HIDE DEF a
  <2> QED BY <1>1, Field, Zenon
<1>4. Has(acl, at, i.n, ca)
  <2> HIDE DEF ac
  <2> QED BY <1>3, Field, Zenon
<1>5. Has(aclc, at, i.n, ca)
  <2> HIDE DEF acl
  <2> QED BY <1>4, Field, Zenon
<1>6. Has([aclc EXCEPT !.again = n], at, i.n, ca)
  <2> HIDE DEF aclc
  <2> QED BY <1>5, Field, Zenon
<1>7. Has(anl, at, n, i.ca)
  <2> HIDE DEF an
  <2> QED BY <1>2, Field, Zenon
<1>8. Has([anl EXCEPT !.cooled = t], at, n, i.ca) /\ Has(anlr, at, n, i.ca)
  <2> HIDE DEF anl
  <2> QED BY <1>7, Field, Zenon
<1>10. Has([anlr EXCEPT !.ca = ca], at, n, ca)
  <2> HIDE DEF anlr
  <2> QED BY <1>8, Field, Zenon
<1>11. Has([a EXCEPT !.retried = s], at, i.n, i.ca)
  <2> HIDE DEF a
  <2> QED BY <1>1, Field, Zenon
<1>12. Has(e, i.at, i.n, i.ca)
  BY <1>0, Field, Zenon
<1>13. Has([e EXCEPT !.resumed = t], i.at, i.n, i.ca)
  <2> HIDE DEF e
  <2> QED BY <1>12, Field, Zenon
<1>9. /\ Has([an EXCEPT !.cooled = s], at, n, i.ca) /\ Has([an EXCEPT !.proven = s], at, n, i.ca)
      /\ Has([an EXCEPT !.retried = s], at, n, i.ca)
  <2> HIDE DEF an
  <2> QED BY <1>2, Field, Zenon
<1> QED BY <1>2, <1>4, <1>6, <1>8, <1>9, <1>10, <1>11, <1>13

\* Both resume an order, or neither does.
Alike(i, j) == j.resumed = i.resumed

\* The moves to an order, and what says that the issuance resumes one.
LEMMA Leaves ==
    ASSUME NEW i, Issuance(i), NEW at, NEW ca, NEW s, NEW t, NEW n
    PROVE  /\ Alike(i, [i EXCEPT !.at = at, !.ca = ca, !.left = s])
           /\ Alike(i, [i EXCEPT !.at = at, !.ca = ca, !.left = s, !.cooled = t, !.again = n])
           /\ Alike(i, [i EXCEPT !.at = at, !.n = n, !.retried = s])
<1> DEFINE a == [i EXCEPT !.at = at]
           ac == [a EXCEPT !.ca = ca]
           acl == [ac EXCEPT !.left = s]
           aclc == [acl EXCEPT !.cooled = t]
           an == [a EXCEPT !.n = n]
<1>1. Issuance(a) /\ Issuance(ac) /\ Issuance(acl) /\ Issuance(aclc) /\ Issuance(an)
  <2>0. Has(i, i.at, i.n, i.ca)
    BY DEF Has
  <2>1. Has(a, at, i.n, i.ca)
    BY <2>0, Field, Zenon
  <2> HIDE DEF a
  <2>2. Has(ac, at, i.n, ca) /\ Has(an, at, n, i.ca)
    BY <2>1, Field, Zenon
  <2> HIDE DEF ac
  <2>3. Has(acl, at, i.n, ca)
    BY <2>2, Field, Zenon
  <2> HIDE DEF acl
  <2>4. Has(aclc, at, i.n, ca)
    BY <2>3, Field, Zenon
  <2> QED BY <2>1, <2>2, <2>3, <2>4 DEF Has
<1>2. a.resumed = i.resumed
  BY Resumes, Zenon
<1>3. ac.resumed = i.resumed /\ an.resumed = i.resumed
  <2> HIDE DEF a
  <2> QED BY <1>1, <1>2, Resumes, Zenon
<1>4. acl.resumed = i.resumed
  <2> HIDE DEF ac
  <2> QED BY <1>1, <1>3, Resumes, Zenon
<1>5. aclc.resumed = i.resumed
  <2> HIDE DEF acl
  <2> QED BY <1>1, <1>4, Resumes, Zenon
<1>6. [aclc EXCEPT !.again = n].resumed = i.resumed
  <2> HIDE DEF aclc
  <2> QED BY <1>1, <1>5, Resumes, Zenon
<1>7. [an EXCEPT !.retried = s].resumed = i.resumed
  <2> HIDE DEF an
  <2> QED BY <1>1, <1>3, Resumes, Zenon
<1> HIDE DEF acl, aclc, an
<1>8. Alike(i, acl) /\ Alike(i, [aclc EXCEPT !.again = n]) /\ Alike(i, [an EXCEPT !.retried = s])
  BY <1>4, <1>6, <1>7 DEF Alike
<1> QED BY <1>8, Zenon DEF acl, aclc, an

\* The orders of keys other than k stay, or are given up; an order keeps its CA.
OrdersGo(k) ==
    /\ Len(cao) <= Len(cao') /\ (\E S : cao' \in Seq(S)) /\ issuerGiven \subseteq issuerGiven'
    /\ \A n \in 1 .. Len(cao') : cao'[n] = [ca |-> cao'[n].ca, key |-> cao'[n].key, st |-> cao'[n].st]
    /\ \A n \in 1 .. Len(cao) : cao'[n].ca = cao[n].ca
    /\ \A j \in Issuer!Keys : j # k => Open(j)' \subseteq Open(j)

LEMMA OrdersStay ==
    ASSUME CertInv, NEW k, cao' = cao, issuerGiven \subseteq issuerGiven'
    PROVE  OrdersGo(k) /\ Open(k)' = Open(k) \ issuerGiven'
<1>1. Len(cao) \in Nat
  BY DEF CertInv
<1>2. \A j : Open(j)' = Open(j) \ issuerGiven'
  BY DEF Open
<1> QED BY <1>1, <1>2 DEF CertInv, OrdersGo

\* One issuance moves on.
LEMMA OneMoves ==
    ASSUME CertInv, NEW k \in Issuer!Keys, NEW i, Issuance(i), NEW h,
           issue' = [issue EXCEPT ![k] = i], held' = [held EXCEPT ![k] = h], OrdersGo(k),
           OneInHand(i, h, Open(k))'
    PROVE  CertInv'
<1>1. Len(cao) \in Nat /\ Len(cao') \in Nat /\ Len(cao) <= Len(cao')
  BY DEF CertInv, OrdersGo
<1>2. issue'[k] = i /\ held'[k] = h
  BY DEF CertInv
<1>3. ASSUME NEW j \in Issuer!Keys, j # k PROVE Issuance(issue[j])' /\ OneInHand(issue[j], held[j], Open(j))'
  <2>1. issue'[j] = issue[j] /\ held'[j] = held[j]
    BY <1>3 DEF CertInv
  <2>2. PICK ij, hj : ij = issue[j] /\ hj = held[j]
    OBVIOUS
  <2>3. OneInHand(ij, hj, Open(j)) /\ Issuance(ij)
    BY <1>3, <2>2 DEF CertInv
  <2>4. Open(j)' \subseteq Open(j) /\ issuerGiven \subseteq issuerGiven' /\ \A n \in 1 .. Len(cao) : cao'[n].ca = cao[n].ca
    BY <1>3 DEF OrdersGo
  <2>5. OneInHand(ij, hj, Open(j))'
    BY <1>1, <2>3, <2>4 DEF OneInHand
  <2> QED BY <2>1, <2>2, <2>3, <2>5 DEF Issuance
<1>4. \A j \in Issuer!Keys : Issuance(issue[j])' /\ OneInHand(issue[j], held[j], Open(j))'
  BY <1>2, <1>3 DEF Issuance
<1>5. issue' = [j \in Issuer!Keys |-> issue'[j]] /\ held' = [j \in Issuer!Keys |-> held'[j]]
  BY DEF CertInv
<1>6. Issuer!Keys' = Issuer!Keys
  BY DEF Issuer!Keys
<1> QED BY <1>4, <1>5, <1>6 DEF CertInv, OrdersGo

\* Nothing moves, or the orders move by themselves.
LEMMA CertsStill ==
    ASSUME CertInv, UNCHANGED <<issue, held>>, OrdersGo(0),
           \A k \in Issuer!Keys : Open(k)' \subseteq Open(k)
    PROVE  CertInv'
<1>1. Len(cao) \in Nat /\ Len(cao') \in Nat /\ Len(cao) <= Len(cao')
  BY DEF CertInv, OrdersGo
<1>2. ASSUME NEW k \in Issuer!Keys PROVE Issuance(issue[k])' /\ OneInHand(issue[k], held[k], Open(k))'
  <2>1. PICK i, h : i = issue[k] /\ h = held[k]
    OBVIOUS
  <2>2. OneInHand(i, h, Open(k)) /\ Issuance(i)
    BY <2>1 DEF CertInv
  <2>3. OneInHand(i, h, Open(k))'
    BY <1>1, <2>2 DEF OneInHand, OrdersGo
  <2> QED BY <2>1, <2>2, <2>3 DEF Issuance
<1> QED BY <1>2 DEF CertInv, OrdersGo, Issuer!Keys

\* An issuance that holds no order loses none by ending.
LEMMA IssueEnds ==
    ASSUME CertInv, NEW k \in Issuer!Keys, UNCHANGED <<held, cao, issuerGiven>>, issue[k].at \in {"none", "refused", "pending"},
           issue' = [issue EXCEPT ![k] = Issuer!NoIssue]
    PROVE  CertInv'
<1>1. OrdersGo(k) /\ Open(k)' = Open(k) \ issuerGiven'
  BY OrdersStay
<1>2. PICK h : h = held[k]
  OBVIOUS
<1>3. Issuance(Issuer!NoIssue) /\ Issuer!NoIssue.at = "none" /\ Issuer!NoIssue.n = 0
  BY DEF Issuance, Issuer!NoIssue
<1>4. OneInHand(issue[k], h, Open(k)) /\ Len(cao) \in Nat
  BY <1>2 DEF CertInv
<1>7. \A n \in issuerGiven : n \notin Open(k)
  BY DEF Open
<1>5. OneInHand(Issuer!NoIssue, h, Open(k))'
  BY <1>1, <1>3, <1>4, <1>7 DEF OneInHand, Stages
<1>6. held' = [held EXCEPT ![k] = h]
  BY <1>2 DEF CertInv
<1> QED BY <1>1, <1>3, <1>5, <1>6, OneMoves

\* The box, the lease and the cool-offs move no order.
LEMMA BoxKeeps ==
    ASSUME CertInv,
           \/ Issuer!Pump \/ Issuer!RenewalDue \/ Issuer!PendingKeyExpires \/ Issuer!BoxTimeout \/ Issuer!AnswerLater
           \/ Issuer!OwnCa \/ Issuer!BoxRestart \/ Issuer!LeaseMoves \/ Issuer!CoolOffEnds
           \/ \E k \in Issuer!Keys : Issuer!RegisterAccount(k)
    PROVE  CertInv'
<1>1. UNCHANGED <<issue, held, cao, issuerGiven>>
  BY DEF Issuer!Pump, Issuer!RenewalDue, Issuer!PendingKeyExpires, Issuer!BoxTimeout,
      Issuer!AnswerLater, Issuer!OwnCa,
         Issuer!BoxRestart, Issuer!LeaseMoves, Issuer!CoolOffEnds, Issuer!RegisterAccount,
         Issuer!Relay
<1>2. OrdersGo(0) /\ \A k : Open(k)' \subseteq Open(k)
  BY <1>1, OrdersStay DEF Open
<1> QED BY <1>1, <1>2, CertsStill

LEMMA AnswerKeeps == ASSUME CertInv, Issuer!Answer PROVE CertInv'
<1>1. /\ issue[box.pend].at \in {"none", "refused", "pending"} /\ UNCHANGED <<held, cao, issuerGiven>>
      /\ issue' = [issue EXCEPT ![box.pend] = Issuer!NoIssue]
  BY DEF Issuer!Answer
<1>2. CASE box.pend \in Issuer!Keys
  <2>1. PICK k \in Issuer!Keys : k = box.pend
    BY <1>2
  <2> QED BY <1>1, <2>1, IssueEnds
<1>3. CASE box.pend \notin Issuer!Keys
  <2>1. issue' = issue
    BY <1>1, <1>3 DEF CertInv
  <2>2. OrdersGo(0) /\ \A k : Open(k)' \subseteq Open(k)
    BY <1>1, OrdersStay DEF Open
  <2> QED BY <1>1, <2>1, <2>2, CertsStill
<1> QED BY <1>2, <1>3

LEMMA IssueKeeps == ASSUME CertInv, Issuer!Issue PROVE CertInv'
<1>1. UNCHANGED <<held, cao, issuerGiven>>
  BY DEF Issuer!Issue
<1>2. OrdersGo(0) /\ \A k : Open(k)' \subseteq Open(k)
  BY <1>1, OrdersStay DEF Open
<1>3. CASE issue' = issue
  BY <1>1, <1>2, <1>3, CertsStill
<1>4. CASE issue' # issue
  <2>1. PICK k : k = box.pend
    OBVIOUS
  <2> DEFINE i == [Issuer!NoIssue EXCEPT !.at = IF held[k] # 0 THEN "resume" ELSE Issuer!Start, !.n = held[k],
                     !.left = Issuer!Usable, !.resumed = held[k] # 0, !.ca = IF held[k] # 0 THEN cao[held[k]].ca ELSE 0]
  <2>2. issue[k].at = "none" /\ issue' = [issue EXCEPT ![k] = i]
    BY <1>4, <2>1 DEF Issuer!Issue
  <2>3. k \in Issuer!Keys
    BY <1>4, <2>2 DEF CertInv
  <2>4. PICK h : h = held[k]
    OBVIOUS
  <2>5. Issuance(Issuer!NoIssue)
    BY DEF Issuance, Issuer!NoIssue
  <2>6. Has(i, IF held[k] # 0 THEN "resume" ELSE Issuer!Start, held[k], IF held[k] # 0 THEN cao[held[k]].ca ELSE 0)
    BY <2>5, Moves, Zenon
  <2>7. Issuer!Start \in {"pending", "walk"}
    BY DEF Issuer!Start
  <2>8. OneInHand(issue[k], h, Open(k)) /\ Len(cao) \in Nat
    BY <2>3, <2>4 DEF CertInv
  <2>9. OrdersGo(k) /\ Open(k)' = Open(k) \ issuerGiven'
    BY <1>1, OrdersStay
  <2>10. held' = [held EXCEPT ![k] = h]
    BY <1>1, <2>4 DEF CertInv
  <2> HIDE DEF i
  <2>11. PICK j : j = i
    OBVIOUS
  <2>12. Issuance(j) /\ j.n = h /\ j.at = (IF h # 0 THEN "resume" ELSE Issuer!Start) /\ j.ca = (IF h # 0 THEN cao[h].ca ELSE 0)
    BY <2>4, <2>6, <2>11 DEF Has
  <2>13. OneInHand(j, h, Open(k))'
    <3>1. h \in 0 .. Len(cao) /\ Open(k) \subseteq {h, 0} /\ cao' = cao
      BY <1>1, <2>2, <2>8 DEF OneInHand
    <3>2. CASE h = 0
      BY <2>7, <2>8, <2>9, <2>12, <3>1, <3>2 DEF OneInHand, Stages
    <3>3. CASE h # 0
      <4>1. j.at = "resume" /\ j.n = h /\ j.ca = cao'[h].ca /\ h \in 1 .. Len(cao')
        BY <2>8, <2>12, <3>1, <3>3
      <4>2. 0 \notin Open(k)
        BY <2>8 DEF Open
      <4>3. Open(k)' \subseteq {h, j.n}
        BY <2>9, <3>1, <4>2
      <4> QED BY <2>8, <3>1, <3>3, <4>1, <4>3 DEF OneInHand, Stages
    <3> QED BY <3>2, <3>3
  <2> QED BY <2>2, <2>3, <2>9, <2>10, <2>11, <2>12, <2>13, OneMoves
<1> QED BY <1>3, <1>4

\* The issuance of k ends up with issuance i, and nothing else moves but what is given up.
LEMMA GivenUp ==
    ASSUME CertInv, NEW k \in Issuer!Keys, NEW i, Has(i, i.at, 0, i.ca), i.at \in {"walk", "order"},
           i.at = "order" => ~i.resumed,
           cao' = cao, issuerGiven \subseteq issuerGiven', issue[k].n # 0 => issue[k].n \in issuerGiven' \/ cao[issue[k].n].st = "invalid",
           issue' = [issue EXCEPT ![k] = i], Issuer!Drop(k),
           issue[k].at \in {"authz", "collect", "resume", "order", "walk"}
    PROVE  CertInv'
<1>1. OrdersGo(k) /\ Open(k)' = Open(k) \ issuerGiven'
  BY OrdersStay
<1>2. PICK j, h : j = issue[k] /\ h = held[k]
  OBVIOUS
<1>3. OneInHand(j, h, Open(k)) /\ Len(cao) \in Nat /\ j.at \in {"authz", "collect", "resume", "order", "walk"}
  BY <1>2 DEF CertInv
<1>4. 0 \notin Open(k) /\ (j.n # 0 /\ cao[j.n].st = "invalid" => j.n \notin Open(k))
  BY <1>3 DEF Open
<1>5. h \in {0, j.n} /\ Open(k) \subseteq {j.n}
  BY <1>3, <1>4 DEF OneInHand
<1>6. j.n # 0 => j.n \in issuerGiven' \/ cao[j.n].st = "invalid"
  BY <1>2
<1>7. Open(k)' = {}
  BY <1>1, <1>4, <1>5, <1>6
<1>8. OneInHand(i, 0, Open(k))'
  BY <1>3, <1>7 DEF OneInHand, Stages, Has
<1>9. Issuance(i) /\ held' = [held EXCEPT ![k] = 0]
  BY DEF Has, Issuer!Drop
<1> QED BY <1>1, <1>8, <1>9, OneMoves

LEMMA NextCaKeeps == ASSUME CertInv, NEW k \in Issuer!Keys, Issuer!NextCa(k) PROVE CertInv'
<1>1. UNCHANGED <<held, cao, issuerGiven>> /\ issue[k].at = "walk"
  BY DEF Issuer!NextCa, Issuer!At
<1>2. PICK g, h : g = issue[k] /\ h = held[k]
  OBVIOUS
<1>0. PICK j : j = [g EXCEPT !.retried = FALSE, !.resumed = FALSE]
  OBVIOUS
<1> DEFINE a == [j EXCEPT !.at = "order", !.ca = Head(j.left), !.left = Tail(@)]
           b == [j EXCEPT !.at = "order", !.ca = Head(j.cooled), !.left = Tail(j.cooled), !.cooled = <<>>, !.again = TRUE]
           c == [j EXCEPT !.at = "refused", !.n = 0]
<1>3. \E i \in {a, b, c} : issue' = [issue EXCEPT ![k] = i]
  BY <1>0, <1>2 DEF Issuer!NextCa
<1>14. Issuance(g) /\ OneInHand(g, h, Open(k)) /\ Len(cao) \in Nat /\ g.at = "walk"
  BY <1>1, <1>2 DEF CertInv
<1>5. g.n = 0 /\ h = 0
  BY <1>14 DEF OneInHand
<1>4. Issuance(j) /\ j.n = 0 /\ ~j.resumed
  <2>1. Has(j, g.at, g.n, g.ca)
    BY <1>0, <1>14, Moves, Zenon
  <2>2. ~j.resumed
    <3> DEFINE e == [g EXCEPT !.retried = FALSE]
    <3>1. Has(g, g.at, g.n, g.ca)
      BY <1>14 DEF Has
    <3>2. Issuance(e)
      BY <3>1, Field, Zenon DEF Has
    <3> HIDE DEF e
    <3>3. [e EXCEPT !.resumed = FALSE].resumed = FALSE
      BY <3>2, Resumes, Zenon
    <3> QED BY <1>0, <3>3, Zenon DEF e
  <2> QED BY <1>5, <2>1, <2>2 DEF Has
<1>15. ~a.resumed /\ ~b.resumed
  <2>1. Alike(j, a) /\ Alike(j, b)
    BY <1>4, Leaves, Zenon
  <2> HIDE DEF a, b
  <2> QED BY <1>4, <2>1, Zenon DEF Alike
<1>6. Has(a, "order", j.n, Head(j.left))
  BY <1>4, Moves, Zenon
<1>7. Has(b, "order", j.n, Head(j.cooled))
  BY <1>4, Moves, Zenon
<1>8. Has(c, "refused", 0, j.ca)
  BY <1>4, Moves, Zenon
<1> HIDE DEF a, b, c
<1>9. PICK i \in {a, b, c} : issue' = [issue EXCEPT ![k] = i]
  BY <1>3
<1>10. Issuance(i) /\ i.n = 0 /\ i.at \in {"order", "refused"} /\ (i.at = "order" => ~i.resumed)
  BY <1>4, <1>6, <1>7, <1>8, <1>9, <1>15 DEF Has
<1>11. OrdersGo(k) /\ Open(k)' = Open(k) \ issuerGiven'
  BY <1>1, OrdersStay
<1>12. OneInHand(i, h, Open(k))'
  BY <1>1, <1>14, <1>5, <1>10, <1>11 DEF OneInHand, Stages
<1>13. held' = [held EXCEPT ![k] = h]
  BY <1>1, <1>2 DEF CertInv
<1> QED BY <1>9, <1>10, <1>11, <1>12, <1>13, OneMoves

LEMMA CaFailsKeeps == ASSUME CertInv, NEW k \in Issuer!Keys, Issuer!CaFails(k) PROVE CertInv'
<1>1. PICK j : j = issue[k]
  OBVIOUS
<1>2. Issuance(j) /\ j.at \in {"order", "authz", "collect", "resume"}
  BY <1>1 DEF CertInv, Issuer!CaFails, Issuer!Asks
<1>3. PICK s, u : issue' = [issue EXCEPT ![k] = [j EXCEPT !.at = "walk", !.n = 0, !.left = s, !.cooled = u]]
  BY <1>1 DEF Issuer!CaFails
<1> DEFINE i == [j EXCEPT !.at = "walk", !.n = 0, !.left = s, !.cooled = u]
<1>4. Has(i, "walk", 0, j.ca)
  BY <1>2, Moves, Zenon
<1>5. /\ issuerGiven \subseteq issuerGiven' /\ (j.n # 0 => j.n \in issuerGiven')
      /\ Issuer!Drop(k) /\ cao' = cao
  BY <1>1 DEF Issuer!CaFails, Issuer!Forsaken
<1> HIDE DEF i
<1>6. Has(i, i.at, 0, i.ca) /\ i.at = "walk"
  BY <1>4 DEF Has
<1> QED BY <1>1, <1>2, <1>3, <1>5, <1>6, GivenUp DEF i

LEMMA NameRefusedKeeps == ASSUME CertInv, NEW k \in Issuer!Keys, Issuer!NameRefused(k) PROVE CertInv'
<1>1. PICK j : j = issue[k]
  OBVIOUS
<1>2. Issuance(j) /\ j.at \in {"order", "authz", "collect", "resume"}
  BY <1>1 DEF CertInv, Issuer!NameRefused, Issuer!Asks
<1> DEFINE i == [j EXCEPT !.at = "walk", !.n = 0, !.proven = TRUE]
<1>3. issue' = [issue EXCEPT ![k] = i] /\ Issuer!Drop(k) /\ cao' = cao
  BY <1>1 DEF Issuer!NameRefused
<1>4. Has(i, "walk", 0, j.ca)
  BY <1>2, Moves, Zenon
<1> HIDE DEF i
<1>5. Has(i, i.at, 0, i.ca) /\ i.at = "walk"
  BY <1>4 DEF Has
<1>6. issuerGiven \subseteq issuerGiven' /\ (j.n # 0 => j.n \in issuerGiven' \/ cao[j.n].st = "invalid")
  BY <1>1 DEF Issuer!NameRefused, Issuer!Forsaken, Issuer!Cao
<1> QED BY <1>1, <1>2, <1>3, <1>5, <1>6, GivenUp

\* An account a CA has forgotten takes its orders along; the attempt begins again, an order
\* that was to be resumed is looked up again.
LEMMA AccountLostKeeps == ASSUME CertInv, NEW k \in Issuer!Keys, Issuer!AccountLost(k) PROVE CertInv'
<1>1. PICK j, h : j = issue[k] /\ h = held[k]
  OBVIOUS
<1>2. Issuance(j) /\ j.at \in {"order", "authz", "collect", "resume"} /\ Issuer!Drop(k) /\ cao' = cao
  BY <1>1 DEF CertInv, Issuer!AccountLost, Issuer!Asks
<1>3. OneInHand(j, h, Open(k)) /\ Len(cao) \in Nat
  BY <1>1 DEF CertInv
<1>4. issuerGiven \subseteq issuerGiven' /\ (j.n # 0 => j.n \in issuerGiven')
  BY <1>1, <1>3 DEF OneInHand, Issuer!AccountLost
<1>5. CASE ~j.resumed
  <2> DEFINE i == [j EXCEPT !.at = "order", !.n = 0, !.retried = TRUE]
  <2>1. issue' = [issue EXCEPT ![k] = i]
    BY <1>1, <1>5 DEF Issuer!AccountLost
  <2>2. Has(i, "order", 0, j.ca)
    BY <1>2, Moves, Zenon
  <2>3. Alike(j, i)
    BY <1>2, Leaves, Zenon
  <2> HIDE DEF i
  <2>4. Has(i, i.at, 0, i.ca) /\ i.at = "order"
    BY <2>2 DEF Has
  <2>5. ~i.resumed
    BY <1>5, <2>3, Zenon DEF Alike
  <2> QED BY <1>1, <1>2, <1>4, <2>1, <2>4, <2>5, GivenUp
<1>6. CASE j.resumed
  <2> DEFINE i == [j EXCEPT !.at = "resume", !.retried = TRUE]
  <2>1. issue' = [issue EXCEPT ![k] = i] /\ held' = [held EXCEPT ![k] = 0]
    BY <1>1, <1>2, <1>6 DEF Issuer!AccountLost, Issuer!Drop
  <2>2. Has(i, "resume", j.n, j.ca)
    BY <1>2, Moves, Zenon
  <2> HIDE DEF i
  <2>3. PICK x : x = i
    OBVIOUS
  <2>4. Issuance(x) /\ x.at = "resume" /\ x.n = j.n /\ x.ca = j.ca
    BY <2>2, <2>3 DEF Has
  <2>5. OrdersGo(k) /\ Open(k)' = Open(k) \ issuerGiven'
    BY <1>2, <1>4, OrdersStay
  <2>6. j.n # 0 /\ j.n \in issuerGiven'
    BY <1>2, <1>3, <1>4, <1>6 DEF OneInHand
  <2>7. 0 \notin Open(k)
    BY <1>3 DEF Open
  <2>8. Open(k)' = {}
    BY <1>3, <2>5, <2>6, <2>7 DEF OneInHand
  <2>9. OneInHand(x, 0, Open(k))'
    BY <1>2, <1>3, <2>4, <2>6, <2>8 DEF OneInHand, Stages
  <2> QED BY <2>1, <2>3, <2>4, <2>5, <2>9, OneMoves
<1> QED BY <1>5, <1>6

\* A CA moves one order on.
LEMMA OrderGoesOn ==
    ASSUME CertInv, NEW n \in 1 .. Len(cao), cao[n].st \notin {"invalid", "collected"}, NEW st,
           cao' = [cao EXCEPT ![n].st = st], issuerGiven' = issuerGiven
    PROVE  /\ Len(cao') = Len(cao) /\ Len(cao) \in Nat /\ \A j : OrdersGo(j)
           /\ \A j : Open(j)' \subseteq Open(j)
           /\ st = "collected" => \A j : n \notin Open(j)'
<1>1. PICK S : cao \in Seq(S)
  BY DEF CertInv
<1>2. PICK o : o = [cao[n] EXCEPT !.st = st]
  OBVIOUS
<1>3. cao' = [cao EXCEPT ![n] = o]
  BY <1>2
<1>4. cao[n] = [ca |-> cao[n].ca, key |-> cao[n].key, st |-> cao[n].st]
  BY DEF CertInv
<1>5. o.ca = cao[n].ca /\ o.key = cao[n].key /\ o.st = st /\ o = [ca |-> o.ca, key |-> o.key, st |-> o.st]
  BY <1>2, <1>4
<1>6. cao' \in Seq(S \union {o}) /\ Len(cao') = Len(cao) /\ Len(cao) \in Nat
  BY <1>1, <1>3
<1>7. \A m \in 1 .. Len(cao) : cao'[m] = IF m = n THEN o ELSE cao[m]
  BY <1>1, <1>3
<1>8. \A m \in 1 .. Len(cao) : /\ cao'[m].ca = cao[m].ca /\ cao'[m].key = cao[m].key
                               /\ cao'[m] = [ca |-> cao'[m].ca, key |-> cao'[m].key, st |-> cao'[m].st]
                               /\ m # n => cao'[m].st = cao[m].st
  BY <1>5, <1>7 DEF CertInv
<1>9. cao'[n].st = st
  BY <1>5, <1>7
<1>10. ASSUME NEW j PROVE Open(j)' \subseteq Open(j)
  <2> SUFFICES ASSUME NEW m \in Open(j)' PROVE m \in Open(j)
    OBVIOUS
  <2>1. m \in 1 .. Len(cao) /\ cao'[m].key = j /\ m \notin issuerGiven /\ cao'[m].st \notin {"invalid", "collected"}
    BY <1>6 DEF Open
  <2> QED BY <1>8, <2>1 DEF Open
<1>11. st = "collected" => \A j : n \notin Open(j)'
  BY <1>9 DEF Open
<1>12. \A j : OrdersGo(j)
  BY <1>6, <1>8, <1>10 DEF OrdersGo
<1> QED BY <1>6, <1>10, <1>11, <1>12

LEMMA NewOrderKeeps == ASSUME CertInv, NEW k \in Issuer!Keys, Issuer!NewOrder(k) PROVE CertInv'
<1>1. PICK j, h : j = issue[k] /\ h = held[k]
  OBVIOUS
<1>2. Issuance(j) /\ j.at = "order" /\ OneInHand(j, h, Open(k)) /\ held' = [held EXCEPT ![k] = h]
  BY <1>1 DEF CertInv, Issuer!NewOrder, Issuer!At
<1>3. j.n = 0 /\ h = 0 /\ Open(k) \subseteq {0}
  BY <1>2 DEF OneInHand
<1>4. PICK S : cao \in Seq(S)
  BY DEF CertInv
<1>5. PICK n : n = Len(cao) + 1
  OBVIOUS
<1>6. Len(cao) \in Nat /\ 0 \notin Open(k)
  BY <1>4 DEF Open
<1>7. PICK o : o = [ca |-> j.ca, key |-> k, st |-> "pending"]
  OBVIOUS
<1>8. cao' = Append(cao, o) /\ issuerGiven' = issuerGiven
  BY <1>1, <1>7 DEF Issuer!NewOrder
<1>9. /\ Len(cao') = n /\ cao'[n] = o /\ cao' \in Seq(S \union {o})
      /\ \A m \in 1 .. Len(cao) : cao'[m] = cao[m]
  BY <1>4, <1>5, <1>8
<1>10. \A m \in 1 .. n : cao'[m] = [ca |-> cao'[m].ca, key |-> cao'[m].key, st |-> cao'[m].st]
  <2>1. o = [ca |-> o.ca, key |-> o.key, st |-> o.st]
    BY <1>7
  <2>2. ASSUME NEW m \in 1 .. Len(cao)
        PROVE  cao'[m] = [ca |-> cao'[m].ca, key |-> cao'[m].key, st |-> cao'[m].st]
    BY <1>9, <2>2 DEF CertInv
  <2>3. 1 .. n = (1 .. Len(cao)) \union {n}
    BY <1>5, <1>6
  <2> QED BY <1>9, <2>1, <2>2, <2>3
<1>11. ASSUME NEW i, i # k PROVE Open(i)' \subseteq Open(i)
  <2> SUFFICES ASSUME NEW m \in Open(i)' PROVE m \in Open(i)
    OBVIOUS
  <2>1. m \in 1 .. n /\ cao'[m].key = i /\ m \notin issuerGiven /\ cao'[m].st \notin {"invalid", "collected"}
    BY <1>8, <1>9 DEF Open
  <2>2. m # n
    BY <1>7, <1>9, <1>11, <2>1
  <2> QED BY <1>5, <1>6, <1>9, <2>1, <2>2 DEF Open
<1>12. OrdersGo(k)
  BY <1>5, <1>6, <1>8, <1>9, <1>10, <1>11 DEF OrdersGo
<1>13. Open(k)' \subseteq {n}
  <2> SUFFICES ASSUME NEW m \in Open(k)' PROVE m = n
    OBVIOUS
  <2>1. m \in 1 .. n /\ cao'[m].key = k /\ m \notin issuerGiven /\ cao'[m].st \notin {"invalid", "collected"}
    BY <1>8, <1>9 DEF Open
  <2>2. m \in Open(k) \/ m = n
    BY <1>5, <1>6, <1>9, <2>1 DEF Open
  <2> QED BY <1>3, <1>6, <2>2
<1> DEFINE i == [j EXCEPT !.at = "authz", !.n = n]
<1>14. Has(i, "authz", n, j.ca)
  BY <1>2, Moves, Zenon
<1>15. issue' = [issue EXCEPT ![k] = i]
  BY <1>1, <1>5 DEF Issuer!NewOrder
<1> HIDE DEF i
<1>16. PICK x : x = i
  OBVIOUS
<1>17. Issuance(x) /\ x.at = "authz" /\ x.n = n /\ x.ca = cao'[n].ca
  BY <1>7, <1>9, <1>14, <1>16 DEF Has
<1>18. OneInHand(x, h, Open(k))'
  BY <1>3, <1>5, <1>6, <1>9, <1>13, <1>17 DEF OneInHand, Stages
<1> QED BY <1>2, <1>12, <1>15, <1>16, <1>17, <1>18, OneMoves

LEMMA FinalizeKeeps == ASSUME CertInv, NEW k \in Issuer!Keys, Issuer!Finalize(k) PROVE CertInv'
<1>1. PICK j, h, n : j = issue[k] /\ h = held[k] /\ n = issue[k].n
  OBVIOUS
<1>2. Issuance(j) /\ j.at = "authz" /\ j.n = n /\ OneInHand(j, h, Open(k)) /\ cao[n].st = "ready" /\ Len(cao) \in Nat
  BY <1>1 DEF CertInv, Issuer!Finalize, Issuer!At, Issuer!Cao
<1>3. n \in 1 .. Len(cao) /\ Open(k) \subseteq {n} \union {h} /\ h \in {0, n} /\ cao[n].ca = j.ca
  BY <1>2 DEF OneInHand
<1>4. cao' = [cao EXCEPT ![n].st = "processing"] /\ issuerGiven' = issuerGiven /\ held' = [held EXCEPT ![k] = n]
  BY <1>1 DEF Issuer!Finalize
<1>5. Len(cao') = Len(cao) /\ OrdersGo(k) /\ Open(k)' \subseteq Open(k)
  BY <1>2, <1>3, <1>4, OrderGoesOn
<1>6. 0 \notin Open(k)
  BY <1>2 DEF Open
<1> DEFINE i == [j EXCEPT !.at = "collect"]
<1>7. Has(i, "collect", n, j.ca)
  <2>1. Has(j, j.at, n, j.ca)
    BY <1>2 DEF Has
  <2> QED BY <2>1, Field, Zenon
<1>8. issue' = [issue EXCEPT ![k] = i]
  BY <1>1 DEF Issuer!Finalize
<1> HIDE DEF i
<1>9. PICK x : x = i
  OBVIOUS
<1>10. Issuance(x) /\ x.at = "collect" /\ x.n = n /\ x.ca = cao'[n].ca
  BY <1>3, <1>5, <1>7, <1>9 DEF Has, OrdersGo
<1>11. OneInHand(x, n, Open(k))'
  BY <1>2, <1>3, <1>5, <1>6, <1>10 DEF OneInHand, Stages
<1> QED BY <1>4, <1>5, <1>8, <1>9, <1>10, <1>11, OneMoves

\* An issuance changes its stage and nothing else.
LEMMA StageChanges ==
    ASSUME CertInv, NEW k \in Issuer!Keys, NEW at \in {"collect", "pending"},
           issue[k].at \in {"resume", "collect"}, issue' = [issue EXCEPT ![k].at = at], UNCHANGED <<held, cao, issuerGiven>>
    PROVE  CertInv'
<1>1. PICK j, h, n : j = issue[k] /\ h = held[k] /\ n = issue[k].n
  OBVIOUS
<1>2. Issuance(j) /\ j.at \in {"resume", "collect"} /\ j.n = n /\ OneInHand(j, h, Open(k)) /\ Len(cao) \in Nat
  BY <1>1 DEF CertInv
<1>3. OrdersGo(k) /\ Open(k)' = Open(k) \ issuerGiven'
  BY OrdersStay
<1> DEFINE i == [j EXCEPT !.at = at]
<1>4. Has(i, at, n, j.ca)
  <2>1. Has(j, j.at, n, j.ca)
    BY <1>2 DEF Has
  <2> QED BY <2>1, Field, Zenon
<1>5. issue' = [issue EXCEPT ![k] = i] /\ held' = [held EXCEPT ![k] = h]
  BY <1>1 DEF CertInv
<1> HIDE DEF i
<1>6. PICK x : x = i
  OBVIOUS
<1>7. Issuance(x) /\ x.at = at /\ x.n = n /\ x.ca = j.ca
  BY <1>4, <1>6 DEF Has
<1>8. OneInHand(x, h, Open(k))'
  BY <1>2, <1>3, <1>7 DEF OneInHand, Stages
<1> QED BY <1>3, <1>5, <1>6, <1>7, <1>8, OneMoves

LEMMA StageKeeps ==
    ASSUME CertInv, NEW k \in Issuer!Keys, Issuer!Resume(k) \/ Issuer!StillProcessing(k) PROVE CertInv'
<1>1. CASE Issuer!Resume(k)
  BY <1>1, StageChanges DEF Issuer!Resume, Issuer!At
<1>2. CASE Issuer!StillProcessing(k)
  BY <1>2, StageChanges DEF Issuer!StillProcessing, Issuer!Kept, Issuer!At
<1> QED BY <1>1, <1>2

LEMMA CollectKeeps == ASSUME CertInv, NEW k \in Issuer!Keys, Issuer!Collect(k) PROVE CertInv'
<1>1. PICK j, h, n : j = issue[k] /\ h = held[k] /\ n = issue[k].n
  OBVIOUS
<1>2. Issuance(j) /\ j.at = "collect" /\ j.n = n /\ OneInHand(j, h, Open(k)) /\ cao[n].st = "valid" /\ Len(cao) \in Nat
  BY <1>1 DEF CertInv, Issuer!Collect, Issuer!At, Issuer!Cao
<1>3. n \in 1 .. Len(cao) /\ Open(k) \subseteq {n} \union {h} /\ h \in {0, n}
  BY <1>2 DEF OneInHand
<1>4. /\ cao' = [cao EXCEPT ![n].st = "collected"] /\ issuerGiven' = issuerGiven /\ held' = [held EXCEPT ![k] = 0]
      /\ issue' = [issue EXCEPT ![k] = Issuer!NoIssue]
  BY <1>1 DEF Issuer!Collect, Issuer!Drop
<1>5. Len(cao') = Len(cao) /\ OrdersGo(k) /\ Open(k)' \subseteq Open(k) /\ n \notin Open(k)'
  BY <1>2, <1>3, <1>4, OrderGoesOn
<1>6. 0 \notin Open(k)
  BY <1>2 DEF Open
<1>7. Issuance(Issuer!NoIssue) /\ Issuer!NoIssue.at = "none" /\ Issuer!NoIssue.n = 0
  BY DEF Issuance, Issuer!NoIssue
<1>8. OneInHand(Issuer!NoIssue, 0, Open(k))'
  BY <1>2, <1>3, <1>5, <1>6, <1>7 DEF OneInHand, Stages
<1> QED BY <1>4, <1>5, <1>7, <1>8, OneMoves

LEMMA SettledKeeps == ASSUME CertInv, NEW k \in Issuer!Keys, Issuer!Settled(k) PROVE CertInv'
BY IssueEnds DEF Issuer!Settled

LEMMA SweepKeeps == ASSUME CertInv, Issuer!Sweep PROVE CertInv'
<1>1. UNCHANGED <<issue, cao>> /\ issuerGiven \subseteq issuerGiven'
  BY DEF Issuer!Sweep
<1>2. CASE UNCHANGED <<held, issuerGiven>>
  <2>1. OrdersGo(0) /\ \A k : Open(k)' \subseteq Open(k)
    BY <1>1, <1>2, OrdersStay DEF Open
  <2> QED BY <1>1, <1>2, <2>1, CertsStill
<1>3. CASE \E k \in Issuer!Keys : issue[k].at = "none" /\ Issuer!Drop(k) /\ issuerGiven' = issuerGiven \union {held[k]}
  <2>1. PICK k \in Issuer!Keys : issue[k].at = "none" /\ Issuer!Drop(k) /\ issuerGiven' = issuerGiven \union {held[k]}
    BY <1>3
  <2>2. PICK j, h : j = issue[k] /\ h = held[k]
    OBVIOUS
  <2>3. Issuance(j) /\ j.at = "none" /\ OneInHand(j, h, Open(k)) /\ Len(cao) \in Nat /\ h \in issuerGiven'
    BY <2>1, <2>2 DEF CertInv
  <2>4. OrdersGo(k) /\ Open(k)' = Open(k) \ issuerGiven'
    BY <1>1, OrdersStay
  <2>5. 0 \notin Open(k) /\ j.n = 0
    BY <2>3 DEF Open, OneInHand
  <2>6. OneInHand(j, 0, Open(k))'
    BY <2>3, <2>4, <2>5 DEF OneInHand, Stages
  <2>7. issue' = [issue EXCEPT ![k] = j] /\ held' = [held EXCEPT ![k] = 0]
    BY <1>1, <2>1, <2>2 DEF CertInv, Issuer!Drop
  <2> QED BY <2>3, <2>4, <2>6, <2>7, OneMoves
<1> QED BY <1>2, <1>3 DEF Issuer!Sweep, Issuer!At

LEMMA RelayRestartKeeps == ASSUME CertInv, Issuer!RelayRestart PROVE CertInv'
<1>1. /\ UNCHANGED <<held, cao>> /\ issuerGiven \subseteq issuerGiven'
      /\ issue' = [k \in Issuer!Keys |-> Issuer!NoIssue]
      /\ \A k \in Issuer!Keys : issue[k].n # 0 /\ held[k] = 0 => issue[k].n \in issuerGiven'
  BY DEF Issuer!RelayRestart
<1>2. Issuance(Issuer!NoIssue) /\ Issuer!NoIssue.at = "none" /\ Issuer!NoIssue.n = 0
  BY DEF Issuance, Issuer!NoIssue
<1>3. ASSUME NEW k \in Issuer!Keys PROVE issue'[k] = Issuer!NoIssue /\ OneInHand(Issuer!NoIssue, held[k], Open(k))'
  <2>1. PICK j, h : j = issue[k] /\ h = held[k]
    OBVIOUS
  <2>2. OneInHand(j, h, Open(k)) /\ Len(cao) \in Nat /\ (j.n # 0 /\ h = 0 => j.n \in issuerGiven')
    BY <1>1, <2>1 DEF CertInv
  <2>3. Open(k)' = Open(k) \ issuerGiven' /\ 0 \notin Open(k)
    BY <1>1, <2>2, OrdersStay DEF Open
  <2>4. OneInHand(Issuer!NoIssue, h, Open(k))'
    BY <1>1, <1>2, <2>2, <2>3 DEF OneInHand, Stages
  <2>5. held'[k] = h /\ issue'[k] = Issuer!NoIssue
    BY <1>1, <2>1
  <2> QED BY <2>4, <2>5
<1>4. issue' = [k \in Issuer!Keys |-> issue'[k]]
  BY <1>1
<1>5. \A k \in Issuer!Keys : Issuance(issue[k])' /\ OneInHand(issue[k], held[k], Open(k))'
  BY <1>2, <1>3 DEF Issuance
<1> QED BY <1>1, <1>4, <1>5 DEF CertInv, Issuer!Keys

LEMMA CaWorksKeeps == ASSUME CertInv, Issuer!CaWorks PROVE CertInv'
<1>0. PICK n \in 1 .. Len(cao) :
         /\ cao[n].st \in {"pending", "processing"}
         /\ \E st \in Issuer!Validated[cao[n].st] : cao' = [cao EXCEPT ![n].st = st]
  BY DEF Issuer!CaWorks
<1>1. PICK st : cao' = [cao EXCEPT ![n].st = st]
  BY <1>0
<1>2. UNCHANGED <<issue, held, issuerGiven>>
  BY DEF Issuer!CaWorks
<1>3. OrdersGo(0) /\ \A j : Open(j)' \subseteq Open(j)
  BY <1>0, <1>1, <1>2, OrderGoesOn
<1> QED BY <1>2, <1>3, CertsStill

LEMMA CertStep == ASSUME CertInv, [Issuer!Next]_(Issuer!vars) PROVE CertInv'
<1>1. CASE UNCHANGED Issuer!vars
  <2>1. UNCHANGED <<issue, held, cao, issuerGiven>>
    BY <1>1 DEF Issuer!vars
  <2>2. OrdersGo(0) /\ \A k : Open(k)' \subseteq Open(k)
    BY <2>1, OrdersStay DEF Open
  <2> QED BY <2>1, <2>2, CertsStill
<1>2. ASSUME NEW k \in Issuer!Keys,
             \/ Issuer!NextCa(k) \/ Issuer!CaFails(k) \/ Issuer!NameRefused(k) \/ Issuer!NewOrder(k)
             \/ Issuer!AccountLost(k) \/ Issuer!Finalize(k) \/ Issuer!Resume(k) \/ Issuer!Collect(k)
             \/ Issuer!StillProcessing(k) \/ Issuer!Settled(k)
      PROVE  CertInv'
  BY <1>2, NextCaKeeps, CaFailsKeeps, NameRefusedKeeps, NewOrderKeeps, AccountLostKeeps,
      FinalizeKeeps, StageKeeps,
     CollectKeeps, SettledKeeps
<1> QED BY <1>1, <1>2, BoxKeeps, AnswerKeeps, IssueKeeps, SweepKeeps, RelayRestartKeeps,
    CaWorksKeeps DEF Issuer!Next

LEMMA CertStart == ASSUME Issuer!Init PROVE CertInv
<1>1. cao = <<>> /\ issue = [k \in Issuer!Keys |-> Issuer!NoIssue] /\ held = [k \in Issuer!Keys |-> 0]
  BY DEF Issuer!Init
<1>2. cao \in Seq({}) /\ Len(cao) = 0 /\ 1 .. Len(cao) = {}
  BY <1>1
<1>3. \A k : Open(k) = {}
  BY <1>2 DEF Open
<1>4. Issuance(Issuer!NoIssue) /\ Issuer!NoIssue.at = "none" /\ Issuer!NoIssue.n = 0
  BY DEF Issuance, Issuer!NoIssue
<1>5. OneInHand(Issuer!NoIssue, 0, {})
  BY <1>2, <1>4 DEF OneInHand, Stages
<1> QED BY <1>1, <1>2, <1>3, <1>4, <1>5 DEF CertInv

\* An order a CA still works on is not doubled by another for the same key, whatever the
\* CAs do, however often the box asks again or restarts and whenever the relay stops, as
\* long as the relay has not given it up: a call about it failed (then the relay orders
\* afresh although the old order may still be good), a CA forgot the account, the relay
\* stopped before it noted the order, or an hour passed (src/relay/certs.js acmeIssue,
\* acmeIssueViaOnce, acmeResume, sweep).
THEOREM OrdersNotDoubled == Issuer!Spec => []Issuer!NoOrderOrphaned
<1>1. Issuer!Init => CertInv
  BY CertStart
<1>2. CertInv /\ [Issuer!Next]_(Issuer!vars) => CertInv'
  BY CertStep
<1>3. CertInv => Issuer!NoOrderOrphaned
  <2>0. ASSUME NEW k PROVE Issuer!Cardinality(Open(k)) = Cardinality(Open(k))
    BY Zenon DEF Issuer!Cardinality, Cardinality
  <2> SUFFICES ASSUME CertInv, NEW k \in Issuer!Keys PROVE Cardinality(Open(k)) <= 1
    BY <2>0, Zenon DEF Issuer!NoOrderOrphaned, Open
  <2>1. PICK h, j : OneInHand(j, h, Open(k)) /\ Len(cao) \in Nat
    BY DEF CertInv
  <2>2. 0 \notin Open(k)
    BY <2>1 DEF Open
  <2>3. \A s, t \in Open(k) : s = t
    BY <2>1, <2>2 DEF OneInHand
  <2> QED BY <2>3, AtMostOne
<1> QED BY <1>1, <1>2, <1>3, PTL DEF Issuer!Spec
================================================================================
