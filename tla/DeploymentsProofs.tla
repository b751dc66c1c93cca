--------------------------- MODULE DeploymentsProofs ---------------------------
(***************************************************************************)
(* Proofs about Deployments, for every number of records, boxes, operators *)
(* and wallets, every price, fee, cap and amount, and every bound.         *)
(*                                                                         *)
(* IInv, the inductive invariant, joins the types to three relations they  *)
(* rest on: the tail a release hands back was paid for (TailIsPaid), the   *)
(* meter stays inside its lease (MeterInsideLease), and a serving box is   *)
(* registered (RunnerIsRegistered), which needs OperatorsExist of the      *)
(* registry.  OnlyRecordsLeased says an id without a record is idle, and   *)
(* RunnerIsPayable that what the meter pays reaches somebody.              *)
(***************************************************************************)
EXTENDS Deployments, TLAPS

-----------------------------------------------------------------------------
(* What the operators of Deployments return, preserve and bound, for every   *)
(* record, price, fee, amount and clock.                                      *)

-----------------------------------------------------------------------------
(* Arithmetic                                                                *)

\* A product of naturals is a natural.
LEMMA MulNat == ASSUME NEW a \in Nat, NEW b \in Nat PROVE a * b \in Nat
BY SMT

\* Multiplication distributes over the seconds of a lease.
LEMMA MulSplit ==
    ASSUME NEW a \in Int, NEW b \in Int, NEW r \in Int
    PROVE  (a + b) * r = a * r + b * r
BY SMT

\* More seconds cost more.
LEMMA MulMono ==
    ASSUME NEW a \in Nat, NEW b \in Nat, NEW r \in Nat, a <= b
    PROVE  a * r <= b * r
BY SMT

\* Whole seconds that a balance buys never cost more than the balance.
LEMMA DivMul ==
    ASSUME NEW b \in Nat, NEW r \in Nat \ {0}
    PROVE  /\ b \div r \in Nat
           /\ (b \div r) * r <= b
BY SMT

\* A share is a number.
LEMMA MilliNat == \A m \in Milli : m \in Nat
BY SMT DEF Milli

\* A fraction in basis points is a number.
LEMMA BpsNat == \A b \in Bps : b \in Nat
BY SMT DEF Bps

\* The smaller of two numbers is a number, and exceeds neither.
LEMMA Min2Nat ==
    ASSUME NEW a \in Nat, NEW b \in Nat
    PROVE  /\ Min2(a, b) \in Nat
           /\ Min2(a, b) <= a /\ Min2(a, b) <= b
BY DEF Min2

-----------------------------------------------------------------------------
(* What the pricing, burning and metering operators return                   *)

\* A quote is a whole number of units that covers the publisher's fee.
LEMMA RateFacts ==
    ASSUME TypeOK, NEW id \in Ids, NEW e \in Enclaves,
           NEW gpu \in Milli, NEW cpu \in Milli
    PROVE  /\ _hostRate(enclave[e], dep[id], gpu, cpu) \in Nat
           /\ rateFor(id, e) \in Nat
           /\ CanSnap(rateFor(id, e), fee[id])
<1>1. enclave[e].gpuPricePerSec6 \in Nat /\ enclave[e].cpuPricePerSec6 \in Nat
  BY DEF TypeOK, RegistryTypeOK, Entry
<1>2. \A g, c \in Milli : _hostRate(enclave[e], dep[id], g, c) \in Nat
  <2> TAKE g, c \in Milli
  <2> DEFINE pg == enclave[e].gpuPricePerSec6
             pc == enclave[e].cpuPricePerSec6
  <2>1. pg \in Nat /\ pc \in Nat /\ g \in Nat /\ c \in Nat
    BY <1>1, MilliNat
  <2>2. _hostRate(enclave[e], dep[id], g, c) =
          IF enclave[e].payoutWallet = dep[id].owner THEN 0
          ELSE (pg * g + pc * c + 999) \div 1000
    BY DEF _hostRate
  <2> HIDE DEF pg, pc
  <2>3. pg * g \in Nat /\ pc * c \in Nat
    BY <2>1, MulNat
  <2> QED
    BY <2>2, <2>3
<1>3. dep[id].gpuMilli \in Milli /\ dep[id].cpuMilli \in Milli /\ fee[id] \in Nat
  BY DEF TypeOK, Deployment
<1>4. /\ _hostRate(enclave[e], dep[id], gpu, cpu) \in Nat
      /\ _hostRate(enclave[e], dep[id], dep[id].gpuMilli, dep[id].cpuMilli) \in Nat
  BY <1>2, <1>3
<1> DEFINE h == _hostRate(enclave[e], dep[id], dep[id].gpuMilli, dep[id].cpuMilli)
<1>5. h \in Nat /\ rateFor(id, e) = h + fee[id]
  BY <1>4 DEF rateFor
<1> HIDE DEF h
<1>6. rateFor(id, e) \in Nat /\ rateFor(id, e) >= fee[id]
  BY <1>3, <1>5
<1> QED
  BY <1>4, <1>6 DEF CanSnap

\* The runner's share of a rate above the fee is a whole number of units.
LEMMA SnapNat ==
    ASSUME TypeOK, NEW rate \in Nat, NEW f \in Nat, CanSnap(rate, f)
    PROVE  _snapRunnerRate(rate, f) \in Nat
<1> DEFINE share == rate - f
           bps == cfg.runnerBps
<1>1. share \in Nat /\ bps \in Nat
  BY BpsNat DEF CanSnap, TypeOK, Config
<1>2. _snapRunnerRate(rate, f) = (share * bps) \div 10000
  BY DEF _snapRunnerRate
<1> HIDE DEF share, bps
<1>3. share * bps \in Nat
  BY <1>1, MulNat
<1> QED
  BY <1>2, <1>3

\* A record stays well formed when one field gets a value of its type.
LEMMA WithBalance ==
    ASSUME NEW d \in Deployment, NEW n \in Nat
    PROVE  [d EXCEPT !.balance6 = n] \in Deployment
BY SMT DEF Deployment

\* ... another spent total,
LEMMA WithSpent ==
    ASSUME NEW d \in Deployment, NEW n \in Nat
    PROVE  [d EXCEPT !.spent6 = n] \in Deployment
BY SMT DEF Deployment

\* ... another end of lease,
LEMMA WithLease ==
    ASSUME NEW d \in Deployment, NEW n \in Nat
    PROVE  [d EXCEPT !.leaseUntil = n] \in Deployment
BY SMT DEF Deployment

\* ... another working rate,
LEMMA WithRate ==
    ASSUME NEW d \in Deployment, NEW n \in Nat
    PROVE  [d EXCEPT !.rate = n] \in Deployment
BY SMT DEF Deployment

\* ... another runner or none,
LEMMA WithRunner ==
    ASSUME NEW d \in Deployment, NEW e \in Enclaves \cup {NoEnclave}
    PROVE  [d EXCEPT !.runner = e] \in Deployment
BY SMT DEF Deployment

\* ... another runner's operator or none,
LEMMA WithOperator ==
    ASSUME NEW d \in Deployment, NEW a \in Addresses \cup {NoAddr}
    PROVE  [d EXCEPT !.runnerOperator = a] \in Deployment
BY SMT DEF Deployment

\* ... another active flag,
LEMMA WithActive ==
    ASSUME NEW d \in Deployment, NEW on \in BOOLEAN
    PROVE  [d EXCEPT !.active = on] \in Deployment
BY SMT DEF Deployment

\* ... another owner,
LEMMA WithOwner ==
    ASSUME NEW d \in Deployment, NEW a \in Addresses \cup {NoAddr}
    PROVE  [d EXCEPT !.owner = a] \in Deployment
BY SMT DEF Deployment

\* ... another app reference,
LEMMA WithAppRef ==
    ASSUME NEW d \in Deployment, NEW ref \in AppRefs
    PROVE  [d EXCEPT !.appRef = ref] \in Deployment
BY SMT DEF Deployment

\* ... another config,
LEMMA WithConfig ==
    ASSUME NEW d \in Deployment, NEW c \in Configs
    PROVE  [d EXCEPT !.configCid = c] \in Deployment
BY SMT DEF Deployment

\* ... or other shares of a machine.
LEMMA WithShares ==
    ASSUME NEW d \in Deployment, NEW m \in Milli
    PROVE  /\ [d EXCEPT !.gpuMilli = m] \in Deployment
           /\ [d EXCEPT !.cpuMilli = m] \in Deployment
BY SMT DEF Deployment

\* Records stay well formed when their money and their lease are rewritten.
LEMMA Rebalance ==
    ASSUME NEW d \in Deployment, NEW b \in Nat, NEW s \in Nat
    PROVE  [d EXCEPT !.balance6 = b, !.spent6 = s] \in Deployment
<1> DEFINE d1 == [d EXCEPT !.balance6 = b]
<1>1. d1 \in Deployment
  BY WithBalance
<1>2. [d EXCEPT !.balance6 = b, !.spent6 = s] = [d1 EXCEPT !.spent6 = s]
  BY Zenon
<1> HIDE DEF d1
<1> QED
  BY <1>1, <1>2, WithSpent

\* The same when the end of the lease is rewritten too.
LEMMA Relet ==
    ASSUME NEW d \in Deployment, NEW b \in Nat, NEW s \in Nat, NEW l \in Nat
    PROVE  [d EXCEPT !.balance6 = b, !.spent6 = s, !.leaseUntil = l] \in Deployment
<1> DEFINE d2 == [d EXCEPT !.balance6 = b, !.spent6 = s]
<1>1. d2 \in Deployment
  BY Rebalance
<1>2. [d EXCEPT !.balance6 = b, !.spent6 = s, !.leaseUntil = l]
        = [d2 EXCEPT !.leaseUntil = l]
  BY Zenon
<1> HIDE DEF d2
<1> QED
  BY <1>1, <1>2, WithLease

\* A lease quantum never costs more than the record's balance.
LEMMA BurnFacts ==
    ASSUME TypeOK, NEW d \in Deployment, NEW from \in Nat
    PROVE  /\ BurnSecs(d) \in Nat
           /\ BurnSecs(d) * d.rate \in Nat
           /\ BurnSecs(d) * d.rate <= d.balance6
           /\ _burnLease(d, from) \in Deployment
           /\ _burnLease(d, from).spent6 = d.spent6 + BurnSecs(d) * d.rate
           /\ _burnLease(d, from).leaseUntil
                  = (IF d.rate = 0 THEN now ELSE from) + BurnSecs(d)
           /\ _burnLease(d, from).rate = d.rate
           /\ _burnLease(d, from).runner = d.runner
           /\ _burnLease(d, from).runnerOperator = d.runnerOperator
<1>1. d.balance6 \in Nat /\ d.rate \in Nat /\ cfg.leaseSec \in Nat /\ now \in Nat
      /\ d.spent6 \in Nat
  BY DEF TypeOK, Config, Deployment
<1>2. BurnSecs(d) \in Nat
  BY <1>1, DivMul DEF BurnSecs, Min2
<1>3. BurnSecs(d) * d.rate \in Nat
  BY <1>1, <1>2, MulNat
<1>4. BurnSecs(d) * d.rate <= d.balance6
  <2>1. CASE d.rate = 0
    BY <2>1, <1>1, <1>2
  <2>2. CASE d.rate # 0
    <3>1. BurnSecs(d) <= d.balance6 \div d.rate /\ d.balance6 \div d.rate \in Nat
      BY <2>2, <1>1, DivMul DEF BurnSecs, Min2
    <3>2. BurnSecs(d) * d.rate <= (d.balance6 \div d.rate) * d.rate
      BY <3>1, <1>1, <1>2, MulMono
    <3>3. (d.balance6 \div d.rate) * d.rate <= d.balance6
      BY <2>2, <1>1, DivMul
    <3>4. (d.balance6 \div d.rate) * d.rate \in Nat
      BY <3>1, <1>1, MulNat
    <3> QED
      BY <3>2, <3>3, <3>4, <1>3, <1>1
  <2> QED
    BY <2>1, <2>2
<1>5. d.balance6 - BurnSecs(d) * d.rate \in Nat
      /\ d.spent6 + BurnSecs(d) * d.rate \in Nat
      /\ (IF d.rate = 0 THEN now ELSE from) + BurnSecs(d) \in Nat
  BY <1>1, <1>2, <1>3, <1>4
<1> DEFINE b == d.balance6 - BurnSecs(d) * d.rate
           s == d.spent6 + BurnSecs(d) * d.rate
           l == (IF d.rate = 0 THEN now ELSE from) + BurnSecs(d)
<1>6. b \in Nat /\ s \in Nat /\ l \in Nat
  BY <1>5
<1>7. _burnLease(d, from) = [d EXCEPT !.balance6 = b, !.spent6 = s, !.leaseUntil = l]
  BY DEF _burnLease
<1>8. /\ _burnLease(d, from) \in Deployment
      /\ _burnLease(d, from).spent6 = s
      /\ _burnLease(d, from).leaseUntil = l
      /\ _burnLease(d, from).rate = d.rate
      /\ _burnLease(d, from).runner = d.runner
      /\ _burnLease(d, from).runnerOperator = d.runnerOperator
  <2> HIDE DEF b, s, l
  <2> DEFINE w == [d EXCEPT !.balance6 = b, !.spent6 = s, !.leaseUntil = l]
  <2>1. w \in Deployment
    BY <1>6, Relet
  <2>2. /\ w.spent6 = s /\ w.leaseUntil = l
        /\ w.rate = d.rate /\ w.runner = d.runner
        /\ w.runnerOperator = d.runnerOperator
    BY <1>6, SMT DEF Deployment
  <2> HIDE DEF w
  <2> QED
    BY <2>1, <2>2, <1>7 DEF w
<1> QED
  BY <1>2, <1>3, <1>4, <1>8

\* Handing the unserved tail back leaves a well-formed record, if it was paid.
LEMMA ReturnFacts ==
    ASSUME TypeOK, NEW d \in Deployment, UnservedSecs(d) * d.rate <= d.spent6
    PROVE  /\ UnservedSecs(d) \in Nat
           /\ UnservedSecs(d) * d.rate \in Nat
           /\ ReturnTail(d) \in Deployment
           /\ ReturnTail(d).runner = d.runner
           /\ ReturnTail(d).runnerOperator = d.runnerOperator
           /\ ReturnTail(d).leaseUntil = d.leaseUntil
           /\ ReturnTail(d).rate = d.rate
<1>1. d.balance6 \in Nat /\ d.rate \in Nat /\ now \in Nat /\ d.spent6 \in Nat
      /\ d.leaseUntil \in Nat
  BY DEF TypeOK, Deployment
<1>2. UnservedSecs(d) \in Nat
  BY <1>1 DEF UnservedSecs
<1> DEFINE t == UnservedSecs(d) * d.rate
<1>3. t \in Nat
  BY <1>1, <1>2, MulNat
<1>4. ReturnTail(d) = [d EXCEPT !.balance6 = @ + t, !.spent6 = @ - t]
  BY DEF ReturnTail
<1>5. t <= d.spent6
  OBVIOUS
<1> HIDE DEF t
<1>6. d.balance6 + t \in Nat /\ d.spent6 - t \in Nat
  BY <1>1, <1>3, <1>5
<1>7. ReturnTail(d) \in Deployment
  BY <1>4, <1>6, Rebalance
<1>8. /\ ReturnTail(d).runner = d.runner
      /\ ReturnTail(d).runnerOperator = d.runnerOperator
      /\ ReturnTail(d).leaseUntil = d.leaseUntil
      /\ ReturnTail(d).rate = d.rate
  BY <1>4, SMT DEF Deployment
<1> QED
  BY <1>2, <1>3, <1>7, <1>8 DEF t

\* Re-buying the tail at another rate never costs more than the balance, and
\* what it buys is recorded as spent.
LEMMA RebuyFacts ==
    ASSUME TypeOK, NEW d \in Deployment, NEW newRate \in Nat,
           UnservedSecs(d) * d.rate <= d.spent6
    PROVE  /\ RebuySecs(d, newRate) \in Nat
           /\ Rebuy(d, newRate) \in Deployment
           /\ d.leaseUntil > now =>
                  /\ Rebuy(d, newRate).leaseUntil = now + RebuySecs(d, newRate)
                  /\ RebuySecs(d, newRate) * newRate <= Rebuy(d, newRate).spent6
<1> DEFINE t == ReturnTail(d)
           n == RebuySecs(d, newRate)
           c == n * newRate
<1>1. t \in Deployment /\ UnservedSecs(d) \in Nat
  BY ReturnFacts
<1>2. t.balance6 \in Nat /\ t.spent6 \in Nat /\ now \in Nat
  BY <1>1 DEF TypeOK, Deployment
<1>3. n \in Nat
  <2>1. CASE newRate = 0
    BY <2>1, <1>1 DEF RebuySecs
  <2>2. CASE newRate # 0
    BY <2>2, <1>1, <1>2, DivMul, Min2Nat DEF RebuySecs
  <2> QED
    BY <2>1, <2>2
<1>4. c \in Nat /\ c <= t.balance6
  <2>1. c \in Nat
    BY <1>3, MulNat
  <2>2. CASE newRate = 0
    BY <2>2, <1>2, <1>3
  <2>3. CASE newRate # 0
    <3>1. n <= t.balance6 \div newRate /\ t.balance6 \div newRate \in Nat
      BY <2>3, <1>1, <1>2, DivMul, Min2Nat DEF RebuySecs
    <3>2. c <= (t.balance6 \div newRate) * newRate
      BY <3>1, <1>3, MulMono
    <3>3. (t.balance6 \div newRate) * newRate <= t.balance6
      BY <2>3, <1>2, DivMul
    <3>4. (t.balance6 \div newRate) * newRate \in Nat
      BY <3>1, MulNat
    <3> QED
      BY <3>2, <3>3, <3>4, <2>1, <1>2
  <2> QED
    BY <2>1, <2>2, <2>3
<1>5. CASE d.leaseUntil > now
  <2> DEFINE b == t.balance6 - c
             s == t.spent6 + c
             l == now + n
  <2>1. Rebuy(d, newRate) = [t EXCEPT !.balance6 = b, !.spent6 = s, !.leaseUntil = l]
    BY <1>5 DEF Rebuy
  <2>2. b \in Nat /\ s \in Nat /\ l \in Nat /\ c <= s
    BY <1>2, <1>3, <1>4
  <2>3. l = now + n
    OBVIOUS
  <2> HIDE DEF b, s, l, t, n, c
  <2>4. t \in Deployment /\ b \in Nat /\ s \in Nat /\ l \in Nat
    BY <1>1, <2>2
  <2>5. /\ Rebuy(d, newRate) \in Deployment
        /\ Rebuy(d, newRate).spent6 = s
        /\ Rebuy(d, newRate).leaseUntil = l
    <3> DEFINE w == [t EXCEPT !.balance6 = b, !.spent6 = s, !.leaseUntil = l]
    <3>1. w \in Deployment
      BY <2>4, Relet
    <3>2. w.spent6 = s
      BY <2>4, SMT DEF Deployment
    <3>3. w.leaseUntil = l
      BY <2>4, SMT DEF Deployment
    <3>4. Rebuy(d, newRate) = w
      BY <2>1
    <3> HIDE DEF w
    <3> QED
      BY <3>1, <3>2, <3>3, <3>4
  <2> QED
    BY <2>2, <2>3, <2>5, <1>3 DEF n, c
<1>6. CASE ~(d.leaseUntil > now)
  BY <1>3, <1>6 DEF Rebuy
<1> QED
  BY <1>5, <1>6

\* One run of the meter pays a whole number of units that the escrow holds and
\* leaves the meter inside the lease.
LEMMA CreditFacts ==
    ASSUME TypeOK, NEW id \in Ids, NEW proven \in Nat,
           earn[id].creditedUntil <= Min2(now, dep[id].leaseUntil)
    PROVE  /\ CreditSecs(id, proven) \in Nat
           /\ earn[id].creditedUntil + CreditSecs(id, proven)
                  <= Min2(now, dep[id].leaseUntil)
           /\ CreditAmount(id, proven) \in Nat
           /\ CreditAmount(id, proven) <= earn[id].escrow6
           /\ _creditRunner(id, proven) \in Earn
           /\ _creditRunner(id, proven).creditedUntil <= Min2(now, dep[id].leaseUntil)
           /\ CreditOperator(id, proven) \in [Addresses -> Nat]
<1>1. /\ now \in Nat /\ dep[id].leaseUntil \in Nat
      /\ earn[id] \in Earn
      /\ earn[id].rate6 \in Nat /\ earn[id].escrow6 \in Nat
      /\ earn[id].creditedUntil \in Nat
  BY DEF TypeOK, Deployment, Earn
<1>2. CreditUpto(id, proven) \in Nat
      /\ CreditUpto(id, proven) <= Min2(now, dep[id].leaseUntil)
  BY <1>1 DEF CreditUpto, Min2
<1>3. Min2(now, dep[id].leaseUntil) \in Nat
  BY <1>1, Min2Nat
<1>4. CreditSecs(id, proven) \in Nat
      /\ earn[id].creditedUntil + CreditSecs(id, proven) <= Min2(now, dep[id].leaseUntil)
  BY <1>1, <1>2, <1>3 DEF CreditSecs
<1> DEFINE p == CreditSecs(id, proven) * earn[id].rate6
           amt == CreditAmount(id, proven)
           esc == earn[id].escrow6 - amt
           upto == earn[id].creditedUntil + CreditSecs(id, proven)
<1>5. p \in Nat
  BY <1>1, <1>4, MulNat
<1>6. amt \in Nat /\ amt <= earn[id].escrow6
  <2> HIDE DEF p
  <2> QED
    BY <1>1, <1>5, Min2Nat DEF CreditAmount, p
<1>7. esc \in Nat /\ upto \in Nat /\ upto <= Min2(now, dep[id].leaseUntil)
  <2> HIDE DEF amt
  <2> QED
    BY <1>1, <1>4, <1>6
<1>8. _creditRunner(id, proven) = [earn[id] EXCEPT !.escrow6 = esc, !.creditedUntil = upto]
  BY DEF _creditRunner
<1>9. CreditOperator(id, proven) \in [Addresses -> Nat]
  <2> HIDE DEF amt
  <2>1. earned6 \in [Addresses -> Nat]
    BY DEF TypeOK
  <2>2. CreditOperator(id, proven) =
          IF amt = 0 THEN earned6
          ELSE [earned6 EXCEPT ![dep[id].runnerOperator] = @ + amt]
    BY DEF CreditOperator, amt
  <2> DEFINE o == dep[id].runnerOperator
  <2> HIDE DEF o
  <2>3. [earned6 EXCEPT ![o] = @ + amt]
          = [x \in Addresses |-> IF x = o THEN earned6[x] + amt ELSE earned6[x]]
    BY <2>1
  <2>4. \A x \in Addresses : (IF x = o THEN earned6[x] + amt ELSE earned6[x]) \in Nat
    BY <2>1, <1>6
  <2>5. [earned6 EXCEPT ![o] = @ + amt] \in [Addresses -> Nat]
    BY <2>3, <2>4
  <2> QED
    BY <2>1, <2>2, <2>5 DEF o
<1>10. /\ _creditRunner(id, proven) \in Earn
       /\ _creditRunner(id, proven).creditedUntil = upto
  <2> HIDE DEF esc, upto
  <2> QED
    BY <1>1, <1>7, <1>8 DEF Earn
<1> QED
  BY <1>4, <1>6, <1>7, <1>9, <1>10

\* A funding splits into whole shares: publisher's cut and runner's escrow
\* together never exceed what was paid in.
LEMMA FundFacts ==
    ASSUME TypeOK, NEW id \in Ids, NEW value \in Nat, CanSplit(id, value)
    PROVE  /\ _feeShare(id, value) \in Nat
           /\ EscrowShare(id, value) \in Nat
           /\ _feeShare(id, value) + EscrowShare(id, value) <= value
<1> DEFINE f == fee[id]
           r == dep[id].rate
           r6 == earn[id].rate6
           cut == _feeShare(id, value)
<1>1. f \in Nat /\ r \in Nat /\ r6 \in Nat
  BY DEF TypeOK, Deployment, Earn
<1>2. (f > 0 \/ r6 > 0 => r > 0) /\ cut <= value
  BY DEF CanSplit
<1>3. cut = IF f = 0 THEN 0 ELSE (value * f) \div r
  BY DEF _feeShare
<1>4. EscrowShare(id, value) = IF r6 = 0 THEN 0
        ELSE Min2((value * r6 + (r - 1)) \div r, value - cut)
  BY DEF EscrowShare
<1> HIDE DEF f, r, r6, cut
<1>5. cut \in Nat
  <2>1. CASE f = 0
    BY <2>1, <1>3
  <2>2. CASE f # 0
    <3>1. value * f \in Nat /\ r \in Nat \ {0}
      BY <2>2, <1>1, <1>2, MulNat
    <3> DEFINE p == value * f
    <3> HIDE DEF p
    <3>2. p \div r \in Nat
      BY <3>1, DivMul DEF p
    <3> QED
      BY <3>2, <2>2, <1>3 DEF p
  <2> QED
    BY <2>1, <2>2
<1>6. EscrowShare(id, value) \in Nat /\ cut + EscrowShare(id, value) <= value
  <2>1. CASE r6 = 0
    BY <2>1, <1>2, <1>4, <1>5
  <2>2. CASE r6 # 0
    <3> DEFINE p == value * r6
    <3>1. p \in Nat /\ r \in Nat \ {0}
      BY <2>2, <1>1, <1>2, MulNat
    <3>2. EscrowShare(id, value) = Min2((p + (r - 1)) \div r, value - cut)
      BY <2>2, <1>4
    <3> HIDE DEF p
    <3>3. p + (r - 1) \in Nat /\ value - cut \in Nat
      BY <3>1, <1>2, <1>5
    <3>4. (p + (r - 1)) \div r \in Nat
      BY <3>1, <3>3, DivMul
    <3> DEFINE q == (p + (r - 1)) \div r
               rest == value - cut
    <3>5. /\ Min2(q, rest) \in Nat /\ Min2(q, rest) <= rest
      <4> HIDE DEF q, rest
      <4>1. q \in Nat /\ rest \in Nat
        BY <3>3, <3>4 DEF q, rest
      <4> QED
        BY <4>1, Min2Nat
    <3>6. EscrowShare(id, value) = Min2(q, rest)
      BY <3>2
    <3> HIDE DEF q
    <3> QED
      BY <3>5, <3>6, <1>5
  <2> QED
    BY <2>1, <2>2
<1> QED
  BY <1>2, <1>5, <1>6 DEF cut

\* A refund is covered by the record's escrow and by the owner's part of it,
\* and leaves what the current lease could still be paid.
LEMMA RefundFacts ==
    ASSUME NEW d \in Deployment, NEW e \in Earn, NEW own \in Nat
    PROVE  /\ Reserve(d, e) \in Nat
           /\ refundableOf(d, e, own) \in Nat
           /\ refundableOf(d, e, own) <= own
           /\ refundableOf(d, e, own) <= e.escrow6
           /\ e.escrow6 >= Reserve(d, e) =>
                  e.escrow6 - refundableOf(d, e, own) >= Reserve(d, e)
<1>1. d.leaseUntil \in Nat
  BY DEF Deployment
<1>2. e.rate6 \in Nat /\ e.escrow6 \in Nat /\ e.creditedUntil \in Nat
  BY DEF Earn
<1>3. Reserve(d, e) \in Nat
  <2> DEFINE n == d.leaseUntil - e.creditedUntil
             r == e.rate6
  <2>1. Reserve(d, e) = IF d.leaseUntil > e.creditedUntil THEN n * r ELSE 0
    BY DEF Reserve
  <2>2. CASE d.leaseUntil > e.creditedUntil
    <3>1. n \in Nat /\ r \in Nat
      BY <2>2, <1>1, <1>2
    <3> HIDE DEF n, r
    <3>2. n * r \in Nat
      BY <3>1, MulNat
    <3> QED
      BY <2>1, <2>2, <3>2
  <2>3. CASE ~(d.leaseUntil > e.creditedUntil)
    BY <2>1, <2>3
  <2> QED
    BY <2>2, <2>3
<1> QED
  BY <1>2, <1>3 DEF refundableOf, Min2

-----------------------------------------------------------------------------
(* The inductive invariant                                                   *)

\* An entry that names an operator exists.
OperatorsExist ==
    \A e \in Enclaves : enclave[e].operator # NoAddr => enclave[e].exists

\* Only a record that exists is ever leased.
OnlyRecordsLeased == \A id \in Ids : dep[id].leaseUntil # 0 => id \in ids

\* A serving box is operated by somebody the ledger can pay.
RunnerIsPayable ==
    \A id \in Ids : dep[id].runner # NoEnclave => dep[id].runnerOperator # NoAddr

IInv == /\ TypeOK /\ OperatorsExist /\ OnlyRecordsLeased /\ RunnerIsPayable
        /\ MeterInsideLease /\ TailIsPaid /\ RunnerIsRegistered

\* What IInv says of one record's lease.
RecordAt(id) ==
    /\ dep[id].leaseUntil # 0 => id \in ids
    /\ earn[id].creditedUntil <= Min2(now, dep[id].leaseUntil)
    /\ provenUntil[id] <= Min2(now, dep[id].leaseUntil)
    /\ dep[id].runner = NoEnclave =>
           dep[id].leaseUntil = 0 /\ dep[id].runnerOperator = NoAddr
    /\ UnservedSecs(dep[id]) * dep[id].rate <= dep[id].spent6
    /\ dep[id].runner # NoEnclave => dep[id].runnerOperator # NoAddr
    /\ dep[id].runner # NoEnclave =>
           /\ enclave[dep[id].runner].exists
           /\ enclave[dep[id].runner].cpuPricePerSec6 > 0
           /\ enclave[dep[id].runner].operator = dep[id].runnerOperator

-----------------------------------------------------------------------------
(* Frames: a step that touches one record leaves the others' facts alone.    *)

\* IInv, read at one record.
LEMMA AtEveryRecord == ASSUME IInv, NEW id \in Ids PROVE RecordAt(id)
BY DEF IInv, RecordAt, OnlyRecordsLeased, RunnerIsPayable, MeterInsideLease,
       TailIsPaid, RunnerIsRegistered

\* A step of record id preserves IInv if it keeps the types and id's relations.
LEMMA OneRecord ==
    ASSUME IInv, TypeOK', NEW id \in Ids, now' = now, enclave' = enclave,
           ids \subseteq ids',
           \A i \in Ids : i # id => /\ dep'[i] = dep[i]
                                    /\ earn'[i] = earn[i]
                                    /\ provenUntil'[i] = provenUntil[i],
           RecordAt(id)'
    PROVE  IInv'
<1>1. \A i \in Ids : RecordAt(i)'
  <2> TAKE i \in Ids
  <2>1. CASE i = id
    BY <2>1
  <2>2. CASE i # id
    <3>1. RecordAt(i)
      BY AtEveryRecord
    <3>2. dep'[i] = dep[i] /\ earn'[i] = earn[i] /\ provenUntil'[i] = provenUntil[i]
      BY <2>2
    <3> QED
      BY <3>1, <3>2 DEF RecordAt, UnservedSecs
  <2> QED
    BY <2>1, <2>2
<1>2. OperatorsExist'
  BY DEF IInv, OperatorsExist
<1> QED
  BY <1>1, <1>2 DEF IInv, RecordAt, OnlyRecordsLeased, RunnerIsPayable,
                    MeterInsideLease, TailIsPaid, RunnerIsRegistered

\* The step leaves record id's lease, rate and meter as they are.
SameLease(id) ==
    /\ UNCHANGED <<dep[id].runner, dep[id].runnerOperator, dep[id].leaseUntil,
                   dep[id].spent6>>
    /\ dep'[id].leaseUntil > now => dep'[id].rate = dep[id].rate
    /\ earn'[id].creditedUntil = earn[id].creditedUntil
    /\ provenUntil'[id] = provenUntil[id]

\* A record whose lease and meter stay as they are keeps its relations.
LEMMA SameLeaseKept ==
    ASSUME IInv, NEW id \in Ids, SameLease(id), now' = now, enclave' = enclave,
           ids \subseteq ids',
           dep'[id].rate \in Nat
    PROVE  RecordAt(id)'
<1>1. RecordAt(id)
  BY AtEveryRecord
<1>2. now \in Nat /\ dep[id].leaseUntil \in Nat /\ dep[id].spent6 \in Nat
  BY DEF IInv, TypeOK, Deployment
<1>3. (UnservedSecs(dep[id]) * dep[id].rate <= dep[id].spent6)'
  <2>1. CASE dep[id].leaseUntil > now
    BY <2>1, <1>1 DEF RecordAt, SameLease, UnservedSecs
  <2>2. CASE ~(dep[id].leaseUntil > now)
    <3>1. UnservedSecs(dep[id])' = 0
      BY <2>2 DEF SameLease, UnservedSecs
    <3> QED
      BY <3>1, <1>2 DEF SameLease
  <2> QED
    BY <2>1, <2>2
<1> QED
  BY <1>1, <1>3 DEF RecordAt, SameLease

\* What an update of one record's entry in a table of the ledger changes.
LEMMA DepUpdate ==
    ASSUME TypeOK, NEW id \in Ids, NEW d \in Deployment,
           dep' = [dep EXCEPT ![id] = d]
    PROVE  /\ dep' \in [Ids -> Deployment]
           /\ dep'[id] = d
           /\ \A i \in Ids : i # id => dep'[i] = dep[i]
<1>1. dep \in [Ids -> Deployment]
  BY DEF TypeOK
<1> QED
  BY <1>1

\* The same for the payout table.
LEMMA EarnUpdate ==
    ASSUME TypeOK, NEW id \in Ids, NEW e \in Earn,
           earn' = [earn EXCEPT ![id] = e]
    PROVE  /\ earn' \in [Ids -> Earn]
           /\ earn'[id] = e
           /\ \A i \in Ids : i # id => earn'[i] = earn[i]
<1>1. earn \in [Ids -> Earn]
  BY DEF TypeOK
<1> QED
  BY <1>1

-----------------------------------------------------------------------------
(* The owner's calls                                                         *)

\* Owners and operators are addresses, and none of them is address(0).
LEMMA AddressesOf ==
    /\ Users \subseteq Addresses
    /\ Operators \subseteq Addresses
    /\ NoAddr \notin Addresses
BY AddressAssumption DEF Addresses

\* A call that edits one record outside its lease and changes nothing else.
LEMMA EditKeeps ==
    ASSUME IInv, NEW id \in Ids, NEW d \in Deployment,
           dep' = [dep EXCEPT ![id] = d],
           d.runner = dep[id].runner, d.runnerOperator = dep[id].runnerOperator,
           d.leaseUntil = dep[id].leaseUntil, d.spent6 = dep[id].spent6,
           d.rate = dep[id].rate,
           UNCHANGED <<enclave, now, ids, fee, earn, maxRate6, ownerEscrow6,
                       provenUntil, moneyVars, cfg>>
    PROVE  IInv'
<1>1. TypeOK
  BY DEF IInv
<1>2. /\ dep' \in [Ids -> Deployment] /\ dep'[id] = d
      /\ \A i \in Ids : i # id => dep'[i] = dep[i]
  BY <1>1, DepUpdate
<1>3. TypeOK'
  BY <1>1, <1>2 DEF TypeOK, RegistryTypeOK, moneyVars
<1>4. SameLease(id)
  BY <1>2 DEF SameLease
<1>5. RecordAt(id)'
  BY <1>2, <1>4, SameLeaseKept DEF Deployment
<1> QED
  BY <1>2, <1>3, <1>5, OneRecord

\* setAppRef edits what runs, not the lease.
LEMMA SetAppRefKeeps ==
    ASSUME IInv, NEW a \in Users, NEW id \in Ids, NEW ref \in AppRefs,
           setAppRef(a, id, ref)
    PROVE  IInv'
<1> DEFINE d == [dep[id] EXCEPT !.appRef = ref]
<1>1. dep[id] \in Deployment
  BY DEF IInv, TypeOK
<1>2. d \in Deployment
  BY <1>1, WithAppRef
<1>3. /\ d.runner = dep[id].runner /\ d.runnerOperator = dep[id].runnerOperator
      /\ d.leaseUntil = dep[id].leaseUntil /\ d.spent6 = dep[id].spent6
      /\ d.rate = dep[id].rate
  BY <1>1, SMT DEF Deployment
<1>4. /\ dep' = [dep EXCEPT ![id] = d]
      /\ UNCHANGED <<enclave, now, ids, fee, earn, maxRate6, ownerEscrow6,
                     provenUntil, moneyVars, cfg>>
  BY DEF setAppRef
<1> HIDE DEF d
<1> QED
  BY <1>2, <1>3, <1>4, EditKeeps

\* setConfig edits what runs, not the lease.
LEMMA SetConfigKeeps ==
    ASSUME IInv, NEW a \in Users, NEW id \in Ids, NEW c \in Configs,
           setConfig(a, id, c)
    PROVE  IInv'
<1> DEFINE d == [dep[id] EXCEPT !.configCid = c]
<1>1. dep[id] \in Deployment
  BY DEF IInv, TypeOK
<1>2. d \in Deployment
  BY <1>1, WithConfig
<1>3. /\ d.runner = dep[id].runner /\ d.runnerOperator = dep[id].runnerOperator
      /\ d.leaseUntil = dep[id].leaseUntil /\ d.spent6 = dep[id].spent6
      /\ d.rate = dep[id].rate
  BY <1>1, SMT DEF Deployment
<1>4. /\ dep' = [dep EXCEPT ![id] = d]
      /\ UNCHANGED <<enclave, now, ids, fee, earn, maxRate6, ownerEscrow6,
                     provenUntil, moneyVars, cfg>>
  BY DEF setConfig
<1> HIDE DEF d
<1> QED
  BY <1>2, <1>3, <1>4, EditKeeps

\* setActive stops renewals later; the lease stays.
LEMMA SetActiveKeeps ==
    ASSUME IInv, NEW a \in Users, NEW id \in Ids, NEW on \in BOOLEAN,
           setActive(a, id, on)
    PROVE  IInv'
<1> DEFINE d == [dep[id] EXCEPT !.active = on]
<1>1. dep[id] \in Deployment
  BY DEF IInv, TypeOK
<1>2. d \in Deployment
  BY <1>1, WithActive
<1>3. /\ d.runner = dep[id].runner /\ d.runnerOperator = dep[id].runnerOperator
      /\ d.leaseUntil = dep[id].leaseUntil /\ d.spent6 = dep[id].spent6
      /\ d.rate = dep[id].rate
  BY <1>1, SMT DEF Deployment
<1>4. /\ dep' = [dep EXCEPT ![id] = d]
      /\ UNCHANGED <<enclave, now, ids, fee, earn, maxRate6, ownerEscrow6,
                     provenUntil, moneyVars, cfg>>
  BY DEF setActive
<1> HIDE DEF d
<1> QED
  BY <1>2, <1>3, <1>4, EditKeeps

\* transferDeployment changes hands, not the lease.
LEMMA TransferKeeps ==
    ASSUME IInv, NEW a \in Users, NEW id \in Ids, NEW to \in Users,
           transferDeployment(a, id, to)
    PROVE  IInv'
<1> DEFINE d == [dep[id] EXCEPT !.owner = to]
<1>1. dep[id] \in Deployment /\ to \in Addresses \cup {NoAddr}
  BY AddressesOf DEF IInv, TypeOK
<1>2. d \in Deployment
  BY <1>1, WithOwner
<1>3. /\ d.runner = dep[id].runner /\ d.runnerOperator = dep[id].runnerOperator
      /\ d.leaseUntil = dep[id].leaseUntil /\ d.spent6 = dep[id].spent6
      /\ d.rate = dep[id].rate
  BY <1>1, SMT DEF Deployment
<1>4. /\ dep' = [dep EXCEPT ![id] = d]
      /\ UNCHANGED <<enclave, now, ids, fee, earn, maxRate6, ownerEscrow6,
                     provenUntil, moneyVars, cfg>>
  BY DEF transferDeployment
<1> HIDE DEF d
<1> QED
  BY <1>2, <1>3, <1>4, EditKeeps

\* fundEth adds runtime to the balance only.
LEMMA FundEthKeeps ==
    ASSUME IInv, NEW id \in Ids, NEW credited \in EthCredits,
           fundEth(id, credited)
    PROVE  IInv'
<1> DEFINE b == dep[id].balance6 + credited
           d == [dep[id] EXCEPT !.balance6 = b]
<1>1. dep[id] \in Deployment /\ credited \in Nat
  BY InputAssumption DEF IInv, TypeOK
<1>2. b \in Nat
  BY <1>1 DEF Deployment
<1>3. /\ dep' = [dep EXCEPT ![id] = d]
      /\ UNCHANGED <<enclave, now, ids, fee, earn, maxRate6, ownerEscrow6,
                     provenUntil, moneyVars, cfg>>
  BY DEF fundEth
<1> HIDE DEF b
<1>4. d \in Deployment
  BY <1>1, <1>2, WithBalance
<1>5. /\ d.runner = dep[id].runner /\ d.runnerOperator = dep[id].runnerOperator
      /\ d.leaseUntil = dep[id].leaseUntil /\ d.spent6 = dep[id].spent6
      /\ d.rate = dep[id].rate
  BY <1>1, SMT DEF Deployment
<1> HIDE DEF d
<1> QED
  BY <1>3, <1>4, <1>5, EditKeeps


\* A new record starts idle, at the owner's cap.
LEMMA CreateKeeps ==
    ASSUME IInv, NEW a \in Users, NEW id \in Ids, NEW ref \in AppRefs,
           NEW c \in Configs, NEW shares \in ShareChoices,
           NEW f \in FeeChoices, NEW cap \in CapChoices,
           create(a, id, ref, c, shares, f, cap)
    PROVE  IInv'
<1>1. TypeOK /\ dep[id] \in Deployment /\ earn[id] \in Earn
  BY DEF IInv, TypeOK
<1>2. /\ f \in Nat /\ cap \in Nat /\ a \in Addresses \cup {NoAddr}
      /\ shares[1] \in Milli /\ shares[2] \in Milli
  BY InputAssumption, AddressesOf
<1>3. _snapRunnerRate(cap, f) \in Nat
  <2>1. CanSnap(cap, f)
    BY <1>2 DEF create, CanSnap
  <2> QED
    BY <2>1, <1>1, <1>2, SnapNat
<1> DEFINE d1 == [dep[id] EXCEPT !.owner = a]
           d2 == [d1 EXCEPT !.appRef = ref]
           d3 == [d2 EXCEPT !.configCid = c]
           d4 == [d3 EXCEPT !.gpuMilli = shares[1]]
           d5 == [d4 EXCEPT !.cpuMilli = shares[2]]
           d6 == [d5 EXCEPT !.active = TRUE]
           d == [d6 EXCEPT !.rate = cap]
           e == [earn[id] EXCEPT !.rate6 = _snapRunnerRate(cap, f)]
<1>4. /\ d.runner = dep[id].runner /\ d.runnerOperator = dep[id].runnerOperator
      /\ d.leaseUntil = dep[id].leaseUntil /\ d.spent6 = dep[id].spent6
  BY <1>1, SMT DEF Deployment
<1>5. d \in Deployment
  <2>1. d1 \in Deployment
    BY <1>1, <1>2, WithOwner
  <2>2. d2 \in Deployment
    <3> HIDE DEF d1
    <3> QED BY <2>1, WithAppRef
  <2>3. d3 \in Deployment
    <3> HIDE DEF d2
    <3> QED BY <2>2, WithConfig
  <2>4. d4 \in Deployment
    <3> HIDE DEF d3
    <3> QED BY <2>3, <1>2, WithShares
  <2>5. d5 \in Deployment
    <3> HIDE DEF d4
    <3> QED BY <2>4, <1>2, WithShares
  <2>6. d6 \in Deployment
    <3> HIDE DEF d5
    <3> QED BY <2>5, WithActive
  <2> HIDE DEF d6
  <2> QED
    BY <2>6, <1>2, WithRate
<1>6. e \in Earn /\ e.creditedUntil = earn[id].creditedUntil
  <2> DEFINE n == _snapRunnerRate(cap, f)
  <2> HIDE DEF n
  <2>1. [earn[id] EXCEPT !.rate6 = n] \in Earn
        /\ [earn[id] EXCEPT !.rate6 = n].creditedUntil = earn[id].creditedUntil
    BY <1>1, <1>3, SMT DEF Earn, n
  <2> QED
    BY <2>1 DEF n
<1>7. dep' = [dep EXCEPT ![id] = d]
  BY Zenon DEF create
<1>8. earn' = [earn EXCEPT ![id] = e]
  BY DEF create
<1>9. /\ id \notin ids /\ ids' = ids \cup {id}
      /\ fee' = [fee EXCEPT ![id] = f] /\ maxRate6' = [maxRate6 EXCEPT ![id] = cap]
      /\ UNCHANGED <<enclave, now, ownerEscrow6, provenUntil, moneyVars, cfg>>
  BY DEF create
<1> HIDE DEF d, e
<1>10. /\ dep' \in [Ids -> Deployment] /\ dep'[id] = d
       /\ \A i \in Ids : i # id => dep'[i] = dep[i]
  BY <1>1, <1>5, <1>7, DepUpdate
<1>11. /\ earn' \in [Ids -> Earn] /\ earn'[id] = e
       /\ \A i \in Ids : i # id => earn'[i] = earn[i]
  BY <1>1, <1>6, <1>8, EarnUpdate
<1>12. TypeOK'
  BY <1>1, <1>2, <1>9, <1>10, <1>11 DEF TypeOK, RegistryTypeOK, moneyVars
<1>13. SameLease(id)
  <2>1. dep[id].leaseUntil = 0
    BY <1>9, AtEveryRecord DEF RecordAt
  <2>2. now \in Nat
    BY <1>1 DEF TypeOK
  <2> QED
    BY <2>1, <2>2, <1>4, <1>6, <1>9, <1>10, <1>11 DEF SameLease
<1>14. RecordAt(id)'
  BY <1>5, <1>9, <1>10, <1>13, SameLeaseKept DEF Deployment
<1> QED
  BY <1>9, <1>10, <1>11, <1>12, <1>14, OneRecord

\* setMaxRate re-bases the rate only where no second is unserved.
LEMMA SetMaxRateKeeps ==
    ASSUME IInv, NEW a \in Users, NEW id \in Ids, NEW cap \in CapChoices,
           setMaxRate(a, id, cap)
    PROVE  IInv'
<1>1. TypeOK /\ dep[id] \in Deployment /\ earn[id] \in Earn /\ fee[id] \in Nat
  BY DEF IInv, TypeOK
<1>2. cap \in Nat
  BY InputAssumption
<1> DEFINE n == _snapRunnerRate(cap, fee[id])
           d == IF dep[id].leaseUntil <= now THEN [dep[id] EXCEPT !.rate = cap]
                                             ELSE dep[id]
           e == IF dep[id].leaseUntil <= now THEN [earn[id] EXCEPT !.rate6 = n]
                                             ELSE earn[id]
<1>3. n \in Nat
  <2>1. CanSnap(cap, fee[id])
    BY <1>1, <1>2 DEF setMaxRate, CanSnap
  <2> QED
    BY <2>1, <1>1, <1>2, SnapNat
<1>4. /\ maxRate6' = [maxRate6 EXCEPT ![id] = cap]
      /\ UNCHANGED <<enclave, now, ids, fee, ownerEscrow6, provenUntil, moneyVars, cfg>>
  BY DEF setMaxRate
<1>5. dep' = [dep EXCEPT ![id] = d]
  BY <1>1 DEF setMaxRate, TypeOK
<1>6. earn' = [earn EXCEPT ![id] = e]
  BY <1>1 DEF setMaxRate, TypeOK
<1>7. d \in Deployment
  BY <1>1, <1>2, WithRate
<1>8. /\ d.runner = dep[id].runner /\ d.runnerOperator = dep[id].runnerOperator
      /\ d.leaseUntil = dep[id].leaseUntil /\ d.spent6 = dep[id].spent6
      /\ ~(dep[id].leaseUntil <= now) => d.rate = dep[id].rate
  BY <1>1, SMT DEF Deployment
<1> HIDE DEF n
<1>9. e \in Earn /\ e.creditedUntil = earn[id].creditedUntil
  BY <1>1, <1>3, SMT DEF Earn
<1> HIDE DEF d, e
<1>10. /\ dep' \in [Ids -> Deployment] /\ dep'[id] = d
       /\ \A i \in Ids : i # id => dep'[i] = dep[i]
  BY <1>1, <1>5, <1>7, DepUpdate
<1>11. /\ earn' \in [Ids -> Earn] /\ earn'[id] = e
       /\ \A i \in Ids : i # id => earn'[i] = earn[i]
  BY <1>1, <1>6, <1>9, EarnUpdate
<1>12. TypeOK'
  BY <1>1, <1>2, <1>4, <1>10, <1>11 DEF TypeOK, RegistryTypeOK, moneyVars
<1>13. SameLease(id)
  <2>1. dep[id].leaseUntil \in Nat /\ now \in Nat
    BY <1>1 DEF TypeOK, Deployment
  <2> QED
    BY <2>1, <1>4, <1>8, <1>9, <1>10, <1>11 DEF SameLease
<1>14. RecordAt(id)'
  BY <1>4, <1>7, <1>10, <1>13, SameLeaseKept DEF Deployment
<1> QED
  BY <1>4, <1>10, <1>11, <1>12, <1>14, OneRecord

-----------------------------------------------------------------------------
(* Funding                                                                   *)

\* fund credits the balance whole and escrows the runner's share.
LEMMA FundKeeps ==
    ASSUME IInv, NEW a \in Users, NEW id \in Ids, NEW value \in FundAmounts,
           fund(a, id, value)
    PROVE  IInv'
<1>1. TypeOK /\ dep[id] \in Deployment /\ earn[id] \in Earn
  BY DEF IInv, TypeOK
<1>2. value \in Nat
  BY InputAssumption
<1> DEFINE esc == EscrowShare(id, value)
           cut == _feeShare(id, value)
           b == dep[id].balance6 + value
           x == earn[id].escrow6 + esc
           d == [dep[id] EXCEPT !.balance6 = b]
           e == [earn[id] EXCEPT !.escrow6 = x]
<1>3. esc \in Nat /\ cut \in Nat
  BY <1>1, <1>2, FundFacts DEF fund
<1>4. /\ ownerEscrow6' = IF a = dep[id].owner
                            THEN [ownerEscrow6 EXCEPT ![id] = @ + esc]
                            ELSE ownerEscrow6
      /\ usdcHeld' = usdcHeld + value - cut - (value - cut - esc)
      /\ UNCHANGED <<enclave, now, ids, fee, maxRate6, provenUntil, earned6,
                     bond, cfg>>
  BY DEF fund
<1>5. dep' = [dep EXCEPT ![id] = d] /\ earn' = [earn EXCEPT ![id] = e]
  BY DEF fund
<1> HIDE DEF esc, cut
<1>6. b \in Nat /\ x \in Nat
  BY <1>1, <1>2, <1>3 DEF Deployment, Earn
<1> HIDE DEF b, x
<1>7. d \in Deployment
  BY <1>1, <1>6, WithBalance
<1>8. /\ d.runner = dep[id].runner /\ d.runnerOperator = dep[id].runnerOperator
      /\ d.leaseUntil = dep[id].leaseUntil /\ d.spent6 = dep[id].spent6
      /\ d.rate = dep[id].rate
  BY <1>1, SMT DEF Deployment
<1>9. e \in Earn /\ e.creditedUntil = earn[id].creditedUntil
  BY <1>1, <1>6, SMT DEF Earn
<1> HIDE DEF d, e
<1>10. /\ dep' \in [Ids -> Deployment] /\ dep'[id] = d
       /\ \A i \in Ids : i # id => dep'[i] = dep[i]
  BY <1>1, <1>5, <1>7, DepUpdate
<1>11. /\ earn' \in [Ids -> Earn] /\ earn'[id] = e
       /\ \A i \in Ids : i # id => earn'[i] = earn[i]
  BY <1>1, <1>5, <1>9, EarnUpdate
<1>12. ownerEscrow6' \in [Ids -> Nat] /\ usdcHeld' \in Int
  BY <1>1, <1>2, <1>3, <1>4 DEF TypeOK
<1>13. TypeOK'
  BY <1>1, <1>4, <1>10, <1>11, <1>12 DEF TypeOK, RegistryTypeOK
<1>14. SameLease(id)
  BY <1>4, <1>8, <1>9, <1>10, <1>11 DEF SameLease
<1>15. RecordAt(id)'
  BY <1>4, <1>7, <1>10, <1>14, SameLeaseKept DEF Deployment
<1> QED
  BY <1>4, <1>10, <1>11, <1>13, <1>15, OneRecord

\* fundEscrow adds escrow only.
LEMMA FundEscrowKeeps ==
    ASSUME IInv, NEW a \in Addresses, NEW id \in Ids, NEW amount6 \in FundAmounts,
           fundEscrow(a, id, amount6)
    PROVE  IInv'
<1>1. TypeOK /\ dep[id] \in Deployment /\ earn[id] \in Earn
  BY DEF IInv, TypeOK
<1>2. amount6 \in Nat
  BY InputAssumption
<1> DEFINE x == earn[id].escrow6 + amount6
           e == [earn[id] EXCEPT !.escrow6 = x]
<1>3. /\ earn' = [earn EXCEPT ![id] = e]
      /\ usdcHeld' = usdcHeld + amount6
      /\ UNCHANGED <<enclave, now, ids, dep, fee, maxRate6, provenUntil,
                     earned6, bond, cfg>>
  BY DEF fundEscrow
<1>4. x \in Nat
  BY <1>1, <1>2 DEF Earn
<1> HIDE DEF x
<1>5. e \in Earn /\ e.creditedUntil = earn[id].creditedUntil
  BY <1>1, <1>4, SMT DEF Earn
<1> HIDE DEF e
<1>6. /\ earn' \in [Ids -> Earn] /\ earn'[id] = e
      /\ \A i \in Ids : i # id => earn'[i] = earn[i]
  BY <1>1, <1>3, <1>5, EarnUpdate
<1>7. ownerEscrow6' \in [Ids -> Nat]
  BY <1>1, <1>2 DEF TypeOK, fundEscrow
<1>8. TypeOK'
  BY <1>1, <1>2, <1>3, <1>6, <1>7 DEF TypeOK, RegistryTypeOK
<1>9. SameLease(id)
  BY <1>3, <1>5, <1>6 DEF SameLease
<1>10. RecordAt(id)'
  BY <1>1, <1>3, <1>9, SameLeaseKept DEF Deployment
<1> QED
  BY <1>3, <1>6, <1>8, <1>10, OneRecord

-----------------------------------------------------------------------------
(* The meter                                                                 *)

\* A call that runs the meter of one record up to what is proven, at most the
\* instant `upto`, and touches neither the record nor anyone else's lease.
LEMMA CreditKeeps ==
    ASSUME IInv, NEW id \in Ids, NEW proven \in Nat,
           earn' = [earn EXCEPT ![id] = _creditRunner(id, proven)],
           earned6' = CreditOperator(id, proven),
           provenUntil' = [provenUntil EXCEPT ![id] = proven],
           proven <= Min2(now, dep[id].leaseUntil),
           UNCHANGED <<enclave, now, ids, dep, fee, maxRate6, ownerEscrow6,
                       bond, usdcHeld, cfg>>
    PROVE  IInv'
<1>1. TypeOK /\ RecordAt(id)
  BY AtEveryRecord DEF IInv
<1> DEFINE e == _creditRunner(id, proven)
<1>2. /\ e \in Earn
      /\ e.creditedUntil <= Min2(now, dep[id].leaseUntil)
      /\ earned6' \in [Addresses -> Nat]
  BY <1>1, CreditFacts DEF RecordAt
<1> HIDE DEF e
<1>3. /\ earn' \in [Ids -> Earn] /\ earn'[id] = e
      /\ \A i \in Ids : i # id => earn'[i] = earn[i]
  BY <1>1, <1>2, EarnUpdate DEF e
<1>4. /\ provenUntil' \in [Ids -> Nat] /\ provenUntil'[id] = proven
      /\ \A i \in Ids : i # id => provenUntil'[i] = provenUntil[i]
  BY <1>1 DEF TypeOK
<1>5. TypeOK'
  BY <1>1, <1>2, <1>3, <1>4 DEF TypeOK, RegistryTypeOK
<1>6. RecordAt(id)'
  BY <1>1, <1>2, <1>3, <1>4 DEF RecordAt, UnservedSecs
<1> QED
  BY <1>3, <1>4, <1>5, <1>6, OneRecord

\* settle runs the meter up to the stored watermark.
LEMMA SettleKeeps ==
    ASSUME IInv, NEW id \in Ids, settle(id)
    PROVE  IInv'
<1>1. TypeOK /\ RecordAt(id)
  BY AtEveryRecord DEF IInv
<1>2. provenUntil[id] \in Nat /\ provenUntil[id] <= Min2(now, dep[id].leaseUntil)
  BY <1>1 DEF TypeOK, RecordAt
<1>3. provenUntil' = [provenUntil EXCEPT ![id] = provenUntil[id]]
  BY <1>1 DEF settle, TypeOK
<1>4. /\ earn' = [earn EXCEPT ![id] = _creditRunner(id, provenUntil[id])]
      /\ earned6' = CreditOperator(id, provenUntil[id])
      /\ UNCHANGED <<enclave, now, ids, dep, fee, maxRate6, ownerEscrow6,
                     bond, usdcHeld, cfg>>
  BY DEF settle
<1> QED
  BY <1>2, <1>3, <1>4, CreditKeeps

\* creditProven clamps the watermark to the clock and the lease.
LEMMA CreditProvenKeeps ==
    ASSUME IInv, NEW id \in Ids, NEW upto \in 0..MaxTime, creditProven(id, upto)
    PROVE  IInv'
<1> DEFINE proven == Min2(upto, Min2(now, dep[id].leaseUntil))
<1>1. now \in Nat /\ dep[id].leaseUntil \in Nat /\ upto \in Nat
  BY BoundAssumption DEF IInv, TypeOK, Deployment
<1>2. proven \in Nat /\ proven <= Min2(now, dep[id].leaseUntil)
  BY <1>1 DEF Min2
<1>3. /\ earn' = [earn EXCEPT ![id] = _creditRunner(id, proven)]
      /\ earned6' = CreditOperator(id, proven)
      /\ provenUntil' = [provenUntil EXCEPT ![id] = proven]
      /\ UNCHANGED <<enclave, now, ids, dep, fee, maxRate6, ownerEscrow6,
                     bond, usdcHeld, cfg>>
  BY DEF creditProven
<1> HIDE DEF proven
<1> QED
  BY <1>2, <1>3, CreditKeeps

-----------------------------------------------------------------------------
(* Leases                                                                    *)

\* A claim buys whole seconds from now on for a box the registry knows.
LEMMA ClaimKeeps ==
    ASSUME IInv, NEW a \in Operators, NEW id \in Ids, NEW e \in Enclaves,
           claim(a, id, e)
    PROVE  IInv'
<1>1. /\ TypeOK /\ RecordAt(id) /\ dep[id] \in Deployment /\ now \in Nat
      /\ fee[id] \in Nat /\ provenUntil[id] \in Nat
      /\ dep[id].gpuMilli \in Milli /\ dep[id].cpuMilli \in Milli
      /\ dep[id].spent6 \in Nat
  BY AtEveryRecord DEF IInv, TypeOK, Deployment
<1> DEFINE r == rateFor(id, e)
           d0 == AtRate(id, r)
           b == _burnLease(d0, now)
           n == _snapRunnerRate(d0.rate, fee[id])
           c == _creditRunner(id, provenUntil[id])
           d1 == [b EXCEPT !.runner = e]
           d == [d1 EXCEPT !.runnerOperator = a]
           m1 == [c EXCEPT !.rate6 = n]
           m == [m1 EXCEPT !.creditedUntil = now]
<1>2. r \in Nat /\ CanSnap(r, fee[id])
  BY <1>1, RateFacts
<1>3. d0 \in Deployment /\ d0.rate = r /\ d0.spent6 = dep[id].spent6
  <2> HIDE DEF r
  <2> QED
    BY <1>1, <1>2, SMT DEF AtRate, Deployment
<1>4. n \in Nat
  <2> HIDE DEF r, d0
  <2> QED
    BY <1>1, <1>2, <1>3, SnapNat
<1>5. c \in Earn /\ earned6' \in [Addresses -> Nat]
  <2>1. earned6' = CreditOperator(id, provenUntil[id])
    BY DEF claim
  <2> QED
    BY <2>1, <1>1, CreditFacts DEF RecordAt
<1>6. /\ id \in ids /\ enclave[e].operator = a /\ enclave[e].cpuPricePerSec6 > 0
      /\ BurnSecs(d0) > 0
      /\ provenUntil' = [provenUntil EXCEPT ![id] = now]
      /\ UNCHANGED <<enclave, now, ids, fee, maxRate6, ownerEscrow6, bond,
                     usdcHeld, cfg>>
  BY DEF claim, _requireActive, AtRate
<1>7. dep' = [dep EXCEPT ![id] = d]
  BY Zenon DEF claim, AtRate
<1>8. earn' = [earn EXCEPT ![id] = m]
  BY Zenon DEF claim, AtRate
<1> HIDE DEF r, d0, n, c
<1>9. /\ b \in Deployment /\ BurnSecs(d0) \in Nat
      /\ b.spent6 = dep[id].spent6 + BurnSecs(d0) * r /\ BurnSecs(d0) * r \in Nat
      /\ b.leaseUntil = now + BurnSecs(d0) /\ b.rate = r
  <2>1. /\ b \in Deployment /\ BurnSecs(d0) \in Nat
        /\ b.spent6 = d0.spent6 + BurnSecs(d0) * d0.rate
        /\ BurnSecs(d0) * d0.rate \in Nat
        /\ b.leaseUntil = (IF d0.rate = 0 THEN now ELSE now) + BurnSecs(d0)
        /\ b.rate = d0.rate
    BY <1>1, <1>3, BurnFacts
  <2> HIDE DEF b
  <2> QED
    BY <2>1, <1>3
<1> HIDE DEF b
<1>10. /\ d.runner = e /\ d.runnerOperator = a /\ d.spent6 = b.spent6
       /\ d.leaseUntil = b.leaseUntil /\ d.rate = b.rate
  BY <1>9, SMT DEF Deployment
<1>11. d \in Deployment
  <2>1. d1 \in Deployment
    BY <1>9, WithRunner
  <2> HIDE DEF d1
  <2> QED
    BY <2>1, AddressesOf, WithOperator
<1>12. m \in Earn /\ m.creditedUntil = now
  <2>1. m1 \in Earn
    BY <1>4, <1>5, SMT DEF Earn
  <2> HIDE DEF m1
  <2> QED
    BY <2>1, <1>1, SMT DEF Earn
<1> HIDE DEF d, m
<1>13. /\ dep' \in [Ids -> Deployment] /\ dep'[id] = d
       /\ \A i \in Ids : i # id => dep'[i] = dep[i]
  BY <1>1, <1>7, <1>11, DepUpdate
<1>14. /\ earn' \in [Ids -> Earn] /\ earn'[id] = m
       /\ \A i \in Ids : i # id => earn'[i] = earn[i]
  BY <1>1, <1>8, <1>12, EarnUpdate
<1>15. /\ provenUntil' \in [Ids -> Nat] /\ provenUntil'[id] = now
       /\ \A i \in Ids : i # id => provenUntil'[i] = provenUntil[i]
  BY <1>1, <1>6 DEF TypeOK
<1>16. TypeOK'
  BY <1>1, <1>5, <1>6, <1>13, <1>14, <1>15 DEF TypeOK, RegistryTypeOK
<1>17. RecordAt(id)'
  <2>1. d.leaseUntil = now + BurnSecs(d0) /\ d.leaseUntil > now
        /\ Min2(now, d.leaseUntil) = now
    BY <1>1, <1>6, <1>9, <1>10 DEF Min2
  <2>2. UnservedSecs(dep[id])' = BurnSecs(d0)
    BY <2>1, <1>1, <1>6, <1>9, <1>13 DEF UnservedSecs
  <2>3. d.spent6 >= BurnSecs(d0) * r
    BY <1>1, <1>9, <1>10
  <2>4. (UnservedSecs(dep[id]) * dep[id].rate <= dep[id].spent6)'
    BY <2>2, <2>3, <1>9, <1>10, <1>13
  <2>5. enclave[e].exists
    BY <1>6, AddressesOf DEF IInv, OperatorsExist
  <2>6. e # NoEnclave /\ a # NoAddr
    BY EnclaveAssumption, AddressesOf
  <2> QED
    BY <2>1, <2>4, <2>5, <2>6, <1>6, <1>10, <1>12, <1>13, <1>14, <1>15 DEF RecordAt
<1> QED
  BY <1>6, <1>13, <1>14, <1>15, <1>16, <1>17, OneRecord

\* A renewal adds whole paid seconds to a lease that has not lapsed.
LEMMA RenewKeeps ==
    ASSUME IInv, NEW a \in Addresses, NEW id \in Ids, renew(a, id)
    PROVE  IInv'
<1>1. /\ TypeOK /\ RecordAt(id) /\ dep[id] \in Deployment /\ now \in Nat
      /\ provenUntil[id] \in Nat /\ dep[id].leaseUntil \in Nat
      /\ dep[id].rate \in Nat /\ dep[id].spent6 \in Nat
  BY AtEveryRecord DEF IInv, TypeOK, Deployment
<1> DEFINE L == dep[id].leaseUntil
           d == _burnLease(dep[id], L)
           m == _creditRunner(id, provenUntil[id])
           n == BurnSecs(dep[id])
           r == dep[id].rate
<1>2. /\ m \in Earn /\ m.creditedUntil <= Min2(now, L)
      /\ earned6' \in [Addresses -> Nat]
  <2>1. earned6' = CreditOperator(id, provenUntil[id])
    BY DEF renew
  <2> QED
    BY <2>1, <1>1, CreditFacts DEF RecordAt
<1>3. /\ d \in Deployment /\ n \in Nat
      /\ d.spent6 = dep[id].spent6 + n * r /\ n * r \in Nat
      /\ d.leaseUntil = (IF r = 0 THEN now ELSE L) + n
      /\ d.rate = r /\ d.runner = dep[id].runner
      /\ d.runnerOperator = dep[id].runnerOperator
  BY <1>1, BurnFacts
<1>4. /\ id \in ids /\ now <= L /\ n > 0
      /\ dep' = [dep EXCEPT ![id] = d] /\ earn' = [earn EXCEPT ![id] = m]
      /\ UNCHANGED <<enclave, now, ids, fee, maxRate6, ownerEscrow6, provenUntil,
                     bond, usdcHeld, cfg>>
  BY <1>1 DEF renew, _requireActive, Lapsed
<1>5. UnservedSecs(dep[id]) = L - now
  BY <1>1, <1>4 DEF UnservedSecs
<1>6. (L - now) * r <= dep[id].spent6
  BY <1>1, <1>5 DEF RecordAt
<1> HIDE DEF d, m, n
<1>7. /\ dep' \in [Ids -> Deployment] /\ dep'[id] = d
      /\ \A i \in Ids : i # id => dep'[i] = dep[i]
  BY <1>1, <1>3, <1>4, DepUpdate
<1>8. /\ earn' \in [Ids -> Earn] /\ earn'[id] = m
      /\ \A i \in Ids : i # id => earn'[i] = earn[i]
  BY <1>1, <1>2, <1>4, EarnUpdate
<1>9. TypeOK'
  BY <1>1, <1>2, <1>4, <1>7, <1>8 DEF TypeOK, RegistryTypeOK
<1>10. d.leaseUntil >= now /\ d.leaseUntil \in Nat
  BY <1>1, <1>3, <1>4
<1>11. (UnservedSecs(dep[id]) * dep[id].rate <= dep[id].spent6)'
  <2>1. CASE r = 0
    <3>1. UnservedSecs(dep[id])' \in Nat
      BY <1>1, <1>4, <1>7, <1>10 DEF UnservedSecs
    <3>2. dep'[id].rate = 0 /\ dep'[id].spent6 \in Nat
      BY <2>1, <1>3, <1>7 DEF Deployment
    <3> QED
      BY <3>1, <3>2
  <2>2. CASE r # 0
    <3> DEFINE u == L - now
    <3>1. UnservedSecs(dep[id])' = u + n
      BY <2>2, <1>1, <1>3, <1>4, <1>7 DEF UnservedSecs
    <3>2. u \in Int /\ r \in Int /\ n \in Int
      BY <1>1, <1>3
    <3>3. u * r <= dep[id].spent6
      BY <1>6
    <3>4. dep'[id].rate = r /\ dep'[id].spent6 = dep[id].spent6 + n * r
      BY <1>3, <1>7
    <3>5. dep[id].spent6 \in Nat /\ n * r \in Nat
      BY <1>1, <1>3
    <3> HIDE DEF u, L, r
    <3>6. (u + n) * r = u * r + n * r
      BY <3>2, MulSplit
    <3>7. u * r \in Int
      BY <3>2
    <3> DEFINE x == u * r
               y == n * r
               z == (u + n) * r
    <3>8. z <= dep[id].spent6 + y
      <4>1. z = x + y /\ x \in Int /\ y \in Nat /\ x <= dep[id].spent6
        BY <3>3, <3>5, <3>6, <3>7
      <4> HIDE DEF x, y, z
      <4> QED
        BY <4>1, <3>5
    <3> QED
      BY <3>1, <3>4, <3>8
  <2> QED
    BY <2>1, <2>2
<1>12. RecordAt(id)'
  <2>1. Min2(now, d.leaseUntil) = now
    BY <1>1, <1>10 DEF Min2
  <2>2. m.creditedUntil <= now /\ provenUntil[id] <= now
    BY <1>1, <1>2, <1>4 DEF Min2, RecordAt, Earn
  <2>3. dep[id].runner # NoEnclave
    <3>1. dep[id].runnerOperator # NoAddr
      BY AddressesOf DEF renew
    <3> QED
      BY <3>1, <1>1 DEF RecordAt
  <2> QED
    BY <2>1, <2>2, <2>3, <1>1, <1>3, <1>4, <1>7, <1>8, <1>11 DEF RecordAt
<1> QED
  BY <1>4, <1>7, <1>8, <1>9, <1>12, OneRecord

\* A release hands back what was paid for the unserved tail and goes idle.
LEMMA ReleaseKeeps ==
    ASSUME IInv, NEW a \in Addresses, NEW id \in Ids, release(a, id)
    PROVE  IInv'
<1>1. /\ TypeOK /\ RecordAt(id) /\ dep[id] \in Deployment /\ now \in Nat
      /\ provenUntil[id] \in Nat
      /\ UnservedSecs(dep[id]) * dep[id].rate <= dep[id].spent6
  BY AtEveryRecord DEF IInv, TypeOK, RecordAt
<1> DEFINE t == ReturnTail(dep[id])
           d1 == [t EXCEPT !.runner = NoEnclave]
           d2 == [d1 EXCEPT !.runnerOperator = NoAddr]
           d == [d2 EXCEPT !.leaseUntil = 0]
           c == _creditRunner(id, provenUntil[id])
           m == [c EXCEPT !.creditedUntil = 0]
<1>2. t \in Deployment
  BY <1>1, ReturnFacts
<1>3. c \in Earn /\ earned6' \in [Addresses -> Nat]
  <2>1. earned6' = CreditOperator(id, provenUntil[id])
    BY DEF release
  <2> QED
    BY <2>1, <1>1, CreditFacts DEF RecordAt
<1>4. /\ id \in ids
      /\ provenUntil' = [provenUntil EXCEPT ![id] = 0]
      /\ UNCHANGED <<enclave, now, ids, fee, maxRate6, ownerEscrow6, bond,
                     usdcHeld, cfg>>
  BY DEF release
<1>5. dep' = [dep EXCEPT ![id] = d]
  BY Zenon DEF release
<1>6. earn' = [earn EXCEPT ![id] = m]
  BY DEF release
<1> HIDE DEF t, c
<1>7. d.runner = NoEnclave /\ d.runnerOperator = NoAddr /\ d.leaseUntil = 0
      /\ d.spent6 = t.spent6 /\ d.rate = t.rate
  BY <1>2, SMT DEF Deployment
<1>8. d \in Deployment
  <2>1. d1 \in Deployment
    BY <1>2, WithRunner
  <2>2. d2 \in Deployment
    <3> HIDE DEF d1
    <3> QED BY <2>1, WithOperator
  <2> HIDE DEF d2
  <2> QED
    BY <2>2, WithLease
<1>9. m \in Earn /\ m.creditedUntil = 0
  BY <1>3, SMT DEF Earn
<1>10. d.rate \in Nat /\ d.spent6 \in Nat
  <2> HIDE DEF d
  <2> QED
    BY <1>8 DEF Deployment
<1> HIDE DEF d, m
<1>11. /\ dep' \in [Ids -> Deployment] /\ dep'[id] = d
       /\ \A i \in Ids : i # id => dep'[i] = dep[i]
  BY <1>1, <1>5, <1>8, DepUpdate
<1>12. /\ earn' \in [Ids -> Earn] /\ earn'[id] = m
       /\ \A i \in Ids : i # id => earn'[i] = earn[i]
  BY <1>1, <1>6, <1>9, EarnUpdate
<1>13. /\ provenUntil' \in [Ids -> Nat] /\ provenUntil'[id] = 0
       /\ \A i \in Ids : i # id => provenUntil'[i] = provenUntil[i]
  BY <1>1, <1>4 DEF TypeOK
<1>14. TypeOK'
  BY <1>1, <1>3, <1>4, <1>11, <1>12, <1>13 DEF TypeOK, RegistryTypeOK
<1>15. RecordAt(id)'
  <2>1. UnservedSecs(dep[id])' = 0 /\ Min2(now, 0) = 0
    BY <1>1, <1>4, <1>7, <1>11 DEF UnservedSecs, Min2
  <2>2. (UnservedSecs(dep[id]) * dep[id].rate <= dep[id].spent6)'
    BY <2>1, <1>10, <1>11
  <2> QED
    BY <2>1, <2>2, <1>4, <1>7, <1>9, <1>11, <1>12, <1>13 DEF RecordAt
<1> QED
  BY <1>4, <1>11, <1>12, <1>13, <1>14, <1>15, OneRecord

\* A resize of a live lease re-buys at most its own tail at the new rate.
LEMMA SetSharesKeeps ==
    ASSUME IInv, NEW a \in Users, NEW id \in Ids, NEW shares \in ShareChoices,
           setShares(a, id, shares)
    PROVE  IInv'
<1>1. /\ TypeOK /\ RecordAt(id) /\ dep[id] \in Deployment /\ now \in Nat
      /\ fee[id] \in Nat /\ provenUntil[id] \in Nat /\ maxRate6[id] \in Nat
      /\ UnservedSecs(dep[id]) * dep[id].rate <= dep[id].spent6
  BY AtEveryRecord DEF IInv, TypeOK, RecordAt
<1>2. dep[id].leaseUntil \in Nat /\ dep[id].rate \in Nat /\ dep[id].spent6 \in Nat
      /\ dep[id].runner \in Enclaves \cup {NoEnclave}
  BY <1>1, SMT DEF Deployment
<1>3. shares[1] \in Milli /\ shares[2] \in Milli
  BY InputAssumption
<1> DEFINE r == _resizeRate(id, shares[1], shares[2])
           t == Rebuy(dep[id], r)
           n == _snapRunnerRate(r, fee[id])
           c == _creditRunner(id, provenUntil[id])
           d1 == [t EXCEPT !.gpuMilli = shares[1]]
           d2 == [d1 EXCEPT !.cpuMilli = shares[2]]
           d == [d2 EXCEPT !.rate = r]
           m == [c EXCEPT !.rate6 = n]
<1>4. /\ id \in ids /\ CanSnap(r, fee[id])
      /\ dep[id].leaseUntil > now => RebuySecs(dep[id], r) > 0
      /\ UNCHANGED <<enclave, now, ids, fee, maxRate6, ownerEscrow6,
                     provenUntil, bond, usdcHeld, cfg>>
  BY DEF setShares, _requireOwned
<1>5. r \in Nat
  <2>1. CASE \/ dep[id].leaseUntil <= now
             \/ enclave[dep[id].runner].operator = NoAddr
    BY <2>1, <1>1, <1>2 DEF _resizeRate, _unleasedRate
  <2>2. CASE ~(\/ dep[id].leaseUntil <= now
               \/ enclave[dep[id].runner].operator = NoAddr)
    <3>1. dep[id].runner \in Enclaves
      BY <2>2, <1>1, <1>2 DEF RecordAt
    <3> DEFINE h == _hostRate(enclave[dep[id].runner], dep[id], shares[1], shares[2])
    <3>2. h \in Nat
      BY <3>1, <1>1, <1>3, RateFacts
    <3>3. r = h + fee[id]
      BY <2>2 DEF _resizeRate
    <3> HIDE DEF h, r
    <3> QED
      BY <3>2, <3>3, <1>1
  <2> QED
    BY <2>1, <2>2
<1>6. /\ n \in Nat
      /\ c \in Earn /\ c.creditedUntil <= Min2(now, dep[id].leaseUntil)
      /\ earned6' \in [Addresses -> Nat]
  <2>1. earned6' = CreditOperator(id, provenUntil[id])
    BY DEF setShares
  <2>2. n \in Nat
    <3> HIDE DEF r
    <3> QED
      BY <1>1, <1>4, <1>5, SnapNat
  <2> QED
    BY <2>1, <2>2, <1>1, CreditFacts DEF RecordAt
<1>7. dep' = [dep EXCEPT ![id] = d]
  BY Zenon DEF setShares
<1>8. earn' = [earn EXCEPT ![id] = m]
  BY DEF setShares
<1> HIDE DEF r
<1>9. /\ t \in Deployment /\ RebuySecs(dep[id], r) \in Nat
      /\ dep[id].leaseUntil > now =>
             /\ t.leaseUntil = now + RebuySecs(dep[id], r)
             /\ RebuySecs(dep[id], r) * r <= t.spent6
  BY <1>1, <1>5, RebuyFacts
<1>10. /\ ~(dep[id].leaseUntil > now) => t = dep[id]
       /\ t.runner = dep[id].runner /\ t.runnerOperator = dep[id].runnerOperator
  <2>1. CASE dep[id].leaseUntil > now
    <3> DEFINE u == ReturnTail(dep[id])
               b == u.balance6 - RebuySecs(dep[id], r) * r
               s == u.spent6 + RebuySecs(dep[id], r) * r
               l == now + RebuySecs(dep[id], r)
    <3>1. t = [u EXCEPT !.balance6 = b, !.spent6 = s, !.leaseUntil = l]
      BY <2>1 DEF Rebuy
    <3>2. /\ u \in Deployment /\ u.runner = dep[id].runner
          /\ u.runnerOperator = dep[id].runnerOperator
      BY <1>1, ReturnFacts
    <3> HIDE DEF t, u, b, s, l
    <3>3. t.runner = u.runner /\ t.runnerOperator = u.runnerOperator
      BY <3>1, <3>2, SMT DEF Deployment
    <3> QED
      BY <2>1, <3>2, <3>3
  <2>2. CASE ~(dep[id].leaseUntil > now)
    BY <2>2 DEF Rebuy
  <2> QED
    BY <2>1, <2>2
<1> HIDE DEF t, n, c
<1>11. /\ d.runner = t.runner /\ d.runnerOperator = t.runnerOperator
       /\ d.leaseUntil = t.leaseUntil /\ d.spent6 = t.spent6 /\ d.rate = r
  BY <1>9, SMT DEF Deployment
<1>12. d \in Deployment
  <2>1. d1 \in Deployment
    BY <1>3, <1>9, WithShares
  <2>2. d2 \in Deployment
    <3> HIDE DEF d1
    <3> QED BY <2>1, <1>3, WithShares
  <2> HIDE DEF d2
  <2> QED
    BY <2>2, <1>5, WithRate
<1>13. m \in Earn /\ m.creditedUntil = c.creditedUntil
  BY <1>6, SMT DEF Earn
<1> HIDE DEF d, m
<1>14. /\ dep' \in [Ids -> Deployment] /\ dep'[id] = d
       /\ \A i \in Ids : i # id => dep'[i] = dep[i]
  BY <1>1, <1>7, <1>12, DepUpdate
<1>15. /\ earn' \in [Ids -> Earn] /\ earn'[id] = m
       /\ \A i \in Ids : i # id => earn'[i] = earn[i]
  BY <1>1, <1>8, <1>13, EarnUpdate
<1>16. TypeOK'
  BY <1>1, <1>4, <1>6, <1>14, <1>15 DEF TypeOK, RegistryTypeOK
<1>17. c.creditedUntil \in Nat /\ d.spent6 \in Nat
  BY <1>6, <1>12 DEF Earn, Deployment
<1>18. RecordAt(id)'
  <2>1. CASE dep[id].leaseUntil > now
    <3>1. /\ d.leaseUntil = now + RebuySecs(dep[id], r) /\ d.leaseUntil > now
          /\ Min2(now, d.leaseUntil) = now
      BY <2>1, <1>1, <1>4, <1>9, <1>11 DEF Min2
    <3>2. UnservedSecs(dep[id])' = RebuySecs(dep[id], r)
      BY <3>1, <1>1, <1>4, <1>9, <1>14 DEF UnservedSecs
    <3>3. (UnservedSecs(dep[id]) * dep[id].rate <= dep[id].spent6)'
      BY <3>2, <2>1, <1>9, <1>11, <1>14
    <3>4. m.creditedUntil <= now /\ provenUntil[id] <= now
      BY <2>1, <1>1, <1>2, <1>6, <1>13 DEF Min2, RecordAt
    <3>5. dep[id].runner # NoEnclave
      BY <2>1, <1>1 DEF RecordAt
    <3> QED
      BY <3>1, <3>3, <3>4, <3>5, <1>1, <1>4, <1>10, <1>11, <1>14, <1>15 DEF RecordAt
  <2>2. CASE ~(dep[id].leaseUntil > now)
    <3>1. /\ d.leaseUntil = dep[id].leaseUntil /\ d.spent6 = dep[id].spent6
      BY <2>2, <1>10, <1>11
    <3>2. UnservedSecs(dep[id])' = 0
      BY <2>2, <3>1, <1>4, <1>14 DEF UnservedSecs
    <3>3. (UnservedSecs(dep[id]) * dep[id].rate <= dep[id].spent6)'
      BY <3>2, <1>5, <1>11, <1>14, <1>17
    <3> QED
      BY <3>1, <3>3, <1>1, <1>4, <1>6, <1>10, <1>11, <1>13, <1>14, <1>15 DEF RecordAt
  <2> QED
    BY <2>1, <2>2
<1> QED
  BY <1>4, <1>14, <1>15, <1>16, <1>18, OneRecord

-----------------------------------------------------------------------------
(* Payouts, bonds, parameters and the registry                               *)

\* A call that keeps the types and touches no record's lease or meter.
LEMMA NoRecord ==
    ASSUME IInv, TypeOK', UNCHANGED <<enclave, now, ids, dep, earn, provenUntil>>
    PROVE  IInv'
BY DEF IInv, OperatorsExist, OnlyRecordsLeased, RunnerIsPayable,
       MeterInsideLease, TailIsPaid, RunnerIsRegistered, UnservedSecs

\* withdrawEarnings empties one operator's earnings.
LEMMA WithdrawEarningsKeeps ==
    ASSUME IInv, NEW a \in Addresses, withdrawEarnings(a)
    PROVE  IInv'
<1>1. TypeOK
  BY DEF IInv
<1>2. /\ earned6' = [earned6 EXCEPT ![a] = 0]
      /\ usdcHeld' = usdcHeld - earned6[a]
      /\ UNCHANGED <<enclave, now, recordVars, bond, cfg>>
  BY DEF withdrawEarnings
<1>3. earned6' \in [Addresses -> Nat] /\ usdcHeld' \in Int
  BY <1>1, <1>2 DEF TypeOK
<1>4. TypeOK'
  BY <1>1, <1>2, <1>3 DEF TypeOK, RegistryTypeOK, recordVars
<1> QED
  BY <1>2, <1>4, NoRecord DEF recordVars

\* refund settles the meter, then pays out what the lease cannot earn.
LEMMA RefundKeeps ==
    ASSUME IInv, NEW a \in Addresses, NEW id \in Ids, refund(a, id)
    PROVE  IInv'
<1>1. /\ TypeOK /\ RecordAt(id) /\ dep[id] \in Deployment
      /\ provenUntil[id] \in Nat /\ ownerEscrow6[id] \in Nat /\ now \in Nat
      /\ dep[id].leaseUntil \in Nat
  BY AtEveryRecord DEF IInv, TypeOK, Deployment
<1> DEFINE c == _creditRunner(id, provenUntil[id])
           amt == refundableOf(dep[id], c, ownerEscrow6[id])
           left == c.escrow6 - amt
           m == [c EXCEPT !.escrow6 = left]
           d1 == [dep[id] EXCEPT !.balance6 = 0]
           d == [d1 EXCEPT !.active = FALSE]
<1>2. /\ c \in Earn /\ c.creditedUntil <= Min2(now, dep[id].leaseUntil)
      /\ earned6' \in [Addresses -> Nat]
  <2>1. earned6' = CreditOperator(id, provenUntil[id])
    BY DEF refund
  <2> QED
    BY <2>1, <1>1, CreditFacts DEF RecordAt
<1>3. /\ id \in ids
      /\ ownerEscrow6' = [ownerEscrow6 EXCEPT ![id] = @ - amt]
      /\ usdcHeld' = usdcHeld - amt
      /\ UNCHANGED <<enclave, now, ids, fee, maxRate6, provenUntil, bond, cfg>>
  BY DEF refund
<1>4. dep' = [dep EXCEPT ![id] = d]
  BY Zenon DEF refund
<1>5. earn' = [earn EXCEPT ![id] = m]
  BY DEF refund
<1> HIDE DEF c
<1>6. amt \in Nat /\ amt <= ownerEscrow6[id] /\ amt <= c.escrow6
  BY <1>1, <1>2, RefundFacts
<1> HIDE DEF amt
<1>7. left \in Nat /\ c.creditedUntil \in Nat
  BY <1>2, <1>6 DEF Earn
<1> HIDE DEF left
<1>8. m \in Earn /\ m.creditedUntil = c.creditedUntil
  BY <1>2, <1>7, SMT DEF Earn
<1>9. d \in Deployment
  <2>1. d1 \in Deployment
    BY <1>1, WithBalance
  <2> HIDE DEF d1
  <2> QED
    BY <2>1, WithActive
<1>10. /\ d.runner = dep[id].runner /\ d.runnerOperator = dep[id].runnerOperator
       /\ d.leaseUntil = dep[id].leaseUntil /\ d.spent6 = dep[id].spent6
       /\ d.rate = dep[id].rate
  BY <1>1, SMT DEF Deployment
<1> HIDE DEF d, m
<1>11. /\ dep' \in [Ids -> Deployment] /\ dep'[id] = d
       /\ \A i \in Ids : i # id => dep'[i] = dep[i]
  BY <1>1, <1>4, <1>9, DepUpdate
<1>12. /\ earn' \in [Ids -> Earn] /\ earn'[id] = m
       /\ \A i \in Ids : i # id => earn'[i] = earn[i]
  BY <1>1, <1>5, <1>8, EarnUpdate
<1>13. ownerEscrow6' \in [Ids -> Nat] /\ usdcHeld' \in Int
  BY <1>1, <1>3, <1>6 DEF TypeOK
<1>14. TypeOK'
  BY <1>1, <1>2, <1>3, <1>11, <1>12, <1>13 DEF TypeOK, RegistryTypeOK
<1>15. RecordAt(id)'
  BY <1>1, <1>2, <1>3, <1>8, <1>10, <1>11, <1>12 DEF RecordAt, UnservedSecs
<1> QED
  BY <1>3, <1>11, <1>12, <1>14, <1>15, OneRecord

\* sweepEscrow settles the meter, then takes all that is left.
LEMMA SweepEscrowKeeps ==
    ASSUME IInv, NEW a \in Addresses, NEW id \in Ids, sweepEscrow(a, id)
    PROVE  IInv'
<1>1. /\ TypeOK /\ RecordAt(id) /\ provenUntil[id] \in Nat /\ usdcHeld \in Int
  BY AtEveryRecord DEF IInv, TypeOK
<1> DEFINE c == _creditRunner(id, provenUntil[id])
           m == [c EXCEPT !.escrow6 = 0]
<1>2. /\ c \in Earn /\ c.creditedUntil <= Min2(now, dep[id].leaseUntil)
      /\ earned6' \in [Addresses -> Nat]
  <2>1. earned6' = CreditOperator(id, provenUntil[id])
    BY DEF sweepEscrow
  <2> QED
    BY <2>1, <1>1, CreditFacts DEF RecordAt
<1>3. /\ earn' = [earn EXCEPT ![id] = m]
      /\ usdcHeld' = usdcHeld - c.escrow6
      /\ UNCHANGED <<enclave, now, ids, dep, fee, maxRate6, ownerEscrow6,
                     provenUntil, bond, cfg>>
  BY DEF sweepEscrow
<1> HIDE DEF c
<1>4. m \in Earn /\ m.creditedUntil = c.creditedUntil /\ c.escrow6 \in Nat
  BY <1>2, SMT DEF Earn
<1> HIDE DEF m
<1>5. /\ earn' \in [Ids -> Earn] /\ earn'[id] = m
      /\ \A i \in Ids : i # id => earn'[i] = earn[i]
  BY <1>1, <1>3, <1>4, EarnUpdate
<1>6. usdcHeld' \in Int
  BY <1>1, <1>3, <1>4
<1>7. TypeOK'
  BY <1>1, <1>2, <1>3, <1>5, <1>6 DEF TypeOK, RegistryTypeOK
<1>8. RecordAt(id)'
  BY <1>1, <1>2, <1>3, <1>4, <1>5 DEF RecordAt, UnservedSecs
<1> QED
  BY <1>3, <1>5, <1>7, <1>8, OneRecord

\* A bond call touches no record.
LEMMA BondStepKeeps == ASSUME IInv, BondStep PROVE IInv'
<1>1. PICK a \in Operators :
          \/ \E v \in FundAmounts : postBond(a, v)
          \/ requestBondExit(a)
          \/ withdrawBond(a)
          \/ \E b \in Addresses, v \in FundAmounts : slashBond(b, a, v)
  BY DEF BondStep
<1>2. /\ TypeOK /\ a \in Addresses /\ bond[a] \in Bond /\ usdcHeld \in Int
      /\ now \in Nat
  BY AddressesOf DEF IInv, TypeOK
<1>3. /\ bond[a].amount6 \in Nat /\ bond[a].exitAt \in Nat
      /\ cfg.bondExitDelay \in Nat
  BY <1>2 DEF Bond, TypeOK, Config
<1>4. /\ \E b \in Bond : bond' = [bond EXCEPT ![a] = b]
      /\ usdcHeld' \in Int
      /\ UNCHANGED <<enclave, now, recordVars, earned6, cfg>>
  <2>1. CASE \E v \in FundAmounts : postBond(a, v)
    <3>1. PICK v \in FundAmounts : postBond(a, v)
      BY <2>1
    <3> DEFINE n == bond[a].amount6 + v
    <3>2. v \in Nat /\ n \in Nat
      BY <1>3, InputAssumption
    <3>3. /\ bond' = [bond EXCEPT ![a] = [amount6 |-> n, exitAt |-> 0]]
          /\ usdcHeld' = usdcHeld + v
          /\ UNCHANGED <<enclave, now, recordVars, earned6, cfg>>
      BY <3>1 DEF postBond
    <3> HIDE DEF n
    <3> DEFINE nb == [amount6 |-> n, exitAt |-> 0]
    <3>4. nb \in Bond /\ bond' = [bond EXCEPT ![a] = nb]
      BY <3>2, <3>3 DEF Bond
    <3>5. usdcHeld' \in Int
      BY <1>2, <3>2, <3>3
    <3> HIDE DEF nb
    <3> QED
      BY <3>3, <3>4, <3>5
  <2>2. CASE requestBondExit(a)
    <3> DEFINE x == now + cfg.bondExitDelay
    <3>1. /\ bond' = [bond EXCEPT ![a] = [bond[a] EXCEPT !.exitAt = x]]
          /\ UNCHANGED <<enclave, now, recordVars, earned6, usdcHeld, cfg>>
      BY <2>2 DEF requestBondExit
    <3>2. x \in Nat
      BY <1>2, <1>3
    <3> HIDE DEF x
    <3>3. [bond[a] EXCEPT !.exitAt = x] \in Bond
      BY <1>2, <3>2, SMT DEF Bond
    <3> QED
      BY <1>2, <3>1, <3>3
  <2>3. CASE withdrawBond(a)
    <3>1. /\ bond' = [bond EXCEPT ![a] = [amount6 |-> 0, exitAt |-> 0]]
          /\ usdcHeld' = usdcHeld - bond[a].amount6
          /\ UNCHANGED <<enclave, now, recordVars, earned6, cfg>>
      BY <2>3 DEF withdrawBond
    <3> DEFINE nb == [amount6 |-> 0, exitAt |-> 0]
    <3>2. nb \in Bond /\ bond' = [bond EXCEPT ![a] = nb]
      BY <3>1 DEF Bond
    <3>3. usdcHeld' \in Int
      BY <1>2, <1>3, <3>1
    <3> HIDE DEF nb
    <3> QED
      BY <3>1, <3>2, <3>3
  <2>4. CASE \E b \in Addresses, v \in FundAmounts : slashBond(b, a, v)
    <3>1. PICK b \in Addresses, v \in FundAmounts : slashBond(b, a, v)
      BY <2>4
    <3> DEFINE n == bond[a].amount6 - v
    <3>2. v \in Nat /\ n \in Nat
      BY <1>3, <3>1, InputAssumption DEF slashBond
    <3>3. /\ bond' = [bond EXCEPT ![a] = [bond[a] EXCEPT !.amount6 = n]]
          /\ usdcHeld' = usdcHeld - v
          /\ UNCHANGED <<enclave, now, recordVars, earned6, cfg>>
      BY <3>1 DEF slashBond
    <3> HIDE DEF n
    <3> DEFINE nb == [bond[a] EXCEPT !.amount6 = n]
    <3>4. nb \in Bond /\ bond' = [bond EXCEPT ![a] = nb]
      BY <1>2, <3>2, <3>3, SMT DEF Bond
    <3>5. usdcHeld' \in Int
      BY <1>2, <3>2, <3>3
    <3> HIDE DEF nb
    <3> QED
      BY <3>3, <3>4, <3>5
  <2> QED
    BY <1>1, <2>1, <2>2, <2>3, <2>4
<1>5. bond' \in [Addresses -> Bond]
  BY <1>2, <1>4 DEF TypeOK
<1>6. TypeOK'
  BY <1>2, <1>4, <1>5 DEF TypeOK, RegistryTypeOK, recordVars
<1> QED
  BY <1>4, <1>6, NoRecord DEF recordVars

\* A step that only changes a parameter within its type preserves IInv.
LEMMA ConfigKeeps ==
    ASSUME IInv, cfg' \in Config, UNCHANGED <<enclave, now, recordVars, moneyVars>>
    PROVE  IInv'
<1>1. TypeOK'
  BY DEF IInv, TypeOK, RegistryTypeOK, recordVars, moneyVars
<1> QED
  BY <1>1, NoRecord DEF recordVars

\* What the admin sets takes effect at a later call, never on a stored lease.
LEMMA PolicyStepKeeps == ASSUME IInv, PolicyStep PROVE IInv'
<1>1. cfg \in Config
  BY DEF IInv, TypeOK
<1>2. UNCHANGED <<enclave, now, recordVars, moneyVars>>
  BY DEF PolicyStep, setRunnerBps, setClaimBond, setProofRequiredFrom,
         setLeaseSec, setProver, SetCfg
<1>3. PICK a \in Addresses :
          \/ \E bps \in BpsChoices : setRunnerBps(a, bps)
          \/ \E b \in BondChoices, delay \in ExitDelayChoices :
                 setClaimBond(a, b, delay)
          \/ \E at \in CutoverChoices : setProofRequiredFrom(a, at)
          \/ \E x \in LeaseSecChoices : setLeaseSec(a, x)
          \/ setProver(a)
  BY DEF PolicyStep
<1>4. CASE \E bps \in BpsChoices : setRunnerBps(a, bps)
  <2>1. PICK bps \in BpsChoices : cfg' = [cfg EXCEPT !.runnerBps = bps]
    BY <1>4 DEF setRunnerBps, SetCfg
  <2>2. cfg' \in Config
    BY <1>1, <2>1, AdminAssumption, SMT DEF Config
  <2> QED
    BY <1>2, <2>2, ConfigKeeps
<1>5. CASE \E b \in BondChoices, delay \in ExitDelayChoices : setClaimBond(a, b, delay)
  <2>1. PICK b \in BondChoices, delay \in ExitDelayChoices :
            cfg' = [cfg EXCEPT !.claimBond6 = b, !.bondExitDelay = delay]
    BY <1>5 DEF setClaimBond, SetCfg
  <2> DEFINE c1 == [cfg EXCEPT !.claimBond6 = b]
  <2>2. c1 \in Config /\ cfg' = [c1 EXCEPT !.bondExitDelay = delay]
    <3>1. b \in Nat
      BY AdminAssumption
    <3>2. c1 \in Config
      BY <1>1, <3>1, SMT DEF Config
    <3> QED
      BY <2>1, <3>2, Zenon
  <2>3. delay \in Nat \ {0}
    BY AdminAssumption
  <2> HIDE DEF c1
  <2>4. cfg' \in Config
    BY <2>2, <2>3, SMT DEF Config
  <2> QED
    BY <1>2, <2>4, ConfigKeeps
<1>6. CASE \E at \in CutoverChoices : setProofRequiredFrom(a, at)
  <2>1. PICK at \in CutoverChoices : cfg' = [cfg EXCEPT !.proofRequiredFrom = at]
    BY <1>6 DEF setProofRequiredFrom, SetCfg
  <2>2. cfg' \in Config
    BY <1>1, <2>1, AdminAssumption, SMT DEF Config
  <2> QED
    BY <1>2, <2>2, ConfigKeeps
<1>7. CASE \E x \in LeaseSecChoices : setLeaseSec(a, x)
  <2>1. PICK x \in LeaseSecChoices : cfg' = [cfg EXCEPT !.leaseSec = x]
    BY <1>7 DEF setLeaseSec, SetCfg
  <2>2. cfg' \in Config
    BY <1>1, <2>1, AdminAssumption, SMT DEF Config
  <2> QED
    BY <1>2, <2>2, ConfigKeeps
<1>8. CASE setProver(a)
  <2>1. cfg' = [cfg EXCEPT !.prover = TRUE]
    BY <1>8 DEF setProver, SetCfg
  <2>2. \A on \in BOOLEAN : [cfg EXCEPT !.prover = on] \in Config
    BY <1>1, SMT DEF Config
  <2>3. cfg' \in Config
    BY <2>1, <2>2, Zenon
  <2> QED
    BY <1>2, <2>3, ConfigKeeps
<1> QED
  BY <1>3, <1>4, <1>5, <1>6, <1>7, <1>8

\* Gates, payout and ownership touch no lease either.
LEMMA GovernanceStepKeeps == ASSUME IInv, GovernanceStep PROVE IInv'
<1>1. cfg \in Config
  BY DEF IInv, TypeOK
<1>2. UNCHANGED <<enclave, now, recordVars, moneyVars>>
  BY DEF GovernanceStep, retire, setMaxGpuMilli, setMaxFee, setEthUsdFeed,
         setPayout, setOwner, acceptOwnership, SetCfg
<1>3. cfg' \in Config
  <2>1. PICK a \in Addresses :
            \/ cfg' = [cfg EXCEPT !.retired = TRUE]
            \/ \E m \in MaxGpuChoices : cfg' = [cfg EXCEPT !.maxGpuMilli = m]
            \/ \E f \in MaxFeeChoices : cfg' = [cfg EXCEPT !.maxFeePerSec6 = f]
            \/ \E on \in BOOLEAN : cfg' = [cfg EXCEPT !.ethUsdFeed = on]
            \/ \E p \in Addresses : cfg' = [cfg EXCEPT !.payout = p]
            \/ \E o \in Addresses : cfg' = [cfg EXCEPT !.pendingOwner = o]
            \/ acceptOwnership(a)
    BY DEF GovernanceStep, retire, setMaxGpuMilli, setMaxFee, setEthUsdFeed,
           setPayout, setOwner, SetCfg
  <2>2. CASE acceptOwnership(a)
    <3> DEFINE c1 == [cfg EXCEPT !.owner = a]
    <3>1. cfg' = [cfg EXCEPT !.owner = a, !.pendingOwner = NoAddr]
      BY <2>2 DEF acceptOwnership
    <3>2. c1 \in Config /\ cfg' = [c1 EXCEPT !.pendingOwner = NoAddr]
      <4>1. c1 \in Config
        BY <1>1, SMT DEF Config
      <4> QED
        BY <3>1, <4>1, Zenon
    <3> HIDE DEF c1
    <3> QED
      BY <3>2, SMT DEF Config
  <2>3. CASE cfg' = [cfg EXCEPT !.retired = TRUE]
    <3>1. \A on \in BOOLEAN : [cfg EXCEPT !.retired = on] \in Config
      BY <1>1, SMT DEF Config
    <3> QED
      BY <2>3, <3>1, Zenon
  <2>4. CASE \E m \in MaxGpuChoices : cfg' = [cfg EXCEPT !.maxGpuMilli = m]
    BY <1>1, <2>4, AdminAssumption, SMT DEF Config
  <2>5. CASE \E f \in MaxFeeChoices : cfg' = [cfg EXCEPT !.maxFeePerSec6 = f]
    BY <1>1, <2>5, AdminAssumption, SMT DEF Config
  <2>6. CASE \E on \in BOOLEAN : cfg' = [cfg EXCEPT !.ethUsdFeed = on]
    BY <1>1, <2>6, SMT DEF Config
  <2>7. CASE \E p \in Addresses : cfg' = [cfg EXCEPT !.payout = p]
    BY <1>1, <2>7, SMT DEF Config
  <2>8. CASE \E o \in Addresses : cfg' = [cfg EXCEPT !.pendingOwner = o]
    BY <1>1, <2>8, SMT DEF Config
  <2> QED
    BY <2>1, <2>2, <2>3, <2>4, <2>5, <2>6, <2>7, <2>8
<1> QED
  BY <1>2, <1>3, ConfigKeeps

\* Time only shortens the unserved tail and widens what the meter may reach.
LEMMA TickKeeps == ASSUME IInv, Tick PROVE IInv'
<1>1. TypeOK /\ now \in Nat /\ now' = now + 1
      /\ UNCHANGED <<enclave, recordVars, moneyVars, cfg>>
  BY DEF IInv, TypeOK, Tick
<1>2. TypeOK'
  BY <1>1 DEF TypeOK, RegistryTypeOK, recordVars, moneyVars
<1>3. \A i \in Ids : RecordAt(i)'
  <2> TAKE i \in Ids
  <2>1. /\ RecordAt(i) /\ dep[i].leaseUntil \in Nat /\ dep[i].rate \in Nat
        /\ dep[i].spent6 \in Nat /\ earn[i].creditedUntil \in Nat
        /\ provenUntil[i] \in Nat
    BY <1>1, AtEveryRecord DEF TypeOK, Deployment, Earn
  <2>2. dep' = dep /\ earn' = earn /\ provenUntil' = provenUntil /\ ids' = ids
        /\ enclave' = enclave
    BY <1>1 DEF recordVars
  <2>3. Min2(now, dep[i].leaseUntil) <= Min2(now', dep[i].leaseUntil)
        /\ Min2(now, dep[i].leaseUntil) \in Nat /\ Min2(now', dep[i].leaseUntil) \in Nat
    BY <1>1, <2>1 DEF Min2
  <2>4. (UnservedSecs(dep[i]) * dep[i].rate <= dep[i].spent6)'
    <3> DEFINE u == UnservedSecs(dep[i])
               v == IF dep[i].leaseUntil > now + 1 THEN dep[i].leaseUntil - (now + 1) ELSE 0
               r == dep[i].rate
    <3>1. u \in Nat /\ v \in Nat /\ v <= u /\ r \in Nat
      BY <1>1, <2>1 DEF UnservedSecs
    <3>2. u * r <= dep[i].spent6
      BY <2>1 DEF RecordAt
    <3>3. (UnservedSecs(dep[i]) * dep[i].rate)' = v * r /\ dep'[i].spent6 = dep[i].spent6
      BY <1>1, <2>2 DEF UnservedSecs
    <3> HIDE DEF u, v, r
    <3>4. v * r <= u * r /\ v * r \in Nat /\ u * r \in Nat
      BY <3>1, MulMono, MulNat
    <3> QED
      BY <3>2, <3>3, <3>4, <2>1
  <2> QED
    BY <2>1, <2>2, <2>3, <2>4 DEF RecordAt
<1>4. OperatorsExist'
  BY <1>1 DEF IInv, OperatorsExist
<1> QED
  BY <1>2, <1>3, <1>4 DEF IInv, RecordAt, OnlyRecordsLeased, RunnerIsPayable,
                          MeterInsideLease, TailIsPaid, RunnerIsRegistered

\* Entries stay well formed when one field gets a value of its type.
LEMMA EntryWith ==
    ASSUME NEW n \in Entry
    PROVE  /\ \A on \in BOOLEAN : [n EXCEPT !.exists = on] \in Entry
           /\ \A on \in BOOLEAN : [n EXCEPT !.active = on] \in Entry
           /\ \A a \in Addresses \cup {NoAddr} : [n EXCEPT !.operator = a] \in Entry
           /\ \A p \in Nat : [n EXCEPT !.cpuPricePerSec6 = p] \in Entry
           /\ \A p \in Nat : [n EXCEPT !.gpuPricePerSec6 = p] \in Entry
           /\ \A k \in Keys \cup {NoAddr} : [n EXCEPT !.proofKey = k] \in Entry
           /\ \A a \in Addresses \cup {NoAddr} : [n EXCEPT !.payoutWallet = a] \in Entry
           /\ \A c \in SUBSET {CAP_HOST, CAP_RELAY_ANY} : [n EXCEPT !.caps = c] \in Entry
<1>1. \A on \in BOOLEAN : [n EXCEPT !.exists = on] \in Entry
  BY SMT DEF Entry
<1>2. \A on \in BOOLEAN : [n EXCEPT !.active = on] \in Entry
  BY SMT DEF Entry
<1>3. \A a \in Addresses \cup {NoAddr} : [n EXCEPT !.operator = a] \in Entry
  BY SMT DEF Entry
<1>4. \A p \in Nat : [n EXCEPT !.cpuPricePerSec6 = p] \in Entry
  BY SMT DEF Entry
<1>5. \A p \in Nat : [n EXCEPT !.gpuPricePerSec6 = p] \in Entry
  BY SMT DEF Entry
<1>6. \A k \in Keys \cup {NoAddr} : [n EXCEPT !.proofKey = k] \in Entry
  BY SMT DEF Entry
<1>7. \A a \in Addresses \cup {NoAddr} : [n EXCEPT !.payoutWallet = a] \in Entry
  BY SMT DEF Entry
<1>8. \A c \in SUBSET {CAP_HOST, CAP_RELAY_ANY} : [n EXCEPT !.caps = c] \in Entry
  BY SMT DEF Entry
<1> QED
  BY <1>1, <1>2, <1>3, <1>4, <1>5, <1>6, <1>7, <1>8

\* The step rewrites entry e to n: it stays a box's, and its own operator's.
Rewrites(e, n) ==
    /\ n \in Entry
    /\ enclave' = [enclave EXCEPT ![e] = n]
    /\ n.operator # NoAddr => n.exists
    /\ enclave[e].exists =>
           /\ n.exists
           /\ n.operator = enclave[e].operator
           /\ enclave[e].cpuPricePerSec6 > 0 => n.cpuPricePerSec6 > 0

\* register, registerRelay, setCaps and setProofKey only rewrite one's own entry.
LEMMA JoinRewrites ==
    ASSUME IInv, JoinStep
    PROVE  \E e \in Enclaves, n \in Entry : Rewrites(e, n)
<1>1. PICK a \in Operators, e \in Enclaves :
          \/ \E price \in PriceChoices, key \in Keys \cup {NoAddr} :
                 register(a, e, price, key)
          \/ registerRelay(a, e)
          \/ \E caps \in SUBSET {CAP_HOST, CAP_RELAY_ANY} : setCaps(a, e, caps)
          \/ \E key \in Keys \cup {NoAddr} : setProofKey(a, e, key)
  BY DEF JoinStep
<1> DEFINE o == enclave[e]
<1>2. /\ o \in Entry /\ a \in Addresses \cup {NoAddr}
      /\ o.operator # NoAddr => o.exists
      /\ o.caps \in SUBSET {CAP_HOST, CAP_RELAY_ANY}
  BY AddressesOf DEF IInv, TypeOK, RegistryTypeOK, OperatorsExist, Entry
<1>3. CASE \E price \in PriceChoices, key \in Keys \cup {NoAddr} :
               register(a, e, price, key)
  <2>1. PICK price \in PriceChoices, key \in Keys \cup {NoAddr} :
            register(a, e, price, key)
    BY <1>3
  <2>2. price[1] \in Nat /\ price[2] \in Nat
    BY PriceAssumption
  <2> DEFINE k == o.caps \cup {CAP_HOST}
             n1 == [o EXCEPT !.exists = TRUE]
             n2 == [n1 EXCEPT !.operator = a]
             n3 == [n2 EXCEPT !.active = TRUE]
             n4 == [n3 EXCEPT !.cpuPricePerSec6 = price[1]]
             n5 == [n4 EXCEPT !.gpuPricePerSec6 = price[2]]
             n6 == [n5 EXCEPT !.proofKey = key]
             n == [n6 EXCEPT !.caps = k]
  <2>3. k \in SUBSET {CAP_HOST, CAP_RELAY_ANY}
    BY <1>2
  <2>4. enclave' = [enclave EXCEPT ![e] = n]
    <3>1. enclave' = [enclave EXCEPT ![e] =
              [o EXCEPT !.exists = TRUE, !.operator = a, !.active = TRUE,
                        !.cpuPricePerSec6 = price[1],
                        !.gpuPricePerSec6 = price[2],
                        !.proofKey = key, !.caps = @ \cup {CAP_HOST}]]
      BY <2>1 DEF register
    <3>2. [o EXCEPT !.exists = TRUE, !.operator = a, !.active = TRUE,
                    !.cpuPricePerSec6 = price[1], !.gpuPricePerSec6 = price[2],
                    !.proofKey = key, !.caps = @ \cup {CAP_HOST}] = n
      <4> HIDE DEF o
      <4> QED BY <1>2, SMT DEF Entry
    <3> QED
      BY <3>1, <3>2, Zenon
  <2>5. price[1] > 0 /\ (o.exists => o.operator = a)
    BY <2>1 DEF register, MayRegister
  <2> HIDE DEF k, o
  <2>6. n.exists /\ n.operator = a /\ n.cpuPricePerSec6 = price[1]
    BY <1>2, SMT DEF Entry
  <2>7. n \in Entry
    <3>1. n1 \in Entry
      BY <1>2, EntryWith
    <3>2. n2 \in Entry
      <4> HIDE DEF n1
      <4> QED BY <1>2, <3>1, EntryWith
    <3>3. n3 \in Entry
      <4> HIDE DEF n2
      <4> QED BY <3>2, EntryWith
    <3>4. n4 \in Entry
      <4> HIDE DEF n3
      <4> QED BY <2>2, <3>3, EntryWith
    <3>5. n5 \in Entry
      <4> HIDE DEF n4
      <4> QED BY <2>2, <3>4, EntryWith
    <3>6. n6 \in Entry
      <4> HIDE DEF n5
      <4> QED BY <3>5, EntryWith
    <3> HIDE DEF n6
    <3> QED
      BY <2>3, <3>6, EntryWith
  <2> HIDE DEF n
  <2>8. Rewrites(e, n)
    BY <2>4, <2>5, <2>6, <2>7 DEF Rewrites, o
  <2> QED
    BY <2>7, <2>8
<1>4. CASE registerRelay(a, e)
  <2> DEFINE k == o.caps \cup {CAP_RELAY_ANY}
             n1 == [o EXCEPT !.exists = TRUE]
             n2 == [n1 EXCEPT !.operator = a]
             n3 == [n2 EXCEPT !.active = TRUE]
             n == [n3 EXCEPT !.caps = k]
  <2>1. k \in SUBSET {CAP_HOST, CAP_RELAY_ANY}
    BY <1>2
  <2>2. enclave' = [enclave EXCEPT ![e] = n]
    <3>1. enclave' = [enclave EXCEPT ![e] =
              [o EXCEPT !.exists = TRUE, !.operator = a, !.active = TRUE,
                        !.caps = @ \cup {CAP_RELAY_ANY}]]
      BY <1>4 DEF registerRelay
    <3>2. [o EXCEPT !.exists = TRUE, !.operator = a, !.active = TRUE,
                    !.caps = @ \cup {CAP_RELAY_ANY}] = n
      <4> HIDE DEF o
      <4> QED BY <1>2, SMT DEF Entry
    <3> QED
      BY <3>1, <3>2, Zenon
  <2>3. o.exists => o.operator = a
    BY <1>4 DEF registerRelay, MayRegister
  <2> HIDE DEF k, o
  <2>4. n.exists /\ n.operator = a /\ n.cpuPricePerSec6 = o.cpuPricePerSec6
    BY <1>2, SMT DEF Entry
  <2>5. n \in Entry
    <3>1. n1 \in Entry
      BY <1>2, EntryWith
    <3>2. n2 \in Entry
      <4> HIDE DEF n1
      <4> QED BY <1>2, <3>1, EntryWith
    <3>3. n3 \in Entry
      <4> HIDE DEF n2
      <4> QED BY <3>2, EntryWith
    <3> HIDE DEF n3
    <3> QED
      BY <2>1, <3>3, EntryWith
  <2> HIDE DEF n
  <2>6. Rewrites(e, n)
    BY <2>2, <2>3, <2>4, <2>5 DEF Rewrites, o
  <2> QED
    BY <2>5, <2>6
<1>5. CASE \E caps \in SUBSET {CAP_HOST, CAP_RELAY_ANY} : setCaps(a, e, caps)
  <2>1. PICK caps \in SUBSET {CAP_HOST, CAP_RELAY_ANY} : setCaps(a, e, caps)
    BY <1>5
  <2> DEFINE n == [o EXCEPT !.caps = caps]
  <2>2. n \in Entry
    BY <1>2, EntryWith
  <2>3. enclave' = [enclave EXCEPT ![e] = n]
    BY <2>1 DEF setCaps
  <2> HIDE DEF o
  <2>4. n.exists = o.exists /\ n.operator = o.operator
        /\ n.cpuPricePerSec6 = o.cpuPricePerSec6
    BY <1>2, SMT DEF Entry
  <2> HIDE DEF n
  <2>5. Rewrites(e, n)
    BY <1>2, <2>2, <2>3, <2>4 DEF Rewrites, o
  <2> QED
    BY <2>2, <2>5
<1>6. CASE \E key \in Keys \cup {NoAddr} : setProofKey(a, e, key)
  <2>1. PICK key \in Keys \cup {NoAddr} : setProofKey(a, e, key)
    BY <1>6
  <2> DEFINE n == [o EXCEPT !.proofKey = key]
  <2>2. n \in Entry
    BY <1>2, EntryWith
  <2>3. enclave' = [enclave EXCEPT ![e] = n]
    BY <2>1 DEF setProofKey
  <2> HIDE DEF o
  <2>4. n.exists = o.exists /\ n.operator = o.operator
        /\ n.cpuPricePerSec6 = o.cpuPricePerSec6
    BY <1>2, SMT DEF Entry
  <2> HIDE DEF n
  <2>5. Rewrites(e, n)
    BY <1>2, <2>2, <2>3, <2>4 DEF Rewrites, o
  <2> QED
    BY <2>2, <2>5
<1> QED
  BY <1>1, <1>3, <1>4, <1>5, <1>6

\* setPrices, heartbeat, deregister and the payout-wallet calls likewise.
LEMMA ReannounceRewrites ==
    ASSUME IInv, ReannounceStep
    PROVE  \E e \in Enclaves, n \in Entry : Rewrites(e, n)
<1>1. PICK e \in Enclaves :
          \/ \E a \in Operators, price \in PriceChoices : setPrices(a, e, price)
          \/ \E on \in BOOLEAN : enclave' = [enclave EXCEPT ![e].active = on]
          \/ \E a \in Addresses \cup {NoAddr} :
                 enclave' = [enclave EXCEPT ![e].payoutWallet = a]
  BY DEF ReannounceStep, heartbeat, deregister, setPayoutWallet, clearPayoutWallet
<1> DEFINE o == enclave[e]
<1>2. /\ o \in Entry
      /\ o.operator # NoAddr => o.exists
  BY DEF IInv, TypeOK, RegistryTypeOK, OperatorsExist
<1>3. CASE \E a \in Operators, price \in PriceChoices : setPrices(a, e, price)
  <2>1. PICK a \in Operators, price \in PriceChoices : setPrices(a, e, price)
    BY <1>3
  <2>2. price[1] \in Nat /\ price[2] \in Nat /\ price[1] > 0
    BY <2>1, PriceAssumption DEF setPrices
  <2> DEFINE n1 == [o EXCEPT !.cpuPricePerSec6 = price[1]]
             n == [n1 EXCEPT !.gpuPricePerSec6 = price[2]]
  <2>3. enclave' = [enclave EXCEPT ![e] = n]
    BY <2>1, <1>2 DEF setPrices, Entry, IInv, TypeOK, RegistryTypeOK
  <2> HIDE DEF o
  <2>4. n1 \in Entry
    BY <1>2, <2>2, EntryWith
  <2>5. n \in Entry
    <3> HIDE DEF n1
    <3> QED BY <2>2, <2>4, EntryWith
  <2>6. n.exists = o.exists /\ n.operator = o.operator
        /\ n.cpuPricePerSec6 = price[1]
    BY <1>2, SMT DEF Entry
  <2> HIDE DEF n
  <2>7. Rewrites(e, n)
    BY <1>2, <2>2, <2>3, <2>5, <2>6 DEF Rewrites, o
  <2> QED
    BY <2>5, <2>7
<1>4. CASE \E on \in BOOLEAN : enclave' = [enclave EXCEPT ![e].active = on]
  <2>1. PICK on \in BOOLEAN : enclave' = [enclave EXCEPT ![e].active = on]
    BY <1>4
  <2> DEFINE n == [o EXCEPT !.active = on]
  <2>2. n \in Entry /\ enclave' = [enclave EXCEPT ![e] = n]
    BY <1>2, <2>1, EntryWith
  <2> HIDE DEF o
  <2>3. n.exists = o.exists /\ n.operator = o.operator
        /\ n.cpuPricePerSec6 = o.cpuPricePerSec6
    BY <1>2, SMT DEF Entry
  <2> HIDE DEF n
  <2>4. Rewrites(e, n)
    BY <1>2, <2>2, <2>3 DEF Rewrites, o
  <2> QED
    BY <2>2, <2>4
<1>5. CASE \E a \in Addresses \cup {NoAddr} :
               enclave' = [enclave EXCEPT ![e].payoutWallet = a]
  <2>1. PICK a \in Addresses \cup {NoAddr} :
            enclave' = [enclave EXCEPT ![e].payoutWallet = a]
    BY <1>5
  <2> DEFINE n == [o EXCEPT !.payoutWallet = a]
  <2>2. n \in Entry /\ enclave' = [enclave EXCEPT ![e] = n]
    BY <1>2, <2>1, EntryWith
  <2> HIDE DEF o
  <2>3. n.exists = o.exists /\ n.operator = o.operator
        /\ n.cpuPricePerSec6 = o.cpuPricePerSec6
    BY <1>2, SMT DEF Entry
  <2> HIDE DEF n
  <2>4. Rewrites(e, n)
    BY <1>2, <2>2, <2>3 DEF Rewrites, o
  <2> QED
    BY <2>2, <2>4
<1> QED
  BY <1>1, <1>3, <1>4, <1>5

\* A box may only rewrite its own entry, and keeps it priced and its own.
LEMMA RegistryStepKeeps == ASSUME IInv, RegistryStep PROVE IInv'
<1>1. /\ TypeOK /\ OperatorsExist
      /\ enclave \in [Enclaves -> Entry]
      /\ RegistryNext /\ UNCHANGED <<now, recordVars, moneyVars, cfg>>
  BY DEF IInv, TypeOK, RegistryTypeOK, RegistryStep
<1>2. PICK e \in Enclaves, n \in Entry : Rewrites(e, n)
  BY <1>1, JoinRewrites, ReannounceRewrites DEF RegistryNext
<1>3. /\ enclave' \in [Enclaves -> Entry] /\ enclave'[e] = n
      /\ \A x \in Enclaves : x # e => enclave'[x] = enclave[x]
  BY <1>1, <1>2 DEF Rewrites
<1>4. TypeOK'
  BY <1>1, <1>3 DEF TypeOK, RegistryTypeOK, recordVars, moneyVars
<1>5. OperatorsExist'
  BY <1>1, <1>2, <1>3 DEF OperatorsExist, Rewrites
<1>6. RunnerIsRegistered'
  <2> SUFFICES ASSUME NEW id \in Ids, dep[id].runner # NoEnclave
               PROVE  /\ enclave'[dep[id].runner].exists
                      /\ enclave'[dep[id].runner].cpuPricePerSec6 > 0
                      /\ enclave'[dep[id].runner].operator = dep[id].runnerOperator
    BY <1>1 DEF RunnerIsRegistered, recordVars
  <2>1. dep[id].runner \in Enclaves
    BY <1>1 DEF TypeOK, Deployment
  <2>2. /\ enclave[dep[id].runner].exists
        /\ enclave[dep[id].runner].cpuPricePerSec6 > 0
        /\ enclave[dep[id].runner].operator = dep[id].runnerOperator
    BY AtEveryRecord DEF RecordAt
  <2> QED
    BY <2>1, <2>2, <1>2, <1>3 DEF Rewrites
<1>7. (OnlyRecordsLeased /\ RunnerIsPayable /\ MeterInsideLease /\ TailIsPaid)'
  BY <1>1 DEF IInv, OnlyRecordsLeased, RunnerIsPayable, MeterInsideLease,
              TailIsPaid, UnservedSecs, recordVars
<1> QED
  BY <1>4, <1>5, <1>6, <1>7 DEF IInv

-----------------------------------------------------------------------------
(* Migration                                                                 *)

\* An imported record arrives unleased, so its meter has nothing to measure.
LEMMA ImportKeeps ==
    ASSUME IInv, NEW a \in Addresses, NEW id \in Ids, NEW item \in ImportRecords,
           importDeployments(a, id, item)
    PROVE  IInv'
<1> DEFINE d1 == [item EXCEPT !.runner = NoEnclave]
           d2 == [d1 EXCEPT !.runnerOperator = NoAddr]
           d == [d2 EXCEPT !.leaseUntil = 0]
<1>1. TypeOK /\ RecordAt(id) /\ item \in Deployment /\ now \in Nat
  BY AtEveryRecord, InputAssumption DEF IInv, TypeOK
<1>2. /\ id \notin ids
      /\ ids' = ids \cup {id}
      /\ maxRate6' = [maxRate6 EXCEPT ![id] = item.rate]
      /\ UNCHANGED <<enclave, now, fee, earn, ownerEscrow6, provenUntil,
                     moneyVars, cfg>>
  BY DEF importDeployments
<1>3. dep' = [dep EXCEPT ![id] = d]
  BY Zenon DEF importDeployments
<1>4. d \in Deployment
  <2>1. d1 \in Deployment
    BY <1>1, WithRunner
  <2>2. d2 \in Deployment
    <3> HIDE DEF d1
    <3> QED BY <2>1, WithOperator
  <2> HIDE DEF d2
  <2> QED
    BY <2>2, WithLease
<1>5. d.runner = NoEnclave /\ d.runnerOperator = NoAddr /\ d.leaseUntil = 0
  BY <1>1, SMT DEF Deployment
<1> HIDE DEF d
<1>6. /\ dep' \in [Ids -> Deployment] /\ dep'[id] = d
      /\ \A i \in Ids : i # id => dep'[i] = dep[i]
  BY <1>1, <1>3, <1>4, DepUpdate
<1>7. TypeOK'
  <2>1. item.rate \in Nat
    BY <1>1 DEF Deployment
  <2> QED
    BY <1>1, <1>2, <1>6, <2>1 DEF TypeOK, RegistryTypeOK, moneyVars
<1>8. RecordAt(id)'
  <2>1. dep[id].leaseUntil = 0
    BY <1>1, <1>2 DEF RecordAt
  <2>2. (UnservedSecs(dep[id]) * dep[id].rate <= dep[id].spent6)'
    <3>1. UnservedSecs(dep[id])' = 0
      BY <1>1, <1>2, <1>5, <1>6 DEF UnservedSecs
    <3> QED
      BY <3>1, <1>4, <1>6 DEF Deployment
  <2> QED
    BY <1>1, <1>2, <1>5, <1>6, <2>1, <2>2 DEF RecordAt
<1> QED
  BY <1>2, <1>6, <1>7, <1>8, OneRecord

\* The fee, rate, cap and seal calls of a migration touch no lease or meter.
LEMMA ImportStepKeeps == ASSUME IInv, ImportStep PROVE IInv'
<1>1. TypeOK
  BY DEF IInv
<1>2. PICK a \in Addresses :
          \/ \E id \in Ids :
                 \/ \E item \in ImportRecords : importDeployments(a, id, item)
                 \/ \E f \in FeeChoices : importFees(a, id, f)
                 \/ \E r \in CapChoices : importEarn(a, id, r)
                 \/ \E cap \in CapChoices \cup {0} : importCaps(a, id, cap)
          \/ sealImports(a)
  BY DEF ImportStep
<1>3. CASE \E id \in Ids, item \in ImportRecords : importDeployments(a, id, item)
  BY <1>3, ImportKeeps
<1>4. CASE \E id \in Ids, f \in FeeChoices : importFees(a, id, f)
  <2>1. PICK id \in Ids, f \in FeeChoices : importFees(a, id, f)
    BY <1>4
  <2>2. /\ fee' = [fee EXCEPT ![id] = f] /\ f \in Nat
        /\ UNCHANGED <<enclave, now, ids, dep, earn, maxRate6, ownerEscrow6,
                       provenUntil, moneyVars, cfg>>
    BY <2>1, InputAssumption DEF importFees
  <2>3. TypeOK'
    BY <1>1, <2>2 DEF TypeOK, RegistryTypeOK, moneyVars
  <2> QED
    BY <2>2, <2>3, NoRecord
<1>5. CASE \E id \in Ids, r \in CapChoices : importEarn(a, id, r)
  <2>1. PICK id \in Ids, r \in CapChoices : importEarn(a, id, r)
    BY <1>5
  <2> DEFINE e == [earn[id] EXCEPT !.rate6 = r]
  <2>2. /\ r \in Nat /\ earn[id] \in Earn /\ earn \in [Ids -> Earn]
        /\ UNCHANGED <<enclave, now, ids, dep, fee, maxRate6, ownerEscrow6,
                       provenUntil, moneyVars, cfg>>
    BY <1>1, <2>1, InputAssumption DEF importEarn, TypeOK
  <2>3. earn' = [earn EXCEPT ![id] = e]
    BY <2>1, <2>2 DEF importEarn
  <2>4. e \in Earn /\ e.creditedUntil = earn[id].creditedUntil
    BY <2>2, SMT DEF Earn
  <2> HIDE DEF e
  <2>5. /\ earn' \in [Ids -> Earn] /\ earn'[id] = e
        /\ \A i \in Ids : i # id => earn'[i] = earn[i]
    BY <1>1, <2>3, <2>4, EarnUpdate
  <2>6. TypeOK'
    BY <1>1, <2>2, <2>5 DEF TypeOK, RegistryTypeOK, moneyVars
  <2>7. SameLease(id) /\ dep'[id].rate \in Nat
    BY <1>1, <2>2, <2>4, <2>5 DEF SameLease, TypeOK, Deployment
  <2>8. RecordAt(id)'
    BY <2>2, <2>7, SameLeaseKept
  <2> QED
    BY <2>2, <2>5, <2>6, <2>8, OneRecord
<1>6. CASE \E id \in Ids, cap \in CapChoices \cup {0} : importCaps(a, id, cap)
  <2>1. PICK id \in Ids, cap \in CapChoices \cup {0} : importCaps(a, id, cap)
    BY <1>6
  <2>2. /\ maxRate6' = [maxRate6 EXCEPT ![id] = cap] /\ cap \in Nat
        /\ UNCHANGED <<enclave, now, ids, dep, fee, earn, ownerEscrow6,
                       provenUntil, moneyVars, cfg>>
    BY <2>1, InputAssumption DEF importCaps
  <2>3. TypeOK'
    BY <1>1, <2>2 DEF TypeOK, RegistryTypeOK, moneyVars
  <2> QED
    BY <2>2, <2>3, NoRecord
<1>7. CASE sealImports(a)
  <2>1. /\ cfg' = [cfg EXCEPT !.importsSealed = TRUE]
        /\ UNCHANGED <<enclave, now, recordVars, moneyVars>>
    BY <1>7 DEF sealImports, SetCfg
  <2>2. \A on \in BOOLEAN : [cfg EXCEPT !.importsSealed = on] \in Config
    BY <1>1, SMT DEF TypeOK, Config
  <2>3. cfg' \in Config
    BY <2>1, <2>2, Zenon
  <2> QED
    BY <2>1, <2>3, ConfigKeeps
<1> QED
  BY <1>2, <1>3, <1>4, <1>5, <1>6, <1>7

-----------------------------------------------------------------------------
(* The inductive invariant and what follows from it                          *)

\* An empty ledger over any well-formed directory satisfies the invariant.
LEMMA InitEstablishes == ASSUME Init PROVE IInv
<1> DEFINE r == CHOOSE x \in AppRefs : TRUE
           c == CHOOSE x \in Configs : TRUE
<1>1. r \in AppRefs /\ c \in Configs
  BY InputAssumption
<1>2. /\ EmptyRecord.runner = NoEnclave /\ EmptyRecord.runnerOperator = NoAddr
      /\ EmptyRecord.leaseUntil = 0 /\ EmptyRecord.rate = 0
      /\ EmptyRecord.spent6 = 0
  BY DEF EmptyRecord
<1>3. EmptyRecord \in Deployment
  <2>1. 0 \in Milli
    BY SMT DEF Milli
  <2> HIDE DEF r, c
  <2>2. \A on \in BOOLEAN :
            [owner |-> NoAddr, appRef |-> r, configCid |-> c,
             gpuMilli |-> 0, cpuMilli |-> 0, active |-> on, rate |-> 0,
             balance6 |-> 0, spent6 |-> 0, runner |-> NoEnclave,
             runnerOperator |-> NoAddr, leaseUntil |-> 0] \in Deployment
    BY <1>1, <2>1, SMT DEF Deployment
  <2> QED
    BY <2>2, Zenon DEF EmptyRecord, r, c
<1> HIDE DEF r, c
<1>4. TypeOK
  BY <1>3, RegistryAssumption, InputAssumption
  DEF Init, RegistryInit, TypeOK, RegistryTypeOK, Earn, Bond
<1>5. OperatorsExist
  BY RegistryAssumption DEF Init, RegistryInit, OperatorsExist
<1>6. \A id \in Ids :
          /\ dep[id].runner = NoEnclave /\ dep[id].runnerOperator = NoAddr
          /\ dep[id].leaseUntil = 0 /\ dep[id].rate = 0 /\ dep[id].spent6 = 0
          /\ earn[id].creditedUntil = 0 /\ provenUntil[id] = 0
  BY <1>2 DEF Init
<1>7. now = 1
  BY DEF Init
<1>8. /\ OnlyRecordsLeased /\ RunnerIsPayable /\ MeterInsideLease
      /\ TailIsPaid /\ RunnerIsRegistered
  BY <1>6, <1>7 DEF OnlyRecordsLeased, RunnerIsPayable, MeterInsideLease,
                    TailIsPaid, RunnerIsRegistered, UnservedSecs, Min2
<1> QED
  BY <1>4, <1>5, <1>8 DEF IInv

\* Every call of the ledger and of the directory preserves it.
LEMMA NextKeeps == ASSUME IInv, [Next]_vars PROVE IInv'
<1>1. CASE Tick
  BY <1>1, TickKeeps
<1>2. CASE RegistryStep
  BY <1>2, RegistryStepKeeps
<1>3. CASE CreateStep
  BY <1>3, CreateKeeps DEF CreateStep
<1>4. CASE OwnerStep
  BY <1>4, SetMaxRateKeeps, SetSharesKeeps, SetActiveKeeps, TransferKeeps
  DEF OwnerStep
<1>5. CASE ContentStep
  BY <1>5, SetAppRefKeeps, SetConfigKeeps DEF ContentStep
<1>6. CASE FundingStep
  BY <1>6, FundKeeps DEF FundingStep
<1>7. CASE BackingStep
  BY <1>7, FundEthKeeps, FundEscrowKeeps DEF BackingStep
<1>8. CASE LeaseStep
  BY <1>8, ClaimKeeps, RenewKeeps, ReleaseKeeps, AddressesOf DEF LeaseStep
<1>9. CASE PayoutStep
  BY <1>9, SettleKeeps, WithdrawEarningsKeeps, RefundKeeps, SweepEscrowKeeps
  DEF PayoutStep
<1>10. CASE ProverStep
  BY <1>10, CreditProvenKeeps DEF ProverStep
<1>11. CASE BondStep
  BY <1>11, BondStepKeeps
<1>12. CASE ImportStep
  BY <1>12, ImportStepKeeps
<1>13. CASE PolicyStep
  BY <1>13, PolicyStepKeeps
<1>14. CASE GovernanceStep
  BY <1>14, GovernanceStepKeeps
<1>15. CASE UNCHANGED vars
  <2>1. TypeOK'
    BY <1>15 DEF IInv, TypeOK, RegistryTypeOK, vars, recordVars, moneyVars
  <2> QED
    BY <1>15, <2>1, NoRecord DEF vars, recordVars
<1> QED
  BY <1>1, <1>2, <1>3, <1>4, <1>5, <1>6, <1>7, <1>8, <1>9, <1>10, <1>11,
     <1>12, <1>13, <1>14, <1>15 DEF Next

\* IInv holds in every state of every ledger.
THEOREM Invariant == Spec => []IInv
<1>1. Init => IInv
  BY InitEstablishes
<1>2. IInv /\ [Next]_vars => IInv'
  BY NextKeeps
<1> QED
  BY <1>1, <1>2, PTL DEF Spec

\* No call leaves a record, an entry, a bond or a parameter outside its type:
\* in particular no balance, escrow, share or meter goes below zero.
THEOREM TypeCorrect == Spec => []TypeOK
<1>1. IInv => TypeOK
  BY DEF IInv
<1> QED
  BY <1>1, Invariant, PTL

\* The runner meter and the proof watermark stay inside the lease they measure.
THEOREM MeterSafe == Spec => []MeterInsideLease
<1>1. IInv => MeterInsideLease
  BY DEF IInv
<1> QED
  BY <1>1, Invariant, PTL

\* What release and setShares hand back was burned: spent6 never underflows.
THEOREM TailPaid == Spec => []TailIsPaid
<1>1. IInv => TailIsPaid
  BY DEF IInv
<1> QED
  BY <1>1, Invariant, PTL

\* A leased record's runner is in the directory, under the recorded operator.
THEOREM RunnerRegistered == Spec => []RunnerIsRegistered
<1>1. IInv => RunnerIsRegistered
  BY DEF IInv
<1> QED
  BY <1>1, Invariant, PTL

\* Settling the meter first does not change what an owner may take back: it
\* lowers the escrow and the reserve by the same amount, or empties the escrow.
LEMMA CreditKeepsRefund ==
    ASSUME TypeOK, NEW id \in Ids, NEW proven \in Nat,
           earn[id].creditedUntil <= Min2(now, dep[id].leaseUntil)
    PROVE  refundableOf(dep[id], earn[id], ownerEscrow6[id])
             = refundableOf(dep[id], _creditRunner(id, proven), ownerEscrow6[id])
<1> DEFINE e == earn[id]
           f == _creditRunner(id, proven)
           lu == dep[id].leaseUntil
           secs == CreditSecs(id, proven)
           amt == CreditAmount(id, proven)
           left == lu - (e.creditedUntil + secs)
<1>1. /\ e \in Earn /\ lu \in Nat /\ now \in Nat
      /\ e.rate6 \in Nat /\ e.escrow6 \in Nat /\ e.creditedUntil \in Nat
  BY DEF TypeOK, Deployment, Earn
<1>2. /\ secs \in Nat /\ amt \in Nat
      /\ e.creditedUntil + secs <= Min2(now, lu)
  BY CreditFacts
<1>3. e.creditedUntil + secs <= lu
  <2> DEFINE upto == e.creditedUntil + secs
  <2>1. upto \in Nat /\ upto <= Min2(now, lu)
    BY <1>1, <1>2
  <2> HIDE DEF upto, lu
  <2> QED
    BY <1>1, <2>1, SMT DEF Min2, upto
<1>4. /\ f.escrow6 = e.escrow6 - amt
      /\ f.creditedUntil = e.creditedUntil + secs
      /\ f.rate6 = e.rate6
  <2> HIDE DEF amt, secs
  <2>1. f = [e EXCEPT !.escrow6 = @ - amt, !.creditedUntil = @ + secs]
    BY DEF _creditRunner, amt, secs
  <2> HIDE DEF e, f
  <2> QED
    BY <1>1, <2>1, SMT DEF Earn
<1> DEFINE p == secs * e.rate6
           q == left * e.rate6
<1>5. left \in Nat /\ p \in Nat /\ q \in Nat
  <2> HIDE DEF secs, e, lu
  <2>1. left \in Nat
    BY <1>1, <1>2, <1>3
  <2> QED
    BY <1>1, <1>2, <2>1, MulNat
<1>6. (secs + left) * e.rate6 = p + q
  <2> HIDE DEF secs, e, left
  <2> QED
    BY <1>1, <1>2, <1>5, MulSplit
<1>7. Reserve(dep[id], e) = p + q
  <2>1. CASE lu > e.creditedUntil
    <3>1. Reserve(dep[id], e) = (lu - e.creditedUntil) * e.rate6
      BY <2>1 DEF Reserve
    <3>2. lu - e.creditedUntil = secs + left
      <4> HIDE DEF secs, e, lu
      <4> QED BY <1>1, <1>2
    <3> QED
      BY <1>6, <3>1, <3>2
  <2>2. CASE ~(lu > e.creditedUntil)
    <3>1. secs = 0 /\ left = 0
      <4> HIDE DEF secs, e, lu
      <4> QED BY <1>1, <1>2, <1>3, <2>2
    <3>2. p = 0 /\ q = 0
      BY <1>1, <3>1
    <3> QED
      BY <2>2, <3>2 DEF Reserve
  <2> QED
    BY <2>1, <2>2
<1>8. Reserve(dep[id], f) = q
  <2>1. CASE lu > f.creditedUntil
    <3> HIDE DEF f
    <3> QED
      BY <1>4, <2>1 DEF Reserve
  <2>2. CASE ~(lu > f.creditedUntil)
    <3>1. left = 0
      <4> HIDE DEF f, secs, e, lu
      <4> QED BY <1>1, <1>2, <1>3, <1>4, <2>2
    <3>2. q = 0
      BY <1>1, <3>1
    <3> HIDE DEF f
    <3> QED
      BY <2>2, <3>2 DEF Reserve
  <2> QED
    BY <2>1, <2>2
<1>9. amt = Min2(p, e.escrow6)
  BY DEF CreditAmount
<1>10. (IF e.escrow6 > p + q THEN e.escrow6 - (p + q) ELSE 0)
         = (IF f.escrow6 > q THEN f.escrow6 - q ELSE 0)
  <2> HIDE DEF p, q, e, f, amt
  <2> QED
    BY <1>1, <1>2, <1>4, <1>5, <1>9 DEF Min2
<1> DEFINE R1 == Reserve(dep[id], e)
           R2 == Reserve(dep[id], f)
<1>11. (IF e.escrow6 > R1 THEN e.escrow6 - R1 ELSE 0)
         = (IF f.escrow6 > R2 THEN f.escrow6 - R2 ELSE 0)
  BY <1>7, <1>8, <1>10
<1> HIDE DEF p, q, f, amt
<1> QED
  BY <1>11, Zenon DEF refundableOf, f

\* The refundableOf view is exact although it cannot settle the meter first.
THEOREM RefundExact == Spec => []RefundableIsExact
<1>1. IInv => RefundableIsExact
  <2> SUFFICES ASSUME IInv, NEW id \in Ids
               PROVE  refundableOf(dep[id], earn[id], ownerEscrow6[id])
                        = refundableOf(dep[id], _creditRunner(id, provenUntil[id]),
                                       ownerEscrow6[id])
    BY DEF RefundableIsExact
  <2>1. TypeOK /\ provenUntil[id] \in Nat
        /\ earn[id].creditedUntil <= Min2(now, dep[id].leaseUntil)
    BY DEF IInv, TypeOK, MeterInsideLease
  <2> QED
    BY <2>1, CreditKeepsRefund
<1> QED
  BY <1>1, Invariant, PTL
=============================================================================
