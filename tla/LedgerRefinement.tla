--------------------------- MODULE LedgerRefinement ---------------------------
(***************************************************************************)
(* The ledger implements its two abstract specifications, for every value  *)
(* of the constants: one lock per deployment (LeaseLock) and a treasury of *)
(* escrow, earnings and bonds (Treasury).  From the same effects of each   *)
(* call: the contract holds exactly what it owes, leases neither mint nor  *)
(* destroy runtime, and no call takes a seller's backing away.             *)
(*                                                                         *)
(* Then what the histories of Audits show: no second of a record is paid   *)
(* for twice, and a bond outlives every claim it authorized.  An audited   *)
(* ledger is a ledger, so its states satisfy IInv; each history adds the   *)
(* relation between itself and the clock that its claim rests on.          *)
(***************************************************************************)
EXTENDS Audits, DeploymentsProofs, SumLemmas

-----------------------------------------------------------------------------
(* What a lease call does to one record's money and lease                    *)

\* Burning a quantum moves money from balance to spent.
LEMMA BurnMoney ==
    ASSUME TypeOK, NEW d \in Deployment, NEW from \in Nat
    PROVE  _burnLease(d, from).balance6 + _burnLease(d, from).spent6
             = d.balance6 + d.spent6
<1> DEFINE c == BurnSecs(d) * d.rate
           l == (IF d.rate = 0 THEN now ELSE from) + BurnSecs(d)
           b == d.balance6 - c
           s == d.spent6 + c
<1>1. c \in Nat /\ d.balance6 \in Nat /\ d.spent6 \in Nat
  BY BurnFacts DEF Deployment
<1>2. _burnLease(d, from) = [d EXCEPT !.balance6 = b, !.spent6 = s, !.leaseUntil = l]
  BY DEF _burnLease
<1>3. b + s = d.balance6 + d.spent6
  <2> HIDE DEF c
  <2> QED BY <1>1
<1> HIDE DEF b, s, l
<1>4. [d EXCEPT !.balance6 = b, !.spent6 = s, !.leaseUntil = l].balance6 = b
      /\ [d EXCEPT !.balance6 = b, !.spent6 = s, !.leaseUntil = l].spent6 = s
  BY SMT DEF Deployment
<1> QED BY <1>2, <1>3, <1>4

\* Handing the tail back moves it from spent to balance.
LEMMA ReturnMoney ==
    ASSUME TypeOK, NEW d \in Deployment, UnservedSecs(d) * d.rate <= d.spent6
    PROVE  ReturnTail(d).balance6 + ReturnTail(d).spent6 = d.balance6 + d.spent6
<1> DEFINE c == UnservedSecs(d) * d.rate
           b == d.balance6 + c
           s == d.spent6 - c
<1>1. c \in Nat /\ d.balance6 \in Nat /\ d.spent6 \in Nat
  BY ReturnFacts DEF Deployment
<1>2. ReturnTail(d) = [d EXCEPT !.balance6 = b, !.spent6 = s]
  BY DEF ReturnTail
<1>3. b + s = d.balance6 + d.spent6
  <2> HIDE DEF c
  <2> QED BY <1>1
<1> HIDE DEF b, s
<1>4. [d EXCEPT !.balance6 = b, !.spent6 = s].balance6 = b
      /\ [d EXCEPT !.balance6 = b, !.spent6 = s].spent6 = s
  BY SMT DEF Deployment
<1> QED BY <1>2, <1>3, <1>4

\* Re-buying the tail at another rate moves money both ways, and loses none.
LEMMA RebuyMoney ==
    ASSUME TypeOK, NEW d \in Deployment, NEW r \in Nat,
           UnservedSecs(d) * d.rate <= d.spent6
    PROVE  /\ Rebuy(d, r).balance6 + Rebuy(d, r).spent6 = d.balance6 + d.spent6
           /\ Rebuy(d, r).runner = d.runner
           /\ ~(d.leaseUntil > now) => Rebuy(d, r) = d
<1>1. CASE d.leaseUntil > now
  <2> DEFINE u == ReturnTail(d)
             n == RebuySecs(d, r)
             c == n * r
             b == u.balance6 - c
             s == u.spent6 + c
             l == now + n
  <2>1. /\ u \in Deployment /\ u.runner = d.runner
        /\ u.balance6 + u.spent6 = d.balance6 + d.spent6
    BY ReturnFacts, ReturnMoney
  <2>2. c \in Nat
    <3>1. n \in Nat
      BY RebuyFacts
    <3> HIDE DEF n
    <3> QED BY <3>1, MulNat
  <2>3. Rebuy(d, r) = [u EXCEPT !.balance6 = b, !.spent6 = s, !.leaseUntil = l]
    BY <1>1 DEF Rebuy
  <2>4. b + s = u.balance6 + u.spent6
    <3>1. u.balance6 \in Nat /\ u.spent6 \in Nat
      <4> HIDE DEF u
      <4> QED BY <2>1 DEF Deployment
    <3> HIDE DEF u, c
    <3> QED BY <2>2, <3>1
  <2> HIDE DEF u, b, s, l
  <2> DEFINE t == [u EXCEPT !.balance6 = b, !.spent6 = s, !.leaseUntil = l]
  <2>5. t.balance6 = b /\ t.spent6 = s /\ t.runner = u.runner
    BY <2>1, SMT DEF Deployment
  <2> HIDE DEF t
  <2> QED BY <1>1, <2>1, <2>3, <2>4, <2>5 DEF t
<1>2. CASE ~(d.leaseUntil > now)
  BY <1>2 DEF Rebuy
<1> QED BY <1>1, <1>2

-----------------------------------------------------------------------------
(* What running the meter moves                                              *)

\* The three fields of a payout record after the meter has run.
LEMMA MeterFields ==
    ASSUME IInv, NEW id \in Ids, NEW proven \in Nat
    PROVE  /\ CreditAmount(id, proven) \in Nat
           /\ CreditSecs(id, proven) \in Nat
           /\ CreditAmount(id, proven) <= earn[id].escrow6
           /\ earn[id].creditedUntil + CreditSecs(id, proven) <= dep[id].leaseUntil
           /\ _creditRunner(id, proven) \in Earn
           /\ _creditRunner(id, proven).escrow6
                = earn[id].escrow6 - CreditAmount(id, proven)
           /\ _creditRunner(id, proven).creditedUntil
                = earn[id].creditedUntil + CreditSecs(id, proven)
           /\ _creditRunner(id, proven).rate6 = earn[id].rate6
<1> DEFINE secs == CreditSecs(id, proven)
           amt == CreditAmount(id, proven)
           x == earn[id].escrow6 - amt
           y == earn[id].creditedUntil + secs
<1>1. /\ TypeOK /\ earn[id].creditedUntil <= Min2(now, dep[id].leaseUntil)
      /\ earn[id] \in Earn /\ now \in Nat /\ dep[id].leaseUntil \in Nat
  BY DEF IInv, TypeOK, MeterInsideLease, Deployment
<1>2. /\ amt \in Nat /\ secs \in Nat /\ amt <= earn[id].escrow6
      /\ y <= Min2(now, dep[id].leaseUntil)
      /\ _creditRunner(id, proven) \in Earn
  BY <1>1, CreditFacts
<1>3. y <= dep[id].leaseUntil
  <2>1. y \in Nat
    BY <1>1, <1>2 DEF Earn
  <2> HIDE DEF y
  <2> QED BY <1>1, <1>2, <2>1, SMT DEF Min2
<1>4. _creditRunner(id, proven) = [earn[id] EXCEPT !.escrow6 = x, !.creditedUntil = y]
  BY DEF _creditRunner
<1> HIDE DEF x, y
<1>5. /\ [earn[id] EXCEPT !.escrow6 = x, !.creditedUntil = y].escrow6 = x
      /\ [earn[id] EXCEPT !.escrow6 = x, !.creditedUntil = y].creditedUntil = y
      /\ [earn[id] EXCEPT !.escrow6 = x, !.creditedUntil = y].rate6 = earn[id].rate6
  BY <1>1, SMT DEF Earn
<1> QED BY <1>2, <1>3, <1>4, <1>5, Zenon DEF x, y

\* What the meter takes from the escrow, one known payee receives.
LEMMA MeterPays ==
    ASSUME IInv, NEW id \in Ids, NEW proven \in Nat
    PROVE  \E p \in Addresses :
              CreditOperator(id, proven)
                = [earned6 EXCEPT ![p] = earned6[p] + CreditAmount(id, proven)]
<1>1. CASE CreditAmount(id, proven) = 0
  <2>1. Deployer \in Addresses /\ earned6 \in [Addresses -> Nat]
    BY DEF Addresses, IInv, TypeOK
  <2>2. earned6[Deployer] + 0 = earned6[Deployer]
    BY <2>1
  <2>3. earned6 = [earned6 EXCEPT ![Deployer] = earned6[Deployer]]
    BY <2>1
  <2> QED BY <1>1, <2>1, <2>2, <2>3 DEF CreditOperator
<1>2. CASE CreditAmount(id, proven) # 0
  <2>1. dep[id].runner # NoEnclave
    <3> SUFFICES ASSUME dep[id].runner = NoEnclave PROVE FALSE
      OBVIOUS
    <3>1. CreditSecs(id, proven) = 0
      BY DEF CreditSecs
    <3>2. earn[id].rate6 \in Nat /\ earn[id].escrow6 \in Nat
      BY DEF IInv, TypeOK, Earn
    <3>3. CreditAmount(id, proven) = 0
      BY <3>1, <3>2 DEF CreditAmount, Min2
    <3> QED BY <3>3, <1>2
  <2>2. dep[id].runnerOperator \in Addresses
    BY <2>1 DEF IInv, RunnerIsPayable, TypeOK, Deployment
  <2> QED BY <1>2, <2>2 DEF CreditOperator
<1> QED BY <1>1, <1>2

\* Whoever was backed before the meter ran is backed after it.
LEMMA MeterKeepsBacked ==
    ASSUME IInv, NEW id \in Ids, NEW proven \in Nat, Backed(id)
    PROVE  _creditRunner(id, proven).escrow6
             >= Reserve(dep[id], _creditRunner(id, proven))
<1> DEFINE e == earn[id]
           f == _creditRunner(id, proven)
           lu == dep[id].leaseUntil
           secs == CreditSecs(id, proven)
           amt == CreditAmount(id, proven)
           left == lu - (e.creditedUntil + secs)
           r == e.rate6
           p == secs * r
           q == left * r
<1>1. /\ e.rate6 \in Nat /\ e.escrow6 \in Nat /\ e.creditedUntil \in Nat
      /\ lu \in Nat
  BY DEF IInv, TypeOK, Deployment, Earn
<1>2. /\ amt \in Nat /\ secs \in Nat /\ amt <= e.escrow6
      /\ e.creditedUntil + secs <= lu
      /\ f.escrow6 = e.escrow6 - amt
      /\ f.creditedUntil = e.creditedUntil + secs
      /\ f.rate6 = r
  BY MeterFields
<1>3. amt = Min2(p, e.escrow6) /\ e.escrow6 >= Reserve(dep[id], e)
  BY DEF CreditAmount, Backed
<1>4. Reserve(dep[id], e) = IF lu > e.creditedUntil THEN (lu - e.creditedUntil) * r ELSE 0
  BY DEF Reserve
<1>5. Reserve(dep[id], f) = IF lu > f.creditedUntil THEN (lu - f.creditedUntil) * r ELSE 0
  <2> HIDE DEF f
  <2> QED BY <1>2 DEF Reserve
<1> HIDE DEF e, f, lu, secs, amt
<1>6. left \in Nat /\ secs + left = lu - e.creditedUntil /\ r \in Nat
  BY <1>1, <1>2 DEF left
<1>7. (secs + left) * r = p + q
  <2> HIDE DEF left, r
  <2> QED BY <1>2, <1>6, MulSplit DEF p, q
<1>8. p \in Nat /\ q \in Nat
  <2> HIDE DEF left, r
  <2> QED BY <1>2, <1>6, MulNat
<1>9. e.escrow6 >= p + q
  <2>1. CASE lu > e.creditedUntil
    BY <2>1, <1>3, <1>4, <1>6, <1>7
  <2>2. CASE ~(lu > e.creditedUntil)
    <3>1. secs = 0 /\ left = 0
      BY <2>2, <1>1, <1>2 DEF left
    <3>2. p = 0 /\ q = 0
      <4> HIDE DEF left, r
      <4> QED BY <3>1, <1>6
    <3> QED BY <3>2, <1>1
  <2> QED BY <2>1, <2>2
<1>10. amt = p
  <2> HIDE DEF p, q
  <2> QED BY <1>1, <1>3, <1>8, <1>9, SMT DEF Min2
<1>11. Reserve(dep[id], f) <= q
  <2>1. lu - f.creditedUntil = left
    BY <1>2
  <2> HIDE DEF left, r
  <2> QED BY <2>1, <1>5, <1>8
<1>12. Reserve(dep[id], f) \in Nat
  <2>1. lu - f.creditedUntil = left
    BY <1>2
  <2> HIDE DEF left, r
  <2> QED BY <2>1, <1>5, <1>8
<1> HIDE DEF p, q
<1> QED BY <1>1, <1>2, <1>8, <1>9, <1>10, <1>11, <1>12 DEF f

-----------------------------------------------------------------------------
(* The effects of the calls that write a lease                               *)

\* The step is a call: it takes no time and touches no other record.
Elsewhere(id) ==
    /\ now' = now
    /\ \A i \in Ids : i # id => dep'[i] = dep[i] /\ earn'[i] = earn[i]

\* The step runs record id's meter up to `proven` and moves no other money.
MeterRan(id, proven) ==
    /\ earn'[id].escrow6 = earn[id].escrow6 - CreditAmount(id, proven)
    /\ earned6' = CreditOperator(id, proven)
    /\ UNCHANGED <<bond, usdcHeld>>

\* The step leaves what a record has left and what it has burned, together.
RuntimeKept(id) ==
    dep'[id].balance6 + dep'[id].spent6 = dep[id].balance6 + dep[id].spent6

\* A claim takes a lapsed lease for the claimer, into the future.
LEMMA ClaimEffect ==
    ASSUME IInv, NEW a \in Operators, NEW id \in Ids, NEW e \in Enclaves,
           claim(a, id, e)
    PROVE  /\ Elsewhere(id) /\ RuntimeKept(id) /\ MeterRan(id, provenUntil[id])
           /\ now > dep[id].leaseUntil
           /\ dep'[id].runner = e /\ dep'[id].leaseUntil > now
           /\ earn'[id].creditedUntil = now
<1>1. /\ TypeOK /\ RecordAt(id) /\ dep[id] \in Deployment /\ now \in Nat
      /\ fee[id] \in Nat /\ provenUntil[id] \in Nat
      /\ dep[id].gpuMilli \in Milli /\ dep[id].cpuMilli \in Milli
      /\ earn \in [Ids -> Earn] /\ dep \in [Ids -> Deployment]
  BY AtEveryRecord DEF IInv, TypeOK, Deployment
<1> DEFINE r == rateFor(id, e)
           d0 == AtRate(id, r)
           b == _burnLease(d0, now)
           n == _snapRunnerRate(d0.rate, fee[id])
           c == _creditRunner(id, provenUntil[id])
           d == [b EXCEPT !.runner = e, !.runnerOperator = a]
           m == [c EXCEPT !.rate6 = n, !.creditedUntil = now]
<1>2. r \in Nat
  BY <1>1, RateFacts
<1>3. /\ d0 \in Deployment /\ d0.balance6 = dep[id].balance6
      /\ d0.spent6 = dep[id].spent6
  <2> HIDE DEF r
  <2> QED BY <1>1, <1>2, SMT DEF AtRate, Deployment
<1>4. /\ now > dep[id].leaseUntil /\ now' = now
      /\ earned6' = CreditOperator(id, provenUntil[id])
      /\ UNCHANGED <<bond, usdcHeld>>
  BY DEF claim, Lapsed
<1>5. dep' = [dep EXCEPT ![id] = d] /\ BurnSecs(d0) > 0
  BY Zenon DEF claim, AtRate
<1>6. earn' = [earn EXCEPT ![id] = m]
  BY Zenon DEF claim, AtRate
<1>7. /\ c \in Earn /\ c.escrow6 = earn[id].escrow6 - CreditAmount(id, provenUntil[id])
  BY <1>1, MeterFields
<1> HIDE DEF r, d0, n, c
<1>8. /\ b \in Deployment /\ b.balance6 + b.spent6 = d0.balance6 + d0.spent6
      /\ BurnSecs(d0) \in Nat /\ b.leaseUntil = now + BurnSecs(d0)
  BY <1>1, <1>3, BurnFacts, BurnMoney
<1> HIDE DEF b
<1>9. /\ d.runner = e /\ d.leaseUntil = b.leaseUntil
      /\ d.balance6 = b.balance6 /\ d.spent6 = b.spent6
  BY <1>8, SMT DEF Deployment
<1>10. m.escrow6 = c.escrow6 /\ m.creditedUntil = now
  BY <1>7, SMT DEF Earn
<1> HIDE DEF d, m
<1>11. dep'[id] = d /\ \A i \in Ids : i # id => dep'[i] = dep[i]
  BY <1>1, <1>5
<1>12. earn'[id] = m /\ \A i \in Ids : i # id => earn'[i] = earn[i]
  BY <1>1, <1>6
<1>13. d.leaseUntil > now
  BY <1>1, <1>5, <1>8, <1>9
<1> QED BY <1>3, <1>4, <1>7, <1>8, <1>9, <1>10, <1>11, <1>12, <1>13
        DEF Elsewhere, RuntimeKept, MeterRan

\* A renewal keeps an unexpired lease with its holder, beyond this instant.
LEMMA RenewEffect ==
    ASSUME IInv, NEW a \in Operators, NEW id \in Ids, renew(a, id)
    PROVE  /\ Elsewhere(id) /\ RuntimeKept(id) /\ MeterRan(id, provenUntil[id])
           /\ earn'[id] = _creditRunner(id, provenUntil[id])
           /\ now <= dep[id].leaseUntil
           /\ dep[id].runner \in Enclaves
           /\ dep'[id].runner = dep[id].runner /\ dep'[id].leaseUntil > now
<1>1. /\ TypeOK /\ RecordAt(id) /\ dep[id] \in Deployment /\ now \in Nat
      /\ provenUntil[id] \in Nat /\ dep[id].leaseUntil \in Nat
      /\ dep[id].rate \in Nat
      /\ earn \in [Ids -> Earn] /\ dep \in [Ids -> Deployment]
  BY AtEveryRecord DEF IInv, TypeOK, Deployment
<1> DEFINE L == dep[id].leaseUntil
           d == _burnLease(dep[id], L)
           m == _creditRunner(id, provenUntil[id])
           n == BurnSecs(dep[id])
<1>2. /\ now <= L /\ n > 0 /\ now' = now
      /\ dep' = [dep EXCEPT ![id] = d] /\ earn' = [earn EXCEPT ![id] = m]
      /\ earned6' = CreditOperator(id, provenUntil[id])
      /\ UNCHANGED <<bond, usdcHeld>>
  BY <1>1 DEF renew, Lapsed
<1>3. /\ d.leaseUntil = (IF dep[id].rate = 0 THEN now ELSE L) + n
      /\ d.runner = dep[id].runner /\ n \in Nat
      /\ d.balance6 + d.spent6 = dep[id].balance6 + dep[id].spent6
  BY <1>1, BurnFacts, BurnMoney
<1>4. m.escrow6 = earn[id].escrow6 - CreditAmount(id, provenUntil[id])
  BY <1>1, MeterFields
<1>5. dep[id].runner \in Enclaves
  <2>1. dep[id].runnerOperator # NoAddr
    BY AddressesOf DEF renew
  <2> QED BY <2>1, <1>1 DEF RecordAt, Deployment
<1> HIDE DEF d, m, n
<1>6. dep'[id] = d /\ \A i \in Ids : i # id => dep'[i] = dep[i]
  BY <1>1, <1>2
<1>7. earn'[id] = m /\ \A i \in Ids : i # id => earn'[i] = earn[i]
  BY <1>1, <1>2
<1>8. d.leaseUntil > now
  BY <1>1, <1>2, <1>3
<1> QED BY <1>2, <1>3, <1>4, <1>5, <1>6, <1>7, <1>8
        DEF Elsewhere, RuntimeKept, MeterRan, m

\* A release hands a held lease back.
LEMMA ReleaseEffect ==
    ASSUME IInv, NEW a \in Operators, NEW id \in Ids, release(a, id)
    PROVE  /\ Elsewhere(id) /\ RuntimeKept(id) /\ MeterRan(id, provenUntil[id])
           /\ dep[id].runner \in Enclaves
           /\ dep'[id].runner = NoEnclave /\ dep'[id].leaseUntil = 0
<1>1. /\ TypeOK /\ RecordAt(id) /\ dep[id] \in Deployment
      /\ provenUntil[id] \in Nat
      /\ UnservedSecs(dep[id]) * dep[id].rate <= dep[id].spent6
      /\ earn \in [Ids -> Earn] /\ dep \in [Ids -> Deployment]
  BY AtEveryRecord DEF IInv, TypeOK, RecordAt
<1> DEFINE t == ReturnTail(dep[id])
           d == [t EXCEPT !.runner = NoEnclave, !.runnerOperator = NoAddr,
                          !.leaseUntil = 0]
           c == _creditRunner(id, provenUntil[id])
           m == [c EXCEPT !.creditedUntil = 0]
<1>2. /\ t \in Deployment
      /\ t.balance6 + t.spent6 = dep[id].balance6 + dep[id].spent6
  BY <1>1, ReturnFacts, ReturnMoney
<1>3. /\ c \in Earn /\ c.escrow6 = earn[id].escrow6 - CreditAmount(id, provenUntil[id])
  BY <1>1, MeterFields
<1>4. dep[id].runner \in Enclaves
  <2>1. dep[id].runnerOperator # NoAddr
    BY AddressesOf DEF release
  <2> QED BY <2>1, <1>1 DEF RecordAt, Deployment
<1>5. /\ dep' = [dep EXCEPT ![id] = d] /\ now' = now
      /\ earned6' = CreditOperator(id, provenUntil[id])
      /\ UNCHANGED <<bond, usdcHeld>>
  BY Zenon DEF release
<1>6. earn' = [earn EXCEPT ![id] = m]
  BY DEF release
<1> HIDE DEF t, c
<1>7. /\ d.runner = NoEnclave /\ d.leaseUntil = 0
      /\ d.balance6 = t.balance6 /\ d.spent6 = t.spent6
  BY <1>2, SMT DEF Deployment
<1>8. m.escrow6 = c.escrow6
  BY <1>3, SMT DEF Earn
<1> HIDE DEF d, m
<1>9. dep'[id] = d /\ \A i \in Ids : i # id => dep'[i] = dep[i]
  BY <1>1, <1>5
<1>10. earn'[id] = m /\ \A i \in Ids : i # id => earn'[i] = earn[i]
  BY <1>1, <1>6
<1> QED BY <1>2, <1>3, <1>4, <1>5, <1>7, <1>8, <1>9, <1>10
        DEF Elsewhere, RuntimeKept, MeterRan

\* What a resize makes of a record: only its money, its shares, its rate and,
\* when it is live, the end of its lease.
LEMMA ResizeRate ==
    ASSUME IInv, NEW id \in Ids, NEW gpu \in Milli, NEW cpu \in Milli
    PROVE  _resizeRate(id, gpu, cpu) \in Nat
<1>1. /\ TypeOK /\ RecordAt(id) /\ fee[id] \in Nat /\ maxRate6[id] \in Nat
      /\ dep[id].rate \in Nat /\ now \in Nat /\ dep[id].leaseUntil \in Nat
      /\ dep[id].runner \in Enclaves \cup {NoEnclave}
  BY AtEveryRecord DEF IInv, TypeOK, Deployment
<1>2. CASE \/ dep[id].leaseUntil <= now
           \/ enclave[dep[id].runner].operator = NoAddr
  BY <1>2, <1>1 DEF _resizeRate, _unleasedRate
<1>3. CASE ~(\/ dep[id].leaseUntil <= now
             \/ enclave[dep[id].runner].operator = NoAddr)
  <2>1. dep[id].runner \in Enclaves
    BY <1>3, <1>1 DEF RecordAt
  <2> DEFINE h == _hostRate(enclave[dep[id].runner], dep[id], gpu, cpu)
  <2>2. h \in Nat
    BY <2>1, <1>1, RateFacts
  <2>3. _resizeRate(id, gpu, cpu) = h + fee[id]
    BY <1>3 DEF _resizeRate
  <2> HIDE DEF h
  <2> QED BY <2>2, <2>3, <1>1
<1> QED BY <1>2, <1>3

\* A resize re-times a live lease for its holder and leaves any other alone.
LEMMA SetSharesEffect ==
    ASSUME IInv, NEW a \in Users, NEW id \in Ids, NEW shares \in ShareChoices,
           setShares(a, id, shares)
    PROVE  /\ Elsewhere(id) /\ RuntimeKept(id) /\ MeterRan(id, provenUntil[id])
           /\ earn'[id].creditedUntil
                = _creditRunner(id, provenUntil[id]).creditedUntil
           /\ dep'[id].runner = dep[id].runner
           /\ dep[id].leaseUntil > now =>
                  dep[id].runner \in Enclaves /\ dep'[id].leaseUntil > now
           /\ ~(dep[id].leaseUntil > now) =>
                  dep'[id].leaseUntil = dep[id].leaseUntil
<1>1. /\ TypeOK /\ RecordAt(id) /\ dep[id] \in Deployment
      /\ provenUntil[id] \in Nat /\ now \in Nat
      /\ UnservedSecs(dep[id]) * dep[id].rate <= dep[id].spent6
      /\ earn \in [Ids -> Earn] /\ dep \in [Ids -> Deployment]
      /\ dep[id].runner \in Enclaves \cup {NoEnclave}
  BY AtEveryRecord DEF IInv, TypeOK, RecordAt, Deployment
<1> DEFINE r == _resizeRate(id, shares[1], shares[2])
           t == Rebuy(dep[id], r)
           c == _creditRunner(id, provenUntil[id])
           n == _snapRunnerRate(r, fee[id])
           d == [t EXCEPT !.gpuMilli = shares[1], !.cpuMilli = shares[2], !.rate = r]
           m == [c EXCEPT !.rate6 = n]
<1>2. r \in Nat
  <2>1. shares[1] \in Milli /\ shares[2] \in Milli
    BY InputAssumption
  <2> QED BY <2>1, ResizeRate
<1>3. /\ dep[id].leaseUntil > now => RebuySecs(dep[id], r) > 0
      /\ now' = now
      /\ earned6' = CreditOperator(id, provenUntil[id])
      /\ UNCHANGED <<bond, usdcHeld>>
  BY DEF setShares
<1>4. dep' = [dep EXCEPT ![id] = d]
  BY Zenon DEF setShares
<1>5. earn' = [earn EXCEPT ![id] = m]
  BY DEF setShares
<1> HIDE DEF r
<1>6. /\ t \in Deployment /\ RebuySecs(dep[id], r) \in Nat
      /\ dep[id].leaseUntil > now => t.leaseUntil = now + RebuySecs(dep[id], r)
      /\ t.balance6 + t.spent6 = dep[id].balance6 + dep[id].spent6
      /\ t.runner = dep[id].runner
      /\ ~(dep[id].leaseUntil > now) => t = dep[id]
  BY <1>1, <1>2, RebuyFacts, RebuyMoney
<1>7. /\ c \in Earn /\ c.escrow6 = earn[id].escrow6 - CreditAmount(id, provenUntil[id])
  BY <1>1, MeterFields
<1> HIDE DEF t, n, c
<1>8. /\ d.runner = t.runner /\ d.leaseUntil = t.leaseUntil
      /\ d.balance6 = t.balance6 /\ d.spent6 = t.spent6
  BY <1>6, SMT DEF Deployment
<1>9. m.escrow6 = c.escrow6 /\ m.creditedUntil = c.creditedUntil
  BY <1>7, SMT DEF Earn
<1> HIDE DEF d, m
<1>10. dep'[id] = d /\ \A i \in Ids : i # id => dep'[i] = dep[i]
  BY <1>1, <1>4
<1>11. earn'[id] = m /\ \A i \in Ids : i # id => earn'[i] = earn[i]
  BY <1>1, <1>5
<1>12. dep[id].leaseUntil > now => dep[id].runner \in Enclaves /\ d.leaseUntil > now
  BY <1>1, <1>3, <1>6, <1>8 DEF RecordAt
<1>13. ~(dep[id].leaseUntil > now) => d.leaseUntil = dep[id].leaseUntil
  BY <1>6, <1>8
<1> QED BY <1>3, <1>6, <1>7, <1>8, <1>9, <1>10, <1>11, <1>12, <1>13
        DEF Elsewhere, RuntimeKept, MeterRan, c

-----------------------------------------------------------------------------
(* The effects of the calls that write no lease                              *)

\* The step takes no time, and no record's runner, lease or burned total moves.
QuietLeases ==
    /\ now' = now
    /\ \A i \in Ids : /\ dep'[i].runner = dep[i].runner
                      /\ dep'[i].leaseUntil = dep[i].leaseUntil
                      /\ dep'[i].spent6 = dep[i].spent6

\* An update of one record that keeps those three fields is quiet.
LEMMA QuietUpdate ==
    ASSUME IInv, NEW id \in Ids, NEW d, now' = now,
           dep' = [dep EXCEPT ![id] = d], d.runner = dep[id].runner,
           d.leaseUntil = dep[id].leaseUntil, d.spent6 = dep[id].spent6
    PROVE  QuietLeases
<1>1. dep \in [Ids -> Deployment]
  BY DEF IInv, TypeOK
<1>2. dep'[id] = d /\ \A i \in Ids : i # id => dep'[i] = dep[i]
  BY <1>1
<1> QED BY <1>2 DEF QuietLeases

\* Creating a record, and an owner's calls other than setShares, are quiet.
LEMMA OwnerCallsQuiet ==
    ASSUME IInv, NEW a \in Users, NEW id \in Ids
    PROVE  /\ \A ref \in AppRefs, c \in Configs, shares \in ShareChoices,
                 f \in FeeChoices, cap \in CapChoices :
                  create(a, id, ref, c, shares, f, cap) => QuietLeases
           /\ \A cap \in CapChoices : setMaxRate(a, id, cap) => QuietLeases
           /\ \A on \in BOOLEAN : setActive(a, id, on) => QuietLeases
           /\ \A to \in Users : transferDeployment(a, id, to) => QuietLeases
           /\ \A ref \in AppRefs : setAppRef(a, id, ref) => QuietLeases
           /\ \A c \in Configs : setConfig(a, id, c) => QuietLeases
<1>1. dep[id] \in Deployment
  BY DEF IInv, TypeOK
<1>2. ASSUME NEW ref \in AppRefs, NEW c \in Configs, NEW shares \in ShareChoices,
             NEW f \in FeeChoices, NEW cap \in CapChoices,
             create(a, id, ref, c, shares, f, cap)
      PROVE  QuietLeases
  <2> DEFINE d == [dep[id] EXCEPT !.owner = a, !.appRef = ref, !.configCid = c,
                                  !.gpuMilli = shares[1], !.cpuMilli = shares[2],
                                  !.active = TRUE, !.rate = cap]
  <2>1. dep' = [dep EXCEPT ![id] = d] /\ now' = now
    BY <1>2, Zenon DEF create
  <2>2. /\ d.runner = dep[id].runner /\ d.leaseUntil = dep[id].leaseUntil
        /\ d.spent6 = dep[id].spent6
    BY <1>1, SMT DEF Deployment
  <2> HIDE DEF d
  <2> QED BY <2>1, <2>2, QuietUpdate
<1>3. ASSUME NEW cap \in CapChoices, setMaxRate(a, id, cap) PROVE QuietLeases
  <2> DEFINE d == [dep[id] EXCEPT !.rate = cap]
  <2>1. (dep' = [dep EXCEPT ![id] = d] \/ dep' = dep) /\ now' = now
    BY <1>3 DEF setMaxRate
  <2>2. /\ d.runner = dep[id].runner /\ d.leaseUntil = dep[id].leaseUntil
        /\ d.spent6 = dep[id].spent6
    BY <1>1, SMT DEF Deployment
  <2>3. dep' = dep => QuietLeases
    BY <2>1 DEF QuietLeases
  <2> HIDE DEF d
  <2> QED BY <2>1, <2>2, <2>3, QuietUpdate
<1>4. ASSUME NEW on \in BOOLEAN, setActive(a, id, on) PROVE QuietLeases
  <2> DEFINE d == [dep[id] EXCEPT !.active = on]
  <2>1. dep' = [dep EXCEPT ![id] = d] /\ now' = now
    BY <1>4 DEF setActive
  <2>2. /\ d.runner = dep[id].runner /\ d.leaseUntil = dep[id].leaseUntil
        /\ d.spent6 = dep[id].spent6
    BY <1>1, SMT DEF Deployment
  <2> HIDE DEF d
  <2> QED BY <2>1, <2>2, QuietUpdate
<1>5. ASSUME NEW to \in Users, transferDeployment(a, id, to) PROVE QuietLeases
  <2> DEFINE d == [dep[id] EXCEPT !.owner = to]
  <2>1. dep' = [dep EXCEPT ![id] = d] /\ now' = now
    BY <1>5 DEF transferDeployment
  <2>2. /\ d.runner = dep[id].runner /\ d.leaseUntil = dep[id].leaseUntil
        /\ d.spent6 = dep[id].spent6
    BY <1>1, SMT DEF Deployment
  <2> HIDE DEF d
  <2> QED BY <2>1, <2>2, QuietUpdate
<1>6. ASSUME NEW ref \in AppRefs, setAppRef(a, id, ref) PROVE QuietLeases
  <2> DEFINE d == [dep[id] EXCEPT !.appRef = ref]
  <2>1. dep' = [dep EXCEPT ![id] = d] /\ now' = now
    BY <1>6 DEF setAppRef
  <2>2. /\ d.runner = dep[id].runner /\ d.leaseUntil = dep[id].leaseUntil
        /\ d.spent6 = dep[id].spent6
    BY <1>1, SMT DEF Deployment
  <2> HIDE DEF d
  <2> QED BY <2>1, <2>2, QuietUpdate
<1>7. ASSUME NEW c \in Configs, setConfig(a, id, c) PROVE QuietLeases
  <2> DEFINE d == [dep[id] EXCEPT !.configCid = c]
  <2>1. dep' = [dep EXCEPT ![id] = d] /\ now' = now
    BY <1>7 DEF setConfig
  <2>2. /\ d.runner = dep[id].runner /\ d.leaseUntil = dep[id].leaseUntil
        /\ d.spent6 = dep[id].spent6
    BY <1>1, SMT DEF Deployment
  <2> HIDE DEF d
  <2> QED BY <2>1, <2>2, QuietUpdate
<1> QED BY <1>2, <1>3, <1>4, <1>5, <1>6, <1>7

\* Funding and refunding touch a record's balance, not its lease.
LEMMA BalanceCallsQuiet ==
    ASSUME IInv, NEW a \in Addresses, NEW id \in Ids
    PROVE  /\ \A v \in FundAmounts : fund(a, id, v) => QuietLeases
           /\ \A v \in EthCredits : fundEth(id, v) => QuietLeases
           /\ refund(a, id) => QuietLeases
<1>1. dep[id] \in Deployment
  BY DEF IInv, TypeOK
<1>2. ASSUME NEW b, dep' = [dep EXCEPT ![id].balance6 = b], now' = now
      PROVE  QuietLeases
  <2> DEFINE d == [dep[id] EXCEPT !.balance6 = b]
  <2>1. /\ d.runner = dep[id].runner /\ d.leaseUntil = dep[id].leaseUntil
        /\ d.spent6 = dep[id].spent6
    BY <1>1, SMT DEF Deployment
  <2>2. dep' = [dep EXCEPT ![id] = d]
    BY <1>2
  <2> HIDE DEF d
  <2> QED BY <1>2, <2>1, <2>2, QuietUpdate
<1>3. ASSUME NEW v \in FundAmounts, fund(a, id, v) PROVE QuietLeases
  BY <1>2, <1>3 DEF fund
<1>4. ASSUME NEW v \in EthCredits, fundEth(id, v) PROVE QuietLeases
  BY <1>2, <1>4 DEF fundEth
<1>5. ASSUME refund(a, id) PROVE QuietLeases
  <2> DEFINE d == [dep[id] EXCEPT !.balance6 = 0, !.active = FALSE]
  <2>1. /\ d.runner = dep[id].runner /\ d.leaseUntil = dep[id].leaseUntil
        /\ d.spent6 = dep[id].spent6
    BY <1>1, SMT DEF Deployment
  <2>2. dep' = [dep EXCEPT ![id] = d] /\ now' = now
    <3>1. dep' = [dep EXCEPT ![id].balance6 = 0, ![id].active = FALSE] /\ now' = now
      BY <1>5 DEF refund
    <3>2. dep \in [Ids -> Deployment]
      BY DEF IInv, TypeOK
    <3>3. [dep EXCEPT ![id].balance6 = 0, ![id].active = FALSE]
            = [dep EXCEPT ![id] = d]
      BY <1>1, <3>2
    <3> QED BY <3>1, <3>3
  <2> HIDE DEF d
  <2> QED BY <2>1, <2>2, QuietUpdate
<1> QED BY <1>3, <1>4, <1>5

\* A call that does not write _deployments is quiet.
LEMMA OtherCallsQuiet ==
    ASSUME UNCHANGED <<now, dep>> PROVE QuietLeases
BY DEF QuietLeases

-----------------------------------------------------------------------------
(* One lock per deployment                                                   *)

\* A quiet step leaves every lock alone.
LEMMA QuietLocks == ASSUME IInv, QuietLeases PROVE UNCHANGED Lock!lockVars
BY DEF QuietLeases, Lock!lockVars

\* A call that acquires, re-times or hands back one lock is a step of it.
LEMMA LockMoves ==
    ASSUME IInv, NEW id \in Ids, Elsewhere(id),
           \/ /\ now > dep[id].leaseUntil
              /\ dep'[id].runner \in Enclaves /\ dep'[id].leaseUntil > now
           \/ /\ now <= dep[id].leaseUntil
              /\ dep[id].runner \in Enclaves
              /\ dep'[id].runner = dep[id].runner /\ dep'[id].leaseUntil > now
           \/ /\ dep[id].runner \in Enclaves
              /\ dep'[id].runner = NoEnclave /\ dep'[id].leaseUntil = 0
    PROVE  Lock!LockNext
<1> DEFINE h == [i \in Ids |-> dep[i].runner]
           u == [i \in Ids |-> dep[i].leaseUntil]
<1>1. /\ now \in Nat /\ dep[id].leaseUntil \in Nat
  BY DEF IInv, TypeOK, Deployment
<1>2. /\ h' = [h EXCEPT ![id] = h'[id]]
      /\ u' = [u EXCEPT ![id] = u'[id]]
      /\ now' = now
  BY DEF Elsewhere
<1>3. /\ h[id] = dep[id].runner /\ h'[id] = dep'[id].runner
      /\ u[id] = dep[id].leaseUntil /\ u'[id] = dep'[id].leaseUntil
  OBVIOUS
<1>4. Lock!Acquire(id) \/ Lock!Retime(id) \/ Lock!HandBack(id)
  BY <1>1, <1>3 DEF Lock!Acquire, Lock!Retime, Lock!HandBack, Lock!Expired
<1>5. Lock!OneLock(id)
  BY <1>2, <1>4 DEF Lock!OneLock
<1> QED BY <1>5 DEF Lock!LockNext

\* An imported record is unleased: its lock is handed back, or stays free.
LEMMA ImportLocks ==
    ASSUME IInv, NEW a \in Addresses, NEW id \in Ids, NEW item \in ImportRecords,
           importDeployments(a, id, item)
    PROVE  [Lock!LockNext]_(Lock!lockVars)
<1> DEFINE d == [item EXCEPT !.runner = NoEnclave, !.runnerOperator = NoAddr,
                             !.leaseUntil = 0]
<1>1. /\ item \in Deployment /\ dep \in [Ids -> Deployment] /\ RecordAt(id)
      /\ dep[id].runner \in Enclaves \cup {NoEnclave}
  BY InputAssumption, AtEveryRecord DEF IInv, TypeOK, Deployment
<1>2. dep' = [dep EXCEPT ![id] = d] /\ UNCHANGED <<now, earn>>
  BY Zenon DEF importDeployments
<1>3. d.runner = NoEnclave /\ d.leaseUntil = 0
  BY <1>1, SMT DEF Deployment
<1> HIDE DEF d
<1>4. dep'[id] = d /\ \A i \in Ids : i # id => dep'[i] = dep[i]
  BY <1>1, <1>2
<1>5. Elsewhere(id)
  BY <1>2, <1>4 DEF Elsewhere
<1>6. CASE dep[id].runner \in Enclaves
  BY <1>3, <1>4, <1>5, <1>6, LockMoves
<1>7. CASE dep[id].runner = NoEnclave
  <2>1. dep[id].leaseUntil = 0
    BY <1>1, <1>7 DEF RecordAt
  <2> QED BY <2>1, <1>2, <1>3, <1>4, <1>7 DEF Lock!lockVars
<1> QED BY <1>1, <1>6, <1>7

\* Only the clock, the lease calls, resizes and imports are not quiet.
LEMMA NextKinds ==
    ASSUME IInv, [Next]_vars
    PROVE  \/ Tick \/ QuietLeases \/ LeaseStep
           \/ \E a \in Users, id \in Ids, shares \in ShareChoices :
                  setShares(a, id, shares)
           \/ \E a \in Addresses, id \in Ids, item \in ImportRecords :
                  importDeployments(a, id, item)
<1>1. CASE RegistryStep
  BY <1>1, OtherCallsQuiet DEF RegistryStep, recordVars
<1>2. CASE CreateStep
  BY <1>2, OwnerCallsQuiet DEF CreateStep
<1>3. CASE OwnerStep
  <2>1. PICK a \in Users, id \in Ids :
          \/ \E cap \in CapChoices : setMaxRate(a, id, cap)
          \/ \E shares \in ShareChoices : setShares(a, id, shares)
          \/ \E on \in BOOLEAN : setActive(a, id, on)
          \/ \E to \in Users : transferDeployment(a, id, to)
    BY <1>3 DEF OwnerStep
  <2> QED BY <2>1, OwnerCallsQuiet
<1>4. CASE ContentStep
  BY <1>4, OwnerCallsQuiet DEF ContentStep
<1>5. CASE FundingStep
  BY <1>5, BalanceCallsQuiet, AddressesOf DEF FundingStep
<1>6. CASE BackingStep
  <2>1. ASSUME NEW id \in Ids, NEW v \in EthCredits, fundEth(id, v)
        PROVE  QuietLeases
    <3>1. Deployer \in Addresses
      BY DEF Addresses
    <3> QED BY <3>1, <2>1, BalanceCallsQuiet
  <2>2. ASSUME NEW id \in Ids, NEW a \in Addresses, NEW v \in FundAmounts,
               fundEscrow(a, id, v)
        PROVE  QuietLeases
    BY <2>2, OtherCallsQuiet DEF fundEscrow
  <2> QED BY <1>6, <2>1, <2>2 DEF BackingStep
<1>7. CASE PayoutStep
  <2>1. ASSUME NEW a \in Addresses, NEW id \in Ids,
               settle(id) \/ withdrawEarnings(a) \/ sweepEscrow(a, id)
        PROVE  QuietLeases
    BY <2>1, OtherCallsQuiet DEF settle, withdrawEarnings, sweepEscrow, recordVars
  <2>2. Deployer \in Addresses
    BY DEF Addresses
  <2>3. CASE \E a \in Addresses : withdrawEarnings(a)
    BY <2>3, OtherCallsQuiet DEF withdrawEarnings, recordVars
  <2> QED BY <1>7, <2>1, <2>2, <2>3, BalanceCallsQuiet DEF PayoutStep
<1>8. CASE ProverStep
  BY <1>8, OtherCallsQuiet DEF ProverStep, creditProven
<1>9. CASE BondStep
  BY <1>9, OtherCallsQuiet
  DEF BondStep, postBond, requestBondExit, withdrawBond, slashBond, recordVars
<1>10. CASE ImportStep
  <2>1. ASSUME NEW a \in Addresses, NEW id \in Ids,
               \/ \E f \in FeeChoices : importFees(a, id, f)
               \/ \E r \in CapChoices : importEarn(a, id, r)
               \/ \E cap \in CapChoices \cup {0} : importCaps(a, id, cap)
        PROVE  QuietLeases
    BY <2>1, OtherCallsQuiet DEF importFees, importEarn, importCaps
  <2>2. ASSUME NEW a \in Addresses, sealImports(a) PROVE QuietLeases
    BY <2>2, OtherCallsQuiet DEF sealImports, SetCfg, recordVars
  <2> QED BY <1>10, <2>1, <2>2 DEF ImportStep
<1>11. CASE PolicyStep
  BY <1>11, OtherCallsQuiet
  DEF PolicyStep, setRunnerBps, setClaimBond, setProofRequiredFrom, setLeaseSec,
      setProver, SetCfg, recordVars
<1>12. CASE GovernanceStep
  BY <1>12, OtherCallsQuiet
  DEF GovernanceStep, retire, setMaxGpuMilli, setMaxFee, setEthUsdFeed, setPayout,
      setOwner, acceptOwnership, SetCfg, recordVars
<1>13. CASE UNCHANGED vars
  BY <1>13, OtherCallsQuiet DEF vars, recordVars
<1> QED BY <1>1, <1>2, <1>3, <1>4, <1>5, <1>6, <1>7, <1>8, <1>9,
           <1>10, <1>11, <1>12, <1>13 DEF Next

\* Every step of the ledger is a step of one lock, of the clock, or none.
LEMMA NextLocks == ASSUME IInv, [Next]_vars PROVE [Lock!LockNext]_(Lock!lockVars)
<1>1. CASE Tick
  <2>1. now' = now + 1 /\ dep' = dep
    BY <1>1 DEF Tick, recordVars
  <2>2. Lock!Elapse
    BY <2>1 DEF Lock!Elapse
  <2> QED BY <2>2 DEF Lock!LockNext
<1>2. CASE QuietLeases
  BY <1>2, QuietLocks
<1>3. CASE LeaseStep
  <2>1. PICK a \in Operators, id \in Ids :
          \/ \E e \in Enclaves : claim(a, id, e)
          \/ renew(a, id)
          \/ release(a, id)
    BY <1>3 DEF LeaseStep
  <2>2. ASSUME NEW e \in Enclaves, claim(a, id, e) PROVE Lock!LockNext
    BY <2>2, ClaimEffect, LockMoves
  <2>3. ASSUME renew(a, id) PROVE Lock!LockNext
    BY <2>3, RenewEffect, LockMoves
  <2>4. ASSUME release(a, id) PROVE Lock!LockNext
    BY <2>4, ReleaseEffect, LockMoves
  <2> QED BY <2>1, <2>2, <2>3, <2>4
<1>4. ASSUME NEW a \in Users, NEW id \in Ids, NEW shares \in ShareChoices,
             setShares(a, id, shares)
      PROVE  [Lock!LockNext]_(Lock!lockVars)
  <2>1. /\ Elsewhere(id) /\ dep'[id].runner = dep[id].runner
        /\ dep[id].leaseUntil > now =>
               dep[id].runner \in Enclaves /\ dep'[id].leaseUntil > now
        /\ ~(dep[id].leaseUntil > now) =>
               dep'[id].leaseUntil = dep[id].leaseUntil
    BY <1>4, SetSharesEffect
  <2>2. now \in Nat /\ dep[id].leaseUntil \in Nat
    BY DEF IInv, TypeOK, Deployment
  <2>3. CASE dep[id].leaseUntil > now
    BY <2>1, <2>2, <2>3, LockMoves
  <2>4. CASE ~(dep[id].leaseUntil > now)
    BY <2>1, <2>4 DEF Elsewhere, Lock!lockVars
  <2> QED BY <2>3, <2>4
<1> QED BY <1>1, <1>2, <1>3, <1>4, NextKinds, ImportLocks

\* The lease market is one lock per deployment: no call takes an unexpired
\* lease from its holder, and a live one is only re-timed or handed back.
THEOREM LeasesAreLocks == Spec => ImplementsLock
<1>1. Init => Lock!LockInit
  <2> SUFFICES ASSUME Init PROVE Lock!LockInit
    OBVIOUS
  <2>1. EmptyRecord.runner = NoEnclave /\ EmptyRecord.leaseUntil = 0
    BY DEF EmptyRecord
  <2> QED BY <2>1 DEF Init, Lock!LockInit
<1>2. IInv /\ [Next]_vars => [Lock!LockNext]_(Lock!lockVars)
  BY NextLocks
<1> QED BY <1>1, <1>2, Invariant, PTL DEF Spec, ImplementsLock, Lock!LockSpec

-----------------------------------------------------------------------------
(* Leases neither mint nor destroy runtime                                   *)

\* A step that changes what a record has burned moves it to or from its balance.
LEMMA NextKeepsRuntime ==
    ASSUME IInv, [Next]_vars PROVE \A id \in ids : RuntimeStep(id)
<1>1. ids \subseteq Ids
  BY DEF IInv, TypeOK
<1>2. CASE Tick
  BY <1>2 DEF Tick, recordVars, RuntimeStep
<1>3. CASE QuietLeases
  BY <1>1, <1>3 DEF QuietLeases, RuntimeStep
<1>4. ASSUME NEW id \in Ids, Elsewhere(id), RuntimeKept(id)
      PROVE  \A i \in ids : RuntimeStep(i)
  BY <1>1, <1>4 DEF Elsewhere, RuntimeKept, RuntimeStep
<1>5. CASE LeaseStep
  BY <1>4, <1>5, ClaimEffect, RenewEffect, ReleaseEffect DEF LeaseStep
<1>6. ASSUME NEW a \in Users, NEW id \in Ids, NEW shares \in ShareChoices,
             setShares(a, id, shares)
      PROVE  \A i \in ids : RuntimeStep(i)
  BY <1>4, <1>6, SetSharesEffect
<1>7. ASSUME NEW a \in Addresses, NEW id \in Ids, NEW item \in ImportRecords,
             importDeployments(a, id, item)
      PROVE  \A i \in ids : RuntimeStep(i)
  <2>1. id \notin ids /\ dep \in [Ids -> Deployment]
    BY <1>7 DEF importDeployments, IInv, TypeOK
  <2>2. \A i \in Ids : i # id => dep'[i] = dep[i]
    BY <1>7, <2>1 DEF importDeployments
  <2> QED BY <1>1, <2>1, <2>2 DEF RuntimeStep
<1> QED BY <1>2, <1>3, <1>5, <1>6, <1>7, NextKinds

\* claim, renew, release and setShares move exactly what they burn or unburn.
THEOREM RuntimeIsConserved == Spec => RuntimeConserved
<1>1. IInv /\ [Next]_vars => [\A id \in ids : RuntimeStep(id)]_vars
  BY NextKeepsRuntime
<1> QED BY <1>1, Invariant, PTL DEF Spec, RuntimeConserved

-----------------------------------------------------------------------------
(* Which calls move money                                                    *)

\* The step moves no escrow, no meter, no earnings, no bond and no USDC.
QuietMoney ==
    /\ \A i \in Ids : /\ earn'[i].escrow6 = earn[i].escrow6
                      /\ earn'[i].creditedUntil = earn[i].creditedUntil
    /\ UNCHANGED moneyVars

\* Re-basing one record's runner rate moves no money.
LEMMA QuietRate ==
    ASSUME IInv, NEW id \in Ids, NEW r,
           earn' = [earn EXCEPT ![id].rate6 = r], UNCHANGED moneyVars
    PROVE  QuietMoney
<1> DEFINE e == [earn[id] EXCEPT !.rate6 = r]
<1>1. earn \in [Ids -> Earn] /\ earn[id] \in Earn
  BY DEF IInv, TypeOK
<1>2. e.escrow6 = earn[id].escrow6 /\ e.creditedUntil = earn[id].creditedUntil
  BY <1>1, SMT DEF Earn
<1>3. earn' = [earn EXCEPT ![id] = e]
  BY <1>1
<1> HIDE DEF e
<1>4. earn'[id] = e /\ \A i \in Ids : i # id => earn'[i] = earn[i]
  BY <1>1, <1>3
<1> QED BY <1>2, <1>4 DEF QuietMoney

\* A call that writes neither _earn nor any money variable moves none.
LEMMA QuietOtherwise ==
    ASSUME UNCHANGED <<earn, moneyVars>> PROVE QuietMoney
BY DEF QuietMoney

\* Only fundings, lease calls, resizes, payouts, the prover and bonds move money.
LEMMA MoneyKinds ==
    ASSUME IInv, [Next]_vars
    PROVE  \/ QuietMoney \/ LeaseStep \/ FundingStep \/ PayoutStep
           \/ ProverStep \/ BondStep
           \/ \E a \in Users, id \in Ids, shares \in ShareChoices :
                  setShares(a, id, shares)
           \/ \E a \in Addresses, id \in Ids, v \in FundAmounts :
                  fundEscrow(a, id, v)
<1>1. CASE Tick
  BY <1>1, QuietOtherwise DEF Tick, recordVars
<1>2. CASE RegistryStep
  BY <1>2, QuietOtherwise DEF RegistryStep, recordVars
<1>3. CASE CreateStep
  <2>1. PICK a \in Users, id \in Ids, ref \in AppRefs, c \in Configs,
             shares \in ShareChoices, f \in FeeChoices, cap \in CapChoices :
               create(a, id, ref, c, shares, f, cap)
    BY <1>3 DEF CreateStep
  <2>2. /\ earn' = [earn EXCEPT ![id].rate6 = _snapRunnerRate(cap, f)]
        /\ UNCHANGED moneyVars
    BY <2>1 DEF create
  <2> QED BY <2>2, QuietRate
<1>4. CASE OwnerStep
  <2>1. ASSUME NEW a \in Users, NEW id \in Ids, NEW cap \in CapChoices,
               setMaxRate(a, id, cap)
        PROVE  QuietMoney
    BY <2>1, QuietRate, QuietOtherwise DEF setMaxRate
  <2>2. ASSUME NEW a \in Users, NEW id \in Ids,
               \/ \E on \in BOOLEAN : setActive(a, id, on)
               \/ \E to \in Users : transferDeployment(a, id, to)
        PROVE  QuietMoney
    BY <2>2, QuietOtherwise DEF setActive, transferDeployment
  <2> QED BY <1>4, <2>1, <2>2 DEF OwnerStep
<1>5. CASE ContentStep
  BY <1>5, QuietOtherwise DEF ContentStep, setAppRef, setConfig
<1>6. CASE BackingStep
  BY <1>6, QuietOtherwise DEF BackingStep, fundEth
<1>7. CASE ImportStep
  <2>1. ASSUME NEW a \in Addresses, NEW id \in Ids, NEW r \in CapChoices,
               importEarn(a, id, r)
        PROVE  QuietMoney
    BY <2>1, QuietRate DEF importEarn
  <2>2. ASSUME NEW a \in Addresses, NEW id \in Ids,
               \/ \E item \in ImportRecords : importDeployments(a, id, item)
               \/ \E f \in FeeChoices : importFees(a, id, f)
               \/ \E cap \in CapChoices \cup {0} : importCaps(a, id, cap)
        PROVE  QuietMoney
    BY <2>2, QuietOtherwise DEF importDeployments, importFees, importCaps
  <2>3. ASSUME NEW a \in Addresses, sealImports(a) PROVE QuietMoney
    BY <2>3, QuietOtherwise DEF sealImports, SetCfg, recordVars
  <2> QED BY <1>7, <2>1, <2>2, <2>3 DEF ImportStep
<1>8. CASE PolicyStep
  BY <1>8, QuietOtherwise
  DEF PolicyStep, setRunnerBps, setClaimBond, setProofRequiredFrom, setLeaseSec,
      setProver, SetCfg, recordVars
<1>9. CASE GovernanceStep
  BY <1>9, QuietOtherwise
  DEF GovernanceStep, retire, setMaxGpuMilli, setMaxFee, setEthUsdFeed, setPayout,
      setOwner, acceptOwnership, SetCfg, recordVars
<1>10. CASE UNCHANGED vars
  BY <1>10, QuietOtherwise DEF vars, recordVars
<1> QED BY <1>1, <1>2, <1>3, <1>4, <1>5, <1>6, <1>7, <1>8, <1>9, <1>10 DEF Next

-----------------------------------------------------------------------------
(* The effects of the calls that pay out or pay in                           *)

\* A funding adds a whole share to one escrow, and as much to the contract.
LEMMA FundEffect ==
    ASSUME IInv, NEW a \in Addresses, NEW id \in Ids, NEW v \in FundAmounts,
           fund(a, id, v) \/ fundEscrow(a, id, v)
    PROVE  \E esc \in Nat :
              /\ earn' = [earn EXCEPT ![id].escrow6 = earn[id].escrow6 + esc]
              /\ usdcHeld' = usdcHeld + esc
              /\ UNCHANGED <<earned6, bond>>
<1>1. v \in Nat /\ TypeOK /\ usdcHeld \in Int
  BY InputAssumption DEF IInv, TypeOK
<1>2. CASE fund(a, id, v)
  <2> DEFINE esc == EscrowShare(id, v)
             cut == _feeShare(id, v)
  <2>1. esc \in Nat /\ cut \in Nat
    BY <1>1, <1>2, FundFacts DEF fund
  <2>2. /\ earn' = [earn EXCEPT ![id].escrow6 = earn[id].escrow6 + esc]
        /\ usdcHeld' = usdcHeld + v - cut - (v - cut - esc)
        /\ UNCHANGED <<earned6, bond>>
    BY <1>2 DEF fund
  <2> HIDE DEF esc, cut
  <2>3. usdcHeld' = usdcHeld + esc
    BY <1>1, <2>1, <2>2
  <2> QED BY <2>1, <2>2, <2>3
<1>3. CASE fundEscrow(a, id, v)
  BY <1>1, <1>3 DEF fundEscrow
<1> QED BY <1>2, <1>3

\* settle, creditProven, renew: the meter runs and nothing else is paid.
LEMMA SettleEffect ==
    ASSUME IInv, NEW id \in Ids, NEW proven \in Nat,
           earn' = [earn EXCEPT ![id] = _creditRunner(id, proven)],
           earned6' = CreditOperator(id, proven), UNCHANGED <<bond, usdcHeld>>
    PROVE  /\ MeterRan(id, proven)
           /\ earn'[id] = _creditRunner(id, proven)
           /\ \A i \in Ids : i # id => earn'[i] = earn[i]
<1>1. earn \in [Ids -> Earn]
  BY DEF IInv, TypeOK
<1>2. earn'[id] = _creditRunner(id, proven)
      /\ \A i \in Ids : i # id => earn'[i] = earn[i]
  BY <1>1
<1>3. _creditRunner(id, proven).escrow6 = earn[id].escrow6 - CreditAmount(id, proven)
  BY MeterFields
<1> QED BY <1>2, <1>3 DEF MeterRan

\* refund and sweepEscrow pay `out` from what the meter leaves in the escrow.
PaidOut(id, out) ==
    LET e == _creditRunner(id, provenUntil[id])
    IN  /\ out \in Nat /\ out <= e.escrow6
        /\ earn'[id].escrow6 = e.escrow6 - out
        /\ earn'[id].creditedUntil = e.creditedUntil
        /\ \A i \in Ids : i # id => earn'[i] = earn[i]
        /\ earned6' = CreditOperator(id, provenUntil[id])
        /\ usdcHeld' = usdcHeld - out
        /\ bond' = bond

\* A refund pays what refundableOf answers, after settling the meter.
LEMMA RefundEffect ==
    ASSUME IInv, NEW a \in Addresses, NEW id \in Ids, refund(a, id)
    PROVE  PaidOut(id, refundableOf(dep[id], _creditRunner(id, provenUntil[id]),
                                    ownerEscrow6[id]))
<1> DEFINE e == _creditRunner(id, provenUntil[id])
           amt == refundableOf(dep[id], e, ownerEscrow6[id])
           x == e.escrow6 - amt
           m == [e EXCEPT !.escrow6 = x]
<1>1. /\ earn \in [Ids -> Earn] /\ dep[id] \in Deployment
      /\ ownerEscrow6[id] \in Nat /\ provenUntil[id] \in Nat
  BY DEF IInv, TypeOK
<1>2. e \in Earn
  BY <1>1, MeterFields
<1>3. earn' = [earn EXCEPT ![id] = m]
  BY DEF refund
<1>4. /\ earned6' = CreditOperator(id, provenUntil[id])
      /\ usdcHeld' = usdcHeld - amt /\ bond' = bond
  BY DEF refund
<1>5. amt \in Nat /\ amt <= e.escrow6
  <2> HIDE DEF e
  <2> QED BY <1>1, <1>2, RefundFacts
<1> HIDE DEF e, amt, x
<1>6. m.escrow6 = x /\ m.creditedUntil = e.creditedUntil
  BY <1>2, SMT DEF Earn
<1> HIDE DEF m
<1>7. earn'[id] = m /\ \A i \in Ids : i # id => earn'[i] = earn[i]
  BY <1>1, <1>3
<1> QED BY <1>4, <1>5, <1>6, <1>7 DEF PaidOut, e, amt, x

\* A sweep pays out the whole escrow, after settling the meter.
LEMMA SweepEffect ==
    ASSUME IInv, NEW a \in Addresses, NEW id \in Ids, sweepEscrow(a, id)
    PROVE  PaidOut(id, _creditRunner(id, provenUntil[id]).escrow6)
<1> DEFINE e == _creditRunner(id, provenUntil[id])
           m == [e EXCEPT !.escrow6 = 0]
<1>1. earn \in [Ids -> Earn] /\ provenUntil[id] \in Nat
  BY DEF IInv, TypeOK
<1>2. e \in Earn
  BY <1>1, MeterFields
<1>3. earn' = [earn EXCEPT ![id] = m]
  BY DEF sweepEscrow
<1>4. /\ earned6' = CreditOperator(id, provenUntil[id])
      /\ usdcHeld' = usdcHeld - e.escrow6 /\ bond' = bond
  BY DEF sweepEscrow
<1> HIDE DEF e
<1>5. m.escrow6 = 0 /\ m.creditedUntil = e.creditedUntil /\ e.escrow6 \in Nat
  BY <1>2, SMT DEF Earn
<1> HIDE DEF m
<1>6. earn'[id] = m /\ \A i \in Ids : i # id => earn'[i] = earn[i]
  BY <1>1, <1>3
<1> QED BY <1>4, <1>5, <1>6 DEF PaidOut, e

-----------------------------------------------------------------------------
(* No call takes a seller's backing away                                     *)

\* A lease that stays as it was is still backed by what covers its reserve.
LEMMA StillBacked ==
    ASSUME TypeOK, TypeOK', NEW id \in Ids, LeaseUntouched(id), NEW c \in Earn,
           c.rate6 = earn[id].rate6, earn'[id].creditedUntil = c.creditedUntil,
           earn'[id].escrow6 >= c.escrow6, c.escrow6 >= Reserve(dep[id], c)
    PROVE  Backed(id)'
<1>1. /\ dep'[id].leaseUntil = dep[id].leaseUntil /\ earn'[id].rate6 = c.rate6
  BY DEF LeaseUntouched
<1>2. Reserve(dep[id], earn[id])' = Reserve(dep[id], c)
  BY <1>1 DEF Reserve
<1>3. earn'[id] \in Earn /\ dep[id] \in Deployment
  BY DEF TypeOK
<1>4. Reserve(dep[id], c) \in Nat
  BY <1>3, RefundFacts
<1>5. c.escrow6 \in Nat /\ earn'[id].escrow6 \in Nat
  BY <1>3 DEF Earn
<1> QED BY <1>2, <1>4, <1>5 DEF Backed

\* A step that leaves record id's escrow and meter alone keeps it backed.
LEMMA IdleBacked ==
    ASSUME IInv, IInv', NEW id \in Ids, LeaseUntouched(id), Backed(id),
           earn'[id].creditedUntil = earn[id].creditedUntil,
           earn'[id].escrow6 >= earn[id].escrow6
    PROVE  Backed(id)'
<1>1. TypeOK /\ TypeOK' /\ earn[id] \in Earn
  BY DEF IInv, TypeOK
<1> QED BY <1>1, StillBacked DEF Backed

\* So does a step that runs its meter and takes nothing else.
LEMMA MeteredBacked ==
    ASSUME IInv, IInv', NEW id \in Ids, LeaseUntouched(id), Backed(id),
           NEW proven \in Nat, MeterRan(id, proven),
           earn'[id].creditedUntil = _creditRunner(id, proven).creditedUntil
    PROVE  Backed(id)'
<1> DEFINE c == _creditRunner(id, proven)
<1>1. TypeOK /\ TypeOK' /\ earn'[id] \in Earn
  BY DEF IInv, TypeOK
<1>2. c \in Earn /\ c.rate6 = earn[id].rate6 /\ earn'[id].escrow6 = c.escrow6
  BY MeterFields DEF MeterRan
<1>3. c.escrow6 >= Reserve(dep[id], c)
  BY MeterKeepsBacked
<1>4. earn'[id].escrow6 >= c.escrow6
  BY <1>1, <1>2 DEF Earn
<1> HIDE DEF c
<1> QED BY <1>1, <1>2, <1>3, <1>4, StillBacked DEF c

\* And a refund, which stops short of the reserve.
LEMMA RefundedBacked ==
    ASSUME IInv, IInv', NEW a \in Addresses, NEW id \in Ids, refund(a, id),
           LeaseUntouched(id), Backed(id)
    PROVE  Backed(id)'
<1> DEFINE e == _creditRunner(id, provenUntil[id])
           amt == refundableOf(dep[id], e, ownerEscrow6[id])
           x == e.escrow6 - amt
           c == [e EXCEPT !.escrow6 = x]
<1>1. /\ TypeOK /\ TypeOK' /\ earn'[id] \in Earn /\ provenUntil[id] \in Nat
      /\ dep[id] \in Deployment /\ ownerEscrow6[id] \in Nat
  BY DEF IInv, TypeOK
<1>2. e \in Earn /\ e.rate6 = earn[id].rate6
  BY <1>1, MeterFields
<1>3. e.escrow6 >= Reserve(dep[id], e)
  BY <1>1, MeterKeepsBacked
<1>4. amt \in Nat /\ amt <= e.escrow6 /\ x >= Reserve(dep[id], e)
  <2> HIDE DEF e
  <2> QED BY <1>1, <1>2, <1>3, RefundFacts
<1>5. earn'[id].escrow6 = x /\ earn'[id].creditedUntil = e.creditedUntil
  BY RefundEffect DEF PaidOut
<1> HIDE DEF e, amt
<1>6. x \in Nat
  BY <1>2, <1>4 DEF Earn
<1> HIDE DEF x
<1>7. /\ c \in Earn /\ c.escrow6 = x /\ c.rate6 = e.rate6
      /\ c.creditedUntil = e.creditedUntil
  BY <1>2, <1>6, SMT DEF Earn
<1> HIDE DEF c
<1>8. Reserve(dep[id], c) = Reserve(dep[id], e)
  BY <1>7 DEF Reserve
<1>9. earn'[id].escrow6 >= c.escrow6
  BY <1>5, <1>6, <1>7
<1> QED BY <1>1, <1>2, <1>4, <1>5, <1>7, <1>8, <1>9, StillBacked

\* Every step but the platform's sweep leaves whom it leaves leased backed.
LEMMA NextKeepsBacked ==
    ASSUME IInv, IInv', [Next]_vars,
           NEW i \in Ids, LeaseUntouched(i), Backed(i)
    PROVE  Backed(i)'
<1>1. /\ earn[i].escrow6 \in Nat /\ provenUntil[i] \in Nat /\ now \in Nat
      /\ dep[i].leaseUntil \in Nat
  BY DEF IInv, TypeOK, Earn, Deployment
<1>2. ASSUME earn'[i] = earn[i] PROVE Backed(i)'
  BY <1>1, <1>2, IdleBacked
<1>3. CASE QuietMoney
  BY <1>1, <1>3, IdleBacked DEF QuietMoney
<1>4. CASE LeaseStep
  <2>1. PICK a \in Operators, id \in Ids :
          \/ \E e \in Enclaves : claim(a, id, e)
          \/ renew(a, id)
          \/ release(a, id)
    BY <1>4 DEF LeaseStep
  <2>2. Elsewhere(id)
    BY <2>1, ClaimEffect, RenewEffect, ReleaseEffect
  <2>3. CASE i # id
    BY <2>2, <2>3, <1>2 DEF Elsewhere
  <2>4. CASE i = id
    <3>1. ASSUME NEW e \in Enclaves, claim(a, id, e) PROVE Backed(i)'
      <4>1. now > dep[i].leaseUntil /\ dep'[i].leaseUntil > now
        BY <2>4, <3>1, ClaimEffect
      <4>2. dep'[i].leaseUntil = dep[i].leaseUntil
        BY DEF LeaseUntouched
      <4> QED BY <1>1, <4>1, <4>2
    <3>2. ASSUME renew(a, id) PROVE Backed(i)'
      BY <1>1, <2>4, <3>2, RenewEffect, MeteredBacked
    <3>3. ASSUME release(a, id) PROVE Backed(i)'
      <4>1. dep'[i].leaseUntil = 0
        BY <2>4, <3>3, ReleaseEffect
      <4>2. earn'[i].creditedUntil \in Nat /\ earn'[i].escrow6 \in Nat
        BY DEF IInv, TypeOK, Earn
      <4>3. Reserve(dep[i], earn[i])' = 0
        BY <4>1, <4>2 DEF Reserve
      <4> QED BY <4>2, <4>3 DEF Backed
    <3> QED BY <2>1, <3>1, <3>2, <3>3
  <2> QED BY <2>3, <2>4
<1>5. ASSUME NEW a \in Users, NEW id \in Ids, NEW shares \in ShareChoices,
             setShares(a, id, shares)
      PROVE  Backed(i)'
  <2>1. Elsewhere(id) /\ MeterRan(id, provenUntil[id])
        /\ earn'[id].creditedUntil
             = _creditRunner(id, provenUntil[id]).creditedUntil
    BY <1>5, SetSharesEffect
  <2>2. CASE i # id
    BY <2>1, <2>2, <1>2 DEF Elsewhere
  <2>3. CASE i = id
    BY <1>1, <2>1, <2>3, MeteredBacked
  <2> QED BY <2>2, <2>3
<1>6. ASSUME NEW a \in Addresses, NEW id \in Ids, NEW v \in FundAmounts,
             fund(a, id, v) \/ fundEscrow(a, id, v)
      PROVE  Backed(i)'
  <2>1. PICK esc \in Nat :
          earn' = [earn EXCEPT ![id].escrow6 = earn[id].escrow6 + esc]
    BY <1>6, FundEffect
  <2> DEFINE x == earn[id].escrow6 + esc
             m == [earn[id] EXCEPT !.escrow6 = x]
  <2>2. /\ earn \in [Ids -> Earn] /\ earn[id] \in Earn
        /\ earn[id].escrow6 \in Nat
    BY DEF IInv, TypeOK, Earn
  <2>3. earn' = [earn EXCEPT ![id] = m]
    BY <2>1, <2>2
  <2>4. m.escrow6 = x /\ m.creditedUntil = earn[id].creditedUntil
    <3> HIDE DEF x
    <3> QED BY <2>2, SMT DEF Earn
  <2>5. x >= earn[id].escrow6
    BY <2>2
  <2> HIDE DEF x, m
  <2>6. earn'[id] = m /\ \A j \in Ids : j # id => earn'[j] = earn[j]
    BY <2>2, <2>3
  <2>7. CASE i = id
    BY <2>4, <2>5, <2>6, <2>7, IdleBacked
  <2>8. CASE i # id
    BY <2>6, <2>8, <1>2
  <2> QED BY <2>7, <2>8
<1>7. ASSUME NEW id \in Ids, NEW proven \in Nat,
             earn' = [earn EXCEPT ![id] = _creditRunner(id, proven)],
             earned6' = CreditOperator(id, proven), UNCHANGED <<bond, usdcHeld>>
      PROVE  Backed(i)'
  <2>1. /\ MeterRan(id, proven) /\ earn'[id] = _creditRunner(id, proven)
        /\ \A j \in Ids : j # id => earn'[j] = earn[j]
    BY <1>7, SettleEffect
  <2>2. CASE i = id
    BY <2>1, <2>2, MeteredBacked
  <2>3. CASE i # id
    BY <2>1, <2>3, <1>2
  <2> QED BY <2>2, <2>3
<1>8. CASE PayoutStep
  <2>1. ASSUME NEW id \in Ids, settle(id) PROVE Backed(i)'
    <3>1. provenUntil[id] \in Nat
      BY DEF IInv, TypeOK
    <3> QED BY <3>1, <2>1, <1>7 DEF settle
  <2>2. ASSUME NEW a \in Addresses, withdrawEarnings(a) PROVE Backed(i)'
    BY <2>2, <1>2 DEF withdrawEarnings, recordVars
  <2>3. ASSUME NEW a \in Addresses, NEW id \in Ids, refund(a, id) PROVE Backed(i)'
    <3>1. \A j \in Ids : j # id => earn'[j] = earn[j]
      BY <2>3, RefundEffect DEF PaidOut
    <3> QED BY <3>1, <2>3, <1>2, RefundedBacked
  <2>4. ASSUME NEW a \in Addresses, NEW id \in Ids, sweepEscrow(a, id)
        PROVE  Backed(i)'
    <3>1. \A j \in Ids : j # id => earn'[j] = earn[j]
      BY <2>4, SweepEffect DEF PaidOut
    <3>2. i # id
      BY <2>4 DEF LeaseUntouched
    <3> QED BY <3>1, <3>2, <1>2
  <2> QED BY <1>8, <2>1, <2>2, <2>3, <2>4 DEF PayoutStep
<1>9. CASE ProverStep
  <2>1. PICK id \in Ids, upto \in 0..MaxTime : creditProven(id, upto)
    BY <1>9 DEF ProverStep
  <2> DEFINE proven == Min2(upto, Min2(now, dep[id].leaseUntil))
  <2>2. proven \in Nat
    <3>1. now \in Nat /\ dep[id].leaseUntil \in Nat /\ upto \in Nat
      BY BoundAssumption DEF IInv, TypeOK, Deployment
    <3> QED BY <3>1 DEF Min2
  <2>3. /\ earn' = [earn EXCEPT ![id] = _creditRunner(id, proven)]
        /\ earned6' = CreditOperator(id, proven)
        /\ UNCHANGED <<bond, usdcHeld>>
    BY <2>1 DEF creditProven
  <2> HIDE DEF proven
  <2> QED BY <2>2, <2>3, <1>7
<1>10. CASE BondStep
  BY <1>10, <1>2
  DEF BondStep, postBond, requestBondExit, withdrawBond, slashBond, recordVars
<1>11. CASE FundingStep
  BY <1>11, <1>6, AddressesOf DEF FundingStep
<1> QED BY <1>3, <1>4, <1>5, <1>6, <1>8, <1>9, <1>10, <1>11, MoneyKinds

\* "Cancelling mid-lease can never strand a seller": nor does any other call
\* that leaves the lease alone, the platform's sweep of a lapsed one excepted.
THEOREM SellersStayBacked == Spec => SellerStaysBacked
<1>1. IInv /\ IInv' /\ [Next]_vars
        => [\A id \in Ids : LeaseUntouched(id) /\ Backed(id) => Backed(id)']_vars
  BY NextKeepsBacked
<1> QED BY <1>1, Invariant, PTL DEF Spec, SellerStaysBacked

-----------------------------------------------------------------------------
(* A treasury of escrow, earnings and bonds                                  *)

\* A step that moves no money stutters in the treasury.
LEMMA QuietTreasury ==
    ASSUME QuietMoney PROVE UNCHANGED Bank!treasuryVars
BY DEF QuietMoney, moneyVars, Bank!treasuryVars

\* A call that runs one record's meter, and may pay part of the rest out, is a
\* disbursement.
LEMMA TreasuryPays ==
    ASSUME IInv, NEW id \in Ids, NEW proven \in Nat, NEW out \in Nat,
           earn'[id].escrow6 = earn[id].escrow6 - CreditAmount(id, proven) - out,
           \A i \in Ids : i # id => earn'[i] = earn[i],
           earned6' = CreditOperator(id, proven),
           usdcHeld' = usdcHeld - out, bond' = bond
    PROVE  Bank!TreasuryNext
<1> DEFINE esc == [i \in Ids |-> earn[i].escrow6]
           c == CreditAmount(id, proven)
<1>1. PICK p \in Addresses : earned6' = [earned6 EXCEPT ![p] = earned6[p] + c]
  BY MeterPays
<1>2. /\ earned6 \in [Addresses -> Nat] /\ earn[id].escrow6 \in Nat
      /\ c \in Nat
  BY MeterFields DEF IInv, TypeOK, Earn
<1>3. esc[id] = earn[id].escrow6 /\ esc'[id] = earn[id].escrow6 - c - out
  OBVIOUS
<1>4. esc' = [esc EXCEPT ![id] = esc'[id]]
  OBVIOUS
<1>5. earned6'[p] = earned6[p] + c /\ earned6[p] \in Nat
  BY <1>1, <1>2
<1> HIDE DEF c
<1>6. earned6' = [earned6 EXCEPT ![p] = earned6'[p]]
  BY <1>1, <1>5
<1>7. earned6'[p] - earned6[p] = c
      /\ esc[id] - esc'[id] - c = out
  BY <1>2, <1>3, <1>5
<1>8. usdcHeld' = usdcHeld - (esc[id] - esc'[id] - (earned6'[p] - earned6[p]))
  BY <1>7
<1>9. esc[id] - esc'[id] - (earned6'[p] - earned6[p]) >= 0
      /\ earned6'[p] - earned6[p] >= 0
  BY <1>2, <1>7
<1>10. Bank!Disburse(id, p)
  BY <1>4, <1>6, <1>8, <1>9, Zenon DEF Bank!Disburse
<1> QED BY <1>10 DEF Bank!TreasuryNext

\* The meter alone disburses from one escrow to one payee, and pays nothing out.
LEMMA TreasuryMeters ==
    ASSUME IInv, NEW id \in Ids, NEW proven \in Nat, MeterRan(id, proven),
           \A i \in Ids : i # id => earn'[i] = earn[i]
    PROVE  Bank!TreasuryNext
<1>1. /\ earn[id].escrow6 \in Nat /\ CreditAmount(id, proven) \in Nat
      /\ usdcHeld \in Int
  BY MeterFields DEF IInv, TypeOK, Earn
<1>2. /\ earn'[id].escrow6 = earn[id].escrow6 - CreditAmount(id, proven) - 0
      /\ usdcHeld' = usdcHeld - 0
  <2> DEFINE c == CreditAmount(id, proven)
             x == earn[id].escrow6
  <2>1. earn'[id].escrow6 = x - c /\ x \in Nat /\ c \in Nat
        /\ usdcHeld' = usdcHeld
    BY <1>1 DEF MeterRan
  <2> HIDE DEF c, x
  <2>2. x - c = x - c - 0 /\ usdcHeld = usdcHeld - 0
    BY <1>1, <2>1
  <2> QED BY <2>1, <2>2 DEF c, x
<1> QED BY <1>2, TreasuryPays DEF MeterRan

\* A bond call moves one operator's bond, and the contract's USDC by as much.
LEMMA BondTreasury ==
    ASSUME IInv, NEW a \in Addresses, NEW b \in Bond,
           bond' = [bond EXCEPT ![a] = b],
           usdcHeld' = usdcHeld + (b.amount6 - bond[a].amount6),
           UNCHANGED <<recordVars, earned6>>
    PROVE  Bank!TreasuryNext
<1> DEFINE bd == [x \in Addresses |-> bond[x].amount6]
<1>1. bond \in [Addresses -> Bond]
  BY DEF IInv, TypeOK
<1>2. bond'[a] = b /\ \A x \in Addresses : x # a => bond'[x] = bond[x]
  BY <1>1
<1>3. /\ bd' = [bd EXCEPT ![a] = bd'[a]]
      /\ bd'[a] = b.amount6 /\ bd[a] = bond[a].amount6
  <2>1. bd'[a] = b.amount6 /\ bd[a] = bond[a].amount6
    BY <1>2
  <2>2. \A x \in Addresses : x # a => bd'[x] = bd[x]
    BY <1>2
  <2>3. DOMAIN bd = Addresses /\ DOMAIN bd' = Addresses
        /\ bd = [x \in Addresses |-> bd[x]] /\ bd' = [x \in Addresses |-> bd'[x]]
    OBVIOUS
  <2> HIDE DEF bd
  <2>4. bd' = [bd EXCEPT ![a] = bd'[a]]
    BY <2>2, <2>3
  <2> QED BY <2>1, <2>4
<1>4. Bank!MoveBond(a)
  BY <1>3 DEF Bank!MoveBond, recordVars
<1> QED BY <1>4 DEF Bank!TreasuryNext

\* Posting, withdrawing and slashing move a bond; asking to exit moves none.
LEMMA BondStepTreasury ==
    ASSUME IInv, BondStep PROVE [Bank!TreasuryNext]_(Bank!treasuryVars)
<1>1. PICK a \in Operators :
          \/ \E v \in FundAmounts : postBond(a, v)
          \/ requestBondExit(a)
          \/ withdrawBond(a)
          \/ \E b \in Addresses, v \in FundAmounts : slashBond(b, a, v)
  BY DEF BondStep
<1>2. /\ a \in Addresses /\ bond[a] \in Bond /\ usdcHeld \in Int
      /\ bond[a].amount6 \in Nat /\ bond \in [Addresses -> Bond]
  BY AddressesOf DEF IInv, TypeOK, Bond
<1>3. ASSUME NEW v \in FundAmounts, postBond(a, v) PROVE Bank!TreasuryNext
  <2> DEFINE n == bond[a].amount6 + v
             nb == [amount6 |-> n, exitAt |-> 0]
  <2>1. v \in Nat /\ n \in Nat
    BY <1>2, InputAssumption
  <2>2. /\ bond' = [bond EXCEPT ![a] = nb] /\ usdcHeld' = usdcHeld + v
        /\ UNCHANGED <<recordVars, earned6>>
    BY <1>3 DEF postBond
  <2>3. usdcHeld + v = usdcHeld + (n - bond[a].amount6)
    BY <1>2, <2>1
  <2> HIDE DEF n
  <2>4. nb \in Bond /\ nb.amount6 = n
    BY <2>1 DEF Bond
  <2> HIDE DEF nb
  <2> QED BY <1>2, <2>2, <2>3, <2>4, BondTreasury
<1>4. ASSUME requestBondExit(a) PROVE UNCHANGED Bank!treasuryVars
  <2> DEFINE nb == [bond[a] EXCEPT !.exitAt = now + cfg.bondExitDelay]
  <2>1. /\ bond' = [bond EXCEPT ![a] = nb]
        /\ UNCHANGED <<recordVars, earned6, usdcHeld>>
    BY <1>4 DEF requestBondExit
  <2>2. nb.amount6 = bond[a].amount6
    BY <1>2, SMT DEF Bond
  <2> HIDE DEF nb
  <2>3. \A x \in Addresses : bond'[x].amount6 = bond[x].amount6
    BY <1>2, <2>1, <2>2
  <2> QED BY <2>1, <2>3 DEF Bank!treasuryVars, recordVars
<1>5. ASSUME withdrawBond(a) PROVE Bank!TreasuryNext
  <2> DEFINE nb == [amount6 |-> 0, exitAt |-> 0]
  <2>1. /\ bond' = [bond EXCEPT ![a] = nb]
        /\ usdcHeld' = usdcHeld - bond[a].amount6
        /\ UNCHANGED <<recordVars, earned6>>
    BY <1>5 DEF withdrawBond
  <2>2. nb \in Bond /\ nb.amount6 = 0
    BY DEF Bond
  <2>3. usdcHeld - bond[a].amount6 = usdcHeld + (0 - bond[a].amount6)
    BY <1>2
  <2> HIDE DEF nb
  <2> QED BY <1>2, <2>1, <2>2, <2>3, BondTreasury
<1>6. ASSUME NEW b \in Addresses, NEW v \in FundAmounts, slashBond(b, a, v)
      PROVE  Bank!TreasuryNext
  <2> DEFINE n == bond[a].amount6 - v
             nb == [bond[a] EXCEPT !.amount6 = n]
  <2>1. v \in Nat /\ n \in Nat
    BY <1>2, <1>6, InputAssumption DEF slashBond
  <2>2. /\ bond' = [bond EXCEPT ![a] = nb] /\ usdcHeld' = usdcHeld - v
        /\ UNCHANGED <<recordVars, earned6>>
    BY <1>6 DEF slashBond
  <2>3. usdcHeld - v = usdcHeld + (n - bond[a].amount6)
    BY <1>2, <2>1
  <2> HIDE DEF n
  <2>4. nb \in Bond /\ nb.amount6 = n
    BY <1>2, <2>1, SMT DEF Bond
  <2> HIDE DEF nb
  <2> QED BY <1>2, <2>2, <2>3, <2>4, BondTreasury
<1> QED BY <1>1, <1>3, <1>4, <1>5, <1>6

\* Every step of the ledger is a step of the treasury, or moves no money.
LEMMA NextTreasury ==
    ASSUME IInv, [Next]_vars PROVE [Bank!TreasuryNext]_(Bank!treasuryVars)
<1>1. CASE QuietMoney
  BY <1>1, QuietTreasury
<1>2. ASSUME NEW id \in Ids, Elsewhere(id), MeterRan(id, provenUntil[id])
      PROVE  Bank!TreasuryNext
  <2>1. provenUntil[id] \in Nat
    BY DEF IInv, TypeOK
  <2> QED BY <1>2, <2>1, TreasuryMeters DEF Elsewhere
<1>3. CASE LeaseStep
  BY <1>2, <1>3, ClaimEffect, RenewEffect, ReleaseEffect DEF LeaseStep
<1>4. ASSUME NEW a \in Users, NEW id \in Ids, NEW shares \in ShareChoices,
             setShares(a, id, shares)
      PROVE  Bank!TreasuryNext
  BY <1>2, <1>4, SetSharesEffect
<1>5. ASSUME NEW a \in Addresses, NEW id \in Ids, NEW v \in FundAmounts,
             fund(a, id, v) \/ fundEscrow(a, id, v)
      PROVE  Bank!TreasuryNext
  <2> DEFINE es == [i \in Ids |-> earn[i].escrow6]
  <2>1. PICK esc \in Nat :
          /\ earn' = [earn EXCEPT ![id].escrow6 = earn[id].escrow6 + esc]
          /\ usdcHeld' = usdcHeld + esc
          /\ UNCHANGED <<earned6, bond>>
    BY <1>5, FundEffect
  <2>2. earn \in [Ids -> Earn] /\ earn[id].escrow6 \in Nat
    BY DEF IInv, TypeOK, Earn
  <2>3. /\ earn'[id].escrow6 = earn[id].escrow6 + esc
        /\ \A i \in Ids : i # id => earn'[i] = earn[i]
    <3> DEFINE x == earn[id].escrow6 + esc
               m == [earn[id] EXCEPT !.escrow6 = x]
    <3>1. earn' = [earn EXCEPT ![id] = m]
      BY <2>1, <2>2
    <3> HIDE DEF x
    <3>2. m.escrow6 = x
      BY <2>2, SMT DEF Earn
    <3> HIDE DEF m
    <3> QED BY <2>2, <3>1, <3>2 DEF x
  <2>4. /\ es' = [es EXCEPT ![id] = es'[id]]
        /\ es'[id] = es[id] + esc /\ es[id] \in Nat
    BY <2>2, <2>3
  <2>5. es'[id] >= es[id] /\ usdcHeld' = usdcHeld + (es'[id] - es[id])
    BY <2>1, <2>4
  <2>6. Bank!Deposit(id)
    BY <2>1, <2>4, <2>5 DEF Bank!Deposit
  <2> QED BY <2>6 DEF Bank!TreasuryNext
<1>6. CASE PayoutStep
  <2>1. ASSUME NEW id \in Ids, settle(id) PROVE Bank!TreasuryNext
    <3>1. provenUntil[id] \in Nat
      BY DEF IInv, TypeOK
    <3> QED BY <3>1, <2>1, SettleEffect, TreasuryMeters DEF settle
  <2>2. ASSUME NEW a \in Addresses, withdrawEarnings(a) PROVE Bank!TreasuryNext
    <3>1. Bank!Withdraw(a)
      BY <2>2 DEF withdrawEarnings, Bank!Withdraw, recordVars
    <3> QED BY <3>1 DEF Bank!TreasuryNext
  <2>3. ASSUME NEW id \in Ids, NEW out, PaidOut(id, out) PROVE Bank!TreasuryNext
    <3>1. provenUntil[id] \in Nat
      BY DEF IInv, TypeOK
    <3>2. _creditRunner(id, provenUntil[id]).escrow6
            = earn[id].escrow6 - CreditAmount(id, provenUntil[id])
      BY <3>1, MeterFields
    <3> QED BY <2>3, <3>1, <3>2, TreasuryPays DEF PaidOut
  <2> QED BY <1>6, <2>1, <2>2, <2>3, RefundEffect, SweepEffect DEF PayoutStep
<1>7. CASE ProverStep
  <2>1. PICK id \in Ids, upto \in 0..MaxTime : creditProven(id, upto)
    BY <1>7 DEF ProverStep
  <2> DEFINE proven == Min2(upto, Min2(now, dep[id].leaseUntil))
  <2>2. proven \in Nat
    <3>1. now \in Nat /\ dep[id].leaseUntil \in Nat /\ upto \in Nat
      BY BoundAssumption DEF IInv, TypeOK, Deployment
    <3> QED BY <3>1 DEF Min2
  <2>3. /\ earn' = [earn EXCEPT ![id] = _creditRunner(id, proven)]
        /\ earned6' = CreditOperator(id, proven)
        /\ UNCHANGED <<bond, usdcHeld>>
    BY <2>1 DEF creditProven
  <2> HIDE DEF proven
  <2> QED BY <2>2, <2>3, SettleEffect, TreasuryMeters
<1>8. CASE BondStep
  BY <1>8, BondStepTreasury
<1>9. CASE FundingStep
  BY <1>5, <1>9, AddressesOf DEF FundingStep
<1> QED BY <1>1, <1>3, <1>4, <1>5, <1>6, <1>7, <1>8, <1>9, MoneyKinds

\* An empty ledger is an empty treasury.
LEMMA InitTreasury == ASSUME Init PROVE Bank!TreasuryInit
BY DEF Init, Bank!TreasuryInit

\* The ledger's money is a treasury: a step moves one record's escrow, one
\* operator's earnings or one operator's bond, and the USDC held by as much.
THEOREM LedgerIsTreasury == Spec => ImplementsTreasury
<1>1. IInv /\ [Next]_vars => [Bank!TreasuryNext]_(Bank!treasuryVars)
  BY NextTreasury
<1> QED BY <1>1, InitTreasury, Invariant, PTL
        DEF Spec, ImplementsTreasury, Bank!TreasurySpec

-----------------------------------------------------------------------------
(* The contract holds exactly what it owes                                   *)

\* The treasury's sum of a table is the library's.
LEMMA BankSums == \A f : Bank!SumFunction(f) = SumFunction(f)
BY DEF Bank!SumFunction, Bank!SumFunctionOnSet, Bank!FoldFunctionOnSet,
       Bank!MapThenFoldSet, SumFunction, SumFunctionOnSet, FoldFunctionOnSet,
       MapThenFoldSet

\* What solvency says of the ledger's own tables, before a step and after it.
LEMMA BankOwes ==
    /\ Bank!Solvency <=>
          usdcHeld = SumFunction([i \in Ids |-> earn[i].escrow6])
                       + SumFunction(earned6)
                       + SumFunction([a \in Addresses |-> bond[a].amount6])
    /\ Bank!Solvency' <=>
          usdcHeld' = SumFunction([i \in Ids |-> earn'[i].escrow6])
                        + SumFunction(earned6')
                        + SumFunction([a \in Addresses |-> bond'[a].amount6])
BY BankSums DEF Bank!Solvency

\* A step of the treasury changes what is held and what is owed by as much.
LEMMA TreasuryStaysSolvent ==
    ASSUME TypeOK, TypeOK', Bank!Solvency, [Bank!TreasuryNext]_(Bank!treasuryVars)
    PROVE  Bank!Solvency'
<1> DEFINE es == [i \in Ids |-> earn[i].escrow6]
           bd == [a \in Addresses |-> bond[a].amount6]
<1>1. /\ es \in [Ids -> Int] /\ es' \in [Ids -> Int]
      /\ bd \in [Addresses -> Int] /\ bd' \in [Addresses -> Int]
      /\ earned6 \in [Addresses -> Int] /\ earned6' \in [Addresses -> Int]
      /\ usdcHeld \in Int /\ usdcHeld' \in Int
  BY DEF TypeOK, Earn, Bond
<1>2. usdcHeld = SumFunction(es) + SumFunction(earned6) + SumFunction(bd)
  BY BankOwes
<1>3. SUFFICES usdcHeld' = SumFunction(es') + SumFunction(earned6') + SumFunction(bd')
  BY BankOwes
<1>4. /\ SumFunction(es) \in Int /\ SumFunction(earned6) \in Int
      /\ SumFunction(bd) \in Int
  <2> HIDE DEF es, bd
  <2> QED BY <1>1, FiniteAssumption, TableInt
<1>5. ASSUME NEW i \in Ids, Bank!Deposit(i)
      PROVE  usdcHeld' = SumFunction(es') + SumFunction(earned6') + SumFunction(bd')
  <2>1. /\ es' = [es EXCEPT ![i] = es'[i]]
        /\ usdcHeld' = usdcHeld + (es'[i] - es[i])
        /\ earned6' = earned6 /\ bd' = bd
    BY <1>5, Zenon DEF Bank!Deposit
  <2> HIDE DEF es, bd
  <2>2. SumFunction(es') = SumFunction(es) + (es'[i] - es[i])
        /\ es'[i] \in Int /\ es[i] \in Int
    BY <1>1, <2>1, FiniteAssumption, TableEntry
  <2> QED BY <1>1, <1>2, <1>4, <2>1, <2>2
<1>6. ASSUME NEW i \in Ids, NEW p \in Addresses, Bank!Disburse(i, p)
      PROVE  usdcHeld' = SumFunction(es') + SumFunction(earned6') + SumFunction(bd')
  <2>1. /\ es' = [es EXCEPT ![i] = es'[i]]
        /\ earned6' = [earned6 EXCEPT ![p] = earned6'[p]]
        /\ usdcHeld' = usdcHeld - (es[i] - es'[i] - (earned6'[p] - earned6[p]))
        /\ bd' = bd
    BY <1>6, Zenon DEF Bank!Disburse
  <2> HIDE DEF es, bd
  <2>2. SumFunction(es') = SumFunction(es) + (es'[i] - es[i])
        /\ es'[i] \in Int /\ es[i] \in Int
    BY <1>1, <2>1, FiniteAssumption, TableEntry
  <2>3. SumFunction(earned6') = SumFunction(earned6) + (earned6'[p] - earned6[p])
        /\ earned6'[p] \in Int /\ earned6[p] \in Int
    BY <1>1, <2>1, FiniteAssumption, TableEntry
  <2> QED BY <1>1, <1>2, <1>4, <2>1, <2>2, <2>3
<1>7. ASSUME NEW p \in Addresses, Bank!Withdraw(p)
      PROVE  usdcHeld' = SumFunction(es') + SumFunction(earned6') + SumFunction(bd')
  <2>1. /\ es' = es /\ bd' = bd
        /\ earned6' = [earned6 EXCEPT ![p] = 0]
        /\ usdcHeld' = usdcHeld - earned6[p]
    BY <1>7, Zenon DEF Bank!Withdraw
  <2> HIDE DEF es, bd
  <2>2. SumFunction(earned6') = SumFunction(earned6) + (0 - earned6[p])
        /\ earned6[p] \in Int
    <3>1. \A v \in Int : SumFunction([earned6 EXCEPT ![p] = v])
                            = SumFunction(earned6) + (v - earned6[p])
      BY <1>1, FiniteAssumption, TableEntry
    <3>2. 0 \in Int /\ earned6[p] \in Int
      BY <1>1
    <3>3. SumFunction([earned6 EXCEPT ![p] = 0])
            = SumFunction(earned6) + (0 - earned6[p])
      BY <3>1, <3>2, Zenon
    <3> QED BY <2>1, <3>2, <3>3, Zenon
  <2> QED BY <1>1, <1>2, <1>4, <2>1, <2>2
<1>8. ASSUME NEW p \in Addresses, Bank!MoveBond(p)
      PROVE  usdcHeld' = SumFunction(es') + SumFunction(earned6') + SumFunction(bd')
  <2>1. /\ es' = es /\ earned6' = earned6
        /\ bd' = [bd EXCEPT ![p] = bd'[p]]
        /\ usdcHeld' = usdcHeld + (bd'[p] - bd[p])
    BY <1>8, Zenon DEF Bank!MoveBond
  <2> HIDE DEF es, bd
  <2>2. SumFunction(bd') = SumFunction(bd) + (bd'[p] - bd[p])
        /\ bd'[p] \in Int /\ bd[p] \in Int
    BY <1>1, <2>1, FiniteAssumption, TableEntry
  <2> QED BY <1>1, <1>2, <1>4, <2>1, <2>2
<1>9. CASE UNCHANGED Bank!treasuryVars
  <2>1. es' = es /\ earned6' = earned6 /\ bd' = bd /\ usdcHeld' = usdcHeld
    BY <1>9, Zenon DEF Bank!treasuryVars
  <2> HIDE DEF es, bd
  <2> QED BY <1>2, <2>1
<1> QED BY <1>5, <1>6, <1>7, <1>8, <1>9 DEF Bank!TreasuryNext

\* The contract's USDC is what it owes in escrow, earnings and bonds: no call
\* pays the same unit twice, and none strands one.
THEOREM ContractIsSolvent == Spec => []Solvent
<1>1. Init => Solvent
  <2> SUFFICES ASSUME Init PROVE Bank!Solvency
    BY DEF Solvent
  <2>1. /\ [i \in Ids |-> earn[i].escrow6] = [i \in Ids |-> 0]
        /\ earned6 = [a \in Addresses |-> 0]
        /\ [a \in Addresses |-> bond[a].amount6] = [a \in Addresses |-> 0]
        /\ usdcHeld = 0
    BY DEF Init
  <2>2. SumFunction([i \in Ids |-> 0]) = 0 /\ SumFunction([a \in Addresses |-> 0]) = 0
    BY FiniteAssumption, SumOfZeros
  <2> QED BY <2>1, <2>2, BankOwes
<1>2. IInv /\ IInv' /\ Solvent /\ [Next]_vars => Solvent'
  <2> SUFFICES ASSUME IInv, IInv', Solvent, [Next]_vars PROVE Solvent'
    OBVIOUS
  <2>1. TypeOK /\ TypeOK'
    BY DEF IInv
  <2> QED BY <2>1, NextTreasury, TreasuryStaysSolvent DEF Solvent
<1> QED BY <1>1, <1>2, Invariant, PTL DEF Spec

-----------------------------------------------------------------------------
(* An audited ledger is a ledger                                             *)

\* Every step the histories sort is a step of the ledger.
LEMMA StepsOfTheLedger ==
    /\ UnmeteredStep => Next
    /\ \A id \in Ids : MeteringCall(id) => Next
    /\ PayNext => Next
    /\ BondNext => Next
<1>1. ASSUME UnmeteredStep PROVE Next
  BY <1>1, Zenon DEF UnmeteredStep, Next, PayoutStep, OwnerStep
<1>2. ASSUME NEW id \in Ids, MeteringCall(id) PROVE Next
  BY <1>2, Zenon DEF MeteringCall, Next, PayoutStep, LeaseStep
<1>3. ASSUME NEW a \in Operators, NEW id \in Ids, NEW e \in Enclaves, claim(a, id, e)
      PROVE  Next
  BY <1>3, Zenon DEF Next, LeaseStep
<1>4. ASSUME NEW a \in Users, NEW id \in Ids, NEW shares \in ShareChoices,
             setShares(a, id, shares)
      PROVE  Next
  BY <1>4, Zenon DEF Next, OwnerStep
<1>5. ASSUME NEW id \in Ids, NEW upto \in 0..MaxTime, creditProven(id, upto)
      PROVE  Next
  BY <1>5, Zenon DEF Next, ProverStep
<1>6. ASSUME PayNext PROVE Next
  BY <1>1, <1>2, <1>3, <1>4, <1>5, <1>6, Zenon
  DEF PayNext, AuditedPurchase, AuditedCredit, AuditedProof
<1>7. ASSUME BondNext PROVE Next
  BY <1>1, <1>2, <1>3, <1>4, <1>7, Zenon
  DEF BondNext, BondedClaim, UnclaimedStep, Next
<1> QED BY <1>1, <1>2, <1>6, <1>7

\* So the ledger's invariant holds under either history.
LEMMA AuditedInvariant == (PaySpec => []IInv) /\ (BondSpec => []IInv)
<1>1. AuditInit => Init
  BY DEF AuditInit
<1>2. [PayNext]_auditVars => [Next]_vars
  BY StepsOfTheLedger DEF auditVars
<1>3. [BondNext]_auditVars => [Next]_vars
  BY StepsOfTheLedger DEF auditVars
<1> QED BY <1>1, <1>2, <1>3, Invariant, PTL DEF Spec, PaySpec, BondSpec

-----------------------------------------------------------------------------
(* No second is paid for twice                                               *)

\* The step does not put a meter back, nor start a lease.
MetersStand ==
    /\ now <= now'
    /\ \A i \in Ids : /\ dep'[i].runner \in {dep[i].runner, NoEnclave}
                      /\ earn'[i].creditedUntil = earn[i].creditedUntil

\* A call that moves neither leases nor meters leaves every meter standing.
LEMMA QuietStands ==
    ASSUME IInv, QuietLeases, QuietMoney \/ UNCHANGED earn PROVE MetersStand
<1>1. now \in Nat
  BY DEF IInv, TypeOK
<1> QED BY <1>1 DEF QuietLeases, QuietMoney, MetersStand

\* A call that writes no record leaves every meter standing.
LEMMA IdleStands == ASSUME IInv, UNCHANGED <<now, dep, earn>> PROVE MetersStand
<1>1. now \in Nat
  BY DEF IInv, TypeOK
<1> QED BY <1>1 DEF MetersStand

\* Importing a record leaves it without a runner, and every meter as it was.
LEMMA ImportStands ==
    ASSUME IInv, NEW a \in Addresses, NEW id \in Ids, NEW item \in ImportRecords,
           importDeployments(a, id, item)
    PROVE  MetersStand
<1> DEFINE d == [item EXCEPT !.runner = NoEnclave, !.runnerOperator = NoAddr,
                             !.leaseUntil = 0]
<1>1. item \in Deployment /\ dep \in [Ids -> Deployment] /\ now \in Nat
  BY InputAssumption DEF IInv, TypeOK
<1>2. dep' = [dep EXCEPT ![id] = d] /\ UNCHANGED <<now, earn>>
  BY Zenon DEF importDeployments
<1>3. d.runner = NoEnclave
  BY <1>1, SMT DEF Deployment
<1> HIDE DEF d
<1>4. dep'[id] = d /\ \A i \in Ids : i # id => dep'[i] = dep[i]
  BY <1>1, <1>2
<1> QED BY <1>1, <1>2, <1>3, <1>4 DEF MetersStand

\* Funding moves escrow and balance, and leaves every meter standing.
LEMMA FundStands ==
    ASSUME IInv, NEW a \in Addresses, NEW id \in Ids, NEW v \in FundAmounts,
           fund(a, id, v) \/ fundEscrow(a, id, v)
    PROVE  MetersStand
<1>1. PICK esc \in Nat : earn' = [earn EXCEPT ![id].escrow6 = earn[id].escrow6 + esc]
  BY FundEffect
<1> DEFINE x == earn[id].escrow6 + esc
           m == [earn[id] EXCEPT !.escrow6 = x]
<1>2. earn \in [Ids -> Earn] /\ now \in Nat
  BY DEF IInv, TypeOK
<1>3. earn' = [earn EXCEPT ![id] = m]
  BY <1>1, <1>2
<1> HIDE DEF x
<1>4. m.creditedUntil = earn[id].creditedUntil
  BY <1>2, SMT DEF Earn
<1> HIDE DEF m
<1>5. \A i \in Ids : earn'[i].creditedUntil = earn[i].creditedUntil
  BY <1>2, <1>3, <1>4
<1>6. QuietLeases
  BY BalanceCallsQuiet, OtherCallsQuiet DEF fundEscrow
<1> QED BY <1>2, <1>5, <1>6 DEF QuietLeases, MetersStand

\* The clock only ticks.
LEMMA ClockSteps ==
    ASSUME IInv, [Next]_vars PROVE now' \in Nat /\ (now' = now \/ now' = now + 1)
<1>1. now \in Nat
  BY DEF IInv, TypeOK
<1>2. CASE Tick
  BY <1>1, <1>2 DEF Tick
<1>3. CASE LeaseStep
  BY <1>1, <1>3 DEF LeaseStep, claim, renew, release
<1>4. ASSUME NEW a \in Users, NEW id \in Ids, NEW shares \in ShareChoices,
             setShares(a, id, shares)
      PROVE  now' = now
  BY <1>4 DEF setShares
<1>5. ASSUME NEW a \in Addresses, NEW id \in Ids, NEW item \in ImportRecords,
             importDeployments(a, id, item)
      PROVE  now' = now
  BY <1>5 DEF importDeployments
<1> QED BY <1>1, <1>2, <1>3, <1>4, <1>5, NextKinds DEF QuietLeases

\* A call that never runs a meter leaves every meter standing.
LEMMA UnmeteredStands == ASSUME IInv, UnmeteredStep PROVE MetersStand
<1>1. now \in Nat
  BY DEF IInv, TypeOK
<1>2. CASE Tick
  BY <1>1, <1>2 DEF Tick, recordVars, MetersStand
<1>3. CASE RegistryStep
  BY <1>3, IdleStands DEF RegistryStep, recordVars
<1>4. CASE CreateStep
  <2>1. PICK a \in Users, id \in Ids, ref \in AppRefs, c \in Configs,
             shares \in ShareChoices, f \in FeeChoices, cap \in CapChoices :
               create(a, id, ref, c, shares, f, cap)
    BY <1>4 DEF CreateStep
  <2>2. /\ earn' = [earn EXCEPT ![id].rate6 = _snapRunnerRate(cap, f)]
        /\ UNCHANGED moneyVars
    BY <2>1 DEF create
  <2>3. QuietLeases
    BY <2>1, OwnerCallsQuiet
  <2> QED BY <2>2, <2>3, QuietRate, QuietStands
<1>5. CASE ContentStep
  BY <1>5, OwnerCallsQuiet, QuietStands DEF ContentStep, setAppRef, setConfig
<1>6. CASE FundingStep
  BY <1>6, FundStands, AddressesOf DEF FundingStep
<1>7. CASE BackingStep
  <2>1. ASSUME NEW id \in Ids, NEW v \in EthCredits, fundEth(id, v)
        PROVE  MetersStand
    <3>1. Deployer \in Addresses
      BY DEF Addresses
    <3>2. QuietLeases /\ UNCHANGED earn
      BY <3>1, <2>1, BalanceCallsQuiet DEF fundEth
    <3> QED BY <3>2, QuietStands
  <2> QED BY <1>7, <2>1, FundStands DEF BackingStep
<1>8. CASE BondStep
  BY <1>8, IdleStands
  DEF BondStep, postBond, requestBondExit, withdrawBond, slashBond, recordVars
<1>9. CASE ImportStep
  <2>1. ASSUME NEW a \in Addresses, NEW id \in Ids, NEW r \in CapChoices,
               importEarn(a, id, r)
        PROVE  MetersStand
    <3>1. QuietLeases
      BY <2>1, OtherCallsQuiet DEF importEarn
    <3>2. QuietMoney
      BY <2>1, QuietRate DEF importEarn
    <3> QED BY <3>1, <3>2, QuietStands
  <2>2. ASSUME NEW a \in Addresses, NEW id \in Ids,
               \/ \E f \in FeeChoices : importFees(a, id, f)
               \/ \E cap \in CapChoices \cup {0} : importCaps(a, id, cap)
        PROVE  MetersStand
    BY <2>2, IdleStands DEF importFees, importCaps
  <2>3. ASSUME NEW a \in Addresses, sealImports(a) PROVE MetersStand
    BY <2>3, IdleStands DEF sealImports, SetCfg, recordVars
  <2> QED BY <1>9, <2>1, <2>2, <2>3, ImportStands DEF ImportStep
<1>10. CASE PolicyStep
  BY <1>10, IdleStands
  DEF PolicyStep, setRunnerBps, setClaimBond, setProofRequiredFrom, setLeaseSec,
      setProver, SetCfg, recordVars
<1>11. CASE GovernanceStep
  BY <1>11, IdleStands
  DEF GovernanceStep, retire, setMaxGpuMilli, setMaxFee, setEthUsdFeed, setPayout,
      setOwner, acceptOwnership, SetCfg, recordVars
<1>12. CASE \E a \in Addresses : withdrawEarnings(a)
  BY <1>12, IdleStands DEF withdrawEarnings, recordVars
<1>13. ASSUME NEW a \in Users, NEW id \in Ids, NEW cap \in CapChoices,
              setMaxRate(a, id, cap)
       PROVE  MetersStand
  <2>1. QuietLeases
    BY <1>13, OwnerCallsQuiet
  <2>2. QuietMoney
    BY <1>13, QuietRate, QuietOtherwise DEF setMaxRate
  <2> QED BY <2>1, <2>2, QuietStands
<1>14. ASSUME NEW a \in Users, NEW id \in Ids,
              \/ \E on \in BOOLEAN : setActive(a, id, on)
              \/ \E to \in Users : transferDeployment(a, id, to)
       PROVE  MetersStand
  <2>1. QuietLeases
    BY <1>14, OwnerCallsQuiet
  <2>2. UNCHANGED earn
    BY <1>14 DEF setActive, transferDeployment
  <2> QED BY <2>1, <2>2, QuietStands
<1> QED BY <1>2, <1>3, <1>4, <1>5, <1>6, <1>7, <1>8, <1>9, <1>10, <1>11, <1>12,
           <1>13, <1>14 DEF UnmeteredStep

\* The pay history is typed, behind the clock, and behind every serving meter.
PayInv == /\ paidUpto \in [Ids -> Nat]
          /\ \A i \in Ids : paidUpto[i] <= now
          /\ NoSecondPaidTwice

\* What one run of a meter adds to the pay history: it stays behind the clock,
\* and behind where the meter stands afterwards.
LEMMA CreditedFacts ==
    ASSUME IInv, PayInv, NEW id \in Ids, NEW proven \in Nat, Credited(id, proven)
    PROVE  /\ paidUpto' \in [Ids -> Nat]
           /\ \A i \in Ids : i # id => paidUpto'[i] = paidUpto[i]
           /\ paidUpto'[id] <= now
           /\ dep[id].runner # NoEnclave =>
                  _creditRunner(id, proven).creditedUntil >= paidUpto'[id]
<1> DEFINE secs == CreditSecs(id, proven)
           upto == CreditUpto(id, proven)
           was == earn[id].creditedUntil
<1>1. /\ now \in Nat /\ dep[id].leaseUntil \in Nat /\ was \in Nat
      /\ paidUpto \in [Ids -> Nat] /\ paidUpto[id] <= now
  BY DEF IInv, TypeOK, Deployment, Earn, PayInv
<1>2. upto \in Nat /\ upto <= now
  BY <1>1 DEF CreditUpto, Min2
<1>3. secs \in Nat /\ _creditRunner(id, proven).creditedUntil = was + secs
  BY MeterFields
<1>4. secs # 0 => was + secs = upto
  <2> HIDE DEF upto
  <2> SUFFICES ASSUME secs # 0 PROVE was + secs = upto
    OBVIOUS
  <2>1. secs = upto - was
    BY DEF CreditSecs, upto
  <2> HIDE DEF secs
  <2> QED BY <1>1, <1>2, <2>1
<1>5. dep[id].runner # NoEnclave => was >= paidUpto[id]
  BY DEF PayInv, NoSecondPaidTwice
<1>6. paidUpto' = IF secs = 0 THEN paidUpto ELSE [paidUpto EXCEPT ![id] = upto]
  BY DEF Credited
<1> HIDE DEF secs, upto, was
<1> QED BY <1>1, <1>2, <1>3, <1>4, <1>5, <1>6

\* A step that runs one meter, and leaves it where _creditRunner does, resets
\* it to the clock, or ends the lease, keeps the pay history behind it.
LEMMA MeteredKeeps ==
    ASSUME IInv, PayInv, NEW id \in Ids, NEW proven \in Nat, Credited(id, proven),
           now' = now,
           \A i \in Ids : i # id => /\ dep'[i].runner = dep[i].runner
                                    /\ earn'[i] = earn[i],
           \/ /\ dep'[id].runner = dep[id].runner
              /\ earn'[id].creditedUntil = _creditRunner(id, proven).creditedUntil
           \/ earn'[id].creditedUntil = now
           \/ dep'[id].runner = NoEnclave
    PROVE  PayInv'
<1>1. /\ paidUpto' \in [Ids -> Nat] /\ now \in Nat
      /\ \A i \in Ids : i # id => paidUpto'[i] = paidUpto[i]
      /\ paidUpto'[id] <= now
      /\ dep[id].runner # NoEnclave =>
             _creditRunner(id, proven).creditedUntil >= paidUpto'[id]
  BY CreditedFacts DEF IInv, TypeOK
<1>2. \A i \in Ids : paidUpto'[i] <= now'
  BY <1>1 DEF PayInv
<1>3. ASSUME NEW i \in Ids, dep'[i].runner # NoEnclave
      PROVE  earn'[i].creditedUntil >= paidUpto'[i]
  <2>1. CASE i # id
    BY <1>1, <1>3, <2>1 DEF PayInv, NoSecondPaidTwice
  <2>2. CASE i = id
    BY <1>1, <1>3, <2>2
  <2> QED BY <2>1, <2>2
<1> QED BY <1>1, <1>2, <1>3 DEF PayInv, NoSecondPaidTwice

\* Every audited step keeps the pay history behind the meters.
LEMMA PayKeeps == ASSUME IInv, PayInv, [PayNext]_auditVars PROVE PayInv'
<1>1. \A id \in Ids : provenUntil[id] \in Nat
  BY DEF IInv, TypeOK
<1>2. CASE AuditedPurchase
  <2>1. PICK id \in Ids :
          /\ \/ \E a \in Operators, e \in Enclaves : claim(a, id, e)
             \/ \E a \in Users, shares \in ShareChoices : setShares(a, id, shares)
          /\ Credited(id, provenUntil[id])
    BY <1>2 DEF AuditedPurchase
  <2>2. CASE \E a \in Operators, e \in Enclaves : claim(a, id, e)
    <3>1. Elsewhere(id) /\ earn'[id].creditedUntil = now
      BY <2>2, ClaimEffect
    <3> QED BY <1>1, <2>1, <3>1, MeteredKeeps DEF Elsewhere
  <2>3. CASE \E a \in Users, shares \in ShareChoices : setShares(a, id, shares)
    <3>1. /\ Elsewhere(id) /\ dep'[id].runner = dep[id].runner
          /\ earn'[id].creditedUntil
               = _creditRunner(id, provenUntil[id]).creditedUntil
      BY <2>3, SetSharesEffect
    <3> QED BY <1>1, <2>1, <3>1, MeteredKeeps DEF Elsewhere
  <2> QED BY <2>1, <2>2, <2>3
<1>3. CASE AuditedCredit
  <2>1. PICK id \in Ids : MeteringCall(id) /\ Credited(id, provenUntil[id])
    BY <1>3 DEF AuditedCredit
  <2>2. CASE settle(id)
    <3>1. /\ earn'[id] = _creditRunner(id, provenUntil[id])
          /\ \A i \in Ids : i # id => earn'[i] = earn[i]
          /\ UNCHANGED <<now, dep>>
      BY <1>1, <2>2, SettleEffect DEF settle
    <3> QED BY <1>1, <2>1, <3>1, MeteredKeeps
  <2>3. ASSUME NEW a \in Operators, renew(a, id) PROVE PayInv'
    <3>1. /\ Elsewhere(id) /\ dep'[id].runner = dep[id].runner
          /\ earn'[id] = _creditRunner(id, provenUntil[id])
      BY <2>3, RenewEffect
    <3> QED BY <1>1, <2>1, <3>1, MeteredKeeps DEF Elsewhere
  <2>4. ASSUME NEW a \in Operators, release(a, id) PROVE PayInv'
    <3>1. Elsewhere(id) /\ dep'[id].runner = NoEnclave
      BY <2>4, ReleaseEffect
    <3> QED BY <1>1, <2>1, <3>1, MeteredKeeps DEF Elsewhere
  <2>5. ASSUME NEW out, PaidOut(id, out), QuietLeases PROVE PayInv'
    BY <1>1, <2>1, <2>5, MeteredKeeps DEF PaidOut, QuietLeases
  <2>6. ASSUME NEW a \in Addresses, refund(a, id) PROVE PayInv'
    BY <2>5, <2>6, RefundEffect, BalanceCallsQuiet
  <2>7. ASSUME NEW a \in Addresses, sweepEscrow(a, id) PROVE PayInv'
    BY <2>5, <2>7, SweepEffect, OtherCallsQuiet DEF sweepEscrow
  <2> QED BY <2>1, <2>2, <2>3, <2>4, <2>6, <2>7 DEF MeteringCall
<1>4. CASE AuditedProof
  <2>1. PICK id \in Ids, upto \in 0..MaxTime :
          creditProven(id, upto) /\ Credited(id, provenUntil'[id])
    BY <1>4 DEF AuditedProof
  <2> DEFINE proven == Min2(upto, Min2(now, dep[id].leaseUntil))
  <2>2. proven \in Nat
    <3>1. now \in Nat /\ dep[id].leaseUntil \in Nat /\ upto \in Nat
      BY BoundAssumption DEF IInv, TypeOK, Deployment
    <3> QED BY <3>1 DEF Min2
  <2>3. /\ earn' = [earn EXCEPT ![id] = _creditRunner(id, proven)]
        /\ earned6' = CreditOperator(id, proven)
        /\ provenUntil' = [provenUntil EXCEPT ![id] = proven]
        /\ UNCHANGED <<now, dep, bond, usdcHeld>>
    BY <2>1 DEF creditProven
  <2>4. provenUntil'[id] = proven
    BY <2>3 DEF IInv, TypeOK
  <2> HIDE DEF proven
  <2>5. /\ earn'[id] = _creditRunner(id, proven)
        /\ \A i \in Ids : i # id => earn'[i] = earn[i]
    BY <2>2, <2>3, SettleEffect
  <2> QED BY <2>1, <2>2, <2>3, <2>4, <2>5, MeteredKeeps
<1>5. CASE UnmeteredStep /\ UNCHANGED histories
  <2>1. MetersStand /\ paidUpto' = paidUpto
    BY <1>5, UnmeteredStands DEF histories, payHistory
  <2>2. now \in Nat /\ now' \in Nat
    BY <1>5, ClockSteps, StepsOfTheLedger DEF IInv, TypeOK
  <2> QED BY <2>1, <2>2 DEF PayInv, NoSecondPaidTwice, MetersStand
<1>6. CASE UNCHANGED auditVars
  BY <1>6 DEF auditVars, vars, recordVars, histories, payHistory, PayInv,
              NoSecondPaidTwice
<1> QED BY <1>2, <1>3, <1>4, <1>5, <1>6 DEF PayNext

\* The history starts empty, behind every meter.
LEMMA PayStarts == ASSUME AuditInit PROVE PayInv
BY DEF AuditInit, Init, EmptyRecord, PayInv, NoSecondPaidTwice

\* No second of a record's life is ever paid for twice, whatever the order of
\* renewals, resizes, releases, failovers and changes of metering regime.
THEOREM SecondsPaidOnce == PaySpec => []NoSecondPaidTwice
<1>1. PayInv => NoSecondPaidTwice
  BY DEF PayInv
<1>2. IInv /\ PayInv /\ [PayNext]_auditVars => PayInv'
  BY PayKeeps
<1> QED BY <1>1, <1>2, PayStarts, AuditedInvariant, PTL DEF PaySpec

-----------------------------------------------------------------------------
(* A bond outlives every claim it authorized                                 *)

\* The shortest delay is one of the delays, and none is shorter.
LEMMA ShortestDelay ==
    /\ MinExitDelay \in ExitDelays /\ MinExitDelay \in Nat
    /\ \A d \in ExitDelays : d \in Nat /\ MinExitDelay <= d
<1>1. /\ InitialConfig.bondExitDelay \in ExitDelays /\ ExitDelays \subseteq Nat
      /\ ExitDelays # {}
  BY InputAssumption, AdminAssumption DEF ExitDelays, Config
<1>2. IsWellFoundedOn(OpToRel(<, Nat), Nat)
  BY NatLessThanWellFounded, Zenon
<1>3. PICK d \in ExitDelays : \A o \in ExitDelays : ~ (<<o, d>> \in OpToRel(<, Nat))
  <2> DEFINE R == OpToRel(<, Nat)
  <2>1. IsWellFoundedOn(R, Nat)
    BY <1>2
  <2> HIDE DEF R
  <2>2. \E d \in ExitDelays : \A o \in ExitDelays : ~ (<<o, d>> \in R)
    BY <1>1, <2>1, WFMin
  <2> QED BY <2>2 DEF R
<1>4. \A o \in ExitDelays : ~ (o < d)
  BY <1>1, <1>3, Zenon DEF OpToRel
<1>5. \A o \in ExitDelays : d <= o
  BY <1>1, <1>4
<1>6. /\ MinExitDelay \in ExitDelays
      /\ \A o \in ExitDelays : MinExitDelay <= o
  BY <1>5, Zenon DEF MinExitDelay
<1> QED BY <1>1, <1>6

\* The bond history is typed and behind the clock, the exit delay is one the
\* admin chose, and a bond on its way out leaves a whole delay after the last
\* claim it authorized.
BondInv ==
    /\ bondedClaimAt \in [Addresses -> Nat]
    /\ \A a \in Addresses : bondedClaimAt[a] <= now
    /\ cfg.bondExitDelay \in ExitDelays
    /\ \A a \in Addresses : bond[a].exitAt # 0 /\ bondedClaimAt[a] > 0 =>
           bond[a].exitAt >= bondedClaimAt[a] + MinExitDelay

\* The exit delay changes only to one of the admin's choices.
LEMMA DelayChosen ==
    ASSUME IInv, Next
    PROVE  cfg'.bondExitDelay \in {cfg.bondExitDelay} \cup ExitDelayChoices
<1>1. cfg \in Config
  BY DEF IInv, TypeOK
<1>2. CASE PolicyStep
  <2>1. ASSUME NEW a \in Addresses, NEW bps \in BpsChoices, setRunnerBps(a, bps)
        PROVE  cfg'.bondExitDelay = cfg.bondExitDelay
    BY <1>1, <2>1, SMT DEF setRunnerBps, SetCfg, Config
  <2>2. ASSUME NEW a \in Addresses, NEW b \in BondChoices,
               NEW delay \in ExitDelayChoices, setClaimBond(a, b, delay)
        PROVE  cfg'.bondExitDelay = delay
    BY <1>1, <2>2, SMT DEF setClaimBond, SetCfg, Config
  <2>3. ASSUME NEW a \in Addresses, NEW at \in CutoverChoices,
               setProofRequiredFrom(a, at)
        PROVE  cfg'.bondExitDelay = cfg.bondExitDelay
    BY <1>1, <2>3, SMT DEF setProofRequiredFrom, SetCfg, Config
  <2>4. ASSUME NEW a \in Addresses, NEW s \in LeaseSecChoices, setLeaseSec(a, s)
        PROVE  cfg'.bondExitDelay = cfg.bondExitDelay
    BY <1>1, <2>4, SMT DEF setLeaseSec, SetCfg, Config
  <2>5. ASSUME NEW a \in Addresses, setProver(a)
        PROVE  cfg'.bondExitDelay = cfg.bondExitDelay
    BY <1>1, <2>5, SMT DEF setProver, SetCfg, Config
  <2> QED BY <1>2, <2>1, <2>2, <2>3, <2>4, <2>5 DEF PolicyStep
<1>3. CASE GovernanceStep
  <2>1. ASSUME NEW a \in Addresses, retire(a)
        PROVE  cfg'.bondExitDelay = cfg.bondExitDelay
    BY <1>1, <2>1, SMT DEF retire, SetCfg, Config
  <2>2. ASSUME NEW a \in Addresses, NEW m \in MaxGpuChoices, setMaxGpuMilli(a, m)
        PROVE  cfg'.bondExitDelay = cfg.bondExitDelay
    BY <1>1, <2>2, SMT DEF setMaxGpuMilli, SetCfg, Config
  <2>3. ASSUME NEW a \in Addresses, NEW f \in MaxFeeChoices, setMaxFee(a, f)
        PROVE  cfg'.bondExitDelay = cfg.bondExitDelay
    BY <1>1, <2>3, SMT DEF setMaxFee, SetCfg, Config
  <2>4. ASSUME NEW a \in Addresses, NEW on \in BOOLEAN, setEthUsdFeed(a, on)
        PROVE  cfg'.bondExitDelay = cfg.bondExitDelay
    BY <1>1, <2>4, SMT DEF setEthUsdFeed, SetCfg, Config
  <2>5. ASSUME NEW a \in Addresses, NEW p \in Addresses, setPayout(a, p)
        PROVE  cfg'.bondExitDelay = cfg.bondExitDelay
    BY <1>1, <2>5, SMT DEF setPayout, SetCfg, Config
  <2>6. ASSUME NEW a \in Addresses, NEW o \in Addresses, setOwner(a, o)
        PROVE  cfg'.bondExitDelay = cfg.bondExitDelay
    BY <1>1, <2>6, SMT DEF setOwner, SetCfg, Config
  <2>7. ASSUME NEW a \in Addresses, acceptOwnership(a)
        PROVE  cfg'.bondExitDelay = cfg.bondExitDelay
    BY <1>1, <2>7, SMT DEF acceptOwnership, Config
  <2> QED BY <1>3, <2>1, <2>2, <2>3, <2>4, <2>5, <2>6, <2>7 DEF GovernanceStep
<1>4. CASE ImportStep
  <2>1. ASSUME NEW a \in Addresses, sealImports(a)
        PROVE  cfg'.bondExitDelay = cfg.bondExitDelay
    BY <1>1, <2>1, SMT DEF sealImports, SetCfg, Config
  <2>2. ASSUME NEW a \in Addresses, NEW id \in Ids,
               \/ \E item \in ImportRecords : importDeployments(a, id, item)
               \/ \E f \in FeeChoices : importFees(a, id, f)
               \/ \E r \in CapChoices : importEarn(a, id, r)
               \/ \E cap \in CapChoices \cup {0} : importCaps(a, id, cap)
        PROVE  cfg' = cfg
    BY <2>2, Zenon DEF importDeployments, importFees, importEarn, importCaps
  <2> QED BY <1>4, <2>1, <2>2 DEF ImportStep
<1>5. CASE Tick \/ RegistryStep \/ CreateStep \/ ContentStep
  <2>1. CASE Tick \/ RegistryStep
    BY <2>1 DEF Tick, RegistryStep
  <2>2. CASE CreateStep
    <3>1. PICK a \in Users, id \in Ids, ref \in AppRefs, c \in Configs,
               shares \in ShareChoices, f \in FeeChoices, cap \in CapChoices :
                 create(a, id, ref, c, shares, f, cap)
      BY <2>2 DEF CreateStep
    <3> QED BY <3>1 DEF create
  <2>3. CASE ContentStep
    BY <2>3 DEF ContentStep, setAppRef, setConfig
  <2> QED BY <1>5, <2>1, <2>2, <2>3
<1>6. CASE OwnerStep
  BY <1>6 DEF OwnerStep, setMaxRate, setShares, setActive, transferDeployment
<1>7. CASE FundingStep \/ BackingStep
  BY <1>7 DEF FundingStep, BackingStep, fund, fundEth, fundEscrow
<1>8. CASE LeaseStep
  BY <1>8 DEF LeaseStep, claim, renew, release
<1>9. CASE PayoutStep \/ ProverStep
  BY <1>9 DEF PayoutStep, ProverStep, settle, withdrawEarnings, refund,
              sweepEscrow, creditProven
<1>10. CASE BondStep
  BY <1>10 DEF BondStep, postBond, requestBondExit, withdrawBond, slashBond
<1> QED BY <1>2, <1>3, <1>4, <1>5, <1>6, <1>7, <1>8, <1>9, <1>10 DEF Next

\* Only posting, exiting, withdrawing and slashing write a bond.
LEMMA BondWriters == ASSUME Next PROVE BondStep \/ bond' = bond
<1>1. CASE Tick \/ RegistryStep
  BY <1>1 DEF Tick, RegistryStep, moneyVars
<1>2. CASE CreateStep
  <2>1. PICK a \in Users, id \in Ids, ref \in AppRefs, c \in Configs,
             shares \in ShareChoices, f \in FeeChoices, cap \in CapChoices :
               create(a, id, ref, c, shares, f, cap)
    BY <1>2 DEF CreateStep
  <2> QED BY <2>1 DEF create, moneyVars
<1>3. CASE ContentStep
  BY <1>3 DEF ContentStep, setAppRef, setConfig, moneyVars
<1>4. CASE OwnerStep
  BY <1>4 DEF OwnerStep, setMaxRate, setShares, setActive, transferDeployment,
              moneyVars
<1>5. CASE FundingStep \/ BackingStep
  BY <1>5 DEF FundingStep, BackingStep, fund, fundEth, fundEscrow, moneyVars
<1>6. CASE LeaseStep
  BY <1>6 DEF LeaseStep, claim, renew, release
<1>7. CASE PayoutStep \/ ProverStep
  BY <1>7 DEF PayoutStep, ProverStep, settle, withdrawEarnings, refund,
              sweepEscrow, creditProven
<1>8. CASE ImportStep
  BY <1>8, Zenon DEF ImportStep, importDeployments, importFees, importEarn,
                     importCaps, sealImports, SetCfg, moneyVars
<1>9. CASE PolicyStep
  BY <1>9 DEF PolicyStep, setRunnerBps, setClaimBond, setProofRequiredFrom,
              setLeaseSec, setProver, SetCfg, moneyVars
<1>10. CASE GovernanceStep
  BY <1>10 DEF GovernanceStep, retire, setMaxGpuMilli, setMaxFee, setEthUsdFeed,
               setPayout, setOwner, acceptOwnership, SetCfg, moneyVars
<1> QED BY <1>1, <1>2, <1>3, <1>4, <1>5, <1>6, <1>7, <1>8, <1>9, <1>10 DEF Next

\* An exit asked for now ends a whole delay from now; no other bond call starts
\* or shortens one.
LEMMA ExitTimes ==
    ASSUME IInv, BondStep
    PROVE  \A a \in Addresses :
              bond'[a].exitAt \in {bond[a].exitAt, 0, now + cfg.bondExitDelay}
<1>1. bond \in [Addresses -> Bond]
  BY DEF IInv, TypeOK
<1>2. ASSUME NEW a \in Addresses, NEW b,
             b.exitAt \in {bond[a].exitAt, 0, now + cfg.bondExitDelay},
             bond' = [bond EXCEPT ![a] = b]
      PROVE  \A x \in Addresses :
                bond'[x].exitAt \in {bond[x].exitAt, 0, now + cfg.bondExitDelay}
  <2>1. bond'[a] = b /\ \A x \in Addresses : x # a => bond'[x] = bond[x]
    BY <1>1, <1>2
  <2> QED BY <1>2, <2>1
<1>3. PICK a \in Operators :
          \/ \E v \in FundAmounts : postBond(a, v)
          \/ requestBondExit(a)
          \/ withdrawBond(a)
          \/ \E b \in Addresses, v \in FundAmounts : slashBond(b, a, v)
  BY DEF BondStep
<1>4. a \in Addresses /\ bond[a] \in Bond
  BY <1>1, AddressesOf
<1>5. ASSUME NEW b, b.exitAt \in {bond[a].exitAt, 0, now + cfg.bondExitDelay},
             bond' = [bond EXCEPT ![a] = b]
      PROVE  \A x \in Addresses :
                bond'[x].exitAt \in {bond[x].exitAt, 0, now + cfg.bondExitDelay}
  BY <1>2, <1>4, <1>5
<1>6. CASE \E v \in FundAmounts : postBond(a, v)
  <2>1. PICK v \in FundAmounts : postBond(a, v)
    BY <1>6
  <2> DEFINE n == bond[a].amount6 + v
             nb == [amount6 |-> n, exitAt |-> 0]
  <2>2. bond' = [bond EXCEPT ![a] = nb] /\ nb.exitAt = 0
    BY <2>1 DEF postBond
  <2> HIDE DEF nb
  <2> QED BY <2>2, <1>5
<1>7. CASE requestBondExit(a)
  <2> DEFINE at == now + cfg.bondExitDelay
             nb == [bond[a] EXCEPT !.exitAt = at]
  <2>1. bond' = [bond EXCEPT ![a] = nb]
    BY <1>7 DEF requestBondExit
  <2> HIDE DEF at
  <2>2. nb.exitAt = at
    BY <1>4, SMT DEF Bond
  <2> HIDE DEF nb
  <2> QED BY <2>1, <2>2, <1>5 DEF at
<1>8. CASE withdrawBond(a)
  <2> DEFINE nb == [amount6 |-> 0, exitAt |-> 0]
  <2>1. bond' = [bond EXCEPT ![a] = nb] /\ nb.exitAt = 0
    BY <1>8 DEF withdrawBond
  <2> HIDE DEF nb
  <2> QED BY <2>1, <1>5
<1>9. CASE \E b \in Addresses, v \in FundAmounts : slashBond(b, a, v)
  <2>1. PICK b \in Addresses, v \in FundAmounts : slashBond(b, a, v)
    BY <1>9
  <2> DEFINE n == bond[a].amount6 - v
             nb == [bond[a] EXCEPT !.amount6 = n]
  <2>2. bond' = [bond EXCEPT ![a] = nb]
    BY <2>1 DEF slashBond
  <2> HIDE DEF n
  <2>3. nb.exitAt = bond[a].exitAt
    BY <1>4, SMT DEF Bond
  <2> HIDE DEF nb
  <2> QED BY <2>2, <2>3, <1>5
<1> QED BY <1>3, <1>6, <1>7, <1>8, <1>9

\* Every audited step keeps a whole delay between a claim and the exit of the
\* bond that authorized it.
LEMMA BondKeeps == ASSUME IInv, BondInv, [BondNext]_auditVars PROVE BondInv'
<1>1. /\ now \in Nat /\ bond \in [Addresses -> Bond]
      /\ \A a \in Addresses : bond[a].exitAt \in Nat
  BY DEF IInv, TypeOK, Bond
<1>2. CASE BondedClaim
  <2>1. PICK a \in Operators, id \in Ids, e \in Enclaves :
          /\ claim(a, id, e)
          /\ bondedClaimAt' = IF cfg.claimBond6 > 0
                                THEN [bondedClaimAt EXCEPT ![a] = now]
                                ELSE bondedClaimAt
    BY <1>2 DEF BondedClaim
  <2>2. /\ BondedToClaim(a) /\ UNCHANGED <<now, cfg, bond>>
    BY <2>1, Zenon DEF claim
  <2>3. CASE cfg.claimBond6 > 0
    <3>1. bond[a].exitAt = 0 /\ a \in Addresses
      BY <2>2, <2>3, AddressesOf DEF BondedToClaim
    <3>2. bondedClaimAt' = [bondedClaimAt EXCEPT ![a] = now]
      BY <2>1, <2>3
    <3> QED BY <1>1, <2>2, <3>1, <3>2 DEF BondInv
  <2>4. CASE ~ (cfg.claimBond6 > 0)
    BY <2>1, <2>2, <2>4 DEF BondInv
  <2> QED BY <2>3, <2>4
<1>3. CASE UnclaimedStep /\ UNCHANGED histories
  <2>1. Next /\ bondedClaimAt' = bondedClaimAt
    <3>1. BondNext
      BY <1>3 DEF BondNext
    <3> QED BY <1>3, <3>1, StepsOfTheLedger DEF histories
  <2>2. now' \in Nat /\ now' >= now
    BY <1>1, <2>1, ClockSteps
  <2>3. cfg'.bondExitDelay \in ExitDelays
    BY <2>1, DelayChosen DEF BondInv, ExitDelays
  <2>4. ASSUME NEW a \in Addresses, bond'[a].exitAt # 0, bondedClaimAt[a] > 0
        PROVE  bond'[a].exitAt >= bondedClaimAt[a] + MinExitDelay
    <3>1. bond'[a].exitAt \in {bond[a].exitAt, 0, now + cfg.bondExitDelay}
      BY <2>1, BondWriters, ExitTimes
    <3>2. CASE bond'[a].exitAt = bond[a].exitAt
      BY <2>4, <3>2 DEF BondInv
    <3>3. CASE bond'[a].exitAt = now + cfg.bondExitDelay
      <4>1. /\ cfg.bondExitDelay \in Nat /\ MinExitDelay \in Nat
            /\ MinExitDelay <= cfg.bondExitDelay
        BY ShortestDelay DEF BondInv
      <4>2. bondedClaimAt[a] \in Nat /\ bondedClaimAt[a] <= now
        BY DEF BondInv
      <4> QED BY <1>1, <3>3, <4>1, <4>2
    <3> QED BY <2>4, <3>1, <3>2, <3>3
  <2>5. \A a \in Addresses : bondedClaimAt[a] \in Nat /\ bondedClaimAt[a] <= now'
    BY <1>1, <2>2 DEF BondInv
  <2> QED BY <2>1, <2>2, <2>3, <2>4, <2>5 DEF BondInv
<1>4. CASE UNCHANGED auditVars
  BY <1>4 DEF auditVars, vars, moneyVars, histories, BondInv
<1> QED BY <1>2, <1>3, <1>4 DEF BondNext

\* Nobody has claimed, and no bond is posted.
LEMMA BondStarts == ASSUME AuditInit PROVE BondInv
BY DEF AuditInit, Init, BondInv, ExitDelays

\* A bond that authorized a claim stays slashable for at least the shortest
\* exit delay, whatever the admin does to the delay in between.
THEOREM BondOutlives == BondSpec => BondOutlivesClaim
<1>1. ASSUME IInv, BondInv
      PROVE  \A a \in Addresses :
                withdrawBond(a) /\ bondedClaimAt[a] > 0
                    => now >= bondedClaimAt[a] + MinExitDelay
  <2> TAKE a \in Addresses
  <2> HAVE withdrawBond(a) /\ bondedClaimAt[a] > 0
  <2>1. bond[a].exitAt # 0 /\ now >= bond[a].exitAt
    BY DEF withdrawBond
  <2>2. bond[a].exitAt >= bondedClaimAt[a] + MinExitDelay
    BY <1>1, <2>1 DEF BondInv
  <2>3. /\ now \in Nat /\ bond[a].exitAt \in Nat
        /\ bondedClaimAt[a] \in Nat /\ MinExitDelay \in Nat
    BY <1>1, ShortestDelay DEF IInv, TypeOK, Bond, BondInv
  <2> QED BY <2>1, <2>2, <2>3
<1>2. IInv /\ BondInv /\ [BondNext]_auditVars => BondInv'
  BY BondKeeps
<1> QED BY <1>1, <1>2, BondStarts, AuditedInvariant, PTL
        DEF BondSpec, BondOutlivesClaim
===============================================================================
