------------------------------- MODULE Treasury -------------------------------
(***************************************************************************)
(* What the ledger promises about the USDC it holds, without leases or     *)
(* prices: every unit belongs to one deployment's escrow, one operator's   *)
(* earnings or one operator's bond, and a step moves money of at most one  *)
(* of each.  Escrow only ever becomes earnings or leaves the contract.     *)
(***************************************************************************)
EXTENDS Integers, Functions

CONSTANTS Accounts, Payees

VARIABLES escrow, earned, bonded, held

treasuryVars == <<escrow, earned, bonded, held>>

TreasuryInit ==
    /\ escrow = [i \in Accounts |-> 0]
    /\ earned = [p \in Payees |-> 0]
    /\ bonded = [p \in Payees |-> 0]
    /\ held = 0

Deposit(i) ==
    /\ escrow'[i] >= escrow[i]
    /\ escrow' = [escrow EXCEPT ![i] = escrow'[i]]
    /\ held' = held + (escrow'[i] - escrow[i])
    /\ UNCHANGED <<earned, bonded>>

\* Escrow of i is credited to p, and the rest of what leaves i is paid out.
Disburse(i, p) ==
    LET credit == earned'[p] - earned[p]
        paid == escrow[i] - escrow'[i] - credit
    IN  /\ credit >= 0 /\ paid >= 0
        /\ escrow' = [escrow EXCEPT ![i] = escrow'[i]]
        /\ earned' = [earned EXCEPT ![p] = earned'[p]]
        /\ held' = held - paid
        /\ UNCHANGED bonded

Withdraw(p) ==
    /\ earned' = [earned EXCEPT ![p] = 0]
    /\ held' = held - earned[p]
    /\ UNCHANGED <<escrow, bonded>>

MoveBond(p) ==
    /\ bonded' = [bonded EXCEPT ![p] = bonded'[p]]
    /\ held' = held + (bonded'[p] - bonded[p])
    /\ UNCHANGED <<escrow, earned>>

TreasuryNext ==
    \/ \E i \in Accounts : Deposit(i)
    \/ \E i \in Accounts, p \in Payees : Disburse(i, p)
    \/ \E p \in Payees : Withdraw(p) \/ MoveBond(p)

TreasurySpec == TreasuryInit /\ [][TreasuryNext]_treasuryVars

\* Everything held is owed to somebody, and everything owed is held.
Solvency == held = SumFunction(escrow) + SumFunction(earned) + SumFunction(bonded)
=============================================================================
