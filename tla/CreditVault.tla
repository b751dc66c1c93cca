---------------------------- MODULE CreditVault ----------------------------
(***************************************************************************)
(* Credit vaults (src/contracts/EnclaveCreditVault.sol): prepaid credit    *)
(* only a passkey's signature moves.  The page asks the relay to prepare   *)
(* an operation, checks what it is about to sign, and taps                 *)
(* (src/site/js/core/vault.js); the relay, or anybody, submits the         *)
(* signature (src/relay/billing.js, vaultsvc.js).  Meanwhile a new factory *)
(* is published and old vaults are emptied into their successors.          *)
(***************************************************************************)
EXTENDS Integers, FiniteSets, Functions

CONSTANTS
    Factories,   \* 1 .. n, published in this order
    Keys,        \* the customer's passkeys; 1 is the one the vaults are minted from
    Credit,      \* bound: what the customer buys
    Life,        \* ticks a prepared operation stays valid
    MaxTime,     \* bound of the clock
    MaxTaps      \* bound: signatures given

VARIABLES
    book,        \* the factory of the address book
    cached,      \* the relay's copy of it
    vault,       \* per factory, the customer's vault: [made, keys, nonce, bal, dep]
    treasury,    \* refunded to the company, to be paid back to the card
    bought,      \* deposits so far
    page,        \* the operation under way on the page
    taps,        \* signatures given: [n, by, op, amt, to, nonce, till], and what was typed
    landed,      \* history: how often each signature had its effect
    now

vars == <<book, cached, vault, treasury, bought, page, taps, landed, now>>

Root == 1
Closed == [st |-> "closed"]
Moves == {"fund", "refund"}    \* the operations that take credit out; a fund may also create its record
NewVault == [made |-> FALSE, keys |-> {}, nonce |-> 0, bal |-> 0, dep |-> 0]

Init ==
    /\ book = 1 /\ cached = 1 /\ vault = [f \in Factories |-> NewVault]
    /\ treasury = 0 /\ bought = 0 /\ page = Closed /\ taps = {} /\ landed = [n \in 1 .. MaxTaps |-> 0] /\ now = 0

Made(v) == IF v.made THEN v ELSE [v EXCEPT !.made = TRUE, !.keys = {Root}]    \* createVault, initialize

-----------------------------------------------------------------------------
(* The relay                                                                 *)

\* ensureVault, depositToVault: into the vault of the factory the relay knows.
Deposit ==
    /\ bought < Credit /\ bought' = bought + 1
    /\ LET v == Made(vault[cached]) IN vault' = [vault EXCEPT ![cached] = [v EXCEPT !.bal = @ + 1]]
    /\ UNCHANGED <<book, cached, treasury, page, taps, landed, now>>

\* factoryAddress: the book is read again when the copy is old.
Refresh == cached' = book /\ UNCHANGED <<book, vault, treasury, bought, page, taps, landed, now>>

\* vault/prepare: the amount of a deployment follows today's prices, not those the page showed.
Prepare(op, typed, amt) ==
    /\ page = Closed /\ amt >= typed /\ (op # "fund" => amt = typed)
    /\ op \in Moves => typed > 0 /\ amt <= vault[cached].bal
    /\ op = "control" => amt = 0
    /\ page' = [st |-> "prepared", op |-> op, typed |-> typed, amt |-> amt, to |-> cached,
                nonce |-> vault[cached].nonce, till |-> now + Life]
    /\ UNCHANGED <<book, cached, vault, treasury, bought, taps, landed, now>>

-----------------------------------------------------------------------------
(* The page                                                                  *)

\* assertIsWhatIAskedFor: never more than was typed.
AsAsked(p) == p.amt <= p.typed

Given(p, k) == taps' = taps \union {[n |-> Cardinality(taps) + 1, by |-> k, op |-> p.op, amt |-> p.amt, typed |-> p.typed,
                                      to |-> p.to, nonce |-> p.nonce, till |-> p.till]}
\* vaultOp: checked, then one tap of the vault's own passkey; or it is declined.
Tap ==
    /\ page.st = "prepared" /\ page' = Closed
    /\ IF AsAsked(page) /\ Cardinality(taps) < MaxTaps THEN Given(page, Root) ELSE UNCHANGED taps
    /\ UNCHANGED <<book, cached, vault, treasury, bought, landed, now>>

\* Neither page nor relay offers keys or a cancel (buildControlCall's cancel is not among
\* the actions prepare accepts): those are signed elsewhere, with any registered key.
TapElsewhere(f, k, op) ==
    /\ vault[f].made /\ k \in vault[f].keys /\ Cardinality(taps) < MaxTaps
    /\ Given([op |-> op, amt |-> 0, typed |-> 0, to |-> f, nonce |-> vault[f].nonce, till |-> now + Life], k)
    /\ UNCHANGED <<book, cached, vault, treasury, bought, page, landed, now>>

-----------------------------------------------------------------------------
(* The contract                                                              *)

\* Mutant: the nonce stays.
NonceKept(v, t) == v.nonce
\* _auth: every executed operation takes the nonce it was signed for.
NextNonce(v, t) == v.nonce + 1

\* _verify, _auth: this vault, this nonce, in time, by a registered key.
Signed(f, t) == t.to = f /\ t.nonce = vault[f].nonce /\ now <= t.till /\ t.by \in vault[f].keys

\* The key an addKey names, and the one a removeKey does.
Extra == CHOOSE k \in Keys : k # Root
Allowed(v, t) ==
    CASE t.op \in Moves -> t.amt > 0 /\ v.bal >= t.amt
      [] t.op \in {"control", "cancel"} -> v.dep > 0
      [] t.op = "addkey" -> Extra \notin v.keys
      [] t.op = "dropkey" -> Root \in v.keys /\ Cardinality(v.keys) > 1

\* deployAndFund, fundDeployment, refundToTreasury, controlDeployment (a cancel, the
\* ledger's refund, comes back into the vault; the rest moves nothing), addKey, removeKey.
Effect(v, t) ==
    LET w == [v EXCEPT !.nonce = NextNonce(v, t)]
    IN  CASE t.op = "fund" -> [w EXCEPT !.bal = @ - t.amt, !.dep = @ + t.amt]
          [] t.op = "refund" -> [w EXCEPT !.bal = @ - t.amt]
          [] t.op = "control" -> w
          [] t.op = "cancel" -> [w EXCEPT !.bal = @ + v.dep, !.dep = 0]
          [] t.op = "addkey" -> [w EXCEPT !.keys = @ \union {Extra}]
          [] t.op = "dropkey" -> [w EXCEPT !.keys = @ \ {Root}]

\* Anybody submits, any number of times.  The relay (vault/exec) submits to the vault of
\* the factory it knows now, minting it first; an answer lost on the way back changes nothing.
Submit(t, byRelay) ==
    LET f == IF byRelay THEN cached ELSE t.to
        v == IF byRelay THEN Made(vault[f]) ELSE vault[f]
        runs == v.made /\ Signed(f, t) /\ Allowed(v, t)
    IN  /\ runs \/ v # vault[f]
        /\ vault' = [vault EXCEPT ![f] = IF runs THEN Effect(v, t) ELSE v]
        /\ treasury' = treasury + IF runs /\ t.op = "refund" THEN t.amt ELSE 0
        /\ landed' = [landed EXCEPT ![t.n] = @ + IF runs THEN 1 ELSE 0]
        /\ UNCHANGED <<book, cached, bought, page, taps, now>>

\* A new factory in the book; the recovery admin moves what an old vault holds.
Publish == book + 1 \in Factories /\ book' = book + 1
           /\ UNCHANGED <<cached, vault, treasury, bought, page, taps, landed, now>>
Mint == ~vault[book].made /\ vault' = [vault EXCEPT ![book] = Made(@)]
        /\ UNCHANGED <<book, cached, treasury, bought, page, taps, landed, now>>
MigrateToSuccessor(f) ==
    /\ f # book /\ vault[book].made /\ vault[f].bal > 0
    /\ vault' = [vault EXCEPT ![f].bal = 0, ![book].bal = @ + vault[f].bal]
    /\ UNCHANGED <<book, cached, treasury, bought, page, taps, landed, now>>

Tick == now < MaxTime /\ now' = now + 1
        /\ UNCHANGED <<book, cached, vault, treasury, bought, page, taps, landed>>

Next ==
    \/ Deposit \/ Refresh \/ Tap \/ Publish \/ Mint \/ Tick
    \/ (\E op \in Moves \union {"control"}, typed, amt \in 0 .. Credit : Prepare(op, typed, amt))
    \/ (\E f \in Factories, k \in Keys, op \in {"addkey", "dropkey", "cancel"} : TapElsewhere(f, k, op))
    \/ (\E t \in taps, byRelay \in BOOLEAN : Submit(t, byRelay))
    \/ (\E f \in Factories : MigrateToSuccessor(f))

Spec == Init /\ [][Next]_vars

-----------------------------------------------------------------------------
\* The signatures of one kind that had their effect, and what was typed for them.
Done(op) == {t \in taps : t.op = op /\ landed[t.n] > 0}
Typed(op) == SumFunction([t \in Done(op) |-> t.typed])

\* One tap, one effect, whoever submits it and how often, over vaults, successors and
\* lost answers; credit is only ever in the customer's vaults, their deployments or
\* the treasury, and what reached the treasury is within what was typed for a refund
\* that was tapped (_auth, migrateToSuccessor, assertIsWhatIAskedFor).
SpentAsTapped ==
    /\ \A n \in DOMAIN landed : landed[n] <= 1
    /\ SumFunction([f \in Factories |-> vault[f].bal + vault[f].dep]) + treasury = bought
    /\ treasury <= Typed("refund")
    /\ SumFunction([f \in Factories |-> vault[f].dep]) <= Typed("fund")
=============================================================================
