------------------------------- MODULE Accounts -------------------------------
(***************************************************************************)
(* Relay accounts (src/relay/auth.js): passkeys, wallets and the device    *)
(* flow. Challenges, nonces and device codes are single use; handlers      *)
(* await the verification (or the vault's balance) between what they read  *)
(* and what they change.                                                   *)
(***************************************************************************)
EXTENDS Integers, Sequences, FiniteSets, SequencesExt

CONSTANTS
    Creds,      \* passkeys people hold
    Wallets,    \* wallets people hold
    MaxAccts,   \* bound: accounts ever made
    MaxTokens,  \* bound: challenges, nonces and device codes ever handed out
    MaxReqs,    \* bound: handlers waiting at once
    MaxFaults   \* bound: restarts

VARIABLES
    db, disk,   \* accounts.json in memory and on disk: [accs, byCred, byWallet]
    tokens,     \* token -> [kind, acct, st]: challenges, siweNonces, deviceReqs
    reqs,       \* handlers past their first await
    grants,     \* sessions minted: [tok, acct]
    born,       \* account ids ever drawn (random: never drawn twice)
    crossed,    \* two deletions of one account's passkeys were in hand at once
    faults

vars == <<db, disk, tokens, reqs, grants, born, crossed, faults>>

Accts == 1 .. MaxAccts
NoAcct == 0
Empty == [accs |-> [a \in {} |-> [keys |-> <<>>, wallets |-> {}]],
          byCred |-> [c \in Creds |-> NoAcct], byWallet |-> [w \in Wallets |-> NoAcct]]

Init ==
    /\ db = Empty /\ disk = Empty
    /\ tokens = <<>> /\ reqs = {} /\ grants = {} /\ born = 0 /\ crossed = FALSE
    /\ faults = MaxFaults

Live(a) == a \in DOMAIN db.accs
Session(a) == Live(a) /\ \E g \in grants : g.acct = a     \* verifyAccountSession
WithAcct(d, a, rec) == [d EXCEPT !.accs = [x \in DOMAIN d.accs \union {a} |->
                                              IF x = a THEN rec ELSE d.accs[x]]]

-----------------------------------------------------------------------------
(* Tokens                                                                    *)

Hand(kind, a) ==
    /\ Len(tokens) < MaxTokens
    /\ tokens' = Append(tokens, [kind |-> kind, acct |-> a, st |-> "open"])

\* Options, nonce, device/start: anyone may ask; register also adds to an account.
Mint ==
    /\ \/ \E kind \in {"authn", "siwe", "device"} : Hand(kind, NoAcct)
       \/ \E a \in DOMAIN db.accs \union {NoAcct} : (a # NoAcct => Session(a)) /\ Hand("reg", a)
    /\ UNCHANGED <<db, disk, reqs, grants, born, crossed, faults>>

Open(t, kind) == tokens[t].kind = kind /\ tokens[t].st = "open"
Spend(t) == tokens' = [tokens EXCEPT ![t].st = "spent"]

Expire ==
    /\ \E t \in 1 .. Len(tokens) : tokens[t].st # "spent" /\ Spend(t)
    /\ UNCHANGED <<db, disk, reqs, grants, born, crossed, faults>>

\* Mutant: the token lives until the answer is in.
TakeKeeps(t, r) ==
    /\ Cardinality(reqs) < MaxReqs
    /\ tokens' = tokens /\ reqs' = reqs \union {r}

\* Deleted before the verification is awaited: single use, even on failure.
Take(t, r) ==
    /\ Cardinality(reqs) < MaxReqs
    /\ Spend(t) /\ reqs' = reqs \union {r}

Req(op, t, c, a) == [op |-> op, tok |-> t, what |-> c, acct |-> a, idx |-> 0]

RegisterVerify(t) ==
    /\ Open(t, "reg")
    /\ \E c \in Creds : Take(t, Req("register", t, c, tokens[t].acct))
    /\ UNCHANGED <<db, disk, grants, born, crossed, faults>>

\* The account and the stored key are read before the await.
LoginVerify(t) ==
    /\ Open(t, "authn")
    /\ \E c \in Creds :
          LET a == db.byCred[c]
          IN  IF Live(a) /\ Contains(db.accs[a].keys, c) THEN Take(t, Req("login", t, c, a))
              ELSE Spend(t) /\ reqs' = reqs
    /\ UNCHANGED <<db, disk, grants, born, crossed, faults>>

SiweVerify(t) ==
    /\ Open(t, "siwe")
    /\ \E w \in Wallets, a \in {NoAcct} \union {a \in DOMAIN db.accs : Session(a)} :
          Take(t, Req(IF a = NoAcct THEN "siwe" ELSE "link", t, w, a))
    /\ UNCHANGED <<db, disk, grants, born, crossed, faults>>

-----------------------------------------------------------------------------
(* Past the await: everything that follows is one turn of the event loop     *)

Finish(r) == reqs' = reqs \ {r}
Grant(t, a) == grants' = grants \union {[tok |-> t, n |-> Cardinality(grants), acct |-> a]}
Refused(r) == Finish(r) /\ UNCHANGED <<db, grants, born>>
NewAcct == born + 1

Registered(r) ==
    /\ r.op = "register"
    /\ IF db.byCred[r.what] # NoAcct \/ (r.acct # NoAcct /\ ~Live(r.acct)) THEN Refused(r)
       ELSE LET a == IF r.acct = NoAcct THEN NewAcct ELSE r.acct
                old == IF Live(a) THEN db.accs[a] ELSE [keys |-> <<>>, wallets |-> {}]
            IN  /\ a \in Accts
                /\ db' = WithAcct([db EXCEPT !.byCred[r.what] = a], a,
                                  [old EXCEPT !.keys = Append(@, r.what)])
                /\ born' = IF r.acct = NoAcct THEN born + 1 ELSE born
                /\ Grant(r.tok, a) /\ Finish(r)
    /\ UNCHANGED <<disk, tokens, crossed, faults>>

LoggedIn(r) ==
    /\ r.op = "login"
    /\ Grant(r.tok, r.acct) /\ Finish(r)
    /\ UNCHANGED <<db, disk, tokens, born, crossed, faults>>

\* Find or create by wallet.
SiweSigned(r) ==
    /\ r.op = "siwe"
    /\ LET a == db.byWallet[r.what]
       IN  IF Live(a) THEN Grant(r.tok, a) /\ UNCHANGED <<db, born>>
           ELSE /\ NewAcct \in Accts
                /\ db' = WithAcct([db EXCEPT !.byWallet[r.what] = NewAcct], NewAcct,
                                  [keys |-> <<>>, wallets |-> {r.what}])
                /\ born' = born + 1
                /\ Grant(r.tok, NewAcct)
    /\ Finish(r)
    /\ UNCHANGED <<disk, tokens, crossed, faults>>

Linked(r) ==
    /\ r.op = "link"
    /\ IF db.byWallet[r.what] \notin {NoAcct, r.acct} THEN UNCHANGED db
       ELSE db' = [db EXCEPT !.byWallet[r.what] = r.acct,
                              !.accs[r.acct].wallets = @ \union {r.what}]
    /\ Finish(r)
    /\ UNCHANGED <<disk, tokens, grants, born, crossed, faults>>

\* The signature is bad, or the browser went away.
NotVerified(r) ==
    /\ r.op # "delete" /\ Refused(r)
    /\ UNCHANGED <<disk, tokens, crossed, faults>>

-----------------------------------------------------------------------------
(* The device flow                                                           *)

DeviceApprove(t, a) ==
    /\ Open(t, "device") /\ Session(a)
    /\ \E st \in {"approved", "denied"} :
          tokens' = [tokens EXCEPT ![t] = [@ EXCEPT !.st = st, !.acct = a]]
    /\ UNCHANGED <<db, disk, reqs, grants, born, crossed, faults>>

DeviceClaim(t) ==
    /\ tokens[t].kind = "device" /\ tokens[t].st \in {"approved", "denied"}
    /\ Spend(t)
    /\ IF tokens[t].st = "approved" THEN Grant(t, tokens[t].acct) ELSE grants' = grants
    /\ UNCHANGED <<db, disk, reqs, born, crossed, faults>>

-----------------------------------------------------------------------------
(* DELETE passkey: the index and the last-method rule are read first; the    *)
(* vault key waits for its balance before anything is removed.               *)

Without(d, a, c, i) ==
    [d EXCEPT !.byCred[c] = NoAcct,
              !.accs[a].keys = IF i <= Len(@) THEN RemoveAt(@, i) ELSE @]

DeletePasskey(a, c) ==
    /\ Session(a) /\ Contains(db.accs[a].keys, c)
    /\ LET i == CHOOSE i \in 1 .. Len(db.accs[a].keys) : db.accs[a].keys[i] = c
       IN  /\ Len(db.accs[a].keys) > 1 \/ db.accs[a].wallets # {}
           /\ IF i = 1 THEN /\ Cardinality(reqs) < MaxReqs
                            /\ reqs' = reqs \union {[op |-> "delete", tok |-> Cardinality(reqs),
                                                     what |-> c, acct |-> a, idx |-> i]}
                            /\ db' = db
              ELSE db' = Without(db, a, c, i) /\ reqs' = reqs
    /\ crossed' = (crossed \/ \E r \in reqs : r.op = "delete" /\ r.acct = a)
    /\ UNCHANGED <<disk, tokens, grants, born, faults>>

\* vaultInfo answered: the vault is empty, or holds credit or is unreachable.
BalanceRead(r) ==
    /\ r.op = "delete"
    /\ db' = Without(db, r.acct, r.what, r.idx) \/ db' = db
    /\ Finish(r)
    /\ UNCHANGED <<disk, tokens, grants, born, crossed, faults>>

-----------------------------------------------------------------------------
Flush ==
    /\ disk # db /\ disk' = db
    /\ UNCHANGED <<db, tokens, reqs, grants, born, crossed, faults>>

\* Tokens and handlers are memory only; sessions outlive the process.
Restart ==
    /\ faults > 0 /\ faults' = faults - 1
    /\ db' = disk /\ reqs' = {}
    /\ tokens' = [t \in DOMAIN tokens |-> [tokens[t] EXCEPT !.st = "spent"]]
    /\ UNCHANGED <<disk, grants, born, crossed>>

Next ==
    \/ Mint \/ Expire \/ Flush \/ Restart
    \/ \E t \in 1 .. Len(tokens) :
          \/ RegisterVerify(t) \/ LoginVerify(t) \/ SiweVerify(t) \/ DeviceClaim(t)
          \/ \E a \in DOMAIN db.accs : DeviceApprove(t, a)
    \/ \E r \in reqs : \/ Registered(r) \/ LoggedIn(r) \/ SiweSigned(r) \/ Linked(r)
                       \/ NotVerified(r) \/ BalanceRead(r)
    \/ \E a \in DOMAIN db.accs, c \in Creds : DeletePasskey(a, c)

Spec == Init /\ [][Next]_vars

-----------------------------------------------------------------------------
SingleUse == \A g, h \in grants : g.tok = h.tok => g = h

\* A passkey or a wallet signs in to the one account that lists it.
OneOwner ==
    \A a \in DOMAIN db.accs :
        /\ \A c \in Creds : Contains(db.accs[a].keys, c) <=> db.byCred[c] = a
        /\ \A w \in Wallets : w \in db.accs[a].wallets <=> db.byWallet[w] = a

NoLockout == \A a \in DOMAIN db.accs : db.accs[a].keys # <<>> \/ db.accs[a].wallets # {}

\* A challenge, a nonce or a device code signs one session in, whatever
\* handlers wait at the same time; every passkey and wallet belongs to the one
\* account that lists it, and no account loses its last sign-in method, unless
\* two deletions of its passkeys crossed.
SignInSound == SingleUse /\ (crossed \/ (OneOwner /\ NoLockout))
===============================================================================
