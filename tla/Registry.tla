------------------------------- MODULE Registry -------------------------------
(***************************************************************************)
(* EnclaveRegistry.sol: the open directory of enclaves.  An entry says who *)
(* operates a box, what the whole machine costs per second, which in-CVM   *)
(* key signs its proofs of time and which wallet it pays.  The deployment  *)
(* ledger (Deployments) reads the entry at every claim and resize.         *)
(*                                                                         *)
(* Abstracted: endpoint, repo, measurement and region strings, and the     *)
(* registeredAt/lastSeen stamps, which no contract reads.  setMeasurement  *)
(* changes only those.  The four relay capability bits are one, "relay".   *)
(***************************************************************************)
EXTENDS Integers

CONSTANTS
    Enclaves,         \* the ids of endpoints (keccak256 of the endpoint)
    Operators,        \* the EOAs that run boxes
    Users,            \* the wallets that own and fund deployments
    Deployer,         \* the EOA that deployed the contracts
    NoAddr,           \* address(0)
    Keys,             \* in-CVM proof-of-time keys
    PriceChoices,     \* the <<cpu, gpu>> prices a seller may publish
    InitialRegistry   \* the entries that exist when the behaviour starts

Addresses == Users \cup Operators \cup {Deployer}

CAP_HOST == "host"
CAP_RELAY_ANY == "relay"

Entry == [exists          : BOOLEAN,
          operator        : Addresses \cup {NoAddr},
          active          : BOOLEAN,
          cpuPricePerSec6 : Nat,
          gpuPricePerSec6 : Nat,
          proofKey        : Keys \cup {NoAddr},
          payoutWallet    : Addresses \cup {NoAddr},
          caps            : SUBSET {CAP_HOST, CAP_RELAY_ANY}]

NoEntry == [exists |-> FALSE, operator |-> NoAddr, active |-> FALSE,
            cpuPricePerSec6 |-> 0, gpuPricePerSec6 |-> 0,
            proofKey |-> NoAddr, payoutWallet |-> NoAddr, caps |-> {}]

ASSUME AddressAssumption == NoAddr \notin Addresses
ASSUME PriceAssumption == PriceChoices \subseteq Nat \X Nat
ASSUME RegistryAssumption ==
    /\ InitialRegistry \in [Enclaves -> Entry]
    /\ \A e \in Enclaves :
           InitialRegistry[e].operator # NoAddr => InitialRegistry[e].exists

VARIABLE enclave      \* _enclaves and _exists: [Enclaves -> Entry]

RegistryInit == enclave = InitialRegistry

RegistryTypeOK == enclave \in [Enclaves -> Entry]

-----------------------------------------------------------------------------
(* The calls.  The first argument of each is msg.sender.                     *)

\* MUTANT of MayRegister: a re-register does not check who came first.
AnyoneRegisters(a, e) == e \in Enclaves

\* An endpoint belongs to whoever registered it first.
MayRegister(a, e) == enclave[e].exists => enclave[e].operator = a

IsOperator(a, e) == enclave[e].exists /\ enclave[e].operator = a

register(a, e, price, key) ==
    /\ price[1] > 0
    /\ MayRegister(a, e)
    /\ enclave' = [enclave EXCEPT ![e] =
           [enclave[e] EXCEPT
               !.exists = TRUE, !.operator = a, !.active = TRUE,
               !.cpuPricePerSec6 = price[1],
               !.gpuPricePerSec6 = price[2],
               !.proofKey = key,
               !.caps = @ \cup {CAP_HOST}]]

registerRelay(a, e) ==
    /\ MayRegister(a, e)
    /\ enclave' = [enclave EXCEPT ![e] =
           [enclave[e] EXCEPT
               !.exists = TRUE, !.operator = a, !.active = TRUE,
               !.caps = @ \cup {CAP_RELAY_ANY}]]

setCaps(a, e, caps) ==
    /\ IsOperator(a, e)
    /\ caps # {}
    /\ enclave' = [enclave EXCEPT ![e].caps = caps]

setProofKey(a, e, key) ==
    /\ IsOperator(a, e)
    /\ enclave' = [enclave EXCEPT ![e].proofKey = key]

\* Takes no address: the wallet that is named is the wallet that calls.
setPayoutWallet(a, e) ==
    /\ enclave[e].exists
    /\ enclave' = [enclave EXCEPT ![e].payoutWallet = a]

clearPayoutWallet(a, e) ==
    /\ enclave[e].exists
    /\ a \in {enclave[e].payoutWallet, enclave[e].operator}
    /\ enclave' = [enclave EXCEPT ![e].payoutWallet = NoAddr]

setPrices(a, e, price) ==
    /\ IsOperator(a, e)
    /\ price[1] > 0
    /\ enclave' = [enclave EXCEPT ![e].cpuPricePerSec6 = price[1],
                                  ![e].gpuPricePerSec6 = price[2]]

heartbeat(a, e) ==
    /\ IsOperator(a, e)
    /\ enclave' = [enclave EXCEPT ![e].active = TRUE]

deregister(a, e) ==
    /\ IsOperator(a, e)
    /\ enclave' = [enclave EXCEPT ![e].active = FALSE]

\* A box joins or leaves the network, or re-announces itself at boot.
JoinStep ==
    \E a \in Operators, e \in Enclaves :
        \/ \E price \in PriceChoices, key \in Keys \cup {NoAddr} :
               register(a, e, price, key)
        \/ registerRelay(a, e)
        \/ \E caps \in SUBSET {CAP_HOST, CAP_RELAY_ANY} : setCaps(a, e, caps)
        \/ \E key \in Keys \cup {NoAddr} : setProofKey(a, e, key)

\* A registered box changes its price, its liveness or its payee.
ReannounceStep ==
    \E e \in Enclaves :
        \/ \E a \in Operators :
               \/ \E price \in PriceChoices : setPrices(a, e, price)
               \/ heartbeat(a, e)
               \/ deregister(a, e)
        \/ \E a \in Addresses : setPayoutWallet(a, e) \/ clearPayoutWallet(a, e)

RegistryNext == JoinStep \/ ReannounceStep
=============================================================================
