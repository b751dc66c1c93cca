--------------------------------- MODULE Pads ---------------------------------
(***************************************************************************)
(* The relay's half of dealt pads (src/relay/pads.mjs): per-device seeds,  *)
(* the consumption ledger whose mark moves before a window leaves, signed  *)
(* receipts, and the artifact store the dealer uploads shipments to.       *)
(***************************************************************************)
EXTENDS Integers, Sequences, FiniteSets, SequencesExt

CONSTANTS
    Devices,     \* attested transport keys; one tunnel name, one seed each
    MaxWindow,   \* the largest window one reservation may ask for
    NonceMemory, \* request nonces remembered per seed
    MaxNonces,   \* bound: requests ever signed
    MaxServed,   \* bound: windows out, and receipts counted per seed
    MaxFaults    \* bound: crashes, failed writes, lost answers

VARIABLES
    tunnel,    \* the device attached under the name, 0 when none
    mem, disk, \* the ledger: device -> [mark, nonces, counted] or NoRecord
    signed,    \* requests devices have signed: they may arrive any number of times
    out,       \* windows that left the relay
    upload,    \* one upload in hand: [name, whole]
    artifacts, \* shipments on disk under their final name: name -> "none" | "whole" | "short"
    faults

vars == <<tunnel, mem, disk, signed, out, upload, artifacts, faults>>

NoRecord == [mark |-> -1, nonces |-> <<>>, counted |-> <<>>]
NoUpload == "idle"

Init ==
    /\ tunnel = 0
    /\ mem = [d \in Devices |-> NoRecord] /\ disk = mem
    /\ signed = {} /\ out = {}
    /\ upload = NoUpload /\ artifacts = "none"
    /\ faults = MaxFaults

Fault == faults > 0 /\ faults' = faults - 1
Store == <<upload, artifacts>>

-----------------------------------------------------------------------------
(* The devices                                                               *)

\* The name re-attaches, with the same transport key or a new device's.
Attach(d) ==
    /\ tunnel # d /\ tunnel' = d
    /\ UNCHANGED <<mem, disk, signed, out, Store, faults>>

Detach ==
    /\ tunnel # 0 /\ tunnel' = 0
    /\ UNCHANGED <<mem, disk, signed, out, Store, faults>>

\* A device signs a request once; whoever carries it may deliver it again.
Sign ==
    /\ tunnel # 0 /\ Cardinality(signed) < MaxNonces
    /\ \E kind \in {"reserve", "receipt"}, n \in 1 .. MaxWindow :
          signed' = signed \union {[d |-> tunnel, kind |-> kind, want |-> n,
                                    nonce |-> Cardinality(signed) + 1]}
    /\ UNCHANGED <<tunnel, mem, disk, out, Store, faults>>

-----------------------------------------------------------------------------
(* The ledger                                                                *)

\* Mutant: the window leaves before the mark is on disk.
SavesAfterAnswer(after, answer) ==
    /\ mem' = after /\ out' = out \union answer
    /\ \/ disk' = after /\ faults' = faults
       \/ Fault /\ disk' = disk

\* tmp-then-rename: the whole ledger is on disk, or the old one still is.
\* A write that throws leaves memory ahead of the disk and answers nothing.
Saves(after, answer) ==
    /\ mem' = after
    /\ \/ disk' = after /\ out' = out \union answer /\ faults' = faults
       \/ Fault /\ UNCHANGED <<disk, out>>

\* seed: the record is made on the first call and kept, mark and all, after.
Seed(d) ==
    /\ d = tunnel
    /\ Saves([mem EXCEPT ![d] = IF @ = NoRecord THEN [NoRecord EXCEPT !.mark = 0] ELSE @], {})
    /\ UNCHANGED <<tunnel, signed, Store>>

\* callerOf and the replay guard, for reserve and receipt alike.
Admitted(r) ==
    /\ r.d = tunnel
    /\ mem[r.d] # NoRecord
    /\ ~Contains(mem[r.d].nonces, r.nonce)

Remember(rec, nonce) ==
    LET all == Append(rec.nonces, nonce)
    IN  [rec EXCEPT !.nonces = IF Len(all) > NonceMemory THEN Tail(all) ELSE all]

Reserve(r) ==
    /\ r.kind = "reserve" /\ Admitted(r) /\ Cardinality(out) < MaxServed
    /\ LET rec == mem[r.d]
           hi == rec.mark + r.want
       IN  Saves([mem EXCEPT ![r.d] = [Remember(rec, r.nonce) EXCEPT !.mark = hi]],
                 {[n |-> Cardinality(out), d |-> r.d, lo |-> rec.mark, hi |-> hi]})
    /\ UNCHANGED <<tunnel, signed, Store>>

Receipt(r) ==
    /\ r.kind = "receipt" /\ Admitted(r) /\ Len(mem[r.d].counted) < MaxServed
    /\ LET rec == mem[r.d]
       IN  Saves([mem EXCEPT ![r.d] = [Remember(rec, r.nonce) EXCEPT !.counted = Append(@, r.nonce)]], {})
    /\ UNCHANGED <<tunnel, signed, Store>>

Crash ==
    /\ Fault
    /\ mem' = disk /\ tunnel' = 0 /\ upload' = NoUpload
    /\ UNCHANGED <<disk, signed, out, artifacts>>

-----------------------------------------------------------------------------
(* The artifact store                                                        *)

\* PUT streams into a hidden part file; the digest of the stream is checked
\* before the rename, so a torn upload never takes the final name. (Bound:
\* uploads start before the first signed request; they share no state with it.)
Put ==
    /\ upload = NoUpload /\ signed = {}
    /\ upload' \in {"whole", "torn"}
    /\ UNCHANGED <<tunnel, mem, disk, signed, out, artifacts, faults>>

PutFinished ==
    /\ upload # NoUpload
    /\ artifacts' = IF upload = "whole" THEN "whole" ELSE artifacts
    /\ upload' = NoUpload
    /\ UNCHANGED <<tunnel, mem, disk, signed, out, faults>>

RemoveArtifact ==
    /\ artifacts # "none" /\ artifacts' = "none"
    /\ UNCHANGED <<tunnel, mem, disk, signed, out, upload, faults>>

Next ==
    \/ \E d \in Devices : Attach(d) \/ Seed(d)
    \/ Detach \/ Sign \/ Crash
    \/ \E r \in signed : Reserve(r) \/ Receipt(r)
    \/ Put \/ PutFinished \/ RemoveArtifact

Spec == Init /\ [][Next]_vars

-----------------------------------------------------------------------------
Disjoint(w, v) == w.hi <= v.lo \/ v.hi <= w.lo

\* A pad is used once: no two windows that left the relay overlap, through
\* re-attaches, replayed requests, failed writes and restarts; and a receipt
\* is counted again only once NonceMemory other requests came between.
PadsUsedOnce ==
    /\ \A w, v \in out : w.d = v.d /\ w # v => Disjoint(w, v)
    /\ \A d \in Devices :
         LET c == mem[d].counted
         IN  \A i, j \in 1 .. Len(c) :
                i < j /\ c[i] = c[j] =>
                    Cardinality({r.nonce : r \in {r \in signed : r.d = d}} \ {c[i]}) >= NonceMemory
===============================================================================
