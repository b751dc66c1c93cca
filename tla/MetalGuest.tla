------------------------------- MODULE MetalGuest ------------------------------
(***************************************************************************)
(* Inside the guest of a self-hosted box (src/metal/guest): gsup probes a  *)
(* shielded GPU worker and keeps its card advertised while it answers; the *)
(* agent holds one tunnel to the relay, attests over it, and answers the   *)
(* requests and streams that arrive on it, whatever the sockets, the relay *)
(* and the worker do meanwhile.                                            *)
(***************************************************************************)
EXTENDS Integers, FiniteSets

CONSTANTS
    Strikes,      \* SHIELDED_REFRESH_STRIKES
    Silence,      \* the agent's 90 s, in its 15 s checks
    MaxStreams,   \* MAX_GUEST_STREAMS
    MaxIds,       \* bound: frames of one relay process that carry an id
    MaxDials,     \* bound: sockets the agent opens
    MaxFaults     \* bound: worker changes, lost sockets, restarts

VARIABLES
    worker,       \* the worker process: [gen, up, honest]
    card,         \* gsup: [phase, strikes]
    verdict,      \* the file: [gen: the worker the proof is of, 0 for none]
    silent,       \* refreshes since the worker last answered, of an advertised card
    hub,          \* the relay: [gen, next: the sequence of ids]
    ws,           \* the socket: [n: dials, up, attached, quiet, nonce]
    asked,        \* requests the relay waits on: [id, to: socket, q]
    work,         \* requests the box works on: [id, gen, q]
    streams,      \* open streams: [sid, n: the socket they came by]
    attests,      \* answers to challenges under way, by the socket challenged
    seeded,       \* the pad seed is installed
    crossed,      \* ghost: a reply met a request it does not answer
    rolled,       \* ghost: the relay restarted under a request
    faults

gpu == <<worker, card, verdict, silent>>
net == <<hub, ws, asked, work, streams, attests, seeded, crossed, rolled>>
vars == <<gpu, net, faults>>

Init ==
    /\ worker \in [gen : {1}, up : {FALSE}, honest : BOOLEAN]
    /\ card = [phase |-> "probe", strikes |-> 0] /\ verdict = 0 /\ silent = 0
    /\ hub = [gen |-> 1, next |-> 1]
    /\ ws = [n |-> 1, up |-> FALSE, attached |-> FALSE, quiet |-> 0]
    /\ asked = {} /\ work = {} /\ streams = {} /\ attests = {} /\ seeded = FALSE
    /\ crossed = FALSE /\ rolled = FALSE /\ faults = MaxFaults

Fault == faults > 0 /\ faults' = faults - 1

-----------------------------------------------------------------------------
(* The shielded card                                                         *)

WorkerStarts ==
    /\ ~worker.up /\ worker' = [worker EXCEPT !.up = TRUE]
    /\ UNCHANGED <<card, verdict, silent, net, faults>>

\* startWorker on exit; what comes back may be another build.
WorkerDies ==
    /\ Fault /\ worker.up
    /\ worker' \in [gen : {worker.gen + 1}, up : {FALSE}, honest : BOOLEAN]
    /\ UNCHANGED <<card, verdict, silent, net>>

\* ShieldedLink: a connection that answers.
Answers == worker.up
\* main of the probe: exact, verified, a lie rejected, the denylist refused, and a
\* transcript that correlates with nothing.
ProbeOk == Answers /\ worker.honest

\* startProbe: the verdict is down while the probe runs, and only a pass posts the card.
ProbePasses ==
    /\ card.phase = "probe" /\ ProbeOk
    /\ card' = [phase |-> "refresh", strikes |-> 0] /\ verdict' = worker.gen /\ silent' = 0
    /\ UNCHANGED <<worker, net, faults>>

ProbeFails ==
    /\ card.phase = "probe" /\ ~ProbeOk
    /\ card' = [card EXCEPT !.phase = "wait"]
    /\ UNCHANGED <<worker, verdict, silent, net, faults>>

Reprobe ==
    /\ card.phase = "wait" /\ card' = [phase |-> "probe", strikes |-> 0] /\ verdict' = 0
    /\ UNCHANGED <<worker, silent, net, faults>>

\* startShieldedRefresh: HELLO on a new connection renews the numbers, not the proof,
\* whichever worker answers.
Refreshed ==
    /\ card.phase = "refresh" /\ Answers
    /\ card' = [card EXCEPT !.strikes = 0] /\ silent' = 0
    /\ UNCHANGED <<worker, verdict, net, faults>>

StrikeOut(k) == k >= Strikes
\* A failed refresh; at the limit the card comes down until another probe.
Refused ==
    /\ card.phase = "refresh" /\ (Answers => faults > 0)
    /\ faults' = IF Answers THEN faults - 1 ELSE faults
    /\ LET k == card.strikes + 1
       IN  /\ card' = IF StrikeOut(k) THEN [phase |-> "wait", strikes |-> 0]
                      ELSE [card EXCEPT !.strikes = k]
           /\ verdict' = IF StrikeOut(k) THEN 0 ELSE verdict
           /\ silent' = IF StrikeOut(k) THEN 0 ELSE k
    /\ UNCHANGED <<worker, net>>

-----------------------------------------------------------------------------
(* The tunnel                                                                *)

\* dial: the relay has the socket; its challenge follows.
Open ==
    /\ ~ws.up /\ ws.n <= MaxDials
    /\ ws' = [ws EXCEPT !.up = TRUE, !.quiet = 0]
    /\ UNCHANGED <<gpu, hub, asked, work, streams, attests, seeded, crossed, rolled, faults>>

\* A challenge: the quote and the operator's signature take a while.
Challenged ==
    /\ ws.up /\ ~ws.attached /\ ws.n \notin attests
    /\ attests' = attests \union {ws.n}
    /\ UNCHANGED <<gpu, hub, ws, asked, work, streams, seeded, crossed, rolled, faults>>

\* The answer leaves on whichever socket is open by then; the relay takes one to its
\* own challenge only, and the result starts the pad bootstrap.
Attest(n) ==
    /\ n \in attests /\ attests' = attests \ {n}
    /\ ws' = [ws EXCEPT !.attached = ws.attached \/ (ws.up /\ n = ws.n)]
    /\ UNCHANGED <<gpu, hub, asked, work, streams, seeded, crossed, rolled, faults>>

\* padsBootstrap, once per boot; a refusal waits for the next attach.
Seed ==
    /\ ws.attached /\ ~seeded /\ seeded' = TRUE
    /\ UNCHANGED <<gpu, hub, ws, asked, work, streams, attests, crossed, rolled, faults>>

\* close: its streams die with it, requests under way do not; one redial.
Closed ==
    /\ ws' = [n |-> ws.n + 1, up |-> FALSE, attached |-> FALSE, quiet |-> 0]
    /\ streams' = {} /\ asked' = {}

Lost ==
    /\ Fault /\ ws.up /\ ws.n < MaxDials /\ Closed
    /\ UNCHANGED <<gpu, hub, work, attests, seeded, crossed, rolled>>

\* Half-open: the relay has dropped it and nothing arrives here.
HalfOpen ==
    /\ Fault /\ ws.up /\ ws.attached
    /\ ws' = [ws EXCEPT !.attached = FALSE, !.quiet = 1] /\ asked' = {}
    /\ UNCHANGED <<gpu, hub, work, streams, attests, seeded, crossed, rolled>>
Quiet ==
    /\ ws.quiet > 0 /\ ws.n < MaxDials
    /\ IF ws.quiet < Silence THEN ws' = [ws EXCEPT !.quiet = @ + 1] /\ UNCHANGED <<streams, asked>>
       ELSE Closed
    /\ UNCHANGED <<gpu, hub, work, attests, seeded, crossed, rolled, faults>>

\* The relay process restarts, and counts from one again.
RelayRestarts ==
    /\ Fault /\ ws.n < MaxDials /\ Closed
    /\ hub' = [gen |-> hub.gen + 1, next |-> 1] /\ rolled' = (rolled \/ work # {})
    /\ UNCHANGED <<gpu, work, attests, seeded, crossed>>

\* A request down the tunnel, and the box's own answer to it: forward.
Request ==
    /\ ws.attached /\ hub.next <= MaxIds
    /\ LET r == [id |-> hub.next, gen |-> hub.gen]
       IN  asked' = asked \union {r} /\ work' = work \union {r}
    /\ hub' = [hub EXCEPT !.next = @ + 1]
    /\ UNCHANGED <<gpu, ws, streams, attests, seeded, crossed, rolled, faults>>

\* The supervisor answers (or is down: 502); the frame leaves on the open socket.
Reply(r) ==
    /\ r \in work /\ work' = work \ {r}
    /\ LET met == {a \in asked : ws.attached /\ a.id = r.id}
       IN  asked' = asked \ met /\ crossed' = (crossed \/ \E a \in met : a # r)
    /\ UNCHANGED <<gpu, hub, ws, streams, attests, seeded, rolled, faults>>

\* The relay gives up on a request.
TimesOut(a) ==
    /\ Fault /\ a \in asked /\ asked' = asked \ {a}
    /\ UNCHANGED <<gpu, hub, ws, work, streams, attests, seeded, crossed, rolled>>

\* stream: a socket to the supervisor, under the cap.
StreamOpens ==
    /\ ws.attached /\ hub.next <= MaxIds
    /\ hub' = [hub EXCEPT !.next = @ + 1]
    /\ streams' = IF Cardinality(streams) >= MaxStreams THEN streams
                  ELSE streams \union {[sid |-> hub.next, n |-> ws.n]}
    /\ UNCHANGED <<gpu, ws, asked, work, attests, seeded, crossed, rolled, faults>>

\* Either end closes it, or it idles out.
StreamEnds(s) ==
    /\ s \in streams /\ streams' = streams \ {s}
    /\ UNCHANGED <<gpu, hub, ws, asked, work, attests, seeded, crossed, rolled, faults>>

\* start: gsup restarts a service that exits; a new agent has a new key, no sockets,
\* and no seed.
AgentRestarts ==
    /\ Fault /\ ws.n < MaxDials /\ Closed
    /\ work' = {} /\ attests' = {} /\ seeded' = FALSE
    /\ UNCHANGED <<gpu, hub, crossed, rolled>>

Next ==
    \/ WorkerStarts \/ WorkerDies \/ ProbePasses \/ ProbeFails \/ Reprobe \/ Refreshed \/ Refused
    \/ Open \/ Challenged \/ Seed \/ Lost \/ HalfOpen \/ Quiet \/ RelayRestarts \/ Request
    \/ StreamOpens \/ AgentRestarts
    \/ \E n \in attests : Attest(n)
    \/ \E r \in work : Reply(r)
    \/ \E a \in asked : TimesOut(a)
    \/ \E s \in streams : StreamEnds(s)

Spec == Init /\ [][Next]_vars

-----------------------------------------------------------------------------
\* A card is advertised only after a passed probe and within the strikes of an answer,
\* and the worker whose proof it carries was honest; one that took over from it
\* between two refreshes is not compared with it. A reply answers its own request,
\* unless the relay restarted under one and counts its ids anew; and streams belong
\* to the open socket (startProbe, startShieldedRefresh, connectTunnel, forward,
\* stream).
GuestSound ==
    /\ verdict # 0 => card.phase = "refresh" /\ silent < Strikes
    /\ verdict = worker.gen => worker.honest
    /\ crossed => rolled
    /\ \A s \in streams : s.n = ws.n /\ ws.up
===============================================================================
