------------------------------ MODULE BoxCerts ------------------------------
(***************************************************************************)
(* The certificates a box holds (src/supervisor.js): which names its       *)
(* records desire, the customer's host name the relay attached to one of   *)
(* them, the reconcile that queues, drops and prunes, the pump that issues *)
(* one at a time, and the store the next life of the container reads.      *)
(* The list of attached names is fetched per deployment over many awaits   *)
(* while records come and go, and the relay may be silent.                 *)
(***************************************************************************)
EXTENDS Integers, FiniteSets

CONSTANTS
    OwnCas,     \* CA slots of the box's own are configured (ACME_CAS)
    MaxTurns    \* bound: attachments moved, records ended, certificates aged, restarts, failures

Deps == {1, 2}
\* The custom name, and the app-zone name of the first deployment.
Names == {"custom", "app"}

VARIABLES
    st,       \* [Deps -> record status]
    attached, \* the relay's truth: the deployment that owns the custom name, 0 if none
    listed,   \* _depDomains: the deployments whose list holds the custom name
    heard,    \* [Deps -> what a fetch of this boot last said of it]
    known,    \* _domainsKnown
    refresh,  \* [on, live, todo]: refreshCustomDomains between two awaits
    registered, \* _advertisedEndpoint is set
    held,     \* acmeCerts: [Names -> none, fresh, due]
    store,    \* ACME_STORE_DIR: the same
    retry,    \* acmeRetry: names that wait out a backoff
    queue,    \* acmeQueue
    job,      \* the name acmePump is issuing
    turns

boxVars == <<st, attached, registered>>
domVars == <<listed, heard, known, refresh>>
certVars == <<held, store, retry, queue, job>>
vars == <<boxVars, domVars, certVars, turns>>

Idle == [on |-> FALSE, live |-> {}, todo |-> {}]

Init ==
    /\ st = [d \in Deps |-> "none"] /\ attached = 0 /\ registered = FALSE
    /\ listed = {} /\ heard = [d \in Deps |-> "unasked"] /\ known = FALSE /\ refresh = Idle
    /\ held = [n \in Names |-> "none"] /\ store = held
    /\ retry = {} /\ queue = {} /\ job = "none" /\ turns = MaxTurns

Turn == turns > 0 /\ turns' = turns - 1
Stay == UNCHANGED turns

-----------------------------------------------------------------------------
(* Whose name it is                                                          *)

Attach(d) ==
    /\ Turn /\ attached # d /\ attached' = d
    /\ UNCHANGED <<st, registered, domVars, certVars>>

\* registerOnChain: until it has run no fetch can be signed.
Register ==
    /\ ~registered /\ registered' = TRUE /\ Stay
    /\ UNCHANGED <<st, attached, domVars, certVars>>

\* fetchDepDomains: the relay's list; 404 and 503 empty it; anything else keeps the
\* last known one, and so does a box that has no endpoint yet.
Fetch(d, answer) ==
    /\ answer \in {"gone", "failed"} => registered
    /\ listed' = IF ~registered \/ answer = "failed" THEN listed
                 ELSE IF answer = "list" /\ attached = d THEN listed \cup {d}
                 ELSE listed \ {d}
    /\ heard' = [heard EXCEPT ![d] = IF ~registered \/ answer = "failed"
                                     THEN IF @ = "unasked" THEN "silent" ELSE @
                                     ELSE IF d \in listed' THEN "listed" ELSE "not listed"]
    /\ IF registered /\ answer # "list" THEN Turn ELSE Stay

\* refreshCustomDomains: the records that run now are asked one after the other.
RefreshStart ==
    /\ ~refresh.on
    /\ LET live == {d \in Deps : st[d] = "running"}
       IN  refresh' = [on |-> TRUE, live |-> live, todo |-> live]
    /\ UNCHANGED <<boxVars, listed, heard, known, certVars, turns>>

RefreshOne(d, answer) ==
    /\ refresh.on /\ d \in refresh.todo /\ Fetch(d, answer)
    /\ refresh' = [refresh EXCEPT !.todo = @ \ {d}]
    /\ UNCHANGED <<boxVars, known, certVars>>

\* Its end forgets every record that did not run when it began.
RefreshEnd ==
    /\ refresh.on /\ refresh.todo = {}
    /\ listed' = listed \cap refresh.live
    /\ heard' = [d \in Deps |-> IF d \in listed \ refresh.live THEN "forgotten" ELSE heard[d]]
    /\ known' = TRUE /\ refresh' = Idle /\ Stay
    /\ UNCHANGED <<boxVars, certVars>>

-----------------------------------------------------------------------------
(* Records                                                                   *)

\* A claim starts the certificate in parallel with the launch.
Claim(d) ==
    /\ st[d] = "none" /\ st' = [st EXCEPT ![d] = "claimed"] /\ Stay
    /\ UNCHANGED <<attached, registered, domVars, certVars>>

\* launchSpec pulls the names fresh; performTenantProvision then runs the record.
Provision(d, answer) ==
    /\ st[d] = "claimed" /\ Fetch(d, answer) /\ st' = [st EXCEPT ![d] = "running"]
    /\ UNCHANGED <<attached, registered, known, refresh, certVars>>

End(d) ==
    /\ st[d] # "none" /\ Turn /\ st' = [st EXCEPT ![d] = "none"]
    /\ UNCHANGED <<attached, registered, domVars, certVars>>

-----------------------------------------------------------------------------
(* Certificates                                                              *)

\* desiredCertNames.
DesiredNames(d) ==
    (IF d = 1 THEN {"app"} ELSE {}) \cup (IF d \in listed THEN {"custom"} ELSE {})
NamesOf(ds) == UNION {DesiredNames(d) : d \in ds}

\* customDomainOwner, over the index reindexDomains keeps.
Owned == listed # {}

\* What this reconcile queues: fresh ones and those that back off are passed over.
Desired == {n \in NamesOf({d \in Deps : st[d] \in {"running", "claimed"}}) :
               held[n] # "fresh" /\ n \notin retry}

\* Mutant: a restored name no one is known to claim is a verdict at once.
DropsAtOnce == "custom" \notin Desired /\ ~Owned
\* A custom name is dropped once no record claims it; an app name never is.
Drops == "custom" \notin Desired /\ ~Owned /\ known

\* The store keeps what a record on the books wants, and what is not yet known.
Kept == Desired \cup NamesOf({d \in Deps : st[d] # "none"})
        \cup (IF Owned \/ ~known THEN {"custom"} ELSE {})

\* acmeReconcile.
Reconcile ==
    /\ queue' = queue \cup Desired
    /\ held' = IF Drops THEN [held EXCEPT !["custom"] = "none"] ELSE held
    /\ retry' = IF Drops /\ held["custom"] # "none" THEN retry \ {"custom"} ELSE retry
    /\ store' = [n \in Names |-> IF n \notin Kept \/ (n = "custom" /\ Drops) THEN "none" ELSE store[n]]
    /\ UNCHANGED <<boxVars, domVars, job, turns>>

\* acmePump: one at a time; what became fresh while queued is passed over.
Take(n) ==
    /\ job = "none" /\ n \in queue /\ queue' = queue \ {n} /\ Stay
    /\ job' = IF held[n] = "fresh" THEN "none" ELSE n
    /\ UNCHANGED <<boxVars, domVars, held, store, retry>>

\* acmeSlotsFor, sniDecide: the platform service issues for its own zones and for
\* attached names only; the box's own CAs for any.
HasSlot(n) == OwnCas \/ n = "app" \/ Owned

Issued ==
    /\ job # "none" /\ HasSlot(job) /\ job' = "none" /\ Stay
    /\ held' = [held EXCEPT ![job] = "fresh"] /\ store' = [store EXCEPT ![job] = "fresh"]
    /\ retry' = retry \ {job}
    /\ UNCHANGED <<boxVars, domVars, queue>>

Failed ==
    /\ job # "none" /\ job' = "none" /\ retry' = retry \cup {job}
    /\ IF HasSlot(job) THEN Turn ELSE Stay
    /\ UNCHANGED <<boxVars, domVars, held, store, queue>>

RetryDue(n) ==
    /\ n \in retry /\ retry' = retry \ {n} /\ Stay
    /\ UNCHANGED <<boxVars, domVars, held, store, queue, job>>

Age(n) ==
    /\ held[n] = "fresh" /\ Turn /\ held' = [held EXCEPT ![n] = "due"]
    /\ store' = [store EXCEPT ![n] = IF @ = "none" THEN @ ELSE "due"]
    /\ UNCHANGED <<boxVars, domVars, retry, queue, job>>

\* loadState keeps what ran and expires what was being provisioned; acmeRestore
\* brings back what the store holds.
Restart ==
    /\ Turn
    /\ st' = [d \in Deps |-> IF st[d] = "running" THEN "running" ELSE "none"]
    /\ registered' = FALSE /\ UNCHANGED attached
    /\ listed' = {} /\ heard' = [d \in Deps |-> "unasked"] /\ known' = FALSE /\ refresh' = Idle
    /\ held' = store /\ retry' = {} /\ queue' = {} /\ job' = "none" /\ UNCHANGED store

Next ==
    \/ Register \/ RefreshStart \/ RefreshEnd \/ Reconcile \/ Issued \/ Failed \/ Restart
    \/ \E d \in Deps : Attach(d) \/ Claim(d) \/ End(d)
    \/ \E d \in Deps, answer \in {"list", "gone", "failed"} : RefreshOne(d, answer) \/ Provision(d, answer)
    \/ \E n \in Names : Take(n) \/ RetryDue(n) \/ Age(n)

Spec == Init /\ [][Next]_vars

-----------------------------------------------------------------------------
\* The custom name's certificate goes only once this life of the container has asked
\* about every record that runs, and while the last it heard of each of them is not
\* that it owns the name; and the store never holds less of that name than memory,
\* before or after (acmeReconcile, refreshCustomDomains, acmeRestore). A record that was
\* asked and has never answered, and one whose list a refresh forgot because it did
\* not run when that began, count as not owning it.
NoCertLost ==
    /\ held["custom"] # "none" /\ held'["custom"] = "none" =>
          \A d \in Deps : st[d] = "running" => heard[d] \in {"not listed", "silent", "forgotten"}
    /\ store'["custom"] = held'["custom"]
===============================================================================
