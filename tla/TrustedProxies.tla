--------------------------- MODULE TrustedProxies ---------------------------
(* TRUSTED_PROXIES: the cache of resolved proxy names that every request      *)
(* consults before it knows where it comes from, and the walk over the        *)
(* forwarding headers that the resolved set drives.  Source: config.rs, and   *)
(* prime_trusted_proxies of main.rs.                                          *)
(*                                                                            *)
(* A name has its own lookup time and one of two lifetimes.  A request that   *)
(* finds every name fresh is served under the read lock; otherwise it queues  *)
(* for the write lock, looks again, and re-resolves the stale names one by    *)
(* one with the lock held.  Its client may leave during a lookup, which drops *)
(* the pass where it stands, names already stored and the merged view old.    *)
EXTENDS Integers, Sequences, FiniteSets, FiniteSetsExt

CONSTANTS
    HostOrder,         \* the configured names, in the order they are resolved
    Addrs,             \* addresses, in normal form
    Static,            \* the literal entries of TRUSTED_PROXIES
    Answers,           \* the sets of addresses a lookup may return
    Requests,
    Boot,              \* the task that primes the cache at start-up
    NoOne,
    Garbage,           \* an entry that is no address; as X-Real-IP also no header,
                       \* or one that is not text
    Ttl,               \* TRUSTED_PROXY_DNS_TTL
    NegativeTtl,       \* TRUSTED_PROXY_DNS_NEGATIVE_TTL
    Grace,             \* TRUSTED_PROXY_BOOT_GRACE
    MaxTime            \* bound on the clock

Hosts == {HostOrder[i] : i \in DOMAIN HostOrder}
Tasks == Requests \cup {Boot}

ASSUME ProxiesAssumption ==
    /\ HostOrder \in Seq(Hosts)
    /\ Static \subseteq Addrs
    /\ Answers \subseteq SUBSET Addrs
    /\ Boot \notin Requests
    /\ NoOne \notin Tasks
    /\ Garbage \notin [addr : Addrs, mapped : BOOLEAN]
    /\ Ttl \in Nat \ {0}
    /\ NegativeTtl \in Nat \ {0}
    /\ Grace \in Nat \ {0}
    /\ MaxTime \in Nat

VARIABLES
    clock,
    hosts,             \* ResolvedProxies.hosts: the last stored lookup of a name
    merged,            \* ResolvedProxies.merged: what requests are given
    writer,            \* the task that holds the write lock
    pc,                \* where each task has got to
    cursor,            \* the name a pass is looking up
    arrived,           \* when each request called resolved()
    trusted,           \* the set each served request was given
    unresolved,        \* a name failed in the boot task's current pass
    wake,              \* when the boot task's sleep ends
    said               \* history: the resolver's last answer for each name

locals == <<cursor, arrived, trusted, unresolved, wake>>
vars == <<clock, hosts, merged, writer, pc, locals, said>>

Entry == [known : BOOLEAN, networks : SUBSET Addrs, resolved : BOOLEAN, at : Nat]
Unknown == [known |-> FALSE, networks |-> {}, resolved |-> FALSE, at |-> 0]

(* A lookup with no address in it has failed, whatever the resolver called it. *)
Answer(nets, now) ==
    [known |-> TRUE, networks |-> nets, resolved |-> nets # {}, at |-> now]

Lifetime(entry) == IF entry.resolved THEN Ttl ELSE NegativeTtl

(* mutant: a failure is not remembered *)
IsFreshIfResolved(entry) == entry.known /\ entry.resolved /\ clock - entry.at < Ttl

IsFresh(entry) == entry.known /\ clock - entry.at < Lifetime(entry)

AllFresh == \A h \in Hosts : IsFresh(hosts[h])

Merge(cache) == Static \cup UNION {cache[h].networks : h \in Hosts}

-----------------------------------------------------------------------------
(* The client's address, from the peer and the two forwarding headers.       *)

RawAddrs == [addr : Addrs, mapped : BOOLEAN]
Claims == RawAddrs \cup {Garbage}

(* One X-Forwarded-For line: whether to_str accepts its bytes, and its list. *)
Lines == [text : BOOLEAN, entries : Seq(Claims)]

(* headers.get gives the first line only, and a line that is not text is as  *)
(* good as no header.                                                        *)
Read(lines) == IF lines # <<>> /\ lines[1].text THEN lines[1].entries ELSE <<>>

(* An IPv4-mapped address stands for the IPv4 address it wraps. *)
Normalize(raw) == raw.addr

(* The positions of the header that name an address outside the trusted set. *)
Outside(forwarded, trust) ==
    {i \in DOMAIN forwarded :
        forwarded[i] # Garbage /\ Normalize(forwarded[i]) \notin trust}

(* mutant: the header is read from the left *)
ResolveLeftmost(peer, lines, real, trust) ==
    LET forwarded == Read(lines)
    IN  IF Normalize(peer) \notin trust THEN Normalize(peer)
        ELSE IF Outside(forwarded, trust) # {}
             THEN Normalize(forwarded[Min(Outside(forwarded, trust))])
        ELSE IF real # Garbage THEN Normalize(real)
        ELSE Normalize(peer)

ResolveClientIp(peer, lines, real, trust) ==
    LET forwarded == Read(lines)
    IN  IF Normalize(peer) \notin trust THEN Normalize(peer)
        ELSE IF Outside(forwarded, trust) # {}
             THEN Normalize(forwarded[Max(Outside(forwarded, trust))])
        ELSE IF real # Garbage THEN Normalize(real)
        ELSE Normalize(peer)

(* What the hops report of the peers they saw arrives in one of two ways:    *)
(* appended to the line that is there, or as a line of its own after it.     *)
Appended(lines, seen) ==
    IF lines = <<>> THEN <<[text |-> TRUE, entries |-> seen]>>
    ELSE [lines EXCEPT ![1] = [text |-> @.text, entries |-> @.entries \o seen]]
Added(lines, seen) == Append(lines, [text |-> TRUE, entries |-> seen])

-----------------------------------------------------------------------------
Init ==
    /\ clock = 0
    /\ hosts = [h \in Hosts |-> Unknown]
    /\ merged = Static
    /\ writer = NoOne
    /\ pc = [t \in Tasks |->
              IF t # Boot THEN "idle" ELSE IF HostOrder = <<>> THEN "served" ELSE "queued"]
    /\ cursor = [t \in Tasks |-> 0]
    /\ arrived = [t \in Requests |-> 0]
    /\ trusted = [t \in Requests |-> {}]
    /\ unresolved = FALSE
    /\ wake = 0
    /\ said = [h \in Hosts |-> Unknown]

Tick ==
    /\ clock < MaxTime
    /\ clock' = clock + 1
    /\ UNCHANGED <<hosts, merged, writer, pc, locals, said>>

Serve(t, trust) ==
    /\ pc' = [pc EXCEPT ![t] = "served"]
    /\ trusted' = [trusted EXCEPT ![t] = trust]

(* resolved(), first half: the read lock, and the fast answer under it. *)
Consult(t) ==
    /\ pc[t] = "idle"
    /\ writer = NoOne
    /\ arrived' = [arrived EXCEPT ![t] = clock]
    /\ IF AllFresh
       THEN Serve(t, merged)
       ELSE pc' = [pc EXCEPT ![t] = "queued"] /\ UNCHANGED trusted
    /\ UNCHANGED <<clock, hosts, merged, writer, cursor, unresolved, wake, said>>

(* The names a pass still has to look up from position i on.  Priming forces  *)
(* every name; a request only those that are not fresh when it gets there.    *)
Due(t, i, cache) ==
    {j \in i..Len(HostOrder) : t = Boot \/ ~IsFresh(cache[HostOrder[j]])}

(* mutant: a pass in which a name failed does not count as a change *)
EndPassUnlessFailed(t, cache, failed) ==
    /\ merged' = IF failed THEN merged ELSE Merge(cache)
    /\ writer' = NoOne
    /\ UNCHANGED <<cursor, unresolved, wake>>
    /\ IF t # Boot
       THEN Serve(t, merged')
       ELSE pc' = [pc EXCEPT ![t] = "served"] /\ UNCHANGED trusted

(* The end of refresh_stale: the view is rebuilt and the lock released. *)
EndPass(t, cache, failed) ==
    /\ merged' = Merge(cache)
    /\ writer' = NoOne
    /\ UNCHANGED cursor
    /\ IF t # Boot
       THEN Serve(t, merged') /\ UNCHANGED <<unresolved, wake>>
       ELSE /\ UNCHANGED <<trusted, unresolved>>
            /\ IF failed /\ wake = 0
               THEN /\ pc' = [pc EXCEPT ![t] = "sleeping"]
                    /\ wake' = clock + Grace
               ELSE pc' = [pc EXCEPT ![t] = "served"] /\ UNCHANGED wake

LookUp(t, i) ==
    /\ pc' = [pc EXCEPT ![t] = "lookup"]
    /\ cursor' = [cursor EXCEPT ![t] = i]

(* resolved() once the write lock is granted, and prime(). *)
Lock(t) ==
    /\ pc[t] = "queued"
    /\ writer = NoOne
    /\ IF t # Boot /\ AllFresh
       THEN Serve(t, merged) /\ UNCHANGED <<writer, cursor>>
       ELSE /\ writer' = t
            /\ LookUp(t, Min(Due(t, 1, hosts)))
            /\ UNCHANGED trusted
    /\ UNCHANGED <<clock, hosts, merged, arrived, unresolved, wake, said>>

(* mutant: a failed lookup keeps the addresses of the one before *)
ResolvedOrKept(t, nets) ==
    LET h == HostOrder[cursor[t]]
        kept == IF nets = {} THEN hosts[h].networks ELSE nets
        cache == [hosts EXCEPT ![h] = Answer(kept, clock)]
        due == Due(t, cursor[t] + 1, cache)
    IN  /\ pc[t] = "lookup"
        /\ hosts' = cache
        /\ said' = [said EXCEPT ![h] = Answer(nets, clock)]
        /\ IF due = {}
           THEN EndPass(t, cache, unresolved)
           ELSE /\ LookUp(t, Min(due))
                /\ UNCHANGED <<merged, writer, trusted, wake, unresolved>>
        /\ UNCHANGED <<clock, arrived>>

(* mutant: the sweep goes on to a name that does not exist *)
ResolvedPastEnd(t, nets) ==
    /\ pc[t] = "lookup"
    /\ cursor' = [cursor EXCEPT ![t] = @ + 1]
    /\ hosts' = [hosts EXCEPT ![HostOrder[cursor[t]]] = Answer(nets, clock)]
    /\ UNCHANGED <<clock, merged, writer, pc, arrived, trusted, unresolved, wake, said>>

(* The resolver answers (an error is the empty answer); the entry is stored   *)
(* with the time of the answer, and the pass goes on to the next due name.    *)
Resolved(t, nets) ==
    LET h == HostOrder[cursor[t]]
        cache == [hosts EXCEPT ![h] = Answer(nets, clock)]
        due == Due(t, cursor[t] + 1, cache)
    IN  /\ pc[t] = "lookup"
        /\ hosts' = cache
        /\ said' = [said EXCEPT ![h] = Answer(nets, clock)]
        /\ IF due = {}
           THEN EndPass(t, cache, unresolved \/ nets = {})
           ELSE /\ LookUp(t, Min(due))
                /\ unresolved' = IF t = Boot THEN unresolved \/ nets = {} ELSE unresolved
                /\ UNCHANGED <<merged, writer, trusted, wake>>
        /\ UNCHANGED <<clock, arrived>>

(* The boot task's one re-check after the grace period. *)
Wake ==
    /\ pc[Boot] = "sleeping"
    /\ clock >= wake
    /\ pc' = [pc EXCEPT ![Boot] = "queued"]
    /\ unresolved' = FALSE
    /\ UNCHANGED <<clock, hosts, merged, writer, cursor, arrived, trusted, wake, said>>

(* mutant: a dropped pass leaves the lock behind *)
LeaveLocked(t) ==
    /\ pc[t] \in {"queued", "lookup"}
    /\ pc' = [pc EXCEPT ![t] = "gone"]
    /\ UNCHANGED <<clock, hosts, merged, writer, locals, said>>

(* The client leaves while its request waits or looks up: the future is       *)
(* dropped, and with it the lock if it was held.                              *)
Leave(t) ==
    /\ pc[t] \in {"queued", "lookup"}
    /\ pc' = [pc EXCEPT ![t] = "gone"]
    /\ writer' = IF writer = t THEN NoOne ELSE writer
    /\ UNCHANGED <<clock, hosts, merged, locals, said>>

Next ==
    \/ Tick
    \/ Wake
    \/ \E t \in Requests : Consult(t) \/ Leave(t)
    \/ \E t \in Tasks : Lock(t) \/ \E nets \in Answers : Resolved(t, nets)

Spec == Init /\ [][Next]_vars

(* tokio grants its lock in turn, and a lookup ends by itself, with an error  *)
(* if nothing else.  Nothing is assumed of clients or of the clock.           *)
Progress(t) == Lock(t) \/ \E nets \in Answers : Resolved(t, nets)
FairSpec == Spec /\ \A t \in Tasks : WF_vars(Progress(t))

-----------------------------------------------------------------------------
TypeOK ==
    /\ clock \in Nat
    /\ hosts \in [Hosts -> Entry]
    /\ merged \subseteq Addrs
    /\ writer \in Tasks \cup {NoOne}
    /\ pc \in [Tasks -> {"idle", "queued", "lookup", "sleeping", "served", "gone"}]
    /\ cursor \in [Tasks -> 0..Len(HostOrder)]
    /\ arrived \in [Requests -> Nat]
    /\ trusted \in [Requests -> SUBSET Addrs]
    /\ unresolved \in BOOLEAN
    /\ wake \in Nat
    /\ said \in [Hosts -> Entry]

(* The merged view is read only when every name is fresh, and it is then      *)
(* exactly what the last answers say: a pass that was dropped half-way, with  *)
(* some names stored and the view not rebuilt, leaves a stale name behind, so *)
(* nobody is served from the view it left.                                    *)
ViewCurrent == writer = NoOne /\ AllFresh => merged = Merge(said)

(* What a request is told to trust beyond the literal entries is an address   *)
(* the resolver named in its last answer for some name, and that answer was   *)
(* not yet a lifetime old when the request came: neither an outage nor a      *)
(* moved container keeps an old address trusted.                              *)
Vouched(a, h, since) == a \in said'[h].networks /\ since - said'[h].at < Ttl
TrustRecent ==
    [][\A t \in Requests :
        pc'[t] = "served" /\ pc[t] # "served" =>
            \A a \in trusted'[t] \ Static :
                \E h \in Hosts : Vouched(a, h, arrived'[t])]_vars

(* Traffic does not become DNS traffic: a request starts a lookup of a name   *)
(* only when the last one that completed is a whole lifetime old, the short   *)
(* one if it failed.  Only priming asks sooner.                               *)
Asks(t, h) ==
    /\ pc'[t] = "lookup"
    /\ pc[t] # "lookup" \/ cursor'[t] # cursor[t]
    /\ HostOrder[cursor'[t]] = h
NoStorm ==
    [][\A t \in Requests, h \in Hosts :
        Asks(t, h) /\ said[h].known =>
            clock - said[h].at >= (IF said[h].networks # {} THEN Ttl ELSE NegativeTtl)]_vars

(* A request that came through hops which each append the peer they saw to    *)
(* X-Forwarded-For is attributed to the nearest hop that is not a trusted     *)
(* proxy, whatever entries the client had put in the header.  Two exceptions, *)
(* both behind a trusted peer only.  A client whose header is not text has    *)
(* the whole of it dropped, the hops' entries too: its X-Real-IP, or else the *)
(* peer, is the answer.  And where hops add lines of their own they are not   *)
(* read after a line of the client's: the answer is what it alone would give. *)
Route(len) == [1..len -> RawAddrs]
Written == {<<>>} \cup {<<[text |-> b, entries |-> e]>> :
                           b \in BOOLEAN, e \in {<<>>} \cup {<<c>> : c \in Claims}}
Attributed(trust) ==
    \A claimed \in Written, real \in Claims : \A len \in 1..2 : \A hops \in Route(len) :
        LET strangers == {i \in 1..len : Normalize(hops[i]) \notin trust}
            nearest == Normalize(hops[Max(strangers)])
            seen == SubSeq(hops, 1, len - 1)
            Answered(lines) == ResolveClientIp(hops[len], lines, real, trust)
        IN  strangers # {} =>
                /\ Answered(Appended(claimed, seen)) =
                    IF len \in strangers \/ claimed = <<>> \/ claimed[1].text THEN nearest
                    ELSE IF real # Garbage THEN Normalize(real)
                    ELSE Normalize(hops[len])
                /\ Answered(Added(claimed, seen)) =
                    IF len \in strangers \/ claimed = <<>> THEN nearest
                    ELSE Answered(claimed)
Attribution == {<<trust, Attributed(trust)>> : trust \in SUBSET Addrs}
ClientFound == \A t \in Requests : pc[t] = "served" => <<trusted[t], TRUE>> \in Attribution

(* Every request that waits for the lock gets its answer or is abandoned by   *)
(* its client; a dropped pass and the boot task never keep the lock.          *)
WaitersServed ==
    \A t \in Requests : pc[t] = "queued" ~> pc[t] \in {"served", "gone"}

=============================================================================
