----------------------------- MODULE Eligibility -----------------------------
(***************************************************************************)
(* Which Pods of a Service are targets, and why the others are not         *)
(* (internal/k8s/eligibility.go, serveTargets in internal/httpapi): one    *)
(* request over three informer caches that move while it reads them.  A    *)
(* listing looks each endpoint's Pod up when it comes to it; with          *)
(* explain=true the Pods are captured once, and every one is accounted     *)
(* for.  Node, namespace and the wording of an answer are left out.        *)
(***************************************************************************)
EXTENDS Naturals, FiniteSets, Sequences

CONSTANTS
    PodNames,
    PodObjects,   \* Pods a cache may hold: [uid, label, deleting, running, ready, ips, named, version]
    SliceLists,   \* lists of slices: [family, eps], each endpoint [ref, name, uid, ready, addr]
    Asks,         \* requests: [explain, named (the port is asked for by name), version, pod]
    Selectors,    \* spec.selector, as the label it asks for
    MaxEvents     \* bound: informer events while a request is served

NoAddr       == "noAddress"     \* an endpoint without one
Selectorless == "selectorless"  \* a Service whose selector is empty
AnyPod       == "anyPod"        \* no pod parameter

\* An object has a uid, and no Pod lists an empty address.
ASSUME EligibilityAssumption ==
    /\ MaxEvents \in Nat /\ {Selectorless, "none"} \cap Selectors = {}
    /\ IsFiniteSet(PodNames) /\ AnyPod \notin PodNames
    /\ \A o \in PodObjects : o.uid \in Nat \ {0} /\ NoAddr \notin o.ips
    /\ \A list \in SliceLists : \A i \in DOMAIN list : \A j \in DOMAIN list[i].eps :
          list[i].eps[j].name \in PodNames

VARIABLES
    services,   \* the cached Service: its selector, "none" when it is absent
    endpoints,  \* its cached EndpointSlices, in the order the cache lists them
    pods,       \* the cached Pods by name
    look,       \* the request
    events

eligVars == <<services, endpoints, pods, look, events>>

NoPod    == [uid |-> 0]
PodUids  == {o.uid : o \in PodObjects}
NoTarget == [name |-> "none", uid |-> 0, addr |-> NoAddr, version |-> 0]
NoFacts  == [seen |-> FALSE, notReady |-> FALSE, mismatch |-> FALSE, addr |-> NoAddr,
             conflict |-> FALSE, target |-> NoTarget]

NewLook(ask) ==
    [explain |-> ask.explain, named |-> ask.named, version |-> ask.version, pod |-> ask.pod,
     pc |-> "idle", selector |-> "none", read |-> <<>>, todo |-> {}, held |-> <<>>,
     moved |-> FALSE, facts |-> [u \in PodUids |-> NoFacts], targets |-> {}, excluded |-> <<>>]

EligInit ==
    /\ services \in Selectors \cup {Selectorless, "none"}
    /\ endpoints \in SliceLists
    /\ pods \in [PodNames -> PodObjects \cup {NoPod}]
    /\ \A p, q \in PodNames : p # q /\ pods[p] # NoPod => pods[p].uid # pods[q].uid
    /\ \E ask \in Asks : look = NewLook(ask)
    /\ events = 0

-----------------------------------------------------------------------------
(* The Pod informer.                                                       *)

\* A Pod event while the request reads the Pods.  The Service and its slices are
\* read once each, so what they become afterwards does not matter.
InformerMoves ==
    /\ events < MaxEvents /\ look.pc \in {"list", "walk"}
    /\ events' = events + 1
    /\ \E p \in PodNames, o \in PodObjects \cup {NoPod} :
          /\ o # pods[p]
          /\ \A q \in PodNames \ {p} : pods[q].uid = 0 \/ pods[q].uid # o.uid
          /\ pods' = [pods EXCEPT ![p] = o]
    /\ look' = [look EXCEPT !.moved = TRUE]
    /\ UNCHANGED <<services, endpoints>>

-----------------------------------------------------------------------------
(* serviceSlices.                                                          *)

ReadService ==
    /\ look.pc = "idle"
    /\ look' = IF services \in {Selectorless, "none"} THEN [look EXCEPT !.pc = "refused"]
               ELSE [look EXCEPT !.pc = "slices", !.selector = services]
    /\ UNCHANGED <<services, endpoints, pods, events>>

\* addressFamily: IPv4 when the Service has any IPv4 slice, otherwise IPv6.
Family(list) == IF \E i \in DOMAIN list : list[i].family = "IPv4" THEN "IPv4" ELSE "IPv6"

\* The places of the endpoints of that family: a slice, and one of its endpoints.
EndpointsRead(list) ==
    UNION {{i} \X DOMAIN list[i].eps : i \in {i \in DOMAIN list : list[i].family = Family(list)}}

ReadSlices ==
    /\ look.pc = "slices"
    /\ look' = [look EXCEPT !.pc = IF look.explain THEN "list" ELSE "walk",
                            !.read = endpoints, !.todo = EndpointsRead(endpoints),
                            !.held = pods, !.moved = FALSE]
    /\ UNCHANGED <<services, endpoints, pods, events>>

\* Explain: the selected Pods, captured once.
CapturePods ==
    /\ look.pc = "list"
    /\ look' = [look EXCEPT !.pc = "walk", !.held = pods]
    /\ UNCHANGED <<services, endpoints, pods, events>>

-----------------------------------------------------------------------------
(* resolve.                                                                *)

\* Mutant of LookupPod: Explain, too, asks the cache again for every endpoint.
LookupPodLive(name) == pods[name]

LookupPod(name) == IF look.explain THEN look.held[name] ELSE pods[name]

Trusted(ep, pod) == ep.ref /\ pod # NoPod /\ pod.uid = ep.uid /\ pod.label = look.selector

Healthy(pod) == pod.running /\ pod.ready /\ ~pod.deleting

\* A port number is used for every Pod; a name must be declared.
PprofPort(pod) == look.named => pod.named

\* Mutant of Noted: an address is compared only once a port has resolved.
NotedWithPort(f, ep, pod) ==
    LET met == [f EXCEPT !.seen = TRUE] IN
    IF ~ep.ready THEN [met EXCEPT !.notReady = TRUE]
    ELSE IF ~Healthy(pod) THEN met
    ELSE IF ep.addr \notin pod.ips THEN [met EXCEPT !.mismatch = TRUE]
    ELSE IF ~PprofPort(pod) THEN met
    ELSE [met EXCEPT
            !.addr = IF @ = NoAddr THEN ep.addr ELSE @,
            !.conflict = @ \/ f.addr \notin {NoAddr, ep.addr},
            !.target = IF @ = NoTarget
                       THEN [name |-> ep.name, uid |-> pod.uid, addr |-> ep.addr, version |-> pod.version]
                       ELSE @]

\* What one more trusted endpoint says about its Pod.
Noted(f, ep, pod) ==
    LET met == [f EXCEPT !.seen = TRUE] IN
    IF ~ep.ready THEN [met EXCEPT !.notReady = TRUE]
    ELSE IF ~Healthy(pod) THEN met
    ELSE IF ep.addr \notin pod.ips THEN [met EXCEPT !.mismatch = TRUE]
    ELSE [met EXCEPT
            !.addr = IF @ = NoAddr THEN ep.addr ELSE @,
            !.conflict = @ \/ f.addr \notin {NoAddr, ep.addr},
            !.target = IF @ = NoTarget /\ PprofPort(pod)
                       THEN [name |-> ep.name, uid |-> pod.uid, addr |-> ep.addr, version |-> pod.version]
                       ELSE @]

\* One place before another, in the order the cache lists them.
Before(a, b) == a[1] < b[1] \/ (a[1] = b[1] /\ a[2] < b[2])

EndpointAt(at) == look.read[at[1]].eps[at[2]]

Walk ==
    /\ look.pc = "walk"
    /\ \E at \in look.todo :
          LET ep    == EndpointAt(at)
              pod   == LookupPod(ep.name)
              known == Noted(look.facts[pod.uid], ep, pod)
          IN  /\ \A b \in look.todo : ~Before(b, at)
              /\ look' = [look EXCEPT !.todo = @ \ {at},
                                      !.facts = IF Trusted(ep, pod)
                                                THEN [@ EXCEPT ![pod.uid] = known] ELSE @]
    /\ UNCHANGED <<services, endpoints, pods, events>>

IsTarget(f) == f.target # NoTarget /\ ~f.conflict

Attribute(pod, f) ==
    IF pod.deleting THEN "pod_terminating"
    ELSE IF ~pod.running THEN "pod_not_running"
    ELSE IF ~pod.ready THEN "pod_not_ready"
    ELSE IF ~f.seen THEN "endpoint_missing"
    ELSE IF f.target # NoTarget THEN "endpoint_address_conflict"
    ELSE IF f.notReady THEN "endpoint_not_ready"
    ELSE IF f.mismatch THEN "endpoint_address_mismatch"
    ELSE IF f.conflict THEN "endpoint_address_conflict"
    ELSE "port_name_not_declared"

\* The Pods Explain counts.
Selected == {p \in PodNames : look.held[p] # NoPod /\ look.held[p].label = look.selector}

\* filterTargets: version, then pod.
OfVersion(t) == look.version \in {0, t.version}
OfName(t)    == look.pod \in {AnyPod, t.name}

Respond ==
    LET ts    == {look.facts[u].target : u \in {u \in PodUids : IsTarget(look.facts[u])}}
        out   == {p \in Selected : ~IsTarget(look.facts[look.held[p].uid])}
        because(p) == Attribute(look.held[p], look.facts[look.held[p].uid])
        counted(r) == {p \in out : because(p) = r}
                      \cup {t \in ts : r = "version_mismatch" /\ ~OfVersion(t)}
                      \cup {t \in ts : r = "pod_name_mismatch" /\ OfVersion(t) /\ ~OfName(t)}
    IN
    /\ look.pc = "walk" /\ look.todo = {}
    /\ look' = [look EXCEPT
          !.pc = "answered",
          !.targets = {t \in ts : OfVersion(t) /\ OfName(t)},
          !.excluded = IF ~look.explain THEN <<>>
                       ELSE [r \in {because(p) : p \in out} \cup {"version_mismatch", "pod_name_mismatch"}
                               |-> Cardinality(counted(r))]]
    /\ UNCHANGED <<services, endpoints, pods, events>>

EligNext == InformerMoves \/ ReadService \/ ReadSlices \/ CapturePods \/ Walk \/ Respond

EligSpec == EligInit /\ [][EligNext]_eligVars

-----------------------------------------------------------------------------
(* The rules as docs/specs/gateway.md, section 5.3, states them: over sets,  *)
(* so in no order.                                                         *)

Read        == {EndpointAt(at) : at \in EndpointsRead(look.read)}
Own(p)      == {e \in Read : Trusted(e, look.held[p]) /\ e.name = p}
Vouched(p)  == {e \in Own(p) : e.ready /\ e.addr \in look.held[p].ips}
Disputed(p) == \E d, e \in Vouched(p) : d.addr # e.addr
Eligible(p) == Healthy(look.held[p]) /\ Vouched(p) # {} /\ PprofPort(look.held[p])

\* The Pods the rules admit, those of them asked for, and the others.
Admitted == {p \in Selected : Eligible(p) /\ ~Disputed(p)}
Kept     == {p \in Admitted : OfVersion(look.held[p]) /\ look.pod \in {AnyPod, p}}
Excluded == Selected \ Admitted
Counts   == UNION {{r} \X (1 .. look.excluded[r]) : r \in DOMAIN look.excluded}

\* The table of reasons, and whether its n-th holds for a Pod that is no target.
Table   == <<"pod_terminating", "pod_not_running", "pod_not_ready", "endpoint_missing",
             "endpoint_address_conflict", "endpoint_not_ready", "endpoint_address_mismatch",
             "endpoint_address_conflict", "port_name_not_declared">>
Holds(p, n) ==
    LET o == look.held[p] IN
    \/ n = 1 /\ o.deleting
    \/ n = 2 /\ ~o.running
    \/ n = 3 /\ ~o.ready
    \/ n = 4 /\ Own(p) = {}
    \/ n = 5 /\ Eligible(p) /\ Disputed(p)
    \/ n = 6 /\ \E e \in Own(p) : ~e.ready
    \/ n = 7 /\ \E e \in Own(p) : e.ready /\ e.addr \notin o.ips
    \/ n = 8 /\ Disputed(p)
    \/ n = 9 /\ ~PprofPort(o)
IsFirst(p, n) == Holds(p, n) /\ \A m \in 1 .. 9 : Holds(p, m) => n =< m
FirstReason(p) == Table[CHOOSE n \in 1 .. 9 : IsFirst(p, n)]

\* The targets of an answer are the Pods the rules admit, whatever order the
\* caches list slices and endpoints in and although they move during the walk
\* (a plain listing: when the Pods did not); and with explain every selected
\* Pod is a target or counted under the first reason that holds for it, so the
\* counts add up (Targets, Explain, resolve, attribute, filterTargets).
AnswerFollowsTheRules ==
    look.pc = "answered" /\ (look.explain \/ ~look.moved) =>
        /\ {t.name : t \in look.targets} = Kept
        /\ Cardinality(look.targets) = Cardinality(Kept)
        /\ \A t \in look.targets : t.addr \in {e.addr : e \in Vouched(t.name)}
        /\ look.explain =>
             /\ \A p \in Excluded : \E n \in 1 .. 9 : Holds(p, n)
             /\ \A r \in {FirstReason(p) : p \in Excluded} :
                   /\ r \in DOMAIN look.excluded
                   /\ look.excluded[r] = Cardinality({p \in Excluded : FirstReason(p) = r})
             /\ Cardinality(Selected) = Cardinality(look.targets) + Cardinality(Counts)
=============================================================================
