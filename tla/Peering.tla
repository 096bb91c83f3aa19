------------------------------- MODULE Peering -------------------------------
(***************************************************************************)
(* How an agent reaches each of its peers: wg_peers.go, wg_deploy.go and    *)
(* the reconcile pass of nexodus.go that drives them.                       *)
(*                                                                          *)
(* A pass runs every five seconds and whenever the informer has news.  It   *)
(* takes the devices of the VPC into `cache', reads the handshakes of the   *)
(* WireGuard interface, picks for each peer the first method after the one  *)
(* that failed whose prerequisites hold, writes the resulting WireGuard     *)
(* configuration into `config' and deploys what changed to the interface    *)
(* (`tunnel').  The pass holds deviceCacheLock and only one goroutine runs  *)
(* it, so it is one action; what can fail in it is a choice of the action.  *)
(*                                                                          *)
(* Time is abstracted: the age of a time stamp is "zero", "fresh" or "old", *)
(* old meaning past the timeout that is compared with it.  DERP addresses   *)
(* are the last octets 1..Octets of 127.0.0.0/24, and a DERP region is its   *)
(* number, which is the port of the endpoints behind it.  The DERP client   *)
(* itself, the routes and the local interface are not modelled.             *)
(***************************************************************************)
EXTENDS Integers, FiniteSets, SequencesExt

CONSTANTS Peers,       \* public keys of the other devices
          Gone,        \* no device has the key
          Selves,      \* what this agent may be: [relay, relayOnly, sym]
          DeviceKinds, \* DeviceKinds[p]: what device p may be, see KindOK
          Ways,        \* what may be reachable of a peer: sets of Places
          Octets,      \* last octets of the loopback range (254 in the code)
          MaxChanges,  \* changes of the devices and of the network
          MaxFaults    \* passes in which something fails

Places == {"local", "public", "loop"}

(* `named' is what a DERP relay needs to be used as such: an endpoint whose *)
(* source is "stun:", which it has until its address changes, and a hostname *)
KindOK(k) == /\ k.relay \in {"no", "wg", "derp"}   \* relay, and its metadata
             /\ {k.sym, k.routes, k.twin, k.named} \subseteq BOOLEAN
             /\ {k.at, k.group} \subseteq Nat

ASSUME PeeringAssumption ==
    /\ IsFiniteSet(Peers)
    /\ Octets \in Nat \ {0} /\ MaxChanges \in Nat /\ MaxFaults \in Nat
    /\ \A p \in Peers : \A k \in DeviceKinds[p] : KindOK(k)
    /\ Ways \subseteq SUBSET Places
    /\ \A s \in Selves : s.relayOnly => s.sym

VARIABLES self,     \* this agent
          devices,  \* the device that has each key: [id, is], or Gone
          near,     \* peers whose reflexive address is ours
          works,    \* the places at which each peer can be reached
          cache,    \* deviceCache without our own device
          config,   \* wgConfig.Peers
          tunnel,   \* the peers of the WireGuard interface
          shaken,   \* peers of the interface with a recent handshake
          loops,    \* DerpIpMapping: [mapping, last]
          myDerp,   \* the DERP region in use
          due,      \* a tick of the poll ticker or news of the informer
          changes, faults

peeringVars == <<self, devices, near, works, cache, config, tunnel, shaken, loops,
                 myDerp, due, changes, faults>>
agent == <<cache, config, tunnel, shaken, loops, myDerp, faults>>
network == <<self, devices, near, works, changes>>

None == -1
ViaRelay == 6
ViaDerp == 7
Empty == [to |-> <<>>, allowed |-> {}]     \* wgPeerConfig{}
DefaultDerp == 900
CustomDerp == 901
Regions == {0, DefaultDerp, CustomDerp}

Least(S) == CHOOSE x \in S : \A y \in S : x =< y
Put(f, g) == [p \in DOMAIN f \cup DOMAIN g |->
                 IF p \in DOMAIN g THEN g[p] ELSE f[p]]
Without(f, S) == [p \in DOMAIN f \ S |-> f[p]]
No == [p \in {} |-> Empty]

-----------------------------------------------------------------------------
(* The methods, in order of preference, and what each of them configures.   *)

Available(p, d, healthyRelay, wgRelay) ==
    IF self.relay THEN {1} \cup {i \in {0} : p \in near}
    ELSE IF d.relay # "no" THEN {3} \cup {i \in {2} : p \in near}
    ELSE {i \in {4} : ~self.relayOnly /\ p \in near}
         \cup {i \in {5} : ~self.relayOnly /\ ~d.sym /\ ~self.sym}
         \cup {i \in {ViaRelay} : healthyRelay /\ wgRelay}
         \cup {i \in {ViaDerp} : ~wgRelay /\ (self.sym \/ d.sym)}

Place(i, d) == IF i \in {0, 2, 4} /\ ~d.twin THEN "local"
               ELSE IF i = ViaDerp THEN "loop" ELSE "public"

LoopOf(l, p) == {a \in DOMAIN l.mapping : l.mapping[a] = p}

(* Behind DERP the endpoint is ip:myDerp.                                   *)
Build(i, p, d, l, derp) ==
    IF i = ViaRelay \/ (i = ViaDerp /\ LoopOf(l, p) = {}) THEN Empty
    ELSE [to |-> IF i = ViaDerp
                 THEN <<Place(i, d), Least(LoopOf(l, p)), derp>>
                 ELSE <<Place(i, d), d.at, 0>>,
          allowed |-> IF i \in {2, 3} THEN {"vpc"}
                      ELSE {"own"} \cup {x \in {"routes"} : d.routes}]

(* GetLocalIPMappingForPeer: a key keeps its address; the search for a new  *)
(* one ends at 254 less the address given last.                             *)
LeaseTaken(l, p) ==
    IF LoopOf(l, p) # {} THEN l
    ELSE [mapping |-> Put(l.mapping, [a \in {l.last} |-> p]), last |-> l.last]
Lease(l, p) ==
    LET free == {a \in 1..(Octets - l.last) : a \notin DOMAIN l.mapping}
    IN  IF LoopOf(l, p) # {} \/ free = {} THEN l
        ELSE [mapping |-> Put(l.mapping, [a \in {Least(free)} |-> p]),
              last |-> Least(free)]

-----------------------------------------------------------------------------
(* The decision for one peer, on a copy e of its cache entry.               *)

Reset(d) == [dev |-> d, derp |-> FALSE, method |-> None, tried |-> "zero",
             healthy |-> FALSE, healthyAt |-> "zero"]

peeringReset(e) == [Reset(e.dev) EXCEPT !.derp = e.derp]

peeringFailedThough(e, healthyRelay) ==
    IF e.method = ViaRelay THEN ~healthyRelay
    ELSE e.tried # "zero" /\ (e.healthyAt = "zero" => e.tried = "old")
peeringFailed(e, healthyRelay) ==
    /\ ~e.healthy
    /\ IF e.method = ViaRelay THEN ~healthyRelay
       ELSE e.tried # "zero" /\ (IF e.healthyAt = "zero" THEN e.tried = "old"
                                 ELSE e.healthyAt = "old")

shouldResetNever(e, avail) == FALSE
shouldResetPeering(e, avail) ==
    e.method # None /\ \A i \in avail : i =< e.method

(* The entry and the method chosen: None when nothing is to be built, the   *)
(* configuration then staying as it is.                                     *)
rebuildPeerConfig(p, e, healthyRelay, wgRelay) ==
    LET avail  == Available(p, e.dev.is, healthyRelay, wgRelay)
        failed == peeringFailed(e, healthyRelay)
        reset  == failed /\ shouldResetPeering(e, avail)
        copy   == IF reset THEN peeringReset(e) ELSE e
        next   == {i \in avail : /\ i >= copy.method
                                 /\ (failed /\ ~reset) => i # copy.method}
    IN  [entry |-> copy,
         build |-> IF next = {} THEN None
                   ELSE IF Least(next) = ViaRelay /\ copy.method = ViaRelay
                        THEN None ELSE Least(next)]

-----------------------------------------------------------------------------
(* The parts of a pass.                                                     *)

(* The id is not compared, nor is the kind of a relay: it is metadata.       *)
deviceUpdated(d, e) == LET seen(x) == [x.is EXCEPT !.relay = @ # "no"]
                       IN  seen(d) # seen(e)

(* The cache brought up to date with the devices and the handshakes; a new  *)
(* or changed device has no statistics.  The relay's metadata is kept only  *)
(* when there are some.                                                     *)
Refreshed(stats) ==
    [p \in DOMAIN cache \cup {q \in Peers : devices[q] # Gone} |->
       IF devices[p] = Gone THEN cache[p]
       ELSE IF p \notin DOMAIN cache THEN Reset(devices[p])
       ELSE IF deviceUpdated(devices[p], cache[p].dev) THEN Reset(devices[p])
       ELSE IF p \notin stats THEN cache[p]
       ELSE [cache[p] EXCEPT !.derp = devices[p].is.relay = "derp",
                             !.healthy = p \in shaken,
                             !.healthyAt = IF p \in shaken THEN "fresh" ELSE @]]

(* The relays one of which the loop over the cache ends with; Peers if none *)
Relays(c) == {p \in DOMAIN c : c[p].dev.is.relay # "no"}
LastRelays(c) == LET well == {p \in Relays(c) : c[p].healthy}
                 IN  IF well # {} THEN well ELSE Relays(c)

(* The region follows the relay: that of a DERP relay that can be used, the *)
(* hosted one without a relay, and what it was beside any other.  An agent  *)
(* that is the relay never looks at it.                                     *)
Region(c, r) == IF self.relay THEN myDerp
                ELSE IF r = Gone THEN DefaultDerp
                ELSE IF c[r].derp /\ c[r].dev.is.named THEN CustomDerp ELSE myDerp

Stored(relayed, made) == Put(Without(config, relayed), made)

(* buildPeersConfig, for the relay r the loop ended with: the entries, the  *)
(* configuration, the peers updated and those to take off the interface.    *)
(* The order is that of the cache, which is random; it matters to leases.   *)
buildPeersConfig(c, r, choice, leased, usable) ==
    LET made(p) == IF choice[p].build # None
                   THEN IF choice[p].build = ViaDerp /\ p \notin usable THEN Empty
                        ELSE Build(choice[p].build, p, c[p].dev.is, leased, Region(c, r))
                   ELSE IF p \in DOMAIN config THEN config[p] ELSE Empty
        method(p) == IF choice[p].build # None THEN choice[p].build
                     ELSE choice[p].entry.method
        updated == {p \in DOMAIN c : p \in DOMAIN config => config[p] # made(p)}
        relayed == {p \in updated : method(p) = ViaRelay}
        kids    == {p \in DOMAIN c : choice[p].build = ViaRelay
                                     /\ c[p].dev.is.routes}
        stored  == Stored(relayed, [p \in updated \ relayed |-> made(p)])
        old     == IF r \in DOMAIN stored THEN stored[r] ELSE Empty
    IN  [entries |-> [p \in DOMAIN c |->
                        IF p \notin updated THEN c[p]
                        ELSE [choice[p].entry EXCEPT !.method = method(p),
                                                     !.tried = "fresh"]],
         peers   |-> IF r # Gone /\ c[r].healthy /\ kids # {}
                     THEN Put(stored, [q \in {r} |->
                            [old EXCEPT !.allowed = {"vpc"} \cup kids]])
                     ELSE stored,
         updated |-> updated,
         cut     |-> relayed \cap DOMAIN config]

Decisions(c, r) ==
    [p \in DOMAIN c |-> rebuildPeerConfig(p, c[p], r # Gone /\ c[r].healthy,
                                          r # Gone /\ ~c[r].derp)]
Leased(l, order) ==
    LET after[i \in 0..Len(order)] ==
          IF i = 0 THEN l ELSE Lease(after[i - 1], order[i])
    IN  after[Len(order)]
Leases(choice) ==
    {Leased(loops, order) :
        order \in SetToSeqs({p \in DOMAIN choice :
                               choice[p].build = ViaDerp /\ LoopOf(loops, p) = {}})}

(* reconcileDeviceCache.  In a pass with a fault the statistics may be      *)
(* missing, a loopback address unusable, a peer not taken off the           *)
(* interface, some of the updated peers not deployed (nor any, when only    *)
(* our own device changed), and some of the deleted ones not removed; a     *)
(* deployment that fails forgets the configuration and leaves.              *)
Some(fault, S) == IF fault THEN SUBSET S ELSE {S}

ParsesAnything(c) == TRUE
Parses(c) == c.to # <<>>                         \* else handlePeerTunnel skips it
RememberedAnyway(peers, ok) == peers
Remembered(peers, ok) == IF ok THEN peers ELSE No

Deploy(b, fault) ==
    LET toDeploy == b.updated \cap DOMAIN b.peers
        gone == {p \in DOMAIN b.entries :
                   devices[p] = Gone \/ devices[p].id # b.entries[p].dev.id}
    IN  \E cut \in Some(fault, b.cut), done \in Some(fault, toDeploy),
           removed \in Some(fault, gone), ok \in {TRUE, ~fault} :
          /\ IF ok THEN done = toDeploy ELSE removed = {}
          /\ config' = Remembered(b.peers, ok)
          /\ cache' = Without(b.entries, removed)
          /\ tunnel' = Without(Put(Without(tunnel, cut),
                               [p \in {q \in done : Parses(b.peers[q])}
                                  |-> b.peers[p]]), removed)
          /\ shaken' = shaken \ (cut \cup removed)

Reconcile(fault) ==
    /\ due /\ due' = FALSE
    /\ fault => faults < MaxFaults
    /\ faults' = IF fault THEN faults + 1 ELSE faults
    /\ \E c \in {Refreshed(s) : s \in {DOMAIN tunnel}
                                      \cup {t \in {{}} : fault}} :
       \E r \in IF Relays(c) = {} THEN {Gone} ELSE LastRelays(c) :
         LET choice == Decisions(c, r)
         IN  \E leased \in Leases(choice), usable \in Some(fault, DOMAIN c) :
               /\ loops' = leased /\ myDerp' = Region(c, r)
               /\ Deploy(buildPeersConfig(c, r, choice, leased, usable), fault)
    /\ UNCHANGED network

-----------------------------------------------------------------------------
(* The devices, the network and the clock.                                  *)

Changing == changes < MaxChanges /\ changes' = changes + 1

(* A device registers with the key p, is updated, or is deleted.            *)
Register(p) == /\ Changing /\ devices[p] = Gone
               /\ \E k \in DeviceKinds[p] :
                    devices' = [devices EXCEPT ![p] = [id |-> changes', is |-> k]]
               /\ UNCHANGED <<self, near, works, due, agent>>

Update(p) == /\ Changing /\ devices[p] # Gone
             /\ \E k \in DeviceKinds[p] \ {devices[p].is} :
                  devices' = [devices EXCEPT ![p].is = k]
             /\ UNCHANGED <<self, near, works, due, agent>>

Delete(p) == /\ Changing /\ devices[p] # Gone
             /\ devices' = [devices EXCEPT ![p] = Gone]
             /\ UNCHANGED <<self, near, works, due, agent>>

(* reconcileStun finds our own reflexive address changed: other peers share *)
(* it now.  Nothing else is done about it but a pass.                       *)
Rebind == /\ Changing
          /\ \E n \in SUBSET Peers : n # near /\ near' = n
          /\ UNCHANGED <<self, devices, works, due, agent>>

Reroute(p) == /\ Changing
              /\ \E w \in Ways \ {works[p]} :
                   works' = [works EXCEPT ![p] = w]
              /\ UNCHANGED <<self, devices, near, due, agent>>

Reaches(p) == /\ p \in DOMAIN tunnel
              /\ tunnel[p].to[1] \in works[p]
              /\ devices[p] # Gone
              /\ IF tunnel[p].to[1] = "loop" THEN tunnel[p].to[3] # 0
                 ELSE tunnel[p].to[2] = devices[p].is.at

Handshake(p) == /\ Reaches(p) /\ p \notin shaken
                /\ shaken' = shaken \cup {p}
                /\ UNCHANGED <<network, due, cache, config, tunnel, loops, myDerp,
                               faults>>

(* 210 seconds without a handshake.                                         *)
Lapse(p) == /\ p \in shaken /\ ~Reaches(p)
            /\ shaken' = shaken \ {p}
            /\ UNCHANGED <<network, due, cache, config, tunnel, loops, myDerp,
                               faults>>

(* peeringTimeout has passed since the method was chosen.  It is looked at  *)
(* only for a peer that was never healthy and is not behind the relay.      *)
TryTimeout(p) == /\ p \in DOMAIN cache /\ cache[p].tried = "fresh"
                 /\ cache[p].healthyAt = "zero" /\ cache[p].method # ViaRelay
                 /\ cache' = [cache EXCEPT ![p].tried = "old"]
                 /\ UNCHANGED <<network, due, config, tunnel, shaken, loops, myDerp,
                                faults>>

(* peeringRestoreTimeout has passed since the peer was last healthy, many   *)
(* passes after it ceased to be.                                            *)
RestoreTimeout(p) ==
    /\ p \in DOMAIN cache /\ cache[p].healthyAt = "fresh" /\ ~cache[p].healthy
    /\ cache' = [cache EXCEPT ![p].healthyAt = "old"]
    /\ UNCHANGED <<network, due, config, tunnel, shaken, loops, myDerp,
                                faults>>

(* The poll ticker, every five seconds, or a change the informer signals.    *)
Tick == ~due /\ due' = TRUE /\ UNCHANGED <<network, agent>>

PeeringInit ==
    /\ self \in Selves
    /\ devices \in {f \in [Peers -> {Gone} \cup
                              [id : {0}, is : UNION {DeviceKinds[p] : p \in Peers}]] :
                      \A p \in Peers : f[p] # Gone => f[p].is \in DeviceKinds[p]}
    /\ near \in {{}, Peers}
    /\ works \in [Peers -> Ways]
    /\ cache = No /\ config = No /\ tunnel = No /\ shaken = {}
    /\ loops = [mapping |-> No, last |-> 1] /\ myDerp = 0
    /\ due = TRUE /\ changes = 0 /\ faults = 0

PeeringNext ==
    \/ \E f \in BOOLEAN : Reconcile(f)
    \/ \E p \in Peers : \/ Register(p) \/ Update(p) \/ Delete(p)
                        \/ Reroute(p) \/ Handshake(p) \/ Lapse(p)
                        \/ TryTimeout(p) \/ RestoreTimeout(p)
    \/ Rebind \/ Tick

(* The poll ticker keeps the passes coming, and what can fail stops failing *)
(* (MaxFaults).  A configured peer that can be reached shakes hands well    *)
(* within peeringTimeout: sooner or later it does before the time is up.    *)
PeeringFairness ==
    /\ WF_due(Tick) /\ WF_due(due /\ due' = FALSE)    \* a pass
    /\ \A p \in Peers : /\ SF_peeringVars(Handshake(p)) /\ WF_peeringVars(Lapse(p))
                        /\ WF_peeringVars(TryTimeout(p))
                        /\ WF_peeringVars(RestoreTimeout(p))

PeeringSpec == PeeringInit /\ [][PeeringNext]_peeringVars /\ PeeringFairness

-----------------------------------------------------------------------------
(* Properties.                                                              *)

Configs == [to : {<<>>} \cup (Places \X Nat \X Regions),
            allowed : SUBSET ({"vpc", "own", "routes"} \cup Peers)]

(* The types; a loopback address maps to one key (wg_peers_derp_mapping.go) *)
(* and a handshake is with a peer of the interface.                         *)
PeeringTypeOK ==
    /\ self \in Selves /\ near \in SUBSET Peers
    /\ \A p \in Peers : devices[p] # Gone => devices[p].is \in DeviceKinds[p]
    /\ \A p \in DOMAIN cache :
         /\ cache[p].method \in None..ViaDerp
         /\ {cache[p].tried, cache[p].healthyAt} \subseteq {"zero", "fresh", "old"}
         /\ cache[p].healthy => cache[p].healthyAt # "zero"
    /\ \A p \in DOMAIN config : config[p] \in Configs
    /\ \A p \in DOMAIN tunnel : tunnel[p] \in Configs /\ tunnel[p].to # <<>>
    /\ shaken \subseteq DOMAIN tunnel
    /\ DOMAIN loops.mapping \subseteq 1..Octets /\ loops.last \in 1..Octets
    /\ myDerp \in Regions
    /\ faults \in 0..MaxFaults /\ changes \in 0..MaxChanges

(* The agent's record of the interface can be trusted: a peer with a direct *)
(* method and an endpoint is on the interface, at that endpoint, whatever   *)
(* failed on the way.  peerConfigUpdated relies on it when it leaves an     *)
(* unchanged peer alone; it is why a failed deployment forgets everything   *)
(* (nexodus.go:1238).  And a peer reached through the relay is not in it,   *)
(* so that the relay's allowed addresses take its traffic (wg_peers.go:331).*)
ConfigIsTrue ==
    /\ \A p \in DOMAIN cache \cap DOMAIN config :
          cache[p].method # None /\ config[p].to # <<>>
             => p \in DOMAIN tunnel /\ tunnel[p].to = config[p].to
    /\ \A p \in DOMAIN cache : cache[p].method = ViaRelay => p \notin DOMAIN config

(* No two peers of the interface share a loopback address, whatever was     *)
(* deleted, registered again or left over: the DERP proxy finds the peer of *)
(* a packet by it (wg_derp_proxy.go:153).  And no key is leased two, of     *)
(* which the proxy would take any (wg_derp_proxy.go:209).                   *)
LoopbackOfOne ==
    /\ \A p, q \in DOMAIN tunnel :
         /\ tunnel[p].to[1] = "loop" /\ tunnel[q].to[1] = "loop"
         /\ tunnel[p].to[2] = tunnel[q].to[2]
         => p = q
    /\ \A p \in Peers : \A a, b \in LoopOf(loops, p) : a = b

(* A pass gets "any new peers or changes to existing peers"                 *)
(* (nexodus.go:1219): a peer in the cache that is configured with an        *)
(* endpoint is on the interface.  It is not for a device that is deleted    *)
(* and registers again with the same key and addresses: handlePeerDelete    *)
(* leaves its entry of wgConfig.Peers, so it passes for unchanged.          *)
NewPeersDeployed ==
    \A p \in DOMAIN cache \cap DOMAIN config :
       config[p].to # <<>> => p \in DOMAIN tunnel

(* A pass leaves a peer alone that has handshakes, whatever happens to the  *)
(* other peers and the relay, and to the deployment: it stays on its method *)
(* and at its endpoint unless the device or our own address changed.  Of an *)
(* endpoint behind DERP only the port is ever rewritten, to the region in   *)
(* use, which the coming or going of a relay changes (wg_peers.go:247-309). *)
EndpointOf(p, derp) == Build(cache[p].method, p, cache[p].dev.is, loops, derp).to

HealthyKeepsMethod ==
    [][\A p \in DOMAIN cache \cap DOMAIN cache' :
         /\ cache[p].dev = cache'[p].dev /\ cache'[p].healthy
         /\ cache[p].method \in Available(p, cache[p].dev.is, FALSE, FALSE)
         /\ p \in DOMAIN tunnel
         /\ \E derp \in Regions : tunnel[p].to = EndpointOf(p, derp)
         => /\ cache'[p].method = cache[p].method
            /\ p \in DOMAIN tunnel'
            /\ tunnel'[p].to \in {tunnel[p].to, EndpointOf(p, myDerp')}]_peeringVars

(* A peer is served by a healthy tunnel of its own or, having none, by that *)
(* of a relay, which all the addresses of the VPC are sent to.              *)
Served(p) == IF p \in DOMAIN tunnel THEN p \in DOMAIN cache /\ cache[p].healthy
             ELSE \E r \in Relays(cache) : cache[r].healthy /\ r \in DOMAIN tunnel

(* Some method reaches p: at a place where p can be reached (behind DERP,   *)
(* once there is a region), or through a relay that can be.  A device whose *)
(* local address is its reflexive one is left out, see README.              *)
Reachable(p) ==
    /\ devices[p] # Gone /\ ~devices[p].is.twin
    /\ LET wg == {r \in Relays(cache) : ~cache[r].derp}
       IN  \E i \in Available(p, devices[p].is,
                              \E r \in wg : cache[r].healthy, wg # {}) :
              \/ i = ViaRelay
              \/ /\ Place(i, devices[p].is) \in works[p]
                 /\ i = ViaDerp => myDerp # 0

(* What the list of methods is for: a peer that some method reaches is      *)
(* served in the end, however many fail before, if peering with it began    *)
(* (a device that came back with a configuration the agent still has is     *)
(* never begun with, see README).                                           *)
ServedInTheEnd ==
    \A p \in Peers :
       /\ <>[]Reachable(p)
       /\ []<>(p \in DOMAIN cache /\ cache[p].method # None)
       => []<>Served(p)
=============================================================================
