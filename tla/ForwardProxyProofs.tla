------------------------- MODULE ForwardProxyProofs -------------------------
(***************************************************************************)
(* Proofs about the two parts of the sidecar.  The watcher, for any        *)
(* containers, ports, targets, networks and changes of the world: a sync   *)
(* that saw all there is leaves every port mirrored as it should be.  Then *)
(* one TcpProxy of those it starts, for any number of connections, chunks  *)
(* and buffers: types, that streams arrive whole, and that stop ends what  *)
(* is relayed.                                                             *)
(***************************************************************************)
EXTENDS ProxyWatcher, TcpProxy, TLAPS

(* Docker publishes a host port for one running container.                  *)
Once(at) == \A c, d \in Containers :
    c # d /\ at[c] # None /\ at[d] # None => Publishes[c] \cap Publishes[d] = {}

PortsAreUnique == Once(address) /\ Once(sync.seen)

FreshIsSeen == sync.fresh => sync.seen = address

Reachable(at) == {c \in Containers : at[c] # None /\ Publishes[c] # {} /\ Networks[c] # {}}

(* A sync has reached, or has still to reach, the containers it can reach.  *)
ReachesAll ==
    /\ sync.reached \cup {c \in sync.todo : Networks[c] # {}} = Reachable(sync.seen)
    /\ sync.step # "attach" => sync.todo = {}

(* The ports it has still to bind are none of those it found in use.        *)
LeftIsNotBusy ==
    /\ sync.left \cap sync.busy = {}
    /\ sync.step # "bind" => sync.left = {}
    /\ sync.step = "attach" => sync.busy = {}

(* What it has bound mirrors what it saw.                                   *)
Bound(p) ==
    IF Forward(p) = None THEN proxies[p] = None
    ELSE p \in sync.left \/ proxies[p] = IF p \in sync.busy THEN None ELSE Forward(p)

BoundAsSeen ==
    sync.step = "bind" \/ (sync.step = "idle" /\ sync.fresh) => \A p \in HostPorts : Bound(p)

Inv ==
    /\ TypeOK
    /\ PortsAreUnique
    /\ FreshIsSeen
    /\ ReachesAll
    /\ LeftIsNotBusy
    /\ BoundAsSeen

-----------------------------------------------------------------------------
LEMMA AtIsSync ==
  ASSUME NEW step \in Steps
  PROVE  At(step) \in Sync
BY DEF At, Sync, Addresses

LEMMA Reached ==
  ASSUME NEW s \in Sync, NEW todo \in SUBSET Containers, NEW reached \in SUBSET Containers
  PROVE  [s EXCEPT !.todo = todo, !.reached = reached] \in Sync
BY DEF Sync

LEMMA ReachedOverNetworks ==
  ASSUME NEW s \in Sync, NEW todo \in SUBSET Containers, NEW reached \in SUBSET Containers,
         NEW networks \in SUBSET AllNetworks
  PROVE  [s EXCEPT !.todo = todo, !.reached = reached, !.networks = networks] \in Sync
BY DEF Sync

LEMMA Left ==
  ASSUME NEW s \in Sync, NEW left \in SUBSET HostPorts, NEW busy \in SUBSET HostPorts
  PROVE  [s EXCEPT !.left = left, !.busy = busy] \in Sync
BY DEF Sync

LEMMA TargetType ==
  ASSUME NEW p, NEW cs \in SUBSET Containers, NEW at \in Addresses
  PROVE  TargetOf(p, cs, at) \in Targets \cup {None}
<1>1. CASE \E c \in cs : p \in Publishes[c] /\ at[c] # None
  <2> DEFINE c == CHOOSE d \in cs : p \in Publishes[d] /\ at[d] # None
  <2>1. c \in cs
    BY <1>1
  <2> QED
    BY <1>1, <2>1 DEF TargetOf, Addresses
<1>2. CASE ~ \E c \in cs : p \in Publishes[c] /\ at[c] # None
  BY <1>2 DEF TargetOf
<1> QED
  BY <1>1, <1>2

(* Containers with a running target that publish a port are one container,  *)
(* so it does not matter among which of the others it is looked for.        *)
LEMMA TargetUnique ==
  ASSUME NEW p, NEW at \in Addresses, Once(at),
         NEW cs \in SUBSET Containers, NEW ds \in SUBSET Containers,
         \A c \in Containers : p \in Publishes[c] /\ at[c] # None => (c \in cs <=> c \in ds)
  PROVE  TargetOf(p, cs, at) = TargetOf(p, ds, at)
<1>1. CASE \E c \in cs : p \in Publishes[c] /\ at[c] # None
  <2> DEFINE c == CHOOSE e \in cs : p \in Publishes[e] /\ at[e] # None
             d == CHOOSE e \in ds : p \in Publishes[e] /\ at[e] # None
  <2>1. \E e \in ds : p \in Publishes[e] /\ at[e] # None
    BY <1>1
  <2>2. c \in Containers /\ p \in Publishes[c] /\ at[c] # None
    BY <1>1
  <2>3. d \in Containers /\ p \in Publishes[d] /\ at[d] # None
    BY <2>1
  <2>4. c = d
    BY <2>2, <2>3 DEF Once
  <2>5. TargetOf(p, cs, at) = at[c]
    BY <1>1 DEF TargetOf
  <2>6. TargetOf(p, ds, at) = at[d]
    BY <2>1 DEF TargetOf
  <2> HIDE DEF c, d
  <2> QED
    BY <2>4, <2>5, <2>6
<1>2. CASE ~ \E c \in cs : p \in Publishes[c] /\ at[c] # None
  <2>1. ~ \E c \in ds : p \in Publishes[c] /\ at[c] # None
    BY <1>2
  <2> QED
    BY <1>2, <2>1 DEF TargetOf
<1> QED
  BY <1>1, <1>2

LEMMA FirstType ==
  ASSUME NEW c \in Containers, Networks[c] # {}
  PROVE  First(c) \in AllNetworks
<1>1. First(c) \in Networks[c]
  BY DEF First
<1> QED
  BY <1>1 DEF AllNetworks

LEMMA ForwardType ==
  ASSUME TypeOK, NEW p
  PROVE  Forward(p) \in Targets \cup {None}
<1>1. sync.reached \in SUBSET Containers /\ sync.seen \in Addresses
  BY DEF TypeOK, Sync
<1> QED
  BY <1>1, TargetType DEF Forward

-----------------------------------------------------------------------------
LEMMA TypeInit == Init => TypeOK
<1> SUFFICES ASSUME Init PROVE TypeOK
  OBVIOUS
<1>1. sync \in Sync
  BY AtIsSync DEF Init, Steps
<1>2. changes \in 0..MaxChanges
  BY WatcherAssumption DEF Init
<1> QED
  BY <1>1, <1>2 DEF Init, TypeOK, Addresses

LEMMA TypeNext == TypeOK /\ Next => TypeOK'
<1> SUFFICES ASSUME TypeOK, Next PROVE TypeOK'
  OBVIOUS
<1> USE DEF TypeOK
<1>1. CASE StartSync \/ EndSync \/ Restart \/ SyncFails
  <2>1. sync' \in Sync
    <3>1. CASE StartSync \/ Restart \/ SyncFails
      BY <3>1, AtIsSync DEF StartSync, Restart, SyncFails, Steps
    <3>2. CASE EndSync
      BY <3>2 DEF EndSync, Sync, Steps
    <3> QED
      BY <1>1, <3>1, <3>2
  <2>2. UNCHANGED <<address, joined, held, proxies, changes>>
    BY <1>1 DEF StartSync, EndSync, Restart, SyncFails
  <2> QED
    BY <2>1, <2>2
<1>2. CASE List
  <2> DEFINE found == {c \in Containers : address[c] # None /\ Publishes[c] # {}}
  <2>1. At("attach") \in Sync
    BY AtIsSync DEF Steps
  <2>2. sync' = [At("attach") EXCEPT !.seen = address, !.networks = joined, !.fresh = TRUE,
                                     !.todo = found]
    BY <1>2 DEF List
  <2>3. found \in SUBSET Containers
    OBVIOUS
  <2> HIDE DEF found
  <2>4. sync' \in Sync
    BY <2>1, <2>2, <2>3 DEF Sync
  <2> QED
    BY <1>2, <2>4 DEF List
<1>3. ASSUME NEW c \in Containers, Attach(c) PROVE TypeOK'
  <2>1. UNCHANGED <<address, held, proxies, changes>>
    BY <1>3 DEF Attach
  <2>2. sync' \in Sync /\ joined' \subseteq AllNetworks
    <3> DEFINE todo == sync.todo \ {c}
               reached == sync.reached \cup {c}
    <3>0. todo \in SUBSET Containers /\ reached \in SUBSET Containers /\ sync \in Sync
      BY DEF Sync
    <3> HIDE DEF todo, reached
    <3>1. CASE Share(c)
      <4>1. sync' = [sync EXCEPT !.todo = todo, !.reached = reached]
        BY <3>1 DEF Share, todo, reached
      <4>2. sync' \in Sync
        BY <3>0, <4>1, Reached
      <4> QED
        BY <3>1, <4>2 DEF Share
    <3>3. CASE Skip(c)
      <4>1. sync' = [sync EXCEPT !.todo = todo]
        BY <3>3 DEF Skip, todo
      <4>2. sync' \in Sync
        BY <3>0, <4>1 DEF Sync
      <4> QED
        BY <3>3, <4>2 DEF Skip
    <3>2. CASE Join(c)
      <4>1. First(c) \in AllNetworks
        BY <3>2, FirstType DEF Join
      <4> DEFINE networks == sync.networks \cup {First(c)}
      <4>2. networks \in SUBSET AllNetworks
        BY <4>1 DEF Sync
      <4> HIDE DEF networks
      <4>3. sync' = [sync EXCEPT !.todo = todo, !.reached = reached, !.networks = networks]
        BY <3>2 DEF Join, todo, reached, networks
      <4>4. sync' \in Sync
        BY <3>0, <4>2, <4>3, ReachedOverNetworks
      <4> QED
        BY <3>2, <4>1, <4>4 DEF Join
    <3> QED
      BY <1>3, <3>1, <3>2, <3>3 DEF Attach
  <2> QED
    BY <2>1, <2>2
<1>4. CASE DropProxies
  <2> DEFINE forwards == {p \in HostPorts : Forward(p) # None}
  <2>1. forwards \in SUBSET HostPorts /\ "bind" \in Steps
    BY DEF Steps
  <2>2. sync' = [sync EXCEPT !.step = "bind", !.left = forwards]
    BY <1>4 DEF DropProxies
  <2> HIDE DEF forwards
  <2>3. sync' \in Sync
    BY <2>1, <2>2 DEF Sync
  <2>4. proxies' \in [HostPorts -> Targets \cup {None}]
    BY <1>4 DEF DropProxies
  <2> QED
    BY <1>4, <2>3, <2>4 DEF DropProxies
<1>5. ASSUME NEW p \in HostPorts, Bind(p) PROVE TypeOK'
  <2>1. UNCHANGED <<address, joined, held, changes>>
    BY <1>5 DEF Bind
  <2>2. CASE KeepProxy(p)
    BY <2>1, <2>2 DEF KeepProxy, Sync
  <2>3. CASE StopProxy(p)
    BY <2>1, <2>3 DEF StopProxy
  <2>4. CASE StartProxy(p)
    <3> DEFINE left == sync.left \ {p}
               busy == sync.busy \cup {p}
    <3>3. left \in SUBSET HostPorts /\ busy \in SUBSET HostPorts /\ sync \in Sync
      BY DEF Sync
    <3> HIDE DEF left, busy
    <3>4. \/ sync' = [sync EXCEPT !.left = left, !.busy = busy]
          \/ sync' = [sync EXCEPT !.left = left]
      BY <2>4 DEF StartProxy, left, busy
    <3>5. [sync EXCEPT !.left = left] \in Sync
      BY <3>3 DEF Sync
    <3>6. [sync EXCEPT !.left = left, !.busy = busy] \in Sync
      BY <3>3, Left
    <3>1. sync' \in Sync
      BY <3>4, <3>5, <3>6
    <3>2. proxies' \in [HostPorts -> Targets \cup {None}]
      BY <2>4, ForwardType DEF StartProxy
    <3> QED
      BY <2>1, <3>1, <3>2
  <2> QED
    BY <1>5, <2>2, <2>3, <2>4 DEF Bind
<1>6. CASE Changed(World)
  <2>1. changes' \in 0..MaxChanges
    BY <1>6, WatcherAssumption DEF Changed
  <2>2. CASE Crash
    <3>1. sync' \in Sync
      BY <2>2, AtIsSync DEF Crash, Steps
    <3> QED
      BY <2>1, <2>2, <3>1 DEF Crash
  <2>3. ASSUME NEW c \in Containers, ContainerDies(c) \/ \E target \in Targets : ContainerStarts(c, target)
        PROVE  TypeOK'
    <3>1. sync' \in Sync
      BY <2>3 DEF ContainerDies, ContainerStarts, Sync
    <3>2. address' \in Addresses
      BY <2>3 DEF ContainerDies, ContainerStarts, Addresses
    <3> QED
      BY <2>1, <2>3, <3>1, <3>2 DEF ContainerDies, ContainerStarts
  <2>4. ASSUME NEW p \in HostPorts, PortTaken(p) \/ PortReleased(p) PROVE TypeOK'
    BY <2>1, <2>4 DEF PortTaken, PortReleased
  <2> QED
    BY <1>6, <2>2, <2>3, <2>4 DEF Changed, World
<1> QED
  BY <1>1, <1>2, <1>3, <1>4, <1>5, <1>6 DEF Next, Progress

-----------------------------------------------------------------------------
LEMMA UniqueNext == TypeOK /\ PortsAreUnique /\ Next => PortsAreUnique'
<1> SUFFICES ASSUME TypeOK, PortsAreUnique, Next PROVE PortsAreUnique'
  OBVIOUS
<1> USE DEF PortsAreUnique
<1>1. CASE StartSync \/ Restart \/ SyncFails \/ Changed(Crash)
  BY <1>1 DEF StartSync, Restart, SyncFails, Changed, Crash, At, Once
<1>2. CASE List
  <2>1. sync'.seen = address /\ address' = address
    BY <1>2 DEF List, At
  <2> QED
    BY <2>1
<1>3. CASE DropProxies \/ EndSync
  <2>1. sync'.seen = sync.seen /\ address' = address
    BY <1>3 DEF DropProxies, EndSync, TypeOK, Sync
  <2> QED
    BY <2>1
<1>4. ASSUME NEW c \in Containers, Attach(c) PROVE PortsAreUnique'
  <2>1. sync'.seen = sync.seen /\ address' = address
    BY <1>4 DEF Attach, Share, Skip, Join, TypeOK, Sync
  <2> QED
    BY <2>1
<1>5. ASSUME NEW p \in HostPorts, Bind(p) PROVE PortsAreUnique'
  <2>1. sync'.seen = sync.seen /\ address' = address
    BY <1>5 DEF Bind, KeepProxy, StopProxy, StartProxy, TypeOK, Sync
  <2> QED
    BY <2>1
<1>6. ASSUME NEW c \in Containers, ContainerDies(c) PROVE PortsAreUnique'
  <2>1. sync'.seen = sync.seen
    BY <1>6 DEF ContainerDies, TypeOK, Sync
  <2>2. Once(address')
    BY <1>6 DEF ContainerDies, TypeOK, Addresses, Once
  <2> QED
    BY <2>1, <2>2
<1>7. ASSUME NEW c \in Containers, NEW target \in Targets, ContainerStarts(c, target)
      PROVE  PortsAreUnique'
  <2>1. sync'.seen = sync.seen
    BY <1>7 DEF ContainerStarts, TypeOK, Sync
  <2>2. Once(address')
    BY <1>7 DEF ContainerStarts, TypeOK, Addresses, Once
  <2> QED
    BY <2>1, <2>2
<1>8. ASSUME NEW p \in HostPorts, PortTaken(p) \/ PortReleased(p) PROVE PortsAreUnique'
  BY <1>8 DEF PortTaken, PortReleased
<1> QED
  BY <1>1, <1>2, <1>3, <1>4, <1>5, <1>6, <1>7, <1>8 DEF Next, Progress, Changed, World

LEMMA FreshNext == TypeOK /\ FreshIsSeen /\ Next => FreshIsSeen'
<1> SUFFICES ASSUME TypeOK, FreshIsSeen, Next PROVE FreshIsSeen'
  OBVIOUS
<1> USE DEF FreshIsSeen
<1>1. CASE StartSync \/ Restart \/ SyncFails \/ Changed(Crash)
  BY <1>1 DEF StartSync, Restart, SyncFails, Changed, Crash, At
<1>2. CASE List
  BY <1>2 DEF List, At
<1>3. CASE DropProxies \/ EndSync
  BY <1>3 DEF DropProxies, EndSync, TypeOK, Sync
<1>4. ASSUME NEW c \in Containers, Attach(c) PROVE FreshIsSeen'
  BY <1>4 DEF Attach, Share, Skip, Join, TypeOK, Sync
<1>5. ASSUME NEW p \in HostPorts, Bind(p) PROVE FreshIsSeen'
  BY <1>5 DEF Bind, KeepProxy, StopProxy, StartProxy, TypeOK, Sync
<1>6. ASSUME NEW c \in Containers, ContainerDies(c) \/ \E target \in Targets : ContainerStarts(c, target)
      PROVE  FreshIsSeen'
  BY <1>6 DEF ContainerDies, ContainerStarts, TypeOK, Sync
<1>7. ASSUME NEW p \in HostPorts, PortTaken(p) \/ PortReleased(p) PROVE FreshIsSeen'
  BY <1>7 DEF PortTaken, PortReleased
<1> QED
  BY <1>1, <1>2, <1>3, <1>4, <1>5, <1>6, <1>7 DEF Next, Progress, Changed, World

LEMMA ReachesNext == TypeOK /\ ReachesAll /\ Next => ReachesAll'
<1> SUFFICES ASSUME TypeOK, ReachesAll, Next PROVE ReachesAll'
  OBVIOUS
<1> USE DEF ReachesAll, Reachable
<1>1. CASE StartSync \/ Restart \/ SyncFails \/ Changed(Crash)
  BY <1>1 DEF StartSync, Restart, SyncFails, Changed, Crash, At
<1>2. CASE List
  <2>1. /\ sync'.seen = address /\ sync'.reached = {} /\ sync'.step = "attach"
        /\ sync'.todo = {c \in Containers : address[c] # None /\ Publishes[c] # {}}
    BY <1>2 DEF List, At
  <2> QED
    BY <2>1
<1>3. CASE DropProxies \/ EndSync
  <2>1. /\ sync'.seen = sync.seen /\ sync'.reached = sync.reached /\ sync'.todo = sync.todo
    BY <1>3 DEF DropProxies, EndSync, TypeOK, Sync
  <2>2. sync.todo = {}
    BY <1>3 DEF DropProxies, EndSync
  <2> QED
    BY <2>1, <2>2
<1>4. ASSUME NEW c \in Containers, Attach(c) PROVE ReachesAll'
  <2>1. c \in sync.todo /\ sync.step = "attach"
    BY <1>4 DEF Attach
  <2>2. /\ sync'.seen = sync.seen /\ sync'.step = sync.step /\ sync'.todo = sync.todo \ {c}
        /\ sync'.reached = IF Networks[c] = {} THEN sync.reached ELSE sync.reached \cup {c}
    BY <1>4 DEF Attach, Share, Skip, Join, TypeOK, Sync
  <2> QED
    BY <2>1, <2>2
<1>5. ASSUME NEW p \in HostPorts, Bind(p) PROVE ReachesAll'
  <2>1. /\ sync'.seen = sync.seen /\ sync'.reached = sync.reached /\ sync'.todo = sync.todo
        /\ sync'.step = sync.step
    BY <1>5 DEF Bind, KeepProxy, StopProxy, StartProxy, TypeOK, Sync
  <2> QED
    BY <2>1
<1>6. ASSUME NEW c \in Containers, ContainerDies(c) \/ \E target \in Targets : ContainerStarts(c, target)
      PROVE  ReachesAll'
  BY <1>6 DEF ContainerDies, ContainerStarts, TypeOK, Sync
<1>7. ASSUME NEW p \in HostPorts, PortTaken(p) \/ PortReleased(p) PROVE ReachesAll'
  BY <1>7 DEF PortTaken, PortReleased
<1> QED
  BY <1>1, <1>2, <1>3, <1>4, <1>5, <1>6, <1>7 DEF Next, Progress, Changed, World

LEMMA LeftNext == TypeOK /\ LeftIsNotBusy /\ Next => LeftIsNotBusy'
<1> SUFFICES ASSUME TypeOK, LeftIsNotBusy, Next PROVE LeftIsNotBusy'
  OBVIOUS
<1> USE DEF LeftIsNotBusy
<1>1. CASE StartSync \/ Restart \/ SyncFails \/ Changed(Crash)
  BY <1>1 DEF StartSync, Restart, SyncFails, Changed, Crash, At
<1>2. CASE List
  BY <1>2 DEF List, At
<1>3. CASE DropProxies \/ EndSync
  BY <1>3 DEF DropProxies, EndSync, TypeOK, Sync
<1>4. ASSUME NEW c \in Containers, Attach(c) PROVE LeftIsNotBusy'
  BY <1>4 DEF Attach, Share, Skip, Join, TypeOK, Sync
<1>5. ASSUME NEW p \in HostPorts, Bind(p) PROVE LeftIsNotBusy'
  <2>1. /\ sync.step = "bind" /\ sync'.step = sync.step
        /\ sync'.left = sync.left \/ sync'.left = sync.left \ {p}
        /\ sync'.busy = sync.busy \/ (sync'.busy = sync.busy \cup {p} /\ sync'.left = sync.left \ {p})
    BY <1>5 DEF Bind, KeepProxy, StopProxy, StartProxy, TypeOK, Sync
  <2> QED
    BY <2>1
<1>6. ASSUME NEW c \in Containers, ContainerDies(c) \/ \E target \in Targets : ContainerStarts(c, target)
      PROVE  LeftIsNotBusy'
  BY <1>6 DEF ContainerDies, ContainerStarts, TypeOK, Sync
<1>7. ASSUME NEW p \in HostPorts, PortTaken(p) \/ PortReleased(p) PROVE LeftIsNotBusy'
  BY <1>7 DEF PortTaken, PortReleased
<1> QED
  BY <1>1, <1>2, <1>3, <1>4, <1>5, <1>6, <1>7 DEF Next, Progress, Changed, World

(* What a container's target is does not depend on steps that keep what the *)
(* sync saw and reached.                                                    *)
LEMMA ForwardKept ==
  ASSUME sync'.seen = sync.seen, sync'.reached = sync.reached, NEW p
  PROVE  Forward(p)' = Forward(p)
BY DEF Forward, TargetOf

LEMMA BoundNext == TypeOK /\ LeftIsNotBusy /\ BoundAsSeen /\ Next => BoundAsSeen'
<1> SUFFICES ASSUME TypeOK, LeftIsNotBusy, BoundAsSeen, Next PROVE BoundAsSeen'
  OBVIOUS
<1> USE DEF BoundAsSeen
<1>1. CASE StartSync \/ Restart \/ SyncFails \/ Changed(Crash)
  BY <1>1 DEF StartSync, Restart, SyncFails, Changed, Crash, At
<1>2. CASE List
  BY <1>2 DEF List, At
<1>3. CASE DropProxies
  <2>1. /\ sync'.seen = sync.seen /\ sync'.reached = sync.reached
        /\ sync'.left = {q \in HostPorts : Forward(q) # None}
    BY <1>3 DEF DropProxies, TypeOK, Sync
  <2>2. ASSUME NEW p \in HostPorts PROVE Bound(p)'
    <3>1. Forward(p)' = Forward(p)
      BY <2>1, ForwardKept
    <3>2. Forward(p) = None => proxies'[p] = None
      BY <1>3 DEF DropProxies
    <3>3. Forward(p) # None => p \in sync'.left
      BY <2>1
    <3> QED
      BY <3>1, <3>2, <3>3 DEF Bound
  <2> QED
    BY <2>2
<1>4. CASE EndSync
  <2>1. /\ sync'.seen = sync.seen /\ sync'.reached = sync.reached /\ proxies' = proxies
        /\ sync'.left = sync.left /\ sync'.busy = sync.busy /\ sync.step = "bind"
    BY <1>4 DEF EndSync, TypeOK, Sync
  <2>2. ASSUME NEW p \in HostPorts PROVE Bound(p)'
    BY <2>1, ForwardKept DEF Bound
  <2> QED
    BY <2>2
<1>5. ASSUME NEW c \in Containers, Attach(c) PROVE BoundAsSeen'
  BY <1>5 DEF Attach, Share, Skip, Join, TypeOK, Sync
<1>6. ASSUME NEW p \in HostPorts, Bind(p) PROVE BoundAsSeen'
  <2>1. /\ sync'.seen = sync.seen /\ sync'.reached = sync.reached
        /\ sync.step = "bind" /\ p \in sync.left
    BY <1>6 DEF Bind, KeepProxy, StopProxy, StartProxy, TypeOK, Sync
  <2>2. p \notin sync.busy
    BY <2>1 DEF LeftIsNotBusy
  <2>3. \A q \in HostPorts : Bound(q) /\ Forward(q)' = Forward(q)
    BY <2>1, ForwardKept
  <2>4. CASE KeepProxy(p)
    <3>1. /\ proxies' = proxies /\ proxies[p] = Forward(p)
          /\ sync'.left = sync.left \ {p} /\ sync'.busy = sync.busy
      BY <2>4 DEF KeepProxy, TypeOK, Sync
    <3>2. ASSUME NEW q \in HostPorts PROVE Bound(q)'
      BY <2>2, <2>3, <3>1 DEF Bound
    <3> QED
      BY <3>2
  <2>5. CASE StopProxy(p)
    <3>1. proxies' = [proxies EXCEPT ![p] = None] /\ sync' = sync
      BY <2>5 DEF StopProxy
    <3>2. ASSUME NEW q \in HostPorts PROVE Bound(q)'
      BY <2>1, <2>3, <3>1 DEF Bound, TypeOK
    <3> QED
      BY <3>2
  <2>6. CASE StartProxy(p) /\ p \in held
    <3>1. /\ proxies' = proxies /\ proxies[p] = None
          /\ sync'.left = sync.left \ {p} /\ sync'.busy = sync.busy \cup {p}
      BY <2>6 DEF StartProxy, TypeOK, Sync
    <3>2. ASSUME NEW q \in HostPorts PROVE Bound(q)'
      BY <2>3, <3>1 DEF Bound
    <3> QED
      BY <3>2
  <2>7. CASE StartProxy(p) /\ p \notin held
    <3>1. /\ proxies' = [proxies EXCEPT ![p] = Forward(p)]
          /\ sync'.left = sync.left \ {p} /\ sync'.busy = sync.busy
      BY <2>7 DEF StartProxy, TypeOK, Sync
    <3>2. ASSUME NEW q \in HostPorts PROVE Bound(q)'
      <4>1. proxies'[q] = IF q = p THEN Forward(p) ELSE proxies[q]
        BY <3>1 DEF TypeOK
      <4> QED
        BY <2>2, <2>3, <3>1, <4>1 DEF Bound
    <3> QED
      BY <3>2
  <2> QED
    BY <1>6, <2>4, <2>5, <2>6, <2>7 DEF Bind
<1>7. ASSUME NEW c \in Containers, ContainerDies(c) \/ \E target \in Targets : ContainerStarts(c, target)
      PROVE  BoundAsSeen'
  <2>1. /\ sync'.seen = sync.seen /\ sync'.reached = sync.reached /\ proxies' = proxies
        /\ sync'.left = sync.left /\ sync'.busy = sync.busy
        /\ sync'.step = sync.step /\ ~sync'.fresh
    BY <1>7 DEF ContainerDies, ContainerStarts, TypeOK, Sync
  <2>2. ASSUME NEW p \in HostPorts PROVE Bound(p) => Bound(p)'
    BY <2>1, ForwardKept DEF Bound
  <2> QED
    BY <2>1, <2>2
<1>8. ASSUME NEW p \in HostPorts, PortTaken(p) \/ PortReleased(p) PROVE BoundAsSeen'
  <2>1. sync' = sync /\ proxies' = proxies
    BY <1>8 DEF PortTaken, PortReleased
  <2>2. ASSUME NEW q \in HostPorts PROVE Bound(q) => Bound(q)'
    BY <2>1, ForwardKept DEF Bound
  <2> QED
    BY <2>1, <2>2
<1> QED
  BY <1>1, <1>2, <1>3, <1>4, <1>5, <1>6, <1>7, <1>8 DEF Next, Progress, Changed, World

-----------------------------------------------------------------------------
LEMMA InitInv == Init => Inv
<1> SUFFICES ASSUME Init PROVE Inv
  OBVIOUS
<1>1. TypeOK
  BY TypeInit
<1>2. PortsAreUnique /\ FreshIsSeen /\ ReachesAll /\ LeftIsNotBusy
  BY DEF Init, At, PortsAreUnique, Once, FreshIsSeen, ReachesAll, Reachable, LeftIsNotBusy
<1>3. BoundAsSeen
  BY DEF Init, At, BoundAsSeen
<1> QED
  BY <1>1, <1>2, <1>3 DEF Inv

LEMMA NextInv == Inv /\ [Next]_vars => Inv'
<1> SUFFICES ASSUME Inv, [Next]_vars PROVE Inv'
  OBVIOUS
<1>1. CASE Next
  <2>1. TypeOK' /\ PortsAreUnique' /\ FreshIsSeen'
    BY <1>1, TypeNext, UniqueNext, FreshNext DEF Inv
  <2>2. ReachesAll' /\ LeftIsNotBusy' /\ BoundAsSeen'
    BY <1>1, ReachesNext, LeftNext, BoundNext DEF Inv
  <2> QED
    BY <2>1, <2>2 DEF Inv
<1>2. CASE UNCHANGED vars
  <2> USE <1>2 DEF vars, Inv
  <2>1. TypeOK' /\ PortsAreUnique' /\ FreshIsSeen' /\ ReachesAll' /\ LeftIsNotBusy'
    BY DEF TypeOK, PortsAreUnique, FreshIsSeen, ReachesAll, LeftIsNotBusy
  <2>2. ASSUME NEW p \in HostPorts PROVE Bound(p) => Bound(p)'
    BY ForwardKept DEF Bound
  <2>3. BoundAsSeen'
    BY <2>2 DEF BoundAsSeen
  <2> QED
    BY <2>1, <2>3
<1> QED
  BY <1>1, <1>2

(* Every reachable state of the watcher satisfies the strengthened          *)
(* invariant.                                                               *)
THEOREM Invariance == Spec => []Inv
BY InitInv, NextInv, PTL DEF Spec

(* Addresses, networks, ports, proxies and the sync under way stay in their *)
(* types (Watcher#sync).                                                    *)
THEOREM TypeCorrect == Spec => []TypeOK
<1>1. Inv => TypeOK
  BY DEF Inv
<1> QED
  BY Invariance, <1>1, PTL

(* A sync that has looked at all it saw, since when nothing changed, knows  *)
(* what the ports should mirror.                                            *)
LEMMA ForwardIsWanted ==
  ASSUME Inv, sync.fresh, sync.todo = {}, NEW p \in HostPorts
  PROVE  Forward(p) = Wanted(p)
<1>1. sync.seen = address
  BY DEF Inv, FreshIsSeen
<1>2. sync.reached = Reachable(address)
  BY <1>1 DEF Inv, ReachesAll
<1> DEFINE ds == {c \in Containers : Networks[c] # {}}
<1>3. /\ address \in Addresses /\ Once(address)
      /\ Reachable(address) \in SUBSET Containers /\ ds \in SUBSET Containers
  BY DEF Inv, TypeOK, PortsAreUnique, Reachable
<1>4. \A c \in Containers : p \in Publishes[c] /\ address[c] # None
                             => (c \in Reachable(address) <=> c \in ds)
  BY DEF Reachable
<1>5. TargetOf(p, Reachable(address), address) = TargetOf(p, ds, address)
  <2> HIDE DEF ds
  <2> QED
    BY <1>3, <1>4, TargetUnique
<1> QED
  BY <1>1, <1>2, <1>5 DEF Forward, Wanted

(* A sync that has ended, since which no container started or died, has     *)
(* left every port mirrored that is published and can be reached, but those *)
(* it found in use, and no other (Watcher#desired_forwards,                 *)
(* #reconcile_proxies).                                                     *)
THEOREM PortsMirrored == Spec => []SyncMirrorsPorts
<1>1. Inv => SyncMirrorsPorts
  <2> SUFFICES ASSUME Inv, sync.step = "idle", sync.fresh, NEW p \in HostPorts
               PROVE  proxies[p] = IF p \in sync.busy THEN None ELSE Wanted(p)
    BY DEF SyncMirrorsPorts
  <2>1. sync.left = {} /\ sync.todo = {}
    BY DEF Inv, LeftIsNotBusy, ReachesAll
  <2>2. Bound(p)
    BY DEF Inv, BoundAsSeen
  <2>3. Forward(p) = Wanted(p)
    BY <2>1, ForwardIsWanted
  <2> QED
    BY <2>1, <2>2, <2>3 DEF Bound
<1> QED
  BY Invariance, <1>1, PTL

(* No step but the end of the process stops or replaces a proxy that leads  *)
(* where its port should, as far as the sync can know                       *)
(* (Watcher#reconcile_proxies).                                             *)
THEOREM ForwardsStay == Spec => WorkingForwardsStay
<1>1. Inv /\ [Next]_vars =>
        [\A p \in HostPorts :
            proxies[p] # None /\ proxies[p] = Wanted(p) /\ sync.fresh /\ sync'.step # "down"
                => proxies'[p] = proxies[p]]_vars
  <2> SUFFICES ASSUME Inv, Next, NEW p \in HostPorts, proxies[p] # None,
                      proxies[p] = Wanted(p), sync.fresh, sync'.step # "down"
               PROVE  proxies'[p] = proxies[p]
    OBVIOUS
  <2>1. CASE StartSync \/ List \/ EndSync \/ Restart \/ SyncFails
    BY <2>1 DEF StartSync, List, EndSync, Restart, SyncFails
  <2>2. CASE DropProxies
    <3>1. Forward(p) = Wanted(p)
      BY <2>2, ForwardIsWanted DEF DropProxies
    <3> QED
      BY <2>2, <3>1 DEF DropProxies
  <2>3. ASSUME NEW c \in Containers, Attach(c) PROVE proxies' = proxies
    BY <2>3 DEF Attach
  <2>4. ASSUME NEW q \in HostPorts, Bind(q) PROVE proxies'[p] = proxies[p]
    <3>1. sync.todo = {}
      BY <2>4 DEF Bind, Inv, ReachesAll
    <3>2. Forward(p) = Wanted(p)
      BY <3>1, ForwardIsWanted
    <3> QED
      BY <2>4, <3>2 DEF Bind, KeepProxy, StopProxy, StartProxy, Inv, TypeOK
  <2>5. CASE Changed(World)
    <3>1. ~Crash
      BY DEF Crash, At
    <3> QED
      BY <2>5, <3>1 DEF Changed, World, ContainerDies, ContainerStarts, PortTaken, PortReleased
  <2> QED
    BY <2>1, <2>2, <2>3, <2>4, <2>5 DEF Next, Progress
<1> QED
  BY Invariance, <1>1, PTL DEF Spec, WorkingForwardsStay

-----------------------------------------------------------------------------
(* One TcpProxy.                                                            *)

(* A relay has the sockets its phase says, unless stop closed them, which   *)
(* the relay can tell; it is tracked while it copies.                       *)
PhasesMatchSockets(c) ==
    /\ relays[c].phase \in {"none", "queued"} =>
            relays[c].client = "none" /\ relays[c].upstream = "none"
    /\ relays[c].phase = "accepted" => relays[c].client = "open" /\ relays[c].upstream = "none"
    /\ relays[c].phase = "connected" => Connected(c)
    /\ relays[c].phase = "relaying" =>
            c \in tracked /\ relays[c].upstream # "none" /\ (Connected(c) \/ relays[c].cut # {})
    /\ relays[c].phase = "ensure" /\ relays[c].upstream # "none" =>
            c \in tracked /\ (Connected(c) \/ relays[c].cut # {})
    /\ relays[c].phase = "ended" => relays[c].client # "open" /\ relays[c].upstream # "open"
    /\ c \in tracked => relays[c].phase \in {"relaying", "ensure"}

(* The relay stops copying by itself only at the end of the response, which *)
(* the client is told; its close takes nothing back but for data pending.   *)
(* Nothing arrives after the end of a request.                              *)
StreamsMatchPhases(c) == relays[c].cut = {} =>
    /\ relays[c].phase \in {"ensure", "ended"} /\ relays[c].upstream # "none" =>
            response[c].ended /\ response[c].got = response[c].sent
    /\ relays[c].phase = "ensure" /\ relays[c].upstream # "none" => response[c].seen = "eof"
    /\ relays[c].phase = "ended" /\ relays[c].upstream # "none" =>
            response[c].seen = "eof" \/ Pending(request[c])
    /\ request[c].seen = "eof" /\ ~response[c].ended =>
            request[c].ended /\ request[c].got = request[c].sent

TcpInv == TcpTypeOK /\ \A c \in Conns : PhasesMatchSockets(c) /\ StreamsMatchPhases(c)

-----------------------------------------------------------------------------
LEMMA TcpInitInv == TcpInit => TcpInv
BY ProxyAssumption DEF TcpInit, TcpInv, TcpTypeOK, PhasesMatchSockets, StreamsMatchPhases, NewRelay,
   NewStream, Relay, Stream, Phases, Socket, Seen

(* The updates of a relay and of a stream keep their types.                 *)
LEMMA RelayUpdates ==
    ASSUME NEW r \in Relay
    PROVE  /\ [r EXCEPT !.phase = "queued"] \in Relay
           /\ [r EXCEPT !.phase = "accepted", !.client = "open"] \in Relay
           /\ [r EXCEPT !.phase = "connected", !.upstream = "open"] \in Relay
           /\ [r EXCEPT !.phase = "relaying", !.uplink = "copying"] \in Relay
           /\ [r EXCEPT !.phase = "ensure"] \in Relay
           /\ [r EXCEPT !.uplink = "ended"] \in Relay
           /\ \A up \in Socket :
                [r EXCEPT !.phase = "ended", !.client = "closed", !.upstream = up] \in Relay
BY DEF Relay, Phases, Socket

LEMMA CutUpdates ==
    ASSUME NEW r \in Relay
    PROVE  /\ \A by \in {"client", "server"} : [r EXCEPT !.cut = @ \cup {by}] \in Relay
           /\ [r EXCEPT !.client = "closed", !.upstream = "closed", !.cut = @ \cup {"stop"}] \in Relay
BY DEF Relay, Socket

LEMMA StreamUpdates ==
    ASSUME NEW c \in Conns, NEW s \in Stream(c)
    PROVE  /\ s.got < s.sent => [s EXCEPT !.got = @ + 1] \in Stream(c)
           /\ s.sent < MaxChunks[c] => [s EXCEPT !.sent = @ + 1] \in Stream(c)
           /\ [s EXCEPT !.ended = TRUE] \in Stream(c)
           /\ \A seen \in Seen : [s EXCEPT !.seen = seen] \in Stream(c)
<1>1. MaxChunks[c] \in Nat
  BY ProxyAssumption
<1>2. s.got \in 0..MaxChunks[c] /\ s.sent \in 0..MaxChunks[c]
  BY DEF Stream
<1>3. s.got < s.sent => s.got + 1 \in 0..MaxChunks[c]
  BY <1>1, <1>2
<1>4. s.sent < MaxChunks[c] => s.sent + 1 \in 0..MaxChunks[c]
  BY <1>1, <1>2
<1>5. s.got < s.sent => [s EXCEPT !.got = @ + 1] \in Stream(c)
  BY <1>3 DEF Stream
<1>6. s.sent < MaxChunks[c] => [s EXCEPT !.sent = @ + 1] \in Stream(c)
  BY <1>4 DEF Stream
<1>7. [s EXCEPT !.ended = TRUE] \in Stream(c) /\ \A seen \in Seen : [s EXCEPT !.seen = seen] \in Stream(c)
  BY DEF Stream
<1> QED
  BY <1>5, <1>6, <1>7

(* and change one field each. *)
LEMMA StreamFields ==
    ASSUME NEW c \in Conns, NEW s \in Stream(c)
    PROVE  /\ s.got \in Nat /\ s.sent \in Nat
           /\ \A t : t = [s EXCEPT !.ended = TRUE] =>
                t.got = s.got /\ t.sent = s.sent /\ t.ended /\ t.seen = s.seen
           /\ \A t, seen : t = [s EXCEPT !.seen = seen] =>
                t.got = s.got /\ t.sent = s.sent /\ t.ended = s.ended /\ t.seen = seen
           /\ \A t : t = [s EXCEPT !.sent = @ + 1] =>
                t.got = s.got /\ t.sent = s.sent + 1 /\ t.ended = s.ended /\ t.seen = s.seen
           /\ \A t : t = [s EXCEPT !.got = @ + 1] =>
                t.got = s.got + 1 /\ t.sent = s.sent /\ t.ended = s.ended /\ t.seen = s.seen
BY ProxyAssumption DEF Stream

(* What a peer sees after a close. *)
LEMMA SeenAfterClose ==
    ASSUME TcpInv, NEW c \in Conns
    PROVE  /\ ToClient(c) \subseteq Seen /\ ToServer(c) \subseteq Seen
           /\ response[c].seen = "eof" /\ ~Pending(request[c]) => ToClient(c) \subseteq {"eof"}
           /\ response[c].seen = "eof" => ToClient(c) \subseteq {"eof", "reset"}
           /\ relays[c].upstream = "none" => ToServer(c) = {request[c].seen}
BY DEF ToClient, ToServer, AfterClose, TcpInv, TcpTypeOK, Stream, Seen

(* The two streams of a connection, and what is taken of one.               *)
StreamsTyped(c) ==
    /\ request[c] \in Stream(c) /\ response[c] \in Stream(c)
    /\ taken[c] \in Nat /\ taken[c] <= response[c].got
    /\ request[c].got <= request[c].sent /\ response[c].got <= response[c].sent

(* A connection a step does not touch keeps what the invariant says of it.  *)
Untouched(d) ==
    /\ relays'[d] = relays[d] /\ request'[d] = request[d] /\ response'[d] = response[d]
    /\ taken'[d] = taken[d]
    /\ d \in tracked' <=> d \in tracked

(* What of the state is not of one connection.                              *)
RestTyped ==
    /\ listener \in {"open", "closed"}
    /\ acceptor \in {"accepting", "ended"}
    /\ stopper \in {"none", "closing", "stopped"}
    /\ tracked \subseteq Conns
    /\ relays \in [Conns -> Relay]
    /\ DOMAIN request = Conns /\ DOMAIN response = Conns
    /\ taken = [d \in Conns |-> taken[d]]

LEMMA OthersKeepTcpInv ==
    ASSUME TcpInv, NEW c \in Conns, RestTyped', StreamsTyped(c)',
           PhasesMatchSockets(c)', StreamsMatchPhases(c)',
           \A d \in Conns \ {c} : Untouched(d)
    PROVE  TcpInv'
<1>1. \A d \in Conns : StreamsTyped(d)'
  BY DEF StreamsTyped, TcpInv, TcpTypeOK, Untouched
<1>2. TcpTypeOK'
  BY <1>1 DEF TcpTypeOK, RestTyped, StreamsTyped
<1>3. \A d \in Conns : PhasesMatchSockets(d)' /\ StreamsMatchPhases(d)'
  BY DEF TcpInv, Untouched, PhasesMatchSockets, StreamsMatchPhases, Connected, Pending
<1> QED
  BY <1>2, <1>3 DEF TcpInv

LEMMA TcpNextInv == TcpInv /\ [TcpNext]_tcpVars => TcpInv'
<1> SUFFICES ASSUME TcpInv, [TcpNext]_tcpVars PROVE TcpInv'
  OBVIOUS
<1> USE ProxyAssumption
<1>1. CASE AcceptRaises
  BY <1>1 DEF AcceptRaises, TcpInv, TcpTypeOK, PhasesMatchSockets, StreamsMatchPhases, Connected, Pending
<1>2. CASE CloseListener
  <2>1. TcpTypeOK'
    <3>1. ASSUME NEW c \in Conns PROVE StreamsTyped(c)'
      <4>1. response[c] \in Stream(c) /\ [response[c] EXCEPT !.seen = "reset"] \in Stream(c)
        BY StreamUpdates DEF TcpInv, TcpTypeOK, Seen
      <4>2. /\ response'[c].got = response[c].got /\ response'[c].sent = response[c].sent
            /\ response'[c] \in Stream(c)
        <5>1. response'[c] \in {response[c], [response[c] EXCEPT !.seen = "reset"]}
          BY <1>2 DEF CloseListener
        <5>2. CASE response'[c] = response[c]
          BY <4>1, <5>2
        <5>3. CASE response'[c] = [response[c] EXCEPT !.seen = "reset"]
          BY <4>1, <5>3, StreamFields
        <5> QED
          BY <5>1, <5>2, <5>3
      <4> QED
        <5>1. request' = request /\ taken' = taken
          BY <1>2 DEF CloseListener
        <5>2. StreamsTyped(c)
          BY DEF TcpInv, TcpTypeOK, StreamsTyped
        <5> QED
          BY <4>2, <5>1, <5>2 DEF StreamsTyped
    <3> QED
      <4>1. relays' \in [Conns -> Relay]
        <5>1. \A d \in Conns : [relays[d] EXCEPT !.phase = "ended"] \in Relay
          BY DEF TcpInv, TcpTypeOK, Relay, Phases
        <5> QED
          BY <1>2, <5>1 DEF CloseListener, TcpInv, TcpTypeOK
      <4>2. /\ DOMAIN response' = Conns /\ request' = request /\ taken' = taken
            /\ listener' = "closed" /\ stopper' = "closing" /\ acceptor' = acceptor
            /\ tracked' = tracked
        BY <1>2 DEF CloseListener
      <4> QED
        BY <3>1, <4>1, <4>2 DEF TcpInv, TcpTypeOK, StreamsTyped
  <2>2. ASSUME NEW c \in Conns PROVE PhasesMatchSockets(c)' /\ StreamsMatchPhases(c)'
    <3>1. CASE relays[c].phase = "queued"
      <4>1. /\ relays'[c].phase = "ended" /\ relays'[c].client = "none" /\ relays'[c].upstream = "none"
            /\ request'[c] = request[c] /\ response'[c].ended = response[c].ended
            /\ relays'[c].cut = relays[c].cut /\ tracked' = tracked /\ c \notin tracked
        BY <1>2, <3>1 DEF CloseListener, TcpInv, TcpTypeOK, Relay, Stream, PhasesMatchSockets
      <4> QED
        BY <4>1 DEF TcpInv, PhasesMatchSockets, StreamsMatchPhases
    <3>2. CASE relays[c].phase # "queued"
      <4>1. Untouched(c)
        BY <1>2, <3>2 DEF CloseListener, Untouched
      <4> QED
        BY <4>1 DEF Untouched, TcpInv, PhasesMatchSockets, StreamsMatchPhases, Connected, Pending
    <3> QED
      BY <3>1, <3>2
  <2> QED
    BY <2>1, <2>2 DEF TcpInv
<1>3. CASE CloseTracked
  <2>0. PICK client \in [tracked -> Seen], server \in [tracked -> Seen] :
          /\ response' = [c \in Conns |->
                IF c \in tracked THEN [response[c] EXCEPT !.seen = client[c]] ELSE response[c]]
          /\ request' = [c \in Conns |->
                IF c \in tracked THEN [request[c] EXCEPT !.seen = server[c]] ELSE request[c]]
    BY <1>3 DEF CloseTracked
  <2>1. TcpTypeOK'
    <3>1. ASSUME NEW c \in Conns PROVE StreamsTyped(c)'
      <4>1. CASE c \in tracked
        <5>1. /\ response[c] \in Stream(c) /\ [response[c] EXCEPT !.seen = client[c]] \in Stream(c)
              /\ [request[c] EXCEPT !.seen = server[c]] \in Stream(c)
          BY <4>1, StreamUpdates DEF TcpInv, TcpTypeOK
        <5>2. response'[c] \in Stream(c) /\ request'[c] \in Stream(c)
          BY <2>0, <4>1, <5>1
        <5>3. response'[c].got = response[c].got /\ response'[c].sent = response[c].sent
          <6>1. response'[c] = [response[c] EXCEPT !.seen = client[c]]
            BY <2>0, <4>1
          <6> QED
            BY <5>1, <6>1, StreamFields
        <5>4. request'[c].got = request[c].got /\ request'[c].sent = request[c].sent
          <6>1. request'[c] = [request[c] EXCEPT !.seen = server[c]] /\ request[c] \in Stream(c)
            BY <2>0, <4>1 DEF TcpInv, TcpTypeOK
          <6> QED
            BY <6>1, StreamFields
        <5> QED
          BY <1>3, <5>2, <5>3, <5>4 DEF CloseTracked, TcpInv, TcpTypeOK, StreamsTyped
      <4>2. CASE c \notin tracked
        BY <1>3, <2>0, <4>2 DEF CloseTracked, TcpInv, TcpTypeOK, StreamsTyped
      <4> QED
        BY <4>1, <4>2
    <3>2. relays' \in [Conns -> Relay]
      BY <1>3, CutUpdates DEF CloseTracked, TcpInv, TcpTypeOK
    <3>3. DOMAIN request' = Conns /\ DOMAIN response' = Conns
      BY <2>0
    <3> QED
      BY <1>3, <3>1, <3>2, <3>3 DEF CloseTracked, TcpInv, TcpTypeOK, StreamsTyped
  <2>2. ASSUME NEW c \in Conns PROVE PhasesMatchSockets(c)' /\ StreamsMatchPhases(c)'
    <3>1. CASE c \in tracked
      <4>1. relays'[c].client = "closed" /\ relays'[c].upstream = "closed"
            /\ relays'[c].cut # {} /\ relays'[c].phase = relays[c].phase
        <5>1. relays[c] \in Relay
          BY DEF TcpInv, TcpTypeOK
        <5>2. relays'[c] = [relays[c] EXCEPT !.client = "closed", !.upstream = "closed",
                                             !.cut = @ \cup {"stop"}]
          BY <1>3, <3>1 DEF CloseTracked
        <5> QED
          BY <5>1, <5>2 DEF Relay
      <4>2. relays[c].phase \in {"relaying", "ensure"} /\ tracked' = tracked
        BY <1>3, <3>1 DEF TcpInv, PhasesMatchSockets, CloseTracked
      <4> QED
        BY <3>1, <4>1, <4>2 DEF PhasesMatchSockets, StreamsMatchPhases, Connected
    <3>2. CASE c \notin tracked
      <4>1. Untouched(c)
        BY <1>3, <2>0, <3>2 DEF CloseTracked, Untouched
      <4> QED
        BY <4>1 DEF Untouched, TcpInv, PhasesMatchSockets, StreamsMatchPhases, Connected, Pending
    <3> QED
      BY <3>1, <3>2
  <2> QED
    BY <2>1, <2>2 DEF TcpInv
<1>4. ASSUME NEW c \in Conns, Accept(c) PROVE TcpInv'
  <2>1. RestTyped'
    <3>1. relays' \in [Conns -> Relay]
      BY <1>4, RelayUpdates DEF Accept, TcpInv, TcpTypeOK
    <3> QED
      BY <1>4, <3>1 DEF Accept, TcpInv, TcpTypeOK, RestTyped
  <2>2. StreamsTyped(c)'
    BY <1>4 DEF Accept, TcpInv, TcpTypeOK, StreamsTyped
  <2>3. PhasesMatchSockets(c)'
    BY <1>4 DEF Accept, TcpInv, TcpTypeOK, Relay, PhasesMatchSockets, Connected
  <2>4. StreamsMatchPhases(c)'
    BY <1>4 DEF Accept, TcpInv, TcpTypeOK, Relay, StreamsMatchPhases, PhasesMatchSockets, Connected
  <2>5. \A d \in Conns \ {c} : Untouched(d)
    BY <1>4 DEF Accept, TcpInv, TcpTypeOK, Untouched
  <2> QED
    BY <2>1, <2>2, <2>3, <2>4, <2>5, OthersKeepTcpInv
<1>5. ASSUME NEW c \in Conns, Dial(c) PROVE TcpInv'
  <2>1. RestTyped'
    <3>1. relays' \in [Conns -> Relay]
      <4>1. \/ relays' = [relays EXCEPT ![c].phase = "ensure"]
            \/ relays' = [relays EXCEPT ![c].phase = "connected", ![c].upstream = "open"]
        BY <1>5 DEF Dial
      <4>2. relays \in [Conns -> Relay] /\ relays[c] \in Relay
        BY DEF TcpInv, TcpTypeOK
      <4> QED
        BY <4>1, <4>2, RelayUpdates
    <3> QED
      BY <1>5, <3>1 DEF Dial, TcpInv, TcpTypeOK, RestTyped
  <2>2. StreamsTyped(c)'
    BY <1>5 DEF Dial, TcpInv, TcpTypeOK, StreamsTyped
  <2>3. PhasesMatchSockets(c)'
    BY <1>5 DEF Dial, TcpInv, TcpTypeOK, Relay, PhasesMatchSockets, Connected
  <2>4. StreamsMatchPhases(c)'
    BY <1>5 DEF Dial, TcpInv, TcpTypeOK, Relay, StreamsMatchPhases, PhasesMatchSockets, Connected
  <2>5. \A d \in Conns \ {c} : Untouched(d)
    BY <1>5 DEF Dial, TcpInv, TcpTypeOK, Untouched
  <2> QED
    BY <2>1, <2>2, <2>3, <2>4, <2>5, OthersKeepTcpInv
<1>6. ASSUME NEW c \in Conns, Track(c) PROVE TcpInv'
  <2>1. RestTyped'
    <3>1. relays' \in [Conns -> Relay]
      BY <1>6, RelayUpdates DEF Track, TcpInv, TcpTypeOK
    <3> QED
      BY <1>6, <3>1 DEF Track, TcpInv, TcpTypeOK, RestTyped
  <2>2. StreamsTyped(c)'
    BY <1>6 DEF Track, TcpInv, TcpTypeOK, StreamsTyped
  <2>3. PhasesMatchSockets(c)'
    BY <1>6 DEF Track, TcpInv, TcpTypeOK, Relay, PhasesMatchSockets, Connected
  <2>4. StreamsMatchPhases(c)'
    BY <1>6 DEF Track, TcpInv, TcpTypeOK, Relay, StreamsMatchPhases, PhasesMatchSockets, Connected
  <2>5. \A d \in Conns \ {c} : Untouched(d)
    BY <1>6 DEF Track, TcpInv, TcpTypeOK, Untouched
  <2> QED
    BY <2>1, <2>2, <2>3, <2>4, <2>5, OthersKeepTcpInv
<1>7. ASSUME NEW c \in Conns, CopyResponse(c) PROVE TcpInv'
  <2>1. RestTyped'
    <3>1. relays' \in [Conns -> Relay]
      <4>1. \/ relays' = relays
            \/ relays' = [relays EXCEPT ![c].phase = "ensure"]
        BY <1>7 DEF CopyResponse
      <4>2. relays \in [Conns -> Relay] /\ relays[c] \in Relay
        BY DEF TcpInv, TcpTypeOK
      <4> QED
        BY <4>1, <4>2, RelayUpdates
    <3> QED
      BY <1>7, <3>1 DEF CopyResponse, TcpInv, TcpTypeOK, RestTyped
  <2>2. StreamsTyped(c)'
    <3>1. response[c] \in Stream(c) /\ request' = request /\ taken' = taken
      BY <1>7 DEF CopyResponse, TcpInv, TcpTypeOK
    <3>2. \/ response' = response
          \/ response' = [response EXCEPT ![c].seen = "eof"]
          \/ Pending(response[c]) /\ response' = [response EXCEPT ![c].got = @ + 1]
      BY <1>7 DEF CopyResponse
    <3>3. /\ response'[c] \in Stream(c) /\ response[c].got <= response'[c].got
          /\ response'[c].got <= response'[c].sent
      <4>0. /\ response[c].got \in Nat /\ response[c].sent \in Nat /\ DOMAIN response = Conns
            /\ response[c].got <= response[c].sent
        BY <3>1, StreamFields DEF TcpInv, TcpTypeOK
      <4>1. CASE response' = response
        BY <3>1, <4>0, <4>1
      <4>2. CASE response' = [response EXCEPT ![c].seen = "eof"]
        <5>1. response'[c] = [response[c] EXCEPT !.seen = "eof"] /\ "eof" \in Seen
          BY <4>0, <4>2 DEF Seen
        <5>2. response'[c].got = response[c].got /\ response'[c].sent = response[c].sent
          BY <3>1, <5>1, StreamFields
        <5>3. \A seen \in Seen : [response[c] EXCEPT !.seen = seen] \in Stream(c)
          BY <3>1, StreamUpdates
        <5> QED
          BY <4>0, <5>1, <5>2, <5>3
      <4>3. CASE Pending(response[c]) /\ response' = [response EXCEPT ![c].got = @ + 1]
        <5>1. response'[c] = [response[c] EXCEPT !.got = @ + 1] /\ response[c].got < response[c].sent
          BY <4>0, <4>3 DEF Pending
        <5>2. response'[c].got = response[c].got + 1 /\ response'[c].sent = response[c].sent
          BY <3>1, <5>1, StreamFields
        <5>3. [response[c] EXCEPT !.got = @ + 1] \in Stream(c)
          BY <3>1, <5>1, StreamUpdates
        <5> QED
          BY <4>0, <5>1, <5>2, <5>3
      <4> QED
        BY <3>2, <4>1, <4>2, <4>3
    <3>4. response[c].got \in Nat /\ response'[c].got \in Nat
      BY <3>1, <3>3, StreamFields
    <3> QED
      BY <3>1, <3>3, <3>4 DEF TcpInv, TcpTypeOK, StreamsTyped
  <2>3. PhasesMatchSockets(c)'
    BY <1>7 DEF CopyResponse, TcpInv, TcpTypeOK, Relay, PhasesMatchSockets, Connected
  <2>4. StreamsMatchPhases(c)'
    <3>0. /\ relays[c].phase = "relaying" /\ relays[c].upstream # "none" /\ request' = request
          /\ relays[c] \in Relay /\ response[c] \in Stream(c) /\ DOMAIN response = Conns
          /\ Connected(c) \/ relays[c].cut # {}
      BY <1>7 DEF CopyResponse, TcpInv, TcpTypeOK, PhasesMatchSockets
    <3>1. CASE relays[c].cut # {}
      <4>1. relays'[c].cut = relays[c].cut
        BY <1>7, <3>0 DEF CopyResponse, TcpInv, TcpTypeOK, Relay
      <4> QED
        BY <3>1, <4>1 DEF StreamsMatchPhases
    <3>2. CASE response' = [response EXCEPT ![c].got = @ + 1] /\ relays' = relays
      <4>1. response'[c].ended = response[c].ended
        BY <3>0, <3>2 DEF Stream
      <4> QED
        BY <3>0, <3>2, <4>1 DEF TcpInv, StreamsMatchPhases
    <3>3. CASE /\ Drained(response[c]) /\ response' = [response EXCEPT ![c].seen = "eof"]
               /\ relays' = [relays EXCEPT ![c].phase = "ensure"]
      <4>1. /\ response'[c].ended /\ response'[c].got = response'[c].sent
            /\ response'[c].seen = "eof" /\ response[c].ended
        BY <3>0, <3>3 DEF Stream, Drained
      <4>2. relays'[c].phase = "ensure" /\ relays'[c].cut = relays[c].cut
        BY <3>0, <3>3 DEF TcpInv, TcpTypeOK, Relay
      <4> QED
        BY <3>0, <4>1, <4>2 DEF TcpInv, StreamsMatchPhases
    <3> QED
      BY <1>7, <3>0, <3>1, <3>2, <3>3 DEF CopyResponse
  <2>5. \A d \in Conns \ {c} : Untouched(d)
    BY <1>7 DEF CopyResponse, TcpInv, TcpTypeOK, Untouched
  <2> QED
    BY <2>1, <2>2, <2>3, <2>4, <2>5, OthersKeepTcpInv
<1>8. ASSUME NEW c \in Conns, Interrupted(c) PROVE TcpInv'
  <2>1. RestTyped'
    <3>1. relays' \in [Conns -> Relay]
      BY <1>8, RelayUpdates DEF Interrupted, TcpInv, TcpTypeOK
    <3> QED
      BY <1>8, <3>1 DEF Interrupted, TcpInv, TcpTypeOK, RestTyped
  <2>2. StreamsTyped(c)'
    BY <1>8 DEF Interrupted, TcpInv, TcpTypeOK, StreamsTyped
  <2>3. PhasesMatchSockets(c)'
    BY <1>8 DEF Interrupted, TcpInv, TcpTypeOK, Relay, PhasesMatchSockets, Connected
  <2>4. StreamsMatchPhases(c)'
    BY <1>8 DEF Interrupted, TcpInv, TcpTypeOK, Relay, StreamsMatchPhases, PhasesMatchSockets, Connected
  <2>5. \A d \in Conns \ {c} : Untouched(d)
    BY <1>8 DEF Interrupted, TcpInv, TcpTypeOK, Untouched
  <2> QED
    BY <2>1, <2>2, <2>3, <2>4, <2>5, OthersKeepTcpInv
<1>9. ASSUME NEW c \in Conns, Finish(c) PROVE TcpInv'
  <2>0. PICK s \in ToClient(c), t \in ToServer(c) :
          /\ response' = [response EXCEPT ![c].seen = s]
          /\ request' = [request EXCEPT ![c].seen = t]
    BY <1>9 DEF Finish
  <2>1. /\ response[c] \in Stream(c) /\ response'[c] = [response[c] EXCEPT !.seen = s]
        /\ request[c] \in Stream(c) /\ request'[c] = [request[c] EXCEPT !.seen = t]
        /\ s \in Seen /\ t \in Seen
    BY <2>0, SeenAfterClose DEF TcpInv, TcpTypeOK
  <2>2. /\ response'[c] \in Stream(c) /\ request'[c] \in Stream(c)
        /\ response'[c].got = response[c].got /\ response'[c].sent = response[c].sent
        /\ response'[c].ended = response[c].ended /\ response'[c].seen = s
        /\ request'[c].got = request[c].got /\ request'[c].sent = request[c].sent
        /\ request'[c].ended = request[c].ended /\ request'[c].seen = t
    <3>1. /\ \A seen \in Seen : [response[c] EXCEPT !.seen = seen] \in Stream(c)
          /\ \A seen \in Seen : [request[c] EXCEPT !.seen = seen] \in Stream(c)
      BY <2>1, StreamUpdates
    <3>2. response'[c] \in Stream(c) /\ request'[c] \in Stream(c)
      BY <2>1, <3>1
    <3>3. /\ response'[c].got = response[c].got /\ response'[c].sent = response[c].sent
          /\ response'[c].ended = response[c].ended /\ response'[c].seen = s
      BY <2>1, StreamFields
    <3>4. /\ request'[c].got = request[c].got /\ request'[c].sent = request[c].sent
          /\ request'[c].ended = request[c].ended /\ request'[c].seen = t
      BY <2>1, StreamFields
    <3> QED
      BY <3>2, <3>3, <3>4
  <2>3. RestTyped'
    <3>1. relays' \in [Conns -> Relay]
      <4>1. relays[c] \in Relay /\ relays[c].upstream \in Socket
        BY DEF TcpInv, TcpTypeOK, Relay
      <4>2. (IF relays[c].upstream = "open" THEN "closed" ELSE relays[c].upstream) \in Socket
        BY <4>1 DEF Socket
      <4> QED
        BY <1>9, <4>1, <4>2, RelayUpdates DEF Finish, TcpInv, TcpTypeOK
    <3> QED
      BY <1>9, <2>0, <3>1 DEF Finish, TcpInv, TcpTypeOK, RestTyped
  <2>4. StreamsTyped(c)'
    BY <1>9, <2>2 DEF Finish, TcpInv, TcpTypeOK, StreamsTyped
  <2>5. /\ relays[c].phase = "ensure" /\ relays'[c].phase = "ended" /\ relays'[c].cut = relays[c].cut
        /\ relays'[c].client = "closed" /\ relays'[c].upstream # "open"
        /\ relays'[c].upstream = "none" <=> relays[c].upstream = "none"
        /\ c \notin tracked'
    BY <1>9 DEF Finish, TcpInv, TcpTypeOK, Relay
  <2>6. PhasesMatchSockets(c)'
    BY <2>5 DEF PhasesMatchSockets
  <2>7. StreamsMatchPhases(c)'
    <3>1. CASE relays[c].cut # {}
      BY <2>5, <3>1 DEF StreamsMatchPhases
    <3>2. CASE relays[c].cut = {} /\ relays[c].upstream # "none"
      <4>1. response[c].ended /\ response[c].got = response[c].sent /\ response[c].seen = "eof"
        BY <2>5, <3>2 DEF TcpInv, StreamsMatchPhases
      <4>2. s = "eof" \/ Pending(request[c])
        BY <2>0, <4>1, SeenAfterClose
      <4> QED
        BY <2>2, <2>5, <3>2, <4>1, <4>2 DEF StreamsMatchPhases, Pending
    <3>3. CASE relays[c].cut = {} /\ relays[c].upstream = "none"
      <4>1. t = request[c].seen
        BY <2>0, <3>3, SeenAfterClose
      <4> QED
        BY <2>2, <2>5, <3>3, <4>1 DEF TcpInv, StreamsMatchPhases
    <3> QED
      BY <3>1, <3>2, <3>3
  <2>8. \A d \in Conns \ {c} : Untouched(d)
    BY <1>9, <2>0 DEF Finish, TcpInv, TcpTypeOK, Untouched
  <2> QED
    BY <2>3, <2>4, <2>6, <2>7, <2>8, OthersKeepTcpInv
<1>10. ASSUME NEW c \in Conns, CopyRequest(c) PROVE TcpInv'
  <2>0. /\ relays'[c].phase = relays[c].phase /\ relays'[c].client = relays[c].client
        /\ relays'[c].upstream = relays[c].upstream /\ relays'[c].cut = relays[c].cut
        /\ tracked' = tracked /\ response' = response /\ taken' = taken /\ stopper' = stopper
    BY <1>10 DEF CopyRequest, TcpInv, TcpTypeOK, Relay
  <2>1. request[c] \in Stream(c) /\ response[c] \in Stream(c) /\ DOMAIN request = Conns
    BY DEF TcpInv, TcpTypeOK
  <2>2. CASE request' = request
    <3>1. RestTyped'
      <4>1. relays' \in [Conns -> Relay]
        <5>1. \/ relays' = relays
              \/ relays' = [relays EXCEPT ![c].uplink = "ended"]
          BY <1>10 DEF CopyRequest
        <5>2. relays \in [Conns -> Relay] /\ relays[c] \in Relay
          BY DEF TcpInv, TcpTypeOK
        <5> QED
          BY <5>1, <5>2, RelayUpdates
      <4> QED
        BY <1>10, <2>2, <4>1 DEF CopyRequest, TcpInv, TcpTypeOK, RestTyped
    <3>2. StreamsTyped(c)' /\ PhasesMatchSockets(c)' /\ StreamsMatchPhases(c)'
      BY <2>0, <2>2 DEF TcpInv, TcpTypeOK, StreamsTyped, PhasesMatchSockets, StreamsMatchPhases, Connected, Pending
    <3>3. \A d \in Conns \ {c} : Untouched(d)
      BY <1>10, <2>2 DEF CopyRequest, TcpInv, TcpTypeOK, Untouched
    <3> QED
      BY <3>1, <3>2, <3>3, OthersKeepTcpInv
  <2>3. CASE /\ Connected(c)
             /\ \/ Pending(request[c]) /\ request' = [request EXCEPT ![c].got = @ + 1]
                \/ Drained(request[c]) /\ request' = [request EXCEPT ![c].seen = "eof"]
    <3>1. RestTyped'
      <4>1. relays' \in [Conns -> Relay]
        <5>1. \/ relays' = relays
              \/ relays' = [relays EXCEPT ![c].uplink = "ended"]
          BY <1>10 DEF CopyRequest
        <5>2. relays \in [Conns -> Relay] /\ relays[c] \in Relay
          BY DEF TcpInv, TcpTypeOK
        <5> QED
          BY <5>1, <5>2, RelayUpdates
      <4> QED
        BY <1>10, <2>1, <2>3, <4>1 DEF CopyRequest, TcpInv, TcpTypeOK, RestTyped
    <3>2. \/ /\ Pending(request[c]) /\ request'[c] = [request[c] EXCEPT !.got = @ + 1]
          \/ /\ Drained(request[c]) /\ request'[c] = [request[c] EXCEPT !.seen = "eof"]
      BY <2>1, <2>3
    <3>3. request'[c] \in Stream(c)
      BY <2>1, <3>2, StreamUpdates DEF Pending, Seen
    <3>4. StreamsTyped(c)'
      <4>1. /\ request[c].got \in Nat /\ request[c].sent \in Nat /\ request[c].got <= request[c].sent
            /\ taken[c] \in Nat /\ taken[c] <= response[c].got /\ response[c].got <= response[c].sent
        BY <2>1, StreamFields DEF TcpInv, TcpTypeOK
      <4>2. CASE Pending(request[c]) /\ request'[c] = [request[c] EXCEPT !.got = @ + 1]
        <5>1. request'[c].got = request[c].got + 1 /\ request'[c].sent = request[c].sent
          BY <2>1, <4>2, StreamFields
        <5> QED
          BY <2>0, <2>1, <3>3, <4>1, <4>2, <5>1 DEF StreamsTyped, Pending
      <4>3. CASE request'[c] = [request[c] EXCEPT !.seen = "eof"]
        <5>1. request'[c].got = request[c].got /\ request'[c].sent = request[c].sent
          BY <2>1, <4>3, StreamFields
        <5> QED
          BY <2>0, <2>1, <3>3, <4>1, <5>1 DEF StreamsTyped
      <4> QED
        BY <3>2, <4>2, <4>3
    <3>5. PhasesMatchSockets(c)'
      BY <2>0 DEF TcpInv, PhasesMatchSockets, Connected
    <3>6. relays[c].phase # "ended"
      <4>1. Connected(c) /\ PhasesMatchSockets(c)
        BY <2>3 DEF TcpInv
      <4> QED
        BY <4>1 DEF Connected, PhasesMatchSockets
    <3>7. request'[c].seen = "eof" /\ ~response[c].ended /\ relays[c].cut = {} =>
            request'[c].ended /\ request'[c].got = request'[c].sent
      <4>1. CASE Pending(request[c]) /\ request'[c] = [request[c] EXCEPT !.got = @ + 1]
        <5>1. request'[c].seen = request[c].seen /\ request[c].got < request[c].sent
              /\ request[c].got \in Nat /\ request[c].sent \in Nat
          BY <2>1, <4>1 DEF Stream, Pending
        <5>2. request[c].got # request[c].sent
          BY <5>1
        <5> QED
          BY <5>1, <5>2 DEF TcpInv, StreamsMatchPhases
      <4>2. CASE Drained(request[c]) /\ request'[c] = [request[c] EXCEPT !.seen = "eof"]
        BY <2>1, <4>2 DEF Stream, Drained
      <4> QED
        BY <3>2, <4>1, <4>2
    <3>8. StreamsMatchPhases(c)'
      BY <2>0, <3>6, <3>7 DEF TcpInv, StreamsMatchPhases
    <3>9. \A d \in Conns \ {c} : Untouched(d)
      BY <1>10, <2>0, <2>3 DEF CopyRequest, TcpInv, TcpTypeOK, Untouched
    <3> QED
      BY <3>1, <3>4, <3>5, <3>8, <3>9, OthersKeepTcpInv
  <2> QED
    BY <1>10, <2>2, <2>3 DEF CopyRequest
<1>11. ASSUME NEW c \in Conns, Queue(c) PROVE TcpInv'
  <2>1. RestTyped'
    <3>1. relays' \in [Conns -> Relay]
      BY <1>11, RelayUpdates DEF Queue, TcpInv, TcpTypeOK
    <3> QED
      BY <1>11, <3>1 DEF Queue, TcpInv, TcpTypeOK, RestTyped
  <2>2. StreamsTyped(c)'
    BY <1>11 DEF Queue, TcpInv, TcpTypeOK, StreamsTyped
  <2>3. PhasesMatchSockets(c)'
    BY <1>11 DEF Queue, TcpInv, TcpTypeOK, Relay, PhasesMatchSockets, Connected
  <2>4. StreamsMatchPhases(c)'
    BY <1>11 DEF Queue, TcpInv, TcpTypeOK, Relay, StreamsMatchPhases, PhasesMatchSockets, Connected
  <2>5. \A d \in Conns \ {c} : Untouched(d)
    BY <1>11 DEF Queue, TcpInv, TcpTypeOK, Untouched
  <2> QED
    BY <2>1, <2>2, <2>3, <2>4, <2>5, OthersKeepTcpInv
<1>12. ASSUME NEW c \in Conns, ClientSends(c) PROVE TcpInv'
  <2>0. /\ relays' = relays /\ tracked' = tracked /\ taken' = taken
        /\ request[c] \in Stream(c) /\ response[c] \in Stream(c) /\ ~request[c].ended
        /\ DOMAIN request = Conns /\ DOMAIN response = Conns
    BY <1>12 DEF ClientSends, TcpInv, TcpTypeOK
  <2>1. \/ /\ request[c].sent < MaxChunks[c]
           /\ request'[c] = [request[c] EXCEPT !.sent = @ + 1]
           /\ response'[c] = [response[c] EXCEPT !.seen = IF relays[c].client = "closed" THEN "reset" ELSE @]
        \/ request'[c] = [request[c] EXCEPT !.ended = TRUE] /\ response'[c] = response[c]
    BY <1>12, <2>0 DEF ClientSends
  <2>2. RestTyped'
    BY <1>12, <2>0 DEF ClientSends, TcpInv, TcpTypeOK, RestTyped
  <2>3. \A d \in Conns \ {c} : Untouched(d)
    BY <1>12, <2>0 DEF ClientSends, TcpInv, TcpTypeOK, Untouched
  <2>4. /\ request'[c] \in Stream(c) /\ response'[c] \in Stream(c)
        /\ response'[c].got = response[c].got /\ response'[c].sent = response[c].sent
        /\ response'[c].ended = response[c].ended /\ request'[c].seen = request[c].seen
        /\ request'[c].got = request[c].got
        /\ request'[c].sent = request[c].sent \/ request'[c].sent = request[c].sent + 1
        /\ \/ response'[c].seen = response[c].seen
           \/ relays[c].client = "closed" /\ request'[c].sent = request[c].sent + 1
    <3>0. \A seen \in Seen : [response[c] EXCEPT !.seen = seen] \in Stream(c)
      BY <2>0, StreamUpdates
    <3>1. request'[c] \in Stream(c)
      BY <2>0, <2>1, StreamUpdates
    <3>2. response'[c] \in Stream(c)
      <4>1. (IF relays[c].client = "closed" THEN "reset" ELSE response[c].seen) \in Seen
        BY <2>0 DEF Stream, Seen
      <4> QED
        BY <2>0, <2>1, <3>0, <4>1
    <3>3. CASE request'[c] = [request[c] EXCEPT !.ended = TRUE] /\ response'[c] = response[c]
      <4>1. request'[c].got = request[c].got /\ request'[c].sent = request[c].sent
            /\ request'[c].seen = request[c].seen
        BY <2>0, <3>3, StreamFields
      <4>2. /\ response'[c].got = response[c].got /\ response'[c].sent = response[c].sent
            /\ response'[c].ended = response[c].ended /\ response'[c].seen = response[c].seen
        BY <3>3
      <4> QED
        BY <3>1, <3>2, <4>1, <4>2
    <3>4. CASE /\ request'[c] = [request[c] EXCEPT !.sent = @ + 1]
               /\ response'[c] = [response[c] EXCEPT !.seen =
                                    IF relays[c].client = "closed" THEN "reset" ELSE @]
      <4>1. request'[c].got = request[c].got /\ request'[c].sent = request[c].sent + 1
            /\ request'[c].seen = request[c].seen
        BY <2>0, <3>4, StreamFields
      <4>2. /\ response'[c].got = response[c].got /\ response'[c].sent = response[c].sent
            /\ response'[c].ended = response[c].ended
            /\ response'[c].seen = IF relays[c].client = "closed" THEN "reset" ELSE response[c].seen
        BY <2>0, <3>4, StreamFields
      <4> QED
        BY <3>1, <3>2, <4>1, <4>2
    <3> QED
      BY <2>1, <3>3, <3>4
  <2>5. PhasesMatchSockets(c)'
    BY <2>0 DEF TcpInv, PhasesMatchSockets, Connected
  <2>6. request[c].got \in Nat /\ request[c].sent \in Nat /\ request[c].got <= request[c].sent
    BY <2>0, StreamFields DEF TcpInv, TcpTypeOK
  <2>8. StreamsTyped(c)'
    <3>1. request'[c].got <= request'[c].sent
      BY <2>4, <2>6
    <3> QED
      BY <2>0, <2>4, <3>1 DEF TcpInv, TcpTypeOK, StreamsTyped
  <2>7. StreamsMatchPhases(c)'
    <3> SUFFICES ASSUME relays[c].cut = {}
                 PROVE  StreamsMatchPhases(c)'
      BY <2>0 DEF StreamsMatchPhases
    <3>1. request'[c].seen = "eof" => response'[c].ended
      BY <2>0, <2>4 DEF TcpInv, StreamsMatchPhases
    <3>2. relays[c].phase = "ensure" /\ relays[c].upstream # "none" => response'[c].seen = "eof"
      BY <2>4 DEF TcpInv, StreamsMatchPhases, PhasesMatchSockets, Connected
    <3>3. Pending(request[c]) => Pending(request'[c])
      BY <2>0, <2>4 DEF Stream, Pending
    <3>4. relays[c].phase = "ended" /\ relays[c].upstream # "none" =>
            response'[c].seen = "eof" \/ Pending(request'[c])
      <4>1. CASE response'[c].seen = response[c].seen
        BY <3>3, <4>1 DEF TcpInv, StreamsMatchPhases
      <4>2. CASE request'[c].sent = request[c].sent + 1
        BY <2>4, <2>6, <4>2 DEF Pending
      <4> QED
        BY <2>4, <4>1, <4>2
    <3> QED
      BY <2>0, <2>4, <3>1, <3>2, <3>4 DEF TcpInv, StreamsMatchPhases
  <2> QED
    BY <2>2, <2>3, <2>5, <2>7, <2>8, OthersKeepTcpInv
<1>13. ASSUME NEW c \in Conns, ServerSends(c) PROVE TcpInv'
  <2>0. /\ relays' = relays /\ tracked' = tracked /\ taken' = taken
        /\ request[c] \in Stream(c) /\ response[c] \in Stream(c) /\ ~response[c].ended
        /\ DOMAIN request = Conns /\ DOMAIN response = Conns
    BY <1>13 DEF ServerSends, TcpInv, TcpTypeOK
  <2>1. \/ /\ response[c].sent < MaxChunks[c]
           /\ response'[c] = [response[c] EXCEPT !.sent = @ + 1]
           /\ request'[c] = [request[c] EXCEPT !.seen = IF relays[c].upstream = "closed" THEN "reset" ELSE @]
        \/ response'[c] = [response[c] EXCEPT !.ended = TRUE] /\ request'[c] = request[c]
    BY <1>13, <2>0 DEF ServerSends
  <2>2. RestTyped'
    BY <1>13, <2>0 DEF ServerSends, TcpInv, TcpTypeOK, RestTyped
  <2>3. \A d \in Conns \ {c} : Untouched(d)
    BY <1>13, <2>0 DEF ServerSends, TcpInv, TcpTypeOK, Untouched
  <2>4. /\ request'[c] \in Stream(c) /\ response'[c] \in Stream(c)
        /\ response'[c].got = response[c].got /\ response'[c].seen = response[c].seen
        /\ response'[c].sent = response[c].sent \/ response'[c].sent = response[c].sent + 1
        /\ request'[c].got = request[c].got /\ request'[c].sent = request[c].sent
        /\ request'[c].ended = request[c].ended
        /\ request'[c].seen \in {request[c].seen, "reset"}
    <3>0. \A seen \in Seen : [request[c] EXCEPT !.seen = seen] \in Stream(c)
      BY <2>0, StreamUpdates
    <3>1. response'[c] \in Stream(c)
      BY <2>0, <2>1, StreamUpdates
    <3>2. request'[c] \in Stream(c)
      <4>1. (IF relays[c].upstream = "closed" THEN "reset" ELSE request[c].seen) \in Seen
        BY <2>0 DEF Stream, Seen
      <4> QED
        BY <2>0, <2>1, <3>0, <4>1
    <3>3. CASE response'[c] = [response[c] EXCEPT !.ended = TRUE] /\ request'[c] = request[c]
      <4>1. response'[c].got = response[c].got /\ response'[c].sent = response[c].sent
            /\ response'[c].seen = response[c].seen
        BY <2>0, <3>3, StreamFields
      <4> QED
        BY <3>1, <3>2, <3>3, <4>1
    <3>4. CASE /\ response'[c] = [response[c] EXCEPT !.sent = @ + 1]
               /\ request'[c] = [request[c] EXCEPT !.seen =
                                   IF relays[c].upstream = "closed" THEN "reset" ELSE @]
      <4>1. response'[c].got = response[c].got /\ response'[c].sent = response[c].sent + 1
            /\ response'[c].seen = response[c].seen
        BY <2>0, <3>4, StreamFields
      <4>2. /\ request'[c].got = request[c].got /\ request'[c].sent = request[c].sent
            /\ request'[c].ended = request[c].ended
            /\ request'[c].seen = IF relays[c].upstream = "closed" THEN "reset" ELSE request[c].seen
        BY <2>0, <3>4, StreamFields
      <4> QED
        BY <3>1, <3>2, <4>1, <4>2
    <3> QED
      BY <2>1, <3>3, <3>4
  <2>5. PhasesMatchSockets(c)'
    BY <2>0 DEF TcpInv, PhasesMatchSockets, Connected
  <2>7. StreamsTyped(c)'
    <3>1. /\ response[c].got \in Nat /\ response[c].sent \in Nat
          /\ response[c].got <= response[c].sent
      BY <2>0, StreamFields DEF TcpInv, TcpTypeOK
    <3>2. response'[c].got <= response'[c].sent
      BY <2>4, <3>1
    <3> QED
      BY <2>0, <2>4, <3>2 DEF TcpInv, TcpTypeOK, StreamsTyped
  <2>6. StreamsMatchPhases(c)'
    BY <2>0, <2>4 DEF TcpInv, StreamsMatchPhases, Pending
  <2> QED
    BY <2>2, <2>3, <2>5, <2>6, <2>7, OthersKeepTcpInv
<1>14. ASSUME NEW c \in Conns, ClientReads(c) PROVE TcpInv'
  <2>0. taken' = [taken EXCEPT ![c] = @ + 1] /\ taken[c] < response[c].got
        /\ UNCHANGED <<listener, acceptor, stopper, tracked, relays, request, response>>
    BY <1>14 DEF ClientReads
  <2>1. taken'[c] = taken[c] + 1 /\ taken[c] \in Nat /\ response[c].got \in Nat
    BY <2>0 DEF TcpInv, TcpTypeOK, Stream
  <2>2. RestTyped'
    BY <2>0 DEF TcpInv, TcpTypeOK, RestTyped
  <2>3. StreamsTyped(c)'
    BY <2>0, <2>1 DEF TcpInv, TcpTypeOK, StreamsTyped
  <2>4. PhasesMatchSockets(c)' /\ StreamsMatchPhases(c)'
    BY <2>0 DEF TcpInv, PhasesMatchSockets, StreamsMatchPhases, Connected, Pending
  <2>5. \A d \in Conns \ {c} : Untouched(d)
    BY <2>0 DEF TcpInv, TcpTypeOK, Untouched
  <2> QED
    BY <2>2, <2>3, <2>4, <2>5, OthersKeepTcpInv
<1>15. ASSUME NEW c \in Conns, Reset(c) PROVE TcpInv'
  <2>1. RestTyped'
    <3>1. relays' \in [Conns -> Relay]
      <4>1. \/ relays' = [relays EXCEPT ![c].cut = @ \cup {"client"}]
            \/ relays' = [relays EXCEPT ![c].cut = @ \cup {"server"}]
        BY <1>15 DEF Reset
      <4>2. relays \in [Conns -> Relay] /\ relays[c] \in Relay
        BY DEF TcpInv, TcpTypeOK
      <4> QED
        BY <4>1, <4>2, CutUpdates
    <3> QED
      BY <1>15, <3>1 DEF Reset, TcpInv, TcpTypeOK, RestTyped
  <2>2. StreamsTyped(c)'
    BY <1>15 DEF Reset, TcpInv, TcpTypeOK, StreamsTyped
  <2>3. PhasesMatchSockets(c)'
    BY <1>15 DEF Reset, TcpInv, TcpTypeOK, Relay, PhasesMatchSockets, Connected
  <2>4. StreamsMatchPhases(c)'
    BY <1>15 DEF Reset, TcpInv, TcpTypeOK, Relay, StreamsMatchPhases
  <2>5. \A d \in Conns \ {c} : Untouched(d)
    BY <1>15 DEF Reset, TcpInv, TcpTypeOK, Untouched
  <2> QED
    BY <2>1, <2>2, <2>3, <2>4, <2>5, OthersKeepTcpInv
<1>16. CASE UNCHANGED tcpVars
  BY <1>16 DEF tcpVars, TcpInv, TcpTypeOK, PhasesMatchSockets, StreamsMatchPhases, Connected, Pending
<1> QED
  BY <1>1, <1>2, <1>3, <1>4, <1>5, <1>6, <1>7, <1>8, <1>9, <1>10, <1>11, <1>12, <1>13, <1>14,
     <1>15, <1>16
  DEF TcpNext, Works, Peers

THEOREM TcpInvariance == TcpSpec => []TcpInv
BY TcpInitInv, TcpNextInv, PTL DEF TcpSpec

(* Whatever peers and stop do, listener, threads, sockets and streams keep  *)
(* their types, and no side receives more than the other sent.              *)
THEOREM TcpTypeCorrect == TcpSpec => []TcpTypeOK
<1>1. TcpInv => TcpTypeOK
  BY DEF TcpInv
<1> QED
  BY <1>1, TcpInvariance, PTL

(* Where neither a reset nor stop cuts a connection, its client has got the *)
(* whole response when the relay has ended, and sees it end unless data it  *)
(* sent was left unread; and a server that still answers sees the end of a  *)
(* request only after all of it.                                            *)
THEOREM StreamsWhole == TcpSpec => []StreamsArriveWhole
<1>1. TcpInv => StreamsArriveWhole
  BY DEF TcpInv, StreamsMatchPhases, StreamsArriveWhole
<1> QED
  BY <1>1, TcpInvariance, PTL

-----------------------------------------------------------------------------
(* A connection relayed before stop has closed the tracked sockets.         *)
Relayed(c) ==
    /\ relays[c].phase \in {"relaying", "ensure", "ended"}
    /\ stopper = "stopped" /\ relays[c].phase = "relaying" =>
            relays[c].client # "open" /\ relays[c].upstream # "open"

LEMMA RelayedNext ==
    ASSUME NEW c \in Conns
    PROVE  TcpInv /\ Relayed(c) /\ [TcpNext]_tcpVars => Relayed(c)'
<1> SUFFICES ASSUME TcpInv, Relayed(c), [TcpNext]_tcpVars PROVE Relayed(c)'
  OBVIOUS
<1>1. CASE AcceptRaises \/ UNCHANGED tcpVars
  BY <1>1 DEF AcceptRaises, tcpVars, Relayed
<1>2. CASE CloseListener
  BY <1>2 DEF CloseListener, TcpInv, TcpTypeOK, Relayed
<1>3. CASE CloseTracked
  <2>1. CASE c \in tracked
    <3>1. relays'[c] = [relays[c] EXCEPT !.client = "closed", !.upstream = "closed",
                                         !.cut = @ \cup {"stop"}]
      BY <1>3, <2>1 DEF CloseTracked
    <3>2. relays[c] \in Relay
      BY DEF TcpInv, TcpTypeOK
    <3>3. /\ relays'[c].phase = relays[c].phase /\ relays'[c].client = "closed"
          /\ relays'[c].upstream = "closed"
      BY <3>1, <3>2 DEF Relay
    <3> QED
      BY <3>3 DEF Relayed
  <2>2. CASE c \notin tracked
    BY <1>3, <2>2 DEF CloseTracked, TcpInv, TcpTypeOK, PhasesMatchSockets, Relayed
  <2> QED
    BY <2>1, <2>2
<1>4. ASSUME NEW d \in Conns, Accept(d) \/ Dial(d) \/ Track(d) \/ Queue(d) PROVE Relayed(c)'
  BY <1>4 DEF Accept, Dial, Track, Queue, TcpInv, TcpTypeOK, Relayed
<1>5. ASSUME NEW d \in Conns, CopyResponse(d) \/ Interrupted(d) \/ CopyRequest(d) \/ Reset(d)
      PROVE  Relayed(c)'
  BY <1>5 DEF CopyResponse, Interrupted, CopyRequest, Reset, TcpInv, TcpTypeOK, Relay, Relayed
<1>6. ASSUME NEW d \in Conns, Finish(d) PROVE Relayed(c)'
  BY <1>6 DEF Finish, TcpInv, TcpTypeOK, Relay, Relayed
<1>7. ASSUME NEW d \in Conns, ClientSends(d) \/ ServerSends(d) \/ ClientReads(d) PROVE Relayed(c)'
  BY <1>7 DEF ClientSends, ServerSends, ClientReads, Relayed
<1> QED
  BY <1>1, <1>2, <1>3, <1>4, <1>5, <1>6, <1>7 DEF TcpNext, Works, Peers

(* Whatever the relays and the peers do meanwhile, stop leaves no socket    *)
(* open of a connection that was relayed before it closed the tracked ones, *)
(* but for those the relay's own ensure is about to close.                  *)
THEOREM RelaysStopped == TcpSpec => StopEndsRelays
<1> SUFFICES ASSUME NEW c \in Conns
    PROVE  TcpSpec =>
             [](relays[c].phase = "relaying" /\ stopper # "stopped" =>
                  [](stopper = "stopped" /\ relays[c].phase # "ensure" =>
                         relays[c].client # "open" /\ relays[c].upstream # "open"))
  BY DEF StopEndsRelays
<1>1. relays[c].phase = "relaying" /\ stopper # "stopped" => Relayed(c)
  BY DEF Relayed
<1>2. TcpInv /\ Relayed(c) =>
        (stopper = "stopped" /\ relays[c].phase # "ensure" =>
            relays[c].client # "open" /\ relays[c].upstream # "open")
  BY DEF TcpInv, PhasesMatchSockets, Relayed
<1>3. TcpInv /\ Relayed(c) /\ [TcpNext]_tcpVars => Relayed(c)'
  BY RelayedNext
<1> QED
  BY <1>1, <1>2, <1>3, TcpInvariance, PTL DEF TcpSpec

=============================================================================
