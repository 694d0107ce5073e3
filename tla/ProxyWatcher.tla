---------------------------- MODULE ProxyWatcher ----------------------------
(***************************************************************************)
(* The watcher of the localhost_forward_proxy sidecar.  A sync inspects    *)
(* the running containers, joins the devcontainer to networks of stacks it *)
(* does not share one with, and makes @proxies mirror the published ports. *)
(*                                                                         *)
(* Syncs hold @sync_mutex, so there is one at a time, whichever of the     *)
(* heartbeat and events threads runs it: sync is its local state.  Around  *)
(* it containers come and go, other processes of the devcontainer bind     *)
(* ports, Docker commands fail and the sidecar restarts.                   *)
(*                                                                         *)
(* An operator used nowhere is a faulty form of the next one that is used, *)
(* for the mutation checks.                                                *)
(***************************************************************************)
EXTENDS Integers, FiniteSets

CONSTANTS
    Containers,  \* containers of stacks in the workspace
    HostPorts,   \* published host ports
    Targets,     \* where a proxy connects: a container's IP and private port
    None,        \* no target
    Publishes,   \* the host ports of each container
    Networks,    \* the attachable networks of each container
    MaxChanges   \* bound: changes of the world around the sidecar

AllNetworks == UNION {Networks[c] : c \in Containers}

ASSUME WatcherAssumption ==
    /\ None \notin Targets
    /\ \A c \in Containers : Publishes[c] \subseteq HostPorts
    /\ MaxChanges \in Nat

VARIABLES
    address,  \* the target of each running container
    joined,   \* stack networks the devcontainer is on
    held,     \* ports another process in the devcontainer listens on
    proxies,  \* @proxies: the target of the TcpProxy on each port
    sync,     \* the sync that holds the mutex, or the last one
    changes   \* changes of the world so far

vars == <<address, joined, held, proxies, sync, changes>>

Addresses == [Containers -> Targets \cup {None}]
Steps == {"idle", "list", "attach", "bind", "down"}

(* fresh and busy are history: no container started or died since the sync  *)
(* inspected them, and the ports that it found in use.                      *)
Sync == [step : Steps, seen : Addresses, todo : SUBSET Containers,
         networks : SUBSET AllNetworks, reached : SUBSET Containers,
         left : SUBSET HostPorts, fresh : BOOLEAN, busy : SUBSET HostPorts]

At(step) == [step |-> step, seen |-> [c \in Containers |-> None], todo |-> {},
             networks |-> {}, reached |-> {}, left |-> {}, fresh |-> FALSE, busy |-> {}]

(* The target on port p of the containers cs at the given addresses.        *)
TargetOf(p, cs, at) ==
    IF \E c \in cs : p \in Publishes[c] /\ at[c] # None
    THEN at[CHOOSE c \in cs : p \in Publishes[c] /\ at[c] # None]
    ELSE None

Forward(p) == TargetOf(p, sync.reached, sync.seen)

(* The first network Docker lists for a container that has one. *)
First(c) == CHOOSE n \in Networks[c] : TRUE

-----------------------------------------------------------------------------
Init ==
    /\ address = [c \in Containers |-> None]
    /\ joined = {}
    /\ held = {}
    /\ proxies = [p \in HostPorts |-> None]
    /\ sync = At("idle")
    /\ changes = 0

(* The first sync, one after a start or die event, or the heartbeat's.      *)
StartSync ==
    /\ sync.step = "idle"
    /\ sync' = At("list")
    /\ UNCHANGED <<address, joined, held, proxies, changes>>

(* running_containers *)
List ==
    /\ sync.step = "list"
    /\ sync' = [At("attach") EXCEPT
            !.seen = address, !.networks = joined, !.fresh = TRUE,
            !.todo = {c \in Containers : address[c] # None /\ Publishes[c] # {}}]
    /\ UNCHANGED <<address, joined, held, proxies, changes>>

(* desired_forwards, in the order of docker ps: a container that shares a   *)
(* network with the devcontainer is reached, one without a network skipped, *)
Share(c) ==
    /\ Networks[c] \cap sync.networks # {}
    /\ sync' = [sync EXCEPT !.todo = @ \ {c}, !.reached = @ \cup {c}]
    /\ UNCHANGED joined

Skip(c) ==
    /\ Networks[c] = {}
    /\ sync' = [sync EXCEPT !.todo = @ \ {c}]
    /\ UNCHANGED joined

(* and for any other the devcontainer joins the first of its networks.      *)
Join(c) ==
    /\ Networks[c] # {} /\ Networks[c] \cap sync.networks = {}
    /\ joined' = joined \cup {First(c)}
    /\ sync' = [sync EXCEPT !.todo = @ \ {c}, !.reached = @ \cup {c}, !.networks = @ \cup {First(c)}]

Attach(c) ==
    /\ sync.step = "attach" /\ c \in sync.todo
    /\ Share(c) \/ Skip(c) \/ Join(c)
    /\ UNCHANGED <<address, held, proxies, changes>>

(* A CommandError of docker ps, inspect or network connect ends the sync    *)
(* where it is.                                                             *)
SyncFails ==
    /\ \/ sync.step = "list"
       \/ /\ sync.step = "attach"
          /\ \E c \in sync.todo : Networks[c] # {} /\ Networks[c] \cap sync.networks = {}
    /\ sync' = At("idle")
    /\ UNCHANGED <<address, joined, held, proxies, changes>>

(* reconcile_proxies: stop the proxies of ports no longer published,        *)
DropProxies ==
    /\ sync.step = "attach" /\ sync.todo = {}
    /\ proxies' = [p \in HostPorts |-> IF Forward(p) = None THEN None ELSE proxies[p]]
    /\ sync' = [sync EXCEPT !.step = "bind", !.left = {p \in HostPorts : Forward(p) # None}]
    /\ UNCHANGED <<address, joined, held, changes>>

(* then, for each forward, keep its proxy, stop one for another target,     *)
KeepAnyProxy(p) ==
    /\ proxies[p] # None
    /\ sync' = [sync EXCEPT !.left = @ \ {p}]
    /\ UNCHANGED proxies

KeepProxy(p) ==
    /\ proxies[p] = Forward(p)
    /\ sync' = [sync EXCEPT !.left = @ \ {p}]
    /\ UNCHANGED proxies

StopAnyProxy(p) ==
    /\ proxies[p] # None
    /\ proxies' = [proxies EXCEPT ![p] = None]
    /\ UNCHANGED sync

StopProxy(p) ==
    /\ proxies[p] \notin {None, Forward(p)}
    /\ proxies' = [proxies EXCEPT ![p] = None]
    /\ UNCHANGED sync

(* and listen, unless the port is in use (EADDRINUSE).                      *)
StartProxyOrDie(p) ==
    /\ proxies[p] = None
    /\ IF p \in held
       THEN /\ sync' = At("down")
            /\ proxies' = [q \in HostPorts |-> None]
       ELSE /\ proxies' = [proxies EXCEPT ![p] = Forward(p)]
            /\ sync' = [sync EXCEPT !.left = @ \ {p}]

StartProxy(p) ==
    /\ proxies[p] = None
    /\ IF p \in held
       THEN /\ sync' = [sync EXCEPT !.left = @ \ {p}, !.busy = @ \cup {p}]
            /\ UNCHANGED proxies
       ELSE /\ proxies' = [proxies EXCEPT ![p] = Forward(p)]
            /\ sync' = [sync EXCEPT !.left = @ \ {p}]

Bind(p) ==
    /\ sync.step = "bind" /\ p \in sync.left
    /\ KeepProxy(p) \/ StopProxy(p) \/ StartProxy(p)
    /\ UNCHANGED <<address, joined, held, changes>>

EndSync ==
    /\ sync.step = "bind" /\ sync.left = {}
    /\ sync' = [sync EXCEPT !.step = "idle"]
    /\ UNCHANGED <<address, joined, held, proxies, changes>>

(* The sidecar starts again after it has crashed or was stopped.            *)
Restart ==
    /\ sync.step = "down"
    /\ sync' = At("idle")
    /\ UNCHANGED <<address, joined, held, proxies, changes>>

-----------------------------------------------------------------------------
Changed(step) == changes < MaxChanges /\ changes' = changes + 1 /\ step

(* An exception other than CommandError, or SIGTERM: the listeners go with  *)
(* the process.                                                             *)
Crash ==
    /\ sync.step # "down"
    /\ sync' = At("down")
    /\ proxies' = [p \in HostPorts |-> None]
    /\ UNCHANGED <<address, joined, held>>

(* Docker publishes a host port for one running container only.             *)
ContainerStarts(c, target) ==
    /\ address[c] = None
    /\ \A d \in Containers : address[d] # target
    /\ \A d \in Containers : address[d] # None => Publishes[d] \cap Publishes[c] = {}
    /\ address' = [address EXCEPT ![c] = target]
    /\ sync' = [sync EXCEPT !.fresh = FALSE]
    /\ UNCHANGED <<joined, held, proxies>>

ContainerDies(c) ==
    /\ address[c] # None
    /\ address' = [address EXCEPT ![c] = None]
    /\ sync' = [sync EXCEPT !.fresh = FALSE]
    /\ UNCHANGED <<joined, held, proxies>>

PortTaken(p) ==
    /\ p \notin held /\ proxies[p] = None
    /\ held' = held \cup {p}
    /\ UNCHANGED <<address, joined, proxies, sync>>

PortReleased(p) ==
    /\ p \in held
    /\ held' = held \ {p}
    /\ UNCHANGED <<address, joined, proxies, sync>>

World ==
    \/ Crash
    \/ \E c \in Containers : ContainerDies(c) \/ \E target \in Targets : ContainerStarts(c, target)
    \/ \E p \in HostPorts : PortTaken(p) \/ PortReleased(p)

Progress ==
    \/ StartSync \/ List \/ DropProxies \/ EndSync \/ Restart
    \/ \E c \in Containers : Attach(c)
    \/ \E p \in HostPorts : Bind(p)

Next == Progress \/ SyncFails \/ Changed(World)

Spec == Init /\ [][Next]_vars

(* The heartbeat starts a sync every 15 seconds, Compose restarts the       *)
(* sidecar, and a Docker command that is tried again and again does not     *)
(* fail every time.                                                         *)
FairSpec ==
    /\ Spec
    /\ WF_vars(StartSync) /\ WF_vars(SyncFails) /\ WF_vars(DropProxies) /\ WF_vars(EndSync)
    /\ WF_vars(Restart)
    /\ SF_vars(List)
    /\ \A c \in Containers : SF_vars(Attach(c))
    /\ \A p \in HostPorts : WF_vars(Bind(p))

-----------------------------------------------------------------------------
TypeOK ==
    /\ address \in Addresses
    /\ joined \subseteq AllNetworks
    /\ held \subseteq HostPorts
    /\ proxies \in [HostPorts -> Targets \cup {None}]
    /\ sync \in Sync
    /\ changes \in 0..MaxChanges

(* What the ports should mirror now: the containers that can be reached.    *)
Wanted(p) == TargetOf(p, {c \in Containers : Networks[c] # {}}, address)

(* After a sync, and until a container starts or dies, every published port *)
(* leads to its container and no other port is mirrored, whatever proxies   *)
(* the sync found; only ports it found in use are left out.                 *)
SyncMirrorsPorts ==
    sync.step = "idle" /\ sync.fresh =>
        \A p \in HostPorts : proxies[p] = IF p \in sync.busy THEN None ELSE Wanted(p)

(* A sync, also one that fails, never interrupts a proxy that leads where   *)
(* its port should, so the heartbeat cuts no connection that works.         *)
WorkingForwardsStay ==
    [][\A p \in HostPorts :
            proxies[p] # None /\ proxies[p] = Wanted(p) /\ sync.fresh /\ sync'.step # "down"
                => proxies'[p] = proxies[p]]_vars

(* "keeps one TcpProxy per published host port": once the world is quiet,   *)
(* each port that nobody else holds leads to its container and stays so,    *)
(* after failed syncs, restarts and changes in the middle of a sync.        *)
PortsGetMirrored ==
    \A p \in HostPorts : <>[](p \notin held => proxies[p] = Wanted(p))

=============================================================================
