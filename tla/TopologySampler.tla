---------------------------- MODULE TopologySampler ----------------------------
(***************************************************************************)
(* How the bridge finds out what is on its bus (topology_sampler.cpp):     *)
(* while the bus is powered it requests the topology once a minute, asks   *)
(* each node of a new list for its system information and configuration,   *)
(* and offers the result to the host when its CRC is not in the list of    *)
(* known ones (sm_config_crc_list.cpp).  The sensor controller is told,    *)
(* and asks the nodes of the list for their applications                   *)
(* (sensorController.cpp).                                                 *)
(*                                                                         *)
(* The supply is BusPower, which BridgePower implements, with an enable    *)
(* flag that others set and clear at any time.  The topology library and   *)
(* the request library of Bristlemouth are external.  The CRC of a         *)
(* configuration is the configuration itself.                              *)
(***************************************************************************)
EXTENDS BusPower, Naturals, Sequences, Functions

CONSTANTS
  Nodes,        (* the nodes of the bus, the bridge among them             *)
  TypeOf,       (* the sensor type of each node's application              *)
  Unknown,      (* SENSOR_TYPE_UNKNOWN                                     *)
  Networks,     (* node lists that a topology request may find             *)
  ListSize,     (* SMConfigCRCList::MAX_LIST_SIZE                          *)
  Late,         (* requests and the sensor controller may be so slow that  *)
                (* the next gathering overtakes them                       *)
  SaveFails     (* save_config() may fail                                  *)

ASSUME TopologySamplerAssumption ==
  /\ ON # OFF
  /\ \A net \in Networks : net \in Seq(Nodes) /\ Len(net) > 0
  /\ ListSize \in Nat \ {0} /\ Late \in BOOLEAN /\ SaveFails \in BOOLEAN

VARIABLES
  enabled,       (* _powerControlEnabled                                   *)
  pc, back,      (* the sampler task, and where a gathering returns to     *)
  topo,          (* topology library: "idle", "busy", or its callback      *)
                 (* "waits" for the mutex                                  *)
  timer,         (* topology_timer is active                               *)
  semaphore,     (* network_topology_semaphore                             *)
  nodes, types,  (* _node_list: nodes and sensor_type                      *)
  entries,       (* the array under construction, an entry per node        *)
  open,          (* requests that the library may still answer             *)
  sysQueue, mapQueue,  (* _sys_info_queue, _config_cbor_map_queue          *)
  sendOnBoot,    (* _send_on_boot                                          *)
  known, saved,  (* the CRC list: configuration in RAM, and in flash       *)
  told,          (* listed configurations that have been sent to the host, *)
                 (* or that a reset cut off between saving and sending     *)
  bit, asker     (* SAMPLER_TIMER_BITS, and the sensor controller's task   *)

control == <<busVars, enabled>>
task    == <<pc, back, timer>>
library == <<topo, open>>
list    == <<semaphore, nodes, types>>
gather  == <<entries, sysQueue, mapQueue>>
crcs    == <<sendOnBoot, known, saved, told>>
sensor  == <<bit, asker>>
vars    == <<control, task, library, list, gather, crcs, sensor>>

Init ==
  /\ BusInit /\ enabled \in BOOLEAN
  /\ pc = "boot" /\ back = "boot" /\ timer = FALSE
  /\ topo = "idle" /\ open = {}
  /\ semaphore = FALSE /\ nodes = <<>> /\ types = <<>>
  /\ entries = <<>> /\ sysQueue = <<>> /\ mapQueue = <<>>
  /\ sendOnBoot = TRUE /\ known = <<>> /\ saved = <<>> /\ told = {}
  /\ bit = FALSE /\ asker = "idle"

(* The gathering and its sending happen under node_list_mutex. *)
Locked == pc \in {"sys", "map", "send", "post"}

(* waitForSignal() that does not wait: true unless the other bit is set,   *)
(* which includes the time when neither is.                                *)
Signalled(on) == (IF on THEN OFF ELSE ON) \notin bits

-----------------------------------------------------------------------------
(* The power controller, and those that enable and disable it. *)
SwitchBus ==
  /\ BusNext
  /\ UNCHANGED <<enabled, task, library, list, gather, crcs, sensor>>

PowerControlEnable(e) ==
  /\ enabled # e /\ enabled' = e
  /\ UNCHANGED <<busVars, task, library, list, gather, crcs, sensor>>

-----------------------------------------------------------------------------
(* topology_sample(): while a request is under way the library calls back  *)
(* with NULL, and nothing happens.                                         *)
TopologySample == topo' = IF topo = "idle" THEN "busy" ELSE topo

(* topology_timer_handler(), and topology_timer_cb() in the handler task. *)
TimerFires ==
  /\ timer
  /\ TopologySample
  /\ UNCHANGED <<control, task, open, list, gather, crcs, sensor>>

(* topology_sample_cb(): not while the bus is off, and then under the      *)
(* mutex, which it may have to wait for.                                   *)
TopologyLost ==
  /\ topo = "busy" /\ ~load
  /\ topo' = "idle"
  /\ UNCHANGED <<control, task, open, list, gather, crcs, sensor>>

TopologyWaits ==
  /\ topo = "busy" /\ load /\ Locked
  /\ topo' = "waits"
  /\ UNCHANGED <<control, task, open, list, gather, crcs, sensor>>

(* Mutant: the list is written without the mutex. *)
StoredUnlocked(net) ==
  /\ topo = "waits" \/ (topo = "busy" /\ load)
  /\ topo' = "idle"
  /\ nodes' = net /\ types' = [i \in DOMAIN net |-> Unknown]
  /\ semaphore' = TRUE
  /\ UNCHANGED <<control, task, open, gather, crcs, sensor>>

(* num_nodes, the nodes, and their types unknown. *)
TopologyStored(net) ==
  /\ topo = "waits" \/ (topo = "busy" /\ load)
  /\ ~Locked
  /\ topo' = "idle"
  /\ nodes' = net /\ types' = [i \in DOMAIN net |-> Unknown]
  /\ semaphore' = TRUE
  /\ UNCHANGED <<control, task, open, gather, crcs, sensor>>

(* A request is answered through its callback, which queues the reply, or  *)
(* ends with a NACK, which queues nothing.                                 *)
ReplyArrives(r) ==
  /\ r \in open /\ open' = open \ {r}
  /\ IF r.kind = "sys" THEN sysQueue' = Append(sysQueue, r.node) /\ UNCHANGED mapQueue
     ELSE mapQueue' = Append(mapQueue, r.node) /\ UNCHANGED sysQueue
  /\ UNCHANGED <<control, task, topo, list, entries, crcs, sensor>>

RequestExpires(r) ==
  /\ r \in open /\ open' = open \ {r}
  /\ UNCHANGED <<control, task, topo, list, gather, crcs, sensor>>

-----------------------------------------------------------------------------
(* topology_sampler_task(): the first sample, and the wait for the end of  *)
(* the power controller's initial state.                                   *)
FirstSample ==
  /\ pc = "boot"
  /\ TopologySample
  /\ pc' = "init"
  /\ UNCHANGED <<control, back, timer, open, list, gather, crcs, sensor>>

Goto(from, to) ==
  /\ pc = from /\ pc' = to
  /\ UNCHANGED <<control, back, library, list, gather, crcs, sensor>>

(* initPeriodElapsed(): handleInitState() is over, which has had the bus on. *)
InitOver == bits # {} /\ Goto("init", "top") /\ UNCHANGED timer

(* The loop: is the controller enabled? *)
Top == Goto("top", IF enabled THEN "check" ELSE "disabled") /\ UNCHANGED timer

NoTopology == ~semaphore /\ Goto("check", "poll") /\ UNCHANGED timer

(* The bus has come on: sample after a delay. *)
PollOn == ~timer /\ Signalled(TRUE) /\ Goto("poll", "warm") /\ UNCHANGED timer

(* Mutant: the timer runs on. *)
PollKeepsTimer ==
  /\ Goto("poll", "top")
  /\ timer \/ ~Signalled(TRUE)
  /\ UNCHANGED timer

(* Otherwise the timer goes on, or stops when the bus has gone. *)
PollOff ==
  /\ Goto("poll", "top")
  /\ timer \/ ~Signalled(TRUE)
  /\ timer' = (timer /\ ~Signalled(FALSE))

(* Five seconds later the nodes are up. *)
SampleAndStart(from, to) ==
  /\ pc = from /\ pc' = to
  /\ TopologySample
  /\ timer' = TRUE
  /\ UNCHANGED <<control, back, open, list, gather, crcs, sensor>>

Warm == SampleAndStart("warm", "top")

(* A disabled controller leaves the bus on: wait for that, without limit,  *)
(* and sample until the controller is enabled again.                       *)
WaitDisabled == ON \in bits /\ Goto("disabled", "warmDisabled") /\ UNCHANGED timer

WarmDisabled == SampleAndStart("warmDisabled", "held")

HeldOver == enabled /\ Goto("held", "top") /\ timer' = FALSE

-----------------------------------------------------------------------------
(* The request that the gathering waits for. *)
Ask(kind, node) == [kind |-> kind, node |-> node]

(* Topologies come a minute apart.  By the next one the library has ended  *)
(* all requests, which takes it three seconds, and on a powered bus the    *)
(* sensor controller has fetched the list.                                 *)
Punctual == open = {} /\ (ON \in bits => asker = "idle" /\ ~bit)

(* Mutant: the reply queues are not emptied. *)
GatherUnreset ==
  /\ pc \in {"init", "check", "held"} /\ semaphore /\ (Late \/ Punctual)
  /\ semaphore' = FALSE
  /\ back' = IF pc = "check" THEN "poll" ELSE pc
  /\ pc' = "sys" /\ entries' = <<>>
  /\ open' = open \union {Ask("sys", nodes[1])}
  /\ UNCHANGED <<control, timer, topo, nodes, types, crcs, sysQueue, mapQueue, sensor>>

(* check_topology_report(): take the semaphore and the mutex, empty the    *)
(* reply queues, and ask the first node.                                   *)
GatherStart ==
  /\ pc \in {"init", "check", "held"} /\ semaphore
  /\ Late \/ Punctual
  /\ semaphore' = FALSE
  /\ back' = IF pc = "check" THEN "poll" ELSE pc
  /\ pc' = "sys"
  /\ entries' = <<>> /\ sysQueue' = <<>> /\ mapQueue' = <<>>
  /\ open' = open \union {Ask("sys", nodes[1])}
  /\ UNCHANGED <<control, timer, topo, nodes, types, crcs, sensor>>

(* _update_sensor_type_list() finds the node of the reply. *)
UpdateTypes(n) == [i \in DOMAIN types |-> IF nodes[i] = n THEN TypeOf[n] ELSE types[i]]

(* create_network_info_cbor_array(): the reply decides whom to ask for the *)
(* configuration map.                                                      *)
TakeSysInfo ==
  /\ pc = "sys" /\ sysQueue # <<>>
  /\ LET n == Head(sysQueue) IN
       /\ types' = UpdateTypes(n)
       /\ entries' = Append(entries, n)
       /\ open' = open \union {Ask("map", n)}
  /\ sysQueue' = Tail(sysQueue)
  /\ pc' = "map"
  /\ UNCHANGED <<control, back, timer, topo, semaphore, nodes, mapQueue, crcs, sensor>>

(* The array with the entry that this map completes. *)
Completed == Append(entries, Head(mapQueue))
Complete  == Len(Completed) = 2 * Len(nodes)

TakeMap ==
  /\ pc = "map" /\ mapQueue # <<>>
  /\ entries' = Completed
  /\ mapQueue' = Tail(mapQueue)
  /\ UNCHANGED <<control, back, timer, topo, list, sysQueue, sensor>>

AskNext ==
  /\ TakeMap /\ ~Complete
  /\ open' = open \union {Ask("sys", nodes[Len(Completed) \div 2 + 1])}
  /\ pc' = "sys"
  /\ UNCHANGED crcs

(* Mutant: the CRC has been added when it is looked up. *)
MustSendOnBootOnly(c) == sendOnBoot

(* SMConfigCRCList::contains(), and the first configuration after a boot. *)
MustSend(c) == sendOnBoot \/ c \notin Range(known)

(* SMConfigCRCList::add(): to the front, and the oldest drops out. *)
AddCrc(c) ==
  IF c \in Range(known) THEN known
  ELSE SubSeq(<<c>> \o known, 1, IF Len(known) < ListSize THEN Len(known) + 1 ELSE ListSize)

(* All nodes have replied: store the configuration, add a new one to the   *)
(* list, and save the list, which may fail.                                *)
StoreConfig ==
  /\ TakeMap /\ Complete
  /\ known' = AddCrc(Completed)
  /\ saved' \in IF known' = known THEN {saved}
                ELSE IF SaveFails THEN {saved, known'} ELSE {known'}
  /\ told' = {c \in told : c \in Range(known') \union Range(saved')}
  /\ pc' = IF MustSend(Completed) THEN "send" ELSE "post"
  /\ UNCHANGED <<open, sendOnBoot>>

(* send_network_info_chunks() and bm_serial_send_network_info(). *)
SendConfig ==
  /\ pc = "send" /\ pc' = "post"
  /\ told' = told \union {entries}
  /\ sendOnBoot' = FALSE
  /\ UNCHANGED <<control, back, timer, library, list, gather, known, saved,
                 sensor>>

(* Give the mutex, and notify the sensor controller. *)
EndGather ==
  /\ pc' = back /\ back' = "boot" /\ entries' = <<>>
  /\ bit' = TRUE
  /\ UNCHANGED <<control, timer, library, list, sysQueue, mapQueue, crcs, asker>>

(* CHECK_CRC goes to the report builder, whose queue has room in the end.  *)
PostCheck == pc = "post" /\ EndGather

(* Mutant: the sensor controller learns of complete gatherings only. *)
GatherFailsQuietly ==
  /\ pc \in {"sys", "map"}
  /\ pc' = back /\ back' = "boot" /\ entries' = <<>>
  /\ UNCHANGED <<control, timer, library, list, sysQueue, mapQueue, crcs, sensor>>

(* A reply has not come in time, or something cannot be requested or       *)
(* encoded.                                                                *)
GatherFails == pc \in {"sys", "map"} /\ EndGather

-----------------------------------------------------------------------------
(* runController(): take the bit, wait for the bus for ten seconds, fetch  *)
(* the list within ten seconds, and ask every node.  There is a list, since *)
(* only a gathering sets the bit.                                          *)
Sensor(from, to) ==
  /\ asker = from /\ asker' = to
  /\ UNCHANGED <<control, task, library, list, gather, crcs>>

TakeBit == bit /\ bit' = FALSE /\ Sensor("idle", "signal")

SignalOn == ON \in bits /\ Sensor("signal", "list") /\ UNCHANGED bit

(* The wait times out, which is as good as the bit when neither is set. *)
SignalTimesOut ==
  /\ ON \notin bits
  /\ Sensor("signal", IF Signalled(TRUE) THEN "list" ELSE "idle")
  /\ UNCHANGED bit

ListTimesOut == Locked /\ Sensor("list", "idle") /\ UNCHANGED bit

AskNodes == ~Locked /\ Sensor("list", "idle") /\ UNCHANGED bit

-----------------------------------------------------------------------------
(* A reset of the bridge: the CRC list is read from flash again. *)
Reset ==
  /\ load' = FALSE /\ boost' = FALSE /\ bits' = {} /\ stage' = "rest"
  /\ enabled' \in BOOLEAN
  /\ pc' = "boot" /\ back' = "boot" /\ timer' = FALSE
  /\ topo' = "idle" /\ open' = {}
  /\ semaphore' = FALSE /\ nodes' = <<>> /\ types' = <<>>
  /\ entries' = <<>> /\ sysQueue' = <<>> /\ mapQueue' = <<>>
  /\ sendOnBoot' = TRUE /\ known' = saved
  /\ bit' = FALSE /\ asker' = "idle"
  /\ told' = IF pc = "send" THEN told \union {entries} ELSE told
  /\ UNCHANGED saved

Sampler ==
  \/ FirstSample \/ InitOver \/ Top \/ NoTopology
  \/ PollOn \/ PollOff \/ Warm
  \/ WaitDisabled \/ WarmDisabled \/ HeldOver
  \/ GatherStart \/ TakeSysInfo \/ AskNext \/ StoreConfig \/ SendConfig \/ PostCheck
  \/ GatherFails

TopologyEnds ==
  TopologyLost \/ TopologyWaits \/ \E net \in Networks : TopologyStored(net)

RequestEnds == \E r \in open : ReplyArrives(r) \/ RequestExpires(r)

SensorController ==
  TakeBit \/ SignalOn \/ SignalTimesOut \/ ListTimesOut \/ AskNodes

Next ==
  \/ SwitchBus \/ (\E e \in BOOLEAN : PowerControlEnable(e))
  \/ TimerFires
  \/ TopologyEnds \/ RequestEnds
  \/ Sampler
  \/ SensorController
  \/ Reset

(* The tasks run, the timer fires, and the library ends each request. *)
Fairness ==
  /\ WF_vars(TimerFires) /\ WF_vars(TopologyEnds) /\ WF_vars(RequestEnds)
  /\ WF_vars(Sampler) /\ WF_vars(SensorController)

Spec == Init /\ [][Next]_vars /\ Fairness

-----------------------------------------------------------------------------
(* The nodes that have told this gathering their system information: the   *)
(* first of each two entries.                                              *)
Replied == {entries[i] : i \in {j \in DOMAIN entries : j % 2 = 1}}

(* A type that the sampler hands to the report builder belongs to the node *)
(* at its position.  It may be unknown, since a topology reply resets it,  *)
(* but under the mutex no reply can: the type of a node that has told the  *)
(* running gathering is known to the end of it.                            *)
TypesMatchNodes ==
  /\ Len(types) = Len(nodes)
  /\ \A i \in DOMAIN nodes :
       /\ types[i] \in {Unknown, TypeOf[nodes[i]]}
       /\ nodes[i] \in Replied => types[i] = TypeOf[nodes[i]]

(* Unless a request outlives its gathering, the configuration whose CRC    *)
(* stands for the network holds the information and the map of each node   *)
(* of the list, in the order of the list.                                  *)
ConfigIsOfItsNodes ==
  pc \in {"send", "post"} =>
    /\ entries = [i \in 1..(2 * Len(nodes)) |-> nodes[(i + 1) \div 2]]
    /\ \A i \in DOMAIN nodes : types[i] = TypeOf[nodes[i]]

(* What counts as known has been sent to the host, in this boot or in an   *)
(* earlier one, unless a reset cut the sending off after the list was      *)
(* saved: otherwise the host would never learn of that network.            *)
KnownWasTold ==
  pc # "send" => Range(known) \subseteq told

(* While the bus stays on and the controller enabled, or disabled, the     *)
(* nodes of a list are asked again and again for their applications:       *)
(* timer, topology, gathering (failed or not), notification, signal and    *)
(* mutex all work together.                                                *)
AskedWhilePowered ==
  <>[](ON \in bits) /\ (<>[]enabled \/ <>[]~enabled) => []<><<AskNodes>>_vars

(* The timer is stopped on a bus that stays off, "when the power is turned *)
(* off we will turn off the timer" (topology_sampler.cpp:631), unless the  *)
(* sampler has met a disabled controller and so waits for the bus itself.  *)
PausedWhileOff ==
  <>[](enabled /\ OFF \in bits /\ pc # "disabled") => <>[]~timer
=============================================================================
