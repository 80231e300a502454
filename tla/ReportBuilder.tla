----------------------------- MODULE ReportBuilder -----------------------------
(***************************************************************************)
(* The path of a sample from the sensors to a report of the bridge:        *)
(*                                                                         *)
(*  - the sensor controller (sensorController.cpp) walks its list of       *)
(*    subscribed sensors at the end of each sample window, queues one      *)
(*    aggregate per sensor and then an INCREMENT message;                  *)
(*  - the topology sampler (topology_sampler.cpp) gathers the node list    *)
(*    and the sensor types of the network under its mutex, and queues a    *)
(*    CHECK_CRC message after every complete gathering;                    *)
(*  - the report builder (reportBuilder.cpp, reportBuilderList.cpp) takes  *)
(*    the messages, fills one element per node and publishes a report      *)
(*    every samplesPerReport increments.                                   *)
(*                                                                         *)
(* An aggregate is abstracted to the number of its interval.  The CRC of a *)
(* network configuration is the network it is computed from.               *)
(***************************************************************************)
EXTENDS Naturals, Sequences, FiniteSets

CONSTANTS
  Nodes, Bridge,     (* the nodes of the bus, and the bridge itself          *)
  Types, Unknown,    (* sensor types, and SENSOR_TYPE_UNKNOWN                *)
  FirstApps,         (* what the nodes may run at first                      *)
  Networks,          (* node lists of topology replies: the bridge first,    *)
                     (* and only there                                       *)
  NaN,               (* the NaN aggregate of every sensor type               *)
  NoCrc,             (* 0 for a CRC: no configuration                        *)
  Settings,          (* configured samplesPerReport and transmitAggregations *)
  Reflashes,         (* updates: a node, its old and its new application     *)
  QueueSize,         (* REPORT_BUILDER_QUEUE_SIZE                            *)
  Capacity,          (* samples that fit in MAX_SENSOR_REPORT_CBOR_LEN       *)
  MaxIntervals,      (* bound: aggregations                                  *)
  MaxReplies,        (* bound: topology replies                              *)
  MaxReflashes       (* bound: nodes that are given another application      *)

ASSUME ReportBuilderAssumption ==
  /\ Bridge \notin Nodes /\ Unknown \notin Types
  /\ FirstApps \subseteq [Nodes -> Types \union {Unknown}]
  /\ \A net \in Networks :
       /\ net \in Seq(Nodes \union {Bridge}) /\ Len(net) > 0
       /\ net[1] = Bridge /\ \A i \in 2..Len(net) : net[i] \in Nodes
  /\ Settings \subseteq Nat \X BOOLEAN
  /\ Reflashes \subseteq Nodes \X (Types \union {Unknown}) \X (Types \union {Unknown})
  /\ QueueSize \in Nat \ {0} /\ Capacity \in Nat
  /\ {MaxIntervals, MaxReplies, MaxReflashes} \subseteq Nat

VARIABLES
  app,                    (* the application of each node, as a sensor type *)
  subbed,                 (* _subbed_sensors: node and type, in order       *)
  agg, at,                (* the aggregation walk and its position          *)
  interval, first,        (* aggregations done; first interval of a node    *)
  topoNodes, topoTypes,   (* _node_list of the topology sampler ...         *)
  config,                 (* ... and last_network_configuration_info        *)
  semaphore,              (* network_topology_semaphore                     *)
  sampler,                (* "idle", "lock", or with the mutex "gather" or  *)
                          (* "post"                                         *)
  queue,                  (* _report_builder_queue                          *)
  samplesPerReport, transmit,
  pc, newCrc,             (* the builder inside CHECK_CRC                   *)
  counter, slots,         (* _sample_counter, data of each node's element   *)
  numNodes, nodeList, typeList, networkCrc,  (* _report_period_...          *)
  report, handled, raced, replies, reflashes

sensors  == <<app, reflashes, subbed>>
walk     == <<agg, at, interval, first>>
topology == <<topoNodes, topoTypes, config>>
gather   == <<semaphore, sampler, replies>>
settings == <<samplesPerReport, transmit>>
network  == <<numNodes, nodeList, typeList, networkCrc>>
fetch    == <<pc, newCrc>>
data     == <<counter, slots, report, handled>>
vars     == <<sensors, walk, topology, gather, queue, settings, network, fetch, data, raced>>

NoReport == [result |-> "none"]

Init ==
  /\ app \in FirstApps /\ reflashes = 0 /\ subbed = <<>>
  /\ agg = "idle" /\ at = 1 /\ interval = 0 /\ first = [n \in Nodes |-> 0]
  /\ topoNodes = <<>> /\ topoTypes = <<>> /\ config = NoCrc
  /\ semaphore = FALSE /\ sampler = "idle" /\ replies = 0
  /\ queue = <<>>
  /\ \E s \in Settings : samplesPerReport = s[1] /\ transmit = s[2]
  /\ pc = "idle" /\ newCrc = NoCrc
  /\ counter = 0 /\ slots = [n \in Nodes |-> <<>>]
  /\ numNodes = 0 /\ nodeList = <<>> /\ typeList = <<>> /\ networkCrc = NoCrc
  /\ report = NoReport /\ handled = 0 /\ raced = FALSE

(* reportBuilderAddToQueue() blocks until the queue has room. *)
AddToQueue(message) ==
  /\ Len(queue) < QueueSize
  /\ queue' = Append(queue, message)

-----------------------------------------------------------------------------
(* node_info_reply_cb(): a node of the list tells its application; a sensor *)
(* of a node and type not yet subscribed goes to the end of the list.      *)
NodeReply(n) ==
  /\ \E i \in DOMAIN topoNodes : topoNodes[i] = n
  /\ app[n] \in Types
  /\ \A i \in DOMAIN subbed : subbed[i] # <<n, app[n]>>
  /\ subbed' = Append(subbed, <<n, app[n]>>)
  /\ UNCHANGED <<app, reflashes, walk, topology, gather, queue, settings, network, fetch, data,
                 raced>>

(* A node is updated to another application (external). *)
Reflash(n, old, t) ==
  /\ reflashes < MaxReflashes /\ app[n] = old
  /\ app' = [app EXCEPT ![n] = t]
  /\ reflashes' = reflashes + 1
  /\ UNCHANGED <<subbed, walk, topology, gather, queue, settings, network, fetch, data, raced>>

(* runController(): aggregate every sensor in turn, then INCREMENT. *)
AggStart ==
  /\ agg = "idle" /\ interval < MaxIntervals
  /\ subbed # <<>>
  /\ agg' = "walk" /\ at' = 1
  /\ UNCHANGED <<sensors, interval, first, topology, gather, queue, settings, network, fetch,
                 data, raced>>

AggSample ==
  /\ agg = "walk" /\ at <= Len(subbed)
  /\ LET n == subbed[at][1] IN
       /\ AddToQueue([kind |-> "sample", node |-> n, data |-> interval + 1])
       /\ first' = [first EXCEPT ![n] = IF @ = 0 THEN interval + 1 ELSE @]
  /\ at' = at + 1
  /\ UNCHANGED <<sensors, agg, interval, topology, gather, settings, network, fetch, data, raced>>

AggExit ==
  /\ agg = "walk" /\ at > Len(subbed)
  /\ agg' = "increment"
  /\ UNCHANGED <<sensors, at, interval, first, topology, gather, queue, settings, network, fetch,
                 data, raced>>

(* Mutant: the increment is dropped when the queue is full. *)
AggIncrementNoWait ==
  /\ agg = "increment"
  /\ queue' = IF Len(queue) < QueueSize THEN Append(queue, [kind |-> "increment"]) ELSE queue
  /\ agg' = "idle" /\ at' = 1 /\ interval' = interval + 1
  /\ UNCHANGED <<sensors, first, topology, gather, settings, network, fetch, data, raced>>

AggIncrement ==
  /\ agg = "increment"
  /\ AddToQueue([kind |-> "increment"])
  /\ agg' = "idle" /\ at' = 1 /\ interval' = interval + 1
  /\ UNCHANGED <<sensors, first, topology, gather, settings, network, fetch, data, raced>>

-----------------------------------------------------------------------------
(* The sampler holds node_list_mutex while it gathers and posts. *)
Locked == sampler \in {"gather", "post"}

CheckInFlight == pc # "idle" \/ \E i \in DOMAIN queue : queue[i].kind = "check"

(* topology_sample_cb(): a new node list, all types unknown.  "raced" notes *)
(* that it came while a CHECK_CRC of the sampler was on its way.           *)
TopologyReply(net) ==
  /\ ~Locked /\ replies < MaxReplies
  /\ topoNodes' = net
  /\ topoTypes' = [i \in DOMAIN net |-> Unknown]
  /\ semaphore' = TRUE
  /\ replies' = replies + 1
  /\ raced' = (raced \/ CheckInFlight)
  /\ UNCHANGED <<sensors, walk, config, sampler, queue, settings, network, fetch, data>>

(* check_topology_report(): take the semaphore, then the mutex; a check    *)
(* that is still on its way is overtaken by the new gathering.             *)
TakeSemaphore ==
  /\ sampler = "idle" /\ semaphore
  /\ semaphore' = FALSE
  /\ sampler' = "lock"
  /\ UNCHANGED <<sensors, walk, topology, replies, queue, settings, network, fetch, data, raced>>

GatherStart ==
  /\ sampler = "lock"
  /\ sampler' = "gather"
  /\ raced' = (raced \/ CheckInFlight)
  /\ UNCHANGED <<sensors, walk, topology, semaphore, replies, queue, settings, network, fetch,
                 data>>

AppOf(n) == IF n = Bridge THEN Unknown ELSE app[n]

(* The types of the first k nodes: the ones that have replied. *)
TypesUpTo(k) == [i \in DOMAIN topoNodes |-> IF i <= k THEN AppOf(topoNodes[i]) ELSE Unknown]

(* A reply is missing or cannot be encoded: no CHECK_CRC. *)
GatherFails(k) ==
  /\ sampler = "gather"
  /\ topoTypes' = TypesUpTo(k)
  /\ sampler' = "idle"
  /\ UNCHANGED <<sensors, walk, topoNodes, config, semaphore, replies, queue, settings, network,
                 fetch, data, raced>>

GatherDone ==
  /\ sampler = "gather"
  /\ topoTypes' = TypesUpTo(Len(topoNodes))
  /\ config' = [i \in DOMAIN topoNodes |-> <<topoNodes[i], AppOf(topoNodes[i])>>]
  /\ sampler' = "post"
  /\ UNCHANGED <<sensors, walk, topoNodes, semaphore, replies, queue, settings, network, fetch,
                 data, raced>>

PostCheck ==
  /\ sampler = "post"
  /\ AddToQueue([kind |-> "check"])
  /\ sampler' = "idle"
  /\ UNCHANGED <<sensors, walk, topology, semaphore, replies, settings, network, fetch, data,
                 raced>>

-----------------------------------------------------------------------------
(* Mutant: the sample goes to the next free slot. *)
AddSampleUnaligned(s, count, d) == Append(s, d)

(* addSampleToElement(): fill the intervals the element has missed. *)
AddSample(s, count, d) ==
  s \o [i \in 1..(IF Len(s) < count THEN count - Len(s) ELSE 0) |-> NaN] \o <<d>>

(* findElementAndAddSampleToElement(), with the list of elements as a      *)
(* function of the node: an absent element is an empty one.                *)
AddToElement(n, d) == [slots EXCEPT ![n] = AddSample(@, counter, d)]

(* The builder takes the next message of one kind. *)
Take(kind) ==
  /\ pc = "idle" /\ queue # <<>> /\ Head(queue).kind = kind
  /\ queue' = Tail(queue)

TakeSample ==
  /\ Take("sample")
  /\ LET m == Head(queue) IN
       slots' = IF samplesPerReport > 0 THEN AddToElement(m.node, m.data) ELSE slots
  /\ UNCHANGED <<sensors, walk, topology, gather, settings, network, fetch, counter, report,
                 handled, raced>>

TypeAt(i) == IF i <= Len(typeList) THEN typeList[i] ELSE Unknown

(* The nodes of the list that have sensor data or should have. *)
Opened ==
  {i \in 2..numNodes :
     \/ TypeAt(i) # Unknown
     \/ i <= Len(nodeList) /\ slots[nodeList[i]] # <<>>}

(* Mutant: every node of the list is counted. *)
NumSensorsAll == numNodes

(* num_sensors, the number the CBOR encoder is told. *)
NumSensors == Cardinality({i \in 1..numNodes : TypeAt(i) # Unknown})

(* Mutant: a node without data is left out of the back-fill. *)
SensorDataRaw(i) == IF i <= Len(nodeList) THEN slots[nodeList[i]] ELSE <<>>

(* The data of an opened node; one without an element gets an element of   *)
(* NaN, added at the last sample (samplesPerReport - 1).                   *)
SensorData(i) ==
  IF i <= Len(nodeList) /\ slots[nodeList[i]] # <<>>
  THEN slots[nodeList[i]]
  ELSE AddSample(<<>>, counter, NaN)

(* The report of the period that ends with this increment.  The encoder    *)
(* (TinyCBOR, external) fails when the buffer is full, or at the end when  *)
(* the number of sensors is not the announced one.                         *)
NewReport ==
  IF samplesPerReport = 0 \/ ~transmit THEN [result |-> "off"]
  ELSE IF numNodes <= 1 \/ NumSensors = 0 THEN [result |-> "nothing"]
  ELSE [result    |-> IF \/ Cardinality(Opened) * samplesPerReport > Capacity
                         \/ Cardinality(Opened) # NumSensors
                      THEN "aborted" ELSE "sent",
        announced |-> NumSensors,
        sensors   |-> [i \in Opened |-> SensorData(i)],
        nodes     |-> nodeList,
        crc       |-> networkCrc,
        raced     |-> raced,
        last      |-> handled + 1]

(* Mutant: the elements of a period are kept for the next one. *)
ClearCounterOnly ==
  /\ counter' = 0
  /\ numNodes' = 0 /\ nodeList' = <<>> /\ typeList' = <<>> /\ networkCrc' = NoCrc
  /\ raced' = CheckInFlight
  /\ UNCHANGED slots

(* Everything about the period is cleared, whatever became of the report. *)
ClearPeriod ==
  /\ counter' = 0 /\ slots' = [n \in Nodes |-> <<>>]
  /\ numNodes' = 0 /\ nodeList' = <<>> /\ typeList' = <<>> /\ networkCrc' = NoCrc
  /\ raced' = (raced /\ CheckInFlight)

TakeIncrement ==
  /\ Take("increment")
  /\ handled' = handled + 1
  /\ IF counter + 1 >= samplesPerReport
     THEN report' = NewReport /\ ClearPeriod
     ELSE counter' = counter + 1 /\ UNCHANGED <<report, slots, network, raced>>
  /\ UNCHANGED <<sensors, walk, topology, gather, settings, fetch>>

(* CHECK_CRC: three visits to the sampler, each under its mutex. *)
TakeCheck ==
  /\ Take("check")
  /\ pc' = "config"
  /\ UNCHANGED <<sensors, walk, topology, gather, settings, network, newCrc, data, raced>>

(* A mutex that is held for longer than its timeout ends the check: the    *)
(* sampler's, or _config_mutex, which a reader of the configuration takes. *)
FetchTimesOut ==
  /\ pc # "idle" /\ (Locked \/ pc = "nodes")
  /\ pc' = "idle"
  /\ UNCHANGED <<sensors, walk, topology, gather, queue, settings, network, newCrc, data, raced>>

FetchConfig ==
  /\ pc = "config" /\ ~Locked
  /\ \/ config \in {NoCrc, networkCrc} /\ pc' = "idle" /\ UNCHANGED newCrc
     \/ config \notin {NoCrc, networkCrc} /\ pc' = "nodes" /\ newCrc' = config
  /\ UNCHANGED <<sensors, walk, topology, gather, queue, settings, network, data, raced>>

(* Mutant: a smaller network replaces a larger one. *)
FetchAnyNodes ==
  /\ pc = "nodes" /\ ~Locked
  /\ numNodes' = Len(topoNodes) /\ nodeList' = topoNodes /\ networkCrc' = newCrc
  /\ pc' = "types"
  /\ UNCHANGED <<sensors, walk, topology, gather, queue, settings, typeList, newCrc, data, raced>>

FetchNodes ==
  /\ pc = "nodes" /\ ~Locked
  /\ \/ /\ Len(topoNodes) >= numNodes
        /\ numNodes' = Len(topoNodes) /\ nodeList' = topoNodes /\ networkCrc' = newCrc
        /\ pc' = "types"
     \/ /\ Len(topoNodes) < numNodes
        /\ pc' = "idle" /\ UNCHANGED <<numNodes, nodeList, networkCrc>>
  /\ UNCHANGED <<sensors, walk, topology, gather, queue, settings, typeList, newCrc, data, raced>>

(* Mutant: the types of a period are fetched only once. *)
FetchTypesOnce ==
  /\ pc = "types" /\ ~Locked
  /\ typeList' = IF typeList = <<>> THEN topoTypes ELSE typeList
  /\ pc' = "idle"
  /\ UNCHANGED <<sensors, walk, topology, gather, queue, settings, numNodes, nodeList, networkCrc,
                 newCrc, data, raced>>

(* The number of nodes is taken again, and the rest of a longer type list  *)
(* stays.                                                                  *)
FetchTypes ==
  /\ pc = "types" /\ ~Locked
  /\ numNodes' = Len(topoNodes)
  /\ typeList' = topoTypes \o SubSeq(typeList, Len(topoTypes) + 1, Len(typeList))
  /\ pc' = "idle"
  /\ UNCHANGED <<sensors, walk, topology, gather, queue, settings, nodeList, networkCrc, newCrc,
                 data, raced>>

-----------------------------------------------------------------------------
SensorController == AggSample \/ AggExit \/ AggIncrement

TopologySampler ==
  \/ TakeSemaphore \/ GatherStart \/ GatherDone \/ PostCheck
  \/ \E k \in 0..Len(topoNodes) : GatherFails(k)

Builder ==
  \/ TakeSample \/ TakeIncrement
  \/ TakeCheck \/ FetchTimesOut \/ FetchConfig \/ FetchNodes \/ FetchTypes

Next ==
  \/ \E n \in Nodes : NodeReply(n)
  \/ \E r \in Reflashes : Reflash(r[1], r[2], r[3])
  \/ AggStart
  \/ SensorController
  \/ \E net \in Networks : TopologyReply(net)
  \/ TopologySampler
  \/ Builder

(* Each task runs; the waits of a gathering have timeouts. *)
Fairness == WF_vars(SensorController) /\ WF_vars(TopologySampler) /\ WF_vars(Builder)

Spec == Init /\ [][Next]_vars /\ Fairness

-----------------------------------------------------------------------------
Data == {NaN} \union (Nat \ {0})

Messages ==
  [kind : {"sample"}, node : Nodes, data : Nat \ {0}] \union [kind : {"increment", "check"}]

Crcs == {NoCrc} \union Seq((Nodes \union {Bridge}) \X (Types \union {Unknown}))

TypeOK ==
  /\ app \in [Nodes -> Types \union {Unknown}] /\ reflashes \in Nat
  /\ subbed \in Seq(Nodes \X Types)
  /\ agg \in {"idle", "walk", "increment"} /\ at \in 1..(Len(subbed) + 1)
  /\ interval \in Nat /\ first \in [Nodes -> Nat]
  /\ topoNodes \in Networks \union {<<>>}
  /\ topoTypes \in Seq(Types \union {Unknown}) /\ Len(topoTypes) = Len(topoNodes)
  /\ config \in Crcs /\ semaphore \in BOOLEAN
  /\ sampler \in {"idle", "lock", "gather", "post"} /\ replies \in Nat
  /\ queue \in Seq(Messages) /\ Len(queue) <= QueueSize
  /\ <<samplesPerReport, transmit>> \in Settings
  /\ pc \in {"idle", "config", "nodes", "types"} /\ newCrc \in Crcs
  /\ counter \in Nat /\ (counter = 0 \/ counter < samplesPerReport)
  /\ slots \in [Nodes -> Seq(Data)]
  /\ \A n \in Nodes : Len(slots[n]) <= samplesPerReport
  /\ numNodes \in Nat /\ nodeList \in Networks \union {<<>>}
  /\ typeList \in Seq(Types \union {Unknown}) /\ networkCrc \in Crcs
  /\ handled \in Nat /\ raced \in BOOLEAN

(* What interval k contributes for node n: its aggregate, or NaN when the  *)
(* node was not yet subscribed.                                            *)
Expected(n, k) == IF first[n] # 0 /\ first[n] <= k THEN k ELSE NaN

(* The slot of an interval in a node's element holds that interval's       *)
(* aggregate: "The sensor data is added at the position specified by the   *)
(* sample counter" (reportBuilderList.cpp:83), whenever the node was       *)
(* found and however far the queue lags.                                   *)
SlotHoldsItsInterval ==
  \A n \in Nodes : \A j \in DOMAIN slots[n] :
    slots[n][j] = Expected(n, handled - counter + j)

HasSensors(r) == r.result \in {"sent", "aborted"}

(* A report holds for each of its nodes the samples of exactly the         *)
(* intervals of its period, none missing and none from another period.     *)
ReportIsWhole ==
  HasSensors(report) =>
    \A i \in DOMAIN report.sensors :
      report.sensors[i] =
        [j \in 1..samplesPerReport |->
           IF i <= Len(report.nodes)
           THEN Expected(report.nodes[i], report.last - samplesPerReport + j) ELSE NaN]

(* Unless the sampler overtook a check, or a node of the network was        *)
(* updated, the encoder is told the number of sensors that follow, and a   *)
(* report that fits is sent.                                               *)
NumSensorsHonest ==
  HasSensors(report) /\ ~report.raced /\ reflashes = 0 =>
    /\ report.announced = Cardinality(DOMAIN report.sensors)
    /\ report.announced * samplesPerReport <= Capacity => report.result = "sent"

(* Unless the sampler overtook a check, the CRC that stamps a report       *)
(* is that of the very nodes and types it is built from.                   *)
PeriodIsOneNetwork ==
  pc = "idle" /\ ~raced /\ networkCrc # NoCrc =>
    /\ numNodes = Len(networkCrc) /\ Len(nodeList) = numNodes
    /\ \A i \in 1..numNodes : networkCrc[i] = <<nodeList[i], TypeAt(i)>>

(* Within a period the network only grows, "if it is bigger or the same    *)
(* size" (reportBuilder.cpp:784), unless the sampler overtook a check.      *)
NetworkOnlyGrows ==
  [][numNodes' >= numNodes \/ handled' # handled \/ raced]_vars

(* Every interval that was aggregated is counted: neither a full queue nor *)
(* the sampler's mutex can stop the path.                                  *)
EveryIntervalCounted ==
  \A k \in 1..MaxIntervals : interval = k ~> handled >= k
=============================================================================
