-------------------------- MODULE ReportBuilderProofs --------------------------
(***************************************************************************)
(* Proofs for ReportBuilder about the network of a report, for any nodes,  *)
(* networks, queue size and settings: a period describes one network,      *)
(* which only grows, and the encoder is told the right number of sensors,  *)
(* unless the sampler overtook a check.                                    *)
(*                                                                         *)
(* The argument is that the sampler's list, its types and its CRC agree    *)
(* for as long as a CHECK_CRC that nothing overtook is on its way, so that *)
(* the three visits the builder makes see the same gathering.              *)
(***************************************************************************)
EXTENDS ReportBuilder, SequenceTheorems, FiniteSetTheorems, TLAPS

(* The types a list of the sampler can hold. *)
AllTypes == Types \union {Unknown}

(* The node lists the sampler can hold. *)
Lists == Networks \union {<<>>}

(* TypeOK, but for the length of the elements (ReportSampleProofs).        *)
SensorsTyped ==
  /\ app \in [Nodes -> AllTypes] /\ reflashes \in Nat
  /\ subbed \in Seq(Nodes \X Types)

(* The walk of the aggregation over the subscribed sensors. *)
WalkTyped ==
  /\ agg \in {"idle", "walk", "increment"} /\ at \in 1..(Len(subbed) + 1)
  /\ interval \in Nat /\ first \in [Nodes -> Nat]

(* The topology sampler: its list, types, configuration and mutex. *)
SamplerTyped ==
  /\ topoNodes \in Lists
  /\ topoTypes \in Seq(AllTypes) /\ Len(topoTypes) = Len(topoNodes)
  /\ config \in Crcs /\ semaphore \in BOOLEAN
  /\ sampler \in {"idle", "lock", "gather", "post"} /\ replies \in Nat

(* The report builder's queue, never longer than it was created. *)
QueueTyped == queue \in Seq(Messages) /\ Len(queue) <= QueueSize

(* What the builder knows of the network of the period. *)
NetworkTyped ==
  /\ pc \in {"idle", "config", "nodes", "types"} /\ newCrc \in Crcs
  /\ numNodes \in Nat /\ nodeList \in Lists
  /\ typeList \in Seq(AllTypes) /\ networkCrc \in Crcs
  /\ raced \in BOOLEAN

(* The samples of the period, and how many intervals it counts. *)
SlotsTyped ==
  /\ <<samplesPerReport, transmit>> \in Settings
  /\ counter \in Nat /\ (counter = 0 \/ counter < samplesPerReport)
  /\ slots \in [Nodes -> Seq(Data)] /\ handled \in Nat

Typed ==
  /\ SensorsTyped /\ WalkTyped /\ SamplerTyped /\ QueueTyped /\ NetworkTyped
  /\ SlotsTyped

(* A node list of the sampler, and what it holds. *)
LEMMA ListsAreLists ==
  ASSUME NEW net \in Lists
  PROVE  /\ net \in Seq(Nodes \union {Bridge}) /\ Len(net) \in Nat
         /\ DOMAIN net = 1..Len(net)
         /\ \A i \in 1..Len(net) : net[i] \in Nodes \union {Bridge}
         /\ Len(net) > 0 => net[1] = Bridge
         /\ \A i \in 2..Len(net) : net[i] \in Nodes
<1>1. net \in Seq(Nodes \union {Bridge})
  <2>1. <<>> \in Seq(Nodes \union {Bridge})
    BY EmptySeq
  <2> QED
    BY <2>1, ReportBuilderAssumption DEF Lists
<1>2. Len(net) \in Nat /\ DOMAIN net = 1..Len(net)
  BY <1>1, LenProperties
<1>3. CASE net = <<>>
  BY <1>1, <1>2, <1>3, EmptySeq
<1>4. CASE net \in Networks
  BY <1>1, <1>2, <1>4, ReportBuilderAssumption, ElementOfSeq
<1> QED
  BY <1>3, <1>4 DEF Lists

(* What the builder and the sampler take a node to run. *)
LEMMA AppsTyped ==
  ASSUME SensorsTyped, NEW n \in Nodes \union {Bridge}
  PROVE  AppOf(n) \in AllTypes
BY DEF SensorsTyped, AppOf, AllTypes

(* Filling an element keeps it a sequence, as long as it must be. *)
LEMMA Joined ==
  \A s, t \in Seq(Data) :
    /\ s \o t \in Seq(Data) /\ Len(s \o t) = Len(s) + Len(t)
    /\ \A i \in 1..(Len(s) + Len(t)) :
         (s \o t)[i] = IF i <= Len(s) THEN s[i] ELSE t[i - Len(s)]
BY ConcatProperties

(* t is the element s, padded to count samples, with d as the next.        *)
Filled(t, s, count, d) ==
  /\ t \in Seq(Data) /\ Len(t) = (IF Len(s) < count THEN count ELSE Len(s)) + 1
  /\ \A j \in 1..Len(t) : t[j] = IF j <= Len(s) THEN s[j]
                               ELSE IF j <= count THEN NaN ELSE d

(* addSampleToElement() pads an element up to the interval's slot. *)
LEMMA AddSampleFills ==
  ASSUME NEW s \in Seq(Data), NEW count \in Nat, NEW d \in Data
  PROVE  Filled(AddSample(s, count, d), s, count, d)
<1> DEFINE gap == IF Len(s) < count THEN count - Len(s) ELSE 0
           fill == [i \in 1..gap |-> NaN]
           front == s \o fill
           last == <<d>>
<1>1. Len(s) \in Nat /\ gap \in Nat
  BY LenProperties
<1>2. fill \in Seq(Data) /\ Len(fill) = gap /\ \A i \in 1..gap : fill[i] = NaN
  <2>1. NaN \in Data
    BY DEF Data
  <2> HIDE DEF gap
  <2>2. fill \in [1..gap -> Data]
    BY <2>1
  <2>3. fill \in Seq(Data)
    BY <1>1, <2>2, SeqDef
  <2> QED
    BY <1>1, <2>2, <2>3, LenProperties
<1>3. last \in Seq(Data) /\ Len(last) = 1 /\ last[1] = d
  OBVIOUS
<1> HIDE DEF fill, last
<1>4. /\ front \in Seq(Data) /\ Len(front) = Len(s) + Len(fill)
      /\ \A i \in 1..Len(s) + Len(fill) :
           front[i] = IF i <= Len(s) THEN s[i] ELSE fill[i - Len(s)]
  BY <1>2, ConcatProperties
<1> HIDE DEF front
<1>5. /\ front \o last \in Seq(Data) /\ Len(front \o last) = Len(front) + Len(last)
      /\ \A i \in 1..(Len(front) + Len(last)) :
           (front \o last)[i] =
             IF i <= Len(front) THEN front[i] ELSE last[i - Len(front)]
  BY <1>3, <1>4, Joined, Zenon
<1>6. AddSample(s, count, d) = front \o last
  BY DEF AddSample, front, fill, last
<1>7. /\ Len(front) = (IF Len(s) < count THEN count ELSE Len(s))
      /\ Len(front \o last) = Len(front) + 1
      /\ \A i \in 1..Len(front) : front[i] = IF i <= Len(s) THEN s[i] ELSE NaN
  <2>1. Len(front) = (IF Len(s) < count THEN count ELSE Len(s))
    BY <1>1, <1>2, <1>4
  <2>2. Len(front \o last) = Len(front) + 1
    BY <1>3, <1>5
  <2>3. ASSUME NEW i \in 1..Len(front), ~(i <= Len(s))
        PROVE  front[i] = NaN
    <3>1. i - Len(s) \in 1..gap
      BY <1>1, <1>2, <1>4, <2>1, <2>3
    <3> QED
      BY <1>2, <1>4, <2>3, <3>1
  <2> QED
    BY <1>1, <1>2, <1>4, <2>1, <2>2, <2>3
<1>8. Len(front) \in Nat /\ Len(s) <= Len(front) /\ count <= Len(front)
  BY <1>1, <1>7
<1>9. ASSUME NEW j \in 1..(Len(front) + 1)
      PROVE  (front \o last)[j] =
               IF j <= Len(s) THEN s[j] ELSE IF j <= count THEN NaN ELSE d
  <2>1. CASE j <= Len(front)
    BY <1>3, <1>5, <1>7, <1>8, <2>1, <1>1
  <2>2. CASE j = Len(front) + 1
    BY <1>3, <1>5, <1>7, <1>8, <2>2, <1>1
  <2>3. j <= Len(front) \/ j = Len(front) + 1
    BY <1>8
  <2> QED
    BY <2>1, <2>2, <2>3
<1> DEFINE t == front \o last
<1>10. /\ t \in Seq(Data) /\ Len(t) = Len(front) + 1
       /\ Len(front) = (IF Len(s) < count THEN count ELSE Len(s))
       /\ \A j \in 1..(Len(front) + 1) :
            t[j] = IF j <= Len(s) THEN s[j] ELSE IF j <= count THEN NaN ELSE d
  BY <1>5, <1>7, <1>9
<1> HIDE DEF t
<1>11. Filled(t, s, count, d)
  BY <1>10 DEF Filled
<1> QED
  BY <1>6, <1>11 DEF t

-----------------------------------------------------------------------------
(* A configuration is a node list with a type for each node.               *)
LEMMA ZipTyped ==
  ASSUME Typed
  PROVE  [i \in DOMAIN topoNodes |-> <<topoNodes[i], AppOf(topoNodes[i])>>] \in Crcs
<1>1. \A i \in DOMAIN topoNodes :
        <<topoNodes[i], AppOf(topoNodes[i])>>
          \in (Nodes \union {Bridge}) \X (Types \union {Unknown})
  BY ListsAreLists, AppsTyped DEF Typed, SamplerTyped, AllTypes
<1>2. DOMAIN topoNodes = 1..Len(topoNodes) /\ Len(topoNodes) \in Nat
  BY ListsAreLists DEF Typed, SamplerTyped
<1>3. [i \in DOMAIN topoNodes |-> <<topoNodes[i], AppOf(topoNodes[i])>>]
        \in [1..Len(topoNodes) -> (Nodes \union {Bridge}) \X (Types \union {Unknown})]
  BY <1>1, <1>2
<1> QED
  BY <1>2, <1>3, SeqDef DEF Crcs

(* A type for each node of the list. *)
LEMMA TypesTyped ==
  ASSUME NEW net \in Lists, NEW f \in [DOMAIN net -> AllTypes]
  PROVE  f \in Seq(AllTypes) /\ Len(f) = Len(net)
<1>1. DOMAIN net = 1..Len(net) /\ Len(net) \in Nat
  BY ListsAreLists
<1>2. f \in Seq(AllTypes)
  BY <1>1, SeqDef
<1>3. DOMAIN f = 1..Len(f) /\ Len(f) \in Nat
  BY <1>2, LenProperties
<1> QED
  BY <1>1, <1>2, <1>3

(* A longer old list of types keeps its tail. *)
LEMMA TypeListTyped ==
  ASSUME Typed
  PROVE  LET all == topoTypes \o SubSeq(typeList, Len(topoTypes) + 1, Len(typeList))
         IN  /\ all \in Seq(AllTypes) /\ Len(all) >= Len(topoTypes)
             /\ \A i \in 1..Len(topoTypes) : all[i] = topoTypes[i]
<1> DEFINE rest == SubSeq(typeList, Len(topoTypes) + 1, Len(typeList))
<1>1. Len(topoTypes) \in Nat /\ Len(typeList) \in Nat
  BY LenProperties DEF Typed, SamplerTyped, NetworkTyped
<1>2. \A i \in (Len(topoTypes) + 1)..Len(typeList) : typeList[i] \in AllTypes
  BY <1>1, ElementOfSeq DEF Typed, NetworkTyped
<1>3. rest \in Seq(AllTypes)
  BY <1>1, <1>2, SubSeqProperties
<1> HIDE DEF rest
<1>4. /\ topoTypes \o rest \in Seq(AllTypes)
      /\ Len(topoTypes \o rest) = Len(topoTypes) + Len(rest)
      /\ \A i \in 1..Len(topoTypes) + Len(rest) : (topoTypes \o rest)[i] =
           IF i <= Len(topoTypes) THEN topoTypes[i] ELSE rest[i - Len(topoTypes)]
  BY <1>3, ConcatProperties DEF Typed, SamplerTyped
<1>5. Len(rest) \in Nat
  BY <1>3, LenProperties
<1> QED
  BY <1>1, <1>4, <1>5 DEF rest

(* The types hold at boot. *)
LEMMA TypedInit == Init => Typed
<1> SUFFICES ASSUME Init PROVE Typed
  OBVIOUS
<1> USE ReportBuilderAssumption DEF Init
<1>1. \A S : <<>> \in Seq(S) /\ Len(<<>>) = 0
  BY EmptySeq
<1>2. SensorsTyped /\ WalkTyped
  BY <1>1 DEF SensorsTyped, WalkTyped, AllTypes
<1>3. SamplerTyped /\ QueueTyped
  <2>1. SamplerTyped
    BY <1>1 DEF SamplerTyped, Lists, Crcs
  <2>2. queue \in Seq(Messages) /\ Len(queue) = 0 /\ QueueSize \in Nat
    BY <1>1
  <2> QED
    BY <2>1, <2>2 DEF QueueTyped
<1>4. NetworkTyped
  BY <1>1 DEF NetworkTyped, Lists, Crcs
<1>5. SlotsTyped
  <2>1. <<samplesPerReport, transmit>> \in Settings
    BY DEF Init
  <2> QED
    BY <1>1, <2>1 DEF SlotsTyped
<1> QED
  BY <1>2, <1>3, <1>4, <1>5 DEF Typed

(* Only messages of the three kinds are queued, and never more than fit.   *)
LEMMA QueueStep ==
  ASSUME QueueTyped, NEW m \in Messages, AddToQueue(m)
  PROVE  QueueTyped'
BY ReportBuilderAssumption DEF QueueTyped, AddToQueue

(* What taking the first message leaves of the queue. *)
LEMMA QueueTaken ==
  ASSUME QueueTyped, NEW kind, Take(kind)
  PROVE  /\ Len(queue) \in Nat \ {0} /\ queue[1] \in Messages
         /\ queue[1].kind = kind /\ Head(queue) = queue[1]
         /\ QueueTyped' /\ Len(queue') = Len(queue) - 1
         /\ \A i \in 1..Len(queue') : queue'[i] = queue[i + 1]
<1>1. queue \in Seq(Messages) /\ queue # <<>> /\ queue' = Tail(queue)
  BY DEF QueueTyped, Take
<1>2. /\ Head(queue) \in Messages /\ Tail(queue) \in Seq(Messages)
      /\ Len(Tail(queue)) = Len(queue) - 1
      /\ \A i \in 1..Len(Tail(queue)) : Tail(queue)[i] = queue[i + 1]
  BY <1>1, HeadTailProperties
<1>3. Len(queue) \in Nat \ {0} /\ Head(queue) = queue[1]
  BY <1>1, EmptySeq
<1> QED
  BY <1>1, <1>2, <1>3, ReportBuilderAssumption DEF QueueTyped, Take

(* What each group of steps does to the types of the state. *)
LEMMA SensorsTypedStep ==
  ASSUME Typed, [Next]_vars
  PROVE  SensorsTyped' /\ WalkTyped'
<1> USE DEF Typed, SensorsTyped, WalkTyped, sensors, walk
<1>1. CASE \E n \in Nodes : NodeReply(n)
  <2> PICK n \in Nodes : NodeReply(n)
    BY <1>1
  <2>1. <<n, app[n]>> \in Nodes \X Types
    BY DEF NodeReply
  <2>2. subbed' \in Seq(Nodes \X Types) /\ Len(subbed') = Len(subbed) + 1
    BY <2>1, AppendProperties DEF NodeReply
  <2>3. Len(subbed) \in Nat
    BY LenProperties
  <2> QED
    BY <2>2, <2>3 DEF NodeReply
<1>2. CASE \E r \in Reflashes : Reflash(r[1], r[2], r[3])
  BY <1>2, ReportBuilderAssumption DEF Reflash, AllTypes
<1>3. CASE AggStart
  BY <1>3, LenProperties DEF AggStart
<1>4. CASE SensorController
  <2>1. CASE AggSample
    <3>1. Len(subbed) \in Nat /\ at + 1 \in 1..(Len(subbed) + 1)
      BY <2>1, LenProperties DEF AggSample
    <3>2. first' \in [Nodes -> Nat]
      BY <2>1 DEF AggSample
    <3> QED
      BY <2>1, <3>1, <3>2 DEF AggSample
  <2>2. CASE AggExit \/ AggIncrement
    BY <2>2, LenProperties DEF AggExit, AggIncrement
  <2> QED
    BY <1>4, <2>1, <2>2 DEF SensorController
<1>5. CASE (\E net \in Networks : TopologyReply(net)) \/ TopologySampler
  BY <1>5 DEF TopologyReply, TopologySampler, TakeSemaphore, GatherStart,
     GatherDone, PostCheck, GatherFails
<1>6. CASE Builder
  BY <1>6 DEF Builder, TakeSample, TakeIncrement, TakeCheck, FetchTimesOut,
     FetchConfig, FetchNodes, FetchTypes
<1>7. CASE UNCHANGED vars
  BY <1>7 DEF vars
<1> QED
  BY <1>1, <1>2, <1>3, <1>4, <1>5, <1>6, <1>7 DEF Next

(* The sampler's types, step by step. *)
LEMMA SamplerTypedStep ==
  ASSUME Typed, [Next]_vars
  PROVE  SamplerTyped'
<1> USE DEF Typed, SamplerTyped, topology, gather
<1>1. CASE \E net \in Networks : TopologyReply(net)
  <2> PICK net \in Networks : TopologyReply(net)
    BY <1>1
  <2>1. [i \in DOMAIN net |-> Unknown] \in [DOMAIN net -> AllTypes]
    BY DEF AllTypes
  <2>2. net \in Lists
    BY DEF Lists
  <2>3. topoTypes' \in Seq(AllTypes) /\ Len(topoTypes') = Len(topoNodes')
    BY <2>1, <2>2, TypesTyped DEF TopologyReply
  <2> QED
    BY <2>2, <2>3 DEF TopologyReply
<1>2. CASE TopologySampler
  <2>1. \A k \in Nat : TypesUpTo(k) \in Seq(AllTypes)
                       /\ Len(TypesUpTo(k)) = Len(topoNodes)
    <3> SUFFICES ASSUME NEW k \in Nat
                 PROVE  TypesUpTo(k) \in [DOMAIN topoNodes -> AllTypes]
      BY TypesTyped
    <3> QED
      BY ListsAreLists, AppsTyped DEF TypesUpTo, AllTypes
  <2>2. CASE TakeSemaphore \/ GatherStart \/ PostCheck
    BY <2>2 DEF TakeSemaphore, GatherStart, PostCheck
  <2>3. CASE GatherDone
    BY <2>1, <2>3, ZipTyped, ListsAreLists DEF GatherDone
  <2>4. ASSUME NEW k \in 0..Len(topoNodes), GatherFails(k)
        PROVE  SamplerTyped'
    BY <2>1, <2>4 DEF GatherFails
  <2> QED
    BY <1>2, <2>2, <2>3, <2>4 DEF TopologySampler
<1>3. CASE UNCHANGED <<topology, gather>>
  BY <1>3
<1>4. \/ \E net \in Networks : TopologyReply(net)
      \/ TopologySampler \/ UNCHANGED <<topology, gather>>
  BY DEF Next, NodeReply, Reflash, AggStart, SensorController, AggSample, AggExit,
     AggIncrement, Builder, TakeSample, TakeIncrement, TakeCheck, FetchTimesOut,
     FetchConfig, FetchNodes, FetchTypes, vars
<1> QED
  BY <1>1, <1>2, <1>3, <1>4

(* The queue's types, step by step. *)
LEMMA QueueTypedStep ==
  ASSUME Typed, [Next]_vars
  PROVE  QueueTyped'
<1> USE DEF Typed
<1>1. CASE AggSample
  <2>1. subbed[at] \in Nodes \X Types
    BY <1>1, LenProperties, ElementOfSeq DEF AggSample, SensorsTyped, WalkTyped
  <2>2. [kind |-> "sample", node |-> subbed[at][1], data |-> interval + 1] \in Messages
    BY <2>1 DEF Messages, WalkTyped
  <2> QED
    BY <1>1, <2>2, QueueStep DEF AggSample
<1>2. CASE AggIncrement
  <2>1. [kind |-> "increment"] \in Messages
    BY DEF Messages
  <2> QED
    BY <1>2, <2>1, QueueStep DEF AggIncrement
<1>3. CASE PostCheck
  <2>1. [kind |-> "check"] \in Messages
    BY DEF Messages
  <2> QED
    BY <1>3, <2>1, QueueStep DEF PostCheck
<1>4. CASE TakeSample \/ TakeIncrement \/ TakeCheck
  BY <1>4, QueueTaken DEF TakeSample, TakeIncrement, TakeCheck
<1>5. CASE UNCHANGED queue
  BY <1>5 DEF QueueTyped
<1>6. \/ UNCHANGED queue \/ AggSample \/ AggIncrement \/ PostCheck
      \/ TakeSample \/ TakeIncrement \/ TakeCheck
  BY DEF Next, NodeReply, Reflash, AggStart, SensorController, AggExit,
     TopologyReply, TopologySampler, TakeSemaphore, GatherStart, GatherDone,
     GatherFails, Builder, FetchTimesOut, FetchConfig, FetchNodes, FetchTypes, vars
<1> QED
  BY <1>1, <1>2, <1>3, <1>4, <1>5, <1>6

(* The network's types, step by step. *)
LEMMA NetworkTypedStep ==
  ASSUME Typed, [Next]_vars
  PROVE  NetworkTyped'
<1> USE DEF Typed, NetworkTyped, network, fetch
<1>1. CASE Builder
  <2>1. CASE TakeSample \/ TakeCheck \/ FetchTimesOut
    BY <2>1 DEF TakeSample, TakeCheck, FetchTimesOut
  <2>2. CASE TakeIncrement
    <3>1. <<>> \in Seq(AllTypes)
      BY EmptySeq
    <3>2. CASE ClearPeriod
      <4>1. raced' \in BOOLEAN
        BY <3>2 DEF ClearPeriod
      <4> QED
        BY <2>2, <3>1, <3>2, <4>1 DEF TakeIncrement, ClearPeriod, Lists, Crcs
    <3>3. CASE UNCHANGED <<network, raced>>
      BY <2>2, <3>3 DEF TakeIncrement
    <3> QED
      BY <2>2, <3>2, <3>3 DEF TakeIncrement
  <2>3. CASE FetchConfig
    BY <2>3 DEF FetchConfig, SamplerTyped
  <2>4. CASE FetchNodes
    BY <2>4, ListsAreLists DEF FetchNodes, SamplerTyped
  <2>5. CASE FetchTypes
    BY <2>5, ListsAreLists, TypeListTyped DEF FetchTypes, SamplerTyped
  <2> QED
    BY <1>1, <2>1, <2>2, <2>3, <2>4, <2>5 DEF Builder
<1>2. CASE UNCHANGED <<network, fetch>> /\ raced' \in BOOLEAN
  BY <1>2
<1>3. Builder \/ (UNCHANGED <<network, fetch>> /\ raced' \in BOOLEAN)
  <2>1. CASE \E net \in Networks : TopologyReply(net)
    BY <2>1 DEF TopologyReply
  <2>2. CASE TopologySampler
    BY <2>2 DEF TopologySampler, TakeSemaphore, GatherStart, GatherDone, PostCheck,
       GatherFails
  <2>3. CASE SensorController \/ AggStart
    BY <2>3 DEF SensorController, AggSample, AggExit, AggIncrement, AggStart
  <2>4. CASE \/ \E n \in Nodes : NodeReply(n)
             \/ \E r \in Reflashes : Reflash(r[1], r[2], r[3])
             \/ UNCHANGED vars
    BY <2>4 DEF NodeReply, Reflash, vars
  <2> QED
    BY <2>1, <2>2, <2>3, <2>4 DEF Next
<1> QED
  BY <1>1, <1>2, <1>3

(* The samples' types, step by step. *)
LEMMA SlotsTypedStep ==
  ASSUME Typed, [Next]_vars
  PROVE  SlotsTyped'
<1> USE DEF Typed, SlotsTyped, settings, data
<1>1. CASE TakeSample
  <2>1. queue[1] \in [kind : {"sample"}, node : Nodes, data : Nat \ {0}]
    BY <1>1, QueueTaken DEF TakeSample, Messages
  <2>2. AddToElement(queue[1].node, queue[1].data) \in [Nodes -> Seq(Data)]
    <3>1. queue[1].data \in Data /\ counter \in Nat /\ slots \in [Nodes -> Seq(Data)]
      BY <2>1 DEF Data
    <3>2. AddSample(slots[queue[1].node], counter, queue[1].data) \in Seq(Data)
      BY <2>1, <3>1, AddSampleFills DEF Filled
    <3> QED
      BY <2>1, <3>1, <3>2 DEF AddToElement
  <2> QED
    BY <1>1, <2>2, QueueTaken DEF TakeSample
<1>2. CASE TakeIncrement
  <2>1. samplesPerReport \in Nat
    BY ReportBuilderAssumption
  <2>2. CASE ClearPeriod
    <3>1. slots' \in [Nodes -> Seq(Data)]
      BY <2>2, EmptySeq DEF ClearPeriod
    <3> QED
      BY <1>2, <2>2, <3>1 DEF TakeIncrement, ClearPeriod
  <2>3. CASE counter' = counter + 1 /\ ~(counter + 1 >= samplesPerReport)
             /\ UNCHANGED slots
    BY <1>2, <2>1, <2>3 DEF TakeIncrement
  <2> QED
    BY <1>2, <2>2, <2>3 DEF TakeIncrement
<1>3. CASE UNCHANGED <<settings, counter, slots, handled>>
  BY <1>3
<1>4. \/ TakeSample \/ TakeIncrement
      \/ UNCHANGED <<settings, counter, slots, handled>>
  BY DEF Next, NodeReply, Reflash, AggStart, SensorController, AggSample, AggExit,
     AggIncrement, TopologyReply, TopologySampler, TakeSemaphore, GatherStart,
     GatherDone, PostCheck, GatherFails, Builder, TakeCheck, FetchTimesOut,
     FetchConfig, FetchNodes, FetchTypes, vars
<1> QED
  BY <1>1, <1>2, <1>3, <1>4

(* All of the types, step by step. *)
LEMMA TypedStep ==
  ASSUME Typed, [Next]_vars
  PROVE  Typed'
BY SensorsTypedStep, SamplerTypedStep, QueueTypedStep, NetworkTypedStep,
   SlotsTypedStep DEF Typed

-----------------------------------------------------------------------------
(* The sampler's node list with the types it has for it.                   *)
Zip == [i \in DOMAIN topoNodes |-> <<topoNodes[i], topoTypes[i]>>]

(* A configuration that is ready to be checked, or whose check nothing has *)
(* overtaken, is that of the list; and the mutex is then free.             *)
SamplerAgrees ==
  /\ sampler = "post" => config = Zip
  /\ CheckInFlight /\ ~raced => ~Locked /\ config = Zip

(* The stored list and types are those of configuration c. *)
OneNetwork(c) ==
  /\ numNodes = Len(c) /\ Len(nodeList) = numNodes
  /\ \A i \in 1..numNodes : c[i] = <<nodeList[i], TypeAt(i)>>

(* The three visits of an undisturbed check see the same network.          *)
VisitsAgree ==
  ~raced =>
    /\ pc # "types" /\ networkCrc # NoCrc => OneNetwork(networkCrc)
    /\ pc = "nodes" => newCrc = config
    /\ pc = "types" => /\ networkCrc = config
                       /\ nodeList = topoNodes /\ numNodes = Len(topoNodes)

(* A check comes into flight when the sampler posts it, and in no other    *)
(* way.                                                                    *)
LEMMA InFlightKept ==
  ASSUME Typed, [Next]_vars, CheckInFlight'
  PROVE  CheckInFlight \/ PostCheck
<1> USE DEF CheckInFlight
<1>1. queue \in Seq(Messages) /\ DOMAIN queue = 1..Len(queue) /\ Len(queue) \in Nat
  BY LenProperties DEF Typed, QueueTyped
<1>2. ASSUME NEW m, m.kind # "check", AddToQueue(m), pc' = pc
      PROVE  CheckInFlight
  BY <1>1, <1>2 DEF AddToQueue
<1>3. CASE AggSample
  <2> DEFINE m == [kind |-> "sample", node |-> subbed[at][1], data |-> interval + 1]
  <2>1. m.kind # "check" /\ AddToQueue(m) /\ pc' = pc
    BY <1>3 DEF AggSample, fetch
  <2> QED
    BY <1>2, <2>1
<1>4. CASE AggIncrement
  <2> DEFINE m == [kind |-> "increment"]
  <2>1. m.kind # "check" /\ AddToQueue(m) /\ pc' = pc
    BY <1>4 DEF AggIncrement, fetch
  <2> QED
    BY <1>2, <2>1
<1>5. ASSUME NEW kind, Take(kind), kind = "check" \/ pc' = pc
      PROVE  CheckInFlight
  <2>1. /\ Len(queue) \in Nat \ {0} /\ queue[1].kind = kind
        /\ queue' \in Seq(Messages) /\ Len(queue') = Len(queue) - 1
        /\ \A i \in 1..Len(queue') : queue'[i] = queue[i + 1]
    BY <1>5, QueueTaken DEF Typed, QueueTyped
  <2>2. DOMAIN queue' = 1..Len(queue')
    BY <2>1, LenProperties
  <2>3. CASE kind = "check"
    BY <1>1, <2>1, <2>3
  <2>4. CASE kind # "check"
    <3>1. pc # "idle" \/ \E i \in 1..Len(queue') : queue'[i].kind = "check"
      BY <1>5, <2>2, <2>4
    <3> QED
      BY <1>1, <2>1, <3>1
  <2> QED
    BY <2>3, <2>4
<1>6. CASE TakeSample \/ TakeIncrement \/ TakeCheck
  BY <1>5, <1>6 DEF TakeSample, TakeIncrement, TakeCheck, fetch
<1>7. CASE UNCHANGED queue /\ (pc' = pc \/ pc # "idle")
  BY <1>7
<1>8. \/ AggSample \/ AggIncrement \/ PostCheck
      \/ TakeSample \/ TakeIncrement \/ TakeCheck
      \/ UNCHANGED queue /\ (pc' = pc \/ pc # "idle")
  BY DEF Next, NodeReply, Reflash, AggStart, SensorController, AggExit, TopologyReply,
     TopologySampler, TakeSemaphore, GatherStart, GatherDone, GatherFails,
     Builder, FetchTimesOut, FetchConfig, FetchNodes, FetchTypes, vars, fetch
<1> QED
  BY <1>3, <1>4, <1>6, <1>7, <1>8

(* The list, the types and the configuration change under the mutex, and   *)
(* what changes them while a check is on its way is noted.                 *)
LEMMA SamplerAgreesStep ==
  ASSUME Typed, SamplerAgrees, [Next]_vars
  PROVE  SamplerAgrees'
<1> USE DEF SamplerAgrees, Zip, Locked
<1>1. CASE \E net \in Networks : TopologyReply(net)
  <2>1. sampler' \notin {"gather", "post"}
    BY <1>1 DEF TopologyReply
  <2>2. CheckInFlight' => raced'
    <3> SUFFICES ASSUME CheckInFlight' PROVE raced'
      OBVIOUS
    <3>1. CheckInFlight
      BY <1>1, InFlightKept DEF TopologyReply, PostCheck, topology
    <3> QED
      BY <1>1, <3>1 DEF TopologyReply
  <2> QED
    BY <2>1, <2>2
<1>2. CASE TakeSemaphore
  BY <1>2, InFlightKept DEF TakeSemaphore, topology, PostCheck
<1>3. CASE GatherStart
  <2>1. CheckInFlight' => raced'
    BY <1>3, InFlightKept DEF GatherStart, PostCheck
  <2> QED
    BY <1>3, <2>1 DEF GatherStart
<1>4. CASE GatherDone
  <2>1. config' = Zip'
    BY <1>4, ListsAreLists DEF GatherDone, TypesUpTo, Typed, SamplerTyped
  <2>2. CheckInFlight' => raced'
    BY <1>4, InFlightKept DEF GatherDone, PostCheck
  <2> QED
    BY <2>1, <2>2
<1>5. CASE PostCheck
  BY <1>5 DEF PostCheck, topology
<1>6. CASE \E k \in 0..Len(topoNodes) : GatherFails(k)
  BY <1>6, InFlightKept DEF GatherFails, PostCheck
<1>7. CASE UNCHANGED <<topology, sampler>> /\ ~PostCheck
           /\ (raced' = raced \/ raced' = (raced /\ CheckInFlight))
  <2>1. CheckInFlight' => CheckInFlight
    BY <1>7, InFlightKept
  <2>2. CheckInFlight /\ ~raced' => ~raced
    BY <1>7
  <2> QED
    BY <1>7, <2>1, <2>2 DEF topology
<1>8. \/ \E net \in Networks : TopologyReply(net)
      \/ TakeSemaphore \/ GatherStart \/ GatherDone \/ PostCheck
      \/ \E k \in 0..Len(topoNodes) : GatherFails(k)
      \/ /\ UNCHANGED <<topology, sampler>>
         /\ raced' = raced \/ raced' = (raced /\ CheckInFlight)
  BY DEF Next, NodeReply, Reflash, AggStart, SensorController, AggSample, AggExit,
     AggIncrement, TopologySampler, Builder, TakeSample, TakeIncrement, TakeCheck,
     FetchTimesOut, FetchConfig, FetchNodes, FetchTypes, ClearPeriod, gather, vars
<1> QED
  BY <1>1, <1>2, <1>3, <1>4, <1>5, <1>6, <1>7, <1>8

(* An undisturbed visit reads what the one before it read. *)
LEMMA VisitsAgreeStep ==
  ASSUME Typed, SamplerAgrees, VisitsAgree, [Next]_vars
  PROVE  VisitsAgree'
<1> USE DEF VisitsAgree, OneNetwork, TypeAt, network, fetch
<1>1. CASE (\E net \in Networks : TopologyReply(net)) \/ TopologySampler
  <2>1. UNCHANGED <<network, fetch>> /\ (~raced' => ~raced)
    <3>1. UNCHANGED <<network, fetch>>
      BY <1>1 DEF TopologyReply, TopologySampler, TakeSemaphore, GatherStart,
         GatherDone, GatherFails, PostCheck
    <3>2. raced' = raced \/ raced' = (raced \/ CheckInFlight)
      BY <1>1 DEF TopologyReply, TopologySampler, TakeSemaphore, GatherStart,
         GatherDone, GatherFails, PostCheck
    <3>3. ~raced' => ~raced
      BY <3>2
    <3> QED
      BY <3>1, <3>3
  <2>2. CASE UNCHANGED <<config, topoNodes>>
    BY <2>1, <2>2
  <2>3. CASE \E net \in Networks : TopologyReply(net)
    BY <2>1, <2>3 DEF TopologyReply, CheckInFlight
  <2>4. CASE GatherDone
    BY <2>1, <2>4 DEF GatherDone, CheckInFlight, Locked, SamplerAgrees
  <2>5. UNCHANGED <<config, topoNodes>> \/ GatherDone
        \/ \E net \in Networks : TopologyReply(net)
    BY <1>1 DEF TopologySampler, TakeSemaphore, GatherStart, GatherFails,
       PostCheck, topology
  <2> QED
    BY <2>2, <2>3, <2>4, <2>5
<1>2. CASE TakeCheck
  BY <1>2 DEF TakeCheck, Take, topology
<1>3. CASE FetchTimesOut
  BY <1>3 DEF FetchTimesOut, SamplerAgrees, CheckInFlight, topology
<1>4. CASE FetchConfig
  BY <1>4 DEF FetchConfig, topology
<1>5. CASE FetchNodes
  BY <1>5 DEF FetchNodes, topology
<1>6. CASE FetchTypes
  <2> SUFFICES ASSUME ~raced PROVE OneNetwork(networkCrc)' /\ pc' = "idle"
    BY <1>6 DEF FetchTypes
  <2>1. /\ networkCrc' = Zip /\ nodeList' = topoNodes
        /\ numNodes' = Len(topoNodes) /\ pc' = "idle"
    BY <1>6 DEF FetchTypes, SamplerAgrees, CheckInFlight
  <2>2. /\ Len(topoTypes) = Len(topoNodes) /\ Len(topoNodes) \in Nat
        /\ DOMAIN topoNodes = 1..Len(topoNodes)
    BY ListsAreLists DEF Typed, SamplerTyped
  <2>3. \A i \in 1..Len(topoNodes) : TypeAt(i)' = topoTypes[i]
    <3>1. /\ typeList' \in Seq(AllTypes) /\ Len(typeList') >= Len(topoTypes)
          /\ \A i \in 1..Len(topoTypes) : typeList'[i] = topoTypes[i]
      BY <1>6, TypeListTyped DEF FetchTypes
    <3>2. Len(typeList') \in Nat
      BY <3>1, LenProperties
    <3> QED
      BY <2>2, <3>1, <3>2
  <2>4. Len(networkCrc') = Len(topoNodes)
    <3>1. Zip \in [1..Len(topoNodes) -> (Nodes \union {Bridge}) \X AllTypes]
      BY <2>2, ListsAreLists, ElementOfSeq DEF Zip, Typed, SamplerTyped
    <3>2. Zip \in Seq((Nodes \union {Bridge}) \X AllTypes)
      BY <2>2, <3>1, SeqDef
    <3>3. DOMAIN Zip = 1..Len(Zip) /\ Len(Zip) \in Nat
      BY <3>2, LenProperties
    <3> QED
      BY <2>1, <2>2, <3>1, <3>3
  <2> QED
    BY <2>1, <2>2, <2>3, <2>4 DEF Zip
<1>7. CASE TakeIncrement
  <2>1. UNCHANGED <<fetch, topology>> /\ pc = "idle"
    BY <1>7 DEF TakeIncrement, Take
  <2>2. CASE ClearPeriod
    BY <2>1, <2>2 DEF ClearPeriod
  <2>3. CASE UNCHANGED <<network, raced>>
    BY <2>1, <2>3
  <2> QED
    BY <1>7, <2>2, <2>3 DEF TakeIncrement
<1>8. CASE UNCHANGED <<network, fetch, topology, raced>>
  BY <1>8 DEF topology
<1>9. \/ \E net \in Networks : TopologyReply(net)
      \/ TopologySampler
      \/ TakeCheck \/ FetchTimesOut \/ FetchConfig \/ FetchNodes \/ FetchTypes
      \/ TakeIncrement \/ UNCHANGED <<network, fetch, topology, raced>>
  BY DEF Next, NodeReply, Reflash, AggStart, SensorController, AggSample, AggExit,
     AggIncrement, Builder, TakeSample, vars
<1> QED
  BY <1>1, <1>2, <1>3, <1>4, <1>5, <1>6, <1>7, <1>8, <1>9

-----------------------------------------------------------------------------
(* A network that has nodes has a CRC. *)
NetworkHasCrc ==
  /\ numNodes > 0 => networkCrc # NoCrc
  /\ pc = "nodes" => newCrc # NoCrc
  /\ pc = "types" => networkCrc # NoCrc

(* The stored CRC, step by step. *)
LEMMA NetworkHasCrcStep ==
  ASSUME Typed, NetworkHasCrc, [Next]_vars
  PROVE  NetworkHasCrc'
<1> USE DEF NetworkHasCrc, network, fetch
<1>1. CASE TakeIncrement
  <2>1. CASE ClearPeriod
    BY <1>1, <2>1 DEF TakeIncrement, ClearPeriod, Take
  <2>2. CASE UNCHANGED network
    BY <1>1, <2>2 DEF TakeIncrement
  <2> QED
    BY <1>1, <2>1, <2>2 DEF TakeIncrement
<1>2. CASE FetchTimesOut \/ FetchConfig \/ FetchNodes \/ FetchTypes
  BY <1>2 DEF FetchTimesOut, FetchConfig, FetchNodes, FetchTypes
<1>3. CASE TakeCheck
  BY <1>3 DEF TakeCheck
<1>4. CASE UNCHANGED <<network, fetch>>
  BY <1>4
<1>5. \/ TakeIncrement
      \/ FetchTimesOut \/ FetchConfig \/ FetchNodes \/ FetchTypes
      \/ TakeCheck \/ UNCHANGED <<network, fetch>>
  BY DEF Next, NodeReply, Reflash, AggStart, SensorController, AggSample, AggExit,
     AggIncrement, TopologyReply, TopologySampler, TakeSemaphore, GatherStart,
     GatherDone, PostCheck, GatherFails, Builder, TakeSample, vars
<1> QED
  BY <1>1, <1>2, <1>3, <1>4, <1>5

(* While no node has been updated, every configuration tells what the      *)
(* nodes run, and only nodes that run a sensor's application have data.    *)
CrcTells(c) == c # NoCrc => \A i \in DOMAIN c : c[i][2] = AppOf(c[i][1])

(* The node runs an application with a sensor. *)
HasSensor(n) == app[n] \in Types

(* So do the configuration of the sampler and both of the builder. *)
CrcsTell ==
  reflashes = 0 => CrcTells(config) /\ CrcTells(newCrc) /\ CrcTells(networkCrc)

(* So do the subscribers, the samples on their way and the elements. *)
DataOfSensors ==
  reflashes = 0 =>
    /\ \A i \in DOMAIN subbed : HasSensor(subbed[i][1])
    /\ \A i \in DOMAIN queue : queue[i].kind = "sample" => HasSensor(queue[i].node)
    /\ \A n \in Nodes : slots[n] # <<>> => HasSensor(n)

(* Only a reflash changes what a node runs, and it is counted. *)
LEMMA AppsKept ==
  ASSUME Typed, [Next]_vars, reflashes' = 0
  PROVE  reflashes = 0 /\ app' = app
<1>1. \/ UNCHANGED <<app, reflashes>>
      \/ \E r \in Reflashes : Reflash(r[1], r[2], r[3])
  BY DEF Next, NodeReply, AggStart, SensorController, AggSample, AggExit,
     AggIncrement, TopologyReply, TopologySampler, TakeSemaphore, GatherStart,
     GatherDone, PostCheck, GatherFails, Builder, TakeSample, TakeIncrement,
     TakeCheck, FetchTimesOut, FetchConfig, FetchNodes, FetchTypes, vars, sensors
<1> QED
  BY <1>1 DEF Reflash, Typed, SensorsTyped

(* The configurations, step by step. *)
LEMMA CrcsTellStep ==
  ASSUME Typed, CrcsTell, [Next]_vars
  PROVE  CrcsTell'
<1> SUFFICES ASSUME reflashes' = 0
             PROVE  (CrcTells(config) /\ CrcTells(newCrc) /\ CrcTells(networkCrc))'
  BY DEF CrcsTell
<1>1. reflashes = 0 /\ app' = app
  BY AppsKept
<1> USE DEF CrcTells, AppOf, network, fetch
<1>2. CrcTells(config) /\ CrcTells(newCrc) /\ CrcTells(networkCrc)
  BY <1>1 DEF CrcsTell
<1>3. CASE /\ config' = config
           /\ newCrc' \in {newCrc, config} /\ networkCrc' \in {networkCrc, newCrc, NoCrc}
  BY <1>1, <1>2, <1>3
<1>4. CASE GatherDone
  <2>1. CrcTells(config)'
    BY <1>1, <1>4 DEF GatherDone
  <2>2. newCrc' = newCrc /\ networkCrc' = networkCrc
    BY <1>4 DEF GatherDone
  <2> QED
    BY <1>1, <1>2, <2>1, <2>2
<1>5. GatherDone \/ /\ config' = config
                    /\ newCrc' \in {newCrc, config}
                    /\ networkCrc' \in {networkCrc, newCrc, NoCrc}
  BY DEF Next, NodeReply, Reflash, AggStart, SensorController, AggSample, AggExit,
     AggIncrement, TopologyReply, TopologySampler, TakeSemaphore, GatherStart,
     PostCheck, GatherFails, Builder, TakeSample, TakeIncrement, ClearPeriod,
     TakeCheck, FetchTimesOut, FetchConfig, FetchNodes, FetchTypes, vars, topology
<1> QED
  BY <1>3, <1>4, <1>5

(* The data, step by step. *)
LEMMA DataOfSensorsStep ==
  ASSUME Typed, DataOfSensors, [Next]_vars
  PROVE  DataOfSensors'
<1> SUFFICES ASSUME reflashes' = 0
             PROVE  /\ \A i \in DOMAIN subbed' : HasSensor(subbed'[i][1])
                    /\ \A i \in DOMAIN queue' :
                         queue'[i].kind = "sample" => HasSensor(queue'[i].node)
                    /\ \A n \in Nodes : slots'[n] # <<>> => HasSensor(n)
  <2>1. reflashes' = 0 => app' = app
    BY AppsKept
  <2> QED
    BY <2>1 DEF DataOfSensors, HasSensor
<1>1. /\ \A i \in DOMAIN subbed : HasSensor(subbed[i][1])
      /\ \A i \in DOMAIN queue : queue[i].kind = "sample" => HasSensor(queue[i].node)
      /\ \A n \in Nodes : slots[n] # <<>> => HasSensor(n)
  <2>1. reflashes = 0 /\ app' = app
    BY AppsKept
  <2> QED
    BY <2>1 DEF DataOfSensors
<1>2. /\ queue \in Seq(Messages) /\ DOMAIN queue = 1..Len(queue) /\ Len(queue) \in Nat
      /\ DOMAIN subbed = 1..Len(subbed) /\ Len(subbed) \in Nat
      /\ subbed \in Seq(Nodes \X Types)
  BY LenProperties DEF Typed, QueueTyped, SensorsTyped
<1>3. CASE \E n \in Nodes : NodeReply(n)
  <2> PICK n \in Nodes : NodeReply(n)
    BY <1>3
  <2>1. app[n] \in Types /\ subbed' = Append(subbed, <<n, app[n]>>)
    BY DEF NodeReply
  <2>2. \A i \in DOMAIN subbed' : HasSensor(subbed'[i][1])
    BY <1>1, <1>2, <2>1 DEF HasSensor
  <2> QED
    BY <1>1, <2>2 DEF NodeReply, data
<1>4. CASE AggSample
  <2>0. at \in DOMAIN subbed
    BY <1>2, <1>4 DEF AggSample, Typed, WalkTyped
  <2>1. HasSensor(subbed[at][1])
    BY <1>1, <2>0
  <2>2. queue' = Append(queue, [kind |-> "sample", node |-> subbed[at][1],
                                data |-> interval + 1])
    BY <1>4 DEF AggSample, AddToQueue
  <2>3. \A i \in DOMAIN queue' :
          queue'[i].kind = "sample" => HasSensor(queue'[i].node)
    BY <1>1, <1>2, <2>1, <2>2
  <2> QED
    BY <1>1, <1>4, <2>3 DEF AggSample, sensors, data
<1>5. ASSUME NEW m, m.kind # "sample", AddToQueue(m), UNCHANGED <<subbed, slots>>
      PROVE  /\ \A i \in DOMAIN subbed' : HasSensor(subbed'[i][1])
             /\ \A i \in DOMAIN queue' :
                  queue'[i].kind = "sample" => HasSensor(queue'[i].node)
             /\ \A n \in Nodes : slots'[n] # <<>> => HasSensor(n)
  BY <1>1, <1>2, <1>5 DEF AddToQueue
<1>6. CASE AggIncrement
  <2> DEFINE m == [kind |-> "increment"]
  <2>1. m.kind # "sample" /\ AddToQueue(m) /\ UNCHANGED <<subbed, slots>>
    BY <1>6 DEF AggIncrement, sensors, data
  <2> QED
    BY <1>5, <2>1
<1>7. CASE PostCheck
  <2> DEFINE m == [kind |-> "check"]
  <2>1. m.kind # "sample" /\ AddToQueue(m) /\ UNCHANGED <<subbed, slots>>
    BY <1>7 DEF PostCheck, sensors, data
  <2> QED
    BY <1>5, <2>1
<1>8. ASSUME NEW kind, Take(kind), UNCHANGED subbed,
             \A n \in Nodes : slots'[n] # <<>> => HasSensor(n)
      PROVE  /\ \A i \in DOMAIN subbed' : HasSensor(subbed'[i][1])
             /\ \A i \in DOMAIN queue' :
                  queue'[i].kind = "sample" => HasSensor(queue'[i].node)
             /\ \A n \in Nodes : slots'[n] # <<>> => HasSensor(n)
  <2>1. /\ Len(queue) \in Nat \ {0}
        /\ queue' \in Seq(Messages) /\ Len(queue') = Len(queue) - 1
        /\ \A i \in 1..Len(queue') : queue'[i] = queue[i + 1]
    BY <1>8, QueueTaken DEF Typed, QueueTyped
  <2>2. DOMAIN queue' = 1..Len(queue')
    BY <2>1, LenProperties
  <2>3. \A i \in DOMAIN queue' : queue'[i] = queue[i + 1] /\ i + 1 \in DOMAIN queue
    BY <1>2, <2>1, <2>2
  <2>4. \A i \in DOMAIN queue' :
          queue'[i].kind = "sample" => HasSensor(queue'[i].node)
    BY <1>1, <2>3
  <2> QED
    BY <1>1, <1>8, <2>4
<1>9. CASE TakeSample
  <2>1. queue[1].kind = "sample" /\ Head(queue) = queue[1] /\ 1 \in DOMAIN queue
    <3>1. Take("sample")
      BY <1>9 DEF TakeSample
    <3>2. /\ Len(queue) \in Nat \ {0} /\ queue[1].kind = "sample"
          /\ Head(queue) = queue[1]
      BY <3>1, QueueTaken DEF Typed
    <3> QED
      BY <1>2, <3>2
  <2>2. \A n \in Nodes : slots'[n] # <<>> => HasSensor(n)
    <3> SUFFICES ASSUME NEW n \in Nodes, slots'[n] # <<>>
                 PROVE  HasSensor(n)
      OBVIOUS
    <3>1. CASE n = queue[1].node
      BY <1>1, <2>1, <3>1
    <3>2. CASE n # queue[1].node
      BY <1>1, <1>9, <2>1, <3>2 DEF TakeSample, AddToElement, Typed, SlotsTyped
    <3> QED
      BY <3>1, <3>2
  <2> QED
    BY <1>8, <1>9, <2>2 DEF TakeSample, sensors
<1>10. CASE TakeIncrement
  <2>1. \A n \in Nodes : slots'[n] # <<>> => HasSensor(n)
    BY <1>1, <1>10 DEF TakeIncrement, ClearPeriod
  <2> QED
    BY <1>8, <1>10, <2>1 DEF TakeIncrement, sensors
<1>11. CASE TakeCheck
  BY <1>1, <1>8, <1>11 DEF TakeCheck, sensors, data
<1>12. CASE UNCHANGED <<subbed, queue, slots>>
  BY <1>1, <1>12
<1>13. \/ \E n \in Nodes : NodeReply(n)
       \/ AggSample \/ AggIncrement \/ PostCheck
       \/ TakeSample \/ TakeIncrement \/ TakeCheck
       \/ UNCHANGED <<subbed, queue, slots>>
  BY DEF Next, Reflash, AggStart, SensorController, AggExit, TopologyReply,
     TopologySampler, TakeSemaphore, GatherStart, GatherDone, GatherFails,
     Builder, FetchTimesOut, FetchConfig, FetchNodes, FetchTypes, vars, sensors,
     data
<1> QED
  BY <1>3, <1>4, <1>6, <1>7, <1>9, <1>10, <1>11, <1>12, <1>13

(* The number announced is then the number that follows, and a report that *)
(* fits is sent.                                                           *)
LEMMA NumSensorsStep ==
  ASSUME Typed, VisitsAgree, NetworkHasCrc, CrcsTell, DataOfSensors,
         NumSensorsHonest, [Next]_vars
  PROVE  NumSensorsHonest'
<1> USE DEF NumSensorsHonest, HasSensors
<1>1. reflashes' = 0 => reflashes = 0
  BY AppsKept
<1>2. CASE UNCHANGED <<report, samplesPerReport>>
  BY <1>1, <1>2
<1>3. CASE report' = NewReport /\ TakeIncrement
  <2> SUFFICES ASSUME report'.result \in {"sent", "aborted"}, ~report'.raced,
                      reflashes = 0
               PROVE  /\ report'.announced = Cardinality(DOMAIN report'.sensors)
                      /\ report'.announced * samplesPerReport' <= Capacity
                           => report'.result = "sent"
    BY <1>1
  <2>1. pc = "idle" /\ samplesPerReport' = samplesPerReport
    BY <1>3 DEF TakeIncrement, Take, settings
  <2>2. /\ ~(samplesPerReport = 0 \/ ~transmit) /\ ~(numNodes <= 1 \/ NumSensors = 0)
        /\ report'.announced = NumSensors /\ report'.raced = raced
        /\ DOMAIN report'.sensors = Opened
        /\ report'.result = IF \/ Cardinality(Opened) * samplesPerReport > Capacity
                               \/ Cardinality(Opened) # NumSensors
                            THEN "aborted" ELSE "sent"
    <3>1. ~(samplesPerReport = 0 \/ ~transmit) /\ ~(numNodes <= 1 \/ NumSensors = 0)
      BY <1>3 DEF NewReport
    <3> QED
      BY <1>3, <3>1 DEF NewReport
  <2>3. numNodes \in Nat /\ numNodes > 1 /\ networkCrc # NoCrc
    BY <2>2 DEF Typed, NetworkTyped, NetworkHasCrc
  <2>4. /\ numNodes = Len(networkCrc) /\ Len(nodeList) = numNodes
        /\ \A i \in 1..numNodes : networkCrc[i] = <<nodeList[i], TypeAt(i)>>
    BY <2>1, <2>2, <2>3 DEF VisitsAgree, OneNetwork
  <2>5. nodeList[1] = Bridge /\ \A i \in 2..numNodes : nodeList[i] \in Nodes
    BY <2>3, <2>4, ListsAreLists DEF Typed, NetworkTyped
  <2>6. DOMAIN networkCrc = 1..numNodes
    BY <2>3, <2>4, LenProperties DEF Typed, NetworkTyped, Crcs
  <2>7. \A i \in 1..numNodes : TypeAt(i) = AppOf(nodeList[i])
    BY <2>3, <2>4, <2>6 DEF CrcsTell, CrcTells
  <2>8. Opened = {i \in 1..numNodes : TypeAt(i) # Unknown}
    <3>1. ASSUME NEW i \in 2..numNodes, slots[nodeList[i]] # <<>>
          PROVE  TypeAt(i) # Unknown
      <4>1. nodeList[i] \in Nodes /\ app[nodeList[i]] \in Types
        BY <2>5, <3>1 DEF DataOfSensors, HasSensor
      <4>2. TypeAt(i) = app[nodeList[i]]
        BY <2>3, <2>7, <4>1, ReportBuilderAssumption DEF AppOf
      <4> QED
        BY <4>1, <4>2, ReportBuilderAssumption
    <3>2. TypeAt(1) = Unknown
      BY <2>3, <2>5, <2>7 DEF AppOf
    <3>3. \A i \in 1..numNodes : i = 1 \/ i \in 2..numNodes
      BY <2>3
    <3>4. \A i \in 2..numNodes : i \in 1..numNodes
      BY <2>3
    <3> QED
      BY <3>1, <3>2, <3>3, <3>4 DEF Opened
  <2>9. Cardinality(Opened) = NumSensors
    BY <2>8 DEF NumSensors
  <2>10. Cardinality(Opened) \in Nat
    <3>1. IsFiniteSet(1..numNodes) /\ Opened \subseteq 1..numNodes
      BY <2>3, <2>8, FS_Interval
    <3> QED
      BY <3>1, FS_Subset, FS_CardinalityType
  <2>11. samplesPerReport \in Nat /\ Capacity \in Nat
    BY ReportBuilderAssumption DEF Typed, SlotsTyped
  <2> HIDE DEF HasSensors
  <2> QED
    BY <2>1, <2>2, <2>9, <2>10, <2>11
<1>4. \/ UNCHANGED <<report, samplesPerReport>>
      \/ report' = NewReport /\ TakeIncrement
  BY DEF Next, NodeReply, Reflash, AggStart, SensorController, AggSample, AggExit,
     AggIncrement, TopologyReply, TopologySampler, TakeSemaphore, GatherStart,
     GatherDone, PostCheck, GatherFails, Builder, TakeSample, TakeIncrement,
     TakeCheck, FetchTimesOut, FetchConfig, FetchNodes, FetchTypes, vars, data,
     settings
<1> QED
  BY <1>2, <1>3, <1>4

-----------------------------------------------------------------------------
(* What the network of a report rests on ... *)
NetworkInv == Typed /\ SamplerAgrees /\ VisitsAgree

(* ... and what the number of its sensors rests on. *)
CountInv == NetworkHasCrc /\ CrcsTell /\ DataOfSensors /\ NumSensorsHonest

(* At boot there is no network, and no check on its way. *)
LEMMA NetworkInvInit == Init => NetworkInv
<1> SUFFICES ASSUME Init PROVE SamplerAgrees /\ VisitsAgree
  BY TypedInit DEF NetworkInv
<1>1. ~CheckInFlight
  BY EmptySeq DEF Init, CheckInFlight
<1> QED
  BY <1>1 DEF Init, SamplerAgrees, VisitsAgree

(* Each step keeps the sampler's list and the three visits together. *)
LEMMA NetworkInvStep == NetworkInv /\ [Next]_vars => NetworkInv'
BY TypedStep, SamplerAgreesStep, VisitsAgreeStep DEF NetworkInv

(* The CRC that stamps a report is that of the very nodes and types it is  *)
(* built from, unless the sampler overtook a check: for every network, any *)
(* number of nodes, and whatever the queue holds.                          *)
THEOREM PeriodOfOneNetwork == Spec => []PeriodIsOneNetwork
<1>1. NetworkInv => PeriodIsOneNetwork
  BY DEF NetworkInv, VisitsAgree, OneNetwork, PeriodIsOneNetwork
<1> QED
  BY <1>1, NetworkInvInit, NetworkInvStep, PTL DEF Spec

(* Within a period the number of nodes never falls, unless the sampler     *)
(* overtook a check: the third visit takes the number that the second      *)
(* compared.                                                               *)
THEOREM NetworkGrows == Spec => NetworkOnlyGrows
<1>1. NetworkInv /\ [Next]_vars =>
        [numNodes' >= numNodes \/ handled' # handled \/ raced]_vars
  <2> SUFFICES ASSUME NetworkInv, [Next]_vars, ~raced
               PROVE  numNodes' >= numNodes \/ handled' # handled
    OBVIOUS
  <2>1. numNodes \in Nat /\ Len(topoNodes) \in Nat
    BY ListsAreLists DEF NetworkInv, Typed, NetworkTyped, SamplerTyped
  <2>2. CASE FetchNodes
    BY <2>1, <2>2 DEF FetchNodes
  <2>3. CASE FetchTypes
    BY <2>1, <2>3 DEF FetchTypes, NetworkInv, VisitsAgree
  <2>4. CASE TakeIncrement
    BY <2>4 DEF TakeIncrement, NetworkInv, Typed, SlotsTyped
  <2>5. CASE UNCHANGED numNodes
    BY <2>1, <2>5
  <2>6. UNCHANGED numNodes \/ FetchNodes \/ FetchTypes \/ TakeIncrement
    BY DEF Next, NodeReply, Reflash, AggStart, SensorController, AggSample, AggExit,
       AggIncrement, TopologyReply, TopologySampler, TakeSemaphore, GatherStart,
       GatherDone, PostCheck, GatherFails, Builder, TakeSample, TakeCheck,
       FetchTimesOut, FetchConfig, vars, network
  <2> QED
    BY <2>2, <2>3, <2>4, <2>5, <2>6
<1> QED
  BY <1>1, NetworkInvInit, NetworkInvStep, PTL DEF Spec, NetworkOnlyGrows

(* The encoder is told the number of sensors that follow, and what fits is *)
(* sent, unless the sampler overtook a check or a node was updated: for    *)
(* any nodes and applications, and any capacity.                           *)
THEOREM NumSensorsIsHonest == Spec => []NumSensorsHonest
<1>1. Init => CountInv
  <2> SUFFICES ASSUME Init PROVE CountInv
    OBVIOUS
  <2>1. DOMAIN <<>> = {}
    OBVIOUS
  <2> QED
    BY <2>1 DEF Init, CountInv, NetworkHasCrc, CrcsTell, CrcTells, DataOfSensors,
       NumSensorsHonest, HasSensors, NoReport
<1>2. NetworkInv /\ CountInv /\ [Next]_vars => CountInv'
  BY NetworkHasCrcStep, CrcsTellStep, DataOfSensorsStep, NumSensorsStep
  DEF NetworkInv, CountInv
<1>3. CountInv => NumSensorsHonest
  BY DEF CountInv
<1> QED
  BY <1>1, <1>2, <1>3, NetworkInvInit, NetworkInvStep, PTL DEF Spec
=============================================================================
