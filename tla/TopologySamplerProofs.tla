------------------------- MODULE TopologySamplerProofs -------------------------
(***************************************************************************)
(* Proofs for TopologySampler, for any bus and any list size: the sensor   *)
(* types belong to the nodes of the list, a known configuration has been   *)
(* told, and, while no request outlives its gathering, a stored            *)
(* configuration is that of the nodes of the list, in their order.         *)
(*                                                                         *)
(* Most steps touch none of the state these are about.  StepKinds sorts    *)
(* them out once, so that each invariant is proved against the few that do.*)
(***************************************************************************)
EXTENDS TopologySampler, SequenceTheorems, TLAPS

(* The types the sampler can hold of a node. *)
SensorTypes == {Unknown} \union {TypeOf[n] : n \in Nodes}

(* The task does not hold the mutex. *)
Free == {"boot", "init", "top", "check", "poll", "warm", "disabled",
         "warmDisabled", "held"}

(* Where the mutex is given back to. *)
Backs == {"boot", "init", "poll", "held"}

(* The configurations that can be stored. *)
Configs == Seq(Nodes)

(* The list is there whenever a gathering may start.                       *)
Typing ==
  /\ pc \in Free \union {"sys", "map", "send", "post"} /\ back \in Backs
  /\ nodes \in Seq(Nodes) /\ types \in Seq(SensorTypes)
  /\ entries \in Configs
  /\ sysQueue \in Seq(Nodes) /\ mapQueue \in Seq(Nodes)
  /\ open \subseteq [kind : {"sys", "map"}, node : Nodes]
  /\ known \in Seq(Configs) /\ saved \in Seq(Configs)
  /\ semaphore => nodes # <<>>

(* A node's two entries come in turn, no gathering outgrows its list, and  *)
(* none leaves entries behind.                                             *)
Progress ==
  /\ pc = "sys" => Len(entries) < 2 * Len(nodes) /\ Len(entries) % 2 = 0
  /\ pc = "map" => Len(entries) < 2 * Len(nodes) /\ Len(entries) % 2 = 1
  /\ pc \in {"send", "post"} => Len(entries) = 2 * Len(nodes)
  /\ pc \in Free => entries = <<>>

(* What a step of the power, of the timer, of the sensor controller, or of *)
(* the sampler outside a gathering leaves alone.                           *)
Elsewhere ==
  /\ UNCHANGED <<open, list, gather, known, saved, told, back>>
  /\ pc' = pc \/ (~Locked /\ pc' \in Free)

(* Every step is of that kind, or one of those below.                      *)
LEMMA StepKinds ==
  ASSUME [Next]_vars
  PROVE  \/ Elsewhere
         \/ \E net \in Networks : TopologyStored(net)
         \/ RequestEnds
         \/ GatherStart \/ TakeSysInfo \/ AskNext \/ StoreConfig \/ SendConfig
         \/ pc \in {"sys", "map", "post"} /\ EndGather
         \/ Reset
<1> USE DEF Elsewhere, list, gather
<1>1. CASE UNCHANGED vars
  BY <1>1 DEF vars, task, library, crcs
<1>2. CASE SwitchBus
  BY <1>2 DEF SwitchBus, task, library, crcs
<1>3. CASE \E e \in BOOLEAN : PowerControlEnable(e)
  BY <1>3 DEF PowerControlEnable, task, library, crcs
<1>4. CASE TimerFires
  BY <1>4 DEF TimerFires, task, crcs
<1>5. CASE TopologyEnds
  BY <1>5 DEF TopologyEnds, TopologyLost, TopologyWaits, task, crcs
<1>6. CASE Sampler
  <2>1. CASE FirstSample
    BY <2>1 DEF FirstSample, Locked, Free, crcs
  <2>2. CASE InitOver \/ Top \/ NoTopology \/ PollOn \/ PollOff
    BY <2>2 DEF InitOver, Top, NoTopology, PollOn, PollOff, Goto, Locked, Free,
       library, crcs
  <2>3. CASE Warm \/ WaitDisabled \/ WarmDisabled \/ HeldOver
    BY <2>3 DEF Warm, WaitDisabled, WarmDisabled, HeldOver, SampleAndStart, Goto,
       Locked, Free, library, crcs
  <2> QED
    BY <1>6, <2>1, <2>2, <2>3 DEF Sampler, PostCheck, GatherFails
<1>7. CASE SensorController
  BY <1>7 DEF SensorController, TakeBit, SignalOn, SignalTimesOut, ListTimesOut,
     AskNodes, Sensor, task, library, crcs
<1> QED
  BY <1>1, <1>2, <1>3, <1>4, <1>5, <1>6, <1>7 DEF Next

-----------------------------------------------------------------------------
(* The CRC list keeps only what it had and what is added. *)
LEMMA AddCrcAdds ==
  ASSUME known \in Seq(Configs), NEW c \in Configs
  PROVE  /\ AddCrc(c) \in Seq(Configs)
         /\ Range(AddCrc(c)) \subseteq Range(known) \union {c}
<1>1. CASE c \in Range(known)
  BY <1>1 DEF AddCrc
<1>2. CASE c \notin Range(known)
  <2> DEFINE all == <<c>> \o known
             size == IF Len(known) < ListSize THEN Len(known) + 1 ELSE ListSize
  <2>1. size \in 1..(Len(known) + 1)
    BY TopologySamplerAssumption, LenProperties
  <2>2. /\ all \in Seq(Configs)
        /\ Len(all) = Len(known) + 1
        /\ \A i \in 1..(Len(known) + 1) : all[i] = IF i = 1 THEN c ELSE known[i - 1]
    <3>1. <<c>> \in Seq(Configs) /\ Len(<<c>>) = 1 /\ <<c>>[1] = c
      OBVIOUS
    <3> QED
      BY <3>1, ConcatProperties, LenProperties
  <2>3. \A i \in 1..size : all[i] \in Configs
    BY <2>1, <2>2, ElementOfSeq, LenProperties
  <2> HIDE DEF all, size
  <2>4. /\ SubSeq(all, 1, size) \in Seq(Configs)
        /\ Len(SubSeq(all, 1, size)) = size
        /\ \A i \in 1..size : SubSeq(all, 1, size)[i] = all[i]
    BY <2>1, <2>3, SubSeqProperties, LenProperties
  <2>5. AddCrc(c) = SubSeq(all, 1, size)
    BY <1>2 DEF AddCrc, all, size
  <2>6. ASSUME NEW i \in DOMAIN AddCrc(c)
        PROVE  AddCrc(c)[i] \in Range(known) \union {c}
    <3>1. i \in 1..size /\ AddCrc(c)[i] = all[i]
      BY <2>4, <2>5, <2>6, LenProperties
    <3>2. CASE i = 1
      BY <3>1, <3>2, <2>1, <2>2
    <3>3. CASE i # 1
      <4>1. i - 1 \in DOMAIN known /\ all[i] = known[i - 1]
        BY <3>1, <3>3, <2>1, <2>2, LenProperties
      <4> QED
        BY <3>1, <4>1 DEF Range
    <3> QED
      BY <3>2, <3>3
  <2> QED
    BY <2>4, <2>5, <2>6 DEF Range
<1> QED
  BY <1>1, <1>2

(* Counting through the two entries of each of m nodes. *)
LEMMA Counting ==
  ASSUME NEW l \in Nat, NEW m \in Nat
  PROVE  /\ l % 2 = 0 /\ l < 2 * m =>
              l + 1 < 2 * m /\ (l + 1) % 2 = 1 /\ l \div 2 + 1 \in 1..m
         /\ l % 2 = 1 /\ l < 2 * m => l + 1 <= 2 * m /\ (l + 1) % 2 = 0
OBVIOUS

(* The initial state has no list. *)
LEMMA TypingInit == Init => Typing /\ Progress
<1> SUFFICES ASSUME Init PROVE Typing /\ Progress
  OBVIOUS
<1> USE DEF Init, Typing, Progress, Free, Backs, Configs
<1>1. \A S : <<>> \in Seq(S)
  OBVIOUS
<1> QED
  BY <1>1

(* A node list comes from a topology request, replies come from its nodes, *)
(* and the CRC list holds arrays that gatherings have completed.           *)
LEMMA TypingStep ==
  ASSUME Typing, Progress, [Next]_vars
  PROVE  Typing' /\ Progress'
<1> USE DEF Typing, Progress, list, gather
<1>1. CASE Elsewhere
  BY <1>1 DEF Elsewhere, Free, Locked
<1>2. ASSUME NEW net \in Networks, TopologyStored(net)
      PROVE  Typing' /\ Progress'
  <2>1. net \in Seq(Nodes) /\ net # <<>>
    BY TopologySamplerAssumption
  <2>2. types' \in Seq(SensorTypes)
    BY <1>2, <2>1 DEF TopologyStored, SensorTypes
  <2> QED
    BY <1>2, <2>1, <2>2 DEF TopologyStored, task, gather, crcs, Locked
<1>3. CASE RequestEnds
  <2> PICK r \in open : ReplyArrives(r) \/ RequestExpires(r)
    BY <1>3 DEF RequestEnds
  <2>1. CASE ReplyArrives(r)
    <3>1. r.node \in Nodes
      OBVIOUS
    <3>2. \A q \in Seq(Nodes) : Append(q, r.node) \in Seq(Nodes)
      BY <3>1
    <3>3. sysQueue' \in Seq(Nodes) /\ mapQueue' \in Seq(Nodes)
      BY <2>1, <3>2 DEF ReplyArrives
    <3> QED
      BY <2>1, <3>3 DEF ReplyArrives, task, list, gather, crcs
  <2>2. CASE RequestExpires(r)
    BY <2>2 DEF RequestExpires, task, list, gather, crcs
  <2> QED
    BY <2>1, <2>2
<1>4. CASE GatherStart
  <2>1. nodes[1] \in Nodes /\ Len(nodes) > 0
    BY <1>4 DEF GatherStart
  <2> QED
    BY <1>4, <2>1 DEF GatherStart, Ask, crcs, Free, Backs, Configs
<1>5. CASE TakeSysInfo
  <2>1. Head(sysQueue) \in Nodes /\ Tail(sysQueue) \in Seq(Nodes)
    BY <1>5 DEF TakeSysInfo
  <2>2. UpdateTypes(Head(sysQueue)) \in Seq(SensorTypes)
    <3>1. TypeOf[Head(sysQueue)] \in SensorTypes /\ types \in Seq(SensorTypes)
      BY <2>1 DEF SensorTypes
    <3> HIDE DEF Typing, Progress
    <3> QED
      BY <3>1 DEF UpdateTypes
  <2>3. entries' \in Configs /\ Len(entries') = Len(entries) + 1
    BY <1>5, <2>1 DEF TakeSysInfo, Configs
  <2>4. Len(entries') < 2 * Len(nodes) /\ Len(entries') % 2 = 1
    <3>1. /\ Len(entries) \in Nat /\ Len(nodes) \in Nat
          /\ Len(entries) % 2 = 0 /\ Len(entries) < 2 * Len(nodes)
      BY <1>5, LenProperties DEF TakeSysInfo, Configs
    <3> QED
      BY <2>3, <3>1, Counting
  <2> QED
    BY <1>5, <2>1, <2>2, <2>3, <2>4 DEF TakeSysInfo, Ask, crcs, Free
<1>6. ASSUME AskNext \/ StoreConfig
      PROVE  /\ Completed \in Configs /\ mapQueue' \in Seq(Nodes)
             /\ Len(Completed) = Len(entries) + 1
             /\ Len(Completed) <= 2 * Len(nodes) /\ Len(Completed) % 2 = 0
  <2> pc = "map" /\ mapQueue # <<>> /\ mapQueue' = Tail(mapQueue)
    BY <1>6 DEF AskNext, StoreConfig, TakeMap
  <2>1. Head(mapQueue) \in Nodes /\ mapQueue' \in Seq(Nodes)
    BY HeadTailProperties
  <2>2. Completed \in Configs /\ Len(Completed) = Len(entries) + 1
    BY <2>1 DEF Completed, Configs
  <2> QED
    BY <2>1, <2>2, LenProperties, Counting DEF Configs
<1>7. CASE AskNext
  <2>1. entries' = Completed /\ Len(Completed) < 2 * Len(nodes)
    BY <1>6, <1>7, LenProperties DEF AskNext, TakeMap, Complete, Configs
  <2>2. nodes[Len(Completed) \div 2 + 1] \in Nodes
    BY <1>6, <1>7, <2>1, ElementOfSeq, LenProperties, Counting DEF Configs
  <2>3. open' \subseteq [kind : {"sys", "map"}, node : Nodes]
    BY <1>7, <2>2 DEF AskNext, Ask
  <2> QED
    BY <1>6, <1>7, <2>1, <2>3 DEF AskNext, TakeMap, crcs, Free
<1>8. CASE StoreConfig
  <2>1. known' \in Seq(Configs) /\ saved' \in Seq(Configs)
    BY <1>6, <1>8, AddCrcAdds DEF StoreConfig
  <2> QED
    BY <1>6, <1>8, <2>1 DEF StoreConfig, TakeMap, Complete, Free
<1>9. CASE SendConfig
  BY <1>9 DEF SendConfig, library, Free
<1>10. CASE pc \in {"sys", "map", "post"} /\ EndGather
  BY <1>10 DEF EndGather, library, crcs, Backs, Free, Configs
<1>11. CASE Reset
  BY <1>11 DEF Reset, Backs, Free, Configs
<1> QED
  BY <1>1, <1>2, <1>3, <1>4, <1>5, <1>7, <1>8, <1>9, <1>10, <1>11, StepKinds

-----------------------------------------------------------------------------
(* The first of a node's two entries is written together with its type,    *)
(* and the list is replaced only when there are no entries.                *)
LEMMA TypesStep ==
  ASSUME Typing, Progress, TypesMatchNodes, [Next]_vars
  PROVE  TypesMatchNodes'
<1> USE DEF TypesMatchNodes, list
<1>1. CASE UNCHANGED <<nodes, types>> /\ Replied' \subseteq Replied
  BY <1>1
<1>2. ASSUME NEW net \in Networks, TopologyStored(net)
      PROVE  TypesMatchNodes'
  <2>1. entries' = <<>>
    BY <1>2 DEF TopologyStored, Typing, Progress, Locked, gather
  <2>2. Replied' = {}
    BY <2>1 DEF Replied
  <2> QED
    BY <1>2, <2>2, TopologySamplerAssumption DEF TopologyStored
<1>3. CASE TakeSysInfo
  <2> DEFINE n == Head(sysQueue)
  <2>1. /\ entries \in Seq(Nodes) /\ n \in Nodes /\ entries' = Append(entries, n)
        /\ UNCHANGED nodes /\ types' = UpdateTypes(n)
    BY <1>3 DEF TakeSysInfo, Typing, Configs
  <2>2. Replied' \subseteq Replied \union {n}
    BY <2>1, AppendProperties, LenProperties DEF Replied
  <2>3. \A i \in DOMAIN nodes : i \in DOMAIN types
    BY LenProperties DEF Typing
  <2>4. \A i \in DOMAIN nodes :
          types'[i] = IF nodes[i] = n THEN TypeOf[n] ELSE types[i]
    BY <2>1, <2>3 DEF UpdateTypes
  <2>5. Len(types') = Len(types)
    BY <2>1 DEF UpdateTypes, Typing
  <2> QED
    BY <2>1, <2>2, <2>4, <2>5
<1>4. CASE AskNext \/ StoreConfig
  <2>1. /\ entries \in Seq(Nodes) /\ entries' = Append(entries, Head(mapQueue))
        /\ Head(mapQueue) \in Nodes /\ Len(entries) % 2 = 1
        /\ UNCHANGED <<nodes, types>>
    BY <1>4 DEF AskNext, StoreConfig, TakeMap, Completed, Typing, Progress, Configs
  <2>2. Len(entries) \in Nat /\ (Len(entries) + 1) % 2 # 1
    BY <2>1, LenProperties
  <2>3. Replied' \subseteq Replied
    BY <2>1, <2>2, AppendProperties, LenProperties DEF Replied
  <2> QED
    BY <2>1, <2>3
<1>5. CASE Reset
  BY <1>5 DEF Reset
<1>6. \/ UNCHANGED <<nodes, types>> /\ Replied' \subseteq Replied
      \/ \E net \in Networks : TopologyStored(net)
      \/ TakeSysInfo \/ AskNext \/ StoreConfig \/ Reset
  <2>1. CASE Elsewhere \/ RequestEnds \/ SendConfig
    BY <2>1 DEF Elsewhere, RequestEnds, ReplyArrives, RequestExpires, SendConfig,
       gather, Replied
  <2>2. CASE GatherStart \/ EndGather
    <3>1. entries' = <<>> /\ UNCHANGED <<nodes, types>>
      BY <2>2 DEF GatherStart, EndGather
    <3>2. Replied' = {}
      BY <3>1 DEF Replied
    <3> QED
      BY <3>1, <3>2
  <2> QED
    BY <2>1, <2>2, StepKinds
<1> QED
  BY <1>1, <1>2, <1>3, <1>4, <1>5, <1>6

-----------------------------------------------------------------------------
(* What the list holds, in RAM and in flash, the host has, or is about to. *)
KnownIsTold ==
  Range(known) \union Range(saved)
    \subseteq IF pc = "send" THEN told \union {entries} ELSE told

(* A configuration enters the list when it is about to be sent, and what   *)
(* the step forgets about told ones it forgets for unlisted ones only.     *)
LEMMA KnownStep ==
  ASSUME Typing, KnownIsTold, [Next]_vars
  PROVE  KnownIsTold'
<1> USE DEF KnownIsTold
<1>1. CASE UNCHANGED <<known, saved, told>> /\ pc # "send" /\ pc' # "send"
  BY <1>1
<1>2. CASE UNCHANGED <<known, saved, told, pc, entries>>
  BY <1>2
<1>3. CASE StoreConfig
  <2>1. pc = "map" /\ entries' = Completed /\ Completed \in Configs
    BY <1>3 DEF StoreConfig, TakeMap, Completed, Typing, Configs
  <2>2. /\ Range(known') \subseteq Range(known) \union {Completed}
        /\ saved' \in {saved, known'}
    BY <1>3, <2>1, AddCrcAdds DEF StoreConfig, Typing
  <2>3. CASE Completed \in Range(known)
    BY <1>3, <2>1, <2>3 DEF StoreConfig, AddCrc
  <2>4. CASE Completed \notin Range(known)
    BY <1>3, <2>1, <2>2, <2>4 DEF StoreConfig, MustSend
  <2> QED
    BY <2>3, <2>4
<1>4. CASE SendConfig
  BY <1>4 DEF SendConfig
<1>5. CASE Reset
  BY <1>5 DEF Reset
<1>6. \/ UNCHANGED <<known, saved, told>> /\ pc # "send" /\ pc' # "send"
      \/ UNCHANGED <<known, saved, told, pc, entries>>
      \/ StoreConfig \/ SendConfig \/ Reset
  <2>1. CASE Elsewhere
    BY <2>1 DEF Elsewhere, Locked, Free, gather
  <2>2. ASSUME NEW net \in Networks, TopologyStored(net)
        PROVE  UNCHANGED <<known, saved, told, pc, entries>>
    BY <2>2 DEF TopologyStored, task, gather, crcs
  <2>3. CASE RequestEnds
    BY <2>3 DEF RequestEnds, ReplyArrives, RequestExpires, task, gather, crcs
  <2>4. CASE GatherStart \/ TakeSysInfo \/ AskNext
    BY <2>4 DEF GatherStart, TakeSysInfo, AskNext, TakeMap, crcs
  <2>5. CASE pc \in {"sys", "map", "post"} /\ EndGather
    BY <2>5 DEF EndGather, crcs, Typing, Backs
  <2> QED
    BY <2>1, <2>2, <2>3, <2>4, <2>5, StepKinds
<1> QED
  BY <1>1, <1>2, <1>3, <1>4, <1>5, <1>6

-----------------------------------------------------------------------------
(* The node that the gathering is at. *)
Current == nodes[Len(entries) \div 2 + 1]

(* One request is open, or its reply has come, or it has ended without.    *)
Awaits(kind, queue, n) ==
  \/ queue = <<>> /\ open \subseteq {Ask(kind, n)}
  \/ queue = <<n>> /\ open = {}

(* While no request outlives its gathering, a gathering has at most the    *)
(* one answer to come that it waits for ...                                *)
InTurn ==
  /\ pc = "sys" => Awaits("sys", sysQueue, Current) /\ mapQueue = <<>>
  /\ pc = "map" => Awaits("map", mapQueue, Current) /\ sysQueue = <<>>

(* ... so that the array so far holds the nodes of the list in order.      *)
SoFar ==
  Locked => \A i \in DOMAIN entries :
    /\ entries[i] = nodes[(i + 1) \div 2]
    /\ types[(i + 1) \div 2] = TypeOf[entries[i]]

(* A gathering starts with no request open and empty queues, and asks for  *)
(* the next thing only when it has taken the answer to the last.           *)
LEMMA InTurnStep ==
  ASSUME ~Late, Typing, Progress, InTurn, [Next]_vars
  PROVE  InTurn'
<1> USE DEF InTurn, Awaits, Current
<1>1. CASE UNCHANGED <<pc, open, nodes, entries, sysQueue, mapQueue>>
  BY <1>1
<1>2. CASE pc' \notin {"sys", "map"}
  BY <1>2
<1>3. CASE RequestEnds
  <2> PICK r \in open : ReplyArrives(r) \/ RequestExpires(r)
    BY <1>3 DEF RequestEnds
  <2>1. UNCHANGED <<pc, nodes, entries>> /\ open' = open \ {r}
    BY DEF ReplyArrives, RequestExpires, task, list, gather
  <2>2. CASE RequestExpires(r)
    BY <2>1, <2>2 DEF RequestExpires, gather
  <2>3. CASE ReplyArrives(r)
    <3>1. CASE pc = "sys"
      <4>1. r = Ask("sys", Current) /\ open' = {} /\ sysQueue = <<>>
        BY <2>1, <3>1
      <4>2. sysQueue' = <<Current>> /\ mapQueue' = mapQueue
        BY <2>3, <4>1 DEF ReplyArrives, Ask
      <4> QED
        BY <2>1, <3>1, <4>1, <4>2
    <3>2. CASE pc = "map"
      <4>1. r = Ask("map", Current) /\ open' = {} /\ mapQueue = <<>>
        BY <2>1, <3>2
      <4>2. mapQueue' = <<Current>> /\ sysQueue' = sysQueue
        BY <2>3, <4>1 DEF ReplyArrives, Ask
      <4> QED
        BY <2>1, <3>2, <4>1, <4>2
    <3> QED
      BY <2>1, <3>1, <3>2
  <2> QED
    BY <2>2, <2>3
<1>4. CASE GatherStart
  BY <1>4 DEF GatherStart, Punctual, Ask
<1>5. CASE TakeSysInfo
  <2>1. sysQueue = <<Current>> /\ open = {} /\ mapQueue = <<>>
    BY <1>5 DEF TakeSysInfo
  <2>2. pc' = "map" /\ sysQueue' = <<>> /\ open' = {Ask("map", Current)}
    BY <1>5, <2>1 DEF TakeSysInfo
  <2>3. /\ Len(entries) \in Nat /\ Len(entries) % 2 = 0
        /\ Len(entries') = Len(entries) + 1 /\ nodes' = nodes
    BY <1>5, LenProperties DEF TakeSysInfo, Typing, Progress, Configs
  <2>4. Len(entries') \div 2 = Len(entries) \div 2
    BY <2>3
  <2>5. Current' = Current
    BY <2>3, <2>4
  <2> QED
    BY <1>5, <2>1, <2>2, <2>5 DEF TakeSysInfo
<1>6. CASE AskNext
  <2>1. mapQueue = <<Current>> /\ open = {} /\ sysQueue = <<>>
    BY <1>6 DEF AskNext, TakeMap
  <2>2. pc' = "sys" /\ entries' = Completed /\ nodes' = nodes
    BY <1>6 DEF AskNext, TakeMap, list
  <2>3. open' = {Ask("sys", Current')}
    BY <1>6, <2>1, <2>2 DEF AskNext
  <2> QED
    BY <1>6, <2>1, <2>2, <2>3 DEF AskNext, TakeMap
<1>7. \/ UNCHANGED <<pc, open, nodes, entries, sysQueue, mapQueue>>
      \/ pc' \notin {"sys", "map"}
      \/ RequestEnds \/ GatherStart \/ TakeSysInfo \/ AskNext
  <2>1. CASE Elsewhere
    BY <2>1 DEF Elsewhere, Free, list, gather
  <2>2. ASSUME NEW net \in Networks, TopologyStored(net)
        PROVE  pc' \notin {"sys", "map"}
    BY <2>2 DEF TopologyStored, task, Locked
  <2>3. CASE StoreConfig \/ SendConfig \/ Reset
    BY <2>3 DEF StoreConfig, SendConfig, Reset
  <2>4. CASE EndGather
    BY <2>4 DEF EndGather, Typing, Backs
  <2> QED
    BY <2>1, <2>2, <2>3, <2>4, StepKinds
<1> QED
  BY <1>1, <1>2, <1>3, <1>4, <1>5, <1>6, <1>7

(* What is taken from a queue is then the entry for the current node. *)
LEMMA SoFarStep ==
  ASSUME ~Late, Typing, Progress, TypesMatchNodes, InTurn, SoFar, [Next]_vars
  PROVE  SoFar'
<1> USE DEF SoFar
<1>1. CASE UNCHANGED <<pc, nodes, types, entries>>
  BY <1>1 DEF Locked
<1>2. CASE ~Locked'
  BY <1>2
<1>3. CASE GatherStart
  BY <1>3 DEF GatherStart
<1> DEFINE l == Len(entries)
           c == l \div 2 + 1
<1>4. l \in Nat /\ DOMAIN entries = 1..l
  BY LenProperties DEF Typing, Configs
<1>5. CASE TakeSysInfo
  <2>1. Locked /\ sysQueue = <<nodes[c]>>
    BY <1>5 DEF TakeSysInfo, Locked, InTurn, Awaits, Current
  <2>2. /\ entries' = Append(entries, nodes[c]) /\ nodes' = nodes
        /\ types' = UpdateTypes(nodes[c])
    BY <1>5, <2>1 DEF TakeSysInfo
  <2>3. c \in DOMAIN nodes /\ (l + 2) \div 2 = c
    BY <1>4, <1>5, Counting, LenProperties DEF TakeSysInfo, Typing, Progress
  <2>4. /\ DOMAIN entries' = 1..(l + 1) /\ entries'[l + 1] = nodes[c]
        /\ \A i \in 1..l : entries'[i] = entries[i]
    BY <1>4, <2>2, <2>3 DEF Typing, Configs
  <2>5. \A j \in DOMAIN nodes :
          types'[j] = IF nodes[j] = nodes[c] THEN TypeOf[nodes[c]] ELSE types[j]
    BY <2>2, LenProperties DEF UpdateTypes, TypesMatchNodes, Typing
  <2>6. ASSUME NEW i \in 1..l
        PROVE  /\ entries'[i] = nodes'[(i + 1) \div 2]
               /\ types'[(i + 1) \div 2] = TypeOf[entries'[i]]
    <3>1. (i + 1) \div 2 \in DOMAIN nodes
      BY <1>4, <2>3, LenProperties DEF Typing
    <3> QED
      BY <1>4, <2>1, <2>2, <2>4, <2>5, <3>1
  <2>7. /\ entries'[l + 1] = nodes'[(l + 1 + 1) \div 2]
        /\ types'[(l + 1 + 1) \div 2] = TypeOf[entries'[l + 1]]
    BY <1>4, <2>2, <2>3, <2>4, <2>5
  <2>8. \A i \in 1..(l + 1) : i \in 1..l \/ i = l + 1
    BY <1>4
  <2> QED
    BY <2>4, <2>6, <2>7, <2>8
<1>6. CASE AskNext \/ StoreConfig
  <2>1. Locked /\ mapQueue = <<nodes[c]>>
    BY <1>6 DEF AskNext, StoreConfig, TakeMap, Locked, InTurn, Awaits, Current
  <2>2. entries' = Append(entries, nodes[c]) /\ UNCHANGED <<nodes, types>>
    BY <1>6, <2>1 DEF AskNext, StoreConfig, TakeMap, Completed, list
  <2>3. /\ l \in DOMAIN entries /\ (l + 1) \div 2 = c /\ (l + 2) \div 2 = c
        /\ nodes[c] \in Nodes
    <3>1. /\ l % 2 = 1 /\ l < 2 * Len(nodes) /\ Len(nodes) \in Nat
      BY <1>6, LenProperties
      DEF AskNext, StoreConfig, TakeMap, Typing, Progress
    <3>2. l >= 1 /\ (l + 1) \div 2 = c /\ (l + 2) \div 2 = c
      BY <1>4, <3>1
    <3>3. c \in 1..Len(nodes)
      BY <1>4, <3>1, <3>2
    <3> QED
      BY <1>4, <3>2, <3>3, ElementOfSeq DEF Typing
  <2>4. /\ DOMAIN entries' = 1..(l + 1) /\ entries'[l + 1] = nodes[c]
        /\ \A i \in 1..l : entries'[i] = entries[i]
    BY <1>4, <2>2, <2>3 DEF Typing, Configs
  <2>5. types'[c] = TypeOf[nodes[c]]
    BY <2>1, <2>2, <2>3
  <2>6. \A i \in 1..l : /\ entries'[i] = nodes'[(i + 1) \div 2]
                        /\ types'[(i + 1) \div 2] = TypeOf[entries'[i]]
    BY <1>4, <2>1, <2>2, <2>4
  <2> QED
    BY <1>4, <2>2, <2>3, <2>4, <2>5, <2>6
<1>7. \/ UNCHANGED <<pc, nodes, types, entries>> \/ ~Locked'
      \/ GatherStart \/ TakeSysInfo \/ AskNext \/ StoreConfig
      \/ UNCHANGED <<nodes, types, entries>> /\ Locked
  <2>1. CASE Elsewhere
    BY <2>1 DEF Elsewhere, Free, Locked, list, gather
  <2>2. ASSUME NEW net \in Networks, TopologyStored(net)
        PROVE  ~Locked'
    BY <2>2 DEF TopologyStored, task, Locked
  <2>3. CASE RequestEnds
    BY <2>3 DEF RequestEnds, ReplyArrives, RequestExpires, task, list, gather
  <2>4. CASE SendConfig
    BY <2>4 DEF SendConfig, Locked, list, gather
  <2>5. CASE EndGather \/ Reset
    BY <2>5 DEF EndGather, Reset, Locked, Typing, Backs
  <2> QED
    BY <2>1, <2>2, <2>3, <2>4, <2>5, StepKinds
<1>8. CASE UNCHANGED <<nodes, types, entries>> /\ Locked
  BY <1>8
<1> QED
  BY <1>1, <1>2, <1>3, <1>5, <1>6, <1>7, <1>8

-----------------------------------------------------------------------------
(* The sampler hands on a type per node of the list, and never that of     *)
(* another node, and no reply of the topology library makes the type of a  *)
(* node unknown again that has told the running gathering: for every       *)
(* network, and however late replies come.                                 *)
THEOREM TypesBelong == Spec => []TypesMatchNodes
<1> DEFINE Inv == Typing /\ Progress /\ TypesMatchNodes
<1>1. Init => Inv
  <2>1. Init => TypesMatchNodes
    BY DEF Init, TypesMatchNodes
  <2> QED
    BY <2>1, TypingInit
<1>2. Inv /\ [Next]_vars => Inv'
  BY TypingStep, TypesStep
<1> QED
  BY <1>1, <1>2, PTL DEF Spec

(* The types of all variables of the list and of the gathering. *)
THEOREM TypeCorrect == Spec => [](Typing /\ Progress)
<1>1. Typing /\ Progress /\ [Next]_vars => (Typing /\ Progress)'
  BY TypingStep
<1> QED
  BY <1>1, TypingInit, PTL DEF Spec

(* Whatever the CRC list holds outside the sending of a configuration, the *)
(* host has been sent, for every list size, and over resets and failed     *)
(* saves.                                                                  *)
THEOREM KnownWasToldAlways == Spec => []KnownWasTold
<1> DEFINE Inv == Typing /\ Progress /\ KnownIsTold
<1>1. Init => Inv
  <2>1. Init => KnownIsTold
    BY DEF Init, KnownIsTold, Range
  <2> QED
    BY <2>1, TypingInit
<1>2. Inv /\ [Next]_vars => Inv'
  BY TypingStep, KnownStep
<1>3. Inv => KnownWasTold
  BY DEF KnownIsTold, KnownWasTold
<1> QED
  BY <1>1, <1>2, <1>3, PTL DEF Spec

(* A stored configuration holds both entries of each node of the list, in  *)
(* order, if every request ends before the next gathering.                 *)
THEOREM ConfigOfItsNodes ==
  ASSUME ~Late
  PROVE  Spec => []ConfigIsOfItsNodes
<1> DEFINE Inv == Typing /\ Progress /\ TypesMatchNodes /\ InTurn /\ SoFar
<1>1. Init => Inv
  <2>1. Init => TypesMatchNodes /\ InTurn /\ SoFar
    BY DEF Init, TypesMatchNodes, InTurn, SoFar, Locked
  <2> QED
    BY <2>1, TypingInit
<1>2. Inv /\ [Next]_vars => Inv'
  BY TypingStep, TypesStep, InTurnStep, SoFarStep
<1>3. Inv => ConfigIsOfItsNodes
  <2> SUFFICES ASSUME Inv, pc \in {"send", "post"}
               PROVE  /\ entries = [i \in 1..(2 * Len(nodes)) |->
                                      nodes[(i + 1) \div 2]]
                      /\ \A i \in DOMAIN nodes : types[i] = TypeOf[nodes[i]]
    BY DEF ConfigIsOfItsNodes
  <2>1. Locked /\ entries \in [1..(2 * Len(nodes)) -> Nodes] /\ Len(nodes) \in Nat
    BY LenProperties DEF Locked, Typing, Progress, Configs
  <2>2. \A i \in 1..(2 * Len(nodes)) : entries[i] = nodes[(i + 1) \div 2]
    BY <2>1 DEF SoFar
  <2>3. ASSUME NEW i \in DOMAIN nodes
        PROVE  types[i] = TypeOf[nodes[i]]
    <3>1. i \in 1..Len(nodes)
      BY LenProperties DEF Typing
    <3>2. 2 * i \in DOMAIN entries /\ (2 * i + 1) \div 2 = i
      BY <2>1, <3>1
    <3> QED
      BY <2>1, <3>2 DEF SoFar
  <2> QED
    BY <2>1, <2>2, <2>3
<1> QED
  BY <1>1, <1>2, <1>3, PTL DEF Spec
=============================================================================
