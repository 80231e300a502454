-------------------------- MODULE ReportSampleProofs --------------------------
(***************************************************************************)
(* Proofs for ReportBuilder about the samples: the slot of an interval     *)
(* holds that interval's aggregate, and a report is whole, for any nodes,  *)
(* queue size and samples per report, while no node swaps one sensor's     *)
(* application for another's (MCReportReflash shows what happens then).    *)
(*                                                                         *)
(* The argument follows an aggregate: what the walk has sent for an        *)
(* interval that is not yet counted is in the queue, once, or has just     *)
(* been put in its slot, and the queue counts the intervals.               *)
(***************************************************************************)
EXTENDS ReportBuilderProofs

(* A node's application changes from none to a sensor's, at most.          *)
OneSensorEach == \A r \in Reflashes : r[2] = Unknown

(* Each node is then subscribed once, as what it runs.                     *)
OncePerNode ==
  /\ \A p, q \in DOMAIN subbed : subbed[p][1] = subbed[q][1] => p = q
  /\ \A p \in DOMAIN subbed : app[subbed[p][1]] = subbed[p][2]

(* The subscriptions, step by step. *)
LEMMA OncePerNodeStep ==
  ASSUME OneSensorEach, Typed, OncePerNode, [Next]_vars
  PROVE  OncePerNode'
<1> USE DEF OncePerNode
<1>1. /\ subbed \in Seq(Nodes \X Types)
      /\ Len(subbed) \in Nat /\ DOMAIN subbed = 1..Len(subbed)
      /\ \A p \in DOMAIN subbed : subbed[p] \in Nodes \X Types
  BY LenProperties, ElementOfSeq DEF Typed, SensorsTyped
<1>2. CASE \E n \in Nodes : NodeReply(n)
  <2> PICK n \in Nodes : NodeReply(n)
    BY <1>2
  <2>1. app[n] \in Types /\ app' = app /\ subbed' = Append(subbed, <<n, app[n]>>)
    BY DEF NodeReply
  <2>2. \A p \in DOMAIN subbed : subbed[p][1] # n
    BY <1>1 DEF NodeReply
  <2>3. /\ DOMAIN subbed' = 1..(Len(subbed) + 1)
        /\ subbed'[Len(subbed) + 1] = <<n, app[n]>>
        /\ \A p \in DOMAIN subbed : subbed'[p] = subbed[p]
    BY <1>1, <2>1
  <2> QED
    BY <1>1, <2>1, <2>2, <2>3
<1>3. CASE \E r \in Reflashes : Reflash(r[1], r[2], r[3])
  <2> PICK r \in Reflashes : Reflash(r[1], r[2], r[3])
    BY <1>3
  <2>1. app[r[1]] \notin Types
    BY ReportBuilderAssumption DEF Reflash, OneSensorEach
  <2>2. \A p \in DOMAIN subbed : subbed[p][1] # r[1]
    BY <1>1, <2>1
  <2> QED
    BY <1>1, <2>2 DEF Reflash, Typed, SensorsTyped
<1>4. CASE UNCHANGED <<app, subbed>>
  BY <1>4
<1>5. \/ \E n \in Nodes : NodeReply(n)
      \/ \E r \in Reflashes : Reflash(r[1], r[2], r[3])
      \/ UNCHANGED <<app, subbed>>
  BY DEF Next, AggStart, SensorController, AggSample, AggExit, AggIncrement,
     TopologyReply, TopologySampler, TakeSemaphore, GatherStart, GatherDone,
     PostCheck, GatherFails, Builder, TakeSample, TakeIncrement, TakeCheck,
     FetchTimesOut, FetchConfig, FetchNodes, FetchTypes, vars, sensors
<1> QED
  BY <1>2, <1>3, <1>4, <1>5

-----------------------------------------------------------------------------
(* The node is in the list of sensors. *)
Subscribed(n) == \E p \in 1..Len(subbed) : subbed[p][1] = n

(* The walk of this interval has passed the node. *)
Walked(n) == \E p \in 1..(at - 1) : subbed[p][1] = n

(* A walk comes by every node that has been sampled before.                *)
WalkCovers ==
  /\ agg = "idle" => at = 1
  /\ \A n \in Nodes : first[n] # 0 /\ ~Walked(n) =>
       first[n] <= interval /\ agg # "increment" /\ Subscribed(n)
  /\ \A n \in Nodes : Walked(n) => first[n] \in 1..(interval + 1)

(* What has been walked past, or subscribed, stays so while the list grows.*)
LEMMA WalkedKept ==
  ASSUME Typed, NEW n \in Nodes, NodeReply(n)
  PROVE  \A m \in Nodes : (Walked(m)' <=> Walked(m)) /\ (Subscribed(m) => Subscribed(m)')
<1>1. /\ subbed \in Seq(Nodes \X Types) /\ Len(subbed) \in Nat
      /\ at \in 1..(Len(subbed) + 1)
  BY LenProperties DEF Typed, SensorsTyped, WalkTyped
<1>2. <<n, app[n]>> \in Nodes \X Types /\ subbed' = Append(subbed, <<n, app[n]>>)
      /\ at' = at
  BY DEF NodeReply, walk
<1>3. /\ Len(subbed') = Len(subbed) + 1
      /\ \A p \in 1..Len(subbed) : subbed'[p] = subbed[p]
  BY <1>1, <1>2
<1> QED
  BY <1>1, <1>2, <1>3 DEF Walked, Subscribed

(* The walk, step by step. *)
LEMMA WalkStep ==
  ASSUME Typed, WalkCovers, [Next]_vars
  PROVE  WalkCovers'
<1>1. /\ subbed \in Seq(Nodes \X Types) /\ Len(subbed) \in Nat
      /\ at \in 1..(Len(subbed) + 1)
      /\ interval \in Nat /\ first \in [Nodes -> Nat]
  BY LenProperties DEF Typed, SensorsTyped, WalkTyped
<1> USE DEF WalkCovers
<1>2. CASE \E n \in Nodes : NodeReply(n)
  <2> PICK n \in Nodes : NodeReply(n)
    BY <1>2
  <2>1. UNCHANGED <<agg, at, interval, first>>
    BY DEF NodeReply, walk
  <2> QED
    BY <2>1, WalkedKept
<1>3. CASE AggStart
  <2>1. at = 1 /\ UNCHANGED <<at, subbed, interval, first>> /\ agg' = "walk"
    BY <1>3 DEF AggStart, sensors
  <2> QED
    BY <2>1 DEF Walked, Subscribed
<1>4. CASE AggSample
  <2> DEFINE n == subbed[at][1]
  <2>1. n \in Nodes /\ at \in 1..Len(subbed)
    BY <1>1, <1>4, ElementOfSeq DEF AggSample
  <2>2. /\ UNCHANGED <<agg, subbed, interval>> /\ at' = at + 1 /\ agg = "walk"
        /\ first' = [first EXCEPT ![n] = IF @ = 0 THEN interval + 1 ELSE @]
    BY <1>4 DEF AggSample, sensors
  <2>3. \A m \in Nodes : Walked(m)' <=> (Walked(m) \/ m = n)
    <3>1. at' - 1 = at
      BY <1>1, <2>2
    <3>2. \A p \in 1..at : p \in 1..(at - 1) \/ p = at
      BY <1>1
    <3>3. \A p \in 1..(at - 1) : p \in 1..at
      BY <1>1
    <3>4. at \in 1..at
      BY <1>1
    <3> QED
      BY <2>2, <3>1, <3>2, <3>3, <3>4 DEF Walked
  <2>4. \A m \in Nodes : Subscribed(m)' <=> Subscribed(m)
    BY <2>2 DEF Subscribed
  <2>5. \A m \in Nodes : m # n => first'[m] = first[m]
    BY <1>1, <2>2
  <2>6. first'[n] \in 1..(interval + 1)
    <3>1. first[n] = 0 \/ first[n] \in 1..(interval + 1)
      BY <1>1, <2>1
    <3> QED
      BY <1>1, <2>1, <2>2, <3>1
  <2> QED
    BY <1>1, <2>1, <2>2, <2>3, <2>4, <2>5, <2>6
<1>5. CASE AggExit
  <2>1. UNCHANGED <<at, subbed, interval, first>> /\ agg' = "increment"
    BY <1>5 DEF AggExit, sensors
  <2>2. \A n \in Nodes : Subscribed(n) => Walked(n)
    BY <1>1, <1>5 DEF AggExit, Subscribed, Walked
  <2> QED
    BY <2>1, <2>2 DEF Walked, Subscribed
<1>6. CASE AggIncrement
  <2>1. /\ UNCHANGED <<subbed, first>> /\ agg' = "idle" /\ at' = 1
        /\ interval' = interval + 1 /\ agg = "increment"
    BY <1>6 DEF AggIncrement, sensors
  <2>2. \A n \in Nodes : ~Walked(n)' /\ (Subscribed(n)' <=> Subscribed(n))
    BY <2>1 DEF Walked, Subscribed
  <2>3. \A n \in Nodes : Walked(n) => Subscribed(n)
    BY <1>1 DEF Walked, Subscribed
  <2> QED
    BY <1>1, <2>1, <2>2, <2>3
<1>7. CASE UNCHANGED <<subbed, walk>>
  BY <1>7 DEF walk, Walked, Subscribed
<1>8. \/ \E n \in Nodes : NodeReply(n)
      \/ AggStart \/ AggSample \/ AggExit \/ AggIncrement
      \/ UNCHANGED <<subbed, walk>>
  BY DEF Next, Reflash, SensorController, TopologyReply, TopologySampler,
     TakeSemaphore, GatherStart, GatherDone, PostCheck, GatherFails, Builder,
     TakeSample, TakeIncrement, TakeCheck, FetchTimesOut, FetchConfig,
     FetchNodes, FetchTypes, vars, sensors
<1> QED
  BY <1>2, <1>3, <1>4, <1>5, <1>6, <1>7, <1>8

-----------------------------------------------------------------------------
(* The interval that is being counted at each place of the queue: from the *)
(* one the builder is at to the one the walk is at, one further after each *)
(* INCREMENT; and each aggregate is of the interval at its place.          *)
IsLevel(l) ==
  /\ l[1] = handled /\ l[Len(queue) + 1] = interval
  /\ \A i \in 1..Len(queue) :
       /\ l[i + 1] = IF queue[i].kind = "increment" THEN l[i] + 1 ELSE l[i]
       /\ queue[i].kind = "sample" => queue[i].data = l[i] + 1
  /\ \A i, j \in 1..(Len(queue) + 1) : i <= j => l[i] <= l[j]

(* Some such numbering of the queue exists. *)
Levels == \E l \in [1..(Len(queue) + 1) -> Nat] : IsLevel(l)

(* An empty queue is numbered. *)
LEMMA LevelsInit == Init => Levels
<1> SUFFICES ASSUME Init PROVE Levels
  OBVIOUS
<1>1. Len(queue) = 0 /\ handled = 0 /\ interval = 0
  BY EmptySeq DEF Init
<1> DEFINE l == [i \in 1..1 |-> 0]
<1>2. l \in [1..(Len(queue) + 1) -> Nat]
  BY <1>1
<1>3. IsLevel(l)
  BY <1>1 DEF IsLevel
<1> QED
  BY <1>2, <1>3 DEF Levels

(* A message is sent with the number of the interval under way. *)
LEMMA LevelsAppend ==
  ASSUME Typed, Levels, NEW m \in Messages, AddToQueue(m),
         handled' = handled,
         interval' = IF m.kind = "increment" THEN interval + 1 ELSE interval,
         m.kind = "sample" => m.data = interval + 1
  PROVE  Levels'
<1>1. queue \in Seq(Messages) /\ Len(queue) \in Nat /\ interval \in Nat
  BY LenProperties DEF Typed, QueueTyped, WalkTyped
<1>2. PICK l \in [1..(Len(queue) + 1) -> Nat] : IsLevel(l)
  BY DEF Levels
<1> DEFINE n == Len(queue)
           k == [i \in 1..(n + 2) |-> IF i <= n + 1 THEN l[i] ELSE interval']
<1>3. /\ Len(queue') = n + 1 /\ queue'[n + 1] = m
      /\ \A i \in 1..n : queue'[i] = queue[i]
  BY <1>1 DEF AddToQueue
<1>4. interval' \in Nat /\ interval <= interval'
  BY <1>1
<1>5. k \in [1..(Len(queue') + 1) -> Nat]
  BY <1>1, <1>3, <1>4
<1>6. /\ \A i \in 1..(n + 1) : k[i] = l[i]
      /\ k[n + 2] = interval'
      /\ l[n + 1] = interval
  BY <1>1, <1>2 DEF IsLevel
<1> HIDE DEF k
<1>7. \A i \in 1..(n + 1) :
        /\ k[i + 1] = IF queue'[i].kind = "increment" THEN k[i] + 1 ELSE k[i]
        /\ queue'[i].kind = "sample" => queue'[i].data = k[i] + 1
  <2> SUFFICES ASSUME NEW i \in 1..(n + 1)
               PROVE  /\ k[i + 1] = IF queue'[i].kind = "increment"
                                    THEN k[i] + 1 ELSE k[i]
                      /\ queue'[i].kind = "sample" => queue'[i].data = k[i] + 1
    OBVIOUS
  <2>1. CASE i = n + 1
    BY <1>1, <1>3, <1>6, <2>1
  <2>2. CASE i \in 1..n
    BY <1>1, <1>2, <1>3, <1>6, <2>2 DEF IsLevel
  <2>3. i = n + 1 \/ i \in 1..n
    BY <1>1
  <2> QED
    BY <2>1, <2>2, <2>3
<1>8. \A i, j \in 1..(n + 2) : i <= j => k[i] <= k[j]
  <2> SUFFICES ASSUME NEW i \in 1..(n + 2), NEW j \in 1..(n + 2), i <= j
               PROVE  k[i] <= k[j]
    OBVIOUS
  <2>1. CASE j <= n + 1
    BY <1>1, <1>2, <1>6, <2>1 DEF IsLevel
  <2>2. CASE j = n + 2 /\ i <= n + 1
    <3>1. l[i] <= interval /\ l[i] \in Nat
      BY <1>1, <1>2, <1>6, <2>2 DEF IsLevel
    <3> QED
      BY <1>1, <1>4, <1>6, <2>2, <3>1
  <2>3. CASE j = n + 2 /\ i = n + 2
    BY <1>4, <1>6, <2>3
  <2> QED
    BY <1>1, <2>1, <2>2, <2>3
<1>9. k[1] = handled'
  BY <1>1, <1>2, <1>6 DEF IsLevel
<1>10. \E e \in [1..(Len(queue') + 1) -> Nat] :
         /\ e[1] = handled' /\ e[Len(queue') + 1] = interval'
         /\ \A i \in 1..Len(queue') :
              /\ e[i + 1] = IF queue'[i].kind = "increment" THEN e[i] + 1 ELSE e[i]
              /\ queue'[i].kind = "sample" => queue'[i].data = e[i] + 1
         /\ \A i, j \in 1..(Len(queue') + 1) : i <= j => e[i] <= e[j]
  <2>1. Len(queue') + 1 = n + 2 /\ k[Len(queue') + 1] = interval'
    BY <1>1, <1>3, <1>6
  <2>2. \A i, j \in 1..(Len(queue') + 1) : i <= j => k[i] <= k[j]
    BY <1>8, <2>1
  <2> HIDE DEF n
  <2> WITNESS k \in [1..(Len(queue') + 1) -> Nat]
  <2> QED
    BY <1>3, <1>7, <1>9, <2>1, <2>2
<1> QED
  BY <1>10 DEF Levels, IsLevel

(* Taking a message takes its number. *)
LEMMA LevelsTake ==
  ASSUME Typed, Levels, NEW kind, Take(kind),
         interval' = interval,
         handled' = IF kind = "increment" THEN handled + 1 ELSE handled
  PROVE  Levels'
<1>1. /\ Len(queue) \in Nat \ {0} /\ queue[1].kind = kind
      /\ Len(queue') = Len(queue) - 1
      /\ \A i \in 1..Len(queue') : queue'[i] = queue[i + 1]
  BY QueueTaken DEF Typed
<1>2. PICK l \in [1..(Len(queue) + 1) -> Nat] : IsLevel(l)
  BY DEF Levels
<1> DEFINE n == Len(queue')
           k == [i \in 1..(n + 1) |-> l[i + 1]]
<1>3. n \in Nat /\ Len(queue) = n + 1
  BY <1>1
<1>4. k \in [1..(n + 1) -> Nat]
  BY <1>3
<1>5. \A i \in 1..(n + 1) : k[i] = l[i + 1]
  OBVIOUS
<1> HIDE DEF k
<1>6. k[1] = handled' /\ k[n + 1] = interval'
  <2>1. k[1] = l[2] /\ k[n + 1] = l[n + 2]
    BY <1>3, <1>5
  <2>2. l[1 + 1] = IF queue[1].kind = "increment" THEN l[1] + 1 ELSE l[1]
    <3>1. 1 \in 1..Len(queue)
      BY <1>1
    <3> QED
      BY <1>2, <3>1 DEF IsLevel
  <2> QED
    BY <1>1, <1>2, <1>3, <2>1, <2>2 DEF IsLevel
<1>7. \A i \in 1..n :
        /\ k[i + 1] = IF queue'[i].kind = "increment" THEN k[i] + 1 ELSE k[i]
        /\ queue'[i].kind = "sample" => queue'[i].data = k[i] + 1
  <2> SUFFICES ASSUME NEW i \in 1..n
               PROVE  /\ k[i + 1] = IF queue'[i].kind = "increment"
                                    THEN k[i] + 1 ELSE k[i]
                      /\ queue'[i].kind = "sample" => queue'[i].data = k[i] + 1
    OBVIOUS
  <2>1. /\ i \in 1..(n + 1) /\ i + 1 \in 1..(n + 1) /\ i + 1 \in 1..Len(queue)
        /\ queue'[i] = queue[i + 1]
    BY <1>1, <1>3
  <2>2. k[i] = l[i + 1] /\ k[i + 1] = l[(i + 1) + 1]
    BY <1>5, <2>1
  <2> QED
    BY <1>2, <2>1, <2>2 DEF IsLevel
<1>8. \A i, j \in 1..(n + 1) : i <= j => k[i] <= k[j]
  BY <1>2, <1>3, <1>5 DEF IsLevel
<1> QED
  BY <1>4, <1>6, <1>7, <1>8 DEF Levels, IsLevel

(* The numbering, step by step. *)
LEMMA LevelsStep ==
  ASSUME Typed, Levels, [Next]_vars
  PROVE  Levels'
<1>1. CASE AggSample
  <2> DEFINE m == [kind |-> "sample", node |-> subbed[at][1], data |-> interval + 1]
  <2>1. subbed[at] \in Nodes \X Types
    BY <1>1, LenProperties, ElementOfSeq DEF AggSample, Typed, SensorsTyped, WalkTyped
  <2>2. m \in Messages /\ m.kind = "sample" /\ m.data = interval + 1
    BY <2>1 DEF Messages, Typed, WalkTyped
  <2>3. AddToQueue(m) /\ handled' = handled /\ interval' = interval
    BY <1>1 DEF AggSample, data
  <2> HIDE DEF m
  <2> QED
    BY <2>2, <2>3, LevelsAppend
<1>2. CASE AggIncrement
  <2> DEFINE m == [kind |-> "increment"]
  <2>1. m \in Messages /\ m.kind = "increment"
    BY DEF Messages
  <2>2. AddToQueue(m) /\ handled' = handled /\ interval' = interval + 1
    BY <1>2 DEF AggIncrement, data
  <2> HIDE DEF m
  <2> QED
    BY <2>1, <2>2, LevelsAppend
<1>3. CASE PostCheck
  <2> DEFINE m == [kind |-> "check"]
  <2>1. m \in Messages /\ m.kind = "check"
    BY DEF Messages
  <2>2. AddToQueue(m) /\ handled' = handled /\ interval' = interval
    BY <1>3 DEF PostCheck, walk, data
  <2> HIDE DEF m
  <2> QED
    BY <2>1, <2>2, LevelsAppend
<1>4. CASE TakeSample \/ TakeCheck
  BY <1>4, LevelsTake DEF TakeSample, TakeCheck, walk, data
<1>5. CASE TakeIncrement
  BY <1>5, LevelsTake DEF TakeIncrement, walk
<1>6. CASE UNCHANGED <<queue, handled, interval>>
  BY <1>6 DEF Levels, IsLevel
<1>7. \/ AggSample \/ AggIncrement \/ PostCheck
      \/ TakeSample \/ TakeCheck \/ TakeIncrement
      \/ UNCHANGED <<queue, handled, interval>>
  BY DEF Next, NodeReply, Reflash, AggStart, SensorController, AggExit,
     TopologyReply, TopologySampler, TakeSemaphore, GatherStart, GatherDone,
     GatherFails, Builder, FetchTimesOut, FetchConfig, FetchNodes, FetchTypes,
     vars, walk, data
<1> QED
  BY <1>1, <1>2, <1>3, <1>4, <1>5, <1>6, <1>7

(* What the levels say about the aggregates on their way. *)
LEMMA OnTheWay ==
  ASSUME Typed, Levels
  PROVE  /\ handled <= interval
         /\ \A i \in 1..Len(queue) : queue[i].kind = "sample" =>
              /\ handled + 1 <= queue[i].data /\ queue[i].data <= interval + 1
              /\ i = 1 => queue[i].data = handled + 1
         /\ Len(queue) > 0 /\ queue[1].kind = "increment" =>
              /\ handled + 1 <= interval
              /\ \A i \in 1..Len(queue) :
                   queue[i].kind = "sample" => handled + 2 <= queue[i].data
<1>1. Len(queue) \in Nat /\ interval \in Nat /\ handled \in Nat
  BY LenProperties DEF Typed, QueueTyped, WalkTyped, SlotsTyped
<1>2. PICK l \in [1..(Len(queue) + 1) -> Nat] : IsLevel(l)
  BY DEF Levels
<1>3. \A i \in 1..(Len(queue) + 1) : handled <= l[i] /\ l[i] <= interval
  BY <1>1, <1>2 DEF IsLevel
<1>4. handled <= interval
  BY <1>1, <1>2, <1>3
<1>5. \A i \in 1..Len(queue) : queue[i].kind = "sample" =>
        queue[i].data = l[i] + 1 /\ (i = 1 => l[i] = handled)
  BY <1>2 DEF IsLevel
<1>6. Len(queue) > 0 /\ queue[1].kind = "increment" =>
        \A i \in 2..(Len(queue) + 1) : handled + 1 <= l[i]
  BY <1>1, <1>2 DEF IsLevel
<1>7. ASSUME Len(queue) > 0, queue[1].kind = "increment"
      PROVE  /\ handled + 1 <= interval
             /\ \A i \in 1..Len(queue) :
                  queue[i].kind = "sample" => handled + 2 <= queue[i].data
  <2>1. handled + 1 <= interval
    BY <1>1, <1>2, <1>6, <1>7 DEF IsLevel
  <2>2. ASSUME NEW i \in 1..Len(queue), queue[i].kind = "sample"
        PROVE  handled + 2 <= queue[i].data
    <3>1. i \in 2..(Len(queue) + 1) /\ l[i] \in Nat
      BY <1>1, <1>2, <1>7, <2>2
    <3> QED
      BY <1>1, <1>5, <1>6, <1>7, <2>2, <3>1
  <2> QED
    BY <2>1, <2>2
<1>8. ASSUME NEW i \in 1..Len(queue), queue[i].kind = "sample"
      PROVE  /\ handled + 1 <= queue[i].data /\ queue[i].data <= interval + 1
             /\ i = 1 => queue[i].data = handled + 1
  <2>1. i \in 1..(Len(queue) + 1) /\ l[i] \in Nat
    BY <1>1, <1>2
  <2> QED
    BY <1>1, <1>3, <1>5, <1>8, <2>1
<1> QED
  BY <1>4, <1>7, <1>8

-----------------------------------------------------------------------------
(* The message at i is node n's aggregate of interval k. *)
IsSample(i, n, k) == queue[i].kind = "sample" /\ queue[i].node = n /\ queue[i].data = k

(* Node n's aggregate of interval k is in the queue. *)
Pending(n, k) == \E i \in 1..Len(queue) : IsSample(i, n, k)

(* Two messages with the same aggregate. *)
SameSample(a, b) ==
  a.kind = "sample" /\ b.kind = "sample" /\ a.node = b.node /\ a.data = b.data

(* No aggregate is in the queue twice. *)
OneCopy == \A i, j \in 1..Len(queue) : SameSample(queue[i], queue[j]) => i = j

(* The walk has sent the aggregate of interval k.                          *)
Sent(n, k) ==
  /\ first[n] # 0 /\ first[n] <= k
  /\ k <= interval \/ (k = interval + 1 /\ Walked(n))

(* The element of the node already has the interval that is counted next.  *)
Taken(n) == Len(slots[n]) = counter + 1

(* What was sent and is not counted yet is pending, or taken, but not both;*)
(* and the element has the slots of the intervals before.                  *)
NodeAccount(n) ==
  /\ \A k \in Nat : k > handled =>
       (Sent(n, k) <=> Pending(n, k) \/ (k = handled + 1 /\ Taken(n)))
  /\ ~(Pending(n, handled + 1) /\ Taken(n))
  /\ ~Taken(n) =>
       Len(slots[n]) = IF first[n] # 0 /\ first[n] <= handled THEN counter ELSE 0
  /\ \A j \in 1..Len(slots[n]) : slots[n][j] = Expected(n, handled - counter + j)

(* The accounts of all nodes, while there are reports. *)
Accounts == samplesPerReport > 0 => OneCopy /\ \A n \in Nodes : NodeAccount(n)

(* Messages that are not samples do not matter to what is pending. *)
LEMMA AppendOther ==
  ASSUME Typed, OneCopy, NEW m \in Messages, m.kind # "sample", AddToQueue(m)
  PROVE  OneCopy' /\ \A n, k : Pending(n, k)' <=> Pending(n, k)
<1>1. queue \in Seq(Messages) /\ Len(queue) \in Nat
  BY LenProperties DEF Typed, QueueTyped
<1>2. /\ Len(queue') = Len(queue) + 1 /\ queue'[Len(queue) + 1] = m
      /\ \A i \in 1..Len(queue) : queue'[i] = queue[i]
  BY <1>1 DEF AddToQueue
<1>3. \A i \in 1..Len(queue') : i \in 1..Len(queue) \/ i = Len(queue) + 1
  BY <1>1, <1>2
<1>4. \A i \in 1..Len(queue) : i \in 1..Len(queue')
  BY <1>1, <1>2
<1>5. OneCopy'
  <2>1. \A i \in 1..Len(queue') : queue'[i].kind = "sample" =>
          i \in 1..Len(queue) /\ queue'[i] = queue[i]
    BY <1>2, <1>3
  <2> SUFFICES ASSUME NEW i \in 1..Len(queue'), NEW j \in 1..Len(queue'),
                      SameSample(queue'[i], queue'[j])
               PROVE  i = j
    BY DEF OneCopy
  <2> QED
    BY <2>1 DEF OneCopy, SameSample
<1>6. \A n, k : Pending(n, k)' <=> Pending(n, k)
  BY <1>2, <1>3, <1>4 DEF Pending, IsSample
<1> QED
  BY <1>5, <1>6

(* Taking such a message does not either. *)
LEMMA TakeOther ==
  ASSUME Typed, OneCopy, NEW kind, kind # "sample", Take(kind)
  PROVE  OneCopy' /\ \A n, k : Pending(n, k)' <=> Pending(n, k)
<1>1. /\ Len(queue) \in Nat \ {0} /\ queue[1].kind = kind
      /\ Len(queue') = Len(queue) - 1
      /\ \A i \in 1..Len(queue') : queue'[i] = queue[i + 1]
  BY QueueTaken DEF Typed
<1>2. \A i \in 1..Len(queue') : i + 1 \in 1..Len(queue)
  BY <1>1
<1>3. OneCopy'
  BY <1>1, <1>2 DEF OneCopy
<1>4. ASSUME NEW n, NEW k
      PROVE  Pending(n, k)' <=> Pending(n, k)
  <2>1. ASSUME NEW i \in 1..Len(queue), IsSample(i, n, k)
        PROVE  Pending(n, k)'
    <3>1. i - 1 \in 1..Len(queue') /\ (i - 1) + 1 = i
      BY <1>1, <2>1 DEF IsSample
    <3>2. queue'[i - 1] = queue[i]
      BY <1>1, <3>1
    <3> QED
      BY <2>1, <3>1, <3>2 DEF Pending, IsSample
  <2>2. ASSUME NEW i \in 1..Len(queue'), IsSample(i, n, k)'
        PROVE  Pending(n, k)
    BY <1>1, <1>2, <2>2 DEF Pending, IsSample
  <2> QED
    BY <2>1, <2>2 DEF Pending
<1> QED
  BY <1>3, <1>4

(* The account of a node depends on these alone. *)
LEMMA Unaccounted ==
  ASSUME Accounts, Typed,
         UNCHANGED <<samplesPerReport, first, handled, counter, slots>>,
         samplesPerReport > 0 => OneCopy',
         samplesPerReport > 0 =>
           \A n \in Nodes, k \in Nat : /\ Pending(n, k)' <=> Pending(n, k)
                                       /\ Sent(n, k)' <=> Sent(n, k)
  PROVE  Accounts'
<1> SUFFICES ASSUME samplesPerReport > 0, NEW n \in Nodes
             PROVE  OneCopy' /\ NodeAccount(n)'
  BY DEF Accounts
<1>1. NodeAccount(n)
  BY DEF Accounts
<1>2. handled \in Nat /\ handled + 1 \in Nat
  BY DEF Typed, SlotsTyped
<1>3. Taken(n)' <=> Taken(n)
  BY DEF Taken
<1>4. \A k : Expected(n, k)' = Expected(n, k)
  BY DEF Expected
<1> QED
  BY <1>1, <1>2, <1>3, <1>4 DEF NodeAccount

(* A node that is walked past sends one aggregate, which it had not sent.  *)
LEMMA SampleSent ==
  ASSUME Typed, OncePerNode, WalkCovers, Levels, Accounts, AggSample
  PROVE  Accounts'
<1> SUFFICES ASSUME samplesPerReport > 0
             PROVE  OneCopy' /\ \A n \in Nodes : NodeAccount(n)'
  BY DEF AggSample, settings, Accounts
<1>1. /\ subbed \in Seq(Nodes \X Types) /\ Len(subbed) \in Nat
      /\ DOMAIN subbed = 1..Len(subbed)
      /\ at \in 1..Len(subbed) /\ interval \in Nat /\ first \in [Nodes -> Nat]
      /\ queue \in Seq(Messages) /\ Len(queue) \in Nat
      /\ handled \in Nat /\ counter \in Nat
      /\ handled <= interval
  BY LenProperties, OnTheWay
  DEF Typed, SensorsTyped, WalkTyped, QueueTyped, SlotsTyped, AggSample
<1>2. PICK n \in Nodes : n = subbed[at][1]
  BY <1>1, ElementOfSeq
<1> DEFINE m == [kind |-> "sample", node |-> n, data |-> interval + 1]
<1>3. /\ UNCHANGED <<subbed, interval, samplesPerReport, handled, counter, slots>>
      /\ at' = at + 1 /\ queue' = Append(queue, m)
      /\ first' = [first EXCEPT ![n] = IF @ = 0 THEN interval + 1 ELSE @]
  BY <1>2 DEF AggSample, AddToQueue, sensors, settings, data
<1>4. OneCopy /\ \A x \in Nodes : NodeAccount(x)
  BY DEF Accounts
<1>5. ~Walked(n)
  BY <1>1, <1>2 DEF Walked, OncePerNode
<1>6. \A x \in Nodes : Walked(x)' <=> (Walked(x) \/ x = n)
  <2>1. at' - 1 = at /\ at \in 1..at
    BY <1>1, <1>3
  <2>2. \A p \in 1..at : p \in 1..(at - 1) \/ p = at
    BY <1>1
  <2>3. \A p \in 1..(at - 1) : p \in 1..at
    BY <1>1
  <2> QED
    BY <1>2, <1>3, <2>1, <2>2, <2>3 DEF Walked
<1>7. /\ Len(queue') = Len(queue) + 1 /\ queue'[Len(queue) + 1] = m
      /\ \A i \in 1..Len(queue) : queue'[i] = queue[i]
  <2>1. m \in Messages
    BY <1>1, <1>2 DEF Messages
  <2> HIDE DEF m
  <2> QED
    BY <1>1, <1>3, <2>1
<1>8. /\ \A i \in 1..Len(queue') : i \in 1..Len(queue) \/ i = Len(queue) + 1
      /\ \A i \in 1..Len(queue) : i \in 1..Len(queue')
      /\ Len(queue) + 1 \in 1..Len(queue')
  BY <1>1, <1>7
<1>9. /\ m.kind = "sample" /\ m.node = n /\ m.data = interval + 1
  OBVIOUS
<1> HIDE DEF m
<1>10. \A x, k : Pending(x, k)' <=> (Pending(x, k) \/ (x = n /\ k = interval + 1))
  BY <1>7, <1>8, <1>9 DEF Pending, IsSample
<1>11. ~Sent(n, interval + 1)
  BY <1>1, <1>5 DEF Sent
<1>12. ~Pending(n, interval + 1) /\ (handled = interval => ~Taken(n))
  BY <1>1, <1>2, <1>4, <1>11 DEF NodeAccount
<1>13. OneCopy'
  BY <1>4, <1>7, <1>8, <1>9, <1>12 DEF OneCopy, SameSample, Pending, IsSample
<1>14. /\ \A x \in Nodes : x # n => first'[x] = first[x]
       /\ first'[n] = IF first[n] = 0 THEN interval + 1 ELSE first[n]
  BY <1>1, <1>2, <1>3
<1>15. first[n] <= interval
  BY <1>1, <1>2, <1>5 DEF WalkCovers
<1>16. \A x \in Nodes, k \in Nat :
         Sent(x, k)' <=> (Sent(x, k) \/ (x = n /\ k = interval + 1))
  <2> SUFFICES ASSUME NEW x \in Nodes, NEW k \in Nat
               PROVE  Sent(x, k)' <=> (Sent(x, k) \/ (x = n /\ k = interval + 1))
    OBVIOUS
  <2>1. CASE x # n
    BY <1>3, <1>6, <1>14, <2>1 DEF Sent
  <2>2. CASE x = n
    <3>1. first[n] \in Nat /\ first'[n] \in Nat /\ first'[n] # 0
          /\ first'[n] <= interval + 1
      BY <1>1, <1>2, <1>14, <1>15
    <3>2. Sent(n, k)' <=> (first'[n] <= k /\ (k <= interval \/ k = interval + 1))
      BY <1>2, <1>3, <1>6, <3>1 DEF Sent
    <3>3. Sent(n, k) <=> (first[n] # 0 /\ first[n] <= k /\ k <= interval)
      BY <1>5 DEF Sent
    <3> QED
      BY <1>1, <1>14, <1>15, <2>2, <3>1, <3>2, <3>3
  <2> QED
    BY <2>1, <2>2
<1>17. ASSUME NEW x \in Nodes
       PROVE  NodeAccount(x)'
  <2>1. NodeAccount(x) /\ first[x] \in Nat /\ (Taken(x)' <=> Taken(x))
    BY <1>1, <1>3, <1>4 DEF Taken
  <2>2. \A k \in Nat : k > handled =>
          (Sent(x, k)' <=> Pending(x, k)' \/ (k = handled + 1 /\ Taken(x)))
    BY <1>10, <1>16, <2>1 DEF NodeAccount
  <2>3. ~(Pending(x, handled + 1)' /\ Taken(x))
    BY <1>1, <1>3, <1>10, <1>12, <2>1 DEF NodeAccount
  <2>4. (first'[x] # 0 /\ first'[x] <= handled) <=> (first[x] # 0 /\ first[x] <= handled)
    BY <1>1, <1>2, <1>14
  <2>5. ASSUME NEW j \in 1..Len(slots[x])
        PROVE  Expected(x, handled - counter + j)' = Expected(x, handled - counter + j)
    <3>1. CASE first[x] # 0
      BY <1>3, <1>14, <3>1 DEF Expected
    <3>2. CASE first[x] = 0
      <4>1. ~Taken(x)
        BY <1>1, <2>1, <3>2 DEF NodeAccount, Sent
      <4> QED
        BY <1>1, <2>1, <2>5, <3>2, <4>1 DEF NodeAccount
    <3> QED
      BY <3>1, <3>2
  <2> QED
    BY <1>3, <2>1, <2>2, <2>3, <2>4, <2>5 DEF NodeAccount
<1> QED
  BY <1>13, <1>17

(* The end of a walk: all nodes have sent, and the interval is complete.   *)
LEMMA IntervalEnds ==
  ASSUME Typed, WalkCovers, Levels, Accounts, AggIncrement
  PROVE  Accounts'
<1> DEFINE m == [kind |-> "increment"]
<1>1. /\ interval \in Nat /\ first \in [Nodes -> Nat] /\ at \in Nat
  BY DEF Typed, WalkTyped
<1>2. /\ m \in Messages /\ m.kind # "sample" /\ AddToQueue(m)
      /\ UNCHANGED <<samplesPerReport, subbed, first, handled, counter, slots>>
      /\ interval' = interval + 1 /\ at' = 1 /\ agg = "increment"
  BY DEF Messages, AggIncrement, sensors, settings, data
<1> HIDE DEF m
<1>3. samplesPerReport > 0 =>
        OneCopy' /\ \A n, k : Pending(n, k)' <=> Pending(n, k)
  BY <1>2, AppendOther DEF Accounts
<1>4. ASSUME NEW n \in Nodes, NEW k \in Nat
      PROVE  Sent(n, k)' <=> Sent(n, k)
  <2>1. ~Walked(n)'
    BY <1>2 DEF Walked
  <2>2. Sent(n, k)' <=> (first[n] # 0 /\ first[n] <= k /\ k <= interval + 1)
    BY <1>2, <2>1 DEF Sent
  <2>3. first[n] # 0 => Walked(n)
    BY <1>2 DEF WalkCovers
  <2> QED
    BY <1>1, <2>2, <2>3 DEF Sent
<1> QED
  BY <1>2, <1>3, <1>4, Unaccounted

(* The builder takes an aggregate: that of the interval it counts next,    *)
(* for a node that does not have it yet.                                   *)
LEMMA SampleTaken ==
  ASSUME Typed, Levels, Accounts, TakeSample
  PROVE  Accounts'
<1> SUFFICES ASSUME samplesPerReport > 0
             PROVE  OneCopy' /\ \A n \in Nodes : NodeAccount(n)'
  BY DEF TakeSample, settings, Accounts
<1>1. /\ Len(queue) \in Nat \ {0} /\ queue[1] \in Messages
      /\ queue[1].kind = "sample" /\ Head(queue) = queue[1]
      /\ Len(queue') = Len(queue) - 1
      /\ \A i \in 1..Len(queue') : queue'[i] = queue[i + 1]
  BY QueueTaken DEF TakeSample, Typed
<1>2. /\ handled \in Nat /\ counter \in Nat /\ slots \in [Nodes -> Seq(Data)]
      /\ first \in [Nodes -> Nat]
  BY DEF Typed, SlotsTyped, WalkTyped
<1>3. queue[1].data = handled + 1
  BY <1>1, OnTheWay
<1>4. PICK n \in Nodes : n = queue[1].node
  BY <1>1 DEF Messages
<1>5. /\ UNCHANGED <<subbed, at, first, interval, handled, counter>>
      /\ slots' = [slots EXCEPT ![n] = AddSample(@, counter, handled + 1)]
  BY <1>1, <1>3, <1>4 DEF TakeSample, AddToElement, sensors, walk
<1>6. OneCopy /\ \A x \in Nodes : NodeAccount(x)
  BY DEF Accounts
<1>7. IsSample(1, n, handled + 1) /\ 1 \in 1..Len(queue)
  BY <1>1, <1>3, <1>4 DEF IsSample
<1>8. /\ \A i \in 1..Len(queue') : i + 1 \in 2..Len(queue) /\ i + 1 \in 1..Len(queue)
      /\ \A i \in 2..Len(queue) : i - 1 \in 1..Len(queue') /\ (i - 1) + 1 = i
      /\ \A i \in 1..Len(queue) : i = 1 \/ i \in 2..Len(queue)
  BY <1>1
<1>9. OneCopy'
  <2> SUFFICES ASSUME NEW i \in 1..Len(queue'), NEW j \in 1..Len(queue'),
                      SameSample(queue'[i], queue'[j])
               PROVE  i = j
    BY DEF OneCopy
  <2>1. i + 1 = j + 1
    BY <1>1, <1>6, <1>8 DEF OneCopy
  <2> QED
    BY <2>1
<1>10. \A i \in 2..Len(queue) : ~IsSample(i, n, handled + 1)
  <2>1. \A i \in 2..Len(queue) : i # 1 /\ i \in 1..Len(queue)
    BY <1>1
  <2> QED
    BY <1>6, <1>7, <2>1 DEF OneCopy, SameSample, IsSample
<1>11. ASSUME NEW x, NEW k
       PROVE  Pending(x, k)' <=> (Pending(x, k) /\ ~(x = n /\ k = handled + 1))
  <2>1. ASSUME NEW i \in 2..Len(queue), IsSample(i, x, k)
        PROVE  Pending(x, k)'
    <3>1. queue'[i - 1] = queue[i]
      BY <1>1, <1>8
    <3> QED
      BY <1>8, <2>1, <3>1 DEF Pending, IsSample
  <2>2. ASSUME NEW i \in 1..Len(queue'), IsSample(i, x, k)'
        PROVE  Pending(x, k) /\ ~(x = n /\ k = handled + 1)
    <3>1. IsSample(i + 1, x, k)
      BY <1>1, <2>2 DEF IsSample
    <3> QED
      BY <1>8, <1>10, <3>1 DEF Pending
  <2>3. IsSample(1, x, k) => x = n /\ k = handled + 1
    BY <1>3, <1>4 DEF IsSample
  <2> QED
    BY <1>8, <2>1, <2>2, <2>3 DEF Pending
<1>12. /\ Sent(n, handled + 1) /\ ~Taken(n)
  BY <1>2, <1>6, <1>7 DEF NodeAccount, Pending
<1>13. \A x \in Nodes, k \in Nat : Sent(x, k)' <=> Sent(x, k)
  BY <1>5 DEF Sent, Walked
<1>14. \A x, k : Expected(x, k)' = Expected(x, k)
  BY <1>5 DEF Expected
<1>15. ASSUME NEW x \in Nodes, x # n
       PROVE  NodeAccount(x)'
  <2>1. NodeAccount(x) /\ slots'[x] = slots[x]
    BY <1>2, <1>5, <1>6, <1>15
  <2>2. Taken(x)' <=> Taken(x)
    BY <1>5, <2>1 DEF Taken
  <2> QED
    BY <1>2, <1>5, <1>11, <1>13, <1>14, <1>15, <2>1, <2>2 DEF NodeAccount
<1>16. NodeAccount(n)'
  <2> DEFINE s == slots[n]
             d == handled + 1
  <2>1. s \in Seq(Data) /\ Len(s) \in Nat /\ Len(s) <= counter /\ d \in Data
    <3>1. s \in Seq(Data) /\ Len(s) \in Nat
      BY <1>2, LenProperties
    <3>2. d \in Data
      BY <1>2 DEF Data
    <3> QED
      BY <1>2, <1>6, <1>12, <3>1, <3>2 DEF NodeAccount
  <2>2. slots'[n] = AddSample(s, counter, d)
    BY <1>2, <1>5
  <2> HIDE DEF d
  <2>3. /\ Len(slots'[n]) = counter + 1
        /\ \A j \in 1..(counter + 1) :
             slots'[n][j] = IF j <= Len(s) THEN s[j]
                            ELSE IF j <= counter THEN NaN ELSE d
    <3> HIDE DEF s
    <3>1. /\ Len(slots'[n]) = (IF Len(s) < counter THEN counter ELSE Len(s)) + 1
          /\ \A j \in 1..Len(slots'[n]) :
               slots'[n][j] = IF j <= Len(s) THEN s[j]
                              ELSE IF j <= counter THEN NaN ELSE d
      <4>1. Filled(slots'[n], s, counter, d)
        BY <1>2, <2>1, <2>2, AddSampleFills
      <4> QED
        BY <4>1 DEF Filled
    <3>2. (IF Len(s) < counter THEN counter ELSE Len(s)) = counter
      BY <1>2, <2>1
    <3> QED
      BY <3>1, <3>2
  <2>4. first[n] # 0 /\ first[n] <= handled + 1
    BY <1>12 DEF Sent
  <2>5. ASSUME NEW j \in 1..(counter + 1)
        PROVE  slots'[n][j] = Expected(n, handled - counter + j)
    <3>1. CASE j <= Len(s)
      <4>1. j \in 1..Len(s)
        BY <1>2, <2>1, <3>1
      <4> QED
        BY <1>6, <2>3, <3>1, <4>1 DEF NodeAccount
    <3>2. CASE j > Len(s) /\ j <= counter
      <4>1. ~(first[n] <= handled)
        BY <1>2, <1>6, <1>12, <2>1, <2>4, <3>2 DEF NodeAccount
      <4>2. ~(first[n] <= handled - counter + j)
        BY <1>2, <3>2, <4>1
      <4> QED
        BY <1>2, <2>1, <2>3, <3>2, <4>2 DEF Expected
    <3>3. CASE j = counter + 1
      <4>1. handled - counter + j = handled + 1
        BY <1>2, <3>3
      <4> QED
        BY <1>2, <2>1, <2>3, <2>4, <3>3, <4>1 DEF Expected, d
    <3>4. j <= Len(s) \/ (j > Len(s) /\ j <= counter) \/ j = counter + 1
      BY <1>2, <2>1
    <3> QED
      BY <3>1, <3>2, <3>3, <3>4
  <2>6. Taken(n)'
    BY <1>5, <2>3 DEF Taken
  <2>7. /\ handled' = handled /\ counter' = counter
        /\ ~Pending(n, handled + 1)'
    BY <1>5, <1>11
  <2>8. \A k \in Nat : k > handled =>
          (Sent(n, k)' <=> Pending(n, k)' \/ k = handled + 1)
    BY <1>2, <1>6, <1>11, <1>12, <1>13 DEF NodeAccount
  <2> QED
    BY <1>14, <2>3, <2>5, <2>6, <2>7, <2>8 DEF NodeAccount
<1> QED
  BY <1>9, <1>15, <1>16

(* When the builder counts an interval, each subscribed node's element has *)
(* it, and no aggregate of it is still on its way.                         *)
LEMMA AtIncrement ==
  ASSUME Typed, Levels, Accounts, samplesPerReport > 0, Take("increment"),
         NEW n \in Nodes
  PROVE  /\ ~Pending(n, handled + 1)
         /\ Taken(n) <=> first[n] # 0 /\ first[n] <= handled + 1
         /\ ~Taken(n) => Len(slots[n]) = 0
         /\ \A j \in 1..Len(slots[n]) :
              slots[n][j] = Expected(n, handled - counter + j)
<1>1. /\ Len(queue) \in Nat \ {0} /\ queue[1].kind = "increment"
      /\ queue \in Seq(Messages)
  BY QueueTaken DEF Typed, QueueTyped
<1>2. handled \in Nat /\ interval \in Nat /\ first[n] \in Nat
  BY DEF Typed, SlotsTyped, WalkTyped
<1>3. /\ handled + 1 <= interval
      /\ \A i \in 1..Len(queue) :
           queue[i].kind = "sample" => handled + 2 <= queue[i].data
  BY <1>1, OnTheWay
<1>4. ~Pending(n, handled + 1)
  <2> SUFFICES ASSUME NEW i \in 1..Len(queue), IsSample(i, n, handled + 1)
               PROVE  FALSE
    BY DEF Pending
  <2>1. queue[i].data = handled + 1 /\ handled + 2 <= queue[i].data
    BY <1>3 DEF IsSample
  <2> QED
    BY <1>2, <2>1
<1>5. NodeAccount(n)
  BY DEF Accounts
<1>6. Taken(n) <=> first[n] # 0 /\ first[n] <= handled + 1
  <2>1. Sent(n, handled + 1) <=> first[n] # 0 /\ first[n] <= handled + 1
    BY <1>2, <1>3 DEF Sent
  <2>2. handled + 1 \in Nat /\ handled + 1 > handled
    BY <1>2
  <2>3. Sent(n, handled + 1) <=> Taken(n)
    BY <1>4, <1>5, <2>2 DEF NodeAccount
  <2> QED
    BY <2>1, <2>3
<1> QED
  BY <1>2, <1>4, <1>5, <1>6 DEF NodeAccount

(* A counted interval is the last of the elements, which go on or go.      *)
LEMMA IntervalCounted ==
  ASSUME Typed, Levels, Accounts, TakeIncrement
  PROVE  Accounts'
<1>1. Take("increment") /\ UNCHANGED <<samplesPerReport, first, interval, at, subbed>>
      /\ handled' = handled + 1
  BY DEF TakeIncrement, settings, walk, sensors
<1> SUFFICES ASSUME samplesPerReport > 0
             PROVE  OneCopy' /\ \A n \in Nodes : NodeAccount(n)'
  BY <1>1 DEF Accounts
<1>3. OneCopy' /\ \A n, k : Pending(n, k)' <=> Pending(n, k)
  BY <1>1, TakeOther DEF Accounts
<1> SUFFICES ASSUME NEW n \in Nodes
             PROVE  NodeAccount(n)'
  BY <1>3
<1>2. /\ handled \in Nat /\ counter \in Nat /\ first[n] \in Nat
      /\ slots[n] \in Seq(Data) /\ Len(slots[n]) \in Nat
  BY LenProperties DEF Typed, SlotsTyped, WalkTyped
<1>4. NodeAccount(n)
  BY DEF Accounts
<1>5. /\ \A k \in Nat : Sent(n, k)' <=> Sent(n, k)
      /\ \A k : Expected(n, k)' = Expected(n, k)
  BY <1>1 DEF Sent, Walked, Expected
<1>6. \/ counter' = 0 /\ slots'[n] = <<>>
      \/ counter' = counter + 1 /\ slots' = slots
  BY DEF TakeIncrement, ClearPeriod
<1>7. /\ Taken(n) <=> first[n] # 0 /\ first[n] <= handled + 1
      /\ ~Taken(n) => Len(slots[n]) = 0
      /\ \A j \in 1..Len(slots[n]) :
           slots[n][j] = Expected(n, handled - counter + j)
  BY <1>1, AtIncrement
<1>8. ~Taken(n)'
  <2>1. CASE counter' = 0 /\ slots'[n] = <<>>
    BY <2>1 DEF Taken
  <2>2. CASE counter' = counter + 1 /\ slots' = slots
    BY <1>2, <1>7, <2>2 DEF Taken
  <2> QED
    BY <1>6, <2>1, <2>2
<1>9. \A k \in Nat : k > handled + 1 => (Sent(n, k)' <=> Pending(n, k)')
  BY <1>2, <1>3, <1>4, <1>5 DEF NodeAccount
<1>10. Len(slots'[n]) = IF first[n] # 0 /\ first[n] <= handled + 1 THEN counter' ELSE 0
  <2>1. CASE counter' = 0 /\ slots'[n] = <<>>
    BY <2>1
  <2>2. CASE counter' = counter + 1 /\ slots' = slots
    BY <1>7, <2>2 DEF Taken
  <2> QED
    BY <1>6, <2>1, <2>2
<1>11. ASSUME NEW j \in 1..Len(slots'[n])
       PROVE  slots'[n][j] = Expected(n, (handled + 1) - counter' + j)
  <2>1. CASE counter' = 0 /\ slots'[n] = <<>>
    BY <1>11, <2>1
  <2>2. CASE counter' = counter + 1 /\ slots' = slots
    <3>1. (handled + 1) - counter' + j = handled - counter + j
      BY <1>2, <2>2
    <3> QED
      BY <1>7, <2>2, <3>1
  <2> QED
    BY <1>6, <2>1, <2>2
<1> QED
  BY <1>1, <1>3, <1>5, <1>8, <1>9, <1>10, <1>11 DEF NodeAccount

(* The accounts, step by step. *)
LEMMA AccountsStep ==
  ASSUME Typed, OncePerNode, WalkCovers, Levels, Accounts, [Next]_vars
  PROVE  Accounts'
<1>1. CASE \E n \in Nodes : NodeReply(n)
  <2> PICK n \in Nodes : NodeReply(n)
    BY <1>1
  <2>1. UNCHANGED <<samplesPerReport, first, interval, handled, counter, slots, queue>>
    BY DEF NodeReply, walk, settings, data
  <2>2. \A m \in Nodes, k \in Nat :
          (Pending(m, k)' <=> Pending(m, k)) /\ (Sent(m, k)' <=> Sent(m, k))
    BY <2>1, WalkedKept DEF Pending, IsSample, Sent
  <2>3. OneCopy => OneCopy'
    BY <2>1 DEF OneCopy
  <2> QED
    BY <2>1, <2>2, <2>3, Unaccounted DEF Accounts
<1>2. CASE AggSample
  BY <1>2, SampleSent
<1>3. CASE AggIncrement
  BY <1>3, IntervalEnds
<1>4. CASE TakeSample
  BY <1>4, SampleTaken
<1>5. CASE TakeIncrement
  BY <1>5, IntervalCounted
<1>6. CASE UNCHANGED <<samplesPerReport, subbed, at, interval, first, handled, counter,
                       slots>>
           /\ (samplesPerReport > 0 =>
                 OneCopy' /\ \A n, k : Pending(n, k)' <=> Pending(n, k))
  <2>1. \A n \in Nodes, k \in Nat : Sent(n, k)' <=> Sent(n, k)
    BY <1>6 DEF Sent, Walked
  <2> QED
    BY <1>6, <2>1, Unaccounted
<1>7. CASE PostCheck
  <2> DEFINE m == [kind |-> "check"]
  <2>1. m \in Messages /\ m.kind # "sample"
    BY DEF Messages
  <2>2. AddToQueue(m)
    BY <1>7 DEF PostCheck
  <2> HIDE DEF m
  <2>3. samplesPerReport > 0 => OneCopy' /\ \A n, k : Pending(n, k)' <=> Pending(n, k)
    BY <2>1, <2>2, AppendOther DEF Accounts
  <2> QED
    BY <1>6, <1>7, <2>3 DEF PostCheck, sensors, walk, settings, data
<1>8. CASE TakeCheck
  <2>1. samplesPerReport > 0 => OneCopy' /\ \A n, k : Pending(n, k)' <=> Pending(n, k)
    BY <1>8, TakeOther DEF TakeCheck, Accounts
  <2> QED
    BY <1>6, <1>8, <2>1 DEF TakeCheck, sensors, walk, settings, data
<1>9. CASE UNCHANGED <<samplesPerReport, subbed, at, interval, first, handled, counter,
                       slots, queue>>
  BY <1>6, <1>9 DEF Accounts, OneCopy, Pending, IsSample
<1>10. CASE AggStart
  <2>1. at' = at
    BY <1>10 DEF AggStart, WalkCovers
  <2> QED
    BY <1>9, <1>10, <2>1 DEF AggStart, sensors, settings, data
<1>11. \/ \E n \in Nodes : NodeReply(n)
       \/ AggStart \/ AggSample \/ AggIncrement \/ PostCheck
       \/ TakeSample \/ TakeIncrement \/ TakeCheck
       \/ UNCHANGED <<samplesPerReport, subbed, at, interval, first, handled, counter,
                      slots, queue>>
  BY DEF Next, Reflash, SensorController, AggExit, TopologyReply, TopologySampler,
     TakeSemaphore, GatherStart, GatherDone, GatherFails, Builder,
     FetchTimesOut, FetchConfig, FetchNodes, FetchTypes, vars, sensors, walk,
     settings, data
<1> QED
  BY <1>1, <1>2, <1>3, <1>4, <1>5, <1>7, <1>8, <1>9, <1>10, <1>11

-----------------------------------------------------------------------------
(* A report, once built, keeps its meaning: what an interval contributes   *)
(* for a node is settled when the interval is counted.                     *)
ReportSettled ==
  HasSensors(report) =>
    /\ samplesPerReport > 0 /\ report.last \in Nat /\ report.last <= handled
    /\ \A i \in DOMAIN report.sensors :
         i <= Len(report.nodes) => report.nodes[i] \in Nodes

(* What an interval that is counted is expected to hold is settled. *)
LEMMA ExpectedSettled ==
  ASSUME Typed, Levels, [Next]_vars, NEW n \in Nodes, NEW k \in Int, k <= handled
  PROVE  Expected(n, k)' = Expected(n, k)
<1>1. first \in [Nodes -> Nat] /\ interval \in Nat /\ handled \in Nat
  BY DEF Typed, WalkTyped, SlotsTyped
<1>2. handled <= interval
  BY OnTheWay
<1>3. CASE UNCHANGED first
  BY <1>3 DEF Expected
<1>4. CASE AggSample
  <2>1. first'[n] = first[n] \/ (first[n] = 0 /\ first'[n] = interval + 1)
    BY <1>1, <1>4 DEF AggSample
  <2> QED
    BY <1>1, <1>2, <2>1 DEF Expected
<1>5. AggSample \/ UNCHANGED first
  BY DEF Next, NodeReply, Reflash, AggStart, SensorController, AggExit, AggIncrement,
     TopologyReply, TopologySampler, TakeSemaphore, GatherStart, GatherDone,
     PostCheck, GatherFails, Builder, TakeSample, TakeIncrement, TakeCheck,
     FetchTimesOut, FetchConfig, FetchNodes, FetchTypes, vars, walk
<1> QED
  BY <1>3, <1>4, <1>5

(* What a report of this period holds for the node at i of its list.       *)
Whole(i) ==
  [j \in 1..samplesPerReport |->
     IF i <= Len(nodeList)
     THEN Expected(nodeList[i], handled + 1 - samplesPerReport + j) ELSE NaN]

(* The samples a report takes from an element are whole. *)
LEMMA SensorDataWhole ==
  ASSUME Typed, Levels, Accounts, Take("increment"), samplesPerReport > 0,
         counter + 1 >= samplesPerReport, NEW i \in Opened
  PROVE  SensorData(i) = Whole(i)
<1>1. /\ samplesPerReport \in Nat /\ counter \in Nat /\ handled \in Nat
      /\ samplesPerReport = counter + 1 /\ handled + 1 - samplesPerReport = handled - counter
      /\ numNodes \in Nat /\ Len(nodeList) \in Nat /\ i \in 2..numNodes
  BY ReportBuilderAssumption, ListsAreLists DEF Typed, SlotsTyped, NetworkTyped, Opened
<1>2. i <= Len(nodeList) => nodeList[i] \in Nodes
  BY <1>1, ListsAreLists DEF Typed, NetworkTyped
<1>3. CASE i <= Len(nodeList) /\ slots[nodeList[i]] # <<>>
  <2> PICK n \in Nodes : n = nodeList[i]
    BY <1>2, <1>3
  <2>1. slots[n] \in Seq(Data) /\ Len(slots[n]) # 0 /\ Len(slots[n]) \in Nat
    BY <1>3, EmptySeq, LenProperties DEF Typed, SlotsTyped
  <2>2. Len(slots[n]) = counter + 1
        /\ \A j \in 1..Len(slots[n]) : slots[n][j] = Expected(n, handled - counter + j)
    BY <2>1, AtIncrement DEF Taken
  <2>3. slots[n] \in [1..samplesPerReport -> Data]
    BY <1>1, <2>1, <2>2, LenProperties
  <2> QED
    BY <1>1, <1>3, <2>2, <2>3 DEF SensorData, Whole
<1>4. CASE ~(i <= Len(nodeList) /\ slots[nodeList[i]] # <<>>)
  <2> PICK empty \in Seq(Data) : empty = <<>> /\ Len(empty) = 0
    BY EmptySeq
  <2>1. NaN \in Data
    BY DEF Data
  <2> DEFINE s == AddSample(empty, counter, NaN)
  <2>2. /\ s \in Seq(Data)
        /\ Len(s) = (IF Len(empty) < counter THEN counter ELSE Len(empty)) + 1
        /\ \A j \in 1..Len(s) : s[j] = IF j <= Len(empty) THEN empty[j]
                                       ELSE IF j <= counter THEN NaN ELSE NaN
    <3>1. Filled(s, empty, counter, NaN)
      BY <1>1, <2>1, AddSampleFills
    <3> HIDE DEF s
    <3> QED
      BY <3>1 DEF Filled
  <2>3. SensorData(i) = s
    BY <1>4 DEF SensorData
  <2> HIDE DEF s
  <2>4. Len(s) = samplesPerReport /\ \A j \in 1..samplesPerReport : s[j] = NaN
    BY <1>1, <2>1, <2>2
  <2>5. s \in [1..samplesPerReport -> Data]
    BY <2>2, <2>4, LenProperties
  <2>6. ASSUME NEW j \in 1..samplesPerReport, i <= Len(nodeList)
        PROVE  Expected(nodeList[i], handled - counter + j) = NaN
    <3> PICK n \in Nodes : n = nodeList[i]
      BY <1>2, <2>6
    <3>1. slots[n] = <<>>
      BY <1>4, <2>6
    <3>2. ~Taken(n) /\ first[n] \in Nat
      BY <1>1, <2>1, <3>1 DEF Taken, Typed, WalkTyped
    <3>3. ~(first[n] # 0 /\ first[n] <= handled + 1)
      BY <3>2, AtIncrement
    <3> QED
      BY <1>1, <3>2, <3>3 DEF Expected
  <2>7. \A j \in 1..samplesPerReport : s[j] = Whole(i)[j]
    BY <1>1, <2>4, <2>6 DEF Whole
  <2>8. Whole(i) = [j \in 1..samplesPerReport |-> Whole(i)[j]]
    BY DEF Whole
  <2>9. s = [j \in 1..samplesPerReport |-> s[j]]
    BY <2>5
  <2> QED
    BY <2>3, <2>7, <2>8, <2>9
<1> QED
  BY <1>3, <1>4

(* The report, step by step. *)
LEMMA ReportStep ==
  ASSUME Typed, Levels, Accounts, ReportSettled, ReportIsWhole, [Next]_vars
  PROVE  ReportSettled' /\ ReportIsWhole'
<1>1. handled \in Nat /\ samplesPerReport \in Nat
  BY ReportBuilderAssumption DEF Typed, SlotsTyped
<1>2. CASE UNCHANGED <<report, samplesPerReport>> /\ handled' \in {handled, handled + 1}
  <2> SUFFICES ASSUME HasSensors(report)
               PROVE  ReportSettled' /\ ReportIsWhole'
    BY <1>2 DEF ReportSettled, ReportIsWhole, HasSensors
  <2>1. /\ samplesPerReport > 0 /\ report.last \in Nat /\ report.last <= handled
        /\ \A i \in DOMAIN report.sensors :
             i <= Len(report.nodes) => report.nodes[i] \in Nodes
    BY DEF ReportSettled
  <2>2. ReportSettled'
    BY <1>1, <1>2, <2>1 DEF ReportSettled
  <2>3. ASSUME NEW i \in DOMAIN report.sensors
        PROVE  report.sensors[i] =
                 [j \in 1..samplesPerReport |->
                    IF i <= Len(report.nodes)
                    THEN Expected(report.nodes[i], report.last - samplesPerReport + j)'
                    ELSE NaN]
    <3>1. report.sensors[i] =
            [j \in 1..samplesPerReport |->
               IF i <= Len(report.nodes)
               THEN Expected(report.nodes[i], report.last - samplesPerReport + j)
               ELSE NaN]
      BY DEF ReportIsWhole
    <3>2. ASSUME NEW j \in 1..samplesPerReport, i <= Len(report.nodes)
          PROVE  Expected(report.nodes[i], report.last - samplesPerReport + j)' =
                 Expected(report.nodes[i], report.last - samplesPerReport + j)
      <4> PICK n \in Nodes : n = report.nodes[i]
        BY <2>1, <3>2
      <4> PICK k \in Int : k = report.last - samplesPerReport + j
        BY <1>1, <2>1
      <4>1. k <= handled
        BY <1>1, <2>1
      <4>2. Expected(n, k)' = Expected(n, k)
        BY <4>1, ExpectedSettled
      <4> QED
        BY <1>2, <4>2
    <3> QED
      BY <3>1, <3>2
  <2> QED
    BY <1>2, <2>2, <2>3 DEF ReportIsWhole
<1>3. CASE TakeIncrement /\ report' = NewReport /\ counter + 1 >= samplesPerReport
  <2> SUFFICES ASSUME HasSensors(report')
               PROVE  ReportSettled' /\ ReportIsWhole'
    BY DEF ReportSettled, ReportIsWhole, HasSensors
  <2>1. ~(samplesPerReport = 0 \/ ~transmit) /\ ~(numNodes <= 1 \/ NumSensors = 0)
    BY <1>3 DEF NewReport, HasSensors
  <2>2. /\ report'.sensors = [i \in Opened |-> SensorData(i)]
        /\ report'.nodes = nodeList /\ report'.last = handled + 1
    BY <1>3, <2>1 DEF NewReport
  <2>3. /\ samplesPerReport' = samplesPerReport /\ handled' = handled + 1
        /\ Take("increment") /\ samplesPerReport > 0
    BY <1>1, <1>3, <2>1 DEF TakeIncrement, settings
  <2>4. \A i \in Opened : i <= Len(nodeList) => nodeList[i] \in Nodes
    BY ListsAreLists DEF Opened, Typed, NetworkTyped
  <2>5. ReportSettled'
    BY <1>1, <2>2, <2>3, <2>4 DEF ReportSettled
  <2>6. ASSUME NEW i \in Opened
        PROVE  report'.sensors[i] = Whole(i)
    BY <1>3, <2>2, <2>3, SensorDataWhole
  <2>7. first' = first
    BY <1>3 DEF TakeIncrement, walk
  <2>8. ASSUME NEW i \in Opened, NEW j \in 1..samplesPerReport, i <= Len(nodeList)
        PROVE  Expected(report.nodes[i], report.last - samplesPerReport + j)' =
               Expected(nodeList[i], handled + 1 - samplesPerReport + j)
    <3> PICK n \in Nodes : n = nodeList[i]
      BY <2>4, <2>8
    <3> PICK k \in Int : k = handled + 1 - samplesPerReport + j
      BY <1>1
    <3>1. n = report'.nodes[i]
      BY <2>2
    <3>2. k = report'.last - samplesPerReport' + j
      BY <1>1, <2>2, <2>3
    <3>3. Expected(n, k)' = Expected(n, k)
      BY <2>7 DEF Expected
    <3> QED
      BY <3>1, <3>2, <3>3
  <2>10. ASSUME NEW i \in Opened
         PROVE  report'.sensors[i] =
                  [j \in 1..samplesPerReport |->
                     IF i <= Len(report'.nodes)
                     THEN Expected(report.nodes[i], report.last - samplesPerReport + j)'
                     ELSE NaN]
    <3>1. report'.sensors[i] =
            [j \in 1..samplesPerReport |->
               IF i <= Len(nodeList)
               THEN Expected(nodeList[i], handled + 1 - samplesPerReport + j) ELSE NaN]
      BY <2>6 DEF Whole
    <3> QED
      BY <2>2, <2>8, <3>1
  <2>9. DOMAIN report'.sensors = Opened
    BY <2>2
  <2> QED
    BY <2>3, <2>5, <2>9, <2>10 DEF ReportIsWhole
<1>4. \/ UNCHANGED <<report, samplesPerReport>> /\ handled' \in {handled, handled + 1}
      \/ TakeIncrement /\ report' = NewReport /\ counter + 1 >= samplesPerReport
  BY DEF Next, NodeReply, Reflash, AggStart, SensorController, AggSample, AggExit,
     AggIncrement, TopologyReply, TopologySampler, TakeSemaphore, GatherStart,
     GatherDone, PostCheck, GatherFails, Builder, TakeSample, TakeIncrement,
     TakeCheck, FetchTimesOut, FetchConfig, FetchNodes, FetchTypes, vars, data,
     settings
<1> QED
  BY <1>2, <1>3, <1>4

-----------------------------------------------------------------------------
(* With reports switched off no element is ever made. *)
SlotsOff == samplesPerReport = 0 => \A n \in Nodes : slots[n] = <<>>

(* The inductive invariant of the samples. *)
SampleInv ==
  /\ Typed /\ OncePerNode /\ WalkCovers /\ Levels /\ Accounts /\ SlotsOff
  /\ ReportSettled /\ ReportIsWhole

(* Nothing is subscribed, sent or reported at first. *)
LEMMA SampleInvInit == Init => SampleInv
<1> SUFFICES ASSUME Init PROVE SampleInv
  OBVIOUS
<1>1. Typed /\ Levels
  BY TypedInit, LevelsInit
<1>2. Len(subbed) = 0 /\ DOMAIN subbed = {} /\ Len(queue) = 0 /\ at = 1
  BY EmptySeq DEF Init
<1>3. \A n \in Nodes : first[n] = 0 /\ slots[n] = <<>> /\ Len(slots[n]) = 0
  BY EmptySeq DEF Init
<1>4. interval = 0 /\ handled = 0 /\ counter = 0 /\ agg = "idle"
  BY DEF Init
<1>5. OncePerNode
  BY <1>2 DEF OncePerNode
<1>6. WalkCovers
  BY <1>2, <1>3, <1>4 DEF WalkCovers, Walked
<1>7. ASSUME NEW n \in Nodes
      PROVE  NodeAccount(n)
  <2>1. \A k \in Nat : ~Sent(n, k) /\ ~Pending(n, k) /\ ~Taken(n)
    BY <1>2, <1>3, <1>4 DEF Sent, Pending, Taken
  <2> QED
    BY <1>3, <1>4, <2>1 DEF NodeAccount
<1>8. Accounts
  BY <1>2, <1>7 DEF Accounts, OneCopy
<1>9. SlotsOff
  BY <1>3 DEF SlotsOff
<1>10. ReportSettled /\ ReportIsWhole
  BY DEF Init, ReportSettled, ReportIsWhole, HasSensors, NoReport
<1> QED
  BY <1>1, <1>5, <1>6, <1>8, <1>9, <1>10 DEF SampleInv

(* Every step keeps it. *)
LEMMA SampleInvStep ==
  ASSUME OneSensorEach, SampleInv, [Next]_vars
  PROVE  SampleInv'
<1> USE DEF SampleInv
<1>1. SlotsOff'
  <2>1. CASE TakeSample
    BY <2>1 DEF TakeSample, SlotsOff, settings
  <2>2. CASE TakeIncrement
    BY <2>2 DEF TakeIncrement, ClearPeriod, SlotsOff, settings
  <2>3. CASE UNCHANGED <<slots, samplesPerReport>>
    BY <2>3 DEF SlotsOff
  <2> QED
    BY <2>1, <2>2, <2>3
    DEF Next, NodeReply, Reflash, AggStart, SensorController, AggSample, AggExit,
        AggIncrement, TopologyReply, TopologySampler, TakeSemaphore, GatherStart,
        GatherDone, PostCheck, GatherFails, Builder, TakeCheck, FetchTimesOut,
        FetchConfig, FetchNodes, FetchTypes, vars, data, settings
<1>2. Typed' /\ OncePerNode' /\ WalkCovers' /\ Levels' /\ Accounts'
  BY TypedStep, OncePerNodeStep, WalkStep, LevelsStep, AccountsStep
<1>3. ReportSettled' /\ ReportIsWhole'
  BY ReportStep
<1> QED
  BY <1>1, <1>2, <1>3

(* An element never holds more than the samples of one report.  The list   *)
(* of the builder has room for samplesPerReport samples, and               *)
(* addSampleToElement() does not look.                                     *)
THEOREM TypeCorrect ==
  ASSUME OneSensorEach
  PROVE  Spec => []TypeOK
<1>1. SampleInv => TypeOK
  <2> SUFFICES ASSUME SampleInv
               PROVE  TypeOK
    OBVIOUS
  <2>1. ASSUME NEW n \in Nodes
        PROVE  Len(slots[n]) <= samplesPerReport
    <3>1. /\ samplesPerReport \in Nat /\ counter \in Nat
          /\ counter = 0 \/ counter < samplesPerReport
      BY ReportBuilderAssumption DEF SampleInv, Typed, SlotsTyped
    <3>2. CASE samplesPerReport = 0
      BY <3>2, EmptySeq DEF SampleInv, SlotsOff
    <3>3. CASE samplesPerReport > 0
      <4>1. Len(slots[n]) \in {0, counter, counter + 1}
        BY <3>3 DEF SampleInv, Accounts, NodeAccount, Taken
      <4> QED
        BY <3>1, <3>3, <4>1
    <3> QED
      BY <3>1, <3>2, <3>3
  <2> QED
    BY <2>1 DEF SampleInv, Typed, SensorsTyped, WalkTyped, SamplerTyped,
       QueueTyped, NetworkTyped, SlotsTyped, TypeOK, Lists, AllTypes
<1> QED
  BY <1>1, SampleInvInit, SampleInvStep, PTL DEF Spec

(* The slot of an interval holds that interval's aggregate, or NaN for a   *)
(* node that was not subscribed yet, however far the queue lags.           *)
THEOREM SlotOfEachInterval ==
  ASSUME OneSensorEach
  PROVE  Spec => []SlotHoldsItsInterval
<1>1. SampleInv => SlotHoldsItsInterval
  <2> SUFFICES ASSUME SampleInv, NEW n \in Nodes, NEW j \in DOMAIN slots[n]
               PROVE  slots[n][j] = Expected(n, handled - counter + j)
    BY DEF SlotHoldsItsInterval
  <2>1. samplesPerReport \in Nat
    BY ReportBuilderAssumption DEF SampleInv, Typed, SlotsTyped
  <2>2. slots[n] \in Seq(Data) /\ DOMAIN slots[n] = 1..Len(slots[n])
    BY LenProperties DEF SampleInv, Typed, SlotsTyped
  <2>3. samplesPerReport > 0
    <3>1. slots[n] # <<>>
      BY <2>2, EmptySeq
    <3> QED
      BY <2>1, <3>1 DEF SampleInv, SlotsOff
  <2> QED
    BY <2>2, <2>3 DEF SampleInv, Accounts, NodeAccount
<1> QED
  BY <1>1, SampleInvInit, SampleInvStep, PTL DEF Spec

(* A report has for each of its nodes the samples of exactly the intervals *)
(* of its period.                                                          *)
THEOREM ReportsAreWhole ==
  ASSUME OneSensorEach
  PROVE  Spec => []ReportIsWhole
<1>1. SampleInv => ReportIsWhole
  BY DEF SampleInv
<1> QED
  BY <1>1, SampleInvInit, SampleInvStep, PTL DEF Spec
=============================================================================
