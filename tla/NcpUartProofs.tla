----------------------------- MODULE NcpUartProofs -----------------------------
(***************************************************************************)
(* Proofs for NcpUart, for any list of baud rates and any queues: the      *)
(* discovery finds a host that is there, bridge and host share a baud rate *)
(* from then on, no negotiation cuts a message, and the two receive        *)
(* buffers hand on whole packets in order.                                 *)
(* All for a host that answers in time and runs at most one packet ahead,  *)
(* as NcpUart has it.                                                      *)
(*                                                                         *)
(* The four depend on each other: the buffers hold only what both sides    *)
(* exchanged at one baud rate, and the baud rate is changed by what comes  *)
(* out of the buffers.  So they are parts of one inductive invariant, IInv *)
(* at the end, with a lemma for each part.                                 *)
(***************************************************************************)
EXTENDS NcpUart, SequenceTheorems, TLAPS

(* What the bridge queues, and what the host sends. *)
Items == {Data, [kind |-> "reply"], [kind |-> "request", baud |-> Target]}

Packets == [kind : {"data", "reply"}, n : 0..7]
             \union [kind : {"request"}, n : 0..7, baud : HostBauds]

(* An item on the line, with its baud rate. *)
Sendings == [item : Items, at : Bauds]

(* The types, in four parts: the negotiation and the discovery, ...        *)
SearchTyped ==
  /\ baud \in Bauds /\ requested \in Bauds \union {NoBaud}
  /\ event \in {"none", "request", "reply"} /\ timer \in BOOLEAN
  /\ phase \in {"try", "wait", "running"} /\ idx \in 0..Len(Acceptable)
  /\ found \in BOOLEAN /\ discovered \in BOOLEAN
  /\ event # "none" \/ timer => requested \in Bauds

(* ... the transmit task, ...                                              *)
SendTyped ==
  /\ txQueue \in Seq(Items) /\ held \in Items \union {NoPacket}
  /\ sending \in Sendings \union {NoPacket} /\ negotiating \in BOOLEAN

(* ... the receive task, ...                                               *)
ReceiveTyped ==
  /\ buffers \in [1..2 -> Packets \union {NoPacket}] /\ cur \in {0, 1}
  /\ pending \in {0, 1, Empty} /\ reading \in {0, 1, Empty}
  /\ processor \in Seq(Packets) /\ last \in 0..7

(* ... and the host.                                                       *)
HostTyped ==
  /\ hostBaud \in Bauds \union {NoBaud} /\ hostTx \in Packets \union {NoPacket}
  /\ number \in 0..7 /\ behind \in 0..2
  /\ owes \in {NoBaud, Target} /\ asked \in HostBauds \union {NoBaud}

Typed == SearchTyped /\ SendTyped /\ ReceiveTyped /\ HostTyped

(* The negotiating lock is with one of: nobody, the item that ncpTxTask    *)
(* holds, the item on the line, the timer of an unanswered request.        *)
LockInv ==
  /\ negotiating <=> held = NoPacket /\ sending = NoPacket /\ ~timer
  /\ held # NoPacket => sending = NoPacket
  /\ timer => held = NoPacket /\ sending = NoPacket

(* A queue without a message of a negotiation, or with only one. *)
IsData(s) == \A i \in DOMAIN s : s[i] = Data

OneMessage(s, k) ==
  \A i \in DOMAIN s : s[i] # Data =>
    s[i].kind = k /\ \A j \in DOMAIN s : s[j] # Data => i = j

(* No message of a negotiation is under way. *)
NoMessage ==
  /\ IsData(txQueue)
  /\ held # NoPacket => held = Data
  /\ sending # NoPacket => sending.item = Data

(* At most one message of a negotiation is under way.  It is of the kind   *)
(* that `event` says, and is sent at the baud rate of the bridge.          *)
MessageInv ==
  /\ OneMessage(txQueue, event)
  /\ held # NoPacket /\ held # Data => held.kind = event /\ IsData(txQueue)
  /\ sending # NoPacket /\ sending.item # Data =>
       sending.item.kind = event /\ sending.at = baud /\ IsData(txQueue)

(* The host's packets are all handled, or only one of kind k is not: it is *)
(* on the line, in a buffer, or with the processor.                        *)
Quiet == hostTx = NoPacket /\ behind = 0 /\ processor = <<>>
OnLine(k) == hostTx.kind = k /\ behind = 0 /\ processor = <<>>
InBuffer(k) ==
  hostTx = NoPacket /\ behind = 1 /\ buffers[2 - cur].kind = k /\ processor = <<>>
AtProcessor(k) ==
  /\ hostTx = NoPacket /\ behind = 0
  /\ processor # <<>> /\ Tail(processor) = <<>> /\ Head(processor).kind = k

(* No packet of kind k is under way. *)
Nowhere(k) ==
  /\ hostTx.kind # k
  /\ \A i \in 1..2 : buffers[i].kind # k
  /\ \A i \in DOMAIN processor : processor[i].kind # k

(* No old packet of kind k is left in a buffer. *)
OnlyThere(k) == \A i \in 1..2 : buffers[i].kind = k => InBuffer(k) /\ i = 2 - cur

(* ncpBaudRateDiscovery() waits at the baud rate it tries until the lock   *)
(* is given; only there does the bridge ask for a baud rate.               *)
DiscoveryInv ==
  /\ phase = "wait" => idx < Len(Acceptable)
  /\ phase = "wait" /\ ~found => baud = Acceptable[idx + 1]
  /\ event = "request" \/ timer =>
       phase = "wait" /\ ~found /\ ~discovered /\ requested = Target
  /\ timer => event = "none"
  /\ discovered => phase = "wait"

(* The host has agreed, and the bridge has yet to read so. *)
Answered == owes = NoBaud /\ (InBuffer("reply") \/ AtProcessor("reply"))

(* While the timer of a request runs, its answer is somewhere, or there    *)
(* will be none because the host has another baud rate.  A reply is never  *)
(* about otherwise, so that none is left over for a later negotiation.     *)
AnswerInv ==
  /\ owes # NoBaud => timer
  /\ timer => \/ owes = Target /\ baud = hostBaud /\ (Quiet \/ OnLine("reply"))
              \/ Answered /\ hostBaud = Target
              \/ owes = NoBaud /\ Quiet /\ hostBaud # baud
  /\ ~timer /\ ~found => Quiet
  /\ ~timer => Nowhere("reply")
  /\ OnlyThere("reply")

(* Until the host is found, its baud rate is one still to be tried, or the *)
(* one being tried, or the host has answered already.                      *)
SearchInv ==
  ~found /\ hostBaud # NoBaud =>
    /\ phase # "running"
    /\ \/ \E i \in 1..idx : hostBaud = Acceptable[i]
       \/ phase = "wait" /\ ~discovered /\ hostBaud = baud
       \/ Answered

(* Where a request of the host is: on its way to the processor, or being   *)
(* answered, or refused.                                                   *)
AskedAt ==
  \/ OnLine("request") /\ hostTx.baud = asked /\ NoMessage
  \/ InBuffer("request") /\ buffers[2 - cur].baud = asked /\ NoMessage
  \/ AtProcessor("request") /\ Head(processor).baud = asked /\ NoMessage
  \/ Quiet /\ event = "reply" /\ requested = asked
  \/ Quiet /\ NoMessage

(* The host's request is somewhere as long as the host waits for a reply,  *)
(* and a reply is sent for nothing else.  The event of a reply that a full *)
(* queue has dropped stays until the next request.                         *)
AskedInv ==
  /\ asked # NoBaud => AskedAt
  /\ asked = NoBaud => Nowhere("request") /\ (event = "reply" => NoMessage)
  /\ asked # NoBaud \/ event = "reply" => found /\ phase = "running"
  /\ OnlyThere("request")

(* Stronger than SameBaud: not even the timer is an exception. *)
AgreeInv == found => baud = hostBaud

(* The number of the next packet to arrive.  Packet p came k packets       *)
(* before that one, or k packets after the last one decoded.               *)
Came == (number + (IF hostTx = NoPacket THEN 0 ELSE 7)) % 8
Ago(p, k) == (p.n + k) % 8 = Came
After(p, k) == p.n = (last + k) % 8

(* Next in order, or next but one. *)
Follows(p) == After(p, 1) \/ After(p, 2)

(* The one buffer that the receive task is told of, or works on. *)
One(x) ==
  \/ pending = x /\ reading = Empty
  \/ pending = Empty /\ reading = x

(* Where the packets are that the task has not decoded, by their number:   *)
(* `behind`.  With two, either the task works on the older and is told of  *)
(* the newer, or its notification was overwritten and it will decode only  *)
(* buffer 0, older or newer.  Then the host waits, so that a packet is     *)
(* never written over one that is to be decoded.                           *)
ReceiveInv ==
  /\ hostTx # NoPacket => behind < 2 /\ (hostTx.n + 1) % 8 = number
  /\ behind = 0 =>
       /\ pending = Empty /\ reading = Empty
       /\ \/ Came = (last + 1) % 8
          \/ Came = (last + 2) % 8 /\ cur = 0
  /\ behind = 1 =>
       /\ One(1 - cur)
       /\ buffers[2 - cur] # NoPacket /\ Ago(buffers[2 - cur], 1)
       /\ \/ After(buffers[2 - cur], 1)
          \/ After(buffers[2 - cur], 2) /\ cur = 1
  /\ behind = 2 =>
       \/ /\ reading = cur /\ pending = 1 - cur
          /\ buffers[cur + 1] # NoPacket /\ Ago(buffers[cur + 1], 2)
          /\ buffers[2 - cur] # NoPacket /\ Ago(buffers[2 - cur], 1)
          /\ Follows(buffers[cur + 1])
       \/ /\ One(0)
          /\ buffers[1] # NoPacket
          /\ IF cur = 0 THEN Ago(buffers[1], 2) ELSE Ago(buffers[1], 1)
          /\ Follows(buffers[1])

(* What kinds tell of items and packets. *)
LEMMA Kinds ==
  /\ Data \in Items
  /\ \A m \in Items : /\ m # NoPacket /\ m.kind \in {"data", "request", "reply"}
                      /\ m.kind = "data" <=> m = Data
                      /\ m.kind = "request" => m.baud = Target
  /\ NoPacket.kind = "none"
  /\ \A p \in Packets : /\ p # NoPacket /\ p.kind \in {"data", "request", "reply"}
                        /\ p.n \in 0..7
                        /\ p.kind = "request" => p.baud \in HostBauds
  /\ \A s \in Sendings : /\ s # NoPacket /\ s.item \in Items /\ s.at \in Bauds
<1>1. /\ Data \in Items
      /\ \A m \in Items : /\ m # NoPacket /\ m.kind \in {"data", "request", "reply"}
                          /\ m.kind = "data" <=> m = Data
                          /\ m.kind = "request" => m.baud = Target
  BY DEF Items, Data, NoPacket
<1>2. NoPacket.kind = "none"
  BY DEF NoPacket
<1>3. \A p \in Packets : /\ p.kind \in {"data", "request", "reply"}
                         /\ p.n \in 0..7
                         /\ p.kind = "request" => p.baud \in HostBauds
  BY DEF Packets
<1>4. \A p \in Packets : p # NoPacket
  BY <1>2, <1>3
<1>5. \A s \in Sendings : /\ s # NoPacket /\ s.item \in Items /\ s.at \in Bauds
  <2>1. \A s \in Sendings : /\ s = [item |-> s.item, at |-> s.at]
                             /\ s.item \in Items /\ s.at \in Bauds
    BY DEF Sendings
  <2>2. DOMAIN NoPacket = {"kind"}
    BY DEF NoPacket
  <2>3. \A s \in Sendings : "item" \in DOMAIN s
    BY DEF Sendings
  <2> QED
    BY <2>1, <2>2, <2>3
<1> QED
  BY <1>1, <1>2, <1>3, <1>4, <1>5

(* The queue of items to send. *)
LEMMA QueuedIsQueue ==
  ASSUME NEW q \in Seq(Items), NEW m \in Items
  PROVE  /\ Queued(q, m) \in Seq(Items)
         /\ \/ Queued(q, m) = q
            \/ /\ DOMAIN Queued(q, m) = 1..(Len(q) + 1) /\ DOMAIN q = 1..Len(q)
               /\ Len(q) \in Nat
               /\ \A i \in 1..Len(q) : Queued(q, m)[i] = q[i]
               /\ Queued(q, m)[Len(q) + 1] = m
BY AppendProperties, LenProperties DEF Queued

(* The host puts a packet on the line, of any kind. *)
Starts(p) ==
  /\ HostStarts(p) /\ p.n = number /\ owes' = owes
  /\ \/ p.kind = "data" /\ phase = "running" /\ ~Open /\ asked' = asked
     \/ p.kind = "reply" /\ owes # NoBaud /\ asked' = asked
     \/ /\ p.kind = "request" /\ phase = "running" /\ ~Open /\ found
        /\ {pending, reading} = {Empty} /\ processor = <<>>
        /\ p.baud \in HostBauds /\ asked' = p.baud

(* Every step is one of the actions, with those of the host as one. *)
LEMMA Actions ==
  ASSUME HostTyped, [Next]_vars
  PROVE  \/ SendData \/ TryBaud \/ TakeDiscovered \/ DiscoveryOver \/ FallBack
         \/ TakeNegotiating \/ StartTx \/ RxTake \/ RxDecode \/ Process
         \/ EndTx \/ TimerExpires
         \/ (\E p \in Packets : Starts(p)) \/ HostGivesUp \/ HostEnds
         \/ UNCHANGED vars
<1>1. number \in 0..7
  BY DEF HostTyped
<1>2. CASE HostData
  <2>1. [kind |-> "data", n |-> number] \in Packets
    BY <1>1 DEF Packets
  <2> QED
    BY <1>2, <2>1 DEF HostData, Starts
<1>3. CASE HostReply
  <2>1. [kind |-> "reply", n |-> number] \in Packets
    BY <1>1 DEF Packets
  <2> QED
    BY <1>3, <2>1 DEF HostReply, Starts
<1>4. ASSUME NEW b \in HostBauds, HostRequest(b)
      PROVE  \E p \in Packets : Starts(p)
  <2>1. [kind |-> "request", n |-> number, baud |-> b] \in Packets
    BY <1>1 DEF Packets
  <2> QED
    BY <1>4, <2>1 DEF HostRequest, Starts
<1> QED
  BY <1>2, <1>3, <1>4 DEF Next, Bridge

(* A reply that the processor handles is one that the timer waits for. *)
LEMMA ReplyIsAwaited ==
  ASSUME ReceiveTyped, AnswerInv, Process, Head(processor).kind = "reply"
  PROVE  timer
<1>1. Head(processor) = processor[1] /\ 1 \in DOMAIN processor
  BY HeadTailProperties, LenProperties DEF Process, ReceiveTyped
<1> QED
  BY <1>1 DEF AnswerInv, Nowhere

-----------------------------------------------------------------------------
(* The types, in the initial states and from step to step. *)
LEMMA TypedInit == Init => Typed
<1> SUFFICES ASSUME Init PROVE Typed
  OBVIOUS
<1>1. Len(Acceptable) \in Nat
  BY NcpUartAssumption, LenProperties
<1>2. \A S : <<>> \in Seq(S)
  OBVIOUS
<1>3. <<NoPacket, NoPacket>> \in [1..2 -> Packets \union {NoPacket}]
  OBVIOUS
<1>4. SearchTyped
  <2>1. idx \in 0..Len(Acceptable)
    BY <1>1 DEF Init
  <2>2. event = "none" /\ ~timer
    BY DEF Init
  <2> QED
    BY <2>1, <2>2 DEF Init, SearchTyped
<1>5. SendTyped
  BY <1>2 DEF Init, SendTyped
<1>6. ReceiveTyped
  BY <1>2, <1>3 DEF Init, ReceiveTyped
<1>7. HostTyped
  BY DEF Init, HostTyped
<1> QED
  BY <1>4, <1>5, <1>6, <1>7 DEF Typed

(* The baud rate stays one of the acceptable ones. *)
LEMMA SearchTypedStep ==
  ASSUME SearchTyped, ReceiveTyped, HostTyped, AnswerInv, [Next]_vars
  PROVE  SearchTyped'
<1> USE DEF SearchTyped, nego, boot
<1>1. CASE UNCHANGED <<baud, nego, boot>>
  BY <1>1
<1>2. CASE TryBaud
  <2>1. Acceptable[idx] \in Bauds /\ idx - 1 \in 0..Len(Acceptable)
    BY <1>2, NcpUartAssumption, LenProperties DEF TryBaud, Bauds
  <2> QED
    BY <1>2, <2>1, NcpUartAssumption DEF TryBaud, Negotiate
<1>3. CASE TakeDiscovered
  BY <1>3 DEF TakeDiscovered
<1>9. CASE DiscoveryOver
  BY <1>9 DEF DiscoveryOver
<1>4. CASE FallBack
  BY <1>4, NcpUartAssumption DEF FallBack
<1>5. CASE Process
  <2>1. CASE Head(processor).kind = "data"
    BY <1>5, <2>1 DEF Process
  <2>2. CASE Head(processor).kind = "reply"
    <3>1. timer
      BY <1>5, <2>2, ReplyIsAwaited
    <3> QED
      BY <1>5, <2>2, <3>1 DEF Process, BaudReply
  <2>3. CASE Head(processor).kind = "request"
    BY <1>5, <2>3 DEF Process, BaudRequest
  <2> QED
    BY <1>5, <2>1, <2>2, <2>3 DEF Process
<1>6. CASE EndTx
  BY <1>6 DEF EndTx, PostTxEvent
<1>7. CASE TimerExpires
  BY <1>7 DEF TimerExpires
<1>8. \/ UNCHANGED <<baud, nego, boot>>
      \/ TryBaud \/ TakeDiscovered \/ DiscoveryOver \/ FallBack \/ Process \/ EndTx
      \/ TimerExpires
  BY Actions DEF SendData, TakeNegotiating, StartTx, RxTake, RxDecode, Starts, HostStarts,
     HostGivesUp, HostEnds, vars
<1> QED
  BY <1>1, <1>2, <1>3, <1>4, <1>5, <1>6, <1>7, <1>8, <1>9

(* Only items are queued and sent. *)
LEMMA SendTypedStep ==
  ASSUME SearchTyped, SendTyped, HostTyped, [Next]_vars
  PROVE  SendTyped'
<1> USE DEF SendTyped, tx
<1>1. CASE UNCHANGED <<txQueue, held, sending, negotiating>>
  BY <1>1
<1>2. CASE SendData
  BY <1>2, Kinds, QueuedIsQueue DEF SendData
<1>3. CASE TryBaud
  <2>1. Queued(txQueue, Data) \in Seq(Items)
    BY Kinds, QueuedIsQueue
  <2>2. [kind |-> "request", baud |-> Target] \in Items
    BY DEF Items
  <2>3. txQueue' \in Seq(Items)
    BY <1>3, <2>1, <2>2, QueuedIsQueue DEF TryBaud, Negotiate
  <2> QED
    BY <1>3, <2>3 DEF TryBaud
<1>4. CASE FallBack
  BY <1>4, Kinds, QueuedIsQueue DEF FallBack
<1>5. CASE TakeNegotiating
  BY <1>5, HeadTailProperties DEF TakeNegotiating
<1>6. CASE StartTx
  BY <1>6 DEF StartTx, SearchTyped, Sendings
<1>7. CASE EndTx
  BY <1>7 DEF EndTx, PostTxEvent, SearchTyped
<1>8. CASE TimerExpires
  BY <1>8 DEF TimerExpires
<1>9. CASE Process
  <2>1. [kind |-> "reply"] \in Items
    BY DEF Items
  <2>2. CASE Head(processor).kind = "data"
    BY <1>9, <2>2 DEF Process
  <2>3. CASE Head(processor).kind = "reply"
    BY <1>9, <2>3 DEF Process, BaudReply
  <2>4. CASE Head(processor).kind = "request"
    BY <1>9, <2>1, <2>4, QueuedIsQueue DEF Process, BaudRequest
  <2> QED
    BY <1>9, <2>2, <2>3, <2>4 DEF Process
<1>10. \/ UNCHANGED <<txQueue, held, sending, negotiating>>
       \/ SendData \/ TryBaud \/ FallBack \/ TakeNegotiating \/ StartTx \/ EndTx
       \/ TimerExpires \/ Process
  BY Actions DEF TakeDiscovered, DiscoveryOver, RxTake, RxDecode, Starts, HostStarts,
     HostGivesUp, HostEnds, vars
<1> QED
  BY <1>1, <1>2, <1>3, <1>4, <1>5, <1>6, <1>7, <1>8, <1>9, <1>10

(* Only packets are received and queued. *)
LEMMA ReceiveTypedStep ==
  ASSUME ReceiveTyped, HostTyped, [Next]_vars
  PROVE  ReceiveTyped'
<1> USE DEF ReceiveTyped, rx, queue, Empty
<1>1. CASE UNCHANGED <<rx, queue>>
  BY <1>1
<1>2. CASE TryBaud
  BY <1>2 DEF TryBaud
<1>3. CASE FallBack
  BY <1>3 DEF FallBack
<1>4. CASE RxTake
  BY <1>4 DEF RxTake
<1>5. CASE RxDecode
  <2>1. reading + 1 \in 1..2
    BY <1>5 DEF RxDecode
  <2>2. buffers[reading + 1] \in Packets \union {NoPacket}
    BY <2>1
  <2>3. processor' \in Seq(Packets) /\ last' \in 0..7
    <3>1. CASE buffers[reading + 1] = NoPacket
      BY <1>5, <3>1 DEF RxDecode
    <3>2. CASE buffers[reading + 1] # NoPacket
      <4>1. buffers[reading + 1] \in Packets /\ buffers[reading + 1].n \in 0..7
        BY <2>2, <3>2, Kinds
      <4>2. /\ processor' = Append(processor, buffers[reading + 1])
            /\ last' = buffers[reading + 1].n
        BY <1>5, <3>2 DEF RxDecode
      <4> QED
        BY <4>1, <4>2, AppendProperties
    <3> QED
      BY <3>1, <3>2
  <2>4. buffers' \in [1..2 -> Packets \union {NoPacket}]
    BY <1>5, <2>1 DEF RxDecode
  <2> QED
    BY <1>5, <2>3, <2>4 DEF RxDecode
<1>6. CASE Process
  BY <1>6, HeadTailProperties DEF Process
<1>7. CASE \E p \in Packets : Starts(p)
  BY <1>7 DEF Starts, HostStarts
<1>8. CASE HostEnds
  <2>1. hostTx \in Packets /\ cur + 1 \in 1..2
    BY <1>8 DEF HostEnds, HostTyped
  <2>2. buffers' \in [1..2 -> Packets \union {NoPacket}]
    BY <1>8, <2>1 DEF HostEnds
  <2> QED
    BY <1>8, <2>2 DEF HostEnds, NextBuffer
<1>9. \/ UNCHANGED <<rx, queue>>
      \/ TryBaud \/ FallBack \/ RxTake \/ RxDecode \/ Process
      \/ (\E p \in Packets : Starts(p)) \/ HostEnds
  BY Actions DEF SendData, TakeDiscovered, DiscoveryOver, TakeNegotiating, StartTx,
     EndTx, TimerExpires, HostGivesUp, vars
<1> QED
  BY <1>1, <1>2, <1>3, <1>4, <1>5, <1>6, <1>7, <1>8, <1>9

(* The host takes over only an acceptable baud rate. *)
LEMMA HostTypedStep ==
  ASSUME Typed, MessageInv, AskedInv, ReceiveInv, [Next]_vars
  PROVE  HostTyped'
<1> USE DEF Typed, HostTyped, host
<1>1. CASE UNCHANGED host
  BY <1>1
<1>2. CASE RxDecode
  BY <1>2 DEF RxDecode
<1>3. CASE EndTx
  <2>1. sending.item \in Items /\ sending # NoPacket
    BY <1>3, Kinds DEF EndTx, SendTyped
  <2>2. ASSUME sending.item.kind = "reply" PROVE asked \in Bauds \union {NoBaud}
    <3>1. event = "reply" /\ sending.item # Data
      BY <2>1, <2>2, Kinds DEF MessageInv, Data
    <3>2. asked # NoBaud => Quiet /\ requested = asked
      BY <2>1, <3>1 DEF AskedInv, AskedAt, NoMessage
    <3> QED
      BY <3>1, <3>2 DEF SearchTyped
  <2>3. sending.item.kind = "request" => sending.item.baud = Target
    BY <2>1, Kinds
  <2> QED
    BY <1>3, <2>2, <2>3 DEF EndTx, HostHears
<1>4. CASE \E p \in Packets : Starts(p)
  <2>1. (number + 1) % 8 \in 0..7
    OBVIOUS
  <2> QED
    BY <1>4, <2>1 DEF Starts, HostStarts
<1>5. CASE HostGivesUp
  BY <1>5 DEF HostGivesUp
<1>6. CASE HostEnds
  BY <1>6, NcpUartAssumption DEF HostEnds, ReceiveInv
<1>7. \/ UNCHANGED host
      \/ RxDecode \/ EndTx \/ (\E p \in Packets : Starts(p)) \/ HostGivesUp \/ HostEnds
  BY Actions DEF SendData, TryBaud, TakeDiscovered, DiscoveryOver,
     FallBack, TakeNegotiating, StartTx, RxTake, Process, TimerExpires, vars
<1> QED
  BY <1>1, <1>2, <1>3, <1>4, <1>5, <1>6, <1>7

-----------------------------------------------------------------------------
(* Whoever has the lock hands it on or gives it back. *)
LEMMA LockStep ==
  ASSUME Typed, LockInv, MessageInv, AnswerInv, [Next]_vars
  PROVE  LockInv'
<1> USE DEF LockInv, nego, boot, tx, rx, queue, host
<1>1. CASE UNCHANGED <<negotiating, held, sending, timer>>
  BY <1>1
<1>2. CASE TakeNegotiating
  <2>1. held' # NoPacket
    BY <1>2, Kinds, HeadTailProperties DEF TakeNegotiating, Typed, SendTyped
  <2> QED
    BY <1>2, <2>1 DEF TakeNegotiating
<1>3. CASE StartTx
  <2>1. sending' # NoPacket
    <3>1. sending' \in Sendings
      BY <1>3 DEF StartTx, Typed, SendTyped, SearchTyped, Sendings
    <3> QED
      BY <3>1, Kinds
  <2> QED
    BY <1>3, <2>1 DEF StartTx
<1>4. CASE EndTx
  <2>1. sending # NoPacket /\ sending.item \in Items
    BY <1>4, Kinds DEF EndTx, Typed, SendTyped
  <2>2. CASE sending.item = Data
    BY <1>4, <2>1, <2>2 DEF EndTx
  <2>3. CASE sending.item # Data
    <3>1. event \in {"request", "reply"}
      BY <2>1, <2>3, Kinds DEF MessageInv
    <3> QED
      BY <1>4, <2>1, <2>3, <3>1 DEF EndTx, PostTxEvent
  <2> QED
    BY <2>2, <2>3
<1>5. CASE TimerExpires
  BY <1>5 DEF TimerExpires
<1>6. CASE Process
  <2>1. CASE Head(processor).kind = "reply"
    <3>1. timer
      BY <1>6, <2>1, ReplyIsAwaited DEF Typed
    <3> QED
      BY <1>6, <2>1, <3>1 DEF Process, BaudReply
  <2>2. CASE Head(processor).kind = "data"
    BY <1>6, <2>2 DEF Process
  <2>3. CASE Head(processor).kind = "request"
    BY <1>6, <2>3 DEF Process, BaudRequest
  <2> QED
    BY <1>6, <2>1, <2>2, <2>3 DEF Process
<1>7. \/ UNCHANGED <<negotiating, held, sending, timer>>
      \/ TakeNegotiating \/ StartTx \/ EndTx \/ TimerExpires \/ Process
  BY Actions DEF Typed, SendData, TryBaud, TakeDiscovered, DiscoveryOver, FallBack,
     RxTake, RxDecode, Starts, HostStarts,
     HostGivesUp, HostEnds, vars
<1> QED
  BY <1>1, <1>2, <1>3, <1>4, <1>5, <1>6, <1>7

(* Items in the queue after one is added. *)
LEMMA QueuedData ==
  ASSUME NEW q \in Seq(Items), NEW m \in Items, IsData(q)
  PROVE  /\ OneMessage(Queued(q, m), m.kind)
         /\ m = Data => IsData(Queued(q, m))
<1> USE DEF IsData, OneMessage
<1>1. CASE Queued(q, m) = q
  BY <1>1
<1>2. CASE Queued(q, m) # q
  <2>1. /\ DOMAIN Queued(q, m) = 1..(Len(q) + 1) /\ DOMAIN q = 1..Len(q)
        /\ Len(q) \in Nat
        /\ \A i \in 1..Len(q) : Queued(q, m)[i] = q[i]
        /\ Queued(q, m)[Len(q) + 1] = m
    BY <1>2, QueuedIsQueue
  <2>2. \A i \in DOMAIN Queued(q, m) : Queued(q, m)[i] # Data => i = Len(q) + 1
    BY <2>1
  <2> QED
    BY <2>1, <2>2
<1> QED
  BY <1>1, <1>2

(* The queue after an item is taken. *)
LEMMA TakenData ==
  ASSUME NEW q \in Seq(Items), q # <<>>, NEW k, OneMessage(q, k)
  PROVE  /\ OneMessage(Tail(q), k)
         /\ Head(q) # Data => Head(q).kind = k /\ IsData(Tail(q))
<1>1. /\ Head(q) = q[1] /\ 1 \in DOMAIN q
      /\ \A i \in DOMAIN Tail(q) : /\ i \in Nat /\ i # 0 /\ i + 1 \in DOMAIN q
                                   /\ Tail(q)[i] = q[i + 1]
  BY HeadTailProperties, LenProperties
<1>2. \A i, j \in DOMAIN Tail(q) : i + 1 = j + 1 => i = j
  BY <1>1
<1>3. \A i \in DOMAIN Tail(q) : i + 1 # 1
  BY <1>1
<1> QED
  BY <1>1, <1>2, <1>3 DEF OneMessage, IsData

(* Data leaves the messages of a negotiation in the queue as they are. *)
LEMMA DataQueued ==
  ASSUME NEW q \in Seq(Items), NEW k
  PROVE  /\ IsData(q) => IsData(Queued(q, Data))
         /\ OneMessage(q, k) => OneMessage(Queued(q, Data), k)
<1>1. CASE Queued(q, Data) = q
  BY <1>1
<1>2. CASE Queued(q, Data) # q
  <2>1. /\ DOMAIN Queued(q, Data) = 1..(Len(q) + 1) /\ DOMAIN q = 1..Len(q)
        /\ Len(q) \in Nat
        /\ \A i \in 1..Len(q) : Queued(q, Data)[i] = q[i]
        /\ Queued(q, Data)[Len(q) + 1] = Data
    BY <1>2, Kinds, QueuedIsQueue
  <2>2. \A i \in DOMAIN Queued(q, Data) : Queued(q, Data)[i] # Data =>
          i \in DOMAIN q /\ Queued(q, Data)[i] = q[i]
    BY <2>1
  <2> QED
    BY <2>1, <2>2 DEF IsData, OneMessage
<1> QED
  BY <1>1, <1>2

(* Only a negotiation has messages of its own on the way. *)
LEMMA NoEventAllData ==
  ASSUME Typed, MessageInv, event = "none" \/ ~Underway(event)
  PROVE  NoMessage
<1>1. \A i \in DOMAIN txQueue : txQueue[i] \in Items
  BY LenProperties, ElementOfSeq DEF Typed, SendTyped
<1>2. IsData(txQueue)
  BY <1>1, Kinds DEF MessageInv, IsData, OneMessage, Underway
<1>3. held # NoPacket => held = Data
  BY Kinds DEF MessageInv, Typed, SendTyped, Underway
<1>4. sending # NoPacket => sending.item = Data
  BY Kinds DEF MessageInv, Typed, SendTyped, Underway
<1> QED
  BY <1>2, <1>3, <1>4 DEF NoMessage

(* Without one on the way, it takes ncpBaudRateDiscovery() or a request    *)
(* of the host to begin one.                                               *)
LEMMA NoMessageStep ==
  ASSUME Typed, NoMessage, [Next]_vars, ~TryBaud,
         Process => UNCHANGED txQueue
  PROVE  NoMessage'
<1> USE DEF NoMessage, nego, boot, tx, rx, queue, host
<1>1. CASE UNCHANGED <<txQueue, held, sending>>
  BY <1>1
<1>2. CASE SendData \/ FallBack
  <2>1. IsData(txQueue')
    BY <1>2, DataQueued DEF SendData, FallBack, Typed, SendTyped
  <2> QED
    BY <1>2, <2>1 DEF SendData, FallBack
<1>3. CASE TakeNegotiating
  <2>1. \A k : OneMessage(txQueue, k)
    BY DEF IsData, OneMessage
  <2>2. OneMessage(txQueue, "none") /\ OneMessage(txQueue, "other")
    BY <2>1
  <2>3. /\ OneMessage(Tail(txQueue), "none")
        /\ Head(txQueue) # Data => Head(txQueue).kind = "none" /\ IsData(Tail(txQueue))
    BY <1>3, <2>2, TakenData DEF TakeNegotiating, Typed, SendTyped
  <2>4. /\ OneMessage(Tail(txQueue), "other")
        /\ Head(txQueue) # Data => Head(txQueue).kind = "other" /\ IsData(Tail(txQueue))
    BY <1>3, <2>2, TakenData DEF TakeNegotiating, Typed, SendTyped
  <2>5. Head(txQueue) = Data
    BY <2>3, <2>4
  <2>6. IsData(Tail(txQueue))
    BY <2>3, <2>4 DEF OneMessage, IsData
  <2> QED
    BY <1>3, <2>5, <2>6 DEF TakeNegotiating
<1>4. CASE StartTx
  <2>1. sending'.item = held
    BY <1>4 DEF StartTx
  <2> QED
    BY <1>4, <2>1 DEF StartTx
<1>5. CASE EndTx
  BY <1>5 DEF EndTx
<1>6. CASE Process
  BY <1>6 DEF Process
<1>7. \/ UNCHANGED <<txQueue, held, sending>>
      \/ SendData \/ FallBack \/ TakeNegotiating \/ StartTx \/ EndTx \/ Process
  BY Actions DEF Typed, TakeDiscovered, DiscoveryOver, RxTake, TimerExpires, RxDecode,
     Starts, HostStarts, HostGivesUp, HostEnds, vars
<1> QED
  BY <1>1, <1>2, <1>3, <1>4, <1>5, <1>6, <1>7

(* A reply on its way is to the request that the host waits for. *)
LEMMA ReplyIsAsked ==
  ASSUME AskedInv, event = "reply", ~NoMessage
  PROVE  asked # NoBaud /\ requested = asked /\ Quiet /\ found /\ phase = "running"
BY DEF AskedInv, AskedAt

(* A request that the processor handles is the one the host waits for. *)
LEMMA RequestIsAsked ==
  ASSUME Typed, AskedInv, Process, Head(processor).kind = "request"
  PROVE  /\ asked # NoBaud /\ NoMessage /\ AtProcessor("request")
         /\ Head(processor).baud = asked
<1>1. Head(processor) = processor[1] /\ 1 \in DOMAIN processor
  BY HeadTailProperties, LenProperties DEF Process, Typed, ReceiveTyped
<1>2. asked # NoBaud
  BY <1>1 DEF AskedInv, Nowhere
<1> QED
  BY <1>2 DEF AskedInv, AskedAt, OnLine, InBuffer, Quiet, Process

(* A negotiation starts only when the one before is over. *)
LEMMA MessageStep ==
  ASSUME Typed, LockInv, MessageInv, DiscoveryInv, AskedInv, AnswerInv, [Next]_vars
  PROVE  MessageInv'
<1> USE DEF MessageInv, nego, boot, tx, rx, queue, host
<1>1. CASE UNCHANGED <<txQueue, held, sending, event, baud>>
  BY <1>1
<1>2. CASE SendData
  <2>1. /\ OneMessage(txQueue', event)
        /\ IsData(txQueue) => IsData(txQueue')
    BY <1>2, DataQueued DEF SendData, Typed, SendTyped
  <2> QED
    BY <1>2, <2>1 DEF SendData
<1>3. CASE TryBaud
  <2>1. ~timer /\ event = "none"
    BY <1>3 DEF TryBaud, DiscoveryInv, AskedInv, Typed, SearchTyped
  <2>2. /\ IsData(txQueue)
        /\ held # NoPacket => held = Data
        /\ sending # NoPacket => sending.item = Data
    BY <2>1, NoEventAllData DEF NoMessage
  <2> DEFINE q == Queued(txQueue, Data)
             r == [kind |-> "request", baud |-> Target]
  <2>3. q \in Seq(Items) /\ IsData(q)
    BY <2>2, Kinds, QueuedData, QueuedIsQueue DEF Typed, SendTyped
  <2>4. r \in Items /\ r.kind = "request"
    BY DEF Items
  <2>5. event' = "request" /\ txQueue' = Queued(q, r)
    BY <1>3, <2>1 DEF TryBaud, Negotiate
  <2> HIDE DEF q, r
  <2>6. OneMessage(txQueue', event')
    BY <2>3, <2>4, <2>5, QueuedData
  <2> QED
    BY <1>3, <2>2, <2>6 DEF TryBaud
<1>4. CASE FallBack
  <2>1. event = "none"
    BY <1>4 DEF FallBack, DiscoveryInv, AskedInv, Typed, SearchTyped
  <2>2. /\ IsData(txQueue)
        /\ held # NoPacket => held = Data
        /\ sending # NoPacket => sending.item = Data
    BY <2>1, NoEventAllData DEF NoMessage
  <2>3. IsData(txQueue')
    BY <1>4, <2>2, Kinds, QueuedData DEF FallBack, Typed, SendTyped
  <2>4. OneMessage(txQueue', event')
    BY <2>3 DEF IsData, OneMessage
  <2> QED
    BY <1>4, <2>2, <2>3, <2>4 DEF FallBack
<1>5. CASE TakeNegotiating
  <2>1. /\ OneMessage(txQueue', event)
        /\ held' # Data => held'.kind = event /\ IsData(txQueue')
    BY <1>5, TakenData DEF TakeNegotiating, Typed, SendTyped
  <2>2. sending = NoPacket
    BY <1>5 DEF TakeNegotiating, LockInv
  <2> QED
    BY <1>5, <2>1, <2>2 DEF TakeNegotiating
<1>6. CASE StartTx
  <2>1. sending'.item = held /\ sending'.at = baud
    BY <1>6 DEF StartTx
  <2> QED
    BY <1>6, <2>1 DEF StartTx
<1>7. CASE EndTx
  <2>1. sending # NoPacket /\ held = NoPacket
    BY <1>7 DEF EndTx, LockInv
  <2>2. CASE sending.item = Data
    BY <1>7, <2>1, <2>2 DEF EndTx
  <2>3. CASE sending.item # Data
    <3>1. IsData(txQueue)
      BY <2>1, <2>3
    <3>2. OneMessage(txQueue, event')
      BY <3>1 DEF IsData, OneMessage
    <3> QED
      BY <1>7, <2>1, <2>3, <3>2 DEF EndTx
  <2> QED
    BY <2>2, <2>3
<1>8. CASE Process
  <2>1. CASE Head(processor).kind = "reply"
    <3>1. timer
      BY <1>8, <2>1, ReplyIsAwaited DEF Typed
    <3> QED
      BY <1>8, <2>1, <3>1 DEF Process, BaudReply, LockInv
  <2>2. CASE Head(processor).kind = "data"
    BY <1>8, <2>2 DEF Process
  <2>3. CASE Head(processor).kind = "request"
    <3>1. NoMessage
      BY <1>8, <2>3, RequestIsAsked
    <3>2. [kind |-> "reply"] \in Items /\ [kind |-> "reply"].kind = "reply"
      BY DEF Items
    <3>3. /\ IsData(txQueue)
          /\ held # NoPacket => held = Data
          /\ sending # NoPacket => sending.item = Data
      BY <3>1 DEF NoMessage
    <3>4. CASE Head(processor).baud \in Bauds
      <4>1. event' = "reply" /\ txQueue' = Queued(txQueue, [kind |-> "reply"])
        BY <1>8, <2>3, <3>4 DEF Process, BaudRequest
      <4>2. OneMessage(txQueue', event')
        BY <3>2, <3>3, <4>1, QueuedData DEF Typed, SendTyped
      <4> QED
        BY <1>8, <3>3, <4>2 DEF Process
    <3>5. CASE Head(processor).baud \notin Bauds
      BY <1>8, <2>3, <3>5 DEF Process, BaudRequest
    <3> QED
      BY <3>4, <3>5
  <2> QED
    BY <1>8, <2>1, <2>2, <2>3 DEF Process
<1>9. \/ UNCHANGED <<txQueue, held, sending, event, baud>>
      \/ SendData \/ TryBaud \/ FallBack \/ TakeNegotiating \/ StartTx \/ EndTx \/ Process
  BY Actions DEF Typed, TakeDiscovered, DiscoveryOver, RxTake, TimerExpires,
     RxDecode, Starts, HostStarts,
     HostGivesUp, HostEnds, vars
<1> QED
  BY <1>1, <1>2, <1>3, <1>4, <1>5, <1>6, <1>7, <1>8, <1>9

-----------------------------------------------------------------------------
(* A host's request cannot start what only the discovery does. *)
LEMMA DiscoveryStep ==
  ASSUME Typed, MessageInv, DiscoveryInv, AnswerInv, AskedInv, [Next]_vars
  PROVE  DiscoveryInv'
<1> USE DEF DiscoveryInv, nego, boot, tx, rx, queue, host
<1>1. CASE UNCHANGED <<baud, requested, event, timer, phase, idx, found, discovered>>
  BY <1>1
<1>2. CASE TryBaud
  <2>1. ~timer /\ event = "none" /\ ~discovered
    BY <1>2 DEF TryBaud, AskedInv, Typed, SearchTyped
  <2>2. idx \in Nat /\ Len(Acceptable) \in Nat /\ idx <= Len(Acceptable)
    BY NcpUartAssumption, LenProperties DEF Typed, SearchTyped
  <2>3. event' = "request" /\ requested' = Target /\ idx' + 1 = idx
    BY <1>2, <2>1, <2>2 DEF TryBaud, Negotiate
  <2> QED
    BY <1>2, <2>1, <2>2, <2>3 DEF TryBaud
<1>3. CASE TakeDiscovered
  BY <1>3 DEF TakeDiscovered
<1>4. CASE DiscoveryOver
  BY <1>4 DEF DiscoveryOver
<1>5. CASE FallBack
  BY <1>5 DEF FallBack
<1>6. CASE EndTx
  <2>1. sending # NoPacket /\ sending.item \in Items
    BY <1>6, Kinds DEF EndTx, Typed, SendTyped
  <2>2. CASE sending.item = Data
    BY <1>6, <2>1, <2>2 DEF EndTx
  <2>3. CASE sending.item # Data
    <3>1. CASE event = "request"
      BY <1>6, <2>1, <2>3, <3>1 DEF EndTx, PostTxEvent
    <3>2. CASE event = "reply"
      <4>1. found
        BY <3>2 DEF AskedInv
      <4>2. ~timer
        BY <3>2
      <4> QED
        BY <1>6, <2>1, <2>3, <3>2, <4>1, <4>2 DEF EndTx, PostTxEvent
    <3>3. event \in {"request", "reply"}
      BY <2>1, <2>3, Kinds DEF MessageInv
    <3> QED
      BY <3>1, <3>2, <3>3
  <2> QED
    BY <2>2, <2>3
<1>7. CASE TimerExpires
  BY <1>7 DEF TimerExpires
<1>8. CASE Process
  <2>1. CASE Head(processor).kind = "reply"
    <3>1. timer
      BY <1>8, <2>1, ReplyIsAwaited DEF Typed
    <3> QED
      BY <1>8, <2>1, <3>1 DEF Process, BaudReply
  <2>2. CASE Head(processor).kind = "data"
    BY <1>8, <2>2 DEF Process
  <2>3. CASE Head(processor).kind = "request"
    <3>1. event \in {"none", "reply"} /\ found /\ ~timer
      BY <1>8, <2>3, RequestIsAsked DEF AskedInv, Typed, SearchTyped
    <3>2. event' \in {"none", "reply"} /\ timer' = timer
      <4>1. BaudRequest(Head(processor).baud)
        BY <1>8, <2>3 DEF Process
      <4> QED
        BY <3>1, <4>1 DEF BaudRequest
    <3>3. UNCHANGED <<baud, phase, idx, found, discovered>>
      BY <1>8, <2>3 DEF Process, BaudRequest
    <3> QED
      BY <3>1, <3>2, <3>3
  <2> QED
    BY <1>8, <2>1, <2>2, <2>3 DEF Process
<1>9. \/ UNCHANGED <<baud, requested, event, timer, phase, idx, found, discovered>>
      \/ TryBaud \/ TakeDiscovered \/ DiscoveryOver \/ FallBack \/ EndTx
      \/ TimerExpires \/ Process
  BY Actions DEF Typed, SendData, TakeNegotiating, StartTx, RxTake, RxDecode,
     Starts, HostStarts, HostGivesUp, HostEnds, vars
<1> QED
  BY <1>1, <1>2, <1>3, <1>4, <1>5, <1>6, <1>7, <1>8, <1>9

-----------------------------------------------------------------------------
(* Both sides agree whenever the host is sending. *)
LEMMA SendsAtBaud ==
  ASSUME AnswerInv, AgreeInv, hostTx # NoPacket
  PROVE  baud = hostBaud
BY DEF AnswerInv, AgreeInv, Answered, InBuffer, AtProcessor, Quiet

(* Both change the baud rate together: the bridge at the end of its reply, *)
(* which the host hears, or on the host's reply, after the host.           *)
LEMMA AgreeStep ==
  ASSUME Typed, MessageInv, DiscoveryInv, AnswerInv, AskedInv, AgreeInv, [Next]_vars
  PROVE  AgreeInv'
<1> USE DEF AgreeInv, nego, boot, tx, rx, queue, host
<1>1. CASE UNCHANGED <<baud, found, hostBaud>>
  BY <1>1
<1>2. CASE TryBaud
  BY <1>2 DEF TryBaud
<1>3. CASE FallBack
  BY <1>3 DEF FallBack
<1>4. CASE EndTx
  <2>1. sending # NoPacket /\ sending.item \in Items
    BY <1>4, Kinds DEF EndTx, Typed, SendTyped
  <2>2. CASE sending.item = Data
    <3>1. sending.item.kind # "reply"
      BY <2>2 DEF Data
    <3> QED
      BY <1>4, <2>1, <2>2, <3>1 DEF EndTx, HostHears
  <2>3. CASE sending.item # Data
    <3>1. sending.item.kind = event /\ sending.at = baud
      BY <2>1, <2>3 DEF MessageInv
    <3>2. CASE event = "request"
      BY <1>4, <2>1, <2>3, <3>1, <3>2 DEF EndTx, PostTxEvent, HostHears
    <3>3. CASE event = "reply"
      <4>1. found /\ requested = asked
        BY <2>1, <2>3, <3>3, ReplyIsAsked DEF NoMessage
      <4>2. baud' = requested
        BY <1>4, <2>3, <3>3 DEF EndTx, PostTxEvent
      <4>3. hostBaud' = asked
        BY <1>4, <3>1, <3>3, <4>1 DEF EndTx, HostHears
      <4> QED
        BY <4>1, <4>2, <4>3
    <3>4. event \in {"request", "reply"}
      BY <2>1, <2>3, <3>1, Kinds
    <3> QED
      BY <3>2, <3>3, <3>4
  <2> QED
    BY <2>2, <2>3
<1>5. CASE Process
  <2>1. CASE Head(processor).kind = "reply"
    <3>1. timer
      BY <1>5, <2>1, ReplyIsAwaited DEF Typed
    <3>2. hostBaud = Target /\ requested = Target
      BY <1>5, <3>1 DEF AnswerInv, DiscoveryInv, Quiet, OnLine, Process
    <3> QED
      BY <1>5, <2>1, <3>2 DEF Process, BaudReply
  <2>2. CASE Head(processor).kind = "data"
    BY <1>5, <2>2 DEF Process
  <2>3. CASE Head(processor).kind = "request"
    BY <1>5, <2>3 DEF Process, BaudRequest
  <2> QED
    BY <1>5, <2>1, <2>2, <2>3 DEF Process
<1>6. CASE HostEnds
  <2>1. CASE IsReply(hostTx)
    <3>1. timer
      BY <2>1 DEF AnswerInv, Nowhere, IsReply
    <3> QED
      BY <1>6, <3>1 DEF DiscoveryInv, HostEnds
  <2>2. CASE ~IsReply(hostTx)
    BY <1>6, <2>2 DEF HostEnds
  <2> QED
    BY <2>1, <2>2
<1>7. \/ UNCHANGED <<baud, found, hostBaud>>
      \/ TryBaud \/ FallBack \/ EndTx \/ Process \/ HostEnds
  BY Actions DEF Typed, SendData, TakeDiscovered, DiscoveryOver, TakeNegotiating, StartTx,
     RxTake, RxDecode, TimerExpires, Starts, HostStarts, HostGivesUp, vars
<1> QED
  BY <1>1, <1>2, <1>3, <1>4, <1>5, <1>6, <1>7

-----------------------------------------------------------------------------
(* The kinds of packets that negotiate. *)
Special == {"reply", "request"}

(* With nothing under way there is none of kind k either. *)
LEMMA QuietNowhere ==
  ASSUME NEW k \in Special, Quiet, OnlyThere(k)
  PROVE  Nowhere(k)
<1>1. hostTx.kind # k
  BY DEF Quiet, Special, NoPacket
<1>2. \A i \in 1..2 : buffers[i].kind # k
  BY DEF OnlyThere, InBuffer, Quiet
<1>3. DOMAIN processor = {}
  BY DEF Quiet
<1> QED
  BY <1>1, <1>2, <1>3 DEF Nowhere

(* A packet alone in the queue. *)
LEMMA AtProcessorOnly ==
  ASSUME NEW k \in Special, ReceiveTyped, AtProcessor(k)
  PROVE  /\ DOMAIN processor = {1} /\ processor[1] = Head(processor)
         /\ Tail(processor) = <<>>
<1>1. Len(processor) = 1
  <2>1. /\ processor \in Seq(Packets) /\ processor # <<>>
        /\ Len(Tail(processor)) = 0
    BY DEF AtProcessor, ReceiveTyped
  <2> QED
    BY <2>1, HeadTailProperties, LenProperties
<1> QED
  BY <1>1, LenProperties DEF AtProcessor, ReceiveTyped

(* When the host puts a packet on the line. *)
LEMMA StartsWhen ==
  ASSUME Typed, DiscoveryInv, AnswerInv, AskedInv, ReceiveInv, NEW p, Starts(p)
  PROVE  /\ hostTx = NoPacket /\ asked = NoBaud
         /\ Nowhere("reply") /\ Nowhere("request")
         /\ \/ p.kind = "data" /\ owes = NoBaud /\ ~timer /\ phase = "running"
            \/ p.kind = "reply" /\ owes = Target /\ timer /\ Quiet
            \/ p.kind = "request" /\ owes = NoBaud /\ ~timer /\ found /\ Quiet
<1>1. hostTx = NoPacket
  BY DEF Starts, HostStarts
<1>2. CASE p.kind = "data"
  BY <1>1, <1>2 DEF Starts, Open, AnswerInv, AskedInv
<1>3. CASE p.kind = "reply"
  <2>1. timer /\ owes = Target
    BY <1>3 DEF Starts, AnswerInv, Typed, HostTyped
  <2>2. Quiet
    BY <1>1, <2>1, NcpUartAssumption DEF AnswerInv, Answered, OnLine, NoPacket
  <2>3. asked = NoBaud
    BY <2>1 DEF DiscoveryInv, AskedInv
  <2>4. Nowhere("reply") /\ Nowhere("request")
    BY <2>2, QuietNowhere DEF AnswerInv, AskedInv, Special
  <2> QED
    BY <1>1, <1>3, <2>1, <2>2, <2>3, <2>4
<1>4. CASE p.kind = "request"
  <2>1. /\ ~timer /\ owes = NoBaud /\ asked = NoBaud /\ found
        /\ pending = Empty /\ reading = Empty /\ processor = <<>>
    BY <1>4 DEF Starts, Open
  <2>2. behind = 0
    BY <2>1 DEF ReceiveInv, One, Typed, ReceiveTyped, HostTyped, Empty
  <2>3. Quiet
    BY <1>1, <2>1, <2>2 DEF Quiet
  <2> QED
    BY <1>1, <1>4, <2>1, <2>3, QuietNowhere DEF AnswerInv, AskedInv, Special
<1> QED
  BY <1>2, <1>3, <1>4 DEF Starts

(* A packet is nowhere until the host starts it. *)
LEMMA NowhereStep ==
  ASSUME Typed, NEW k \in Special, Nowhere(k), [Next]_vars,
         \A p : Starts(p) => p.kind # k
  PROVE  Nowhere(k)'
<1> USE DEF Nowhere, nego, boot, tx, rx, queue, host
<1>0. /\ NoPacket.kind # k
      /\ cur + 1 \in 1..2 /\ reading \in 0..2
      /\ buffers \in [1..2 -> Packets \union {NoPacket}]
      /\ processor \in Seq(Packets)
  BY Kinds DEF Special, Typed, ReceiveTyped, Empty
<1>1. CASE UNCHANGED <<hostTx, buffers, processor>>
  BY <1>1
<1>2. CASE RxDecode
  <2>1. reading + 1 \in 1..2
    BY <1>0, <1>2 DEF RxDecode, Empty
  <2>2. \A i \in 1..2 : buffers'[i].kind # k
    BY <1>0, <1>2, <2>1 DEF RxDecode
  <2>3. \A i \in DOMAIN processor' : processor'[i].kind # k
    <3>1. CASE buffers[reading + 1] = NoPacket
      BY <1>2, <3>1 DEF RxDecode
    <3>2. CASE buffers[reading + 1] # NoPacket
      <4>1. /\ buffers[reading + 1] \in Packets /\ buffers[reading + 1].kind # k
            /\ processor' = Append(processor, buffers[reading + 1])
        BY <1>0, <1>2, <2>1, <3>2 DEF RxDecode
      <4>2. Len(processor) \in Nat /\ DOMAIN processor = 1..Len(processor)
        BY <1>0, LenProperties
      <4> QED
        BY <1>0, <4>1, <4>2, AppendProperties, LenProperties
    <3> QED
      BY <3>1, <3>2
  <2> QED
    BY <1>2, <2>2, <2>3 DEF RxDecode
<1>3. CASE Process
  <2>1. \A i \in DOMAIN processor' :
          \E j \in DOMAIN processor : processor'[i] = processor[j]
    <3>1. processor # <<>> /\ processor' = Tail(processor)
      BY <1>3 DEF Process
    <3>2. /\ Tail(processor) \in Seq(Packets)
          /\ Len(Tail(processor)) = Len(processor) - 1
          /\ \A i \in 1..Len(Tail(processor)) : Tail(processor)[i] = processor[i + 1]
      BY <1>0, <3>1, HeadTailProperties
    <3>3. /\ Len(processor) \in Nat /\ DOMAIN processor = 1..Len(processor)
          /\ DOMAIN Tail(processor) = 1..Len(Tail(processor))
      BY <1>0, <3>2, LenProperties
    <3>4. \A i \in DOMAIN Tail(processor) : i + 1 \in DOMAIN processor
      BY <3>2, <3>3
    <3> QED
      BY <3>1, <3>2, <3>3, <3>4
  <2> QED
    BY <1>3, <2>1 DEF Process
<1>4. ASSUME NEW p \in Packets, Starts(p)
      PROVE  Nowhere(k)'
  BY <1>0, <1>4 DEF Starts, HostStarts
<1>5. CASE HostEnds
  <2>1. \A i \in 1..2 : buffers'[i].kind # k
    BY <1>0, <1>5 DEF HostEnds
  <2> QED
    BY <1>0, <1>5, <2>1 DEF HostEnds
<1>6. \/ UNCHANGED <<hostTx, buffers, processor>>
      \/ RxDecode \/ Process \/ (\E p \in Packets : Starts(p)) \/ HostEnds
  BY Actions DEF Typed, SendData, TryBaud, FallBack, TakeDiscovered, DiscoveryOver,
     TakeNegotiating, StartTx, EndTx, HostHears, TimerExpires, RxTake, HostGivesUp, vars
<1> QED
  BY <1>1, <1>2, <1>3, <1>4, <1>5, <1>6

(* The way of a packet: from the line to the buffer ... *)
LEMMA EndsInBuffer ==
  ASSUME Typed, NEW k \in Special, OnLine(k), HostEnds, baud = hostBaud
  PROVE  /\ InBuffer(k)' /\ buffers'[2 - cur'] = hostTx
         /\ \A i \in 1..2 : i # 2 - cur' => buffers'[i] = buffers[i]
<1>1. /\ cur \in {0, 1} /\ cur' = 1 - cur /\ behind' = 1 /\ processor' = <<>>
      /\ hostTx' = NoPacket
  BY DEF HostEnds, NextBuffer, OnLine, Typed, ReceiveTyped, queue
<1>2. 2 - cur' = cur + 1 /\ cur + 1 \in 1..2
  BY <1>1
<1>3. buffers' = [buffers EXCEPT ![cur + 1] = hostTx] /\ DOMAIN buffers = 1..2
  BY DEF HostEnds, Typed, ReceiveTyped
<1> QED
  BY <1>1, <1>2, <1>3 DEF InBuffer, OnLine

(* ... and from there to the processor. *)
LEMMA DecodedToProcessor ==
  ASSUME Typed, ReceiveInv, NEW k \in Special, InBuffer(k), RxDecode
  PROVE  /\ AtProcessor(k)' /\ Head(processor') = buffers[2 - cur]
         /\ \A i \in 1..2 : buffers'[i] = IF i = 2 - cur THEN NoPacket ELSE buffers[i]
<1>1. /\ reading = 1 - cur /\ pending = Empty /\ cur \in {0, 1}
      /\ reading + 1 = 2 - cur /\ 2 - cur \in 1..2
  BY DEF InBuffer, RxDecode, ReceiveInv, One, Typed, ReceiveTyped, Empty
<1>2. buffers[2 - cur] # NoPacket /\ buffers[2 - cur] \in Packets
  BY <1>1 DEF InBuffer, ReceiveInv, Typed, ReceiveTyped
<1>3. processor' = Append(<<>>, buffers[2 - cur]) /\ behind' = 0 /\ hostTx' = NoPacket
  BY <1>1, <1>2 DEF RxDecode, InBuffer
<1>4. processor' # <<>> /\ Head(processor') = buffers[2 - cur] /\ Tail(processor') = <<>>
  BY <1>3
<1>5. \A i \in 1..2 : buffers'[i] = IF i = 2 - cur THEN NoPacket ELSE buffers[i]
  BY <1>1 DEF RxDecode, Typed, ReceiveTyped
<1> QED
  BY <1>3, <1>4, <1>5 DEF AtProcessor, InBuffer

(* A buffer is cleared when it is decoded and when it is written anew. *)
LEMMA OnlyThereStep ==
  ASSUME Typed, DiscoveryInv, AnswerInv, AskedInv, AgreeInv, ReceiveInv, [Next]_vars,
         NEW k \in Special
  PROVE  OnlyThere(k)'
<1> USE DEF OnlyThere, nego, boot, tx, rx, queue, host
<1>0. /\ OnlyThere(k) /\ NoPacket.kind # k /\ cur \in {0, 1} /\ cur + 1 \in 1..2
      /\ buffers \in [1..2 -> Packets \union {NoPacket}]
  BY Kinds DEF Special, AnswerInv, AskedInv, Typed, ReceiveTyped
<1>1. CASE UNCHANGED <<hostTx, buffers, cur, behind, processor>>
  BY <1>0, <1>1 DEF InBuffer
<1>2. CASE TryBaud \/ FallBack
  <2>1. ~timer /\ asked = NoBaud
    BY <1>2 DEF TryBaud, FallBack, DiscoveryInv, AskedInv
  <2>2. Nowhere(k)
    BY <2>1 DEF AnswerInv, AskedInv, Special
  <2> QED
    BY <1>2, <2>2 DEF TryBaud, FallBack, Nowhere
<1>3. CASE RxDecode
  <2>1. CASE InBuffer(k)
    BY <1>0, <1>3, <2>1, DecodedToProcessor
  <2>2. CASE ~InBuffer(k)
    <3>1. \A i \in 1..2 : buffers[i].kind # k
      BY <1>0, <2>2
    <3>2. \A i \in 1..2 : buffers'[i].kind # k
      BY <1>0, <1>3, <3>1 DEF RxDecode
    <3> QED
      BY <3>2
  <2> QED
    BY <2>1, <2>2
<1>4. CASE Process
  <2>1. ~InBuffer(k)
    BY <1>4 DEF Process, InBuffer
  <2> QED
    BY <1>0, <1>4, <2>1 DEF Process
<1>5. ASSUME NEW p \in Packets, Starts(p)
      PROVE  OnlyThere(k)'
  <2>1. \A i \in 1..2 : buffers[i].kind # k
    BY <1>5, StartsWhen DEF Nowhere, Special
  <2> QED
    BY <1>0, <1>5, <2>1 DEF Starts, HostStarts
<1>6. CASE HostEnds
  <2>1. hostTx # NoPacket /\ baud = hostBaud
    BY <1>6, SendsAtBaud DEF HostEnds
  <2>2. \A i \in 1..2 : buffers[i].kind # k
    BY <1>0, <2>1 DEF InBuffer
  <2>3. CASE hostTx.kind = k
    <3>1. OnLine(k)
      <4>1. CASE k = "reply"
        <5>1. timer
          BY <2>3, <4>1 DEF AnswerInv, Nowhere
        <5> QED
          BY <2>1, <4>1, <5>1 DEF AnswerInv, Answered, Quiet, InBuffer, AtProcessor
      <4>2. CASE k = "request"
        <5>1. asked # NoBaud
          BY <2>3, <4>2 DEF AskedInv, Nowhere
        <5> QED
          BY <2>1, <4>2, <5>1 DEF AskedInv, AskedAt, Quiet, InBuffer, AtProcessor
      <4> QED
        BY <4>1, <4>2 DEF Special
    <3> QED
      BY <1>6, <2>1, <2>2, <3>1, EndsInBuffer
  <2>4. CASE hostTx.kind # k
    <3>1. \A i \in 1..2 : buffers'[i].kind # k
      BY <1>0, <1>6, <2>1, <2>2, <2>4 DEF HostEnds
    <3> QED
      BY <3>1
  <2> QED
    BY <2>3, <2>4
<1>7. \/ UNCHANGED <<hostTx, buffers, cur, behind, processor>>
      \/ TryBaud \/ FallBack \/ RxDecode \/ Process \/ (\E p \in Packets : Starts(p))
      \/ HostEnds
  BY Actions DEF Typed, SendData, TakeDiscovered, DiscoveryOver, TakeNegotiating,
     StartTx, EndTx, HostHears, TimerExpires, RxTake, HostGivesUp, vars
<1> QED
  BY <1>1, <1>2, <1>3, <1>4, <1>5, <1>6, <1>7

-----------------------------------------------------------------------------
(* While the timer runs, the processor handles nothing but the reply. *)
LEMMA ReplyStops ==
  ASSUME Typed, DiscoveryInv, AnswerInv, Process, timer
  PROVE  BaudReply /\ hostBaud = Target /\ owes = NoBaud /\ processor' = <<>>
<1>1. AtProcessor("reply") /\ hostBaud = Target /\ owes = NoBaud
  BY DEF AnswerInv, Answered, Quiet, OnLine, InBuffer, Process
<1>2. BaudReply
  BY <1>1 DEF Process, AtProcessor
<1> QED
  BY <1>1, <1>2 DEF Process, AtProcessor

(* The answer moves on, or the timer stops. *)
LEMMA AnswerStep ==
  ASSUME Typed, LockInv, MessageInv, DiscoveryInv, AnswerInv, SearchInv, AskedInv,
         AgreeInv, ReceiveInv, [Next]_vars
  PROVE  AnswerInv'
<1> USE DEF nego, boot, tx, rx, queue, host
<1>a. OnlyThere("reply")'
  BY OnlyThereStep DEF Special
<1>b. ASSUME Nowhere("reply"), \A p : Starts(p) => p.kind # "reply"
      PROVE  Nowhere("reply")'
  BY <1>b, NowhereStep DEF Special
<1>n. Target # NoBaud
  BY NcpUartAssumption
<1>1. CASE UNCHANGED <<timer, owes, baud, hostBaud, found, hostTx, behind, processor,
                       buffers, cur>>
  <2>1. Nowhere("reply")' <=> Nowhere("reply")
    BY <1>1 DEF Nowhere
  <2>2. /\ Quiet' <=> Quiet
        /\ OnLine("reply")' <=> OnLine("reply")
        /\ Answered' <=> Answered
    BY <1>1 DEF Quiet, OnLine, Answered, InBuffer, AtProcessor
  <2> QED
    BY <1>1, <1>a, <2>1, <2>2 DEF AnswerInv
<1>2. CASE TryBaud \/ FallBack
  <2>1. ~timer /\ owes = NoBaud /\ ~found /\ Quiet /\ Nowhere("reply")
    BY <1>2 DEF TryBaud, FallBack, DiscoveryInv, AnswerInv, SearchInv
  <2>2. ~timer' /\ owes' = NoBaud /\ Quiet' /\ Nowhere("reply")'
    BY <1>2, <2>1 DEF TryBaud, FallBack, Quiet, Nowhere
  <2> QED
    BY <1>a, <2>2 DEF AnswerInv
<1>3. CASE EndTx
  <2>1. sending # NoPacket /\ sending.item \in Items /\ ~timer
    BY <1>3, Kinds DEF EndTx, Typed, SendTyped, LockInv
  <2>2. owes = NoBaud /\ Nowhere("reply")
    BY <2>1 DEF AnswerInv
  <2>3. Nowhere("reply")' /\ (Quiet' <=> Quiet) /\ found' = found
    BY <1>3, <2>2 DEF EndTx, HostHears, Nowhere, Quiet
  <2>4. CASE sending.item = Data
    <3>1. timer' = timer /\ owes' = owes
      BY <1>3, <2>4 DEF EndTx, HostHears, Data
    <3> QED
      BY <1>a, <2>1, <2>2, <2>3, <3>1 DEF AnswerInv
  <2>5. CASE sending.item # Data /\ event = "reply"
    <3>1. sending.item.kind = "reply"
      BY <2>1, <2>5 DEF MessageInv
    <3>2. timer' = timer /\ owes' = owes
      BY <1>3, <2>5, <3>1 DEF EndTx, PostTxEvent, HostHears
    <3> QED
      BY <1>a, <2>1, <2>2, <2>3, <3>2 DEF AnswerInv
  <2>6. CASE sending.item # Data /\ event = "request"
    <3>1. /\ sending.item.kind = "request" /\ sending.at = baud
          /\ sending.item.baud = Target
      BY <2>1, <2>6, Kinds DEF MessageInv
    <3>2. Quiet'
      BY <2>1, <2>3, <2>6 DEF DiscoveryInv, AnswerInv
    <3>3. timer' /\ UNCHANGED <<baud, hostBaud>>
          /\ owes' = IF baud = hostBaud THEN Target ELSE NoBaud
      BY <1>3, <2>2, <2>6, <3>1 DEF EndTx, PostTxEvent, HostHears
    <3> QED
      BY <1>a, <1>n, <3>2, <3>3 DEF AnswerInv
  <2>7. sending.item # Data => event \in {"request", "reply"}
    BY <2>1, Kinds DEF MessageInv
  <2> QED
    BY <2>4, <2>5, <2>6, <2>7
<1>4. CASE TimerExpires
  <2>1. owes = NoBaud /\ Nowhere("reply")
    BY <1>4, Kinds DEF TimerExpires, ReplyComing, IsReply, Nowhere
  <2>2. ~Answered
    <3>1. ~InBuffer("reply")
      BY <2>1 DEF InBuffer, Nowhere, Typed, ReceiveTyped
    <3>2. ~AtProcessor("reply")
      BY <2>1, AtProcessorOnly DEF AtProcessor, Nowhere, Typed, Special
    <3> QED
      BY <3>1, <3>2 DEF Answered
  <2>3. timer
    BY <1>4 DEF TimerExpires
  <2>4. Quiet
    BY <1>n, <2>1, <2>2, <2>3 DEF AnswerInv
  <2>5. ~timer' /\ owes' = NoBaud /\ Quiet' /\ Nowhere("reply")'
    BY <1>4, <2>1, <2>4 DEF TimerExpires, Quiet, Nowhere
  <2> QED
    BY <1>a, <2>5 DEF AnswerInv
<1>5. CASE RxDecode
  <2>1. UNCHANGED <<timer, owes, baud, hostBaud, found, hostTx>>
    BY <1>5 DEF RxDecode
  <2>2. ~Quiet /\ ~OnLine("reply")
    BY <1>5 DEF RxDecode, Quiet, OnLine, ReceiveInv
  <2>3. CASE timer
    <3>1. Answered /\ owes = NoBaud /\ hostBaud = Target
      BY <2>2, <2>3 DEF AnswerInv, Answered
    <3>2. InBuffer("reply")
      BY <1>5, <3>1 DEF Answered, AtProcessor, RxDecode, ReceiveInv
    <3>3. Answered'
      BY <1>5, <2>1, <3>1, <3>2, DecodedToProcessor DEF Answered, Special
    <3> QED
      BY <1>a, <2>1, <2>3, <3>1, <3>3 DEF AnswerInv
  <2>4. CASE ~timer
    <3>1. Nowhere("reply")'
      BY <1>5, <1>b, <2>4 DEF AnswerInv, RxDecode, Starts, HostStarts
    <3> QED
      BY <1>a, <2>1, <2>2, <2>4, <3>1 DEF AnswerInv
  <2> QED
    BY <2>3, <2>4
<1>6. CASE Process
  <2>1. CASE timer
    <3>1. BaudReply /\ owes = NoBaud /\ processor' = <<>> /\ phase = "wait"
      BY <1>6, <2>1, ReplyStops DEF DiscoveryInv
    <3>2. ~timer' /\ found' /\ owes' = NoBaud
      BY <1>6, <3>1 DEF BaudReply, Process
    <3>3. Nowhere("reply")'
      <4>1. hostTx = NoPacket /\ ~InBuffer("reply")
        BY <1>6, <2>1 DEF AnswerInv, Answered, AtProcessor, InBuffer, Quiet, OnLine,
           Process
      <4>2. \A i \in 1..2 : buffers[i].kind # "reply"
        BY <4>1 DEF AnswerInv, OnlyThere
      <4> QED
        BY <1>6, <3>1, <4>1, <4>2, Kinds DEF Nowhere, Process
    <3> QED
      BY <1>a, <3>2, <3>3 DEF AnswerInv
  <2>2. CASE ~timer
    <3>1. Head(processor).kind # "reply" /\ Nowhere("reply")
      BY <1>6, <2>2, ReplyIsAwaited DEF AnswerInv, Typed
    <3>2. UNCHANGED <<timer, owes, found>>
      BY <1>6, <3>1 DEF Process, BaudRequest
    <3>3. ~Quiet
      BY <1>6 DEF Process, Quiet
    <3>4. Nowhere("reply")'
      BY <1>6, <1>b, <3>1, StartsWhen DEF Process, Starts, HostStarts
    <3> QED
      BY <1>a, <2>2, <3>2, <3>3, <3>4 DEF AnswerInv
  <2> QED
    BY <2>1, <2>2
<1>7. ASSUME NEW p \in Packets, Starts(p)
      PROVE  AnswerInv'
  <2>1. /\ UNCHANGED <<timer, owes, baud, hostBaud, found, behind, processor>>
        /\ hostTx' = p
    BY <1>7 DEF Starts, HostStarts
  <2>2. CASE p.kind = "reply"
    <3>1. timer /\ owes = Target /\ Quiet
      BY <1>7, <2>2, StartsWhen
    <3>2. baud = hostBaud
      BY <1>n, <3>1 DEF AnswerInv, Answered
    <3>3. OnLine("reply")'
      BY <2>1, <2>2, <3>1 DEF OnLine, Quiet
    <3> QED
      BY <1>a, <2>1, <3>1, <3>2, <3>3 DEF AnswerInv
  <2>3. CASE p.kind # "reply"
    <3>1. ~timer /\ owes = NoBaud /\ (found \/ phase = "running") /\ Nowhere("reply")
      BY <1>7, <2>3, StartsWhen
    <3>2. hostBaud # NoBaud
      BY <1>7 DEF Starts, HostStarts
    <3>3. found
      BY <3>1, <3>2 DEF SearchInv
    <3>4. Nowhere("reply")'
      BY <1>7, <2>3, <3>1, Kinds DEF Nowhere, Starts, HostStarts, Typed, ReceiveTyped
    <3> QED
      BY <1>a, <2>1, <3>1, <3>3, <3>4 DEF AnswerInv
  <2> QED
    BY <2>2, <2>3
<1>8. CASE HostEnds
  <2>1. hostTx # NoPacket /\ baud = hostBaud /\ UNCHANGED <<timer, baud, found>>
    BY <1>8, SendsAtBaud DEF HostEnds
  <2>2. CASE timer
    <3>1. OnLine("reply") /\ owes = Target
      BY <2>1, <2>2 DEF AnswerInv, Answered, Quiet, InBuffer, AtProcessor
    <3>2. owes' = NoBaud /\ hostBaud' = Target
      BY <1>8, <3>1 DEF HostEnds, OnLine, IsReply
    <3>3. Answered'
      BY <1>8, <2>1, <3>1, <3>2, EndsInBuffer DEF Answered, Special
    <3> QED
      BY <1>a, <2>1, <2>2, <3>2, <3>3 DEF AnswerInv
  <2>3. CASE ~timer
    <3>1. Nowhere("reply") /\ owes = NoBaud /\ (~found => Quiet)
      BY <2>3 DEF AnswerInv
    <3>2. Nowhere("reply")'
      BY <1>8, <1>b, <2>1, <3>1 DEF Starts, HostStarts
    <3>3. owes' = NoBaud
      BY <1>8, <3>1 DEF HostEnds, Nowhere, IsReply
    <3>4. found
      BY <2>1, <3>1 DEF Quiet
    <3> QED
      BY <1>a, <2>1, <2>3, <3>2, <3>3, <3>4 DEF AnswerInv
  <2> QED
    BY <2>2, <2>3
<1>9. \/ UNCHANGED <<timer, owes, baud, hostBaud, found, hostTx, behind, processor,
                     buffers, cur>>
      \/ TryBaud \/ FallBack \/ EndTx \/ TimerExpires \/ RxDecode \/ Process
      \/ (\E p \in Packets : Starts(p)) \/ HostEnds
  BY Actions DEF Typed, SendData, TakeDiscovered, DiscoveryOver, TakeNegotiating,
     StartTx, RxTake, HostGivesUp, vars
<1> QED
  BY <1>1, <1>2, <1>3, <1>4, <1>5, <1>6, <1>7, <1>8, <1>9

-----------------------------------------------------------------------------
(* The discovery leaves a baud rate only when nobody has answered at it. *)
LEMMA SearchStep ==
  ASSUME Typed, LockInv, MessageInv, DiscoveryInv, AnswerInv, SearchInv, AskedInv,
         AgreeInv, ReceiveInv, [Next]_vars
  PROVE  SearchInv'
<1> USE DEF nego, boot, tx, rx, queue, host
<1>n. Target # NoBaud
  BY NcpUartAssumption
<1>a. Answered => timer
  <2>1. ASSUME InBuffer("reply") PROVE timer
    BY <2>1 DEF AnswerInv, Nowhere, InBuffer, Typed, ReceiveTyped
  <2>2. ASSUME AtProcessor("reply") PROVE timer
    BY <2>2, AtProcessorOnly DEF AnswerInv, Nowhere, AtProcessor, Typed, Special
  <2> QED
    BY <2>1, <2>2 DEF Answered
<1>1. CASE UNCHANGED <<found, hostBaud, phase, idx, discovered, baud, owes, hostTx, behind,
                       processor, buffers, cur>>
  BY <1>1 DEF SearchInv, Answered, InBuffer, AtProcessor
<1>2. CASE TryBaud
  <2> SUFFICES ASSUME hostBaud # NoBaud PROVE SearchInv'
    BY <1>2 DEF SearchInv, TryBaud
  <2>1. ~found /\ phase = "try" /\ idx > 0 /\ ~timer /\ idx \in Nat
    BY <1>2, NcpUartAssumption, LenProperties DEF TryBaud, DiscoveryInv, Typed, SearchTyped
  <2>2. PICK i \in 1..idx : hostBaud = Acceptable[i]
    BY <1>a, <2>1 DEF SearchInv
  <2>3. /\ idx' = idx - 1 /\ baud' = Acceptable[idx] /\ phase' = "wait"
        /\ UNCHANGED <<discovered, hostBaud>>
    BY <1>2 DEF TryBaud
  <2>4. ~discovered
    BY <2>1 DEF DiscoveryInv
  <2>5. i = idx \/ i \in 1..idx'
    BY <2>1, <2>3
  <2> QED
    BY <2>2, <2>3, <2>4, <2>5 DEF SearchInv
<1>3. CASE TakeDiscovered
  <2>1. ~timer
    BY <1>3 DEF TakeDiscovered, DiscoveryInv
  <2> QED
    BY <1>3, <1>a, <2>1 DEF TakeDiscovered, SearchInv
<1>4. CASE DiscoveryOver
  BY <1>4 DEF DiscoveryOver, SearchInv
<1>5. CASE FallBack
  <2>1. ~timer /\ ~found /\ idx = 0 /\ phase = "try"
    BY <1>5 DEF FallBack, DiscoveryInv
  <2>2. hostBaud = NoBaud
    BY <1>a, <2>1 DEF SearchInv
  <2> QED
    BY <1>5, <2>2 DEF FallBack, SearchInv
<1>6. CASE EndTx
  <2>1. sending # NoPacket /\ sending.item \in Items /\ ~timer
    BY <1>6, Kinds DEF EndTx, Typed, SendTyped, LockInv
  <2>2. UNCHANGED <<found, phase, idx, discovered>>
    BY <1>6 DEF EndTx
  <2>3. CASE found
    BY <2>2, <2>3 DEF SearchInv
  <2>4. CASE ~found
    <3>1. event # "reply"
      BY <2>4 DEF AskedInv
    <3>2. sending.item.kind # "reply"
      BY <2>1, <3>1 DEF MessageInv, Data
    <3>3. UNCHANGED <<baud, hostBaud>>
      BY <1>6, <2>1, <3>1, <3>2 DEF EndTx, PostTxEvent, HostHears, Typed, SearchTyped
    <3> QED
      BY <1>a, <2>1, <2>2, <3>3 DEF SearchInv
  <2> QED
    BY <2>3, <2>4
<1>7. CASE TimerExpires
  <2>1. owes = NoBaud /\ timer
    BY <1>7 DEF TimerExpires
  <2>2. ~Answered
    <3>1. Nowhere("reply")
      BY <1>7, Kinds DEF TimerExpires, ReplyComing, IsReply, Nowhere
    <3>2. ~InBuffer("reply")
      BY <3>1 DEF InBuffer, Nowhere, Typed, ReceiveTyped
    <3>3. ~AtProcessor("reply")
      BY <3>1, AtProcessorOnly DEF AtProcessor, Nowhere, Typed, Special
    <3> QED
      BY <3>2, <3>3 DEF Answered
  <2>3. hostBaud # baud
    BY <1>n, <2>1, <2>2 DEF AnswerInv
  <2> QED
    BY <1>7, <2>2, <2>3 DEF TimerExpires, SearchInv
<1>8. CASE RxDecode
  <2>1. UNCHANGED <<found, hostBaud, phase, idx, discovered, baud, owes>>
    BY <1>8 DEF RxDecode
  <2>2. Answered => Answered'
    <3>1. ~AtProcessor("reply")
      BY <1>8 DEF AtProcessor, RxDecode, ReceiveInv
    <3> QED
      BY <1>8, <2>1, <3>1, DecodedToProcessor DEF Answered, Special
  <2> QED
    BY <2>1, <2>2 DEF SearchInv
<1>9. CASE Process
  <2>1. CASE timer
    <3>1. BaudReply /\ phase = "wait"
      BY <1>9, <2>1, ReplyStops DEF DiscoveryInv
    <3> QED
      BY <3>1 DEF BaudReply, SearchInv
  <2>2. CASE ~timer
    <3>1. Head(processor).kind # "reply"
      BY <1>9, <2>2, ReplyIsAwaited DEF Typed
    <3>2. UNCHANGED <<found, hostBaud, phase, idx, discovered, baud>>
      BY <1>9, <3>1 DEF Process, BaudRequest
    <3> QED
      BY <1>a, <2>2, <3>2 DEF SearchInv
  <2> QED
    BY <2>1, <2>2
<1>10. ASSUME NEW p \in Packets, Starts(p)
       PROVE  SearchInv'
  <2>1. UNCHANGED <<found, hostBaud, phase, idx, discovered, baud>>
    BY <1>10 DEF Starts, HostStarts
  <2>2. ~Answered
    <3>1. Nowhere("reply")
      BY <1>10, StartsWhen
    <3>2. ~InBuffer("reply")
      BY <3>1 DEF InBuffer, Nowhere, Typed, ReceiveTyped
    <3>3. ~AtProcessor("reply")
      BY <3>1, AtProcessorOnly DEF AtProcessor, Nowhere, Typed, Special
    <3> QED
      BY <3>2, <3>3 DEF Answered
  <2> QED
    BY <2>1, <2>2 DEF SearchInv
<1>11. CASE HostEnds
  <2>1. hostTx # NoPacket /\ baud = hostBaud
        /\ UNCHANGED <<found, phase, idx, discovered, baud>>
    BY <1>11, SendsAtBaud DEF HostEnds
  <2>2. CASE found
    BY <2>1, <2>2 DEF SearchInv
  <2>3. CASE ~found
    <3>1. timer
      BY <2>1, <2>3 DEF AnswerInv, Quiet
    <3>2. OnLine("reply") /\ owes = Target
      BY <2>1, <3>1 DEF AnswerInv, Answered, Quiet, InBuffer, AtProcessor
    <3>3. owes' = NoBaud
      BY <1>11, <3>2 DEF HostEnds, OnLine, IsReply
    <3>4. Answered' /\ phase = "wait"
      BY <1>11, <2>1, <3>1, <3>2, <3>3, EndsInBuffer DEF Answered, Special, DiscoveryInv
    <3> QED
      BY <2>1, <3>4 DEF SearchInv
  <2> QED
    BY <2>2, <2>3
<1>12. \/ UNCHANGED <<found, hostBaud, phase, idx, discovered, baud, owes, hostTx, behind,
                      processor, buffers, cur>>
       \/ TryBaud \/ TakeDiscovered \/ DiscoveryOver \/ FallBack \/ EndTx \/ TimerExpires
       \/ RxDecode \/ Process \/ (\E p \in Packets : Starts(p)) \/ HostEnds
  BY Actions DEF Typed, SendData, TakeNegotiating, StartTx, RxTake, HostGivesUp, vars
<1> QED
  BY <1>1, <1>2, <1>3, <1>4, <1>5, <1>6, <1>7, <1>8, <1>9, <1>10, <1>11, <1>12

-----------------------------------------------------------------------------
(* The host's request moves on, is answered, or given up. *)
LEMMA AskedStep ==
  ASSUME Typed, LockInv, MessageInv, DiscoveryInv, AnswerInv, AskedInv, AgreeInv,
         ReceiveInv, [Next]_vars
  PROVE  AskedInv'
<1> USE DEF AskedInv, nego, boot, tx, rx, queue, host
<1>a. OnlyThere("request")'
  BY OnlyThereStep DEF Special
<1>b. ASSUME Nowhere("request"), \A p : Starts(p) => p.kind # "request"
      PROVE  Nowhere("request")'
  BY <1>b, NowhereStep DEF Special
<1>c. ~TryBaud /\ (Process => UNCHANGED txQueue) /\ NoMessage => NoMessage'
  BY NoMessageStep
<1>1. CASE /\ UNCHANGED <<asked, event, requested, found, phase, hostTx, behind, processor,
                          buffers, cur>>
           /\ NoMessage => NoMessage'
  <2>1. (AskedAt => AskedAt') /\ (Nowhere("request")' <=> Nowhere("request"))
    BY <1>1 DEF AskedAt, OnLine, InBuffer, AtProcessor, Quiet, Nowhere
  <2> QED
    BY <1>1, <1>a, <2>1
<1>2. CASE TryBaud \/ FallBack \/ TakeDiscovered \/ DiscoveryOver
  <2>1. asked = NoBaud /\ asked' = NoBaud
    BY <1>2 DEF TryBaud, FallBack, TakeDiscovered, DiscoveryOver
  <2>2. event' # "reply"
    BY <1>2, <2>1 DEF TryBaud, FallBack, TakeDiscovered, DiscoveryOver, Negotiate
  <2>3. Nowhere("request")'
    BY <1>2, <2>1 DEF TryBaud, FallBack, TakeDiscovered, DiscoveryOver, Nowhere
  <2> QED
    BY <1>a, <2>1, <2>2, <2>3
<1>3. CASE EndTx
  <2>1. sending # NoPacket /\ sending.item \in Items
    BY <1>3, Kinds DEF EndTx, Typed, SendTyped
  <2>2. UNCHANGED <<found, phase, requested, hostTx, behind, processor, buffers, cur>>
    BY <1>3 DEF EndTx, HostHears
  <2>3. Nowhere("request")' <=> Nowhere("request")
    BY <2>2 DEF Nowhere
  <2>4. CASE sending.item = Data
    <3>1. UNCHANGED <<asked, event>>
      BY <1>3, <2>4 DEF EndTx, HostHears, Data
    <3>2. NoMessage => NoMessage'
      BY <1>3, <2>4 DEF EndTx, NoMessage
    <3> QED
      BY <1>1, <2>2, <3>1, <3>2
  <2>5. CASE sending.item # Data
    <3>1. sending.item.kind = event /\ event \in {"request", "reply"} /\ event' = "none"
      BY <1>3, <2>1, <2>5, Kinds DEF MessageInv, EndTx
    <3>2. CASE event = "request"
      <4>1. asked = NoBaud /\ asked' = NoBaud
        BY <1>3, <3>1, <3>2 DEF EndTx, HostHears, DiscoveryInv
      <4> QED
        BY <1>a, <2>3, <3>1, <4>1
    <3>3. CASE event = "reply"
      <4>1. Quiet /\ found /\ phase = "running"
        BY <2>1, <2>5, <3>3, ReplyIsAsked DEF NoMessage
      <4>2. Nowhere("request")
        BY <4>1, QuietNowhere DEF Special
      <4>3. AskedAt'
        <5>1. IsData(txQueue) /\ held = NoPacket
          BY <2>1, <2>5 DEF MessageInv, LockInv
        <5>2. NoMessage'
          BY <1>3, <5>1 DEF EndTx, NoMessage
        <5> QED
          BY <2>2, <4>1, <5>2 DEF AskedAt, Quiet
      <4> QED
        BY <1>a, <2>2, <2>3, <3>1, <4>1, <4>2, <4>3
    <3> QED
      BY <3>1, <3>2, <3>3
  <2> QED
    BY <2>4, <2>5
<1>4. CASE RxDecode
  <2>1. UNCHANGED <<asked, event, requested, found, phase, hostTx>>
    BY <1>4 DEF RxDecode
  <2>2. ~Quiet /\ ~OnLine("request") /\ ~AtProcessor("request")
    BY <1>4 DEF RxDecode, Quiet, OnLine, AtProcessor, ReceiveInv
  <2>3. CASE asked # NoBaud
    <3>1. InBuffer("request") /\ buffers[2 - cur].baud = asked /\ NoMessage
      BY <2>2, <2>3 DEF AskedAt
    <3>2. NoMessage'
      BY <1>4, <3>1 DEF RxDecode, NoMessage
    <3>3. AskedAt'
      BY <1>4, <2>1, <3>1, <3>2, DecodedToProcessor DEF AskedAt, Special
    <3> QED
      BY <1>a, <2>1, <2>3, <3>3
  <2>4. CASE asked = NoBaud
    <3>1. Nowhere("request")'
      BY <1>4, <1>b, <2>4 DEF RxDecode, Starts, HostStarts
    <3>2. NoMessage => NoMessage'
      BY <1>4 DEF RxDecode, NoMessage
    <3> QED
      BY <1>a, <2>1, <2>4, <3>1, <3>2
  <2> QED
    BY <2>3, <2>4
<1>5. CASE Process
  <2>1. CASE asked # NoBaud
    <3>1. AtProcessor("request") /\ Head(processor).baud = asked /\ NoMessage
      BY <1>5, <2>1 DEF AskedAt, OnLine, InBuffer, Quiet, Process
    <3>2. BaudRequest(asked)
      BY <1>5, <3>1 DEF Process, AtProcessor
    <3>3. /\ Quiet' /\ UNCHANGED <<asked, found, phase>>
      BY <1>5, <3>1, <3>2 DEF Process, BaudRequest, AtProcessor, Quiet
    <3>4. AskedAt'
      <4>1. CASE asked \in Bauds
        BY <3>2, <3>3, <4>1 DEF BaudRequest, AskedAt
      <4>2. CASE asked \notin Bauds
        <5>1. NoMessage'
          BY <1>5, <3>1, <3>2, <4>2 DEF Process, BaudRequest, NoMessage
        <5> QED
          BY <3>3, <5>1 DEF AskedAt
      <4> QED
        BY <4>1, <4>2
    <3> QED
      BY <1>a, <2>1, <3>3, <3>4
  <2>2. CASE asked = NoBaud
    <3>1. Head(processor).kind # "request"
      BY <1>5, <2>2, RequestIsAsked
    <3>2. UNCHANGED <<asked, event, phase, txQueue, held, sending>> /\ (found => found')
      BY <1>5, <3>1 DEF Process, BaudReply
    <3>3. Nowhere("request")'
      BY <1>5, <1>b, <2>2, StartsWhen DEF Process, Starts, HostStarts
    <3>4. NoMessage => NoMessage'
      BY <3>2 DEF NoMessage
    <3> QED
      BY <1>a, <2>2, <3>2, <3>3, <3>4
  <2> QED
    BY <2>1, <2>2
<1>6. ASSUME NEW p \in Packets, Starts(p)
      PROVE  AskedInv'
  <2>1. /\ UNCHANGED <<event, requested, found, phase, behind, processor>> /\ hostTx' = p
        /\ NoMessage => NoMessage'
    BY <1>6 DEF Starts, HostStarts, NoMessage
  <2>2. asked = NoBaud /\ Nowhere("request")
    BY <1>6, StartsWhen
  <2>3. CASE p.kind = "request"
    <3>1. Quiet /\ found /\ phase = "running" /\ asked' = p.baud
      BY <1>6, <2>3, StartsWhen DEF Starts
    <3>2. NoMessage'
      BY <2>1, <2>2, <3>1, NoEventAllData DEF DiscoveryInv, Typed, SearchTyped
    <3>3. p.baud # NoBaud
      BY <1>6, <2>3, NcpUartAssumption DEF Starts
    <3>4. AskedAt'
      BY <2>1, <2>3, <3>1, <3>2 DEF AskedAt, OnLine, Quiet
    <3> QED
      BY <1>a, <2>1, <3>1, <3>3, <3>4
  <2>4. CASE p.kind # "request"
    <3>1. asked' = NoBaud
      BY <1>6, <2>2, <2>4 DEF Starts
    <3>2. Nowhere("request")'
      BY <1>6, <2>2, <2>4, Kinds DEF Nowhere, Starts, HostStarts, Typed, ReceiveTyped
    <3> QED
      BY <1>a, <2>1, <2>2, <3>1, <3>2
  <2> QED
    BY <2>3, <2>4
<1>7. CASE HostGivesUp
  <2>1. /\ hostTx = NoPacket /\ pending = Empty /\ reading = Empty /\ processor = <<>>
        /\ asked # NoBaud /\ asked' = NoBaud /\ ~Underway("reply")
    BY <1>7 DEF HostGivesUp
  <2>2. behind = 0
    BY <2>1 DEF ReceiveInv, One, Typed, ReceiveTyped, HostTyped, Empty
  <2>3. Nowhere("request")
    BY <2>1, <2>2, QuietNowhere DEF Quiet, Special
  <2>4. event = "reply" => NoMessage
    BY <2>1, NoEventAllData
  <2>5. /\ Nowhere("request")' /\ UNCHANGED <<event, found, phase>>
        /\ NoMessage => NoMessage'
    BY <1>7, <2>3 DEF HostGivesUp, Nowhere, NoMessage
  <2> QED
    BY <1>a, <2>1, <2>4, <2>5
<1>8. CASE HostEnds
  <2>1. /\ hostTx # NoPacket /\ baud = hostBaud
        /\ UNCHANGED <<asked, event, requested, found, phase>>
        /\ NoMessage => NoMessage'
    BY <1>8, SendsAtBaud DEF HostEnds, NoMessage
  <2>2. CASE asked # NoBaud
    <3>1. OnLine("request") /\ hostTx.baud = asked /\ NoMessage
      BY <2>1, <2>2 DEF AskedAt, InBuffer, AtProcessor, Quiet
    <3>2. AskedAt'
      BY <1>8, <2>1, <3>1, EndsInBuffer DEF AskedAt, Special
    <3> QED
      BY <1>a, <2>1, <2>2, <3>2
  <2>3. CASE asked = NoBaud
    <3>1. Nowhere("request")'
      BY <1>8, <1>b, <2>1, <2>3 DEF Starts, HostStarts
    <3> QED
      BY <1>a, <2>1, <2>3, <3>1
  <2> QED
    BY <2>2, <2>3
<1>9. \/ /\ UNCHANGED <<asked, event, requested, found, phase, hostTx, behind, processor,
                        buffers, cur>>
         /\ NoMessage => NoMessage'
      \/ TryBaud \/ FallBack \/ TakeDiscovered \/ DiscoveryOver \/ EndTx \/ RxDecode
      \/ Process \/ (\E p \in Packets : Starts(p)) \/ HostGivesUp \/ HostEnds
  BY <1>c, Actions DEF Typed, SendData, TakeNegotiating, StartTx, RxTake, TimerExpires, vars
<1> QED
  BY <1>1, <1>2, <1>3, <1>4, <1>5, <1>6, <1>7, <1>8, <1>9

-----------------------------------------------------------------------------
(* What the task decodes is a packet, and follows on the last one. *)
LEMMA DecodesInOrder ==
  ASSUME Typed, ReceiveInv, RxDecode
  PROVE  /\ reading + 1 \in 1..2 /\ buffers[reading + 1] \in Packets
         /\ Follows(buffers[reading + 1])
         /\ last' = buffers[reading + 1].n
         /\ processor' = Append(processor, buffers[reading + 1])
<1>1. reading \in {0, 1} /\ cur \in {0, 1} /\ behind \in 0..2
      /\ reading # Empty
  BY DEF RxDecode, Typed, ReceiveTyped, HostTyped, Empty
<1>2. buffers[reading + 1] # NoPacket /\ Follows(buffers[reading + 1])
  <2>1. CASE behind = 0
    BY <1>1, <2>1 DEF ReceiveInv
  <2>2. CASE behind = 1
    BY <1>1, <2>2 DEF ReceiveInv, One, Follows
  <2>3. CASE behind = 2
    BY <1>1, <2>3 DEF ReceiveInv, One
  <2> QED
    BY <1>1, <2>1, <2>2, <2>3
<1>3. reading + 1 \in 1..2
  BY <1>1
<1> QED
  BY <1>2, <1>3 DEF RxDecode, Typed, ReceiveTyped

(* The buffers are switched, and the notification moves, with each packet. *)
LEMMA ReceiveStep ==
  ASSUME Typed, DiscoveryInv, AnswerInv, SearchInv, AskedInv, AgreeInv, ReceiveInv,
         [Next]_vars
  PROVE  ReceiveInv'
<1> USE DEF nego, boot, tx, rx, queue, host
<1>0. /\ number \in 0..7 /\ last \in 0..7 /\ behind \in 0..2 /\ cur \in {0, 1}
      /\ pending \in 0..2 /\ reading \in 0..2 /\ Empty = 2
      /\ cur + 1 \in 1..2 /\ 2 - cur \in 1..2
      /\ buffers \in [1..2 -> Packets \union {NoPacket}]
  BY DEF Typed, HostTyped, ReceiveTyped, Empty
<1>1. CASE UNCHANGED <<hostTx, number, last, behind, pending, reading, cur, buffers>>
  BY <1>1 DEF ReceiveInv, Came, Ago, After, Follows, One
<1>2. CASE TryBaud \/ FallBack
  <2>1. behind = 0 /\ hostTx = NoPacket
    BY <1>2 DEF TryBaud, FallBack, DiscoveryInv, AnswerInv, Quiet
  <2>2. /\ cur' = 0 /\ UNCHANGED <<hostTx, number, last, behind, pending, reading>>
    BY <1>2 DEF TryBaud, FallBack
  <2>3. Came' = Came
    BY <2>2 DEF Came
  <2> QED
    BY <2>1, <2>2, <2>3 DEF ReceiveInv
<1>3. CASE RxTake
  <2>1. /\ UNCHANGED <<hostTx, number, last, behind, cur, buffers>>
        /\ reading = Empty /\ pending # Empty /\ reading' = pending /\ pending' = Empty
    BY <1>3 DEF RxTake
  <2>2. /\ Came' = Came
        /\ \A p, k : (Ago(p, k)' <=> Ago(p, k)) /\ (After(p, k)' <=> After(p, k))
                     /\ (Follows(p)' <=> Follows(p))
    BY <2>1 DEF Came, Ago, After, Follows
  <2>3. behind # 0
    BY <2>1 DEF ReceiveInv
  <2>4. behind = 1 => One(1 - cur)'
    BY <1>0, <2>1 DEF ReceiveInv, One
  <2>5. behind = 2 => One(0) /\ One(0)'
    BY <1>0, <2>1 DEF ReceiveInv, One
  <2>6. behind = 2 => reading # cur
    BY <1>0, <2>1
  <2> QED
    BY <1>0, <2>1, <2>2, <2>3, <2>4, <2>5, <2>6 DEF ReceiveInv, Ago, After, Follows
<1>4. CASE RxDecode
  <2>1. /\ UNCHANGED <<hostTx, number, cur, pending>>
        /\ reading \in {0, 1} /\ reading' = Empty /\ last' = buffers[reading + 1].n
        /\ behind' = IF pending = Empty THEN 0 ELSE 1
        /\ \A i \in 1..2 : i # reading + 1 => buffers'[i] = buffers[i]
    BY <1>0, <1>4, DecodesInOrder DEF RxDecode
  <2>2. Came' = Came /\ Came \in 0..7
    BY <1>0, <2>1 DEF Came
  <2>3. CASE behind = 1
    <3>1. reading = 1 - cur /\ pending = Empty /\ Ago(buffers[2 - cur], 1)
      BY <1>0, <2>1, <2>3 DEF ReceiveInv, One
    <3>2. reading + 1 = 2 - cur
      BY <1>0, <3>1
    <3>3. Came = (last' + 1) % 8
      BY <2>1, <3>1, <3>2 DEF Ago
    <3> QED
      BY <1>0, <2>1, <2>2, <3>1, <3>3 DEF ReceiveInv
  <2>4. CASE behind = 2 /\ reading = cur /\ pending = 1 - cur
    <3>1. /\ Ago(buffers[cur + 1], 2) /\ buffers[2 - cur] # NoPacket
          /\ Ago(buffers[2 - cur], 1)
      BY <1>0, <2>4 DEF ReceiveInv, One
    <3>2. behind' = 1 /\ One(1 - cur)' /\ buffers'[2 - cur'] = buffers[2 - cur]
      BY <1>0, <2>1, <2>4 DEF One
    <3>3. buffers[2 - cur].n \in 0..7 /\ buffers[cur + 1].n \in 0..7
      <4>1. buffers[2 - cur] \in Packets /\ buffers[cur + 1] \in Packets
        BY <1>0, <1>4, <2>4, <3>1, DecodesInOrder
      <4> QED
        BY <4>1, Kinds
    <3>4. last' = buffers[cur + 1].n
      BY <2>1, <2>4
    <3>5. buffers[2 - cur].n = (last' + 1) % 8
      BY <2>2, <3>1, <3>3, <3>4 DEF Ago
    <3>6. Ago(buffers[2 - cur], 1)' /\ After(buffers[2 - cur], 1)'
      BY <2>1, <2>2, <3>1, <3>2, <3>5 DEF Ago, After
    <3> QED
      BY <1>0, <2>1, <2>4, <3>1, <3>2, <3>6 DEF ReceiveInv
  <2>5. CASE behind = 2 /\ ~(reading = cur /\ pending = 1 - cur)
    <3>1. /\ reading = 0 /\ pending = Empty
          /\ IF cur = 0 THEN Ago(buffers[1], 2) ELSE Ago(buffers[1], 1)
      BY <1>0, <2>1, <2>5 DEF ReceiveInv, One
    <3>2. last' = buffers[1].n /\ behind' = 0
      BY <2>1, <3>1
    <3>3. IF cur = 0 THEN Came = (last' + 2) % 8 ELSE Came = (last' + 1) % 8
      BY <3>1, <3>2 DEF Ago
    <3> QED
      BY <1>0, <2>1, <2>2, <2>5, <3>1, <3>2, <3>3 DEF ReceiveInv
  <2>6. behind # 0
    BY <1>0, <2>1 DEF ReceiveInv
  <2> QED
    BY <1>0, <2>3, <2>4, <2>5, <2>6
<1>5. ASSUME NEW p \in Packets, Starts(p)
      PROVE  ReceiveInv'
  <2>1. /\ hostTx = NoPacket /\ hostTx' = p /\ p # NoPacket /\ p.n = number /\ behind < 2
        /\ number' = (number + 1) % 8
        /\ UNCHANGED <<last, behind, pending, reading, cur>>
        /\ \A i \in 1..2 : i # cur + 1 => buffers'[i] = buffers[i]
    BY <1>0, <1>5, Kinds DEF Starts, HostStarts
  <2>2. Came' = Came
    BY <1>0, <2>1 DEF Came
  <2>3. CASE behind = 0
    BY <1>0, <2>1, <2>2, <2>3 DEF ReceiveInv
  <2>4. CASE behind = 1
    <3>1. /\ One(1 - cur) /\ buffers[2 - cur] # NoPacket /\ Ago(buffers[2 - cur], 1)
          /\ After(buffers[2 - cur], 1) \/ (After(buffers[2 - cur], 2) /\ cur = 1)
      BY <2>4 DEF ReceiveInv
    <3>2. 2 - cur # cur + 1
      BY <1>0
    <3>3. buffers'[2 - cur'] = buffers[2 - cur]
      BY <1>0, <2>1, <3>2
    <3>4. One(1 - cur)'
      BY <2>1, <3>1 DEF One
    <3>5. /\ Ago(buffers[2 - cur], 1)'
          /\ After(buffers[2 - cur], 1)' \/ (After(buffers[2 - cur], 2)' /\ cur' = 1)
      BY <2>1, <2>2, <3>1, <3>3 DEF Ago, After
    <3> QED
      BY <1>0, <2>1, <2>4, <3>1, <3>3, <3>4, <3>5 DEF ReceiveInv
  <2> QED
    BY <1>0, <2>1, <2>3, <2>4
<1>6. CASE HostEnds
  <2>1. /\ hostTx # NoPacket /\ hostTx \in Packets /\ hostTx' = NoPacket
        /\ baud = hostBaud /\ (hostTx.n + 1) % 8 = number /\ behind \in {0, 1}
    BY <1>0, <1>6, SendsAtBaud DEF HostEnds, ReceiveInv, Typed, HostTyped
  <2>2. /\ cur' = 1 - cur /\ behind' = behind + 1 /\ reading' = reading
        /\ pending' = IF pending = Empty THEN cur ELSE IF cur' = 1 THEN 0 ELSE pending
        /\ UNCHANGED <<number, last>>
        /\ buffers'[cur + 1] = hostTx /\ buffers'[2 - cur] = buffers[2 - cur]
    <3>1. 2 - cur # cur + 1
      BY <1>0
    <3> QED
      BY <1>0, <1>6, <2>1, <3>1 DEF HostEnds, NextBuffer
  <2>3. hostTx.n \in 0..7
    BY <2>1, Kinds
  <2>4. Came' = number /\ (Came + 1) % 8 = number /\ Came \in 0..7 /\ hostTx.n = Came
    BY <1>0, <2>1, <2>2, <2>3 DEF Came
  <2>5. CASE behind = 0
    <3>1. /\ pending = Empty /\ reading = Empty
          /\ Came = (last + 1) % 8 \/ (Came = (last + 2) % 8 /\ cur = 0)
      BY <2>5 DEF ReceiveInv
    <3>2. behind' = 1 /\ One(1 - cur)' /\ buffers'[2 - cur'] = hostTx
      <4>1. 2 - cur' = cur + 1 /\ 1 - cur' = cur
        BY <1>0, <2>2
      <4> QED
        BY <2>2, <2>5, <3>1, <4>1 DEF One
    <3>3. buffers'[2 - cur'] # NoPacket /\ Ago(buffers[2 - cur], 1)'
      BY <2>1, <2>4, <3>2 DEF Ago
    <3>4. After(buffers[2 - cur], 1)' \/ (After(buffers[2 - cur], 2)' /\ cur' = 1)
      BY <2>2, <2>4, <3>1, <3>2 DEF After
    <3> QED
      BY <2>1, <3>2, <3>3, <3>4 DEF ReceiveInv
  <2>6. CASE behind = 1
    <3>1. /\ One(1 - cur) /\ buffers[2 - cur] # NoPacket /\ Ago(buffers[2 - cur], 1)
          /\ After(buffers[2 - cur], 1) \/ (After(buffers[2 - cur], 2) /\ cur = 1)
      BY <2>6 DEF ReceiveInv
    <3>2. behind' = 2 /\ buffers[2 - cur].n \in 0..7
      <4>1. buffers[2 - cur] \in Packets
        BY <1>0, <3>1
      <4> QED
        BY <2>2, <2>6, <4>1, Kinds
    <3>3. CASE reading = 1 - cur
      <4>1. pending = Empty
        BY <1>0, <3>1, <3>3 DEF One
      <4>2. /\ reading' = cur' /\ pending' = 1 - cur'
            /\ cur' + 1 = 2 - cur /\ 2 - cur' = cur + 1
        BY <1>0, <2>2, <3>3, <4>1
      <4>3. /\ buffers'[cur' + 1] = buffers[2 - cur] /\ buffers'[2 - cur'] = hostTx
        BY <2>2, <4>2
      <4>4. (buffers[2 - cur].n + 2) % 8 = number
        BY <1>0, <2>4, <3>1, <3>2 DEF Ago
      <4>5. Ago(buffers[cur + 1], 2)' /\ Ago(buffers[2 - cur], 1)'
        BY <2>1, <2>4, <4>3, <4>4 DEF Ago
      <4>6. Follows(buffers[cur + 1])'
        BY <2>2, <3>1, <4>3 DEF Follows, After
      <4> QED
        BY <2>1, <3>1, <3>2, <4>2, <4>3, <4>5, <4>6 DEF ReceiveInv
    <3>4. CASE pending = 1 - cur /\ cur = 1
      <4>1. reading = Empty /\ pending' = 0 /\ cur' = 0 /\ One(0)'
        BY <1>0, <2>2, <3>1, <3>4 DEF One
      <4>2. buffers'[1] = buffers[2 - cur]
        BY <2>2, <3>4
      <4>3. (buffers[2 - cur].n + 2) % 8 = number
        BY <1>0, <2>4, <3>1, <3>2 DEF Ago
      <4>4. Ago(buffers[1], 2)'
        BY <2>4, <4>2, <4>3 DEF Ago
      <4>5. Follows(buffers[1])'
        BY <2>2, <3>1, <4>2 DEF Follows, After
      <4> QED
        BY <2>1, <3>1, <3>2, <4>1, <4>2, <4>4, <4>5 DEF ReceiveInv
    <3>5. CASE pending = 1 - cur /\ cur = 0
      <4>1. reading = Empty /\ pending' = 0 /\ cur' = 1 /\ One(0)'
        BY <1>0, <2>2, <3>1, <3>5 DEF One
      <4>2. buffers'[1] = hostTx
        BY <2>2, <3>5
      <4>3. Ago(buffers[1], 1)'
        BY <2>1, <2>4, <4>2 DEF Ago
      <4>4. hostTx.n = (last + 2) % 8
        BY <1>0, <2>4, <3>1, <3>2, <3>5 DEF Ago, After
      <4>5. Follows(buffers[1])'
        BY <2>2, <4>2, <4>4 DEF Follows, After
      <4> QED
        BY <2>1, <3>1, <3>2, <4>1, <4>2, <4>3, <4>5 DEF ReceiveInv
    <3> QED
      BY <1>0, <3>1, <3>3, <3>4, <3>5 DEF One
  <2> QED
    BY <2>1, <2>5, <2>6
<1>7. \/ UNCHANGED <<hostTx, number, last, behind, pending, reading, cur, buffers>>
      \/ TryBaud \/ FallBack \/ RxTake \/ RxDecode
      \/ (\E p \in Packets : Starts(p)) \/ HostEnds
  BY Actions DEF Typed, SendData, TakeDiscovered, DiscoveryOver, TakeNegotiating,
     StartTx, EndTx, HostHears, TimerExpires, Process, HostGivesUp, vars
<1> QED
  BY <1>1, <1>2, <1>3, <1>4, <1>5, <1>6, <1>7

-----------------------------------------------------------------------------
(* The inductive invariant. *)
IInv ==
  /\ Typed /\ LockInv /\ MessageInv /\ DiscoveryInv /\ AnswerInv /\ SearchInv
  /\ AskedInv /\ AgreeInv /\ ReceiveInv

(* It holds at boot ... *)
LEMMA IInvInit == Init => IInv
<1> SUFFICES ASSUME Init PROVE IInv
  OBVIOUS
<1>1. /\ hostTx = NoPacket /\ behind = 0 /\ processor = <<>>
      /\ buffers[1] = NoPacket /\ buffers[2] = NoPacket
      /\ ~timer /\ event = "none" /\ ~found /\ ~discovered
      /\ owes = NoBaud /\ asked = NoBaud /\ phase = "try"
  BY DEF Init
<1>2. /\ \A k \in Special : Nowhere(k)
      /\ \A k \in Special : OnlyThere(k)
  <2>1. NoPacket.kind = "none" /\ \A i \in 1..2 : buffers[i] = NoPacket
    BY <1>1, Kinds
  <2>2. DOMAIN processor = {}
    BY <1>1
  <2> QED
    BY <1>1, <2>1, <2>2 DEF Nowhere, OnlyThere, Special
<1>3. Typed
  BY TypedInit
<1>4. LockInv
  BY <1>1 DEF Init, LockInv
<1>5. MessageInv
  BY DEF Init, MessageInv, OneMessage
<1>6. DiscoveryInv
  BY <1>1 DEF DiscoveryInv
<1>7. AnswerInv
  BY <1>1, <1>2 DEF AnswerInv, Quiet, Special
<1>8. SearchInv
  <2> SUFFICES ASSUME hostBaud # NoBaud
               PROVE  \E i \in 1..idx : hostBaud = Acceptable[i]
    BY <1>1 DEF SearchInv
  <2>1. hostBaud \in Bauds /\ idx = Len(Acceptable)
    BY DEF Init
  <2>2. DOMAIN Acceptable = 1..Len(Acceptable)
    BY NcpUartAssumption, LenProperties
  <2> QED
    BY <2>1, <2>2 DEF Bauds
<1>9. AskedInv
  BY <1>1, <1>2 DEF AskedInv, Special
<1>10. AgreeInv
  BY <1>1 DEF AgreeInv
<1>11. ReceiveInv
  BY <1>1 DEF Init, ReceiveInv, Came
<1> QED
  BY <1>3, <1>4, <1>5, <1>6, <1>7, <1>8, <1>9, <1>10, <1>11 DEF IInv

(* ... and each step keeps it. *)
LEMMA IInvStep == IInv /\ [Next]_vars => IInv'
<1> SUFFICES ASSUME IInv, [Next]_vars PROVE IInv'
  OBVIOUS
<1> USE DEF IInv
<1>1. Typed'
  BY SearchTypedStep, SendTypedStep, ReceiveTypedStep, HostTypedStep DEF Typed
<1>2. LockInv' /\ MessageInv'
  BY LockStep, MessageStep
<1>3. DiscoveryInv' /\ AnswerInv' /\ SearchInv'
  BY DiscoveryStep, AnswerStep, SearchStep
<1>4. AskedInv' /\ AgreeInv'
  BY AskedStep, AgreeStep
<1>5. ReceiveInv'
  BY ReceiveStep
<1> QED
  BY <1>1, <1>2, <1>3, <1>4, <1>5

(* The bridge and the host satisfy the inductive invariant throughout. *)
THEOREM Inductive == Spec => []IInv
<1> QED
  BY IInvInit, IInvStep, PTL DEF Spec

(* When ncpBaudRateDiscovery() is over, a host that is there has been      *)
(* found, whatever its baud rate: the discovery moves on from a baud rate  *)
(* only when its request found no one there.                               *)
THEOREM HostIsFound == Spec => []FoundIfThere
<1>1. IInv => FoundIfThere
  BY DEF IInv, SearchInv, FoundIfThere
<1> QED
  BY <1>1, Inductive, PTL

(* From then on bridge and host have the same baud rate, except while the  *)
(* bridge waits for a reply: postTxEventHandle() and baud_rate_reply_cb()  *)
(* change it together with the host.                                       *)
THEOREM BaudIsShared == Spec => []SameBaud
<1>1. IInv => SameBaud
  BY DEF IInv, AgreeInv, SameBaud
<1> QED
  BY <1>1, Inductive, PTL

(* Neither of these changes the baud rate while a message is on the line   *)
(* in either direction: the negotiating lock keeps back the bridge's own.  *)
THEOREM NoMessageIsCut == Spec => BaudBetweenMessages
<1>1. IInv /\ [Next]_vars =>
        (baud' # baud /\ phase' = phase => sending' = NoPacket /\ hostTx = NoPacket)
  <2> SUFFICES ASSUME IInv, [Next]_vars, baud' # baud, phase' = phase
               PROVE  sending' = NoPacket /\ hostTx = NoPacket
    OBVIOUS
  <2> USE DEF IInv, nego, boot, tx, rx, queue, host
  <2>1. EndTx \/ Process
    BY Actions DEF Typed, SendData, TryBaud, FallBack, TakeDiscovered, DiscoveryOver,
       TakeNegotiating, StartTx, RxTake, RxDecode, TimerExpires, Starts, HostStarts,
       HostGivesUp, HostEnds, vars
  <2>2. CASE EndTx
    <3>1. event = "reply"
      BY <2>2 DEF EndTx, PostTxEvent, Typed, SearchTyped
    <3>2. ~NoMessage
      BY <2>2 DEF EndTx, NoMessage
    <3>3. Quiet
      BY <3>1, <3>2, ReplyIsAsked
    <3> QED
      BY <2>2, <3>3 DEF EndTx, Quiet
  <2>3. CASE Process
    <3>1. Head(processor).kind = "reply"
      BY <2>3 DEF Process, BaudRequest
    <3>2. timer
      BY <2>3, <3>1, ReplyIsAwaited DEF Typed
    <3>3. sending = NoPacket /\ AtProcessor("reply")
      BY <2>3, <3>2 DEF LockInv, AnswerInv, Answered, Quiet, OnLine, InBuffer, Process
    <3> QED
      BY <2>3, <3>3 DEF Process, AtProcessor
  <2> QED
    BY <2>1, <2>2, <2>3
<1> QED
  BY <1>1, Inductive, PTL DEF Spec, BaudBetweenMessages

(* ncpRXTask() decodes only whole packets, in the order in which they      *)
(* came, none twice, and misses at most one in between: as long as the     *)
(* host is no more than one packet ahead of the task, the interrupt never  *)
(* writes to a buffer that the task works on or has been told of.          *)
THEOREM InOrder == Spec => PacketsInOrder
<1>1. IInv /\ [Next]_vars =>
        (reading # Empty /\ reading' = Empty =>
           processor' # processor /\ (last' + 8 - last) % 8 \in {1, 2})
  <2> SUFFICES ASSUME IInv, [Next]_vars, reading # Empty, reading' = Empty
               PROVE  processor' # processor /\ (last' + 8 - last) % 8 \in {1, 2}
    OBVIOUS
  <2> USE DEF IInv, nego, boot, tx, rx, queue, host
  <2>1. RxDecode
    BY Actions DEF Typed, SendData, TryBaud, FallBack, TakeDiscovered, DiscoveryOver,
       TakeNegotiating, StartTx, EndTx, Process, RxTake, TimerExpires, Starts, HostStarts,
       HostGivesUp, HostEnds, vars
  <2>2. /\ buffers[reading + 1] \in Packets /\ Follows(buffers[reading + 1])
        /\ last' = buffers[reading + 1].n
        /\ processor' = Append(processor, buffers[reading + 1])
    BY <2>1, DecodesInOrder
  <2>3. processor' # processor
    <3>1. processor \in Seq(Packets)
      BY DEF Typed, ReceiveTyped
    <3>2. Len(processor') = Len(processor) + 1 /\ Len(processor) \in Nat
      BY <2>2, <3>1, AppendProperties, LenProperties
    <3> QED
      BY <3>2
  <2>4. last \in 0..7 /\ (last' = (last + 1) % 8 \/ last' = (last + 2) % 8)
    BY <2>2 DEF Follows, After, Typed, ReceiveTyped
  <2>5. (last' + 8 - last) % 8 \in {1, 2}
    BY <2>4
  <2> QED
    BY <2>3, <2>5
<1> QED
  BY <1>1, Inductive, PTL DEF Spec, PacketsInOrder
=============================================================================
