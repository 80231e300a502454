------------------------------- MODULE NcpUart -------------------------------
(***************************************************************************)
(* The serial link between bridge and host (lib/bm_ncp/ncp_uart.cpp): the  *)
(* transmit task with its two locks, the negotiation of the baud rate,     *)
(* which the bridge opens at boot and the host at any time after it, and   *)
(* the two receive buffers between interrupt, receive task and processor.  *)
(*                                                                         *)
(* The host is external.  It uses the line as follows: it answers a        *)
(* request it understands before the bridge's timer expires, asks for a    *)
(* baud rate of its own only after discovery and once at a time, sends     *)
(* nothing else while a negotiation is open, and runs at most one packet   *)
(* ahead of the receive task.                                              *)
(*                                                                         *)
(* A packet that is cut by a change of baud rate, or sent at another than  *)
(* the receiver's, is lost.  COBS, CRC and the wake-up line are left out.  *)
(***************************************************************************)
EXTENDS Naturals, Sequences

CONSTANTS
  Acceptable,   (* acceptable_bauds, a sequence                            *)
  Target,       (* the baud rate that discovery negotiates                 *)
  Fallback,     (* the baud rate without a host                            *)
  HostBauds,    (* baud rates that the host asks for                       *)
  NoBaud,       (* no baud rate: no host, or no negotiation                *)
  TxDepth,      (* NCP_PROCESSOR_TX_QUEUE_DEPTH, and the item in the hands *)
                (* of ncpTxTask that has no lock yet                       *)
  RxDepth       (* NCP_PROCESSOR_RX_QUEUE_DEPTH                            *)

Bauds == {Acceptable[i] : i \in DOMAIN Acceptable}

ASSUME NcpUartAssumption ==
  /\ Acceptable \in Seq(Bauds) /\ {Target, Fallback} \subseteq Bauds
  /\ NoBaud \notin Bauds \union HostBauds
  /\ TxDepth \in Nat \ {0} /\ RxDepth \in Nat \ {0}

VARIABLES
  baud,         (* of the bridge's USART                                   *)
  requested,    (* ncp_ctx.requested_baud                                  *)
  event,        (* ncp_ctx.event: "none", "request", "reply"               *)
  timer,        (* ncp_ctx.negotiate_timer is active                       *)
  phase,        (* ncpBaudRateDiscovery(): "try", "wait", "running" after  *)
  idx, found,   (* its baud_idx, and ncp_ctx.baud_found                    *)
  discovered,   (* ncp_baud_rate_discovery_lock                            *)
  txQueue,      (* ncp_tx_queue                                            *)
  held,         (* the item for which ncpTxTask has the negotiating lock   *)
  sending,      (* the item on the line, with its baud rate                *)
  negotiating, complete,  (* negotiating_lock, tx_complete_lock: free?     *)
  buffers, cur, (* ncpRXBuff: a packet, or NoPacket; and ncpRXCurrBuff     *)
  pending,      (* the buffer in the task notification, or Empty           *)
  reading,      (* the buffer that ncpRXTask works on, or Empty            *)
  processor,    (* ncp_processor_queue                                     *)
  last,         (* number of the last packet that went there               *)
  hostBaud, hostTx, (* the host's baud rate, and its packet on the line    *)
  number,       (* of the host's next packet, modulo 8                     *)
  behind,       (* packets that have come since the receive task was idle  *)
  owes, asked   (* baud rate it has to agree to, and that it has asked for *)

nego  == <<requested, event, timer>>
boot  == <<phase, idx, found, discovered>>
tx    == <<txQueue, held, sending, negotiating, complete>>
rx    == <<buffers, cur, pending, reading>>
queue == <<processor, last>>
host  == <<hostBaud, hostTx, number, behind, owes, asked>>
vars  == <<baud, nego, boot, tx, rx, queue, host>>

NoPacket == [kind |-> "none"]
Empty == 2

Init ==
  /\ baud \in Bauds /\ requested = NoBaud /\ event = "none" /\ timer = FALSE
  /\ phase = "try" /\ idx = Len(Acceptable) /\ found = FALSE /\ discovered = FALSE
  /\ txQueue = <<>> /\ held = NoPacket /\ sending = NoPacket
  /\ negotiating = TRUE /\ complete = TRUE
  /\ buffers = <<NoPacket, NoPacket>> /\ cur = 0 /\ pending = Empty /\ reading = Empty
  /\ processor = <<>> /\ last = 7
  /\ hostBaud \in Bauds \union {NoBaud} /\ hostTx = NoPacket
  /\ number = 0 /\ behind = 0 /\ owes = NoBaud /\ asked = NoBaud

-----------------------------------------------------------------------------
(* queue_tx(): a queue that stays full for 10 ms drops the message, which  *)
(* no caller looks at.                                                     *)
Queued(q, m) == IF Len(q) < TxDepth THEN Append(q, m) ELSE q

Data == [kind |-> "data"]

(* Logs, publications and reports, of any task and at any time. *)
SendData ==
  /\ txQueue' = Queued(txQueue, Data)
  /\ UNCHANGED <<baud, nego, boot, held, sending, negotiating, complete, rx,
                 queue, host>>

(* ncp_negotiate_baud_rate() within ncpBaudRateDiscovery(): the event is   *)
(* set whether or not the request finds room.                              *)
Negotiate(b, q) ==
  IF ~timer /\ event = "none"
  THEN /\ requested' = b /\ event' = "request"
       /\ txQueue' = Queued(q, [kind |-> "request", baud |-> b])
  ELSE txQueue' = q /\ UNCHANGED <<requested, event>>

(* ncpBaudRateDiscovery(): try the next baud rate, highest first, and wait *)
(* for the discovery lock.                                                 *)
TryBaud ==
  /\ phase = "try" /\ ~found /\ idx > 0
  /\ idx' = idx - 1 /\ baud' = Acceptable[idx] /\ cur' = 0
  /\ Negotiate(Target, Queued(txQueue, Data))
  /\ phase' = "wait"
  /\ UNCHANGED <<timer, found, discovered, held, sending, negotiating, complete,
                 buffers, pending, reading, queue, host>>

TakeDiscovered ==
  /\ phase = "wait" /\ discovered
  /\ phase' = "try" /\ discovered' = FALSE
  /\ UNCHANGED <<baud, nego, idx, found, tx, rx, queue, host>>

(* The lock is deleted once a baud rate is found ... *)
DiscoveryOver ==
  /\ phase = "try" /\ found
  /\ phase' = "running" /\ discovered' = FALSE
  /\ UNCHANGED <<baud, nego, idx, found, tx, rx, queue, host>>

(* ... or none is. *)
FallBack ==
  /\ phase = "try" /\ ~found /\ idx = 0
  /\ baud' = Fallback /\ cur' = 0
  /\ txQueue' = Queued(txQueue, Data)
  /\ phase' = "running" /\ discovered' = FALSE
  /\ UNCHANGED <<nego, idx, found, held, sending, negotiating, complete, buffers,
                 pending, reading, queue, host>>

-----------------------------------------------------------------------------
(* ncpTxTask(): the next item waits for the negotiating lock, and then for *)
(* the end of the transmission before it.                                  *)
TakeNegotiating ==
  /\ held = NoPacket /\ txQueue # <<>> /\ negotiating
  /\ held' = Head(txQueue) /\ txQueue' = Tail(txQueue) /\ negotiating' = FALSE
  /\ UNCHANGED <<baud, nego, boot, sending, complete, rx, queue, host>>

StartTx ==
  /\ held # NoPacket /\ complete
  /\ sending' = [item |-> held, at |-> baud] /\ held' = NoPacket
  /\ complete' = FALSE
  /\ UNCHANGED <<baud, nego, boot, txQueue, negotiating, rx, queue, host>>

(* What the host makes of a message it understands: a request is answered, *)
(* and a reply lets it change the baud rate.                               *)
HostHears(m) ==
  LET heard == sending.at = baud /\ baud = hostBaud IN
    /\ owes' = IF heard /\ m.kind = "request" THEN m.baud ELSE owes
    /\ IF heard /\ m.kind = "reply" THEN hostBaud' = asked /\ asked' = NoBaud
       ELSE UNCHANGED <<hostBaud, asked>>
    /\ UNCHANGED <<hostTx, number, behind>>

(* Mutant: the lock is given back although a request waits for its reply. *)
PostTxEventGives ==
  CASE event = "request" -> timer' = TRUE /\ negotiating' = TRUE /\ UNCHANGED baud
    [] event = "reply"   -> baud' = requested /\ negotiating' = TRUE /\ UNCHANGED timer
    [] event = "none"    -> UNCHANGED <<baud, timer, negotiating>>

(* Mutant: the lock stays taken after a reply. *)
PostTxEventKeeps ==
  CASE event = "request" -> timer' = TRUE /\ UNCHANGED <<baud, negotiating>>
    [] event = "reply"   -> baud' = requested /\ UNCHANGED <<timer, negotiating>>
    [] event = "none"    -> UNCHANGED <<baud, timer, negotiating>>

(* postTxEventHandle(): a request keeps the lock while the timer runs, a   *)
(* reply changes the baud rate.                                            *)
PostTxEvent ==
  CASE event = "request" -> timer' = TRUE /\ UNCHANGED <<baud, negotiating>>
    [] event = "reply"   -> baud' = requested /\ negotiating' = TRUE /\ UNCHANGED timer
    [] event = "none"    -> UNCHANGED <<baud, timer, negotiating>>

(* ncpPostTxCb(): the event counts if the item was one of a negotiation. *)
EndTx ==
  /\ sending # NoPacket
  /\ sending' = NoPacket /\ complete' = TRUE
  /\ HostHears(sending.item)
  /\ IF sending.item = Data
     THEN negotiating' = TRUE /\ UNCHANGED <<baud, event, timer>>
     ELSE PostTxEvent /\ event' = "none"
  /\ UNCHANGED <<requested, boot, txQueue, held, rx, queue>>

(* A message of a negotiation is on its way to the host. *)
Underway(k) ==
  \/ held.kind = k \/ (\E i \in DOMAIN txQueue : txQueue[i].kind = k)
  \/ sending # NoPacket /\ sending.item.kind = k

(* A reply of the host is on its way to the processor. *)
IsReply(p) == p.kind = "reply"
ReplyComing ==
  \/ IsReply(hostTx) \/ (\E i \in {1, 2} : IsReply(buffers[i]))
  \/ \E i \in DOMAIN processor : IsReply(processor[i])

(* Mutant: the discovery is not told. *)
TimerExpiresUnseen ==
  /\ timer /\ owes = NoBaud /\ ~ReplyComing
  /\ timer' = FALSE /\ negotiating' = TRUE
  /\ UNCHANGED <<baud, requested, event, boot, txQueue, held, sending, complete, rx,
                 queue, host>>

(* baud_rate_negotiate_timer_handle(), for a request nobody answers. *)
TimerExpires ==
  /\ timer /\ owes = NoBaud /\ ~ReplyComing
  /\ timer' = FALSE /\ negotiating' = TRUE /\ discovered' = (phase # "running")
  /\ UNCHANGED <<baud, requested, event, phase, idx, found, txQueue, held, sending,
                 complete, rx, queue, host>>

-----------------------------------------------------------------------------
(* The host puts a packet on the line, whose bytes go to the current       *)
(* buffer.                                                                 *)
HostStarts(p) ==
  /\ hostTx = NoPacket /\ hostBaud # NoBaud
  /\ behind < 2
  /\ hostTx' = p /\ number' = (number + 1) % 8
  /\ buffers' = [buffers EXCEPT ![cur + 1] = NoPacket]
  /\ UNCHANGED <<baud, nego, boot, tx, cur, pending, reading, queue, hostBaud, behind>>

(* A negotiation is open, as far as the host can tell. *)
Open == timer \/ owes # NoBaud \/ asked # NoBaud

HostData ==
  /\ phase = "running" /\ ~Open
  /\ HostStarts([kind |-> "data", n |-> number]) /\ UNCHANGED <<owes, asked>>

HostReply ==
  /\ owes # NoBaud /\ HostStarts([kind |-> "reply", n |-> number])
  /\ UNCHANGED <<owes, asked>>

HostRequest(b) ==
  /\ phase = "running" /\ ~Open /\ found
  /\ {pending, reading} = {Empty} /\ processor = <<>>
  /\ HostStarts([kind |-> "request", n |-> number, baud |-> b])
  /\ asked' = b /\ UNCHANGED owes

(* An unacceptable request gets no reply, and a reply may be dropped. *)
HostGivesUp ==
  /\ asked # NoBaud /\ ~Underway("reply") /\ hostTx = NoPacket
  /\ {pending, reading} = {Empty} /\ processor = <<>>
  /\ asked' = NoBaud
  /\ UNCHANGED <<baud, nego, boot, tx, rx, queue, hostBaud, hostTx, number, behind, owes>>

(* Mutant: the buffers are not switched. *)
NextBufferSame == cur

(* The other buffer. *)
NextBuffer == 1 - cur

(* ncpRXBytesFromISR() at the end of a packet: notify the receive task.    *)
(* A notification that is still pending stays, but the index of the new    *)
(* current buffer is cleared from it as a bit mask.                        *)
HostEnds ==
  /\ hostTx # NoPacket
  /\ hostTx' = NoPacket
  /\ IF IsReply(hostTx) THEN hostBaud' = owes /\ owes' = NoBaud
     ELSE UNCHANGED <<hostBaud, owes>>
  /\ IF baud = hostBaud
     THEN /\ buffers' = [buffers EXCEPT ![cur + 1] = hostTx]
          /\ cur' = NextBuffer
          /\ pending' = IF pending = Empty THEN cur
                        ELSE IF cur' = 1 THEN 0 ELSE pending
          /\ behind' = behind + 1
     ELSE UNCHANGED <<buffers, cur, pending, behind>>
  /\ UNCHANGED <<baud, nego, boot, tx, reading, queue, number, asked>>

(* ncpRXTask(): wait for a notification ... *)
RxTake ==
  /\ reading = Empty /\ pending # Empty
  /\ reading' = pending /\ pending' = Empty
  /\ UNCHANGED <<baud, nego, boot, tx, buffers, cur, queue, host>>

(* ... decode and clear the buffer, and queue what it held.  Bound: the    *)
(* processor keeps the queue from filling, which configASSERT demands.     *)
RxDecode ==
  /\ reading # Empty /\ Len(processor) < RxDepth
  /\ buffers' = [buffers EXCEPT ![reading + 1] = NoPacket]
  /\ reading' = Empty /\ behind' = IF pending = Empty THEN 0 ELSE 1
  /\ IF buffers[reading + 1] = NoPacket THEN UNCHANGED queue
     ELSE /\ processor' = Append(processor, buffers[reading + 1])
          /\ last' = buffers[reading + 1].n
  /\ UNCHANGED <<baud, nego, boot, tx, cur, pending, hostBaud, hostTx, number,
                 owes, asked>>

(* Mutant: a reply is taken without its baud rate. *)
BaudReplyIgnored ==
  /\ timer' = FALSE /\ negotiating' = TRUE
  /\ IF phase # "running" THEN found' = TRUE /\ discovered' = TRUE
     ELSE UNCHANGED <<found, discovered>>
  /\ UNCHANGED <<baud, requested, event, txQueue>>

(* Mutant: the baud rate is not marked as found. *)
BaudReplyUnfound ==
  /\ timer' = FALSE /\ baud' = requested /\ negotiating' = TRUE
  /\ discovered' = (phase # "running") /\ UNCHANGED <<requested, event, txQueue, found>>

(* baud_rate_reply_cb() *)
BaudReply ==
  /\ timer' = FALSE /\ baud' = requested /\ negotiating' = TRUE
  /\ IF phase # "running" THEN found' = TRUE /\ discovered' = TRUE
     ELSE UNCHANGED <<found, discovered>>
  /\ UNCHANGED <<requested, event, txQueue>>

(* baud_rate_request_cb() *)
BaudRequest(b) ==
  /\ IF b \in Bauds
     THEN /\ requested' = b /\ event' = "reply"
          /\ txQueue' = Queued(txQueue, [kind |-> "reply"])
     ELSE UNCHANGED <<requested, event, txQueue>>
  /\ UNCHANGED <<baud, timer, negotiating, found, discovered>>

(* ncpRXProcessor(): the handler of the packet. *)
Process ==
  /\ processor # <<>> /\ processor' = Tail(processor)
  /\ LET p == Head(processor) IN
       \/ p.kind = "data" /\ UNCHANGED <<baud, nego, negotiating, found, discovered, txQueue>>
       \/ p.kind = "reply" /\ BaudReply
       \/ p.kind = "request" /\ BaudRequest(p.baud)
  /\ UNCHANGED <<phase, idx, held, sending, complete, rx, last, host>>

Bridge ==
  \/ TryBaud \/ TakeDiscovered \/ DiscoveryOver \/ FallBack
  \/ TakeNegotiating \/ StartTx
  \/ RxTake \/ RxDecode \/ Process

Next ==
  \/ SendData \/ Bridge \/ EndTx \/ TimerExpires
  \/ HostData \/ HostReply \/ (\E b \in HostBauds : HostRequest(b))
  \/ HostGivesUp \/ HostEnds

(* Every task runs, transmissions and timers end, and the host finishes    *)
(* what it begins and answers.                                             *)
Fairness ==
  /\ WF_vars(TryBaud \/ TakeDiscovered \/ DiscoveryOver \/ FallBack)
  /\ WF_vars(TakeNegotiating \/ StartTx) /\ WF_vars(EndTx) /\ WF_vars(TimerExpires)
  /\ WF_vars(RxTake \/ RxDecode) /\ WF_vars(Process)
  /\ WF_vars(HostReply) /\ WF_vars(HostEnds)

Spec == Init /\ [][Next]_vars /\ Fairness

-----------------------------------------------------------------------------
(* Discovery finds a host that is there, whatever its baud rate. *)
FoundIfThere == phase = "running" /\ hostBaud # NoBaud => found

(* Once the bridge has found the host, both use the same baud rate through *)
(* all later negotiations, except while the bridge waits for a reply that  *)
(* the host has sent and followed already.                                 *)
SameBaud == found /\ ~timer => baud = hostBaud

(* No negotiation changes the baud rate under a message on the line.  Only  *)
(* discovery does, when it moves on from a baud rate nobody answers at.     *)
BaudBetweenMessages ==
  [][baud' # baud /\ phase' = phase => sending' = NoPacket /\ hostTx = NoPacket]_vars

(* Each packet the receive task decodes is whole, has not been decoded      *)
(* before and comes in the order in which the host sent them.  One may be   *)
(* missing, when two came before the task looked.                           *)
PacketsInOrder ==
  [][reading # Empty /\ reading' = Empty =>
       processor' # processor /\ (last' + 8 - last) % 8 \in {1, 2}]_vars

(* However many messages come, no negotiation stops the queue for good:    *)
(* the lock always comes back from the interrupt, the timer or the         *)
(* handler, and ncpTxTask takes the next message.                          *)
QueueMoves == txQueue # <<>> ~> held # NoPacket

(* Discovery ends, unless a full queue has dropped its request: then       *)
(* nothing starts the timer that ncpBaudRateDiscovery() waits for.         *)
DiscoveryEnds ==
  <>(phase = "running" \/ (event = "request" /\ ~Underway("request")))
=============================================================================
