------------------------------- MODULE Receiver -------------------------------
(***************************************************************************)
(* The USB dongle (firmware/receiver): the scan handler that collapses     *)
(* each burst of advertisements into one packet, the drop-oldest backlog,  *)
(* and the writer task that hands packets to whoever opened the port.      *)
(*                                                                         *)
(* The scan handler runs to its end inside the radio's callback; the       *)
(* writer awaits the host at every step, and the host opens, closes and    *)
(* re-enumerates the port when it likes.                                   *)
(***************************************************************************)
EXTENDS Naturals, FiniteSets, SequencesExt

CONSTANTS
    Sensors,
    Slots,            \* the seq cache's size
    Capacity,         \* the backlog's size
    MaxSeq,           \* bound: packets per sensor and key
    MaxTick,          \* bound: uses of the cache
    MaxDisconnects    \* bound: times the host goes away

ASSUME ReceiverAssumption ==
    /\ Slots \in Nat \ {0} /\ Capacity \in Nat \ {0}
    /\ MaxSeq \in Nat /\ MaxTick \in Nat /\ MaxDisconnects \in Nat

VARIABLES
    cache,        \* the seq cache
    backlog,      \* packets waiting for the writer, oldest first
    writer,       \* the writer task
    host,         \* "gone", "closed" (DTR off) or "open" (DTR on)
    forwarded,    \* history: the packets queued, in order
    previous,     \* history: [Sensors -> the number last heard, none or one]
    since,        \* history: [Sensors -> the others heard since it was]
    delivered,    \* history: the frames a host read whole, in order
    lost,         \* history: the packets taken off the backlog and never delivered
    disconnects   \* history: times the host went away

radio == <<cache, forwarded, previous, since>>
usb == <<writer, host, delivered, lost, disconnects>>
vars == <<radio, backlog, usb>>

(* `LruCache<DeviceAddr, u32, 32>`: the last number heard of each sensor.  *)
SeqCache == INSTANCE LruCache WITH Size <- Slots

Waiting(step) == [step |-> step, packet |-> {}, interrupted |-> FALSE]

Init ==
    /\ cache = SeqCache!New
    /\ backlog = <<>>
    /\ writer = Waiting("connect") /\ host = "gone"
    /\ forwarded = <<>>
    /\ previous = [s \in Sensors |-> {}] /\ since = [s \in Sensors |-> {}]
    /\ delivered = <<>> /\ lost = {}
    /\ disconnects = 0

(* The dongle is powered from USB and keeps nothing across a replug; the   *)
(* histories start over with it.                                           *)
Replug ==
    /\ cache' = SeqCache!New
    /\ backlog' = <<>>
    /\ writer' = Waiting("connect") /\ host' = "gone"
    /\ forwarded' = <<>>
    /\ previous' = [s \in Sensors |-> {}] /\ since' = [s \in Sensors |-> {}]
    /\ delivered' = <<>> /\ lost' = {}
    /\ disconnects' = 0

-------------------------------------------------------------------------------
(* on_ext_adv_reports, for one of the ~20 events of a burst.  The dongle   *)
(* knows nothing of a sensor but the number it advertises, which may be    *)
(* the one heard last, a later one, or after a re-keying an earlier one.   *)

(* Mutants of Queue: an unbounded backlog; a full one refuses the newest.  *)
QueueAll(p) == Append(backlog, p)
QueueUnlessFull(p) == IF Len(backlog) = Capacity THEN backlog ELSE Append(backlog, p)
Queue(p) == Append(IF Len(backlog) = Capacity THEN Tail(backlog) ELSE backlog, p)

(* Mutant of Seen: the former rule, lower numbers too.                     *)
SeenAsHigh(p) == \E n \in SeqCache!Found(cache, p.sensor) : p.seq <= n
Seen(p) == p.seq \in SeqCache!Found(cache, p.sensor)

Hear(s, n) ==
    LET p == [sensor |-> s, seq |-> n]
        looked == SeqCache!AfterGet(cache, s)
    IN
    /\ cache.tick + 2 <= MaxTick
    /\ previous' = [previous EXCEPT ![s] = {n}]
    /\ since' = [x \in Sensors |-> IF x = s THEN {} ELSE since[x] \cup {s}]
    /\ IF Seen(p)
       THEN /\ cache' = looked
            /\ UNCHANGED <<backlog, forwarded>>
       ELSE /\ cache' = SeqCache!AfterInsert(looked, s, n)
            /\ backlog' = Queue(p)
            /\ forwarded' = Append(forwarded, p)
    /\ UNCHANGED usb

-------------------------------------------------------------------------------
(* The writer.                                                             *)

(* Mutant of Reconnect: the writer goes straight to the next packet.       *)
ReceiveNext == Waiting("receive")
(* `break`: back to waiting for a connection and for DTR.                  *)
Reconnect == Waiting("connect")

(* Mutant of Connected: the port must still be closed when it is looked at. *)
ConnectedToClosed ==
    /\ writer.step = "connect" /\ host = "closed"
    /\ writer' = Waiting("dtr")
    /\ UNCHANGED <<radio, backlog, host, delivered, lost, disconnects>>

Connected ==
    /\ writer.step = "connect" /\ host # "gone"
    /\ writer' = Waiting("dtr")
    /\ UNCHANGED <<radio, backlog, host, delivered, lost, disconnects>>

DtrOn ==
    /\ writer.step = "dtr" /\ host = "open"
    /\ writer' = Waiting("settle")
    /\ UNCHANGED <<radio, backlog, host, delivered, lost, disconnects>>

(* The settle time passes whatever the host does meanwhile.                *)
Settled ==
    /\ writer.step = "settle"
    /\ writer' = Waiting("receive")
    /\ UNCHANGED <<radio, backlog, host, delivered, lost, disconnects>>

(* One packet off the backlog, and only then a look at DTR.                *)
Take ==
    /\ writer.step = "receive" /\ backlog # <<>>
    /\ backlog' = Tail(backlog)
    /\ IF host = "open"
       THEN /\ writer' = [Waiting("write") EXCEPT !.packet = {Head(backlog)}]
            /\ UNCHANGED lost
       ELSE /\ writer' = Reconnect
            /\ lost' = lost \cup {Head(backlog)}
    /\ UNCHANGED <<radio, host, delivered, disconnects>>

(* The frame's last chunk is out.  A host that closed and reopened the     *)
(* port meanwhile may have read its tail only.                             *)
Written ==
    /\ writer.step = "write" /\ host = "open"
    /\ writer' = Waiting("receive")
    /\ \/ delivered' = delivered \o SetToSeq(writer.packet) /\ UNCHANGED lost
       \/ writer.interrupted /\ lost' = lost \cup writer.packet /\ UNCHANGED delivered
    /\ UNCHANGED <<radio, backlog, host, disconnects>>

(* DTR seen off, or an endpoint error: the rest of the frame is dropped.   *)
WriteFails ==
    /\ writer.step = "write" /\ host # "open"
    /\ writer' = Reconnect
    /\ lost' = lost \cup writer.packet
    /\ UNCHANGED <<radio, backlog, host, delivered, disconnects>>

-------------------------------------------------------------------------------
(* The host.                                                               *)

Enumerate ==
    /\ host = "gone" /\ host' = "closed"
    /\ UNCHANGED <<radio, backlog, writer, delivered, lost, disconnects>>

Open ==
    /\ host = "closed" /\ host' = "open"
    /\ UNCHANGED <<radio, backlog, writer, delivered, lost, disconnects>>

Disconnect(to) ==
    /\ host = "open" /\ host' = to
    /\ disconnects < MaxDisconnects /\ disconnects' = disconnects + 1
    /\ writer' = [writer EXCEPT !.interrupted = @ \/ writer.step = "write"]
    /\ UNCHANGED <<radio, backlog, delivered, lost>>

Next ==
    \/ Replug
    \/ \E s \in Sensors, n \in 0 .. MaxSeq : Hear(s, n)
    \/ Connected \/ DtrOn \/ Settled \/ Take \/ Written \/ WriteFails
    \/ Enumerate \/ Open \/ \E to \in {"closed", "gone"} : Disconnect(to)

Spec == Init /\ [][Next]_vars

(* The executor polls the writer; the gateway's service opens the port     *)
(* again.                                                                  *)
Fairness ==
    /\ WF_vars(Connected) /\ WF_vars(DtrOn) /\ WF_vars(Settled)
    /\ WF_vars(Take) /\ WF_vars(Written) /\ WF_vars(WriteFails)
    /\ WF_vars(Enumerate) /\ WF_vars(Open)

FairSpec == Spec /\ Fairness
-------------------------------------------------------------------------------
Packet == [sensor : Sensors, seq : 0 .. MaxSeq]

TypeOK ==
    /\ cache.tick \in 0 .. MaxTick
    /\ \A it \in Range(cache.items) : it.key \in Sensors /\ it.value \in 0 .. MaxSeq
    /\ Len(cache.items) <= Slots
    /\ Range(backlog) \subseteq Packet /\ Len(backlog) <= Capacity
    /\ writer \in [step : {"connect", "dtr", "settle", "receive", "write"},
                   packet : {{}} \cup {{p} : p \in Packet}, interrupted : BOOLEAN]
    /\ host \in {"gone", "closed", "open"}
    /\ Range(forwarded) \subseteq Packet
    /\ previous \in [Sensors -> {{}} \cup {{n} : n \in 0 .. MaxSeq}]
    /\ Range(delivered) \subseteq Packet /\ lost \subseteq Packet
    /\ disconnects \in 0 .. MaxDisconnects
    /\ since \in [Sensors -> SUBSET Sensors]

(***************************************************************************)
(* The dedup cache "collapses each burst into one forwarded packet": one   *)
(* is forwarded again only when as many other sensors as the cache has     *)
(* slots were heard since, however the bursts interleave and whichever     *)
(* slots they took (`on_ext_adv_reports`, `LruCache`).                     *)
(***************************************************************************)
RepeatedOnlyWhenCrowded ==
    [][\A s \in Sensors, n \in 0 .. MaxSeq :
         Hear(s, n) /\ forwarded' # forwarded /\ previous[s] = {n}
             => Cardinality(since[s]) >= Slots]_vars

(***************************************************************************)
(* A packet heard is forwarded unless it repeats the number heard last of  *)
(* its sensor, so a sensor whose counter restarted under a new key is not  *)
(* muted until it climbs back (`on_ext_adv_reports`, provisioning.md).     *)
(***************************************************************************)
OnlyRepeatsSwallowed ==
    [][\A s \in Sensors, n \in 0 .. MaxSeq :
         Hear(s, n) /\ forwarded' = forwarded => previous[s] = {n}]_vars

(***************************************************************************)
(* What is queued is the newest of what was forwarded, in order, and what  *)
(* a host reads comes in that order too, each packet once (the backlog     *)
(* channel, `usb_writer_fut`).                                             *)
(***************************************************************************)
InFlight == delivered \o SetToSeq(writer.packet) \o backlog
InOrder(seq, of) ==
    \E at \in [DOMAIN seq -> DOMAIN of] :
        /\ \A i \in DOMAIN seq : seq[i] = of[at[i]]
        /\ \A i, j \in DOMAIN seq : i < j => at[i] < at[j]
NewestInOrder == IsSuffix(backlog, forwarded) /\ InOrder(InFlight, forwarded)

(***************************************************************************)
(* A host that goes away costs at most the one packet the writer holds:    *)
(* the writer goes back to waiting for DTR before it takes another         *)
(* (`usb_writer_fut`).                                                     *)
(***************************************************************************)
OneLossPerDisconnect == Cardinality(lost) <= disconnects

(***************************************************************************)
(* Once the air is quiet the backlog drains: the writer finds its way back *)
(* to it from every step it was in when the host went away                 *)
(* (`usb_writer_fut`).                                                     *)
(***************************************************************************)
Drains == backlog # <<>> ~> backlog = <<>>
===============================================================================
