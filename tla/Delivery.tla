------------------------------- MODULE Delivery -------------------------------
(***************************************************************************)
(* The way of a decoded observation to its row: the gateway's two queues   *)
(* and its QoS 1 session with the broker (gateway/src/main.rs), the        *)
(* broker's durable session for the API (deploy/mosquitto/mosquitto.conf), *)
(* the API's poll loop and its writer (api/src/ingest.rs, api/src/db.rs),  *)
(* with the writer's account of devices nobody registered.                 *)
(*                                                                         *)
(* An envelope is [gateway, n]: the gateway's name and the receipt it      *)
(* stamped, which fixes received_at.  The MQTT client and the broker are   *)
(* external, modelled from how the code uses them: a QoS 1 sender keeps    *)
(* every message until it is acknowledged and sends what is left again on  *)
(* a new connection; the client acknowledges a publish when it is polled.  *)
(***************************************************************************)
EXTENDS UnknownDevices, Sequences, SequencesExt

CONSTANTS
    Gateways,       \* gateways that publish to the broker
    Strangers,      \* devices nobody registered
    Unknown,        \* envelopes of theirs ...
    Sender,         \* ... and Sender[e], whose each is
    Unreadable,     \* envelopes that do not open
    GatewayQueue,   \* channel::<ObservationEnvelope>(1024)
    ClientQueue,    \* AsyncClient::new(_, 128)
    SessionLimit,   \* max_queued_messages 10000
    ApiQueue,       \* channel::<ReceivedEnvelope>(256)
    Receipts,       \* bound: Receipts[g] observations are decoded by g
    MaxFaults       \* bound: connections lost, processes stopped, inserts failed

Envelope == UNION {[gateway : {g}, n : 1 .. Receipts[g]] : g \in Gateways}

ASSUME CapacityAssumption ==
    /\ {GatewayQueue, ClientQueue, SessionLimit, ApiQueue} \subseteq Nat \ {0}
    /\ Receipts \in [Gateways -> Nat]
    /\ Unknown \cup Unreadable \subseteq Envelope /\ Sender \in [Unknown -> Strangers]

VARIABLES
    stamped,    \* stamped[g]: receipts the gateway has stamped
    channel,    \* channel[g]: mpsc from the serial loop to the publisher
    requests,   \* requests[g]: publishes the MQTT client has not sent
    inflight,   \* inflight[g]: sent and not acknowledged by the broker
    taken,      \* taken[g]: how many of those the broker has taken
    session,    \* the broker's session for the API, oldest first
    polled,     \* how many of those the API has polled on this connection
    queue,      \* the API's mpsc from the poll loop to the writer
    rows,       \* the readings table in insertion order
    unknown,    \* UnknownDevices of the writer
    told,       \* history: what it has reported since the API started
    dropped,    \* history: envelopes of each stranger it has dropped since
    lost,       \* history: envelopes of which a copy was given up
    faults      \* bound counter

account == <<unknown, told, dropped>>
vars == <<stamped, channel, requests, inflight, taken, session, polled, queue,
          rows, account, lost, faults>>
gateway == <<stamped, channel, requests>>
uplink == <<inflight, taken>>
downlink == <<session, polled>>

NoneDropped == [d \in Strangers |-> 0]

Init ==
    /\ stamped = [g \in Gateways |-> 0]
    /\ channel = [g \in Gateways |-> <<>>]
    /\ requests = [g \in Gateways |-> <<>>]
    /\ inflight = [g \in Gateways |-> <<>>]
    /\ taken = [g \in Gateways |-> 0]
    /\ session = <<>> /\ polled = 0
    /\ queue = <<>> /\ rows = <<>> /\ lost = {}
    /\ unknown = NoUnknown /\ told = {} /\ dropped = NoneDropped
    /\ faults = 0

(* main: the observation is stamped and sent down the channel; a full      *)
(* channel holds the serial loop up.                                       *)
Decoded(g) ==
    /\ stamped[g] < Receipts[g]
    /\ Len(channel[g]) < GatewayQueue
    /\ stamped' = [stamped EXCEPT ![g] = @ + 1]
    /\ channel' = [channel EXCEPT ![g] = Append(@, [gateway |-> g, n |-> stamped'[g]])]
    /\ UNCHANGED <<account, requests, uplink, downlink, queue, rows, lost, faults>>

(* mqtt_envelope_sender: publish waits while the client's queue is full.   *)
Publish(g) ==
    /\ channel[g] # <<>>
    /\ Len(requests[g]) < ClientQueue
    /\ requests' = [requests EXCEPT ![g] = Append(@, Head(channel[g]))]
    /\ channel' = [channel EXCEPT ![g] = Tail(@)]
    /\ UNCHANGED <<account, stamped, uplink, downlink, queue, rows, lost, faults>>

(* mqtt_task polls: the client sends the next request.                     *)
Send(g) ==
    /\ requests[g] # <<>>
    /\ inflight' = [inflight EXCEPT ![g] = Append(@, Head(requests[g]))]
    /\ requests' = [requests EXCEPT ![g] = Tail(@)]
    /\ UNCHANGED <<account, stamped, channel, taken, downlink, queue, rows, lost, faults>>

(* The broker takes a publish into the API's session, or drops it there    *)
(* when that many wait.                                                    *)
BrokerTakes(g) ==
    /\ taken[g] < Len(inflight[g])
    /\ taken' = [taken EXCEPT ![g] = @ + 1]
    /\ LET e == inflight[g][taken[g] + 1] IN
       IF Len(session) < SessionLimit
         THEN session' = Append(session, e) /\ lost' = lost
         ELSE session' = session /\ lost' = lost \cup {e}
    /\ UNCHANGED <<account, gateway, inflight, polled, queue, rows, faults>>

(* ... and acknowledges what it has taken.                                 *)
BrokerAcks(g) ==
    /\ taken[g] > 0
    /\ inflight' = [inflight EXCEPT ![g] = Tail(@)]
    /\ taken' = [taken EXCEPT ![g] = @ - 1]
    /\ UNCHANGED <<account, gateway, downlink, queue, rows, lost, faults>>

(* Mutant: a new connection starts from an empty in-flight list.           *)
UplinkForgets(g) ==
    /\ faults < MaxFaults /\ faults' = faults + 1
    /\ inflight[g] # <<>>
    /\ inflight' = [inflight EXCEPT ![g] = <<>>]
    /\ taken' = [taken EXCEPT ![g] = 0]
    /\ UNCHANGED <<account, gateway, downlink, queue, rows, lost>>

(* The gateway's connection is lost (mqtt_task logs and polls again): what *)
(* the broker has not acknowledged is sent once more.                      *)
UplinkCut(g) ==
    /\ faults < MaxFaults /\ faults' = faults + 1
    /\ inflight[g] # <<>>
    /\ taken' = [taken EXCEPT ![g] = 0]
    /\ UNCHANGED <<account, gateway, inflight, downlink, queue, rows, lost>>

(* The gateway stops (serial stream ended, bail) and is started again:     *)
(* everything it held in memory is gone but for what the broker has taken. *)
GatewayStops(g) ==
    /\ faults < MaxFaults /\ faults' = faults + 1
    /\ lost' = lost \cup Range(channel[g]) \cup Range(requests[g])
                    \cup {inflight[g][i] : i \in taken[g] + 1 .. Len(inflight[g])}
    /\ channel' = [channel EXCEPT ![g] = <<>>]
    /\ requests' = [requests EXCEPT ![g] = <<>>]
    /\ inflight' = [inflight EXCEPT ![g] = <<>>]
    /\ taken' = [taken EXCEPT ![g] = 0]
    /\ UNCHANGED <<account, stamped, downlink, queue, rows>>

(* Mutant: the poll loop's channel has no end.                             *)
PollUnbounded ==
    /\ polled < Len(session)
    /\ polled' = polled + 1
    /\ queue' = Append(queue, session[polled'])
    /\ UNCHANGED <<account, gateway, uplink, session, rows, lost, faults>>

(* subscribe_mqtt: the event loop hands a publish over, and with that has  *)
(* acknowledged it; a full channel drops the envelope with a warning.      *)
Poll ==
    /\ polled < Len(session)
    /\ polled' = polled + 1
    /\ IF Len(queue) < ApiQueue
         THEN queue' = Append(queue, session[polled']) /\ lost' = lost
         ELSE queue' = queue /\ lost' = lost \cup {session[polled']}
    /\ UNCHANGED <<account, gateway, uplink, session, rows, faults>>

(* The acknowledgement reaches the broker.                                 *)
ApiAcks ==
    /\ polled > 0
    /\ session' = Tail(session)
    /\ polled' = polled - 1
    /\ UNCHANGED <<account, gateway, uplink, queue, rows, lost, faults>>

(* Mutant: a clean session on every connection.                            *)
CleanSession ==
    /\ faults < MaxFaults /\ faults' = faults + 1
    /\ session # <<>> /\ session' = <<>>
    /\ polled' = 0
    /\ UNCHANGED <<account, gateway, uplink, queue, rows, lost>>

(* The API's connection is lost and made again with clean_session(false):  *)
(* whatever the broker has no acknowledgement for is delivered again.      *)
DownlinkCut ==
    /\ faults < MaxFaults /\ faults' = faults + 1
    /\ session # <<>> /\ polled' = 0
    /\ UNCHANGED <<account, gateway, uplink, session, queue, rows, lost>>

(* The API stops and is started again: the channel is gone, acknowledged   *)
(* or not, and so is the writer's account.                                 *)
ApiStops ==
    /\ faults < MaxFaults /\ faults' = faults + 1
    /\ lost' = lost \cup Range(queue)
    /\ queue' = <<>> /\ polled' = 0
    /\ unknown' = NoUnknown /\ told' = {} /\ dropped' = NoneDropped
    /\ UNCHANGED <<gateway, uplink, session, rows>>

(* Mutant: INSERT without ON CONFLICT DO NOTHING and its unique key.       *)
InsertAnyway(e) == rows' = Append(rows, e)

(* insert_reading: UNIQUE (device_addr, seq, time), ON CONFLICT DO NOTHING.*)
Insert(e) == rows' = IF e \in Range(rows) THEN rows ELSE Append(rows, e)

(* handle_envelope: an unknown device's packet is noted and dropped, so is *)
(* one that does not open; a database error is logged and the envelope     *)
(* dropped.                                                                *)
HandleEnvelope ==
    /\ queue # <<>>
    /\ queue' = Tail(queue)
    /\ LET e == Head(queue) IN
       \/ /\ e \notin Unknown \cup Unreadable
          /\ Insert(e)
          /\ UNCHANGED <<account, lost, faults>>
       \/ /\ e \notin Unknown \cup Unreadable
          /\ faults < MaxFaults /\ faults' = faults + 1
          /\ lost' = lost \cup {e}
          /\ UNCHANGED <<account, rows>>
       \/ /\ e \in Unreadable \ Unknown
          /\ lost' = lost \cup {e}
          /\ UNCHANGED <<account, rows, faults>>
       \/ /\ e \in Unknown
          /\ unknown' = Record(unknown, Sender[e])
          /\ \E due \in BOOLEAN : told' = told \cup Report(unknown, Sender[e], due)
          /\ dropped' = [dropped EXCEPT ![Sender[e]] = @ + 1]
          /\ lost' = lost \cup {e}
          /\ UNCHANGED <<rows, faults>>
    /\ UNCHANGED <<gateway, uplink, downlink>>

Next ==
    \/ \E g \in Gateways : \/ Decoded(g) \/ Publish(g) \/ Send(g)
                           \/ BrokerTakes(g) \/ BrokerAcks(g)
                           \/ UplinkCut(g) \/ GatewayStops(g)
    \/ Poll \/ ApiAcks \/ DownlinkCut \/ ApiStops \/ HandleEnvelope

Spec == Init /\ [][Next]_vars

(* Each task of the two programs and the broker goes on as long as it has  *)
(* something to do; the faults, and the observations, need not come.       *)
FairSpec ==
    /\ Spec
    /\ \A g \in Gateways : /\ WF_vars(Publish(g)) /\ WF_vars(Send(g))
                           /\ WF_vars(BrokerTakes(g)) /\ WF_vars(BrokerAcks(g))
    /\ WF_vars(Poll) /\ WF_vars(ApiAcks) /\ WF_vars(HandleEnvelope)

-------------------------------------------------------------------------------

Stamped == {e \in Envelope : e.n <= stamped[e.gateway]}

(* TypeOK: no queue grows past its capacity, whatever arrives twice.       *)
TypeOK ==
    /\ \A g \in Gateways :
           /\ stamped[g] \in 0 .. Receipts[g]
           /\ channel[g] \in Seq(Envelope) /\ Len(channel[g]) <= GatewayQueue
           /\ requests[g] \in Seq(Envelope) /\ Len(requests[g]) <= ClientQueue
           /\ inflight[g] \in Seq(Envelope) /\ taken[g] \in 0 .. Len(inflight[g])
    /\ session \in Seq(Envelope) /\ Len(session) <= SessionLimit
    /\ polled \in 0 .. Len(session)
    /\ queue \in Seq(Envelope) /\ Len(queue) <= ApiQueue
    /\ rows \in Seq(Envelope \ (Unknown \cup Unreadable)) /\ lost \subseteq Envelope

(* A receipt is one row, however often the two QoS 1 legs deliver it, and  *)
(* whatever is lost in between (docs/protocol.md: "an MQTT redelivery      *)
(* collides and is silently ignored").                                     *)
OneRowPerReceipt == IsInjective(rows) /\ Range(rows) \subseteq Stamped

(* What the broker holds for the API leaves its session only because the   *)
(* API has polled it on the connection it acknowledges on: being down,     *)
(* restarting or losing the connection costs nothing that was not polled   *)
(* (clean_session false; ingest.rs run and subscribe_mqtt).                *)
HeldUntilPolled ==
    [][\A e \in Range(session) :
           e \notin Range(session') =>
               \E i \in 1 .. polled : session[i] = e]_vars

Named == DOMAIN unknown.count
Others == {d \in Strangers \ Named : dropped[d] > 0}
Nameless == UNION {{d} \X (1 .. dropped[d]) : d \in Others}     \* their packets

(* Every packet of a stranger dropped since the API started is in the      *)
(* account, by name or among the others, the log has said so, and the      *)
(* account stays within its limit (unknown_devices.rs:8 "a flood of random *)
(* ids can't grow memory without bound").                                  *)
StrangersAccounted ==
    /\ Cardinality(Named) <= MaxTracked
    /\ \A d \in Named : unknown.count[d] = dropped[d] /\ d \in told
    /\ unknown.overflow = Cardinality(Nameless)
    /\ Others # {} => "others" \in told

(* However the connections break and whoever stops: a receipt is in one of *)
(* the queues, is a row or was given up at a place that says so.  The      *)
(* gateway's list of what the broker has not acknowledged, and the         *)
(* session, may let go of it only because somebody else has it (main.rs    *)
(* mqtt_task, ingest.rs subscribe_mqtt).                                   *)
Held ==
    (UNION {Range(channel[g]) \cup Range(requests[g]) \cup Range(inflight[g]) : g \in Gateways})
        \cup Range(session) \cup Range(queue)
NothingVanishes == Stamped \subseteq Held \cup Range(rows) \cup lost

(* Nothing disappears on a lost connection: every receipt ends up as a row *)
(* or is given up at one of the places that drop, which are a full queue,  *)
(* a process that stops, a failed insert or an envelope nobody can open.   *)
StoredOrGivenUp ==
    \A e \in Envelope : e \in Stamped ~> e \in Range(rows) \cup lost

===============================================================================
