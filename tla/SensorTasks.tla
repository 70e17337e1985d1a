------------------------------ MODULE SensorTasks ------------------------------
(***************************************************************************)
(* The sensor's two tasks (firmware/sensor/src/main.rs) around the counter:*)
(* telemetry_task measures, draws a number, seals a packet and puts it in  *)
(* a signal that holds the latest value only; the advertiser takes what is *)
(* in the signal and repeats it for a burst.  Steps of SeqCounter are      *)
(* steps of telemetry_task while it builds a packet.                       *)
(*                                                                         *)
(* A packet carries, as history, its number and what was sampled for it.   *)
(***************************************************************************)
EXTENDS SeqCounter, Packets

CONSTANTS
    MintedKey,       \* the key the API holds for this device
    Addr0, Addr1,    \* FICR.DEVICEADDR
    DividerRatio,    \* of the board's battery divider
    Samples,         \* what the ADC and the SHT give: [raw, sht]
    Links            \* what is added on the way: [age, rssi, now, site]

AdcValue == -4096 .. 4095    \* twelve bits, and the noise below zero

ASSUME SensorAssumption ==
    /\ MintedKey \in DeviceKey
    /\ Addr0 \in Nat /\ Addr1 \in Nat
    /\ DividerRatio \in 1 .. 5
    /\ \A s \in Samples :
        /\ s.raw \in AdcValue
        /\ s.sht # Absent => s.sht.milliCelsius \in Int /\ s.sht.milliPercent \in Int
    /\ \A l \in Links : IsU32(l.age) /\ l.rssi \in I8 /\ l.now \in Nat /\ IsSite(l.site)

VARIABLES
    task,       \* telemetry_task: "off", "measure", "build", "wait"
    sample,     \* what it has sampled
    signal,     \* PACKET_SIGNAL
    burst,      \* the packet being advertised
    settled     \* history: the last number on air or lost with the power, or -1

taskVars == <<task, sample, signal, burst, settled>>
sensorVars == <<vars, taskVars>>

Up == pc \notin {"off", "panic"}

(***************************************************************************)
(* Measuring.                                                              *)
(***************************************************************************)

Clamped(n, low, high) == IF n < low THEN low ELSE IF n > high THEN high ELSE n
(* Division as the processor does it: towards zero.                        *)
Quotient(a, b) == IF a >= 0 THEN a \div b ELSE - ((- a) \div b)

(* Battery::measure.                                                       *)
Millivolts(raw) ==
    (((IF raw < 0 THEN 0 ELSE raw) * (3600 * DividerRatio)) \div 4096) % 65536

(* Readings::from.                                                         *)
CentiCelsius(milli) ==
    Clamped(Quotient(IF milli >= 0 THEN milli + 5 ELSE milli - 5, 10), -4500, 13000)
CentiPercent(milli) == Quotient(Clamped(milli, 0, 100000) + 5, 10)

(* Sensors::measure: the battery always, temperature and humidity unless   *)
(* the SHT failed or timed out.                                            *)
Measure(s) ==
    LET battery == [kind |-> "battery", value |-> Millivolts(s.raw)] IN
    IF s.sht = Absent THEN <<battery>>
    ELSE <<battery,
           [kind |-> "temperature", value |-> CentiCelsius(s.sht.milliCelsius)],
           [kind |-> "humidity", value |-> CentiPercent(s.sht.milliPercent)]>>

(***************************************************************************)
(* The board's identity: the address from FICR and the key from the        *)
(* record, which the tool wrote from the hex digits the API answered.      *)
(***************************************************************************)

OwnAddr == FromFicr(Addr0, Addr1)
OwnKey == DecodeKey(EncodeRecord(KeyFromHex(KeyHex(MintedKey))))

-------------------------------------------------------------------------------

SensorInit ==
    /\ Init
    /\ task = "off" /\ sample = Absent
    /\ signal = Absent /\ burst = Absent /\ settled = -1

(* main: the counter is loaded and the tasks start.                        *)
Boot ==
    /\ Load
    /\ task' = "measure"
    /\ UNCHANGED <<sample, signal, burst, settled>>

TakeSample ==
    /\ Up /\ task = "measure"
    /\ \E s \in Samples : sample' = s
    /\ task' = "build"
    /\ UNCHANGED <<vars, signal, burst, settled>>

(* next() on its way to a number it may draw.                              *)
Reserve ==
    /\ task = "build"
    /\ AdvanceReservation \/ Erase
    /\ UNCHANGED taskVars

(* Mutant: a packet waiting in the signal is not replaced.                 *)
SignalIfFree(packet) == signal' = IF signal = Absent THEN packet ELSE signal

(* packet_signal.signal: whatever is there is replaced.                    *)
Signal(packet) == signal' = packet

(* next() returns, and with no await between them the packet is sealed and *)
(* signalled; a packet that does not encode is skipped.                    *)
Build ==
    /\ task = "build"
    /\ DrawReserved \/ WriteCeiling
    /\ LET e == EncodeAir(last', Measure(sample), MaxAirLen, OwnKey, OwnAddr) IN
       IF pc' = "idle" /\ e.ok
       THEN Signal([n |-> last', sample |-> sample, air |-> e.air])
       ELSE UNCHANGED signal
    /\ task' = "wait" /\ sample' = Absent
    /\ UNCHANGED <<burst, settled>>

(* A flash error: the packet is skipped.                                   *)
Skip ==
    /\ task = "build"
    /\ FlashFails
    /\ task' = "wait" /\ sample' = Absent
    /\ UNCHANGED <<signal, burst, settled>>

(* The cadence's timer, which knows nothing of bursts.                     *)
Cadence ==
    /\ Up /\ task = "wait"
    /\ task' = "measure"
    /\ UNCHANGED <<vars, sample, signal, burst, settled>>

(* Mutant: the packet stays in the signal.                                 *)
StartBurstPeek ==
    /\ Up /\ burst = Absent /\ signal # Absent
    /\ burst' = signal /\ settled' = signal.n
    /\ UNCHANGED <<vars, task, sample, signal>>

(* ble_advertise::run: wait() takes the packet out of the signal ...       *)
StartBurst ==
    /\ Up /\ burst = Absent /\ signal # Absent
    /\ burst' = signal /\ settled' = signal.n
    /\ signal' = Absent
    /\ UNCHANGED <<vars, task, sample>>

(* ... and 400 ms later the advertiser is dropped.                         *)
EndBurst ==
    /\ Up /\ burst # Absent
    /\ burst' = Absent
    /\ UNCHANGED <<vars, task, sample, signal, settled>>

LosePower ==
    /\ PowerLoss
    /\ task' = "off" /\ sample' = Absent /\ signal' = Absent /\ burst' = Absent
    /\ settled' = last

SensorNext ==
    \/ Boot \/ TakeSample \/ Reserve \/ Build \/ Skip \/ Cadence
    \/ StartBurst \/ EndBurst \/ LosePower

SensorSpec == SensorInit /\ [][SensorNext]_sensorVars

(* Power comes back, the executor polls both tasks and the timers fire;    *)
(* neither flash operation is cut short every time it is tried.            *)
SensorFairness ==
    /\ WF_sensorVars(Boot) /\ SF_sensorVars(TakeSample) /\ SF_sensorVars(Cadence)
    /\ SF_sensorVars(Build) /\ SF_sensorVars(task = "build" /\ AdvanceReservation /\ UNCHANGED taskVars)
    /\ SF_sensorVars(task = "build" /\ Erase /\ UNCHANGED taskVars)
    /\ WF_sensorVars(StartBurst) /\ WF_sensorVars(EndBurst)

SensorFairSpec == SensorSpec /\ SensorFairness

-------------------------------------------------------------------------------

SensorTypeOK ==
    /\ TypeOK
    /\ task \in {"off", "measure", "build", "wait"}
    /\ sample \in Samples \cup {Absent}
    /\ \A p \in {signal, burst} \ {Absent} : p.n \in Word /\ p.sample \in Samples
    /\ settled \in Word \cup {-1}

(* A burst's number exceeds that of every burst before it and every number *)
(* lost with the power, across reboots, skipped packets and packets        *)
(* replaced in the signal (ble_advertise::run over the latest-value signal)*)
BurstsInOrder == [][burst' # burst /\ burst' # Absent => burst'.n > settled]_sensorVars

(* What the receiver, the gateway and the API make of an air payload, when *)
(* it comes from address `from` over link l.                               *)
Arrives(air, from, l) ==
    LET stripped == StripAirMagic(air) IN
    IF ~ stripped.ok THEN stripped
    ELSE LET seen == Parse(stripped.packet)
             o == ParseObservation(EncodeObservation(from, l.age, l.rssi, stripped.packet))
             d == DecodePublish(EncodePublish(l.site, FromObservation(o, l.now))) IN
         IF ~ seen.ok THEN seen ELSE IF ~ d.ok THEN d ELSE OpenEnvelope(d.envelope, MintedKey)

(* value is what a register reading of n / 10 rounds to, or the end of the *)
(* range it lies beyond.                                                   *)
Tenth(value, n, low, high) ==
    /\ value \in low .. high
    /\ \/ n - 5 <= 10 * value /\ 10 * value <= n + 5
       \/ value = low /\ n < 10 * low
       \/ value = high /\ n > 10 * high

(* The values m are what s was sampled as.                                 *)
ValuesOf(m, s) ==
    /\ IF s.raw <= 0 THEN m.battery = 0
       ELSE /\ m.battery * 4096 <= s.raw * 3600 * DividerRatio
            /\ s.raw * 3600 * DividerRatio < (m.battery + 1) * 4096
    /\ IF s.sht = Absent THEN m.temperature = Absent /\ m.humidity = Absent
       ELSE /\ m.temperature # Absent /\ m.humidity # Absent
            /\ Tenth(m.temperature, s.sht.milliCelsius, -4500, 13000)
            /\ Tenth(m.humidity, s.sht.milliPercent, 0, 10000)

(* Packet p, sent over link l, is the reading of its sample ...            *)
Told(p, l) ==
    LET r == Arrives(p.air, OwnAddr, l) IN
    /\ r.ok
    /\ r.addr = OwnAddr /\ r.seq = p.n
    /\ r.rssi = l.rssi /\ r.received = l.now - l.age
    /\ ValuesOf(r.metrics, p.sample)

(* ... and with another version or number, with its header cut short, or   *)
(* from another address, none at all.                                      *)
NotRetold(p, l) ==
    LET ver == [p.air EXCEPT !.head[3] = @ + 1]
        seq == [p.air EXCEPT !.head[4] = (@ + 1) % 256]
        cut == [head |-> SubSeq(p.air.head, 1, 5), body |-> NoBody] IN
    /\ \A air \in {ver, seq, cut} : ~ Arrives(air, OwnAddr, l).ok
    /\ ~ Arrives(p.air, [OwnAddr EXCEPT ![1] = (@ + 1) % 256], l).ok

(* Every packet on air arrives as the reading of what was sampled for its  *)
(* number, to the digit; an SHT that failed leaves two absent values and   *)
(* nothing else; and under another number, version or address the same     *)
(* body is no reading at all (packet/cipher.rs:112-117; sensors.rs         *)
(* "dropping T/H this cycle").                                             *)
ReadingTells == burst # Absent => \A l \in Links : Told(burst, l) /\ NotRetold(burst, l)

(* Again and again the air has caught up with the newest packet, unless it *)
(* was lost with the power: what a slow burst makes the signal skip is     *)
(* older than what goes on air after it (main.rs:71).                      *)
NewestAired == []<>(settled = last)
===============================================================================
