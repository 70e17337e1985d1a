-------------------------- MODULE ProvisioningProofs --------------------------
(***************************************************************************)
(* Whatever interrupts the provisioning tool, no number is sealed twice    *)
(* under one key: for any number of keys, images, packets and faults, as   *)
(* long as every image keeps its counter in one region of flash.           *)
(* And what a run reports is true, as long as the API's answers are and no *)
(* mint outlives the run that asked for it.                                *)
(***************************************************************************)
EXTENDS Provisioning, TLAPS

OneRegion == \A i, j \in Images : Region[i] = Region[j]

(* Only `provision` and `rotate` ask the registry and mint.                *)
QueryBeforeMint ==
    At("unlock") \/ At("query") \/ At("confirm") => tool.op \in {"provision", "rotate"}

(* The keys whose bits are on the board, in the core or were sealed under  *)
(* have been generated, so a key generated now is none of them.            *)
MixesMinted ==
    /\ body.mix \subseteq minted
    /\ cpu.key.mix \subseteq minted
    /\ \A p \in used : p[1].mix \subseteq minted

(* From the mint to the write nothing was sealed with the run's key ...    *)
KeyUnsealed ==
    At("mint") \/ At("ask") \/ At("erase") \/ At("write_key") =>
        /\ cpu.state # "run"
        /\ tool.key \in minted
        /\ \A p \in used : tool.key \notin p[1].mix

(* ... and from there to the end of the install, nor with what the board   *)
(* holds, so that its counter may start over.                              *)
BodyUnsealed ==
    \/ At("write_header") \/ At("verify") \/ At("clear")
    \/ At("flash") /\ tool.op # "flash"
    => /\ cpu.state # "run"
       /\ \A p \in used : p[1] # body

(* NoOldKeyOverFreshCounter for every image that may be flashed next.      *)
CounterAhead ==
    header = "present" =>
        \A i \in Images : \A p \in used : p[1] = body => p[2] < counter[Region[i]]

(* A core that runs, or may resume, is ahead of what it has sealed.        *)
CoreAhead ==
    cpu.state \in {"run", "halted"} =>
        /\ ~ At("clear")
        /\ \A i \in Images : cpu.region = Region[i]
        /\ cpu.seq = counter[cpu.region]
        /\ \A p \in used : p[1] = cpu.key => p[2] < cpu.seq

(* The inductive invariant.                                                *)
IInv == TypeOK /\ QueryBeforeMint /\ MixesMinted /\ KeyUnsealed /\ BodyUnsealed /\ CounterAhead /\ CoreAhead

-------------------------------------------------------------------------------
(* Types, used by every step below.                                        *)
LEMMA StoppedTyped == Stopped \in Cpu /\ Stopped.state = "off" /\ Stopped.key = ErasedBody
<1>1. ErasedBody \in Body
  BY DEF ErasedBody, Body
<1>2. (CHOOSE r \in Regions : TRUE) \in Regions
  BY ProvisioningAssumption
<1>3. 0 \in 0 .. MaxSeq
  BY ProvisioningAssumption
<1> QED
  BY <1>1, <1>2, <1>3 DEF Stopped, Cpu

LEMMA BootCases ==
    ASSUME TypeOK, Boot
    PROVE  /\ cpu' \in Cpu
           /\ cpu'.key.mix \subseteq body.mix
           /\ cpu'.state \in {"run", "halted"} =>
                  /\ header = "present" /\ image \in Images
                  /\ cpu'.key = body /\ cpu'.region = Region[image]
                  /\ cpu'.seq = counter[Region[image]]
<1>1. CASE image = NoImage
  BY <1>1, StoppedTyped DEF Boot, ErasedBody
<1>2. CASE image # NoImage /\ header # "present"
  <2>1. cpu' = [Stopped EXCEPT !.state = "dark"]
    BY <1>2 DEF Boot
  <2> QED
    BY <2>1, StoppedTyped DEF Cpu, ErasedBody
<1>3. CASE image # NoImage /\ header = "present"
  <2>1. cpu' = [state |-> "run", key |-> body, seq |-> counter[Region[image]],
                region |-> Region[image]]
    BY <1>3 DEF Boot
  <2>2. image \in Images /\ Region[image] \in Regions /\ counter[Region[image]] \in 0 .. MaxSeq
    BY <1>3, ProvisioningAssumption DEF TypeOK
  <2> QED
    BY <1>3, <2>1, <2>2 DEF TypeOK, Cpu
<1> QED
  BY <1>1, <1>2, <1>3

LEMMA InitTyped == Init => TypeOK
<1> SUFFICES ASSUME Init PROVE TypeOK
  OBVIOUS
<1>1. body \in Body
  <2>1. body = ErasedBody \/ body = Foreign
    BY DEF Init
  <2>2. ErasedBody \in Body
    BY DEF Body, ErasedBody
  <2>3. Foreign \in Body
    BY DEF Body, Foreign
  <2> QED
    BY <2>1, <2>2, <2>3
<1>2. header \in {"blank", "malformed", "present"} /\ cpu \in Cpu
  BY StoppedTyped DEF Init
<1>3. counter \in [Regions -> 0 .. MaxSeq] /\ faults \in 0 .. MaxFaults
  BY ProvisioningAssumption DEF Init
<1>4. tool \in [op : {"none", "provision", "rotate", "flash"}, step : Steps,
                record : {"blank", "malformed", "present"}, epoch : Nat,
                key : Keys \cup {NoKey}, image : Images \cup {NoImage}]
  BY DEF Init, Idle, Steps
<1> QED
  BY <1>1, <1>2, <1>3, <1>4 DEF Init, TypeOK

USE DEF At, Goto, EndRun

LEMMA PowerCycleTyped == ASSUME TypeOK, PowerCycle PROVE TypeOK'
  BY BootCases DEF TypeOK, PowerCycle, chip, registry, history

LEMMA SealPacketTyped == ASSUME TypeOK, SealPacket PROVE TypeOK'
<1>1. cpu' \in Cpu /\ counter' \in [Regions -> 0 .. MaxSeq]
  BY ProvisioningAssumption DEF TypeOK, SealPacket, Cpu
<1>2. used' \subseteq Body \X (0 .. MaxSeq)
  BY DEF TypeOK, SealPacket, Cpu
<1> QED
  BY <1>1, <1>2 DEF TypeOK, SealPacket, registry

LEMMA ChipEraseTyped == ASSUME TypeOK, ChipErase PROVE TypeOK'
  BY ProvisioningAssumption, StoppedTyped
  DEF TypeOK, ChipErase, Body, ErasedBody, registry, history

LEMMA StartTyped ==
    ASSUME TypeOK, NEW op \in {"provision", "rotate", "flash"},
           NEW img \in Images \cup {NoImage}, NEW unlock \in BOOLEAN, Start(op, img, unlock)
    PROVE  TypeOK'
<1>1. PICK start \in IF unlock THEN UnlockingStarts ELSE PlainStarts :
          /\ tool' = [Idle EXCEPT !.op = op, !.image = img, !.record = header, !.epoch = epoch,
                          !.step = CASE start = "bail" -> "idle"
                                     [] start # "bail" /\ op = "flash" -> "flash"
                                     [] start = "unlock" /\ op # "flash" -> "unlock"
                                     [] OTHER -> "query"]
          /\ outcome' = IF start = "bail" THEN "stopped" ELSE "none"
  BY DEF Start
<1>2. PICK step \in {"idle", "unlock", "flash", "query"} :
          tool' = [op |-> op, step |-> step, record |-> header, epoch |-> epoch,
                   key |-> NoKey, image |-> img]
  BY <1>1 DEF Idle
<1>3. outcome' \in {"stopped", "none"}
  BY <1>1
<1>4. /\ header \in {"blank", "malformed", "present"} /\ epoch \in Nat
      /\ UNCHANGED <<chip, cpu, registry, history, faults>>
  BY DEF TypeOK, Start
<1>5. tool' \in [op : {"none", "provision", "rotate", "flash"}, step : Steps,
                record : {"blank", "malformed", "present"}, epoch : Nat,
                key : Keys \cup {NoKey}, image : Images \cup {NoImage}]
  <2>1. /\ step \in Steps /\ NoKey \in Keys \cup {NoKey}
        /\ op \in {"none", "provision", "rotate", "flash"}
    BY DEF Steps
  <2> HIDE DEF Steps
  <2> QED BY <1>2, <1>4, <2>1
<1> QED
  BY <1>3, <1>4, <1>5 DEF TypeOK, chip, registry, history

LEMMA UnlockTyped == ASSUME TypeOK, Unlock PROVE TypeOK'
<1>1. counter' \in [Regions -> 0 .. MaxSeq] /\ faults' \in 0 .. MaxFaults
  BY ProvisioningAssumption DEF TypeOK, Unlock
<1>2. body' \in Body
  BY DEF Unlock, Body, ErasedBody
<1>3. /\ header' = "blank" /\ image' = NoImage /\ cpu' = Stopped
      /\ tool' = [tool EXCEPT !.step = "query", !.record = "blank"]
      /\ UNCHANGED <<registry, outcome, history>>
  BY DEF Unlock
<1> QED
  BY <1>1, <1>2, <1>3, StoppedTyped DEF TypeOK, Steps, registry, history

LEMMA RequestTyped ==
    ASSUME TypeOK, QueryBeforeMint,
           Query \/ Decline \/ RequestKey \/ GiveUpWaiting \/ AskRegistry
    PROVE  TypeOK'
<1>1. CASE Query \/ Decline
  <2>1. /\ tool' = [tool EXCEPT !.step = "confirm", !.epoch = epoch] \/ tool' = [tool EXCEPT !.step = "idle"]
        /\ outcome' \in {outcome, "stopped"}
    BY <1>1 DEF Query, Decline
  <2>2. UNCHANGED <<chip, cpu, registry, history, faults>>
    BY <1>1 DEF Query, Decline
  <2>3. tool' \in [op : {"none", "provision", "rotate", "flash"}, step : Steps,
                   record : {"blank", "malformed", "present"}, epoch : Nat,
                   key : Keys \cup {NoKey}, image : Images \cup {NoImage}]
    BY <2>1 DEF TypeOK, Steps
  <2> QED
    BY <2>1, <2>2, <2>3 DEF TypeOK, chip, registry, history
<1>2. CASE RequestKey
  <2>1. cpu' \in Cpu
    BY <1>2 DEF TypeOK, RequestKey, Cpu
  <2>2. PICK k \in Keys \ minted :
            /\ minted' = minted \cup {k}
            /\ inflight' = inflight \cup {[op |-> tool.op, key |-> k]}
            /\ tool' = [tool EXCEPT !.step = "mint", !.key = k]
    BY <1>2 DEF RequestKey
  <2>3. tool.op \in {"provision", "rotate"}
    BY <1>2 DEF RequestKey, QueryBeforeMint
  <2>4. inflight' \subseteq [op : {"provision", "rotate"}, key : Keys]
    BY <2>2, <2>3 DEF TypeOK
  <2>5. tool' \in [op : {"none", "provision", "rotate", "flash"}, step : Steps,
                   record : {"blank", "malformed", "present"}, epoch : Nat,
                   key : Keys \cup {NoKey}, image : Images \cup {NoImage}]
    BY <2>2 DEF TypeOK, Steps
  <2> QED
    BY <1>2, <2>1, <2>2, <2>4, <2>5 DEF TypeOK, RequestKey, chip
<1>3. CASE GiveUpWaiting
  BY <1>3 DEF TypeOK, GiveUpWaiting, Steps, chip, registry, history
<1>4. CASE AskRegistry
  <2>1. tool' = [tool EXCEPT !.step = "idle"] /\ outcome' \in {"unknown", "committed", "untouched"}
    BY <1>4 DEF AskRegistry, ClassifyMint
  <2> QED
    BY <1>4, <2>1 DEF TypeOK, AskRegistry, Steps, chip, registry, history
<1> QED
  BY <1>1, <1>2, <1>3, <1>4

(* Whatever the replies are, the run goes on, asks again or ends.          *)
LEMMA AnswerCases ==
    ASSUME NEW r, NEW S, Answer(r, S), Awaited(r)
    PROVE  \/ Goto(IF tool.record # "blank" THEN "erase" ELSE "write_key") /\ UNCHANGED outcome
           \/ Goto("ask") /\ UNCHANGED outcome
           \/ EndRun("refused")
<1>1. PICK result \in {HandleResponse(arrival) : arrival \in UNION {Arrivals(a) : a \in S}} :
          CASE result.kind = "ok" -> /\ Goto(IF tool.record # "blank" THEN "erase" ELSE "write_key")
                                     /\ UNCHANGED outcome
            [] MayHaveCommitted(result) -> Goto("ask") /\ UNCHANGED outcome
            [] OTHER -> EndRun("refused")
  BY DEF Answer
<1>2. CASE result.kind = "ok"
  <2>1. ~ MayHaveCommitted(result)
    BY <1>2 DEF MayHaveCommitted
  <2> QED
    BY <1>1, <1>2, <2>1
<1>3. CASE result.kind # "ok" /\ MayHaveCommitted(result)
  BY <1>1, <1>3
<1>4. CASE result.kind # "ok" /\ ~ MayHaveCommitted(result)
  BY <1>1, <1>4
<1> QED
  BY <1>2, <1>3, <1>4

LEMMA AnswerTyped ==
    ASSUME TypeOK, NEW r \in inflight, NEW S, Answer(r, S)
    PROVE  /\ tool' = [tool EXCEPT !.step = tool'.step]
           /\ tool'.step \in Steps
           /\ outcome' \in {outcome, "refused"}
<1>1. CASE ~ Awaited(r)
  BY <1>1 DEF TypeOK, Answer
<1>2. CASE Awaited(r)
  BY <1>2, AnswerCases DEF TypeOK, Steps
<1> QED
  BY <1>1, <1>2

LEMMA ApiTyped ==
    ASSUME TypeOK, NEW r \in inflight, Commit(r) \/ Refuse(r)
    PROVE  TypeOK'
<1>1. CASE Commit(r)
  BY <1>1, AnswerTyped DEF TypeOK, Commit, chip, history
<1>2. CASE Refuse(r)
  BY <1>2, AnswerTyped DEF TypeOK, Refuse, chip, history
<1> QED
  BY <1>1, <1>2

LEMMA InstallTyped ==
    ASSUME TypeOK, KeyUnsealed,
           \/ EraseRecord \/ WriteKeyWords \/ WriteHeader \/ VerifyRecord
           \/ FlashImage \/ ClearCounter \/ Reset
    PROVE  TypeOK'
<1>1. CASE EraseRecord
  BY <1>1 DEF TypeOK, EraseRecord, Body, ErasedBody, Steps, registry, history
<1>2. CASE WriteKeyWords
  <2>1. tool.key \in Keys
    BY <1>2 DEF WriteKeyWords, KeyUnsealed, TypeOK
  <2>2. body' \in Body
    BY <1>2, <2>1 DEF WriteKeyWords, TypeOK, Programmed, Body
  <2> QED
    BY <1>2, <2>2 DEF TypeOK, WriteKeyWords, Steps, registry, history
<1>3. CASE WriteHeader
  BY <1>3 DEF TypeOK, WriteHeader, Steps, registry, history
<1>4. CASE VerifyRecord
  BY <1>4 DEF TypeOK, VerifyRecord, Steps, chip, registry, history
<1>5. CASE FlashImage
  <2>1. tool' = [tool EXCEPT !.step = "reset"] \/ tool' = [tool EXCEPT !.step = "clear"]
    BY <1>5 DEF FlashImage
  <2> QED
    BY <1>5, <2>1, StoppedTyped DEF TypeOK, FlashImage, Steps, registry, history
<1>6. CASE ClearCounter
  <2>1. counter' \in [Regions -> 0 .. MaxSeq]
    <3>1. 0 \in 0 .. MaxSeq
      BY ProvisioningAssumption
    <3>2. counter \in [Regions -> 0 .. MaxSeq]
      BY DEF TypeOK
    <3>3. counter' = [counter EXCEPT ![Region[tool.image]] = 0]
      BY <1>6 DEF ClearCounter
    <3> QED
      BY <3>1, <3>2, <3>3
  <2> QED
    BY <1>6, <2>1 DEF TypeOK, ClearCounter, Steps, registry, history
<1>7. CASE Reset
  BY <1>7, BootCases DEF TypeOK, Reset, Steps, chip, registry, history
<1> QED
  BY <1>1, <1>2, <1>3, <1>4, <1>5, <1>6, <1>7

(* What an interrupted step may leave of the board and its core.           *)
LEMMA InterruptCases ==
    ASSUME TypeOK, KeyUnsealed, Interrupt
    PROVE  /\ tool' = [tool EXCEPT !.step = "idle"] /\ ~ At("idle")
           /\ \/ UNCHANGED <<header, body>>
              \/ header' = "blank" /\ body' = ErasedBody
              \/ /\ At("write_key") /\ UNCHANGED header
                 /\ body' \in Body /\ body'.mix = body.mix \cup {tool.key}
              \/ /\ At("write_header") /\ UNCHANGED body
                 /\ header' \in {"malformed", "present"}
           /\ image' \in {image, NoImage}
           /\ \/ UNCHANGED counter
              \/ At("clear") /\ counter' = [counter EXCEPT ![Region[tool.image]] = 0]
           /\ \/ cpu' = Stopped
              \/ UNCHANGED cpu
              \/ cpu.state = "halted" /\ cpu' = [cpu EXCEPT !.state = "run"]
<1>1. ASSUME At("write_key"), NEW all \in BOOLEAN, body' = Programmed(tool.key, all)
      PROVE  body' \in Body /\ body'.mix = body.mix \cup {tool.key}
  <2>1. tool.key \in Keys
    BY <1>1 DEF KeyUnsealed, TypeOK
  <2> QED
    BY <1>1, <2>1 DEF Programmed, Body, TypeOK
<1>2. \/ UNCHANGED <<header, body>>
      \/ header' = "blank" /\ body' = ErasedBody
      \/ /\ At("write_key") /\ UNCHANGED header
         /\ body' \in Body /\ body'.mix = body.mix \cup {tool.key}
      \/ /\ At("write_header") /\ UNCHANGED body
         /\ header' \in {"malformed", "present"}
  BY <1>1 DEF Interrupt
<1>3. /\ image' \in {image, NoImage}
      /\ \/ UNCHANGED counter
         \/ At("clear") /\ counter' = [counter EXCEPT ![Region[tool.image]] = 0]
      /\ \/ cpu' = Stopped
         \/ UNCHANGED cpu
         \/ cpu.state = "halted" /\ cpu' = [cpu EXCEPT !.state = "run"]
  BY DEF Interrupt
<1> QED
  BY <1>2, <1>3 DEF Interrupt

LEMMA InterruptTyped == ASSUME TypeOK, KeyUnsealed, Interrupt PROVE TypeOK'
<1>1. body' \in Body /\ header' \in {"blank", "malformed", "present"}
  BY InterruptCases, StoppedTyped DEF TypeOK, Cpu
<1>2. cpu' \in Cpu
  BY InterruptCases, StoppedTyped DEF TypeOK, Cpu
<1>3. counter' \in [Regions -> 0 .. MaxSeq]
  BY InterruptCases, ProvisioningAssumption DEF TypeOK
<1>4. outcome' = "failed" /\ faults' \in 0 .. MaxFaults
  BY ProvisioningAssumption DEF Interrupt, TypeOK
<1> QED
  BY <1>1, <1>2, <1>3, <1>4, InterruptCases DEF TypeOK, Interrupt, Steps, registry, history

-------------------------------------------------------------------------------
(* Each action preserves the invariant.                                    *)
LEMMA InitInv == Init => IInv
<1> SUFFICES ASSUME Init PROVE IInv
  OBVIOUS
<1>1. TypeOK
  BY InitTyped
<1>2. used = {} /\ tool.step = "idle" /\ cpu = Stopped
  BY DEF Init, Idle
<1>3. body.mix = {}
  BY DEF Init, ErasedBody, Foreign
<1>4. cpu.state = "off" /\ cpu.key.mix = {}
  BY <1>2, StoppedTyped DEF ErasedBody
<1> QED
  BY <1>1, <1>2, <1>3, <1>4
  DEF IInv, QueryBeforeMint, MixesMinted, KeyUnsealed, BodyUnsealed, CounterAhead, CoreAhead

LEMMA BootInv ==
    ASSUME IInv, Boot, OneRegion, UNCHANGED <<chip, history>>, tool'.step = "idle"
    PROVE  /\ MixesMinted' /\ QueryBeforeMint' /\ KeyUnsealed'
           /\ BodyUnsealed' /\ CounterAhead' /\ CoreAhead'
<1>1. MixesMinted'
  BY BootCases DEF IInv, MixesMinted, chip, history
<1>2. CounterAhead'
  BY DEF IInv, CounterAhead, chip, history
<1>3. CoreAhead'
  BY BootCases DEF IInv, CoreAhead, CounterAhead, OneRegion, chip, history
<1> QED
  BY <1>1, <1>2, <1>3 DEF QueryBeforeMint, KeyUnsealed, BodyUnsealed

LEMMA PowerCycleInv == ASSUME IInv, PowerCycle, OneRegion PROVE IInv'
  BY BootInv, PowerCycleTyped DEF IInv, PowerCycle, chip, history

LEMMA ResetInv == ASSUME IInv, Reset, OneRegion PROVE IInv'
<1>1. tool'.step = "idle" /\ UNCHANGED <<chip, registry, history, faults>>
  BY DEF Reset, IInv, TypeOK
<1> QED
  BY <1>1, BootInv, InstallTyped DEF IInv, Reset

LEMMA SealPacketInv == ASSUME IInv, SealPacket, OneRegion PROVE IInv'
<1> USE DEF IInv
<1>1. /\ cpu.state = "run" /\ cpu' = [cpu EXCEPT !.seq = cpu.seq + 1]
      /\ used' = used \cup {<<cpu.key, cpu.seq>>}
      /\ counter' = [counter EXCEPT ![cpu.region] = cpu.seq + 1]
      /\ UNCHANGED <<header, body, tool, minted>>
  BY DEF SealPacket
<1>2. /\ cpu \in Cpu /\ counter[cpu.region] = cpu.seq
      /\ \A i \in Images : cpu.region = Region[i] /\ Region[i] \in Regions
  BY <1>1, ProvisioningAssumption DEF CoreAhead, TypeOK
<1>3. \A p \in used : p[2] \in Nat
  BY DEF TypeOK
<1>4. cpu'.state = "run" /\ cpu'.key = cpu.key /\ cpu'.seq = cpu.seq + 1 /\ cpu'.region = cpu.region
  BY <1>1, <1>2 DEF Cpu
<1>5. TypeOK'
  BY SealPacketTyped
<1>6. MixesMinted' /\ QueryBeforeMint'
  BY <1>1, <1>4 DEF MixesMinted, QueryBeforeMint
<1>7. KeyUnsealed' /\ BodyUnsealed'
  BY <1>1 DEF KeyUnsealed, BodyUnsealed
<1>8. counter'[cpu.region] = cpu.seq + 1
  BY <1>1, <1>2 DEF TypeOK, Cpu
<1>9. CounterAhead'
  BY <1>1, <1>2, <1>3, <1>8 DEF CounterAhead, Cpu
<1>10. CoreAhead'
  BY <1>1, <1>2, <1>3, <1>4, <1>8 DEF CoreAhead, Cpu
<1> QED
  BY <1>5, <1>6, <1>7, <1>9, <1>10

LEMMA ChipEraseInv == ASSUME IInv, ChipErase PROVE IInv'
<1>1. TypeOK'
  BY ChipEraseTyped DEF IInv
<1>2. MixesMinted'
  BY StoppedTyped DEF IInv, MixesMinted, ChipErase, ErasedBody, history
<1> QED
  BY <1>1, <1>2, StoppedTyped
  DEF IInv, ChipErase, QueryBeforeMint, KeyUnsealed, BodyUnsealed, CounterAhead, CoreAhead, history

(* Steps of the tool and the API that leave the board alone.               *)
LEMMA BoardUntouched ==
    ASSUME IInv, UNCHANGED <<header, body, counter, cpu, used, minted>>, tool'.step # "clear"
    PROVE  MixesMinted' /\ CounterAhead' /\ CoreAhead'
  BY DEF IInv, MixesMinted, CounterAhead, CoreAhead

LEMMA StartInv ==
    ASSUME IInv, NEW op \in {"provision", "rotate", "flash"},
           NEW img \in Images \cup {NoImage}, NEW unlock \in BOOLEAN, Start(op, img, unlock)
    PROVE  IInv'
<1>1. /\ tool'.op = op
      /\ tool'.step \in {"idle", "flash", "unlock", "query"}
      /\ tool'.step = "flash" => op = "flash"
      /\ tool'.step \in {"unlock", "query"} => op # "flash"
  <2>1. PICK start \in IF unlock THEN UnlockingStarts ELSE PlainStarts :
            tool' = [Idle EXCEPT !.op = op, !.image = img, !.record = header, !.epoch = epoch,
                         !.step = CASE start = "bail" -> "idle"
                                    [] start # "bail" /\ op = "flash" -> "flash"
                                    [] start = "unlock" /\ op # "flash" -> "unlock"
                                    [] OTHER -> "query"]
    BY DEF Start
  <2>2. /\ tool'.op = op
        /\ tool'.step = CASE start = "bail" -> "idle"
                           [] start # "bail" /\ op = "flash" -> "flash"
                           [] start = "unlock" /\ op # "flash" -> "unlock"
                           [] OTHER -> "query"
    BY <2>1 DEF Idle
  <2> QED
    BY <2>2
<1>2. TypeOK'
  BY StartTyped DEF IInv
<1>3. MixesMinted' /\ CounterAhead' /\ CoreAhead'
  BY <1>1, BoardUntouched DEF Start, chip, history
<1> QED
  BY <1>1, <1>2, <1>3 DEF IInv, QueryBeforeMint, KeyUnsealed, BodyUnsealed

LEMMA UnlockInv == ASSUME IInv, Unlock PROVE IInv'
<1>1. /\ tool'.step = "query" /\ tool'.op = tool.op
      /\ header' = "blank" /\ body' = ErasedBody /\ cpu' = Stopped
      /\ UNCHANGED <<used, minted>>
  BY DEF IInv, TypeOK, Unlock, history
<1>2. TypeOK'
  BY UnlockTyped DEF IInv
<1>3. MixesMinted'
  BY <1>1, StoppedTyped DEF IInv, MixesMinted, ErasedBody
<1> QED
  BY <1>1, <1>2, <1>3, StoppedTyped
  DEF IInv, Unlock, QueryBeforeMint, KeyUnsealed, BodyUnsealed, CounterAhead, CoreAhead

LEMMA RequestKeyInv == ASSUME IInv, RequestKey PROVE IInv'
<1> USE DEF IInv
<1>1. PICK k \in Keys \ minted :
          /\ minted' = minted \cup {k}
          /\ tool' = [tool EXCEPT !.step = "mint", !.key = k]
  BY DEF RequestKey
<1>2. tool'.step = "mint" /\ tool'.key = k
  BY <1>1 DEF TypeOK
<1>3. /\ cpu'.state # "run" /\ cpu'.key = cpu.key
      /\ cpu'.seq = cpu.seq /\ cpu'.region = cpu.region
      /\ cpu'.state \in {"run", "halted"} => cpu.state \in {"run", "halted"}
  BY DEF RequestKey, TypeOK, Cpu
<1>4. UNCHANGED <<header, body, image, counter, used>>
  BY DEF RequestKey, chip
<1>5. TypeOK'
  BY RequestTyped
<1>6. MixesMinted' /\ CounterAhead'
  BY <1>1, <1>3, <1>4 DEF MixesMinted, CounterAhead
<1>7. CoreAhead'
  BY <1>2, <1>3, <1>4 DEF CoreAhead
<1>8. KeyUnsealed'
  BY <1>1, <1>2, <1>3, <1>4 DEF KeyUnsealed, MixesMinted
<1> QED
  BY <1>2, <1>5, <1>6, <1>7, <1>8 DEF QueryBeforeMint, BodyUnsealed

LEMMA GaveUpInv ==
    ASSUME IInv, Query \/ Decline \/ GiveUpWaiting \/ AskRegistry PROVE IInv'
<1>1. /\ tool'.step \in {"idle", "ask", "confirm"}
      /\ tool'.key = tool.key /\ tool'.op = tool.op
      /\ tool'.step = "ask" => At("mint")
      /\ tool'.step = "confirm" => At("query")
  BY DEF IInv, TypeOK, Query, Decline, GiveUpWaiting, AskRegistry
<1>2. UNCHANGED <<header, body, counter, cpu, used, minted>>
  BY DEF Query, Decline, GiveUpWaiting, AskRegistry, chip, history
<1>3. TypeOK'
  BY RequestTyped DEF IInv
<1>4. MixesMinted' /\ CounterAhead' /\ CoreAhead'
  BY <1>1, <1>2, BoardUntouched
<1> QED
  BY <1>1, <1>2, <1>3, <1>4 DEF IInv, QueryBeforeMint, KeyUnsealed, BodyUnsealed

LEMMA AnswerSteps ==
    ASSUME TypeOK, NEW r \in inflight, NEW S, Answer(r, S)
    PROVE  \/ UNCHANGED tool
           \/ /\ At("mint") /\ tool'.key = tool.key
              /\ tool'.step \in {"erase", "write_key", "ask", "idle"}
<1>1. CASE ~ Awaited(r)
  BY <1>1 DEF Answer
<1>2. CASE Awaited(r)
  BY <1>2, AnswerCases DEF TypeOK, Awaited
<1> QED
  BY <1>1, <1>2

LEMMA ApiInv == ASSUME IInv, NEW r \in inflight, Commit(r) \/ Refuse(r) PROVE IInv'
<1>1. \/ UNCHANGED tool
      \/ /\ At("mint") /\ tool'.key = tool.key
         /\ tool'.step \in {"erase", "write_key", "ask", "idle"}
  BY AnswerSteps DEF IInv, Commit, Refuse
<1>2. UNCHANGED <<header, body, counter, cpu, used, minted>>
  BY DEF Commit, Refuse, chip, history
<1>3. TypeOK'
  BY ApiTyped DEF IInv
<1>4. MixesMinted' /\ CounterAhead' /\ CoreAhead'
  BY <1>1, <1>2 DEF IInv, MixesMinted, CounterAhead, CoreAhead
<1> QED
  BY <1>1, <1>2, <1>3, <1>4 DEF IInv, QueryBeforeMint, KeyUnsealed, BodyUnsealed

LEMMA EraseRecordInv == ASSUME IInv, EraseRecord PROVE IInv'
<1>1. /\ tool'.step = "write_key" /\ tool'.key = tool.key
      /\ header' = "blank" /\ body' = ErasedBody
      /\ UNCHANGED <<counter, cpu, used, minted>>
  BY DEF IInv, TypeOK, EraseRecord, history
<1>2. TypeOK'
  BY InstallTyped DEF IInv
<1>3. KeyUnsealed'
  BY <1>1 DEF IInv, EraseRecord, KeyUnsealed
<1>4. MixesMinted'
  BY <1>1 DEF IInv, MixesMinted, ErasedBody
<1> QED
  BY <1>1, <1>2, <1>3, <1>4
  DEF IInv, QueryBeforeMint, BodyUnsealed, CounterAhead, CoreAhead

(* The new body holds bits of a key that nothing was sealed with.          *)
LEMMA WriteKeyWordsInv == ASSUME IInv, WriteKeyWords PROVE IInv'
<1>1. /\ tool'.step = "write_header"
      /\ body'.mix = body.mix \cup {tool.key}
      /\ UNCHANGED <<header, counter, cpu, used, minted>>
  BY DEF IInv, TypeOK, WriteKeyWords, Programmed, history
<1>2. TypeOK'
  BY InstallTyped DEF IInv
<1>3. /\ cpu.state # "run" /\ tool.key \in minted
      /\ \A p \in used : tool.key \notin p[1].mix
  BY DEF IInv, WriteKeyWords, KeyUnsealed
<1>4. \A p \in used : p[1] # body'
  BY <1>1, <1>3
<1>5. MixesMinted'
  BY <1>1, <1>3 DEF IInv, MixesMinted
<1> QED
  BY <1>1, <1>2, <1>3, <1>4, <1>5
  DEF IInv, QueryBeforeMint, KeyUnsealed, BodyUnsealed, CounterAhead, CoreAhead

LEMMA WriteHeaderInv == ASSUME IInv, WriteHeader PROVE IInv'
<1>1. tool'.step = "verify" /\ UNCHANGED <<body, counter, cpu, used, minted>>
  BY DEF IInv, TypeOK, WriteHeader, history
<1>2. TypeOK'
  BY InstallTyped DEF IInv
<1>3. cpu.state # "run" /\ \A p \in used : p[1] # body
  BY DEF IInv, WriteHeader, BodyUnsealed
<1> QED
  BY <1>1, <1>2, <1>3
  DEF IInv, QueryBeforeMint, MixesMinted, KeyUnsealed, BodyUnsealed, CounterAhead, CoreAhead

LEMMA VerifyRecordInv == ASSUME IInv, VerifyRecord PROVE IInv'
<1>1. /\ tool'.step \in {"reset", "flash", "idle"}
      /\ UNCHANGED <<header, body, counter, cpu, used, minted>>
  BY DEF IInv, TypeOK, VerifyRecord, chip, history
<1>2. TypeOK'
  BY InstallTyped DEF IInv
<1>3. BodyUnsealed'
  BY <1>1 DEF IInv, VerifyRecord, BodyUnsealed
<1>4. MixesMinted' /\ CounterAhead' /\ CoreAhead'
  BY <1>1, BoardUntouched
<1> QED
  BY <1>1, <1>2, <1>3, <1>4 DEF IInv, QueryBeforeMint, KeyUnsealed

LEMMA FlashImageInv == ASSUME IInv, FlashImage PROVE IInv'
<1>1. /\ \/ tool'.step = "reset"
         \/ tool'.step = "clear" /\ tool.op # "flash"
      /\ cpu' = Stopped /\ UNCHANGED <<header, body, counter, used, minted>>
  BY DEF IInv, TypeOK, FlashImage, history
<1>2. cpu'.state = "off" /\ cpu'.key.mix = {}
  BY <1>1, StoppedTyped DEF ErasedBody
<1>3. TypeOK'
  BY InstallTyped DEF IInv
<1>4. BodyUnsealed'
  BY <1>1, <1>2 DEF IInv, FlashImage, BodyUnsealed
<1> QED
  BY <1>1, <1>2, <1>3, <1>4
  DEF IInv, QueryBeforeMint, MixesMinted, KeyUnsealed, CounterAhead, CoreAhead

(* The counter starts over under a body that nothing was sealed with.      *)
LEMMA ClearCounterInv == ASSUME IInv, ClearCounter PROVE IInv'
<1>1. tool'.step = "reset" /\ UNCHANGED <<header, body, cpu, used, minted>>
  BY DEF IInv, TypeOK, ClearCounter, history
<1>2. TypeOK'
  BY InstallTyped DEF IInv
<1>3. /\ \A p \in used : p[1] # body
      /\ cpu.state \notin {"run", "halted"}
  BY DEF IInv, ClearCounter, BodyUnsealed, CoreAhead
<1> QED
  BY <1>1, <1>2, <1>3
  DEF IInv, QueryBeforeMint, MixesMinted, KeyUnsealed, BodyUnsealed, CounterAhead, CoreAhead

LEMMA InterruptInv == ASSUME IInv, Interrupt PROVE IInv'
<1> USE DEF IInv
<1>1. tool'.step = "idle" /\ UNCHANGED <<used, minted>>
  BY InterruptCases DEF TypeOK, Interrupt, history
<1>2. TypeOK'
  BY InterruptTyped
<1>3. /\ cpu'.key = cpu.key \/ cpu'.key.mix = {}
      /\ cpu'.state \in {"run", "halted"} =>
             /\ cpu.state \in {"run", "halted"} /\ cpu'.key = cpu.key
             /\ cpu'.seq = cpu.seq /\ cpu'.region = cpu.region
  BY InterruptCases, StoppedTyped DEF TypeOK, Cpu, ErasedBody
<1>4. MixesMinted'
  BY <1>1, <1>3, InterruptCases DEF MixesMinted, KeyUnsealed, ErasedBody
<1>5. CoreAhead'
  BY <1>1, <1>3, InterruptCases DEF CoreAhead
<1>6. CounterAhead'
  <2>1. CASE At("write_key")
    BY <1>1, <2>1, InterruptCases DEF CounterAhead, KeyUnsealed
  <2>2. CASE At("write_header") \/ At("clear")
    BY <1>1, <2>2, InterruptCases DEF CounterAhead, BodyUnsealed
  <2>3. CASE ~ (At("write_key") \/ At("write_header") \/ At("clear"))
    BY <1>1, <2>3, InterruptCases DEF CounterAhead
  <2> QED
    BY <2>1, <2>2, <2>3
<1> QED
  BY <1>1, <1>2, <1>4, <1>5, <1>6 DEF QueryBeforeMint, KeyUnsealed, BodyUnsealed

LEMMA NextInv == ASSUME IInv, [Next]_vars, OneRegion PROVE IInv'
<1>1. CASE PowerCycle \/ SealPacket \/ ChipErase
  BY <1>1, PowerCycleInv, SealPacketInv, ChipEraseInv
<1>2. ASSUME NEW op \in {"provision", "rotate", "flash"},
             NEW img \in Images \cup {NoImage}, NEW unlock \in BOOLEAN, Start(op, img, unlock)
      PROVE  IInv'
  BY <1>2, StartInv
<1>3. CASE Unlock \/ Query \/ Decline \/ RequestKey \/ GiveUpWaiting \/ AskRegistry
  BY <1>3, UnlockInv, GaveUpInv, RequestKeyInv
<1>4. ASSUME NEW r \in inflight, Commit(r) \/ Refuse(r) PROVE IInv'
  BY <1>4, ApiInv
<1>5. CASE EraseRecord \/ WriteKeyWords \/ WriteHeader \/ VerifyRecord
  BY <1>5, EraseRecordInv, WriteKeyWordsInv, WriteHeaderInv, VerifyRecordInv
<1>6. CASE FlashImage \/ ClearCounter \/ Reset \/ Interrupt
  BY <1>6, FlashImageInv, ClearCounterInv, ResetInv, InterruptInv
<1>7. CASE UNCHANGED vars
  BY <1>7
  DEF vars, chip, registry, history, IInv, TypeOK, QueryBeforeMint, MixesMinted,
      KeyUnsealed, BodyUnsealed, CounterAhead, CoreAhead
<1> QED
  BY <1>1, <1>2, <1>3, <1>4, <1>5, <1>6, <1>7 DEF Next

-------------------------------------------------------------------------------
(* The inductive invariant holds of every behaviour.                       *)
LEMMA Inductive == OneRegion => (Spec => []IInv)
<1>1. ASSUME OneRegion PROVE IInv /\ [Next]_vars => IInv'
  BY <1>1, NextInv
<1>2. ASSUME OneRegion PROVE Spec => []IInv
  <2>1. IInv /\ [Next]_vars => IInv'
    BY <1>1, <1>2
  <2> QED
    BY <2>1, InitInv, PTL DEF Spec
<1> QED
  BY <1>2

(***************************************************************************)
(* The types of the board, the registry and the run (`ChipState`, `Mint`,  *)
(* the registry's row), for every size of the constants.                   *)
(***************************************************************************)
THEOREM TypeCorrect == OneRegion => (Spec => []TypeOK)
<1>1. IInv => TypeOK
  BY DEF IInv
<1>2. (Spec => []IInv) => (Spec => []TypeOK)
  BY <1>1, PTL
<1> QED
  BY <1>2, Inductive

(***************************************************************************)
(* No window between two steps of any run, finished or not, in which the   *)
(* board would boot an old key over a fresh counter (`install_key`).       *)
(***************************************************************************)
THEOREM NoWindow == OneRegion => (Spec => []NoOldKeyOverFreshCounter)
<1>1. IInv => NoOldKeyOverFreshCounter
  BY DEF IInv, TypeOK, CounterAhead, NoOldKeyOverFreshCounter
<1>2. (Spec => []IInv) => (Spec => []NoOldKeyOverFreshCounter)
  BY <1>1, PTL
<1> QED
  BY <1>2, Inductive

(***************************************************************************)
(* No number is sealed twice under one key, however often boards are re-   *)
(* keyed, re-flashed and erased and runs are cut short (`flash`, `rotate`, *)
(* `provision`, the sensor's telemetry task).                              *)
(***************************************************************************)
THEOREM SealedOnce == OneRegion => (Spec => NoncesOncePerKey)
<1>1. IInv /\ [Next]_vars => [SealPacket => <<cpu.key, cpu.seq>> \notin used]_vars
  <2>1. ASSUME IInv, SealPacket PROVE <<cpu.key, cpu.seq>> \notin used
    <3>1. cpu.seq \in Nat /\ \A p \in used : p[1] = cpu.key => p[2] < cpu.seq
      BY <2>1 DEF IInv, TypeOK, Cpu, SealPacket, CoreAhead
    <3> QED
      BY <3>1
  <2> QED
    BY <2>1
<1>2. (Spec => []IInv) => (Spec => NoncesOncePerKey)
  BY <1>1, PTL DEF Spec, NoncesOncePerKey
<1> QED
  BY <1>2, Inductive
-------------------------------------------------------------------------------
(* Success means keyed. A run's only request is answered before the run    *)
(* goes on, as long as no mint outlives it (LateCommit), so that the row   *)
(* cannot change between the answer and the end of the run.                *)
OnlyRequest ==
    \/ inflight = {}
    \/ At("mint") /\ inflight = {[op |-> tool.op, key |-> tool.key]}

Installs == tool.op # "flash"
KeyInRow ==
    Installs /\ tool.step \in {"erase", "write_key", "write_header", "verify",
                               "flash", "clear", "reset"} => row = tool.key
RecordOnBoard ==
    Installs /\ tool.step \in {"flash", "clear", "reset"} =>
        header = "present" /\ body = Record(tool.key)
SuccessEnds == outcome = "success" => At("idle")

KeyedInv == OnlyRequest /\ KeyInRow /\ RecordOnBoard /\ SuccessEnds /\ SuccessMeansKeyed

(* No arrival of a reply with an error status, or of none, is a success.   *)
LEMMA ErrorStatusFails ==
    ASSUME NEW reply, reply.status \notin 200 .. 299, NEW arrival \in Arrivals(reply)
    PROVE  HandleResponse(arrival).kind # "ok"
<1>1. arrival.status \notin 200 .. 299
  <2>1. 0 \notin 200 .. 299 /\ 502 \notin 200 .. 299
    BY SMT
  <2>2. \/ arrival = reply \/ arrival = Silence
        \/ arrival = Reply(reply.status, Unreadable) \/ arrival = Reply(502, Unreadable)
    BY DEF Arrivals
  <2> QED
    BY <2>1, <2>2 DEF Silence, Reply
<1>2. RejectOnErrorStatus(arrival).kind # "ok"
  <2>1. CASE arrival = Silence
    BY <2>1 DEF RejectOnErrorStatus
  <2>2. CASE arrival # Silence /\ arrival.body = Unreadable
    BY <1>1, <2>2 DEF RejectOnErrorStatus, IsSuccess
  <2>3. CASE arrival # Silence /\ arrival.body # Unreadable
    BY <1>1, <2>3 DEF RejectOnErrorStatus, IsSuccess
  <2> QED
    BY <2>1, <2>2, <2>3
<1> QED
  BY <1>2 DEF HandleResponse

LEMMA ErrorsFail ==
    /\ Silence.status \notin 200 .. 299 /\ Unauthorized.status \notin 200 .. 299
    /\ ApiError(404, "not_found").status \notin 200 .. 299
    /\ ApiError(405, "method_not_allowed").status \notin 200 .. 299
    /\ \A error \in {"db", "key_gen", "already_exists", "not_found"} :
           FromDeviceError(error).status \notin 200 .. 299
<1>1. \A status \in {0, 401, 404, 405, 409, 500} : status \notin 200 .. 299
  BY SMT
<1>2. /\ FromDeviceError("db").status = 500 /\ FromDeviceError("key_gen").status = 500
      /\ FromDeviceError("not_found").status = 404
      /\ FromDeviceError("already_exists").status = 409
  BY DEF FromDeviceError, Internal, ApiError, WithDetails, Reply
<1> QED
  BY <1>1, <1>2 DEF Silence, Unauthorized, ApiError, Reply

(* A refused request is never taken for a minted key.                      *)
LEMMA RefusalFails ==
    ASSUME TypeOK, NEW r \in inflight, Refuse(r), Awaited(r)
    PROVE  \/ Goto("ask") /\ UNCHANGED outcome
           \/ EndRun("refused")
<1> DEFINE Refused == {Silence} \cup {Serve(ClientRequest(r.op), accepted, FromDeviceError(error)) :
                                          accepted \in BOOLEAN, error \in Refusals(r)}
<1>1. Refusals(r) \subseteq {"db", "key_gen", "already_exists", "not_found"}
  BY DEF Refusals
<1>2. \A reply \in Refused : reply.status \notin 200 .. 299
  <2>1. ASSUME NEW accepted, NEW error \in Refusals(r)
        PROVE  Serve(ClientRequest(r.op), accepted, FromDeviceError(error)).status \notin 200 .. 299
    <3> DEFINE reply == Serve(ClientRequest(r.op), accepted, FromDeviceError(error))
    <3>1. \/ reply = ApiError(404, "not_found") \/ reply = ApiError(405, "method_not_allowed")
          \/ reply = Unauthorized \/ reply = FromDeviceError(error)
      BY DEF Serve, RequireBearer, Extracted
    <3> HIDE DEF reply
    <3>2. reply.status \notin 200 .. 299
      BY <1>1, <2>1, <3>1, ErrorsFail
    <3> QED BY <3>2 DEF reply
  <2> QED BY <2>1, ErrorsFail
<1>3. PICK result \in {HandleResponse(arrival) : arrival \in UNION {Arrivals(a) : a \in Refused}} :
          CASE result.kind = "ok" -> /\ Goto(IF tool.record # "blank" THEN "erase" ELSE "write_key")
                                     /\ UNCHANGED outcome
            [] MayHaveCommitted(result) -> Goto("ask") /\ UNCHANGED outcome
            [] OTHER -> EndRun("refused")
  BY DEF Refuse, Answer
<1>4. result.kind # "ok"
  <2> HIDE DEF Refused
  <2>1. PICK reply \in Refused : \E arrival \in Arrivals(reply) : result = HandleResponse(arrival)
    BY <1>3
  <2> QED BY <1>2, <2>1, ErrorStatusFails
<1>5. CASE MayHaveCommitted(result)
  BY <1>3, <1>4, <1>5
<1>6. CASE ~ MayHaveCommitted(result)
  BY <1>3, <1>4, <1>6
<1> QED
  BY <1>5, <1>6

LEMMA InitKeyed == Init => KeyedInv
  BY DEF Init, Idle, KeyedInv, OnlyRequest, KeyInRow, RecordOnBoard, SuccessEnds, SuccessMeansKeyed

(* Between runs: packets, power cycles and erases.                         *)
LEMMA BetweenKeyed ==
    ASSUME TypeOK, KeyedInv, PowerCycle \/ SealPacket \/ ChipErase PROVE KeyedInv'
<1> USE DEF KeyedInv, OnlyRequest, Installs, KeyInRow, RecordOnBoard, SuccessEnds
<1>1. CASE PowerCycle
  <2>1. SuccessMeansKeyed'
    BY <1>1, BootCases DEF PowerCycle, SuccessMeansKeyed, chip, registry
  <2> QED
    BY <1>1, <2>1 DEF PowerCycle, chip, registry
<1>2. CASE SealPacket
  <2>1. /\ cpu'.state = cpu.state /\ cpu'.key = cpu.key
        /\ UNCHANGED <<header, body, row, inflight, tool, outcome>>
    BY <1>2 DEF SealPacket, TypeOK, Cpu, registry
  <2> QED
    BY <2>1 DEF SuccessMeansKeyed
<1>3. CASE ChipErase
  BY <1>3 DEF ChipErase, SuccessMeansKeyed, registry
<1> QED
  BY <1>1, <1>2, <1>3

(* A run up to its request.                                                *)
LEMMA RequestKeyed ==
    ASSUME TypeOK, QueryBeforeMint, KeyedInv, ~ LateCommit,
           Unlock \/ Query \/ Decline \/ RequestKey \/ GiveUpWaiting \/ AskRegistry
    PROVE  KeyedInv'
<1> USE DEF KeyedInv, OnlyRequest, KeyInRow, RecordOnBoard, SuccessEnds, SuccessMeansKeyed
<1>1. CASE Unlock
  <2>1. tool'.step = "query"
    BY <1>1 DEF Unlock, TypeOK
  <2> QED
    BY <1>1, <2>1 DEF Unlock, registry
<1>2. CASE Query \/ Decline
  <2>1. /\ tool'.step \in {"confirm", "idle"} /\ inflight' = {}
        /\ outcome' \in {outcome, "stopped"} /\ tool.step # "idle"
    BY <1>2 DEF Query, Decline, TypeOK, registry
  <2> QED
    BY <1>2, <2>1
<1>3. CASE RequestKey
  <2>1. PICK k \in Keys \ minted :
            /\ inflight' = inflight \cup {[op |-> tool.op, key |-> k]}
            /\ tool' = [tool EXCEPT !.step = "mint", !.key = k]
    BY <1>3 DEF RequestKey
  <2>2. tool'.step = "mint" /\ tool'.key = k /\ tool'.op = tool.op
    BY <2>1 DEF TypeOK
  <2>3. inflight = {} /\ outcome' # "success"
    BY <1>3 DEF RequestKey
  <2> QED
    BY <2>1, <2>2, <2>3
<1>4. CASE GiveUpWaiting
  BY <1>4 DEF GiveUpWaiting
<1>5. CASE AskRegistry
  <2>1. /\ tool'.step = "idle" /\ inflight' = {}
        /\ outcome' \in {"unknown", "committed", "untouched"}
    BY <1>5 DEF AskRegistry, ClassifyMint, TypeOK, registry
  <2> QED
    BY <1>5, <2>1
<1> QED
  BY <1>1, <1>2, <1>3, <1>4, <1>5

LEMMA StartKeyed ==
    ASSUME KeyedInv, NEW op \in {"provision", "rotate", "flash"},
           NEW img \in Images \cup {NoImage}, NEW unlock \in BOOLEAN, Start(op, img, unlock)
    PROVE  KeyedInv'
<1>1. PICK start \in IF unlock THEN UnlockingStarts ELSE PlainStarts :
          /\ tool' = [Idle EXCEPT !.op = op, !.image = img, !.record = header, !.epoch = epoch,
                          !.step = CASE start = "bail" -> "idle"
                                     [] start # "bail" /\ op = "flash" -> "flash"
                                     [] start = "unlock" /\ op # "flash" -> "unlock"
                                     [] OTHER -> "query"]
          /\ outcome' = IF start = "bail" THEN "stopped" ELSE "none"
  BY DEF Start
<1>2. /\ tool'.op = op
      /\ tool'.step = CASE start = "bail" -> "idle"
                         [] start # "bail" /\ op = "flash" -> "flash"
                         [] start = "unlock" /\ op # "flash" -> "unlock"
                         [] OTHER -> "query"
  BY <1>1 DEF Idle
<1>3. /\ tool'.step \in {"idle", "flash", "unlock", "query"}
      /\ tool'.step = "flash" => tool'.op = "flash"
      /\ outcome' # "success"
  BY <1>1, <1>2
<1>4. inflight' = {}
  BY DEF Start, KeyedInv, OnlyRequest, registry
<1> QED
  BY <1>3, <1>4
  DEF KeyedInv, OnlyRequest, Installs, KeyInRow, RecordOnBoard, SuccessEnds, SuccessMeansKeyed

(* The answer: only a commit lets the run go on to the board.              *)
LEMMA AnswerKeyed ==
    ASSUME TypeOK, KeyedInv, NEW r \in inflight, Commit(r) \/ Refuse(r)
    PROVE  KeyedInv'
<1> USE DEF KeyedInv, OnlyRequest, KeyInRow, RecordOnBoard, SuccessEnds, SuccessMeansKeyed
<1>1. At("mint") /\ r.key = tool.key /\ inflight' = {} /\ Awaited(r)
  BY DEF Commit, Refuse, Awaited
<1>2. outcome # "success" /\ tool.step = "mint"
  BY <1>1
<1>3. CASE Commit(r)
  <2>1. row' = tool.key
    BY <1>1, <1>3 DEF Commit
  <2>2. /\ tool'.step \in {"erase", "write_key", "ask", "idle"} /\ tool'.key = tool.key
        /\ outcome' \in {outcome, "refused"}
    BY <1>1, <1>3, AnswerCases DEF Commit, TypeOK
  <2> QED
    BY <1>1, <1>2, <2>1, <2>2
<1>4. CASE Refuse(r)
  <2>1. tool'.step \in {"ask", "idle"} /\ outcome' \in {outcome, "refused"}
    BY <1>1, <1>4, RefusalFails DEF TypeOK
  <2> QED
    BY <1>1, <1>2, <2>1
<1> QED
  BY <1>3, <1>4

(* The install: only a record read back whole lets it go on to the image.  *)
LEMMA InstallKeyed ==
    ASSUME TypeOK, KeyedInv,
           \/ EraseRecord \/ WriteKeyWords \/ WriteHeader \/ VerifyRecord
           \/ FlashImage \/ ClearCounter \/ Reset
    PROVE  KeyedInv'
<1> USE DEF KeyedInv, OnlyRequest, Installs, KeyInRow, RecordOnBoard, SuccessEnds
<1>1. CASE EraseRecord \/ WriteKeyWords \/ WriteHeader
  <2>1. /\ tool'.step \in {"write_key", "write_header", "verify"}
        /\ tool'.key = tool.key /\ tool'.op = tool.op /\ UNCHANGED <<row, inflight, outcome>>
        /\ tool.step \in {"erase", "write_key", "write_header"}
    BY <1>1 DEF EraseRecord, WriteKeyWords, WriteHeader, TypeOK, registry
  <2> QED
    BY <2>1 DEF SuccessMeansKeyed
<1>2. CASE VerifyRecord
  <2>1. /\ tool'.step \in {"reset", "flash", "idle"} /\ tool.step = "verify"
        /\ tool'.key = tool.key /\ tool'.op = tool.op
        /\ UNCHANGED <<row, inflight, header, body>>
        /\ outcome' \in {outcome, "failed"}
        /\ tool'.step # "idle" => header = "present" /\ body = Record(tool.key)
    BY <1>2 DEF VerifyRecord, TypeOK, registry, chip
  <2> QED
    BY <2>1 DEF SuccessMeansKeyed
<1>3. CASE FlashImage \/ ClearCounter
  <2>1. /\ tool'.step \in {"reset", "clear"} /\ tool.step \in {"flash", "clear"}
        /\ tool'.key = tool.key /\ tool'.op = tool.op
        /\ UNCHANGED <<row, inflight, header, body, outcome>>
    BY <1>3 DEF FlashImage, ClearCounter, TypeOK, registry
  <2> QED
    BY <2>1 DEF SuccessMeansKeyed
<1>4. CASE Reset
  <2>1. /\ tool'.step = "idle" /\ tool.step = "reset"
        /\ tool'.key = tool.key /\ tool'.op = tool.op
        /\ UNCHANGED <<row, inflight, header, body>>
    BY <1>4 DEF Reset, TypeOK, registry, chip
  <2>2. cpu'.state = "run" => cpu'.key = body
    BY <1>4, BootCases DEF Reset
  <2>3. Installs => header = "present" /\ body = Record(row)
    BY <2>1
  <2>4. SuccessMeansKeyed'
    BY <2>1, <2>2, <2>3 DEF SuccessMeansKeyed
  <2> QED
    BY <2>1, <2>4
<1> QED
  BY <1>1, <1>2, <1>3, <1>4

LEMMA InterruptKeyed ==
    ASSUME TypeOK, KeyedInv, ~ LateCommit, Interrupt PROVE KeyedInv'
<1>1. tool'.step = "idle" /\ outcome' = "failed" /\ inflight' = {}
  BY DEF Interrupt, TypeOK, registry, KeyedInv, OnlyRequest
<1> QED
  BY <1>1 DEF KeyedInv, OnlyRequest, KeyInRow, RecordOnBoard, SuccessEnds, SuccessMeansKeyed

LEMMA NextKeyed ==
    ASSUME TypeOK, QueryBeforeMint, KeyedInv, ~ LateCommit, [Next]_vars PROVE KeyedInv'
<1>1. CASE PowerCycle \/ SealPacket \/ ChipErase
  BY <1>1, BetweenKeyed
<1>2. ASSUME NEW op \in {"provision", "rotate", "flash"},
             NEW img \in Images \cup {NoImage}, NEW unlock \in BOOLEAN, Start(op, img, unlock)
      PROVE  KeyedInv'
  BY <1>2, StartKeyed
<1>3. CASE Unlock \/ Query \/ Decline \/ RequestKey \/ GiveUpWaiting \/ AskRegistry
  BY <1>3, RequestKeyed
<1>4. ASSUME NEW r \in inflight, Commit(r) \/ Refuse(r) PROVE KeyedInv'
  BY <1>4, AnswerKeyed
<1>5. CASE EraseRecord \/ WriteKeyWords \/ WriteHeader \/ VerifyRecord
           \/ FlashImage \/ ClearCounter \/ Reset
  BY <1>5, InstallKeyed
<1>6. CASE Interrupt
  BY <1>6, InterruptKeyed
<1>7. CASE UNCHANGED vars
  BY <1>7
  DEF vars, chip, registry, KeyedInv, OnlyRequest, Installs, KeyInRow, RecordOnBoard,
      SuccessEnds, SuccessMeansKeyed
<1> QED
  BY <1>1, <1>2, <1>3, <1>4, <1>5, <1>6, <1>7 DEF Next

(***************************************************************************)
(* A run that says it succeeded left the board with exactly the key of the *)
(* registry's row, and firmware running on it, however many runs were cut  *)
(* short before (`provision`, `rotate_key`, `install_key`), as long as no  *)
(* mint outlives the run that asked for it.                                *)
(***************************************************************************)
THEOREM SuccessKeyed ==
    ASSUME OneRegion, ~ LateCommit PROVE Spec => []SuccessMeansKeyed
<1>1. IInv /\ KeyedInv /\ [Next]_vars => KeyedInv'
  BY NextKeyed DEF IInv
<1>2. KeyedInv => SuccessMeansKeyed
  BY DEF KeyedInv
<1>3. Spec => []IInv
  BY Inductive
<1> QED
  BY <1>1, <1>2, <1>3, InitKeyed, PTL DEF Spec
-------------------------------------------------------------------------------
(* The verdict of a mint that failed. The row's key was generated before   *)
(* this run's, and the run knows how often the row was minted before.      *)
RowMinted == row \in minted \cup {NoKey}
EpochKnown == At("confirm") \/ At("mint") => tool.epoch = epoch
MintPending == At("mint") => row # tool.key
KeyUnwritten == At("mint") \/ At("ask") => tool.key \notin body.mix
AskSettled ==
    At("ask") => \/ row = tool.key /\ tool.epoch < epoch
                 \/ row # tool.key /\ tool.epoch = epoch
VerdictEnds == outcome \in {"untouched", "refused", "committed"} => At("idle")

VerdictInv ==
    /\ RowMinted /\ EpochKnown /\ MintPending /\ KeyUnwritten /\ AskSettled
    /\ VerdictEnds /\ VerdictTrue

(* A key that was minted arrives, or the client cannot tell; a proxy's     *)
(* error page and a body cut short are no refusal.                         *)
LEMMA PayloadNotRejected ==
    ASSUME NEW reply, reply.status \in 200 .. 299, NEW arrival \in Arrivals(reply)
    PROVE  LET result == HandleResponse(arrival) IN
           result.kind = "ok" \/ MayHaveCommitted(result)
<1>1. \/ arrival = reply \/ arrival = Silence
      \/ arrival.body = Unreadable
  BY DEF Arrivals, Reply
<1>2. RejectOnErrorStatus(arrival).kind \in {"ok", "transport", "unreadable"}
  <2>1. CASE arrival = Silence
    BY <2>1 DEF RejectOnErrorStatus
  <2>2. CASE arrival # Silence /\ arrival.status \in 200 .. 299
    BY <2>2 DEF RejectOnErrorStatus, IsSuccess
  <2>3. CASE arrival # Silence /\ arrival.status \notin 200 .. 299
    <3>1. arrival.body = Unreadable
      BY <1>1, <2>3
    <3> QED
      BY <2>3, <3>1 DEF RejectOnErrorStatus, IsSuccess
  <2> QED
    BY <2>1, <2>2, <2>3
<1> QED
  BY <1>2 DEF HandleResponse, MayHaveCommitted

(* The client's two minting requests reach their handlers.                 *)
LEMMA MintServed ==
    ASSUME NEW op \in {"provision", "rotate"}, NEW handled
    PROVE  Serve(ClientRequest(op), TRUE, handled) = handled
<1> DEFINE request == ClientRequest(op)
           matched == {route \in DeviceRoutes : route.path = request.path}
<1>1. \E route \in matched : route.method = request.method
  <2>1. CASE op = "provision"
    <3>1. [method |-> "POST", path |-> <<>>, handler |-> "provision_device"] \in matched
      BY <2>1 DEF ClientRequest, DeviceRoutes
    <3> QED
      BY <2>1, <3>1 DEF ClientRequest
  <2>2. CASE op = "rotate"
    <3>1. [method |-> "POST", path |-> <<Addr, "rotate-key">>, handler |-> "rotate_device_key"]
              \in matched
      BY <2>2 DEF ClientRequest, DeviceRoutes
    <3> QED
      BY <2>2, <3>1 DEF ClientRequest
  <2> QED
    BY <2>1, <2>2
<1> HIDE DEF request
<1>2. Serve(request, TRUE, handled) = handled
  BY <1>1 DEF Serve, RequireBearer, Extracted
<1> QED
  BY <1>2 DEF request

(* A mint the database committed is never reported refused.                *)
LEMMA CommitNotRefused ==
    ASSUME TypeOK, ~ CommitErrors, NEW r \in inflight, Commit(r), Awaited(r)
    PROVE  /\ tool'.step \in {"erase", "write_key", "ask"}
           /\ UNCHANGED outcome
<1> DEFINE answer == Reply(IF r.op = "provision" THEN 201 ELSE 200, "payload")
<1>1. Serve(ClientRequest(r.op), TRUE, answer) = answer
  <2>1. r.op \in {"provision", "rotate"}
    BY DEF TypeOK
  <2> HIDE DEF answer
  <2> QED
    BY <2>1, MintServed
<1>2. Answer(r, {answer} \cup {})
  BY <1>1 DEF Commit
<1>3. answer.status \in 200 .. 299
  BY DEF Reply
<1> HIDE DEF answer
<1>4. PICK result \in {HandleResponse(arrival) : arrival \in UNION {Arrivals(a) : a \in {answer}}} :
          CASE result.kind = "ok" -> /\ Goto(IF tool.record # "blank" THEN "erase" ELSE "write_key")
                                     /\ UNCHANGED outcome
            [] MayHaveCommitted(result) -> Goto("ask") /\ UNCHANGED outcome
            [] OTHER -> EndRun("refused")
  <2>1. {answer} \cup {} = {answer}
    OBVIOUS
  <2> QED
    BY <1>2, <2>1 DEF Answer
<1>5. PICK arrival \in Arrivals(answer) : result = HandleResponse(arrival)
  BY <1>4
<1>6. result.kind = "ok" \/ MayHaveCommitted(result)
  BY <1>3, <1>5, PayloadNotRejected
<1>7. CASE result.kind = "ok"
  <2>1. ~ MayHaveCommitted(result)
    BY <1>7 DEF MayHaveCommitted
  <2> QED
    BY <1>4, <1>7, <2>1 DEF TypeOK
<1>8. CASE result.kind # "ok"
  BY <1>4, <1>6, <1>8 DEF TypeOK
<1> QED
  BY <1>7, <1>8

LEMMA InitVerdict == Init => VerdictInv
  BY DEF Init, Idle, VerdictInv, RowMinted, EpochKnown, MintPending, KeyUnwritten, AskSettled,
         VerdictEnds, VerdictTrue

(* Steps while no mint is under way; the end of a run among them may only  *)
(* be told otherwise than by a verdict.                                    *)
LEMMA NoMintVerdict ==
    ASSUME VerdictInv, UNCHANGED <<row, minted>>, tool'.step \notin {"confirm", "mint", "ask"},
           outcome' \notin {"untouched", "refused", "committed"}
    PROVE  VerdictInv'
  BY DEF VerdictInv, RowMinted, EpochKnown, MintPending, KeyUnwritten, AskSettled,
         VerdictEnds, VerdictTrue

LEMMA BoardVerdict ==
    ASSUME TypeOK, VerdictInv, PowerCycle \/ SealPacket PROVE VerdictInv'
  BY DEF PowerCycle, SealPacket, chip, registry, history, VerdictInv, RowMinted, EpochKnown,
         MintPending, KeyUnwritten, AskSettled, VerdictEnds, VerdictTrue

LEMMA StartVerdict ==
    ASSUME VerdictInv, NEW op \in {"provision", "rotate", "flash"},
           NEW img \in Images \cup {NoImage}, NEW unlock \in BOOLEAN, Start(op, img, unlock)
    PROVE  VerdictInv'
<1>1. PICK start \in IF unlock THEN UnlockingStarts ELSE PlainStarts :
          /\ tool' = [Idle EXCEPT !.op = op, !.image = img, !.record = header, !.epoch = epoch,
                          !.step = CASE start = "bail" -> "idle"
                                     [] start # "bail" /\ op = "flash" -> "flash"
                                     [] start = "unlock" /\ op # "flash" -> "unlock"
                                     [] OTHER -> "query"]
          /\ outcome' = IF start = "bail" THEN "stopped" ELSE "none"
  BY DEF Start
<1>2. tool'.step = CASE start = "bail" -> "idle"
                     [] start # "bail" /\ op = "flash" -> "flash"
                     [] start = "unlock" /\ op # "flash" -> "unlock"
                     [] OTHER -> "query"
  BY <1>1 DEF Idle
<1>3. tool'.step \in {"idle", "flash", "unlock", "query"} /\ outcome' \in {"stopped", "none"}
  BY <1>1, <1>2
<1> QED
  BY <1>3, NoMintVerdict DEF Start, registry, history

LEMMA RequestVerdict ==
    ASSUME IInv, KeyedInv, VerdictInv, ~ LateCommit,
           Unlock \/ Query \/ Decline \/ RequestKey \/ GiveUpWaiting \/ AskRegistry
    PROVE  VerdictInv'
<1> USE DEF VerdictInv, RowMinted, EpochKnown, MintPending, KeyUnwritten, AskSettled, VerdictEnds
<1>1. CASE Unlock
  <2>1. tool'.step = "query" /\ outcome \notin {"untouched", "refused", "committed"}
    BY <1>1 DEF Unlock, IInv, TypeOK
  <2> QED
    BY <1>1, <2>1, NoMintVerdict DEF Unlock, registry, history
<1>2. CASE Query \/ Decline
  <2>1. /\ \/ tool'.step = "confirm" /\ tool'.epoch = epoch
           \/ tool'.step = "idle"
        /\ outcome' \notin {"untouched", "refused", "committed"}
        /\ UNCHANGED <<row, epoch, minted>>
    BY <1>2 DEF Query, Decline, IInv, TypeOK, registry, history
  <2> QED
    BY <2>1 DEF VerdictTrue
<1>3. CASE RequestKey
  <2>1. PICK k \in Keys \ minted :
            /\ minted' = minted \cup {k}
            /\ tool' = [tool EXCEPT !.step = "mint", !.key = k]
    BY <1>3 DEF RequestKey
  <2>2. tool'.step = "mint" /\ tool'.key = k /\ tool'.epoch = tool.epoch
    BY <2>1 DEF IInv, TypeOK
  <2>3. /\ At("confirm") /\ UNCHANGED <<row, epoch, body, outcome>>
        /\ outcome \notin {"untouched", "refused", "committed"}
    BY <1>3 DEF RequestKey, chip
  <2>4. row # k /\ k \notin body.mix
    BY ProvisioningAssumption DEF IInv, MixesMinted
  <2> QED
    BY <2>1, <2>2, <2>3, <2>4 DEF VerdictTrue
<1>4. CASE GiveUpWaiting
  BY <1>4 DEF GiveUpWaiting
<1>5. CASE AskRegistry
  <2>1. /\ At("ask") /\ tool'.step = "idle" /\ tool'.key = tool.key
        /\ outcome' = "unknown" \/ outcome' = ClassifyMint(tool.epoch, epoch)
        /\ UNCHANGED <<row, body, minted>>
    BY <1>5 DEF AskRegistry, IInv, TypeOK, chip, registry, history
  <2>2. tool.epoch \in Nat /\ epoch \in Nat
    BY DEF IInv, TypeOK
  <2>3. /\ outcome' = "untouched" => row # tool.key
        /\ outcome' = "committed" => row = tool.key
        /\ outcome' # "refused"
    BY <2>1, <2>2 DEF ClassifyMint
  <2> QED
    BY <2>1, <2>3 DEF VerdictTrue
<1> QED
  BY <1>1, <1>2, <1>3, <1>4, <1>5

LEMMA AnswerVerdict ==
    ASSUME IInv, KeyedInv, VerdictInv, ~ CommitErrors, NEW r \in inflight, Commit(r) \/ Refuse(r)
    PROVE  VerdictInv'
<1> USE DEF VerdictInv, RowMinted, EpochKnown, MintPending, KeyUnwritten, AskSettled, VerdictEnds
<1>1. /\ At("mint") /\ r.key = tool.key /\ Awaited(r)
      /\ outcome \notin {"untouched", "refused", "committed"}
      /\ tool.key \in minted /\ tool.epoch = epoch /\ epoch \in Nat
      /\ row # tool.key /\ tool.key \notin body.mix
  BY DEF KeyedInv, OnlyRequest, Awaited, IInv, TypeOK, KeyUnsealed
<1>2. CASE Commit(r)
  <2>1. row' = tool.key /\ epoch' = epoch + 1 /\ UNCHANGED <<body, minted>>
    BY <1>1, <1>2 DEF Commit, chip, history
  <2>2. tool'.step \in {"erase", "write_key", "ask"} /\ outcome' = outcome
    BY <1>1, <1>2, CommitNotRefused DEF IInv
  <2>3. tool'.key = tool.key /\ tool'.epoch = tool.epoch
    BY <1>1, <1>2, AnswerCases DEF Commit, IInv, TypeOK
  <2> QED
    BY <1>1, <2>1, <2>2, <2>3 DEF VerdictTrue
<1>3. CASE Refuse(r)
  <2>1. UNCHANGED <<row, epoch, body, minted>>
    BY <1>3 DEF Refuse, chip, history
  <2>2. /\ tool'.key = tool.key /\ tool'.epoch = tool.epoch
        /\ \/ tool'.step = "ask" /\ outcome' = outcome
           \/ tool'.step = "idle" /\ outcome' = "refused"
    BY <1>1, <1>3, RefusalFails DEF IInv, TypeOK
  <2> QED
    BY <1>1, <2>1, <2>2 DEF VerdictTrue
<1> QED
  BY <1>2, <1>3

LEMMA InstallVerdict ==
    ASSUME TypeOK, VerdictInv,
           \/ EraseRecord \/ WriteKeyWords \/ WriteHeader \/ VerifyRecord
           \/ FlashImage \/ ClearCounter \/ Reset
    PROVE  VerdictInv'
<1>1. outcome \notin {"untouched", "refused", "committed"}
  BY DEF VerdictInv, VerdictEnds, EraseRecord, WriteKeyWords, WriteHeader, VerifyRecord,
         FlashImage, ClearCounter, Reset
<1>2. /\ tool'.step \in {"write_key", "write_header", "verify", "flash", "clear", "reset", "idle"}
      /\ outcome' \in {outcome, "failed", "success"}
      /\ UNCHANGED <<row, minted>>
  BY DEF TypeOK, EraseRecord, WriteKeyWords, WriteHeader, VerifyRecord, FlashImage, ClearCounter,
         Reset, registry, history
<1> QED
  BY <1>1, <1>2, NoMintVerdict

LEMMA EndVerdict == ASSUME TypeOK, VerdictInv, ChipErase \/ Interrupt PROVE VerdictInv'
<1>1. /\ tool'.step = "idle" /\ outcome' \in {"none", "failed"}
      /\ UNCHANGED <<row, minted>>
  BY DEF TypeOK, ChipErase, Interrupt, registry, history
<1> QED
  BY <1>1, NoMintVerdict

LEMMA NextVerdict ==
    ASSUME IInv, KeyedInv, VerdictInv, ~ LateCommit, ~ CommitErrors, [Next]_vars
    PROVE  VerdictInv'
<1> USE DEF IInv
<1>1. CASE PowerCycle \/ SealPacket \/ ChipErase \/ Interrupt
  BY <1>1, BoardVerdict, EndVerdict
<1>2. ASSUME NEW op \in {"provision", "rotate", "flash"},
             NEW img \in Images \cup {NoImage}, NEW unlock \in BOOLEAN, Start(op, img, unlock)
      PROVE  VerdictInv'
  BY <1>2, StartVerdict
<1>3. CASE Unlock \/ Query \/ Decline \/ RequestKey \/ GiveUpWaiting \/ AskRegistry
  BY <1>3, RequestVerdict
<1>4. ASSUME NEW r \in inflight, Commit(r) \/ Refuse(r) PROVE VerdictInv'
  BY <1>4, AnswerVerdict
<1>5. CASE EraseRecord \/ WriteKeyWords \/ WriteHeader \/ VerifyRecord
           \/ FlashImage \/ ClearCounter \/ Reset
  BY <1>5, InstallVerdict
<1>6. CASE UNCHANGED vars
  BY <1>6
  DEF vars, chip, registry, history, VerdictInv, RowMinted, EpochKnown, MintPending,
      KeyUnwritten, AskSettled, VerdictEnds, VerdictTrue
<1> QED
  BY <1>1, <1>2, <1>3, <1>4, <1>5, <1>6 DEF Next

(***************************************************************************)
(* What a run says of a mint that failed is true of the registry           *)
(* (`mint_key`, `classify_mint`), whatever a proxy or the wire made of the *)
(* answers, as long as the API does not fail a mint it has committed and   *)
(* no mint outlives the run that asked for it.                             *)
(***************************************************************************)
THEOREM VerdictsTrue ==
    ASSUME OneRegion, ~ LateCommit, ~ CommitErrors PROVE Spec => []VerdictTrue
<1>1. IInv /\ KeyedInv /\ VerdictInv /\ [Next]_vars => VerdictInv'
  BY NextVerdict
<1>2. IInv /\ KeyedInv /\ [Next]_vars => KeyedInv'
  BY NextKeyed DEF IInv
<1>3. VerdictInv => VerdictTrue
  BY DEF VerdictInv
<1>4. Spec => []IInv
  BY Inductive
<1> QED
  BY <1>1, <1>2, <1>3, <1>4, InitKeyed, InitVerdict, PTL DEF Spec
===============================================================================
