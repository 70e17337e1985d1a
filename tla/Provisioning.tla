----------------------------- MODULE Provisioning -----------------------------
(***************************************************************************)
(* `homescope-provision` against one board and one row of the API's        *)
(* registry: the mint, its ambiguous failures, the key written into UICR,  *)
(* the firmware image and the sequence counter it finds, and the board     *)
(* booting from whatever the tool left behind.                             *)
(*                                                                         *)
(* The sequence counter appears as the next number its flash region will   *)
(* hand out; that it never rewinds on its own is SeqCounter's theorem.     *)
(***************************************************************************)
EXTENDS Naturals, FiniteSets, ApiAnswers, Consent

CONSTANTS
    Keys,           \* the keys the API can generate
    NoKey,          \* a row that does not exist
    Images,         \* firmware images in the artifact store
    NoImage,        \* no --firmware argument; no runnable image on the board
    Regions,        \* flash regions an image may keep its counter in
    Region,         \* [Images -> Regions], from the image's storage symbols
    MaxSeq,         \* bound: packets per counter life
    MaxFaults,      \* bound: interrupted tool steps and chip erases
    LateCommit,     \* may a request be carried out after the tool gave up on it
    CommitErrors    \* may the API answer an error for a mint the database committed

ASSUME ProvisioningAssumption ==
    /\ IsFiniteSet(Keys) /\ NoKey \notin Keys
    /\ NoImage \notin Images /\ Regions # {}
    /\ Region \in [Images -> Regions]
    /\ MaxSeq \in Nat /\ MaxFaults \in Nat
    /\ LateCommit \in BOOLEAN /\ CommitErrors \in BOOLEAN

VARIABLES
    header,     \* UICR header word as decode_header reads it
    body,       \* UICR key words: the keys whose bits were programmed into them
    image,      \* the image in flash
    counter,    \* [Regions -> next number to draw]
    cpu,        \* what the core runs: state, key and counter in RAM
    row,        \* the key of the device's row in the database
    epoch,      \* how many mints the database has committed: key_valid_from
    inflight,   \* mint requests on their way to the database
    tool,       \* the provisioning run
    outcome,    \* what the last run told the operator
    minted,     \* history: the keys generated so far, each fresh
    used,       \* history: the (key, number) pairs packets were sealed under
    faults      \* history: faults so far

chip == <<header, body, image, counter>>
registry == <<row, epoch, inflight>>
history == <<minted, used>>
vars == <<chip, cpu, registry, tool, outcome, history, faults>>

(* Programming only clears bits, so writing over a key leaves the bits both *)
(* keys share; `whole` says that the last write programmed all its words.   *)
Body == [mix : SUBSET Keys, whole : BOOLEAN]
ErasedBody == [mix |-> {}, whole |-> TRUE]
Foreign == [mix |-> {}, whole |-> FALSE]
Record(k) == [mix |-> {k}, whole |-> TRUE]
Programmed(k, complete) == [mix |-> body.mix \cup {k}, whole |-> complete]

Steps == {"idle", "unlock", "query", "confirm", "mint", "ask", "erase", "write_key", "write_header",
          "verify", "flash", "clear", "reset"}
Idle == [op |-> "none", step |-> "idle", record |-> "blank", epoch |-> 0,
         key |-> NoKey, image |-> NoImage]
Stopped == [state |-> "off", key |-> ErasedBody, seq |-> 0, region |-> CHOOSE r \in Regions : TRUE]

Init ==
    /\ \/ header = "blank" /\ body = ErasedBody
       \/ header \in {"malformed", "present"} /\ body = Foreign
    /\ image = NoImage /\ counter = [r \in Regions |-> 0]
    /\ cpu = Stopped
    /\ row = NoKey /\ epoch = 0 /\ inflight = {}
    /\ tool = Idle /\ outcome = "none"
    /\ minted = {} /\ used = {} /\ faults = 0

At(step) == tool.step = step
Goto(step) == tool' = [tool EXCEPT !.step = step]
(* A run ends; what it found stays behind in `tool` for the properties.    *)
EndRun(says) == Goto("idle") /\ outcome' = says

-------------------------------------------------------------------------------
(* The board.                                                              *)

(* Mutants of Boot: the stored counter is ignored; a number is skipped.    *)
BootAt(seq) ==
    cpu' = CASE image = NoImage -> Stopped
             [] image # NoImage /\ header # "present" -> [Stopped EXCEPT !.state = "dark"]
             [] OTHER -> [state |-> "run", key |-> body, seq |-> seq, region |-> Region[image]]
BootFromZero == BootAt(0)
BootSkippingOne == BootAt(counter[Region[image]] + 1)

(* The sensor's main: no usable record means it returns and stays dark.    *)
Boot ==
    cpu' = CASE image = NoImage -> Stopped
             [] image # NoImage /\ header # "present" -> [Stopped EXCEPT !.state = "dark"]
             [] OTHER -> [state |-> "run", key |-> body,
                          seq |-> counter[Region[image]], region |-> Region[image]]

PowerCycle ==
    /\ At("idle")
    /\ Boot
    /\ UNCHANGED <<chip, registry, tool, outcome, history, faults>>

(* One packet sealed under the key in RAM and the next counter value.      *)
SealPacket ==
    /\ cpu.state = "run" /\ cpu.seq < MaxSeq
    /\ used' = used \cup {<<cpu.key, cpu.seq>>}
    /\ cpu' = [cpu EXCEPT !.seq = @ + 1]
    /\ counter' = [counter EXCEPT ![cpu.region] = cpu.seq + 1]
    /\ UNCHANGED <<header, body, image, registry, tool, outcome, minted, faults>>

(* A bare `probe-rs erase` between two runs.                               *)
ChipErase ==
    /\ At("idle") /\ faults < MaxFaults
    /\ faults' = faults + 1
    /\ header' = "blank" /\ body' = ErasedBody /\ image' = NoImage
    /\ counter' = [r \in Regions |-> 0]
    /\ cpu' = Stopped /\ outcome' = "none"
    /\ UNCHANGED <<registry, tool, history>>

-------------------------------------------------------------------------------
(* The run up to the mint.                                                 *)

(* The board can be attached to, is locked, or is not found.               *)
Connect(unlock, connection, reply) ==
    CASE connection = "attached" /\ ~unlock -> "attached"
      [] connection = "locked" /\ unlock /\ Typed(reply, "ERASE") -> "unlock"
      [] OTHER -> "bail"

(* How a run may begin. Only --unlock has the token checked first, before  *)
(* anything is erased.                                                     *)
Connections == {"no_probe", "attached", "locked"}
AuthChecks == {RejectOnErrorStatus(arrival) : arrival \in UNION {
                   Arrivals(Serve(ClientRequest("check_auth"), accepted, handled)) :
                       accepted \in BOOLEAN, handled \in {Reply(200, "payload"), Internal}}}
PlainStarts == {Connect(FALSE, connection, reply) : connection \in Connections, reply \in Replies}
UnlockingStarts ==
    {IF checked.kind = "ok" THEN Connect(TRUE, connection, reply) ELSE "bail" :
        checked \in AuthChecks, connection \in Connections, reply \in Replies}

(* Up to read_state, whose header word is all the tool ever judges by.     *)
Start(op, img, unlock) ==
    /\ At("idle")
    /\ op = "flash" => img # NoImage /\ ~unlock
    /\ unlock => faults < MaxFaults
    /\ \E start \in IF unlock THEN UnlockingStarts ELSE PlainStarts :
           /\ tool' = [Idle EXCEPT !.op = op, !.image = img, !.record = header, !.epoch = epoch,
                           !.step = CASE start = "bail" -> "idle"
                                      [] start # "bail" /\ op = "flash" -> "flash"
                                      [] start = "unlock" /\ op # "flash" -> "unlock"
                                      [] OTHER -> "query"]
           /\ outcome' = IF start = "bail" THEN "stopped" ELSE "none"
    /\ UNCHANGED <<chip, cpu, registry, history, faults>>

(* erase_to_unlock takes everything the board held.                        *)
Unlock ==
    /\ At("unlock") /\ faults < MaxFaults
    /\ faults' = faults + 1
    /\ header' = "blank" /\ body' = ErasedBody /\ image' = NoImage
    /\ counter' = [r \in Regions |-> 0]
    /\ cpu' = Stopped
    /\ tool' = [tool EXCEPT !.step = "query", !.record = "blank"]
    /\ UNCHANGED <<registry, outcome, history>>

Registered == row # NoKey

(* What the client's `device` may say of a device that is registered or    *)
(* is not.                                                                 *)
DeviceAnswers ==
    [registered \in BOOLEAN |->
        {AbsentIfNotRegistered(result) : result \in
            Results("device", Internal) \cup
            Results("device", IF registered THEN Reply(200, "payload")
                                            ELSE FromDeviceError("not_found"))}]

(* Mutant of Query: rotate refuses a board whose record is blank.          *)
QueryRefusingBlank ==
    /\ At("query")
    /\ \E found \in DeviceAnswers[Registered] :
           IF found = (IF tool.op = "rotate" THEN "found" ELSE "absent")
              /\ (tool.op = "rotate" => tool.record # "blank")
           THEN tool' = [tool EXCEPT !.step = "confirm", !.epoch = epoch] /\ UNCHANGED outcome
           ELSE EndRun("stopped")
    /\ UNCHANGED <<chip, cpu, registry, history, faults>>

(* The registry is asked, and says whether this is the command to run.     *)
Query ==
    /\ At("query")
    /\ \E found \in DeviceAnswers[Registered] :
           IF found = (IF tool.op = "rotate" THEN "found" ELSE "absent")
           THEN tool' = [tool EXCEPT !.step = "confirm", !.epoch = epoch] /\ UNCHANGED outcome
           ELSE EndRun("stopped")
    /\ UNCHANGED <<chip, cpu, registry, history, faults>>

Consents(record) == {ConfirmRecord(record, reply) : reply \in Replies}

(* The operator does not agree, or the instance has no key left to draw.   *)
Decline ==
    /\ At("confirm")
    /\ FALSE \in Consents(tool.record) \/ Keys \subseteq minted
    /\ EndRun("stopped")
    /\ UNCHANGED <<chip, cpu, registry, history, faults>>

(* The operator agrees: halt the core and ask for a key.                   *)
RequestKey ==
    /\ At("confirm") /\ TRUE \in Consents(tool.record)
    /\ \E k \in Keys \ minted :
           /\ minted' = minted \cup {k}
           /\inflight' = inflight \cup {[op |-> tool.op, key |-> k]}
           /\ tool' = [tool EXCEPT !.step = "mint", !.key = k]
    /\ cpu' = IF cpu.state = "run" THEN [cpu EXCEPT !.state = "halted"] ELSE cpu
    /\ UNCHANGED <<chip, row, epoch, outcome, used, faults>>

(* How an answer to request r reaches a tool that still waits for it.      *)
Awaited(r) == At("mint") /\ tool.key = r.key
Answer(r, replies) ==
    IF ~Awaited(r) THEN UNCHANGED <<tool, outcome>>
    ELSE \E result \in {HandleResponse(arrival) : arrival \in UNION {Arrivals(a) : a \in replies}} :
        CASE result.kind = "ok" -> /\ Goto(IF tool.record # "blank" THEN "erase" ELSE "write_key")
                                   /\ UNCHANGED outcome
          [] MayHaveCommitted(result) -> Goto("ask") /\ UNCHANGED outcome
          [] OTHER -> EndRun("refused")

(* insert_device / update_key commits.                                     *)
Commit(r) ==
    /\ r \in inflight
    /\ Registered <=> r.op = "rotate"
    /\ row' = r.key /\ epoch' = epoch + 1
    /\ inflight' = inflight \ {r}
    /\ Answer(r, {Serve(ClientRequest(r.op), TRUE,
                        Reply(IF r.op = "provision" THEN 201 ELSE 200, "payload"))}
                 \cup IF CommitErrors THEN {FromDeviceError("db")} ELSE {})
    /\ UNCHANGED <<chip, cpu, history, faults>>

(* The token is not the API's, the row is in the wrong state, no key can   *)
(* be drawn or the database fails before the commit, or the request never  *)
(* arrives.                                                                *)
Refusals(r) ==
    {"db", "key_gen"} \cup (IF Registered /\ r.op = "provision" THEN {"already_exists"} ELSE {})
                      \cup (IF ~Registered /\ r.op = "rotate" THEN {"not_found"} ELSE {})
Refuse(r) ==
    /\ r \in inflight
    /\ inflight' = inflight \ {r}
    /\ Answer(r, {Silence} \cup {Serve(ClientRequest(r.op), accepted, FromDeviceError(error)) :
                                     accepted \in BOOLEAN, error \in Refusals(r)})
    /\ UNCHANGED <<chip, cpu, row, epoch, history, faults>>

(* The client's timeout while the request is still on its way.             *)
GiveUpWaiting ==
    /\ LateCommit /\ At("mint")
    /\ Goto("ask")
    /\ UNCHANGED <<chip, cpu, registry, outcome, history, faults>>

(* classify_mint; an epoch of 0 stands for a device with no row.           *)
ClassifyMint(before, now) ==
    CASE before # 0 /\ now = 0 -> "unknown"
      [] now > before -> "committed"
      [] OTHER -> "untouched"

(* mint_key's follow-up query.                                             *)
AskRegistry ==
    /\ At("ask")
    /\ \E found \in DeviceAnswers[Registered] :
           EndRun(IF found = "error" THEN "unknown" ELSE ClassifyMint(tool.epoch, epoch))
    /\ UNCHANGED <<chip, cpu, registry, history, faults>>

-------------------------------------------------------------------------------
(* install_key.                                                            *)

EraseRecord ==
    /\ At("erase") /\ Goto("write_key")
    /\ header' = "blank" /\ body' = ErasedBody
    /\ UNCHANGED <<image, counter, cpu, registry, outcome, history, faults>>

WriteKeyWords ==
    /\ At("write_key") /\ Goto("write_header")
    /\ body' = Programmed(tool.key, TRUE)
    /\ UNCHANGED <<header, image, counter, cpu, registry, outcome, history, faults>>

WriteHeader ==
    /\ At("write_header") /\ Goto("verify")
    /\ header' = "present"
    /\ UNCHANGED <<body, image, counter, cpu, registry, outcome, history, faults>>

(* Mutant of VerifyRecord: the read-back compares the header alone.        *)
VerifyHeader ==
    /\ At("verify")
    /\ IF header = "present"
       THEN Goto(IF tool.image = NoImage THEN "reset" ELSE "flash") /\ UNCHANGED outcome
       ELSE EndRun("failed")
    /\ UNCHANGED <<chip, cpu, registry, history, faults>>

VerifyRecord ==
    /\ At("verify")
    /\ IF header = "present" /\ body = Record(tool.key)
       THEN Goto(IF tool.image = NoImage THEN "reset" ELSE "flash") /\ UNCHANGED outcome
       ELSE EndRun("failed")
    /\ UNCHANGED <<chip, cpu, registry, history, faults>>

(* Mutant of FlashImage: `flash` clears the counter like the others.       *)
FlashAndClear ==
    /\ At("flash") /\ Goto("clear")
    /\ image' = tool.image
    /\ cpu' = Stopped
    /\ UNCHANGED <<header, body, counter, registry, outcome, history, faults>>

(* Flashing runs its own code on the core: nothing of the old run is left. *)
FlashImage ==
    /\ At("flash")
    /\ \/ Goto("reset")        \* `flash`, or an image that names no storage range
       \/ tool.op # "flash" /\ Goto("clear")
    /\ image' = tool.image
    /\ cpu' = Stopped
    /\ UNCHANGED <<header, body, counter, registry, outcome, history, faults>>

ClearCounter ==
    /\ At("clear") /\ Goto("reset")
    /\ counter' = [counter EXCEPT ![Region[tool.image]] = 0]
    /\ UNCHANGED <<header, body, image, cpu, registry, outcome, history, faults>>

(* report_boot comes last and reads the image's file once more: when that  *)
(* is gone, the run fails over a board that is keyed and running.          *)
Reset ==
    /\ At("reset")
    /\ \/ EndRun("success")
       \/ tool.image # NoImage /\ EndRun("failed")
    /\ Boot
    /\ UNCHANGED <<chip, registry, history, faults>>

(* The step under way fails, the cable is pulled or the tool dies, with a  *)
(* mint perhaps still on its way: what that step had done by then, and a   *)
(* core that stays halted or resumes.                                      *)
Interrupt ==
    /\ ~At("idle") /\ (At("mint") => LateCommit)
    /\ faults < MaxFaults /\ faults' = faults + 1
    /\ EndRun("failed")
    /\ \/ UNCHANGED <<header, body>>
       \/ At("erase") /\ header' = "blank" /\ body' = ErasedBody
       \/ At("write_key") /\ UNCHANGED header
             /\ \E all \in BOOLEAN : body' = Programmed(tool.key, all)
       \/ At("write_header") /\ UNCHANGED body /\ header' \in {"malformed", "present"}
    /\ image' \in IF At("flash") THEN {image, NoImage} ELSE {image}
    /\ counter' \in IF At("clear")
                    THEN {counter, [counter EXCEPT ![Region[tool.image]] = 0]} ELSE {counter}
    /\ cpu' \in IF At("flash") THEN {Stopped}
                ELSE {cpu} \cup IF cpu.state = "halted" THEN {[cpu EXCEPT !.state = "run"]} ELSE {}
    /\ UNCHANGED <<registry, history>>

Next ==
    \/ PowerCycle \/ SealPacket \/ ChipErase
    \/ \E op \in {"provision", "rotate", "flash"}, img \in Images \cup {NoImage},
          unlock \in BOOLEAN : Start(op, img, unlock)
    \/ Unlock \/ Query \/ Decline \/ RequestKey \/ GiveUpWaiting \/ AskRegistry
    \/ \E r \in inflight : Commit(r) \/ Refuse(r)
    \/ EraseRecord \/ WriteKeyWords \/ WriteHeader \/ VerifyRecord
    \/ FlashImage \/ ClearCounter \/ Reset
    \/ Interrupt

Spec == Init /\ [][Next]_vars

(* An operator who keeps re-running the command the tool's messages name,  *)
(* with firmware, against an API that is not down for good.                *)
Deploy == \E img \in Images :
    Start(IF Registered THEN "rotate" ELSE "provision", img, FALSE) /\ At("query")'
Fairness ==
    /\ SF_vars(Deploy) /\ SF_vars(Query /\ At("confirm")') /\ SF_vars(RequestKey)
    /\ SF_vars(\E r \in inflight : Commit(r) /\ outcome' = outcome)
    /\ WF_vars(Unlock) /\ WF_vars(Query) /\ WF_vars(AskRegistry)
    /\ WF_vars(EraseRecord) /\ WF_vars(WriteKeyWords) /\ WF_vars(WriteHeader)
    /\ WF_vars(VerifyRecord) /\ WF_vars(FlashImage) /\ WF_vars(ClearCounter)
    /\ WF_vars(Reset)

FairSpec == Spec /\ Fairness
-------------------------------------------------------------------------------
Cpu == [state : {"off", "dark", "run", "halted"}, key : Body, seq : 0 .. MaxSeq, region : Regions]

TypeOK ==
    /\ header \in {"blank", "malformed", "present"}
    /\ body \in Body
    /\ image \in Images \cup {NoImage}
    /\ counter \in [Regions -> 0 .. MaxSeq]
    /\ cpu \in Cpu
    /\ row \in Keys \cup {NoKey}
    /\ epoch \in Nat
    /\ inflight \subseteq [op : {"provision", "rotate"}, key : Keys]
    /\ tool \in [op : {"none", "provision", "rotate", "flash"}, step : Steps,
                 record : {"blank", "malformed", "present"}, epoch : Nat,
                 key : Keys \cup {NoKey}, image : Images \cup {NoImage}]
    /\ outcome \in {"none", "stopped", "refused", "untouched", "committed", "unknown",
                    "failed", "success"}
    /\ minted \subseteq Keys
    /\ used \subseteq Body \X (0 .. MaxSeq)
    /\ faults \in 0 .. MaxFaults

(***************************************************************************)
(* No nonce is sealed twice under one key, whatever the tool did to the    *)
(* board between two packets: `flash` alone keeps the counter, only a run  *)
(* that installed a new key clears it (`flash`, `install_key`).            *)
(***************************************************************************)
NoncesOncePerKey == [][SealPacket => <<cpu.key, cpu.seq>> \notin used]_vars

(***************************************************************************)
(* "No window exists where an old key and a fresh counter coexist": the    *)
(* counter the board would boot with is past every number its key sealed,  *)
(* between any two steps of any run (`install_key`, `erase_storage`).      *)
(***************************************************************************)
NoOldKeyOverFreshCounter ==
    header = "present" /\ image # NoImage =>
        \A p \in used : p[1] = body => p[2] < counter[Region[image]]

(***************************************************************************)
(* A run that reports success left the board holding exactly the key the   *)
(* registry holds, and the core running on it when there is firmware       *)
(* (`provision`, `rotate_key`, `write_uicr_record`).                       *)
(***************************************************************************)
SuccessMeansKeyed ==
    outcome = "success" /\ tool.op # "flash" =>
        /\ header = "present" /\ body = Record(row)
        /\ cpu.state = "run" => cpu.key = Record(row)

(***************************************************************************)
(* What mint_key reports of a mint that failed is what happened in the     *)
(* registry: untouched or refused, the run's key is not there; committed,  *)
(* it is, and the board never received it (`mint_key`, `classify_mint`).   *)
(***************************************************************************)
VerdictTrue ==
    /\ outcome \in {"untouched", "refused"} => row # tool.key
    /\ outcome = "committed" => row = tool.key /\ row \notin body.mix

(***************************************************************************)
(* "A well-formed header implies the key words behind it are complete"     *)
(* (decode_header): they are one key's, written to the end.                *)
(***************************************************************************)
PresentMeansComplete ==
    header = "present" => body = Foreign \/ \E k \in Keys : body = Record(k)

(***************************************************************************)
(* There is always a way back: re-running the command the messages name    *)
(* brings the board to report under the key the registry holds, from every *)
(* state an interrupted run or a chip erase leaves it in, as long as the   *)
(* API has keys to give (`confirm_record`, `install_key`).                 *)
(***************************************************************************)
Reporting == cpu.state = "run" /\ row # NoKey /\ cpu.key = Record(row)
KeysRemain == Keys \ minted # {}
AlwaysRecoverable == []<>(Reporting \/ ~KeysRemain)
===============================================================================
