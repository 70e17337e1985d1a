---------------------------- MODULE DeviceRegistry ----------------------------
(***************************************************************************)
(* One device as the API sees it: its row in the `devices` table, its      *)
(* entry in the registry's in-memory cache, the HTTP handlers that change  *)
(* both, the ingestion task that decrypts with the cache, and `verify`,    *)
(* which polls what the table says was heard.  The row's key is sealed     *)
(* under a KEK; the file of KEKs may be another one at the next start.     *)
(*                                                                         *)
(* The row and the cache are written by different steps of a handler: the  *)
(* database commits, the answer travels back, and only then the cache lock *)
(* is taken.  Everything else runs in between.                             *)
(***************************************************************************)
EXTENDS KekRing, ApiAnswers

CONSTANTS
    Keys,          \* keys the API can generate
    NoKey,
    KekFiles,      \* contents the KEK file may have when the API starts
    NoWrap,        \* the wrap of a key column that is not there
    Skews,         \* how far the gateway's clock may be ahead of the database's
    MaxHandlers,   \* bound: handlers running at once
    MaxTime,       \* bound: the database's clock
    MaxAir,        \* bound: packets on their way
    Drops          \* may a handler be dropped at its await, or its answer be lost

ASSUME RegistryAssumption ==
    /\ IsFiniteSet(Keys) /\ NoKey \notin Keys
    /\ \E file \in KekFiles : Parse(file) # {}
    /\ Skews \subseteq Nat /\ Skews # {}
    /\ MaxHandlers \in Nat \ {0} /\ MaxTime \in Nat /\ MaxAir \in Nat
    /\ Drops \in BOOLEAN

VARIABLES
    now,        \* the database's clock
    row,        \* the key, its wrap and key_valid_from; NoKey while there is no row
    readings,   \* the readings table: when, and sealed under which key
    ring,       \* the KEKs the API started with
    cache,      \* the key of the cached Device's cipher, NoKey when absent
    handlers,   \* provision and rotate handlers under way
    ingest,     \* the readings the ingestion task is inserting: none or one
    board,      \* the device: the key it seals with, and whether it runs
    air,        \* sealed packets between the board and the API
    verifier,   \* a `verify` command
    minted,     \* history: the keys generated so far, each fresh
    serial      \* history: no mint has overlapped another or gone unanswered

db == <<row, readings>>
api == <<ring, cache, handlers, ingest>>
history == <<minted, serial>>
vars == <<now, db, api, board, air, verifier, history>>

(* KekRing::load: what the API can start with.                             *)
Rings == UNION {Parse(file) : file \in KekFiles}

Registered == row.key # NoKey

(* What opening the row's key column under a ring gives.                   *)
Opened(keks) == IF Registered /\ KeyStatus(row.wrap, keks) = "ok" THEN row.key ELSE NoKey

(* `time > key_valid_from`, newest first; 0 stands for null.               *)
SeenTimes == {r.time : r \in {x \in readings : x.time > row.valid_from}}
LastSeen == IF SeenTimes = {} THEN 0 ELSE CHOOSE t \in SeenTimes : \A u \in SeenTimes : u <= t

(* A verify that is not waiting and claims nothing.                        *)
Ended(says) == [step |-> says, baseline |-> 0, proof |-> TRUE]

Init ==
    /\ now = 1
    /\ row = [key |-> NoKey, wrap |-> NoWrap, valid_from |-> 0] /\ readings = {}
    /\ ring \in Rings /\ cache = NoKey /\ handlers = {} /\ ingest = {}
    /\ board = [key |-> NoKey, runs |-> FALSE]
    /\ air = {}
    /\ verifier = Ended("idle")
    /\ minted = {} /\ serial = TRUE

Tick ==
    /\ now < MaxTime
    /\ now' = now + 1
    /\ UNCHANGED <<db, api, board, air, verifier, history>>

-------------------------------------------------------------------------------
(* The handlers.                                                           *)

(* Mutant of Request: the cache entry is replaced before the statement.    *)
RequestCacheFirst(op) ==
    /\ Cardinality(handlers) < MaxHandlers
    /\ \E k \in Keys \ minted :
           /\ minted' = minted \cup {k}
           /\ handlers' = handlers \cup {[op |-> op, key |-> k, step |-> "sql"]}
           /\ cache' = k
    /\ board' = [board EXCEPT !.runs = FALSE]
    /\ serial' = (serial /\ handlers = {})
    /\ UNCHANGED <<now, db, ring, ingest, air, verifier>>

(* POST /devices or /rotate-key: the key is generated, the statement sent. *)
Request(op) ==
    /\ Cardinality(handlers) < MaxHandlers
    /\ \E k \in Keys \ minted :
           /\ minted' = minted \cup {k}
           /\ handlers' = handlers \cup {[op |-> op, key |-> k, step |-> "sql"]}
    /\ board' = [board EXCEPT !.runs = FALSE]
    /\ serial' = (serial /\ handlers = {})
    /\ UNCHANGED <<now, db, ring, cache, ingest, air, verifier>>

Without(h) == handlers \ {h}
(* Mutant of Resumed: a board without a key runs too.                      *)
ResumedKeyless == [board EXCEPT !.runs = TRUE]
Resumed == [board EXCEPT !.runs = board.key # NoKey]

(* Mutant of CommitRow: key_valid_from left as it was.                     *)
Stored(h, from) ==
    /\ row' = [key |-> h.key, wrap |-> Seal(ring), valid_from |-> from]
    /\ handlers' = Without(h) \cup {[h EXCEPT !.step = "cache"]}
    /\ UNCHANGED <<now, readings, ring, cache, ingest, board, air, verifier, history>>
CommitKeyOnly(h) == h.step = "sql" /\ (Registered <=> h.op = "rotate") /\ Stored(h, row.valid_from)

(* The INSERT or UPDATE commits, the key sealed under the current KEK and  *)
(* with key_valid_from = NOW().                                            *)
CommitRow(h) ==
    /\ h.step = "sql"
    /\ Registered <=> h.op = "rotate"
    /\ row' = [key |-> h.key, wrap |-> Seal(ring), valid_from |-> now]
    /\ handlers' = Without(h) \cup {[h EXCEPT !.step = "cache"]}
    /\ UNCHANGED <<now, readings, ring, cache, ingest, board, air, verifier, history>>

(* 409 for a second row, 404 for none: the key was shown to nobody, the    *)
(* tool's session ends and the board runs on.                              *)
Refuse(h) ==
    /\ h.step = "sql"
    /\ ~(Registered <=> h.op = "rotate")
    /\ handlers' = Without(h)
    /\ minted' = minted \ {h.key}
    /\ board' = Resumed
    /\ UNCHANGED <<now, db, ring, cache, ingest, air, verifier, serial>>

(* The rest of the handler has no await: the cache entry, the answer.  The *)
(* client installs the key it was given and the board boots with it.       *)
WriteCache(h) ==
    /\ h.step = "cache"
    /\ cache' = h.key
    /\ handlers' = Without(h)
    /\ board' = [key |-> h.key, runs |-> TRUE]
    /\ UNCHANGED <<now, db, ring, ingest, air, verifier, history>>

(* The client disconnects and the future is dropped at its await, or the   *)
(* database's answer is lost: whatever committed stays committed.          *)
Drop(h) ==
    /\ Drops
    /\ handlers' = Without(h)
    /\ board' = Resumed
    /\ serial' = FALSE
    /\ UNCHANGED <<now, db, ring, cache, ingest, air, verifier, minted>>

(* The API process stops and starts, with whatever KEKs the file holds by  *)
(* then: `load` opens every row it can and leaves the others out.          *)
Restart ==
    /\ Drops
    /\ ring' \in Rings
    /\ cache' = Opened(ring')
    /\ handlers' = {} /\ ingest' = {}
    /\ board' = IF handlers = {} THEN board ELSE Resumed
    /\ serial' = (serial /\ handlers = {})
    /\ UNCHANGED <<now, db, air, verifier, minted>>

-------------------------------------------------------------------------------
(* The way of a packet: stamped by the gateway, opened with the cached     *)
(* cipher, inserted by a statement during which the cache may move on.     *)

Transmit ==
    /\ board.runs
    /\ \E skew \in Skews :
           LET packet == [time |-> now + skew, key |-> board.key] IN
           /\ packet \notin air /\ Cardinality(air) < MaxAir
           /\ air' = air \cup {packet}
    /\ UNCHANGED <<now, db, api, board, verifier, history>>

(* handle_envelope up to its insert: an unknown device's packet is         *)
(* dropped, and so is one the cipher does not open.                        *)
Open(packet) ==
    /\ ingest = {}
    /\ air' = air \ {packet}
    /\ ingest' = IF packet.key = cache THEN {packet} ELSE {}
    /\ UNCHANGED <<now, db, ring, cache, handlers, board, verifier, history>>

(* insert_reading; an error is logged and the reading is gone.             *)
Insert ==
    /\ ingest # {}
    /\ ingest' = {}
    /\ readings' \in {readings, readings \cup ingest}
    /\ verifier' = IF verifier.step = "waiting" /\ readings' # readings
                      /\ \E r \in ingest : r.key = row.key
                   THEN [verifier EXCEPT !.proof = TRUE] ELSE verifier
    /\ UNCHANGED <<now, row, ring, cache, handlers, board, air, history>>

-------------------------------------------------------------------------------
(* verify.                                                                 *)

(* The first summary: a key the API cannot open ends it, else its lastSeen *)
(* is what a later one has to exceed.                                      *)
Openable == MayReport(KeyStatus(row.wrap, ring))
StartVerify ==
    /\ verifier.step # "waiting" /\ Registered
    /\ verifier' = IF Openable THEN [step |-> "waiting", baseline |-> LastSeen, proof |-> FALSE]
                   ELSE Ended("undecryptable")
    /\ UNCHANGED <<now, db, api, board, air, history>>

(* Mutant of Assess: the reading seen at the start counts.                 *)
AssessAny(baseline, seen) == seen # 0 /\ seen >= baseline
(* assess: some reading where there was none, or a newer one.              *)
Assess(baseline, seen) == seen # 0 /\ (baseline = 0 \/ seen > baseline)

PollReported ==
    /\ verifier.step = "waiting"
    /\ Openable /\ Assess(verifier.baseline, LastSeen)
    /\ verifier' = [verifier EXCEPT !.step = "reported"]
    /\ UNCHANGED <<now, db, api, board, air, history>>

(* wait_for_reading ends without a reading: at once when the key cannot be *)
(* opened or the API refuses, else at the deadline, where the last poll    *)
(* says whom to blame.                                                     *)
WaitError(result) ==
    CASE AbsentIfNotRegistered(result) = "found" /\ ~Openable -> {"undecryptable"}
      [] AbsentIfNotRegistered(result) = "found" /\ Openable ->
             IF Assess(verifier.baseline, LastSeen) THEN {} ELSE {"timed_out"}
      [] OTHER -> IF IsTransient(result) THEN {"unreachable"} ELSE {"refused"}
DevicePolls == Results("device", Reply(200, "payload")) \cup Results("device", Internal)
GiveUp ==
    /\ verifier.step = "waiting"
    /\ \E says \in UNION {WaitError(result) : result \in DevicePolls} :
           verifier' = Ended(says)
    /\ UNCHANGED <<now, db, api, board, air, history>>

Next ==
    \/ Tick \/ Restart
    \/ \E op \in {"provision", "rotate"} : Request(op)
    \/ \E h \in handlers : CommitRow(h) \/ Refuse(h) \/ WriteCache(h) \/ Drop(h)
    \/ Transmit \/ Insert
    \/ \E packet \in air : Open(packet)
    \/ StartVerify \/ PollReported \/ GiveUp

Spec == Init /\ [][Next]_vars
-------------------------------------------------------------------------------
Packet == [time : Nat, key : Keys]
VerifySteps == {"idle", "waiting", "reported", "timed_out", "undecryptable", "unreachable", "refused"}
Wraps == {Seal(r) : r \in Rings}

TypeOK ==
    /\ now \in Nat
    /\ row \in [key : Keys \cup {NoKey}, wrap : Wraps \cup {NoWrap}, valid_from : Nat]
    /\ ring \in Rings
    /\ readings \subseteq Packet /\ air \subseteq Packet /\ ingest \subseteq Packet
    /\ cache \in Keys \cup {NoKey}
    /\ handlers \subseteq [op : {"provision", "rotate"}, key : Keys, step : {"sql", "cache"}]
    /\ board \in [key : Keys \cup {NoKey}, runs : BOOLEAN]
    /\ verifier \in [step : VerifySteps,
                     baseline : Nat, proof : BOOLEAN]
    /\ minted \subseteq Keys /\ serial \in BOOLEAN

(***************************************************************************)
(* "The key opens, so this device's packets can be decrypted" is what the  *)
(* summary's OK says of the row, and any other status that they cannot;    *)
(* what decrypts is the cache.  With no handler under way the two should   *)
(* agree, whichever KEKs the API started with (`rotate_key`, `classify`).  *)
(***************************************************************************)
StatusOkMeansDecryptable == handlers = {} => cache = Opened(ring)

(***************************************************************************)
(* They do agree as long as every mint was answered before the next one    *)
(* was asked for, whatever else runs in between.                           *)
(***************************************************************************)
AnsweredMeansDecryptable == serial => StatusOkMeansDecryptable

(***************************************************************************)
(* The cache never holds a key the database has not committed: a packet is *)
(* only ever stored under a key the registry issued (`provision`,          *)
(* `rotate_key`, which commit first), dropped handlers or not.             *)
(***************************************************************************)
Uncommitted == {h.key : h \in {x \in handlers : x.step = "sql"}}
CacheHoldsCommitted == cache \notin Uncommitted /\ row.key \notin Uncommitted

(***************************************************************************)
(* `lastSeen` is null unless the device reported under its current key     *)
(* (`DeviceSummary`, the activity queries): a packet of the old key was    *)
(* stamped before the board halted, so before key_valid_from, however late *)
(* it is opened.  It takes one clock and answered mints.                   *)
(***************************************************************************)
LastSeenUnderCurrentKey ==
    serial => \A r \in readings : r.time > row.valid_from => r.key = row.key

(***************************************************************************)
(* `verify` says "reported under its current key" only when a reading      *)
(* opened with that key was stored while it waited (`wait_for_reading`).   *)
(***************************************************************************)
VerifyProves == serial /\ verifier.step = "reported" => verifier.proof
===============================================================================
