------------------------------ MODULE FlashLayout ------------------------------
(***************************************************************************)
(* Where the sequence counter lives, as four programs have it: the build   *)
(* script that writes the linker script (firmware/board/build.rs), the     *)
(* image that carries two symbols, the sensor that keeps its records       *)
(* between them (seq_counter.rs) and the tool that reads them out of the   *)
(* image (provision/src/elf.rs) and erases what they name (chip.rs).       *)
(*                                                                         *)
(* An image is [segments, start, end]: the flash addresses its loadable    *)
(* segments fill, and the two symbols, or Nothing.                         *)
(***************************************************************************)
EXTENDS Integers, FiniteSets

CONSTANT Nothing    \* an absent symbol or range

PageSize == 4096
StorageLen == 2 * PageSize
Aligned(address) == address % PageSize = 0
PageFrom(address) == address .. address + PageSize - 1

(***************************************************************************)
(* The build.                                                              *)
(***************************************************************************)

(* The one layout all boards inherit.                                      *)
Bare1MB == [appStart |-> 0, flashTop |-> 1048576]
Boards == [db40 |-> Bare1MB, xiaoExpansion |-> Bare1MB, xiaoBreadboard |-> Bare1MB]

(* select_board: exactly one feature, or the build fails.                  *)
SelectBoard(features) == {Boards[b] : b \in {x \in features : Cardinality(features) = 1}}

(* Layout::derive: what stays below STORAGE is the application's.          *)
Derive(board) ==
    LET storage == board.flashTop - StorageLen IN
    [ok |-> /\ Aligned(board.appStart) /\ Aligned(board.flashTop)
            /\ storage >= 0 /\ storage > board.appStart,
     storageStart |-> storage,
     flashLen |-> storage - board.appStart]

(* render: the two regions of the linker script and its symbols ...        *)
Script(board) ==
    LET layout == Derive(board) IN
    [flash |-> [origin |-> board.appStart, length |-> layout.flashLen],
     storage |-> [origin |-> layout.storageStart, length |-> StorageLen],
     start |-> layout.storageStart,
     end |-> layout.storageStart + StorageLen]

(* ... and what it has the linker assert.                                  *)
ScriptAsserts(board) ==
    LET s == Script(board) IN
    /\ Aligned(s.storage.origin) /\ Aligned(s.storage.length)
    /\ s.flash.origin + s.flash.length = s.storage.origin
    /\ s.storage.origin + s.storage.length = board.flashTop

(* The linker places everything with content in FLASH.                     *)
Linked(elf, script) ==
    /\ elf.segments # {}
    /\ \A a \in elf.segments :
           script.flash.origin <= a /\ a < script.flash.origin + script.flash.length
    /\ elf.start = script.start /\ elf.end = script.end

(***************************************************************************)
(* The sensor.                                                             *)
(***************************************************************************)

WordsPerPage == PageSize \div 4
TotalSlots == 2 * WordsPerPage

(* load: "STORAGE region size doesn't match the two-page design".          *)
TwoPageDesign(elf) == elf.end - elf.start = TotalSlots * 4

SlotAddr(elf, slot) == elf.start + slot * 4

(* byte_range of a page, from its first slot.                              *)
FirstSlot(page) == IF page = "A" THEN 0 ELSE WordsPerPage
ByteRange(elf, page) == PageFrom(SlotAddr(elf, FirstSlot(page)))

(***************************************************************************)
(* The tool.                                                               *)
(***************************************************************************)

Lowest(S) == CHOOSE n \in S : \A k \in S : n <= k

(* storage: the region between the two absolute symbols, none without      *)
(* both, and only an ascending range of whole pages.                       *)
Storage(elf) ==
    LET both == elf.start # Nothing /\ elf.end # Nothing
        bad == both => elf.end <= elf.start \/ ~ Aligned(elf.start) \/ ~ Aligned(elf.end) IN
    IF elf.start = Nothing /\ elf.end = Nothing
    THEN [ok |-> TRUE, range |-> Nothing]
    ELSE [ok |-> both /\ ~ bad, range |-> IF bad THEN Nothing ELSE <<elf.start, elf.end>>]

(* read: the lowest address a loadable segment with content is stored at.  *)
ReadElf(elf) ==
    [ok |-> elf.segments # {} /\ Storage(elf).ok,
     appStart |-> IF elf.segments = {} THEN Nothing ELSE Lowest(elf.segments),
     storage |-> Storage(elf).range]

(* erase_storage: the pages from start to end, one by one, or none of a    *)
(* range that is not whole pages.                                          *)
ErasedPages(start, end) ==
    {start + i * PageSize : i \in {n \in 0 .. end - start :
        /\ start < end /\ Aligned(start) /\ Aligned(end)
        /\ start + n * PageSize < end}}
ErasedBytes(start, end) == UNION {PageFrom(page) : page \in ErasedPages(start, end)}

(* flash, keyed: the range erased is the one read out of the image.        *)
ErasedFor(elf) == LET range == ReadElf(elf).storage IN ErasedBytes(range[1], range[2])
===============================================================================
