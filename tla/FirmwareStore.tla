---------------------------- MODULE FirmwareStore ----------------------------
(***************************************************************************)
(* The provisioning tool's store of built images (firmware.rs, over        *)
(* FlashLayout's elf.rs): manifest.toml says which image a name stands     *)
(* for, and each image is a file named by the hash of its content.  Unlike *)
(* the credentials, both are written in place: a write truncates the file  *)
(* and then fills it.  `firmware add`, `firmware remove` and `flash` (which *)
(* chooses a row first and reads its image some prompts later) are         *)
(* processes that can be cut short and run side by side.                   *)
(***************************************************************************)
EXTENDS FlashLayout

CONSTANTS
    FwNames,    \* firmware names, numbered in their order in the manifest
    Builds,     \* ELF files a build leaves behind
    Elf,        \* Elf[b]: what is in build b, see FlashLayout
    Shells      \* shells the tool is started from

VARIABLES
    manifest,   \* manifest.toml: what parses out of it
    files,      \* image files: path -> build, or "torn"
    op,         \* op[s]: the run in shell s
    overlapped, \* history: two runs were under way at once
    cut         \* history: a run ended between its first write and its last

fwVars == <<manifest, files, op, overlapped, cut>>

(***************************************************************************)
(* The store.                                                              *)
(***************************************************************************)

(* A file or a row put among others.                                       *)
With(f, at, what) == [x \in DOMAIN f \cup {at} |-> IF x = at THEN what ELSE f[x]]
Without(f, at) == [x \in DOMAIN f \ {at} |-> f[x]]

Unparsable == [parses |-> FALSE, row |-> <<>>]
Whole(rows) == [parses |-> TRUE, row |-> rows]
(* Mutant: the file is named by the name typed.                            *)
ImageByName(name, row) == name

(* image_path: the file is named by the image's own hash.                  *)
ImagePath(name, row) == row.id

(* What add records of build b.                                            *)
RowOf(b) == [id |-> b, appStart |-> ReadElf(Elf[b]).appStart,
             storage |-> ReadElf(Elf[b]).storage]
Row == {RowOf(b) : b \in Builds}
Rows == UNION {[S -> Row] : S \in SUBSET FwNames}

(* Mutant: only the row at hand decides.                                   *)
AlwaysUnreferenced(rows, row) == TRUE

(* Nothing of these rows points at row's image.                            *)
Unreferenced(rows, row) == \A n \in DOMAIN rows : rows[n].id # row.id

(* replace: a name has one row.                                            *)
Replace(rows, name, row) == With(rows, name, row)

(* What a write of these rows leaves when it is cut: nothing, the rows up  *)
(* to some name, or half a row, which does not parse.                      *)
CutSaves(rows) ==
    {Unparsable} \cup {Whole([n \in {m \in DOMAIN rows : m <= k} |-> rows[n]]) : k \in FwNames \cup {0}}

NoOp == [pc |-> "idle", rows |-> <<>>, name |-> Nothing, row |-> Nothing, old |-> Nothing]
Busy == {s \in Shells : op[s].pc # "idle"}

FwInit ==
    /\ manifest = Whole(<<>>) /\ files = <<>>
    /\ op = [s \in Shells |-> NoOp]
    /\ overlapped = FALSE /\ cut = FALSE

(* Store::load: the whole manifest, or the run ends on one that does not   *)
(* parse.                                                                  *)
Load(s) ==
    /\ op[s].pc = "idle"
    /\ manifest.parses
    /\ op' = [op EXCEPT ![s] = [NoOp EXCEPT !.pc = "loaded", !.rows = manifest.row]]
    /\ overlapped' = (overlapped \/ Busy # {})
    /\ UNCHANGED <<manifest, files, cut>>

(* add: an ELF that does not read is refused before anything is written;   *)
(* writing the image truncates whatever file has that name.                *)
Add(s) ==
    /\ op[s].pc = "loaded"
    /\ \E name \in FwNames, b \in Builds :
        IF ReadElf(Elf[b]).ok
        THEN /\ op' = [op EXCEPT ![s] = [@ EXCEPT !.pc = "writeImage", !.name = name, !.row = RowOf(b)]]
             /\ files' = With(files, ImagePath(name, RowOf(b)), "torn")
        ELSE /\ op' = [op EXCEPT ![s] = NoOp]
             /\ UNCHANGED files
    /\ UNCHANGED <<manifest, overlapped, cut>>

WriteImage(s) ==
    LET name == op[s].name  row == op[s].row  rows == op[s].rows IN
    /\ op[s].pc = "writeImage"
    /\ files' = With(files, ImagePath(name, row), row.id)
    /\ op' = [op EXCEPT ![s] =
           [@ EXCEPT !.pc = "save", !.rows = Replace(rows, name, row),
                     !.old = IF name \in DOMAIN rows THEN rows[name] ELSE Nothing]]
    /\ UNCHANGED <<manifest, overlapped, cut>>

(* remove, up to its save: a name without a row ends the run.              *)
Remove(s) ==
    /\ op[s].pc = "loaded"
    /\ \E name \in FwNames :
        LET rows == op[s].rows IN
        op' = [op EXCEPT ![s] =
            IF name \notin DOMAIN rows THEN NoOp
            ELSE [@ EXCEPT !.pc = "save", !.name = name, !.rows = Without(rows, name),
                           !.old = rows[name]]]
    /\ UNCHANGED <<manifest, files, overlapped, cut>>

(* save truncates the manifest ...                                         *)
Truncate(s) ==
    /\ op[s].pc = "save"
    /\ manifest' = Whole(<<>>)
    /\ op' = [op EXCEPT ![s].pc = "fill"]
    /\ UNCHANGED <<files, overlapped, cut>>

(* ... and writes all of it.                                               *)
Fill(s) ==
    /\ op[s].pc = "fill"
    /\ manifest' = Whole(op[s].rows)
    /\ op' = [op EXCEPT ![s].pc = "tidy"]
    /\ UNCHANGED <<files, overlapped, cut>>

(* After the manifest is safely written: the image of the row that went is *)
(* deleted when no row this run knows of points at it.                     *)
Tidy(s) ==
    LET old == op[s].old IN
    /\ op[s].pc = "tidy"
    /\ files' = IF old # Nothing /\ Unreferenced(op[s].rows, old)
                THEN Without(files, ImagePath(op[s].name, old))
                ELSE files
    /\ op' = [op EXCEPT ![s] = NoOp]
    /\ UNCHANGED <<manifest, overlapped, cut>>

(* choose_firmware, by name or from the picker: the row and, with it, the  *)
(* path; a name without a row ends the run.                                *)
ChooseFirmware(s) ==
    /\ op[s].pc = "loaded"
    /\ \E name \in FwNames :
        LET rows == op[s].rows IN
        op' = [op EXCEPT ![s] =
            IF name \notin DOMAIN rows THEN NoOp
            ELSE [@ EXCEPT !.pc = "chosen", !.name = name, !.row = rows[name]]]
    /\ UNCHANGED <<manifest, files, overlapped, cut>>

(* What is at a path: a build, "torn", or nothing.                         *)
At(path) == IF path \in DOMAIN files THEN files[path] ELSE "missing"

(* flash_image: whatever is at the chosen path by now is flashed, with the *)
(* row's own ranges around it; a file missing or torn fails the run.       *)
FlashImage(s) ==
    /\ op[s].pc = "chosen"
    /\ op' = [op EXCEPT ![s] = NoOp]
    /\ UNCHANGED <<manifest, files, overlapped, cut>>

(* The run is killed or a write fails, which ends it: a file being written *)
(* keeps what was written so far, one being deleted (an error there is     *)
(* ignored) stays.                                                         *)
CutShort(s) ==
    /\ op[s].pc # "idle"
    /\ manifest' \in IF op[s].pc = "fill" THEN CutSaves(op[s].rows) ELSE {manifest}
    /\ cut' = (cut \/ op[s].pc \in {"writeImage", "save", "fill", "tidy"})
    /\ op' = [op EXCEPT ![s] = NoOp]
    /\ UNCHANGED <<files, overlapped>>

Proceed(s) ==
    \/ Add(s) \/ WriteImage(s) \/ Remove(s) \/ Truncate(s) \/ Fill(s) \/ Tidy(s)
    \/ ChooseFirmware(s) \/ FlashImage(s) \/ CutShort(s)

-------------------------------------------------------------------------------

FwTypeOK ==
    /\ manifest \in {Unparsable} \cup {Whole(rows) : rows \in Rows}
    /\ \A path \in DOMAIN files : path \in Builds /\ files[path] \in {path, "torn"}
    /\ \A s \in Shells :
        /\ op[s].pc \in {"idle", "loaded", "writeImage", "save", "fill", "tidy", "chosen"}
        /\ op[s].rows \in Rows
        /\ op[s].name \in FwNames \cup {Nothing}
        /\ {op[s].row, op[s].old} \subseteq Row \cup {Nothing}
    /\ overlapped \in BOOLEAN /\ cut \in BOOLEAN

(* While runs do not overlap, wherever they are cut, a row's image is      *)
(* there, and while none is cut either, what is there is some row's image, *)
(* whole (firmware.rs:190 "an orphaned file is waste, a missing one is a   *)
(* broken row").                                                           *)
ImagesMatchRows ==
    ~ overlapped =>
        LET wanted == {ImagePath(n, manifest.row[n]) : n \in DOMAIN manifest.row} IN
        /\ wanted \subseteq DOMAIN files
        /\ Busy = {} /\ ~ cut =>
            /\ DOMAIN files = wanted
            /\ \A path \in wanted : files[path] # "torn"

(* Whatever ran meanwhile, the image a run flashes is the one whose load   *)
(* address and checkpoint range it took from the manifest, and that range  *)
(* is whole pages (firmware.rs:52-56: the manifest "cannot be wrong about  *)
(* where the image loads or where its persistent storage lives").          *)
FlashedAsDescribed ==
    \A s \in Shells :
        LET there == At(ImagePath(op[s].name, op[s].row))  row == op[s].row IN
        op[s].pc = "chosen" /\ there \in Builds =>
            /\ row.appStart = Lowest(Elf[there].segments)
            /\ row.storage # Nothing =>
                /\ row.storage = <<Elf[there].start, Elf[there].end>>
                /\ row.storage[1] < row.storage[2]
                /\ Aligned(row.storage[1]) /\ Aligned(row.storage[2])
===============================================================================
