------------------------------ MODULE ToolFiles ------------------------------
(***************************************************************************)
(* The files the provisioning tool keeps on a workstation, used by runs of *)
(* it from several shells: profiles and credentials (CredentialStore) and  *)
(* the firmware store (FirmwareStore).  A shell runs one command at a time *)
(* and each command loads the store it works on when it starts.            *)
(***************************************************************************)
EXTENDS CredentialStore

CONSTANTS FwNames, Builds, Elf

VARIABLES manifest, files, op, overlapped, cut

Firmware == INSTANCE FirmwareStore WITH Shells <- Processes, Nothing <- None

ASSUME FirmwareAssumption ==
    /\ FwNames \subseteq Nat \ {0}
    /\ Builds \cap {"torn", "missing"} = {}
    /\ \A b \in Builds :
        /\ Elf[b].segments \subseteq Nat
        /\ {Elf[b].start, Elf[b].end} \subseteq Nat \cup {None}
    /\ None \notin Firmware!Row

firmwareVars == <<manifest, files, op, overlapped, cut>>
toolVars == <<vars, firmwareVars>>

ToolInit == Init /\ Firmware!FwInit

(* A command on the credentials goes on, or starts in an idle shell.       *)
CredentialStep ==
    /\ \/ \E r \in Processes :
           \/ op[r].pc = "idle" /\ LoadConfig(r)
           \/ LoadTokens(r) \/ Login(r) \/ Logout(r)
           \/ SaveConfig(r) \/ SaveTokens(r) \/ Cut(r)
       \/ EditConfig
    /\ UNCHANGED firmwareVars

(* Likewise a command on the firmware store.                               *)
FirmwareStep ==
    \E r \in Processes :
        \/ /\ run[r].pc = "idle" /\ Firmware!Load(r)
           /\ runs < MaxRuns /\ runs' = runs + 1
           /\ UNCHANGED <<config, tokens, run, half, edited, raced>>
        \/ /\ Firmware!Proceed(r)
           /\ UNCHANGED vars

ToolNext == CredentialStep \/ FirmwareStep

ToolSpec == ToolInit /\ [][ToolNext]_toolVars

-------------------------------------------------------------------------------

(* The type invariant of both stores, proved in ToolFilesProofs.           *)
FilesTypeOK == TypeOK /\ Firmware!FwTypeOK

(* See FirmwareStore.                                                      *)
ImagesMatchRows == Firmware!ImagesMatchRows
FlashedAsDescribed == Firmware!FlashedAsDescribed
===============================================================================
