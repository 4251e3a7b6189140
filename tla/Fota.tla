-------------------------------- MODULE Fota --------------------------------
(***************************************************************************)
(* A firmware update from the download to the new program: ql_fota.c       *)
(* stores the image as a file on the SD card, over HTTP or FTP; after a    *)
(* reset bootloader.c copies the file to flash, deletes it and starts the  *)
(* program.  Power may fail between any two steps.                         *)
(*                                                                         *)
(* The image is a sequence of Packets blocks; a body event of the download *)
(* and a read of the boot loader both handle one.  FatFs is external: what *)
(* f_write put on the card counts only when f_close has written the        *)
(* directory entry, while f_open with FA_CREATE_ALWAYS has already set an  *)
(* existing file's size to 0.                                              *)
(***************************************************************************)
EXTENDS Integers

CONSTANTS
    Packets,        \* blocks of the image
    LastBytes,      \* bytes of the last block
    MaxDownloads,   \* bound: calls of ql_fota_firmware_download
    MaxCuts,        \* bound: power failures
    MaxFaults       \* bound: failures of the card and of the flash

ASSUME PacketsAssumption == Packets \in Nat \ {0}
ASSUME BytesAssumption == LastBytes \in Nat
ASSUME BoundsAssumption == MaxDownloads \in Nat /\ MaxCuts \in Nat /\ MaxFaults \in Nat

VARIABLES
    flash,      \* the application's flash: what each block holds
    file,       \* blocks of FotaFile.bin by its directory entry, or NoFile
    junk,       \* the file holds no program (the server's file is another one)
    mode,       \* who runs: "app" or "boot"
    \* the download, lost in a reset
    dl,         \* place of ql_fota_http_process or ql_fota_ftp_process
    proto,      \* which of the two
    open,       \* blocks written to the open file
    received,   \* config_in.received
    total,      \* config_in.total, 0 when the server names no length
    succeed,    \* config_in.succeed, not initialised
    err,        \* the request's result is an error
    report,     \* the last status other than QL_FOTA_INPROGRESS given to config->cb
    \* the boot loader
    bpc,        \* place of Update_Firmware
    idx,        \* blocks copied
    left,       \* blocks still to erase
    \* history
    blame,      \* causes of damage that have occurred
    downloads, cuts, faults

storage == <<flash, file, junk>>
download == <<dl, proto, open, received, total, succeed, err, report>>
loader == <<bpc, idx, left>>
bounds == <<downloads, cuts, faults>>
vars == <<storage, mode, download, loader, blame, bounds>>

Blocks == 1 .. Packets
NoFile == -1
Part == 0 < file /\ file < Packets
All(content) == \A b \in Blocks : flash[b] = content
Whole == All("old") \/ All("new")
Causes == {"ftp_abort", "cut_in_cleanup", "card_write", "tail",
           "no_card", "card_read", "flash_write"}

Places == {"idle", "open", "request", "body", "close", "cleanup"}
Steps == {"detect", "open", "read", "erase", "write", "delete", "jump"}

TypeOK ==
    /\ flash \in [Blocks -> {"old", "new", "blank"}]
    /\ file \in {NoFile} \cup (0 .. Packets) /\ junk \in BOOLEAN
    /\ mode \in {"app", "boot"}
    /\ dl \in Places /\ proto \in {"http", "ftp"}
    /\ open \in 0 .. Packets /\ received \in 0 .. Packets /\ open <= received
    /\ total \in {0, Packets} /\ succeed \in BOOLEAN /\ err \in BOOLEAN
    /\ report \in {"none", "succeed", "fail"}
    /\ bpc \in Steps /\ idx \in 0 .. Packets /\ left \in 0 .. Packets
    /\ blame \subseteq Causes
    /\ downloads \in 0 .. MaxDownloads /\ cuts \in 0 .. MaxCuts /\ faults \in 0 .. MaxFaults

Init ==
    /\ flash = [b \in Blocks |-> "old"] /\ file = NoFile /\ junk = FALSE
    /\ mode = "app"
    /\ dl = "idle" /\ proto = "http" /\ open = 0 /\ received = 0 /\ total = 0
    /\ succeed = FALSE /\ err = FALSE /\ report = "none"
    /\ bpc = "detect" /\ idx = 0 /\ left = 0
    /\ blame = {} /\ downloads = 0 /\ cuts = 0 /\ faults = 0

Blame(cause) == blame' = blame \cup {cause}
Fault(cause) == faults < MaxFaults /\ faults' = faults + 1 /\ Blame(cause)

-----------------------------------------------------------------------------
(* ql_fota.c, in the application                                            *)

\* A program that is not whole does nothing that could be relied on.
App(from, to) == mode = "app" /\ Whole /\ dl = from /\ dl' = to
AppOnly == UNCHANGED <<mode, flash, loader, cuts>>

Begin(p) ==
    /\ App("idle", "open")
    /\ downloads < MaxDownloads /\ downloads' = downloads + 1
    /\ proto' = p /\ report' = "none"
    /\ UNCHANGED <<file, junk, open, received, total, succeed, err, blame, faults>> /\ AppOnly

\* Login, change of directory or f_open fails; the file is as it was.
OpenFails ==
    /\ App("open", "idle")
    /\ report' = "fail"
    /\ UNCHANGED <<file, junk, proto, open, received, total, succeed, err, blame, downloads, faults>>
    /\ AppOnly

\* An update that waited on the card is gone from here on.
Open ==
    /\ App("open", "request")
    /\ file' \in IF file > 0 THEN {0} ELSE {file, 0}
    /\ junk' \in BOOLEAN
    /\ open' = 0 /\ received' = 0 /\ total' = 0
    /\ succeed' \in BOOLEAN /\ err' = FALSE
    /\ UNCHANGED <<proto, report, blame, downloads, faults>> /\ AppOnly

\* The command fails before the first event, and the file is still open.
RequestFails ==
    /\ App("request", "close")
    /\ err' = TRUE
    /\ UNCHANGED <<file, junk, proto, open, received, total, succeed, report, blame, downloads, faults>>
    /\ AppOnly

\* The event START.  FTP asked for the size; HTTP has what the URC named.
Start ==
    /\ App("request", "body")
    /\ total' \in IF proto = "ftp" THEN {Packets} ELSE {0, Packets}
    /\ UNCHANGED <<file, junk, proto, open, received, succeed, err, report, blame, downloads, faults>>
    /\ AppOnly

\* A body event; the result of f_write is ignored.
Write ==
    /\ App("body", "body")
    /\ received < Packets /\ received' = received + 1
    /\ open = received /\ open' = open + 1
    /\ UNCHANGED <<file, junk, proto, total, succeed, err, report, blame, downloads, faults>>
    /\ AppOnly

\* The card is full or fails, and then every later write fails too.
WriteFails ==
    /\ App("body", "body")
    /\ received < Packets /\ received' = received + 1
    /\ IF open = received THEN Fault("card_write") ELSE UNCHANGED <<blame, faults>>
    /\ UNCHANGED <<file, junk, proto, open, total, succeed, err, report, downloads>> /\ AppOnly

\* Mistake: the callback does not compare what it received with the total.
EndUncounted ==
    /\ App("body", "cleanup")
    /\ file' = open
    /\ err' = FALSE /\ succeed' = TRUE /\ report' = "succeed"
    /\ blame' = IF proto = "ftp" /\ 0 < open /\ open < Packets THEN blame \cup {"ftp_abort"} ELSE blame
    /\ UNCHANGED <<junk, proto, open, received, total, downloads, faults>> /\ AppOnly

\* The body is complete or the line is silent: the event END, which closes the
\* file.  HTTP hides the error of an incomplete body from its caller; FTP's
\* closing URC may also report one after a complete body.
End ==
    /\ App("body", "cleanup")
    /\ file' = open
    /\ err' \in CASE proto = "http" -> {FALSE}
                  [] received < Packets -> {TRUE}
                  [] OTHER -> BOOLEAN
    /\ succeed' = IF proto = "http" THEN received = total ELSE succeed
    /\ report' = IF received = total THEN "succeed" ELSE "fail"
    /\ blame' = IF proto = "ftp" /\ 0 < open /\ open < Packets THEN blame \cup {"ftp_abort"} ELSE blame
    /\ UNCHANGED <<junk, proto, open, received, total, downloads, faults>> /\ AppOnly

\* The request returned without the event END: the caller closes the file.
Close ==
    /\ App("close", "cleanup")
    /\ file' = open
    /\ UNCHANGED <<junk, proto, open, received, total, succeed, err, report, blame, downloads, faults>>
    /\ AppOnly

\* Mistake: HTTP unlinks only when the request itself failed.
CleanupByError ==
    /\ App("cleanup", "idle")
    /\ file' = IF proto = "http" /\ err THEN NoFile ELSE file
    /\ report' = IF err THEN "fail" ELSE report
    /\ UNCHANGED <<junk, proto, open, received, total, succeed, err, blame, downloads, faults>> /\ AppOnly

\* The end of the call; only HTTP deletes what it could not complete.
Cleanup ==
    /\ App("cleanup", "idle")
    /\ file' = IF proto = "http" /\ ~succeed THEN NoFile ELSE file
    /\ report' = IF err THEN "fail" ELSE report
    /\ UNCHANGED <<junk, proto, open, received, total, succeed, err, blame, downloads, faults>> /\ AppOnly

-----------------------------------------------------------------------------
(* Resets                                                                   *)

ToBoot ==
    /\ mode' = "boot" /\ bpc' = "detect" /\ idx' = 0 /\ left' = 0
    /\ dl' = "idle" /\ proto' = "http" /\ open' = 0 /\ received' = 0 /\ total' = 0
    /\ succeed' = FALSE /\ err' = FALSE /\ report' = "none"
    /\ UNCHANGED storage

\* The command line's callback resets at QL_FOTA_SUCCEED, within the event END;
\* its reboot command, or the user, resets a device at rest.
Restart ==
    /\ mode = "app"
    /\ dl = "idle" \/ (dl = "cleanup" /\ report = "succeed")
    /\ ToBoot
    /\ UNCHANGED <<blame, bounds>>

\* Power fails.  Between the event END and f_unlink a part of an update is on
\* the card although HTTP is about to delete it.
Cut ==
    /\ cuts < MaxCuts /\ cuts' = cuts + 1
    /\ ToBoot
    /\ IF mode = "app" /\ dl = "cleanup" /\ proto = "http" /\ Part
       THEN Blame("cut_in_cleanup") ELSE UNCHANGED blame
    /\ UNCHANGED <<downloads, faults>>

-----------------------------------------------------------------------------
(* bootloader.c                                                             *)

Boot(from, to) == mode = "boot" /\ bpc = from /\ bpc' = to
BootOnly == UNCHANGED <<junk, download, downloads, cuts>>

Detect ==
    /\ Boot("detect", "open")
    /\ UNCHANGED <<mode, flash, file, idx, left, blame, faults>> /\ BootOnly

NoCard ==
    /\ Boot("detect", "jump")
    /\ Fault("no_card")
    /\ UNCHANGED <<mode, flash, file, idx, left>> /\ BootOnly

NothingToDo ==
    /\ Boot("open", "jump")
    /\ file = NoFile
    /\ UNCHANGED <<mode, flash, file, idx, left, blame, faults>> /\ BootOnly

BootOpen ==
    /\ Boot("open", "read")
    /\ file # NoFile /\ idx' = 0
    /\ UNCHANGED <<mode, flash, file, left, blame, faults>> /\ BootOnly

\* f_open or f_read fails: the update is abandoned, and the file stays.
ReadFails ==
    /\ \E from \in {"open", "read"} : Boot(from, "jump")
    /\ file # NoFile
    /\ Fault("card_read")
    /\ UNCHANGED <<mode, flash, file, idx, left>> /\ BootOnly

\* Mistake: the test of the first block rejects every update.
RejectAny ==
    /\ Boot("read", "jump")
    /\ idx = 0 /\ file > 0
    /\ UNCHANGED <<mode, flash, file, idx, left, blame, faults>> /\ BootOnly

\* The first word after the stack pointer of the first block is no address.
Reject ==
    /\ Boot("read", "jump")
    /\ idx = 0 /\ file > 0 /\ junk
    /\ UNCHANGED <<mode, flash, file, idx, left, blame, faults>> /\ BootOnly

\* The sectors that file_size bytes reach are erased, from the last to the first.
ReadFirst ==
    /\ Boot("read", "erase")
    /\ idx = 0 /\ file > 0 /\ ~junk
    /\ left' \in file .. Packets
    /\ UNCHANGED <<mode, flash, file, idx, blame, faults>> /\ BootOnly

Erase ==
    /\ Boot("erase", IF left = 1 THEN "write" ELSE "erase")
    /\ flash' = [flash EXCEPT ![left] = "blank"]
    /\ left' = left - 1
    /\ UNCHANGED <<mode, file, idx, blame, faults>> /\ BootOnly

ReadNext ==
    /\ Boot("read", "write")
    /\ 0 < idx /\ idx < file
    /\ UNCHANGED <<mode, flash, file, idx, left, blame, faults>> /\ BootOnly

\* Bytes IAP_Write_Flash_AppBin programs of n: words, and then a loop whose
\* index rises while its limit falls.
Tail[i \in 0 .. 3, n \in 0 .. 3] == IF i < n THEN 1 + Tail[i + 1, n - 1] ELSE 0
Programmed(n) == 4 * (n \div 4) + Tail[0, n % 4]

\* Every block but the last has the length of a sector.
Complete(b) == b < Packets \/ Programmed(LastBytes) = LastBytes

Program ==
    /\ Boot("write", "read")
    /\ flash' = [flash EXCEPT ![idx + 1] = IF Complete(idx + 1) THEN "new" ELSE "blank"]
    /\ idx' = idx + 1
    /\ IF Complete(idx + 1) THEN UNCHANGED blame ELSE Blame("tail")
    /\ UNCHANGED <<mode, file, left, faults>> /\ BootOnly

\* HAL_FLASH_Program fails within the block: the copy ends, and the file stays.
ProgramFails ==
    /\ Boot("write", "jump")
    /\ Fault("flash_write")
    /\ UNCHANGED <<mode, flash, file, idx, left>> /\ BootOnly

\* Mistake: the loop ends one block early.
ReadEndEarly ==
    /\ Boot("read", "delete")
    /\ idx + 1 >= file
    /\ UNCHANGED <<mode, flash, file, idx, left, blame, faults>> /\ BootOnly

ReadEnd ==
    /\ Boot("read", "delete")
    /\ idx = file
    /\ UNCHANGED <<mode, flash, file, idx, left, blame, faults>> /\ BootOnly

Delete ==
    /\ Boot("delete", "jump")
    /\ file' = NoFile
    /\ UNCHANGED <<mode, flash, idx, left, blame, faults>> /\ BootOnly

\* The stack pointer of an erased block passes the test, so any program starts.
Jump ==
    /\ Boot("jump", "detect")
    /\ mode' = "app"
    /\ UNCHANGED <<flash, file, idx, left, blame, faults>> /\ BootOnly

-----------------------------------------------------------------------------
Application ==
    \/ \E p \in {"http", "ftp"} : Begin(p)
    \/ OpenFails \/ Open \/ RequestFails \/ Start \/ Write \/ WriteFails
    \/ End \/ Close \/ Cleanup

Loader ==
    \/ Detect \/ NoCard \/ NothingToDo \/ BootOpen \/ ReadFails \/ Reject \/ ReadFirst
    \/ Erase \/ ReadNext \/ Program \/ ProgramFails \/ ReadEnd \/ Delete \/ Jump

Next == Application \/ Restart \/ Cut \/ Loader

Spec == Init /\ [][Next]_vars

\* The boot loader's code runs; nothing is asked of the application.
LiveSpec == Spec /\ WF_vars(Loader)

-----------------------------------------------------------------------------
(* Properties                                                               *)

\* A program runs only if it is one whole image, whatever was downloaded and
\* whenever power failed.  The exceptions are the causes in blame: a part of an
\* update left on the card (FTP never deletes it, HTTP not if power fails before
\* it does, a failed write of the card goes unnoticed), a block whose tail is
\* not programmed, a card or a flash that fails during the copy.
OnlyWholeImagesRun == mode = "app" => Whole \/ blame # {}

\* QL_FOTA_SUCCEED is reported only for a file that is complete on the card, so
\* that a reset in the callback installs it: unless a write failed or the
\* server named no length.
SuccessIsStored ==
    mode = "app" /\ report = "succeed" => file = Packets \/ "card_write" \in blame \/ total = 0

\* The device holds a whole program or the complete update, across resets.
Harmful == {"ftp_abort", "cut_in_cleanup", "card_write", "tail"}
Abstract == INSTANCE Firmware WITH
    image <- IF All("new") THEN "new" ELSE IF All("old") THEN "old" ELSE "none",
    stored <- (file = Packets /\ ~junk),
    harmed <- (blame \cap Harmful # {})
ImplementsFirmware == Abstract!Spec

\* A complete update that a reset finds on the card is installed in the end,
\* however often power fails during the copy; a failure of the card or of the
\* flash may end the attempt.
Installs ==
    mode = "boot" /\ bpc = "detect" /\ file = Packets /\ ~junk
        ~> All("new") \/ blame # {}
=============================================================================
