----------------------------- MODULE FotaProofs -----------------------------
(***************************************************************************)
(* Proofs about Fota for any number of blocks, downloads, power failures   *)
(* and faults: only whole images run, and Fota implements Firmware.        *)
(***************************************************************************)
EXTENDS Fota, TLAPS

USE PacketsAssumption, BytesAssumption, BoundsAssumption DEF NoFile, Blocks

Harmless == blame \cap Harmful = {}

\* The download: what is open, and what was reported when.
DownloadOK ==
    /\ dl \in {"request", "close"} => open = 0 /\ received = 0
    /\ dl = "body" => open = received \/ "card_write" \in blame
    /\ dl \in {"open", "request", "body", "close"} => report = "none"
    /\ dl = "cleanup" /\ proto = "http" /\ report = "succeed" => succeed
    /\ mode = "boot" => dl = "idle" /\ report = "none"

\* A part of an update is on the card only until HTTP deletes it.
PartOK ==
    Part => ~Harmless \/ (mode = "app" /\ dl = "cleanup" /\ proto = "http" /\ ~succeed)

\* The device has a whole program or the complete update.
Restartable == Whole \/ (file = Packets /\ ~junk) \/ ~Harmless

\* The copy: the blocks up to idx are new, those from idx on are blank.
Copied == \A b \in Blocks : b <= idx => flash[b] = "new"
Blanked(n) == \A b \in Blocks : n < b /\ b <= file => flash[b] = "blank"
Copying == bpc \in {"write", "delete"} \/ (bpc = "read" /\ 0 < idx)
CopyOK ==
    /\ mode = "boot" => (Copying => idx <= file /\ (Copied \/ ~Harmless))
    /\ mode = "boot" /\ bpc = "read" => 0 <= file
    /\ mode = "boot" /\ bpc = "write" => idx < file
    /\ mode = "boot" /\ bpc = "delete" => idx = file
    /\ mode = "boot" /\ bpc = "erase" => idx = 0 /\ 0 < left /\ Blanked(left)
    /\ mode = "boot" /\ (bpc = "write" \/ (bpc = "read" /\ 0 < idx)) => Blanked(idx)
    /\ mode = "boot" /\ (bpc \in {"erase", "write"} \/ (bpc = "read" /\ 0 < idx)) => ~junk /\ 0 < file
    /\ mode = "boot" /\ bpc = "jump" => Whole \/ blame # {}

IInv ==
    /\ TypeOK /\ DownloadOK /\ PartOK /\ Restartable /\ CopyOK
    /\ OnlyWholeImagesRun /\ SuccessIsStored

\* Each step keeps the invariant.
LEMMA Inductive == ASSUME IInv, [Next]_vars PROVE IInv'
<1> USE DEF IInv, TypeOK, DownloadOK, PartOK, Restartable, CopyOK, OnlyWholeImagesRun,
            SuccessIsStored, Harmless, Harmful,
            App, AppOnly, Boot, BootOnly, Blame, Fault, ToBoot, storage, download, loader, bounds, Complete,
            Part, Whole, All, Copying, Copied, Blanked, Causes, Places, Steps
<1>0. 0 \in 0 .. Packets /\ Packets \in 0 .. Packets OBVIOUS
<1>1. CASE \E p \in {"http", "ftp"} : Begin(p) BY <1>1 DEF Begin
<1>2. CASE OpenFails BY <1>2 DEF OpenFails
<1>3. CASE Open
  <2> USE <1>0, <1>3 DEF Open
  <2>1. TypeOK'
    <3>1. (open \in 0 .. Packets /\ received \in 0 .. Packets /\ open <= received)' OBVIOUS
    <3>2. (file \in {NoFile} \cup (0 .. Packets) /\ idx \in 0 .. Packets /\ left \in 0 .. Packets)' OBVIOUS
    <3> QED BY <3>1, <3>2
  <2>2. DownloadOK' OBVIOUS
  <2>3. PartOK' OBVIOUS
  <2>4. Restartable' OBVIOUS
  <2>5. CopyOK' OBVIOUS
  <2>6. OnlyWholeImagesRun' OBVIOUS
  <2>7. SuccessIsStored' OBVIOUS
  <2> QED BY <2>1, <2>2, <2>3, <2>4, <2>5, <2>6, <2>7
<1>4. CASE RequestFails BY <1>4 DEF RequestFails
<1>5. CASE Start BY <1>5 DEF Start
<1>6. CASE Write BY <1>6 DEF Write
<1>7. CASE WriteFails
  <2> USE <1>0, <1>7 DEF WriteFails
  <2>1. TypeOK'
    <3>1. (open \in 0 .. Packets /\ received \in 0 .. Packets /\ open <= received)' OBVIOUS
    <3>2. (file \in {NoFile} \cup (0 .. Packets) /\ idx \in 0 .. Packets /\ left \in 0 .. Packets)' OBVIOUS
    <3>3. (flash \in [Blocks -> {"old", "new", "blank"}] /\ blame \subseteq Causes)' OBVIOUS
    <3>4. (downloads \in 0 .. MaxDownloads /\ cuts \in 0 .. MaxCuts /\ faults \in 0 .. MaxFaults)' OBVIOUS
    <3> QED BY <3>1, <3>2, <3>3, <3>4
  <2>2. DownloadOK' OBVIOUS
  <2>3. PartOK' OBVIOUS
  <2>4. Restartable' OBVIOUS
  <2>5. CopyOK' OBVIOUS
  <2>6. OnlyWholeImagesRun' OBVIOUS
  <2>7. SuccessIsStored' OBVIOUS
  <2> QED BY <2>1, <2>2, <2>3, <2>4, <2>5, <2>6, <2>7
<1>8. CASE End
  <2> USE <1>0, <1>8 DEF End
  <2>1. TypeOK'
    <3>1. (open \in 0 .. Packets /\ received \in 0 .. Packets /\ open <= received)' OBVIOUS
    <3>2. (file \in {NoFile} \cup (0 .. Packets) /\ idx \in 0 .. Packets /\ left \in 0 .. Packets)' OBVIOUS
    <3> QED BY <3>1, <3>2
  <2>2. DownloadOK' OBVIOUS
  <2>3. PartOK'
    <3> SUFFICES ASSUME Part', Harmless' PROVE proto = "http" /\ ~succeed'
        OBVIOUS
    <3>1. CASE proto = "ftp" BY <3>1
    <3>2. CASE proto = "http"
      <4>1. received # total BY <3>2
      <4>2. succeed' = (received = total) BY <3>2
      <4> QED BY ONLY <3>2, <4>1, <4>2
    <3> QED BY <3>1, <3>2
  <2>4. Restartable' OBVIOUS
  <2>5. CopyOK' OBVIOUS
  <2>6. OnlyWholeImagesRun' OBVIOUS
  <2>7. SuccessIsStored' OBVIOUS
  <2> QED BY <2>1, <2>2, <2>3, <2>4, <2>5, <2>6, <2>7
<1>9. CASE Close BY <1>9 DEF Close
<1>10. CASE Cleanup BY <1>10 DEF Cleanup
<1>11. CASE Restart
  <2> USE <1>0, <1>11 DEF Restart
  <2>1. TypeOK'
    <3>1. (open \in 0 .. Packets /\ received \in 0 .. Packets /\ open <= received)' OBVIOUS
    <3>2. (file \in {NoFile} \cup (0 .. Packets) /\ idx \in 0 .. Packets /\ left \in 0 .. Packets)' OBVIOUS
    <3> QED BY <3>1, <3>2
  <2>2. DownloadOK' OBVIOUS
  <2>3. PartOK' OBVIOUS
  <2>4. Restartable' OBVIOUS
  <2>5. CopyOK' OBVIOUS
  <2>6. OnlyWholeImagesRun' OBVIOUS
  <2>7. SuccessIsStored' OBVIOUS
  <2> QED BY <2>1, <2>2, <2>3, <2>4, <2>5, <2>6, <2>7
<1>12. CASE Cut
  <2> USE <1>0, <1>12 DEF Cut
  <2>1. TypeOK'
    <3>1. (open \in 0 .. Packets /\ received \in 0 .. Packets /\ open <= received)' OBVIOUS
    <3>2. (file \in {NoFile} \cup (0 .. Packets) /\ idx \in 0 .. Packets /\ left \in 0 .. Packets)' OBVIOUS
    <3>3. (flash \in [Blocks -> {"old", "new", "blank"}] /\ blame \subseteq Causes)' OBVIOUS
    <3>4. (downloads \in 0 .. MaxDownloads /\ cuts \in 0 .. MaxCuts /\ faults \in 0 .. MaxFaults)' OBVIOUS
    <3> QED BY <3>1, <3>2, <3>3, <3>4
  <2>2. DownloadOK' OBVIOUS
  <2>3. PartOK' OBVIOUS
  <2>4. Restartable' OBVIOUS
  <2>5. CopyOK' OBVIOUS
  <2>6. OnlyWholeImagesRun' OBVIOUS
  <2>7. SuccessIsStored' OBVIOUS
  <2> QED BY <2>1, <2>2, <2>3, <2>4, <2>5, <2>6, <2>7
<1>13. CASE Detect BY <1>13 DEF Detect
<1>14. CASE NoCard BY <1>14 DEF NoCard
<1>15. CASE NothingToDo BY <1>15 DEF NothingToDo
<1>16. CASE BootOpen BY <1>16 DEF BootOpen
<1>17. CASE ReadFails BY <1>17 DEF ReadFails
<1>18. CASE Reject BY <1>18 DEF Reject
<1>19. CASE ReadFirst BY <1>19 DEF ReadFirst
<1>20. CASE Erase BY <1>20 DEF Erase
<1>21. CASE ReadNext BY <1>21 DEF ReadNext
<1>22. CASE Program
  <2> USE <1>0, <1>22 DEF Program
  <2>1. TypeOK'
    <3>1. (open \in 0 .. Packets /\ received \in 0 .. Packets /\ open <= received)' OBVIOUS
    <3>2. (file \in {NoFile} \cup (0 .. Packets) /\ idx \in 0 .. Packets /\ left \in 0 .. Packets)' OBVIOUS
    <3>3. (flash \in [Blocks -> {"old", "new", "blank"}] /\ blame \subseteq Causes)' OBVIOUS
    <3>4. (downloads \in 0 .. MaxDownloads /\ cuts \in 0 .. MaxCuts /\ faults \in 0 .. MaxFaults)' OBVIOUS
    <3> QED BY <3>1, <3>2, <3>3, <3>4
  <2>2. DownloadOK' OBVIOUS
  <2>3. PartOK' OBVIOUS
  <2>4. Restartable' OBVIOUS
  <2>5. CopyOK' OBVIOUS
  <2>6. OnlyWholeImagesRun' OBVIOUS
  <2>7. SuccessIsStored' OBVIOUS
  <2> QED BY <2>1, <2>2, <2>3, <2>4, <2>5, <2>6, <2>7
<1>23. CASE ProgramFails BY <1>23 DEF ProgramFails
<1>24. CASE ReadEnd BY <1>24 DEF ReadEnd
<1>25. CASE Delete BY <1>25 DEF Delete
<1>26. CASE Jump BY <1>26 DEF Jump
<1>27. CASE UNCHANGED vars BY <1>27 DEF vars
<1> HIDE DEF IInv, TypeOK, DownloadOK, PartOK, Restartable, CopyOK, OnlyWholeImagesRun,
             SuccessIsStored, Harmless, Harmful,
             App, AppOnly, Boot, BootOnly, Blame, Fault, ToBoot, storage, download, loader, bounds, Complete,
             Part, Whole, All, Copying, Copied, Blanked, Causes, Places, Steps
<1>28. CASE Application
  BY <1>28, <1>1, <1>2, <1>3, <1>4, <1>5, <1>6, <1>7, <1>8, <1>9, <1>10 DEF Application
<1>29. CASE Loader
  BY <1>29, <1>13, <1>14, <1>15, <1>16, <1>17, <1>18, <1>19, <1>20, <1>21, <1>22, <1>23, <1>24, <1>25,
     <1>26 DEF Loader
<1> QED BY <1>11, <1>12, <1>27, <1>28, <1>29 DEF Next

\* The device starts with a whole program, an empty card and nothing to blame.
LEMMA Initially == ASSUME Init PROVE IInv
<1>1. Whole BY DEF Init, Whole, All
<1>2. TypeOK
  <2>1. 0 \in 0 .. Packets /\ 0 \in 0 .. MaxDownloads /\ 0 \in 0 .. MaxCuts /\ 0 \in 0 .. MaxFaults OBVIOUS
  <2>2. file \in {NoFile} \cup (0 .. Packets) /\ open <= received BY DEF Init
  <2>3. flash \in [Blocks -> {"old", "new", "blank"}] BY DEF Init
  <2>4. dl \in Places /\ bpc \in Steps /\ blame \subseteq Causes BY DEF Init, Places, Steps, Causes
  <2> QED BY <2>1, <2>2, <2>3, <2>4 DEF Init, TypeOK
<1>3. DownloadOK /\ PartOK BY DEF Init, DownloadOK, PartOK, Part
<1>4. CopyOK BY DEF Init, CopyOK
<1> QED BY <1>1, <1>2, <1>3, <1>4 DEF Init, IInv, Restartable, OnlyWholeImagesRun, SuccessIsStored

\* The inductive invariant holds of every behaviour of the update.
THEOREM InvariantHolds == Spec => []IInv
BY Initially, Inductive, PTL DEF Spec

\* Every variable keeps its type; no index leaves the image.
THEOREM TypeCorrect == Spec => []TypeOK
<1>1. IInv => TypeOK BY DEF IInv
<1> QED BY InvariantHolds, <1>1, PTL

\* For any size of the image and however often power fails, a program that runs
\* is a whole image unless a cause in blame occurred.
THEOREM WholeImages == Spec => []OnlyWholeImagesRun
<1>1. IInv => OnlyWholeImagesRun BY DEF IInv
<1> QED BY InvariantHolds, <1>1, PTL
\* QL_FOTA_SUCCEED is reported for a complete file, or the card failed, or the
\* server named no length.
THEOREM SuccessStored == Spec => []SuccessIsStored
<1>1. IInv => SuccessIsStored BY DEF IInv
<1> QED BY InvariantHolds, <1>1, PTL

-----------------------------------------------------------------------------
(* Refinement                                                               *)

Image == IF All("new") THEN "new" ELSE IF All("old") THEN "old" ELSE "none"
Stored == file = Packets /\ ~junk

LEMMA ImageOfWhole == (Image = "none") = ~Whole
BY DEF Image, Whole

\* A block that is blank belongs to neither image.
LEMMA BlankBlock == ASSUME NEW b \in Blocks, flash[b] = "blank" PROVE Image = "none"
BY DEF Image, All

LEMMA BlamePersists == ASSUME [Next]_vars PROVE blame \subseteq blame'
BY DEF Next, vars, Application, Begin, OpenFails, Open, RequestFails, Start, Write, WriteFails, End, Close,
       Cleanup, Restart, Cut, Loader, Detect, NoCard, NothingToDo, BootOpen, ReadFails, Reject, ReadFirst,
       Erase, ReadNext, Program, ProgramFails, ReadEnd, Delete, Jump, Blame, Fault

\* The application changes the card only while a whole program runs.
LEMMA ApplicationStep == ASSUME Application PROVE Whole /\ UNCHANGED flash
BY DEF Application, Begin, OpenFails, Open, RequestFails, Start, Write, WriteFails, End, Close, Cleanup,
       App, AppOnly

\* A step without damage is a step of Firmware or none.
LEMMA SafeStep ==
    ASSUME IInv, IInv', [Next]_vars, Harmless'
    PROVE  \/ UNCHANGED <<Image, Stored>>
           \/ Image # "none" /\ UNCHANGED Image
           \/ Stored /\ Image' = "none" /\ UNCHANGED Stored
           \/ Stored /\ Image = "none" /\ Image' = "new" /\ UNCHANGED Stored
<1>1. CASE Application
  BY <1>1, ApplicationStep, ImageOfWhole DEF Image, All
<1>2. CASE Restart \/ Cut \/ UNCHANGED vars
  BY <1>2 DEF Restart, Cut, ToBoot, storage, vars, Image, Stored, All
<1>3. CASE Detect \/ NoCard \/ NothingToDo \/ BootOpen \/ ReadFails \/ Reject \/ ReadFirst \/ ReadNext
           \/ ProgramFails \/ ReadEnd \/ Jump
  BY <1>3 DEF Detect, NoCard, NothingToDo, BootOpen, ReadFails, Reject, ReadFirst, ReadNext, ProgramFails,
     ReadEnd, Jump, BootOnly, Image, Stored, All
<1>4. Harmless BY BlamePersists DEF Harmless
<1>5. CASE Erase
  <2>1. 0 < left /\ left \in Blocks /\ ~junk /\ 0 < file /\ mode = "boot"
    BY <1>5 DEF IInv, TypeOK, CopyOK, Erase, Boot
  <2>2. Stored BY <1>4, <2>1 DEF IInv, TypeOK, PartOK, Part, Stored
  <2>3. flash'[left] = "blank" BY <1>5, <2>1 DEF Erase, IInv, TypeOK
  <2>4. Image' = "none" BY <2>1, <2>3 DEF Image, All
  <2> QED BY <1>5, <2>2, <2>4 DEF Erase, BootOnly, Stored
<1>6. CASE Program
  <2>1. idx < file /\ idx + 1 \in Blocks /\ ~junk /\ 0 < file /\ mode = "boot" /\ Blanked(idx)
    BY <1>6 DEF IInv, TypeOK, CopyOK, Program, Boot
  <2>2. Stored BY <1>4, <2>1 DEF IInv, TypeOK, PartOK, Part, Stored
  <2>3. Image = "none" BY <2>1, BlankBlock DEF Blanked, IInv, TypeOK
  <2>4. flash'[idx + 1] # "old" BY <1>6, <2>1 DEF Program, IInv, TypeOK
  <2>5. Image' # "old" BY <2>1, <2>4 DEF Image, All
  <2>6. UNCHANGED Stored BY <1>6 DEF Program, BootOnly, Stored
  <2> QED BY <2>2, <2>3, <2>5, <2>6 DEF Image
<1>7. CASE Delete
  <2>1. flash' = flash /\ idx = file /\ mode = "boot" /\ (Copied \/ ~Harmless)
    BY <1>7 DEF Delete, Boot, IInv, CopyOK, Copying
  <2>2. CASE file = Packets
    <3>1. All("new") BY <1>4, <2>1, <2>2 DEF Copied, All
    <3> QED BY <3>1, <2>1 DEF Image, All
  <2>3. CASE file # Packets
    <3>1. Whole BY <1>4, <2>3 DEF IInv, Restartable
    <3> QED BY <2>1, <3>1, ImageOfWhole DEF Image, All
  <2> QED BY <2>2, <2>3
<1> QED BY <1>1, <1>2, <1>3, <1>5, <1>6, <1>7 DEF Next, Loader

\* An update keeps the promise of Firmware across resets and power failures:
\* without damage the device always has a program or the update it can be made of.
THEOREM UpdateImplemented == Spec => ImplementsFirmware
<1>1. Init => Abstract!Init
  BY DEF Init, Abstract!Init, All
<1>2. IInv /\ IInv' /\ [Next]_vars => [Abstract!Next]_(Abstract!vars)
  <2> SUFFICES ASSUME IInv, IInv', [Next]_vars PROVE [Abstract!Next]_(Abstract!vars)
      OBVIOUS
  <2>1. CASE ~Harmless'
    BY <2>1 DEF Harmless, Abstract!Next, Abstract!Harm
  <2>2. CASE Harmless'
    <3>1. Harmless BY <2>2, BlamePersists DEF Harmless
    <3>2. (blame \cap Harmful # {}) = FALSE /\ (blame \cap Harmful # {})' = FALSE
      BY <2>2, <3>1 DEF Harmless
    <3>3. Stored' \in BOOLEAN BY DEF Stored
    <3> QED BY <2>2, <3>2, <3>3, SafeStep DEF Abstract!Next, Abstract!Store, Abstract!Drop, Abstract!Begin,
                 Abstract!Finish, Abstract!vars, Image, Stored
  <2> QED BY <2>1, <2>2
<1> QED BY InvariantHolds, <1>1, <1>2, PTL DEF Spec, ImplementsFirmware, Abstract!Spec
=============================================================================
