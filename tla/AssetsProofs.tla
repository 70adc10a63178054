----------------------------- MODULE AssetsProofs -----------------------------
(***************************************************************************)
(* Proofs about Assets: for any readers and any sequence of packages, a    *)
(* version file tells the truth about its asset, readers get what the      *)
(* package brings and so do the certificates, whenever the process is      *)
(* killed.                                                                 *)
(***************************************************************************)
EXTENDS Assets, TLAPS

-------------------------------------------------------------------------------
(* The inductive invariant.                                                    *)

\* Places of the goroutine of InitializeV2Ray before it is done with the asset.
MainBusy == {"start", "stat", "statAsset", "compare", "create", "verCreate",
             "verWrite", "kept"} \cup Extracting

\* Places at which a goroutine has created the asset and not finished.
Versioning == {"verCreate", "verWrite"}
Writing == Extracting \cup Versioning

\* The version file, if it is one, is older than the package.
Stale == version \notin Versions \/ bundled > version

\* No version file was misread, and no reader wrote over another.
Clean == excuse \cap {"misread", "overlap"} = {}

\* What the steps need to know of the types.
Typed ==
    /\ bundled \in Versions
    /\ asset \in Versions \cup Damaged \cup {Absent}
    /\ version \in Versions \cup {Absent, Empty}
    /\ DOMAIN pc = Procs
    /\ pc = [p \in Procs |-> pc[p]]

\* No reader passes the gate before the goroutine is done with the asset.
GateInv ==
    /\ pc[Main] = "down" => ~extracted /\ \A r \in Readers : pc[r] = "idle"
    /\ pc[Main] \in MainBusy => gate /\ ~extracted /\ \A r \in Readers : pc[r] \in {"idle", "wait"}

\* There is no version file without an asset, and whoever writes has created it.
AbsentInv ==
    /\ asset = Absent => version = Absent
    /\ \A p \in Procs : pc[p] \in Writing => asset # Absent

\* Whoever is between Create and Rename has a damaged asset and a stale version;
\* after Rename it has the package's.
WriteInv ==
    Clean =>
        /\ VersionTells
        /\ pc[Main] = "create" => Stale
        /\ \A p \in Procs :
            /\ pc[p] \in Extracting => asset \in Damaged /\ Stale
            /\ pc[p] \in Versioning => asset = bundled

\* One goroutine at a time is writing.
SoleInv ==
    Clean => \A p, q \in Procs : pc[p] \in Writing /\ pc[q] \in Writing => p = q

IInv == Typed /\ GateInv /\ AbsentInv /\ WriteInv /\ SoleInv

USE DEF Procs, Goto, Versions, Damaged, Extracting, Versioning, Writing, MainBusy

-------------------------------------------------------------------------------
\* The contents of a file that are no version differ from all versions.
LEMMA Distinct ==
    /\ 1 \in Versions
    /\ \A c \in {Absent, Partial, Packed, Empty} : c \notin Versions
    /\ Absent \notin Damaged /\ Empty \notin Damaged
  BY AssetsAssumption

LEMMA InitInv == Init => IInv
<1> SUFFICES ASSUME Init PROVE IInv
  OBVIOUS
<1>1. Typed
  BY Distinct DEF Init, Typed
<1>2. \A p \in Procs : pc[p] \in {"down", "idle"}
  BY DEF Init
<1>3. GateInv
  BY AssetsAssumption DEF Init, GateInv
<1>4. version \notin Versions /\ version = Absent
  BY Distinct DEF Init
<1> QED
  BY <1>1, <1>2, <1>3, <1>4 DEF IInv, AbsentInv, WriteInv, SoleInv, VersionTells

\* A step that leaves the package, the asset and its version alone and brings nobody
\* to a place of writing.
LEMMA Elsewhere ==
    ASSUME IInv, UNCHANGED <<bundled, asset, version>>, excuse \subseteq excuse',
           GateInv', Typed',
           \A p \in Procs : pc'[p] \in Writing => pc'[p] = pc[p],
           pc'[Main] = "create" => pc[Main] = "create"
    PROVE  IInv'
  BY DEF IInv, AbsentInv, WriteInv, SoleInv, VersionTells, Stale, Clean

LEMMA StartStep == ASSUME IInv, NEW skip \in BOOLEAN, Start(skip) PROVE IInv'
<1>1. bundled' \in Versions /\ bundled' >= bundled
  BY AssetsAssumption DEF IInv, Typed, Start
<1>2. Typed' /\ GateInv' /\ AbsentInv'
  BY <1>1, AssetsAssumption DEF IInv, Typed, GateInv, AbsentInv, Start
<1>3. \A p \in Procs : pc'[p] \notin Writing
  BY AssetsAssumption DEF IInv, Typed, GateInv, Start
<1>4. pc'[Main] # "create"
  BY AssetsAssumption DEF IInv, Typed, Start
<1>5. Clean' => Clean
  BY DEF Start, Clean
<1>6. VersionTells' \/ ~Clean'
  BY <1>1, <1>5, AssetsAssumption DEF IInv, Typed, WriteInv, VersionTells, Clean, Start
<1> QED
  BY <1>2, <1>3, <1>4, <1>6 DEF IInv, WriteInv, SoleInv, Clean

LEMMA CrashStep == ASSUME IInv, Crash PROVE IInv'
<1>1. Clean' => Clean
  BY DEF Crash, Clean
<1>2. Typed' /\ GateInv' /\ AbsentInv'
  BY AssetsAssumption DEF IInv, Typed, GateInv, AbsentInv, Crash, disk
<1>3. \A p \in Procs : pc'[p] \notin Writing /\ pc'[p] # "create"
  BY DEF Crash
<1>4. VersionTells' \/ ~Clean'
  BY <1>1 DEF IInv, WriteInv, VersionTells, Clean, Crash, disk
<1> QED
  BY <1>2, <1>3, <1>4, AssetsAssumption DEF IInv, WriteInv, SoleInv

LEMMA MainSteps ==
    ASSUME IInv,
           \/ Begin \/ Extracted \/ SumCompare \/ SumReadFails \/ PemCreate \/ PemCopy
           \/ SumCreate \/ SumWrite \/ CertsFail \/ LoadRoots
           \/ \E useSystem \in BOOLEAN : AppUpdatesRoots(useSystem)
    PROVE  IInv'
<1>1. UNCHANGED <<bundled, asset, version>> /\ excuse \subseteq excuse'
  BY DEF Begin, Extracted, SumCompare, SumReadFails, PemCreate, PemCopy, SumCreate,
     SumWrite, CertsFail, LoadRoots, AppUpdatesRoots, disk
<1>2. /\ Typed'
      /\ \A p \in Procs : pc'[p] \in Writing => pc'[p] = pc[p]
      /\ pc'[Main] = "create" => pc[Main] = "create"
  BY <1>1, AssetsAssumption DEF IInv, Typed, Begin, Extracted, SumCompare, SumReadFails,
     PemCreate, PemCopy, SumCreate, SumWrite, CertsFail, LoadRoots, AppUpdatesRoots
<1>3. GateInv'
  BY AssetsAssumption DEF IInv, Typed, GateInv, Begin, Extracted, SumCompare,
     SumReadFails, PemCreate, PemCopy, SumCreate, SumWrite, CertsFail, LoadRoots,
     AppUpdatesRoots
<1> QED
  BY <1>1, <1>2, <1>3, Elsewhere

LEMMA ReaderSteps ==
    ASSUME IInv, NEW r \in Readers,
           \/ CheckExtracted(r) \/ PassGate(r) \/ Open(r) \/ OpenPackaged(r)
           \/ OpenMissing(r) \/ ReaderExtracted(r)
    PROVE  IInv'
<1>1. UNCHANGED <<bundled, asset, version>> /\ excuse \subseteq excuse'
  BY DEF CheckExtracted, PassGate, Open, OpenPackaged, OpenMissing, ReaderExtracted, disk
<1>2. /\ Typed'
      /\ \A p \in Procs : pc'[p] \in Writing => pc'[p] = pc[p]
      /\ pc'[Main] = pc[Main]
  BY <1>1, AssetsAssumption DEF IInv, Typed, CheckExtracted, PassGate, Open, OpenPackaged, OpenMissing,
     ReaderExtracted
<1>3. GateInv'
  BY AssetsAssumption DEF IInv, Typed, GateInv, CheckExtracted, PassGate, Open,
     OpenPackaged, OpenMissing, ReaderExtracted
<1> QED
  BY <1>1, <1>2, <1>3, Elsewhere

-------------------------------------------------------------------------------
(* extractAssetName                                                            *)

\* A goroutine that extracts is Main at a busy place, or a reader while Main is not;
\* it stays that.
LEMMA ExtractGate == ASSUME IInv, NEW p \in Procs, Extract(p) PROVE GateInv'
<1>1. /\ gate' = gate /\ extracted' = extracted
      /\ pc[p] \in {"stat", "statAsset", "compare", "create", "verCreate", "verWrite"} \cup Extracting
      /\ \E l \in {"statAsset", "compare", "create", "kept", "verCreate", "verWrite",
                   "certs", "failed"} \cup Extracting : pc' = [pc EXCEPT ![p] = l]
  BY DEF Extract, StatVersion, StatAsset, Compare, CompareFails, Create, Copy, Unxz,
     Rename, VersionCreate, VersionWrite, ExtractFails
<1>2. CASE p = Main
  BY <1>1, <1>2, AssetsAssumption DEF IInv, Typed, GateInv
<1>3. CASE p \in Readers
  BY <1>1, <1>3, AssetsAssumption DEF IInv, Typed, GateInv
<1> QED
  BY <1>2, <1>3

\* Main alone is past the gate when it is busy.
LEMMA MainAlone ==
    ASSUME IInv, pc[Main] \in MainBusy, NEW q \in Procs, q # Main
    PROVE  pc[q] \notin Writing /\ pc[q] # "create"
  BY AssetsAssumption DEF IInv, GateInv

LEMMA DecideSteps ==
    ASSUME IInv, NEW p \in Procs,
           StatVersion(p) \/ StatAsset(p) \/ Compare(p) \/ CompareFails(p) \/ ExtractFails(p)
    PROVE  IInv'
<1>1. UNCHANGED <<bundled, asset, version>> /\ excuse \subseteq excuse'
  BY DEF StatVersion, StatAsset, Compare, CompareFails, ExtractFails, disk
<1>2. Typed' /\ \A q \in Procs : pc'[q] \in Writing => pc'[q] = pc[q]
  BY <1>1, AssetsAssumption DEF IInv, Typed, StatVersion, StatAsset, Compare, CompareFails, ExtractFails
<1>3. GateInv'
  BY ExtractGate DEF Extract
\* Main goes to "create" with an old version, one that is no number, or none.
<1>4. pc'[Main] = "create" /\ Clean' => Stale
  <2> SUFFICES ASSUME pc'[Main] = "create", Clean' PROVE Stale
    OBVIOUS
  <2>1. Clean
    BY <1>1 DEF Clean
  <2>2. CASE pc[Main] = "create"
    BY <2>1, <2>2 DEF IInv, WriteInv
  <2>3. CASE pc[Main] # "create" /\ StatAsset(p)
    BY <2>3, AssetsAssumption DEF IInv, Typed, AbsentInv, StatAsset, Stale
  <2>4. CASE pc[Main] # "create" /\ Compare(p)
    BY <2>4, AssetsAssumption DEF IInv, Typed, Compare, Stale
  <2>5. CASE CompareFails(p)
    BY <2>5 DEF CompareFails, Clean
  <2>6. CASE pc[Main] # "create" /\ (StatVersion(p) \/ ExtractFails(p))
    BY <2>6 DEF IInv, Typed, StatVersion, ExtractFails
  <2> QED
    BY <2>2, <2>3, <2>4, <2>5, <2>6
<1> QED
  BY <1>1, <1>2, <1>3, <1>4 DEF IInv, AbsentInv, WriteInv, SoleInv, VersionTells, Stale, Clean

\* Nobody else is writing when the asset is created, or two readers overlap.
LEMMA CreateStep == ASSUME IInv, NEW p \in Procs, Create(p) PROVE IInv'
<1>1. UNCHANGED <<bundled, version>> /\ asset' = Partial /\ pc' = [pc EXCEPT ![p] = "copy"]
  BY DEF Create
<1>2. Typed' /\ AbsentInv'
  BY <1>1, AssetsAssumption DEF IInv, Typed, AbsentInv
<1>3. GateInv'
  BY ExtractGate DEF Extract
<1>4. ASSUME Clean'
      PROVE  /\ Clean /\ Stale
             /\ \A q \in Procs : q # p => pc[q] \notin Writing /\ (q = Main => pc[q] # "create")
  <2>1. Clean
    BY <1>4 DEF Create, Clean
  <2>2. CASE p = Main
    BY <2>1, <2>2, MainAlone DEF IInv, WriteInv, Create
  <2>3. CASE p \in Readers
    <3>1. asset = Absent
      BY <1>4, <2>3 DEF Create, Clean
    <3>2. \A q \in Procs : pc[q] \notin Writing
      BY <3>1 DEF IInv, AbsentInv
    <3>3. pc[Main] # "create"
      BY <2>3, AssetsAssumption DEF IInv, GateInv, Create
    <3>4. Stale
      BY <3>1, AssetsAssumption DEF IInv, AbsentInv, Stale
    <3> QED
      BY <2>1, <3>2, <3>3, <3>4
  <2> QED
    BY <2>2, <2>3
<1>5. WriteInv' /\ SoleInv'
  BY <1>1, <1>4, AssetsAssumption DEF IInv, Typed, WriteInv, SoleInv, VersionTells, Stale, Clean
<1> QED
  BY <1>2, <1>3, <1>5 DEF IInv

LEMMA WriteSteps ==
    ASSUME IInv, NEW p \in Procs, Copy(p) \/ Unxz(p) \/ Rename(p)
    PROVE  IInv'
<1>1. UNCHANGED <<bundled, version, excuse>>
  BY DEF Copy, Unxz, Rename, disk
<1>2. Typed' /\ AbsentInv'
  BY <1>1, AssetsAssumption DEF IInv, Typed, AbsentInv, Copy, Unxz, Rename, disk
<1>3. GateInv'
  BY ExtractGate DEF Extract
<1>4. pc[p] \in Writing /\ \A q \in Procs : q # p => pc'[q] = pc[q]
  BY DEF IInv, Typed, Copy, Unxz, Rename
<1>5. SoleInv'
  BY <1>1, <1>4 DEF IInv, SoleInv, Clean
<1>7. ASSUME Clean PROVE Alone(p) /\ \A q \in Procs : q # p => pc[q] \notin Writing
  BY <1>4, <1>7 DEF IInv, SoleInv, Alone
<1>8. WriteInv'
  <2> SUFFICES ASSUME Clean' PROVE WriteInv'
    BY DEF WriteInv
  <2>1. Clean /\ Stale
    BY <1>1 DEF IInv, WriteInv, Clean, Copy, Unxz, Rename
  <2>2. CASE Copy(p)
    BY <1>1, <1>4, <1>7, <2>1, <2>2, AssetsAssumption
       DEF IInv, Typed, WriteInv, VersionTells, Stale, Clean, Copy
  <2>3. CASE Unxz(p)
    BY <1>1, <1>4, <1>7, <2>1, <2>3, AssetsAssumption
       DEF IInv, Typed, WriteInv, VersionTells, Stale, Clean, Unxz, disk
  <2>4. CASE Rename(p)
    BY <1>1, <1>4, <1>7, <2>1, <2>4, AssetsAssumption
       DEF IInv, Typed, WriteInv, VersionTells, Stale, Clean, Rename
  <2> QED
    BY <2>2, <2>3, <2>4
<1> QED
  BY <1>2, <1>3, <1>5, <1>8 DEF IInv

LEMMA VersionSteps ==
    ASSUME IInv, NEW p \in Procs, VersionCreate(p) \/ VersionWrite(p)
    PROVE  IInv'
<1>1. UNCHANGED <<bundled, asset, excuse>> /\ pc[p] \in Versioning
  BY DEF VersionCreate, VersionWrite
<1>2. Typed'
  BY <1>1, AssetsAssumption DEF IInv, Typed, VersionCreate, VersionWrite
<1>3. GateInv'
  BY ExtractGate DEF Extract
<1>4. \A q \in Procs : q # p => pc'[q] = pc[q]
  BY DEF IInv, Typed, VersionCreate, VersionWrite
<1>5. SoleInv'
  BY <1>1, <1>4 DEF IInv, Typed, SoleInv, Clean, VersionCreate, VersionWrite
<1>6. AbsentInv'
  BY <1>1, AssetsAssumption DEF IInv, Typed, WriteInv, AbsentInv, VersionCreate,
     VersionWrite
<1>7. WriteInv'
  <2> SUFFICES ASSUME Clean' PROVE WriteInv'
    BY DEF WriteInv
  <2>1. Clean
    BY <1>1 DEF Clean
  <2>2. asset = bundled /\ bundled \in Versions
    BY <1>1, <2>1 DEF IInv, Typed, WriteInv
  <2>3. VersionTells'
    BY <1>1, <2>2, AssetsAssumption DEF VersionTells, VersionCreate, VersionWrite
  <2>4. pc'[Main] # "create"
    BY <1>1, <1>4, MainAlone, AssetsAssumption DEF IInv, Typed, VersionCreate, VersionWrite
  <2>5. \A q \in Procs : q # p => pc'[q] \notin Writing
    BY <1>1, <1>4, <2>1 DEF IInv, SoleInv
  <2>6. pc'[p] \notin Extracting
    BY DEF IInv, Typed, VersionCreate, VersionWrite
  <2> QED
    BY <1>1, <2>2, <2>3, <2>4, <2>5, <2>6 DEF WriteInv
<1> QED
  BY <1>2, <1>3, <1>5, <1>6, <1>7 DEF IInv

-------------------------------------------------------------------------------
LEMMA StepInv == IInv /\ [Next]_vars => IInv'
<1> SUFFICES ASSUME IInv, [Next]_vars PROVE IInv'
  OBVIOUS
<1>1. CASE UNCHANGED vars
  BY <1>1 DEF vars, IInv, Typed, GateInv, AbsentInv, WriteInv, SoleInv, VersionTells,
     Stale, Clean
<1>2. ASSUME NEW p \in Procs, Extract(p) PROVE IInv'
  BY <1>2, DecideSteps, CreateStep, WriteSteps, VersionSteps DEF Extract
<1> QED
  BY <1>1, <1>2, StartStep, CrashStep, MainSteps, ReaderSteps DEF Next

\* However often the process is killed, and whatever packages are installed, a version
\* file never says more than its asset holds, unless the next start repairs it.
THEOREM VersionsTell == Spec => []VersionTells
<1>1. Init => IInv
  BY InitInv
<1>2. IInv /\ [Next]_vars => IInv'
  BY StepInv
<1>3. IInv => VersionTells
  BY DEF IInv, WriteInv, VersionTells, Clean
<1> QED
  BY <1>1, <1>2, <1>3, PTL DEF Spec
-------------------------------------------------------------------------------
(* Readers.  What is open to a reader is what Main left: with nothing gone wrong *)
(* it is the asset of the package.                                             *)

\* Places of Main between the extraction of the assets and the end of the start.
CertPlaces == {"certs", "pemCreate", "pemCopy", "sumCreate", "sumWrite", "roots"}
Settled == CertPlaces \cup {"up"}

\* Nothing on the disk is newer than the package.
OldInv ==
    /\ asset \in Versions => asset <= bundled
    /\ version \in Versions => version <= bundled

\* Readers have opened nothing before Main is past the asset.
BlindInv ==
    /\ got = [r \in Readers |-> got[r]]
    /\ pc[Main] \in {"down"} \cup MainBusy \cup Settled
    /\ pc[Main] \in MainBusy \cup {"down"} => \A r \in Readers : got[r] = None

\* A start that goes well finds an asset with a version or none at all, keeps only
\* one that is whole and the package's, and no reader has to extract it again.
FreshInv ==
    excuse = {} =>
        /\ pc[Main] \in {"start", "stat"} => version # Absent \/ asset = Absent
        /\ pc[Main] = "stat" => official
        /\ pc[Main] = "statAsset" => asset = Absent
        /\ pc[Main] \in Settled \cup {"kept"} => asset = bundled
        /\ pc[Main] \in Settled => \A r \in Readers : pc[r] \in {"idle", "wait", "open", "done"}
        /\ \A r \in Readers : got[r] \in {None, bundled}

ReadInv == OldInv /\ BlindInv /\ FreshInv

USE DEF CertPlaces, Settled

LEMMA ReadInit == Init => ReadInv
  BY Distinct, AssetsAssumption DEF Init, ReadInv, OldInv, BlindInv, FreshInv

\* The package is never older than what is on the disk.
LEMMA OldStep == ASSUME IInv, OldInv, Next PROVE OldInv'
<1> USE AssetsAssumption DEF IInv, Typed, OldInv
<1>1. ASSUME NEW skip \in BOOLEAN, Start(skip) PROVE OldInv'
  BY <1>1 DEF Start
<1>2. ASSUME UNCHANGED <<bundled, asset, version>> PROVE OldInv'
  BY <1>2
<1>3. ASSUME NEW p \in Procs, Extract(p) PROVE OldInv'
  <2>1. CASE Create(p) \/ Copy(p) \/ Rename(p)
    BY <2>1 DEF Create, Copy, Rename
  <2>2. CASE VersionCreate(p) \/ VersionWrite(p)
    BY <2>2 DEF VersionCreate, VersionWrite
  <2>3. CASE \/ StatVersion(p) \/ StatAsset(p) \/ Compare(p) \/ CompareFails(p)
             \/ Unxz(p) \/ ExtractFails(p)
    BY <1>2, <2>3 DEF StatVersion, StatAsset, Compare, CompareFails, Unxz, ExtractFails, disk
  <2> QED
    BY <1>3, <2>1, <2>2, <2>3 DEF Extract
<1>4. CASE \/ Crash \/ Begin \/ Extracted \/ SumCompare \/ SumReadFails \/ PemCreate
           \/ PemCopy \/ SumCreate \/ SumWrite \/ CertsFail \/ LoadRoots
           \/ \E useSystem \in BOOLEAN : AppUpdatesRoots(useSystem)
  BY <1>2, <1>4 DEF Crash, Begin, Extracted, SumCompare, SumReadFails, PemCreate,
     PemCopy, SumCreate, SumWrite, CertsFail, LoadRoots, AppUpdatesRoots, disk
<1>5. ASSUME NEW r \in Readers,
             \/ CheckExtracted(r) \/ PassGate(r) \/ Open(r) \/ OpenPackaged(r)
             \/ OpenMissing(r) \/ ReaderExtracted(r)
      PROVE  OldInv'
  BY <1>2, <1>5 DEF CheckExtracted, PassGate, Open, OpenPackaged, OpenMissing, ReaderExtracted, disk
<1> QED
  BY <1>1, <1>3, <1>4, <1>5 DEF Next

\* The goroutine is out of the extraction with nothing gone wrong only if the asset
\* is the package's.
LEMMA ReadMain ==
    ASSUME IInv, ReadInv, OldInv',
           \/ \E skip \in BOOLEAN : Start(skip)
           \/ Crash \/ Begin \/ Extracted
    PROVE  ReadInv'
<1> USE AssetsAssumption DEF IInv, Typed, GateInv, AbsentInv, ReadInv, BlindInv, FreshInv
<1>1. ASSUME NEW skip \in BOOLEAN, Start(skip) PROVE BlindInv' /\ FreshInv'
  BY <1>1 DEF Start
<1>2. CASE Crash
  BY <1>2 DEF Crash, disk
<1>3. CASE Begin
  BY <1>3 DEF Begin, disk
<1>4. CASE Extracted
  BY <1>4 DEF Extracted, disk
<1> QED
  BY <1>1, <1>2, <1>3, <1>4

LEMMA ReadCerts ==
    ASSUME IInv, ReadInv, OldInv',
           \/ SumCompare \/ SumReadFails \/ PemCreate \/ PemCopy \/ SumCreate \/ SumWrite
           \/ CertsFail \/ LoadRoots \/ \E useSystem \in BOOLEAN : AppUpdatesRoots(useSystem)
    PROVE  ReadInv'
<1>1. /\ UNCHANGED <<bundled, asset, version, official, got>> /\ excuse \subseteq excuse'
      /\ \A r \in Readers : pc'[r] = pc[r]
      /\ \/ pc'[Main] = pc[Main]
         \/ pc[Main] \in Settled /\ pc'[Main] \in Settled
  BY AssetsAssumption DEF IInv, Typed, SumCompare, SumReadFails, PemCreate, PemCopy,
     SumCreate, SumWrite, CertsFail, LoadRoots, AppUpdatesRoots, disk
<1> QED
  BY <1>1 DEF ReadInv, BlindInv, FreshInv

LEMMA ReadReaders ==
    ASSUME IInv, ReadInv, OldInv', NEW r \in Readers,
           \/ CheckExtracted(r) \/ PassGate(r) \/ Open(r) \/ OpenPackaged(r)
           \/ OpenMissing(r) \/ ReaderExtracted(r)
    PROVE  ReadInv'
<1> USE AssetsAssumption DEF IInv, Typed, GateInv, AbsentInv, ReadInv, BlindInv, FreshInv
<1>1. CASE CheckExtracted(r)
  BY <1>1 DEF CheckExtracted, disk
<1>2. CASE PassGate(r)
  BY <1>2 DEF PassGate, disk
<1>3. CASE Open(r)
  <2>1. pc[Main] \notin MainBusy \cup {"down"}
    BY <1>3 DEF Open
  <2> QED
    BY <1>3, <2>1 DEF Open, disk
<1>4. CASE OpenMissing(r)
  BY <1>4 DEF OpenMissing, disk
<1>6. CASE OpenPackaged(r)
  BY <1>6 DEF OpenPackaged, disk
<1>5. CASE ReaderExtracted(r)
  BY <1>5 DEF ReaderExtracted, disk
<1> QED
  BY <1>1, <1>2, <1>3, <1>4, <1>5, <1>6

\* With nothing gone wrong only Main extracts.
LEMMA ReadExtract == ASSUME IInv, ReadInv, OldInv', NEW p \in Procs, Extract(p) PROVE ReadInv'
<1> USE AssetsAssumption DEF IInv, Typed, GateInv, AbsentInv, ReadInv, BlindInv, FreshInv
<1>1. /\ UNCHANGED <<bundled, official, got>> /\ excuse \subseteq excuse'
      /\ pc[p] \in {"stat", "statAsset", "compare", "create", "verCreate", "verWrite"} \cup Extracting
      /\ \E l \in {"statAsset", "compare", "create", "kept", "verCreate", "verWrite"}
                  \cup Extracting \cup {IF p = Main THEN "certs" ELSE "failed"} :
            pc' = [pc EXCEPT ![p] = l]
  BY DEF Extract, StatVersion, StatAsset, Compare, CompareFails, Create, Copy, Unxz,
     Rename, VersionCreate, VersionWrite, ExtractFails, disk
<1>2. BlindInv'
  BY <1>1
<1>3. CASE p \in Readers
  <2>1. excuse # {} /\ excuse' # {}
    BY <1>1, <1>3
  <2> QED
    BY <1>2, <2>1
<1>4. CASE p = Main /\ excuse' = {}
  <2>1. excuse = {} /\ Clean /\ \A r \in Readers : got[r] = None
    BY <1>1, <1>4 DEF Clean
  <2>2. official \/ pc[Main] # "stat"
    BY <2>1
  <2>3. /\ pc'[Main] \notin Settled \cup {"start", "stat"}
        /\ pc'[Main] = "statAsset" => asset' = Absent
        /\ pc'[Main] = "kept" => asset' = bundled'
    <3>1. CASE StatVersion(p)
      BY <1>4, <2>1, <2>2, <3>1 DEF StatVersion, disk
    <3>2. CASE StatAsset(p)
      BY <1>4, <2>1, <3>2 DEF StatAsset, disk
    <3>3. CASE Compare(p)
      <4>1. CASE pc'[Main] = "kept"
        <5>1. version \in Versions /\ bundled <= version
          BY <1>4, <3>3, <4>1 DEF Compare
        <5>2. asset \in Versions /\ asset >= version
          BY <2>1, <5>1 DEF WriteInv, VersionTells, Clean
        <5> QED
          BY <1>4, <3>3, <4>1, <5>1, <5>2 DEF Compare, OldInv, disk
      <4> QED
        BY <1>4, <3>3, <4>1 DEF Compare
    <3>4. CASE CompareFails(p) \/ ExtractFails(p)
      BY <1>4, <3>4 DEF CompareFails, ExtractFails
    <3>5. CASE Create(p) \/ Copy(p) \/ Unxz(p) \/ Rename(p) \/ VersionCreate(p)
      BY <1>4, <3>5 DEF Create, Copy, Unxz, Rename, VersionCreate
    <3>6. CASE VersionWrite(p)
      BY <1>4, <2>1, <3>6 DEF VersionWrite, WriteInv
    <3> QED
      BY <3>1, <3>2, <3>3, <3>4, <3>5, <3>6 DEF Extract
  <2> QED
    BY <1>1, <1>2, <1>4, <2>1, <2>3
<1>5. CASE excuse' # {}
  BY <1>2, <1>5
<1> QED
  BY <1>3, <1>4, <1>5

LEMMA ReadStep == IInv /\ ReadInv /\ [Next]_vars => ReadInv'
<1> SUFFICES ASSUME IInv, ReadInv, [Next]_vars PROVE ReadInv'
  OBVIOUS
<1>1. CASE UNCHANGED vars
  BY <1>1 DEF vars, ReadInv, OldInv, BlindInv, FreshInv
<1>2. CASE Next
  <2>1. OldInv'
    BY <1>2, OldStep DEF ReadInv
  <2> QED
    BY <1>2, <2>1, ReadMain, ReadCerts, ReadReaders, ReadExtract DEF Next
<1> QED
  BY <1>1, <1>2

\* Whatever was interrupted in earlier runs, a reader opens the asset of the installed
\* package, for any number of readers, unless one of the named things went wrong.
THEOREM ReadersGetTheAsset == Spec => []ReadsWhole
<1>1. Init => IInv /\ ReadInv
  BY InitInv, ReadInit
<1>2. IInv /\ ReadInv /\ [Next]_vars => IInv' /\ ReadInv'
  BY StepInv, ReadStep
<1>3. ReadInv => ReadsWhole
  BY DEF ReadInv, FreshInv, ReadsWhole
<1> QED
  BY <1>1, <1>2, <1>3, PTL DEF Spec

-------------------------------------------------------------------------------
(* Certificates.  The sum is written last, so a sum that is the package's means *)
(* a pem that is; the roots are read from it behind the gate.                  *)

\* What only the certificates need to know of the types.
SumInv ==
    /\ sum \in Versions \cup {Absent, Empty}
    /\ sum \in Versions => sum <= bundled

CertInv ==
    /\ pc[Main] \in CertPlaces => gate
    /\ pc[Main] = "down" => roots = None
    /\ pc[Main] \in {"sumCreate", "sumWrite"} => pem = bundled
    /\ "misread" \notin excuse =>
        /\ sum = bundled => pem = bundled
        /\ pc[Main] \in {"pemCreate", "pemCopy"} => sum # bundled

\* With nothing gone wrong the roots are untouched until they are loaded.
LoadInv ==
    excuse \cap {"misread", "skip", "early", "io"} = {} =>
        /\ pc[Main] \in MainBusy \cup CertPlaces => roots = None
        /\ pc[Main] \in {"roots", "up"} => pem = bundled
        /\ roots \in {None, bundled}

RootInv == SumInv /\ CertInv /\ LoadInv

LEMMA RootInit == Init => RootInv
  BY Distinct, AssetsAssumption DEF Init, RootInv, SumInv, CertInv, LoadInv

LEMMA RootStart ==
    ASSUME IInv, ReadInv, RootInv,
           (\E skip \in BOOLEAN : Start(skip)) \/ Crash \/ Begin \/ Extracted
    PROVE  RootInv'
<1> USE AssetsAssumption DEF IInv, Typed, GateInv, RootInv, SumInv, CertInv, LoadInv
<1>1. ASSUME NEW skip \in BOOLEAN, Start(skip) PROVE RootInv'
  BY <1>1 DEF Start, certs
<1>2. CASE Crash
  BY <1>2 DEF Crash, disk
<1>3. CASE Begin
  BY <1>3 DEF Begin, disk
<1>4. CASE Extracted
  BY <1>4 DEF Extracted, disk
<1> QED
  BY <1>1, <1>2, <1>3, <1>4

\* extractRootCACertsPem
LEMMA RootWrite ==
    ASSUME IInv, ReadInv, RootInv,
           \/ SumCompare \/ SumReadFails \/ PemCreate \/ PemCopy \/ SumCreate \/ SumWrite
           \/ CertsFail
    PROVE  RootInv'
<1> USE AssetsAssumption, Distinct
    DEF IInv, Typed, RootInv, SumInv, CertInv, LoadInv
<1>1. CASE SumCompare
  BY <1>1 DEF SumCompare, disk
<1>2. CASE SumReadFails
  BY <1>2 DEF SumReadFails, disk
<1>3. CASE PemCreate
  BY <1>3 DEF PemCreate
<1>4. CASE PemCopy
  BY <1>4 DEF PemCopy
<1>5. CASE SumCreate
  BY <1>5 DEF SumCreate
<1>6. CASE SumWrite
  BY <1>6 DEF SumWrite
<1>7. CASE CertsFail
  BY <1>7 DEF CertsFail, disk
<1> QED
  BY <1>1, <1>2, <1>3, <1>4, <1>5, <1>6, <1>7

\* UpdateSystemRoots leaves the roots, drops them, or reads the pem.
LEMMA RootUpdate ==
    ASSUME IInv, ReadInv, RootInv,
           LoadRoots \/ \E useSystem \in BOOLEAN : AppUpdatesRoots(useSystem)
    PROVE  RootInv'
<1> USE AssetsAssumption DEF IInv, Typed, GateInv, RootInv, SumInv, CertInv, LoadInv
<1>1. ASSUME NEW useSystem \in BOOLEAN, UpdateSystemRoots(useSystem)
      PROVE  roots' \in {None, roots, pem}
  <2>1. CASE disableSystem # useSystem
    BY <1>1, <2>1 DEF UpdateSystemRoots
  <2>2. CASE disableSystem = useSystem /\ useSystem
    BY <1>1, <2>2 DEF UpdateSystemRoots
  <2>3. CASE disableSystem = useSystem /\ ~useSystem
    BY <1>1, <2>3 DEF UpdateSystemRoots
  <2> QED
    BY <2>1, <2>2, <2>3
<1>2. CASE LoadRoots
  <2>1. roots' \in {None, roots, pem}
    BY <1>1, <1>2 DEF LoadRoots
  <2> QED
    BY <1>2, <2>1 DEF LoadRoots, disk
<1>3. ASSUME NEW useSystem \in BOOLEAN, AppUpdatesRoots(useSystem) PROVE RootInv'
  <2>1. roots' \in {None, roots, pem}
    BY <1>1, <1>3 DEF AppUpdatesRoots
  <2>2. UNCHANGED <<disk, pc, gate>> /\ excuse \subseteq excuse'
    BY <1>3 DEF AppUpdatesRoots
  <2>3. "early" \in excuse' \/ (~gate /\ "skip" \notin excuse)
    BY <1>3 DEF AppUpdatesRoots
  <2> QED
    BY <1>3, <2>1, <2>2, <2>3 DEF AppUpdatesRoots, disk, ReadInv, BlindInv
<1> QED
  BY <1>2, <1>3

\* What the others do to the asset leaves the certificates alone.
LEMMA RootElsewhere ==
    ASSUME IInv, ReadInv, RootInv,
           \/ \E p \in Procs : Extract(p)
           \/ \E r \in Readers : \/ CheckExtracted(r) \/ PassGate(r) \/ Open(r)
                                 \/ OpenPackaged(r) \/ OpenMissing(r) \/ ReaderExtracted(r)
    PROVE  RootInv'
<1>1. ASSUME NEW p \in Procs, Extract(p)
      PROVE  /\ UNCHANGED <<bundled, pem, sum, roots, gate>>
             /\ excuse \subseteq excuse'
             /\ excuse' \subseteq excuse \cup {"misread", "io", "overlap"}
             /\ pc[p] \notin CertPlaces \cup {"up", "down"}
             /\ \E l \in {"statAsset", "compare", "create", "kept", "verCreate", "verWrite",
                          "failed"} \cup Extracting
                         \cup IF "io" \in excuse' THEN {"certs"} ELSE {} :
                  pc' = [pc EXCEPT ![p] = l]
  BY <1>1 DEF Extract, StatVersion, StatAsset, Compare, CompareFails, Create, Copy, Unxz,
     Rename, VersionCreate, VersionWrite, ExtractFails, disk, certs
<1>2. ASSUME UNCHANGED <<bundled, pem, sum, roots, gate>>, excuse \subseteq excuse',
             pc'[Main] = pc[Main]
      PROVE  RootInv'
  BY <1>2 DEF RootInv, SumInv, CertInv, LoadInv
<1>3. ASSUME Extract(Main) PROVE RootInv'
  <2>1. pc[Main] \in MainBusy /\ gate
    BY <1>1, <1>3, AssetsAssumption DEF IInv, GateInv, ReadInv, BlindInv
  <2>2. pc'[Main] \in MainBusy \/ pc'[Main] = "failed" \/ (pc'[Main] = "certs" /\ "io" \in excuse')
    BY <1>1, <1>3 DEF IInv, Typed
  <2> QED
    BY <1>1, <1>3, <2>1, <2>2 DEF RootInv, SumInv, CertInv, LoadInv
<1>4. ASSUME NEW r \in Readers, Extract(r) PROVE RootInv'
  <2>1. pc'[Main] = pc[Main]
    BY <1>1, <1>4, AssetsAssumption DEF IInv, Typed
  <2> QED
    BY <1>1, <1>2, <1>4, <2>1
<1>5. ASSUME NEW r \in Readers,
             \/ CheckExtracted(r) \/ PassGate(r) \/ Open(r) \/ OpenPackaged(r)
             \/ OpenMissing(r) \/ ReaderExtracted(r)
      PROVE  RootInv'
  <2>1. pc'[Main] = pc[Main]
    BY <1>5, AssetsAssumption DEF IInv, Typed, CheckExtracted, PassGate, Open, OpenPackaged, OpenMissing,
       ReaderExtracted
  <2> QED
    BY <1>2, <1>5, <2>1 DEF CheckExtracted, PassGate, Open, OpenPackaged, OpenMissing, ReaderExtracted, disk
<1> QED
  BY <1>3, <1>4, <1>5

LEMMA RootStep == IInv /\ ReadInv /\ RootInv /\ [Next]_vars => RootInv'
<1> SUFFICES ASSUME IInv, ReadInv, RootInv, [Next]_vars PROVE RootInv'
  OBVIOUS
<1>1. CASE UNCHANGED vars
  BY <1>1 DEF vars, RootInv, SumInv, CertInv, LoadInv
<1>2. CASE Next
  BY <1>2, RootStart, RootWrite, RootUpdate, RootElsewhere DEF Next
<1> QED
  BY <1>1, <1>2

\* However often the process is killed while it writes the certificates, those it loads
\* at the next start are the package's and whole, or one of the named things went wrong.
THEOREM RootsAreWhole == Spec => []RootsWhole
<1>1. Init => IInv /\ ReadInv /\ RootInv
  BY InitInv, ReadInit, RootInit
<1>2. IInv /\ ReadInv /\ RootInv /\ [Next]_vars => IInv' /\ ReadInv' /\ RootInv'
  BY StepInv, ReadStep, RootStep
<1>3. RootInv => RootsWhole
  BY DEF RootInv, LoadInv, RootsWhole
<1> QED
  BY <1>1, <1>2, <1>3, PTL DEF Spec

-------------------------------------------------------------------------------
(* Type correctness.                                                          *)

ExtractPlaces == {"stat", "statAsset", "compare", "create", "verCreate", "verWrite", "kept"}
                     \cup Extracting
MainPlaces == {"down", "start", "certs", "pemCreate", "pemCopy", "sumCreate", "sumWrite",
               "roots", "up"} \cup ExtractPlaces
ReaderPlaces == {"idle", "wait", "open", "reopen", "done", "failed"} \cup ExtractPlaces

\* TypeOK, with the domain of pc, which it leaves out.
FullType ==
    /\ TypeOK
    /\ DOMAIN pc = Procs
    /\ pc = [p \in Procs |-> pc[p]]

\* The places of the goroutines alone.
PlacesOK ==
    /\ DOMAIN pc = Procs
    /\ pc = [p \in Procs |-> pc[p]]
    /\ pc[Main] \in MainPlaces
    /\ \A r \in Readers : pc[r] \in ReaderPlaces

\* The files, and what was read from them.
FilesOK ==
    /\ bundled \in Versions
    /\ asset \in Versions \cup Damaged \cup {Absent}
    /\ version \in Versions \cup {Absent, Empty}
    /\ pem \in Versions \cup {Absent, Partial}
    /\ sum \in Versions \cup {Absent, Empty}
    /\ roots \in Versions \cup {None, Partial}
    /\ got \in [Readers -> Versions \cup Damaged \cup {None}]
    /\ excuse \subseteq {"misread", "overlap", "skip", "io", "bare", "own", "early"}

FlagsOK ==
    /\ gate \in BOOLEAN /\ extracted \in BOOLEAN /\ official \in BOOLEAN
    /\ disableSystem \in BOOLEAN

LEMMA TypeParts == FullType <=> PlacesOK /\ FilesOK /\ FlagsOK
  BY DEF FullType, TypeOK, PlacesOK, FilesOK, FlagsOK, MainPlaces, ReaderPlaces,
     ExtractPlaces, Extracting

\* One goroutine goes to another place.
LEMMA GoneTo ==
    ASSUME PlacesOK, NEW p \in Procs, NEW l, Goto(p, l),
           p = Main => l \in MainPlaces, p \in Readers => l \in ReaderPlaces
    PROVE  PlacesOK'
  BY AssetsAssumption DEF PlacesOK, Goto, Procs

LEMMA ExtractPlacesStep ==
    ASSUME PlacesOK, NEW p \in Procs, Extract(p)
    PROVE  PlacesOK'
<1>1. PICK l \in ExtractPlaces \cup {"certs", "failed"} :
          /\ Goto(p, l)
          /\ l = "certs" => p = Main
          /\ l = "failed" => p # Main
  <2>. USE DEF ExtractPlaces, Extracting
  <2>1. CASE StatVersion(p) \/ StatAsset(p) \/ Compare(p) \/ CompareFails(p)
    BY <2>1 DEF StatVersion, StatAsset, Compare, CompareFails
  <2>2. CASE Create(p) \/ Copy(p) \/ Unxz(p) \/ Rename(p)
    BY <2>2 DEF Create, Copy, Unxz, Rename
  <2>3. CASE VersionCreate(p) \/ VersionWrite(p) \/ ExtractFails(p)
    BY <2>3 DEF VersionCreate, VersionWrite, ExtractFails
  <2>. QED
    BY <2>1, <2>2, <2>3 DEF Extract
<1>. QED
  BY <1>1, GoneTo, AssetsAssumption DEF MainPlaces, ReaderPlaces, Procs

LEMMA PlacesStep == PlacesOK /\ [Next]_vars => PlacesOK'
<1>. SUFFICES ASSUME PlacesOK, [Next]_vars PROVE PlacesOK'
  OBVIOUS
<1>0. Main \in Procs /\ Main \notin Readers
  BY AssetsAssumption DEF Procs
<1>1. ASSUME UNCHANGED pc PROVE PlacesOK'
  BY <1>1 DEF PlacesOK
<1>2. ASSUME NEW l \in MainPlaces, Goto(Main, l) PROVE PlacesOK'
  BY <1>0, <1>2, GoneTo
<1>3. ASSUME NEW r \in Readers, NEW l \in ReaderPlaces, Goto(r, l) PROVE PlacesOK'
  BY <1>0, <1>3, GoneTo DEF Procs
<1>4. CASE Crash
  BY <1>0, <1>4 DEF Crash, PlacesOK, Procs, MainPlaces, ReaderPlaces
<1>5. CASE (\E skip \in BOOLEAN : Start(skip)) \/ Begin \/ Extracted
  BY <1>2, <1>5 DEF Start, Begin, Extracted, MainPlaces, ExtractPlaces
<1>6. CASE SumCompare \/ SumReadFails \/ PemCreate \/ PemCopy
  BY <1>2, <1>6 DEF SumCompare, SumReadFails, PemCreate, PemCopy, MainPlaces
<1>7. CASE SumCreate \/ SumWrite \/ CertsFail \/ LoadRoots
  BY <1>2, <1>7 DEF SumCreate, SumWrite, CertsFail, LoadRoots, MainPlaces
<1>8. ASSUME NEW r \in Readers,
             \/ CheckExtracted(r) \/ PassGate(r) \/ Open(r) \/ OpenPackaged(r)
             \/ OpenMissing(r) \/ ReaderExtracted(r)
      PROVE  PlacesOK'
  BY <1>3, <1>8 DEF CheckExtracted, PassGate, Open, OpenPackaged, OpenMissing, ReaderExtracted,
     ReaderPlaces, ExtractPlaces
<1>. QED
  BY <1>1, <1>4, <1>5, <1>6, <1>7, <1>8, ExtractPlacesStep DEF Next, vars, AppUpdatesRoots

\* Every file operation leaves a version, a part, or nothing.
LEMMA FilesStep == FilesOK /\ [Next]_vars => FilesOK'
<1>. SUFFICES ASSUME FilesOK, [Next]_vars PROVE FilesOK'
  OBVIOUS
<1>. USE AssetsAssumption DEF FilesOK, Versions, Damaged, disk, certs
<1>1. CASE UNCHANGED vars
  BY <1>1 DEF vars
<1>2. ASSUME NEW p \in Procs, Extract(p) PROVE FilesOK'
  <2>1. CASE StatVersion(p) \/ StatAsset(p) \/ Compare(p) \/ CompareFails(p)
    BY <2>1 DEF StatVersion, StatAsset, Compare, CompareFails
  <2>2. CASE Create(p) \/ Copy(p)
    BY <2>2 DEF Create, Copy
  <2>3. CASE Unxz(p) \/ Rename(p)
    BY <2>3 DEF Unxz, Rename
  <2>4. CASE VersionCreate(p) \/ VersionWrite(p) \/ ExtractFails(p)
    BY <2>4 DEF VersionCreate, VersionWrite, ExtractFails
  <2>. QED
    BY <1>2, <2>1, <2>2, <2>3, <2>4 DEF Extract
<1>3. ASSUME NEW skip \in BOOLEAN, Start(skip) PROVE FilesOK'
  BY <1>3 DEF Start
<1>4. CASE Crash \/ Begin \/ Extracted
  BY <1>4 DEF Crash, Begin, Extracted
<1>5. CASE SumCompare \/ SumReadFails \/ PemCreate \/ PemCopy
  BY <1>5 DEF SumCompare, SumReadFails, PemCreate, PemCopy
<1>6. CASE SumCreate \/ SumWrite \/ CertsFail
  BY <1>6 DEF SumCreate, SumWrite, CertsFail
<1>7. ASSUME NEW useSystem \in BOOLEAN, UpdateSystemRoots(useSystem)
      PROVE  roots' \in Versions \cup {None, Partial}
  BY <1>7 DEF UpdateSystemRoots
<1>8. CASE LoadRoots
  BY <1>7, <1>8 DEF LoadRoots
<1>9. ASSUME NEW useSystem \in BOOLEAN, AppUpdatesRoots(useSystem) PROVE FilesOK'
  BY <1>7, <1>9 DEF AppUpdatesRoots
<1>10. ASSUME NEW r \in Readers,
             \/ CheckExtracted(r) \/ PassGate(r) \/ Open(r) \/ OpenPackaged(r)
             \/ OpenMissing(r) \/ ReaderExtracted(r)
      PROVE  FilesOK'
  BY <1>10 DEF CheckExtracted, PassGate, Open, OpenPackaged, OpenMissing, ReaderExtracted
<1>. QED
  BY <1>1, <1>2, <1>3, <1>4, <1>5, <1>6, <1>8, <1>9, <1>10 DEF Next

LEMMA FlagsStep == FlagsOK /\ [Next]_vars => FlagsOK'
  BY Zenon DEF FlagsOK, Next, vars, disk, certs, Start, Crash, Begin, Extract, StatVersion,
     StatAsset, Compare, CompareFails, Create, Copy, Unxz, Rename, VersionCreate,
     VersionWrite, ExtractFails, Extracted, SumCompare, SumReadFails, PemCreate, PemCopy,
     SumCreate, SumWrite, CertsFail, UpdateSystemRoots, LoadRoots, AppUpdatesRoots,
     CheckExtracted, PassGate, Open, OpenPackaged, OpenMissing, ReaderExtracted

\* Whatever is interrupted, files and goroutines are in a state their types name: a file
\* holds a version, a part or nothing.
THEOREM TypeCorrect == Spec => []TypeOK
<1>1. Init => FullType
  <2>. SUFFICES ASSUME Init PROVE FullType
    OBVIOUS
  <2>1. PlacesOK
    BY AssetsAssumption DEF Init, PlacesOK, Procs, MainPlaces, ReaderPlaces
  <2>2. FilesOK
    BY AssetsAssumption DEF Init, FilesOK, Versions
  <2>3. FlagsOK
    BY DEF Init, FlagsOK
  <2>. QED
    BY <2>1, <2>2, <2>3, TypeParts
<1>2. FullType /\ [Next]_vars => FullType'
  <2>1. FullType /\ [Next]_vars => (PlacesOK /\ FilesOK /\ FlagsOK)'
    BY TypeParts, PlacesStep, FilesStep, FlagsStep
  <2>. QED
    BY <2>1, TypeParts, PTL
<1>3. FullType => TypeOK
  BY DEF FullType
<1>. QED
  BY <1>1, <1>2, <1>3, PTL DEF Spec
===============================================================================
