-------------------------------- MODULE Assets --------------------------------
(***************************************************************************)
(* The assets of the app (assets.go, io.go): a geo data file that is       *)
(* extracted from the package and opened by whoever starts an instance,    *)
(* and the certificates.  The process may be killed between any two file   *)
(* operations, and starts again with the same or a newer package.          *)
(*                                                                         *)
(* The three assets are extracted one after the other by the same code; one *)
(* of them stands for all.  A file operation is one step and takes effect  *)
(* in order.  The contents of a file are what can be told apart: absent,   *)
(* cut off, still compressed, empty, or whole and of a version.            *)
(***************************************************************************)
EXTENDS Integers

CONSTANTS
    Readers,      \* goroutines that open the asset
    Main,         \* the goroutine of InitializeV2Ray
    MaxVersion,   \* bound on the packages installed
    Absent, Partial, Packed, Empty, None

ASSUME AssetsAssumption ==
    /\ MaxVersion \in Nat \ {0}
    /\ Main \notin Readers
    /\ \A c \in {Absent, Partial, Packed, Empty, None} : c \notin Nat
    /\ Absent \notin {Partial, Packed, Empty, None}
    /\ Empty \notin {Partial, Packed, None}

Versions == 1..MaxVersion
Procs == Readers \cup {Main}
Damaged == {Partial, Packed}

VARIABLES
    bundled,      \* version of the assets in the installed package
    asset,        \* dir + name
    version,      \* dir + version
    pem, sum,     \* mozilla_included.pem and its .sha256sum
    pc,           \* place of each goroutine
    gate,         \* assetsAccess is held
    extracted,    \* extracted[name]
    official,     \* useOfficialAssets
    roots,        \* certificates in use: None for the system's
    disableSystem,
    got,          \* what a reader opened
    excuse        \* history: what went wrong, see ReadsWhole

disk == <<bundled, asset, version, pem, sum>>
certs == <<pem, sum, roots, disableSystem>>
vars == <<bundled, asset, version, pem, sum, pc, gate, extracted, official,
          roots, disableSystem, got, excuse>>

\* Where the file of the asset is open for writing, or about to be replaced.
Extracting == {"copy", "unxz", "rename"}
Alone(p) == \A q \in Procs \ {p} : pc[q] \notin Extracting
Goto(p, label) == pc' = [pc EXCEPT ![p] = label]

TypeOK ==
    /\ bundled \in Versions
    /\ asset \in Versions \cup Damaged \cup {Absent}
    /\ version \in Versions \cup {Absent, Empty}
    /\ pem \in Versions \cup {Absent, Partial}
    /\ sum \in Versions \cup {Absent, Empty}
    /\ pc[Main] \in {"down", "start", "certs", "pemCreate", "pemCopy", "sumCreate",
                     "sumWrite", "roots", "up", "stat", "statAsset", "compare",
                     "create", "verCreate", "verWrite", "kept"} \cup Extracting
    /\ \A r \in Readers :
        pc[r] \in {"idle", "wait", "open", "reopen", "done", "failed", "stat", "statAsset",
                   "compare", "create", "verCreate", "verWrite", "kept"} \cup Extracting
    /\ gate \in BOOLEAN /\ extracted \in BOOLEAN /\ official \in BOOLEAN
    /\ roots \in Versions \cup {None, Partial}
    /\ disableSystem \in BOOLEAN
    /\ got \in [Readers -> Versions \cup Damaged \cup {None}]
    /\ excuse \subseteq {"misread", "overlap", "skip", "io", "bare", "own", "early"}

Init ==
    /\ bundled = 1
    /\ asset = Absent /\ version = Absent /\ pem = Absent /\ sum = Absent
    /\ pc = [p \in Procs |-> IF p = Main THEN "down" ELSE "idle"]
    /\ gate = FALSE /\ extracted = FALSE /\ official = FALSE
    /\ roots = None /\ disableSystem = FALSE
    /\ got = [r \in Readers |-> None]
    /\ excuse = {}

-------------------------------------------------------------------------------
(* The process starts, with the same or a newer package, and is killed.       *)

\* InitializeV2Ray: with skipExtract the gate is opened at once.
Start(skip) ==
    /\ pc[Main] = "down"
    /\ bundled' \in bundled..MaxVersion
    /\ Goto(Main, IF skip THEN "up" ELSE "start")
    /\ gate' = ~skip
    /\ excuse' = excuse
         \cup (IF skip THEN {"skip"} ELSE {})
         \cup (IF version = Absent /\ asset # Absent THEN {"bare"} ELSE {})
    /\ UNCHANGED <<asset, version, certs, extracted, official, got>>

\* What lasts is the disk; a file that could not be read, or was written by two, has
\* left its mark there.
Crash ==
    /\ pc[Main] # "down"
    /\ pc' = [p \in Procs |-> IF p = Main THEN "down" ELSE "idle"]
    /\ gate' = FALSE /\ extracted' = FALSE /\ official' = FALSE
    /\ roots' = None /\ disableSystem' = FALSE
    /\ got' = [r \in Readers |-> None]
    /\ excuse' = excuse \cap {"misread", "overlap"}
    /\ UNCHANGED disk

\* The goroutine asks the app whether it wants the official assets.
Begin ==
    /\ pc[Main] = "start"
    /\ official' \in BOOLEAN
    /\ excuse' = IF official' THEN excuse ELSE excuse \cup {"own"}
    /\ Goto(Main, "stat")
    /\ UNCHANGED <<disk, gate, extracted, roots, disableSystem, got>>

-------------------------------------------------------------------------------
(* extractAssetName(name, false) and extractAsset, by Main or by a reader.    *)

StatVersion(p) ==
    /\ pc[p] = "stat"
    /\ Goto(p, CASE version = Absent -> "statAsset"
                 [] version # Absent /\ official -> "compare"
                 [] OTHER -> "kept")
    /\ UNCHANGED <<disk, gate, extracted, official, roots, disableSystem, got, excuse>>

StatAsset(p) ==
    /\ pc[p] = "statAsset"
    /\ Goto(p, IF asset = Absent THEN "create" ELSE "kept")
    /\ UNCHANGED <<disk, gate, extracted, official, roots, disableSystem, got, excuse>>

\* Variant: only a version that can be parsed is compared.
CompareParsed(p) ==
    /\ pc[p] = "compare"
    /\ Goto(p, IF version \in Versions /\ bundled > version THEN "create" ELSE "kept")
    /\ UNCHANGED <<disk, gate, extracted, official, roots, disableSystem, got, excuse>>

\* A version that is not a number is taken for an old one.
Compare(p) ==
    /\ pc[p] = "compare"
    /\ Goto(p, IF version \in Versions /\ bundled <= version THEN "kept" ELSE "create")
    /\ UNCHANGED <<disk, gate, extracted, official, roots, disableSystem, got, excuse>>

\* The version file is there but cannot be read.
CompareFails(p) ==
    /\ pc[p] = "compare"
    /\ Goto(p, "create")
    /\ excuse' = excuse \cup {"misread"}
    /\ UNCHANGED <<disk, gate, extracted, official, roots, disableSystem, got>>

\* Variant: the version is written before the asset.
CreateAfterVersion(p) ==
    /\ pc[p] = "create"
    /\ asset' = Partial
    /\ version' = bundled
    /\ Goto(p, "copy")
    /\ UNCHANGED <<bundled, certs, gate, extracted, official, got, excuse>>

\* os.Create truncates.  A reader that decided to extract before another reader did
\* truncates what the other made.
Create(p) ==
    /\ pc[p] = "create"
    /\ asset' = Partial
    /\ excuse' = IF p \in Readers /\ asset # Absent THEN excuse \cup {"overlap"} ELSE excuse
    /\ Goto(p, "copy")
    /\ UNCHANGED <<bundled, version, certs, gate, extracted, official, got>>

\* Two that write the same file may spoil it.
Copy(p) ==
    /\ pc[p] = "copy"
    /\ asset' \in IF Alone(p) THEN {Packed} ELSE {Packed, Partial}
    /\ Goto(p, "unxz")
    /\ UNCHANGED <<bundled, version, certs, gate, extracted, official, got, excuse>>

\* Unxz into name.tmp, which fails on anything but a compressed file.
Unxz(p) ==
    /\ pc[p] = "unxz"
    /\ asset = Packed
    /\ Goto(p, "rename")
    /\ UNCHANGED <<disk, gate, extracted, official, roots, disableSystem, got, excuse>>

Rename(p) ==
    /\ pc[p] = "rename"
    /\ asset' \in IF Alone(p) THEN {bundled} ELSE {bundled, Partial}
    /\ Goto(p, "verCreate")
    /\ UNCHANGED <<bundled, version, certs, gate, extracted, official, got, excuse>>

VersionCreate(p) ==
    /\ pc[p] = "verCreate"
    /\ version' = Empty
    /\ Goto(p, "verWrite")
    /\ UNCHANGED <<bundled, asset, certs, gate, extracted, official, got, excuse>>

VersionWrite(p) ==
    /\ pc[p] = "verWrite"
    /\ version' = bundled
    /\ Goto(p, "kept")
    /\ UNCHANGED <<bundled, asset, certs, gate, extracted, official, got, excuse>>

\* One of the file operations fails, or the package cannot be read, and extractAssetName returns the error: Main logs
\* it and goes on, a reader gives up.
ExtractFails(p) ==
    /\ pc[p] \in {"compare", "create", "verCreate", "verWrite"} \cup Extracting
    /\ Goto(p, IF p = Main THEN "certs" ELSE "failed")
    /\ excuse' = excuse \cup {"io"}
    /\ UNCHANGED <<disk, gate, extracted, official, roots, disableSystem, got>>

Extract(p) ==
    \/ StatVersion(p) \/ StatAsset(p) \/ Compare(p) \/ CompareFails(p)
    \/ Create(p) \/ Copy(p) \/ Unxz(p) \/ Rename(p)
    \/ VersionCreate(p) \/ VersionWrite(p) \/ ExtractFails(p)

\* extract, in InitializeV2Ray.
Extracted ==
    /\ pc[Main] = "kept"
    /\ extracted' = TRUE
    /\ Goto(Main, "certs")
    /\ UNCHANGED <<disk, gate, official, roots, disableSystem, got, excuse>>

-------------------------------------------------------------------------------
(* extractRootCACertsPem, UpdateSystemRoots, and the gate.                    *)

SumCompare ==
    /\ pc[Main] = "certs"
    /\ Goto(Main, IF sum = bundled THEN "roots" ELSE "pemCreate")
    /\ UNCHANGED <<disk, gate, extracted, official, roots, disableSystem, got, excuse>>

SumReadFails ==
    /\ pc[Main] = "certs"
    /\ sum # Absent
    /\ Goto(Main, "pemCreate")
    /\ excuse' = excuse \cup {"misread"}
    /\ UNCHANGED <<disk, gate, extracted, official, roots, disableSystem, got>>

\* Variant: the sum is written before the certificates.
PemCreateAfterSum ==
    /\ pc[Main] = "pemCreate"
    /\ pem' = Partial
    /\ sum' = bundled
    /\ Goto(Main, "pemCopy")
    /\ UNCHANGED <<bundled, asset, version, gate, extracted, official, roots,
                   disableSystem, got, excuse>>

PemCreate ==
    /\ pc[Main] = "pemCreate"
    /\ pem' = Partial
    /\ Goto(Main, "pemCopy")
    /\ UNCHANGED <<bundled, asset, version, sum, gate, extracted, official, roots,
                   disableSystem, got, excuse>>

PemCopy ==
    /\ pc[Main] = "pemCopy"
    /\ pem' = bundled
    /\ Goto(Main, "sumCreate")
    /\ UNCHANGED <<bundled, asset, version, sum, gate, extracted, official, roots,
                   disableSystem, got, excuse>>

SumCreate ==
    /\ pc[Main] = "sumCreate"
    /\ sum' = Empty
    /\ Goto(Main, "sumWrite")
    /\ UNCHANGED <<bundled, asset, version, pem, gate, extracted, official, roots,
                   disableSystem, got, excuse>>

SumWrite ==
    /\ pc[Main] = "sumWrite"
    /\ sum' = bundled
    /\ Goto(Main, "roots")
    /\ UNCHANGED <<bundled, asset, version, pem, gate, extracted, official, roots,
                   disableSystem, got, excuse>>

\* The error is logged, the gate opened, and the roots stay.
CertsFail ==
    /\ pc[Main] \in {"certs", "pemCreate", "pemCopy", "sumCreate", "sumWrite"}
    /\ Goto(Main, "up")
    /\ gate' = FALSE
    /\ excuse' = excuse \cup {"io"}
    /\ UNCHANGED <<disk, extracted, official, roots, disableSystem, got>>

\* UpdateSystemRoots does nothing if the setting is in force; a pem that was cut off
\* is parsed as far as it goes.
UpdateSystemRoots(useSystem) ==
    IF disableSystem # useSystem
    THEN UNCHANGED <<roots, disableSystem>>
    ELSE /\ disableSystem' = ~disableSystem
         /\ roots' = CASE useSystem -> None
                       [] ~useSystem /\ pem = Absent -> roots
                       [] OTHER -> pem

LoadRoots ==
    /\ pc[Main] = "roots"
    /\ \E useSystem \in BOOLEAN : UpdateSystemRoots(useSystem)
    /\ gate' = FALSE
    /\ Goto(Main, "up")
    /\ UNCHANGED <<disk, extracted, official, got, excuse>>

\* The app changes the setting, at any time.
AppUpdatesRoots(useSystem) ==
    /\ pc[Main] # "down"
    /\ UpdateSystemRoots(useSystem)
    /\ excuse' = IF gate \/ "skip" \in excuse THEN excuse \cup {"early"} ELSE excuse
    /\ UNCHANGED <<disk, pc, gate, extracted, official, got>>

-------------------------------------------------------------------------------
(* filesystem.NewFileSeeker                                                   *)

CheckExtracted(r) ==
    /\ pc[r] = "idle"
    /\ pc[Main] # "down"
    /\ Goto(r, IF extracted THEN "open" ELSE "wait")
    /\ UNCHANGED <<disk, gate, extracted, official, roots, disableSystem, got, excuse>>

\* assetsAccess.Lock and Unlock.
PassGate(r) ==
    /\ pc[r] = "wait"
    /\ ~gate
    /\ Goto(r, "open")
    /\ UNCHANGED <<disk, gate, extracted, official, roots, disableSystem, got, excuse>>

\* The first Stat, and after an extraction the second.
Open(r) ==
    /\ pc[r] \in {"open", "reopen"}
    /\ asset # Absent
    /\ got' = [got EXCEPT ![r] = asset]
    /\ Goto(r, "done")
    /\ UNCHANGED <<disk, gate, extracted, official, roots, disableSystem, excuse>>

\* It is not in the package either: extractAssetName, once.
OpenMissing(r) ==
    /\ pc[r] \in {"open", "reopen"}
    /\ asset = Absent
    /\ Goto(r, IF pc[r] = "open" THEN "stat" ELSE "failed")
    /\ UNCHANGED <<disk, gate, extracted, official, roots, disableSystem, got, excuse>>

\* The package has the file as it is: it is read from there, and from now on no reader
\* waits at the gate.
OpenPackaged(r) ==
    /\ pc[r] = "open"
    /\ asset = Absent
    /\ got' = [got EXCEPT ![r] = bundled]
    /\ extracted' = TRUE
    /\ Goto(r, "done")
    /\ UNCHANGED <<disk, gate, official, roots, disableSystem, excuse>>

ReaderExtracted(r) ==
    /\ pc[r] = "kept"
    /\ Goto(r, "reopen")
    /\ UNCHANGED <<disk, gate, extracted, official, roots, disableSystem, got, excuse>>

-------------------------------------------------------------------------------
Next ==
    \/ \E skip \in BOOLEAN : Start(skip)
    \/ Crash \/ Begin
    \/ \E p \in Procs : Extract(p)
    \/ Extracted
    \/ SumCompare \/ SumReadFails \/ PemCreate \/ PemCopy \/ SumCreate \/ SumWrite
    \/ CertsFail \/ LoadRoots
    \/ \E useSystem \in BOOLEAN : AppUpdatesRoots(useSystem)
    \/ \E r \in Readers :
        \/ CheckExtracted(r) \/ PassGate(r) \/ Open(r) \/ OpenPackaged(r)
        \/ OpenMissing(r) \/ ReaderExtracted(r)

Spec == Init /\ [][Next]_vars

-------------------------------------------------------------------------------
(* Properties.                                                                *)

\* A version file tells the truth across kills: with a version in it, the asset is
\* whole and at least of that version, or the next start with the official assets
\* extracts it again, because the package is newer.  Exceptions are a version file
\* that could not be read once, and two readers that extracted at the same time.
VersionTells ==
    \/ excuse \cap {"misread", "overlap"} # {}
    \/ version \notin Versions
    \/ asset \in Versions /\ asset >= version
    \/ asset \in Damaged /\ bundled > version

\* A reader gets the asset of the installed package, whatever was interrupted in
\* earlier runs: it waits for the extraction and that repairs the file.  Exceptions
\* are skipExtract, a failing file operation, an asset without a version file, which
\* is never extracted again, and an app that has assets of its own.
ReadsWhole ==
    \A r \in Readers :
        got[r] = None \/ got[r] = bundled \/ excuse # {}

\* The certificates loaded when the process has started are those of the package and
\* never a part of them, unless the app asked for them during the extraction or a
\* file operation failed.
RootsWhole ==
    roots \in {None, bundled} \/ excuse \cap {"misread", "skip", "early", "io"} # {}
===============================================================================
