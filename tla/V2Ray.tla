-------------------------------- MODULE V2Ray --------------------------------
(***************************************************************************)
(* The V2RayInstance (v2ray.go): LoadConfig, Start and Close, called by    *)
(* one thread of the app that calls no two of them at a time, and the      *)
(* dials of the connections, which test started and then use the fields    *)
(* of the instance from goroutines of their own, without a lock.           *)
(*                                                                         *)
(* A core is named by the number of the core.New that made it; 0 is nil.   *)
(***************************************************************************)
EXTENDS Naturals

CONSTANTS
    MaxCores,   \* bound on the calls of core.New
    Dials       \* goroutines that dial through the instance

ASSUME V2RayAssumption == MaxCores \in Nat

VARIABLES
    ctl,          \* the step of the controlling thread
    core,         \* V2RayInstance.core
    features,     \* the core its dispatcher, dnsClient, ... come from
    started,      \* V2RayInstance.started
    made,         \* number of cores made
    coreState,    \* what has become of each core
    dial,         \* each dialing goroutine
    overwritten,  \* history: cores that LoadConfig replaced in the instance
    irregular     \* history: LoadConfig on a started instance, or a failed Close

fields == <<core, features, started>>
coreVars == <<made, coreState>>
history == <<overwritten, irregular>>
v2rayVars == <<ctl, fields, coreVars, dial, history>>

Cores == 1 .. MaxCores

\* A goroutine at rest.  "ctx" is the core it put in the context, "via" the one
\* whose dispatcher it used, "live" whether that one ran and "odd" whether the
\* instance was irregular then; "disturbed" says the fields changed meanwhile.
NoDial == [pc |-> "idle", ctx |-> 0, via |-> 0, live |-> FALSE,
           odd |-> FALSE, disturbed |-> FALSE]

V2RayInit ==
    /\ ctl = "idle"
    /\ core = 0
    /\ features = 0
    /\ started = FALSE
    /\ made = 0
    /\ coreState = [c \in Cores |-> "none"]
    /\ dial = [d \in Dials |-> NoDial]
    /\ overwritten = {}
    /\ irregular = FALSE

\* Dials in flight notice that the fields are changed under them.
Disturb ==
    dial' = [d \in Dials |-> IF dial[d].pc \in {"checked", "dispatch"}
                             THEN [dial[d] EXCEPT !.disturbed = TRUE] ELSE dial[d]]

\* The call of a method on a nil interface ends the process.
DialPanicked == \E d \in Dials : dial[d].pc = "panic"

-------------------------------------------------------------------------------
(* LoadConfig.  Every error returns and leaves the instance as it is.         *)

\* The JSON is read, or it names geo data that is not there (yet).
LoadParse ==
    /\ ctl = "idle"
    /\ made < MaxCores
    /\ ctl' \in {"new", "extract"}
    /\ UNCHANGED <<fields, coreVars, dial, history>>

\* extractAssetName, then the JSON once more.
LoadExtract ==
    /\ ctl = "extract"
    /\ ctl' \in {"new", "idle"}
    /\ UNCHANGED <<fields, coreVars, dial, history>>

\* core.New, after the alterIds of VMess accounts are cleared.
LoadNew ==
    /\ ctl = "new"
    /\ made' = made + 1
    /\ \E ok \in BOOLEAN :
        /\ coreState' = [coreState EXCEPT ![made + 1] = IF ok THEN "made" ELSE "none"]
        /\ ctl' = IF ok THEN "assign" ELSE "idle"
    /\ UNCHANGED <<fields, dial, history>>

\* instance.core = c: nothing asks whether the instance is started.
AssignCore ==
    /\ ctl = "assign"
    /\ core' = made
    /\ overwritten' = overwritten \cup ({core} \ {0})
    /\ irregular' = (irregular \/ started)
    /\ Disturb
    /\ ctl' = "features"
    /\ UNCHANGED <<features, started, coreVars>>

AssignFeatures ==
    /\ ctl = "features"
    /\ features' = made
    /\ Disturb
    /\ ctl' = "idle"
    /\ UNCHANGED <<core, started, coreVars, history>>

-------------------------------------------------------------------------------
(* Start and Close.  "already started", "not initialized" and the Close of an *)
(* instance that is not started change nothing.                               *)

\* core.Start: an error leaves the features started so far as they are.
StartCore ==
    /\ ctl = "idle"
    /\ ~started
    /\ core # 0
    /\ \E ok \in BOOLEAN :
        /\ coreState' = [coreState EXCEPT ![core] = IF ok THEN "running" ELSE "partial"]
        /\ ctl' = IF ok THEN "started" ELSE "idle"
    /\ UNCHANGED <<fields, made, dial, history>>

StartDone ==
    /\ ctl = "started"
    /\ started' = TRUE
    /\ ctl' = "idle"
    /\ UNCHANGED <<core, features, coreVars, dial, history>>

CloseCore ==
    /\ ctl = "idle"
    /\ started
    /\ coreState' = [coreState EXCEPT ![core] = "closed"]
    /\ ctl' = "zero"
    /\ Disturb
    /\ UNCHANGED <<fields, made, history>>

\* Variant: the instance is cleared whatever core.Close returns.
CloseFailsForgotten ==
    /\ ctl = "idle"
    /\ started
    /\ coreState' = [coreState EXCEPT ![core] = "halfClosed"]
    /\ irregular' = TRUE
    /\ ctl' = "zero"
    /\ Disturb
    /\ UNCHANGED <<fields, made, overwritten>>

\* core.Close returns an error: the instance keeps its fields and stays started.
CloseFails ==
    /\ ctl = "idle"
    /\ started
    /\ coreState' = [coreState EXCEPT ![core] = "halfClosed"]
    /\ irregular' = TRUE
    /\ Disturb
    /\ UNCHANGED <<ctl, fields, made, overwritten>>

\* *instance = V2RayInstance{}
CloseZero ==
    /\ ctl = "zero"
    /\ core' = 0
    /\ features' = 0
    /\ started' = FALSE
    /\ irregular' = FALSE
    /\ Disturb
    /\ ctl' = "idle"
    /\ UNCHANGED <<coreVars, overwritten>>

-------------------------------------------------------------------------------
(* dialContext, dispatchContext and dialUDP.                                  *)

\* LoadConfig or Close has changed the instance in part.
Changing == ctl \in {"features", "zero"}

Dialing(d, record) == dial' = [dial EXCEPT ![d] = record]

\* Variant: the dial goes on although the instance is not started.
DialCheckForgotten(d) ==
    /\ dial[d].pc = "idle"
    /\ \E next \in {"checked", "dispatch"} :
           Dialing(d, [NoDial EXCEPT !.pc = next, !.disturbed = Changing])
    /\ UNCHANGED <<ctl, fields, coreVars, history>>

\* if !instance.started; dialUDP puts no core in its context.
DialCheck(d) ==
    /\ dial[d].pc = "idle"
    /\ started
    /\ \E next \in {"checked", "dispatch"} :
           Dialing(d, [NoDial EXCEPT !.pc = next, !.disturbed = Changing])
    /\ UNCHANGED <<ctl, fields, coreVars, history>>

\* ctx = core.WithContext(ctx, instance.core)
DialContext(d) ==
    /\ dial[d].pc = "checked"
    /\ Dialing(d, [dial[d] EXCEPT !.pc = "dispatch", !.ctx = core])
    /\ UNCHANGED <<ctl, fields, coreVars, history>>

\* instance.dispatcher.Dispatch (DispatchLink)
DialDispatch(d) ==
    /\ dial[d].pc = "dispatch"
    /\ features # 0
    /\ Dialing(d, [dial[d] EXCEPT !.pc = "done", !.via = features,
                                  !.live = coreState[features] = "running",
                                  !.odd = irregular])
    /\ UNCHANGED <<ctl, fields, coreVars, history>>

DialPanics(d) ==
    /\ dial[d].pc = "dispatch"
    /\ features = 0
    /\ Dialing(d, [dial[d] EXCEPT !.pc = "panic"])
    /\ UNCHANGED <<ctl, fields, coreVars, history>>

\* The link is served elsewhere (see DispatcherConn); the goroutine dials again.
DialReturn(d) ==
    /\ dial[d].pc = "done"
    /\ Dialing(d, NoDial)
    /\ UNCHANGED <<ctl, fields, coreVars, history>>

-------------------------------------------------------------------------------
V2RayNext ==
    \/ LoadParse \/ LoadExtract \/ LoadNew \/ AssignCore \/ AssignFeatures
    \/ StartCore \/ StartDone \/ CloseCore \/ CloseFails \/ CloseZero
    \/ \E d \in Dials : DialCheck(d) \/ DialContext(d) \/ DialDispatch(d)
                        \/ DialPanics(d) \/ DialReturn(d)

-------------------------------------------------------------------------------
(* Properties.                                                                *)

\* A dial that passed the test of started uses the dispatcher of the core it
\* put in its context, that core runs, and no nil interface is called: unless
\* LoadConfig or Close changed the instance during the dial, or the instance was
\* reloaded while started, or a Close failed and left it half closed.
DialOnRunningCore ==
    \A d \in Dials :
        /\ dial[d].pc = "panic" => dial[d].disturbed
        /\ dial[d].pc = "done" /\ ~dial[d].disturbed =>
               /\ dial[d].ctx \in {0, dial[d].via}
               /\ dial[d].live \/ dial[d].odd

\* A core that was started, and one whose Close failed, is the one of an instance that
\* counts as started, so that Close reaches it, unless LoadConfig put another one in its
\* place.  A core whose Start failed is not forgotten either, but the instance does not
\* count as started: its Close returns at once and leaves the features that have come up
\* as they are, and only another Start touches them.
RunningCoreKept ==
    \A c \in Cores :
        /\ coreState[c] \in {"running", "halfClosed"} =>
               c \in overwritten \/ (c = core /\ (started \/ ctl = "started"))
        /\ coreState[c] = "partial" => c \in overwritten \/ (c = core /\ ~started)
===============================================================================
