----------------------------- MODULE TunnelProofs -----------------------------
(***************************************************************************)
(* Proofs about Tunnel and V2Ray, for any tuns, cores and dials, and about *)
(* the packet connection of a dial (DispatcherConn), for any writers,      *)
(* replies and capacity: it implements ReplyChannel, and a Close that      *)
(* began comes to its end.                                                 *)
(***************************************************************************)
EXTENDS Tunnel, DispatcherConn, SequenceTheorems, TLAPS

CoreType ==
    /\ core \in 0 .. made
    /\ features \in 0 .. made
    /\ started \in BOOLEAN
    /\ irregular \in BOOLEAN
    /\ made \in 0 .. MaxCores
    /\ coreState \in [Cores -> {"none", "made", "running", "partial", "halfClosed", "closed"}]

TunType ==
    /\ tun \in [Tuns -> {"new", "device", "failed", "open", "closing", "closed"}]
    /\ {current, sysDialer, controlFunc, dnsDialer} \subseteq Tuns \cup {NoTun}
    /\ dns \in [Tuns -> 0 .. MaxCores]
    /\ superseded \subseteq Tuns

InFlight == {"checked", "dispatch"}

DialRecords ==
    [pc : InFlight \cup {"idle", "done", "panic"}, ctx : 0 .. MaxCores, via : 0 .. MaxCores,
     live : BOOLEAN, odd : BOOLEAN, disturbed : BOOLEAN]

DialType == dial \in [Dials -> DialRecords]

\* LoadConfig and Start are in step with the fields they change.
ControlInv ==
    /\ ctl \in {"extract", "new"} => made < MaxCores
    /\ ctl = "assign" => made \in Cores
    /\ IF ctl = "features" THEN core = made ELSE core = features
    /\ ctl = "started" => core \in Cores /\ coreState[core] = "running"
    /\ ctl = "zero" => core \in Cores /\ coreState[core] = "closed"

\* A started instance has a core, which runs unless the instance is irregular.
StartedInv ==
    started => /\ core \in Cores
               /\ ctl = "zero" \/ irregular \/ coreState[core] = "running"

\* A dial that saw a started instance still has one, if nothing disturbed it.
DialInv ==
    \A d \in Dials :
        dial[d].pc \in InFlight /\ ~dial[d].disturbed =>
            started /\ ~Changing /\ dial[d].ctx \in {0, core}

CoreInv == CoreType /\ DialType /\ ControlInv /\ StartedInv /\ DialInv /\ DialOnRunningCore /\ RunningCoreKept

Installing == {"control", "ping", "dns"}
Clearing == {"clearSys", "clearDns", "device"}

\* What NewTun2ray and Close have done so far.
InstallInv ==
    /\ ctl \in Installing \cup {"install"} => current \in Tuns /\ tun[current] = "device"
    /\ ctl \in Clearing => current \in Tuns /\ tun[current] = "closing"
    /\ ctl \in Installing \cup Clearing => \A t \in Tuns : tun[t] = "open" => t \in superseded
    /\ ctl \in Installing => sysDialer = current /\ dns[current] = features
    /\ ctl \in {"ping", "dns"} => controlFunc = current
    /\ ctl = "dns" => features # 0
    /\ ctl \in Clearing => controlFunc = NoTun
    /\ ctl \in {"clearDns", "device"} => sysDialer = NoTun
    /\ ctl = "device" => dnsDialer = NoTun

\* Between two calls of NewTun2ray and Close the variables name open tuns.
DialersInv ==
    /\ \A t \in Tuns : tun[t] = "open" /\ t \notin superseded =>
           sysDialer = t /\ controlFunc = t /\ dnsDialer = t /\ dns[t] # 0
    /\ ctl \in Installing \cup Clearing \cup {"install", "panic"} \/
           \A t \in {sysDialer, controlFunc, dnsDialer} \ {NoTun} : tun[t] = "open"

TunInv == TunType /\ InstallInv /\ DialersInv

Inv == CoreInv /\ TunInv

LEMMA RestTyped == NoDial \in DialRecords
BY V2RayAssumption DEF NoDial, DialRecords, InFlight

LEMMA Initial == Init => Inv
<1>. SUFFICES ASSUME Init PROVE Inv
  OBVIOUS
<1>. USE V2RayAssumption, TunAssumption DEF Init, V2RayInit
<1>1. DialType /\ \A d \in Dials : dial[d].pc = "idle"
  BY RestTyped DEF DialType, NoDial
<1>2. DialInv /\ DialOnRunningCore
  BY <1>1 DEF DialInv, DialOnRunningCore, InFlight
<1>3. CoreType
  <2>1. core = 0 /\ features = 0 /\ made = 0 /\ 0 \in 0 .. MaxCores
    OBVIOUS
  <2>2. coreState \in [Cores -> {"none", "made", "running", "partial", "halfClosed", "closed"}]
    OBVIOUS
  <2>3. started \in BOOLEAN /\ irregular \in BOOLEAN
    OBVIOUS
  <2>. QED
    BY <2>1, <2>2, <2>3 DEF CoreType
<1>4. ControlInv /\ StartedInv /\ RunningCoreKept
  BY DEF ControlInv, StartedInv, RunningCoreKept
<1>5. TunInv
  BY DEF TunInv, TunType, InstallInv, DialersInv, Installing, Clearing
<1>. QED
  BY <1>1, <1>2, <1>3, <1>4, <1>5 DEF Inv, CoreInv

\* Disturb changes the dials in flight, and of them only that they are disturbed.
LEMMA Disturbing ==
    ASSUME DialType, Disturb, NEW d \in Dials
    PROVE  /\ dial'[d] \in DialRecords
           /\ dial[d].pc \in InFlight => dial'[d].pc \in InFlight /\ dial'[d].disturbed
           /\ dial[d].pc \notin InFlight => dial'[d] = dial[d]
<1>1. dial[d] \in DialRecords
  BY DEF DialType
<1>2. dial'[d] = IF dial[d].pc \in InFlight THEN [dial[d] EXCEPT !.disturbed = TRUE] ELSE dial[d]
  BY DEF Disturb, InFlight
<1>. QED
  BY <1>1, <1>2 DEF DialRecords

LEMMA DisturbedTyped == DialType /\ Disturb => DialType'
BY Disturbing DEF DialType, Disturb

\* What the properties say of the dials survives a disturbance.
LEMMA DisturbedKept == DialType /\ DialOnRunningCore /\ Disturb => DialInv' /\ DialOnRunningCore'
<1>. SUFFICES ASSUME DialType, DialOnRunningCore, Disturb PROVE DialInv' /\ DialOnRunningCore'
  OBVIOUS
<1>1. DialInv'
  <2>. SUFFICES ASSUME NEW d \in Dials
                PROVE  dial'[d].pc \in InFlight => dial'[d].disturbed
    BY DEF DialInv
  <2>. QED
    BY Disturbing
<1>2. DialOnRunningCore'
  <2>. SUFFICES ASSUME NEW d \in Dials
                PROVE  /\ dial'[d].pc = "panic" => dial'[d].disturbed
                       /\ dial'[d].pc = "done" /\ ~dial'[d].disturbed =>
                              /\ dial'[d].ctx \in {0, dial'[d].via}
                              /\ dial'[d].live \/ dial'[d].odd
    BY DEF DialOnRunningCore
  <2>1. CASE dial[d].pc \in InFlight
    BY <2>1, Disturbing DEF InFlight
  <2>2. CASE dial[d].pc \notin InFlight
    <3>1. dial'[d] = dial[d]
      BY <2>2, Disturbing
    <3>. QED
      BY <3>1 DEF DialOnRunningCore
  <2>. QED
    BY <2>1, <2>2
<1>. QED
  BY <1>1, <1>2

\* A step of a dial leaves the other dials alone.
LEMMA OneDials ==
    ASSUME DialType, NEW d \in Dials, NEW r \in DialRecords, Dialing(d, r)
    PROVE  /\ DialType'
           /\ dial'[d] = r
           /\ \A e \in Dials \ {d} : dial'[e] = dial[e]
BY DEF DialType, Dialing

\* The steps of LoadConfig.
LEMMA LoadStep ==
    ASSUME CoreInv, UNCHANGED tunVars,
           LoadParse \/ LoadExtract \/ LoadNew \/ AssignCore \/ AssignFeatures
    PROVE  CoreInv'
<1>. USE V2RayAssumption
<1>1. CASE LoadParse \/ LoadExtract \/ LoadNew
  BY <1>1 DEF LoadParse, LoadExtract, LoadNew, CoreInv, CoreType, DialType, ControlInv, StartedInv,
     DialInv, DialOnRunningCore, RunningCoreKept, Cores, Changing, tunVars, globals, fields,
     coreVars, history
<1>2. CASE AssignCore
  <2>1. DialType' /\ DialInv' /\ DialOnRunningCore'
    BY <1>2, DisturbedTyped, DisturbedKept DEF AssignCore, CoreInv
  <2>2. CoreType' /\ ControlInv' /\ StartedInv' /\ RunningCoreKept'
    BY <1>2 DEF AssignCore, CoreInv, CoreType, ControlInv, StartedInv, RunningCoreKept, Cores, tunVars, globals,
       fields, coreVars, history
  <2>. QED
    BY <2>1, <2>2 DEF CoreInv
<1>3. CASE AssignFeatures
  <2>1. DialType' /\ DialInv' /\ DialOnRunningCore'
    BY <1>3, DisturbedTyped, DisturbedKept DEF AssignFeatures, CoreInv
  <2>2. CoreType'
    BY <1>3 DEF AssignFeatures, CoreInv, CoreType, ControlInv, coreVars, history
  <2>3. core = made /\ core' = core /\ features' = made /\ ctl' = "idle"
    BY <1>3 DEF AssignFeatures, CoreInv, ControlInv
  <2>5. ControlInv'
    BY <2>3 DEF ControlInv
  <2>6. StartedInv'
    BY <1>3 DEF AssignFeatures, CoreInv, CoreType, StartedInv, Cores, coreVars, history
  <2>4. RunningCoreKept'
    BY <1>3 DEF AssignFeatures, CoreInv, CoreType, ControlInv, RunningCoreKept, Cores, coreVars, history
  <2>. QED
    BY <2>1, <2>2, <2>4, <2>5, <2>6 DEF CoreInv
<1>. QED
  BY <1>1, <1>2, <1>3

\* The steps of Start and Close.
LEMMA StartStep ==
    ASSUME CoreInv, UNCHANGED tunVars,
           StartCore \/ StartDone \/ CloseCore \/ CloseFails \/ CloseZero
    PROVE  CoreInv'
<1>. USE V2RayAssumption
<1>1. CASE StartCore \/ StartDone
  <2>1. CoreType'
    BY <1>1 DEF StartCore, StartDone, CoreInv, CoreType, Cores, fields, coreVars, history
  <2>2. ControlInv' /\ StartedInv'
    BY <1>1 DEF StartCore, StartDone, CoreInv, CoreType, ControlInv, StartedInv, Cores, fields,
       coreVars, history
  <2>3. RunningCoreKept'
    BY <1>1 DEF StartCore, StartDone, CoreInv, CoreType, ControlInv, RunningCoreKept, Cores,
       fields, coreVars, history
  <2>4. DialType' /\ DialInv' /\ DialOnRunningCore'
    BY <1>1 DEF StartCore, StartDone, CoreInv, DialType, DialInv, DialOnRunningCore, Changing,
       fields, coreVars, history
  <2>. QED
    BY <2>1, <2>2, <2>3, <2>4 DEF CoreInv
<1>2. CASE CloseCore
  <2>1. DialType' /\ DialInv' /\ DialOnRunningCore'
    BY <1>2, DisturbedTyped, DisturbedKept DEF CloseCore, CoreInv
  <2>2. CoreType' /\ ControlInv' /\ StartedInv' /\ RunningCoreKept'
    BY <1>2 DEF CloseCore, CoreInv, CoreType, ControlInv, StartedInv, RunningCoreKept, Cores, tunVars, globals,
       fields, coreVars, history
  <2>. QED
    BY <2>1, <2>2 DEF CoreInv
<1>3. CASE CloseFails
  <2>1. DialType' /\ DialInv' /\ DialOnRunningCore'
    BY <1>3, DisturbedTyped, DisturbedKept DEF CloseFails, CoreInv
  <2>2. CoreType' /\ ControlInv' /\ StartedInv' /\ RunningCoreKept'
    BY <1>3 DEF CloseFails, CoreInv, CoreType, ControlInv, StartedInv, RunningCoreKept, Cores, tunVars, globals,
       fields, coreVars, history
  <2>. QED
    BY <2>1, <2>2 DEF CoreInv
<1>4. CASE CloseZero
  <2>1. DialType' /\ DialInv' /\ DialOnRunningCore'
    BY <1>4, DisturbedTyped, DisturbedKept DEF CloseZero, CoreInv
  <2>2. CoreType'
    <3>1. core' = 0 /\ features' = 0 /\ started' = FALSE /\ irregular' = FALSE
      BY <1>4 DEF CloseZero
    <3>2. made' = made /\ coreState' = coreState
      BY <1>4 DEF CloseZero, coreVars
    <3>3. CoreType
      BY DEF CoreInv
    <3>4. 0 \in 0 .. made /\ made \in 0 .. MaxCores
      BY <3>3 DEF CoreType
    <3>5. coreState' \in [Cores -> {"none", "made", "running", "partial", "halfClosed", "closed"}]
      BY <3>2, <3>3 DEF CoreType
    <3>. QED
      BY <3>1, <3>2, <3>4, <3>5 DEF CoreType, Cores
  <2>3. ControlInv' /\ StartedInv'
    BY <1>4 DEF CloseZero, CoreInv, CoreType, ControlInv, StartedInv, Cores, coreVars, history
  <2>4. RunningCoreKept'
    BY <1>4 DEF CloseZero, CoreInv, CoreType, ControlInv, RunningCoreKept, Cores, coreVars, history
  <2>. QED
    BY <2>1, <2>2, <2>3, <2>4 DEF CoreInv
<1>. QED
  BY <1>1, <1>2, <1>3, <1>4

\* The steps of a dial.
LEMMA DialStep ==
    ASSUME CoreInv, UNCHANGED tunVars, NEW d \in Dials,
           DialCheck(d) \/ DialContext(d) \/ DialDispatch(d) \/ DialPanics(d) \/ DialReturn(d)
    PROVE  CoreInv'
<1>. USE V2RayAssumption DEF CoreInv
<1>a. UNCHANGED <<ctl, fields, coreVars, history>>
  BY DEF DialCheck, DialContext, DialDispatch, DialPanics, DialReturn
<1>b. CoreType' /\ ControlInv' /\ StartedInv' /\ RunningCoreKept'
  BY <1>a DEF CoreType, ControlInv, StartedInv, RunningCoreKept, tunVars, globals, fields,
     coreVars, history
\* What is left to show of the record r that a step gives the dial.
<1>c. ASSUME NEW r \in DialRecords, Dialing(d, r),
             r.pc \in InFlight /\ ~r.disturbed => started /\ ~Changing /\ r.ctx \in {0, core},
             r.pc = "panic" => r.disturbed,
             r.pc = "done" /\ ~r.disturbed => r.ctx \in {0, r.via} /\ (r.live \/ r.odd)
      PROVE  DialType' /\ DialInv' /\ DialOnRunningCore'
  <2>1. DialType' /\ dial'[d] = r /\ \A e \in Dials \ {d} : dial'[e] = dial[e]
    BY <1>c, OneDials
  <2>2. Changing' = Changing /\ started' = started /\ core' = core
    BY <1>a DEF Changing, fields
  <2>. QED
    BY <1>c, <2>1, <2>2 DEF DialInv, DialOnRunningCore
<1>d. dial[d] \in DialRecords
  BY DEF DialType
<1>e. /\ dial[d].pc \in InFlight /\ ~dial[d].disturbed =>
             started /\ ~Changing /\ dial[d].ctx \in {0, core}
      /\ core \in 0 .. MaxCores /\ features \in 0 .. MaxCores
  BY DEF DialInv, CoreType
<1>1. CASE DialCheck(d)
  <2>1. PICK next \in InFlight : Dialing(d, [NoDial EXCEPT !.pc = next, !.disturbed = Changing])
    BY <1>1 DEF DialCheck, InFlight
  <2>2. started
    BY <1>1 DEF DialCheck
  <2>3. Changing \in BOOLEAN
    BY DEF Changing
  <2>. DEFINE r == [NoDial EXCEPT !.pc = next, !.disturbed = Changing]
  <2>4. r \in DialRecords /\ r.pc = next /\ r.ctx = 0 /\ r.disturbed = Changing
    <3>1. NoDial.ctx = 0
      BY DEF NoDial
    <3>. HIDE DEF Changing
    <3>. QED
      BY <2>3, <3>1, RestTyped DEF DialRecords, InFlight
  <2>5. Dialing(d, r)
    BY <2>1
  <2>. HIDE DEF r
  <2>. QED
    BY <1>b, <1>c, <2>2, <2>4, <2>5 DEF InFlight
<1>2. CASE DialContext(d)
  <2>. DEFINE r == [dial[d] EXCEPT !.pc = "dispatch", !.ctx = core]
  <2>1. /\ r \in DialRecords /\ r.pc = "dispatch" /\ r.ctx = core
        /\ r.disturbed = dial[d].disturbed
    BY <1>d, <1>e DEF DialRecords, InFlight
  <2>2. Dialing(d, r) /\ dial[d].pc \in InFlight
    BY <1>2 DEF DialContext, InFlight
  <2>. HIDE DEF r
  <2>. QED
    BY <1>b, <1>c, <1>e, <2>1, <2>2
<1>3. CASE DialDispatch(d)
  <2>. DEFINE r == [dial[d] EXCEPT !.pc = "done", !.via = features,
                                   !.live = coreState[features] = "running", !.odd = irregular]
  <2>1. /\ r \in DialRecords /\ r.pc = "done" /\ r.ctx = dial[d].ctx /\ r.via = features
        /\ r.live = (coreState[features] = "running") /\ r.odd = irregular
        /\ r.disturbed = dial[d].disturbed
    BY <1>d, <1>e DEF DialRecords, InFlight, CoreType
  <2>2. Dialing(d, r) /\ dial[d].pc \in InFlight
    BY <1>3 DEF DialDispatch, InFlight
  <2>. HIDE DEF r
  <2>3. ~r.disturbed => r.ctx \in {0, r.via} /\ (r.live \/ r.odd)
    BY <1>e, <2>1, <2>2 DEF ControlInv, StartedInv, Changing
  <2>. QED
    BY <1>b, <1>c, <2>1, <2>2, <2>3 DEF InFlight
<1>4. CASE DialPanics(d)
  <2>. DEFINE r == [dial[d] EXCEPT !.pc = "panic"]
  <2>1. r \in DialRecords /\ r.pc = "panic" /\ r.disturbed = dial[d].disturbed
    BY <1>d DEF DialRecords
  <2>2. Dialing(d, r) /\ dial[d].pc \in InFlight /\ features = 0
    BY <1>4 DEF DialPanics, InFlight
  <2>. HIDE DEF r
  <2>3. r.disturbed
    BY <1>e, <2>1, <2>2 DEF ControlInv, StartedInv, Changing, Cores
  <2>. QED
    BY <1>b, <1>c, <2>1, <2>2, <2>3 DEF InFlight
<1>5. CASE DialReturn(d)
  <2>1. Dialing(d, NoDial) /\ NoDial.pc = "idle"
    BY <1>5 DEF DialReturn, NoDial
  <2>. QED
    BY <1>b, <1>c, <2>1, RestTyped DEF InFlight
<1>. QED
  BY <1>1, <1>2, <1>3, <1>4, <1>5

\* NewTun2ray and Close of a tun do not touch the instance.
TunStep ==
    \/ \E t \in Tuns : NewDevice(t) \/ NewDeviceFails(t) \/ ClearControl(t)
    \/ InstallSystem \/ InstallControl \/ PingOutbound \/ InstallDns
    \/ ClearSystem \/ ClearDns \/ CloseDevice

LEMMA CoreKept == CoreInv /\ TunStep => CoreInv'
<1>. SUFFICES ASSUME CoreInv, TunStep PROVE CoreInv'
  OBVIOUS
<1>1. /\ UNCHANGED <<fields, coreVars, dial, history>>
      /\ ctl \notin {"extract", "new", "assign", "features", "started", "zero"}
      /\ ctl' \notin {"extract", "new", "assign", "features", "started", "zero"}
  BY DEF TunStep, NewDevice, NewDeviceFails, ClearControl, InstallSystem, InstallControl,
         PingOutbound, InstallDns, ClearSystem, ClearDns, CloseDevice, Goto
<1>. QED
  BY <1>1 DEF CoreInv, CoreType, DialType, ControlInv, StartedInv, DialInv, DialOnRunningCore,
       RunningCoreKept, Changing, fields, coreVars, history

\* The instance does not touch the dialers of the process.
LEMMA TunKept == CoreInv /\ TunInv /\ V2RayNext /\ UNCHANGED tunVars => TunInv'
<1>. SUFFICES ASSUME CoreInv, TunInv, V2RayNext, UNCHANGED tunVars PROVE TunInv'
  OBVIOUS
<1>1. \/ ctl' = ctl /\ features' = features
      \/ ctl \notin Installing \cup Clearing \cup {"install", "panic"}
         /\ ctl' \notin Installing \cup Clearing \cup {"install", "panic"}
  BY DEF V2RayNext, LoadParse, LoadExtract, LoadNew, AssignCore, AssignFeatures, StartCore,
         StartDone, CloseCore, CloseFails, CloseZero, DialCheck, DialContext, DialDispatch,
         DialPanics, DialReturn, fields, Installing, Clearing
<1>. QED
  BY <1>1 DEF TunInv, TunType, InstallInv, DialersInv, tunVars, globals, Installing, Clearing

\* Each step of NewTun2ray and Close on the dialers of the process.
LEMMA InstallStep == CoreInv /\ TunInv /\ TunStep => TunInv'
<1>. SUFFICES ASSUME CoreInv, TunInv, TunStep PROVE TunInv'
  OBVIOUS
<1>. USE TunAssumption DEF CoreInv, CoreType, TunInv, TunType, InstallInv, DialersInv, Installing, Clearing,
       Goto, Supersede, globals, tunVars, fields
<1>1. ASSUME NEW t \in Tuns, NewDevice(t) PROVE TunInv'
  BY <1>1 DEF NewDevice
<1>2. ASSUME NEW t \in Tuns, NewDeviceFails(t) PROVE TunInv'
  BY <1>2 DEF NewDeviceFails
<1>3. ASSUME NEW t \in Tuns, ClearControl(t) PROVE TunInv'
  BY <1>3 DEF ClearControl
<1>4. CASE InstallSystem
  <2>1. TunType'
    BY <1>4, V2RayAssumption DEF InstallSystem
  <2>2. InstallInv'
    BY <1>4 DEF InstallSystem
  <2>3. DialersInv'
    BY <1>4 DEF InstallSystem
  <2>. QED
    BY <2>1, <2>2, <2>3
<1>5. CASE InstallControl
  BY <1>5 DEF InstallControl
<1>6. CASE PingOutbound
  BY <1>6 DEF PingOutbound
<1>7. CASE InstallDns
  BY <1>7 DEF InstallDns
<1>8. CASE ClearSystem
  BY <1>8 DEF ClearSystem
<1>9. CASE ClearDns
  BY <1>9 DEF ClearDns
<1>10. CASE CloseDevice
  BY <1>10 DEF CloseDevice
<1>. QED
  BY <1>1, <1>2, <1>3, <1>4, <1>5, <1>6, <1>7, <1>8, <1>9, <1>10 DEF TunStep

LEMMA Step == Inv /\ [Next]_vars => Inv'
<1>. SUFFICES ASSUME Inv, [Next]_vars PROVE Inv'
  OBVIOUS
<1>1. CASE UNCHANGED vars
  BY <1>1 DEF vars, v2rayVars, tunVars, globals, fields, coreVars, history, Inv, CoreInv, CoreType,
       DialType, ControlInv, StartedInv, DialInv, DialOnRunningCore, RunningCoreKept, Changing,
       TunInv, TunType, InstallInv, DialersInv
<1>2. CASE V2RayNext /\ UNCHANGED tunVars
  BY <1>2, LoadStep, StartStep, DialStep, TunKept DEF V2RayNext, Inv
<1>3. CASE TunStep
  BY <1>3, CoreKept, InstallStep DEF Inv
<1>. QED
  BY <1>1, <1>2, <1>3 DEF Next, TunStep

\* The invariant of instance and tuns (v2ray.go, tun.go) holds always.
THEOREM Invariant == Spec => []Inv
BY Initial, Step, PTL DEF Spec

\* A dial that nothing disturbed uses a running core, the one of its context
\* (dialContext, dialUDP), or the instance was irregular.
THEOREM DialsOnRunningCore == Spec => []DialOnRunningCore
BY Invariant, PTL DEF Inv, CoreInv

\* Whatever LoadConfig, Start and Close do, the core with started features is the one of
\* the instance unless LoadConfig replaced it, and Close reaches it unless it is a Start
\* that failed and left it so.
THEOREM RunningCoresKept == Spec => []RunningCoreKept
BY Invariant, PTL DEF Inv, CoreInv

\* The dialers of the process are those of an open tun (NewTun2ray, Close), unless
\* another tun was opened or closed after it.
THEOREM DialersOfTun == Spec => []DialersOfOpenTun
<1>1. Inv => DialersOfOpenTun
  BY DEF Inv, TunInv, DialersInv, DialersOfOpenTun, Installing, Clearing
<1>. QED
  BY <1>1, Invariant, PTL

-------------------------------------------------------------------------------
(* dispatcherConn: the unlocked closed field.                                 *)

\* The callers of Close that found closed still false and have not finished.
Past == {"set", "cancel", "interrupt", "close"}

ConnCloseType ==
    /\ close \in [Closers -> {"idle", "check", "done"} \cup Past]
    /\ closed \in BOOLEAN
    /\ cacheClosed \in BOOLEAN
    /\ raced \in BOOLEAN
    /\ input # "end" => close["input"] = "idle"

\* Who is past CloseSet has set the field, and without a race there is one caller
\* past the check at most, none after the channel is closed.
RaceInv ==
    /\ \A c \in Closers : close[c] \in Past \ {"set"} => closed
    /\ cacheClosed => closed
    /\ ~raced => /\ \A c, d \in Closers : close[c] \in Past /\ close[d] \in Past => c = d
                 /\ cacheClosed => \A c \in Closers : close[c] \notin Past
    /\ ClosePanicNeedsRace

CloseInv == ConnCloseType /\ RaceInv

\* Every step of handleInput, the read loop, the writers, the timer and Close keeps it.
LEMMA CloseInvStep == CloseInv /\ [ConnNext]_connVars => CloseInv'
<1>. SUFFICES ASSUME CloseInv, [ConnNext]_connVars PROVE CloseInv'
  OBVIOUS
<1>. USE ConnAssumption DEF CloseInv, ConnCloseType, RaceInv, ClosePanicNeedsRace, Past, At,
       Closers, Owners, inVars, outVars, flagVars
\* Steps outside of Close, without and with one that starts it.
<1>a. ASSUME UNCHANGED <<close, closed, cacheClosed, raced>>, input = "end" => input' = "end",
             panic' \in {panic, "none", "send on closed"}
      PROVE  CloseInv'
  BY <1>a
<1>b. ASSUME NEW c \in Closers, close[c] \notin Past, NEW l \in {"check", "done"}, At(c, l),
             UNCHANGED <<closed, cacheClosed, raced, panic>>,
             input' = "end" \/ (input' = input /\ c # "input")
      PROVE  CloseInv'
  BY <1>b
<1>1. CASE UNCHANGED connVars
  BY <1>1, <1>a DEF connVars
<1>2. CASE InputCheck \/ InputReadFails
  BY <1>2, <1>a, <1>b DEF InputCheck, InputReadFails
<1>3. CASE InputRead \/ InputSend \/ InputSendPanics \/ InputDrop \/ InputNext
  BY <1>3, <1>a DEF InputRead, InputSend, InputSendPanics, InputDrop, InputNext
<1>4. CASE Reader \/ ReaderLeaves \/ OutboundEnds
  BY <1>4, <1>a DEF Reader, ReaderGets, ReaderEnds, ReaderLeaves, OutboundEnds
<1>5. CASE TimerTick \/ AppCloses
  BY <1>5, <1>a, <1>b DEF TimerTick, AppCloses
<1>6. ASSUME NEW w \in Writers, WriteOk(w) \/ WriteFails(w) \/ WriterClosesAgain(w)
      PROVE  CloseInv'
  BY <1>6, <1>b DEF WriteOk, WriteFails, WriterClosesAgain
<1>7. ASSUME NEW c \in Closers, Close(c) PROVE CloseInv'
  <2>1. CASE CloseCheck(c)
    BY <2>1 DEF CloseCheck
  <2>2. CASE CloseSet(c)
    BY <2>2 DEF CloseSet
  <2>3. CASE CloseCancel(c)
    BY <2>3 DEF CloseCancel
  <2>4. CASE CloseInterrupt(c)
    BY <2>4 DEF CloseInterrupt
  <2>5. CASE CloseCache(c)
    BY <2>5 DEF CloseCache
  <2>. QED
    BY <1>7, <2>1, <2>2, <2>3, <2>4, <2>5 DEF Close
<1>. QED
  BY <1>1, <1>2, <1>3, <1>4, <1>5, <1>6, <1>7 DEF ConnNext, Input, External

\* close(c.cache) runs twice only after two callers were past the check of closed
\* together, for any number of datagrams whose sendTo closes the connection.
THEOREM DoubleCloseNeedsRace == ConnSpec => []ClosePanicNeedsRace
<1>1. ConnInit => CloseInv
  BY ConnAssumption DEF ConnInit, CloseInv, ConnCloseType, RaceInv, ClosePanicNeedsRace, Past,
     Closers, Owners
<1>2. CloseInv => ClosePanicNeedsRace
  BY DEF CloseInv, RaceInv
<1>. QED
  BY <1>1, <1>2, CloseInvStep, PTL DEF ConnSpec

-------------------------------------------------------------------------------
(* dispatcherConn: the replies.                                               *)

Increasing(s) == \A i, j \in DOMAIN s : i < j => s[i] < s[j]
Below(S, T) == \A x \in S, y \in T : x < y

\* A reply put behind smaller ones.
LEMMA IncreasingAppend ==
    ASSUME NEW s \in Seq(Nat), NEW e \in Nat, Increasing(s), Below(ToSet(s), {e})
    PROVE  /\ Append(s, e) \in Seq(Nat)
           /\ Increasing(Append(s, e))
           /\ ToSet(Append(s, e)) = ToSet(s) \cup {e}
<1>1. /\ Len(s) \in Nat /\ DOMAIN s = 1 .. Len(s)
      /\ \A i \in 1 .. Len(s) : s[i] \in Nat
  BY LenProperties
<1>2. /\ Append(s, e) \in Seq(Nat)
      /\ DOMAIN Append(s, e) = 1 .. Len(s) + 1
      /\ \A i \in 1 .. Len(s) : Append(s, e)[i] = s[i]
      /\ Append(s, e)[Len(s) + 1] = e
  BY <1>1
<1>3. \A i \in 1 .. Len(s) : s[i] < e
  BY <1>1 DEF Below, ToSet
<1>4. Increasing(Append(s, e))
  BY <1>1, <1>2, <1>3 DEF Increasing
<1>5. ToSet(Append(s, e)) = ToSet(s) \cup {e}
  BY <1>1, <1>2 DEF ToSet
<1>. QED
  BY <1>2, <1>4, <1>5

\* The first of them taken away.
LEMMA IncreasingTail ==
    ASSUME NEW s \in Seq(Nat), s # <<>>, Increasing(s)
    PROVE  /\ Tail(s) \in Seq(Nat)
           /\ Increasing(Tail(s))
           /\ Head(s) \in ToSet(s)
           /\ ToSet(Tail(s)) = ToSet(s) \ {Head(s)}
           /\ Below({Head(s)}, ToSet(Tail(s)))
<1>1. /\ Len(s) \in Nat \ {0} /\ DOMAIN s = 1 .. Len(s)
      /\ \A i \in 1 .. Len(s) : s[i] \in Nat
  BY LenProperties, EmptySeq
<1>2. /\ Tail(s) \in Seq(Nat)
      /\ DOMAIN Tail(s) = 1 .. Len(s) - 1
      /\ \A i \in 1 .. Len(s) - 1 : Tail(s)[i] = s[i + 1]
  BY <1>1, HeadTailProperties, LenProperties
<1>3. Head(s) = s[1]
  BY <1>1
<1>4. \A i, j \in 1 .. Len(s) : i < j => s[i] < s[j]
  BY <1>1 DEF Increasing
<1>5. Increasing(Tail(s))
  BY <1>1, <1>2, <1>4 DEF Increasing
<1>6. ToSet(Tail(s)) = {s[i] : i \in 2 .. Len(s)}
  <2>1. ASSUME NEW x \in ToSet(Tail(s)) PROVE x \in {s[i] : i \in 2 .. Len(s)}
    BY <1>1, <1>2, <2>1 DEF ToSet
  <2>2. ASSUME NEW i \in 2 .. Len(s) PROVE s[i] \in ToSet(Tail(s))
    <3>1. i - 1 \in 1 .. Len(s) - 1 /\ Tail(s)[i - 1] = s[i]
      BY <1>1, <1>2
    <3>. QED
      BY <1>2, <3>1 DEF ToSet
  <2>. QED
    BY <2>1, <2>2
<1>7. \A i \in 2 .. Len(s) : s[1] < s[i]
  BY <1>1, <1>4
<1>8. ToSet(s) = {s[1]} \cup {s[i] : i \in 2 .. Len(s)}
  BY <1>1 DEF ToSet
<1>9. \A i \in 2 .. Len(s) : s[i] # s[1]
  BY <1>1, <1>7
<1>. QED
  BY <1>2, <1>3, <1>5, <1>6, <1>7, <1>8, <1>9 DEF Below

\* Two lines of replies, one behind the other.
LEMMA IncreasingConcat ==
    ASSUME NEW s \in Seq(Nat), NEW t \in Seq(Nat), Increasing(s), Increasing(t),
           Below(ToSet(s), ToSet(t))
    PROVE  /\ s \o t \in Seq(Nat)
           /\ Increasing(s \o t)
           /\ ToSet(s \o t) = ToSet(s) \cup ToSet(t)
<1>1. /\ Len(s) \in Nat /\ DOMAIN s = 1 .. Len(s) /\ \A i \in 1 .. Len(s) : s[i] \in Nat
      /\ Len(t) \in Nat /\ DOMAIN t = 1 .. Len(t) /\ \A i \in 1 .. Len(t) : t[i] \in Nat
  BY LenProperties
<1>2. /\ s \o t \in Seq(Nat)
      /\ DOMAIN (s \o t) = 1 .. Len(s) + Len(t)
      /\ \A i \in 1 .. Len(s) + Len(t) : (s \o t)[i] = IF i <= Len(s) THEN s[i] ELSE t[i - Len(s)]
  BY ConcatProperties, LenProperties
<1>. DEFINE u == s \o t
<1>. HIDE DEF u
<1>3. /\ \A i \in 1 .. Len(s) : u[i] = s[i]
      /\ \A i \in 1 .. Len(t) : u[Len(s) + i] = t[i]
  <2>1. ASSUME NEW i \in 1 .. Len(s) PROVE u[i] = s[i]
    BY <1>1, <1>2 DEF u
  <2>2. ASSUME NEW i \in 1 .. Len(t) PROVE u[Len(s) + i] = t[i]
    <3>. DEFINE k == Len(s) + i
    <3>1. k \in 1 .. Len(s) + Len(t) /\ ~(k <= Len(s)) /\ k - Len(s) = i
      BY <1>1
    <3>. HIDE DEF k
    <3>2. u[k] = t[k - Len(s)]
      BY <1>2, <3>1 DEF u
    <3>. QED
      BY <3>1, <3>2 DEF k
  <2>. QED
    BY <2>1, <2>2
<1>4. \A i \in 1 .. Len(s), j \in 1 .. Len(t) : s[i] < t[j]
  BY <1>1 DEF Below, ToSet
<1>5. Increasing(u)
  <2>. SUFFICES ASSUME NEW i \in 1 .. Len(s) + Len(t), NEW j \in 1 .. Len(s) + Len(t), i < j
                PROVE  u[i] < u[j]
    BY <1>2 DEF Increasing, u
  <2>1. CASE j <= Len(s)
    <3>1. i \in 1 .. Len(s) /\ j \in 1 .. Len(s)
      BY <1>1, <2>1
    <3>2. s[i] < s[j]
      BY <1>1, <3>1 DEF Increasing
    <3>. QED
      BY <1>3, <3>1, <3>2
  <2>2. CASE i <= Len(s) /\ ~(j <= Len(s))
    <3>1. PICK k \in 1 .. Len(t) : j = Len(s) + k
      <4>. j - Len(s) \in 1 .. Len(t) /\ j = Len(s) + (j - Len(s))
        BY <1>1, <2>2
      <4>. QED
        OBVIOUS
    <3>2. i \in 1 .. Len(s)
      BY <1>1, <2>2
    <3>. QED
      BY <1>3, <1>4, <3>1, <3>2
  <2>3. CASE ~(i <= Len(s))
    <3>1. PICK k \in 1 .. Len(t) : j = Len(s) + k
      <4>. j - Len(s) \in 1 .. Len(t) /\ j = Len(s) + (j - Len(s))
        BY <1>1, <2>3
      <4>. QED
        OBVIOUS
    <3>2. PICK l \in 1 .. Len(t) : i = Len(s) + l
      <4>. i - Len(s) \in 1 .. Len(t) /\ i = Len(s) + (i - Len(s))
        BY <1>1, <2>3
      <4>. QED
        OBVIOUS
    <3>3. l < k
      BY <1>1, <3>1, <3>2
    <3>. QED
      BY <1>1, <1>3, <3>1, <3>2, <3>3 DEF Increasing
  <2>. QED
    BY <2>1, <2>2, <2>3
<1>6. ToSet(u) = ToSet(s) \cup ToSet(t)
  <2>1. ASSUME NEW i \in 1 .. Len(s) + Len(t) PROVE u[i] \in ToSet(s) \cup ToSet(t)
    <3>1. CASE i <= Len(s)
      <4>1. i \in 1 .. Len(s) /\ u[i] = s[i]
        BY <1>1, <1>3, <3>1
      <4>. QED
        BY <1>1, <4>1 DEF ToSet
    <3>2. CASE ~(i <= Len(s))
      <4>1. i - Len(s) \in 1 .. Len(t) /\ u[i] = t[i - Len(s)]
        BY <1>1, <1>2, <3>2 DEF u
      <4>. QED
        BY <1>1, <4>1 DEF ToSet
    <3>. QED
      BY <3>1, <3>2
  <2>2. ASSUME NEW i \in 1 .. Len(s) PROVE s[i] \in ToSet(u)
    <3>. i \in 1 .. Len(s) + Len(t) /\ u[i] = s[i]
      BY <1>1, <1>3
    <3>. QED
      BY <1>2 DEF ToSet, u
  <2>3. ASSUME NEW i \in 1 .. Len(t) PROVE t[i] \in ToSet(u)
    <3>. Len(s) + i \in 1 .. Len(s) + Len(t) /\ u[Len(s) + i] = t[i]
      BY <1>1, <1>3
    <3>. QED
      BY <1>2 DEF ToSet, u
  <2>4. DOMAIN u = 1 .. Len(s) + Len(t)
    BY <1>2 DEF u
  <2>. QED
    BY <1>1, <2>1, <2>2, <2>3, <2>4 DEF ToSet
<1>. QED
  BY <1>2, <1>5, <1>6 DEF u

\* The replies in the order they are in, and where each of those sent is.
RepliesInv ==
    LET G == ToSet(got)
        C == ToSet(cache)
        B == ToSet(batch)
    IN  /\ sent \in Nat
        /\ got \in Seq(Nat) /\ cache \in Seq(Nat) /\ batch \in Seq(Nat)
        /\ Increasing(got) /\ Increasing(cache) /\ Increasing(batch)
        /\ Below(G, C) /\ Below(G, B) /\ Below(C, B)
        /\ G \cup C \cup B \cup dropped = 1 .. sent
        /\ (G \cup C \cup B) \cap dropped = {}
        /\ input # "forward" => batch = <<>>

\* What ReadMultiBuffer returns.
LEMMA NextReplies ==
    ASSUME NEW m \in Nat, NEW n \in Nat
    PROVE  LET b == [i \in 1 .. n |-> m + i]
           IN  b \in Seq(Nat) /\ Increasing(b) /\ ToSet(b) = m + 1 .. m + n
<1>. DEFINE b == [i \in 1 .. n |-> m + i]
<1>1. b \in Seq(Nat)
  BY IsASeq
<1>2. Increasing(b)
  BY DEF Increasing
<1>3. ToSet(b) = m + 1 .. m + n
  <2>1. ASSUME NEW x \in m + 1 .. m + n PROVE x \in ToSet(b)
    <3>. x - m \in 1 .. n /\ m + (x - m) = x
      OBVIOUS
    <3>. QED
      BY DEF ToSet
  <2>2. \A i \in 1 .. n : m + i \in m + 1 .. m + n
    OBVIOUS
  <2>3. ToSet(b) \subseteq m + 1 .. m + n
    BY <2>2 DEF ToSet
  <2>. QED
    BY <2>1, <2>3
<1>. QED
  BY <1>1, <1>2, <1>3

\* handleInput and the read loop hand the replies on from one line to the next.
LEMMA RepliesInvStep == RepliesInv /\ [ConnNext]_connVars => RepliesInv'
<1>. SUFFICES ASSUME RepliesInv, [ConnNext]_connVars PROVE RepliesInv'
  OBVIOUS
<1>. DEFINE G == ToSet(got)
            C == ToSet(cache)
            B == ToSet(batch)
<1>a. /\ sent \in Nat
      /\ got \in Seq(Nat) /\ cache \in Seq(Nat) /\ batch \in Seq(Nat)
      /\ Increasing(got) /\ Increasing(cache) /\ Increasing(batch)
      /\ Below(G, C) /\ Below(G, B) /\ Below(C, B)
      /\ G \cup C \cup B \cup dropped = 1 .. sent
      /\ (G \cup C \cup B) \cap dropped = {}
      /\ input # "forward" => batch = <<>>
  BY DEF RepliesInv
<1>b. \A x \in G \cup C \cup B : x \in Nat
  BY <1>a
<1>0. (/\ sent' \in Nat
       /\ got' \in Seq(Nat) /\ cache' \in Seq(Nat) /\ batch' \in Seq(Nat)
       /\ Increasing(got') /\ Increasing(cache') /\ Increasing(batch')
       /\ Below(G', C') /\ Below(G', B') /\ Below(C', B')
       /\ G' \cup C' \cup B' \cup dropped' = 1 .. sent'
       /\ (G' \cup C' \cup B') \cap dropped' = {}
       /\ (input' # "forward" => batch' = <<>>)) => RepliesInv'
  BY DEF RepliesInv, Increasing, Below
<1>1. ASSUME UNCHANGED <<sent, got, cache, batch, dropped>>,
             input' # "forward" => input # "forward" \/ batch = <<>>
      PROVE  RepliesInv'
  BY <1>1, <1>a DEF RepliesInv, Increasing, Below
<1>2. CASE InputRead
  <2>1. PICK n \in 1 .. MaxBatch : batch' = [i \in 1 .. n |-> sent + i] /\ sent' = sent + n
    BY <1>2 DEF InputRead
  <2>2. batch' \in Seq(Nat) /\ Increasing(batch') /\ B' = sent + 1 .. sent + n
    BY <1>a, <2>1, NextReplies, ConnAssumption
  <2>3. UNCHANGED <<got, cache, dropped>> /\ input' = "forward" /\ B = {}
    BY <1>2, <1>a DEF InputRead, outVars, ToSet
  <2>4. G' = G /\ C' = C
    BY <2>3
  <2>. HIDE DEF G, C, B
  <2>5. /\ Below(G', B') /\ Below(C', B') /\ Below(G', C')
        /\ G' \cup C' \cup B' \cup dropped' = 1 .. sent'
        /\ (G' \cup C' \cup B') \cap dropped' = {}
    BY <1>a, <2>1, <2>2, <2>3, <2>4 DEF Below
  <2>. QED
    BY <1>0, <1>a, <2>1, <2>2, <2>3, <2>5
<1>3. CASE InputSend
  <2>1. /\ batch # <<>> /\ cache' = Append(cache, Head(batch)) /\ batch' = Tail(batch)
        /\ UNCHANGED <<input, got, sent, dropped>> /\ input = "forward"
    BY <1>3 DEF InputSend, outVars
  <2>. DEFINE e == Head(batch)
  <2>2. /\ batch' \in Seq(Nat) /\ Increasing(batch')
        /\ e \in B /\ B' = B \ {e} /\ Below({e}, B')
    BY <1>a, <2>1, IncreasingTail
  <2>3. Below(C, {e})
    BY <1>a, <2>2 DEF Below
  <2>4. cache' \in Seq(Nat) /\ Increasing(cache') /\ C' = C \cup {e}
    BY <1>a, <1>b, <2>1, <2>2, <2>3, IncreasingAppend
  <2>5. G' = G
    BY <2>1
  <2>. HIDE DEF G, C, B, e
  <2>6. /\ Below(G', B') /\ Below(C', B') /\ Below(G', C')
        /\ G' \cup C' \cup B' \cup dropped' = 1 .. sent'
        /\ (G' \cup C' \cup B') \cap dropped' = {}
    BY <1>a, <2>1, <2>2, <2>4, <2>5 DEF Below
  <2>. QED
    BY <1>0, <1>a, <2>1, <2>2, <2>4, <2>6
<1>4. CASE InputDrop
  <2>1. /\ batch # <<>> /\ dropped' = dropped \cup {Head(batch)} /\ batch' = Tail(batch)
        /\ UNCHANGED <<input, got, cache, sent>> /\ input = "forward"
    BY <1>4 DEF InputDrop, outVars
  <2>. DEFINE e == Head(batch)
  <2>2. /\ batch' \in Seq(Nat) /\ Increasing(batch')
        /\ e \in B /\ B' = B \ {e} /\ Below({e}, B')
    BY <1>a, <2>1, IncreasingTail
  <2>3. G' = G /\ C' = C
    BY <2>1
  <2>. HIDE DEF G, C, B
  <2>4. e \notin G /\ e \notin C
    BY <1>a, <1>b, <2>2 DEF Below
  <2>. HIDE DEF e
  <2>5. /\ Below(G', B') /\ Below(C', B') /\ Below(G', C')
        /\ G' \cup C' \cup B' \cup dropped' = 1 .. sent'
        /\ (G' \cup C' \cup B') \cap dropped' = {}
    BY <1>a, <2>1, <2>2, <2>3, <2>4 DEF Below, e
  <2>. QED
    BY <1>0, <1>a, <2>1, <2>2, <2>5
<1>5. CASE ReaderGets
  <2>1. /\ cache # <<>> /\ got' = Append(got, Head(cache)) /\ cache' = Tail(cache)
        /\ UNCHANGED <<input, batch, sent, dropped>>
    BY <1>5 DEF ReaderGets, inVars
  <2>. DEFINE e == Head(cache)
  <2>2. /\ cache' \in Seq(Nat) /\ Increasing(cache')
        /\ e \in C /\ C' = C \ {e} /\ Below({e}, C')
    BY <1>a, <2>1, IncreasingTail
  <2>3. Below(G, {e})
    BY <1>a, <2>2 DEF Below
  <2>4. got' \in Seq(Nat) /\ Increasing(got') /\ G' = G \cup {e}
    BY <1>a, <1>b, <2>1, <2>2, <2>3, IncreasingAppend
  <2>5. B' = B
    BY <2>1
  <2>. HIDE DEF G, C, B, e
  <2>6. /\ Below(G', B') /\ Below(C', B') /\ Below(G', C')
        /\ G' \cup C' \cup B' \cup dropped' = 1 .. sent'
        /\ (G' \cup C' \cup B') \cap dropped' = {}
    BY <1>a, <2>1, <2>2, <2>4, <2>5 DEF Below
  <2>. QED
    BY <1>0, <1>a, <2>1, <2>2, <2>4, <2>6
<1>6. CASE InputCheck \/ InputReadFails \/ InputNext \/ InputSendPanics
  BY <1>6, <1>1 DEF InputCheck, InputReadFails, InputNext, InputSendPanics, inVars, outVars
<1>. QED
  <2>1. ASSUME UNCHANGED <<inVars, got, cache>> PROVE RepliesInv'
    BY <2>1, <1>1 DEF inVars
  <2>. QED
    BY <1>2, <1>3, <1>4, <1>5, <1>6, <2>1 DEF ConnNext, connVars, Input, Reader, ReaderEnds,
       External, ReaderLeaves, AppCloses, OutboundEnds, TimerTick, WriteOk, WriteFails,
       WriterClosesAgain, Close, CloseCheck, CloseSet, CloseCancel, CloseInterrupt,
       CloseCache, outVars

\* The replies reach the read loop in the order the outbound sent them, and each is
\* delivered, in the channel, in the hands of handleInput or released, for any capacity
\* of the channel and any batches.
THEOREM RepliesAreAccounted == ConnSpec => []RepliesAccounted
<1>1. ConnInit => RepliesInv
  BY EmptySeq DEF ConnInit, RepliesInv, Increasing, Below, ToSet
<1>2. RepliesInv => RepliesAccounted
  <2>. SUFFICES ASSUME RepliesInv PROVE RepliesAccounted
    OBVIOUS
  <2>. DEFINE G == ToSet(got)
              C == ToSet(cache)
              B == ToSet(batch)
  <2>1. /\ got \in Seq(Nat) /\ cache \in Seq(Nat) /\ batch \in Seq(Nat)
        /\ Increasing(got) /\ Increasing(cache) /\ Increasing(batch)
        /\ Below(G, C) /\ Below(G, B) /\ Below(C, B)
        /\ G \cup C \cup B \cup dropped = 1 .. sent
        /\ (G \cup C \cup B) \cap dropped = {}
    BY DEF RepliesInv
  <2>2. got \o cache \in Seq(Nat) /\ Increasing(got \o cache) /\ ToSet(got \o cache) = G \cup C
    BY <2>1, IncreasingConcat
  <2>3. Below(ToSet(got \o cache), B)
    BY <2>1, <2>2 DEF Below
  <2>4. /\ Increasing((got \o cache) \o batch)
        /\ ToSet((got \o cache) \o batch) = G \cup C \cup B
    BY <2>1, <2>2, <2>3, IncreasingConcat
  <2>. HIDE DEF G, C, B
  <2>. QED
    BY <2>1, <2>4 DEF RepliesAccounted, Increasing
<1>. QED
  BY <1>1, <1>2, RepliesInvStep, PTL DEF ConnSpec

-------------------------------------------------------------------------------
(* dispatcherConn: type correctness.                                          *)

\* Replies move between the line of the outbound, the channel and the read loop.
LEMMA RepliesMove ==
    ASSUME NEW S, NEW s \in Seq(S), NEW t \in Seq(S), s # <<>>
    PROVE  /\ Head(s) \in S
           /\ Tail(s) \in Seq(S)
           /\ Len(Tail(s)) = Len(s) - 1
           /\ Append(t, Head(s)) \in Seq(S)
           /\ Len(Append(t, Head(s))) = Len(t) + 1
<1>1. Head(s) \in S /\ Tail(s) \in Seq(S) /\ Len(Tail(s)) = Len(s) - 1
  BY HeadTailProperties
<1>2. Append(t, Head(s)) \in Seq(S) /\ Len(Append(t, Head(s))) = Len(t) + 1
  BY <1>1, AppendProperties
<1>. QED
  BY <1>1, <1>2

\* The places and flags, and the lines of replies.
ConnPlaces ==
    /\ input \in {"check", "read", "forward", "end"}
    /\ reader \in {"read", "eof", "gone"}
    /\ close \in [Closers -> {"idle", "check", "set", "cancel", "interrupt", "close", "done"}]
    /\ again \subseteq Writers
    /\ link \in {"up", "ended", "interrupted"}
    /\ panic \in {"none", "send on closed", "close of closed"}

ConnFlags ==
    /\ closed \in BOOLEAN /\ done \in BOOLEAN /\ cacheClosed \in BOOLEAN
    /\ active \in BOOLEAN /\ raced \in BOOLEAN

ConnReplies(S) ==
    /\ batch \in Seq(S) /\ cache \in Seq(S) /\ got \in Seq(S)
    /\ dropped \subseteq S
    /\ Len(cache) <= Capacity

LEMMA ConnTypeParts ==
    ConnTypeOK <=> ConnPlaces /\ ConnFlags /\ ConnReplies(1 .. MaxPackets) /\ sent \in 0 .. MaxPackets
  BY Zenon DEF ConnTypeOK, ConnPlaces, ConnFlags, ConnReplies

LEMMA ConnPlacesStep == ConnPlaces /\ [ConnNext]_connVars => ConnPlaces'
<1>. SUFFICES ASSUME ConnPlaces, [ConnNext]_connVars PROVE ConnPlaces'
  OBVIOUS
<1>. USE DEF ConnPlaces, At, Closers, Owners, inVars, outVars, flagVars
<1>1. CASE UNCHANGED connVars
  BY <1>1 DEF connVars
<1>2. CASE Input
  BY <1>2 DEF Input, InputCheck, InputRead, InputReadFails, InputSend, InputSendPanics,
     InputDrop, InputNext
<1>3. CASE Reader \/ TimerTick \/ External
  BY <1>3 DEF Reader, ReaderGets, ReaderEnds, TimerTick, External, ReaderLeaves, AppCloses,
     OutboundEnds
<1>4. ASSUME NEW w \in Writers, WriteOk(w) \/ WriteFails(w) \/ WriterClosesAgain(w)
      PROVE  ConnPlaces'
  BY <1>4 DEF WriteOk, WriteFails, WriterClosesAgain
<1>5. ASSUME NEW c \in Closers, Close(c) PROVE ConnPlaces'
  BY <1>5 DEF Close, CloseCheck, CloseSet, CloseCancel, CloseInterrupt, CloseCache
<1>. QED
  BY <1>1, <1>2, <1>3, <1>4, <1>5 DEF ConnNext

LEMMA ConnFlagsStep == ConnFlags /\ [ConnNext]_connVars => ConnFlags'
  BY Zenon DEF ConnFlags, ConnNext, connVars, inVars, outVars, flagVars, Input, InputCheck, InputRead,
     InputReadFails, InputSend, InputSendPanics, InputDrop, InputNext, Reader, ReaderGets,
     ReaderEnds, External, ReaderLeaves, AppCloses, OutboundEnds, TimerTick, WriteOk,
     WriteFails, WriterClosesAgain, Close, CloseCheck, CloseSet, CloseCancel,
     CloseInterrupt, CloseCache

\* A step that reads no new replies keeps each line within the same replies.
LEMMA ConnRepliesStep ==
    ASSUME NEW S, ConnReplies(S), [ConnNext]_connVars,
           InputRead => batch' \in Seq(S)
    PROVE  ConnReplies(S)'
<1>0. Len(cache) \in Nat
  BY LenProperties DEF ConnReplies
<1>. USE ConnAssumption, <1>0 DEF ConnReplies, inVars, outVars
<1>1. CASE InputRead
  BY <1>1 DEF InputRead
<1>2. CASE InputSend \/ InputDrop
  <2>1. batch # <<>>
    BY <1>2 DEF InputSend, InputDrop
  <2>2. /\ Head(batch) \in S
        /\ Tail(batch) \in Seq(S)
        /\ Append(cache, Head(batch)) \in Seq(S)
        /\ Len(Append(cache, Head(batch))) = Len(cache) + 1
    BY <2>1, RepliesMove
  <2>3. CASE InputSend
    BY <2>2, <2>3 DEF InputSend, HasRoom
  <2>4. CASE InputDrop
    BY <2>2, <2>4 DEF InputDrop
  <2>. QED
    BY <1>2, <2>3, <2>4
<1>3. CASE ReaderGets
  <2>1. /\ Tail(cache) \in Seq(S)
        /\ Len(Tail(cache)) = Len(cache) - 1
        /\ Append(got, Head(cache)) \in Seq(S)
    BY <1>3, RepliesMove DEF ReaderGets
  <2>. QED
    BY <1>3, <2>1 DEF ReaderGets
<1>4. ASSUME UNCHANGED <<batch, cache, got, dropped>> PROVE ConnReplies(S)'
  BY <1>4
<1>. QED
  BY <1>1, <1>2, <1>3, <1>4 DEF ConnNext, connVars, Input, InputCheck, InputReadFails,
     InputSendPanics, InputNext, Reader, ReaderEnds, External, ReaderLeaves, AppCloses,
     OutboundEnds, TimerTick, WriteOk, WriteFails, WriterClosesAgain, Close, CloseCheck,
     CloseSet, CloseCancel, CloseInterrupt, CloseCache

LEMMA ConnTypeStep == ConnTypeOK /\ [ConnNext]_connVars => ConnTypeOK'
<1>. SUFFICES ASSUME ConnTypeOK, [ConnNext]_connVars PROVE ConnTypeOK'
  OBVIOUS
<1>0. ConnPlaces /\ ConnFlags /\ ConnReplies(1 .. MaxPackets) /\ sent \in 0 .. MaxPackets
  BY ConnTypeParts
<1>1. ConnPlaces' /\ ConnFlags'
  BY <1>0, ConnPlacesStep, ConnFlagsStep
<1>2. InputRead => batch' \in Seq(1 .. MaxPackets) /\ sent' \in 0 .. MaxPackets
  <2>1. SUFFICES ASSUME NEW n \in 1 .. MaxBatch, sent + n <= MaxPackets,
                        batch' = [i \in 1 .. n |-> sent + i], sent' = sent + n
                 PROVE  batch' \in Seq(1 .. MaxPackets) /\ sent' \in 0 .. MaxPackets
    BY DEF InputRead
  <2>2. n \in Nat /\ sent \in Nat /\ MaxPackets \in Nat
    BY <1>0, ConnAssumption
  <2>3. \A i \in 1 .. n : sent + i \in 1 .. MaxPackets
    BY <2>1, <2>2
  <2>4. batch' \in [1 .. n -> 1 .. MaxPackets]
    BY <2>1, <2>3
  <2>5. batch' \in Seq(1 .. MaxPackets)
    BY <2>2, <2>4, SeqDef
  <2>. QED
    BY <2>1, <2>2, <2>5
<1>3. ConnReplies(1 .. MaxPackets)'
  BY <1>0, <1>2, ConnRepliesStep
<1>4. sent' \in 0 .. MaxPackets
  <2>1. ASSUME UNCHANGED sent PROVE sent' \in 0 .. MaxPackets
    BY <1>0, <2>1
  <2>. QED
    BY <1>2, <2>1 DEF ConnNext, connVars, Input, InputCheck, InputReadFails, InputSend,
       InputSendPanics, InputDrop, InputNext, Reader, ReaderGets, ReaderEnds, External,
       ReaderLeaves, AppCloses, OutboundEnds, TimerTick, WriteOk, WriteFails,
       WriterClosesAgain, Close, CloseCheck, CloseSet, CloseCancel, CloseInterrupt,
       CloseCache, inVars
<1>5. (ConnPlaces /\ ConnFlags /\ ConnReplies(1 .. MaxPackets) /\ sent \in 0 .. MaxPackets)'
  BY <1>1, <1>3, <1>4
<1>. QED
  BY <1>5, ConnTypeParts, PTL

\* The packet connection keeps its state well typed, its channel within its capacity.
THEOREM ConnTypeCorrect == ConnSpec => []ConnTypeOK
<1>1. ConnInit => ConnTypeOK
  <2>. SUFFICES ASSUME ConnInit PROVE ConnTypeOK
    OBVIOUS
  <2>1. ConnPlaces /\ ConnFlags
    BY DEF ConnInit, ConnPlaces, ConnFlags
  <2>2. ConnReplies(1 .. MaxPackets)
    BY ConnAssumption, EmptySeq DEF ConnInit, ConnReplies
  <2>3. sent \in 0 .. MaxPackets
    BY ConnAssumption DEF ConnInit
  <2>. QED
    BY <2>1, <2>2, <2>3, ConnTypeParts
<1>. QED
  BY <1>1, ConnTypeStep, PTL DEF ConnSpec

-------------------------------------------------------------------------------
(* dispatcherConn implements ReplyChannel.                                    *)

\* A line of replies is its first one and the others.
LEMMA HeadThenTail ==
    ASSUME NEW S, NEW t \in Seq(S), t # <<>>
    PROVE  Head(t) \in S /\ Tail(t) \in Seq(S) /\ t = <<Head(t)>> \o Tail(t)
<1>1. Len(t) \in Nat \ {0} /\ Head(t) = t[1]
  BY EmptySeq
<1>2. SubSeq(t, 1, Len(t)) = <<t[1]>> \o SubSeq(t, 2, Len(t))
  BY <1>1, SubSeqRecursiveFirst
<1>. QED
  BY <1>1, <1>2, SubSeqFull, TailIsSubSeq, HeadTailProperties

\* handleInput puts the next reply of its batch into the channel: the line is the same.
LEMMA LineKept ==
    ASSUME NEW S, NEW s \in Seq(S), NEW t \in Seq(S), t # <<>>
    PROVE  Append(s, Head(t)) \o Tail(t) = s \o t
<1>1. Head(t) \in S /\ Tail(t) \in Seq(S) /\ t = <<Head(t)>> \o Tail(t)
  BY HeadThenTail
<1>2. Append(s, Head(t)) = s \o <<Head(t)>>
  BY <1>1, AppendIsConcat
<1>3. <<Head(t)>> \in Seq(S)
  BY <1>1
<1>4. (s \o <<Head(t)>>) \o Tail(t) = s \o (<<Head(t)>> \o Tail(t))
  BY <1>1, <1>3, ConcatAssociative
<1>. QED
  BY <1>1, <1>2, <1>4

\* The read loop takes the first reply of the channel: it is the first of the line.
LEMMA FrontOfLine ==
    ASSUME NEW S, NEW s \in Seq(S), NEW t \in Seq(S), s # <<>>
    PROVE  /\ s \o t # <<>>
           /\ Head(s \o t) = Head(s)
           /\ Tail(s \o t) = Tail(s) \o t
<1>1. /\ Len(s) \in Nat \ {0} /\ Len(t) \in Nat
      /\ s \o t \in Seq(S) /\ Len(s \o t) = Len(s) + Len(t)
      /\ \A i \in 1 .. Len(s) + Len(t) : (s \o t)[i] = IF i <= Len(s) THEN s[i] ELSE t[i - Len(s)]
  BY EmptySeq, LenProperties, ConcatProperties
<1>2. s \o t # <<>>
  BY <1>1, EmptySeq
<1>3. Head(s \o t) = Head(s)
  BY <1>1, <1>2
<1>4. Tail(s) \in Seq(S) /\ s = <<Head(s)>> \o Tail(s) /\ <<Head(s)>> \in Seq(S)
  BY HeadThenTail
<1>5. s \o t = <<Head(s)>> \o (Tail(s) \o t)
  BY <1>4, ConcatAssociative
<1>6. Tail(s) \o t \in Seq(S)
  BY <1>4, ConcatProperties
<1>7. s \o t = <<Head(s)>> \o Tail(s \o t) /\ Tail(s \o t) \in Seq(S)
  BY <1>1, <1>2, <1>3, HeadThenTail
<1>8. \A a, b, c \in Seq(S) : a \o b = a \o c => b = c
  BY ConcatSimplifications
<1>9. <<Head(s)>> \o Tail(s \o t) = <<Head(s)>> \o (Tail(s) \o t)
  BY <1>5, <1>7
<1>10. Tail(s \o t) = Tail(s) \o t
  BY <1>4, <1>6, <1>7, <1>8, <1>9
<1>. QED
  BY <1>2, <1>3, <1>10

\* handleInput releases the next reply of its batch: the one behind the channel.
LEMMA BehindTheChannel ==
    ASSUME NEW S, NEW s \in Seq(S), NEW t \in Seq(S), t # <<>>
    PROVE  /\ Len(s) + 1 \in DOMAIN (s \o t)
           /\ (s \o t)[Len(s) + 1] = Head(t)
           /\ RemoveAt(s \o t, Len(s) + 1) = s \o Tail(t)
<1>. DEFINE u == s \o t
<1>0. Len(s) \in Nat /\ Len(t) \in Nat \ {0}
  BY EmptySeq, LenProperties
<1>1. /\ Len(s) \in Nat /\ Len(t) \in Nat \ {0}
      /\ u \in Seq(S) /\ Len(u) = Len(s) + Len(t)
      /\ \A i \in 1 .. Len(s) + Len(t) : u[i] = IF i <= Len(s) THEN s[i] ELSE t[i - Len(s)]
  BY EmptySeq, LenProperties, ConcatProperties
<1>2. DOMAIN u = 1 .. Len(u)
  BY <1>1, LenProperties
<1>3. u[Len(s) + 1] = t[1] /\ Head(t) = t[1]
  BY <1>1
<1>4. SubSeq(u, 1, Len(s)) = s
  <2>1. CASE Len(s) = 0
    BY <2>1, EmptySeq, SubSeqEmpty
  <2>2. CASE Len(s) # 0
    <3>1. SubSeq(u, 1, Len(s)) = SubSeq(s, 1, Len(s))
      BY <1>1, <2>2, SubSeqOfConcat1
    <3>. QED
      BY <3>1, SubSeqFull
  <2>. QED
    BY <2>1, <2>2
<1>5. SubSeq(u, Len(s) + 2, Len(u)) = Tail(t)
  <2>1. Tail(t) = SubSeq(t, 2, Len(t))
    BY TailIsSubSeq
  <2>2. CASE Len(t) = 1
    <3>1. SubSeq(t, 2, Len(t)) = <<>>
      BY <2>2, SubSeqEmpty
    <3>2. Len(s) + 2 \in Int /\ Len(u) \in Int /\ Len(u) < Len(s) + 2
      BY <1>1, <2>2
    <3>3. SubSeq(u, Len(s) + 2, Len(u)) = <<>>
      BY <3>2, SubSeqEmpty
    <3>. QED
      BY <2>1, <3>1, <3>3
  <2>3. CASE Len(t) # 1
    <3>. DEFINE m == Len(s) + 2
                n == Len(s) + Len(t)
    <3>0. ASSUME NEW a \in Nat, NEW b \in Nat \ {0, 1}
          PROVE  /\ a + 2 \in a + 1 .. a + b /\ a + b \in a + 1 .. a + b
                 /\ (a + 2) - a = 2 /\ (a + b) - a = b
      OBVIOUS
    <3>1. /\ m \in Len(s) + 1 .. Len(s) + Len(t) /\ n \in Len(s) + 1 .. Len(s) + Len(t)
          /\ m - Len(s) = 2 /\ n - Len(s) = Len(t)
      BY <1>0, <2>3, <3>0
    <3>. HIDE DEF m, n
    <3>2. SubSeq(s \o t, m, n) = SubSeq(t, m - Len(s), n - Len(s))
      BY <3>1, SubSeqOfConcat2
    <3>. QED
      BY <1>1, <2>1, <3>1, <3>2 DEF m, n
  <2>. QED
    BY <2>2, <2>3
<1>6. RemoveAt(u, Len(s) + 1) = SubSeq(u, 1, Len(s)) \o SubSeq(u, Len(s) + 2, Len(u))
  <2>1. (Len(s) + 1) - 1 = Len(s) /\ (Len(s) + 1) + 1 = Len(s) + 2
    BY <1>0
  <2>. HIDE DEF u
  <2>2. RemoveAt(u, Len(s) + 1) =
            SubSeq(u, 1, (Len(s) + 1) - 1) \o SubSeq(u, (Len(s) + 1) + 1, Len(u))
    BY Zenon DEF RemoveAt
  <2>. QED
    BY <2>1, <2>2, Zenon
<1>7. Len(s) + 1 \in 1 .. Len(u)
  BY <1>1
<1>. QED
  BY <1>2, <1>3, <1>4, <1>5, <1>6, <1>7

\* What the refinement rests on: the context is cancelled only by a caller of Close
\* that has set the field.
ChannelInv == RepliesInv /\ CloseInv /\ Len(cache) <= Capacity /\ (done => closed)

LEMMA ChannelInvariance == ConnSpec => []ChannelInv
<1>1. ConnInit => RepliesInv /\ CloseInv /\ (done => closed)
  <2>1. ConnInit => RepliesInv
    BY EmptySeq DEF ConnInit, RepliesInv, Increasing, Below, ToSet
  <2>2. ConnInit => CloseInv /\ (done => closed)
    BY ConnAssumption DEF ConnInit, CloseInv, ConnCloseType, RaceInv, ClosePanicNeedsRace,
       Past, Closers, Owners
  <2>. QED
    BY <2>1, <2>2
<1>2. CloseInv /\ (done => closed) /\ [ConnNext]_connVars => (done' => closed')
  <2>. SUFFICES ASSUME CloseInv, done => closed, [ConnNext]_connVars PROVE done' => closed'
    OBVIOUS
  <2>1. ASSUME NEW c \in Closers, Close(c) PROVE done' => closed'
    <3>1. CASE CloseCancel(c)
      <4>1. closed /\ closed' = closed
        BY <3>1 DEF CloseCancel, CloseInv, RaceInv, Past
      <4>. QED
        BY <4>1
    <3>2. CASE CloseSet(c)
      BY <3>2, Zenon DEF CloseSet
    <3>3. CASE CloseCheck(c) \/ CloseInterrupt(c) \/ CloseCache(c)
      <4>1. UNCHANGED <<closed, done>>
        BY <3>3, Zenon DEF CloseCheck, CloseInterrupt, CloseCache, flagVars
      <4>. QED
        BY <4>1
    <3>. QED
      BY <2>1, <3>1, <3>2, <3>3, Zenon DEF Close
  <2>2. ASSUME UNCHANGED <<closed, done>> PROVE done' => closed'
    BY <2>2
  <2>. QED
    BY <2>1, <2>2, Zenon DEF ConnNext, connVars, flagVars, Input, InputCheck, InputRead,
       InputReadFails, InputSend, InputSendPanics, InputDrop, InputNext, Reader, ReaderGets,
       ReaderEnds, External, ReaderLeaves, AppCloses, OutboundEnds, TimerTick, WriteOk,
       WriteFails, WriterClosesAgain
<1>3. ConnTypeOK => Len(cache) <= Capacity
  BY Zenon DEF ConnTypeOK
<1>. QED
  BY <1>1, <1>2, <1>3, RepliesInvStep, CloseInvStep, ConnTypeCorrect, PTL DEF ConnSpec, ChannelInv

\* What ReadMultiBuffer returns is a Send, a packet out of the channel a Deliver, a
\* released one a Lose of the reply behind the channel, the closed field a Shut.
LEMMA ChannelStep == ChannelInv /\ [ConnNext]_connVars => [Channel!Next]_(Channel!channelVars)
<1>. SUFFICES ASSUME ChannelInv, [ConnNext]_connVars
              PROVE  [Channel!Next]_(Channel!channelVars)
  OBVIOUS
<1>0. /\ cache \in Seq(Nat) /\ batch \in Seq(Nat)
      /\ input # "forward" => batch = <<>>
  BY DEF ChannelInv, RepliesInv
<1>1. ASSUME UNCHANGED <<sent, cache, batch, got, dropped, closed, reader>>
      PROVE  UNCHANGED Channel!channelVars
  BY <1>1 DEF Channel!channelVars
<1>2. CASE InputRead
  <2>1. PICK n \in 1 .. MaxBatch :
            /\ sent + n <= MaxPackets
            /\ batch' = [i \in 1 .. n |-> sent + i]
            /\ sent' = sent + n
    BY <1>2 DEF InputRead
  <2>2. batch = <<>> /\ UNCHANGED <<cache, got, dropped, closed, reader>>
    BY <1>0, <1>2 DEF InputRead, outVars, flagVars
  <2>3. cache' \o batch' = (cache \o batch) \o [i \in 1 .. n |-> sent + i]
    BY <1>0, <2>1, <2>2, ConcatEmptySeq
  <2>4. Channel!Send(n)
    BY <2>1, <2>2, <2>3 DEF Channel!Send
  <2>. QED
    BY <2>4 DEF Channel!Next
<1>3. CASE InputSend
  <2>1. /\ batch # <<>> /\ cache' = Append(cache, Head(batch)) /\ batch' = Tail(batch)
        /\ UNCHANGED <<sent, got, dropped, closed, reader>>
    BY <1>3 DEF InputSend, outVars, flagVars
  <2>2. cache' \o batch' = cache \o batch
    BY <1>0, <2>1, LineKept
  <2>. QED
    BY <2>1, <2>2 DEF Channel!channelVars
<1>4. CASE InputDrop
  <2>1. /\ batch # <<>> /\ batch' = Tail(batch)
        /\ dropped' = dropped \cup {Head(batch)}
        /\ done \/ ~(Len(cache) < Capacity)
        /\ UNCHANGED <<sent, cache, got, closed, reader>>
    BY <1>4 DEF InputDrop, HasRoom, outVars, flagVars
  <2>2. closed \/ Len(cache) + 1 > Capacity
    BY <1>0, <2>1, LenProperties, ConnAssumption DEF ChannelInv
  <2>3. /\ Len(cache) + 1 \in DOMAIN (cache \o batch)
        /\ (cache \o batch)[Len(cache) + 1] = Head(batch)
        /\ RemoveAt(cache \o batch, Len(cache) + 1) = cache \o Tail(batch)
    BY <1>0, <2>1, BehindTheChannel
  <2>4. /\ dropped' = dropped \cup {(cache \o batch)[Len(cache) + 1]}
        /\ cache' \o batch' = Channel!RemoveAt(cache \o batch, Len(cache) + 1)
    BY <2>1, <2>3 DEF RemoveAt, Channel!RemoveAt
  <2>5. Channel!Lose(Len(cache) + 1)
    BY <2>1, <2>2, <2>4, Zenon DEF Channel!Lose
  <2>. QED
    BY <2>3, <2>5 DEF Channel!Next
<1>5. CASE ReaderGets
  <2>1. /\ reader = "read" /\ cache # <<>>
        /\ got' = Append(got, Head(cache)) /\ cache' = Tail(cache)
        /\ UNCHANGED <<batch, sent, dropped, closed, reader>>
    BY <1>5 DEF ReaderGets, inVars, flagVars
  <2>2. /\ cache \o batch # <<>>
        /\ Head(cache \o batch) = Head(cache)
        /\ Tail(cache \o batch) = Tail(cache) \o batch
    BY <1>0, <2>1, FrontOfLine
  <2>3. Channel!Deliver
    BY <2>1, <2>2 DEF Channel!Deliver
  <2>. QED
    BY <2>3 DEF Channel!Next
<1>6. CASE ReaderEnds
  <2>1. closed
    BY <1>6 DEF ReaderEnds, ChannelInv, CloseInv, RaceInv
  <2>2. Channel!End
    BY <1>6, <2>1 DEF ReaderEnds, inVars, flagVars, Channel!End
  <2>. QED
    BY <2>2 DEF Channel!Next
<1>7. CASE ReaderLeaves
  <2>1. Channel!Leave
    BY <1>7 DEF ReaderLeaves, inVars, flagVars, Channel!Leave
  <2>. QED
    BY <2>1 DEF Channel!Next
<1>8. ASSUME NEW c \in Closers, CloseSet(c) PROVE Channel!Next
  <2>1. Channel!Shut
    BY <1>8 DEF CloseSet, inVars, outVars, Channel!Shut
  <2>. QED
    BY <2>1 DEF Channel!Next
<1>9. ASSUME NEW c \in Closers, CloseCheck(c) \/ CloseCancel(c) \/ CloseInterrupt(c) \/ CloseCache(c)
      PROVE  UNCHANGED Channel!channelVars
  BY <1>1, <1>9, Zenon DEF CloseCheck, CloseCancel, CloseInterrupt, CloseCache, inVars, outVars, flagVars
<1>10. CASE \/ InputCheck \/ InputReadFails \/ InputSendPanics \/ InputNext
            \/ TimerTick \/ AppCloses \/ OutboundEnds
  BY <1>1, <1>10, Zenon DEF InputCheck, InputReadFails, InputSendPanics, InputNext, TimerTick,
     AppCloses, OutboundEnds, inVars, outVars, flagVars
<1>11. ASSUME NEW w \in Writers, WriteOk(w) \/ WriteFails(w) \/ WriterClosesAgain(w)
       PROVE  UNCHANGED Channel!channelVars
  BY <1>1, <1>11 DEF WriteOk, WriteFails, WriterClosesAgain, inVars, outVars, flagVars
<1>12. CASE UNCHANGED connVars
  BY <1>1, <1>12 DEF connVars, inVars, outVars, flagVars
<1>. QED
  BY <1>2, <1>3, <1>4, <1>5, <1>6, <1>7, <1>8, <1>9, <1>10, <1>11, <1>12
     DEF ConnNext, Input, Reader, External, Close

\* The packet connection is a line of replies: whatever handleInput, the timer, the
\* writers and the app do, a reply is released only behind a full channel or while
\* the connection is being closed, and the read loop takes the others in their order,
\* for any capacity, batches and number of replies.
THEOREM ReplyChannelImplemented == ConnSpec => ImplementsReplyChannel
<1>1. ConnInit => Channel!Init
  <2>. SUFFICES ASSUME ConnInit PROVE Channel!Init
    OBVIOUS
  <2>1. <<>> \o <<>> = <<>>
    BY EmptySeq, ConcatEmptySeq
  <2>. QED
    BY <2>1 DEF ConnInit, Channel!Init
<1>. QED
  BY <1>1, ChannelStep, ChannelInvariance, PTL DEF ConnSpec, ImplementsReplyChannel, Channel!Spec

-------------------------------------------------------------------------------
(* dispatcherConn: the safety core of CloseEndsBoth.                          *)

\* Caller c stands before one of the steps l of Close.
Stands(c, l) == close[c] \in l

\* The effects of Close come in its order whatever callers run it together, and a
\* caller that has begun them is between two of them until the last one is there.
EndsInv ==
    /\ \A c \in Closers :
        /\ Stands(c, {"cancel", "interrupt", "close"}) => closed
        /\ Stands(c, {"interrupt", "close"}) => done
        /\ Stands(c, {"close"}) => link = "interrupted"
    /\ done => closed
    /\ link = "interrupted" => done
    /\ cacheClosed => link = "interrupted"
    /\ closed => done \/ \E c \in Closers : Stands(c, {"cancel"})
    /\ done => link = "interrupted" \/ \E c \in Closers : Stands(c, {"interrupt"})
    /\ link = "interrupted" => cacheClosed \/ \E c \in Closers : Stands(c, {"close"})

\* Only Close touches its flags; the outbound ends a link that is up.
LEMMA EndsInvStep == ConnTypeOK /\ CloseInv /\ EndsInv /\ [ConnNext]_connVars => EndsInv'
<1>. SUFFICES ASSUME ConnTypeOK, CloseInv, EndsInv, [ConnNext]_connVars PROVE EndsInv'
  OBVIOUS
<1>0. close \in [Closers -> {"idle", "check", "set", "cancel", "interrupt", "close", "done"}]
  BY DEF ConnTypeOK
<1>. USE <1>0 DEF EndsInv, Stands
<1>1. ASSUME UNCHANGED <<closed, done, cacheClosed>>,
             link' = link \/ (link = "up" /\ link' = "ended"),
             \A c \in Closers :
                close'[c] = close[c] \/ (close[c] \notin {"cancel", "interrupt", "close"}
                                         /\ close'[c] \notin {"cancel", "interrupt", "close"})
      PROVE  EndsInv'
  BY <1>1
<1>2. CASE Input
  <2>1. CASE InputCheck \/ InputReadFails
    <3>1. UNCHANGED <<closed, done, cacheClosed, link>>
      BY <2>1 DEF InputCheck, InputReadFails, flagVars
    <3>2. \/ UNCHANGED close
          \/ close["input"] \notin {"cancel", "interrupt", "close"} /\ At("input", "check")
      BY <2>1 DEF InputCheck, InputReadFails, CloseInv, ConnCloseType
    <3>. QED
      BY <3>1, <3>2, <1>1 DEF At
  <2>2. CASE InputRead \/ InputSend \/ InputSendPanics \/ InputDrop \/ InputNext
    BY <2>2, <1>1 DEF InputRead, InputSend, InputSendPanics, InputDrop, InputNext, flagVars
  <2>. QED
    BY <1>2, <2>1, <2>2 DEF Input
<1>3. CASE Reader \/ TimerTick \/ External
  BY <1>3, <1>1 DEF Reader, ReaderGets, ReaderEnds, TimerTick, External, ReaderLeaves,
     AppCloses, OutboundEnds, At, Closers, Owners, inVars, outVars, flagVars
<1>4. ASSUME NEW w \in Writers, WriteOk(w) \/ WriteFails(w) \/ WriterClosesAgain(w)
      PROVE  EndsInv'
  BY <1>4, <1>1 DEF WriteOk, WriteFails, WriterClosesAgain, At, Closers, flagVars
<1>5. ASSUME NEW c \in Closers, Close(c) PROVE EndsInv'
  <2>1. CASE CloseCheck(c)
    BY <2>1, <1>1 DEF CloseCheck, At, flagVars
  <2>2. CASE CloseSet(c)
    BY <2>2 DEF CloseSet, At
  <2>3. CASE CloseCancel(c)
    BY <2>3 DEF CloseCancel, At
  <2>4. CASE CloseInterrupt(c)
    BY <2>4 DEF CloseInterrupt, At
  <2>5. CASE CloseCache(c)
    <3>1. cacheClosed' /\ UNCHANGED <<closed, done, link>>
      BY <2>5 DEF CloseCache
    <3>2. \A d \in Closers : close'[d] = close[d] \/ close'[d] = "done"
      BY <2>5 DEF CloseCache, At
    <3>3. link = "interrupted" /\ done /\ closed
      BY <2>5 DEF CloseCache
    <3>. QED
      BY <3>1, <3>2, <3>3
  <2>. QED
    BY <1>5, <2>1, <2>2, <2>3, <2>4, <2>5 DEF Close
<1>6. CASE UNCHANGED connVars
  BY <1>6 DEF connVars, flagVars
<1>. QED
  BY <1>2, <1>3, <1>4, <1>5, <1>6 DEF ConnNext

\* Once closed is set, either a caller of Close is at one of the three calls that
\* follow, none of which waits, or all three have run, in their order: the context is
\* cancelled, the link interrupted and the channel closed, so that nothing handleInput
\* or the read loop waits in holds them any longer.
CloseGoesOn ==
    /\ closed =>
        \/ done /\ link = "interrupted" /\ cacheClosed
        \/ \E c \in Closers : close[c] \in {"cancel", "interrupt", "close"}
    /\ cacheClosed => link = "interrupted"
    /\ link = "interrupted" => done
    /\ done => closed

\* A Close that is past its check comes to its end, however many callers run it
\* together, for any replies and capacity.
THEOREM CloseReachesEnd == ConnSpec => []CloseGoesOn
<1>1. ConnInit => EndsInv
  BY DEF ConnInit, EndsInv, Stands
<1>2. EndsInv => CloseGoesOn
  BY DEF EndsInv, CloseGoesOn, Stands
<1>3. ConnInit => CloseInv
  BY ConnAssumption DEF ConnInit, CloseInv, ConnCloseType, RaceInv, ClosePanicNeedsRace, Past,
     Closers, Owners
<1>. QED
  BY ConnTypeCorrect, CloseInvStep, EndsInvStep, <1>1, <1>2, <1>3, PTL DEF ConnSpec
===============================================================================
