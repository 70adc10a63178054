-------------------------------- MODULE Tunnel --------------------------------
(***************************************************************************)
(* NewTun2ray and Tun2ray.Close (tun.go) beside the V2RayInstance they are *)
(* given.  A tun puts its dialers into variables of the process, which the *)
(* sockets of every core use: the system dialer, the control function of   *)
(* the echo sockets and the dialer of the local DNS client.                *)
(*                                                                         *)
(* The app's controlling thread makes these calls too, one after another;  *)
(* it may open a tun before it closes the one before.                      *)
(***************************************************************************)
EXTENDS V2Ray

CONSTANTS
    Tuns,    \* the calls of NewTun2ray
    NoTun    \* no tun

ASSUME TunAssumption == NoTun \notin Tuns

VARIABLES
    tun,          \* what has become of each tun
    current,      \* the tun whose construction or Close is going on
    sysDialer,    \* the tun whose dialer is the alternative system dialer
    controlFunc,  \* the tun whose function is pingproto.ControlFunc
    dnsDialer,    \* the tun whose dialer is the alternative DNS dialer
    dns,          \* the core whose dnsClient the dialer of each tun resolves by
    superseded    \* history: tuns after which another installed or cleared

globals == <<sysDialer, controlFunc, dnsDialer>>
tunVars == <<tun, current, globals, dns, superseded>>
vars == <<v2rayVars, tunVars>>

Init ==
    /\ V2RayInit
    /\ tun = [t \in Tuns |-> "new"]
    /\ current = NoTun
    /\ sysDialer = NoTun
    /\ controlFunc = NoTun
    /\ dnsDialer = NoTun
    /\ dns = [t \in Tuns |-> 0]
    /\ superseded = {}

Goto(step) == ctl' = step /\ UNCHANGED <<fields, coreVars, dial, history>>

\* Every other tun that has put its dialers somewhere is superseded by this one.
Supersede(t) == superseded' = superseded \cup {s \in Tuns \ {t} : tun[s] = "open"}

-------------------------------------------------------------------------------
(* NewTun2ray                                                                 *)

\* gvisor.New or nat.New
NewDevice(t) ==
    /\ ctl = "idle"
    /\ tun[t] = "new"
    /\ tun' = [tun EXCEPT ![t] = "device"]
    /\ current' = t
    /\ Goto("install")
    /\ UNCHANGED <<globals, dns, superseded>>

\* Variant: the dialer is installed before the device is made.
NewDeviceFailsLate(t) ==
    /\ ctl = "idle"
    /\ tun[t] = "new"
    /\ tun' = [tun EXCEPT ![t] = "failed"]
    /\ sysDialer' = t
    /\ Goto("idle")
    /\ UNCHANGED <<current, controlFunc, dnsDialer, dns, superseded>>

\* An error of the device, or of the pcap file, returns before anything is set.
NewDeviceFails(t) ==
    /\ ctl = "idle"
    /\ tun[t] = "new"
    /\ tun' = [tun EXCEPT ![t] = "failed"]
    /\ Goto("idle")
    /\ UNCHANGED <<current, globals, dns, superseded>>

\* dc := config.V2Ray.dnsClient; internet.UseAlternativeSystemDialer
InstallSystem ==
    /\ ctl = "install"
    /\ dns' = [dns EXCEPT ![current] = features]
    /\ sysDialer' = current
    /\ Supersede(current)
    /\ Goto("control")
    /\ UNCHANGED <<tun, current, controlFunc, dnsDialer>>

\* pingproto.ControlFunc = ...
InstallControl ==
    /\ ctl = "control"
    /\ controlFunc' = current
    /\ Goto("ping")
    /\ UNCHANGED <<tun, current, sysDialer, dnsDialer, dns, superseded>>

\* outboundManager.GetDefaultHandler(): nil when the instance has no core.
PingOutbound ==
    /\ ctl = "ping"
    /\ Goto(IF features = 0 THEN "panic" ELSE "dns")
    /\ UNCHANGED tunVars

\* internet.UseAlternativeSystemDNSDialer; return t, nil
InstallDns ==
    /\ ctl = "dns"
    /\ dnsDialer' = current
    /\ tun' = [tun EXCEPT ![current] = "open"]
    /\ current' = NoTun
    /\ Goto("idle")
    /\ UNCHANGED <<sysDialer, controlFunc, dns, superseded>>

-------------------------------------------------------------------------------
(* Tun2ray.Close clears the variables whoever's they are.                     *)

ClearControl(t) ==
    /\ ctl = "idle"
    /\ tun[t] = "open"
    /\ controlFunc' = NoTun
    /\ tun' = [tun EXCEPT ![t] = "closing"]
    /\ current' = t
    /\ Supersede(t)
    /\ Goto("clearSys")
    /\ UNCHANGED <<sysDialer, dnsDialer, dns>>

ClearSystem ==
    /\ ctl = "clearSys"
    /\ sysDialer' = NoTun
    /\ Goto("clearDns")
    /\ UNCHANGED <<tun, current, controlFunc, dnsDialer, dns, superseded>>

ClearDns ==
    /\ ctl = "clearDns"
    /\ dnsDialer' = NoTun
    /\ Goto("device")
    /\ UNCHANGED <<tun, current, sysDialer, controlFunc, dns, superseded>>

\* comm.CloseIgnore(t.dev)
CloseDevice ==
    /\ ctl = "device"
    /\ tun' = [tun EXCEPT ![current] = "closed"]
    /\ current' = NoTun
    /\ Goto("idle")
    /\ UNCHANGED <<globals, dns, superseded>>

-------------------------------------------------------------------------------
Next ==
    /\ ~DialPanicked
    /\ ctl # "panic"
    /\ \/ V2RayNext /\ UNCHANGED tunVars
       \/ \E t \in Tuns : NewDevice(t) \/ NewDeviceFails(t) \/ ClearControl(t)
       \/ InstallSystem \/ InstallControl \/ PingOutbound \/ InstallDns
       \/ ClearSystem \/ ClearDns \/ CloseDevice

Spec == Init /\ [][Next]_vars

-------------------------------------------------------------------------------
(* Properties.                                                                *)

\* The three variables of the process name the open tun, and its dialer resolves
\* by the DNS of a core, unless another tun was installed after it or an older
\* one was closed after it.  A constructor that fails takes nothing away, and no
\* variable is left with a tun that is closed.
DialersOfOpenTun ==
    /\ \A t \in Tuns : tun[t] = "open" /\ t \notin superseded =>
           sysDialer = t /\ controlFunc = t /\ dnsDialer = t /\ dns[t] # 0
    /\ ctl = "idle" => \A t \in {sysDialer, controlFunc, dnsDialer} \ {NoTun} : tun[t] = "open"
===============================================================================
