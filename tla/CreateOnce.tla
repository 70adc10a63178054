------------------------------ MODULE CreateOnce ------------------------------
(***************************************************************************)
(* What the get-or-create idiom of Tun2ray promises.  NewPacket,           *)
(* NewPingPacket and the traffic statistics of NewConnection all use it:   *)
(* sync.Map.LoadOrStore of a sync.Cond elects the caller that creates the  *)
(* entry of a key, every caller that finds a Cond waits on it, and the     *)
(* elected caller deletes the Cond and broadcasts when it is done.         *)
(*                                                                         *)
(* The promise: a key has at most one creator at a time, and a caller that *)
(* joined a creator goes on only after that creator has finished.          *)
(* UdpSession, PingSession and AppStats implement it.                      *)
(***************************************************************************)

CONSTANTS
    Callers,   \* goroutines that need the entry of a key
    Keys,      \* what entries are looked up by
    KeyOf,     \* the key each caller needs
    None       \* no caller

\* What the users of the idiom guarantee; the theorems name it where they need it.
OnceAssumption ==
    /\ KeyOf \in [Callers -> Keys]
    /\ None \notin Callers

VARIABLES
    phase,     \* what each caller is doing
    holder,    \* the creator of each key, if any
    joined     \* the creator each waiting caller joined

onceVars == <<phase, holder, joined>>

Phases == {"idle", "creating", "created", "waiting", "released", "bypassed"}

OnceTypeOK ==
    /\ phase \in [Callers -> Phases]
    /\ holder \in [Keys -> Callers \cup {None}]
    /\ joined \in [Callers -> Callers \cup {None}]

Init ==
    /\ phase = [c \in Callers |-> "idle"]
    /\ holder = [k \in Keys |-> None]
    /\ joined = [c \in Callers |-> None]

\* The entry exists: no election.
Bypass(c) ==
    /\ phase[c] = "idle"
    /\ phase' = [phase EXCEPT ![c] = "bypassed"]
    /\ UNCHANGED <<holder, joined>>

\* LoadOrStore stored this caller's Cond: it creates the entry.
Create(c) ==
    /\ phase[c] = "idle"
    /\ holder[KeyOf[c]] = None
    /\ phase' = [phase EXCEPT ![c] = "creating"]
    /\ holder' = [holder EXCEPT ![KeyOf[c]] = c]
    /\ joined' = [joined EXCEPT ![c] = c]

\* LoadOrStore returned another caller's Cond: wait for that caller.
Join(c) ==
    /\ phase[c] = "idle"
    /\ holder[KeyOf[c]] # None
    /\ phase' = [phase EXCEPT ![c] = "waiting"]
    /\ joined' = [joined EXCEPT ![c] = holder[KeyOf[c]]]
    /\ UNCHANGED holder

\* The creator is done and gives up the key.
Finish(c) ==
    /\ phase[c] = "creating"
    /\ phase' = [phase EXCEPT ![c] = "created"]
    /\ holder' = [holder EXCEPT ![KeyOf[c]] = None]
    /\ UNCHANGED joined

\* A waiting caller goes on: only after the creator it joined.
Release(c) ==
    /\ phase[c] = "waiting"
    /\ phase[joined[c]] = "created"
    /\ phase' = [phase EXCEPT ![c] = "released"]
    /\ UNCHANGED <<holder, joined>>

Next ==
    \E c \in Callers : Bypass(c) \/ Create(c) \/ Join(c) \/ Finish(c) \/ Release(c)

Spec == Init /\ [][Next]_onceVars

-------------------------------------------------------------------------------
\* Two callers never create the entry of one key at the same time: NewPacket
\* would dial the destination twice, NewConnection would count on two appStats.
OneCreator ==
    \A c, d \in Callers :
        /\ phase[c] = "creating"
        /\ phase[d] = "creating"
        /\ KeyOf[c] = KeyOf[d]
        => c = d

\* A caller that goes on was waiting for a creator of its own key that is done.
ReleasedAfterCreator ==
    \A c \in Callers :
        phase[c] = "released" =>
            /\ joined[c] # c
            /\ joined[c] \in Callers
            /\ KeyOf[joined[c]] = KeyOf[c]
            /\ phase[joined[c]] = "created"

\* The inductive form of both: a caller that creates holds its key; a caller that
\* waits joined a creator of its key, and one that was released one that is done.
OnceInv ==
    /\ OnceTypeOK
    /\ \A c \in Callers :
        /\ phase[c] = "creating" => holder[KeyOf[c]] = c
        /\ phase[c] \in {"waiting", "released"} =>
            /\ joined[c] \in Callers \ {c}
            /\ KeyOf[joined[c]] = KeyOf[c]
            /\ phase[joined[c]] \in {"creating", "created"}
        /\ phase[c] = "released" => phase[joined[c]] = "created"
    /\ \A k \in Keys : holder[k] # None =>
        KeyOf[holder[k]] = k /\ phase[holder[k]] = "creating"
===============================================================================
