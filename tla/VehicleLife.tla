----------------------------- MODULE VehicleLife -----------------------------
(***************************************************************************)
(* One vehicle id from the server's point of view: created, driven,        *)
(* wrecked, respawned, destroyed, created again.  All the server knows of  *)
(* it comes from the clients' packets, and a client learns late what the   *)
(* server has done.  A life is what lies between two spawns.               *)
(*                                                                         *)
(* A client sends what it likes about the vehicle it shows: who sits where *)
(* and what burns is the game's affair.  Sync packets and the RPC          *)
(* RPC_VehicleDestroyed are sequenced on one channel, so that they come in *)
(* their order or not at all, and are taken as sent when they come: what   *)
(* was sent before the client had an RPC and comes late looks to the       *)
(* server as if the RPC had come late.  RPCs to a client are RELIABLE:     *)
(* they arrive, at any time and in any order.                              *)
(***************************************************************************)
EXTENDS Integers, FiniteSets, SequencesExt

CONSTANTS
    Players,   \* player ids
    MaxLives,  \* bound: lives of the vehicle id in all
    MaxWire,   \* bound: RPCs under way to a client
    MaxLate,   \* bound: clients to whom an RPC comes before an earlier one
    None       \* INVALID_ID, no packet

ASSUME VehicleAssumption ==
    /\ None \notin Players
    /\ MaxLives \in Nat \ {0}
    /\ MaxWire \in Nat
    /\ MaxLate \in Nat

VARIABLES
    life,       \* number of the vehicle's life, 0 while the slot is free
    lives,      \* history: lives so far
    dead,       \* m_bDead
    notified,   \* m_bDeathHasBeenNotified
    occupied,   \* m_bHasBeenOccupied
    driver,     \* m_byteDriverID
    respawned,  \* m_dwLastRespawnedTick: "now" under 5, "young" under 10 seconds ago
    seen,       \* m_dwLastSeenOccupiedTick: "now", or "passed" when the time
                \* that is waited for (the respawn delay; 10 seconds) is over
    noticing,   \* OnVehicleDeath is under way
    place,      \* m_byteState and m_VehicleID of each player: driver or
                \* passenger of this vehicle, or away; or no player at all
    shows,      \* the life each client shows, 0 for none
    due,        \* the life that a client's vehicle is marked to respawn into, or 0
    down,       \* RPCs on their way to each client, as sent
    stale,      \* history: the last stored sync packet was about another life, though
                \* its sender is neither slow nor late
    wheel,      \* history: who sent the last driver's packet for this life, None if a
                \* script has chosen a driver since
    late,       \* history: clients to whom an RPC came before an earlier one
    slow,       \* history: clients who had not caught up with the last respawn
                \* 5 seconds after it
    untold      \* history: clients to whom nobody told of the present vehicle

vehicleVars == <<life, lives, dead, notified, occupied, driver, respawned, seen, stale>>
recordVars  == <<place, wheel>>
netVars     == <<shows, due, down, late, untold>>
vars == <<vehicleVars, noticing, recordVars, netVars, slow>>

Down == [op : {"spawn", "respawn"}, life : 1 .. MaxLives] \cup [op : {"destroy"}, life : {0}]
Places == {"gone", "away", "driver", "passenger"}

TypeOK ==
    /\ lives \in 0 .. MaxLives /\ life \in {0, lives}
    /\ dead \in BOOLEAN /\ notified \in BOOLEAN /\ occupied \in BOOLEAN
    /\ driver \in Players \cup {None}
    /\ respawned \in {"now", "young", "old"}
    /\ seen \in {"now", "passed"}
    /\ noticing \in BOOLEAN
    /\ place \in [Players -> Places]
    /\ shows \in [Players -> 0 .. MaxLives]
    /\ due \in [Players -> 0 .. MaxLives]
    /\ down \in [Players -> Seq(Down)]
    /\ stale \in BOOLEAN
    /\ wheel \in Players \cup {None}
    /\ late \subseteq Players /\ slow \subseteq Players /\ untold \subseteq Players

Init ==
    /\ life = 0
    /\ lives = 0
    /\ dead = FALSE
    /\ notified = FALSE
    /\ occupied = FALSE
    /\ driver = None
    /\ respawned = "old"
    /\ seen = "passed"
    /\ noticing = FALSE
    /\ place = [p \in Players |-> "gone"]
    /\ shows = [p \in Players |-> 0]
    /\ due = [p \in Players |-> 0]
    /\ down = [p \in Players |-> <<>>]
    /\ stale = FALSE
    /\ wheel = None
    /\ late = {} /\ slow = {} /\ untold = {}

Here == {p \in Players : place[p] # "gone"}

\* RPCs to the clients of T.
Tell(T, op, n, times) ==
    /\ \A p \in T : Len(down[p]) + times <= MaxWire
    /\ down' = [p \in Players |->
           IF p \in T THEN down[p] \o [k \in 1 .. times |-> [op |-> op, life |-> n]]
           ELSE down[p]]
    /\ UNCHANGED <<shows, due>>

-----------------------------------------------------------------------------
(* CVehicle and CVehiclePool.  Scripts call the natives at any time, also  *)
(* from OnVehicleDeath; everything else waits until that has returned.     *)

\* Mutant: the driver of a new vehicle is player 0.
DriverZero == 0

InitialDriver == None

\* CVehiclePool::New.
New ==
    /\ life = 0
    /\ lives < MaxLives
    /\ lives' = lives + 1
    /\ life' = lives + 1
    /\ dead' = FALSE
    /\ notified' = FALSE
    /\ occupied' = FALSE
    /\ driver' = InitialDriver
    /\ wheel' = None
    /\ respawned' = "now"
    /\ seen' = "passed"
    /\ stale' = FALSE
    /\ slow' = {}
    /\ UNCHANGED <<noticing, place, late>>

\* CreateVehicle: SpawnForPlayer to everybody.
CreateVehicle ==
    /\ New
    /\ Tell(Here, "spawn", lives + 1, 1)
    /\ untold' = {}

\* AddStaticVehicle and AddStaticVehicleEx, which leave that to InitForPlayer.
AddStaticVehicle ==
    /\ New
    /\ untold' = Here
    /\ UNCHANGED <<shows, due, down>>

\* DestroyVehicle.  The CVehicle is gone; its last values are of no effect.
Delete ==
    /\ life # 0
    /\ life' = 0
    /\ dead' = FALSE
    /\ notified' = FALSE
    /\ occupied' = FALSE
    /\ driver' = None
    /\ respawned' = "old"
    /\ seen' = "passed"
    /\ stale' = FALSE
    /\ slow' = {}
    /\ wheel' = None
    /\ Tell(Here, "destroy", 0, 1)
    /\ untold' = {}
    /\ UNCHANGED <<lives, noticing, place, late>>

\* Respawn, which keeps m_byteDriverID; the RPC is sent once, or twice when
\* SetVehicleToRespawn adds its own.
Respawn(times) ==
    /\ life # 0
    /\ lives < MaxLives
    /\ lives' = lives + 1
    /\ life' = lives + 1
    /\ dead' = FALSE
    /\ notified' = FALSE
    /\ occupied' = FALSE
    /\ respawned' = "now"
    /\ stale' = FALSE
    /\ slow' = {}
    /\ wheel' = None
    /\ Tell(Here, "respawn", lives + 1, times)
    /\ UNCHANGED <<driver, seen, noticing, place, late, untold>>

SetVehicleToRespawn == Respawn(2)

\* PutPlayerInVehicle with seat 0.  What the client does about it is its affair,
\* as with any other seat.
PutPlayerInVehicle(p) ==
    /\ p \in Here
    /\ life # 0
    /\ driver' = p
    /\ wheel' = None
    /\ UNCHANGED <<life, lives, dead, notified, occupied, respawned, seen, stale, noticing,
                   place, netVars, slow>>

\* Mutant: it does not matter where the driver is.
OccupiedAnywhere == driver # None /\ place[driver] # "gone"

\* Only the player whose index is m_byteDriverID is looked at.
IsOccupied == driver # None /\ place[driver] \in {"driver", "passenger"}

\* Process, when rand() % 20 is 0: CheckForIdleRespawn.
CheckForIdleRespawn ==
    /\ ~noticing
    /\ ~notified
    /\ respawned = "old"
    /\ ~IsOccupied
    /\ occupied
    /\ seen = "passed"
    /\ Respawn(1)

\* Process: a wreck is reported once, ...
BeginDeath ==
    /\ ~noticing
    /\ life # 0
    /\ dead
    /\ ~notified
    /\ notified' = TRUE
    /\ noticing' = TRUE
    /\ UNCHANGED <<life, lives, dead, occupied, driver, respawned, seen, stale, recordVars,
                   netVars, slow>>

\* ... the time counts from the end of OnVehicleDeath, ...
EndDeath ==
    /\ noticing
    /\ noticing' = FALSE
    /\ seen' = IF life # 0 THEN "now" ELSE seen
    /\ UNCHANGED <<life, lives, dead, notified, occupied, driver, respawned, stale, recordVars,
                   netVars, slow>>

\* Mutant: not while the vehicle is taken, by the flag that is never lowered.
RespawnDeadEmpty ==
    /\ ~noticing
    /\ dead
    /\ notified
    /\ seen = "passed"
    /\ ~occupied
    /\ Respawn(1)

\* ... and when rand() % 20 is 0 after 10 seconds the wreck is respawned.
RespawnDead ==
    /\ ~noticing
    /\ dead
    /\ notified
    /\ seen = "passed"
    /\ Respawn(1)

-----------------------------------------------------------------------------
(* Time.                                                                   *)

\* Client p has had the RPCs and has done what they say.
CaughtUp(p) == down[p] = <<>> /\ due[p] = 0

\* Five seconds have passed since the respawn.  That is meant to be more than a
\* round trip, but nobody waits for the clients.
Settle ==
    /\ respawned = "now"
    /\ respawned' = "young"
    /\ slow' = {p \in Here : ~CaughtUp(p)}
    /\ UNCHANGED <<life, lives, dead, notified, occupied, driver, seen, stale, noticing,
                   recordVars, netVars>>

Mature ==
    /\ respawned = "young"
    /\ respawned' = "old"
    /\ UNCHANGED <<life, lives, dead, notified, occupied, driver, seen, stale, noticing,
                   recordVars, netVars, slow>>

Pass ==
    /\ seen = "now"
    /\ seen' = "passed"
    /\ UNCHANGED <<life, lives, dead, notified, occupied, driver, respawned, stale, noticing,
                   recordVars, netVars, slow>>

-----------------------------------------------------------------------------
(* What arrives from clients. *)

\* Mutants: no update is ignored; the first driver stays the driver.
UpdateAlways(p, m) ==
    IF life # 0
    THEN /\ driver' = p
         /\ occupied' = TRUE
         /\ seen' = "now"
         /\ dead' = (dead \/ m.wreck)
         /\ stale' = (m.life # life /\ p \notin slow \cup late)
    ELSE UNCHANGED <<driver, occupied, seen, dead, stale>>
UpdateKeepsDriver(p, m) ==
    IF life # 0 /\ respawned # "now"
    THEN /\ driver' = IF driver = None THEN p ELSE driver
         /\ occupied' = TRUE
         /\ seen' = "now"
         /\ dead' = (dead \/ m.wreck)
         /\ stale' = (m.life # life /\ p \notin slow \cup late)
    ELSE UNCHANGED <<driver, occupied, seen, dead, stale>>

\* CVehicle::Update, which ignores everything for 5 seconds.
Update(p, m) ==
    IF life # 0 /\ respawned # "now"
    THEN /\ driver' = p
         /\ occupied' = TRUE
         /\ seen' = "now"
         /\ dead' = (dead \/ m.wreck)
         /\ stale' = (m.life # life /\ p \notin slow \cup late)
    ELSE UNCHANGED <<driver, occupied, seen, dead, stale>>

\* StoreInCarFullSyncData for this vehicle.
StoreInCar(p, m) ==
    /\ m.kind = "drive"
    /\ place' = [place EXCEPT ![p] = "driver"]
    /\ wheel' = p
    /\ Update(p, m)
    /\ UNCHANGED <<life, lives, notified, respawned>>

\* The passenger's packet changes the player only, as do the packets of who is
\* on foot, dead or in another vehicle.
StoreOther(p, m) ==
    /\ \/ m.kind = "ride" /\ place' = [place EXCEPT ![p] = "passenger"]
       \/ m.kind = "away" /\ place' = [place EXCEPT ![p] = "away"]
    /\ UNCHANGED <<vehicleVars, wheel>>

\* RPC_VehicleDestroyed: SetDead, whoever sends it.
VehicleDestroyed(m) ==
    /\ m.kind = "destroyed"
    /\ dead' = (life # 0)
    /\ UNCHANGED <<life, lives, notified, occupied, driver, respawned, seen, stale, recordVars>>

\* What a client may say about the vehicle it shows.
Packets(p) ==
    [kind : {"away"}]
    \cup IF shows[p] = 0 THEN {}
         ELSE [kind : {"ride", "destroyed"}]
              \cup [kind : {"drive"}, life : {shows[p]}, wreck : BOOLEAN]

Receive(p, m) ==
    /\ ~noticing
    /\ p \in Here
    /\ m \in Packets(p)
    /\ StoreInCar(p, m) \/ StoreOther(p, m) \/ VehicleDestroyed(m)
    /\ UNCHANGED <<noticing, netVars, slow>>

Drive(p) == \E m \in Packets(p) : m.kind = "drive" /\ Receive(p, m)

\* The player pool: m_byteDriverID still names a player who has left.
Leave(p) ==
    /\ ~noticing
    /\ p \in Here
    /\ place' = [place EXCEPT ![p] = "gone"]
    /\ shows' = [shows EXCEPT ![p] = 0]
    /\ due' = [due EXCEPT ![p] = 0]
    /\ down' = [down EXCEPT ![p] = <<>>]
    /\ wheel' = IF wheel = p THEN None ELSE wheel
    /\ late' = late \ {p}
    /\ slow' = slow \ {p}
    /\ untold' = untold \ {p}
    /\ UNCHANGED <<vehicleVars, noticing>>

\* Mutant: a newcomer is told of no vehicle.
JoinUntold(p) ==
    /\ ~noticing
    /\ p \notin Here
    /\ place' = [place EXCEPT ![p] = "away"]
    /\ UNCHANGED <<vehicleVars, noticing, wheel, netVars, slow>>

\* CVehiclePool::InitForPlayer for a newcomer.
Join(p) ==
    /\ ~noticing
    /\ p \notin Here
    /\ place' = [place EXCEPT ![p] = "away"]
    /\ IF life = 0 THEN UNCHANGED <<shows, due, down>> ELSE Tell({p}, "spawn", life, 1)
    /\ UNCHANGED <<vehicleVars, noticing, wheel, late, slow, untold>>

-----------------------------------------------------------------------------
(* The clients. *)

\* VehicleSpawn makes the vehicle anew, VehicleDestroy removes it, and
\* ScrRespawnVehicle marks the one that is there, if any.
Apply(p, m) ==
    /\ shows' = [shows EXCEPT ![p] =
           CASE m.op = "spawn" -> m.life [] m.op = "destroy" -> 0 [] m.op = "respawn" -> @]
    /\ due' = [due EXCEPT ![p] = IF m.op = "respawn" /\ shows[p] # 0 THEN m.life ELSE 0]

\* The k-th RPC under way arrives.
Deliver(p, k) ==
    /\ k \in DOMAIN down[p]
    /\ k = 1 \/ p \in late \/ Cardinality(late) < MaxLate
    /\ Apply(p, down[p][k])
    /\ down' = [down EXCEPT ![p] = RemoveAt(@, k)]
    /\ late' = IF k = 1 THEN late ELSE late \cup {p}
    /\ UNCHANGED <<vehicleVars, noticing, recordVars, slow, untold>>

\* CVehiclePool::Process of the client: a marked vehicle is made anew, once nobody
\* whom the client shows in it is there any more.
Reborn(p) ==
    /\ due[p] # 0
    /\ shows' = [shows EXCEPT ![p] = due[p]]
    /\ due' = [due EXCEPT ![p] = 0]
    /\ UNCHANGED <<vehicleVars, noticing, recordVars, down, late, slow, untold>>

Next ==
    \/ CreateVehicle \/ AddStaticVehicle \/ Delete \/ SetVehicleToRespawn
    \/ CheckForIdleRespawn \/ BeginDeath \/ EndDeath \/ RespawnDead
    \/ Settle \/ Mature \/ Pass
    \/ \E p \in Players :
           \/ PutPlayerInVehicle(p)
           \/ \E m \in Packets(p) : Receive(p, m)
           \/ Leave(p) \/ Join(p)
           \/ Reborn(p) \/ \E k \in DOMAIN down[p] : Deliver(p, k)

Spec == Init /\ [][Next]_vars

(***************************************************************************)
(* RPCs arrive.  In one of its passes the main loop draws the number it    *)
(* waits for.  The times that are waited for pass; a driver who never      *)
(* pauses that long is one whose packets change nothing.                   *)
(***************************************************************************)
Fairness ==
    /\ WF_vars(Mature) /\ WF_vars(Pass)
    /\ WF_vars(CheckForIdleRespawn) /\ WF_vars(RespawnDead)
    /\ WF_vars(BeginDeath) /\ WF_vars(EndDeath)
    /\ \A p \in Players : WF_vars(\E k \in DOMAIN down[p] : Deliver(p, k))

FairSpec == Spec /\ Fairness

-----------------------------------------------------------------------------
(* Properties. *)

\* What the server knows of a vehicle is about the life it is in: a packet about
\* the wreck, or about the destroyed vehicle whose id was given away again, does not
\* reach the new one.  This is what the five seconds in Update are for, and it is
\* all they do: of a client that takes longer the server believes everything.
DrivenInThisLife == occupied => ~stale

\* A vehicle is not taken for idle while the last player who sat at its wheel is,
\* as far as the server knows, still there; unless a script has put somebody else at
\* the wheel (or tried to), who is then the only one IsOccupied looks for.
WheelKeepsCar ==
    [][CheckForIdleRespawn => wheel = None \/ place[wheel] # "driver"]_vars

\* A client that got all RPCs in their order shows the vehicle in the life it is
\* in, or none when it is destroyed, whenever the client joined: in particular a
\* respawn, which a client ignores that has no such vehicle, always finds one.  A
\* client that was there when AddStaticVehicle was called never shows that vehicle.
ClientsCatchUp ==
    \A p \in Here \ late :
        down[p] = <<>> /\ due[p] = 0 => shows[p] = IF p \in untold THEN 0 ELSE life

\* A wreck does not stay, unless somebody keeps driving it.
WreckIsRespawned ==
    \A n \in 1 .. MaxLives - 1 :
        <>[](life = n /\ dead) => []<><<\E p \in Players : Drive(p)>>_vars

\* A vehicle that was used does not stay where it was left, when nobody the
\* server knows of is in it.
AbandonedIsRespawned ==
    \A n \in 1 .. MaxLives - 1 :
        []<>~(/\ life = n /\ occupied
              /\ \A p \in Players : place[p] \notin {"driver", "passenger"})
=============================================================================
