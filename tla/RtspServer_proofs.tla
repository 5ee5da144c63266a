------------------------- MODULE RtspServer_proofs -------------------------
(***************************************************************************)
(* Proofs about RtspServer, for any number of connections, sessions,       *)
(* senders and resets.                                                     *)
(***************************************************************************)
EXTENDS RtspServer, FiniteSetTheorems, TLAPS

(* The invariants.                                                         *)

\* Requests the handler dispatches on a session id that a SETUP has given out.
Naming == {"PLAY", "PAUSE", "TEARDOWN", "GET_PARAMETER"}

\* Where a connection is says which request it handles and which id it has in
\* hand; a sender start waits only behind its own PLAY.
Placed(c) ==
  /\ pc[c] \in {"idle", "closed"} => req[c].method = "none" /\ Id(c) = NoID
  /\ pc[c] \in {"expire", "sweep", "touch", "respond"} => req[c].method \in Methods
  /\ pc[c] \in {"setup", "register"} => req[c].method = "SETUP"
  /\ pc[c] \in {"play", "playLab", "start", "after"} => req[c].method = "PLAY"
  /\ pc[c] \in {"pause", "pauseStop", "pauseLab"} => req[c].method = "PAUSE"
  /\ pc[c] \in {"delete", "stop", "teardown"} => /\ req[c].method \in {"TEARDOWN", "close"}
                                                 /\ Id(c) \in DOMAIN struct
  /\ pc[c] = "closing" => req[c].method = "close"
  /\ doomed[c] # {} => pc[c] = "sweep"
  /\ pending[c] # NoID => /\ pc[c] \in {"respond", "after"}
                          /\ req[c].method = "PLAY" /\ pending[c] = Id(c)
  /\ pc[c] = "after" => pending[c] # NoID

\* A connection has an id in hand that is registered, or that its SETUP drew
\* and is about to register.
Holds(c) ==
  /\ req[c].method \in Methods => req[c].transport \in Transports
  /\ req[c].method \in Naming => Id(c) \in DOMAIN struct
  /\ req[c].method = "close" => Id(c) \in DOMAIN struct \cup {NoID}
  /\ req[c].method = "SETUP" =>
       CASE pc[c] = "register" -> Id(c) \in (1..nextID) \ DOMAIN struct
         [] pc[c] = "respond"  -> Id(c) \in DOMAIN struct \cup {NoID}
         [] OTHER              -> Id(c) = NoID
  /\ \A id \in owned[c] : id \in DOMAIN struct /\ struct[id].conn = c

\* No two SETUPs draw one id.
Distinct ==
  \A c, d \in Conns : pc[c] = "register" /\ pc[d] = "register" /\ Id(c) = Id(d) => c = d

\* A sender belongs to a registered session; one past its loop has had a write
\* fail, so its client has gone.
SendersPlaced ==
  \A sender \in senders :
    /\ sender.id \in DOMAIN struct
    /\ sender.at # "run" => WritesFail(sender.id)

\* What an expirer still has to sweep the lab has forgotten for good.
DoomedForgotten ==
  /\ \A p \in Expirers : doomed[p] \subseteq (1..nextID) \ DOMAIN lab
  /\ resetting => resets > 0

\* The bounds leave room for the ids and senders of the requests under way.
Unstarted(id) ==
  {c \in Conns : /\ req[c].method = "PLAY" /\ Id(c) = id
                 /\ \/ pc[c] \in {"expire", "sweep", "touch", "play", "playLab", "start"}
                    \/ pending[c] # NoID}
Room ==
  /\ nextID + Cardinality(SettingUp) <= MaxID
  /\ \A id \in IDs : plays[id] + Cardinality(Unstarted(id)) <= MaxPlays

AllPlaced == \A c \in Conns : Placed(c)
AllHold   == \A c \in Conns : Holds(c)

Inv == /\ LabTypes /\ MapTypes /\ SenderTypes /\ ConnTypes
       /\ AllPlaced /\ AllHold /\ Distinct
       /\ SendersPlaced /\ DoomedForgotten /\ Room

-----------------------------------------------------------------------------

\* A step disturbs no conjunct whose variables it leaves alone.
LEMMA Frames ==
  /\ LabTypes /\ UNCHANGED <<lab, silent, nextID>> => LabTypes'
  /\ MapTypes /\ UNCHANGED <<sessions, struct, doomed, resetting, resets, nextID>> => MapTypes'
  /\ SenderTypes /\ UNCHANGED <<plays, stopCh, senders>> => SenderTypes'
  /\ ConnTypes /\ UNCHANGED <<up, pc, req, owned, pending>> => ConnTypes'
  /\ AllPlaced /\ UNCHANGED <<pc, req, struct, doomed, pending>> => AllPlaced'
  /\ AllHold /\ UNCHANGED <<req, pc, struct, nextID, owned>> => AllHold'
  /\ Distinct /\ UNCHANGED <<pc, req>> => Distinct'
  /\ SendersPlaced /\ UNCHANGED <<senders, struct, up>> => SendersPlaced'
  /\ DoomedForgotten /\ UNCHANGED <<doomed, lab, nextID, resetting, resets>> => DoomedForgotten'
  /\ Room /\ UNCHANGED <<pc, req, pending, plays, nextID>> => Room'
<1>1. LabTypes /\ UNCHANGED <<lab, silent, nextID>> => LabTypes'
  BY DEF LabTypes
<1>2. MapTypes /\ UNCHANGED <<sessions, struct, doomed, resetting, resets, nextID>> => MapTypes'
  BY DEF MapTypes
<1>3. SenderTypes /\ UNCHANGED <<plays, stopCh, senders>> => SenderTypes'
  BY DEF SenderTypes
<1>4. ConnTypes /\ UNCHANGED <<up, pc, req, owned, pending>> => ConnTypes'
  BY DEF ConnTypes
<1>5. AllPlaced /\ UNCHANGED <<pc, req, struct, doomed, pending>> => AllPlaced'
  BY DEF AllPlaced, Placed, Id
<1>6. AllHold /\ UNCHANGED <<req, pc, struct, nextID, owned>> => AllHold'
  BY DEF AllHold, Holds, Id
<1>7. Distinct /\ UNCHANGED <<pc, req>> => Distinct'
  BY DEF Distinct, Id
<1>8. SendersPlaced /\ UNCHANGED <<senders, struct, up>> => SendersPlaced'
  BY DEF SendersPlaced, WritesFail
<1>9. DoomedForgotten /\ UNCHANGED <<doomed, lab, nextID, resetting, resets>> => DoomedForgotten'
  BY DEF DoomedForgotten
<1>10. Room /\ UNCHANGED <<pc, req, pending, plays, nextID>> => Room'
  BY DEF Room, SettingUp, Unstarted, Id
<1>11. QED BY <1>1, <1>2, <1>3, <1>4, <1>5, <1>6, <1>7, <1>8, <1>9, <1>10

\* Requests under way that only get done leave the room they had.
LEMMA RoomKept ==
  ASSUME Inv, nextID' = nextID, plays' = plays, SettingUp' \subseteq SettingUp,
         \A id \in IDs : Unstarted(id)' \subseteq Unstarted(id)
  PROVE  Room'
<1>1. Cardinality(SettingUp') <= Cardinality(SettingUp) /\ Cardinality(SettingUp') \in Nat
      /\ Cardinality(SettingUp) \in Nat
  <2>1. IsFiniteSet(SettingUp)
    BY FS_Subset, BoundAssumption DEF SettingUp
  <2>2. QED BY <2>1, FS_Subset, FS_CardinalityType
<1>2. ASSUME NEW id \in IDs
      PROVE  plays'[id] + Cardinality(Unstarted(id)') <= MaxPlays
  <2>1. IsFiniteSet(Unstarted(id))
    BY FS_Subset, BoundAssumption DEF Unstarted
  <2>2. /\ Cardinality(Unstarted(id)') <= Cardinality(Unstarted(id))
        /\ Cardinality(Unstarted(id)') \in Nat /\ Cardinality(Unstarted(id)) \in Nat
    BY <2>1, FS_Subset, FS_CardinalityType
  <2>3. plays[id] + Cardinality(Unstarted(id)) <= MaxPlays /\ plays[id] \in Nat
    BY DEF Inv, Room, SenderTypes
  <2>4. QED BY <2>2, <2>3, BoundAssumption
<1>3. QED BY <1>1, <1>2, BoundAssumption DEF Inv, Room, LabTypes

\* A request that is setting up finds an id left, and one that is to start a
\* sender finds room for it.
LEMMA RoomLeft ==
  ASSUME Inv
  PROVE  /\ SettingUp # {} => nextID < MaxID
         /\ \A id \in IDs : Unstarted(id) # {} => plays[id] < MaxPlays
<1>1. IsFiniteSet(SettingUp) /\ \A id \in IDs : IsFiniteSet(Unstarted(id))
  BY FS_Subset, BoundAssumption DEF SettingUp, Unstarted
<1>2. \A S : IsFiniteSet(S) /\ S # {} => Cardinality(S) \in Nat /\ Cardinality(S) # 0
  BY FS_CardinalityType, FS_EmptySet
<1>3. QED BY <1>1, <1>2, BoundAssumption DEF Inv, Room, LabTypes, SenderTypes

\* A request received finds the room Receive asks for.
LEMMA RoomReceived ==
  ASSUME Inv, NEW c \in Conns, nextID' = nextID, plays' = plays,
         \/ SettingUp' \subseteq SettingUp
         \/ SettingUp' \subseteq SettingUp \cup {c} /\ nextID + Cardinality(SettingUp) < MaxID,
         \A id \in IDs :
           \/ Unstarted(id)' \subseteq Unstarted(id)
           \/ /\ Unstarted(id)' \subseteq Playing(id) \cup {c}
              /\ plays[id] + Cardinality(Playing(id)) < MaxPlays
  PROVE  Room'
<1>1. \A S : IsFiniteSet(S) => /\ IsFiniteSet(S \cup {c}) /\ Cardinality(S) \in Nat
                              /\ Cardinality(S \cup {c}) <= Cardinality(S) + 1
  BY FS_AddElement, FS_CardinalityType
<1>2. \A S, T : IsFiniteSet(T) /\ S \subseteq T => /\ Cardinality(S) <= Cardinality(T)
                                                 /\ Cardinality(S) \in Nat
  BY FS_Subset, FS_CardinalityType
<1>3. nextID' + Cardinality(SettingUp') <= MaxID
  <2>1. IsFiniteSet(SettingUp)
    BY FS_Subset, BoundAssumption DEF SettingUp
  <2>2. CASE SettingUp' \subseteq SettingUp
    BY <2>1, <2>2, <1>1, <1>2, BoundAssumption DEF Inv, Room, LabTypes
  <2>3. CASE SettingUp' \subseteq SettingUp \cup {c} /\ nextID + Cardinality(SettingUp) < MaxID
    <3>1. /\ Cardinality(SettingUp') <= Cardinality(SettingUp \cup {c})
          /\ Cardinality(SettingUp') \in Nat
      BY <2>1, <2>3, <1>1, <1>2
    <3>2. /\ Cardinality(SettingUp \cup {c}) <= Cardinality(SettingUp) + 1
          /\ Cardinality(SettingUp \cup {c}) \in Nat /\ Cardinality(SettingUp) \in Nat
      BY <2>1, <1>1, FS_CardinalityType
    <3>3. QED BY <2>3, <3>1, <3>2, BoundAssumption DEF Inv, LabTypes
  <2>4. QED BY <2>2, <2>3
<1>4. ASSUME NEW id \in IDs
      PROVE  plays'[id] + Cardinality(Unstarted(id)') <= MaxPlays
  <2>1. IsFiniteSet(Unstarted(id)) /\ IsFiniteSet(Playing(id)) /\ plays[id] \in Nat
    BY FS_Subset, BoundAssumption DEF Unstarted, Playing, Inv, SenderTypes
  <2>2. CASE Unstarted(id)' \subseteq Unstarted(id)
    <3>1. plays[id] + Cardinality(Unstarted(id)) <= MaxPlays
      BY DEF Inv, Room
    <3>2. QED BY <2>1, <2>2, <3>1, <1>1, <1>2, BoundAssumption
  <2>3. CASE /\ Unstarted(id)' \subseteq Playing(id) \cup {c}
             /\ plays[id] + Cardinality(Playing(id)) < MaxPlays
    <3>1. /\ Cardinality(Unstarted(id)') <= Cardinality(Playing(id) \cup {c})
          /\ Cardinality(Unstarted(id)') \in Nat
      BY <2>1, <2>3, <1>1, <1>2
    <3>2. /\ Cardinality(Playing(id) \cup {c}) <= Cardinality(Playing(id)) + 1
          /\ Cardinality(Playing(id) \cup {c}) \in Nat /\ Cardinality(Playing(id)) \in Nat
      BY <2>1, <1>1, FS_CardinalityType
    <3>3. QED BY <2>1, <2>3, <3>1, <3>2, BoundAssumption
  <2>4. QED BY <2>2, <2>3
<1>5. QED BY <1>3, <1>4 DEF Room

\* An id drawn uses the place that was kept for it.
LEMMA RoomDrawn ==
  ASSUME Inv, NEW c \in SettingUp, nextID' = nextID + 1, plays' = plays,
         SettingUp' \subseteq SettingUp \ {c},
         \A id \in IDs : Unstarted(id)' \subseteq Unstarted(id)
  PROVE  Room'
<1>1. IsFiniteSet(SettingUp)
  BY FS_Subset, BoundAssumption DEF SettingUp
<1>2. /\ Cardinality(SettingUp') <= Cardinality(SettingUp \ {c})
      /\ Cardinality(SettingUp \ {c}) = Cardinality(SettingUp) - 1
      /\ Cardinality(SettingUp) \in Nat /\ Cardinality(SettingUp') \in Nat
  <2>1. IsFiniteSet(SettingUp \ {c})
    BY <1>1, FS_Subset
  <2>2. QED BY <1>1, <2>1, FS_Subset, FS_RemoveElement, FS_CardinalityType
<1>3. ASSUME NEW id \in IDs
      PROVE  plays'[id] + Cardinality(Unstarted(id)') <= MaxPlays
  <2>1. IsFiniteSet(Unstarted(id))
    BY FS_Subset, BoundAssumption DEF Unstarted
  <2>2. /\ Cardinality(Unstarted(id)') <= Cardinality(Unstarted(id))
        /\ Cardinality(Unstarted(id)') \in Nat /\ Cardinality(Unstarted(id)) \in Nat
    BY <2>1, FS_Subset, FS_CardinalityType
  <2>3. plays[id] + Cardinality(Unstarted(id)) <= MaxPlays /\ plays[id] \in Nat
    BY DEF Inv, Room, SenderTypes
  <2>4. QED BY <2>2, <2>3, BoundAssumption
<1>4. QED BY <1>2, <1>3, BoundAssumption DEF Inv, Room, LabTypes

\* A sender started uses the place that was kept for it.
LEMMA RoomStarted ==
  ASSUME Inv, NEW id \in IDs, NEW c \in Unstarted(id), StartSender(id), nextID' = nextID,
         SettingUp' \subseteq SettingUp,
         \A x \in IDs : Unstarted(x)' \subseteq Unstarted(x),
         c \notin Unstarted(id)'
  PROVE  Room' /\ SenderTypes'
<1>1. /\ IsFiniteSet(SettingUp)
      /\ \A x \in IDs : IsFiniteSet(Unstarted(x)) /\ IsFiniteSet(Unstarted(x) \ {c})
  BY FS_Subset, BoundAssumption DEF SettingUp, Unstarted
<1>2. /\ Cardinality(SettingUp') <= Cardinality(SettingUp)
      /\ Cardinality(SettingUp) \in Nat /\ Cardinality(SettingUp') \in Nat
  BY <1>1, FS_Subset, FS_CardinalityType
<1>3. plays[id] < MaxPlays
  BY RoomLeft
<1>4. plays' = [plays EXCEPT ![id] = plays[id] + 1]
  BY DEF StartSender
<1>5. ASSUME NEW x \in IDs
      PROVE  plays'[x] + Cardinality(Unstarted(x)') <= MaxPlays
  <2>1. /\ Cardinality(Unstarted(x)') \in Nat /\ Cardinality(Unstarted(x)) \in Nat
        /\ Cardinality(Unstarted(x)') <= Cardinality(Unstarted(x))
    BY <1>1, FS_Subset, FS_CardinalityType
  <2>2. plays[x] + Cardinality(Unstarted(x)) <= MaxPlays /\ plays \in [IDs -> Nat]
    BY BoundAssumption DEF Inv, Room, SenderTypes
  <2>3. CASE x = id
    <3>1. Unstarted(x)' \subseteq Unstarted(x) \ {c}
      BY <2>3
    <3>2. Cardinality(Unstarted(x)') <= Cardinality(Unstarted(x)) - 1
      <4>1. Cardinality(Unstarted(x) \ {c}) = Cardinality(Unstarted(x)) - 1
        BY <1>1, <2>3, FS_RemoveElement
      <4>2. Cardinality(Unstarted(x)') <= Cardinality(Unstarted(x) \ {c})
        BY <1>1, <3>1, FS_Subset
      <4>3. QED BY <4>1, <4>2
    <3>3. plays'[x] = plays[x] + 1
      BY <1>4, <2>2, <2>3
    <3>4. QED BY <2>1, <2>2, <3>2, <3>3, BoundAssumption
  <2>4. CASE x # id
    <3>1. plays'[x] = plays[x]
      BY <1>4, <2>2, <2>4
    <3>2. QED BY <2>1, <2>2, <3>1, BoundAssumption
  <2>5. QED BY <2>3, <2>4
<1>6. Room'
  BY <1>2, <1>5, BoundAssumption DEF Inv, Room, LabTypes
<1>7. SenderTypes'
  <2>1. plays' \in [IDs -> 0..MaxPlays] /\ stopCh' \in [IDs -> 0..MaxPlays]
    BY <1>3, BoundAssumption DEF StartSender, Inv, SenderTypes
  <2>2. \A x \in IDs : stopCh'[x] <= plays'[x]
    BY <1>3, BoundAssumption DEF StartSender, Inv, SenderTypes
  <2>3. senders' \subseteq [id : IDs, gen : 1..MaxPlays, at : SenderSteps]
    <3>1. [id |-> id, gen |-> plays[id] + 1, at |-> "run"]
            \in [id : IDs, gen : 1..MaxPlays, at : SenderSteps]
      BY <1>3, BoundAssumption DEF Inv, SenderTypes, SenderSteps
    <3>2. QED BY <3>1 DEF StartSender, Inv, SenderTypes
  <2>4. QED BY <2>1, <2>2, <2>3 DEF SenderTypes
<1>8. QED BY <1>6, <1>7

\* Stopping the senders of some sessions, while senders move on or end.
LEMMA StoppedTypes ==
  ASSUME SenderTypes, NEW ids, Stopped(ids), plays' = plays,
         senders' \subseteq [id : IDs, gen : 1..MaxPlays, at : SenderSteps]
  PROVE  SenderTypes'
<1>1. /\ stopCh' = [id \in IDs |-> IF id \in ids THEN 0 ELSE stopCh[id]]
      /\ plays \in [IDs -> 0..MaxPlays] /\ stopCh \in [IDs -> 0..MaxPlays]
  BY DEF Stopped, SenderTypes
<1>2. stopCh' \in [IDs -> 0..MaxPlays]
  BY <1>1, BoundAssumption
<1>3. \A id \in IDs : stopCh'[id] <= plays'[id]
  BY <1>1, BoundAssumption DEF SenderTypes
<1>4. QED BY <1>1, <1>2, <1>3 DEF SenderTypes

\* Every step preserves the invariant.
LEMMA InvStep ==
  ASSUME Inv, [Next]_vars
  PROVE  Inv'
<1>1. CASE UNCHANGED vars
  BY <1>1, Frames DEF vars, labVars, Inv
<1>2. ASSUME NEW c \in Conns, Receive(c) PROVE Inv'
  <2>1. ConnTypes'
    BY <1>2, BoundAssumption DEF Inv, Receive, Known, Goto, ConnTypes, ConnSteps,
           MapTypes, LabTypes, IDs
  <2>2. AllPlaced'
    BY <1>2 DEF Inv, Receive, At, Goto, Id, AllPlaced, Placed, ConnTypes
  <2>3. AllHold'
    BY <1>2 DEF Inv, Receive, Known, At, Goto, Id, AllHold, Holds, Naming
  <2>4. Distinct'
    BY <1>2 DEF Inv, Receive, At, Goto, Id, Distinct
  <2>5. Room'
    <3>1. Known(c) \subseteq IDs
      BY BoundAssumption DEF Inv, Known, MapTypes, LabTypes, ConnTypes, IDs
    <3>2. PICK method \in Methods, transport \in Transports, id \in IDs \cup {NoID} :
            /\ method = "SETUP" => id = NoID /\ nextID + Cardinality(SettingUp) < MaxID
            /\ method = "PLAY" => plays[id] + Cardinality(Playing(id)) < MaxPlays
            /\ req' = [req EXCEPT ![c] = [method |-> method, id |-> id, transport |-> transport]]
      BY <1>2, <3>1 DEF Receive
    <3>3. /\ pc' = [pc EXCEPT ![c] = "expire"] /\ pending' = pending
          /\ nextID' = nextID /\ plays' = plays /\ pc[c] = "idle"
      BY <1>2 DEF Receive, At, Goto
    <3>4. /\ SettingUp' \subseteq SettingUp \cup {c}
          /\ method # "SETUP" => SettingUp' \subseteq SettingUp
      BY <3>2 DEF Inv, ConnTypes, SettingUp, Id
    <3>5. ASSUME NEW x \in IDs
          PROVE  /\ Unstarted(x)' \subseteq Unstarted(x) \cup {c}
                 /\ ~(method = "PLAY" /\ x = id) => Unstarted(x)' \subseteq Unstarted(x)
      BY <3>2, <3>3 DEF Inv, AllPlaced, Placed, Unstarted, Id
    <3>6. \A x \in IDs : Unstarted(x) \subseteq Playing(x)
      BY DEF Unstarted, Playing
    <3>7. QED BY <3>2, <3>3, <3>4, <3>5, <3>6, RoomReceived
  <2>6. QED BY <1>2, Frames, <2>1, <2>2, <2>3, <2>4, <2>5
         DEF Inv, Receive, labVars, httpVars
<1>3. ASSUME NEW c \in Conns, Expire(c) PROVE Inv'
  <2>1. LabTypes'
    BY <1>3 DEF Inv, Expire, LabExpire, Lab!End, LabTypes
  <2>2. MapTypes'
    BY <1>3, BoundAssumption DEF Inv, Expire, LabExpire, Lab!End, httpVars, MapTypes,
           LabTypes, Expirers, IDs
  <2>3. ConnTypes'
    BY <1>3 DEF Inv, Expire, LabExpire, Lab!End, Goto, connVars, ConnTypes, ConnSteps
  <2>4. AllPlaced'
    BY <1>3 DEF Inv, Expire, LabExpire, Lab!End, At, Goto, connVars, AllPlaced, Placed,
           ConnTypes, Id
  <2>5. AllHold'
    BY <1>3 DEF Inv, Expire, LabExpire, Lab!End, At, Goto, connVars, AllHold, Holds, Id
  <2>6. Distinct'
    BY <1>3 DEF Inv, Expire, LabExpire, Lab!End, Goto, connVars, Distinct, Id
  <2>7. DoomedForgotten'
    BY <1>3 DEF Inv, Expire, LabExpire, Lab!End, httpVars, DoomedForgotten, LabTypes
  <2>8. Room'
    BY <1>3, RoomKept DEF Inv, Expire, LabExpire, Lab!End, At, Goto, connVars,
           SettingUp, Unstarted, Id
  <2>9. QED BY <1>3, Frames, <2>1, <2>2, <2>3, <2>4, <2>5, <2>6, <2>7, <2>8
         DEF Inv, Expire, connVars, LabExpire
<1>4. ASSUME NEW c \in Conns, SweepStep(c) PROVE Inv'
  <2>1. MapTypes'
    BY <1>4 DEF Inv, SweepStep, Sweep, httpVars, MapTypes
  <2>2. SenderTypes'
    BY <1>4, StoppedTypes DEF Inv, SweepStep, Sweep, SenderTypes
  <2>3. ConnTypes'
    BY <1>4 DEF Inv, SweepStep, Sweep, Goto, connVars, ConnTypes, ConnSteps
  <2>4. AllPlaced'
    BY <1>4 DEF Inv, SweepStep, Sweep, At, Goto, connVars, AllPlaced, Placed, MapTypes,
           Expirers, Id
  <2>5. AllHold'
    BY <1>4 DEF Inv, SweepStep, Sweep, At, Goto, connVars, AllHold, Holds, Id
  <2>6. Distinct'
    BY <1>4 DEF Inv, SweepStep, Sweep, Goto, connVars, Distinct, Id
  <2>7. DoomedForgotten'
    BY <1>4 DEF Inv, SweepStep, Sweep, labVars, httpVars, DoomedForgotten
  <2>8. Room'
    BY <1>4, RoomKept DEF Inv, SweepStep, Sweep, At, Goto, connVars, SettingUp,
           Unstarted, Id
  <2>9. QED BY <1>4, Frames, <2>1, <2>2, <2>3, <2>4, <2>5, <2>6, <2>7, <2>8
         DEF Inv, SweepStep, labVars, connVars, Sweep
<1>5. ASSUME NEW c \in Conns, Touch(c) PROVE Inv'
  <2>1. LabTypes'
    BY <1>5 DEF Inv, Touch, At, LabTypes
  <2>2. ConnTypes'
    BY <1>5, BoundAssumption DEF Inv, Touch, At, Goto, connVars, ConnTypes, ConnSteps,
           AllPlaced, Placed
  <2>3. AllPlaced'
    BY <1>5, BoundAssumption DEF Inv, Touch, At, Goto, Id, connVars, AllPlaced, Placed,
           AllHold, Holds, Naming
  <2>4. AllHold'
    BY <1>5 DEF Inv, Touch, At, Goto, Id, connVars, AllHold, Holds
  <2>5. Distinct'
    BY <1>5, BoundAssumption DEF Inv, Touch, At, Goto, Id, connVars, Distinct,
           AllPlaced, Placed
  <2>6. Room'
    BY <1>5, RoomKept DEF Inv, Touch, At, Goto, Id, connVars, SettingUp, Unstarted
  <2>7. QED BY <1>5, Frames, <2>1, <2>2, <2>3, <2>4, <2>5, <2>6
         DEF Inv, Touch, connVars, httpVars
<1>6. ASSUME NEW c \in Conns, SetupLab(c) PROVE Inv'
  <2>1. LabTypes'
    <3>1. c \in SettingUp /\ nextID < MaxID
      BY <1>6, RoomLeft DEF Inv, SetupLab, At, AllPlaced, Placed, AllHold, Holds,
             SettingUp
    <3>2. QED BY <1>6, <3>1, BoundAssumption DEF Inv, LabTypes, SetupLab, Lab!Admit
  <2>2. MapTypes'
    BY <1>6 DEF Inv, SetupLab, httpVars, MapTypes, LabTypes
  <2>3. ConnTypes'
    <3>1. nextID + 1 \in IDs
      BY <2>1, <1>6 DEF Inv, LabTypes, SetupLab, IDs
    <3>2. QED BY <1>6, <3>1 DEF Inv, SetupLab, Goto, ConnTypes, ConnSteps
  <2>4. AllPlaced'
    BY <1>6 DEF Inv, SetupLab, At, Goto, AllPlaced, Placed, Id
  <2>5. AllHold'
    BY <1>6 DEF Inv, SetupLab, At, Goto, AllHold, Holds, AllPlaced, Placed, Naming,
           ConnTypes, MapTypes, LabTypes, Id
  <2>6. Distinct'
    BY <1>6 DEF Inv, SetupLab, Goto, Distinct, ConnTypes, AllHold, Holds, LabTypes,
           AllPlaced, Placed, Id
  <2>7. DoomedForgotten'
    BY <1>6 DEF Inv, SetupLab, Lab!Admit, httpVars, DoomedForgotten, LabTypes
  <2>8. Room'
    <3>1. c \in SettingUp
      BY <1>6 DEF Inv, SetupLab, At, AllPlaced, Placed, AllHold, Holds, SettingUp
    <3>2. SettingUp' \subseteq SettingUp \ {c}
      BY <1>6, <2>1 DEF Inv, SetupLab, LabTypes, ConnTypes, SettingUp, Id, NoID
    <3>3. \A id \in IDs : Unstarted(id)' \subseteq Unstarted(id)
      BY <1>6 DEF Inv, SetupLab, At, Goto, AllPlaced, Placed, Unstarted, Id
    <3>4. QED BY <1>6, <3>1, <3>2, <3>3, RoomDrawn DEF SetupLab
  <2>9. QED BY <1>6, Frames, <2>1, <2>2, <2>3, <2>4, <2>5, <2>6, <2>7, <2>8
         DEF Inv, SetupLab
<1>7. ASSUME NEW c \in Conns, SetupRefused(c) PROVE Inv'
  <2>1. ConnTypes'
    BY <1>7 DEF Inv, SetupRefused, Goto, connVars, ConnTypes, ConnSteps
  <2>2. AllPlaced'
    BY <1>7 DEF Inv, SetupRefused, At, Goto, connVars, AllPlaced, Placed, ConnTypes, Id
  <2>3. AllHold'
    BY <1>7 DEF Inv, SetupRefused, At, Goto, connVars, AllHold, Holds, Id
  <2>4. Distinct'
    BY <1>7 DEF Inv, SetupRefused, Goto, connVars, Distinct, Id
  <2>5. Room'
    BY <1>7, RoomKept DEF Inv, SetupRefused, Goto, connVars, SettingUp, Unstarted, Id
  <2>6. QED BY <1>7, Frames, <2>1, <2>2, <2>3, <2>4, <2>5
         DEF Inv, SetupRefused, labVars, connVars, httpVars
<1>8. ASSUME NEW c \in Conns, Register(c) PROVE Inv'
  <2>1. MapTypes'
    BY <1>8 DEF Inv, Register, At, httpVars, MapTypes, AllPlaced, Placed, AllHold,
           Holds, ConnTypes
  <2>2. ConnTypes'
    BY <1>8, BoundAssumption DEF Inv, Register, At, Goto, ConnTypes, ConnSteps,
           AllPlaced, Placed, AllHold, Holds, LabTypes, IDs
  <2>3. AllPlaced'
    BY <1>8 DEF Inv, Register, At, Goto, Id, AllPlaced, Placed, ConnTypes
  <2>4. AllHold'
    BY <1>8 DEF Inv, Register, At, Goto, Id, AllHold, Holds, AllPlaced, Placed,
           ConnTypes, Distinct
  <2>5. Distinct'
    BY <1>8 DEF Inv, Register, Goto, Id, Distinct
  <2>6. SendersPlaced'
    BY <1>8 DEF Inv, Register, At, SendersPlaced, SenderTypes, WritesFail, AllPlaced,
           Placed, AllHold, Holds
  <2>7. Room'
    BY <1>8, RoomKept DEF Inv, Register, Goto, Id, SettingUp, Unstarted
  <2>8. QED BY <1>8, Frames, <2>1, <2>2, <2>3, <2>4, <2>5, <2>6, <2>7
         DEF Inv, Register, labVars, httpVars
<1>9. ASSUME NEW c \in Conns, PlayFind(c) PROVE Inv'
  <2>1. ConnTypes'
    BY <1>9 DEF Inv, PlayFind, Goto, connVars, ConnTypes, ConnSteps
  <2>2. AllPlaced'
    BY <1>9 DEF Inv, PlayFind, At, Goto, Id, connVars, AllPlaced, Placed, ConnTypes
  <2>3. AllHold'
    BY <1>9 DEF Inv, PlayFind, At, Goto, Id, connVars, AllHold, Holds
  <2>4. Distinct'
    BY <1>9 DEF Inv, PlayFind, Goto, Id, connVars, Distinct
  <2>5. Room'
    BY <1>9, RoomKept DEF Inv, PlayFind, At, Goto, Id, connVars, SettingUp, Unstarted
  <2>6. QED BY <1>9, Frames, <2>1, <2>2, <2>3, <2>4, <2>5
         DEF Inv, PlayFind, labVars, connVars, httpVars
<1>10. ASSUME NEW c \in Conns, PlayLab(c) PROVE Inv'
  <2>1. LabTypes'
    BY <1>10 DEF Inv, PlayLab, Lab!Move, labVars, LabTypes
  <2>2. ConnTypes'
    BY <1>10 DEF Inv, PlayLab, Goto, connVars, ConnTypes, ConnSteps
  <2>3. AllPlaced'
    BY <1>10 DEF Inv, PlayLab, At, Goto, Id, connVars, AllPlaced, Placed, ConnTypes
  <2>4. AllHold'
    BY <1>10 DEF Inv, PlayLab, At, Goto, Id, connVars, AllHold, Holds, ConnTypes
  <2>5. Distinct'
    BY <1>10 DEF Inv, PlayLab, Goto, Id, connVars, Distinct, ConnTypes
  <2>6. DoomedForgotten'
    BY <1>10 DEF Inv, PlayLab, Lab!Move, labVars, httpVars, DoomedForgotten
  <2>7. Room'
    BY <1>10, RoomKept DEF Inv, PlayLab, At, Goto, Id, connVars, SettingUp, Unstarted,
           ConnTypes
  <2>8. QED BY <1>10, Frames, <2>1, <2>2, <2>3, <2>4, <2>5, <2>6, <2>7
         DEF Inv, PlayLab, connVars, httpVars
<1>11. ASSUME NEW c \in Conns, PlayStart(c) PROVE Inv'
  <2>1. SenderTypes' /\ Room'
    <3>1. Id(c) \in DOMAIN struct
      BY <1>11 DEF Inv, PlayStart, At, AllPlaced, Placed, AllHold, Holds, Naming
    <3>2. Id(c) \in IDs /\ Id(c) # NoID
      BY <3>1, BoundAssumption DEF Inv, MapTypes, LabTypes, IDs, NoID
    <3>3. /\ pc' = [pc EXCEPT ![c] = "respond"] /\ req' = req /\ nextID' = nextID
          /\ pc[c] = "start"
      BY <1>11 DEF PlayStart, At, Goto
    <3>4. c \in Unstarted(Id(c)) /\ pending[c] = NoID
      BY <3>3 DEF Inv, AllPlaced, Placed, Unstarted
    <3>5. SettingUp' = SettingUp
      BY <3>3 DEF SettingUp, Id
    <3>6. CASE struct[Id(c)].transport = "tcp"
      <4>1. /\ pending' = [pending EXCEPT ![c] = Id(c)]
            /\ stopCh' = stopCh /\ plays' = plays /\ senders' = senders
        BY <1>11, <3>6 DEF PlayStart
      <4>2. \A x \in IDs : Unstarted(x)' \subseteq Unstarted(x)
        BY <3>2, <3>3, <3>4, <4>1 DEF Inv, Unstarted, Id
      <4>3. QED BY <3>3, <3>5, <4>1, <4>2, RoomKept, Frames DEF Inv
    <3>7. CASE struct[Id(c)].transport # "tcp"
      <4>1. StartSender(Id(c)) /\ pending' = pending
        BY <1>11, <3>7 DEF PlayStart
      <4>2. \A x \in IDs : Unstarted(x)' \subseteq Unstarted(x) /\ c \notin Unstarted(x)'
        BY <3>3, <3>4, <4>1 DEF Inv, ConnTypes, Unstarted, Id
      <4>3. QED BY <3>2, <3>3, <3>4, <3>5, <4>1, <4>2, RoomStarted
    <3>8. QED BY <3>6, <3>7
  <2>2. ConnTypes'
    BY <1>11 DEF Inv, PlayStart, Goto, Id, ConnTypes, ConnSteps
  <2>3. AllPlaced'
    BY <1>11 DEF Inv, PlayStart, At, Goto, Id, AllPlaced, Placed, ConnTypes
  <2>4. AllHold'
    BY <1>11 DEF Inv, PlayStart, At, Goto, Id, AllHold, Holds
  <2>5. Distinct'
    BY <1>11 DEF Inv, PlayStart, Goto, Id, Distinct
  <2>6. SendersPlaced'
    <3>1. Id(c) \in DOMAIN struct /\ struct' = struct /\ up' = up
      BY <1>11 DEF Inv, PlayStart, At, AllPlaced, Placed, AllHold, Holds, Naming
    <3>2. senders' = senders \/ StartSender(Id(c))
      BY <1>11 DEF PlayStart
    <3>3. QED BY <3>1, <3>2 DEF Inv, SendersPlaced, StartSender, WritesFail
  <2>7. QED BY <1>11, Frames, <2>1, <2>2, <2>3, <2>4, <2>5, <2>6
         DEF Inv, PlayStart, labVars, httpVars
<1>12. ASSUME NEW c \in Conns, PlayWithoutSender(c) PROVE Inv'
  <2>1. SenderTypes'
    <3>1. senders' \subseteq [id : IDs, gen : 1..MaxPlays, at : SenderSteps]
      BY <1>12 DEF PlayWithoutSender, Step, Inv, SenderTypes, SenderSteps
    <3>2. Stopped({Id(c)}) \/ UNCHANGED stopCh
      BY <1>12 DEF PlayWithoutSender
    <3>3. plays' = plays
      BY <1>12 DEF PlayWithoutSender
    <3>4. QED BY <3>1, <3>2, <3>3, StoppedTypes DEF Inv, SenderTypes
  <2>2. ConnTypes'
    BY <1>12 DEF Inv, PlayWithoutSender, Goto, connVars, ConnTypes, ConnSteps
  <2>3. AllPlaced'
    BY <1>12 DEF Inv, PlayWithoutSender, At, Goto, Id, connVars, AllPlaced, Placed,
           ConnTypes
  <2>4. AllHold'
    BY <1>12 DEF Inv, PlayWithoutSender, At, Goto, Id, connVars, AllHold, Holds
  <2>5. Distinct'
    BY <1>12 DEF Inv, PlayWithoutSender, Goto, Id, connVars, Distinct
  <2>6. Room'
    BY <1>12, RoomKept DEF Inv, PlayWithoutSender, Goto, Id, connVars, SettingUp,
           Unstarted
  <2>7. QED BY <1>12, Frames, <2>1, <2>2, <2>3, <2>4, <2>5, <2>6
         DEF Inv, PlayWithoutSender, labVars, connVars, httpVars
<1>13. ASSUME NEW c \in Conns, PauseFind(c) PROVE Inv'
  <2>1. ConnTypes'
    BY <1>13 DEF Inv, PauseFind, Goto, connVars, ConnTypes, ConnSteps
  <2>2. AllPlaced'
    BY <1>13 DEF Inv, PauseFind, At, Goto, Id, connVars, AllPlaced, Placed, ConnTypes
  <2>3. AllHold'
    BY <1>13 DEF Inv, PauseFind, At, Goto, Id, connVars, AllHold, Holds
  <2>4. Distinct'
    BY <1>13 DEF Inv, PauseFind, Goto, Id, connVars, Distinct
  <2>5. Room'
    BY <1>13, RoomKept DEF Inv, PauseFind, Goto, Id, connVars, SettingUp, Unstarted
  <2>6. QED BY <1>13, Frames, <2>1, <2>2, <2>3, <2>4, <2>5
         DEF Inv, PauseFind, labVars, connVars, httpVars
<1>14. ASSUME NEW c \in Conns, PauseStop(c) PROVE Inv'
  <2>1. SenderTypes'
    BY <1>14, StoppedTypes DEF Inv, PauseStop, SenderTypes
  <2>2. ConnTypes'
    BY <1>14 DEF Inv, PauseStop, Goto, connVars, ConnTypes, ConnSteps
  <2>3. AllPlaced'
    BY <1>14 DEF Inv, PauseStop, At, Goto, Id, connVars, AllPlaced, Placed
  <2>4. AllHold'
    BY <1>14 DEF Inv, PauseStop, At, Goto, Id, connVars, AllHold, Holds
  <2>5. Distinct'
    BY <1>14 DEF Inv, PauseStop, Goto, Id, connVars, Distinct
  <2>6. Room'
    BY <1>14, RoomKept DEF Inv, PauseStop, Goto, Id, connVars, SettingUp, Unstarted
  <2>7. QED BY <1>14, Frames, <2>1, <2>2, <2>3, <2>4, <2>5, <2>6
         DEF Inv, PauseStop, labVars, connVars, httpVars
<1>15. ASSUME NEW c \in Conns, PauseLab(c) PROVE Inv'
  <2>1. LabTypes'
    BY <1>15 DEF Inv, PauseLab, Lab!Move, labVars, LabTypes
  <2>2. ConnTypes'
    BY <1>15 DEF Inv, PauseLab, Goto, connVars, ConnTypes, ConnSteps
  <2>3. AllPlaced'
    BY <1>15 DEF Inv, PauseLab, At, Goto, Id, connVars, AllPlaced, Placed, ConnTypes
  <2>4. AllHold'
    BY <1>15 DEF Inv, PauseLab, At, Goto, Id, connVars, AllHold, Holds
  <2>5. Distinct'
    BY <1>15 DEF Inv, PauseLab, Goto, Id, connVars, Distinct
  <2>6. DoomedForgotten'
    BY <1>15 DEF Inv, PauseLab, Lab!Move, labVars, httpVars, DoomedForgotten
  <2>7. Room'
    BY <1>15, RoomKept DEF Inv, PauseLab, Goto, Id, connVars, SettingUp, Unstarted
  <2>8. QED BY <1>15, Frames, <2>1, <2>2, <2>3, <2>4, <2>5, <2>6, <2>7
         DEF Inv, PauseLab, connVars, httpVars
<1>16. ASSUME NEW c \in Conns, Delete(c) PROVE Inv'
  <2>1. MapTypes'
    BY <1>16 DEF Inv, Delete, httpVars, MapTypes
  <2>2. ConnTypes'
    BY <1>16 DEF Inv, Delete, Goto, connVars, ConnTypes, ConnSteps
  <2>3. AllPlaced'
    BY <1>16 DEF Inv, Delete, At, Goto, Id, connVars, AllPlaced, Placed
  <2>4. AllHold'
    BY <1>16 DEF Inv, Delete, At, Goto, Id, connVars, AllHold, Holds
  <2>5. Distinct'
    BY <1>16 DEF Inv, Delete, Goto, Id, connVars, Distinct
  <2>6. Room'
    BY <1>16, RoomKept DEF Inv, Delete, Goto, Id, connVars, SettingUp, Unstarted
  <2>7. QED BY <1>16, Frames, <2>1, <2>2, <2>3, <2>4, <2>5, <2>6
         DEF Inv, Delete, labVars, connVars, httpVars
<1>17. ASSUME NEW c \in Conns, Stop(c) PROVE Inv'
  <2>1. SenderTypes'
    BY <1>17, StoppedTypes DEF Inv, Stop, SenderTypes
  <2>2. ConnTypes'
    BY <1>17 DEF Inv, Stop, Goto, connVars, ConnTypes, ConnSteps
  <2>3. AllPlaced'
    BY <1>17 DEF Inv, Stop, At, Goto, Id, connVars, AllPlaced, Placed
  <2>4. AllHold'
    BY <1>17 DEF Inv, Stop, At, Goto, Id, connVars, AllHold, Holds
  <2>5. Distinct'
    BY <1>17 DEF Inv, Stop, Goto, Id, connVars, Distinct
  <2>6. Room'
    BY <1>17, RoomKept DEF Inv, Stop, Goto, Id, connVars, SettingUp, Unstarted
  <2>7. QED BY <1>17, Frames, <2>1, <2>2, <2>3, <2>4, <2>5, <2>6
         DEF Inv, Stop, labVars, connVars, httpVars
<1>18. ASSUME NEW c \in Conns, Teardown(c) PROVE Inv'
  <2>1. LabTypes'
    BY <1>18 DEF Inv, Teardown, Lab!End, LabTypes
  <2>2. ConnTypes'
    BY <1>18 DEF Inv, Teardown, Lab!End, Goto, ConnTypes, ConnSteps
  <2>3. AllPlaced'
    BY <1>18 DEF Inv, Teardown, Lab!End, At, Goto, Id, AllPlaced, Placed, ConnTypes
  <2>4. AllHold'
    BY <1>18 DEF Inv, Teardown, Lab!End, At, Goto, Id, AllHold, Holds
  <2>5. Distinct'
    BY <1>18 DEF Inv, Teardown, Lab!End, Goto, Id, Distinct
  <2>6. DoomedForgotten'
    BY <1>18 DEF Inv, Teardown, Lab!End, httpVars, DoomedForgotten
  <2>7. Room'
    BY <1>18, RoomKept DEF Inv, Teardown, Lab!End, Goto, Id, SettingUp, Unstarted
  <2>8. QED BY <1>18, Frames, <2>1, <2>2, <2>3, <2>4, <2>5, <2>6, <2>7
         DEF Inv, Teardown, httpVars
<1>19. ASSUME NEW c \in Conns, Respond(c) PROVE Inv'
  <2>1. ConnTypes'
    BY <1>19 DEF Inv, Respond, Finish, NoRequest, At, Goto, labVars, httpVars,
           ConnTypes, ConnSteps
  <2>2. AllPlaced'
    BY <1>19, BoundAssumption DEF Inv, Respond, Finish, NoRequest, At, Goto, AllPlaced,
           Placed, ConnTypes, Id
  <2>3. AllHold'
    BY <1>19, BoundAssumption DEF Inv, Respond, Finish, NoRequest, Goto, labVars,
           httpVars, AllHold, Holds, AllPlaced, Placed, Naming, ConnTypes, Id
  <2>4. Distinct'
    BY <1>19 DEF Inv, Respond, Finish, NoRequest, Goto, Distinct, ConnTypes, Id
  <2>5. Room'
    BY <1>19, RoomKept DEF Inv, Respond, Finish, NoRequest, Goto, SettingUp, Unstarted,
           ConnTypes, Id
  <2>6. QED BY <1>19, Frames, <2>1, <2>2, <2>3, <2>4, <2>5
         DEF Inv, Respond, labVars, httpVars
<1>20. ASSUME NEW c \in Conns, AfterWrite(c) PROVE Inv'
  <2>1. SenderTypes' /\ Room'
    <3>1. /\ c \in Unstarted(pending[c]) /\ pending[c] \in IDs
          /\ StartSender(pending[c]) /\ nextID' = nextID
      BY <1>20 DEF Inv, AfterWrite, At, AllPlaced, Placed, ConnTypes, Unstarted
    <3>2. /\ pc' = [pc EXCEPT ![c] = "idle"] /\ pending' = [pending EXCEPT ![c] = NoID]
          /\ req' = [req EXCEPT ![c] = NoRequest]
      BY <1>20 DEF AfterWrite, Goto, Finish
    <3>3. SettingUp' \subseteq SettingUp
      BY <3>2 DEF Inv, SettingUp, Id, NoRequest
    <3>4. \A x \in IDs : Unstarted(x)' \subseteq Unstarted(x) /\ c \notin Unstarted(x)'
      BY <3>2 DEF Inv, ConnTypes, Unstarted, Id, NoRequest
    <3>5. QED BY <3>1, <3>3, <3>4, RoomStarted
  <2>2. ConnTypes'
    BY <1>20 DEF Inv, AfterWrite, Finish, NoRequest, Goto, ConnTypes, ConnSteps
  <2>3. AllPlaced'
    BY <1>20 DEF Inv, AfterWrite, Finish, NoRequest, At, Goto, AllPlaced, Placed,
           ConnTypes, Id
  <2>4. AllHold'
    <3>1. /\ req' = [req EXCEPT ![c] = NoRequest]
          /\ pc' = [pc EXCEPT ![c] = "idle"]
          /\ owned' = owned /\ struct' = struct /\ nextID' = nextID
      BY <1>20 DEF AfterWrite, Goto, Finish, NoRequest
    <3>2. QED BY <3>1, BoundAssumption
           DEF Inv, AllHold, Holds, Naming, ConnTypes, NoRequest, Id
  <2>5. Distinct'
    BY <1>20 DEF Inv, AfterWrite, Finish, NoRequest, At, Goto, Distinct, Id
  <2>6. SendersPlaced'
    <3>1. pending[c] \in DOMAIN struct /\ struct' = struct /\ up' = up
      BY <1>20 DEF Inv, AfterWrite, At, AllPlaced, Placed, AllHold, Holds, Naming
    <3>2. StartSender(pending[c])
      BY <1>20 DEF AfterWrite
    <3>3. QED BY <3>1, <3>2 DEF Inv, SendersPlaced, StartSender, WritesFail
  <2>7. QED BY <1>20, Frames, <2>1, <2>2, <2>3, <2>4, <2>5, <2>6
         DEF Inv, AfterWrite, labVars, httpVars
<1>21. ASSUME NEW c \in Conns, Hangup(c) PROVE Inv'
  <2>1. ConnTypes'
    BY <1>21 DEF Inv, Hangup, NoRequest, Goto, ConnTypes, ConnSteps
  <2>2. AllPlaced'
    BY <1>21 DEF Inv, Hangup, NoRequest, At, Goto, AllPlaced, Placed, ConnTypes, Id
  <2>3. AllHold'
    <3>1. [NoRequest EXCEPT !.method = "close"]
            = [method |-> "close", id |-> NoID, transport |-> "udp"]
      BY DEF NoRequest
    <3>2. /\ req' = [req EXCEPT ![c] = [method |-> "close", id |-> NoID, transport |-> "udp"]]
          /\ pc' = [pc EXCEPT ![c] = "closing"]
          /\ owned' = owned /\ struct' = struct /\ nextID' = nextID
      BY <1>21, <3>1 DEF Hangup, Goto, Finish
    <3>3. QED BY <3>2, BoundAssumption
           DEF Inv, AllHold, Holds, Naming, ConnTypes, NoRequest, Id
  <2>4. Distinct'
    BY <1>21 DEF Inv, Hangup, NoRequest, At, Goto, Distinct, Id
  <2>5. Room'
    BY <1>21, RoomKept DEF Inv, Hangup, NoRequest, Goto, SettingUp, Unstarted, Id
  <2>6. QED BY <1>21, Frames, <2>1, <2>2, <2>3, <2>4, <2>5
         DEF Inv, Hangup, labVars, httpVars
<1>22. ASSUME NEW c \in Conns, CloseSession(c) PROVE Inv'
  <2>1. ConnTypes'
    <3>1. PICK id \in owned[c] :
            \/ /\ req' = [req EXCEPT ![c].id = id] /\ owned' = owned
               /\ pc' = [pc EXCEPT ![c] = "delete"]
            \/ req' = req /\ pc' = pc /\ owned' = [owned EXCEPT ![c] = @ \ {id}]
      BY <1>22 DEF CloseSession, Goto
    <3>2. up' = up /\ pending' = pending /\ id \in IDs
      BY <1>22 DEF CloseSession, Inv, ConnTypes
    <3>3. /\ req' \in [Conns -> [method : Methods \cup {"none", "close"}, id : IDs \cup {NoID},
                                transport : {"udp", "tcp"}]]
          /\ pc' \in [Conns -> ConnSteps]
      BY <3>1, <3>2 DEF Inv, ConnTypes, ConnSteps
    <3>4. owned' \in [Conns -> SUBSET IDs]
      BY <3>1 DEF Inv, ConnTypes
    <3>5. QED BY <3>2, <3>3, <3>4 DEF Inv, ConnTypes
  <2>2. AllPlaced'
    <3>1. PICK id \in owned[c] :
            \/ /\ req' = [req EXCEPT ![c].id = id] /\ owned' = owned
               /\ pc' = [pc EXCEPT ![c] = "delete"]
            \/ req' = req /\ pc' = pc /\ owned' = [owned EXCEPT ![c] = @ \ {id}]
      BY <1>22 DEF CloseSession, Goto
    <3>2. /\ pc[c] = "closing" /\ struct' = struct /\ doomed' = doomed /\ pending' = pending
          /\ id \in DOMAIN struct
      BY <1>22 DEF Inv, CloseSession, At, AllHold, Holds
    <3>3. QED BY <3>1, <3>2 DEF Inv, AllPlaced, Placed, ConnTypes, Id
  <2>3. AllHold'
    BY <1>22 DEF Inv, CloseSession, At, Goto, Id, AllHold, Holds, AllPlaced, Placed,
           ConnTypes, NoID
  <2>4. Distinct'
    BY <1>22 DEF Inv, CloseSession, Goto, Id, Distinct, ConnTypes
  <2>5. Room'
    BY <1>22, BoundAssumption, RoomKept DEF Inv, CloseSession, At, Goto, Id, SettingUp,
           Unstarted, ConnTypes, AllPlaced, Placed
  <2>6. QED BY <1>22, Frames, <2>1, <2>2, <2>3, <2>4, <2>5
         DEF Inv, CloseSession, labVars, httpVars
<1>23. ASSUME NEW c \in Conns, Closed(c) PROVE Inv'
  <2>1. ConnTypes'
    BY <1>23 DEF Inv, Closed, Finish, NoRequest, Goto, ConnTypes, ConnSteps
  <2>2. AllPlaced'
    BY <1>23 DEF Inv, Closed, Finish, NoRequest, At, Goto, AllPlaced, Placed, ConnTypes,
           Id
  <2>3. AllHold'
    BY <1>23, BoundAssumption DEF Inv, Closed, Finish, NoRequest, At, Goto, AllHold,
           Holds, Naming, Id
  <2>4. Distinct'
    BY <1>23 DEF Inv, Closed, Finish, NoRequest, At, Goto, Distinct, Id
  <2>5. Room'
    BY <1>23, RoomKept DEF Inv, Closed, Finish, NoRequest, Goto, SettingUp, Unstarted,
           Id
  <2>6. QED BY <1>23, Frames, <2>1, <2>2, <2>3, <2>4, <2>5
         DEF Inv, Closed, labVars, httpVars
<1>24. ASSUME NEW c \in Conns, ClientLeaves(c) PROVE Inv'
  <2>1. ConnTypes'
    BY <1>24 DEF Inv, ClientLeaves, ConnTypes, ConnSteps
  <2>2. SendersPlaced'
    BY <1>24 DEF Inv, ClientLeaves, SendersPlaced, SenderTypes, WritesFail
  <2>3. QED BY <1>24, Frames, <2>1, <2>2 DEF Inv, ClientLeaves, labVars, httpVars
<1>25. ASSUME NEW sender \in senders, SenderStops(sender) PROVE Inv'
  <2>1. SenderTypes'
    BY <1>25 DEF Inv, SenderStops, Told, SenderTypes, SenderSteps
  <2>2. SendersPlaced'
    BY <1>25 DEF Inv, SenderStops, Told, connVars, SendersPlaced, SenderTypes,
           WritesFail
  <2>3. QED BY <1>25, Frames, <2>1, <2>2
         DEF Inv, SenderStops, labVars, connVars, httpVars
<1>26. ASSUME NEW sender \in senders, SenderFails(sender) PROVE Inv'
  <2>1. SenderTypes'
    <3>1. senders' \subseteq [id : IDs, gen : 1..MaxPlays, at : SenderSteps]
      BY <1>26 DEF SenderFails, Step, Inv, SenderTypes, SenderSteps
    <3>2. Stopped({sender.id}) \/ UNCHANGED stopCh
      BY <1>26 DEF SenderFails
    <3>3. plays' = plays
      BY <1>26 DEF SenderFails
    <3>4. QED BY <3>1, <3>2, <3>3, StoppedTypes DEF Inv, SenderTypes
  <2>2. SendersPlaced'
    BY <1>26 DEF Inv, SenderFails, Told, Step, connVars, SendersPlaced, SenderTypes,
           WritesFail
  <2>3. QED BY <1>26, Frames, <2>1, <2>2
         DEF Inv, SenderFails, labVars, connVars, httpVars
<1>27. ASSUME NEW sender \in senders, SenderDeletes(sender) PROVE Inv'
  <2>1. MapTypes'
    BY <1>27 DEF Inv, SenderDeletes, Step, httpVars, MapTypes
  <2>2. SenderTypes'
    BY <1>27 DEF Inv, SenderDeletes, Step, SenderTypes, SenderSteps
  <2>3. SendersPlaced'
    BY <1>27 DEF Inv, SenderDeletes, Step, connVars, SendersPlaced, SenderTypes,
           WritesFail
  <2>4. QED BY <1>27, Frames, <2>1, <2>2, <2>3
         DEF Inv, SenderDeletes, labVars, connVars, httpVars
<1>28. ASSUME NEW sender \in senders, SenderStopsSession(sender) PROVE Inv'
  <2>1. SenderTypes'
    <3>1. senders' \subseteq [id : IDs, gen : 1..MaxPlays, at : SenderSteps]
      BY <1>28 DEF SenderStopsSession, Step, Inv, SenderTypes, SenderSteps
    <3>2. Stopped({sender.id})
      BY <1>28 DEF SenderStopsSession
    <3>3. plays' = plays
      BY <1>28 DEF SenderStopsSession
    <3>4. QED BY <3>1, <3>2, <3>3, StoppedTypes DEF Inv
  <2>2. SendersPlaced'
    BY <1>28 DEF Inv, SenderStopsSession, Step, connVars, SendersPlaced, SenderTypes,
           WritesFail
  <2>3. QED BY <1>28, Frames, <2>1, <2>2
         DEF Inv, SenderStopsSession, labVars, connVars, httpVars
<1>29. ASSUME NEW sender \in senders, SenderTearsDown(sender) PROVE Inv'
  <2>1. LabTypes'
    BY <1>29 DEF Inv, SenderTearsDown, Lab!End, LabTypes
  <2>2. SenderTypes'
    BY <1>29 DEF Inv, SenderTearsDown, Lab!End, SenderTypes, SenderSteps
  <2>3. SendersPlaced'
    BY <1>29 DEF Inv, SenderTearsDown, Lab!End, connVars, SendersPlaced, SenderTypes,
           WritesFail
  <2>4. DoomedForgotten'
    BY <1>29 DEF Inv, SenderTearsDown, Lab!End, httpVars, DoomedForgotten
  <2>5. QED BY <1>29, Frames, <2>1, <2>2, <2>3, <2>4
         DEF Inv, SenderTearsDown, connVars, httpVars
<1>30. ASSUME NEW sender \in senders, SenderFinishes(sender) PROVE Inv'
  <2>1. SenderTypes'
    <3>1. senders' \subseteq [id : IDs, gen : 1..MaxPlays, at : SenderSteps]
      BY <1>30 DEF SenderFinishes, Step, Inv, SenderTypes, SenderSteps
    <3>2. Stopped({sender.id})
      BY <1>30 DEF SenderFinishes
    <3>3. plays' = plays
      BY <1>30 DEF SenderFinishes
    <3>4. QED BY <3>1, <3>2, <3>3, StoppedTypes DEF Inv
  <2>2. SendersPlaced'
    BY <1>30 DEF Inv, SenderFinishes, Told, connVars, SendersPlaced, SenderTypes,
           WritesFail
  <2>3. QED BY <1>30, Frames, <2>1, <2>2
         DEF Inv, SenderFinishes, labVars, connVars, httpVars
<1>31. CASE ReaperExpires
  <2>1. LabTypes'
    BY <1>31 DEF Inv, ReaperExpires, LabExpire, Lab!End, LabTypes
  <2>2. MapTypes'
    BY <1>31, BoundAssumption DEF Inv, ReaperExpires, LabExpire, Lab!End, httpVars,
           MapTypes, LabTypes, Expirers, IDs
  <2>3. AllPlaced'
    BY <1>31, BoundAssumption DEF Inv, ReaperExpires, LabExpire, Lab!End, connVars,
           AllPlaced, Placed, Id
  <2>4. DoomedForgotten'
    BY <1>31 DEF Inv, ReaperExpires, LabExpire, Lab!End, httpVars, DoomedForgotten,
           LabTypes
  <2>5. QED BY <1>31, Frames, <2>1, <2>2, <2>3, <2>4
         DEF Inv, ReaperExpires, connVars, LabExpire
<1>32. CASE ReaperSweeps
  <2>1. MapTypes'
    BY <1>32 DEF Inv, ReaperSweeps, Sweep, httpVars, MapTypes
  <2>2. SenderTypes'
    BY <1>32, StoppedTypes DEF Inv, ReaperSweeps, Sweep, SenderTypes
  <2>3. AllPlaced'
    BY <1>32 DEF Inv, ReaperSweeps, Sweep, connVars, AllPlaced, Placed, Id
  <2>4. DoomedForgotten'
    BY <1>32 DEF Inv, ReaperSweeps, Sweep, labVars, httpVars, DoomedForgotten
  <2>5. QED BY <1>32, Frames, <2>1, <2>2, <2>3, <2>4
         DEF Inv, ReaperSweeps, labVars, connVars, Sweep
<1>33. CASE ResetRtsp
  <2>1. MapTypes'
    BY <1>33, BoundAssumption DEF Inv, ResetRtsp, MapTypes
  <2>2. SenderTypes'
    BY <1>33, StoppedTypes DEF Inv, ResetRtsp, SenderTypes
  <2>3. DoomedForgotten'
    BY <1>33 DEF Inv, ResetRtsp, labVars, DoomedForgotten, MapTypes
  <2>4. QED BY <1>33, Frames, <2>1, <2>2, <2>3 DEF Inv, ResetRtsp, labVars, connVars
<1>34. CASE ResetLab
  <2>1. LabTypes'
    BY <1>34 DEF Inv, ResetLab, Lab!End, LabTypes
  <2>2. MapTypes'
    BY <1>34 DEF Inv, ResetLab, Lab!End, MapTypes
  <2>3. DoomedForgotten'
    BY <1>34 DEF Inv, ResetLab, Lab!End, DoomedForgotten
  <2>4. QED BY <1>34, Frames, <2>1, <2>2, <2>3 DEF Inv, ResetLab, connVars
<1>35. ASSUME NEW id \in IDs, FallSilent(id) PROVE Inv'
  <2>1. LabTypes'
    BY <1>35 DEF Inv, FallSilent, Id, LabTypes
  <2>2. QED BY <1>35, Frames, <2>1 DEF Inv, FallSilent, connVars, httpVars
<1>36. QED BY <1>1, <1>2, <1>3, <1>4, <1>5, <1>6, <1>7, <1>8, <1>9, <1>10, <1>11, <1>12,
       <1>13, <1>14, <1>15, <1>16, <1>17, <1>18, <1>19, <1>20, <1>21, <1>22, <1>23,
       <1>24, <1>25, <1>26, <1>27, <1>28, <1>29, <1>30, <1>31, <1>32, <1>33, <1>34,
       <1>35
       DEF Next, Handle, SenderExits, Reap, Reset

\* The invariant holds, for any clients.
THEOREM Invariant == Spec => []Inv
<1>1. Init => Inv
  <2> SUFFICES ASSUME Init PROVE Inv
    OBVIOUS
  <2>1. LabTypes /\ MapTypes /\ SenderTypes /\ ConnTypes
    <3>1. LabTypes
      BY BoundAssumption DEF Init, LabTypes
    <3>2. MapTypes
      <4>1. DOMAIN struct = {} /\ struct = [id \in {} |-> <<>>]
        BY DEF Init
      <4>2. struct \in [DOMAIN struct -> [transport : Transports, conn : Conns]]
        BY <4>1
      <4>3. /\ sessions = {} /\ doomed \in [Expirers -> SUBSET IDs]
            /\ resetting \in BOOLEAN /\ resets \in 0..Resets
        <5>1. 0 \in 0..Resets
          BY BoundAssumption
        <5>2. QED BY <5>1 DEF Init
      <4>4. QED BY <4>1, <4>2, <4>3 DEF MapTypes
    <3>3. SenderTypes
      BY BoundAssumption DEF Init, SenderTypes, IDs
    <3>4. ConnTypes
      BY DEF Init, ConnTypes, ConnSteps, NoID, NoRequest
    <3>5. QED BY <3>1, <3>2, <3>3, <3>4
  <2>2. AllPlaced /\ AllHold /\ Distinct
    BY BoundAssumption DEF Init, AllPlaced, Placed, AllHold, Holds, Distinct, Naming,
           NoRequest, Id, Expirers
  <2>3. SendersPlaced /\ DoomedForgotten
    BY DEF Init, SendersPlaced, DoomedForgotten, Expirers
  <2>4. Room
    <3>1. SettingUp = {} /\ \A id \in IDs : Unstarted(id) = {}
      BY DEF Init, SettingUp, Unstarted, NoRequest
    <3>2. Cardinality({}) = 0 /\ nextID = 0 /\ \A id \in IDs : plays[id] = 0
      BY FS_EmptySet DEF Init
    <3>3. QED BY <3>1, <3>2, BoundAssumption DEF Room
  <2>5. QED BY <2>1, <2>2, <2>3, <2>4 DEF Inv
<1>2. Inv /\ [Next]_vars => Inv'
  BY InvStep
<1>3. QED BY <1>1, <1>2, PTL DEF Spec

\* TypeOK: every variable of the server keeps its type, and no run of requests
\* outgrows the ids and senders that its connections were given.
THEOREM TypeCorrect == Spec => []TypeOK
<1>1. Inv => TypeOK
  BY DEF Inv, TypeOK
<1>2. QED BY <1>1, Invariant, PTL

-----------------------------------------------------------------------------
(* The map and the lab.                                                    *)

\* A session on its way out of the lab has left the map, and never comes back.
LeavingMap ==
  /\ \A c \in Conns : pc[c] \in {"stop", "teardown"} => Id(c) \notin sessions
  /\ \A sender \in senders : sender.at \in {"stop", "teardown"} => sender.id \notin sessions

\* A session about to enter the map is in the lab, and nobody calls it silent,
\* unless a reset has come between.
Entering ==
  \A c \in Conns : pc[c] = "register" =>
    Id(c) \notin silent /\ (resets = 0 => Id(c) \in DOMAIN lab)

MapInv == /\ StopChannelHeard /\ LeavingMap /\ Entering
          /\ ForgottenOnlyInPassing /\ NoTunerLeak

\* As before, for these conjuncts.
LEMMA MapFrames ==
  /\ StopChannelHeard /\ UNCHANGED <<stopCh, senders>> => StopChannelHeard'
  /\ LeavingMap /\ UNCHANGED <<pc, req, sessions, senders, struct>> => LeavingMap'
  /\ Entering /\ UNCHANGED <<pc, req, silent, lab, resets, resetting>> => Entering'
  /\ ForgottenOnlyInPassing /\ UNCHANGED <<sessions, lab, doomed, resets>> => ForgottenOnlyInPassing'
  /\ NoTunerLeak /\ UNCHANGED <<lab, sessions, pc, req, senders, resetting>> => NoTunerLeak'
<1>1. StopChannelHeard /\ UNCHANGED <<stopCh, senders>> => StopChannelHeard'
  BY DEF StopChannelHeard, Active, Told
<1>2. LeavingMap /\ UNCHANGED <<pc, req, sessions, senders, struct>> => LeavingMap'
  BY DEF LeavingMap, Id
<1>3. Entering /\ UNCHANGED <<pc, req, silent, lab, resets, resetting>> => Entering'
  BY DEF Entering, Id
<1>4. ForgottenOnlyInPassing /\ UNCHANGED <<sessions, lab, doomed, resets>> => ForgottenOnlyInPassing'
  BY DEF ForgottenOnlyInPassing
<1>5. NoTunerLeak /\ UNCHANGED <<lab, sessions, pc, req, senders, resetting>> => NoTunerLeak'
  BY DEF NoTunerLeak, Id
<1>6. QED BY <1>1, <1>2, <1>3, <1>4, <1>5

\* A stop channel is still heard when the senders that hear it go on.
LEMMA Heard ==
  ASSUME StopChannelHeard,
         \A id \in IDs : stopCh'[id] # 0 =>
           /\ stopCh'[id] = stopCh[id]
           /\ \A sender \in senders :
                sender.id = id /\ sender.at = "run" /\ sender.gen = stopCh[id] => sender \in senders'
  PROVE  StopChannelHeard'
BY DEF StopChannelHeard, Active, Told

\* So is the one of a sender just started.
LEMMA HeardAtStart ==
  ASSUME Inv, StopChannelHeard, NEW id \in IDs, StartSender(id)
  PROVE  StopChannelHeard'
<1> DEFINE new == [id |-> id, gen |-> plays[id] + 1, at |-> "run"]
<1>1. /\ stopCh' = [stopCh EXCEPT ![id] = plays[id] + 1]
      /\ senders' = senders \cup {new}
      /\ stopCh \in [IDs -> 0..MaxPlays]
  BY DEF StartSender, Inv, SenderTypes
<1>2. new.id = id /\ new.gen = stopCh'[id] /\ new.at = "run"
  BY <1>1
<1> HIDE DEF new
<1>3. QED BY <1>1, <1>2 DEF StopChannelHeard, Active, Told

\* Every step preserves it.
LEMMA MapStep ==
  ASSUME Inv, Inv', MapInv, [Next]_vars
  PROVE  MapInv'
<1>1. CASE UNCHANGED vars
  BY <1>1, MapFrames DEF vars, labVars, MapInv
<1>2. ASSUME NEW c \in Conns, Receive(c) PROVE MapInv'
  <2>1. LeavingMap'
    BY <1>2 DEF MapInv, Receive, At, Goto, Id, LeavingMap, Inv
  <2>2. Entering'
    BY <1>2 DEF MapInv, Receive, At, Goto, Id, labVars, httpVars, Entering,
           DoomedForgotten, Inv
  <2>3. NoTunerLeak'
    BY <1>2 DEF MapInv, Receive, At, Goto, Id, labVars, httpVars, NoTunerLeak, Inv
  <2>4. QED BY <1>2, MapFrames, <2>1, <2>2, <2>3 DEF MapInv, Receive, labVars, httpVars
<1>3. ASSUME NEW c \in Conns, Expire(c) PROVE MapInv'
  <2>1. LeavingMap'
    BY <1>3 DEF MapInv, Expire, LabExpire, Lab!End, Goto, connVars, LeavingMap, Id, Inv
  <2>2. Entering'
    BY <1>3 DEF MapInv, Expire, LabExpire, Lab!End, Goto, connVars, httpVars, Entering,
           DoomedForgotten, Id, Inv
  <2>3. ForgottenOnlyInPassing'
    BY <1>3 DEF MapInv, Expire, LabExpire, Lab!End, At, httpVars,
           ForgottenOnlyInPassing, MapTypes, AllPlaced, Placed, Inv
  <2>4. NoTunerLeak'
    BY <1>3 DEF MapInv, Expire, LabExpire, Lab!End, At, Goto, connVars, httpVars,
           NoTunerLeak, Id, Inv
  <2>5. QED BY <1>3, MapFrames, <2>1, <2>2, <2>3, <2>4 DEF MapInv, Expire, LabExpire
<1>4. ASSUME NEW c \in Conns, SweepStep(c) PROVE MapInv'
  <2>1. StopChannelHeard'
    BY <1>4 DEF MapInv, SweepStep, Sweep, Stopped, StopChannelHeard, Active, Told,
           SenderTypes, Inv
  <2>2. LeavingMap'
    BY <1>4 DEF MapInv, SweepStep, Sweep, Goto, connVars, LeavingMap, Id, Inv
  <2>3. Entering'
    BY <1>4 DEF MapInv, SweepStep, Sweep, Goto, labVars, connVars, httpVars, Entering,
           DoomedForgotten, Id, Inv
  <2>4. ForgottenOnlyInPassing'
    BY <1>4 DEF MapInv, SweepStep, Sweep, labVars, httpVars, ForgottenOnlyInPassing, Inv
  <2>5. NoTunerLeak'
    BY <1>4 DEF MapInv, SweepStep, Sweep, At, Goto, labVars, connVars, httpVars,
           NoTunerLeak, DoomedForgotten, MapTypes, Id, Inv
  <2>6. QED BY <1>4, <2>1, <2>2, <2>3, <2>4, <2>5 DEF MapInv, SweepStep, Sweep
<1>5. ASSUME NEW c \in Conns, Touch(c) PROVE MapInv'
  <2>1. LeavingMap'
    BY <1>5, BoundAssumption DEF MapInv, Touch, At, Goto, Id, connVars, LeavingMap,
           AllPlaced, Placed, Inv
  <2>2. Entering'
    BY <1>5, BoundAssumption DEF MapInv, Touch, At, Goto, Id, connVars, httpVars,
           Entering, AllPlaced, Placed, DoomedForgotten, Inv
  <2>3. NoTunerLeak'
    BY <1>5 DEF MapInv, Touch, At, Goto, Id, connVars, httpVars, NoTunerLeak, Inv
  <2>4. QED BY <1>5, MapFrames, <2>1, <2>2, <2>3 DEF MapInv, Touch, httpVars
<1>6. ASSUME NEW c \in Conns, SetupLab(c) PROVE MapInv'
  <2>1. LeavingMap'
    BY <1>6 DEF MapInv, SetupLab, At, Goto, LeavingMap, Id, Inv
  <2>2. Entering'
    BY <1>6 DEF MapInv, SetupLab, Lab!Admit, Goto, httpVars, Entering, ConnTypes,
           LabTypes, DoomedForgotten, Id, Inv
  <2>3. ForgottenOnlyInPassing'
    BY <1>6 DEF MapInv, SetupLab, Lab!Admit, httpVars, ForgottenOnlyInPassing, Inv
  <2>4. NoTunerLeak'
    BY <1>6 DEF MapInv, SetupLab, Lab!Admit, At, Goto, httpVars, NoTunerLeak, ConnTypes,
           Id, Inv
  <2>5. QED BY <1>6, MapFrames, <2>1, <2>2, <2>3, <2>4 DEF MapInv, SetupLab
<1>7. ASSUME NEW c \in Conns, SetupRefused(c) PROVE MapInv'
  <2>1. LeavingMap'
    BY <1>7 DEF MapInv, SetupRefused, Goto, connVars, LeavingMap, Id, Inv
  <2>2. Entering'
    BY <1>7 DEF MapInv, SetupRefused, Goto, labVars, connVars, httpVars, Entering,
           DoomedForgotten, Id, Inv
  <2>3. NoTunerLeak'
    BY <1>7 DEF MapInv, SetupRefused, At, Goto, labVars, connVars, httpVars,
           NoTunerLeak, Id, Inv
  <2>4. QED BY <1>7, MapFrames, <2>1, <2>2, <2>3
         DEF MapInv, SetupRefused, labVars, httpVars
<1>8. ASSUME NEW c \in Conns, Register(c) PROVE MapInv'
  <2>1. LeavingMap'
    BY <1>8 DEF MapInv, Register, At, Goto, Id, LeavingMap, AllPlaced, Placed, AllHold,
           Holds, SendersPlaced, Inv
  <2>2. Entering'
    BY <1>8 DEF MapInv, Register, Goto, Id, labVars, httpVars, Entering,
           DoomedForgotten, Inv
  <2>3. ForgottenOnlyInPassing'
    BY <1>8 DEF MapInv, Register, At, labVars, httpVars, ForgottenOnlyInPassing,
           MapTypes, Entering, Inv
  <2>4. NoTunerLeak'
    BY <1>8 DEF MapInv, Register, Goto, Id, labVars, httpVars, NoTunerLeak, Inv
  <2>5. QED BY <1>8, MapFrames, <2>1, <2>2, <2>3, <2>4 DEF MapInv, Register
<1>9. ASSUME NEW c \in Conns, PlayFind(c) PROVE MapInv'
  <2>1. LeavingMap'
    BY <1>9 DEF MapInv, PlayFind, Goto, Id, connVars, LeavingMap, Inv
  <2>2. Entering'
    BY <1>9 DEF MapInv, PlayFind, Goto, Id, labVars, connVars, httpVars, Entering,
           DoomedForgotten, Inv
  <2>3. NoTunerLeak'
    BY <1>9 DEF MapInv, PlayFind, At, Goto, Id, labVars, connVars, httpVars,
           NoTunerLeak, Inv
  <2>4. QED BY <1>9, MapFrames, <2>1, <2>2, <2>3 DEF MapInv, PlayFind, labVars, httpVars
<1>10. ASSUME NEW c \in Conns, PlayLab(c) PROVE MapInv'
  <2>1. LeavingMap'
    BY <1>10 DEF MapInv, PlayLab, Goto, Id, connVars, LeavingMap, ConnTypes, Inv
  <2>2. Entering'
    BY <1>10 DEF MapInv, PlayLab, Lab!Move, Goto, Id, labVars, connVars, httpVars,
           Entering, ConnTypes, DoomedForgotten, Inv
  <2>3. ForgottenOnlyInPassing'
    BY <1>10 DEF MapInv, PlayLab, Lab!Move, labVars, httpVars, ForgottenOnlyInPassing,
           Inv
  <2>4. NoTunerLeak'
    BY <1>10 DEF MapInv, PlayLab, Lab!Move, At, Goto, Id, labVars, connVars, httpVars,
           NoTunerLeak, ConnTypes, Inv
  <2>5. QED BY <1>10, MapFrames, <2>1, <2>2, <2>3, <2>4 DEF MapInv, PlayLab
<1>11. ASSUME NEW c \in Conns, PlayStart(c) PROVE MapInv'
  <2>1. StopChannelHeard'
    <3>1. Id(c) \in IDs
      BY <1>11, BoundAssumption DEF Inv, PlayStart, At, AllPlaced, Placed, AllHold,
             Holds, Naming, MapTypes, LabTypes, IDs
    <3>2. CASE UNCHANGED <<stopCh, senders>>
      BY <3>2, MapFrames DEF MapInv
    <3>3. CASE StartSender(Id(c))
      BY <3>1, <3>3, HeardAtStart DEF MapInv
    <3>4. QED BY <1>11, <3>2, <3>3 DEF PlayStart
  <2>2. LeavingMap'
    BY <1>11 DEF MapInv, PlayStart, StartSender, Goto, Id, LeavingMap, Inv
  <2>3. Entering'
    BY <1>11 DEF MapInv, PlayStart, Goto, Id, labVars, httpVars, Entering,
           DoomedForgotten, Inv
  <2>4. NoTunerLeak'
    BY <1>11 DEF MapInv, PlayStart, StartSender, At, Goto, Id, labVars, httpVars,
           NoTunerLeak, Inv
  <2>5. QED BY <1>11, MapFrames, <2>1, <2>2, <2>3, <2>4
         DEF MapInv, PlayStart, labVars, httpVars
<1>12. ASSUME NEW c \in Conns, PlayWithoutSender(c) PROVE MapInv'
  <2>1. StopChannelHeard'
    BY <1>12 DEF MapInv, PlayWithoutSender, Stopped, StopChannelHeard, Active, Told,
           SenderTypes, Inv
  <2>2. LeavingMap'
    BY <1>12 DEF MapInv, PlayWithoutSender, Goto, Id, connVars, LeavingMap, Inv
  <2>3. Entering'
    BY <1>12 DEF MapInv, PlayWithoutSender, Goto, Id, labVars, connVars, httpVars,
           Entering, DoomedForgotten, Inv
  <2>4. NoTunerLeak'
    BY <1>12 DEF MapInv, PlayWithoutSender, At, Goto, Id, labVars, connVars, httpVars,
           NoTunerLeak, Inv
  <2>5. QED BY <1>12, MapFrames, <2>1, <2>2, <2>3, <2>4
         DEF MapInv, PlayWithoutSender, labVars, httpVars
<1>13. ASSUME NEW c \in Conns, PauseFind(c) PROVE MapInv'
  <2>1. LeavingMap'
    BY <1>13 DEF MapInv, PauseFind, Goto, Id, connVars, LeavingMap, Inv
  <2>2. Entering'
    BY <1>13 DEF MapInv, PauseFind, Goto, Id, labVars, connVars, httpVars, Entering,
           DoomedForgotten, Inv
  <2>3. NoTunerLeak'
    BY <1>13 DEF MapInv, PauseFind, At, Goto, Id, labVars, connVars, httpVars,
           NoTunerLeak, Inv
  <2>4. QED BY <1>13, MapFrames, <2>1, <2>2, <2>3
         DEF MapInv, PauseFind, labVars, httpVars
<1>14. ASSUME NEW c \in Conns, PauseStop(c) PROVE MapInv'
  <2>1. StopChannelHeard'
    BY <1>14 DEF MapInv, PauseStop, Stopped, StopChannelHeard, Active, Told,
           SenderTypes, Inv
  <2>2. LeavingMap'
    BY <1>14 DEF MapInv, PauseStop, Goto, Id, connVars, LeavingMap, Inv
  <2>3. Entering'
    BY <1>14 DEF MapInv, PauseStop, Goto, Id, labVars, connVars, httpVars, Entering,
           DoomedForgotten, Inv
  <2>4. NoTunerLeak'
    BY <1>14 DEF MapInv, PauseStop, At, Goto, Id, labVars, connVars, httpVars,
           NoTunerLeak, Inv
  <2>5. QED BY <1>14, MapFrames, <2>1, <2>2, <2>3, <2>4
         DEF MapInv, PauseStop, labVars, httpVars
<1>15. ASSUME NEW c \in Conns, PauseLab(c) PROVE MapInv'
  <2>1. LeavingMap'
    BY <1>15 DEF MapInv, PauseLab, Goto, Id, connVars, LeavingMap, Inv
  <2>2. Entering'
    BY <1>15 DEF MapInv, PauseLab, Lab!Move, Goto, Id, labVars, connVars, httpVars,
           Entering, DoomedForgotten, Inv
  <2>3. ForgottenOnlyInPassing'
    BY <1>15 DEF MapInv, PauseLab, Lab!Move, labVars, httpVars, ForgottenOnlyInPassing,
           Inv
  <2>4. NoTunerLeak'
    BY <1>15 DEF MapInv, PauseLab, Lab!Move, At, Goto, Id, labVars, connVars, httpVars,
           NoTunerLeak, Inv
  <2>5. QED BY <1>15, MapFrames, <2>1, <2>2, <2>3, <2>4 DEF MapInv, PauseLab
<1>16. ASSUME NEW c \in Conns, Delete(c) PROVE MapInv'
  <2>1. LeavingMap'
    BY <1>16 DEF MapInv, Delete, Goto, Id, connVars, LeavingMap, Inv
  <2>2. Entering'
    BY <1>16 DEF MapInv, Delete, Goto, Id, labVars, connVars, httpVars, Entering,
           DoomedForgotten, Inv
  <2>3. ForgottenOnlyInPassing'
    BY <1>16 DEF MapInv, Delete, labVars, httpVars, ForgottenOnlyInPassing, Inv
  <2>4. NoTunerLeak'
    BY <1>16 DEF MapInv, Delete, Goto, Id, labVars, connVars, httpVars, NoTunerLeak,
           ConnTypes, Inv
  <2>5. QED BY <1>16, MapFrames, <2>1, <2>2, <2>3, <2>4 DEF MapInv, Delete
<1>17. ASSUME NEW c \in Conns, Stop(c) PROVE MapInv'
  <2>1. StopChannelHeard'
    BY <1>17 DEF MapInv, Stop, Stopped, StopChannelHeard, Active, Told, SenderTypes, Inv
  <2>2. LeavingMap'
    BY <1>17 DEF MapInv, Stop, At, Goto, Id, connVars, LeavingMap, Inv
  <2>3. Entering'
    BY <1>17 DEF MapInv, Stop, Goto, Id, labVars, connVars, httpVars, Entering,
           DoomedForgotten, Inv
  <2>4. NoTunerLeak'
    BY <1>17 DEF MapInv, Stop, Goto, Id, labVars, connVars, httpVars, NoTunerLeak, Inv
  <2>5. QED BY <1>17, MapFrames, <2>1, <2>2, <2>3, <2>4
         DEF MapInv, Stop, labVars, httpVars
<1>18. ASSUME NEW c \in Conns, Teardown(c) PROVE MapInv'
  <2>1. LeavingMap'
    BY <1>18 DEF MapInv, Teardown, Lab!End, Goto, Id, LeavingMap, Inv
  <2>2. Entering'
    BY <1>18 DEF MapInv, Teardown, Lab!End, At, Goto, Id, httpVars, Entering, AllPlaced,
           Placed, DoomedForgotten, AllHold, Holds, Inv
  <2>3. ForgottenOnlyInPassing'
    BY <1>18 DEF MapInv, Teardown, Lab!End, At, httpVars, ForgottenOnlyInPassing,
           LeavingMap, Inv
  <2>4. NoTunerLeak'
    BY <1>18 DEF MapInv, Teardown, Lab!End, Goto, Id, httpVars, NoTunerLeak, Inv
  <2>5. QED BY <1>18, MapFrames, <2>1, <2>2, <2>3, <2>4 DEF MapInv, Teardown
<1>19. ASSUME NEW c \in Conns, Respond(c) PROVE MapInv'
  <2>1. LeavingMap'
    <3>1. /\ pc' \in {[pc EXCEPT ![c] = "idle"], [pc EXCEPT ![c] = "after"]}
          /\ req' \in {req, [req EXCEPT ![c] = NoRequest]}
          /\ pc[c] = "respond" /\ sessions' = sessions /\ senders' = senders
      BY <1>19 DEF Respond, At, Goto, Finish
    <3>2. QED BY <3>1 DEF Inv, MapInv, LeavingMap, ConnTypes, Id
  <2>2. Entering'
    BY <1>19 DEF MapInv, Respond, Finish, NoRequest, Goto, labVars, httpVars, Entering,
           ConnTypes, DoomedForgotten, Id, Inv
  <2>3. NoTunerLeak'
    BY <1>19 DEF MapInv, Respond, Finish, NoRequest, At, Goto, labVars, httpVars,
           NoTunerLeak, ConnTypes, LabTypes, IDs, Id, Inv
  <2>4. QED BY <1>19, MapFrames, <2>1, <2>2, <2>3 DEF MapInv, Respond, labVars, httpVars
<1>20. ASSUME NEW c \in Conns, AfterWrite(c) PROVE MapInv'
  <2>1. StopChannelHeard'
    <3>1. pending[c] \in IDs /\ StartSender(pending[c])
      BY <1>20 DEF Inv, AfterWrite, At, AllPlaced, Placed, ConnTypes
    <3>2. QED BY <3>1, HeardAtStart DEF MapInv
  <2>2. LeavingMap'
    BY <1>20 DEF MapInv, AfterWrite, StartSender, Finish, NoRequest, At, Goto,
           LeavingMap, Id, Inv
  <2>3. Entering'
    BY <1>20 DEF MapInv, AfterWrite, Finish, NoRequest, At, Goto, labVars, httpVars,
           Entering, DoomedForgotten, Id, Inv
  <2>4. NoTunerLeak'
    BY <1>20 DEF MapInv, AfterWrite, StartSender, Finish, NoRequest, At, Goto, labVars,
           httpVars, NoTunerLeak, Id, Inv
  <2>5. QED BY <1>20, MapFrames, <2>1, <2>2, <2>3, <2>4
         DEF MapInv, AfterWrite, labVars, httpVars
<1>21. ASSUME NEW c \in Conns, Hangup(c) PROVE MapInv'
  <2>1. LeavingMap'
    BY <1>21 DEF MapInv, Hangup, NoRequest, At, Goto, LeavingMap, Id, Inv
  <2>2. Entering'
    BY <1>21 DEF MapInv, Hangup, NoRequest, At, Goto, labVars, httpVars, Entering,
           DoomedForgotten, Id, Inv
  <2>3. NoTunerLeak'
    BY <1>21 DEF MapInv, Hangup, NoRequest, At, Goto, labVars, httpVars, NoTunerLeak,
           Id, Inv
  <2>4. QED BY <1>21, MapFrames, <2>1, <2>2, <2>3 DEF MapInv, Hangup, labVars, httpVars
<1>22. ASSUME NEW c \in Conns, CloseSession(c) PROVE MapInv'
  <2>1. LeavingMap'
    <3>1. PICK id \in owned[c] :
            \/ /\ req' = [req EXCEPT ![c].id = id] /\ owned' = owned
               /\ pc' = [pc EXCEPT ![c] = "delete"]
            \/ req' = req /\ pc' = pc /\ owned' = [owned EXCEPT ![c] = @ \ {id}]
      BY <1>22 DEF CloseSession, Goto
    <3>2. pc[c] = "closing" /\ sessions' = sessions /\ senders' = senders
      BY <1>22 DEF CloseSession, At
    <3>3. QED BY <3>1, <3>2 DEF Inv, MapInv, LeavingMap, ConnTypes, Id
  <2>2. Entering'
    BY <1>22 DEF MapInv, CloseSession, Goto, Id, labVars, httpVars, Entering, ConnTypes,
           DoomedForgotten, Inv
  <2>3. NoTunerLeak'
    <3>1. PICK id \in owned[c] :
            \/ /\ req' = [req EXCEPT ![c].id = id] /\ owned' = owned
               /\ pc' = [pc EXCEPT ![c] = "delete"]
            \/ req' = req /\ pc' = pc /\ owned' = [owned EXCEPT ![c] = @ \ {id}]
      BY <1>22 DEF CloseSession, Goto
    <3>2. /\ pc[c] = "closing" /\ lab' = lab /\ sessions' = sessions /\ senders' = senders
          /\ resetting' = resetting
      BY <1>22 DEF CloseSession, At, labVars, httpVars
    <3>3. \A d \in Conns : pc[d] \in {"register", "stop", "teardown"} =>
            pc'[d] = pc[d] /\ req'[d].id = req[d].id
      BY <3>1, <3>2 DEF Inv, ConnTypes
    <3>4. QED BY <3>2, <3>3 DEF MapInv, NoTunerLeak, Id
  <2>4. QED BY <1>22, MapFrames, <2>1, <2>2, <2>3
         DEF MapInv, CloseSession, labVars, httpVars
<1>23. ASSUME NEW c \in Conns, Closed(c) PROVE MapInv'
  <2>1. LeavingMap'
    BY <1>23 DEF MapInv, Closed, Finish, NoRequest, At, Goto, LeavingMap, Id, Inv
  <2>2. Entering'
    BY <1>23 DEF MapInv, Closed, Finish, NoRequest, At, Goto, labVars, httpVars,
           Entering, DoomedForgotten, Id, Inv
  <2>3. NoTunerLeak'
    BY <1>23 DEF MapInv, Closed, Finish, NoRequest, At, Goto, labVars, httpVars,
           NoTunerLeak, Id, Inv
  <2>4. QED BY <1>23, MapFrames, <2>1, <2>2, <2>3 DEF MapInv, Closed, labVars, httpVars
<1>24. ASSUME NEW c \in Conns, ClientLeaves(c) PROVE MapInv'
  <2>1. QED BY <1>24, MapFrames DEF MapInv, ClientLeaves, labVars, httpVars
<1>25. ASSUME NEW sender \in senders, SenderStops(sender) PROVE MapInv'
  <2>1. StopChannelHeard'
    <3>1. \A id \in IDs : stopCh'[id] # 0 =>
            /\ stopCh'[id] = stopCh[id]
            /\ \A s \in senders :
                 s.id = id /\ s.at = "run" /\ s.gen = stopCh[id] => s \in senders'
      BY <1>25 DEF SenderStops, Told, Inv, SenderTypes
    <3>2. QED BY <3>1, Heard DEF MapInv
  <2>2. LeavingMap'
    BY <1>25 DEF MapInv, SenderStops, Told, connVars, LeavingMap, Id, Inv
  <2>3. NoTunerLeak'
    BY <1>25 DEF MapInv, SenderStops, Told, labVars, connVars, httpVars, NoTunerLeak,
           Id, Inv
  <2>4. QED BY <1>25, MapFrames, <2>1, <2>2, <2>3
         DEF MapInv, SenderStops, labVars, connVars, httpVars
<1>26. ASSUME NEW sender \in senders, SenderFails(sender) PROVE MapInv'
  <2>1. StopChannelHeard'
    <3>1. \A id \in IDs : stopCh'[id] # 0 =>
            /\ stopCh'[id] = stopCh[id]
            /\ \A s \in senders :
                 s.id = id /\ s.at = "run" /\ s.gen = stopCh[id] => s \in senders'
      BY <1>26 DEF SenderFails, Told, Stopped, Step, Inv, SenderTypes
    <3>2. QED BY <3>1, Heard DEF MapInv
  <2>2. LeavingMap'
    BY <1>26 DEF MapInv, SenderFails, Told, Step, connVars, LeavingMap, SenderTypes, Id,
           Inv
  <2>3. NoTunerLeak'
    BY <1>26 DEF MapInv, SenderFails, Told, Step, labVars, connVars, httpVars,
           NoTunerLeak, Id, Inv
  <2>4. QED BY <1>26, MapFrames, <2>1, <2>2, <2>3
         DEF MapInv, SenderFails, labVars, connVars, httpVars
<1>27. ASSUME NEW sender \in senders, SenderDeletes(sender) PROVE MapInv'
  <2>1. StopChannelHeard'
    <3>1. \A id \in IDs : stopCh'[id] # 0 =>
            /\ stopCh'[id] = stopCh[id]
            /\ \A s \in senders :
                 s.id = id /\ s.at = "run" /\ s.gen = stopCh[id] => s \in senders'
      BY <1>27 DEF SenderDeletes, Step, Inv, SenderTypes
    <3>2. QED BY <3>1, Heard DEF MapInv
  <2>2. LeavingMap'
    BY <1>27 DEF MapInv, SenderDeletes, Step, connVars, LeavingMap, SenderTypes, Id, Inv
  <2>3. ForgottenOnlyInPassing'
    BY <1>27 DEF MapInv, SenderDeletes, Step, labVars, httpVars, ForgottenOnlyInPassing,
           Inv
  <2>4. NoTunerLeak'
    <3> DEFINE at == IF sender.id \in sessions THEN "stop" ELSE "teardown"
           new == [sender EXCEPT !.at = at]
    <3>1. /\ new.id = sender.id /\ new.at = at /\ at \in {"stop", "teardown"}
          /\ senders' = (senders \ {sender}) \cup {new}
      BY <1>27 DEF SenderDeletes, Step, Inv, SenderTypes
    <3>2. /\ sessions' = sessions \ {sender.id} /\ sender.at = "delete"
          /\ lab' = lab /\ resetting' = resetting /\ pc' = pc /\ req' = req
      BY <1>27 DEF SenderDeletes, labVars, connVars, httpVars
    <3> HIDE DEF new, at
    <3>3. QED BY <3>1, <3>2 DEF MapInv, NoTunerLeak, Id
  <2>5. QED BY <1>27, MapFrames, <2>1, <2>2, <2>3, <2>4
         DEF MapInv, SenderDeletes, labVars, connVars, httpVars
<1>28. ASSUME NEW sender \in senders, SenderStopsSession(sender) PROVE MapInv'
  <2>1. StopChannelHeard'
    <3>1. \A id \in IDs : stopCh'[id] # 0 =>
            /\ stopCh'[id] = stopCh[id]
            /\ \A s \in senders :
                 s.id = id /\ s.at = "run" /\ s.gen = stopCh[id] => s \in senders'
      BY <1>28 DEF SenderStopsSession, Stopped, Step, Inv, SenderTypes
    <3>2. QED BY <3>1, Heard DEF MapInv
  <2>2. LeavingMap'
    BY <1>28 DEF MapInv, SenderStopsSession, Step, connVars, LeavingMap, SenderTypes,
           Id, Inv
  <2>3. NoTunerLeak'
    <3> DEFINE at == "teardown"
           new == [sender EXCEPT !.at = at]
    <3>1. /\ new.id = sender.id /\ new.at = at /\ at \in {"stop", "teardown"}
          /\ senders' = (senders \ {sender}) \cup {new}
      BY <1>28 DEF SenderStopsSession, Step, Inv, SenderTypes
    <3>2. /\ sessions' = sessions
          /\ lab' = lab /\ resetting' = resetting /\ pc' = pc /\ req' = req
      BY <1>28 DEF SenderStopsSession, labVars, connVars, httpVars
    <3> HIDE DEF new, at
    <3>3. QED BY <3>1, <3>2 DEF MapInv, NoTunerLeak, Id
  <2>4. QED BY <1>28, MapFrames, <2>1, <2>2, <2>3
         DEF MapInv, SenderStopsSession, labVars, connVars, httpVars
<1>29. ASSUME NEW sender \in senders, SenderTearsDown(sender) PROVE MapInv'
  <2>1. StopChannelHeard'
    BY <1>29 DEF MapInv, SenderTearsDown, Lab!End, StopChannelHeard, Active, Told,
           SenderTypes, Inv
  <2>2. LeavingMap'
    BY <1>29 DEF MapInv, SenderTearsDown, Lab!End, connVars, LeavingMap, Id, Inv
  <2>3. Entering'
    BY <1>29 DEF MapInv, SenderTearsDown, Lab!End, connVars, httpVars, Entering,
           AllPlaced, Placed, DoomedForgotten, SendersPlaced, AllHold, Holds, Id, Inv
  <2>4. ForgottenOnlyInPassing'
    BY <1>29 DEF MapInv, SenderTearsDown, Lab!End, httpVars, ForgottenOnlyInPassing,
           LeavingMap, Inv
  <2>5. NoTunerLeak'
    BY <1>29 DEF MapInv, SenderTearsDown, Lab!End, connVars, httpVars, NoTunerLeak, Id,
           Inv
  <2>6. QED BY <1>29, <2>1, <2>2, <2>3, <2>4, <2>5 DEF MapInv, SenderTearsDown
<1>30. ASSUME NEW sender \in senders, SenderFinishes(sender) PROVE MapInv'
  <2>1. StopChannelHeard'
    <3>1. \A id \in IDs : stopCh'[id] # 0 =>
            /\ stopCh'[id] = stopCh[id]
            /\ \A s \in senders :
                 s.id = id /\ s.at = "run" /\ s.gen = stopCh[id] => s \in senders'
      BY <1>30 DEF SenderFinishes, Told, Stopped, Inv, SenderTypes
    <3>2. QED BY <3>1, Heard DEF MapInv
  <2>2. LeavingMap'
    BY <1>30 DEF MapInv, SenderFinishes, Told, connVars, LeavingMap, Id, Inv
  <2>3. NoTunerLeak'
    BY <1>30 DEF MapInv, SenderFinishes, Told, labVars, connVars, httpVars, NoTunerLeak,
           Id, Inv
  <2>4. QED BY <1>30, MapFrames, <2>1, <2>2, <2>3
         DEF MapInv, SenderFinishes, labVars, connVars, httpVars
<1>31. CASE ReaperExpires
  <2>1. Entering'
    BY <1>31 DEF MapInv, ReaperExpires, LabExpire, Lab!End, connVars, httpVars,
           Entering, DoomedForgotten, Id, Inv
  <2>2. ForgottenOnlyInPassing'
    BY <1>31 DEF MapInv, ReaperExpires, LabExpire, Lab!End, httpVars,
           ForgottenOnlyInPassing, MapTypes, Inv
  <2>3. NoTunerLeak'
    BY <1>31 DEF MapInv, ReaperExpires, LabExpire, Lab!End, connVars, httpVars,
           NoTunerLeak, Id, Inv
  <2>4. QED BY <1>31, MapFrames, <2>1, <2>2, <2>3
         DEF MapInv, ReaperExpires, connVars, LabExpire
<1>32. CASE ReaperSweeps
  <2>1. StopChannelHeard'
    BY <1>32 DEF MapInv, ReaperSweeps, Sweep, Stopped, StopChannelHeard, Active, Told,
           SenderTypes, Inv
  <2>2. LeavingMap'
    BY <1>32 DEF MapInv, ReaperSweeps, Sweep, connVars, LeavingMap, Id, Inv
  <2>3. ForgottenOnlyInPassing'
    BY <1>32 DEF MapInv, ReaperSweeps, Sweep, labVars, httpVars, ForgottenOnlyInPassing,
           Inv
  <2>4. NoTunerLeak'
    BY <1>32 DEF MapInv, ReaperSweeps, Sweep, labVars, connVars, httpVars, NoTunerLeak,
           DoomedForgotten, MapTypes, Id, Inv
  <2>5. QED BY <1>32, MapFrames, <2>1, <2>2, <2>3, <2>4
         DEF MapInv, ReaperSweeps, labVars, connVars, httpVars, Sweep
<1>33. CASE ResetRtsp
  <2>1. StopChannelHeard'
    BY <1>33 DEF MapInv, ResetRtsp, Stopped, StopChannelHeard, Active, Told,
           SenderTypes, Inv
  <2>2. LeavingMap'
    BY <1>33 DEF MapInv, ResetRtsp, LeavingMap, Inv
  <2>3. Entering'
    BY <1>33 DEF MapInv, ResetRtsp, labVars, connVars, Entering, DoomedForgotten, Id,
           Inv
  <2>4. ForgottenOnlyInPassing'
    BY <1>33 DEF MapInv, ResetRtsp, ForgottenOnlyInPassing, Inv
  <2>5. NoTunerLeak'
    BY <1>33 DEF MapInv, ResetRtsp, NoTunerLeak, Inv
  <2>6. QED BY <1>33, <2>1, <2>2, <2>3, <2>4, <2>5 DEF MapInv, ResetRtsp
<1>34. CASE ResetLab
  <2>1. Entering'
    BY <1>34 DEF MapInv, ResetLab, Lab!End, Entering, DoomedForgotten, Inv
  <2>2. ForgottenOnlyInPassing'
    BY <1>34 DEF MapInv, ResetLab, Lab!End, ForgottenOnlyInPassing, DoomedForgotten, Inv
  <2>3. NoTunerLeak'
    BY <1>34 DEF MapInv, ResetLab, Lab!End, NoTunerLeak, Inv
  <2>4. QED BY <1>34, MapFrames, <2>1, <2>2, <2>3 DEF MapInv, ResetLab, connVars
<1>35. ASSUME NEW id \in IDs, FallSilent(id) PROVE MapInv'
  <2>1. Entering'
    BY <1>35 DEF MapInv, FallSilent, At, Id, connVars, httpVars, Entering, DoomedForgotten,
           Inv
  <2>2. QED BY <1>35, MapFrames, <2>1 DEF MapInv, FallSilent, connVars, httpVars
<1>36. QED BY <1>1, <1>2, <1>3, <1>4, <1>5, <1>6, <1>7, <1>8, <1>9, <1>10, <1>11, <1>12,
       <1>13, <1>14, <1>15, <1>16, <1>17, <1>18, <1>19, <1>20, <1>21, <1>22, <1>23,
       <1>24, <1>25, <1>26, <1>27, <1>28, <1>29, <1>30, <1>31, <1>32, <1>33, <1>34,
       <1>35
       DEF Next, Handle, SenderExits, Reap, Reset

\* And so does the one about the map and the lab.
THEOREM MapInvariant == Spec => []MapInv
<1>1. Init => MapInv
  BY DEF Init, MapInv, StopChannelHeard, LeavingMap, Entering, ForgottenOnlyInPassing,
         NoTunerLeak
<1>2. Inv /\ Inv' /\ MapInv /\ [Next]_vars => MapInv'
  BY MapStep
<1>3. QED BY <1>1, <1>2, Invariant, PTL DEF Spec

\* StopChannelHeard: a stop channel is always that of a sender still in its loop,
\* however sends, stops and limits interleave.
THEOREM StopChannelHeardHolds == Spec => []StopChannelHeard
<1>1. MapInv => StopChannelHeard
  BY DEF MapInv
<1>2. QED BY <1>1, MapInvariant, PTL

\* NoTunerLeak: no tuner is lost to a session that no request can name.
THEOREM NoTunerLeakHolds == Spec => []NoTunerLeak
<1>1. MapInv => NoTunerLeak
  BY DEF MapInv
<1>2. QED BY <1>1, MapInvariant, PTL

\* ForgottenOnlyInPassing: without a reset, what the lab has lost the map is about
\* to lose.
THEOREM ForgottenOnlyInPassingHolds == Spec => []ForgottenOnlyInPassing
<1>1. MapInv => ForgottenOnlyInPassing
  BY DEF MapInv
<1>2. QED BY <1>1, MapInvariant, PTL

\* MapMatchesLab: whenever nothing is half done and no reset has come, the map and
\* the lab hold the same sessions.
THEOREM MapMatchesLabHolds == Spec => []MapMatchesLab
<1>1. MapInv => MapMatchesLab
  <2> SUFFICES ASSUME MapInv, Quiet, resets = 0 PROVE sessions = DOMAIN lab
    BY DEF MapMatchesLab
  <2>1. sessions \subseteq DOMAIN lab
    BY DEF MapInv, ForgottenOnlyInPassing, Quiet
  <2>2. DOMAIN lab \subseteq sessions
    BY DEF MapInv, NoTunerLeak, Quiet
  <2>3. QED BY <2>1, <2>2
<1>2. QED BY <1>1, MapInvariant, PTL

=============================================================================
