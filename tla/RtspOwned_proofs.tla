-------------------------- MODULE RtspOwned_proofs --------------------------
(***************************************************************************)
(* Proofs about RtspServer when every client uses only the sessions set up *)
(* on its own connection: which senders run, for which sessions, and when  *)
(* one is started too late to be stopped.  Two clients that drive one      *)
(* session can start a sender after its session has gone at any time, so   *)
(* nothing here holds of shared use.                                       *)
(***************************************************************************)
EXTENDS RtspServer_proofs

(* The invariants.                                                         *)

\* Whoever has a session in hand set it up.
Own == \A c \in Conns : Id(c) \in DOMAIN struct => struct[Id(c)].conn = c

\* PLAY has told the lab and has yet to start its sender.
Starting(c) == pc[c] = "start" \/ pending[c] # NoID

\* A PLAY about to start a sender finds the lab playing still.
StartsPlaying ==
  \A c \in Conns :
    Starting(c) /\ Id(c) \in DOMAIN lab => lab[Id(c)].state = "playing"

\* A PAUSE about to tell the lab finds no sender.
PausesStopped == \A c \in Conns : pc[c] = "pauseLab" => stopCh[Id(c)] = 0

\* SilentUnlessPlaying, half-done requests included.
SendersPlay == \A id \in DOMAIN lab : Active(id) => lab[id].state = "playing"

OwnInv == Own /\ StartsPlaying /\ PausesStopped /\ SendersPlay

\* A PLAY about to start a sender, or to leave it to the end of its response, finds
\* its session alive, unless the client has left and an older sender found out.
StartsAlive ==
  \A c \in Conns : pc[c] = "start" => WritesFail(Id(c)) \/ Id(c) \in DOMAIN lab \ silent

\* The step that NoOrphanSender allows.
OnlyLateOrphans ==
  \A id \in IDs : Orphaned(id)' => Orphaned(id) \/ \E c \in Conns : LateStart(c, id)

-----------------------------------------------------------------------------

\* No two connections have one session in hand.
LEMMA OneHolder ==
  ASSUME Inv, Own, NEW c \in Conns, NEW d \in Conns, Id(c) = Id(d), Id(c) # NoID
  PROVE  c = d
<1>1. CASE Id(c) \in DOMAIN struct
  BY <1>1 DEF Own
<1>2. CASE Id(c) \notin DOMAIN struct
  <2>1. ASSUME NEW x \in Conns, Id(x) \notin DOMAIN struct, Id(x) # NoID
        PROVE  pc[x] = "register"
    <3>1. req[x].method \in {"none", "close", "SETUP"} \cup Naming
      BY BoundAssumption DEF Inv, ConnTypes, Naming
    <3>2. req[x].method = "SETUP"
      <4>1. req[x].method \notin Naming \cup {"close"}
        BY <2>1 DEF Inv, AllHold, Holds
      <4>2. CASE req[x].method = "none"
        <5>1. pc[x] \in {"idle", "closed"}
          BY <4>2, BoundAssumption DEF Inv, AllPlaced, Placed, ConnTypes, ConnSteps
        <5>2. QED BY <2>1, <5>1 DEF Inv, AllPlaced, Placed
      <4>3. QED BY <3>1, <4>1, <4>2
    <3>3. QED BY <2>1, <3>2 DEF Inv, AllHold, Holds
  <2>2. pc[c] = "register" /\ pc[d] = "register"
    BY <1>2, <2>1
  <2>3. QED BY <2>2 DEF Inv, Distinct
<1>3. QED BY <1>1, <1>2

\* A session whose sender a request is about to start or has stopped is registered.
LEMMA InHand ==
  ASSUME Inv, NEW c \in Conns, Starting(c) \/ pc[c] \in {"start", "pauseStop", "pauseLab", "stop"}
  PROVE  Id(c) \in DOMAIN struct /\ Id(c) \in 1..nextID /\ Id(c) \in IDs /\ Id(c) # NoID
<1>1. Id(c) \in DOMAIN struct
  BY DEF Inv, Starting, AllPlaced, Placed, AllHold, Holds, Naming
<1>2. QED BY <1>1, BoundAssumption DEF Inv, MapTypes, LabTypes, IDs, NoID

\* No session is registered under NoID or under an id yet to be drawn.
LEMMA NotRegistered ==
  ASSUME Inv
  PROVE  NoID \notin DOMAIN struct /\ nextID + 1 \notin DOMAIN struct
BY BoundAssumption DEF Inv, MapTypes, LabTypes, NoID

\* The lab's sessions have ids of the bound.
LEMMA LabIDs ==
  ASSUME Inv
  PROVE  DOMAIN lab \subseteq IDs
BY BoundAssumption DEF Inv, LabTypes, IDs

\* A running sender belongs to a registered session.
LEMMA ActiveRegistered ==
  ASSUME Inv, NEW id, Active(id)
  PROVE  id \in DOMAIN struct /\ stopCh[id] # 0 /\ id \in IDs
<1>1. PICK sender \in senders : sender.id = id /\ sender.at = "run" /\ ~Told(sender)
  BY DEF Active
<1>2. sender.gen # 0 /\ id \in IDs
  BY <1>1, BoundAssumption DEF Inv, SenderTypes
<1>3. QED BY <1>1, <1>2 DEF Inv, SendersPlaced, Told

\* Stopping senders leaves no stop channel where there was none ...
LEMMA StoppedLess ==
  ASSUME Inv, NEW ids, Stopped(ids)
  PROVE  \A id \in IDs : stopCh'[id] \in {0, stopCh[id]} /\ (id \in ids => stopCh'[id] = 0)
BY DEF Stopped, Inv, SenderTypes

\* ... and no sender running that did not run: nor does a sender that ends.
LEMMA OnlyOld ==
  ASSUME Inv, Inv', NEW ids, stopCh' = stopCh \/ Stopped(ids),
         \A sender \in senders' : sender.at = "run" => sender \in senders
  PROVE  \A id \in IDs : Active(id)' => Active(id) /\ (Stopped(ids) => id \notin ids)
<1> SUFFICES ASSUME NEW id \in IDs, Active(id)'
             PROVE  Active(id) /\ (Stopped(ids) => id \notin ids)
  OBVIOUS
<1>1. PICK sender \in senders' : sender.id = id /\ sender.at = "run" /\ stopCh'[id] = sender.gen
  BY DEF Active, Told
<1>2. sender \in senders /\ sender.gen # 0
  BY <1>1, BoundAssumption DEF Inv, SenderTypes
<1>3. stopCh'[id] = stopCh[id] /\ (Stopped(ids) => id \notin ids)
  BY <1>1, <1>2, StoppedLess
<1>4. QED BY <1>1, <1>2, <1>3 DEF Active, Told

\* Starting a sender starts none of another session.
LEMMA OnlyStarted ==
  ASSUME Inv, NEW x \in IDs, StartSender(x)
  PROVE  \A id \in IDs : id # x => (Active(id)' => Active(id)) /\ stopCh'[id] = stopCh[id]
<1>1. /\ stopCh' = [stopCh EXCEPT ![x] = plays[x] + 1]
      /\ \A sender \in senders' : sender.id # x => sender \in senders
      /\ stopCh \in [IDs -> 0..MaxPlays]
  BY DEF StartSender, Inv, SenderTypes
<1>2. QED BY <1>1 DEF Active, Told

\* A step disturbs no conjunct whose variables it leaves alone.
LEMMA OwnFrames ==
  /\ Own /\ UNCHANGED <<req, struct>> => Own'
  /\ StartsPlaying /\ UNCHANGED <<pc, req, pending, lab>> => StartsPlaying'
  /\ PausesStopped /\ UNCHANGED <<pc, req, stopCh>> => PausesStopped'
  /\ SendersPlay /\ UNCHANGED <<lab, senders, stopCh>> => SendersPlay'
<1>1. Own /\ UNCHANGED <<req, struct>> => Own'
  BY DEF Own, Id
<1>2. StartsPlaying /\ UNCHANGED <<pc, req, pending, lab>> => StartsPlaying'
  BY DEF StartsPlaying, Starting, Id
<1>3. PausesStopped /\ UNCHANGED <<pc, req, stopCh>> => PausesStopped'
  BY DEF PausesStopped, Id
<1>4. SendersPlay /\ UNCHANGED <<lab, senders, stopCh>> => SendersPlay'
  BY DEF SendersPlay, Active, Told
<1>5. QED BY <1>1, <1>2, <1>3, <1>4

\* Sessions go on sending as the lab says when no sender starts.
LEMMA NoNewSender ==
  ASSUME SendersPlay,
         \A id \in DOMAIN lab' : Active(id)' =>
           Active(id) /\ id \in DOMAIN lab /\ lab'[id].state = lab[id].state
  PROVE  SendersPlay'
BY DEF SendersPlay

\* The sender a PLAY starts is that of a session the lab calls playing.
LEMMA StartedPlays ==
  ASSUME Inv, OwnInv, NEW c \in Conns, Starting(c), StartSender(Id(c)), lab' = lab
  PROVE  SendersPlay'
<1>1. Id(c) \in DOMAIN lab => lab[Id(c)].state = "playing"
  BY DEF OwnInv, StartsPlaying
<1>2. Id(c) \in IDs /\ \A id \in DOMAIN lab : id \in IDs
  BY InHand, BoundAssumption DEF Inv, LabTypes, IDs
<1>3. \A id \in IDs : id # Id(c) => (Active(id)' => Active(id))
  BY <1>2, OnlyStarted
<1>4. QED BY <1>1, <1>2, <1>3 DEF OwnInv, SendersPlay

\* Every step preserves it, when clients keep to their own sessions.
LEMMA OwnStep ==
  ASSUME ~SharedUse, Inv, Inv', OwnInv, [Next]_vars
  PROVE  OwnInv'
<1>1. CASE UNCHANGED vars
  BY <1>1, OwnFrames DEF vars, labVars, OwnInv
<1>2. ASSUME NEW c \in Conns, Receive(c) PROVE OwnInv'
  <2>1. Own'
    BY <1>2 DEF OwnInv, Receive, Known, At, Id, Own, AllPlaced, Placed, AllHold, Holds,
           Inv
  <2>2. StartsPlaying'
    BY <1>2 DEF OwnInv, Receive, At, Goto, Id, labVars, StartsPlaying, Starting,
           AllPlaced, Placed, Inv
  <2>3. PausesStopped'
    BY <1>2 DEF OwnInv, Receive, At, Goto, Id, PausesStopped, Inv
  <2>4. QED BY <1>2, OwnFrames, <2>1, <2>2, <2>3 DEF OwnInv, Receive, labVars
<1>3. ASSUME NEW c \in Conns, Expire(c) PROVE OwnInv'
  <2>1. StartsPlaying'
    BY <1>3 DEF OwnInv, Expire, LabExpire, Lab!End, Goto, connVars, StartsPlaying,
           Starting, Id, Inv
  <2>2. PausesStopped'
    BY <1>3 DEF OwnInv, Expire, LabExpire, Lab!End, Goto, connVars, PausesStopped, Id,
           Inv
  <2>3. SendersPlay'
    BY <1>3 DEF OwnInv, Expire, LabExpire, Lab!End, SendersPlay, Active, Told,
           SenderTypes, Inv
  <2>4. QED BY <1>3, OwnFrames, <2>1, <2>2, <2>3 DEF OwnInv, Expire, connVars, LabExpire
<1>4. ASSUME NEW c \in Conns, SweepStep(c) PROVE OwnInv'
  <2>1. StartsPlaying'
    BY <1>4 DEF OwnInv, SweepStep, Sweep, Goto, labVars, connVars, StartsPlaying,
           Starting, Id, Inv
  <2>2. PausesStopped'
    <3>1. Stopped(doomed[c] \cap sessions)
      BY <1>4 DEF SweepStep, Sweep
    <3>2. \A id \in IDs : stopCh'[id] \in {0, stopCh[id]}
      BY <3>1, StoppedLess
    <3>3. req' = req /\ \A d \in Conns : pc'[d] = "pauseLab" => pc[d] = "pauseLab"
      BY <1>4 DEF SweepStep, connVars, Goto, Inv
    <3>4. QED BY <3>2, <3>3, InHand DEF OwnInv, PausesStopped, Id
  <2>3. SendersPlay'
    <3>1. Stopped(doomed[c] \cap sessions)
      BY <1>4 DEF SweepStep, Sweep
    <3>2. lab' = lab /\ \A s \in senders' : s.at = "run" => s \in senders
      BY <1>4 DEF SweepStep, labVars
    <3>3. \A id \in IDs : Active(id)' => Active(id)
      BY <3>1, <3>2, OnlyOld
    <3>4. QED BY <3>2, <3>3, LabIDs, NoNewSender DEF OwnInv
  <2>4. QED BY <1>4, OwnFrames, <2>1, <2>2, <2>3 DEF OwnInv, SweepStep, connVars, Sweep
<1>5. ASSUME NEW c \in Conns, Touch(c) PROVE OwnInv'
  <2>1. StartsPlaying'
    BY <1>5, BoundAssumption DEF OwnInv, Touch, At, Goto, Id, connVars, StartsPlaying,
           Starting, AllPlaced, Placed, Inv
  <2>2. PausesStopped'
    BY <1>5, BoundAssumption DEF OwnInv, Touch, At, Goto, Id, connVars, PausesStopped,
           AllPlaced, Placed, Inv
  <2>3. QED BY <1>5, OwnFrames, <2>1, <2>2 DEF OwnInv, Touch, connVars
<1>6. ASSUME NEW c \in Conns, SetupLab(c) PROVE OwnInv'
  <2>1. Own'
    BY <1>6, NotRegistered DEF OwnInv, SetupLab, Own, Id, Inv
  <2>2. StartsPlaying'
    <3>1. ASSUME NEW d \in Conns, Starting(d)'
          PROVE  d # c /\ Starting(d) /\ Id(d)' = Id(d) /\ Id(d) # nextID + 1
      <4>1. d # c /\ Starting(d) /\ Id(d)' = Id(d)
        BY <1>6, <3>1 DEF Inv, SetupLab, At, Goto, AllPlaced, Placed, Starting, Id
      <4>2. QED BY <4>1, InHand, NotRegistered
    <3>2. \A id \in DOMAIN lab' : id # nextID + 1 => id \in DOMAIN lab /\ lab'[id] = lab[id]
      BY <1>6 DEF SetupLab, Lab!Admit
    <3>3. QED BY <3>1, <3>2 DEF OwnInv, StartsPlaying
  <2>3. PausesStopped'
    BY <1>6 DEF OwnInv, SetupLab, At, Goto, PausesStopped, Id, Inv
  <2>4. SendersPlay'
    <3>1. ~Active(nextID + 1)
      BY ActiveRegistered, NotRegistered
    <3>2. /\ \A id \in DOMAIN lab' : id # nextID + 1 => id \in DOMAIN lab /\ lab'[id] = lab[id]
          /\ \A id : Active(id)' => Active(id)
      BY <1>6 DEF SetupLab, Lab!Admit, Active, Told
    <3>3. QED BY <3>1, <3>2, NoNewSender DEF OwnInv
  <2>5. QED BY <1>6, <2>1, <2>2, <2>3, <2>4 DEF OwnInv, SetupLab
<1>7. ASSUME NEW c \in Conns, SetupRefused(c) PROVE OwnInv'
  <2>1. StartsPlaying'
    BY <1>7 DEF OwnInv, SetupRefused, Goto, labVars, connVars, StartsPlaying, Starting,
           Id, Inv
  <2>2. PausesStopped'
    BY <1>7 DEF OwnInv, SetupRefused, Goto, connVars, PausesStopped, Id, Inv
  <2>3. QED BY <1>7, OwnFrames, <2>1, <2>2 DEF OwnInv, SetupRefused, labVars, connVars
<1>8. ASSUME NEW c \in Conns, Register(c) PROVE OwnInv'
  <2>1. Own'
    <3>1. /\ Id(c) \notin DOMAIN struct /\ req' = req
          /\ DOMAIN struct' = DOMAIN struct \cup {Id(c)} /\ struct'[Id(c)].conn = c
          /\ \A id \in DOMAIN struct : struct'[id] = struct[id]
      BY <1>8 DEF Inv, Register, At, AllPlaced, Placed, AllHold, Holds
    <3>2. \A d \in Conns : Id(d) = Id(c) => d = c
      <4>1. Id(c) # NoID
        BY <1>8 DEF Inv, Register, At, AllPlaced, Placed, AllHold, Holds, NoID
      <4>2. QED BY <4>1, OneHolder DEF OwnInv
    <3>3. QED BY <3>1, <3>2 DEF OwnInv, Own, Id
  <2>2. StartsPlaying'
    BY <1>8 DEF OwnInv, Register, Goto, Id, labVars, StartsPlaying, Starting, Inv
  <2>3. PausesStopped'
    BY <1>8 DEF OwnInv, Register, Goto, Id, PausesStopped, Inv
  <2>4. QED BY <1>8, OwnFrames, <2>1, <2>2, <2>3 DEF OwnInv, Register, labVars
<1>9. ASSUME NEW c \in Conns, PlayFind(c) PROVE OwnInv'
  <2>1. StartsPlaying'
    BY <1>9 DEF OwnInv, PlayFind, Goto, Id, labVars, connVars, StartsPlaying, Starting,
           Inv
  <2>2. PausesStopped'
    BY <1>9 DEF OwnInv, PlayFind, Goto, Id, connVars, PausesStopped, Inv
  <2>3. QED BY <1>9, OwnFrames, <2>1, <2>2 DEF OwnInv, PlayFind, labVars, connVars
<1>10. ASSUME NEW c \in Conns, PlayLab(c) PROVE OwnInv'
  <2>1. StartsPlaying'
    <3>1. /\ DOMAIN lab' = DOMAIN lab
          /\ \A id \in DOMAIN lab : lab[id].state = "playing" => lab'[id].state = "playing"
          /\ pc'[c] = "start" /\ Id(c) \in DOMAIN lab => lab'[Id(c)].state = "playing"
      BY <1>10 DEF PlayLab, Lab!Move, Goto, labVars, Inv, LabTypes, ConnTypes
    <3>2. /\ req' = req /\ (pc'[c] = "start" \/ ~Starting(c)')
          /\ \A d \in Conns \ {c} : Starting(d)' => Starting(d)
      BY <1>10 DEF PlayLab, At, Goto, connVars, Inv, AllPlaced, Placed, ConnTypes,
             Starting
    <3>3. QED BY <3>1, <3>2 DEF OwnInv, StartsPlaying, Id
  <2>2. PausesStopped'
    BY <1>10 DEF OwnInv, PlayLab, Goto, Id, connVars, PausesStopped, ConnTypes, Inv
  <2>3. SendersPlay'
    <3>1. /\ DOMAIN lab' = DOMAIN lab
          /\ \A id \in DOMAIN lab : lab'[id].state \in {"playing", lab[id].state}
      BY <1>10 DEF PlayLab, Lab!Move, labVars, Inv, LabTypes
    <3>2. \A id : Active(id)' => Active(id)
      BY <1>10 DEF PlayLab, Active, Told
    <3>3. QED BY <3>1, <3>2 DEF OwnInv, SendersPlay
  <2>4. QED BY <1>10, OwnFrames, <2>1, <2>2, <2>3 DEF OwnInv, PlayLab, connVars
<1>11. ASSUME NEW c \in Conns, PlayStart(c) PROVE OwnInv'
  <2>1. StartsPlaying'
    BY <1>11 DEF OwnInv, PlayStart, At, Goto, Id, labVars, StartsPlaying, Starting,
           ConnTypes, Inv
  <2>2. PausesStopped'
    <3>1. /\ req' = req /\ pc[c] = "start"
          /\ \A d \in Conns : pc'[d] = "pauseLab" => d # c /\ pc[d] = "pauseLab"
      BY <1>11 DEF PlayStart, At, Goto, Inv
    <3>2. \A d \in Conns : pc[d] = "pauseLab" => Id(d) # Id(c) /\ Id(d) \in IDs
      BY <3>1, InHand, OneHolder DEF OwnInv
    <3>3. \A id \in IDs : id # Id(c) => stopCh'[id] = stopCh[id]
      BY <1>11, <3>1, InHand, OnlyStarted DEF PlayStart
    <3>4. QED BY <3>1, <3>2, <3>3 DEF OwnInv, PausesStopped, Id
  <2>3. SendersPlay'
    <3>1. Starting(c) /\ lab' = lab
      BY <1>11 DEF PlayStart, At, Starting, labVars
    <3>2. CASE UNCHANGED <<stopCh, senders>>
      BY <3>1, <3>2, OwnFrames, NoNewSender DEF OwnInv, Active, Told
    <3>3. CASE StartSender(Id(c))
      BY <3>1, <3>3, StartedPlays
    <3>4. QED BY <1>11, <3>2, <3>3 DEF PlayStart
  <2>4. QED BY <1>11, OwnFrames, <2>1, <2>2, <2>3 DEF OwnInv, PlayStart
<1>12. ASSUME NEW c \in Conns, PlayWithoutSender(c) PROVE OwnInv'
  <2>1. StartsPlaying'
    BY <1>12 DEF OwnInv, PlayWithoutSender, Goto, Id, labVars, connVars, StartsPlaying,
           Starting, Inv
  <2>2. PausesStopped'
    <3>1. Stopped({Id(c)}) \/ stopCh' = stopCh
      BY <1>12 DEF PlayWithoutSender
    <3>2. \A id \in IDs : stopCh'[id] \in {0, stopCh[id]}
      BY <3>1, StoppedLess
    <3>3. req' = req /\ \A d \in Conns : pc'[d] = "pauseLab" => pc[d] = "pauseLab"
      BY <1>12 DEF PlayWithoutSender, connVars, Goto, Inv
    <3>4. QED BY <3>2, <3>3, InHand DEF OwnInv, PausesStopped, Id
  <2>3. SendersPlay'
    <3>1. Stopped({Id(c)}) \/ stopCh' = stopCh
      BY <1>12 DEF PlayWithoutSender
    <3>2. lab' = lab /\ \A s \in senders' : s.at = "run" => s \in senders
      BY <1>12 DEF PlayWithoutSender, labVars
    <3>3. \A id \in IDs : Active(id)' => Active(id)
      BY <3>1, <3>2, OnlyOld
    <3>4. QED BY <3>2, <3>3, LabIDs, NoNewSender DEF OwnInv
  <2>4. QED BY <1>12, OwnFrames, <2>1, <2>2, <2>3
         DEF OwnInv, PlayWithoutSender, connVars
<1>13. ASSUME NEW c \in Conns, PauseFind(c) PROVE OwnInv'
  <2>1. StartsPlaying'
    BY <1>13 DEF OwnInv, PauseFind, Goto, Id, labVars, connVars, StartsPlaying,
           Starting, Inv
  <2>2. PausesStopped'
    BY <1>13 DEF OwnInv, PauseFind, Goto, Id, connVars, PausesStopped, Inv
  <2>3. QED BY <1>13, OwnFrames, <2>1, <2>2 DEF OwnInv, PauseFind, labVars, connVars
<1>14. ASSUME NEW c \in Conns, PauseStop(c) PROVE OwnInv'
  <2>1. StartsPlaying'
    BY <1>14 DEF OwnInv, PauseStop, Goto, Id, labVars, connVars, StartsPlaying,
           Starting, Inv
  <2>2. PausesStopped'
    <3>1. Stopped({Id(c)}) /\ pc[c] = "pauseStop"
      BY <1>14 DEF PauseStop, At
    <3>2. \A id \in IDs : stopCh'[id] \in {0, stopCh[id]}
      BY <3>1, StoppedLess
    <3>3. stopCh'[Id(c)] = 0
      BY <3>1, InHand, StoppedLess
    <3>4. req' = req /\ \A d \in Conns : pc'[d] = "pauseLab" => pc[d] = "pauseLab" \/ d = c
      BY <1>14 DEF PauseStop, connVars, Goto, Inv
    <3>5. \A d \in Conns : pc[d] = "pauseLab" => Id(d) \in IDs
      BY InHand
    <3>6. QED BY <3>2, <3>3, <3>4, <3>5 DEF OwnInv, PausesStopped, Id
  <2>3. SendersPlay'
    <3>1. Stopped({Id(c)})
      BY <1>14 DEF PauseStop
    <3>2. lab' = lab /\ \A s \in senders' : s.at = "run" => s \in senders
      BY <1>14 DEF PauseStop, labVars
    <3>3. \A id \in IDs : Active(id)' => Active(id)
      BY <3>1, <3>2, OnlyOld
    <3>4. QED BY <3>2, <3>3, LabIDs, NoNewSender DEF OwnInv
  <2>4. QED BY <1>14, OwnFrames, <2>1, <2>2, <2>3 DEF OwnInv, PauseStop, connVars
<1>15. ASSUME NEW c \in Conns, PauseLab(c) PROVE OwnInv'
  <2>1. StartsPlaying'
    <3>1. /\ DOMAIN lab' = DOMAIN lab
          /\ \A id \in DOMAIN lab : id # Id(c) => lab'[id] = lab[id]
      BY <1>15 DEF PauseLab, Lab!Move, labVars
    <3>2. /\ req' = req /\ ~Starting(c)'
          /\ \A d \in Conns \ {c} : Starting(d)' => Starting(d)
      BY <1>15 DEF PauseLab, At, Goto, connVars, Inv, AllPlaced, Placed, Starting
    <3>3. \A d \in Conns : Starting(d) /\ d # c => Id(d) # Id(c)
      BY InHand, OneHolder DEF OwnInv
    <3>4. QED BY <3>1, <3>2, <3>3 DEF OwnInv, StartsPlaying, Id
  <2>2. PausesStopped'
    BY <1>15 DEF OwnInv, PauseLab, Goto, Id, connVars, PausesStopped, Inv
  <2>3. SendersPlay'
    <3>1. /\ DOMAIN lab' = DOMAIN lab
          /\ \A id \in DOMAIN lab : id # Id(c) => lab'[id] = lab[id]
      BY <1>15 DEF PauseLab, Lab!Move, labVars
    <3>2. \A id : Active(id)' => Active(id)
      BY <1>15 DEF PauseLab, Active, Told
    <3>3. ~Active(Id(c))
      BY <1>15, ActiveRegistered DEF PauseLab, At, OwnInv, PausesStopped
    <3>4. QED BY <3>1, <3>2, <3>3, NoNewSender DEF OwnInv
  <2>4. QED BY <1>15, OwnFrames, <2>1, <2>2, <2>3 DEF OwnInv, PauseLab, connVars
<1>16. ASSUME NEW c \in Conns, Delete(c) PROVE OwnInv'
  <2>1. StartsPlaying'
    BY <1>16 DEF OwnInv, Delete, Goto, Id, labVars, connVars, StartsPlaying, Starting,
           Inv
  <2>2. PausesStopped'
    BY <1>16 DEF OwnInv, Delete, Goto, Id, connVars, PausesStopped, Inv
  <2>3. QED BY <1>16, OwnFrames, <2>1, <2>2 DEF OwnInv, Delete, labVars, connVars
<1>17. ASSUME NEW c \in Conns, Stop(c) PROVE OwnInv'
  <2>1. StartsPlaying'
    BY <1>17 DEF OwnInv, Stop, Goto, Id, labVars, connVars, StartsPlaying, Starting, Inv
  <2>2. PausesStopped'
    <3>1. Stopped({Id(c)})
      BY <1>17 DEF Stop
    <3>2. \A id \in IDs : stopCh'[id] \in {0, stopCh[id]}
      BY <3>1, StoppedLess
    <3>3. req' = req /\ \A d \in Conns : pc'[d] = "pauseLab" => pc[d] = "pauseLab"
      BY <1>17 DEF Stop, connVars, Goto, Inv
    <3>4. QED BY <3>2, <3>3, InHand DEF OwnInv, PausesStopped, Id
  <2>3. SendersPlay'
    <3>1. Stopped({Id(c)})
      BY <1>17 DEF Stop
    <3>2. lab' = lab /\ \A s \in senders' : s.at = "run" => s \in senders
      BY <1>17 DEF Stop, labVars
    <3>3. \A id \in IDs : Active(id)' => Active(id)
      BY <3>1, <3>2, OnlyOld
    <3>4. QED BY <3>2, <3>3, LabIDs, NoNewSender DEF OwnInv
  <2>4. QED BY <1>17, OwnFrames, <2>1, <2>2, <2>3 DEF OwnInv, Stop, connVars
<1>18. ASSUME NEW c \in Conns, Teardown(c) PROVE OwnInv'
  <2>1. StartsPlaying'
    BY <1>18 DEF OwnInv, Teardown, Lab!End, Goto, Id, StartsPlaying, Starting, Inv
  <2>2. PausesStopped'
    BY <1>18 DEF OwnInv, Teardown, Lab!End, Goto, Id, PausesStopped, Inv
  <2>3. SendersPlay'
    BY <1>18 DEF OwnInv, Teardown, Lab!End, SendersPlay, Active, Told, SenderTypes, Inv
  <2>4. QED BY <1>18, OwnFrames, <2>1, <2>2, <2>3 DEF OwnInv, Teardown
<1>19. ASSUME NEW c \in Conns, Respond(c) PROVE OwnInv'
  <2>1. Own'
    BY <1>19, NotRegistered DEF OwnInv, Respond, Finish, NoRequest, Own, ConnTypes, Id,
           Inv
  <2>2. StartsPlaying'
    BY <1>19 DEF OwnInv, Respond, Finish, NoRequest, Goto, labVars, StartsPlaying,
           Starting, ConnTypes, Id, Inv
  <2>3. PausesStopped'
    BY <1>19 DEF OwnInv, Respond, Finish, NoRequest, Goto, PausesStopped, ConnTypes, Id,
           Inv
  <2>4. QED BY <1>19, OwnFrames, <2>1, <2>2, <2>3 DEF OwnInv, Respond, labVars
<1>20. ASSUME NEW c \in Conns, AfterWrite(c) PROVE OwnInv'
  <2>1. Own'
    BY <1>20, NotRegistered DEF OwnInv, AfterWrite, Finish, NoRequest, Own, Id, Inv
  <2>2. StartsPlaying'
    BY <1>20 DEF OwnInv, AfterWrite, Finish, NoRequest, Goto, labVars, StartsPlaying,
           Starting, ConnTypes, Id, Inv
  <2>3. PausesStopped'
    <3>1. /\ Starting(c) /\ StartSender(Id(c))
      BY <1>20 DEF AfterWrite, At, Inv, AllPlaced, Placed, Starting
    <3>2. \A d \in Conns : pc'[d] = "pauseLab" =>
            d # c /\ pc[d] = "pauseLab" /\ Id(d)' = Id(d)
      BY <1>20 DEF AfterWrite, Goto, Finish, Inv, ConnTypes, Id
    <3>3. \A d \in Conns : d # c /\ pc[d] = "pauseLab" => Id(d) # Id(c) /\ Id(d) \in IDs
      BY <3>1, InHand, OneHolder DEF OwnInv
    <3>4. \A id \in IDs : id # Id(c) => stopCh'[id] = stopCh[id]
      BY <3>1, InHand, OnlyStarted
    <3>5. QED BY <3>2, <3>3, <3>4 DEF OwnInv, PausesStopped
  <2>4. SendersPlay'
    <3>1. Starting(c) /\ StartSender(Id(c)) /\ lab' = lab
      BY <1>20 DEF AfterWrite, At, Inv, AllPlaced, Placed, Starting, labVars
    <3>2. QED BY <3>1, StartedPlays
  <2>5. QED BY <1>20, <2>1, <2>2, <2>3, <2>4 DEF OwnInv, AfterWrite
<1>21. ASSUME NEW c \in Conns, Hangup(c) PROVE OwnInv'
  <2>1. Own'
    BY <1>21, NotRegistered DEF OwnInv, Hangup, NoRequest, Own, Id, Inv
  <2>2. StartsPlaying'
    BY <1>21 DEF OwnInv, Hangup, NoRequest, Goto, labVars, StartsPlaying, Starting,
           ConnTypes, Id, Inv
  <2>3. PausesStopped'
    BY <1>21 DEF OwnInv, Hangup, NoRequest, At, Goto, PausesStopped, Id, Inv
  <2>4. QED BY <1>21, OwnFrames, <2>1, <2>2, <2>3 DEF OwnInv, Hangup, labVars
<1>22. ASSUME NEW c \in Conns, CloseSession(c) PROVE OwnInv'
  <2>1. Own'
    BY <1>22 DEF OwnInv, CloseSession, Id, Own, ConnTypes, AllHold, Holds, Inv
  <2>2. StartsPlaying'
    <3>1. PICK id \in owned[c] :
            \/ req' = [req EXCEPT ![c].id = id] /\ pc' = [pc EXCEPT ![c] = "delete"]
            \/ req' = req /\ pc' = pc
      BY <1>22 DEF CloseSession, Goto
    <3>2. /\ pc[c] = "closing" /\ pending[c] = NoID /\ pending' = pending /\ lab' = lab
      BY <1>22 DEF CloseSession, At, labVars, Inv, AllPlaced, Placed
    <3>3. QED BY <3>1, <3>2 DEF OwnInv, StartsPlaying, Starting, Id, Inv, ConnTypes
  <2>3. PausesStopped'
    BY <1>22 DEF OwnInv, CloseSession, Goto, Id, PausesStopped, ConnTypes, Inv
  <2>4. QED BY <1>22, OwnFrames, <2>1, <2>2, <2>3 DEF OwnInv, CloseSession, labVars
<1>23. ASSUME NEW c \in Conns, Closed(c) PROVE OwnInv'
  <2>1. Own'
    BY <1>23, NotRegistered DEF OwnInv, Closed, Finish, NoRequest, Own, Id, Inv
  <2>2. StartsPlaying'
    BY <1>23 DEF OwnInv, Closed, Finish, NoRequest, Goto, labVars, StartsPlaying,
           Starting, AllPlaced, Placed, Id, Inv
  <2>3. PausesStopped'
    BY <1>23 DEF OwnInv, Closed, Finish, NoRequest, At, Goto, PausesStopped, Id, Inv
  <2>4. QED BY <1>23, OwnFrames, <2>1, <2>2, <2>3 DEF OwnInv, Closed, labVars
<1>24. ASSUME NEW c \in Conns, ClientLeaves(c) PROVE OwnInv'
  <2>1. QED BY <1>24, OwnFrames DEF OwnInv, ClientLeaves, labVars
<1>25. ASSUME NEW sender \in senders, SenderStops(sender) PROVE OwnInv'
  <2>1. SendersPlay'
    BY <1>25 DEF OwnInv, SenderStops, Told, labVars, SendersPlay, Active, SenderTypes,
           Inv
  <2>2. QED BY <1>25, OwnFrames, <2>1 DEF OwnInv, SenderStops, labVars, connVars
<1>26. ASSUME NEW sender \in senders, SenderFails(sender) PROVE OwnInv'
  <2>1. PausesStopped'
    <3>1. Stopped({sender.id}) \/ stopCh' = stopCh
      BY <1>26 DEF SenderFails
    <3>2. \A id \in IDs : stopCh'[id] \in {0, stopCh[id]}
      BY <3>1, StoppedLess
    <3>3. req' = req /\ \A d \in Conns : pc'[d] = "pauseLab" => pc[d] = "pauseLab"
      BY <1>26 DEF SenderFails, connVars
    <3>4. QED BY <3>2, <3>3, InHand DEF OwnInv, PausesStopped, Id
  <2>2. SendersPlay'
    <3>1. Stopped({sender.id}) \/ stopCh' = stopCh
      BY <1>26 DEF SenderFails
    <3>2. lab' = lab /\ \A s \in senders' : s.at = "run" => s \in senders
      BY <1>26 DEF SenderFails, labVars, Step, Inv, SenderTypes
    <3>3. \A id \in IDs : Active(id)' => Active(id)
      BY <3>1, <3>2, OnlyOld
    <3>4. QED BY <3>2, <3>3, LabIDs, NoNewSender DEF OwnInv
  <2>3. QED BY <1>26, OwnFrames, <2>1, <2>2 DEF OwnInv, SenderFails, labVars, connVars
<1>27. ASSUME NEW sender \in senders, SenderDeletes(sender) PROVE OwnInv'
  <2>1. SendersPlay'
    BY <1>27 DEF OwnInv, SenderDeletes, Step, labVars, SendersPlay, Active, Told,
           SenderTypes, Inv
  <2>2. QED BY <1>27, OwnFrames, <2>1 DEF OwnInv, SenderDeletes, labVars, connVars
<1>28. ASSUME NEW sender \in senders, SenderStopsSession(sender) PROVE OwnInv'
  <2>1. PausesStopped'
    <3>1. Stopped({sender.id})
      BY <1>28 DEF SenderStopsSession
    <3>2. \A id \in IDs : stopCh'[id] \in {0, stopCh[id]}
      BY <3>1, StoppedLess
    <3>3. req' = req /\ \A d \in Conns : pc'[d] = "pauseLab" => pc[d] = "pauseLab"
      BY <1>28 DEF SenderStopsSession, connVars
    <3>4. QED BY <3>2, <3>3, InHand DEF OwnInv, PausesStopped, Id
  <2>2. SendersPlay'
    <3>1. Stopped({sender.id})
      BY <1>28 DEF SenderStopsSession
    <3>2. lab' = lab /\ \A s \in senders' : s.at = "run" => s \in senders
      BY <1>28 DEF SenderStopsSession, labVars, Step, Inv, SenderTypes
    <3>3. \A id \in IDs : Active(id)' => Active(id)
      BY <3>1, <3>2, OnlyOld
    <3>4. QED BY <3>2, <3>3, LabIDs, NoNewSender DEF OwnInv
  <2>3. QED BY <1>28, OwnFrames, <2>1, <2>2
         DEF OwnInv, SenderStopsSession, labVars, connVars
<1>29. ASSUME NEW sender \in senders, SenderTearsDown(sender) PROVE OwnInv'
  <2>1. StartsPlaying'
    BY <1>29 DEF OwnInv, SenderTearsDown, Lab!End, connVars, StartsPlaying, Starting,
           Id, Inv
  <2>2. SendersPlay'
    BY <1>29 DEF OwnInv, SenderTearsDown, Lab!End, SendersPlay, Active, Told,
           SenderTypes, Inv
  <2>3. QED BY <1>29, OwnFrames, <2>1, <2>2 DEF OwnInv, SenderTearsDown, connVars
<1>30. ASSUME NEW sender \in senders, SenderFinishes(sender) PROVE OwnInv'
  <2>1. PausesStopped'
    <3>1. Stopped({sender.id})
      BY <1>30 DEF SenderFinishes
    <3>2. \A id \in IDs : stopCh'[id] \in {0, stopCh[id]}
      BY <3>1, StoppedLess
    <3>3. req' = req /\ \A d \in Conns : pc'[d] = "pauseLab" => pc[d] = "pauseLab"
      BY <1>30 DEF SenderFinishes, connVars
    <3>4. QED BY <3>2, <3>3, InHand DEF OwnInv, PausesStopped, Id
  <2>2. SendersPlay'
    <3>1. Stopped({sender.id})
      BY <1>30 DEF SenderFinishes
    <3>2. lab' = lab /\ \A s \in senders' : s.at = "run" => s \in senders
      BY <1>30 DEF SenderFinishes, labVars, Step, Inv, SenderTypes
    <3>3. \A id \in IDs : Active(id)' => Active(id)
      BY <3>1, <3>2, OnlyOld
    <3>4. QED BY <3>2, <3>3, LabIDs, NoNewSender DEF OwnInv
  <2>3. QED BY <1>30, OwnFrames, <2>1, <2>2
         DEF OwnInv, SenderFinishes, labVars, connVars
<1>31. CASE ReaperExpires
  <2>1. StartsPlaying'
    BY <1>31 DEF OwnInv, ReaperExpires, LabExpire, Lab!End, connVars, StartsPlaying,
           Starting, Id, Inv
  <2>2. SendersPlay'
    BY <1>31 DEF OwnInv, ReaperExpires, LabExpire, Lab!End, SendersPlay, Active, Told,
           SenderTypes, Inv
  <2>3. QED BY <1>31, OwnFrames, <2>1, <2>2
         DEF OwnInv, ReaperExpires, connVars, LabExpire
<1>32. CASE ReaperSweeps
  <2>1. PausesStopped'
    <3>1. Stopped(doomed[Reaper] \cap sessions)
      BY <1>32 DEF ReaperSweeps, Sweep
    <3>2. \A id \in IDs : stopCh'[id] \in {0, stopCh[id]}
      BY <3>1, StoppedLess
    <3>3. req' = req /\ \A d \in Conns : pc'[d] = "pauseLab" => pc[d] = "pauseLab"
      BY <1>32 DEF ReaperSweeps, connVars
    <3>4. QED BY <3>2, <3>3, InHand DEF OwnInv, PausesStopped, Id
  <2>2. SendersPlay'
    <3>1. Stopped(doomed[Reaper] \cap sessions)
      BY <1>32 DEF ReaperSweeps, Sweep
    <3>2. lab' = lab /\ \A s \in senders' : s.at = "run" => s \in senders
      BY <1>32 DEF ReaperSweeps, labVars
    <3>3. \A id \in IDs : Active(id)' => Active(id)
      BY <3>1, <3>2, OnlyOld
    <3>4. QED BY <3>2, <3>3, LabIDs, NoNewSender DEF OwnInv
  <2>3. QED BY <1>32, OwnFrames, <2>1, <2>2
         DEF OwnInv, ReaperSweeps, labVars, connVars, Sweep
<1>33. CASE ResetRtsp
  <2>1. PausesStopped'
    <3>1. Stopped(sessions)
      BY <1>33 DEF ResetRtsp
    <3>2. \A id \in IDs : stopCh'[id] \in {0, stopCh[id]}
      BY <3>1, StoppedLess
    <3>3. req' = req /\ \A d \in Conns : pc'[d] = "pauseLab" => pc[d] = "pauseLab"
      BY <1>33 DEF ResetRtsp, connVars
    <3>4. QED BY <3>2, <3>3, InHand DEF OwnInv, PausesStopped, Id
  <2>2. SendersPlay'
    <3>1. Stopped(sessions)
      BY <1>33 DEF ResetRtsp
    <3>2. lab' = lab /\ \A s \in senders' : s.at = "run" => s \in senders
      BY <1>33 DEF ResetRtsp, labVars
    <3>3. \A id \in IDs : Active(id)' => Active(id)
      BY <3>1, <3>2, OnlyOld
    <3>4. QED BY <3>2, <3>3, LabIDs, NoNewSender DEF OwnInv
  <2>3. QED BY <1>33, OwnFrames, <2>1, <2>2 DEF OwnInv, ResetRtsp, labVars, connVars
<1>34. CASE ResetLab
  <2>1. StartsPlaying'
    BY <1>34 DEF OwnInv, ResetLab, Lab!End, StartsPlaying, Starting, Inv
  <2>2. SendersPlay'
    BY <1>34 DEF OwnInv, ResetLab, Lab!End, SendersPlay, Active, Told, SenderTypes, Inv
  <2>3. QED BY <1>34, OwnFrames, <2>1, <2>2 DEF OwnInv, ResetLab, connVars
<1>35. ASSUME NEW id \in IDs, FallSilent(id) PROVE OwnInv'
  <2>1. QED BY <1>35, OwnFrames DEF OwnInv, FallSilent, connVars
<1>36. QED BY <1>1, <1>2, <1>3, <1>4, <1>5, <1>6, <1>7, <1>8, <1>9, <1>10, <1>11, <1>12,
       <1>13, <1>14, <1>15, <1>16, <1>17, <1>18, <1>19, <1>20, <1>21, <1>22, <1>23,
       <1>24, <1>25, <1>26, <1>27, <1>28, <1>29, <1>30, <1>31, <1>32, <1>33, <1>34,
       <1>35
       DEF Next, Handle, SenderExits, Reap, Reset

\* The invariant holds of clients that keep to their own sessions, resets or not.
THEOREM OwnInvariant == ~SharedUse => (Spec => []OwnInv)
<1> SUFFICES ASSUME ~SharedUse PROVE Spec => []OwnInv
  OBVIOUS
<1>1. Init => OwnInv
  BY DEF Init, OwnInv, Own, StartsPlaying, PausesStopped, SendersPlay, Starting
<1>2. Inv /\ Inv' /\ OwnInv /\ [Next]_vars => OwnInv'
  BY OwnStep
<1>3. QED BY <1>1, <1>2, Invariant, PTL DEF Spec

\* SilentUnlessPlaying: with clients that keep to their own sessions, no RTP is sent
\* for a session the lab calls paused or not yet playing, resets or not.
THEOREM SilentUnlessPlayingHolds == ~SharedUse => (Spec => []SilentUnlessPlaying)
<1>1. OwnInv => SilentUnlessPlaying
  BY DEF OwnInv, SendersPlay, SilentUnlessPlaying
<1>2. QED BY <1>1, OwnInvariant, PTL

-----------------------------------------------------------------------------

\* As before, for these conjuncts.
LEMMA AliveFrames ==
  /\ StartsAlive /\ UNCHANGED <<pc, req, struct, up, lab, silent>> => StartsAlive'
  /\ UNCHANGED <<stopCh, senders, sessions, struct, up, pc, req>> => OnlyLateOrphans
<1>1. StartsAlive /\ UNCHANGED <<pc, req, struct, up, lab, silent>> => StartsAlive'
  BY DEF StartsAlive, WritesFail, Id
<1>2. UNCHANGED <<stopCh, senders, sessions, struct, up, pc, req>> => OnlyLateOrphans
  BY DEF OnlyLateOrphans, Orphaned, Active, Told, WritesFail, At, Id
<1>3. QED BY <1>1, <1>2

\* What keeps a sender from being an orphan stays as it was.
LEMMA NoNewOrphan ==
  ASSUME \A id \in IDs : Active(id)' =>
           /\ Active(id)
           /\ id \in sessions => \/ id \in sessions' \/ WritesFail(id)
                                \/ \E c \in Conns : Id(c)' = id /\ pc'[c] = "stop"
           /\ WritesFail(id) => WritesFail(id)'
           /\ \A c \in Conns : Id(c) = id /\ pc[c] = "stop" => Id(c)' = id /\ pc'[c] = "stop"
  PROVE  OnlyLateOrphans
BY DEF OnlyLateOrphans, Orphaned, At

\* A session in the lab is in the map, or its client's connection has failed, unless
\* its own connection is on the way to the map or out of it.
LEMMA AliveInMap ==
  ASSUME Resets = 0, Inv, MapInv, OwnInv, NEW c \in Conns, Id(c) # NoID,
         pc[c] \notin {"register", "stop", "teardown"}, Id(c) \in DOMAIN lab
  PROVE  Id(c) \in sessions \/ WritesFail(Id(c))
<1>1. ~resetting
  BY DEF Inv, DoomedForgotten, MapTypes
<1>2. \A d \in Conns : Id(d) = Id(c) => pc[d] \notin {"register", "stop", "teardown"}
  BY OneHolder DEF OwnInv
<1>3. \A sender \in senders : sender.id = Id(c) /\ sender.at # "run" => WritesFail(Id(c))
  BY DEF Inv, SendersPlaced
<1>4. QED BY <1>1, <1>2, <1>3 DEF MapInv, NoTunerLeak

\* The sender of a PLAY that finds its session alive, or is late, is as it may be.
LEMMA StartedNoOrphan ==
  ASSUME Resets = 0, Inv, MapInv, OwnInv, NEW c \in Conns, Starting(c),
         Id(c) \in DOMAIN lab \/ WritesFail(Id(c)) \/ LateStart(c, Id(c)),
         StartSender(Id(c)), UNCHANGED <<sessions, struct, up>>,
         \A d \in Conns : pc[d] = "stop" => Id(d)' = Id(d) /\ pc'[d] = "stop"
  PROVE  OnlyLateOrphans
<1>1. Id(c) \in IDs /\ Id(c) # NoID
  BY InHand
<1>2. pc[c] \notin {"register", "stop", "teardown"}
  BY DEF Starting, Inv, AllPlaced, Placed
<1>3. Id(c) \in sessions \/ WritesFail(Id(c)) \/ LateStart(c, Id(c))
  BY <1>1, <1>2, AliveInMap
<1>4. \A id \in IDs : id # Id(c) => (Active(id)' => Active(id))
  BY <1>1, OnlyStarted
<1>5. QED BY <1>3, <1>4 DEF OnlyLateOrphans, Orphaned, WritesFail, At

\* Every step keeps to both, when there is no reset either.
LEMMA AliveStep ==
  ASSUME ~SharedUse, Resets = 0, Inv, Inv', MapInv, OwnInv, StartsAlive, [Next]_vars
  PROVE  StartsAlive' /\ OnlyLateOrphans
<1>1. CASE UNCHANGED vars
  BY <1>1, AliveFrames DEF vars, labVars
<1>2. ASSUME NEW c \in Conns, Receive(c) PROVE StartsAlive' /\ OnlyLateOrphans
  <2>1. StartsAlive'
    BY <1>2 DEF Receive, At, Goto, Id, labVars, StartsAlive, WritesFail, AllPlaced, Placed, Inv, OwnInv
  <2>2. OnlyLateOrphans
    <3>1. \A id \in IDs : Active(id)' => Active(id)
      BY <1>2 DEF Receive, Active, Told
    <3>2. sessions' = sessions
      BY <1>2 DEF Receive
    <3>3. \A id : WritesFail(id) => WritesFail(id)'
      BY <1>2 DEF Receive, WritesFail
    <3>4. \A d \in Conns : pc[d] = "stop" => pc'[d] = "stop" /\ Id(d)' = Id(d)
      BY <1>2 DEF Receive, At, Goto, Id, Inv
    <3>5. QED BY <3>1, <3>2, <3>3, <3>4, NoNewOrphan
  <2>3. QED BY <1>2, <2>1, <2>2 DEF Receive
<1>3. ASSUME NEW c \in Conns, Expire(c) PROVE StartsAlive' /\ OnlyLateOrphans
  <2>1. StartsAlive'
    BY <1>3 DEF Expire, LabExpire, Lab!End, Goto, connVars, StartsAlive,
           WritesFail, Id, Inv, OwnInv
  <2>2. OnlyLateOrphans
    <3>1. \A id \in IDs : Active(id)' => Active(id)
      BY <1>3 DEF Expire, Active, Told
    <3>2. sessions' = sessions
      BY <1>3 DEF Expire
    <3>3. \A id : WritesFail(id) => WritesFail(id)'
      BY <1>3 DEF Expire, connVars, WritesFail
    <3>4. \A d \in Conns : pc[d] = "stop" => pc'[d] = "stop" /\ Id(d)' = Id(d)
      BY <1>3 DEF Expire, connVars, At, Goto, Id, Inv
    <3>5. QED BY <3>1, <3>2, <3>3, <3>4, NoNewOrphan
  <2>3. QED BY <1>3, <2>1, <2>2 DEF Expire, LabExpire
<1>4. ASSUME NEW c \in Conns, SweepStep(c) PROVE StartsAlive' /\ OnlyLateOrphans
  <2>1. StartsAlive'
    BY <1>4 DEF SweepStep, Sweep, Goto, labVars, connVars, StartsAlive,
           WritesFail, Id, Inv, OwnInv
  <2>2. OnlyLateOrphans
    <3>1. \A id \in IDs : Active(id)' => Active(id) /\ (Stopped(doomed[c] \cap sessions) => id \notin doomed[c] \cap sessions)
      <4>1. Stopped(doomed[c] \cap sessions)
        BY <1>4 DEF SweepStep, Sweep
      <4>2. \A s \in senders' : s.at = "run" => s \in senders
        BY <1>4 DEF SweepStep
      <4>3. QED BY <4>1, <4>2, OnlyOld
    <3>2. Stopped(doomed[c] \cap sessions) /\ \A id \in sessions : id \notin doomed[c] \cap sessions => id \in sessions'
      BY <1>4 DEF SweepStep, Sweep
    <3>3. \A id : WritesFail(id) => WritesFail(id)'
      BY <1>4 DEF SweepStep, connVars, WritesFail
    <3>4. \A d \in Conns : pc[d] = "stop" => pc'[d] = "stop" /\ Id(d)' = Id(d)
      BY <1>4 DEF SweepStep, connVars, At, Goto, Id, Inv
    <3>5. QED BY <3>1, <3>2, <3>3, <3>4, NoNewOrphan
  <2>3. QED BY <1>4, <2>1, <2>2 DEF SweepStep, Sweep
<1>5. ASSUME NEW c \in Conns, Touch(c) PROVE StartsAlive' /\ OnlyLateOrphans
  <2>1. StartsAlive'
    BY <1>5, BoundAssumption DEF Touch, At, Goto, Id, connVars, StartsAlive,
           WritesFail, AllPlaced, Placed, Inv, OwnInv
  <2>2. OnlyLateOrphans
    <3>1. \A id \in IDs : Active(id)' => Active(id)
      BY <1>5 DEF Touch, Active, Told
    <3>2. sessions' = sessions
      BY <1>5 DEF Touch
    <3>3. \A id : WritesFail(id) => WritesFail(id)'
      BY <1>5 DEF Touch, connVars, WritesFail
    <3>4. \A d \in Conns : pc[d] = "stop" => pc'[d] = "stop" /\ Id(d)' = Id(d)
      BY <1>5 DEF Touch, connVars, At, Goto, Id, Inv
    <3>5. QED BY <3>1, <3>2, <3>3, <3>4, NoNewOrphan
  <2>3. QED BY <1>5, <2>1, <2>2 DEF Touch
<1>6. ASSUME NEW c \in Conns, SetupLab(c) PROVE StartsAlive' /\ OnlyLateOrphans
  <2>1. StartsAlive'
    <3>1. ASSUME NEW d \in Conns, pc'[d] = "start"
          PROVE  d # c /\ pc[d] = "start" /\ Id(d)' = Id(d) /\ pc[c] = "setup"
      BY <1>6, <3>1 DEF SetupLab, At, Goto, Inv, AllPlaced, Placed, Id
    <3>2. UNCHANGED <<struct, up>> /\ DOMAIN lab \ silent \subseteq DOMAIN lab' \ silent'
      BY <1>6 DEF SetupLab, Lab!Admit
    <3>3. QED BY <3>1, <3>2 DEF StartsAlive, WritesFail
  <2>2. OnlyLateOrphans
    <3>1. \A id \in IDs : Active(id)' => Active(id)
      BY <1>6 DEF SetupLab, Active, Told
    <3>2. sessions' = sessions
      BY <1>6 DEF SetupLab
    <3>3. \A id : WritesFail(id) => WritesFail(id)'
      BY <1>6 DEF SetupLab, WritesFail
    <3>4. \A d \in Conns : pc[d] = "stop" => pc'[d] = "stop" /\ Id(d)' = Id(d)
      BY <1>6 DEF SetupLab, At, Goto, Id, Inv
    <3>5. QED BY <3>1, <3>2, <3>3, <3>4, NoNewOrphan
  <2>3. QED BY <1>6, <2>1, <2>2 DEF SetupLab
<1>7. ASSUME NEW c \in Conns, SetupRefused(c) PROVE StartsAlive' /\ OnlyLateOrphans
  <2>1. StartsAlive'
    BY <1>7 DEF SetupRefused, Goto, labVars, connVars, StartsAlive, WritesFail, Id, Inv, OwnInv
  <2>2. OnlyLateOrphans
    <3>1. \A id \in IDs : Active(id)' => Active(id)
      BY <1>7 DEF SetupRefused, Active, Told
    <3>2. sessions' = sessions
      BY <1>7 DEF SetupRefused
    <3>3. \A id : WritesFail(id) => WritesFail(id)'
      BY <1>7 DEF SetupRefused, connVars, WritesFail
    <3>4. \A d \in Conns : pc[d] = "stop" => pc'[d] = "stop" /\ Id(d)' = Id(d)
      BY <1>7 DEF SetupRefused, connVars, At, Goto, Id, Inv
    <3>5. QED BY <3>1, <3>2, <3>3, <3>4, NoNewOrphan
  <2>3. QED BY <1>7, <2>1, <2>2 DEF SetupRefused
<1>8. ASSUME NEW c \in Conns, Register(c) PROVE StartsAlive' /\ OnlyLateOrphans
  <2>1. StartsAlive'
    <3>1. ASSUME NEW d \in Conns, pc'[d] = "start"
          PROVE  d # c /\ pc[d] = "start" /\ Id(d)' = Id(d) /\ pc[c] = "register"
      BY <1>8, <3>1 DEF Register, At, Goto, Inv, AllPlaced, Placed, Id
    <3>2. /\ up' = up /\ lab' = lab /\ silent' = silent
          /\ \A id \in DOMAIN struct : struct'[id] = struct[id]
      <4>1. pc[c] = "register" => Id(c) \notin DOMAIN struct
        BY DEF Inv, AllPlaced, Placed, AllHold, Holds
      <4>2. QED BY <1>8, <4>1 DEF Register, At, labVars
    <3>3. QED BY <3>1, <3>2, InHand DEF StartsAlive, WritesFail
  <2>2. OnlyLateOrphans
    <3>1. \A id \in IDs : Active(id)' => Active(id) /\ id \in DOMAIN struct
      BY <1>8, ActiveRegistered DEF Register, Active, Told
    <3>2. /\ up' = up /\ sessions \subseteq sessions'
          /\ \A id \in DOMAIN struct : struct'[id] = struct[id]
      <4>1. pc[c] = "register" => Id(c) \notin DOMAIN struct
        BY DEF Inv, AllPlaced, Placed, AllHold, Holds
      <4>2. QED BY <1>8, <4>1 DEF Register, At
    <3>3. \A d \in Conns : pc[d] = "stop" => pc'[d] = "stop" /\ Id(d)' = Id(d)
      BY <1>8 DEF Register, At, Goto, Id, Inv
    <3>4. QED BY <3>1, <3>2, <3>3, NoNewOrphan DEF WritesFail
  <2>3. QED BY <1>8, <2>1, <2>2 DEF Register
<1>9. ASSUME NEW c \in Conns, PlayFind(c) PROVE StartsAlive' /\ OnlyLateOrphans
  <2>1. StartsAlive'
    BY <1>9 DEF PlayFind, Goto, Id, labVars, connVars, StartsAlive, WritesFail, Inv, OwnInv
  <2>2. OnlyLateOrphans
    <3>1. \A id \in IDs : Active(id)' => Active(id)
      BY <1>9 DEF PlayFind, Active, Told
    <3>2. sessions' = sessions
      BY <1>9 DEF PlayFind
    <3>3. \A id : WritesFail(id) => WritesFail(id)'
      BY <1>9 DEF PlayFind, connVars, WritesFail
    <3>4. \A d \in Conns : pc[d] = "stop" => pc'[d] = "stop" /\ Id(d)' = Id(d)
      BY <1>9 DEF PlayFind, connVars, At, Goto, Id, Inv
    <3>5. QED BY <3>1, <3>2, <3>3, <3>4, NoNewOrphan
  <2>3. QED BY <1>9, <2>1, <2>2 DEF PlayFind
<1>10. ASSUME NEW c \in Conns, PlayLab(c) PROVE StartsAlive' /\ OnlyLateOrphans
  <2>1. StartsAlive'
    BY <1>10 DEF PlayLab, Lab!Move, Goto, Id, labVars, connVars, StartsAlive,
           WritesFail, ConnTypes, Inv, OwnInv
  <2>2. OnlyLateOrphans
    <3>1. \A id \in IDs : Active(id)' => Active(id)
      BY <1>10 DEF PlayLab, Active, Told
    <3>2. sessions' = sessions
      BY <1>10 DEF PlayLab
    <3>3. \A id : WritesFail(id) => WritesFail(id)'
      BY <1>10 DEF PlayLab, connVars, WritesFail
    <3>4. \A d \in Conns : pc[d] = "stop" => pc'[d] = "stop" /\ Id(d)' = Id(d)
      BY <1>10 DEF PlayLab, connVars, At, Goto, Id, Inv, ConnTypes
    <3>5. QED BY <3>1, <3>2, <3>3, <3>4, NoNewOrphan
  <2>3. QED BY <1>10, <2>1, <2>2 DEF PlayLab
<1>11. ASSUME NEW c \in Conns, PlayStart(c) PROVE StartsAlive' /\ OnlyLateOrphans
  <2>1. StartsAlive'
    BY <1>11 DEF PlayStart, At, Goto, Id, labVars, StartsAlive, WritesFail, ConnTypes, Inv, OwnInv
  <2>2. OnlyLateOrphans
    <3>1. /\ Starting(c) /\ UNCHANGED <<sessions, struct, up, req>>
          /\ \A d \in Conns : pc[d] = "stop" => Id(d)' = Id(d) /\ pc'[d] = "stop"
      BY <1>11 DEF PlayStart, At, Goto, Starting, Inv, Id
    <3>2. CASE UNCHANGED <<stopCh, senders>>
      <4>1. \A id \in IDs : Active(id)' => Active(id)
        BY <3>2 DEF Active, Told
      <4>2. QED BY <3>1, <4>1, NoNewOrphan DEF WritesFail
    <3>3. CASE StartSender(Id(c))
      <4>1. Id(c) \in DOMAIN lab \/ WritesFail(Id(c))
        BY <1>11 DEF PlayStart, At, StartsAlive
      <4>2. QED BY <3>1, <3>3, <4>1, StartedNoOrphan
    <3>4. QED BY <1>11, <3>2, <3>3 DEF PlayStart
  <2>3. QED BY <1>11, <2>1, <2>2 DEF PlayStart
<1>12. ASSUME NEW c \in Conns, PlayWithoutSender(c) PROVE StartsAlive' /\ OnlyLateOrphans
  <2>1. StartsAlive'
    BY <1>12 DEF PlayWithoutSender, Goto, Id, labVars, connVars, StartsAlive,
           WritesFail, Inv, OwnInv
  <2>2. OnlyLateOrphans
    <3>1. \A id \in IDs : Active(id)' => Active(id) /\ (Stopped({Id(c)}) => id \notin {Id(c)})
      <4>1. Stopped({Id(c)}) \/ stopCh' = stopCh
        BY <1>12 DEF PlayWithoutSender
      <4>2. \A s \in senders' : s.at = "run" => s \in senders
        BY <1>12 DEF PlayWithoutSender
      <4>3. QED BY <4>1, <4>2, OnlyOld
    <3>2. sessions' = sessions
      BY <1>12 DEF PlayWithoutSender
    <3>3. \A id : WritesFail(id) => WritesFail(id)'
      BY <1>12 DEF PlayWithoutSender, connVars, WritesFail
    <3>4. \A d \in Conns : pc[d] = "stop" => pc'[d] = "stop" /\ Id(d)' = Id(d)
      BY <1>12 DEF PlayWithoutSender, connVars, At, Goto, Id, Inv
    <3>5. QED BY <3>1, <3>2, <3>3, <3>4, NoNewOrphan
  <2>3. QED BY <1>12, <2>1, <2>2 DEF PlayWithoutSender
<1>13. ASSUME NEW c \in Conns, PauseFind(c) PROVE StartsAlive' /\ OnlyLateOrphans
  <2>1. StartsAlive'
    BY <1>13 DEF PauseFind, Goto, Id, labVars, connVars, StartsAlive,
           WritesFail, Inv, OwnInv
  <2>2. OnlyLateOrphans
    <3>1. \A id \in IDs : Active(id)' => Active(id)
      BY <1>13 DEF PauseFind, Active, Told
    <3>2. sessions' = sessions
      BY <1>13 DEF PauseFind
    <3>3. \A id : WritesFail(id) => WritesFail(id)'
      BY <1>13 DEF PauseFind, connVars, WritesFail
    <3>4. \A d \in Conns : pc[d] = "stop" => pc'[d] = "stop" /\ Id(d)' = Id(d)
      BY <1>13 DEF PauseFind, connVars, At, Goto, Id, Inv
    <3>5. QED BY <3>1, <3>2, <3>3, <3>4, NoNewOrphan
  <2>3. QED BY <1>13, <2>1, <2>2 DEF PauseFind
<1>14. ASSUME NEW c \in Conns, PauseStop(c) PROVE StartsAlive' /\ OnlyLateOrphans
  <2>1. StartsAlive'
    BY <1>14 DEF PauseStop, Goto, Id, labVars, connVars, StartsAlive,
           WritesFail, Inv, OwnInv
  <2>2. OnlyLateOrphans
    <3>1. \A id \in IDs : Active(id)' => Active(id) /\ (Stopped({Id(c)}) => id \notin {Id(c)})
      <4>1. Stopped({Id(c)})
        BY <1>14 DEF PauseStop
      <4>2. \A s \in senders' : s.at = "run" => s \in senders
        BY <1>14 DEF PauseStop
      <4>3. QED BY <4>1, <4>2, OnlyOld
    <3>2. sessions' = sessions
      BY <1>14 DEF PauseStop
    <3>3. \A id : WritesFail(id) => WritesFail(id)'
      BY <1>14 DEF PauseStop, connVars, WritesFail
    <3>4. \A d \in Conns : pc[d] = "stop" => pc'[d] = "stop" /\ Id(d)' = Id(d)
      BY <1>14 DEF PauseStop, connVars, At, Goto, Id, Inv
    <3>5. QED BY <3>1, <3>2, <3>3, <3>4, NoNewOrphan
  <2>3. QED BY <1>14, <2>1, <2>2 DEF PauseStop
<1>15. ASSUME NEW c \in Conns, PauseLab(c) PROVE StartsAlive' /\ OnlyLateOrphans
  <2>1. StartsAlive'
    BY <1>15 DEF PauseLab, Lab!Move, Goto, Id, labVars, connVars, StartsAlive,
           WritesFail, Inv, OwnInv
  <2>2. OnlyLateOrphans
    <3>1. \A id \in IDs : Active(id)' => Active(id)
      BY <1>15 DEF PauseLab, Active, Told
    <3>2. sessions' = sessions
      BY <1>15 DEF PauseLab
    <3>3. \A id : WritesFail(id) => WritesFail(id)'
      BY <1>15 DEF PauseLab, connVars, WritesFail
    <3>4. \A d \in Conns : pc[d] = "stop" => pc'[d] = "stop" /\ Id(d)' = Id(d)
      BY <1>15 DEF PauseLab, connVars, At, Goto, Id, Inv
    <3>5. QED BY <3>1, <3>2, <3>3, <3>4, NoNewOrphan
  <2>3. QED BY <1>15, <2>1, <2>2 DEF PauseLab
<1>16. ASSUME NEW c \in Conns, Delete(c) PROVE StartsAlive' /\ OnlyLateOrphans
  <2>1. StartsAlive'
    BY <1>16 DEF Delete, Goto, Id, labVars, connVars, StartsAlive, WritesFail, Inv, OwnInv
  <2>2. OnlyLateOrphans
    <3>1. \A id \in IDs : Active(id)' => Active(id)
      BY <1>16 DEF Delete, Active, Told
    <3>2. \A id \in sessions : id \in sessions' \/ \E d \in Conns : Id(d)' = id /\ pc'[d] = "stop"
      BY <1>16 DEF Delete, Goto, connVars, Id, Inv, ConnTypes
    <3>3. \A id : WritesFail(id) => WritesFail(id)'
      BY <1>16 DEF Delete, connVars, WritesFail
    <3>4. \A d \in Conns : pc[d] = "stop" => pc'[d] = "stop" /\ Id(d)' = Id(d)
      BY <1>16 DEF Delete, connVars, At, Goto, Id, Inv
    <3>5. QED BY <3>1, <3>2, <3>3, <3>4, NoNewOrphan
  <2>3. QED BY <1>16, <2>1, <2>2 DEF Delete
<1>17. ASSUME NEW c \in Conns, Stop(c) PROVE StartsAlive' /\ OnlyLateOrphans
  <2>1. StartsAlive'
    BY <1>17 DEF Stop, Goto, Id, labVars, connVars, StartsAlive, WritesFail, Inv, OwnInv
  <2>2. OnlyLateOrphans
    <3>1. \A id \in IDs : Active(id)' => Active(id) /\ (Stopped({Id(c)}) => id \notin {Id(c)})
      <4>1. Stopped({Id(c)})
        BY <1>17 DEF Stop
      <4>2. \A s \in senders' : s.at = "run" => s \in senders
        BY <1>17 DEF Stop
      <4>3. QED BY <4>1, <4>2, OnlyOld
    <3>2. sessions' = sessions
      BY <1>17 DEF Stop
    <3>3. \A id : WritesFail(id) => WritesFail(id)'
      BY <1>17 DEF Stop, connVars, WritesFail
    <3>4. \A d \in Conns : pc[d] = "stop" /\ d # c => pc'[d] = "stop" /\ Id(d)' = Id(d)
      BY <1>17 DEF Stop, Goto, connVars, Id, Inv
    <3>5. Stopped({Id(c)})
      BY <1>17 DEF Stop
    <3>6. QED BY <3>1, <3>2, <3>3, <3>4, <3>5, NoNewOrphan
  <2>3. QED BY <1>17, <2>1, <2>2 DEF Stop
<1>18. ASSUME NEW c \in Conns, Teardown(c) PROVE StartsAlive' /\ OnlyLateOrphans
  <2>1. StartsAlive'
    <3>1. ASSUME NEW d \in Conns, pc'[d] = "start"
          PROVE  d # c /\ pc[d] = "start" /\ Id(d)' = Id(d) /\ pc[c] = "teardown"
      BY <1>18, <3>1 DEF Teardown, At, Goto, Inv, AllPlaced, Placed, Id
    <3>2. /\ UNCHANGED <<struct, up>> /\ silent' \subseteq silent
          /\ \A id \in DOMAIN lab : id # Id(c) => id \in DOMAIN lab'
      BY <1>18 DEF Teardown, Lab!End
    <3>3. \A d \in Conns : pc[d] = "start" /\ d # c => Id(d) # Id(c)
      BY InHand, OneHolder DEF OwnInv
    <3>4. QED BY <3>1, <3>2, <3>3 DEF StartsAlive, WritesFail
  <2>2. OnlyLateOrphans
    <3>1. \A id \in IDs : Active(id)' => Active(id)
      BY <1>18 DEF Teardown, Active, Told
    <3>2. sessions' = sessions
      BY <1>18 DEF Teardown
    <3>3. \A id : WritesFail(id) => WritesFail(id)'
      BY <1>18 DEF Teardown, WritesFail
    <3>4. \A d \in Conns : pc[d] = "stop" => pc'[d] = "stop" /\ Id(d)' = Id(d)
      BY <1>18 DEF Teardown, At, Goto, Id, Inv
    <3>5. QED BY <3>1, <3>2, <3>3, <3>4, NoNewOrphan
  <2>3. QED BY <1>18, <2>1, <2>2 DEF Teardown
<1>19. ASSUME NEW c \in Conns, Respond(c) PROVE StartsAlive' /\ OnlyLateOrphans
  <2>1. StartsAlive'
    BY <1>19 DEF Respond, Finish, NoRequest, Goto, labVars, StartsAlive,
           WritesFail, ConnTypes, Id, Inv, OwnInv
  <2>2. OnlyLateOrphans
    <3>1. \A id \in IDs : Active(id)' => Active(id)
      BY <1>19 DEF Respond, Active, Told
    <3>2. sessions' = sessions
      BY <1>19 DEF Respond
    <3>3. \A id : WritesFail(id) => WritesFail(id)'
      BY <1>19 DEF Respond, WritesFail
    <3>4. \A d \in Conns : pc[d] = "stop" => pc'[d] = "stop" /\ Id(d)' = Id(d)
      BY <1>19 DEF Respond, Finish, At, Goto, Id, Inv, ConnTypes
    <3>5. QED BY <3>1, <3>2, <3>3, <3>4, NoNewOrphan
  <2>3. QED BY <1>19, <2>1, <2>2 DEF Respond
<1>20. ASSUME NEW c \in Conns, AfterWrite(c) PROVE StartsAlive' /\ OnlyLateOrphans
  <2>1. StartsAlive'
    BY <1>20 DEF AfterWrite, Finish, NoRequest, Goto, labVars, StartsAlive,
           WritesFail, ConnTypes, Id, Inv, OwnInv
  <2>2. OnlyLateOrphans
    <3>1. /\ Starting(c) /\ StartSender(Id(c)) /\ UNCHANGED <<sessions, struct, up>>
      BY <1>20 DEF AfterWrite, At, Inv, AllPlaced, Placed, Starting
    <3>2. \A d \in Conns : pc[d] = "stop" => Id(d)' = Id(d) /\ pc'[d] = "stop"
      BY <1>20 DEF AfterWrite, At, Goto, Finish, Inv, Id
    <3>3. Id(c) \in DOMAIN lab \/ LateStart(c, Id(c))
      BY <1>20 DEF AfterWrite, At, Goto, LateStart, Inv, ConnTypes
    <3>4. QED BY <3>1, <3>2, <3>3, StartedNoOrphan
  <2>3. QED BY <1>20, <2>1, <2>2 DEF AfterWrite
<1>21. ASSUME NEW c \in Conns, Hangup(c) PROVE StartsAlive' /\ OnlyLateOrphans
  <2>1. StartsAlive'
    BY <1>21 DEF Hangup, NoRequest, Goto, labVars, StartsAlive, WritesFail, ConnTypes, Id, Inv, OwnInv
  <2>2. OnlyLateOrphans
    <3>1. \A id \in IDs : Active(id)' => Active(id)
      BY <1>21 DEF Hangup, Active, Told
    <3>2. sessions' = sessions
      BY <1>21 DEF Hangup
    <3>3. \A id : WritesFail(id) => WritesFail(id)'
      BY <1>21 DEF Hangup, WritesFail
    <3>4. \A d \in Conns : pc[d] = "stop" => pc'[d] = "stop" /\ Id(d)' = Id(d)
      BY <1>21 DEF Hangup, At, Goto, Id, Inv
    <3>5. QED BY <3>1, <3>2, <3>3, <3>4, NoNewOrphan
  <2>3. QED BY <1>21, <2>1, <2>2 DEF Hangup
<1>22. ASSUME NEW c \in Conns, CloseSession(c) PROVE StartsAlive' /\ OnlyLateOrphans
  <2>1. StartsAlive'
    <3>1. PICK id \in owned[c] :
            \/ req' = [req EXCEPT ![c].id = id] /\ pc' = [pc EXCEPT ![c] = "delete"]
            \/ req' = req /\ pc' = pc
      BY <1>22 DEF CloseSession, Goto
    <3>2. /\ pc[c] = "closing" /\ pending[c] = NoID /\ pending' = pending /\ lab' = lab
          /\ silent' = silent /\ up' = up /\ struct' = struct
      BY <1>22 DEF CloseSession, At, labVars, Inv, AllPlaced, Placed
    <3>3. QED BY <3>1, <3>2
           DEF StartsAlive, WritesFail, Id, Inv, ConnTypes
  <2>2. OnlyLateOrphans
    <3>1. \A id \in IDs : Active(id)' => Active(id)
      BY <1>22 DEF CloseSession, Active, Told
    <3>2. sessions' = sessions
      BY <1>22 DEF CloseSession
    <3>3. \A id : WritesFail(id) => WritesFail(id)'
      BY <1>22 DEF CloseSession, WritesFail
    <3>4. \A d \in Conns : pc[d] = "stop" => pc'[d] = "stop" /\ Id(d)' = Id(d)
      BY <1>22 DEF CloseSession, At, Goto, Id, Inv, ConnTypes
    <3>5. QED BY <3>1, <3>2, <3>3, <3>4, NoNewOrphan
  <2>3. QED BY <1>22, <2>1, <2>2 DEF CloseSession
<1>23. ASSUME NEW c \in Conns, Closed(c) PROVE StartsAlive' /\ OnlyLateOrphans
  <2>1. StartsAlive'
    BY <1>23 DEF Closed, Finish, NoRequest, Goto, labVars, StartsAlive,
           WritesFail, AllPlaced, Placed, Id, Inv, OwnInv
  <2>2. OnlyLateOrphans
    <3>1. \A id \in IDs : Active(id)' => Active(id)
      BY <1>23 DEF Closed, Active, Told
    <3>2. sessions' = sessions
      BY <1>23 DEF Closed
    <3>3. \A id : WritesFail(id) => WritesFail(id)'
      BY <1>23 DEF Closed, WritesFail
    <3>4. \A d \in Conns : pc[d] = "stop" => pc'[d] = "stop" /\ Id(d)' = Id(d)
      BY <1>23 DEF Closed, Finish, At, Goto, Id, Inv
    <3>5. QED BY <3>1, <3>2, <3>3, <3>4, NoNewOrphan
  <2>3. QED BY <1>23, <2>1, <2>2 DEF Closed
<1>24. ASSUME NEW c \in Conns, ClientLeaves(c) PROVE StartsAlive' /\ OnlyLateOrphans
  <2>1. StartsAlive'
    BY <1>24 DEF ClientLeaves, labVars, StartsAlive, WritesFail, Id,
           Inv, OwnInv
  <2>2. OnlyLateOrphans
    <3>1. \A id \in IDs : Active(id)' => Active(id)
      BY <1>24 DEF ClientLeaves, Active, Told
    <3>2. sessions' = sessions
      BY <1>24 DEF ClientLeaves
    <3>3. \A id : WritesFail(id) => WritesFail(id)'
      BY <1>24 DEF ClientLeaves, WritesFail
    <3>4. \A d \in Conns : pc[d] = "stop" => pc'[d] = "stop" /\ Id(d)' = Id(d)
      BY <1>24 DEF ClientLeaves, At, Id, Inv
    <3>5. QED BY <3>1, <3>2, <3>3, <3>4, NoNewOrphan
  <2>3. QED BY <1>24, <2>1, <2>2 DEF ClientLeaves
<1>25. ASSUME NEW sender \in senders, SenderStops(sender) PROVE StartsAlive' /\ OnlyLateOrphans
  <2>1. OnlyLateOrphans
    <3>1. \A id \in IDs : Active(id)' => Active(id)
      <4>1. stopCh' = stopCh /\ \A s \in senders' : s.at = "run" => s \in senders
        BY <1>25 DEF SenderStops
      <4>2. QED BY <4>1 DEF Active, Told
    <3>2. sessions' = sessions
      BY <1>25 DEF SenderStops
    <3>3. \A id : WritesFail(id) => WritesFail(id)'
      BY <1>25 DEF SenderStops, connVars, WritesFail
    <3>4. UNCHANGED <<pc, req>>
      BY <1>25 DEF SenderStops, connVars
    <3>5. QED BY <3>1, <3>2, <3>3, <3>4, NoNewOrphan DEF Id
  <2>2. QED BY <1>25, AliveFrames, <2>1 DEF SenderStops, labVars, connVars
<1>26. ASSUME NEW sender \in senders, SenderFails(sender) PROVE StartsAlive' /\ OnlyLateOrphans
  <2>1. OnlyLateOrphans
    <3>1. \A id \in IDs : Active(id)' => Active(id) /\ (Stopped({sender.id}) => id \notin {sender.id})
      <4>1. Stopped({sender.id}) \/ stopCh' = stopCh
        BY <1>26 DEF SenderFails
      <4>2. \A s \in senders' : s.at = "run" => s \in senders
        BY <1>26 DEF SenderFails, Step, Inv, SenderTypes
      <4>3. QED BY <4>1, <4>2, OnlyOld
    <3>2. sessions' = sessions
      BY <1>26 DEF SenderFails
    <3>3. \A id : WritesFail(id) => WritesFail(id)'
      BY <1>26 DEF SenderFails, connVars, WritesFail
    <3>4. UNCHANGED <<pc, req>>
      BY <1>26 DEF SenderFails, connVars
    <3>5. QED BY <3>1, <3>2, <3>3, <3>4, NoNewOrphan DEF Id
  <2>2. QED BY <1>26, AliveFrames, <2>1 DEF SenderFails, labVars, connVars
<1>27. ASSUME NEW sender \in senders, SenderDeletes(sender) PROVE StartsAlive' /\ OnlyLateOrphans
  <2>1. OnlyLateOrphans
    <3>1. \A id \in IDs : Active(id)' => Active(id)
      <4>1. stopCh' = stopCh /\ \A s \in senders' : s.at = "run" => s \in senders
        BY <1>27 DEF SenderDeletes, Step, Inv, SenderTypes
      <4>2. QED BY <4>1 DEF Active, Told
    <3>2. \A id \in sessions : id \in sessions' \/ WritesFail(id)
      BY <1>27 DEF SenderDeletes, Inv, SendersPlaced
    <3>3. \A id : WritesFail(id) => WritesFail(id)'
      BY <1>27 DEF SenderDeletes, connVars, WritesFail
    <3>4. UNCHANGED <<pc, req>>
      BY <1>27 DEF SenderDeletes, connVars
    <3>5. QED BY <3>1, <3>2, <3>3, <3>4, NoNewOrphan DEF Id
  <2>2. QED BY <1>27, AliveFrames, <2>1 DEF SenderDeletes, labVars, connVars
<1>28. ASSUME NEW sender \in senders, SenderStopsSession(sender) PROVE StartsAlive' /\ OnlyLateOrphans
  <2>1. OnlyLateOrphans
    <3>1. \A id \in IDs : Active(id)' => Active(id) /\ (Stopped({sender.id}) => id \notin {sender.id})
      <4>1. Stopped({sender.id})
        BY <1>28 DEF SenderStopsSession
      <4>2. \A s \in senders' : s.at = "run" => s \in senders
        BY <1>28 DEF SenderStopsSession, Step, Inv, SenderTypes
      <4>3. QED BY <4>1, <4>2, OnlyOld
    <3>2. sessions' = sessions
      BY <1>28 DEF SenderStopsSession
    <3>3. \A id : WritesFail(id) => WritesFail(id)'
      BY <1>28 DEF SenderStopsSession, connVars, WritesFail
    <3>4. UNCHANGED <<pc, req>>
      BY <1>28 DEF SenderStopsSession, connVars
    <3>5. QED BY <3>1, <3>2, <3>3, <3>4, NoNewOrphan DEF Id
  <2>2. QED BY <1>28, AliveFrames, <2>1
         DEF SenderStopsSession, labVars, connVars
<1>29. ASSUME NEW sender \in senders, SenderTearsDown(sender) PROVE StartsAlive' /\ OnlyLateOrphans
  <2>1. StartsAlive'
    <3>1. /\ UNCHANGED <<pc, req, pending, struct, up>> /\ silent' \subseteq silent
          /\ \A id \in DOMAIN lab : id # sender.id => id \in DOMAIN lab'
      BY <1>29 DEF SenderTearsDown, Lab!End, connVars
    <3>2. WritesFail(sender.id)
      BY <1>29 DEF SenderTearsDown, Inv, SendersPlaced
    <3>3. QED BY <3>1, <3>2 DEF StartsAlive, WritesFail, Id
  <2>2. OnlyLateOrphans
    <3>1. \A id \in IDs : Active(id)' => Active(id)
      <4>1. stopCh' = stopCh /\ \A s \in senders' : s.at = "run" => s \in senders
        BY <1>29 DEF SenderTearsDown
      <4>2. QED BY <4>1 DEF Active, Told
    <3>2. sessions' = sessions
      BY <1>29 DEF SenderTearsDown
    <3>3. \A id : WritesFail(id) => WritesFail(id)'
      BY <1>29 DEF SenderTearsDown, connVars, WritesFail
    <3>4. UNCHANGED <<pc, req>>
      BY <1>29 DEF SenderTearsDown, connVars
    <3>5. QED BY <3>1, <3>2, <3>3, <3>4, NoNewOrphan DEF Id
  <2>3. QED BY <1>29, <2>1, <2>2 DEF SenderTearsDown
<1>30. ASSUME NEW sender \in senders, SenderFinishes(sender) PROVE StartsAlive' /\ OnlyLateOrphans
  <2>1. OnlyLateOrphans
    <3>1. \A id \in IDs : Active(id)' => Active(id) /\ (Stopped({sender.id}) => id \notin {sender.id})
      <4>1. Stopped({sender.id})
        BY <1>30 DEF SenderFinishes
      <4>2. \A s \in senders' : s.at = "run" => s \in senders
        BY <1>30 DEF SenderFinishes, Step, Inv, SenderTypes
      <4>3. QED BY <4>1, <4>2, OnlyOld
    <3>2. sessions' = sessions
      BY <1>30 DEF SenderFinishes
    <3>3. \A id : WritesFail(id) => WritesFail(id)'
      BY <1>30 DEF SenderFinishes, connVars, WritesFail
    <3>4. UNCHANGED <<pc, req>>
      BY <1>30 DEF SenderFinishes, connVars
    <3>5. QED BY <3>1, <3>2, <3>3, <3>4, NoNewOrphan DEF Id
  <2>2. QED BY <1>30, AliveFrames, <2>1 DEF SenderFinishes, labVars, connVars
<1>31. CASE ReaperExpires
  <2>1. StartsAlive'
    BY <1>31 DEF ReaperExpires, LabExpire, Lab!End, connVars, StartsAlive,
           WritesFail, Id, Inv, OwnInv
  <2>2. QED BY <1>31, AliveFrames, <2>1 DEF ReaperExpires, connVars, LabExpire
<1>32. CASE ReaperSweeps
  <2>1. OnlyLateOrphans
    <3>1. \A id \in IDs : Active(id)' => Active(id) /\ (Stopped(doomed[Reaper] \cap sessions) => id \notin doomed[Reaper] \cap sessions)
      <4>1. Stopped(doomed[Reaper] \cap sessions)
        BY <1>32 DEF ReaperSweeps, Sweep
      <4>2. \A s \in senders' : s.at = "run" => s \in senders
        BY <1>32 DEF ReaperSweeps
      <4>3. QED BY <4>1, <4>2, OnlyOld
    <3>2. Stopped(doomed[Reaper] \cap sessions) /\ \A id \in sessions : id \notin doomed[Reaper] \cap sessions => id \in sessions'
      BY <1>32 DEF ReaperSweeps, Sweep
    <3>3. \A id : WritesFail(id) => WritesFail(id)'
      BY <1>32 DEF ReaperSweeps, connVars, WritesFail
    <3>4. UNCHANGED <<pc, req>>
      BY <1>32 DEF ReaperSweeps, connVars
    <3>5. QED BY <3>1, <3>2, <3>3, <3>4, NoNewOrphan DEF Id
  <2>2. QED BY <1>32, AliveFrames, <2>1
         DEF ReaperSweeps, labVars, connVars, Sweep
<1>33. CASE ResetRtsp
  <2>1. OnlyLateOrphans
    <3>1. \A id \in IDs : Active(id)' => Active(id) /\ (Stopped(sessions) => id \notin sessions)
      <4>1. Stopped(sessions)
        BY <1>33 DEF ResetRtsp
      <4>2. \A s \in senders' : s.at = "run" => s \in senders
        BY <1>33 DEF ResetRtsp
      <4>3. QED BY <4>1, <4>2, OnlyOld
    <3>2. Stopped(sessions) /\ \A id \in sessions : id \notin sessions => id \in sessions'
      BY <1>33 DEF ResetRtsp
    <3>3. \A id : WritesFail(id) => WritesFail(id)'
      BY <1>33 DEF ResetRtsp, connVars, WritesFail
    <3>4. UNCHANGED <<pc, req>>
      BY <1>33 DEF ResetRtsp, connVars
    <3>5. QED BY <3>1, <3>2, <3>3, <3>4, NoNewOrphan DEF Id
  <2>2. QED BY <1>33, AliveFrames, <2>1 DEF ResetRtsp, labVars, connVars
<1>34. CASE ResetLab
  <2>1. StartsAlive'
    BY <1>34 DEF ResetLab, Inv, DoomedForgotten, MapTypes
  <2>2. QED BY <1>34, AliveFrames, <2>1 DEF ResetLab, connVars
<1>35. ASSUME NEW id \in IDs, FallSilent(id) PROVE StartsAlive' /\ OnlyLateOrphans
  <2>1. StartsAlive'
    BY <1>35 DEF FallSilent, At, Id, connVars, StartsAlive, WritesFail,
           Inv, OwnInv
  <2>2. QED BY <1>35, AliveFrames, <2>1 DEF FallSilent, connVars
<1>36. QED BY <1>1, <1>2, <1>3, <1>4, <1>5, <1>6, <1>7, <1>8, <1>9, <1>10, <1>11, <1>12,
       <1>13, <1>14, <1>15, <1>16, <1>17, <1>18, <1>19, <1>20, <1>21, <1>22, <1>23,
       <1>24, <1>25, <1>26, <1>27, <1>28, <1>29, <1>30, <1>31, <1>32, <1>33, <1>34,
       <1>35
       DEF Next, Handle, SenderExits, Reap, Reset

\* And without a reset a PLAY finds its session alive.
THEOREM AliveInvariant == ~SharedUse /\ Resets = 0 => (Spec => []StartsAlive)
<1> SUFFICES ASSUME ~SharedUse, Resets = 0 PROVE Spec => []StartsAlive
  OBVIOUS
<1>1. Init => StartsAlive
  BY DEF Init, StartsAlive
<1>2. Inv /\ Inv' /\ MapInv /\ OwnInv /\ StartsAlive /\ [Next]_vars => StartsAlive'
  BY AliveStep
<1>3. QED BY <1>1, <1>2, Invariant, MapInvariant, OwnInvariant, PTL DEF Spec

\* NoOrphanSender: with clients that keep to their own sessions and no reset, no step
\* leaves a sender running whose session has left the map, but for the late start of
\* an interleaved PLAY whose session expired while its response was blocked.
THEOREM NoOrphanSenderHolds == ~SharedUse /\ Resets = 0 => (Spec => NoOrphanSender)
<1> SUFFICES ASSUME ~SharedUse, Resets = 0 PROVE Spec => NoOrphanSender
  OBVIOUS
<1>1. Inv /\ Inv' /\ MapInv /\ OwnInv /\ StartsAlive /\ [Next]_vars => [OnlyLateOrphans]_vars
  BY AliveStep
<1>2. Spec => [][OnlyLateOrphans]_vars
  BY <1>1, Invariant, MapInvariant, OwnInvariant, AliveInvariant, PTL DEF Spec
<1>3. QED BY <1>2, PTL DEF NoOrphanSender, OnlyLateOrphans

=============================================================================
