-------------------------- MODULE LabEvents_proofs --------------------------
(***************************************************************************)
(* The event log.  recordLocked drops the oldest events, so what the log   *)
(* says is an invariant only if every suffix of a good log is good; and a  *)
(* new event fits the log only because of what the log says of the session *)
(* map.  LogInv is that agreement: it survives an append (LogGrows), for   *)
(* one event or for the batch of an expiry, and the cut (LogIsCut).        *)
(***************************************************************************)
EXTENDS LabManager_proofs

\* Two events of one session, in this order.
InOrder(e, f) ==
  e.session = f.session /\ e.session # NoSession =>
    /\ e.type \notin TerminalEvents
    /\ f.type # "session_setup"
    /\ f.type = "rtp_first_packet_sent" =>
         e.type \notin {"rtp_first_packet_sent", "rtp_packet_progress"}

StateOf(type) == CASE type = "session_setup" -> "setup"
                   [] type = "play_started"  -> "playing"
                   [] type = "play_paused"   -> "paused"

\* The log tells one life of each session.
Lives(log) ==
  \A i, j \in DOMAIN log :
    i < j => /\ InOrder(log[i], log[j])
             /\ log[i].type = "reset" =>
                  \A k \in 1..i : log[k].session # NoSession => log[k].session # log[j].session

\* What the log says of a live session is what the session map says of it.
Agrees(log, sess) ==
  \A i \in DOMAIN log :
    LET id == log[i].session
    IN  id # NoSession /\ id \in DOMAIN sess =>
          /\ log[i].type \notin TerminalEvents
          /\ \A j \in DOMAIN log : i <= j => log[j].type # "reset"
          /\ log[i].type \in {"rtp_first_packet_sent", "rtp_packet_progress"}
               => sess[id].packets # 0
          /\ \/ log[i].type \notin StateEvents
             \/ \E j \in DOMAIN log : i < j /\ log[j].session = id /\ log[j].type \in StateEvents
             \/ sess[id].state = StateOf(log[i].type)

LogInv == TypeOK /\ Lives(events) /\ Agrees(events, sessions)

Unheard(log, id) == \A i \in DOMAIN log : log[i].session # id

----------------------------------------------------------------------------
(* Appending and cutting.                                                  *)

\* The elements of a concatenation.
LEMMA Elements ==
  ASSUME NEW log \in Seq(Event), NEW new \in Seq(Event)
  PROVE  LET n == Len(log)
         IN  /\ n \in Nat /\ Len(new) \in Nat
             /\ DOMAIN log = 1..n /\ DOMAIN new = 1..Len(new)
             /\ DOMAIN (log \o new) = 1..(n + Len(new))
             /\ \A i \in DOMAIN log : (log \o new)[i] = log[i]
             /\ \A i \in DOMAIN (log \o new) :
                  i \notin DOMAIN log => /\ i - n \in DOMAIN new
                                         /\ (log \o new)[i] = new[i - n]
             /\ \A j \in DOMAIN new : /\ n + j \in DOMAIN (log \o new)
                                      /\ (log \o new)[n + j] = new[j]
<1>1. /\ Len(log \o new) = Len(log) + Len(new) /\ log \o new \in Seq(Event)
      /\ \A i \in 1..(Len(log) + Len(new)) :
           (log \o new)[i] = IF i <= Len(log) THEN log[i] ELSE new[i - Len(log)]
  BY ConcatProperties
<1>2. /\ Len(log) \in Nat /\ Len(new) \in Nat
      /\ DOMAIN log = 1..Len(log) /\ DOMAIN new = 1..Len(new)
      /\ DOMAIN (log \o new) = 1..(Len(log) + Len(new))
  BY <1>1, LenProperties
<1> DEFINE all == log \o new
<1> HIDE DEF all
<1> QED
  BY <1>1, <1>2 DEF all

\* What the events new of a step, which takes the session map from sess to sess2, owe
\* to a log that agrees with sess: they come in order, a reset comes alone and ends
\* every session; each is about a session that is live, or that nobody heard of; and
\* whatever they do to a session they say.
Fit(log, new, sess, sess2) ==
  /\ \A i, j \in DOMAIN new : i < j => InOrder(new[i], new[j])
  /\ \A i \in DOMAIN new : new[i].type = "reset" => DOMAIN sess2 = {} /\ Len(new) = 1
  /\ \A j \in DOMAIN new :
       new[j].session # NoSession =>
         \/ Unheard(log, new[j].session)
         \/ /\ new[j].session \in DOMAIN sess
            /\ new[j].type # "session_setup"
            /\ new[j].type = "rtp_first_packet_sent" => sess[new[j].session].packets = 0
  /\ \A j \in DOMAIN new :
       new[j].session # NoSession /\ new[j].session \in DOMAIN sess2 =>
         /\ new[j].type \notin TerminalEvents
         /\ new[j].type \in {"rtp_first_packet_sent", "rtp_packet_progress"}
              => sess2[new[j].session].packets # 0
         /\ new[j].type \in StateEvents => sess2[new[j].session].state = StateOf(new[j].type)
  /\ \A id \in DOMAIN sess2 :
       \/ id = NoSession \/ Unheard(log, id)
       \/ /\ id \in DOMAIN sess
          /\ sess[id].packets # 0 => sess2[id].packets # 0
          /\ \/ sess2[id].state = sess[id].state
             \/ \E j \in DOMAIN new : new[j].session = id /\ new[j].type \in StateEvents

LEMMA LogGrows ==
  ASSUME NEW log \in Seq(Event), NEW new \in Seq(Event), NEW sess, NEW sess2,
         Lives(log), Agrees(log, sess), Fit(log, new, sess, sess2)
  PROVE  Lives(log \o new) /\ Agrees(log \o new, sess2)
<1> DEFINE all == log \o new
           n   == Len(log)
<1>1. /\ n \in Nat /\ Len(new) \in Nat
      /\ DOMAIN log = 1..n /\ DOMAIN new = 1..Len(new)
      /\ DOMAIN all = 1..(n + Len(new))
      /\ \A i \in DOMAIN log : all[i] = log[i]
      /\ \A i \in DOMAIN all : i \notin DOMAIN log => i - n \in DOMAIN new /\ all[i] = new[i - n]
      /\ \A j \in DOMAIN new : n + j \in DOMAIN all /\ all[n + j] = new[j]
  BY Elements
<1> HIDE DEF all, n
<1>2. DOMAIN log \subseteq DOMAIN all
  BY <1>1
<1>3. Lives(all)
  <2> SUFFICES ASSUME NEW i \in DOMAIN all, NEW j \in DOMAIN all, i < j
               PROVE  /\ InOrder(all[i], all[j])
                      /\ all[i].type = "reset" =>
                           \A k \in 1..i : all[k].session # NoSession => all[k].session # all[j].session
    BY DEF Lives
  <2>1. CASE j \in DOMAIN log
    <3>1. i \in DOMAIN log /\ \A k \in 1..i : k \in DOMAIN log
      BY <1>1, <2>1
    <3> QED
      BY <1>1, <2>1, <3>1 DEF Lives
  <2>2. CASE i \in DOMAIN log /\ j \notin DOMAIN log
    <3> DEFINE f == new[j - n]
    <3>1. j - n \in DOMAIN new /\ all[j] = f
      BY <1>1, <2>2
    <3>2. ASSUME NEW k \in DOMAIN log, log[k].session = f.session, log[k].session # NoSession
          PROVE  /\ f.session \in DOMAIN sess
                 /\ f.type # "session_setup"
                 /\ f.type = "rtp_first_packet_sent" => sess[f.session].packets = 0
      BY <3>1, <3>2 DEF Fit, Unheard
    <3>3. InOrder(log[i], f)
      BY <2>2, <3>2 DEF InOrder, Agrees
    <3>4. ASSUME log[i].type = "reset", NEW k \in 1..i, log[k].session # NoSession
          PROVE  log[k].session # f.session
      <4>1. k \in DOMAIN log /\ k <= i
        BY <1>1, <2>2
      <4> QED
        BY <2>2, <3>2, <3>4, <4>1 DEF Agrees
    <3>5. \A k \in 1..i : k \in DOMAIN log
      BY <1>1, <2>2
    <3> QED
      BY <1>1, <2>2, <3>1, <3>3, <3>4, <3>5
  <2>3. CASE i \notin DOMAIN log
    <3>1. /\ i - n \in DOMAIN new /\ all[i] = new[i - n]
          /\ j - n \in DOMAIN new /\ all[j] = new[j - n]
          /\ i - n < j - n /\ Len(new) # 1
      BY <1>1, <2>3
    <3> QED
      BY <3>1 DEF Fit
  <2> QED
    BY <2>1, <2>2, <2>3
<1>4. Agrees(all, sess2)
  <2> SUFFICES ASSUME NEW i \in DOMAIN all,
                      all[i].session # NoSession, all[i].session \in DOMAIN sess2
               PROVE  LET id == all[i].session
                      IN  /\ all[i].type \notin TerminalEvents
                          /\ \A j \in DOMAIN all : i <= j => all[j].type # "reset"
                          /\ all[i].type \in {"rtp_first_packet_sent", "rtp_packet_progress"}
                               => sess2[id].packets # 0
                          /\ \/ all[i].type \notin StateEvents
                             \/ \E j \in DOMAIN all :
                                  i < j /\ all[j].session = id /\ all[j].type \in StateEvents
                             \/ sess2[id].state = StateOf(all[i].type)
    BY DEF Agrees
  <2> DEFINE id == all[i].session
  <2>1. \A j \in DOMAIN all : j \notin DOMAIN log => all[j].type # "reset"
    BY <1>1 DEF Fit
  <2>2. CASE i \in DOMAIN log
    <3>1. /\ all[i] = log[i] /\ id \in DOMAIN sess
          /\ sess[id].packets # 0 => sess2[id].packets # 0
          /\ \/ sess2[id].state = sess[id].state
             \/ \E j \in DOMAIN new : new[j].session = id /\ new[j].type \in StateEvents
      BY <1>1, <2>2 DEF Fit, Unheard
    <3>2. \A j \in DOMAIN new : n + j \in DOMAIN all /\ i < n + j /\ all[n + j] = new[j]
      BY <1>1, <2>2
    <3>3. \A j \in DOMAIN all : i <= j => all[j].type # "reset"
      BY <1>1, <2>1, <2>2, <3>1 DEF Agrees
    <3>4. \/ log[i].type \notin StateEvents
          \/ \E j \in DOMAIN all : i < j /\ all[j].session = id /\ all[j].type \in StateEvents
          \/ sess[id].state = StateOf(log[i].type)
      BY <1>1, <1>2, <2>2, <3>1 DEF Agrees
    <3>5. /\ log[i].type \notin TerminalEvents
          /\ log[i].type \in {"rtp_first_packet_sent", "rtp_packet_progress"}
               => sess[id].packets # 0
      BY <2>2, <3>1 DEF Agrees
    <3> HIDE DEF id
    <3>6. \/ log[i].type \notin StateEvents
          \/ \E j \in DOMAIN all : i < j /\ all[j].session = id /\ all[j].type \in StateEvents
          \/ sess2[id].state = StateOf(log[i].type)
      BY <3>1, <3>2, <3>4
    <3> QED
      BY <3>1, <3>3, <3>5, <3>6 DEF id
  <2>3. CASE i \notin DOMAIN log
    <3>1. i - n \in DOMAIN new /\ all[i] = new[i - n]
      BY <1>1, <2>3
    <3>2. \A j \in DOMAIN all : i <= j => j \notin DOMAIN log
      BY <1>1, <2>3
    <3> QED
      BY <2>1, <3>1, <3>2 DEF Fit
  <2> QED
    BY <2>2, <2>3
<1> QED
  BY <1>3, <1>4 DEF all

\* recordLocked cuts the log at its old end.
LEMMA CutOf ==
  ASSUME NEW log \in Seq(Event), NEW new \in Seq(Event)
  PROVE  LET all == log \o new
             cut == RecordAll(log, new)
         IN  \E d \in Nat :
               /\ d <= Len(all) /\ Len(all) \in Nat
               /\ DOMAIN cut = 1..(Len(all) - d) /\ DOMAIN all = 1..Len(all)
               /\ \A i \in DOMAIN cut : d + i \in DOMAIN all /\ cut[i] = all[d + i]
<1> DEFINE all == log \o new
           cut == RecordAll(log, new)
           d   == Len(all) - EventCap
<1>1. all \in Seq(Event) /\ Len(all) \in Nat /\ DOMAIN all = 1..Len(all) /\ EventCap \in Nat
  BY ConcatProperties, LenProperties, CountAssumption
<1>2. cut = IF Len(all) > EventCap THEN SubSeq(all, Len(all) - EventCap + 1, Len(all)) ELSE all
  BY DEF RecordAll
<1> HIDE DEF all, cut
<1> SUFFICES \E n \in Nat :
               /\ n <= Len(all) /\ Len(all) \in Nat
               /\ DOMAIN cut = 1..(Len(all) - n) /\ DOMAIN all = 1..Len(all)
               /\ \A i \in DOMAIN cut : n + i \in DOMAIN all /\ cut[i] = all[n + i]
  BY DEF all, cut
<1>3. CASE Len(all) <= EventCap
  <2>1. cut = all
    BY <1>1, <1>2, <1>3
  <2>2. /\ 0 \in Nat /\ 0 <= Len(all) /\ DOMAIN cut = 1..(Len(all) - 0)
        /\ \A i \in DOMAIN cut : 0 + i \in DOMAIN all /\ cut[i] = all[0 + i]
    BY <1>1, <2>1
  <2> QED
    BY <1>1, <2>2
<1>4. CASE Len(all) > EventCap
  <2>1. d \in Nat /\ d <= Len(all) /\ d + 1 \in Int /\ \A i \in (d + 1) .. Len(all) : all[i] \in Event
    BY <1>1, <1>4, ElementOfSeq
  <2>2. cut = SubSeq(all, d + 1, Len(all))
    BY <1>1, <1>2, <1>4
  <2> HIDE DEF d
  <2>3. /\ cut \in Seq(Event) /\ Len(cut) = IF d + 1 <= Len(all) THEN Len(all) - (d + 1) + 1 ELSE 0
        /\ \A i \in 1..(Len(all) - (d + 1) + 1) : cut[i] = all[d + 1 + i - 1]
    BY <1>1, <2>1, <2>2, SubSeqProperties
  <2>4. DOMAIN cut = 1..(Len(all) - d)
    BY <1>1, <2>1, <2>3, LenProperties
  <2>5. ASSUME NEW i \in DOMAIN cut PROVE d + i \in DOMAIN all /\ cut[i] = all[d + i]
    <3>1. i \in Nat /\ 1 <= i /\ i <= Len(all) - d
      BY <1>1, <2>1, <2>4
    <3>2. d + 1 + i - 1 = d + i /\ i \in 1..(Len(all) - (d + 1) + 1) /\ d + i \in 1..Len(all)
      BY <1>1, <2>1, <3>1
    <3>3. cut[i] = all[d + 1 + i - 1]
      BY <2>3, <3>2
    <3> QED
      BY <1>1, <3>1, <3>2, <3>3
  <2> QED
    BY <1>1, <2>1, <2>4, <2>5
<1> QED
  BY <1>1, <1>3, <1>4

\* What is left of a good log is good.
LEMMA LogIsCut ==
  ASSUME NEW log \in Seq(Event), NEW new \in Seq(Event), NEW sess,
         Lives(log \o new), Agrees(log \o new, sess)
  PROVE  Lives(RecordAll(log, new)) /\ Agrees(RecordAll(log, new), sess)
<1> DEFINE all == log \o new
           cut == RecordAll(log, new)
<1>1. PICK d \in Nat :
        /\ d <= Len(all) /\ Len(all) \in Nat
        /\ DOMAIN cut = 1..(Len(all) - d) /\ DOMAIN all = 1..Len(all)
        /\ \A i \in DOMAIN cut : d + i \in DOMAIN all /\ cut[i] = all[d + i]
  BY CutOf
<1>2. Lives(all) /\ Agrees(all, sess)
  OBVIOUS
<1> HIDE DEF all, cut
<1>3. \A i \in DOMAIN cut : i \in Nat
  BY <1>1
<1>4. ASSUME NEW j \in DOMAIN all, j > d PROVE j - d \in DOMAIN cut /\ cut[j - d] = all[j]
  <2>1. j - d \in DOMAIN cut /\ d + (j - d) = j
    BY <1>1, <1>4
  <2> QED
    BY <1>1, <2>1
<1>5. Lives(cut)
  <2> SUFFICES ASSUME NEW i \in DOMAIN cut, NEW j \in DOMAIN cut, i < j
               PROVE  /\ InOrder(cut[i], cut[j])
                      /\ cut[i].type = "reset" =>
                           \A k \in 1..i : cut[k].session # NoSession => cut[k].session # cut[j].session
    BY DEF Lives
  <2>1. d + i < d + j /\ \A k \in 1..i : k \in DOMAIN cut /\ d + k \in 1..(d + i)
    BY <1>1, <1>3
  <2>2. /\ InOrder(all[d + i], all[d + j])
        /\ all[d + i].type = "reset" =>
             \A k \in 1..(d + i) : all[k].session # NoSession => all[k].session # all[d + j].session
    BY <1>1, <1>2, <2>1 DEF Lives
  <2> QED
    BY <1>1, <2>1, <2>2
<1>6. Agrees(cut, sess)
  <2> SUFFICES ASSUME NEW i \in DOMAIN cut,
                      cut[i].session # NoSession, cut[i].session \in DOMAIN sess
               PROVE  LET id == cut[i].session
                      IN  /\ cut[i].type \notin TerminalEvents
                          /\ \A j \in DOMAIN cut : i <= j => cut[j].type # "reset"
                          /\ cut[i].type \in {"rtp_first_packet_sent", "rtp_packet_progress"}
                               => sess[id].packets # 0
                          /\ \/ cut[i].type \notin StateEvents
                             \/ \E j \in DOMAIN cut :
                                  i < j /\ cut[j].session = id /\ cut[j].type \in StateEvents
                             \/ sess[id].state = StateOf(cut[i].type)
    BY DEF Agrees
  <2>1. /\ \A j \in DOMAIN cut : i <= j => d + i <= d + j
        /\ \A j \in DOMAIN all : d + i < j => j > d /\ i < j - d
    BY <1>1, <1>3
  <2>2. d + i \in DOMAIN all /\ all[d + i] = cut[i]
    BY <1>1
  <2>3. /\ cut[i].type \notin TerminalEvents
        /\ \A j \in DOMAIN all : d + i <= j => all[j].type # "reset"
        /\ cut[i].type \in {"rtp_first_packet_sent", "rtp_packet_progress"}
             => sess[cut[i].session].packets # 0
        /\ \/ cut[i].type \notin StateEvents
           \/ \E j \in DOMAIN all :
                d + i < j /\ all[j].session = cut[i].session /\ all[j].type \in StateEvents
           \/ sess[cut[i].session].state = StateOf(cut[i].type)
    BY <1>2, <2>2 DEF Agrees
  <2> QED
    BY <1>1, <1>4, <2>1, <2>3
<1> QED
  BY <1>5, <1>6 DEF cut

\* So a log keeps agreeing with the session map when fitting events are recorded.
LEMMA Recorded ==
  ASSUME NEW log \in Seq(Event), NEW new \in Seq(Event), NEW sess, NEW sess2,
         Lives(log), Agrees(log, sess), Fit(log, new, sess, sess2)
  PROVE  Lives(RecordAll(log, new)) /\ Agrees(RecordAll(log, new), sess2)
BY LogGrows, LogIsCut

\* Nobody hears of a session by the cut of a log that does not mention it.
LEMMA UnheardStays ==
  ASSUME NEW log \in Seq(Event), NEW type \in EventTypes, NEW id, id # NoSession,
         Unheard(log, id)
  PROVE  Unheard(Record(log, type, NoSession), id)
<1> DEFINE new == <<[type |-> type, session |-> NoSession]>>
           cut == RecordAll(log, new)
<1>1. new \in Seq(Event) /\ \A j \in DOMAIN new : new[j].session = NoSession
  BY DEF Event
<1> HIDE DEF new
<1>2. \A i \in DOMAIN (log \o new) : (log \o new)[i].session # id
  BY <1>1, Elements DEF Unheard
<1>3. \A i \in DOMAIN cut : \E j \in DOMAIN (log \o new) : cut[i] = (log \o new)[j]
  BY <1>1, CutOf
<1> QED
  BY <1>2, <1>3 DEF Unheard, Record, new

----------------------------------------------------------------------------
(* What fits.                                                              *)

\* One event about no session, other than a reset, that leaves the state and the
\* packet count of every session alone.
LEMMA NoteFits ==
  ASSUME NEW log, NEW type, type # "reset", NEW sess, NEW sess2,
         DOMAIN sess2 \subseteq DOMAIN sess,
         \A id \in DOMAIN sess2 : /\ sess2[id].state = sess[id].state
                                 /\ sess2[id].packets = sess[id].packets
  PROVE  Fit(log, <<[type |-> type, session |-> NoSession]>>, sess, sess2)
<1> DEFINE new == <<[type |-> type, session |-> NoSession]>>
<1>1. DOMAIN new = {1} /\ new[1].type = type /\ new[1].session = NoSession
  OBVIOUS
<1> HIDE DEF new
<1> QED
  BY <1>1 DEF Fit, InOrder, new

\* A change of the session map that no event needs to tell.
LEMMA Silent ==
  ASSUME NEW log, NEW sess, NEW sess2, Agrees(log, sess),
         DOMAIN sess2 \subseteq DOMAIN sess,
         \A id \in DOMAIN sess2 : /\ sess2[id].state = sess[id].state
                                 /\ sess2[id].packets = sess[id].packets
  PROVE  Agrees(log, sess2)
BY DEF Agrees

\* One event about a live session that says what the session became.
LEMMA LiveEventFits ==
  ASSUME NEW log, NEW type, type \notin {"reset", "session_setup"} \cup TerminalEvents,
         NEW sess, NEW id \in DOMAIN sess, NEW r,
         type \in StateEvents => r.state = StateOf(type),
         type \notin StateEvents => r.state = sess[id].state,
         sess[id].packets # 0 => r.packets # 0,
         type = "rtp_first_packet_sent" => sess[id].packets = 0,
         type \in {"rtp_first_packet_sent", "rtp_packet_progress"} => r.packets # 0
  PROVE  Fit(log, <<[type |-> type, session |-> id]>>, sess, [sess EXCEPT ![id] = r])
<1> DEFINE new   == <<[type |-> type, session |-> id]>>
           sess2 == [sess EXCEPT ![id] = r]
<1>1. DOMAIN new = {1} /\ new[1].type = type /\ new[1].session = id
  OBVIOUS
<1>2. /\ DOMAIN sess2 = DOMAIN sess /\ sess2[id] = r
      /\ \A x \in DOMAIN sess : x # id => sess2[x] = sess[x]
  OBVIOUS
<1> HIDE DEF new, sess2
<1>3. \A x \in DOMAIN sess2 :
        /\ x \in DOMAIN sess
        /\ sess[x].packets # 0 => sess2[x].packets # 0
        /\ \/ sess2[x].state = sess[x].state
           \/ \E j \in DOMAIN new : new[j].session = x /\ new[j].type \in StateEvents
  BY <1>1, <1>2
<1>4. Fit(log, new, sess, sess2)
  BY <1>1, <1>2, <1>3 DEF Fit
<1> QED
  BY <1>4 DEF new, sess2

----------------------------------------------------------------------------
(* The calls.                                                              *)

\* What a step must show for LogInv, types aside.
Good(log, sess) == Lives(log) /\ Agrees(log, sess)

\* One event of the step, recorded.
LEMMA RecordGood ==
  ASSUME NEW log \in Seq(Event), NEW type \in EventTypes, NEW id \in SessionIDs \cup {NoSession},
         NEW sess, NEW sess2, Good(log, sess),
         Fit(log, <<[type |-> type, session |-> id]>>, sess, sess2)
  PROVE  Good(Record(log, type, id), sess2)
<1>1. <<[type |-> type, session |-> id]>> \in Seq(Event)
  BY DEF Event
<1> QED
  BY <1>1, Recorded DEF Good, Record

\* A call about no session records its event, if any, and says nothing else.
LEMMA NoteGood ==
  ASSUME NEW log \in Seq(Event), NEW type \in EventTypes \ {"reset"}, NEW sess, Good(log, sess)
  PROVE  Good(Record(log, type, NoSession), sess)
<1>1. Fit(log, <<[type |-> type, session |-> NoSession]>>, sess, sess)
  BY NoteFits
<1> QED
  BY <1>1, RecordGood

\* The step of a timeline is recorded by whoever notices it.
LEMMA EventsAtGood ==
  ASSUME LogInv, NEW t
  PROVE  /\ EventsAt(t) \in Seq(Event) /\ Good(EventsAt(t), sessions)
         /\ \A id : id # NoSession /\ Unheard(events, id) => Unheard(EventsAt(t), id)
<1>1. events \in Seq(Event) /\ Good(events, sessions)
  BY DEF LogInv, TypeOK, Good
<1>2. "scenario_timeline_step" \in EventTypes \ {"reset"}
  BY DEF EventTypes
<1>3. CASE StepMoves(t)
  <2>1. EventsAt(t) = Record(events, "scenario_timeline_step", NoSession)
    BY <1>3 DEF EventsAt
  <2> QED
    BY <1>1, <1>2, <2>1, NoteGood, RecordType, UnheardStays
<1>4. CASE ~StepMoves(t)
  BY <1>1, <1>4 DEF EventsAt
<1> QED
  BY <1>3, <1>4

LEMMA SetupGood ==
  ASSUME LogInv, NEW id \in SessionIDs, NEW svc \in Services, NEW raw, SetupAccepted(id, svc, raw)
  PROVE  Good(events', sessions')
<1> DEFINE log == EventsAt(now)
           new == <<[type |-> "session_setup", session |-> id]>>
<1>1. /\ log \in Seq(Event) /\ Good(log, sessions)
      /\ id # NoSession => Unheard(log, id)
  BY EventsAtGood DEF SetupAccepted, IsFresh, Unheard
<1>2. /\ DOMAIN sessions' = DOMAIN sessions \cup {id}
      /\ sessions'[id].state = "setup"
      /\ \A x \in DOMAIN sessions : x # id => sessions'[x] = sessions[x]
      /\ events' = Record(log, "session_setup", id)
  BY DEF SetupAccepted, Live, NewSession
<1> HIDE DEF log
<1>3. Fit(log, new, sessions, sessions')
  <2>1. DOMAIN new = {1} /\ new[1].type = "session_setup" /\ new[1].session = id
    OBVIOUS
  <2> HIDE DEF new
  <2> QED
    BY <1>1, <1>2, <2>1 DEF Fit, StateOf, TerminalEvents
<1>4. "session_setup" \in EventTypes
  BY DEF EventTypes
<1> QED
  BY <1>1, <1>2, <1>3, <1>4, RecordGood

LEMMA RemoveFits ==
  ASSUME NEW gone, NEW new \in Seq(Event), Remove(gone),
         \A j \in DOMAIN new : /\ new[j].type \in TerminalEvents
                              /\ new[j].session \in gone \cap Live,
         \A i, j \in DOMAIN new : i < j => new[i].session # new[j].session
  PROVE  Fit(events, new, sessions, sessions')
<1>1. /\ DOMAIN sessions' = Live \ gone
      /\ \A id \in Live \ gone : sessions'[id] = sessions[id]
  BY DEF Remove
<1> QED
  BY <1>1 DEF Fit, InOrder, TerminalEvents, Live

LEMMA TeardownGood ==
  ASSUME LogInv, NEW id \in SessionIDs, Teardown(id)
  PROVE  Good(events', sessions')
<1> DEFINE new == <<[type |-> "session_closed", session |-> id]>>
<1>1. new \in Seq(Event) /\ "session_closed" \in EventTypes
  BY DEF Event, EventTypes
<1>2. DOMAIN new = {1} /\ new[1].type = "session_closed" /\ new[1].session = id
  OBVIOUS
<1>3. Remove({id}) /\ id \in Live /\ events' = Record(events, "session_closed", id)
  BY DEF Teardown
<1> HIDE DEF new
<1>4. Fit(events, new, sessions, sessions')
  BY <1>1, <1>2, <1>3, RemoveFits DEF TerminalEvents
<1> QED
  BY <1>1, <1>3, <1>4, RecordGood DEF new, LogInv, TypeOK, Good

LEMMA ExpireGood ==
  ASSUME LogInv, NEW t, ExpireSessions(t)
  PROVE  Good(events', sessions')
<1>1. Idle(t) \subseteq Live /\ Live \subseteq SessionIDs
  BY DEF Idle, LogInv, TypeOK
<1>2. Cardinality(Idle(t)) \in Nat
  BY <1>1, RequestAssumption, FS_Subset, FS_CardinalityType
<1>3. PICK order \in [1..Cardinality(Idle(t)) -> Idle(t)] :
        /\ \A i, j \in DOMAIN order : order[i] = order[j] => i = j
        /\ events' = RecordAll(events, [i \in DOMAIN order |->
                       [type |-> "session_timeout", session |-> order[i]]])
  BY DEF ExpireSessions
<1> DEFINE new == [i \in DOMAIN order |->
                     [type |-> "session_timeout", session |-> order[i]]]
<1>4. \A i \in DOMAIN order :
        [type |-> "session_timeout", session |-> order[i]] \in Event
  BY <1>1 DEF Event, EventTypes
<1>5. new \in Seq(Event)
  BY <1>2, <1>4, SeqDef
<1>6. /\ DOMAIN new = DOMAIN order /\ DOMAIN order = 1..Cardinality(Idle(t))
      /\ \A j \in DOMAIN new : /\ new[j].type = "session_timeout"
                              /\ new[j].session = order[j] /\ order[j] \in Idle(t)
  OBVIOUS
<1> HIDE DEF new
<1>7. \A i, j \in DOMAIN new : i < j => new[i].session # new[j].session
  BY <1>2, <1>3, <1>6
<1>8. Fit(events, new, sessions, sessions')
  BY <1>1, <1>5, <1>6, <1>7, RemoveFits DEF ExpireSessions, TerminalEvents
<1> QED
  BY <1>3, <1>5, <1>8, Recorded DEF new, LogInv, TypeOK, Good

\* Replacing one record, with an event that says what it became.
LEMMA UpdateGood ==
  ASSUME LogInv, NEW id \in Live, NEW r, sessions' = [sessions EXCEPT ![id] = r],
         NEW type \in EventTypes,
         type \notin {"reset", "session_setup", "rtp_first_packet_sent", "rtp_packet_progress"},
         type \notin TerminalEvents,
         type \in StateEvents => r.state = StateOf(type),
         type \notin StateEvents => r.state = sessions[id].state,
         r.packets = sessions[id].packets,
         events' = Record(events, type, id)
  PROVE  Good(events', sessions')
<1>1. Fit(events, <<[type |-> type, session |-> id]>>, sessions, sessions')
  BY LiveEventFits DEF Live
<1> QED
  BY <1>1, RecordGood DEF LogInv, TypeOK, Good, Live

LEMMA MovedGood ==
  ASSUME LogInv, NEW id \in SessionIDs, Play(id) \/ Pause(id)
  PROVE  Good(events', sessions')
<1>1. id \in Live /\ TypeOK
  BY MovedSession DEF LogInv
<1>2. PICK r \in SessionRecord :
        /\ sessions' = [sessions EXCEPT ![id] = r]
        /\ \/ Play(id) /\ r.state = "playing"
           \/ Pause(id) /\ r.state = "paused"
        /\ r.packets = sessions[id].packets
  BY <1>1, MovedSession
<1>3. CASE Play(id) /\ r.state = "playing"
  <2>1. events' = Record(events, "play_started", id)
    BY <1>3 DEF Play
  <2> QED
    BY <1>1, <1>2, <1>3, <2>1, UpdateGood DEF EventTypes, TerminalEvents, StateEvents, StateOf
<1>4. CASE Pause(id) /\ r.state = "paused"
  <2>1. events' = Record(events, "play_paused", id)
    BY <1>4 DEF Pause
  <2> QED
    BY <1>1, <1>2, <1>4, <2>1, UpdateGood DEF EventTypes, TerminalEvents, StateEvents, StateOf
<1> QED
  BY <1>2, <1>3, <1>4

LEMMA RtpGood ==
  ASSUME LogInv, NEW id \in SessionIDs, RecordRTPSent(id)
  PROVE  Good(events', sessions')
<1> DEFINE sent  == sessions[id].packets
           f     == [type |-> "rtp_first_packet_sent", session |-> id]
           p     == [type |-> "rtp_packet_progress", session |-> id]
           first == IF sent = 0 THEN <<f>> ELSE <<>>
           progress == IF (sent + 1) % ProgressEvery = 0 THEN <<p>> ELSE <<>>
           new == first \o progress
           r   == [sessions[id] EXCEPT !.packets = @ + 1]
<1>1. /\ id \in Live /\ sessions' = [sessions EXCEPT ![id] = r]
      /\ events' = RecordAll(events, new)
  BY DEF RecordRTPSent
<1>2. sessions[id] \in SessionRecord /\ sent \in Nat
  BY <1>1 DEF LogInv, TypeOK, SessionRecord
<1>3. r.packets # 0 /\ r.state = sessions[id].state
  BY <1>2 DEF SessionRecord
<1>4. /\ f \in Event /\ p \in Event
      /\ f.type = "rtp_first_packet_sent" /\ p.type = "rtp_packet_progress"
      /\ f.session = id /\ p.session = id
  BY DEF Event, EventTypes
<1> HIDE DEF f, p, r
<1>5. /\ first \in Seq(Event) /\ progress \in Seq(Event)
      /\ DOMAIN first \subseteq {1} /\ \A j \in DOMAIN first : first[j] = f /\ sent = 0
      /\ \A j \in DOMAIN progress : progress[j] = p
  <2>1. \A e \in Event : <<e>> \in Seq(Event) /\ DOMAIN <<e>> = {1} /\ <<e>>[1] = e
    OBVIOUS
  <2>2. << >> \in Seq(Event) /\ DOMAIN << >> = {}
    OBVIOUS
  <2>3. first \in Seq(Event) /\ DOMAIN first \subseteq {1} /\ \A j \in DOMAIN first : first[j] = f /\ sent = 0
    BY <1>4, <2>1, <2>2
  <2>4. progress \in Seq(Event) /\ \A j \in DOMAIN progress : progress[j] = p
    BY <1>4, <2>1, <2>2
  <2> QED
    BY <2>3, <2>4
<1> HIDE DEF first, progress, sent
<1>6. /\ new \in Seq(Event) /\ DOMAIN new = 1..(Len(first) + Len(progress))
      /\ \A j \in DOMAIN new : \/ new[j] = f /\ sent = 0 /\ j = 1
                              \/ new[j] = p
  BY <1>5, Elements, ConcatProperties
<1> HIDE DEF new
<1>7. /\ DOMAIN sessions' = DOMAIN sessions /\ sessions'[id] = r
      /\ \A x \in DOMAIN sessions : x # id => sessions'[x] = sessions[x]
  BY <1>1 DEF Live
<1>8. \A i, j \in DOMAIN new : i < j => InOrder(new[i], new[j])
  <2> SUFFICES ASSUME NEW i \in DOMAIN new, NEW j \in DOMAIN new, i < j
               PROVE  InOrder(new[i], new[j])
    OBVIOUS
  <2>1. j # 1
    BY <1>5, <1>6, LenProperties
  <2> QED
    BY <1>4, <1>6, <2>1 DEF InOrder, TerminalEvents
<1>9. Fit(events, new, sessions, sessions')
  BY <1>1, <1>3, <1>4, <1>6, <1>7, <1>8 DEF Fit, TerminalEvents, StateEvents, Live, sent
<1> QED
  BY <1>1, <1>6, <1>9, Recorded DEF LogInv, TypeOK, Good

LEMMA ResetGood ==
  ASSUME LogInv, Reset
  PROVE  Good(events', sessions')
<1> DEFINE new == <<[type |-> "reset", session |-> NoSession]>>
<1>1. DOMAIN new = {1} /\ Len(new) = 1 /\ new[1].session = NoSession
  OBVIOUS
<1>2. DOMAIN sessions' = {} /\ events' = Record(events, "reset", NoSession)
  BY DEF Reset
<1> HIDE DEF new
<1>3. Fit(events, new, sessions, sessions')
  BY <1>1, <1>2 DEF Fit
<1>4. "reset" \in EventTypes
  BY DEF EventTypes
<1> QED
  BY <1>2, <1>3, <1>4, RecordGood DEF new, LogInv, TypeOK, Good

LEMMA LogStep ==
  ASSUME LogInv, [Next]_vars
  PROVE  LogInv'
<1> SUFFICES Good(events', sessions')
  BY TypeStep DEF LogInv, Good
<1>1. /\ Good(events, sessions) /\ events \in Seq(Event) /\ DOMAIN sessions = Live
      /\ \A id \in Live : sessions[id] \in SessionRecord
  BY DEF LogInv, TypeOK, Good, Live
\* Calls about no session.
<1>2. ASSUME NEW log \in Seq(Event), Good(log, sessions), UNCHANGED sessions,
             NEW type \in EventTypes \ {"reset"}, events' = Record(log, type, NoSession)
      PROVE  Good(events', sessions')
  BY <1>2, NoteGood
\* Calls that record nothing.
<1>3. ASSUME UNCHANGED <<events, sessions>> PROVE Good(events', sessions')
  BY <1>1, <1>3
<1>4. ASSUME NEW id \in Live, NEW r, sessions' = [sessions EXCEPT ![id] = r],
             r.state = sessions[id].state, r.packets = sessions[id].packets, UNCHANGED events
      PROVE  Good(events', sessions')
  <2>1. /\ DOMAIN sessions' \subseteq DOMAIN sessions
        /\ \A x \in DOMAIN sessions' : /\ sessions'[x].state = sessions[x].state
                                      /\ sessions'[x].packets = sessions[x].packets
    BY <1>4
  <2> QED
    BY <1>1, <1>4, <2>1, Silent DEF Good
<1>5. CASE Setup
  <2>1. CASE SetupUnmatched
    BY <1>1, <1>2, <2>1 DEF SetupUnmatched, EventTypes
  <2>2. ASSUME NEW svc \in Services, NEW raw \in SetupQueries, SetupRejected(svc, raw)
        PROVE  Good(events', sessions')
    <3>1. \A err : RejectionEvent(err) \in EventTypes \ {"reset"}
      BY DEF RejectionEvent, EventTypes
    <3> QED
      BY <1>2, <2>2, <3>1, EventsAtGood DEF SetupRejected
  <2> QED
    BY <1>5, <2>1, <2>2, SetupGood DEF Setup
<1>6. ASSUME NEW id \in SessionIDs, NEW q \in PIDQueries, UpdatePIDs(id, q)
      PROVE  Good(events', sessions')
  <2>1. CASE UpdateFails(sessions[id].filter, q)
    BY <1>3, <1>6, <2>1 DEF UpdatePIDs
  <2>2. CASE ~UpdateFails(sessions[id].filter, q)
    <3> DEFINE r == [sessions[id] EXCEPT !.filter = UpdatedFilter(@, q), !.updatedAt = now]
    <3>1. /\ id \in Live /\ sessions' = [sessions EXCEPT ![id] = r]
          /\ events' = Record(events, "pids_updated", id)
      BY <1>6, <2>2 DEF UpdatePIDs
    <3>2. r.state = sessions[id].state /\ r.packets = sessions[id].packets
      BY <1>1, <3>1 DEF SessionRecord
    <3> HIDE DEF r
    <3> QED
      BY <3>1, <3>2, UpdateGood DEF EventTypes, StateEvents, TerminalEvents
  <2> QED
    BY <2>1, <2>2
<1>7. ASSUME NEW id \in SessionIDs,
             \/ SessionNotFound(id)
             \/ \E transport \in Transports : SetRTPTransport(id, transport)
             \/ \E t \in Lagged : Touch(id, t)
      PROVE  Good(events', sessions')
  <2>1. CASE SessionNotFound(id)
    BY <1>3, <2>1 DEF SessionNotFound
  <2>2. ASSUME NEW transport \in Transports, SetRTPTransport(id, transport)
        PROVE  Good(events', sessions')
    BY <1>1, <1>4, <2>2 DEF SetRTPTransport, SessionRecord
  <2>3. ASSUME NEW t \in Lagged, Touch(id, t) PROVE Good(events', sessions')
    BY <1>1, <1>4, <2>3 DEF Touch, SessionRecord
  <2> QED
    BY <1>7, <2>1, <2>2, <2>3
<1>8. CASE SessionCall
  BY <1>6, <1>7, <1>8, MovedGood, RtpGood, TeardownGood DEF SessionCall
<1>9. ASSUME NEW t \in Lagged, StatusAt(t) \/ ScenarioAt(t) PROVE Good(events', sessions')
  BY <1>9, EventsAtGood DEF StatusAt, ScenarioAt
<1>10. ASSUME NEW t \in Lagged, NEW r \in ScenarioRequests, SetScenario(r, t)
       PROVE  Good(events', sessions')
  BY <1>2, <1>10, EventsAtGood DEF SetScenario, EventTypes
<1>11. ASSUME NEW t \in Lagged, NEW steps \in TimelineRequests, SetScenarioTimeline(steps, t)
       PROVE  Good(events', sessions')
  BY <1>1, <1>2, <1>11 DEF SetScenarioTimeline, EventTypes
<1>12. ASSUME NEW err, ScenarioRefused(err) PROVE Good(events', sessions')
  BY <1>3, <1>12 DEF ScenarioRefused
<1>13. CASE Tick \/ UNCHANGED vars
  BY <1>3, <1>13 DEF Tick, vars
<1> QED
  BY <1>5, <1>8, <1>9, <1>10, <1>11, <1>12, <1>13, ExpireGood, ResetGood DEF Next, LabCall

LEMMA LogInit == Init => LogInv
<1> SUFFICES ASSUME Init PROVE LogInv
  OBVIOUS
<1>1. events = << >> /\ DOMAIN events = {}
  BY DEF Init
<1> QED
  BY <1>1, TypeInit DEF LogInv, Lives, Agrees

----------------------------------------------------------------------------
(* What follows.                                                           *)

\* The log of one session reads as one life, however many events recordLocked has
\* dropped: setup first, at most one end, the first packet logged once, and nobody
\* heard of again after a reset.
THEOREM EventLifecycleHolds == Spec => []EventLifecycle
<1>1. Init => LogInv
  BY LogInit
<1>2. LogInv /\ [Next]_vars => LogInv'
  BY LogStep
<1>3. LogInv => EventLifecycle
  <2> SUFFICES ASSUME LogInv, NEW i \in DOMAIN events, NEW j \in DOMAIN events, i < j
               PROVE  /\ InOrder(events[i], events[j])
                      /\ events[i].type = "reset" =>
                           \A k \in 1..i : events[k].session # NoSession
                                           => events[k].session # events[j].session
    BY DEF EventLifecycle, InOrder
  <2> QED
    BY DEF LogInv, Lives
<1> QED
  BY <1>1, <1>2, <1>3, PTL DEF Spec

\* A client that polls the events and one that polls the sessions agree: a session the
\* log ended is gone, and the last setup, play or pause it holds of a live session is
\* the state of that session.
THEOREM LogMatchesStateHolds == Spec => []LogMatchesState
<1>1. Init => LogInv
  BY LogInit
<1>2. LogInv /\ [Next]_vars => LogInv'
  BY LogStep
<1>3. LogInv => LogMatchesState
  <2> SUFFICES ASSUME LogInv, NEW i \in DOMAIN events, events[i].session # NoSession
               PROVE  LET id     == events[i].session
                          later  == {j \in DOMAIN events : j > i}
                          ended  == events[i].type \in TerminalEvents
                                      \/ \E j \in later : events[j].type = "reset"
                          latest == \A j \in later :
                                      ~(events[j].session = id /\ events[j].type \in StateEvents)
                      IN  /\ ended => id \notin Live
                          /\ events[i].type \in StateEvents /\ latest /\ id \in Live =>
                               sessions[id].state = StateOf(events[i].type)
    BY DEF LogMatchesState, StateOf
  <2>1. \A j \in DOMAIN events : j > i <=> i < j
    BY LenProperties DEF LogInv, TypeOK
  <2>2. \A j \in DOMAIN events : i < j => i <= j
    BY LenProperties DEF LogInv, TypeOK
  <2> QED
    BY <2>1, <2>2 DEF LogInv, Agrees, Live
<1> QED
  BY <1>1, <1>2, <1>3, PTL DEF Spec
=============================================================================
