-------------------------- MODULE RtspWire_proofs --------------------------
(***************************************************************************)
(* Proofs about one connection as bytes, for any script of a client, any   *)
(* lengths of bodies and frames, and any interleaving with the senders.    *)
(***************************************************************************)
EXTENDS RtspWire, SequenceTheorems, FiniteSetTheorems, TLAPS

(* The invariant.                                                          *)

Token ==
  [is : {"$"}, length : Nat] \cup [is : {"first"}, item : Nat]
    \cup [is : {"header"}, cseq : Nat, length : Nat] \cup [is : {"blank"}]
Statuses == {"200", "400", "404", "454", "455", "461", "500", "501", "503"}
Response == [cseq : Nat, status : Statuses]
Chunk    == [is : {"response"}, cseq : Nat] \cup [is : {"frame"}, sender : Nat]
SenderOf == [at : {"select", "frame", "write", "gone"}, told : BOOLEAN, play : Nat]

WireTypes ==
  /\ profile \in [requireDescribe : BOOLEAN, busy : BOOLEAN]
  /\ script \in Seq(Requests \cup Frames)
  /\ sent \in 0..Len(script) /\ up \in Seq(Token) /\ skip \in Nat
  /\ described \in BOOLEAN /\ live \in BOOLEAN /\ afterWrite \in BOOLEAN
  /\ senders \in Seq(SenderOf) /\ stopCh \in 0..Len(senders)
  /\ wire \in Seq(Chunk) /\ log \in Seq(Response)
  /\ response \in Response \cup {NoResponse}

\* Every answer given, written or not.
Answers == IF response = NoResponse THEN log ELSE Append(log, response)

\* A request is on its way from the first line read to its answer.
Open == buffer # <<>> \/ request # NoRequest

\* What the handler is to make of request i.
AsSent(i) == [method |-> script[i].method, cseq |-> CSeq(i),
              session |-> script[i].session, transport |-> script[i].transport]

\* The server has begun to read the first n items, and is done with all of them but
\* perhaps the last: each is answered once, in order.
Begun(n) ==
  /\ n \in 0..sent
  /\ Len(Answers) = CSeq(n) - (IF Open THEN 1 ELSE 0)
  /\ Open => n \in Asked /\ response = NoResponse
  /\ request # NoRequest => buffer = <<>> /\ request = AsSent(n)
  /\ buffer # <<>> => /\ skip = 0
                      /\ buffer \in {<<Tokens(n)[1]>>, <<Tokens(n)[1], Tokens(n)[2]>>}

\* What is still unread of item n once begun.
Unread(n) == IF buffer = <<>> THEN skip ELSE Len(Tokens(n)) - Len(buffer)

\* From position at[n + 1] on lie the items after item n, item i from position at[i].
Laid(n, at) ==
  /\ at \in [(n + 1)..(sent + 1) -> 1..(Len(up) + 1)]
  /\ at[sent + 1] = Len(up) + 1
  /\ \A i, j \in (n + 1)..(sent + 1) : i <= j => at[i] <= at[j]
  /\ \A i \in (n + 1)..sent :
       /\ at[i + 1] = at[i] + Len(Tokens(i))
       /\ \A j \in 1..Len(Tokens(i)) : up[at[i] + j - 1] = Tokens(i)[j]

\* Before them lies the unread rest of item n.
Lies(n, at) ==
  /\ Laid(n, at)
  /\ Unread(n) = at[n + 1] - 1
  /\ buffer # <<>> => \A j \in 1..Unread(n) : up[j] = Tokens(n)[j + Len(buffer)]

InStep == \E n \in 0..sent : Begun(n) /\ \E at \in [(n + 1)..(sent + 1) -> 1..(Len(up) + 1)] :
                                           Lies(n, at)

Numbered == \A i \in DOMAIN Answers : Answers[i].cseq = i

\* What the answers given say of the connection.
Method(i)    == script[Item(i)].method
Session(i)   == script[Item(i)].session
Done(i)      == Answers[i].status = "200"
EndsIt(i)    == Method(i) = "TEARDOWN" /\ Session(i) = "mine"
AliveAt(i)   == \E j \in 1..i : /\ Method(j) = "SETUP" /\ Done(j)
                                /\ \A k \in j..i : ~EndsIt(k)
Sensible ==
  /\ described => \E j \in DOMAIN Answers : Method(j) = "DESCRIBE"
  /\ live => AliveAt(Len(Answers))
  /\ \A i \in DOMAIN Answers :
       Done(i) =>
         /\ Method(i) \in {"PLAY", "PAUSE", "GET_PARAMETER"} =>
              Session(i) = "mine" /\ AliveAt(i)
         /\ Method(i) = "SETUP" => /\ ~profile.busy
                                   /\ profile.requireDescribe =>
                                        \E j \in 1..(i - 1) : Method(j) = "DESCRIBE"

\* A sender waits for, and was started by, a PLAY answered 200.
Started ==
  /\ afterWrite => /\ buffer = <<>> /\ request = NoRequest
                   /\ Answers # <<>> /\ Answers[Len(Answers)].status = "200"
  /\ \A k \in DOMAIN senders :
       senders[k].play \in DOMAIN log /\ log[senders[k].play].status = "200"
  /\ writer = Responder => response # NoResponse
  /\ \A n \in DOMAIN wire :
       /\ wire[n].is = "frame" => wire[n].sender \in DOMAIN senders
       /\ wire[n].is = "response" => wire[n].cseq \in DOMAIN log

WireInv == /\ WireTypes /\ InStep /\ Numbered /\ Sensible /\ Started /\ FramesFollowPlay

----------------------------------------------------------------------------
(* The items of a script and their tokens.                                 *)

\* Requests are numbered without a gap, in the order of the script.
LEMMA Numbers ==
  ASSUME script \in Seq(Requests \cup Frames)
  PROVE  /\ CSeq(0) = 0
         /\ \A n \in Nat : CSeq(n) \in Nat
         /\ \A n \in Nat : CSeq(n + 1) = CSeq(n) + (IF n + 1 \in Asked THEN 1 ELSE 0)
         /\ \A m, n \in Nat : m <= n => CSeq(m) <= CSeq(n)
         /\ \A i \in Asked : i \in Nat \ {0} /\ CSeq(i) # 0 /\ Item(CSeq(i)) = i
<1> DEFINE Upto(n) == {j \in Asked : j <= n}
<1>1. Asked \subseteq 1..Len(script) /\ Len(script) \in Nat
  BY LenProperties DEF Asked
<1> HIDE DEF Asked
<1>0. \A j \in Asked : j \in Nat \ {0}
  BY <1>1
<1>2. IsFiniteSet(Asked)
  <2>1. IsFiniteSet(1..Len(script))
    BY <1>1, FS_Interval
  <2>2. QED BY <1>1, <2>1, FS_Subset
<1>3. \A n \in Nat : IsFiniteSet(Upto(n)) /\ Cardinality(Upto(n)) \in Nat
  BY <1>2, FS_Subset, FS_CardinalityType
<1>4. \A n : CSeq(n) = Cardinality(Upto(n))
  BY DEF CSeq
<1>5. CSeq(0) = 0
  <2>1. Upto(0) = {}
    BY <1>0
  <2>2. QED BY <1>4, <2>1, FS_EmptySet
<1>6. ASSUME NEW n \in Nat
      PROVE  CSeq(n + 1) = CSeq(n) + (IF n + 1 \in Asked THEN 1 ELSE 0)
  <2>1. n + 1 \in Asked => Upto(n + 1) = Upto(n) \cup {n + 1}
    BY <1>0
  <2>2. n + 1 \notin Asked => Upto(n + 1) = Upto(n)
    BY <1>0
  <2>3. n + 1 \notin Upto(n)
    BY <1>0
  <2> HIDE DEF Upto
  <2>4. Cardinality(Upto(n) \cup {n + 1}) = Cardinality(Upto(n)) + 1
    BY <1>3, <2>3, FS_AddElement
  <2>5. Cardinality(Upto(n)) \in Nat
    BY <1>3
  <2>6. CASE n + 1 \in Asked
    BY <1>4, <2>1, <2>4, <2>5, <2>6
  <2>7. CASE n + 1 \notin Asked
    BY <1>4, <2>2, <2>5, <2>7
  <2>8. QED BY <2>6, <2>7
<1>7. ASSUME NEW m \in Nat, NEW n \in Nat, m <= n PROVE CSeq(m) <= CSeq(n)
  <2>1. Upto(m) \subseteq Upto(n)
    BY <1>0, <1>7
  <2>2. QED BY <1>3, <1>4, <2>1, FS_Subset
<1>8. ASSUME NEW i \in Asked, NEW j \in Asked, i < j PROVE CSeq(i) # CSeq(j)
  <2>1. Upto(i) \subseteq Upto(j) /\ j \notin Upto(i) /\ j \in Upto(j) /\ i \in Nat /\ j \in Nat
    BY <1>0, <1>8
  <2>2. Cardinality(Upto(i)) = Cardinality(Upto(j)) => Upto(i) = Upto(j)
    BY <1>3, <2>1, FS_Subset
  <2>3. QED BY <1>4, <2>1, <2>2
<1>9. ASSUME NEW i \in Asked PROVE i \in Nat \ {0} /\ CSeq(i) # 0 /\ Item(CSeq(i)) = i
  <2>1. i \in Nat \ {0}
    BY <1>0
  <2>2. CSeq(i) # 0
    <3>1. i \in Upto(i)
      BY <2>1
    <3>2. QED BY <1>3, <1>4, <2>1, <3>1, FS_EmptySet
  <2>3. \A j \in Asked : CSeq(j) = CSeq(i) => j = i
    BY <1>0, <1>8
  <2>4. QED BY <2>1, <2>2, <2>3 DEF Item
<1>10. QED BY <1>3, <1>4, <1>5, <1>6, <1>7, <1>9

\* A concatenation, from its operands.
LEMMA Joined ==
  ASSUME NEW S, NEW s \in Seq(S), NEW t \in Seq(S)
  PROVE  /\ s \o t \in Seq(S)
         /\ Len(s) \in Nat /\ Len(t) \in Nat /\ Len(s \o t) = Len(s) + Len(t)
         /\ \A j \in 1..Len(s) : (s \o t)[j] = s[j]
         /\ \A j \in 1..Len(t) : (s \o t)[Len(s) + j] = t[j]
<1>1. /\ s \o t \in Seq(S) /\ Len(s \o t) = Len(s) + Len(t)
      /\ \A j \in 1..(Len(s) + Len(t)) :
           (s \o t)[j] = IF j <= Len(s) THEN s[j] ELSE t[j - Len(s)]
  BY ConcatProperties
<1>2. Len(s) \in Nat /\ Len(t) \in Nat
  BY LenProperties
<1> DEFINE all == s \o t
<1> HIDE DEF all
<1>3. QED BY <1>1, <1>2 DEF all

\* What an item looks like upstream.
LEMMA Upstream ==
  ASSUME script \in Seq(Requests \cup Frames), NEW i \in DOMAIN script
  PROVE  /\ script[i].body \in Nat /\ Tokens(i) \in Seq(Token)
         /\ i \in Asked =>
              /\ script[i] \in Requests
              /\ Len(Tokens(i)) = 3 + script[i].body
              /\ Tokens(i)[1] = [is |-> "first", item |-> i]
              /\ Tokens(i)[2] = [is |-> "header", cseq |-> CSeq(i), length |-> script[i].body]
              /\ Tokens(i)[3] = [is |-> "blank"]
         /\ i \notin Asked =>
              /\ Len(Tokens(i)) = 1 + script[i].body
              /\ Tokens(i)[1] = [is |-> "$", length |-> script[i].body]
<1>1. script[i] \in Requests \cup Frames /\ i \in Nat
  BY LenProperties
<1>2. script[i].body \in Nat
  BY <1>1 DEF Requests, Frames
<1>3. Payload(script[i].body) \in Seq(Token) /\ Len(Payload(script[i].body)) = script[i].body
  BY <1>2 DEF Payload, Token
<1>4. CASE i \in Asked
  <2> DEFINE begin == <<[is |-> "first", item |-> i],
                        [is |-> "header", cseq |-> CSeq(i), length |-> script[i].body],
                        [is |-> "blank"]>>
  <2>1. script[i] \in Requests /\ script[i].kind = "request"
    BY <1>1, <1>4 DEF Asked, Requests, Frames
  <2>2. CSeq(i) \in Nat
    BY <1>1, Numbers
  <2>3. begin \in Seq(Token) /\ Len(begin) = 3
    BY <1>1, <1>2, <2>2 DEF Token
  <2>4. Tokens(i) = begin \o Payload(script[i].body)
    BY <2>1 DEF Tokens
  <2> DEFINE rest == Payload(script[i].body)
  <2>5. rest \in Seq(Token) /\ Len(rest) = script[i].body /\ Tokens(i) = begin \o rest
    BY <1>3, <2>4
  <2> HIDE DEF begin, rest
  <2>6. /\ Tokens(i) \in Seq(Token)
        /\ Len(Tokens(i)) = Len(begin) + Len(rest)
        /\ \A j \in 1..Len(begin) : Tokens(i)[j] = begin[j]
    <3>1. /\ begin \o rest \in Seq(Token)
          /\ Len(begin \o rest) = Len(begin) + Len(rest)
          /\ \A j \in 1..Len(begin) : (begin \o rest)[j] = begin[j]
      <4>1. begin \in Seq(Token) /\ rest \in Seq(Token)
        BY <2>3, <2>5
      <4>2. QED BY <4>1, Joined, Zenon
    <3>2. QED BY <2>5, <3>1
  <2>7. QED BY <1>2, <1>4, <2>1, <2>3, <2>6, <2>5 DEF begin
<1>5. CASE i \notin Asked
  <2> DEFINE begin == <<[is |-> "$", length |-> script[i].body]>>
  <2>1. script[i].kind = "frame"
    BY <1>1, <1>5 DEF Asked, Requests, Frames
  <2>2. begin \in Seq(Token) /\ Len(begin) = 1
    BY <1>2 DEF Token
  <2>3. Tokens(i) = begin \o Payload(script[i].body)
    BY <2>1 DEF Tokens
  <2> DEFINE rest == Payload(script[i].body)
  <2>4. rest \in Seq(Token) /\ Len(rest) = script[i].body /\ Tokens(i) = begin \o rest
    BY <1>3, <2>3
  <2> HIDE DEF begin, rest
  <2>5. /\ Tokens(i) \in Seq(Token)
        /\ Len(Tokens(i)) = 1 + script[i].body
        /\ \A j \in 1..1 : Tokens(i)[j] = begin[j]
    BY <2>2, <2>4, Joined
  <2>6. QED BY <1>2, <1>5, <2>5 DEF begin
<1>6. QED BY <1>4, <1>5

\* The script never changes, nor what is said of it.
LEMMA Same ==
  ASSUME script' = script
  PROVE  /\ Asked' = Asked
         /\ \A i : CSeq(i)' = CSeq(i) /\ Tokens(i)' = Tokens(i) /\ AsSent(i)' = AsSent(i)
         /\ \A c : Item(c)' = Item(c) /\ Method(c)' = Method(c) /\ Session(c)' = Session(c)
<1>1. Asked' = Asked
  BY DEF Asked
<1>2. \A i : CSeq(i)' = CSeq(i)
  BY <1>1 DEF CSeq
<1>3. \A i : Tokens(i)' = Tokens(i)
  BY <1>2 DEF Tokens, Payload
<1>4. \A i : AsSent(i)' = AsSent(i)
  BY <1>2 DEF AsSent
<1>5. \A c : Item(c)' = Item(c)
  BY <1>1, <1>2 DEF Item
<1>6. \A c : Method(c)' = Method(c) /\ Session(c)' = Session(c)
  BY <1>5 DEF Method, Session
<1>7. QED BY <1>1, <1>2, <1>3, <1>4, <1>5, <1>6

----------------------------------------------------------------------------
(* Every request is read as itself.                                        *)

\* A step that neither sends, reads nor answers keeps the server in step.
LEMMA StaysInStep ==
  ASSUME InStep, UNCHANGED <<script, sent, up, buffer, skip, request>>,
         Answers' = Answers, response' = NoResponse \/ response' = response
  PROVE  InStep'
<1>1. PICK n \in 0..sent : Begun(n) /\ \E at \in [(n + 1)..(sent + 1) -> 1..(Len(up) + 1)] :
                                         Lies(n, at)
  BY DEF InStep
<1>2. PICK at \in [(n + 1)..(sent + 1) -> 1..(Len(up) + 1)] : Lies(n, at)
  BY <1>1
<1>3. Begun(n)'
  BY <1>1, Same DEF Begun, Open
<1>4. Lies(n, at)'
  BY <1>2, Same DEF Lies, Laid, Unread
<1>5. QED BY <1>3, <1>4 DEF InStep

\* One token is read: what lies after it moves up by one.
LEMMA Shift ==
  ASSUME WireTypes, UNCHANGED <<script, sent>>, up # <<>>, up' = Tail(up),
         NEW n \in 0..sent, NEW m \in n..sent,
         NEW at, Laid(n, at), at[m + 1] > 1
  PROVE  \E b : Laid(m, b)' /\ b[m + 1] = at[m + 1] - 1
<1>0. PICK b : b = [i \in (m + 1)..(sent + 1) |-> at[i] - 1]
  OBVIOUS
<1>1. sent \in Nat /\ n \in Nat /\ m \in Nat /\ m <= sent /\ n <= m
  BY LenProperties DEF WireTypes
<1>2. /\ Len(up) \in Nat /\ Len(up) # 0 /\ Len(up') = Len(up) - 1
      /\ \A j \in 1..Len(up') : up'[j] = up[j + 1]
  <2>1. up \in Seq(Token)
    BY DEF WireTypes
  <2>2. QED BY <2>1, LenProperties, HeadTailProperties, EmptySeq
<1>3. /\ at \in [(n + 1)..(sent + 1) -> 1..(Len(up) + 1)]
      /\ at[sent + 1] = Len(up) + 1
      /\ \A i, j \in (n + 1)..(sent + 1) : i <= j => at[i] <= at[j]
      /\ \A i \in (n + 1)..sent :
           /\ at[i + 1] = at[i] + Len(Tokens(i))
           /\ \A j \in 1..Len(Tokens(i)) : up[at[i] + j - 1] = Tokens(i)[j]
  BY DEF Laid
<1>4. \A i \in (m + 1)..(sent + 1) : at[i] \in 2..(Len(up) + 1) /\ i \in (n + 1)..(sent + 1)
  <2> SUFFICES ASSUME NEW i \in (m + 1)..(sent + 1)
               PROVE  at[i] \in 2..(Len(up) + 1) /\ i \in (n + 1)..(sent + 1)
    OBVIOUS
  <2>1. i \in (n + 1)..(sent + 1) /\ m + 1 \in (n + 1)..(sent + 1) /\ m + 1 <= i
    BY <1>1
  <2>2. at[m + 1] <= at[i] /\ at[i] \in 1..(Len(up) + 1) /\ at[m + 1] \in 1..(Len(up) + 1)
    BY <1>3, <2>1
  <2>3. QED BY <1>2, <2>1, <2>2
<1>5. b \in [(m + 1)..(sent + 1) -> 1..(Len(up') + 1)]
  BY <1>0, <1>2, <1>4
<1>6. b[sent + 1] = Len(up') + 1
  BY <1>0, <1>1, <1>2, <1>3
<1>7. \A i, j \in (m + 1)..(sent + 1) : i <= j => b[i] <= b[j]
  <2> SUFFICES ASSUME NEW i \in (m + 1)..(sent + 1), NEW j \in (m + 1)..(sent + 1), i <= j
               PROVE  b[i] <= b[j]
    OBVIOUS
  <2>1. at[i] <= at[j] /\ at[i] \in Int /\ at[j] \in Int
    BY <1>2, <1>3, <1>4
  <2>2. QED BY <1>0, <2>1
<1>8. ASSUME NEW i \in (m + 1)..sent
      PROVE  /\ b[i + 1] = b[i] + Len(Tokens(i))
             /\ \A j \in 1..Len(Tokens(i)) : up'[b[i] + j - 1] = Tokens(i)[j]
  <2>1. i \in DOMAIN script /\ i \in (n + 1)..sent
    BY <1>1, LenProperties DEF WireTypes
  <2>2. Len(Tokens(i)) \in Nat
    BY <2>1, Upstream, LenProperties DEF WireTypes
  <2>3. /\ at[i + 1] = at[i] + Len(Tokens(i))
        /\ \A j \in 1..Len(Tokens(i)) : up[at[i] + j - 1] = Tokens(i)[j]
    BY <1>3, <2>1
  <2>4. /\ i \in (m + 1)..(sent + 1) /\ i + 1 \in (m + 1)..(sent + 1)
        /\ at[i] \in 2..(Len(up) + 1) /\ at[i + 1] \in 2..(Len(up) + 1)
    BY <1>1, <1>4
  <2>5. b[i] = at[i] - 1 /\ b[i + 1] = at[i + 1] - 1
    BY <1>0, <2>4
  <2>6. b[i + 1] = b[i] + Len(Tokens(i))
    BY <1>2, <2>2, <2>3, <2>4, <2>5
  <2>7. ASSUME NEW j \in 1..Len(Tokens(i)) PROVE up'[b[i] + j - 1] = Tokens(i)[j]
    <3>1. b[i] + j - 1 \in 1..Len(up') /\ (b[i] + j - 1) + 1 = at[i] + j - 1
      <4>1. at[i] + Len(Tokens(i)) <= Len(up) + 1 /\ at[i] \in 2..(Len(up) + 1)
        BY <2>3, <2>4
      <4>2. j \in Nat /\ 1 <= j /\ j <= Len(Tokens(i))
        BY <2>2
      <4>3. /\ Len(up') = Len(up) - 1 /\ Len(up) \in Nat
            /\ at[i] \in Int /\ at[i] >= 2 /\ b[i] = at[i] - 1
        BY <1>2, <2>5, <4>1
      <4>4. PICK x \in Int, l \in Int, k \in Int :
              x = at[i] /\ l = Len(up) /\ k = j
        <5>1. j \in Int
          BY <4>2
        <5>2. at[i] \in Int
          BY <4>3
        <5>3. Len(up) \in Int
          BY <4>3
        <5>4. QED BY <5>1, <5>2, <5>3, Zenon
      <4>5. /\ x >= 2 /\ k >= 1 /\ x + k <= l + 1
            /\ b[i] = x - 1 /\ Len(up') = l - 1
        BY <2>2, <4>1, <4>2, <4>3, <4>4
      <4>6. x - 1 + k - 1 \in 1..(l - 1) /\ x - 1 + k - 1 + 1 = x + k - 1
        BY <4>5
      <4>7. QED BY <4>4, <4>5, <4>6
    <3>2. QED BY <1>2, <2>3, <3>1
  <2>8. QED BY <2>6, <2>7
<1>9. b[m + 1] = at[m + 1] - 1
  BY <1>0, <1>1
<1>10. Laid(m, b)'
  <2>1. b \in [(m + 1)..(sent' + 1) -> 1..(Len(up') + 1)] /\ b[sent' + 1] = Len(up') + 1
    BY <1>5, <1>6
  <2>2. \A i, j \in (m + 1)..(sent' + 1) : i <= j => b[i] <= b[j]
    BY <1>7
  <2>3. \A i \in (m + 1)..sent' :
          /\ b[i + 1] = b[i] + Len(Tokens(i)')
          /\ \A j \in 1..Len(Tokens(i)') : up'[b[i] + j - 1] = Tokens(i)'[j]
    <3>1. \A i : Tokens(i)' = Tokens(i)
      BY Same
    <3>2. sent' = sent
      OBVIOUS
    <3>3. QED BY <1>8, <3>1, <3>2
  <2>4. QED BY <2>1, <2>2, <2>3 DEF Laid
<1>11. QED BY <1>9, <1>10

\* What a client sends lies after everything it sent before.
LEMMA SendInStep ==
  ASSUME WireTypes, InStep, Send
  PROVE  InStep'
<1>1. PICK n \in 0..sent : Begun(n) /\ \E at \in [(n + 1)..(sent + 1) -> 1..(Len(up) + 1)] :
                                         Lies(n, at)
  BY DEF InStep
<1>2. PICK at \in [(n + 1)..(sent + 1) -> 1..(Len(up) + 1)] : Lies(n, at)
  BY <1>1
<1>3. /\ sent \in Nat /\ n \in Nat /\ n <= sent /\ sent' = sent + 1 /\ script' = script
      /\ sent + 1 \in DOMAIN script
  BY LenProperties DEF WireTypes, Send
<1>4. /\ Len(up) \in Nat /\ Len(Tokens(sent + 1)) \in Nat
      /\ Len(up') = Len(up) + Len(Tokens(sent + 1))
      /\ \A j \in 1..Len(up) : up'[j] = up[j]
      /\ \A j \in 1..Len(Tokens(sent + 1)) : up'[Len(up) + j] = Tokens(sent + 1)[j]
  <2>1. up \in Seq(Token) /\ Tokens(sent + 1) \in Seq(Token) /\ up' = up \o Tokens(sent + 1)
    BY <1>3, Upstream DEF WireTypes, Send
  <2>2. QED BY <2>1, Joined
<1>5. /\ at \in [(n + 1)..(sent + 1) -> 1..(Len(up) + 1)]
      /\ at[sent + 1] = Len(up) + 1
      /\ \A i, j \in (n + 1)..(sent + 1) : i <= j => at[i] <= at[j]
      /\ \A i \in (n + 1)..sent :
           /\ at[i + 1] = at[i] + Len(Tokens(i))
           /\ \A j \in 1..Len(Tokens(i)) : up[at[i] + j - 1] = Tokens(i)[j]
  BY <1>2 DEF Lies, Laid
<1>6. PICK b : b = [i \in (n + 1)..(sent + 2) |-> IF i <= sent + 1 THEN at[i] ELSE Len(up') + 1]
  OBVIOUS
<1>7. /\ b \in [(n + 1)..(sent + 2) -> 1..(Len(up') + 1)]
      /\ b[sent + 2] = Len(up') + 1
      /\ \A i \in (n + 1)..(sent + 1) : b[i] = at[i]
  <2>1. ASSUME NEW i \in (n + 1)..(sent + 1)
        PROVE  /\ i \in (n + 1)..(sent + 2) /\ b[i] = at[i]
               /\ at[i] \in 1..(Len(up) + 1) /\ at[i] \in 1..(Len(up') + 1)
    <3>1. i \in (n + 1)..(sent + 2) /\ i <= sent + 1
      BY <1>3
    <3>2. at[i] \in 1..(Len(up) + 1)
      BY <1>5
    <3>3. at[i] \in 1..(Len(up') + 1)
      BY <1>4, <3>2
    <3>4. QED BY <1>6, <3>1, <3>2, <3>3
  <2>2. sent + 2 \in (n + 1)..(sent + 2) /\ b[sent + 2] = Len(up') + 1
    BY <1>3, <1>6
  <2>3. \A i \in (n + 1)..(sent + 2) : i = sent + 2 \/ i \in (n + 1)..(sent + 1)
    BY <1>3
  <2>4. Len(up') + 1 \in 1..(Len(up') + 1)
    BY <1>4
  <2>5. \A i \in (n + 1)..(sent + 2) : b[i] \in 1..(Len(up') + 1)
    BY <2>1, <2>2, <2>3, <2>4
  <2>6. b \in [(n + 1)..(sent + 2) -> 1..(Len(up') + 1)]
    BY <1>6, <2>5
  <2>7. QED BY <2>1, <2>2, <2>6
<1>8. \A i, j \in (n + 1)..(sent + 2) : i <= j => b[i] <= b[j]
  <2> SUFFICES ASSUME NEW i \in (n + 1)..(sent + 2), NEW j \in (n + 1)..(sent + 2), i <= j
               PROVE  b[i] <= b[j]
    OBVIOUS
  <2>1. CASE j = sent + 2
    <3>1. b[i] \in 1..(Len(up') + 1) /\ b[j] = Len(up') + 1
      BY <1>7, <2>1
    <3>2. QED BY <1>4, <3>1
  <2>2. CASE j # sent + 2
    <3>1. i \in (n + 1)..(sent + 1) /\ j \in (n + 1)..(sent + 1)
      BY <1>3, <2>2
    <3>2. QED BY <1>5, <1>7, <3>1
  <2>3. QED BY <2>1, <2>2
<1>9. ASSUME NEW i \in (n + 1)..(sent + 1)
      PROVE  /\ b[i + 1] = b[i] + Len(Tokens(i))
             /\ \A j \in 1..Len(Tokens(i)) : up'[b[i] + j - 1] = Tokens(i)[j]
  <2>1. CASE i = sent + 1
    <3>1. b[i] = Len(up) + 1 /\ b[i + 1] = Len(up') + 1
      BY <1>3, <1>5, <1>7, <2>1
    <3>2. ASSUME NEW j \in 1..Len(Tokens(i)) PROVE up'[b[i] + j - 1] = Tokens(i)[j]
      <4>1. b[i] + j - 1 = Len(up) + j
        BY <1>4, <2>1, <3>1
      <4>2. QED BY <1>4, <2>1, <4>1
    <3>3. QED BY <1>4, <2>1, <3>1, <3>2
  <2>2. CASE i # sent + 1
    <3>1. /\ i \in (n + 1)..sent /\ i \in DOMAIN script
          /\ i \in (n + 1)..(sent + 1) /\ i + 1 \in (n + 1)..(sent + 1)
      <4>1. sent \in 0..Len(script) /\ DOMAIN script = 1..Len(script) /\ Len(script) \in Nat
        BY LenProperties DEF WireTypes
      <4>2. i \in (n + 1)..sent
        BY <1>3, <2>2
      <4>3. QED BY <1>3, <4>1, <4>2
    <3>2. Len(Tokens(i)) \in Nat
      BY <3>1, Upstream, LenProperties DEF WireTypes
    <3>3. b[i] = at[i] /\ b[i + 1] = at[i + 1] /\ at[i + 1] = at[i] + Len(Tokens(i))
      BY <1>5, <1>7, <3>1
    <3>4. at[i] \in 1..(Len(up) + 1) /\ at[i + 1] \in 1..(Len(up) + 1)
      BY <1>5, <3>1
    <3>5. ASSUME NEW j \in 1..Len(Tokens(i)) PROVE up'[b[i] + j - 1] = Tokens(i)[j]
      <4>1. at[i] \in Nat /\ 1 <= at[i] /\ at[i] + Len(Tokens(i)) <= Len(up) + 1
        BY <3>3, <3>4, <1>4
      <4>2. j \in Nat /\ 1 <= j /\ j <= Len(Tokens(i))
        BY <3>2
      <4>3. at[i] + j - 1 \in 1..Len(up)
        BY <1>4, <3>2, <4>1, <4>2
      <4>4. QED BY <1>4, <1>5, <3>1, <3>3, <4>3
    <3>6. QED BY <3>3, <3>5
  <2>3. QED BY <2>1, <2>2
<1>10. Laid(n, b)'
  <2>1. sent' + 1 = sent + 2
    BY <1>3
  <2>2. b \in [(n + 1)..(sent' + 1) -> 1..(Len(up') + 1)] /\ b[sent' + 1] = Len(up') + 1
    BY <1>7, <2>1
  <2>3. \A i, j \in (n + 1)..(sent' + 1) : i <= j => b[i] <= b[j]
    BY <1>8, <2>1
  <2>4. \A i \in (n + 1)..sent' :
          /\ b[i + 1] = b[i] + Len(Tokens(i)')
          /\ \A j \in 1..Len(Tokens(i)') : up'[b[i] + j - 1] = Tokens(i)'[j]
    BY <1>3, <1>9, Same
  <2>5. QED BY <2>2, <2>3, <2>4 DEF Laid
<1>11. /\ buffer' = buffer /\ skip' = skip /\ request' = request /\ response' = response
       /\ log' = log /\ Unread(n)' = Unread(n) /\ Answers' = Answers /\ Open' = Open
  BY <1>3, Same DEF Send, readVars, outVars, Unread, Answers, Open
<1>12. Begun(n)'
  BY <1>1, <1>3, <1>11, Same DEF Begun
<1>13. Unread(n) = at[n + 1] - 1 /\ b[n + 1] = at[n + 1] /\ at[n + 1] \in 1..(Len(up) + 1)
  BY <1>2, <1>3, <1>5, <1>7 DEF Lies
<1>14. Lies(n, b)'
  <2>1. Unread(n) \in Int /\ Unread(n) <= Len(up)
    BY <1>4, <1>13
  <2>2. buffer # <<>> => \A j \in 1..Unread(n) : up'[j] = Tokens(n)'[j + Len(buffer)]
    BY <1>2, <1>3, <1>4, <2>1, Same DEF Lies
  <2>3. QED BY <1>10, <1>11, <1>13, <2>2 DEF Lies
<1>15. n \in 0..sent' /\ b \in [(n + 1)..(sent' + 1) -> 1..(Len(up') + 1)]
  <2>1. sent' + 1 = sent + 2
    BY <1>3
  <2>2. QED BY <1>3, <1>7, <2>1
<1>16. QED BY <1>12, <1>14, <1>15 DEF InStep

\* A byte of a frame or of a body is dropped.
LEMMA DiscardInStep ==
  ASSUME WireTypes, InStep, Discard
  PROVE  InStep'
<1>1. PICK n \in 0..sent : Begun(n) /\ \E at \in [(n + 1)..(sent + 1) -> 1..(Len(up) + 1)] :
                                         Lies(n, at)
  BY DEF InStep
<1>2. PICK at \in [(n + 1)..(sent + 1) -> 1..(Len(up) + 1)] : Lies(n, at)
  BY <1>1
<1>3. /\ up # <<>> /\ up' = Tail(up) /\ skip' = skip - 1 /\ skip \in Nat /\ skip > 0
      /\ UNCHANGED <<script, sent, buffer, request, response, log>>
  BY DEF WireTypes, Discard, outVars
<1>4. buffer = <<>> /\ Unread(n) = skip /\ Unread(n)' = skip'
  BY <1>1, <1>3 DEF Begun, Unread
<1>5. at[n + 1] = skip + 1 /\ sent \in Nat /\ n \in n..sent
  <2>1. sent \in Nat
    BY LenProperties DEF WireTypes
  <2>2. at[n + 1] \in Int
    BY <2>1, LenProperties DEF WireTypes
  <2>3. Unread(n) = at[n + 1] - 1
    BY <1>2 DEF Lies
  <2>4. QED BY <1>4, <2>1, <2>2, <2>3
<1>6. PICK b : Laid(n, b)' /\ b[n + 1] = at[n + 1] - 1
  <2>1. Laid(n, at) /\ at[n + 1] > 1
    BY <1>2, <1>3, <1>5 DEF Lies
  <2>2. up # <<>> /\ up' = Tail(up) /\ UNCHANGED <<script, sent>> /\ n \in n..sent
    BY <1>3, <1>5
  <2>3. QED BY <2>1, <2>2, Shift
<1>7. Lies(n, b)'
  <2>1. Unread(n)' = b[n + 1] - 1
    BY <1>3, <1>4, <1>5, <1>6
  <2>2. QED BY <1>3, <1>4, <1>6, <2>1 DEF Lies
<1>8. Begun(n)'
  <2>1. Answers' = Answers /\ Open' = Open
    BY <1>3 DEF Answers, Open
  <2>2. QED BY <1>1, <1>3, <1>4, <2>1, Same DEF Begun
<1>9. n \in 0..sent' /\ b \in [(n + 1)..(sent' + 1) -> 1..(Len(up') + 1)]
  BY <1>3, <1>7 DEF Lies, Laid
<1>10. QED BY <1>7, <1>8, <1>9 DEF InStep

\* No item is empty upstream, and a request has three tokens at least.
LEMMA Lengths ==
  ASSUME WireTypes, NEW i \in DOMAIN script
  PROVE  /\ Tokens(i) \in Seq(Token) /\ Len(Tokens(i)) \in Nat /\ Len(Tokens(i)) > 0
         /\ i \in Asked => Len(Tokens(i)) >= 3
<1>1. script \in Seq(Requests \cup Frames)
  BY DEF WireTypes
<1>2. Tokens(i) \in Seq(Token) /\ script[i].body \in Nat
  BY <1>1, Upstream
<1>3. /\ i \in Asked => Len(Tokens(i)) = 3 + script[i].body
      /\ i \notin Asked => Len(Tokens(i)) = 1 + script[i].body
  BY <1>1, Upstream
<1>4. QED BY <1>2, <1>3

\* What the server is about to read where a line or a frame begins: the next line of the
\* request being read, else the first token of the next item.
LEMMA AtLine ==
  ASSUME WireTypes, Reading, skip = 0, NEW n \in 0..sent, Begun(n),
         NEW at \in [(n + 1)..(sent + 1) -> 1..(Len(up) + 1)], Lies(n, at)
  PROVE  /\ up \in Seq(Token) /\ up # <<>> /\ Len(up) \in Nat \ {0} /\ Head(up) = up[1]
         /\ sent \in Nat /\ n \in Nat /\ at[n + 1] \in Nat
         /\ request = NoRequest /\ response = NoResponse
         /\ buffer = <<>> =>
              /\ ~Open /\ at[n + 1] = 1
              /\ n + 1 \in (n + 1)..sent /\ n + 1 \in DOMAIN script
              /\ at[n + 2] = 1 + Len(Tokens(n + 1))
              /\ Head(up) = Tokens(n + 1)[1]
              /\ \A j \in 1..Len(Tokens(n + 1)) : up[j] = Tokens(n + 1)[j]
         /\ buffer # <<>> =>
              /\ Open /\ n \in Asked /\ n \in DOMAIN script
              /\ \/ Len(buffer) = 1 /\ buffer = <<Tokens(n)[1]>>
                 \/ Len(buffer) = 2 /\ buffer = <<Tokens(n)[1], Tokens(n)[2]>>
              /\ Unread(n) = Len(Tokens(n)) - Len(buffer) /\ at[n + 1] = Unread(n) + 1
              /\ Unread(n) > 0 /\ Unread(n) \in Nat
              /\ Head(up) = Tokens(n)[1 + Len(buffer)]
              /\ \A j \in 1..Unread(n) : up[j] = Tokens(n)[j + Len(buffer)]
<1>1. request = NoRequest /\ response = NoResponse /\ up # <<>> /\ up \in Seq(Token)
  BY DEF Reading, WireTypes
<1>2. Len(up) \in Nat \ {0} /\ Head(up) = up[1]
  BY <1>1, LenProperties, HeadTailProperties, EmptySeq
<1>3. sent \in Nat /\ n \in Nat /\ n <= sent /\ sent <= Len(script) /\ DOMAIN script = 1..Len(script)
      /\ Len(script) \in Nat
  BY LenProperties DEF WireTypes
<1>4. n + 1 \in (n + 1)..(sent + 1) /\ at[n + 1] \in 1..(Len(up) + 1) /\ at[n + 1] \in Nat
  BY <1>2, <1>3
<1>5. Unread(n) = at[n + 1] - 1 /\ at[sent + 1] = Len(up) + 1
  BY DEF Lies, Laid
<1>6. ASSUME buffer = <<>>
      PROVE  /\ ~Open /\ at[n + 1] = 1
             /\ n + 1 \in (n + 1)..sent /\ n + 1 \in DOMAIN script
             /\ at[n + 2] = 1 + Len(Tokens(n + 1))
             /\ Head(up) = Tokens(n + 1)[1]
             /\ \A j \in 1..Len(Tokens(n + 1)) : up[j] = Tokens(n + 1)[j]
  <2>1. ~Open
    BY <1>1, <1>6 DEF Open
  <2>2. at[n + 1] = 1
    BY <1>4, <1>5, <1>6 DEF Unread
  <2>3. n # sent
    BY <1>2, <1>5, <2>2
  <2>4. n + 1 \in (n + 1)..sent /\ n + 1 \in DOMAIN script
    BY <1>3, <2>3
  <2>5. /\ at[n + 1 + 1] = at[n + 1] + Len(Tokens(n + 1))
        /\ \A j \in 1..Len(Tokens(n + 1)) : up[at[n + 1] + j - 1] = Tokens(n + 1)[j]
    BY <2>4 DEF Lies, Laid
  <2>6. n + 1 + 1 = n + 2
    BY <1>3
  <2>7. Tokens(n + 1) \in Seq(Token) /\ Len(Tokens(n + 1)) \in Nat /\ Len(Tokens(n + 1)) > 0
    <3>1. PICK k \in DOMAIN script : k = n + 1
      BY <2>4
    <3>2. QED BY <3>1, Lengths
  <2>8. \A j \in 1..Len(Tokens(n + 1)) : up[j] = Tokens(n + 1)[j]
    <3>1. \A j \in 1..Len(Tokens(n + 1)) : 1 + j - 1 = j
      BY <2>7
    <3>2. QED BY <2>2, <2>5, <3>1
  <2>9. up[1] = Tokens(n + 1)[1]
    BY <2>7, <2>8
  <2>10. QED BY <1>2, <2>1, <2>2, <2>4, <2>5, <2>6, <2>8, <2>9
<1>7. ASSUME buffer # <<>>
      PROVE  /\ Open /\ n \in Asked /\ n \in DOMAIN script
             /\ \/ Len(buffer) = 1 /\ buffer = <<Tokens(n)[1]>>
                \/ Len(buffer) = 2 /\ buffer = <<Tokens(n)[1], Tokens(n)[2]>>
             /\ Unread(n) = Len(Tokens(n)) - Len(buffer) /\ at[n + 1] = Unread(n) + 1
             /\ Unread(n) > 0 /\ Unread(n) \in Nat
             /\ Head(up) = Tokens(n)[1 + Len(buffer)]
             /\ \A j \in 1..Unread(n) : up[j] = Tokens(n)[j + Len(buffer)]
  <2>1. Open /\ n \in Asked /\ n \in DOMAIN script
    BY <1>7 DEF Begun, Open, Asked
  <2>2. Tokens(n) \in Seq(Token) /\ Len(Tokens(n)) \in Nat /\ Len(Tokens(n)) >= 3
    BY <2>1, Lengths
  <2>3. buffer \in {<<Tokens(n)[1]>>, <<Tokens(n)[1], Tokens(n)[2]>>}
    BY <1>7 DEF Begun
  <2>5. \/ Len(buffer) = 1 /\ buffer = <<Tokens(n)[1]>>
        \/ Len(buffer) = 2 /\ buffer = <<Tokens(n)[1], Tokens(n)[2]>>
    BY <2>3
  <2>6. Unread(n) = Len(Tokens(n)) - Len(buffer)
    BY <1>7 DEF Unread
  <2>7. Unread(n) > 0 /\ Unread(n) \in Nat
    <3>1. CASE Len(buffer) = 1
      BY <2>2, <2>6, <3>1
    <3>2. CASE Len(buffer) = 2
      BY <2>2, <2>6, <3>2
    <3>3. QED BY <2>5, <3>1, <3>2
  <2>8. \A j \in 1..Unread(n) : up[j] = Tokens(n)[j + Len(buffer)]
    BY <1>7 DEF Lies
  <2>9. up[1] = Tokens(n)[1 + Len(buffer)]
    BY <2>7, <2>8
  <2>10. QED BY <1>2, <1>4, <1>5, <2>1, <2>5, <2>6, <2>7, <2>8, <2>9
<1>8. QED BY <1>1, <1>2, <1>3, <1>4, <1>6, <1>7

\* A frame is taken off as a whole, and only where an item begins.
LEMMA SkipFrameInStep ==
  ASSUME WireTypes, InStep, SkipFrame
  PROVE  InStep' /\ skip' \in Nat
<1>1. PICK n \in 0..sent : Begun(n) /\ \E at \in [(n + 1)..(sent + 1) -> 1..(Len(up) + 1)] :
                                         Lies(n, at)
  BY DEF InStep
<1>2. PICK at \in [(n + 1)..(sent + 1) -> 1..(Len(up) + 1)] : Lies(n, at)
  BY <1>1
<1>3. /\ Reading /\ skip = 0 /\ Head(up).is = "$" /\ up' = Tail(up)
      /\ skip' = Head(up).length /\ script \in Seq(Requests \cup Frames)
      /\ UNCHANGED <<script, sent, buffer, request, response, log>>
  BY DEF SkipFrame, FrameLength, outVars, WireTypes
<1>4. buffer = <<>>
  <2> SUFFICES ASSUME buffer # <<>> PROVE FALSE
    OBVIOUS
  <2>1. /\ n \in Asked /\ n \in DOMAIN script /\ (Len(buffer) = 1 \/ Len(buffer) = 2)
        /\ Head(up) = Tokens(n)[1 + Len(buffer)]
    BY <1>1, <1>2, <1>3, AtLine
  <2>2. 1 + Len(buffer) = 2 \/ 1 + Len(buffer) = 3
    <3>1. Len(buffer) = 1 \/ Len(buffer) = 2
      BY <2>1
    <3>2. CASE Len(buffer) = 1
      BY <3>2
    <3>3. CASE Len(buffer) = 2
      BY <3>3
    <3>4. QED BY <3>1, <3>2, <3>3
  <2>3. Head(up) = Tokens(n)[2] \/ Head(up) = Tokens(n)[3]
    BY <2>1, <2>2
  <2>4. Tokens(n)[2].is = "header" /\ Tokens(n)[3].is = "blank"
    <3>1. /\ Tokens(n)[2] = [is |-> "header", cseq |-> CSeq(n), length |-> script[n].body]
          /\ Tokens(n)[3] = [is |-> "blank"]
      BY <1>3, <2>1, Upstream
    <3>2. QED BY <3>1
  <2>5. QED BY <1>3, <2>3, <2>4
<1>5. PICK k \in Nat : k = n + 1
  BY LenProperties DEF WireTypes
<1>6. /\ ~Open /\ at[k] = 1 /\ k \in (n + 1)..sent /\ k \in DOMAIN script
      /\ at[k + 1] = 1 + Len(Tokens(k)) /\ Head(up) = Tokens(k)[1]
      /\ up # <<>> /\ n \in Nat /\ sent \in Nat /\ k + 1 = n + 2
  <2>1. /\ ~Open /\ at[n + 1] = 1 /\ n + 1 \in (n + 1)..sent /\ n + 1 \in DOMAIN script
        /\ at[n + 2] = 1 + Len(Tokens(n + 1)) /\ Head(up) = Tokens(n + 1)[1]
        /\ up # <<>> /\ n \in Nat /\ sent \in Nat
    BY <1>1, <1>2, <1>3, <1>4, AtLine
  <2>2. k + 1 = n + 2
    BY <1>5, <2>1
  <2>3. QED BY <1>5, <2>1, <2>2
<1>7. k \notin Asked
  <2>1. k \in Asked => Tokens(k)[1] = [is |-> "first", item |-> k]
    BY <1>3, <1>6, Upstream
  <2>2. QED BY <1>3, <1>6, <2>1
<1>8. /\ skip' = script[k].body /\ script[k].body \in Nat
      /\ Len(Tokens(k)) = 1 + script[k].body
  <2>1. /\ script[k].body \in Nat /\ Len(Tokens(k)) = 1 + script[k].body
        /\ Tokens(k)[1] = [is |-> "$", length |-> script[k].body]
    BY <1>3, <1>6, <1>7, Upstream
  <2>2. Head(up) = [is |-> "$", length |-> script[k].body]
    BY <1>6, <2>1
  <2>3. Head(up).length = script[k].body
    BY <2>2
  <2>4. QED BY <1>3, <2>1, <2>3
<1>9. PICK b : Laid(k, b)' /\ b[k + 1] = at[k + 1] - 1
  <2>1. k \in n..sent
    BY <1>5, <1>6
  <2>2. at[k + 1] > 1
    <3>1. PICK body \in Nat : body = script[k].body
      BY <1>8
    <3>2. at[k + 1] = 1 + (1 + body)
      BY <1>6, <1>8, <3>1
    <3>3. QED BY <3>2
  <2>3. Laid(n, at)
    BY <1>2 DEF Lies
  <2>4. up # <<>> /\ up' = Tail(up) /\ UNCHANGED <<script, sent>>
    BY <1>3, <1>6
  <2>5. QED BY <2>1, <2>2, <2>3, <2>4, Shift
<1>10. Lies(k, b)'
  <2>1. Unread(k)' = skip'
    BY <1>3, <1>4 DEF Unread
  <2>2. Unread(k)' = b[k + 1] - 1
    <3>1. b[k + 1] = (1 + (1 + script[k].body)) - 1
      BY <1>6, <1>8, <1>9
    <3>2. QED BY <1>8, <2>1, <3>1
  <2>3. QED BY <1>3, <1>4, <1>9, <2>2 DEF Lies
<1>11. Begun(k)'
  <2>1. Answers' = Answers /\ Open' = Open /\ request = NoRequest
    BY <1>3 DEF Answers, Open, Reading
  <2>2. CSeq(n) \in Nat /\ CSeq(k) = CSeq(n)
    <3>1. CSeq(n) \in Nat /\ CSeq(n + 1) = CSeq(n) + (IF n + 1 \in Asked THEN 1 ELSE 0)
      BY <1>3, <1>6, Numbers
    <3>2. QED BY <1>5, <1>7, <3>1
  <2>3. Len(Answers) = CSeq(k) - 0
    BY <1>1, <1>6, <2>2 DEF Begun
  <2>4. k \in 0..sent
    BY <1>6
  <2>5. QED BY <1>3, <1>4, <1>6, <2>1, <2>3, <2>4, Same DEF Begun
<1>12. k \in 0..sent' /\ b \in [(k + 1)..(sent' + 1) -> 1..(Len(up') + 1)]
  BY <1>3, <1>6, <1>9 DEF Laid
<1>13. QED BY <1>8, <1>10, <1>11, <1>12 DEF InStep

LEMMA Longer ==
  \A x, y, z : Append(<<x>>, y) = <<x, y>> /\ Append(<<x, y>>, z) = <<x, y, z>>
<1> SUFFICES ASSUME NEW x, NEW y, NEW z
             PROVE  Append(<<x>>, y) = <<x, y>> /\ Append(<<x, y>>, z) = <<x, y, z>>
  OBVIOUS
<1> DEFINE S == {x, y, z}
<1>1. Append(<<x>>, y) = <<x, y>>
  <2>1. <<x>> \in Seq(S) /\ y \in S /\ <<x, y>> \in Seq(S)
    OBVIOUS
  <2>2. /\ Append(<<x>>, y) \in Seq(S) /\ Len(Append(<<x>>, y)) = 2
        /\ Append(<<x>>, y)[1] = x /\ Append(<<x>>, y)[2] = y
    BY <2>1, AppendProperties
  <2> HIDE DEF S
  <2>3. PICK a : a = Append(<<x>>, y)
    OBVIOUS
  <2>4. PICK c : c = <<x, y>>
    OBVIOUS
  <2>5. a \in Seq(S) /\ c \in Seq(S) /\ Len(a) = 2 /\ Len(c) = 2
    BY <2>1, <2>2, <2>3, <2>4
  <2>6. \A i \in 1..Len(a) : a[i] = c[i]
    BY <2>2, <2>3, <2>4, <2>5
  <2>7. a = c
    BY <2>5, <2>6, SeqEqual
  <2>8. QED BY <2>3, <2>4, <2>7
<1>2. Append(<<x, y>>, z) = <<x, y, z>>
  <2>1. <<x, y>> \in Seq(S) /\ z \in S /\ <<x, y, z>> \in Seq(S)
    OBVIOUS
  <2>2. /\ Append(<<x, y>>, z) \in Seq(S) /\ Len(Append(<<x, y>>, z)) = 3
        /\ Append(<<x, y>>, z)[1] = x /\ Append(<<x, y>>, z)[2] = y
        /\ Append(<<x, y>>, z)[3] = z
    BY <2>1, AppendProperties
  <2> HIDE DEF S
  <2>3. PICK a : a = Append(<<x, y>>, z)
    OBVIOUS
  <2>4. PICK c : c = <<x, y, z>>
    OBVIOUS
  <2>5. a \in Seq(S) /\ c \in Seq(S) /\ Len(a) = 3 /\ Len(c) = 3
    BY <2>1, <2>2, <2>3, <2>4
  <2>6. \A i \in 1..Len(a) : a[i] = c[i]
    BY <2>2, <2>3, <2>4, <2>5
  <2>7. a = c
    BY <2>5, <2>6, SeqEqual
  <2>8. QED BY <2>3, <2>4, <2>7
<1>3. QED BY <1>1, <1>2

\* A line is read: of a request that goes on, or the first of the next; the blank line
\* after the headers makes it the request the client sent.
LEMMA ReadLineInStep ==
  ASSUME WireTypes, InStep, ReadLine
  PROVE  InStep' /\ skip' \in Nat
<1>1. PICK n \in 0..sent : Begun(n) /\ \E at \in [(n + 1)..(sent + 1) -> 1..(Len(up) + 1)] :
                                         Lies(n, at)
  BY DEF InStep
<1>2. PICK at \in [(n + 1)..(sent + 1) -> 1..(Len(up) + 1)] : Lies(n, at)
  BY <1>1
<1>3. /\ Reading /\ skip = 0 /\ Head(up).is # "$" /\ up' = Tail(up)
      /\ script \in Seq(Requests \cup Frames)
      /\ UNCHANGED <<script, sent, response, log>>
  BY DEF ReadLine, outVars, WireTypes
<1> DEFINE lines == Append(buffer, Head(up))
<1>4. /\ Head(up).is = "blank" /\ Len(lines) > 1 =>
           buffer' = <<>> /\ skip' = ContentLength(lines) /\ request' = Parsed(lines)
      /\ ~(Head(up).is = "blank" /\ Len(lines) > 1) =>
           buffer' = lines /\ skip' = skip /\ request' = request
  BY DEF ReadLine
<1> HIDE DEF lines
<1>5. /\ request = NoRequest /\ response = NoResponse /\ Answers' = Answers /\ response' = NoResponse
      /\ sent \in Nat /\ n \in Nat /\ up # <<>> /\ at[n + 1] \in Nat
  BY <1>1, <1>2, <1>3, AtLine DEF Answers
<1>6. CASE buffer = <<>>
  <2>1. PICK k \in Nat : k = n + 1
    BY <1>5
  <2>2. /\ ~Open /\ at[k] = 1 /\ k \in (n + 1)..sent /\ k \in DOMAIN script
        /\ at[k + 1] = 1 + Len(Tokens(k)) /\ Head(up) = Tokens(k)[1] /\ k + 1 = n + 2
        /\ \A j \in 1..Len(Tokens(k)) : up[j] = Tokens(k)[j]
    <3>1. /\ ~Open /\ at[n + 1] = 1 /\ n + 1 \in (n + 1)..sent /\ n + 1 \in DOMAIN script
          /\ at[n + 2] = 1 + Len(Tokens(n + 1)) /\ Head(up) = Tokens(n + 1)[1]
          /\ \A j \in 1..Len(Tokens(n + 1)) : up[j] = Tokens(n + 1)[j]
      BY <1>1, <1>2, <1>3, <1>6, AtLine
    <3>2. k + 1 = n + 2
      BY <1>5, <2>1
    <3>3. QED BY <2>1, <3>1, <3>2
  <2>3. k \in Asked
    <3>1. k \notin Asked => Tokens(k)[1] = [is |-> "$", length |-> script[k].body]
      BY <1>3, <2>2, Upstream
    <3>2. QED BY <1>3, <2>2, <3>1
  <2>4. Head(up) = [is |-> "first", item |-> k]
    BY <1>3, <2>2, <2>3, Upstream
  <2>5. Head(up).is # "blank"
    BY <2>4
  <2>6. lines = <<Tokens(k)[1]>>
    BY <1>6, <2>2 DEF lines
  <2>7. buffer' = <<Tokens(k)[1]>> /\ skip' = 0 /\ request' = NoRequest
    BY <1>3, <1>4, <1>5, <2>5, <2>6
  <2>8. Len(Tokens(k)) \in Nat /\ Len(Tokens(k)) >= 3
    BY <2>2, <2>3, Lengths
  <2>9. PICK b : Laid(k, b)' /\ b[k + 1] = at[k + 1] - 1
    <3>1. k \in n..sent
      BY <1>5, <2>1, <2>2
    <3>2. at[k + 1] > 1
      BY <2>2, <2>8
    <3>3. Laid(n, at)
      BY <1>2 DEF Lies
    <3>4. up # <<>> /\ up' = Tail(up) /\ UNCHANGED <<script, sent>>
      BY <1>3, <1>5
    <3>5. QED BY <3>1, <3>2, <3>3, <3>4, Shift
  <2>10. buffer' # <<>> /\ Len(buffer') = 1
    BY <2>7
  <2>11. Unread(k)' = Len(Tokens(k)) - 1
    <3>1. Unread(k)' = Len(Tokens(k)') - Len(buffer')
      BY <2>10 DEF Unread
    <3>2. QED BY <1>3, <2>10, <3>1, Same
  <2>12. Unread(k)' = b[k + 1] - 1
    BY <2>2, <2>8, <2>9, <2>11
  <2>13. ASSUME NEW j \in 1..(Len(Tokens(k)) - 1) PROVE up'[j] = Tokens(k)[j + 1]
    <3>1. j + 1 \in 1..Len(Tokens(k))
      BY <2>8
    <3>2. j \in 1..Len(up')
      <4>1. up \in Seq(Token) /\ Len(up') = Len(up) - 1 /\ Len(up) \in Nat
        BY <1>3, <1>5, HeadTailProperties, LenProperties DEF WireTypes
      <4>2. at[k + 1] \in 1..(Len(up) + 1)
        <5>1. k + 1 \in (n + 1)..(sent + 1)
          BY <1>5, <2>1, <2>2
        <5>2. QED BY <5>1
      <4>3. QED BY <2>2, <2>8, <4>1, <4>2
    <3>3. up'[j] = up[j + 1]
      BY <1>3, <1>5, <3>2, HeadTailProperties DEF WireTypes
    <3>4. QED BY <2>2, <3>1, <3>3
  <2>14. Lies(k, b)'
    <3>1. \A j \in 1..Unread(k)' : up'[j] = Tokens(k)'[j + Len(buffer')]
      BY <1>3, <2>10, <2>11, <2>13, Same
    <3>2. QED BY <2>9, <2>12, <3>1 DEF Lies
  <2>15. Begun(k)'
    <3>1. CSeq(k) = CSeq(n) + 1 /\ CSeq(n) \in Nat
      <4>1. CSeq(n) \in Nat /\ CSeq(n + 1) = CSeq(n) + (IF n + 1 \in Asked THEN 1 ELSE 0)
        BY <1>3, <1>5, Numbers
      <4>2. QED BY <2>1, <2>3, <4>1
    <3>2. Len(Answers) = CSeq(n) - 0
      BY <1>1, <2>2 DEF Begun
    <3>3. Len(Answers) = CSeq(k) - 1
      BY <3>1, <3>2
    <3>4. Open'
      BY <2>10 DEF Open
    <3>5. k \in 0..sent
      BY <2>2
    <3>6. QED BY <1>3, <1>5, <2>3, <2>7, <2>10, <3>3, <3>4, <3>5, Same DEF Begun
  <2>16. k \in 0..sent' /\ b \in [(k + 1)..(sent' + 1) -> 1..(Len(up') + 1)]
    BY <1>3, <2>2, <2>9 DEF Laid
  <2>17. QED BY <2>7, <2>14, <2>15, <2>16 DEF InStep
<1>7. CASE buffer # <<>>
  <2>1. /\ Open /\ n \in Asked /\ n \in DOMAIN script
        /\ \/ Len(buffer) = 1 /\ buffer = <<Tokens(n)[1]>>
           \/ Len(buffer) = 2 /\ buffer = <<Tokens(n)[1], Tokens(n)[2]>>
        /\ Unread(n) = Len(Tokens(n)) - Len(buffer) /\ at[n + 1] = Unread(n) + 1
        /\ Unread(n) > 0 /\ Unread(n) \in Nat
        /\ Head(up) = Tokens(n)[1 + Len(buffer)]
        /\ \A j \in 1..Unread(n) : up[j] = Tokens(n)[j + Len(buffer)]
    BY <1>1, <1>2, <1>3, <1>7, AtLine
  <2>2. /\ Tokens(n)[1] = [is |-> "first", item |-> n]
        /\ Tokens(n)[2] = [is |-> "header", cseq |-> CSeq(n), length |-> script[n].body]
        /\ Tokens(n)[3] = [is |-> "blank"]
        /\ Len(Tokens(n)) = 3 + script[n].body /\ script[n].body \in Nat
    BY <1>3, <2>1, Upstream
  <2>3. PICK b : Laid(n, b)' /\ b[n + 1] = at[n + 1] - 1
    <3>1. n \in n..sent
      BY <1>5
    <3>2. at[n + 1] > 1
      BY <2>1
    <3>3. Laid(n, at)
      BY <1>2 DEF Lies
    <3>4. up # <<>> /\ up' = Tail(up) /\ UNCHANGED <<script, sent>>
      BY <1>3, <1>5
    <3>5. QED BY <3>1, <3>2, <3>3, <3>4, Shift
  <2>4. Len(Answers) = CSeq(n) - 1
    BY <1>1, <2>1 DEF Begun
  <2>5. b[n + 1] = Unread(n)
    BY <2>1, <2>3
  <2>6. n \in 0..sent' /\ b \in [(n + 1)..(sent' + 1) -> 1..(Len(up') + 1)]
    BY <1>3, <2>3 DEF Laid
  <2>7. CASE Len(buffer) = 1
    <3>1. buffer = <<Tokens(n)[1]>> /\ Head(up) = Tokens(n)[2] /\ Head(up).is # "blank"
      <4>1. 1 + Len(buffer) = 2 /\ Len(buffer) # 2
        BY <2>7
      <4>2. buffer = <<Tokens(n)[1]>> /\ Head(up) = Tokens(n)[2]
        BY <2>1, <4>1
      <4>3. QED BY <2>2, <4>2
    <3>2. lines = <<Tokens(n)[1], Tokens(n)[2]>>
      <4>1. lines = Append(<<Tokens(n)[1]>>, Tokens(n)[2])
        BY <3>1 DEF lines
      <4>2. QED BY <4>1, Longer
    <3>3. buffer' = <<Tokens(n)[1], Tokens(n)[2]>> /\ skip' = 0 /\ request' = NoRequest
      BY <1>3, <1>4, <1>5, <3>1, <3>2
    <3>4. buffer' # <<>> /\ Len(buffer') = 2
      BY <3>3
    <3>5. Unread(n)' = Len(Tokens(n)) - 2
      <4>1. Unread(n)' = Len(Tokens(n)') - Len(buffer')
        BY <3>4 DEF Unread
      <4>2. QED BY <1>3, <3>4, <4>1, Same
    <3>6. Unread(n)' = b[n + 1] - 1 /\ Unread(n) = 2 + script[n].body
      <4>1. Unread(n) = (3 + script[n].body) - 1 /\ Unread(n)' = (3 + script[n].body) - 2
        BY <2>1, <2>2, <2>7, <3>5
      <4>2. QED BY <2>2, <2>5, <4>1
    <3>7. ASSUME NEW j \in 1..(Len(Tokens(n)) - 2) PROVE up'[j] = Tokens(n)[j + 2]
      <4>1. j + 1 \in 1..Unread(n) /\ (j + 1) + Len(buffer) = j + 2
        <5>1. j \in 1..((3 + script[n].body) - 2)
          BY <2>2
        <5>2. j \in Int /\ 1 <= j /\ j + 1 <= 2 + script[n].body
          <6>1. PICK body \in Nat : body = script[n].body
            BY <2>2
          <6>2. j \in 1..((3 + body) - 2)
            BY <5>1, <6>1
          <6>3. j \in Int /\ 1 <= j /\ j + 1 <= 2 + body
            BY <6>2
          <6>4. QED BY <6>1, <6>3
        <5>3. j + 1 \in 1..Unread(n)
          BY <2>1, <3>6, <5>2
        <5>4. (j + 1) + Len(buffer) = j + 2
          BY <2>7, <5>2
        <5>5. QED BY <5>3, <5>4
      <4>2. up[j + 1] = Tokens(n)[j + 2]
        BY <2>1, <4>1
      <4>3. j \in 1..Len(up')
        <5>1. up \in Seq(Token) /\ Len(up') = Len(up) - 1 /\ Len(up) \in Nat
          BY <1>3, <1>5, HeadTailProperties, LenProperties DEF WireTypes
        <5>2. at[n + 1] \in 1..(Len(up) + 1)
          BY <1>5
        <5>3. j + 1 <= Unread(n) /\ Unread(n) <= Len(up)
          BY <2>1, <4>1, <5>1, <5>2
        <5>4. QED BY <2>1, <5>1, <5>3
      <4>4. up'[j] = up[j + 1]
        BY <1>3, <1>5, <4>3, HeadTailProperties DEF WireTypes
      <4>5. QED BY <4>2, <4>4
    <3>8. Lies(n, b)'
      <4>1. \A j \in 1..Unread(n)' : up'[j] = Tokens(n)'[j + Len(buffer')]
        BY <1>3, <3>4, <3>5, <3>7, Same
      <4>2. QED BY <2>3, <3>6, <4>1 DEF Lies
    <3>9. Begun(n)'
      <4>1. Open'
        BY <3>4 DEF Open
      <4>2. QED BY <1>3, <1>5, <2>1, <2>4, <3>3, <3>4, <4>1, Same DEF Begun
    <3>10. QED BY <2>6, <3>3, <3>8, <3>9 DEF InStep
  <2>8. CASE Len(buffer) = 2
    <3>1. /\ buffer = <<Tokens(n)[1], Tokens(n)[2]>> /\ Head(up) = Tokens(n)[3]
          /\ Head(up).is = "blank"
      <4>1. 1 + Len(buffer) = 3 /\ Len(buffer) # 1
        BY <2>8
      <4>2. buffer = <<Tokens(n)[1], Tokens(n)[2]>> /\ Head(up) = Tokens(n)[3]
        BY <2>1, <4>1
      <4>3. QED BY <2>2, <4>2
    <3>2. lines = <<Tokens(n)[1], Tokens(n)[2], Tokens(n)[3]>>
      <4>1. lines = Append(<<Tokens(n)[1], Tokens(n)[2]>>, Tokens(n)[3])
        BY <3>1 DEF lines
      <4>2. QED BY <4>1, Longer
    <3>3. Len(lines) = 3 /\ lines[1].is = "first" /\ lines[1].item = n
      BY <2>2, <3>2
    <3>4. Header(lines) = {2} /\ lines[2].cseq = CSeq(n) /\ lines[2].length = script[n].body
      <4>1. DOMAIN lines = {1, 2, 3}
        BY <3>2
      <4>2. lines[1].is = "first" /\ lines[2].is = "header" /\ lines[3].is = "blank"
        BY <2>2, <3>2
      <4>3. \A i : i \in Header(lines) <=> i = 2
        BY <4>1, <4>2 DEF Header
      <4>4. Header(lines) = {2}
        BY <4>3
      <4>5. lines[2] = [is |-> "header", cseq |-> CSeq(n), length |-> script[n].body]
        BY <2>2, <3>2
      <4>6. QED BY <4>4, <4>5
    <3>5. ContentLength(lines) = script[n].body /\ Parsed(lines) = AsSent(n)
      <4>1. Header(lines) # {} /\ (CHOOSE i \in Header(lines) : TRUE) = 2
        BY <3>4
      <4>2. ContentLength(lines) = script[n].body
        BY <3>4, <4>1 DEF ContentLength
      <4>3. Parsed(lines) = AsSent(n)
        BY <3>3, <3>4, <4>1 DEF Parsed, AsSent
      <4>4. QED BY <4>2, <4>3
    <3>6. buffer' = <<>> /\ skip' = script[n].body /\ request' = AsSent(n)
      BY <1>4, <3>1, <3>3, <3>5
    <3>7. request' # NoRequest
      BY <3>6 DEF AsSent, NoRequest
    <3>8. Unread(n)' = script[n].body
      BY <3>6 DEF Unread
    <3>9. Unread(n)' = b[n + 1] - 1
      BY <2>1, <2>2, <2>5, <2>8, <3>8
    <3>10. Lies(n, b)'
      BY <2>3, <3>6, <3>9 DEF Lies
    <3>11. Begun(n)'
      <4>1. Open'
        BY <3>7 DEF Open
      <4>2. QED BY <1>3, <1>5, <2>1, <2>4, <3>6, <3>7, <4>1, Same DEF Begun
    <3>12. QED BY <2>2, <2>6, <3>6, <3>10, <3>11 DEF InStep
  <2>9. QED BY <2>1, <2>7, <2>8
<1>8. QED BY <1>6, <1>7

----------------------------------------------------------------------------
(* What the answers say.                                                   *)

\* A step that gives no answer leaves what the answers say of the connection.
LEMMA StaysSensible ==
  ASSUME Numbered, Sensible, Answers' = Answers, UNCHANGED <<profile, script, described, live>>
  PROVE  Numbered' /\ Sensible'
<1>1. \A i : Method(i)' = Method(i) /\ Session(i)' = Session(i)
  BY Same
<1>2. \A i : Done(i)' = Done(i) /\ EndsIt(i)' = EndsIt(i)
  BY <1>1 DEF Done, EndsIt
<1>3. \A i : AliveAt(i)' = AliveAt(i)
  BY <1>1, <1>2 DEF AliveAt
<1>4. Numbered'
  BY DEF Numbered
<1>5. Sensible'
  BY <1>1, <1>2, <1>3 DEF Sensible
<1>6. QED BY <1>4, <1>5

Methods == {"OPTIONS", "DESCRIBE", "SETUP", "PLAY", "PAUSE", "TEARDOWN",
            "GET_PARAMETER", "ANNOUNCE", ""}

\* The answer to the request handled comes next and answers what the client asked.
LEMMA Answered ==
  ASSUME WireInv, NEW method \in Methods, Handling(method),
         NEW status \in Statuses, Reply(status)
  PROVE  /\ InStep' /\ Answers = log /\ Len(log) \in Nat /\ ~afterWrite
         /\ response' = [cseq |-> Len(log) + 1, status |-> status]
         /\ response' \in Response /\ response' # NoResponse
         /\ Answers' = Append(log, response') /\ request' = NoRequest
         /\ buffer = <<>> /\ request.session = Session(Len(log) + 1)
         /\ Method(Len(log) + 1) = method
<1>1. PICK n \in 0..sent : Begun(n) /\ \E at \in [(n + 1)..(sent + 1) -> 1..(Len(up) + 1)] :
                                         Lies(n, at)
  BY DEF WireInv, InStep
<1>2. PICK at \in [(n + 1)..(sent + 1) -> 1..(Len(up) + 1)] : Lies(n, at)
  BY <1>1
<1>3. request.method = method /\ response = NoResponse /\ request # NoRequest
  <2>1. request.method = method /\ response = NoResponse /\ method # "none"
    BY DEF Handling, Methods
  <2>2. NoRequest.method = "none"
    BY DEF NoRequest
  <2>3. QED BY <2>1, <2>2
<1>4. Open /\ n \in Asked /\ buffer = <<>> /\ request = AsSent(n) /\ Answers = log
  BY <1>1, <1>3 DEF Begun, Open, Answers
<1>5. /\ n \in Nat \ {0} /\ CSeq(n) \in Nat /\ CSeq(n) # 0 /\ Item(CSeq(n)) = n
  <2>1. script \in Seq(Requests \cup Frames)
    BY DEF WireInv, WireTypes
  <2>2. n \in Nat \ {0} /\ CSeq(n) # 0 /\ Item(CSeq(n)) = n
    BY <1>4, <2>1, Numbers
  <2>3. CSeq(n) \in Nat
    BY <2>1, <2>2, Numbers
  <2>4. QED BY <2>2, <2>3
<1>6. Len(log) = CSeq(n) - 1 /\ Len(log) \in Nat /\ CSeq(n) = Len(log) + 1
  BY <1>1, <1>4, <1>5 DEF Begun
<1>7. /\ response' = [cseq |-> request.cseq, status |-> status] /\ request' = NoRequest
      /\ UNCHANGED <<script, sent, up, buffer, skip, log>>
  BY DEF Reply, inVars, readVars, outVars
<1>8. request.cseq = CSeq(n) /\ request.session = script[n].session
      /\ request.method = script[n].method
  BY <1>4 DEF AsSent
<1>9. /\ response' = [cseq |-> Len(log) + 1, status |-> status]
      /\ response' \in Response /\ response' # NoResponse
  <2>1. response' = [cseq |-> Len(log) + 1, status |-> status]
    BY <1>6, <1>7, <1>8
  <2>2. QED BY <1>6, <2>1 DEF Response, NoResponse, Statuses
<1>10. Answers' = Append(log, response') /\ ~Open'
  BY <1>4, <1>7, <1>9 DEF Answers, Open
<1>11. Len(Answers') = CSeq(n) - 0
  <2>1. log \in Seq(Response)
    BY DEF WireInv, WireTypes
  <2>2. Len(Append(log, response')) = Len(log) + 1
    BY <1>9, <2>1, AppendProperties
  <2>3. QED BY <1>5, <1>6, <1>10, <2>2
<1>12. Begun(n)'
  <2>1. CSeq(n)' = CSeq(n) /\ script' = script
    BY <1>7, Same
  <2>2. n \in 0..sent' /\ Len(Answers') = CSeq(n)' - (IF Open' THEN 1 ELSE 0)
    BY <1>7, <1>10, <1>11, <2>1
  <2>3. buffer' = <<>> /\ request' = NoRequest /\ ~Open'
    BY <1>4, <1>7, <1>10
  <2>4. QED BY <2>2, <2>3 DEF Begun
<1>13. Lies(n, at)'
  BY <1>2, <1>7, Same DEF Lies, Laid, Unread
<1>14. InStep'
  BY <1>7, <1>12, <1>13 DEF InStep
<1>15. ~afterWrite
  BY <1>3 DEF WireInv, Started
<1>16. QED
  BY <1>3, <1>4, <1>5, <1>6, <1>7, <1>8, <1>9, <1>10, <1>14, <1>15 DEF Method, Session

\* An answer that respects what the connection knows keeps the answers sensible.
LEMMA AnsweredSensibly ==
  ASSUME WireInv, NEW method \in Methods, Handling(method),
         NEW status \in Statuses, Reply(status),
         described' => described \/ method = "DESCRIBE",
         live' => \/ live /\ ~(method = "TEARDOWN" /\ request.session = "mine")
                  \/ method = "SETUP" /\ status = "200",
         status = "200" =>
           /\ method \in {"PLAY", "PAUSE", "GET_PARAMETER"} => request.session = "mine" /\ live
           /\ method = "SETUP" => ~profile.busy /\ (profile.requireDescribe => described)
  PROVE  Numbered' /\ Sensible'
<1>0. PICK c : c = Len(log) + 1
  OBVIOUS
<1>1. /\ Answers = log /\ Len(log) \in Nat /\ response' = [cseq |-> c, status |-> status]
      /\ response' \in Response /\ Answers' = Append(log, response')
      /\ request.session = Session(c) /\ Method(c) = method
  BY <1>0, Answered
<1>2. script' = script /\ profile' = profile
  BY DEF Reply
<1>3. log \in Seq(Response) /\ DOMAIN log = 1..Len(log)
  BY LenProperties DEF WireInv, WireTypes
<1>4. /\ DOMAIN Answers' = 1..c /\ Len(Answers') = c
      /\ \A i \in DOMAIN log : Answers'[i] = log[i]
      /\ Answers'[c] = response'
  BY <1>0, <1>1, <1>3, AppendProperties, LenProperties
<1>5. c \in Nat /\ c = Len(log) + 1
  BY <1>0, <1>1
<1>6. \A i : i \in 1..c <=> i \in DOMAIN log \/ i = c
  BY <1>1, <1>3, <1>5
<1>7. Numbered'
  <2>1. \A i \in DOMAIN log : log[i].cseq = i
    BY <1>1 DEF WireInv, Numbered
  <2>2. response'.cseq = c
    BY <1>1
  <2>3. QED BY <1>4, <1>6, <2>1, <2>2 DEF Numbered
<1>8. \A i : Method(i)' = Method(i) /\ Session(i)' = Session(i) /\ EndsIt(i)' = EndsIt(i)
  BY <1>2, Same DEF EndsIt
<1>9. (\A i \in DOMAIN log : Done(i)' = Done(i)) /\ Done(c)' = (status = "200")
  BY <1>1, <1>4 DEF Done
<1>10. \A i \in DOMAIN log : AliveAt(i) => AliveAt(i)'
  <2> SUFFICES ASSUME NEW i \in DOMAIN log, AliveAt(i) PROVE AliveAt(i)'
    OBVIOUS
  <2>1. PICK j \in 1..i : Method(j) = "SETUP" /\ Done(j) /\ \A k \in j..i : ~EndsIt(k)
    BY DEF AliveAt
  <2>2. j \in DOMAIN log
    BY <1>1, <1>3, <2>1
  <2>3. Method(j)' = "SETUP" /\ Done(j)' /\ \A k \in j..i : ~EndsIt(k)'
    BY <1>8, <1>9, <2>1, <2>2
  <2>4. QED BY <2>3 DEF AliveAt
<1>11. live /\ ~EndsIt(c) => AliveAt(c)'
  <2> SUFFICES ASSUME live, ~EndsIt(c) PROVE AliveAt(c)'
    OBVIOUS
  <2>1. AliveAt(Len(log))
    BY <1>1 DEF WireInv, Sensible
  <2>2. PICK j \in 1..Len(log) : /\ Method(j) = "SETUP" /\ Done(j)
                                 /\ \A k \in j..Len(log) : ~EndsIt(k)
    BY <2>1 DEF AliveAt
  <2>3. j \in 1..c /\ j \in DOMAIN log /\ \A k \in j..c : k = c \/ k \in j..Len(log)
    BY <1>1, <1>3, <1>5
  <2>4. Method(j)' = "SETUP" /\ Done(j)' /\ \A k \in j..c : ~EndsIt(k)'
    BY <1>8, <1>9, <2>2, <2>3
  <2>5. QED BY <2>3, <2>4 DEF AliveAt
<1>12. method = "SETUP" /\ status = "200" => AliveAt(c)'
  <2> SUFFICES ASSUME method = "SETUP", status = "200" PROVE AliveAt(c)'
    OBVIOUS
  <2>1. c \in 1..c /\ \A k \in c..c : k = c
    BY <1>1, <1>5
  <2>2. ~EndsIt(c)' /\ Method(c)' = "SETUP" /\ Done(c)'
    BY <1>1, <1>8, <1>9 DEF EndsIt
  <2>3. QED BY <2>1, <2>2 DEF AliveAt
<1>13. EndsIt(c) <=> method = "TEARDOWN" /\ request.session = "mine"
  BY <1>1 DEF EndsIt
<1>14. described' => \E j \in DOMAIN Answers' : Method(j)' = "DESCRIBE"
  <2>1. described => \E j \in DOMAIN log : Method(j) = "DESCRIBE"
    BY <1>1 DEF WireInv, Sensible
  <2>2. c \in DOMAIN Answers' /\ DOMAIN log \subseteq DOMAIN Answers'
    BY <1>4, <1>6
  <2>3. QED BY <1>1, <1>8, <2>1, <2>2
<1>15. live' => AliveAt(c)'
  BY <1>11, <1>12, <1>13
<1>16. (live => AliveAt(Len(Answers)))'
  BY <1>4, <1>15 DEF AliveAt
<1>17. ASSUME NEW i \in DOMAIN log, Done(i)'
       PROVE  /\ Method(i)' \in {"PLAY", "PAUSE", "GET_PARAMETER"} =>
                   Session(i)' = "mine" /\ AliveAt(i)'
              /\ Method(i)' = "SETUP" => /\ ~profile'.busy
                                         /\ profile'.requireDescribe =>
                                              \E j \in 1..(i - 1) : Method(j)' = "DESCRIBE"
  <2>1. Done(i) /\ i \in DOMAIN Answers
    BY <1>1, <1>9, <1>17
  <2>2. /\ Method(i) \in {"PLAY", "PAUSE", "GET_PARAMETER"} => Session(i) = "mine" /\ AliveAt(i)
        /\ Method(i) = "SETUP" => /\ ~profile.busy
                                  /\ profile.requireDescribe =>
                                       \E j \in 1..(i - 1) : Method(j) = "DESCRIBE"
    BY <2>1 DEF WireInv, Sensible
  <2>3. QED BY <1>2, <1>8, <1>10, <2>2
<1>18. ASSUME Done(c)'
       PROVE  /\ Method(c)' \in {"PLAY", "PAUSE", "GET_PARAMETER"} =>
                   Session(c)' = "mine" /\ AliveAt(c)'
              /\ Method(c)' = "SETUP" => /\ ~profile'.busy
                                         /\ profile'.requireDescribe =>
                                              \E j \in 1..(c - 1) : Method(j)' = "DESCRIBE"
  <2>1. status = "200"
    BY <1>9, <1>18
  <2>2. method \in {"PLAY", "PAUSE", "GET_PARAMETER"} => Session(c) = "mine" /\ AliveAt(c)'
    BY <1>1, <1>11, <1>13, <2>1
  <2>3. described => \E j \in 1..(c - 1) : Method(j) = "DESCRIBE"
    <3>1. described => \E j \in DOMAIN log : Method(j) = "DESCRIBE"
      BY <1>1 DEF WireInv, Sensible
    <3>2. DOMAIN log = 1..(c - 1)
      BY <1>1, <1>3, <1>5
    <3>3. QED BY <3>1, <3>2
  <2>4. QED BY <1>1, <1>2, <1>8, <2>1, <2>2, <2>3
<1>19. Sensible'
  <2>1. DOMAIN Answers' = DOMAIN log \cup {c}
    BY <1>4, <1>6
  <2>2. QED BY <1>14, <1>16, <1>17, <1>18, <2>1 DEF Sensible
<1>20. QED BY <1>7, <1>19

----------------------------------------------------------------------------
(* The senders and the socket.                                             *)

\* A sender that goes on, or is told to stop, is still the one its PLAY started.
LEMMA Marked ==
  ASSUME WireTypes, NEW k \in DOMAIN senders, NEW next, next \in SenderOf,
         next.play = senders[k].play
  PROVE  LET after == [senders EXCEPT ![k] = next]
         IN  /\ after \in Seq(SenderOf) /\ Len(after) = Len(senders)
             /\ DOMAIN after = DOMAIN senders
             /\ \A i \in DOMAIN senders : after[i].play = senders[i].play
<1>1. senders \in Seq(SenderOf) /\ DOMAIN senders = 1..Len(senders)
  BY LenProperties DEF WireTypes
<1>2. QED BY <1>1, ExceptSeq, LenProperties

\* What holds of senders, log and wire while no chunk is written and no sender starts.
Quiet == /\ senders' \in Seq(SenderOf) /\ DOMAIN senders' = DOMAIN senders
         /\ \A i \in DOMAIN senders : senders'[i].play = senders[i].play
         /\ wire' = wire /\ log' = log

LEMMA StaysOrdered ==
  ASSUME WireInv, Quiet
  PROVE  FramesFollowPlay'
<1>1. ASSUME NEW n \in DOMAIN wire, wire[n].is = "frame"
      PROVE  senders'[wire[n].sender].play = senders[wire[n].sender].play
  BY <1>1 DEF WireInv, Started, Quiet
<1>2. QED BY <1>1 DEF WireInv, FramesFollowPlay, Quiet

\* The part of the invariant about senders and wire, while no chunk is written.
LEMMA StaysStarted ==
  ASSUME WireInv, Quiet, afterWrite' => /\ buffer' = <<>> /\ request' = NoRequest
                                        /\ Answers' # <<>>
                                        /\ Answers'[Len(Answers')].status = "200",
         writer' = Responder => response' # NoResponse
  PROVE  Started'
<1>1. \A k \in DOMAIN senders' :
        senders'[k].play \in DOMAIN log' /\ log'[senders'[k].play].status = "200"
  BY DEF WireInv, Started, Quiet
<1>2. \A n \in DOMAIN wire' :
        /\ wire'[n].is = "frame" => wire'[n].sender \in DOMAIN senders'
        /\ wire'[n].is = "response" => wire'[n].cseq \in DOMAIN log'
  BY DEF WireInv, Started, Quiet
<1>3. QED BY <1>1, <1>2 DEF Started

\* Senders that did not change are quiet.
LEMMA Unmoved ==
  ASSUME WireTypes, UNCHANGED <<senders, wire, log>>
  PROVE  Quiet
BY DEF WireTypes, Quiet

\* So are those of which one was told to stop.
LEMMA Stopped ==
  ASSUME WireTypes, StopStreaming, UNCHANGED <<wire, log>>
  PROVE  Quiet /\ stopCh' = 0
<1>1. senders \in Seq(SenderOf) /\ DOMAIN senders = 1..Len(senders) /\ stopCh \in 0..Len(senders)
      /\ Len(senders) \in Nat
  BY LenProperties DEF WireTypes
<1>2. CASE stopCh = 0
  BY <1>2, Unmoved DEF StopStreaming
<1>3. CASE stopCh # 0
  <2>1. stopCh \in DOMAIN senders /\ senders' = Told(stopCh)
    BY <1>1, <1>3 DEF StopStreaming
  <2>2. PICK next : next = [senders[stopCh] EXCEPT !.told = TRUE]
    OBVIOUS
  <2>3. senders[stopCh] \in SenderOf
    BY <1>1, <2>1, ElementOfSeq
  <2>4. next \in SenderOf /\ next.play = senders[stopCh].play
    BY <2>2, <2>3 DEF SenderOf
  <2>5. senders' = [senders EXCEPT ![stopCh] = next]
    BY <2>1, <2>2 DEF Told
  <2>6. QED BY <2>1, <2>4, <2>5, Marked DEF Quiet, StopStreaming
<1>4. QED BY <1>2, <1>3

\* A sender that moves to another place of its loop.
LEMMA Moved ==
  ASSUME WireTypes, NEW k \in DOMAIN senders, NEW place \in {"select", "frame", "write", "gone"},
         Goto(k, place)
  PROVE  /\ senders' \in Seq(SenderOf) /\ DOMAIN senders' = DOMAIN senders
         /\ Len(senders') = Len(senders)
         /\ \A i \in DOMAIN senders : senders'[i].play = senders[i].play
<1>1. PICK next : next = [senders[k] EXCEPT !.at = place]
  OBVIOUS
<1>2. senders[k] \in SenderOf
  BY LenProperties, ElementOfSeq DEF WireTypes
<1>3. next \in SenderOf /\ next.play = senders[k].play
  BY <1>1, <1>2 DEF SenderOf
<1>4. senders' = [senders EXCEPT ![k] = next]
  BY <1>1 DEF Goto
<1>5. QED BY <1>3, <1>4, Marked

\* A handler's answer preserves the invariant, when it respects what the connection
\* knows and starts no sender itself.
LEMMA AnswerKeeps ==
  ASSUME WireInv, NEW method \in Methods, Handling(method),
         NEW status \in Statuses, Reply(status),
         described' \in BOOLEAN, live' \in BOOLEAN, afterWrite' \in BOOLEAN,
         Quiet, stopCh' \in {0, stopCh},
         afterWrite' => afterWrite \/ status = "200",
         described' => described \/ method = "DESCRIBE",
         live' => \/ live /\ ~(method = "TEARDOWN" /\ request.session = "mine")
                  \/ method = "SETUP" /\ status = "200",
         status = "200" =>
           /\ method \in {"PLAY", "PAUSE", "GET_PARAMETER"} => request.session = "mine" /\ live
           /\ method = "SETUP" => ~profile.busy /\ (profile.requireDescribe => described)
  PROVE  WireInv'
<1>1. /\ InStep' /\ Len(log) \in Nat /\ ~afterWrite
      /\ response' = [cseq |-> Len(log) + 1, status |-> status]
      /\ response' \in Response /\ response' # NoResponse
      /\ Answers' = Append(log, response') /\ request' = NoRequest /\ buffer = <<>>
  BY Answered
<1>2. Numbered' /\ Sensible'
  BY AnsweredSensibly
<1>3. /\ UNCHANGED <<profile, script, sent, up, buffer, skip, writer, wire, log>>
  BY DEF Reply, inVars, readVars, outVars
<1>4. WireTypes'
  <2>1. Len(senders') = Len(senders)
    BY LenProperties DEF WireInv, WireTypes, Quiet
  <2>2. stopCh' \in 0..Len(senders')
    BY <2>1, LenProperties DEF WireInv, WireTypes
  <2>3. QED BY <1>1, <1>3, <2>2 DEF WireInv, WireTypes, Quiet
<1>5. Started'
  <2>1. log \in Seq(Response)
    BY DEF WireInv, WireTypes
  <2>2. /\ Answers' # <<>> /\ Len(Answers') = Len(log) + 1
        /\ Answers'[Len(log) + 1] = response'
    BY <1>1, <2>1, AppendProperties
  <2>3. Answers'[Len(Answers')].status = status
    BY <1>1, <2>2
  <2>4. QED BY <1>1, <1>3, <2>2, <2>3, StaysStarted
<1>6. FramesFollowPlay'
  BY StaysOrdered
<1>7. QED BY <1>1, <1>2, <1>4, <1>5, <1>6 DEF WireInv

----------------------------------------------------------------------------
(* Every step preserves the invariant.                                     *)

LEMMA WireInit ==
  ASSUME Init
  PROVE  WireInv
<1>1. /\ script \in Seq(Requests \cup Frames)
      /\ profile \in [requireDescribe : BOOLEAN, busy : BOOLEAN]
      /\ sent = 0 /\ up = <<>> /\ buffer = <<>> /\ skip = 0
      /\ request = NoRequest /\ response = NoResponse /\ described = FALSE /\ live = FALSE
      /\ stopCh = 0 /\ afterWrite = FALSE /\ senders = <<>>
      /\ writer = Nobody /\ wire = <<>> /\ log = <<>>
  BY ScriptAssumption DEF Init
<1>2. Len(up) = 0 /\ Len(log) = 0 /\ Answers = log /\ ~Open /\ Len(script) \in Nat
  BY <1>1, EmptySeq, LenProperties DEF Answers, Open
<1>3. WireTypes
  <2>1. up \in Seq(Token) /\ senders \in Seq(SenderOf) /\ wire \in Seq(Chunk) /\ log \in Seq(Response)
    BY <1>1, EmptySeq
  <2>2. stopCh \in 0..Len(senders) /\ sent \in 0..Len(script) /\ skip \in Nat
    BY <1>1, <1>2, EmptySeq
  <2>3. QED BY <1>1, <2>1, <2>2 DEF WireTypes
<1>4. Begun(0)
  BY <1>1, <1>2, Numbers DEF Begun
<1>5. PICK at : at = [i \in (0 + 1)..(sent + 1) |-> 1]
  OBVIOUS
<1>6. /\ at \in [(0 + 1)..(sent + 1) -> 1..(Len(up) + 1)]
      /\ \A i : i \in (0 + 1)..(sent + 1) <=> i = 1
      /\ at[1] = 1 /\ (0 + 1)..sent = {} /\ sent + 1 = 1
  BY <1>1, <1>2, <1>5
<1>7. Lies(0, at)
  <2>1. Laid(0, at)
    BY <1>2, <1>6 DEF Laid
  <2>2. Unread(0) = at[0 + 1] - 1
    BY <1>1, <1>6 DEF Unread
  <2>3. QED BY <1>1, <2>1, <2>2 DEF Lies
<1>8. InStep
  BY <1>1, <1>4, <1>6, <1>7 DEF InStep
<1>9. Numbered /\ Sensible /\ Started /\ FramesFollowPlay
  <2>1. DOMAIN Answers = {} /\ DOMAIN wire = {} /\ DOMAIN senders = {}
    BY <1>1, <1>2
  <2>2. QED BY <1>1, <2>1 DEF Numbered, Sensible, Started, FramesFollowPlay, Responder, Nobody
<1>10. QED BY <1>3, <1>8, <1>9 DEF WireInv

\* A step of the client or of readRequest moves bytes upstream only.
LEMMA UpstreamKeeps ==
  ASSUME WireInv, InStep', sent' \in 0..Len(script'), up' \in Seq(Token), skip' \in Nat,
         UNCHANGED <<profile, script, response, described, live, stopCh, senders,
                     afterWrite, writer, wire, log>>,
         afterWrite => buffer' = buffer /\ request' = request
  PROVE  WireInv'
<1>1. WireTypes'
  BY DEF WireInv, WireTypes
<1>2. Answers' = Answers
  BY DEF Answers
<1>3. Numbered' /\ Sensible'
  BY <1>2, StaysSensible DEF WireInv
<1>4. Quiet
  BY Unmoved DEF WireInv
<1>5. FramesFollowPlay'
  BY <1>4, StaysOrdered
<1>6. Started'
  <2>1. afterWrite' => /\ buffer' = <<>> /\ request' = NoRequest /\ Answers' # <<>>
                       /\ Answers'[Len(Answers')].status = "200"
    BY <1>2 DEF WireInv, Started
  <2>2. writer' = Responder => response' # NoResponse
    BY DEF WireInv, Started
  <2>3. QED BY <1>4, <2>1, <2>2, StaysStarted
<1>7. QED BY <1>1, <1>3, <1>5, <1>6 DEF WireInv

LEMMA ClientSends ==
  ASSUME WireInv, Send
  PROVE  WireInv'
<1>1. /\ sent + 1 \in DOMAIN script /\ sent' = sent + 1 /\ up' = up \o Tokens(sent + 1)
      /\ UNCHANGED <<profile, script, buffer, skip, request, response, described, live,
                     stopCh, senders, afterWrite, writer, wire, log>>
  BY LenProperties
     DEF WireInv, WireTypes, Send, readVars, stateVars, senderVars, outVars
<1>2. InStep'
  BY SendInStep DEF WireInv
<1>3. Tokens(sent + 1) \in Seq(Token)
  <2>1. PICK k \in DOMAIN script : k = sent + 1
    BY <1>1
  <2>2. QED BY <2>1, Lengths DEF WireInv
<1>4. up' \in Seq(Token)
  <2>1. up \in Seq(Token)
    BY DEF WireInv, WireTypes
  <2>2. QED BY <1>1, <1>3, <2>1, Joined
<1>5. sent' \in 0..Len(script') /\ skip' \in Nat
  <2>1. sent \in 0..Len(script) /\ DOMAIN script = 1..Len(script) /\ Len(script) \in Nat
    BY LenProperties DEF WireInv, WireTypes
  <2>2. skip \in Nat
    BY DEF WireInv, WireTypes
  <2>3. QED BY <1>1, <2>1, <2>2
<1>6. QED BY <1>1, <1>2, <1>4, <1>5, UpstreamKeeps

LEMMA ServerReads ==
  ASSUME WireInv, ReadRequest
  PROVE  WireInv'
<1>1. UNCHANGED <<profile, script, sent, response, described, live, stopCh, senders,
                  afterWrite, writer, wire, log>>
  BY DEF ReadRequest, Discard, SkipFrame, ReadLine, stateVars, senderVars, outVars
<1>2. up # <<>> /\ up' = Tail(up)
  BY DEF ReadRequest, Discard, SkipFrame, ReadLine, Reading
<1>3. sent' \in 0..Len(script') /\ up' \in Seq(Token)
  BY <1>1, <1>2, HeadTailProperties DEF WireInv, WireTypes
<1>4. WireTypes /\ InStep
  BY DEF WireInv
<1>5. CASE Discard
  <2>1. InStep'
    BY <1>4, <1>5, DiscardInStep
  <2>2. skip' \in Nat
    BY <1>4, <1>5 DEF WireTypes, Discard
  <2>3. buffer' = buffer /\ request' = request
    BY <1>5 DEF Discard
  <2>4. QED BY <1>1, <1>3, <2>1, <2>2, <2>3, UpstreamKeeps
<1>6. CASE SkipFrame
  <2>1. InStep' /\ skip' \in Nat
    BY <1>4, <1>6, SkipFrameInStep
  <2>2. ~afterWrite
    BY <1>6 DEF SkipFrame, Reading
  <2>3. QED BY <1>1, <1>3, <2>1, <2>2, UpstreamKeeps
<1>7. CASE ReadLine
  <2>1. InStep' /\ skip' \in Nat
    BY <1>4, <1>7, ReadLineInStep
  <2>2. ~afterWrite
    BY <1>7 DEF ReadLine, Reading
  <2>3. QED BY <1>1, <1>3, <2>1, <2>2, UpstreamKeeps
<1>8. QED BY <1>5, <1>6, <1>7 DEF ReadRequest

\* Every handler gives an answer that respects what the connection knows.
LEMMA HandlerAnswers ==
  ASSUME WireInv, Handler
  PROVE  WireInv'
<1>1. WireTypes /\ described \in BOOLEAN /\ live \in BOOLEAN /\ afterWrite \in BOOLEAN
  BY DEF WireInv, WireTypes
<1>2. ASSUME NEW status, Reply(status) PROVE wire' = wire /\ log' = log
  BY <1>2 DEF Reply, outVars
<1>3. CASE Options
  <2>1. Handling("OPTIONS") /\ Reply("200")
        /\ UNCHANGED <<described, live, stopCh, senders, afterWrite>>
    BY <1>3 DEF Options, stateVars, senderVars
  <2>2. Quiet
    BY <1>1, <1>2, <2>1, Unmoved
  <2>3. QED BY <1>1, <2>1, <2>2, AnswerKeeps DEF Methods, Statuses
<1>4. CASE Describe
  <2>1. Handling("DESCRIBE") /\ Reply("200") /\ described' = TRUE
        /\ UNCHANGED <<live, stopCh, senders, afterWrite>>
    BY <1>4 DEF Describe, senderVars
  <2>2. Quiet
    BY <1>1, <1>2, <2>1, Unmoved
  <2>3. QED BY <1>1, <2>1, <2>2, AnswerKeeps DEF Methods, Statuses
<1>5. CASE Setup
  <2>1. Handling("SETUP")
    BY <1>5 DEF Setup
  <2>2. CASE SetupGate(request) # "open"
    <3>1. Reply(SetupGate(request)) /\ UNCHANGED <<described, live, stopCh, senders, afterWrite>>
      BY <1>5, <2>2 DEF Setup, stateVars, senderVars
    <3>2. SetupGate(request) \in {"455", "503", "461"}
      BY <2>2 DEF SetupGate
    <3>3. Quiet
      BY <1>1, <1>2, <3>1, Unmoved
    <3>4. SetupGate(request) # "200" /\ SetupGate(request) \in Statuses
      BY <3>2 DEF Statuses
    <3>5. QED BY <1>1, <2>1, <3>1, <3>3, <3>4, AnswerKeeps DEF Methods
  <2>3. CASE SetupGate(request) = "open"
    <3>1. ~profile.busy /\ (profile.requireDescribe => described)
      BY <2>3 DEF SetupGate
    <3>2. \/ /\ live' = TRUE /\ stopCh' = 0 /\ Reply("200")
             /\ UNCHANGED <<described, senders, afterWrite>>
          \/ \E err \in LabErrors : /\ Reply(SetupStatus(err))
                                    /\ UNCHANGED <<described, live, stopCh, senders, afterWrite>>
      BY <1>5, <2>3 DEF Setup, stateVars, senderVars
    <3>3. CASE /\ live' = TRUE /\ stopCh' = 0 /\ Reply("200")
               /\ UNCHANGED <<described, senders, afterWrite>>
      <4>1. Quiet
        BY <1>1, <1>2, <3>3, Unmoved
      <4>2. QED BY <1>1, <2>1, <3>1, <3>3, <4>1, AnswerKeeps DEF Methods, Statuses
    <3>4. ASSUME NEW err \in LabErrors, Reply(SetupStatus(err)),
                 UNCHANGED <<described, live, stopCh, senders, afterWrite>>
          PROVE  WireInv'
      <4>1. Quiet
        BY <1>1, <1>2, <3>4, Unmoved
      <4>2. SetupStatus(err) # "200" /\ SetupStatus(err) \in Statuses
        BY DEF SetupStatus, Statuses
      <4>3. QED BY <1>1, <2>1, <3>4, <4>1, <4>2, AnswerKeeps DEF Methods
    <3>5. QED BY <3>2, <3>3, <3>4
  <2>4. QED BY <2>2, <2>3
<1>6. CASE Play
  <2>1. Handling("PLAY") /\ UNCHANGED <<described, live, stopCh, senders>>
    BY <1>6 DEF Play, stateVars, senderVars
  <2>2. CASE Reply("454") /\ UNCHANGED afterWrite
    <3>1. Quiet
      BY <1>1, <1>2, <2>1, <2>2, Unmoved
    <3>2. QED BY <1>1, <2>1, <2>2, <3>1, AnswerKeeps DEF Methods, Statuses
  <2>3. CASE Named /\ Reply("200") /\ afterWrite' = TRUE
    <3>1. Quiet
      BY <1>1, <1>2, <2>1, <2>3, Unmoved
    <3>2. QED BY <1>1, <2>1, <2>3, <3>1, AnswerKeeps DEF Methods, Statuses, Named
  <2>4. ASSUME NEW status \in {"400", "500"}, Reply(status), UNCHANGED afterWrite
        PROVE  WireInv'
    <3>1. Quiet
      BY <1>1, <1>2, <2>1, <2>4, Unmoved
    <3>2. status \in Statuses /\ status # "200"
      BY DEF Statuses
    <3>3. QED BY <1>1, <2>1, <2>4, <3>1, <3>2, AnswerKeeps DEF Methods
  <2>5. QED BY <1>6, <2>2, <2>3, <2>4 DEF Play
<1>7. CASE Pause
  <2>1. Handling("PAUSE") /\ UNCHANGED <<described, live, afterWrite>>
    BY <1>7 DEF Pause, stateVars
  <2>2. CASE Named
    <3>1. StopStreaming /\ Reply("200")
      BY <1>7, <2>2 DEF Pause
    <3>2. Quiet /\ stopCh' = 0
      BY <1>1, <1>2, <3>1, Stopped
    <3>3. QED BY <1>1, <2>1, <2>2, <3>1, <3>2, AnswerKeeps DEF Methods, Statuses, Named
  <2>3. CASE ~Named
    <3>1. Reply("454") /\ UNCHANGED <<stopCh, senders>>
      BY <1>7, <2>3 DEF Pause, senderVars
    <3>2. Quiet
      BY <1>1, <1>2, <3>1, Unmoved
    <3>3. QED BY <1>1, <2>1, <3>1, <3>2, AnswerKeeps DEF Methods, Statuses
  <2>4. QED BY <2>2, <2>3
<1>8. CASE Teardown
  <2>1. Handling("TEARDOWN") /\ Reply("200") /\ UNCHANGED <<described, afterWrite>>
    BY <1>8 DEF Teardown
  <2>2. CASE Named
    <3>1. StopStreaming /\ live' = FALSE
      BY <1>8, <2>2 DEF Teardown
    <3>2. Quiet /\ stopCh' = 0
      BY <1>1, <1>2, <2>1, <3>1, Stopped
    <3>3. QED BY <1>1, <2>1, <3>1, <3>2, AnswerKeeps DEF Methods, Statuses
  <2>3. CASE ~Named
    <3>1. UNCHANGED <<stopCh, senders, live>>
      BY <1>8, <2>3 DEF Teardown, senderVars
    <3>2. Quiet
      BY <1>1, <1>2, <2>1, <3>1, Unmoved
    <3>3. live' => live /\ request.session # "mine"
      BY <2>3, <3>1 DEF Named
    <3>4. QED BY <1>1, <2>1, <3>1, <3>2, <3>3, AnswerKeeps DEF Methods, Statuses
  <2>4. QED BY <2>2, <2>3
<1>9. CASE GetParameter
  <2>1. Handling("GET_PARAMETER") /\ UNCHANGED <<described, live, stopCh, senders, afterWrite>>
    BY <1>9 DEF GetParameter, stateVars, senderVars
  <2>2. PICK status \in {"200", "454"} : Reply(status) /\ (status = "200" => Named)
    BY <1>9 DEF GetParameter
  <2>3. Quiet
    BY <1>1, <1>2, <2>1, <2>2, Unmoved
  <2>4. status \in Statuses
    BY DEF Statuses
  <2>5. QED BY <1>1, <2>1, <2>2, <2>3, <2>4, AnswerKeeps DEF Methods, Named
<1>10. CASE Unknown
  <2>1. PICK method \in {"ANNOUNCE", ""} : Handling(method)
    BY <1>10 DEF Unknown
  <2>2. Reply("501") /\ UNCHANGED <<described, live, stopCh, senders, afterWrite>>
    BY <1>10 DEF Unknown, stateVars, senderVars
  <2>3. Quiet
    BY <1>1, <1>2, <2>2, Unmoved
  <2>4. method \in Methods /\ "501" \in Statuses
    BY DEF Methods, Statuses
  <2>5. QED BY <1>1, <2>1, <2>2, <2>3, <2>4, AnswerKeeps
<1>11. QED
  BY <1>3, <1>4, <1>5, <1>6, <1>7, <1>8, <1>9, <1>10 DEF Handler

\* A response that is written is the last answer, and names none of the PLAYs whose
\* frames are on their way.
LEMMA ResponseWritten ==
  ASSUME WireInv, WriteResponse
  PROVE  WireInv'
<1>1. /\ writer = Responder /\ writer' = Nobody /\ response # NoResponse
      /\ wire' = Append(wire, [is |-> "response", cseq |-> response.cseq])
      /\ log' = Append(log, response) /\ response' = NoResponse
      /\ UNCHANGED <<profile, script, sent, up, buffer, skip, request, described, live,
                     stopCh, senders, afterWrite>>
  BY DEF WireInv, Started, WriteResponse, Write, inVars, readVars, stateVars, senderVars
<1>2. Answers = Append(log, response) /\ Answers' = Answers /\ response \in Response
  BY <1>1 DEF Answers, WireInv, WireTypes
<1>3. InStep'
  BY <1>1, <1>2, StaysInStep DEF WireInv
<1>4. Numbered' /\ Sensible'
  BY <1>1, <1>2, StaysSensible DEF WireInv
<1>5. /\ log \in Seq(Response) /\ Len(log) \in Nat /\ DOMAIN log = 1..Len(log)
      /\ log' \in Seq(Response) /\ DOMAIN log' = 1..(Len(log) + 1)
      /\ \A i \in DOMAIN log : i \in DOMAIN log' /\ log'[i] = log[i]
      /\ log'[Len(log) + 1] = response
  <2>1. log \in Seq(Response)
    BY DEF WireInv, WireTypes
  <2>2. /\ log' \in Seq(Response) /\ Len(log') = Len(log) + 1 /\ Len(log) \in Nat
        /\ \A i \in 1..Len(log) : log'[i] = log[i]
        /\ log'[Len(log) + 1] = response
    BY <1>1, <1>2, <2>1, AppendProperties, LenProperties
  <2>3. DOMAIN log = 1..Len(log) /\ DOMAIN log' = 1..(Len(log) + 1)
    BY <2>1, <2>2, LenProperties
  <2>4. QED BY <2>1, <2>2, <2>3
<1>6. response.cseq = Len(log) + 1
  <2>1. Len(log) + 1 \in DOMAIN Answers /\ Answers[Len(log) + 1] = response
    BY <1>1, <1>2, <1>5
  <2>2. QED BY <2>1 DEF WireInv, Numbered
<1> DEFINE chunk == [is |-> "response", cseq |-> response.cseq]
<1>7. /\ wire \in Seq(Chunk) /\ chunk \in Chunk /\ Len(wire) \in Nat
      /\ wire' \in Seq(Chunk)
      /\ \A n \in DOMAIN wire' : \/ n \in DOMAIN wire /\ wire'[n] = wire[n]
                                 \/ n = Len(wire) + 1 /\ wire'[n] = chunk
      /\ \A n \in DOMAIN wire : n < Len(wire) + 1
  <2>1. wire \in Seq(Chunk) /\ chunk \in Chunk
    BY <1>5, <1>6 DEF WireInv, WireTypes, Chunk
  <2>2. wire' = Append(wire, chunk)
    BY <1>1
  <2> HIDE DEF chunk
  <2>3. /\ wire' \in Seq(Chunk) /\ Len(wire') = Len(wire) + 1 /\ Len(wire) \in Nat
        /\ \A i \in 1..Len(wire) : wire'[i] = wire[i]
        /\ wire'[Len(wire) + 1] = chunk
    BY <2>1, <2>2, AppendProperties, LenProperties
  <2>4. DOMAIN wire = 1..Len(wire) /\ DOMAIN wire' = 1..(Len(wire) + 1)
    BY <2>1, <2>3, LenProperties
  <2>5. QED BY <2>1, <2>3, <2>4
<1>8. WireTypes'
  BY <1>1, <1>5, <1>7 DEF WireInv, WireTypes
<1>9. Started'
  <2>1. afterWrite' => /\ buffer' = <<>> /\ request' = NoRequest /\ Answers' # <<>>
                       /\ Answers'[Len(Answers')].status = "200"
    BY <1>1, <1>2 DEF WireInv, Started
  <2>2. \A k \in DOMAIN senders' :
          senders'[k].play \in DOMAIN log' /\ log'[senders'[k].play].status = "200"
    BY <1>1, <1>5 DEF WireInv, Started
  <2>3. writer' # Responder
    BY <1>1 DEF Nobody, Responder
  <2>4. chunk.is = "response" /\ chunk.cseq \in DOMAIN log'
    BY <1>5, <1>6
  <2> HIDE DEF chunk
  <2>5. \A n \in DOMAIN wire' :
          /\ wire'[n].is = "frame" => wire'[n].sender \in DOMAIN senders'
          /\ wire'[n].is = "response" => wire'[n].cseq \in DOMAIN log'
    BY <1>1, <1>5, <1>7, <2>4 DEF WireInv, Started
  <2>6. QED BY <2>1, <2>2, <2>3, <2>5 DEF Started
<1>10. FramesFollowPlay'
  <2> SUFFICES ASSUME NEW n \in DOMAIN wire', wire'[n].is = "frame"
               PROVE  LET play == senders'[wire'[n].sender].play
                      IN  /\ play <= Len(log') /\ log'[play].status = "200"
                          /\ \A m \in DOMAIN wire' :
                               wire'[m].is = "response" /\ wire'[m].cseq = play => m < n
    BY DEF FramesFollowPlay
  <2> DEFINE play == senders[wire[n].sender].play
  <2>1. n \in DOMAIN wire /\ wire'[n] = wire[n]
    BY <1>7
  <2>2. play \in DOMAIN log /\ log[play].status = "200"
    BY <2>1 DEF WireInv, Started
  <2>3. \A m \in DOMAIN wire : wire[m].is = "response" /\ wire[m].cseq = play => m < n
    BY <2>1 DEF WireInv, FramesFollowPlay
  <2>4. play # Len(log) + 1 /\ play <= Len(log) + 1
    BY <1>5, <2>2
  <2>5. Len(log') = Len(log) + 1
    BY <1>5, LenProperties
  <2>6. senders'[wire'[n].sender].play = play
    BY <1>1, <2>1
  <2> HIDE DEF play
  <2>7. \A m \in DOMAIN wire' : wire'[m].is = "response" /\ wire'[m].cseq = play => m < n
    BY <1>6, <1>7, <2>3, <2>4
  <2>8. log'[play].status = "200"
    BY <1>5, <2>2
  <2>9. QED BY <2>4, <2>5, <2>6, <2>7, <2>8
<1>11. QED BY <1>3, <1>4, <1>8, <1>9, <1>10 DEF WireInv

LEMMA ResponseLocks ==
  ASSUME WireInv, LockForResponse
  PROVE  WireInv'
<1>1. /\ response # NoResponse
      /\ UNCHANGED <<profile, script, sent, up, buffer, skip, request, response, described,
                     live, stopCh, senders, afterWrite, wire, log>>
  BY DEF LockForResponse, Lock, inVars, readVars, stateVars, senderVars
<1>2. Answers' = Answers
  BY <1>1 DEF Answers
<1>3. InStep' /\ Numbered' /\ Sensible'
  BY <1>1, <1>2, StaysInStep, StaysSensible DEF WireInv
<1>4. Quiet
  BY <1>1, Unmoved DEF WireInv
<1>5. Started' /\ FramesFollowPlay'
  <2>1. afterWrite' => /\ buffer' = <<>> /\ request' = NoRequest /\ Answers' # <<>>
                       /\ Answers'[Len(Answers')].status = "200"
    BY <1>1, <1>2 DEF WireInv, Started
  <2>2. QED BY <1>1, <1>4, <2>1, StaysStarted, StaysOrdered
<1>6. WireTypes'
  BY <1>1 DEF WireInv, WireTypes
<1>7. QED BY <1>3, <1>5, <1>6 DEF WireInv

\* The client takes a chunk off the socket.
LEMMA ClientReads ==
  ASSUME WireInv, Read
  PROVE  WireInv'
<1>1. /\ wire # <<>> /\ wire' = Tail(wire)
      /\ UNCHANGED <<profile, script, sent, up, buffer, skip, request, response, described,
                     live, stopCh, senders, afterWrite, writer, log>>
  BY DEF Read, inVars, readVars, stateVars, senderVars
<1>2. Answers' = Answers
  BY <1>1 DEF Answers
<1>3. InStep' /\ Numbered' /\ Sensible'
  BY <1>1, <1>2, StaysInStep, StaysSensible DEF WireInv
<1>4. /\ wire' \in Seq(Chunk)
      /\ \A n \in DOMAIN wire' : n + 1 \in DOMAIN wire /\ wire'[n] = wire[n + 1] /\ n \in Nat
  <2>1. wire \in Seq(Chunk)
    BY DEF WireInv, WireTypes
  <2>2. /\ wire' \in Seq(Chunk) /\ Len(wire') = Len(wire) - 1 /\ Len(wire) \in Nat
        /\ \A n \in 1..Len(wire') : wire'[n] = wire[n + 1]
    BY <1>1, <2>1, HeadTailProperties, LenProperties
  <2>3. DOMAIN wire' = 1..Len(wire') /\ DOMAIN wire = 1..Len(wire)
    BY <2>1, <2>2, LenProperties
  <2>4. QED BY <2>2, <2>3
<1>5. WireTypes'
  BY <1>1, <1>4 DEF WireInv, WireTypes
<1>6. Started'
  BY <1>1, <1>2, <1>4 DEF WireInv, Started
<1>7. FramesFollowPlay'
  <2> SUFFICES ASSUME NEW n \in DOMAIN wire', wire'[n].is = "frame"
               PROVE  LET play == senders'[wire'[n].sender].play
                      IN  /\ play <= Len(log') /\ log'[play].status = "200"
                          /\ \A m \in DOMAIN wire' :
                               wire'[m].is = "response" /\ wire'[m].cseq = play => m < n
    BY DEF FramesFollowPlay
  <2> DEFINE play == senders[wire[n + 1].sender].play
  <2>1. n + 1 \in DOMAIN wire /\ wire'[n] = wire[n + 1] /\ n \in Nat
    BY <1>4
  <2>2. /\ play <= Len(log) /\ log[play].status = "200"
        /\ \A m \in DOMAIN wire : wire[m].is = "response" /\ wire[m].cseq = play => m < n + 1
    BY <2>1 DEF WireInv, FramesFollowPlay
  <2>3. senders'[wire'[n].sender].play = play
    BY <1>1, <2>1
  <2> HIDE DEF play
  <2>4. ASSUME NEW m \in DOMAIN wire', wire'[m].is = "response", wire'[m].cseq = play
        PROVE  m < n
    <3>1. m + 1 \in DOMAIN wire /\ wire'[m] = wire[m + 1] /\ m \in Nat
      BY <1>4
    <3>2. m + 1 < n + 1
      BY <2>2, <2>4, <3>1
    <3>3. QED BY <2>1, <3>1, <3>2
  <2>5. QED BY <1>1, <2>2, <2>3, <2>4
<1>8. QED BY <1>3, <1>5, <1>6, <1>7 DEF WireInv

\* The sender that starts after the response was started by the last answer.
LEMMA SenderStarts ==
  ASSUME WireInv, AfterWrite
  PROVE  WireInv'
<1>1. /\ afterWrite /\ response = NoResponse /\ afterWrite' = FALSE
      /\ senders' = Append(IF stopCh = 0 THEN senders ELSE Told(stopCh),
                           [at |-> "select", told |-> FALSE, play |-> log[Len(log)].cseq])
      /\ stopCh' = Len(senders')
      /\ UNCHANGED <<profile, script, sent, up, buffer, skip, request, response, described,
                     live, writer, wire, log>>
  BY DEF AfterWrite, inVars, readVars, stateVars, outVars
<1>2. Answers = log /\ Answers' = Answers
  BY <1>1 DEF Answers
<1>3. InStep' /\ Numbered' /\ Sensible'
  BY <1>1, <1>2, StaysInStep, StaysSensible DEF WireInv
<1>4. /\ log \in Seq(Response) /\ Len(log) \in Nat /\ DOMAIN log = 1..Len(log)
      /\ Len(log) \in DOMAIN log /\ log[Len(log)].cseq = Len(log)
      /\ log[Len(log)].status = "200"
  <2>1. log \in Seq(Response) /\ log # <<>> /\ log[Len(log)].status = "200"
    BY <1>1, <1>2 DEF WireInv, WireTypes, Started
  <2>2. Len(log) \in Nat \ {0} /\ DOMAIN log = 1..Len(log)
    BY <2>1, EmptySeq, LenProperties
  <2>3. Len(log) \in DOMAIN log
    BY <2>2
  <2>4. log[Len(log)].cseq = Len(log)
    BY <1>2, <2>3 DEF WireInv, Numbered
  <2>5. QED BY <2>1, <2>2, <2>3, <2>4
<1>5. PICK before : before = IF stopCh = 0 THEN senders ELSE Told(stopCh)
  OBVIOUS
<1>6. /\ before \in Seq(SenderOf) /\ DOMAIN before = DOMAIN senders
      /\ Len(before) = Len(senders)
      /\ \A i \in DOMAIN senders : before[i].play = senders[i].play
  <2>1. senders \in Seq(SenderOf) /\ DOMAIN senders = 1..Len(senders)
        /\ stopCh \in 0..Len(senders) /\ Len(senders) \in Nat
    BY LenProperties DEF WireInv, WireTypes
  <2>2. CASE stopCh = 0
    BY <1>5, <2>1, <2>2
  <2>3. CASE stopCh # 0
    <3>1. stopCh \in DOMAIN senders /\ before = Told(stopCh)
      BY <1>5, <2>1, <2>3
    <3>2. PICK next : next = [senders[stopCh] EXCEPT !.told = TRUE]
      OBVIOUS
    <3>3. senders[stopCh] \in SenderOf
      BY <2>1, <3>1, ElementOfSeq
    <3>4. next \in SenderOf /\ next.play = senders[stopCh].play
      BY <3>2, <3>3 DEF SenderOf
    <3>5. before = [senders EXCEPT ![stopCh] = next]
      BY <3>1, <3>2 DEF Told
    <3>6. QED BY <3>1, <3>4, <3>5, Marked DEF WireInv
  <2>4. QED BY <2>2, <2>3
<1>7. PICK new : new = [at |-> "select", told |-> FALSE, play |-> Len(log)]
  OBVIOUS
<1>8. new \in SenderOf /\ new.play = Len(log) /\ senders' = Append(before, new)
  BY <1>1, <1>4, <1>5, <1>7 DEF SenderOf
<1>9. /\ senders' \in Seq(SenderOf) /\ Len(senders') \in Nat
      /\ \A k \in DOMAIN senders : k \in DOMAIN senders' /\ senders'[k].play = senders[k].play
      /\ \A k \in DOMAIN senders' : k \in DOMAIN senders \/ senders'[k].play = Len(log)
  <2>1. /\ senders' \in Seq(SenderOf) /\ Len(senders') = Len(before) + 1 /\ Len(before) \in Nat
        /\ \A i \in 1..Len(before) : senders'[i] = before[i]
        /\ senders'[Len(before) + 1] = new
    BY <1>6, <1>8, AppendProperties, LenProperties
  <2>2. DOMAIN before = 1..Len(before) /\ DOMAIN senders' = 1..(Len(before) + 1)
    BY <1>6, <2>1, LenProperties
  <2>3. QED BY <1>6, <1>8, <2>1, <2>2
<1>10. WireTypes'
  <2>1. stopCh' \in 0..Len(senders')
    BY <1>1, <1>9
  <2>2. QED BY <1>1, <1>9, <2>1 DEF WireInv, WireTypes
<1>11. Started'
  <2>1. \A k \in DOMAIN senders' :
          senders'[k].play \in DOMAIN log' /\ log'[senders'[k].play].status = "200"
    BY <1>1, <1>4, <1>9 DEF WireInv, Started
  <2>2. QED BY <1>1, <1>9, <2>1 DEF WireInv, Started
<1>12. FramesFollowPlay'
  <2>1. \A n \in DOMAIN wire : wire[n].is = "frame" =>
          senders'[wire[n].sender].play = senders[wire[n].sender].play
    BY <1>9 DEF WireInv, Started
  <2>2. wire' = wire /\ log' = log
    BY <1>1
  <2>3. QED BY <2>1, <2>2 DEF WireInv, FramesFollowPlay
<1>13. QED BY <1>3, <1>10, <1>11, <1>12 DEF WireInv

\* A frame that is written follows every response written before it, the one to the
\* PLAY that caused it among them.
LEMMA FrameWritten ==
  ASSUME WireInv, NEW k \in DOMAIN senders, Write([is |-> "frame", sender |-> k]),
         NEW place \in {"select", "gone"}, Goto(k, place), stopCh' \in {0, stopCh},
         UNCHANGED <<profile, script, sent, up, buffer, skip, request, response, described,
                     live, afterWrite, log>>
  PROVE  WireInv'
<1>1. wire' = Append(wire, [is |-> "frame", sender |-> k]) /\ writer' = Nobody
  BY DEF Write
<1>2. Answers' = Answers
  BY DEF Answers
<1>3. InStep' /\ Numbered' /\ Sensible'
  BY <1>2, StaysInStep, StaysSensible DEF WireInv
<1>4. /\ senders' \in Seq(SenderOf) /\ DOMAIN senders' = DOMAIN senders
      /\ Len(senders') = Len(senders)
      /\ \A i \in DOMAIN senders : senders'[i].play = senders[i].play
  BY Moved DEF WireInv
<1>5. PICK chunk : chunk = [is |-> "frame", sender |-> k]
  OBVIOUS
<1>6. /\ wire' \in Seq(Chunk) /\ Len(wire) \in Nat
      /\ \A n \in DOMAIN wire' : \/ n \in DOMAIN wire /\ wire'[n] = wire[n] /\ n < Len(wire) + 1
                                 \/ n = Len(wire) + 1 /\ wire'[n] = chunk
  <2>1. wire \in Seq(Chunk)
    BY DEF WireInv, WireTypes
  <2>2. k \in Nat
    BY LenProperties DEF WireInv, WireTypes
  <2>3. chunk \in Chunk /\ wire' = Append(wire, chunk)
    BY <1>1, <1>5, <2>2 DEF Chunk
  <2>4. /\ wire' \in Seq(Chunk) /\ Len(wire') = Len(wire) + 1 /\ Len(wire) \in Nat
        /\ \A i \in 1..Len(wire) : wire'[i] = wire[i]
        /\ wire'[Len(wire) + 1] = chunk
    BY <2>1, <2>3, AppendProperties, LenProperties
  <2>5. DOMAIN wire = 1..Len(wire) /\ DOMAIN wire' = 1..(Len(wire) + 1)
    BY <2>1, <2>4, LenProperties
  <2>6. QED BY <2>4, <2>5
<1>7. chunk.is = "frame" /\ chunk.sender = k
  BY <1>5
<1>8. WireTypes'
  <2>1. stopCh' \in 0..Len(senders')
    BY <1>4, LenProperties DEF WireInv, WireTypes
  <2>2. QED BY <1>4, <1>6, <2>1 DEF WireInv, WireTypes
<1>9. Started'
  <2>1. writer' # Responder
    BY <1>1 DEF Nobody, Responder
  <2>2. \A i \in DOMAIN senders' :
          senders'[i].play \in DOMAIN log' /\ log'[senders'[i].play].status = "200"
    BY <1>4 DEF WireInv, Started
  <2>3. \A n \in DOMAIN wire' :
          /\ wire'[n].is = "frame" => wire'[n].sender \in DOMAIN senders'
          /\ wire'[n].is = "response" => wire'[n].cseq \in DOMAIN log'
    BY <1>4, <1>6, <1>7 DEF WireInv, Started
  <2>4. QED BY <1>2, <2>1, <2>2, <2>3 DEF WireInv, Started
<1>10. FramesFollowPlay'
  <2> SUFFICES ASSUME NEW n \in DOMAIN wire', wire'[n].is = "frame"
               PROVE  LET play == senders'[wire'[n].sender].play
                      IN  /\ play <= Len(log') /\ log'[play].status = "200"
                          /\ \A m \in DOMAIN wire' :
                               wire'[m].is = "response" /\ wire'[m].cseq = play => m < n
    BY DEF FramesFollowPlay
  <2>1. CASE n \in DOMAIN wire /\ wire'[n] = wire[n] /\ n < Len(wire) + 1
    <3>1. PICK play : play = senders[wire[n].sender].play
      OBVIOUS
    <3>2. /\ play <= Len(log) /\ log[play].status = "200"
          /\ \A m \in DOMAIN wire : wire[m].is = "response" /\ wire[m].cseq = play => m < n
      BY <2>1, <3>1 DEF WireInv, FramesFollowPlay
    <3>3. senders'[wire'[n].sender].play = play
      BY <1>4, <2>1, <3>1 DEF WireInv, Started
    <3>4. \A m \in DOMAIN wire' : wire'[m].is = "response" /\ wire'[m].cseq = play => m < n
      BY <1>6, <1>7, <3>2
    <3>5. QED BY <3>2, <3>3, <3>4
  <2>2. CASE n = Len(wire) + 1 /\ wire'[n] = chunk
    <3>1. senders'[wire'[n].sender].play = senders[k].play
      BY <1>4, <1>7, <2>2
    <3>2. senders[k].play \in DOMAIN log /\ log[senders[k].play].status = "200"
      BY DEF WireInv, Started
    <3>3. senders[k].play <= Len(log)
      BY <3>2, LenProperties DEF WireInv, WireTypes
    <3>4. \A m \in DOMAIN wire' : wire'[m].is = "response" => m < n
      BY <1>6, <1>7, <2>2
    <3>5. QED BY <3>1, <3>2, <3>3, <3>4
  <2>3. QED BY <1>6, <2>1, <2>2
<1>11. QED BY <1>3, <1>8, <1>9, <1>10 DEF WireInv

\* A sender that locks, waits or ends writes nothing.
LEMMA SenderMoves ==
  ASSUME WireInv, NEW k \in DOMAIN senders,
         NEW place \in {"select", "frame", "write", "gone"}, Goto(k, place),
         writer' = writer \/ writer' = k,
         UNCHANGED <<profile, script, sent, up, buffer, skip, request, response, described,
                     live, stopCh, afterWrite, wire, log>>
  PROVE  WireInv'
<1>1. Answers' = Answers
  BY DEF Answers
<1>2. InStep' /\ Numbered' /\ Sensible'
  BY <1>1, StaysInStep, StaysSensible DEF WireInv
<1>3. Quiet /\ Len(senders') = Len(senders) /\ senders' \in Seq(SenderOf)
  BY Moved DEF WireInv, Quiet
<1>4. WireTypes'
  BY <1>3 DEF WireInv, WireTypes
<1>5. Started' /\ FramesFollowPlay'
  <2>1. k # Responder
    BY LenProperties DEF WireInv, WireTypes, Responder
  <2>2. writer' = Responder => response' # NoResponse
    BY <2>1 DEF WireInv, Started
  <2>3. afterWrite' => /\ buffer' = <<>> /\ request' = NoRequest /\ Answers' # <<>>
                       /\ Answers'[Len(Answers')].status = "200"
    BY <1>1 DEF WireInv, Started
  <2>4. QED BY <1>3, <2>2, <2>3, StaysStarted, StaysOrdered
<1>6. QED BY <1>2, <1>4, <1>5 DEF WireInv

LEMMA SenderKeeps ==
  ASSUME WireInv, NEW k \in DOMAIN senders, Sender(k)
  PROVE  WireInv'
<1>1. UNCHANGED <<profile, script, sent, up, buffer, skip, request, response, described,
                  live, afterWrite>>
  BY DEF Sender, TakeStop, TakeTick, LockForFrame, WriteFrame, Limit, SenderRest, inVars,
         readVars, stateVars
<1>2. CASE TakeStop(k) \/ TakeTick(k)
  <2>1. \E place \in {"select", "frame", "write", "gone"} : Goto(k, place)
    BY <1>2 DEF TakeStop, TakeTick
  <2>2. UNCHANGED <<stopCh, writer, wire, log>>
    BY <1>2 DEF TakeStop, TakeTick, SenderRest, outVars
  <2>3. QED BY <1>1, <2>1, <2>2, SenderMoves
<1>3. CASE LockForFrame(k)
  <2>1. Goto(k, "write") /\ writer' = k /\ UNCHANGED <<stopCh, wire, log>>
    BY <1>3 DEF LockForFrame, Lock, SenderRest
  <2>2. QED BY <1>1, <2>1, SenderMoves
<1>4. CASE WriteFrame(k)
  <2>1. Write([is |-> "frame", sender |-> k]) /\ Goto(k, "select") /\ UNCHANGED <<stopCh, log>>
    BY <1>4 DEF WriteFrame, SenderRest
  <2>2. QED BY <1>1, <2>1, FrameWritten
<1>5. CASE Limit(k)
  <2>1. /\ Write([is |-> "frame", sender |-> k]) /\ Goto(k, "gone") /\ log' = log
        /\ stopCh' \in {0, stopCh}
    BY <1>5 DEF Limit
  <2>2. QED BY <1>1, <2>1, FrameWritten
<1>6. QED BY <1>2, <1>3, <1>4, <1>5 DEF Sender

LEMMA WireStep ==
  ASSUME WireInv, [Next]_vars
  PROVE  WireInv'
<1>1. CASE UNCHANGED vars
  <2>1. /\ UNCHANGED <<profile, script, sent, up, buffer, skip, request, response, described,
                       live, stopCh, afterWrite, senders, writer, wire, log>>
    BY <1>1 DEF vars
  <2>2. Answers' = Answers
    BY <2>1 DEF Answers
  <2>3. InStep'
    BY <2>1, <2>2, StaysInStep DEF WireInv
  <2>4. sent' \in 0..Len(script') /\ up' \in Seq(Token) /\ skip' \in Nat
    BY <2>1 DEF WireInv, WireTypes
  <2>5. QED BY <2>1, <2>3, <2>4, UpstreamKeeps
<1>2. CASE Send \/ Read
  BY <1>2, ClientSends, ClientReads
<1>3. CASE Connection
  BY <1>3, ServerReads, HandlerAnswers, ResponseWritten, SenderStarts DEF Connection
<1>4. CASE LockForResponse
  BY <1>4, ResponseLocks
<1>5. CASE \E k \in DOMAIN senders : Sender(k)
  BY <1>5, SenderKeeps
<1>6. QED BY <1>1, <1>2, <1>3, <1>4, <1>5 DEF Next

\* However the bytes of requests, bodies and frames come in, the server is in step with
\* the client: what is unread is the rest of one item and then whole items, and what it
\* answered is what it read (readRequest, handleRequestWithState, writeResponse).
THEOREM WireInvariant == Spec => []WireInv
<1>1. Init => WireInv
  BY WireInit
<1>2. WireInv /\ [Next]_vars => WireInv'
  BY WireStep
<1>3. QED BY <1>1, <1>2, PTL DEF Spec

\* The invariant gives the three properties.
LEMMA AsRead ==
  ASSUME WireInv
  PROVE  AnswersInOrder
<1>1. /\ script \in Seq(Requests \cup Frames) /\ sent \in Nat
      /\ log \in Seq(Response) /\ Len(log) \in Nat /\ DOMAIN log = 1..Len(log)
      /\ response \in Response \cup {NoResponse}
  BY LenProperties DEF WireInv, WireTypes
<1>2. /\ Len(log) <= Len(Answers) /\ DOMAIN log \subseteq DOMAIN Answers
      /\ \A i \in DOMAIN log : Answers[i] = log[i]
  <2>1. CASE response = NoResponse
    BY <1>1, <2>1 DEF Answers
  <2>2. CASE response # NoResponse
    <3>1. /\ Answers \in Seq(Response) /\ Len(Answers) = Len(log) + 1
          /\ \A i \in 1..Len(log) : Answers[i] = log[i]
      BY <1>1, <2>2, AppendProperties DEF Answers
    <3>2. DOMAIN Answers = 1..(Len(log) + 1)
      BY <3>1, LenProperties
    <3>3. QED BY <1>1, <3>1, <3>2
  <2>3. QED BY <2>1, <2>2
<1>3. \A i \in DOMAIN log : log[i].cseq = i
  BY <1>2 DEF WireInv, Numbered
<1>4. PICK n \in 0..sent : Len(Answers) = CSeq(n) - (IF Open THEN 1 ELSE 0)
  BY DEF WireInv, InStep, Begun
<1>5. n \in Nat /\ n <= sent /\ CSeq(n) \in Nat /\ CSeq(sent) \in Nat /\ CSeq(n) <= CSeq(sent)
  <2>1. n \in Nat /\ n <= sent
    BY <1>1
  <2>2. QED BY <1>1, <2>1, Numbers
<1>6. Len(Answers) <= CSeq(n) /\ Len(Answers) \in Int
  BY <1>4, <1>5
<1>7. Len(log) <= CSeq(sent)
  BY <1>1, <1>2, <1>5, <1>6
<1>8. QED BY <1>3, <1>7 DEF AnswersInOrder

\* The responses carry the CSeqs of the requests in order, each once, and answer
\* nothing but requests that were sent.
THEOREM AnswersInOrderHolds == Spec => []AnswersInOrder
<1>1. WireInv => AnswersInOrder
  BY AsRead
<1>2. QED BY <1>1, WireInvariant, PTL

\* The 200 of a PLAY precedes the first frame it causes, on one socket.
THEOREM FramesFollowPlayHolds == Spec => []FramesFollowPlay
<1>1. WireInv => FramesFollowPlay
  BY DEF WireInv
<1>2. QED BY <1>1, WireInvariant, PTL

LEMMA AsAnswered ==
  ASSUME WireInv
  PROVE  StatusesMakeSense
<1> SUFFICES ASSUME NEW i \in DOMAIN log, log[i].status = "200"
             PROVE  /\ Method(i) \in {"PLAY", "PAUSE", "GET_PARAMETER"} =>
                         /\ Session(i) = "mine"
                         /\ \E j \in 1..(i - 1) :
                              /\ Method(j) = "SETUP" /\ log[j].status = "200"
                              /\ \A n \in j..i : ~(Method(n) = "TEARDOWN" /\ Session(n) = "mine")
                    /\ Method(i) = "SETUP" => /\ ~profile.busy
                                              /\ profile.requireDescribe =>
                                                   \E j \in 1..(i - 1) : Method(j) = "DESCRIBE"
  BY DEF StatusesMakeSense, Method, Session
<1>1. /\ log \in Seq(Response) /\ Len(log) \in Nat /\ DOMAIN log = 1..Len(log)
      /\ response \in Response \cup {NoResponse}
  BY LenProperties DEF WireInv, WireTypes
<1>2. DOMAIN log \subseteq DOMAIN Answers /\ \A j \in DOMAIN log : Answers[j] = log[j]
  <2>1. CASE response = NoResponse
    BY <1>1, <2>1 DEF Answers
  <2>2. CASE response # NoResponse
    <3>1. /\ Answers \in Seq(Response) /\ Len(Answers) = Len(log) + 1
          /\ \A j \in 1..Len(log) : Answers[j] = log[j]
      BY <1>1, <2>2, AppendProperties DEF Answers
    <3>2. DOMAIN Answers = 1..(Len(log) + 1)
      BY <3>1, LenProperties
    <3>3. QED BY <1>1, <3>1, <3>2
  <2>3. QED BY <2>1, <2>2
<1>3. Done(i) /\ i \in DOMAIN Answers
  BY <1>2 DEF Done
<1>4. /\ Method(i) \in {"PLAY", "PAUSE", "GET_PARAMETER"} => Session(i) = "mine" /\ AliveAt(i)
      /\ Method(i) = "SETUP" => /\ ~profile.busy
                                /\ profile.requireDescribe =>
                                     \E j \in 1..(i - 1) : Method(j) = "DESCRIBE"
  BY <1>3 DEF WireInv, Sensible
<1>5. ASSUME Method(i) \in {"PLAY", "PAUSE", "GET_PARAMETER"}
      PROVE  \E j \in 1..(i - 1) : /\ Method(j) = "SETUP" /\ log[j].status = "200"
                                   /\ \A n \in j..i : ~EndsIt(n)
  <2>1. PICK j \in 1..i : Method(j) = "SETUP" /\ Done(j) /\ \A n \in j..i : ~EndsIt(n)
    BY <1>4, <1>5 DEF AliveAt
  <2>2. j # i
    BY <1>5, <2>1
  <2>3. j \in 1..(i - 1) /\ j \in DOMAIN log
    BY <1>1, <2>2
  <2>4. QED BY <1>2, <2>1, <2>3 DEF Done
<1>6. QED BY <1>4, <1>5 DEF EndsIt

\* A client that goes by the statuses knows where its session is.
THEOREM StatusesMakeSenseHolds == Spec => []StatusesMakeSense
<1>1. WireInv => StatusesMakeSense
  BY AsAnswered
<1>2. QED BY <1>1, WireInvariant, PTL
=============================================================================
