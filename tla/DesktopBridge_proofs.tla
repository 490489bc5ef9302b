------------------------ MODULE DesktopBridge_proofs -------------------------
(***************************************************************************)
(* The client's answers are its own, and a connection with a request given *)
(* up gives no more, for every set of operations and methods and every     *)
(* number of requests and restarts of the bridge.                          *)
(***************************************************************************)
EXTENDS DesktopBridge, SequenceTheorems, TLAPS

\* The session of a client that is not connected.
LEMMA NoSession == [generation |-> 1, available |-> {}] \in Session
  <1>1. 1 \in Generations
    BY BridgeBounds DEF Generations
  <1> QED  BY <1>1 DEF Session

\* A request carries the generation of the session.
LEMMA RequestTyped ==
    ASSUME TypeOK, NEW op \in Ops, sent < MaxRequests
    PROVE  [id |-> sent + 1, op |-> op, generation |-> session.generation] \in Asked
  BY BridgeBounds DEF TypeOK, Asked, Ids, Session, Generations

\* A frame the bridge read leaves a typed rest of the outbox.
LEMMA OutboxTail ==
    ASSUME TypeOK, outbox # <<>>
    PROVE  Head(outbox) \in ToBridge /\ Tail(outbox) \in Seq(ToBridge)
  BY DEF TypeOK

\* A frame the client read leaves a typed rest of the inbox.
LEMMA InboxTail ==
    ASSUME TypeOK, inbox # <<>>
    PROVE  Head(inbox) \in ToClient /\ Tail(inbox) \in Seq(ToClient)
  BY DEF TypeOK

\* What is left of the inbox behind its first k frames.
LEMMA InboxRest ==
    ASSUME TypeOK, NEW k \in 1..Len(inbox)
    PROVE  /\ SubSeq(inbox, k + 1, Len(inbox)) \in Seq(ToClient)
           /\ \A n \in 1..Len(SubSeq(inbox, k + 1, Len(inbox))) :
                \E m \in 1..Len(inbox) : SubSeq(inbox, k + 1, Len(inbox))[n] = inbox[m]
  <1> DEFINE rest == SubSeq(inbox, k + 1, Len(inbox))
  <1>1. inbox \in Seq(ToClient) /\ Len(inbox) \in Nat
    BY DEF TypeOK
  <1>2. rest \in Seq(ToClient)
    BY <1>1
  <1>3. Len(rest) = Len(inbox) - k /\ \A n \in 1..(Len(inbox) - k) : rest[n] = inbox[n + k]
    BY <1>1, SubSeqProperties
  <1>4. \A n \in 1..(Len(inbox) - k) : n + k \in 1..Len(inbox)
    BY <1>1
  <1> QED  BY <1>2, <1>3, <1>4

\* What is left of the outbox behind its first k frames, with a part in front or without.
LEMMA OutboxRest ==
    ASSUME TypeOK, NEW k \in 2..Len(outbox)
    PROVE  /\ SubSeq(outbox, k + 1, Len(outbox)) \in Seq(ToBridge)
           /\ <<Part>> \o SubSeq(outbox, k + 1, Len(outbox)) \in Seq(ToBridge)
  <1> DEFINE rest == SubSeq(outbox, k + 1, Len(outbox))
  <1>1. outbox \in Seq(ToBridge) /\ Len(outbox) \in Nat
    BY DEF TypeOK
  <1>2. rest \in Seq(ToBridge)
    BY <1>1
  <1>3. <<Part>> \in Seq(ToBridge)
    BY DEF Part, ToBridge
  <1> HIDE DEF rest
  <1>4. <<Part>> \o rest \in Seq(ToBridge)
    BY <1>2, <1>3
  <1> QED  BY <1>2, <1>4 DEF rest

\* The bridge appends a typed frame to the inbox and takes one off the outbox.
LEMMA BridgeSendsTyped ==
    ASSUME TypeOK, outbox # <<>>, NEW f \in ToClient, BridgeSends(f), answers' \subseteq Answer
    PROVE  TypeOK'
  BY OutboxTail DEF TypeOK, BridgeSends

(***************************************************************************)
(* Client, bridge and the frames between them keep their types.            *)
(***************************************************************************)
THEOREM TypeCorrect == Spec => []TypeOK
  <1>1. Init => TypeOK
    <2>1. <<>> \in Seq(ToBridge) /\ <<>> \in Seq(ToClient)
      OBVIOUS
    <2>2. 1 \in Generations /\ 0 \in 0..MaxRequests
      BY BridgeBounds DEF Generations
    <2>3. {} \subseteq Answer
      OBVIOUS
    <2> QED  BY <2>1, <2>2, <2>3, NoSession DEF Init, TypeOK
  <1>2. TypeOK /\ [Next]_vars => TypeOK'
    <2> SUFFICES ASSUME TypeOK, [Next]_vars PROVE TypeOK'
      OBVIOUS
    <2>1. CASE Connect
      <3>1. <<[type |-> "hello"]>> \in Seq(ToBridge)
        BY DEF ToBridge
      <3> QED  BY <2>1, <3>1 DEF Connect, TypeOK, history
    <2>2. CASE Welcome
      <3>1. Head(inbox) \in ToClient /\ Tail(inbox) \in Seq(ToClient)
        BY <2>2, InboxTail DEF Welcome
      <3>2. Head(inbox).session \in Session
        BY <2>2, <3>1 DEF Welcome, ToClient
      <3> QED  BY <2>2, <3>1, <3>2 DEF Welcome, TypeOK, history
    <2>3. CASE HandshakeFailed \/ Close
      <3>1. <<>> \in Seq(ToBridge) /\ <<>> \in Seq(ToClient)
        OBVIOUS
      <3> QED  BY <2>3, <3>1, NoSession DEF HandshakeFailed, Close, Disconnected, TypeOK
    <2>4. CASE \E op \in Ops, m \in Methods : Request(op, m)
      <3>1. PICK op \in Ops, m \in Methods : Request(op, m)
        BY <2>4
      <3> DEFINE a == [id |-> sent + 1, op |-> op, generation |-> session.generation]
      <3>2. a \in Asked
        BY <3>1, RequestTyped DEF Request
      <3>3. [type |-> "request", asked |-> a] \in ToBridge
        BY <3>2 DEF ToBridge
      <3>4. outbox' \in Seq(ToBridge)
        BY <3>1, <3>3 DEF Request, TypeOK
      <3>5. asked' = a /\ sent' \in 0..MaxRequests
        BY <3>1, BridgeBounds DEF Request, TypeOK
      <3> QED  BY <3>1, <3>2, <3>4, <3>5 DEF Request, TypeOK, history
    <2>5. CASE \E m \in Methods : SendFailed(m)
      <3>1. sent' \in 0..MaxRequests
        BY <2>5, BridgeBounds DEF SendFailed, TypeOK
      <3>2. outbox' \in Seq(ToBridge) /\ linked' \in BOOLEAN
        <4>1. Part \in ToBridge
          BY DEF Part, ToBridge
        <4>2. outbox \in Seq(ToBridge) /\ linked \in BOOLEAN
          BY DEF TypeOK
        <4>3. outbox' = outbox \/ outbox' = Append(outbox, Part)
          BY <2>5 DEF SendFailed
        <4>4. linked' = FALSE \/ linked' = linked
          BY <2>5 DEF SendFailed
        <4>5. outbox' \in Seq(ToBridge)
          BY <4>1, <4>2, <4>3
        <4> QED  BY <4>2, <4>4, <4>5
      <3> QED  BY <2>5, <3>1, <3>2 DEF SendFailed, TypeOK, history
    <2>6. CASE Receive
      <3>1. Head(inbox) \in ToClient /\ Tail(inbox) \in Seq(ToClient) /\ asked \in Asked
        BY <2>6, InboxTail DEF Receive, TypeOK
      <3>2. Head(inbox).type = "response" => Head(inbox).answer \in Answer
        BY <3>1 DEF ToClient
      <3> QED  BY <2>6, <3>1, <3>2 DEF Receive, TypeOK
    <2>7. CASE GiveUp \/ GiveUpInside \/ RefuseLength
      BY <2>7 DEF GiveUp, GiveUpInside, RefuseLength, wire, TypeOK
    <2>8. CASE ReceiveTorn
      BY <2>8, InboxRest DEF ReceiveTorn, TypeOK, history
    <2>9. CASE BridgeWelcomes
      <3>1. PICK M \in SUBSET Methods :
              BridgeSends([type |-> "hello_ack",
                           session |-> [generation |-> generation, available |-> M]])
        BY <2>9 DEF BridgeWelcomes
      <3>2. [type |-> "hello_ack", session |-> [generation |-> generation, available |-> M]]
              \in ToClient
        BY DEF ToClient, Session, TypeOK
      <3> QED  BY <2>9, <3>1, <3>2, BridgeSendsTyped DEF BridgeWelcomes, BridgeReads, TypeOK
    <2>10. CASE BridgeAnswers
      <3> DEFINE a == Head(outbox).asked
                 b(s) == [id |-> a.id, op |-> a.op, generation |-> generation, status |-> s]
      <3>1. PICK s \in {"succeeded", "bogus"} :
              BridgeSends([type |-> "response", answer |-> b(s)]) /\ answers' = answers \cup {b(s)}
        BY <2>10 DEF BridgeAnswers
      <3>2. a \in Asked
        BY <2>10, OutboxTail DEF BridgeAnswers, BridgeReads, ToBridge
      <3>3. b(s) \in Answer
        BY <3>2 DEF Asked, Answer, AllowedStatuses, TypeOK
      <3>4. [type |-> "response", answer |-> b(s)] \in ToClient
        BY <3>3 DEF ToClient
      <3>5. answers' \subseteq Answer
        BY <3>1, <3>3 DEF TypeOK
      <3> QED  BY <2>10, <3>1, <3>4, <3>5, BridgeSendsTyped DEF BridgeAnswers, BridgeReads
    <2>11. CASE BridgeRefuses
      <3>1. [type |-> "error"] \in ToClient
        BY DEF ToClient
      <3> QED  BY <2>11, <3>1, BridgeSendsTyped DEF BridgeRefuses, BridgeReads, TypeOK
    <2>12. CASE BridgeIgnores
      BY <2>12, OutboxTail DEF BridgeIgnores, BridgeReads, TypeOK
    <2>13. CASE BridgeRestarts
      <3>1. generation' \in Generations
        BY <2>13, BridgeBounds DEF BridgeRestarts, TypeOK, Generations
      <3>2. linked' \in BOOLEAN
        BY <2>13 DEF BridgeRestarts, TypeOK
      <3> QED  BY <2>13, <3>1, <3>2 DEF BridgeRestarts, TypeOK, history
    <2>14. CASE BridgeMisreads
      <3>1. outbox' \in Seq(ToBridge)
        BY <2>14, OutboxRest DEF BridgeMisreads
      <3>2. inbox' \in Seq(ToClient)
        <4>1. [type |-> "error"] \in ToClient
          BY DEF ToClient
        <4>2. inbox \in Seq(ToClient)
          BY DEF TypeOK
        <4>3. inbox' = inbox \/ inbox' = Append(inbox, [type |-> "error"])
          BY <2>14 DEF BridgeMisreads
        <4> QED  BY <4>1, <4>2, <4>3
      <3> QED  BY <2>14, <3>1, <3>2 DEF BridgeMisreads, TypeOK
    <2>15. CASE UNCHANGED vars
      BY <2>15 DEF vars, TypeOK
    <2> QED  BY <2>1, <2>2, <2>3, <2>4, <2>5, <2>6, <2>7, <2>8, <2>9, <2>10, <2>11, <2>12,
                <2>13, <2>14, <2>15 DEF Next
  <1> QED  BY <1>1, <1>2, PTL DEF Spec

-----------------------------------------------------------------------------

\* Every response on its way was made by the bridge, and while the client waits its
\* request and its session are of one generation.
AnswerInv ==
    /\ \A n \in 1..Len(inbox) : inbox[n].type = "response" => inbox[n].answer \in answers
    /\ phase = "waiting" => asked.generation = session.generation
    /\ OwnAnswer

\* A step of the bridge that sends frame f keeps it, if f is honest.
LEMMA BridgeSendsHonest ==
    ASSUME TypeOK, AnswerInv, NEW f, BridgeSends(f), answers \subseteq answers',
           f.type = "response" => f.answer \in answers'
    PROVE  AnswerInv'
  <1>1. Len(inbox') = Len(inbox) + 1 /\ inbox'[Len(inbox) + 1] = f
        /\ \A n \in 1..Len(inbox) : inbox'[n] = inbox[n]
    BY DEF BridgeSends, TypeOK
  <1>2. \A n \in 1..Len(inbox') : n \in 1..Len(inbox) \/ n = Len(inbox) + 1
    BY <1>1 DEF TypeOK
  <1> QED  BY <1>1, <1>2 DEF BridgeSends, AnswerInv, OwnAnswer

(***************************************************************************)
(* request() returns only what the bridge answered to that request, under  *)
(* the generation it was made for, whatever was given up, torn, lost or    *)
(* restarted before.                                                       *)
(***************************************************************************)
THEOREM AnswersCorrect == Spec => []OwnAnswer
  <1>1. Init => AnswerInv
    BY DEF Init, AnswerInv, OwnAnswer
  <1>2. TypeOK /\ AnswerInv /\ [Next]_vars => AnswerInv'
    <2> SUFFICES ASSUME TypeOK, AnswerInv, [Next]_vars PROVE AnswerInv'
      OBVIOUS
    <2>1. CASE Connect \/ (\E m \in Methods : SendFailed(m)) \/ BridgeIgnores
                \/ BridgeRestarts \/ UNCHANGED vars
      BY <2>1 DEF Connect, SendFailed, BridgeIgnores, BridgeRestarts, vars, history, AnswerInv, OwnAnswer
    <2>2. CASE Welcome \/ Receive
      <3>1. inbox # <<>> /\ inbox' = Tail(inbox) /\ answers' = answers
        BY <2>2 DEF Welcome, Receive, history
      <3>2. \A n \in 1..Len(inbox') : n + 1 \in 1..Len(inbox) /\ inbox'[n] = inbox[n + 1]
        BY <3>1 DEF TypeOK
      <3>3. \A n \in 1..Len(inbox') : inbox'[n].type = "response" => inbox'[n].answer \in answers'
        BY <3>1, <3>2 DEF AnswerInv
      <3>4. phase' = "ready"
        BY <2>2 DEF Welcome, Receive
      <3>5. Head(inbox) = inbox[1] /\ 1 \in 1..Len(inbox)
        BY <3>1 DEF TypeOK
      <3>6. OwnAnswer'
        BY <2>2, <3>5 DEF Welcome, Receive, history, Accepts, AnswerInv, OwnAnswer
      <3> QED  BY <3>3, <3>4, <3>6 DEF AnswerInv
    <2>3. CASE HandshakeFailed \/ Close
      BY <2>3 DEF HandshakeFailed, Close, Disconnected, AnswerInv, OwnAnswer
    <2>4. CASE \E op \in Ops, m \in Methods : Request(op, m)
      BY <2>4 DEF Request, history, AnswerInv, OwnAnswer
    <2>5. CASE GiveUp \/ GiveUpInside \/ RefuseLength
      BY <2>5 DEF GiveUp, GiveUpInside, RefuseLength, wire, AnswerInv, OwnAnswer
    <2>6. CASE ReceiveTorn
      <3>1. PICK k \in 1..Len(inbox) : inbox' = SubSeq(inbox, k + 1, Len(inbox))
        BY <2>6 DEF ReceiveTorn
      <3>2. \A n \in 1..Len(inbox') : \E m \in 1..Len(inbox) : inbox'[n] = inbox[m]
        BY <3>1, InboxRest
      <3> QED  BY <2>6, <3>2 DEF ReceiveTorn, history, AnswerInv, OwnAnswer
    <2>7. CASE BridgeWelcomes \/ BridgeRefuses
      BY <2>7, BridgeSendsHonest DEF BridgeWelcomes, BridgeRefuses
    <2>8. CASE BridgeAnswers
      BY <2>8, BridgeSendsHonest DEF BridgeAnswers
    <2>9. CASE BridgeMisreads
      <3> DEFINE e == [type |-> "error"]
      <3>1. e.type # "response"
        OBVIOUS
      <3> HIDE DEF e
      <3>2. inbox' = inbox \/ inbox' = Append(inbox, e)
        BY <2>9 DEF BridgeMisreads, e
      <3>3. \A n \in 1..Len(inbox') :
              inbox'[n] = e \/ (n \in 1..Len(inbox) /\ inbox'[n] = inbox[n])
        BY <3>2 DEF TypeOK
      <3>4. \A n \in 1..Len(inbox') : inbox'[n].type = "response" => inbox'[n].answer \in answers
        BY <3>1, <3>3 DEF AnswerInv
      <3> QED  BY <2>9, <3>4 DEF BridgeMisreads, AnswerInv, OwnAnswer
    <2> QED  BY <2>1, <2>2, <2>3, <2>4, <2>5, <2>6, <2>7, <2>8, <2>9 DEF Next
  <1>3. AnswerInv => OwnAnswer
    BY DEF AnswerInv
  <1> QED  BY <1>1, <1>2, <1>3, TypeCorrect, PTL DEF Spec

-----------------------------------------------------------------------------

\* The number of frames on their way in either direction.
Pending == Len(inbox) + Len(outbox)

\* Frames that belong to request i.
AnswerTo(n, i) == inbox[n].type = "response" /\ inbox[n].answer.id = i
RequestOf(n, i) == outbox[n].type = "request" /\ outbox[n].asked.id = i

\* The frames of a connection on which none was skipped: they belong to requests made so
\* far, and the last request can only have the last of them.
InOrder ==
    /\ \A n \in 1..Len(inbox) : inbox[n].type = "response" => inbox[n].answer.id <= sent
    /\ \A n \in 1..Len(outbox) : outbox[n].type = "request" => outbox[n].asked.id <= sent
    /\ \A n \in 1..Len(inbox) : AnswerTo(n, sent) => n = Len(inbox) /\ outbox = <<>>
    /\ \A n \in 1..Len(outbox) : RequestOf(n, sent) => n = Len(outbox)

\* No frame belongs to the last request.
NotSent ==
    /\ \A n \in 1..Len(inbox) : ~AnswerTo(n, sent)
    /\ \A n \in 1..Len(outbox) : ~RequestOf(n, sent)

\* A request that was given up leaves a frame behind, in front of that of the next one,
\* unless the bridge has stopped reading.
Behind ==
    /\ gaveUp /\ phase = "ready" => Pending >= 1 \/ ~linked
    /\ ~gaveUp /\ phase = "waiting" => Pending >= 1 \/ ~linked
    /\ gaveUp /\ phase = "waiting" => Pending >= 2 \/ (~linked /\ NotSent)

\* The inductive invariant behind GivenUpBlocks.
BehindInv ==
    /\ torn => skipped
    /\ phase \in {"closed", "hello"} => ~gaveUp
    /\ phase = "closed" => inbox = <<>> /\ outbox = <<>>
    /\ phase = "waiting" => asked.id = sent
    /\ ~skipped => InOrder /\ Behind

\* A step of the bridge moves the first frame it has to read to the end of the client's,
\* perhaps as an error or a welcome.
LEMMA BridgeKeepsOrder ==
    ASSUME TypeOK, BehindInv, outbox # <<>>, NEW f, BridgeSends(f),
           f.type = "response" =>
             Head(outbox).type = "request" /\ f.answer.id = Head(outbox).asked.id
    PROVE  BehindInv'
<1> DEFINE I == Len(inbox)
           O == Len(outbox)
<1>1. /\ I \in Nat /\ O \in Nat /\ O >= 1 /\ sent \in Nat
      /\ Head(outbox) = outbox[1]
      /\ Len(inbox') = I + 1 /\ Len(outbox') = O - 1
      /\ inbox'[I + 1] = f /\ \A n \in 1..I : inbox'[n] = inbox[n]
      /\ \A n \in 1..(O - 1) : outbox'[n] = outbox[n + 1]
  BY DEF BridgeSends, TypeOK
<1>2. UNCHANGED <<phase, session, asked, sent, torn, linked, generation, returned, gaveUp, skipped>>
  BY DEF BridgeSends
<1>3. phase # "closed"
  BY DEF BehindInv
<1> SUFFICES ASSUME ~skipped PROVE InOrder' /\ Behind'
  BY <1>2, <1>3 DEF BehindInv
<1>4. InOrder /\ Behind
  BY DEF BehindInv
<1> HIDE DEF I, O
<1>5. \A n \in 1..(I + 1) : n \in 1..I \/ n = I + 1
  BY <1>1
<1>6. \A n \in 1..(O - 1) : n + 1 \in 1..O
  BY <1>1
<1>7. \A n \in 1..I : ~AnswerTo(n, sent)
  BY <1>4 DEF InOrder, I
<1>8. f.type = "response" => f.answer.id <= sent
  BY <1>1, <1>4 DEF InOrder, O
<1>9. f.type = "response" /\ f.answer.id = sent => O = 1
  BY <1>1, <1>4 DEF InOrder, RequestOf, O
<1>10. O = 1 => outbox' = <<>>
  BY <1>1 DEF TypeOK, BridgeSends
<1>11. InOrder'
  <2>1. \A n \in 1..(I + 1) : inbox'[n].type = "response" => inbox'[n].answer.id <= sent
    BY <1>1, <1>4, <1>5, <1>8 DEF InOrder, I
  <2>2. \A n \in 1..(O - 1) : outbox'[n].type = "request" => outbox'[n].asked.id <= sent
    BY <1>1, <1>4, <1>6 DEF InOrder, O
  <2>3. \A n \in 1..(I + 1) : inbox'[n].type = "response" /\ inbox'[n].answer.id = sent =>
          n = I + 1 /\ outbox' = <<>>
    BY <1>1, <1>5, <1>7, <1>9, <1>10 DEF AnswerTo
  <2>4. \A n \in 1..(O - 1) : outbox'[n].type = "request" /\ outbox'[n].asked.id = sent =>
          n = O - 1
    <3> SUFFICES ASSUME NEW n \in 1..(O - 1),
                        outbox'[n].type = "request", outbox'[n].asked.id = sent
                 PROVE  n = O - 1
      OBVIOUS
    <3>1. n + 1 \in 1..O /\ RequestOf(n + 1, sent)
      BY <1>1, <1>6 DEF RequestOf
    <3>2. n + 1 = O
      BY <1>4, <3>1 DEF InOrder, O
    <3> QED BY <1>1, <3>2
  <2> QED BY <1>1, <1>2, <2>1, <2>2, <2>3, <2>4 DEF InOrder, AnswerTo, RequestOf
<1>12. Pending' = Pending
  BY <1>1 DEF Pending, I, O
<1>13. NotSent => NotSent'
  <2> SUFFICES ASSUME NotSent PROVE NotSent'
    OBVIOUS
  <2>1. ~(f.type = "response" /\ f.answer.id = sent)
    BY <1>1 DEF NotSent, RequestOf, O
  <2>2. \A n \in 1..(I + 1) : ~(inbox'[n].type = "response" /\ inbox'[n].answer.id = sent)
    BY <1>1, <1>5, <1>7, <2>1 DEF AnswerTo
  <2>3. \A n \in 1..(O - 1) : ~(outbox'[n].type = "request" /\ outbox'[n].asked.id = sent)
    BY <1>1, <1>6 DEF NotSent, RequestOf, O
  <2> QED BY <1>1, <1>2, <2>2, <2>3 DEF NotSent, AnswerTo, RequestOf
<1>14. Behind'
  BY <1>2, <1>4, <1>12, <1>13 DEF Behind
<1> QED BY <1>11, <1>14

\* No frame has the number of the next request.
LEMMA NextNumberFree ==
    ASSUME TypeOK, InOrder
    PROVE  /\ \A n \in 1..Len(inbox) : inbox[n].type = "response" =>
                 inbox[n].answer.id <= sent + 1 /\ inbox[n].answer.id # sent + 1
           /\ \A n \in 1..Len(outbox) : outbox[n].type = "request" =>
                 outbox[n].asked.id <= sent + 1 /\ outbox[n].asked.id # sent + 1
<1>1. sent \in Nat
  BY DEF TypeOK
<1>2. \A n \in 1..Len(inbox) : inbox[n].type = "response" => inbox[n].answer.id \in Nat
  <2>1. \A n \in 1..Len(inbox) : inbox[n] \in ToClient
    BY DEF TypeOK
  <2> QED BY <2>1 DEF ToClient, Answer, Ids
<1>3. \A n \in 1..Len(outbox) : outbox[n].type = "request" => outbox[n].asked.id \in Nat
  <2>1. \A n \in 1..Len(outbox) : outbox[n] \in ToBridge
    BY DEF TypeOK
  <2> QED BY <2>1 DEF ToBridge, Asked, Ids
<1> QED BY <1>1, <1>2, <1>3 DEF InOrder

\* A request takes the next number: no frame has it, and its own comes last.
LEMMA RequestKeepsOrder ==
    ASSUME TypeOK, BehindInv, NEW op \in Ops, NEW m \in Methods, Request(op, m)
    PROVE  BehindInv'
<1> DEFINE I == Len(inbox)
           O == Len(outbox)
           a == [id |-> sent + 1, op |-> op, generation |-> session.generation]
           f == [type |-> "request", asked |-> a]
<1>1. /\ sent' = sent + 1 /\ asked' = a /\ phase = "ready" /\ phase' = "waiting"
      /\ outbox' = IF linked THEN Append(outbox, f) ELSE outbox
      /\ UNCHANGED <<inbox, torn, linked, gaveUp, skipped>>
  BY DEF Request, history
<1>2. asked'.id = sent'
  BY <1>1
<1>3. f.type = "request" /\ f.asked.id = sent + 1
  OBVIOUS
<1>4. I \in Nat /\ O \in Nat /\ sent \in Nat /\ outbox \in Seq(ToBridge)
  BY DEF TypeOK
<1> HIDE DEF a, f
<1>5. linked => /\ Len(outbox') = O + 1 /\ outbox'[O + 1] = f
                /\ \A n \in 1..O : outbox'[n] = outbox[n]
  BY <1>1, <1>4
<1> SUFFICES ASSUME ~skipped PROVE InOrder' /\ Behind'
  BY <1>1, <1>2 DEF BehindInv
<1> HIDE DEF I, O
<1>6. InOrder /\ Behind
  BY DEF BehindInv
<1>7. \A n \in 1..I : inbox[n].type = "response" =>
        inbox[n].answer.id <= sent + 1 /\ inbox[n].answer.id # sent + 1
  BY <1>6, NextNumberFree DEF I
<1>8. \A n \in 1..O : outbox[n].type = "request" =>
        outbox[n].asked.id <= sent + 1 /\ outbox[n].asked.id # sent + 1
  BY <1>6, NextNumberFree DEF O
<1>9. CASE linked
  <2>1. \A n \in 1..(O + 1) : n \in 1..O \/ n = O + 1
    BY <1>4
  <2>2. InOrder'
    <3>1. \A n \in 1..(O + 1) : outbox'[n].type = "request" => outbox'[n].asked.id <= sent + 1
      BY <1>3, <1>4, <1>5, <1>8, <1>9, <2>1
    <3>2. \A n \in 1..(O + 1) : outbox'[n].type = "request" /\ outbox'[n].asked.id = sent + 1
            => n = O + 1
      BY <1>5, <1>8, <1>9, <2>1
    <3> QED BY <1>1, <1>5, <1>7, <1>9, <3>1, <3>2 DEF InOrder, AnswerTo, RequestOf, I
  <2>3. Pending' = Pending + 1 /\ Pending \in Nat
    BY <1>1, <1>4, <1>5, <1>9 DEF Pending, I, O
  <2>4. Behind'
    BY <1>1, <1>6, <1>9, <2>3 DEF Behind
  <2> QED BY <2>2, <2>4
<1>10. CASE ~linked
  <2>1. UNCHANGED <<inbox, outbox>>
    BY <1>1, <1>10
  <2>2. InOrder' /\ NotSent'
    BY <1>1, <1>7, <1>8, <2>1 DEF InOrder, NotSent, AnswerTo, RequestOf, I, O
  <2>3. Behind'
    BY <1>1, <1>10, <2>2 DEF Behind
  <2> QED BY <2>2, <2>3
<1> QED BY <1>9, <1>10

\* A send that failed uses up a number: no frame has it, and a part has none.
LEMMA SendFailedKeepsOrder ==
    ASSUME TypeOK, BehindInv, NEW m \in Methods, SendFailed(m)
    PROVE  BehindInv'
<1> DEFINE I == Len(inbox)
           O == Len(outbox)
<1>1. /\ sent' = sent + 1 /\ phase = "ready"
      /\ UNCHANGED <<phase, asked, inbox, torn, gaveUp, skipped>>
      /\ \/ linked' = FALSE /\ outbox' = outbox
         \/ linked' = linked /\ outbox' = Append(outbox, Part)
  BY DEF SendFailed, history
<1>2. I \in Nat /\ O \in Nat /\ outbox \in Seq(ToBridge) /\ Part.type # "request"
  BY DEF TypeOK, Part
<1> SUFFICES ASSUME ~skipped PROVE InOrder' /\ Behind'
  BY <1>1 DEF BehindInv
<1>3. InOrder /\ Behind
  BY DEF BehindInv
<1>4. /\ Len(outbox') \in {O, O + 1}
      /\ \A n \in 1..Len(outbox') :
            outbox'[n] = Part \/ (n \in 1..O /\ outbox'[n] = outbox[n])
  BY <1>1, <1>2
<1>5. \A n \in 1..Len(outbox') : outbox'[n].type = "request" =>
        outbox'[n].asked.id <= sent + 1 /\ outbox'[n].asked.id # sent + 1
  BY <1>2, <1>3, <1>4, NextNumberFree
<1>6. InOrder'
  BY <1>1, <1>3, <1>5, NextNumberFree DEF InOrder, AnswerTo, RequestOf
<1>7. Pending \in Nat /\ (Pending' = Pending \/ Pending' = Pending + 1)
  BY <1>1, <1>2, <1>4 DEF Pending
<1>8. linked' = FALSE \/ linked' = linked
  BY <1>1
<1>9. Behind'
  BY <1>1, <1>3, <1>7, <1>8 DEF Behind
<1> QED BY <1>6, <1>9

\* A frame is taken off the client's side.
LEMMA ReadKeepsOrder ==
    ASSUME TypeOK, BehindInv, ~skipped, inbox # <<>>, inbox' = Tail(inbox),
           UNCHANGED <<outbox, sent>>
    PROVE  InOrder' /\ Pending' = Pending - 1 /\ Pending \in Nat
<1>1. /\ Len(inbox) \in Nat /\ Len(outbox) \in Nat /\ Len(inbox') = Len(inbox) - 1
      /\ \A n \in 1..Len(inbox') : n + 1 \in 1..Len(inbox) /\ inbox'[n] = inbox[n + 1]
  BY DEF TypeOK
<1>2. InOrder
  BY DEF BehindInv
<1>3. \A n \in 1..Len(inbox') : inbox'[n].type = "response" => inbox'[n].answer.id <= sent
  BY <1>1, <1>2 DEF InOrder
<1>4. \A n \in 1..Len(inbox') : inbox'[n].type = "response" /\ inbox'[n].answer.id = sent =>
        n = Len(inbox') /\ outbox = <<>>
  <2> SUFFICES ASSUME NEW n \in 1..Len(inbox'),
                      inbox'[n].type = "response", inbox'[n].answer.id = sent
               PROVE  n = Len(inbox') /\ outbox = <<>>
    OBVIOUS
  <2>1. n + 1 \in 1..Len(inbox) /\ AnswerTo(n + 1, sent)
    BY <1>1 DEF AnswerTo
  <2>2. n + 1 = Len(inbox) /\ outbox = <<>>
    BY <1>2, <2>1 DEF InOrder
  <2>3. n = Len(inbox')
    <3>1. n \in Int /\ Len(inbox') = Len(inbox) - 1 /\ Len(inbox) \in Nat
      BY <1>1
    <3> QED BY <2>2, <3>1
  <2> QED BY <2>2, <2>3
<1>5. InOrder'
  BY <1>2, <1>3, <1>4 DEF InOrder, AnswerTo, RequestOf
<1> QED BY <1>1, <1>5 DEF Pending

\* Every step keeps BehindInv.
LEMMA BehindStep == TypeOK /\ BehindInv /\ [Next]_vars => BehindInv'
<1> SUFFICES ASSUME TypeOK, BehindInv, [Next]_vars PROVE BehindInv'
  OBVIOUS
<1>1. CASE Connect
  <2>1. /\ phase = "closed" /\ phase' = "hello" /\ inbox = <<>>
        /\ outbox' = <<[type |-> "hello"]>>
        /\ UNCHANGED <<inbox, sent, torn, gaveUp, skipped>>
    BY <1>1 DEF Connect, history, BehindInv
  <2>2. Len(inbox') = 0 /\ Len(outbox') = 1 /\ outbox'[1].type = "hello"
    BY <2>1
  <2>3. InOrder'
    BY <2>2 DEF InOrder, AnswerTo, RequestOf
  <2> QED BY <2>1, <2>3 DEF BehindInv, Behind
<1>2. CASE Welcome
  <2>1. /\ phase = "hello" /\ phase' = "ready" /\ inbox # <<>> /\ inbox' = Tail(inbox)
        /\ UNCHANGED <<asked, sent, outbox, torn, linked, gaveUp, skipped>>
    BY <1>2 DEF Welcome, history
  <2>2. ~skipped => InOrder'
    BY <2>1, ReadKeepsOrder
  <2> QED BY <2>1, <2>2 DEF BehindInv, Behind
<1>3. CASE HandshakeFailed \/ Close
  <2>1. /\ phase' = "closed" /\ inbox' = <<>> /\ outbox' = <<>> /\ torn' = FALSE
        /\ gaveUp' = FALSE
    BY <1>3 DEF HandshakeFailed, Close, Disconnected
  <2>2. InOrder'
    BY <2>1 DEF InOrder
  <2> QED BY <2>1, <2>2 DEF BehindInv, Behind
<1>4. ASSUME NEW op \in Ops, NEW m \in Methods, Request(op, m) PROVE BehindInv'
  BY <1>4, RequestKeepsOrder
<1>5. ASSUME NEW m \in Methods, SendFailed(m) PROVE BehindInv'
  BY <1>5, SendFailedKeepsOrder
<1>6. CASE Receive
  <2>1. /\ phase = "waiting" /\ phase' = "ready" /\ inbox # <<>> /\ inbox' = Tail(inbox)
        /\ UNCHANGED <<asked, sent, outbox, torn, linked, gaveUp, skipped>>
    BY <1>6 DEF Receive
  <2>2. ~skipped => InOrder' /\ Pending' = Pending - 1 /\ Pending \in Nat
    BY <2>1, ReadKeepsOrder
  <2>3. ~skipped => Behind'
    BY <2>1, <2>2 DEF BehindInv, Behind
  <2> QED BY <2>1, <2>2, <2>3 DEF BehindInv
<1>7. CASE GiveUp
  <2>1. /\ phase = "waiting" /\ phase' = "ready" /\ gaveUp' = TRUE
        /\ UNCHANGED <<asked, sent, outbox, inbox, torn, linked, skipped>>
    BY <1>7 DEF GiveUp, wire
  <2>2. ~skipped => InOrder'
    BY <2>1 DEF BehindInv, InOrder, AnswerTo, RequestOf
  <2>3. ~skipped => Behind'
    <3>1. Pending \in Nat /\ Pending' = Pending
      BY <2>1 DEF Pending, TypeOK
    <3> QED BY <2>1, <3>1 DEF BehindInv, Behind
  <2> QED BY <2>1, <2>2, <2>3 DEF BehindInv
<1>8. CASE GiveUpInside \/ RefuseLength
  BY <1>8 DEF GiveUpInside, RefuseLength, BehindInv
<1>9. CASE ReceiveTorn
  BY <1>9 DEF ReceiveTorn, history, BehindInv
<1>10. CASE BridgeWelcomes \/ BridgeRefuses
  <2> DEFINE w(M) == [type |-> "hello_ack",
                      session |-> [generation |-> generation, available |-> M]]
             e == [type |-> "error"]
  <2>1. outbox # <<>> /\ (BridgeSends(e) \/ \E M \in SUBSET Methods : BridgeSends(w(M)))
    BY <1>10 DEF BridgeWelcomes, BridgeRefuses, BridgeReads
  <2>2. e.type # "response" /\ \A M : w(M).type # "response"
    OBVIOUS
  <2> HIDE DEF e, w
  <2>3. CASE BridgeSends(e)
    BY <2>1, <2>2, <2>3, BridgeKeepsOrder
  <2>4. ASSUME NEW M, BridgeSends(w(M)) PROVE BehindInv'
    BY <2>1, <2>2, <2>4, BridgeKeepsOrder
  <2> QED BY <2>1, <2>3, <2>4
<1>11. CASE BridgeAnswers
  <2> DEFINE b(s) == [id |-> Head(outbox).asked.id, op |-> Head(outbox).asked.op,
                      generation |-> generation, status |-> s]
             f(s) == [type |-> "response", answer |-> b(s)]
  <2>1. outbox # <<>> /\ Head(outbox).type = "request" /\ \E s : BridgeSends(f(s))
    BY <1>11 DEF BridgeAnswers, BridgeReads
  <2>2. \A s : f(s).answer.id = Head(outbox).asked.id
    OBVIOUS
  <2> HIDE DEF f
  <2> QED BY <2>1, <2>2, BridgeKeepsOrder
<1>12. CASE BridgeIgnores \/ BridgeMisreads
  <2>1. phase # "closed"
    BY <1>12 DEF BridgeIgnores, BridgeMisreads, BridgeReads, BehindInv
  <2> QED BY <1>12, <2>1 DEF BridgeIgnores, BridgeMisreads, BehindInv
<1>13. CASE BridgeRestarts \/ UNCHANGED vars
  <2>1. /\ UNCHANGED <<phase, asked, sent, outbox, inbox, torn, gaveUp, skipped>>
        /\ linked' \in {linked, FALSE}
    BY <1>13 DEF BridgeRestarts, history, vars
  <2>2. InOrder => InOrder'
    BY <2>1 DEF InOrder, AnswerTo, RequestOf
  <2>3. Behind => Behind'
    BY <2>1 DEF Behind, NotSent, AnswerTo, RequestOf, Pending
  <2> QED BY <2>1, <2>2, <2>3 DEF BehindInv
<1> QED BY <1>1, <1>2, <1>3, <1>4, <1>5, <1>6, <1>7, <1>8, <1>9, <1>10, <1>11, <1>12, <1>13
        DEF Next

(***************************************************************************)
(* After request() gave up, no later request on the same connection        *)
(* returns, as long as the bridge reads every frame and none is torn or    *)
(* misread: the client always finds the frame of an earlier request first, *)
(* whose id _parse_response refuses.                                       *)
(***************************************************************************)
THEOREM GivenUpCorrect == Spec => GivenUpBlocks
<1>1. Init => BehindInv
  BY DEF Init, BehindInv, InOrder, Behind
<1>2. TypeOK /\ BehindInv /\ [Next]_vars => [returned' # returned => ~gaveUp \/ skipped]_vars
  <2> SUFFICES ASSUME TypeOK, BehindInv, Next, returned' # returned, gaveUp, ~skipped
               PROVE  FALSE
    OBVIOUS
  <2>1. Receive
    BY DEF Next, Connect, Welcome, HandshakeFailed, Close, Disconnected, Request, SendFailed,
           GiveUp, GiveUpInside, RefuseLength, ReceiveTorn, BridgeWelcomes, BridgeAnswers, BridgeRefuses,
           BridgeSends, BridgeIgnores, BridgeMisreads, BridgeRestarts, history
  <2>2. /\ phase = "waiting" /\ inbox # <<>>
        /\ Head(inbox).type = "response" /\ Accepts(Head(inbox).answer)
    BY <2>1 DEF Receive
  <2>3. /\ Len(inbox) \in Nat \ {0} /\ Head(inbox) = inbox[1]
    BY <2>2 DEF TypeOK
  <2>4. 1 \in 1..Len(inbox) /\ AnswerTo(1, sent)
    BY <2>2, <2>3 DEF Accepts, AnswerTo, BehindInv
  <2>5. Len(inbox) = 1 /\ outbox = <<>>
    BY <2>4 DEF BehindInv, InOrder
  <2>6. Pending = 1
    BY <2>5 DEF Pending
  <2>7. ~NotSent
    BY <2>4 DEF NotSent
  <2> QED BY <2>2, <2>6, <2>7 DEF BehindInv, Behind
<1> QED BY <1>1, <1>2, BehindStep, TypeCorrect, PTL DEF Spec, GivenUpBlocks
=============================================================================
