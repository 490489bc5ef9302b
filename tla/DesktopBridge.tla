---------------------------- MODULE DesktopBridge ----------------------------
(***************************************************************************)
(* DesktopBridgeClient (desktop_bridge.py): one client, the connection it  *)
(* has, and the bridge at the other end.                                   *)
(*                                                                         *)
(* The bridge is not in this repository.  It reads frames in order,        *)
(* answers, refuses or ignores them, and when it restarts its generation   *)
(* goes up, with or without the loss of the connection.  Every response it *)
(* sends carries the ids of the request and its own generation.            *)
(*                                                                         *)
(* The client blocks in each call.  A call that raises after the handshake *)
(* leaves socket and session as they are, and the next call goes on with   *)
(* them.  A receive that timed out inside a frame, or refused the length   *)
(* in its header, has used up a part of it (torn): the next one takes the  *)
(* rest for a header.  A send that broke off leaves the bridge a part of a *)
(* frame, behind the frames that were sent before.                         *)
(***************************************************************************)
EXTENDS Integers, Sequences

CONSTANTS
    Ops,            \* operation ids of the callers; a retry uses one again
    Methods,
    NoAnswer,
    MaxRequests,    \* bound: requests made
    MaxGeneration   \* bound: generations of the bridge

ASSUME BridgeBounds == MaxRequests \in Nat /\ MaxGeneration \in Nat \ {0}

VARIABLES
    phase,      \* what the client is doing
    session,    \* generation and methods the last hello_ack announced
    asked,      \* the request the client waits for
    sent,       \* requests made so far; a request's id is its number
    outbox,     \* frames on their way to the bridge
    inbox,      \* frames on their way to the client
    torn,       \* the first frame of inbox was read in part
    linked,     \* the bridge still reads this connection
    generation, \* of the bridge
    \* History, read by properties only:
    answers,    \* responses the bridge ever made
    returned,   \* the last response request() returned, and what it was asked
    gaveUp,     \* on this connection a request was given up before its response came
    skipped     \* on this connection a frame was ignored, misread or lost in a tear

vars == <<phase, session, asked, sent, outbox, inbox, torn, linked, generation,
          answers, returned, gaveUp, skipped>>
wire == <<outbox, inbox, torn, linked>>
history == <<answers, returned, gaveUp, skipped>>

Generations == 1..MaxGeneration
Ids == 1..MaxRequests

\* _ALLOWED_STATUSES, and one that is not
AllowedStatuses == {"succeeded", "blocked", "failed", "unknown", "cancelled"}

Asked == [id : Ids, op : Ops, generation : Generations]
Answer == [id : Ids, op : Ops, generation : Generations, status : AllowedStatuses \cup {"bogus"}]
Session == [generation : Generations, available : SUBSET Methods]

\* "part" is what a send that broke off left.
ToBridge == [type : {"hello", "part"}] \cup [type : {"request"}, asked : Asked]
\* "error" stands for every frame the client does not take, too long a frame included.
ToClient == [type : {"hello_ack"}, session : Session]
              \cup [type : {"response"}, answer : Answer] \cup [type : {"error"}]

TypeOK ==
    /\ phase \in {"closed", "hello", "ready", "waiting"}
    /\ session \in Session
    /\ asked \in Asked \cup {NoAnswer}
    /\ phase = "waiting" => asked \in Asked
    /\ sent \in 0..MaxRequests
    /\ outbox \in Seq(ToBridge)
    /\ inbox \in Seq(ToClient)
    /\ torn \in BOOLEAN /\ linked \in BOOLEAN
    /\ generation \in Generations
    /\ answers \subseteq Answer
    /\ returned \in [asked : Asked, answer : Answer] \cup {NoAnswer}
    /\ gaveUp \in BOOLEAN /\ skipped \in BOOLEAN

-----------------------------------------------------------------------------

Init ==
    /\ phase = "closed"
    /\ session = [generation |-> 1, available |-> {}]
    /\ asked = NoAnswer
    /\ sent = 0
    /\ outbox = <<>> /\ inbox = <<>>
    /\ torn = FALSE /\ linked = FALSE
    /\ generation = 1
    /\ answers = {} /\ returned = NoAnswer
    /\ gaveUp = FALSE /\ skipped = FALSE

\* The socket is gone, and what was on its way with it.
Disconnected ==
    /\ phase' = "closed"
    /\ session' = [generation |-> 1, available |-> {}]
    /\ asked' = NoAnswer
    /\ outbox' = <<>> /\ inbox' = <<>>
    /\ torn' = FALSE /\ linked' = FALSE
    /\ gaveUp' = FALSE /\ skipped' = FALSE
    /\ UNCHANGED <<sent, generation, answers, returned>>

\* connect, up to the hello; no bridge, a foreign user or a failed send change nothing.
Connect ==
    /\ phase = "closed"
    /\ phase' = "hello"
    /\ outbox' = <<[type |-> "hello"]>>
    /\ linked' = TRUE
    /\ UNCHANGED <<session, asked, sent, inbox, torn, generation, history>>

\* _parse_hello_ack
Welcome ==
    /\ phase = "hello"
    /\ inbox # <<>> /\ Head(inbox).type = "hello_ack"
    /\ phase' = "ready"
    /\ session' = Head(inbox).session
    /\ inbox' = Tail(inbox)
    /\ UNCHANGED <<asked, sent, outbox, torn, linked, generation, history>>

\* connect: any exception during the handshake closes the socket.
HandshakeFailed == phase = "hello" /\ Disconnected

\* close, by the caller or by __exit__
Close == phase = "ready" /\ Disconnected

\* request, up to the send.
Request(op, method) ==
    LET a == [id |-> sent + 1, op |-> op, generation |-> session.generation] IN
    /\ phase = "ready"
    /\ method \in session.available
    /\ sent < MaxRequests
    /\ sent' = sent + 1
    /\ asked' = a
    /\ phase' = "waiting"
    /\ outbox' = IF linked THEN Append(outbox, [type |-> "request", asked |-> a]) ELSE outbox
    /\ UNCHANGED <<session, inbox, torn, linked, generation, history>>

Part == [type |-> "part"]

\* request, when _send raises: the bridge is gone, or the send timed out and broke off.
\* What was sent before is still on its way.
SendFailed(method) ==
    /\ phase = "ready"
    /\ method \in session.available
    /\ sent < MaxRequests
    /\ sent' = sent + 1
    /\ \/ linked' = FALSE /\ UNCHANGED outbox
       \/ linked /\ outbox' = Append(outbox, Part) /\ UNCHANGED linked
    /\ UNCHANGED <<phase, session, asked, inbox, torn, generation, history>>

\* Mutant: an answer to the same operation is taken, whichever request it belongs to.
AcceptsByOperation(b) ==
    b.op = asked.op /\ b.generation = session.generation /\ b.status \in AllowedStatuses

\* Mutant: the generation is not compared.
AcceptsAnyGeneration(b) ==
    b.id = asked.id /\ b.op = asked.op /\ b.status \in AllowedStatuses

\* _parse_response, for a frame of type response
Accepts(b) ==
    /\ b.id = asked.id
    /\ b.op = asked.op
    /\ b.generation = session.generation
    /\ b.status \in AllowedStatuses

\* request, the receive: the next frame is the answer, or the call raises without it.
Receive ==
    /\ phase = "waiting"
    /\ ~torn
    /\ inbox # <<>>
    /\ inbox' = Tail(inbox)
    /\ phase' = "ready"
    /\ returned' = IF Head(inbox).type = "response" /\ Accepts(Head(inbox).answer)
                   THEN [asked |-> asked, answer |-> Head(inbox).answer] ELSE returned
    /\ UNCHANGED <<session, asked, sent, outbox, torn, linked, generation, answers, gaveUp,
                   skipped>>

\* recv refuses the length in the header and leaves the body in the stream.
RefuseLength ==
    /\ phase = "waiting"
    /\ ~torn
    /\ inbox # <<>> /\ Head(inbox).type = "error"
    /\ phase' = "ready"
    /\ torn' = TRUE
    /\ skipped' = TRUE
    /\ UNCHANGED <<session, asked, sent, outbox, inbox, linked, generation, answers, returned,
                   gaveUp>>

\* The receive timed out between frames, or found the connection closed.
GiveUp ==
    /\ phase = "waiting"
    /\ phase' = "ready"
    /\ gaveUp' = TRUE
    /\ UNCHANGED <<session, asked, sent, wire, generation, answers, returned, skipped>>

\* It timed out inside a frame.
GiveUpInside ==
    /\ phase = "waiting"
    /\ inbox # <<>>
    /\ phase' = "ready"
    /\ torn' = TRUE
    /\ skipped' = TRUE
    /\ UNCHANGED <<session, asked, sent, outbox, inbox, linked, generation, answers, returned,
                   gaveUp>>

\* The rest of a frame is read as if it were one: some frames are lost, the call raises,
\* and the stream may or may not be back at the beginning of a frame.
ReceiveTorn ==
    /\ phase = "waiting"
    /\ torn
    /\ \E k \in 1..Len(inbox) : inbox' = SubSeq(inbox, k + 1, Len(inbox))
    /\ torn' \in BOOLEAN
    /\ phase' = "ready"
    /\ UNCHANGED <<session, asked, sent, outbox, linked, generation, history>>

-----------------------------------------------------------------------------
(* The bridge (external).                                                  *)

BridgeReads(type) == linked /\ outbox # <<>> /\ Head(outbox).type = type

BridgeSends(frame) ==
    /\ inbox' = Append(inbox, frame)
    /\ outbox' = Tail(outbox)
    /\ UNCHANGED <<phase, session, asked, sent, torn, linked, generation, returned, gaveUp, skipped>>

BridgeWelcomes ==
    /\ BridgeReads("hello")
    /\ \E M \in SUBSET Methods :
          BridgeSends([type |-> "hello_ack",
                       session |-> [generation |-> generation, available |-> M]])
    /\ UNCHANGED answers

BridgeAnswers ==
    /\ BridgeReads("request")
    /\ \E s \in {"succeeded", "bogus"} :
          LET a == Head(outbox).asked
              b == [id |-> a.id, op |-> a.op, generation |-> generation, status |-> s]
          IN BridgeSends([type |-> "response", answer |-> b]) /\ answers' = answers \cup {b}

BridgeRefuses ==
    /\ BridgeReads("hello") \/ BridgeReads("request")
    /\ BridgeSends([type |-> "error"])
    /\ UNCHANGED answers

BridgeIgnores ==
    /\ BridgeReads("hello") \/ BridgeReads("request")
    /\ outbox' = Tail(outbox)
    /\ skipped' = TRUE
    /\ UNCHANGED <<phase, session, asked, sent, inbox, torn, linked, generation, answers,
                   returned, gaveUp>>

\* The bridge waits for the rest of a part, takes it from the frames behind, and may then
\* be at the beginning of a frame, inside one, or give the connection up.
BridgeMisreads ==
    /\ BridgeReads("part")
    /\ \E k \in 2..Len(outbox) :
          LET rest == SubSeq(outbox, k + 1, Len(outbox)) IN outbox' \in {rest, <<Part>> \o rest}
    /\ inbox' \in {inbox, Append(inbox, [type |-> "error"])}
    /\ linked' \in BOOLEAN
    /\ skipped' = TRUE
    /\ UNCHANGED <<phase, session, asked, sent, torn, generation, answers, returned, gaveUp>>

BridgeRestarts ==
    /\ generation < MaxGeneration
    /\ generation' = generation + 1
    /\ linked' \in {linked, FALSE}
    /\ UNCHANGED <<phase, session, asked, sent, outbox, inbox, torn, history>>

Next ==
    \/ Connect \/ Welcome \/ HandshakeFailed \/ Close
    \/ \E op \in Ops, m \in Methods : Request(op, m)
    \/ \E m \in Methods : SendFailed(m)
    \/ Receive \/ RefuseLength \/ GiveUp \/ GiveUpInside \/ ReceiveTorn
    \/ BridgeWelcomes \/ BridgeAnswers \/ BridgeRefuses \/ BridgeIgnores \/ BridgeMisreads
    \/ BridgeRestarts

Spec == Init /\ [][Next]_vars

-----------------------------------------------------------------------------

(***************************************************************************)
(* What request() returns is what the bridge answered to that very         *)
(* request, made by the generation the request was meant for: never the    *)
(* late answer to an earlier request of the same operation, nor that of a  *)
(* bridge that restarted in between, through time-outs inside and between  *)
(* frames, lost connections and reconnects.                                *)
(***************************************************************************)
OwnAnswer ==
    returned # NoAnswer =>
        /\ returned.answer \in answers
        /\ returned.answer.id = returned.asked.id
        /\ returned.answer.op = returned.asked.op
        /\ returned.answer.generation = returned.asked.generation

(***************************************************************************)
(* The price: after a request was given up the connection is one frame     *)
(* behind, and no later request on it returns, unless the bridge left one  *)
(* unanswered or a torn, refused or broken-off frame swallowed some.  Only *)
(* close() and connect() help.                                             *)
(***************************************************************************)
GivenUpBlocks == [][returned' # returned => ~gaveUp \/ skipped]_vars
=============================================================================
