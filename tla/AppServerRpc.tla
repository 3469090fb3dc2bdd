----------------------------- MODULE AppServerRpc -----------------------------
(***************************************************************************)
(* One JSON-RPC session with the Codex app-server: CodexJsonRpcClient over *)
(* one of its three transports.  It shakes hands, asks `initialize' and    *)
(* then at most one method, may collect notifications for a while, and     *)
(* closes.                                                                 *)
(*                                                                         *)
(*   stdio      lines of a child process, that select announces and        *)
(*              readline reads ahead of                                    *)
(*   proxy      WebSocket frames through a child process, waited for in    *)
(*              steps of 50 ms                                             *)
(*   websocket  WebSocket frames from a socket, waited for to the deadline *)
(*                                                                         *)
(* The server is not part of the repository.  It answers a request at most *)
(* once, and also sends notifications and requests of its own, whose ids   *)
(* it numbers itself; one with another id than the client's is ignored, as *)
(* is all that the client does not understand: pings, messages in          *)
(* fragments, lines that are not JSON.  What it writes arrives in two      *)
(* parts, a header and a payload, or a line without and with its end; the  *)
(* client may read between them.                                           *)
(*                                                                         *)
(* Time is counted in slices of 50 ms, and passes while the client waits.  *)
(***************************************************************************)
EXTENDS Naturals, Sequences, FiniteSets

CONSTANTS Transports,   \* those that are used
          Goals,        \* what sessions are opened for
          Timeout,      \* slices until the deadline of a request
          Duration,     \* slices that notifications are collected for
          MaxEvents,    \* SUBSCRIBE_MAX_EVENTS
          MaxMessages,  \* bound on what the server sends of its own accord
          None

ASSUME RpcAssumption ==
    /\ Transports \subseteq {"stdio", "proxy", "websocket"}
    /\ Goals \subseteq {"probe", "request", "subscribe"}
    /\ {Timeout, Duration, MaxEvents} \subseteq Nat \ {0}
    /\ MaxMessages \in Nat
    /\ None \notin Nat

VARIABLES
    client,   \* the session
    pipe,     \* what the server has written and nobody has read
    buf,      \* what was read from there and not understood yet
    server    \* what the server has seen, sent and left half written

vars == <<client, pipe, buf, server>>

Ids == 1..2       \* `initialize' and one method

Message ==
    [kind : {"upgrade", "refusal", "answer", "error", "notification", "request"},
     id : Ids \cup {None}, nr : 0..MaxMessages]
Parts   == [m : Message, part : {"head", "rest"}]
NoMessage == [kind |-> "none"]

Steps   == {"start", "shaking", "asking", "reading", "collecting", "closing",
            "terminated", "closed"}
Results == {"none", "ok", "error", "timedOut", "raised"}

(* `held' is the message whose header, or the line whose start, the client
   is in the midst of reading; while the step is `lost' the proxy transport
   takes the middle of a frame for a header.                               *)
Client ==
    [by : Transports, goal : Goals, pc : Steps, id : 0..2, left : 0..(Timeout + Duration),
     result : Results, taken : Message \cup {NoMessage},
     events : Seq(1..MaxMessages), held : Message \cup {NoMessage}, step : {"kept", "lost", "regained"}]
Server ==
    [asked : SUBSET Ids, said : SUBSET Message, sent : 0..MaxMessages,
     writing : Message \cup {NoMessage}, up : BOOLEAN]

TypeOK ==
    /\ client \in Client
    /\ Len(client.events) <= MaxEvents
    /\ pipe \in Seq(Parts) /\ buf \in Seq(Parts)
    /\ server \in Server

Init ==
    /\ client \in [by : Transports, goal : Goals, pc : {"start"}, id : {0}, left : {0},
                   result : {"none"}, taken : {NoMessage}, events : {<<>>},
                   held : {NoMessage}, step : {"kept"}]
    /\ pipe = <<>> /\ buf = <<>>
    /\ server = [asked |-> {}, said |-> {}, sent |-> 0, writing |-> NoMessage, up |-> TRUE]

Framed   == client.by # "stdio"
Spawned  == client.by # "websocket"
Waiting  == client.pc \in {"shaking", "reading", "collecting"}

-------------------------------------------------------------------------------
(* The session.                                                            *)

Close(c, r) == client' = [c EXCEPT !.pc = "closing", !.result = r, !.held = NoMessage]

(* The process is spawned or the socket connected; which fails when there
   is none.  WebSockets shake hands.                                       *)
Start ==
    /\ client.pc = "start"
    /\ \/ client' = [client EXCEPT !.pc = IF Framed THEN "shaking" ELSE "asking",
                                   !.id = 1, !.left = Timeout]
       \/ client' = [client EXCEPT !.pc = "closed", !.result = "raised"]
    /\ UNCHANGED <<pipe, buf, server>>

(* _request_raw writes the request; to a process that is gone it cannot.   *)
Ask ==
    /\ client.pc = "asking"
    /\ \/ /\ server' = IF server.up THEN [server EXCEPT !.asked = @ \cup {client.id}] ELSE server
          /\ client' = [client EXCEPT !.pc = "reading", !.left = Timeout]
       \/ ~server.up /\ Close(client, "raised") /\ UNCHANGED server
    /\ UNCHANGED <<pipe, buf>>

(* What becomes of an answer.  `initialize' must succeed; then the client
   says `initialized' and goes on to the method it is opened for.          *)
Answered(c, m) ==
    LET taken == [c EXCEPT !.taken = m] IN
    IF m.kind = "error" THEN Close(taken, IF c.id = 1 THEN "raised" ELSE "error")
    ELSE IF c.id = 1 /\ c.goal # "probe" THEN client' = [taken EXCEPT !.pc = "asking", !.id = 2]
    ELSE IF c.goal = "subscribe"
         THEN client' = [taken EXCEPT !.pc = "collecting", !.left = Duration]
    ELSE Close(taken, "ok")

(* Variant: the first answer is taken.                                     *)
AnyAnswer(c, m) == m.kind \in {"answer", "error", "request"}

(* A payload with the id of the request is its answer.  The server's own
   requests have ids too, and neither result nor error.                    *)
IsAnswer(c, m) == m.kind \in {"answer", "error", "request"} /\ m.id = c.id

(* Variant: one that comes before the answer is an event, too.             *)
CollectsAll(c, m) == m.kind = "notification" /\ c.pc \in {"reading", "collecting"}

(* A notification is an event only while they are collected.               *)
Collects(c, m) == m.kind = "notification" /\ c.pc = "collecting"

(* Variant: it is noticed one event too late that there are enough.        *)
EnoughByNow(events) == Len(events) > MaxEvents

Enough(events) == Len(events) >= MaxEvents

(* A message is understood, in session state c.                            *)
Deliver(c, m) ==
    CASE c.pc = "shaking" ->
             IF m.kind = "upgrade" THEN client' = [c EXCEPT !.pc = "asking"] ELSE Close(c, "raised")
      [] c.pc = "reading" /\ IsAnswer(c, m) -> Answered(c, m)
      [] Collects(c, m) ->
             LET events == Append(c.events, m.nr) IN
             IF Enough(events) THEN Close([c EXCEPT !.events = events], "ok")
             ELSE client' = [c EXCEPT !.events = events]
      [] OTHER -> client' = c

(* The deadline has passed.                                                *)
GiveUp(c) ==
    CASE c.pc = "collecting"            -> Close(c, "ok")
      [] c.pc = "shaking" \/ c.id = 1    -> Close(c, "raised")
      [] OTHER                          -> Close(c, "timedOut")

-------------------------------------------------------------------------------
(* Reading.                                                                *)

IsLine(s) == Len(s) >= 2 /\ s[1].part = "head" /\ s[2].part = "rest"

(* LineProcessTransport.read_line: select looks at the pipe, readline at
   what it has read ahead first.  Started on a line, it stays until the line
   ends or the process does.                                               *)
ReadLine ==
    /\ Waiting /\ ~Framed
    /\ client.held = NoMessage => pipe # <<>> \/ (~server.up /\ buf # <<>>)
    /\ LET text == IF IsLine(buf) THEN buf ELSE buf \o pipe IN
       CASE IsLine(text) ->
                /\ Deliver([client EXCEPT !.held = NoMessage], text[2].m)
                /\ buf' = SubSeq(text, 3, Len(text))
         [] ~IsLine(text) /\ ~server.up ->
                client' = [client EXCEPT !.held = NoMessage] /\ buf' = <<>>
         [] OTHER ->
                /\ text # <<>> /\ (client.held = NoMessage \/ pipe # <<>>)
                /\ client' = [client EXCEPT !.held = text[1].m] /\ buf' = text
    /\ pipe' = IF IsLine(buf) THEN pipe ELSE <<>>
    /\ UNCHANGED <<server>>

(* _read_available and recv.  The proxy's pipe is not read when the process
   is gone.                                                                *)
Receive ==
    /\ Waiting /\ Framed
    /\ buf = <<>> /\ pipe # <<>>
    /\ client.by = "proxy" => server.up
    /\ buf' = pipe /\ pipe' = <<>>
    /\ UNCHANGED <<client, server>>

(* _read_message: a header, and a payload, which is a message.             *)
ReadFrame ==
    /\ Waiting /\ Framed /\ client.step # "lost"
    /\ buf # <<>>
    /\ IF Head(buf).part = "head" THEN client' = [client EXCEPT !.held = Head(buf).m]
       ELSE Deliver([client EXCEPT !.held = NoMessage], Head(buf).m)
    /\ buf' = Tail(buf)
    /\ UNCHANGED <<pipe, server>>

(* Out of step, it reads nothing of sense; where a frame begins it may, by
   chance, be in step again.                                               *)
ReadGarbage ==
    /\ Waiting /\ client.step = "lost"
    /\ buf # <<>>
    /\ \/ buf' = Tail(buf) /\ UNCHANGED client
       \/ Head(buf).part = "head" /\ client' = [client EXCEPT !.step = "regained"] /\ UNCHANGED buf
    /\ UNCHANGED <<pipe, server>>

(* A socket that the server has reset.                                     *)
ReadRaises ==
    /\ Waiting /\ client.by = "websocket"
    /\ ~server.up
    /\ Close(client, "raised")
    /\ UNCHANGED <<pipe, buf, server>>

(* There is nothing to read.                                               *)
Silence ==
    IF Framed THEN buf = <<>> /\ (pipe = <<>> \/ (client.by = "proxy" /\ ~server.up))
    ELSE pipe = <<>> /\ (server.up \/ buf = <<>>)

(* Variant: every transport forgets the header.                            *)
NeverInStep(c) == IF c.held # NoMessage THEN [c EXCEPT !.step = "lost", !.held = NoMessage] ELSE c

(* The proxy transport does not wait for a payload longer than a slice, and
   has forgotten the header then.                                          *)
Missed(c) ==
    IF c.by = "proxy" /\ c.held # NoMessage
    THEN [c EXCEPT !.step = "lost", !.held = NoMessage] ELSE c

(* Variant: a reader that is in the midst of a frame waits on.             *)
PatientTick ==
    /\ Waiting /\ Silence
    /\ client.held = NoMessage
    /\ LET c == [client EXCEPT !.left = @ - 1] IN
       IF c.left = 0 THEN GiveUp(c) ELSE client' = c
    /\ UNCHANGED <<pipe, buf, server>>

(* A slice passes without anything to read.  A handshake through the proxy
   gets one slice; readline, in the midst of a line, does not look at the
   clock.                                                                  *)
Tick ==
    /\ Waiting /\ Silence
    /\ Framed \/ client.held = NoMessage
    /\ LET c == Missed([client EXCEPT !.left = @ - 1]) IN
       IF c.left = 0 \/ (c.pc = "shaking" /\ c.by = "proxy") THEN GiveUp(c) ELSE client' = c
    /\ UNCHANGED <<pipe, buf, server>>

-------------------------------------------------------------------------------
(* The server.                                                             *)

(* Notifications are numbered; the number of another message is that of the
   notification before it.                                                 *)
SaidOf(kinds) == {m \in server.said : m.kind \in kinds}
Done(i)       == \E m \in SaidOf({"answer", "error"}) : m.id = i
Shaken        == SaidOf({"upgrade", "refusal"}) # {}

Sendable ==
    [kind : {"answer", "error"}, id : {i \in server.asked : ~Done(i)}, nr : {server.sent}]
    \cup (([kind : {"request"}, id : Ids, nr : {server.sent}]
           \cup [kind : {"notification"}, id : {None}, nr : {server.sent + 1}]) \ server.said)

CanWrite == server.up /\ server.writing = NoMessage /\ client.pc \notin {"start", "closing", "terminated", "closed"}

(* It begins a message, ...                                                *)
Writes(m) ==
    /\ server' = [server EXCEPT !.writing = m, !.sent = m.nr]
    /\ pipe' = Append(pipe, [m |-> m, part |-> "head"])
    /\ UNCHANGED <<client, buf>>

ServerShakes ==
    /\ CanWrite /\ Framed /\ ~Shaken
    /\ \E kind \in {"upgrade", "refusal"} : Writes([kind |-> kind, id |-> None, nr |-> 0])

ServerSends ==
    /\ CanWrite /\ (Framed => Shaken)
    /\ \E m \in Sendable :
        /\ Cardinality(SaidOf({"request", "notification"})) < MaxMessages
           \/ m.kind \in {"answer", "error"}
        /\ Writes(m)

(* ... and ends it.                                                        *)
ServerEnds ==
    /\ server.up /\ server.writing # NoMessage
    /\ pipe' = Append(pipe, [m |-> server.writing, part |-> "rest"])
    /\ server' = [server EXCEPT !.writing = NoMessage, !.said = @ \cup {server.writing}]
    /\ UNCHANGED <<client, buf>>

(* The process that is talked to ends, by itself or when it is told to.    *)
ServerDies ==
    /\ server.up /\ client.pc # "start"
    /\ server' = [server EXCEPT !.up = FALSE]
    /\ UNCHANGED <<client, pipe, buf>>

-------------------------------------------------------------------------------
(* Closing.                                                                *)

Closed == client' = [client EXCEPT !.pc = "closed"]

(* A socket is closed.  Of a process, stdin is; then poll tells whether it
   is gone, and if it is not, its group is told to end.                    *)
CloseTransport ==
    /\ client.pc = "closing"
    /\ IF Spawned /\ server.up THEN client' = [client EXCEPT !.pc = "terminated"] ELSE Closed
    /\ UNCHANGED <<pipe, buf, server>>

(* Variant: a server that did not heed SIGTERM is left alone.              *)
ReapTheWilling ==
    /\ client.pc = "terminated"
    /\ Closed
    /\ UNCHANGED <<pipe, buf, server>>

(* It is waited for one second, and killed with its group.                 *)
Reap ==
    /\ client.pc = "terminated"
    /\ server' = [server EXCEPT !.up = FALSE]
    /\ Closed
    /\ UNCHANGED <<pipe, buf>>

-------------------------------------------------------------------------------
ClientStep ==
    \/ Start \/ Ask \/ ReadLine \/ Receive \/ ReadFrame \/ ReadGarbage \/ ReadRaises
    \/ CloseTransport \/ Reap

ServerStep == ServerShakes \/ ServerSends \/ ServerEnds \/ ServerDies

Next == ClientStep \/ Tick \/ ServerStep

Spec == Init /\ [][Next]_vars

(* The client runs and time passes; nothing is expected of the server.     *)
FairSpec == Spec /\ WF_vars(ClientStep) /\ WF_vars(Tick)

-------------------------------------------------------------------------------
(* A method is asked for, and the session succeeds, only when the request
   before it was answered and not with an error; or when the server sent a
   request of its own with just that id, which _request_raw takes for the
   answer.                                                                 *)
Granted(i) == \E m \in SaidOf({"answer", "request"}) : m.id = i

SuccessIsGranted ==
    /\ 2 \in server.asked => Granted(1)
    /\ client.result = "ok" \/ client.pc = "collecting" => Granted(client.id)

(* A request that was answered is given up only where the transport cannot
   read the answer: readline has read it ahead with another line and select
   sees nothing, or it came through a proxy that was out of step or is gone.
   Never where there is a socket.                                          *)
AnsweredIsNotGivenUp ==
    [][client.result # "timedOut" /\ client'.result = "timedOut" /\ Done(client.id)
       => \/ client.by = "stdio" /\ buf # <<>>
          \/ client.by = "proxy" /\ (client'.step # "kept" \/ ~server.up)]_vars

(* What subscribe collects are notifications that were sent after its
   answer, in their order; and of a transport that keeps in step, all of
   them up to the last.                                                    *)
EventsFollowTheAnswer ==
    LET e == client.events IN
    /\ \A i, j \in DOMAIN e : i < j => e[i] < e[j]
    /\ \A i \in DOMAIN e : client.taken # NoMessage /\ client.taken.nr < e[i]
    /\ client.by # "proxy" =>
         \A m \in SaidOf({"notification"}), i \in DOMAIN e :
             client.taken.nr < m.nr /\ m.nr < e[i] => \E j \in DOMAIN e : e[j] = m.nr

(* A session that ends leaves no server behind that it started.            *)
ServerIsReaped ==
    [][client.pc # "start" /\ client'.pc = "closed" /\ Spawned => ~server'.up]_vars

(* A session ends, and every call with it, whatever the server sends or
   fails to send; except that a server which writes half a line over stdio
   holds it as long as it likes.                                           *)
SessionEnds == <>[](client.pc = "closed") \/ <>[](client.held # NoMessage /\ ~Framed)

(* What the bridge means to do: a request is only given up when there is no
   answer to it.                                                           *)
OnlyTheUnansweredIsGivenUp ==
    [][client.result # "timedOut" /\ client'.result = "timedOut" => ~Done(client.id)]_vars
===============================================================================
