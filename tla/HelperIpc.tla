------------------------------ MODULE HelperIpc ------------------------------
(***************************************************************************)
(* The computer-use helper and the bridge commands that act through it.    *)
(*                                                                         *)
(* A bridge command (Commands) reads the helper's token, records that the  *)
(* action is authorized, connects to the helper's socket, sends one frame, *)
(* waits at most two seconds for the answer and records the completion.    *)
(* Nothing is retried.  A helper is one run of `helper run' (Launches): it *)
(* writes a token of its own over the token file, takes the socket path    *)
(* over, and serves one connection at a time.  Workbench keeps one helper, *)
(* but nothing stops a second one from being started by hand; the path and *)
(* the token file are then shared by both.                                 *)
(*                                                                         *)
(* The connections that wait in a listen backlog are kept as a set: each   *)
(* command connects once, so their order matters to nobody.                *)
(***************************************************************************)
EXTENDS Naturals, FiniteSets

CONSTANTS Commands,   \* bridge commands with an action for the helper
          Launches,   \* runs of the helper; each also stands for its token
          Backlog,    \* connections a listening socket keeps waiting, 8
          None

ASSUME HelperAssumption ==
    /\ Backlog \in Nat \ {0}
    /\ None \notin Commands \cup Launches

VARIABLES
    tokenFile,  \* whose token the token file holds
    path,       \* whose socket is bound to the socket path
    helper,     \* the helpers: where each is, whom it serves, what it answers
    command,    \* the bridge commands
    conn,       \* the one connection of each, as the kernel sees it
    audit,      \* the records in audit.jsonl
    posted,     \* how often each command's action was posted to the Mac
    sole        \* history: helpers that have been the only one since they started

ipc  == <<tokenFile, path, helper, command, conn>>
vars == <<ipc, audit, posted, sole>>

(* Serving is the part of `Listening' in which a connection is in hand.    *)
Serving   == {"reading", "executing", "responding"}
Listening == {"listening"} \cup Serving
Starting  == {"look", "unlink", "bind", "bound"}
HelperSteps == {"off", "cleanup", "exited"} \cup Starting \cup Listening

Answers == {"none", "ok", "error"}
Helper  == [pc: HelperSteps, serving: Commands \cup {None}, answer: Answers]

(* What dispatch gives back: the helper's own answer; `unavailable' for an
   OSError, a timeout included; `failedBefore' for any other exception, of
   which the report says that the helper failed before performing.         *)
Results == {"none", "ok", "error", "unavailable", "failedBefore"}

(* `over' is the end of a command, by itself or with its process.          *)
Working == {"ready", "authorized", "connected", "sent", "answered"}
Command == [pc: {"begin", "over"} \cup Working, token: Launches \cup {None}, result: Results]

(* `frame' is the token in the frame that was sent, `reply' an answer that
   has not been received.  The connection may outlive its command.         *)
Conn ==
    [link: {"none", "queued", "served", "closed"}, peer: Launches \cup {None},
     frame: Launches \cup {None}, reply: Answers]

Closed(a) == [link |-> "closed", peer |-> None, frame |-> None, reply |-> a]

Record == [phase: {"authorized_dispatch"}, id: Commands]
          \cup [phase: {"completion"}, id: Commands, result: Results \ {"none"}]

(* Besides its types: a helper has a connection in hand exactly while it
   serves, and it is that connection that is taken from the backlog.       *)
TypeOK ==
    /\ tokenFile \in Launches \cup {None}
    /\ path \in Launches \cup {None}
    /\ helper \in [Launches -> Helper]
    /\ command \in [Commands -> Command]
    /\ conn \in [Commands -> Conn]
    /\ audit \subseteq Record
    /\ posted \in [Commands -> Nat]
    /\ sole \subseteq Launches
    /\ \A h \in Launches :
          IF helper[h].pc \in Serving
          THEN /\ helper[h].serving # None
               /\ conn[helper[h].serving].peer = h
               /\ conn[helper[h].serving].link = "served"
          ELSE helper[h].serving = None

Init ==
    /\ tokenFile = None
    /\ path = None
    /\ helper = [h \in Launches |-> [pc |-> "off", serving |-> None, answer |-> "none"]]
    /\ command = [c \in Commands |-> [pc |-> "begin", token |-> None, result |-> "none"]]
    /\ conn = [c \in Commands |->
         [link |-> "none", peer |-> None, frame |-> None, reply |-> "none"]]
    /\ audit = {}
    /\ posted = [c \in Commands |-> 0]
    /\ sole = {}

HelperAt(h, l) == helper[h].pc = l
HelperGoto(h, l) == helper' = [helper EXCEPT ![h].pc = l]

(* The helper gives up what it has in hand.                                *)
Leaves(h, l) == helper' = [helper EXCEPT ![h] = [pc |-> l, serving |-> None, answer |-> "none"]]

Running == {h \in Launches : helper[h].pc \notin {"off", "exited"}}

(* The connections a helper holds, waiting or in hand.                     *)
Queued(h) == {c \in Commands : conn[c].peer = h /\ conn[c].link = "queued"}
Held(h)   == {c \in Commands : conn[c].peer = h}

(* The socket of h is closed, by itself or with its process.               *)
Disconnect(h) ==
    conn' = [c \in Commands |-> IF c \in Held(h) THEN Closed("none") ELSE conn[c]]

-------------------------------------------------------------------------------
(* A helper from its start to its end.                                     *)

(* Variant: the token of the last run is used again if there is one.       *)
LaunchKeepsToken(h) ==
    /\ HelperAt(h, "off")
    /\ tokenFile' = IF tokenFile = None THEN h ELSE tokenFile
    /\ HelperGoto(h, "look")
    /\ sole' = IF Running = {} THEN {h} ELSE {}
    /\ UNCHANGED <<path, command, conn, audit, posted>>

(* `helper run' first of all replaces the token file.                      *)
Launch(h) ==
    /\ HelperAt(h, "off")
    /\ tokenFile' = h
    /\ HelperGoto(h, "look")
    /\ sole' = IF Running = {} THEN {h} ELSE {}
    /\ UNCHANGED <<path, command, conn, audit, posted>>

(* _unlink_existing_socket: whatever socket is found at the path, live or
   left over, is removed.  If it is gone when unlink is called, the helper
   fails with FileNotFoundError, outside of its try.                       *)
Look(h) ==
    /\ HelperAt(h, "look")
    /\ HelperGoto(h, IF path = None THEN "bind" ELSE "unlink")
    /\ UNCHANGED <<tokenFile, path, command, conn, audit, posted, sole>>

Unlink(h) ==
    /\ HelperAt(h, "unlink")
    /\ path' = None
    /\ HelperGoto(h, IF path = None THEN "exited" ELSE "bind")
    /\ UNCHANGED <<tokenFile, command, conn, audit, posted, sole>>

(* bind fails if another helper has bound the path in the meantime; the
   loser's cleanup then removes the socket of the winner.                  *)
Bind(h) ==
    /\ HelperAt(h, "bind")
    /\ IF path = None THEN path' = h /\ HelperGoto(h, "bound")
                      ELSE HelperGoto(h, "cleanup") /\ UNCHANGED path
    /\ UNCHANGED <<tokenFile, command, conn, audit, posted, sole>>

Listen(h) ==
    /\ HelperAt(h, "bound")
    /\ HelperGoto(h, "listening")
    /\ UNCHANGED <<tokenFile, path, command, conn, audit, posted, sole>>

(* An exception that is not one of a request's own (KeyboardInterrupt, or
   accept failing) leaves by the finally clause: the socket is closed ...  *)
Interrupt(h) ==
    /\ helper[h].pc \in {"bind", "bound"} \cup Listening
    /\ Leaves(h, "cleanup")
    /\ Disconnect(h)
    /\ UNCHANGED <<tokenFile, path, command, audit, posted, sole>>

(* ... and the path is unlinked, whoever has bound it by now.              *)
Cleanup(h) ==
    /\ HelperAt(h, "cleanup")
    /\ path' = None
    /\ HelperGoto(h, "exited")
    /\ UNCHANGED <<tokenFile, command, conn, audit, posted, sole>>

(* Workbench ends a helper with SIGTERM, which Python does not handle; a
   crash is the same.  The socket file stays behind.                       *)
Terminate(h) ==
    /\ h \in Running
    /\ Leaves(h, "exited")
    /\ Disconnect(h)
    /\ UNCHANGED <<tokenFile, path, command, audit, posted, sole>>

-------------------------------------------------------------------------------
(* A helper serving one connection.                                        *)

Accept(h) ==
    /\ HelperAt(h, "listening")
    /\ \E c \in Queued(h) :
          /\ helper' = [helper EXCEPT ![h].pc = "reading", ![h].serving = c]
          /\ conn' = [conn EXCEPT ![c].link = "served"]
    /\ UNCHANGED <<tokenFile, path, command, audit, posted, sole>>

Answer(h, l, a) == helper' = [helper EXCEPT ![h].pc = l, ![h].answer = a]

(* Variant: accepted connections have no read timeout.                     *)
ReadWithoutTimeout(h) ==
    /\ HelperAt(h, "reading")
    /\ LET c == helper[h].serving IN
          IF conn[c].frame = h THEN Answer(h, "executing", "none")
          ELSE /\ conn[c].frame # None \/ command[c].pc \in {"answered", "over"}
               /\ Answer(h, "responding", "error")
    /\ UNCHANGED <<tokenFile, path, command, conn, audit, posted, sole>>

(* Reading the frame and authorizing it.  It need not come: the peer may be
   gone, or be silent until the connection's own timeout.  A frame that was
   sent is read and served even if its sender has left.                    *)
Read(h) ==
    /\ HelperAt(h, "reading")
    /\ IF conn[helper[h].serving].frame = h THEN Answer(h, "executing", "none")
                                            ELSE Answer(h, "responding", "error")
    /\ UNCHANGED <<tokenFile, path, command, conn, audit, posted, sole>>

(* The preflight or the executor refuses the action, or the executor posts
   it.  What has been posted may still come back as an error: an exception
   between the events of a click, a menu item whose successor is missing, or
   an answer that cannot be encoded.                                       *)
Execute(h) ==
    /\ HelperAt(h, "executing")
    /\ \/ Answer(h, "responding", "error") /\ UNCHANGED posted
       \/ /\ \E a \in {"ok", "error"} : Answer(h, "responding", a)
          /\ posted' = [posted EXCEPT ![helper[h].serving] = @ + 1]
    /\ UNCHANGED <<tokenFile, path, command, conn, audit, sole>>

(* The answer goes to the command if that still waits for it.              *)
Delivered(h) ==
    LET c == helper[h].serving IN
    conn' = [conn EXCEPT ![c] =
               Closed(IF command[c].pc = "sent" THEN helper[h].answer ELSE "none")]

(* Variant: the connection is not given up after the answer.               *)
RespondKeepsServing(h) ==
    /\ HelperAt(h, "responding")
    /\ Delivered(h)
    /\ HelperGoto(h, "listening")
    /\ UNCHANGED <<tokenFile, path, command, audit, posted, sole>>

(* Only then is the next connection accepted.                              *)
Respond(h) ==
    /\ HelperAt(h, "responding")
    /\ Delivered(h)
    /\ Leaves(h, "listening")
    /\ UNCHANGED <<tokenFile, path, command, audit, posted, sole>>

-------------------------------------------------------------------------------
(* A bridge command.                                                       *)

At(c, l) == command[c].pc = l
Goto(c, l) == command' = [command EXCEPT ![c].pc = l]

Over(c) == command' = [command EXCEPT ![c] = [pc |-> "over", token |-> None, result |-> "none"]]

(* Dispatch is over, with r.                                               *)
Returns(c, r) == command' = [command EXCEPT ![c].pc = "answered", ![c].result = r]

Append(c, r) == audit' = audit \cup {r}

Authorization(c) == [phase |-> "authorized_dispatch", id |-> c]
Completion(c, r) == [phase |-> "completion", id |-> c, result |-> r]

(* The adapter reads the token when it is built.                           *)
Begin(c) ==
    /\ At(c, "begin")
    /\ command' = [command EXCEPT ![c].pc = "ready", ![c].token = tokenFile]
    /\ UNCHANGED <<tokenFile, path, helper, conn, audit, posted, sole>>

(* The command is blocked by one of its own checks, or the record of its
   authorization cannot be written: nothing is dispatched.                 *)
Blocked(c) ==
    /\ At(c, "ready")
    /\ Over(c)
    /\ UNCHANGED <<tokenFile, path, helper, conn, audit, posted, sole>>

(* Variant: the authorization is recorded together with the completion.    *)
AuthorizeLater(c) ==
    /\ At(c, "ready")
    /\ Goto(c, "authorized")
    /\ UNCHANGED <<tokenFile, path, helper, conn, audit, posted, sole>>

Authorize(c) ==
    /\ At(c, "ready")
    /\ Append(c, Authorization(c))
    /\ Goto(c, "authorized")
    /\ UNCHANGED <<tokenFile, path, helper, conn, posted, sole>>

(* Without a token the client is an UnavailableHelperClient.  A connection
   is refused if nobody listens at the path or the backlog is full.        *)
Connect(c) ==
    /\ At(c, "authorized")
    /\ IF /\ command[c].token # None
          /\ path # None
          /\ helper[path].pc \in Listening
          /\ Cardinality(Queued(path)) < Backlog
       THEN /\ Goto(c, "connected")
            /\ conn' = [conn EXCEPT ![c].peer = path, ![c].link = "queued"]
       ELSE Returns(c, "unavailable") /\ UNCHANGED conn
    /\ UNCHANGED <<tokenFile, path, helper, audit, posted, sole>>

(* sendall fails once the helper has closed the connection; a frame that is
   too large is refused by encode_frame before that.                       *)
Send(c) ==
    /\ At(c, "connected")
    /\ \/ /\ conn[c].link # "closed"
          /\ Goto(c, "sent")
          /\ conn' = [conn EXCEPT ![c].frame = command[c].token]
       \/ conn[c].link = "closed" /\ Returns(c, "unavailable") /\ UNCHANGED conn
       \/ Returns(c, "failedBefore") /\ UNCHANGED conn
    /\ UNCHANGED <<tokenFile, path, helper, audit, posted, sole>>

(* The answer, or the end of the connection without one: a reset is an
   OSError, an end of file a truncated frame.                              *)
Receive(c) ==
    /\ At(c, "sent")
    /\ conn[c].link = "closed"
    /\ IF conn[c].reply # "none"
       THEN Returns(c, conn[c].reply)
       ELSE \E r \in {"unavailable", "failedBefore"} : Returns(c, r)
    /\ conn' = [conn EXCEPT ![c].reply = "none"]
    /\ UNCHANGED <<tokenFile, path, helper, audit, posted, sole>>

(* Two seconds without an answer.                                          *)
Timeout(c) ==
    /\ At(c, "sent")
    /\ conn[c].reply = "none"
    /\ Returns(c, "unavailable")
    /\ UNCHANGED <<tokenFile, path, helper, conn, audit, posted, sole>>

(* The completion is recorded.  If that fails inside the try, the except
   clause records another one; if that fails too, none is recorded.        *)
Complete(c) ==
    /\ At(c, "answered")
    /\ \/ Append(c, Completion(c, command[c].result)) /\ Over(c)
       \/ /\ UNCHANGED audit
          /\ IF command[c].result = "failedBefore" THEN Over(c)
                                                   ELSE Returns(c, "failedBefore")
    /\ UNCHANGED <<tokenFile, path, helper, conn, posted, sole>>

(* The bridge process dies.                                                *)
Die(c) ==
    /\ command[c].pc \in Working
    /\ Over(c)
    /\ UNCHANGED <<tokenFile, path, helper, conn, audit, posted, sole>>

-------------------------------------------------------------------------------

Serve(h) == Accept(h) \/ Read(h) \/ Execute(h) \/ Respond(h)

Lifecycle(h) ==
    \/ Launch(h) \/ Look(h) \/ Unlink(h) \/ Bind(h) \/ Listen(h)
    \/ Interrupt(h) \/ Cleanup(h) \/ Terminate(h)

Act(c) ==
    \/ Begin(c) \/ Blocked(c) \/ Authorize(c) \/ Connect(c) \/ Send(c)
    \/ Receive(c) \/ Timeout(c) \/ Complete(c) \/ Die(c)

Next ==
    \/ \E h \in Launches : Serve(h) \/ Lifecycle(h)
    \/ \E c \in Commands : Act(c)

Spec == Init /\ [][Next]_vars

(* A helper that runs goes on serving: its reads time out, and what it asks
   of the system returns.  Commands may be slow or stop anywhere, also half
   way through their frame.                                                *)
Fairness == \A h \in Launches : WF_vars(Serve(h))

FairSpec == Spec /\ Fairness

-------------------------------------------------------------------------------
(* Properties.                                                             *)

(* The audit log and what is posted to the Mac are as AuditedActuation
   promises: authorized before posted, posted once, reported done only then. *)
Reported(c) ==
    IF \E r \in audit : r.phase = "completion" /\ r.id = c /\ r.result = "ok" THEN "done"
    ELSE IF \E r \in audit : r.phase = "completion" /\ r.id = c THEN "failed"
    ELSE "nothing"

Audited == INSTANCE AuditedActuation WITH
    Requests   <- Commands,
    authorized <- {c \in Commands : Authorization(c) \in audit},
    posted     <- posted,
    reported   <- [c \in Commands |-> Reported(c)]

ActuationIsAudited == Audited!Spec

(* However earlier helpers ended and whatever they left behind, a helper
   that has been the only one since it started and is listening is the one
   that commands which begin now connect to and hold the token of.         *)
SoleHelperReachable ==
    \A h \in sole : helper[h].pc \in Listening => path = h /\ tokenFile = h

(* A silent peer does not wedge the helper: every frame that was sent is
   answered, or its connection ends with the helper.                       *)
FramesAreServed ==
    \A c \in Commands :
       (conn[c].frame # None /\ conn[c].link = "queued") ~> conn[c].link = "closed"

(* The report says that the helper "failed before performing" the action
   (customer_mac.py:1680 and 1751): then it has not been performed.        *)
FailedBeforePerforming ==
    \A c \in Commands : Completion(c, "failedBefore") \in audit => posted[c] = 0
===============================================================================
