-------------------------- MODULE HelperIpc_proofs --------------------------
(***************************************************************************)
(* Proofs about HelperIpc, for any number of commands and of helper runs   *)
(* and any backlog.                                                        *)
(*                                                                         *)
(* Neither TypeOK nor the refinement is inductive.  IInv adds how far a    *)
(* command has come when its connection exists (LinkedLate), what is in    *)
(* the audit log by then (AuthorizedFirst, ReportedLast), that a posted    *)
(* action is not in front of a helper any more (PostedOnce), that an `ok'  *)
(* on its way to the log is true (DoneIsPosted), and what holds of a       *)
(* helper that has been alone (AloneServes).                               *)
(***************************************************************************)
EXTENDS HelperIpc, TLAPS

Types ==
    /\ tokenFile \in Launches \cup {None}
    /\ path \in Launches \cup {None}
    /\ helper \in [Launches -> Helper]
    /\ command \in [Commands -> Command]
    /\ conn \in [Commands -> Conn]
    /\ audit \subseteq Record
    /\ posted \in [Commands -> Nat]
    /\ sole \subseteq Launches

InHand ==
    \A h \in Launches :
        IF helper[h].pc \in Serving
        THEN /\ helper[h].serving # None
             /\ conn[helper[h].serving].peer = h
             /\ conn[helper[h].serving].link = "served"
        ELSE helper[h].serving = None

(* A command connects once, after its authorization.                       *)
LinkedLate ==
    \A c \in Commands :
        /\ command[c].pc \in {"begin", "ready", "authorized"} => conn[c].link = "none"
        /\ conn[c].link \in {"none", "closed"} => conn[c].peer = None

AuthorizedFirst ==
    \A c \in Commands :
        \/ command[c].pc \in {"authorized", "connected", "sent", "answered"}
        \/ conn[c].link # "none"
        => Authorization(c) \in audit

(* What has been posted is waiting for its answer, or its connection is over. *)
PostedOnce ==
    \A c \in Commands :
        posted[c] # 0 =>
            /\ posted[c] = 1
            /\ \/ conn[c].link = "closed"
               \/ \E h \in Launches : helper[h].pc = "responding" /\ helper[h].serving = c

DoneIsPosted ==
    /\ \A h \in Launches :
          helper[h].pc = "responding" /\ helper[h].answer = "ok"
            => posted[helper[h].serving] = 1
    /\ \A c \in Commands :
          conn[c].reply = "ok" \/ command[c].result = "ok" => posted[c] = 1

(* The completion record is the last thing a command does, and says what
   dispatch has returned.                                                  *)
ReportedLast ==
    \A c \in Commands :
        /\ command[c].pc # "over" => \A r \in audit : r.phase = "completion" => r.id # c
        /\ command[c].pc = "answered" => command[c].result # "none"

AloneServes ==
    \A h \in sole :
        /\ helper[h].pc # "off"
        /\ \A k \in Launches \ {h} : helper[k].pc \in {"off", "exited"}
        /\ tokenFile = h
        /\ helper[h].pc \in {"bound"} \cup Listening => path = h

IInv ==
    /\ Types
    /\ InHand
    /\ LinkedLate
    /\ AuthorizedFirst
    /\ PostedOnce
    /\ DoneIsPosted
    /\ ReportedLast
    /\ AloneServes

-------------------------------------------------------------------------------
(* What the assignments to helper, command and conn change.                *)

(* Helper h is at l now, with connection s in hand and answer a.           *)
Moved(h, l, s, a) ==
    /\ helper' \in [Launches -> Helper]
    /\ helper'[h].pc = l /\ helper'[h].serving = s /\ helper'[h].answer = a
    /\ \A k \in Launches \ {h} : helper'[k] = helper[k]

(* Command c is at l now, with result r.                                   *)
Went(c, l, r) ==
    /\ command' \in [Commands -> Command]
    /\ command'[c].pc = l /\ command'[c].result = r
    /\ \A d \in Commands \ {c} : command'[d] = command[d]

(* The connection of c is in state k with helper p, holding reply a.       *)
Linked(c, k, p, a) ==
    /\ conn' \in [Commands -> Conn]
    /\ conn'[c].link = k /\ conn'[c].peer = p /\ conn'[c].reply = a
    /\ \A d \in Commands \ {c} : conn'[d] = conn[d]

Cut(h) ==
    /\ conn' \in [Commands -> Conn]
    /\ \A c \in Commands :
          IF conn[c].peer = h
          THEN conn'[c].link = "closed" /\ conn'[c].peer = None /\ conn'[c].reply = "none"
          ELSE conn'[c] = conn[c]

(* A helper that only moves on keeps what it has in hand.                   *)
LEMMA HelperGoes ==
    ASSUME Types, NEW h \in Launches, NEW l \in HelperSteps, HelperGoto(h, l)
    PROVE  Moved(h, l, helper[h].serving, helper[h].answer)
  BY DEF Types, Helper, HelperGoto, Moved

(* A helper that has made up its answer keeps the connection in hand.       *)
LEMMA HelperAnswers ==
    ASSUME Types, NEW h \in Launches, NEW l \in HelperSteps, NEW a \in Answers,
           Answer(h, l, a)
    PROVE  Moved(h, l, helper[h].serving, a)
  BY DEF Types, Helper, Answer, Moved

(* A helper that leaves has nothing in hand.                                *)
LEMMA HelperLeaves ==
    ASSUME Types, NEW h \in Launches, NEW l \in HelperSteps, Leaves(h, l)
    PROVE  Moved(h, l, None, "none")
  BY DEF Types, Helper, Leaves, Answers, Moved

(* A helper that accepts has that connection in hand.                       *)
LEMMA HelperTakes ==
    ASSUME Types, NEW h \in Launches, NEW c \in Commands,
           helper' = [helper EXCEPT ![h].pc = "reading", ![h].serving = c]
    PROVE  Moved(h, "reading", c, helper[h].answer)
<1> DEFINE H == [helper[h] EXCEPT !.pc = "reading", !.serving = c]
<1>1. helper[h] \in Helper /\ helper \in [Launches -> Helper]
  BY DEF Types
<1>2. H \in Helper /\ H.pc = "reading" /\ H.serving = c /\ H.answer = helper[h].answer
  BY <1>1 DEF Helper, HelperSteps, Listening, Serving
<1>3. helper' = [helper EXCEPT ![h] = H]
  OBVIOUS
<1> HIDE DEF H
<1> QED BY <1>1, <1>2, <1>3 DEF Moved

(* A command that only moves on keeps its result.                           *)
LEMMA CommandGoes ==
    ASSUME Types, NEW c \in Commands, NEW l \in {"begin", "over"} \cup Working, Goto(c, l)
    PROVE  Went(c, l, command[c].result)
  BY DEF Types, Command, Goto, Went

(* A command that has read the token is ready, with its result unchanged.   *)
LEMMA CommandBegins ==
    ASSUME Types, NEW c \in Commands,
           command' = [command EXCEPT ![c].pc = "ready", ![c].token = tokenFile]
    PROVE  Went(c, "ready", command[c].result)
  BY DEF Types, Command, Working, Went

(* When dispatch returns r, the command is answered with r.                 *)
LEMMA CommandReturns ==
    ASSUME Types, NEW c \in Commands, NEW r \in Results, Returns(c, r)
    PROVE  Went(c, "answered", r)
  BY DEF Types, Command, Working, Returns, Went

(* A command that is over has no result any more.                           *)
LEMMA CommandOver ==
    ASSUME Types, NEW c \in Commands, Over(c)
    PROVE  Went(c, "over", "none")
  BY DEF Types, Command, Results, Over, Went

(* A closed connection has no peer and keeps only the answer.               *)
LEMMA ClosedType ==
    ASSUME NEW a \in Answers
    PROVE  /\ Closed(a) \in Conn
           /\ Closed(a).link = "closed" /\ Closed(a).peer = None /\ Closed(a).reply = a
  BY DEF Closed, Conn

(* Closing the socket of h ends the connections h holds, and no other.      *)
LEMMA Disconnects ==
    ASSUME Types, NEW h \in Launches, Disconnect(h)
    PROVE  Cut(h)
  BY ClosedType DEF Types, Disconnect, Held, Answers, Cut

(* A command that connects waits in the backlog of the helper at the path.  *)
LEMMA QueuesUp ==
    ASSUME Types, NEW c \in Commands, path \in Launches,
           conn' = [conn EXCEPT ![c].peer = path, ![c].link = "queued"]
    PROVE  Linked(c, "queued", path, conn[c].reply)
  BY DEF Types, Conn, Linked

(* Sending a frame leaves the rest of the connection.                       *)
LEMMA SendsFrame ==
    ASSUME Types, NEW c \in Commands, conn' = [conn EXCEPT ![c].frame = command[c].token]
    PROVE  Linked(c, conn[c].link, conn[c].peer, conn[c].reply)
<1>1. command[c].token \in Launches \cup {None}
  BY DEF Types, Command
<1> QED BY <1>1, SMTT(20) DEF Types, Conn, Linked

(* The two kinds of audit records are told apart by their phase.            *)
LEMMA RecordTypes ==
    ASSUME NEW c \in Commands, NEW r \in Results
    PROVE  /\ Authorization(c) \in Record
           /\ r # "none" => Completion(c, r) \in Record
           /\ Authorization(c).phase = "authorized_dispatch"
           /\ Completion(c, r).phase = "completion"
           /\ Completion(c, r).id = c /\ Completion(c, r).result = r
  BY DEF Authorization, Completion, Record

-------------------------------------------------------------------------------
(* Every action preserves the invariant.                                   *)

(* A new helper takes the token file; if no other runs, it is the one
   alone.                                                                   *)
LEMMA LaunchStep ==
    ASSUME IInv, NEW h \in Launches, Launch(h)
    PROVE  IInv'
<1> USE DEF IInv
<1>1. Moved(h, "look", helper[h].serving, helper[h].answer)
  BY HelperGoes DEF Launch, HelperSteps, Starting
<1>2. /\ helper[h].pc = "off" /\ tokenFile' = h
       /\ \/ sole' = {}
          \/ sole' = {h} /\ \A k \in Launches \ {h} : helper[k].pc \in {"off", "exited"}
  BY DEF Launch, HelperAt, Running
<1>3. UNCHANGED <<path, command, conn, audit, posted>>
  BY DEF Launch
<1>4. Types'
  BY <1>1, <1>2, <1>3 DEF Types, Moved
<1>5. InHand'
  BY <1>1, <1>2, <1>3 DEF InHand, Moved, Serving
<1>6. PostedOnce'
  BY <1>1, <1>2, <1>3 DEF PostedOnce, Moved
<1>7. DoneIsPosted'
  BY <1>1, <1>3 DEF DoneIsPosted, Moved
<1>8. AloneServes'
  BY <1>1, <1>2 DEF AloneServes, Moved, Listening, Serving
<1>9. LinkedLate' /\ AuthorizedFirst' /\ ReportedLast'
  BY <1>3 DEF LinkedLate, AuthorizedFirst, ReportedLast
<1> QED BY <1>4, <1>5, <1>6, <1>7, <1>8, <1>9

(* Looking at the path moves nothing but the helper.                        *)
LEMMA LookStep ==
    ASSUME IInv, NEW h \in Launches, Look(h)
    PROVE  IInv'
<1> USE DEF IInv
<1>1. \E l \in {"bind", "unlink"} : Moved(h, l, helper[h].serving, helper[h].answer)
  BY HelperGoes DEF Look, HelperSteps, Starting
<1>2. helper[h].pc = "look"
  BY DEF Look, HelperAt
<1>3. UNCHANGED <<tokenFile, path, command, conn, audit, posted, sole>>
  BY DEF Look
<1>4. Types'
  BY <1>1, <1>3 DEF Types, Moved
<1>5. InHand'
  BY <1>1, <1>2, <1>3 DEF InHand, Moved, Serving
<1>6. PostedOnce'
  BY <1>1, <1>2, <1>3 DEF PostedOnce, Moved
<1>7. DoneIsPosted'
  BY <1>1, <1>3 DEF DoneIsPosted, Moved
<1>8. AloneServes'
  BY <1>1, <1>2, <1>3 DEF AloneServes, Moved, Listening, Serving
<1>9. LinkedLate' /\ AuthorizedFirst' /\ ReportedLast'
  BY <1>3 DEF LinkedLate, AuthorizedFirst, ReportedLast
<1> QED BY <1>4, <1>5, <1>6, <1>7, <1>8, <1>9

(* A socket is unlinked by a helper that does not listen yet.               *)
LEMMA UnlinkStep ==
    ASSUME IInv, NEW h \in Launches, Unlink(h)
    PROVE  IInv'
<1> USE DEF IInv
<1>1. \E l \in {"bind", "exited"} : Moved(h, l, helper[h].serving, helper[h].answer)
  BY HelperGoes DEF Unlink, HelperSteps, Starting
<1>2. helper[h].pc = "unlink" /\ path' = None
  BY DEF Unlink, HelperAt
<1>3. UNCHANGED <<tokenFile, command, conn, audit, posted, sole>>
  BY DEF Unlink
<1>4. Types'
  BY <1>1, <1>2, <1>3 DEF Types, Moved
<1>5. InHand'
  BY <1>1, <1>2, <1>3 DEF InHand, Moved, Serving
<1>6. PostedOnce'
  BY <1>1, <1>2, <1>3 DEF PostedOnce, Moved
<1>7. DoneIsPosted'
  BY <1>1, <1>3 DEF DoneIsPosted, Moved
<1>8. AloneServes'
  BY <1>1, <1>2, <1>3 DEF AloneServes, Moved, Listening, Serving
<1>9. LinkedLate' /\ AuthorizedFirst' /\ ReportedLast'
  BY <1>3 DEF LinkedLate, AuthorizedFirst, ReportedLast
<1> QED BY <1>4, <1>5, <1>6, <1>7, <1>8, <1>9

(* The path is taken over only when it is free.                             *)
LEMMA BindStep ==
    ASSUME IInv, NEW h \in Launches, Bind(h)
    PROVE  IInv'
<1> USE DEF IInv
<1>1. \/ Moved(h, "bound", helper[h].serving, helper[h].answer) /\ path' = h
      \/ Moved(h, "cleanup", helper[h].serving, helper[h].answer) /\ path' = path
  BY HelperGoes DEF Bind, HelperSteps, Starting
<1>2. helper[h].pc = "bind"
  BY DEF Bind, HelperAt
<1>3. UNCHANGED <<tokenFile, command, conn, audit, posted, sole>>
  BY DEF Bind
<1>4. Types'
  BY <1>1, <1>3 DEF Types, Moved
<1>5. InHand'
  BY <1>1, <1>2, <1>3 DEF InHand, Moved, Serving
<1>6. PostedOnce'
  BY <1>1, <1>2, <1>3 DEF PostedOnce, Moved
<1>7. DoneIsPosted'
  BY <1>1, <1>3 DEF DoneIsPosted, Moved
<1>8. AloneServes'
  BY <1>1, <1>2, <1>3 DEF AloneServes, Moved, Listening, Serving
<1>9. LinkedLate' /\ AuthorizedFirst' /\ ReportedLast'
  BY <1>3 DEF LinkedLate, AuthorizedFirst, ReportedLast
<1> QED BY <1>4, <1>5, <1>6, <1>7, <1>8, <1>9

(* A helper starts listening with nothing in hand.                          *)
LEMMA ListenStep ==
    ASSUME IInv, NEW h \in Launches, Listen(h)
    PROVE  IInv'
<1> USE DEF IInv
<1>1. Moved(h, "listening", helper[h].serving, helper[h].answer)
  BY HelperGoes DEF Listen, HelperSteps, Listening
<1>2. helper[h].pc = "bound"
  BY DEF Listen, HelperAt
<1>3. UNCHANGED <<tokenFile, path, command, conn, audit, posted, sole>>
  BY DEF Listen
<1>4. Types'
  BY <1>1, <1>3 DEF Types, Moved
<1>5. InHand'
  BY <1>1, <1>2, <1>3 DEF InHand, Moved, Serving
<1>6. PostedOnce'
  BY <1>1, <1>2, <1>3 DEF PostedOnce, Moved
<1>7. DoneIsPosted'
  BY <1>1, <1>3 DEF DoneIsPosted, Moved
<1>8. AloneServes'
  BY <1>1, <1>2, <1>3 DEF AloneServes, Moved
<1>9. LinkedLate' /\ AuthorizedFirst' /\ ReportedLast'
  BY <1>3 DEF LinkedLate, AuthorizedFirst, ReportedLast
<1> QED BY <1>4, <1>5, <1>6, <1>7, <1>8, <1>9

(* An interrupted helper takes its connections with it, what they have
   posted included.                                                         *)
LEMMA InterruptStep ==
    ASSUME IInv, NEW h \in Launches, Interrupt(h)
    PROVE  IInv'
<1> USE DEF IInv
<1>1. Moved(h, "cleanup", None, "none") /\ Cut(h)
  BY HelperLeaves, Disconnects DEF Interrupt, HelperSteps
<1>2. helper[h].pc \in {"bind", "bound"} \cup Listening
  BY DEF Interrupt
<1>3. UNCHANGED <<tokenFile, path, command, audit, posted, sole>>
  BY DEF Interrupt
<1>4. Types'
  BY <1>1, <1>3 DEF Types, Moved, Cut
<1>5. InHand'
  BY <1>1 DEF InHand, Moved, Cut, Serving, Helper
<1>6. LinkedLate'
  BY HelperAssumption, <1>1, <1>3 DEF LinkedLate, Cut
<1>7. AuthorizedFirst'
  BY HelperAssumption, <1>1, <1>3 DEF AuthorizedFirst, Cut, LinkedLate
<1>8. PostedOnce'
  BY <1>1, <1>3 DEF PostedOnce, Moved, Cut, Serving, InHand
<1>9. DoneIsPosted'
  BY <1>1, <1>3 DEF DoneIsPosted, Moved, Cut
<1>10. AloneServes'
  BY <1>1, <1>2, <1>3 DEF AloneServes, Moved, Listening, Serving
<1>11. ReportedLast'
  BY <1>3 DEF ReportedLast
<1> QED BY <1>4, <1>5, <1>6, <1>7, <1>8, <1>9, <1>10, <1>11

(* The path is unlinked by a helper that does not listen any more.          *)
LEMMA CleanupStep ==
    ASSUME IInv, NEW h \in Launches, Cleanup(h)
    PROVE  IInv'
<1> USE DEF IInv
<1>1. Moved(h, "exited", helper[h].serving, helper[h].answer)
  BY HelperGoes DEF Cleanup, HelperSteps
<1>2. helper[h].pc = "cleanup" /\ path' = None
  BY DEF Cleanup, HelperAt
<1>3. UNCHANGED <<tokenFile, command, conn, audit, posted, sole>>
  BY DEF Cleanup
<1>4. Types'
  BY <1>1, <1>2, <1>3 DEF Types, Moved
<1>5. InHand'
  BY <1>1, <1>2, <1>3 DEF InHand, Moved, Serving
<1>6. PostedOnce'
  BY <1>1, <1>2, <1>3 DEF PostedOnce, Moved
<1>7. DoneIsPosted'
  BY <1>1, <1>3 DEF DoneIsPosted, Moved
<1>8. AloneServes'
  BY <1>1, <1>2, <1>3 DEF AloneServes, Moved, Listening, Serving
<1>9. LinkedLate' /\ AuthorizedFirst' /\ ReportedLast'
  BY <1>3 DEF LinkedLate, AuthorizedFirst, ReportedLast
<1> QED BY <1>4, <1>5, <1>6, <1>7, <1>8, <1>9

(* A helper that is killed takes its connections with it; its path and
   token stay.                                                              *)
LEMMA TerminateStep ==
    ASSUME IInv, NEW h \in Launches, Terminate(h)
    PROVE  IInv'
<1> USE DEF IInv
<1>1. Moved(h, "exited", None, "none") /\ Cut(h)
  BY HelperLeaves, Disconnects DEF Terminate, HelperSteps
<1>2. helper[h].pc \notin {"off", "exited"}
  BY DEF Terminate, Running
<1>3. UNCHANGED <<tokenFile, path, command, audit, posted, sole>>
  BY DEF Terminate
<1>4. Types'
  BY <1>1, <1>3 DEF Types, Moved, Cut
<1>5. InHand'
  BY <1>1 DEF InHand, Moved, Cut, Serving, Helper
<1>6. LinkedLate'
  BY HelperAssumption, <1>1, <1>3 DEF LinkedLate, Cut
<1>7. AuthorizedFirst'
  BY HelperAssumption, <1>1, <1>3 DEF AuthorizedFirst, Cut, LinkedLate
<1>8. PostedOnce'
  BY <1>1, <1>3 DEF PostedOnce, Moved, Cut, Serving, InHand
<1>9. DoneIsPosted'
  BY <1>1, <1>3 DEF DoneIsPosted, Moved, Cut
<1>10. AloneServes'
  BY <1>1, <1>3 DEF AloneServes, Moved, Listening, Serving, Types
<1>11. ReportedLast'
  BY <1>3 DEF ReportedLast
<1> QED BY <1>4, <1>5, <1>6, <1>7, <1>8, <1>9, <1>10, <1>11

(* A helper that accepts had nothing in hand, so nobody else serves the
   connection.                                                              *)
LEMMA AcceptStep ==
    ASSUME IInv, NEW h \in Launches, Accept(h)
    PROVE  IInv'
<1> USE DEF IInv
<1>1. PICK c \in Queued(h) :
           /\ helper' = [helper EXCEPT ![h].pc = "reading", ![h].serving = c]
           /\ conn' = [conn EXCEPT ![c].link = "served"]
  BY DEF Accept
<1>2. c \in Commands /\ conn[c].link = "queued" /\ conn[c].peer = h
  BY DEF Queued
<1>3. Moved(h, "reading", c, helper[h].answer)
  BY <1>1, <1>2, HelperTakes
<1>4. Linked(c, "served", h, conn[c].reply)
  BY <1>1, <1>2 DEF Types, Conn, Linked
<1>5. helper[h].pc = "listening"
  BY DEF Accept, HelperAt
<1>6. UNCHANGED <<tokenFile, path, command, audit, posted, sole>>
  BY DEF Accept
<1>7. Types'
  BY <1>3, <1>4, <1>6 DEF Types, Moved, Linked
<1>8. InHand'
  BY HelperAssumption, <1>2, <1>3, <1>4 DEF InHand, Moved, Linked, Serving, Helper
<1>9. LinkedLate'
  BY <1>2, <1>4, <1>6 DEF LinkedLate, Linked
<1>10. AuthorizedFirst'
  BY <1>2, <1>4, <1>6 DEF AuthorizedFirst, Linked
<1>11. PostedOnce'
  BY <1>2, <1>3, <1>4, <1>5, <1>6 DEF PostedOnce, Moved, Linked
<1>12. DoneIsPosted'
  BY <1>3, <1>4, <1>6 DEF DoneIsPosted, Moved, Linked
<1>13. AloneServes'
  BY <1>3, <1>5, <1>6 DEF AloneServes, Moved, Listening
<1>14. ReportedLast'
  BY <1>6 DEF ReportedLast
<1> QED BY <1>7, <1>8, <1>9, <1>10, <1>11, <1>12, <1>13, <1>14

(* Reading the frame leaves the connection in hand.                         *)
LEMMA ReadStep ==
    ASSUME IInv, NEW h \in Launches, Read(h)
    PROVE  IInv'
<1> USE DEF IInv
<1>1. \/ Moved(h, "executing", helper[h].serving, "none")
      \/ Moved(h, "responding", helper[h].serving, "error")
  BY HelperAnswers DEF Read, Answers, HelperSteps, Listening, Serving
<1>2. helper[h].pc = "reading"
  BY DEF Read, HelperAt
<1>3. UNCHANGED <<tokenFile, path, command, conn, audit, posted, sole>>
  BY DEF Read
<1>4. Types'
  BY <1>1, <1>3 DEF Types, Moved
<1>5. InHand'
  BY <1>1, <1>2, <1>3 DEF InHand, Moved, Serving
<1>6. PostedOnce'
  BY <1>1, <1>2, <1>3 DEF PostedOnce, Moved
<1>7. DoneIsPosted'
  BY <1>1, <1>3 DEF DoneIsPosted, Moved
<1>8. AloneServes'
  BY <1>1, <1>2, <1>3 DEF AloneServes, Moved, Listening, Serving
<1>9. LinkedLate' /\ AuthorizedFirst' /\ ReportedLast'
  BY <1>3 DEF LinkedLate, AuthorizedFirst, ReportedLast
<1> QED BY <1>4, <1>5, <1>6, <1>7, <1>8, <1>9

(* The connection in hand has not been posted for: its helper executes only
   now.                                                                     *)
LEMMA ExecuteStep ==
    ASSUME IInv, NEW h \in Launches, Execute(h)
    PROVE  IInv'
<1> USE DEF IInv
<1>1. \E a \in {"ok", "error"} :
           /\ Moved(h, "responding", helper[h].serving, a)
           /\ \/ a = "error" /\ posted' = posted
              \/ posted' = [posted EXCEPT ![helper[h].serving] = @ + 1]
  BY HelperAnswers DEF Execute, Answers, HelperSteps, Listening, Serving
<1>2. helper[h].pc = "executing" /\ helper[h].serving \in Commands
  BY DEF Execute, HelperAt, Types, InHand, Helper, Serving
<1>3. posted[helper[h].serving] = 0
  BY <1>2 DEF PostedOnce, InHand, Serving
<1>4. /\ \A c \in Commands :
           posted'[c] = posted[c] \/ (c = helper[h].serving /\ posted'[c] = 1)
      /\ helper'[h].answer = "ok" => posted'[helper[h].serving] = 1
  BY <1>1, <1>2, <1>3 DEF Types, Moved
<1>5. UNCHANGED <<tokenFile, path, command, conn, audit, sole>>
  BY DEF Execute
<1>6. Types'
  BY <1>1, <1>5 DEF Types, Moved
<1>7. InHand'
  BY <1>1, <1>2, <1>5 DEF InHand, Moved, Serving
<1>8. PostedOnce'
  BY <1>1, <1>4, <1>5 DEF PostedOnce, Moved
<1>9. DoneIsPosted'
  BY <1>1, <1>4, <1>5 DEF DoneIsPosted, Moved, Serving, Helper, InHand
<1>10. AloneServes'
  BY <1>1, <1>2, <1>5 DEF AloneServes, Moved, Listening, Serving
<1>11. LinkedLate' /\ AuthorizedFirst' /\ ReportedLast'
  BY <1>5 DEF LinkedLate, AuthorizedFirst, ReportedLast
<1> QED BY <1>6, <1>7, <1>8, <1>9, <1>10, <1>11

(* The answer closes the connection, so it cannot be executed again.        *)
LEMMA RespondStep ==
    ASSUME IInv, NEW h \in Launches, Respond(h)
    PROVE  IInv'
<1> USE DEF IInv
<1>1. helper[h].pc = "responding" /\ helper[h].serving \in Commands
  BY DEF Respond, HelperAt, Types, InHand, Helper, Serving
<1>2. Moved(h, "listening", None, "none")
  BY HelperLeaves DEF Respond, HelperSteps, Listening
<1>3. \E a \in {helper[h].answer, "none"} : Linked(helper[h].serving, "closed", None, a)
  BY <1>1, ClosedType DEF Respond, Delivered, Types, Helper, Answers, Linked
<1>4. UNCHANGED <<tokenFile, path, command, audit, posted, sole>>
  BY DEF Respond
<1>5. Types'
  BY <1>2, <1>3, <1>4 DEF Types, Moved, Linked
<1>6. InHand'
  BY <1>2, <1>3 DEF InHand, Moved, Linked, Serving, Helper
<1>7. LinkedLate'
  BY <1>1, <1>3, <1>4 DEF LinkedLate, Linked, InHand, Serving
<1>8. AuthorizedFirst'
  BY <1>1, <1>3, <1>4 DEF AuthorizedFirst, Linked, Serving, InHand
<1>9. PostedOnce'
  BY <1>2, <1>3, <1>4 DEF PostedOnce, Moved, Linked
<1>10. DoneIsPosted'
  BY <1>1, <1>2, <1>3, <1>4 DEF DoneIsPosted, Moved, Linked
<1>11. AloneServes'
  BY <1>1, <1>2, <1>4 DEF AloneServes, Moved, Listening, Serving
<1>12. ReportedLast'
  BY <1>4 DEF ReportedLast
<1> QED BY <1>5, <1>6, <1>7, <1>8, <1>9, <1>10, <1>11, <1>12

(* A command that begins has not connected.                                 *)
LEMMA BeginStep ==
    ASSUME IInv, NEW c \in Commands, Begin(c)
    PROVE  IInv'
<1> USE DEF IInv
<1>1. Went(c, "ready", command[c].result) /\ command[c].pc = "begin"
  BY CommandBegins DEF Begin, At
<1>2. UNCHANGED <<tokenFile, path, helper, conn, audit, posted, sole>>
  BY DEF Begin
<1>3. Types'
  BY <1>1, <1>2 DEF Types, Went
<1>4. LinkedLate'
  BY <1>1, <1>2 DEF LinkedLate, Went
<1>5. AuthorizedFirst'
  BY <1>1, <1>2 DEF AuthorizedFirst, Went
<1>6. DoneIsPosted'
  BY <1>1, <1>2 DEF DoneIsPosted, Went
<1>7. ReportedLast'
  BY <1>1, <1>2 DEF ReportedLast, Went
<1>8. InHand' /\ PostedOnce' /\ AloneServes'
  BY <1>2 DEF InHand, PostedOnce, AloneServes
<1> QED BY <1>3, <1>4, <1>5, <1>6, <1>7, <1>8

(* A blocked command never connects.                                        *)
LEMMA BlockedStep ==
    ASSUME IInv, NEW c \in Commands, Blocked(c)
    PROVE  IInv'
<1> USE DEF IInv
<1>1. Went(c, "over", "none") /\ command[c].pc = "ready"
  BY CommandOver DEF Blocked, At
<1>2. UNCHANGED <<tokenFile, path, helper, conn, audit, posted, sole>>
  BY DEF Blocked
<1>3. Types'
  BY <1>1, <1>2 DEF Types, Went
<1>4. LinkedLate'
  BY <1>1, <1>2 DEF LinkedLate, Went
<1>5. AuthorizedFirst'
  BY <1>1, <1>2 DEF AuthorizedFirst, Went
<1>6. DoneIsPosted'
  BY <1>1, <1>2 DEF DoneIsPosted, Went
<1>7. ReportedLast'
  BY <1>1, <1>2 DEF ReportedLast, Went
<1>8. InHand' /\ PostedOnce' /\ AloneServes'
  BY <1>2 DEF InHand, PostedOnce, AloneServes
<1> QED BY <1>3, <1>4, <1>5, <1>6, <1>7, <1>8

(* The authorization is in the log before the command is authorized.        *)
LEMMA AuthorizeStep ==
    ASSUME IInv, NEW c \in Commands, Authorize(c)
    PROVE  IInv'
<1> USE DEF IInv
<1>1. Went(c, "authorized", command[c].result) /\ command[c].pc = "ready"
  BY CommandGoes DEF Authorize, At, Working
<1>2. audit' = audit \cup {Authorization(c)}
  BY DEF Authorize, Append
<1>3. Authorization(c) \in Record /\ Authorization(c).phase # "completion"
  BY RecordTypes DEF Results
<1>4. UNCHANGED <<tokenFile, path, helper, conn, posted, sole>>
  BY DEF Authorize
<1>5. Types'
  BY <1>1, <1>2, <1>3, <1>4 DEF Types, Went
<1>6. LinkedLate'
  BY <1>1, <1>4 DEF LinkedLate, Went
<1>7. AuthorizedFirst'
  BY <1>1, <1>2, <1>4 DEF AuthorizedFirst, Went
<1>8. DoneIsPosted'
  BY <1>1, <1>4 DEF DoneIsPosted, Went
<1>9. ReportedLast'
  BY <1>1, <1>2, <1>3 DEF ReportedLast, Went
<1>10. InHand' /\ PostedOnce' /\ AloneServes'
  BY <1>4 DEF InHand, PostedOnce, AloneServes
<1> QED BY <1>5, <1>6, <1>7, <1>8, <1>9, <1>10

(* A command that connects has no connection yet and nothing posted.        *)
LEMMA ConnectStep ==
    ASSUME IInv, NEW c \in Commands, Connect(c)
    PROVE  IInv'
<1> USE DEF IInv
<1>1. command[c].pc = "authorized"
  BY DEF Connect, At
<1>2. \/ /\ path \in Launches /\ Went(c, "connected", command[c].result)
         /\ Linked(c, "queued", path, conn[c].reply)
      \/ Went(c, "answered", "unavailable") /\ conn' = conn
  BY CommandGoes, CommandReturns, QueuesUp
     DEF Connect, Types, Working, Results
<1>3. /\ conn[c].link = "none" /\ posted[c] = 0
      /\ \A k \in Launches : helper[k].serving # c
  BY HelperAssumption, <1>1 DEF LinkedLate, PostedOnce, InHand
<1>4. UNCHANGED <<tokenFile, path, helper, audit, posted, sole>>
  BY DEF Connect
<1>5. Types'
  BY <1>2, <1>4 DEF Types, Went, Linked
<1>6. InHand'
  BY <1>2, <1>3, <1>4 DEF InHand, Linked, Helper, Types
<1>7. LinkedLate'
  BY <1>2 DEF LinkedLate, Went, Linked
<1>8. AuthorizedFirst'
  BY <1>1, <1>2, <1>4 DEF AuthorizedFirst, Went, Linked
<1>9. PostedOnce'
  BY <1>2, <1>3, <1>4 DEF PostedOnce, Linked
<1>10. DoneIsPosted'
  BY <1>2, <1>4 DEF DoneIsPosted, Went, Linked
<1>11. ReportedLast'
  BY <1>1, <1>2, <1>4 DEF ReportedLast, Went
<1>12. AloneServes'
  BY <1>4 DEF AloneServes
<1> QED BY <1>5, <1>6, <1>7, <1>8, <1>9, <1>10, <1>11, <1>12

(* Sending the frame leaves the connection with its helper.                 *)
LEMMA SendStep ==
    ASSUME IInv, NEW c \in Commands, Send(c)
    PROVE  IInv'
<1> USE DEF IInv
<1>1. command[c].pc = "connected"
  BY DEF Send, At
<1>2. \/ /\ Went(c, "sent", command[c].result)
         /\ Linked(c, conn[c].link, conn[c].peer, conn[c].reply)
      \/ \E r \in {"unavailable", "failedBefore"} : Went(c, "answered", r) /\ conn' = conn
  BY CommandGoes, CommandReturns, SendsFrame DEF Send, Working, Results
<1>3. UNCHANGED <<tokenFile, path, helper, audit, posted, sole>>
  BY DEF Send
<1>4. Types'
  BY <1>2, <1>3 DEF Types, Went, Linked
<1>5. InHand'
  BY <1>2, <1>3 DEF InHand, Linked, Helper, Types
<1>6. LinkedLate'
  BY <1>2 DEF LinkedLate, Went, Linked
<1>7. AuthorizedFirst'
  BY <1>1, <1>2, <1>3 DEF AuthorizedFirst, Went, Linked
<1>8. PostedOnce'
  BY <1>2, <1>3 DEF PostedOnce, Linked
<1>9. DoneIsPosted'
  BY <1>2, <1>3 DEF DoneIsPosted, Went, Linked
<1>10. ReportedLast'
  BY <1>1, <1>2, <1>3 DEF ReportedLast, Went
<1>11. AloneServes'
  BY <1>3 DEF AloneServes
<1> QED BY <1>4, <1>5, <1>6, <1>7, <1>8, <1>9, <1>10, <1>11

(* An `ok' that is received was on its way, so it is true.                  *)
LEMMA ReceiveStep ==
    ASSUME IInv, NEW c \in Commands, Receive(c)
    PROVE  IInv'
<1> USE DEF IInv
<1>1. command[c].pc = "sent" /\ conn[c].link = "closed"
  BY DEF Receive, At
<1>2. \E r \in {"ok", "error", "unavailable", "failedBefore"} :
        /\ Went(c, "answered", r) /\ (r = "ok" => conn[c].reply = "ok")
  BY CommandReturns DEF Receive, Types, Results, Conn, Answers
<1>3. Linked(c, "closed", conn[c].peer, "none")
  BY DEF Receive, Types, Conn, Answers, Linked
<1>4. UNCHANGED <<tokenFile, path, helper, audit, posted, sole>>
  BY DEF Receive
<1>5. Types'
  BY <1>2, <1>3, <1>4 DEF Types, Went, Linked
<1>6. InHand'
  BY <1>1, <1>3, <1>4 DEF InHand, Linked, Helper, Types
<1>7. LinkedLate'
  BY <1>1, <1>2, <1>3 DEF LinkedLate, Went, Linked
<1>8. AuthorizedFirst'
  BY <1>1, <1>2, <1>3, <1>4 DEF AuthorizedFirst, Went, Linked
<1>9. PostedOnce'
  BY <1>3, <1>4 DEF PostedOnce, Linked
<1>10. DoneIsPosted'
  BY <1>2, <1>3, <1>4 DEF DoneIsPosted, Went, Linked
<1>11. ReportedLast'
  BY <1>1, <1>2, <1>4 DEF ReportedLast, Went
<1>12. AloneServes'
  BY <1>4 DEF AloneServes
<1> QED BY <1>5, <1>6, <1>7, <1>8, <1>9, <1>10, <1>11, <1>12

(* A command that gives up leaves its connection to the helper.             *)
LEMMA TimeoutStep ==
    ASSUME IInv, NEW c \in Commands, Timeout(c)
    PROVE  IInv'
<1> USE DEF IInv
<1>1. Went(c, "answered", "unavailable") /\ command[c].pc = "sent"
  BY CommandReturns DEF Timeout, At, Results
<1>2. UNCHANGED <<tokenFile, path, helper, conn, audit, posted, sole>>
  BY DEF Timeout
<1>3. Types'
  BY <1>1, <1>2 DEF Types, Went
<1>4. LinkedLate'
  BY <1>1, <1>2 DEF LinkedLate, Went
<1>5. AuthorizedFirst'
  BY <1>1, <1>2 DEF AuthorizedFirst, Went
<1>6. DoneIsPosted'
  BY <1>1, <1>2 DEF DoneIsPosted, Went
<1>7. ReportedLast'
  BY <1>1, <1>2 DEF ReportedLast, Went
<1>8. InHand' /\ PostedOnce' /\ AloneServes'
  BY <1>2 DEF InHand, PostedOnce, AloneServes
<1> QED BY <1>3, <1>4, <1>5, <1>6, <1>7, <1>8

(* A completion is recorded by the step that ends the command.              *)
LEMMA CompleteStep ==
    ASSUME IInv, NEW c \in Commands, Complete(c)
    PROVE  IInv'
<1> USE DEF IInv
<1>1. command[c].pc = "answered"
  BY DEF Complete, At
<1>2. \/ /\ Went(c, "over", "none")
         /\ audit' = audit \cup {Completion(c, command[c].result)}
      \/ Went(c, "over", "none") /\ audit' = audit
      \/ Went(c, "answered", "failedBefore") /\ audit' = audit
  BY CommandOver, CommandReturns DEF Complete, Append, Results
<1>3. /\ Completion(c, command[c].result) \in Record
      /\ Completion(c, command[c].result).id = c
  BY <1>1, RecordTypes DEF Types, Command, ReportedLast
<1>4. UNCHANGED <<tokenFile, path, helper, conn, posted, sole>>
  BY DEF Complete
<1>5. Types'
  BY <1>2, <1>3, <1>4 DEF Types, Went
<1>6. LinkedLate'
  BY <1>2, <1>4 DEF LinkedLate, Went
<1>7. AuthorizedFirst'
  BY <1>1, <1>2, <1>4 DEF AuthorizedFirst, Went
<1>8. DoneIsPosted'
  BY <1>2, <1>4 DEF DoneIsPosted, Went
<1>9. ReportedLast'
  BY <1>1, <1>2, <1>3 DEF ReportedLast, Went
<1>10. InHand' /\ PostedOnce' /\ AloneServes'
  BY <1>4 DEF InHand, PostedOnce, AloneServes
<1> QED BY <1>5, <1>6, <1>7, <1>8, <1>9, <1>10

(* A command that dies leaves its connection and its records.               *)
LEMMA DieStep ==
    ASSUME IInv, NEW c \in Commands, Die(c)
    PROVE  IInv'
<1> USE DEF IInv
<1>1. Went(c, "over", "none")
  BY CommandOver DEF Die
<1>2. UNCHANGED <<tokenFile, path, helper, conn, audit, posted, sole>>
  BY DEF Die
<1>3. Types'
  BY <1>1, <1>2 DEF Types, Went
<1>4. LinkedLate'
  BY <1>1, <1>2 DEF LinkedLate, Went
<1>5. AuthorizedFirst'
  BY <1>1, <1>2 DEF AuthorizedFirst, Went
<1>6. DoneIsPosted'
  BY <1>1, <1>2 DEF DoneIsPosted, Went
<1>7. ReportedLast'
  BY <1>1, <1>2 DEF ReportedLast, Went
<1>8. InHand' /\ PostedOnce' /\ AloneServes'
  BY <1>2 DEF InHand, PostedOnce, AloneServes
<1> QED BY <1>3, <1>4, <1>5, <1>6, <1>7, <1>8

(* The invariant holds at the start.                                        *)
LEMMA InitIInv == Init => IInv
<1> SUFFICES ASSUME Init PROVE IInv
  OBVIOUS
<1> USE DEF Init
<1>1. Types
  BY DEF Types, Helper, Command, Conn, HelperSteps, Answers, Results
<1>2. InHand /\ LinkedLate /\ AuthorizedFirst /\ PostedOnce
  BY DEF InHand, Serving, LinkedLate, AuthorizedFirst, PostedOnce
<1>3. DoneIsPosted /\ ReportedLast /\ AloneServes
  BY DEF DoneIsPosted, ReportedLast, AloneServes
<1> QED BY <1>1, <1>2, <1>3 DEF IInv

(* It holds while nothing happens.                                          *)
LEMMA StutterStep == ASSUME IInv, UNCHANGED vars PROVE IInv'
<1> USE DEF IInv, vars, ipc
<1>1. Types' /\ InHand' /\ LinkedLate' /\ AuthorizedFirst'
  BY DEF Types, InHand, LinkedLate, AuthorizedFirst
<1>2. PostedOnce' /\ DoneIsPosted' /\ ReportedLast' /\ AloneServes'
  BY DEF PostedOnce, DoneIsPosted, ReportedLast, AloneServes
<1> QED BY <1>1, <1>2

(* Every step preserves it.                                                 *)
LEMMA IInvStep == IInv /\ [Next]_vars => IInv'
<1> SUFFICES ASSUME IInv, [Next]_vars PROVE IInv'
  OBVIOUS
<1>1. ASSUME NEW h \in Launches, Serve(h) PROVE IInv'
  BY <1>1, AcceptStep, ReadStep, ExecuteStep, RespondStep DEF Serve
<1>2. ASSUME NEW h \in Launches, Lifecycle(h) PROVE IInv'
  <2>1. CASE Launch(h) \/ Look(h) \/ Unlink(h) \/ Bind(h)
    BY <2>1, LaunchStep, LookStep, UnlinkStep, BindStep
  <2>2. CASE Listen(h) \/ Interrupt(h) \/ Cleanup(h) \/ Terminate(h)
    BY <2>2, ListenStep, InterruptStep, CleanupStep, TerminateStep
  <2> QED BY <1>2, <2>1, <2>2 DEF Lifecycle
<1>3. ASSUME NEW c \in Commands, Act(c) PROVE IInv'
  <2>1. CASE Begin(c) \/ Blocked(c) \/ Authorize(c) \/ Connect(c) \/ Send(c)
    BY <2>1, BeginStep, BlockedStep, AuthorizeStep, ConnectStep, SendStep
  <2>2. CASE Receive(c) \/ Timeout(c) \/ Complete(c) \/ Die(c)
    BY <2>2, ReceiveStep, TimeoutStep, CompleteStep, DieStep
  <2> QED BY <1>3, <2>1, <2>2 DEF Act
<1> QED BY <1>1, <1>2, <1>3, StutterStep DEF Next

(* The inductive invariant holds.                                          *)
THEOREM Inductive == Spec => []IInv
  BY InitIInv, IInvStep, PTL DEF Spec

-------------------------------------------------------------------------------
(* What follows from it.                                                   *)

(* Every variable keeps its type, and a helper has a connection in hand
   exactly while it serves (run_helper_server's accept loop).              *)
THEOREM TypeCorrect == Spec => []TypeOK
<1>1. IInv => TypeOK
  BY DEF IInv, Types, InHand, TypeOK
<1> QED BY <1>1, Inductive, PTL

(* A helper that has been alone since it started and listens is the one at
   the path, with its token in the file (_unlink_existing_socket and
   _write_new_helper_token take over whatever was left).                   *)
THEOREM AloneIsReachable == Spec => []SoleHelperReachable
<1>1. IInv => SoleHelperReachable
  BY DEF IInv, AloneServes, SoleHelperReachable
<1> QED BY <1>1, Inductive, PTL

(* Without a completion record, the log reports nothing of c.               *)
LEMMA ReportedByLog ==
    ASSUME NEW c \in Commands, \A r \in audit : r.phase = "completion" => r.id # c
    PROVE  Reported(c) = "nothing"
  BY DEF Reported

(* At the start nothing is authorized, posted or reported.                  *)
LEMMA InitImplements == Init => Audited!Init
  BY DEF Init, Audited!Init, Reported

(* A step that leaves the log and the Mac alone is a stutter of
   AuditedActuation.                                                        *)
LEMMA QuietSteps ==
    ASSUME UNCHANGED <<audit, posted>>
    PROVE  UNCHANGED Audited!vars
  BY DEF Audited!vars, Reported

(* Recording an authorization is Audited!Authorize.                         *)
LEMMA AuthorizeImplements ==
    ASSUME IInv, NEW c \in Commands, Authorize(c)
    PROVE  [Audited!Next]_(Audited!vars)
<1>1. audit' = audit \cup {Authorization(c)} /\ posted' = posted
  BY DEF Authorize, Append
<1>2. \A d \in Commands : Authorization(d) = Authorization(c) <=> d = c
  BY DEF Authorization
<1>3. {d \in Commands : Authorization(d) \in audit'}
        = {d \in Commands : Authorization(d) \in audit} \cup {c}
  BY <1>1, <1>2
<1>4. Authorization(c).phase = "authorized_dispatch"
  BY DEF Authorization
<1>5. \A d \in Commands : Reported(d)' = Reported(d)
  BY <1>1, <1>4 DEF Reported
<1>6. CASE Authorization(c) \in audit
  BY <1>1, <1>6, QuietSteps
<1>7. CASE Authorization(c) \notin audit
  <2>1. Audited!Authorize(c)
    BY <1>1, <1>3, <1>5, <1>7 DEF Audited!Authorize
  <2> QED BY <2>1 DEF Audited!Next
<1> QED BY <1>6, <1>7

(* Recording a completion, if the record can be written, is Audited!Report. *)
LEMMA CompleteImplements ==
    ASSUME IInv, NEW c \in Commands, Complete(c)
    PROVE  [Audited!Next]_(Audited!vars)
<1> DEFINE r == command[c].result
<1>1. posted' = posted /\ command[c].pc = "answered"
  BY DEF Complete, At
<1>2. CASE audit' = audit
  BY <1>1, <1>2, QuietSteps
<1>3. CASE audit' = audit \cup {Completion(c, r)}
  <2>1. /\ Completion(c, r).phase = "completion"
        /\ Completion(c, r).id = c /\ Completion(c, r).result = r
        /\ \A d \in Commands : Authorization(d) # Completion(c, r)
    BY DEF Completion, Authorization
  <2>2. {d \in Commands : Authorization(d) \in audit'}
          = {d \in Commands : Authorization(d) \in audit}
    BY <1>3, <2>1
  <2>3. Reported(c) = "nothing"
    BY <1>1, ReportedByLog DEF IInv, ReportedLast
  <2>4. \A d \in Commands \ {c} : Reported(d)' = Reported(d)
    BY <1>3, <2>1 DEF Reported
  <2>5. Reported(c)' = IF r = "ok" THEN "done" ELSE "failed"
    BY <1>1, <1>3, <2>1 DEF Reported, IInv, ReportedLast
  <2>6. r = "ok" => posted[c] = 1
    BY DEF IInv, DoneIsPosted
  <2>7. Authorization(c) \in audit
    BY <1>1 DEF IInv, AuthorizedFirst
  <2>8. Audited!Report(c)
    BY <1>1, <2>2, <2>3, <2>4, <2>5, <2>6, <2>7 DEF Audited!Report
  <2> QED BY <2>8 DEF Audited!Next
<1> QED BY <1>2, <1>3 DEF Complete, Append

(* Posting the action is Audited!Post.                                      *)
LEMMA ExecuteImplements ==
    ASSUME IInv, NEW h \in Launches, Execute(h)
    PROVE  [Audited!Next]_(Audited!vars)
<1> DEFINE c == helper[h].serving
<1>1. audit' = audit /\ helper[h].pc = "executing"
  BY DEF Execute, HelperAt
<1>2. c \in Commands /\ conn[c].link = "served" /\ conn[c].peer = h
  BY <1>1 DEF IInv, Types, InHand, Serving, Helper
<1>3. posted[c] = 0
  BY <1>1, <1>2 DEF IInv, Types, PostedOnce, InHand, Serving
<1>4. Authorization(c) \in audit
  BY <1>2 DEF IInv, AuthorizedFirst
<1>5. CASE posted' = posted
  BY <1>1, <1>5, QuietSteps
<1>6. CASE posted' = [posted EXCEPT ![c] = @ + 1]
  <2>1. posted' = [posted EXCEPT ![c] = 1]
    BY <1>2, <1>3, <1>6 DEF IInv, Types
  <2>2. Audited!Post(c)
    BY <1>1, <1>2, <1>3, <1>4, <2>1 DEF Audited!Post, Reported
  <2> QED BY <1>2, <2>2 DEF Audited!Next
<1> QED BY <1>5, <1>6 DEF Execute

(* Every step is one of AuditedActuation or a stutter.                      *)
LEMMA StepImplements == IInv /\ [Next]_vars => [Audited!Next]_(Audited!vars)
<1> SUFFICES ASSUME IInv, [Next]_vars PROVE [Audited!Next]_(Audited!vars)
  OBVIOUS
<1>1. ASSUME NEW h \in Launches, Serve(h) PROVE [Audited!Next]_(Audited!vars)
  <2>1. CASE Execute(h)
    BY <2>1, ExecuteImplements
  <2>2. CASE Accept(h) \/ Read(h) \/ Respond(h)
    BY <2>2, QuietSteps DEF Accept, Read, Respond
  <2> QED BY <1>1, <2>1, <2>2 DEF Serve
<1>2. ASSUME NEW h \in Launches, Lifecycle(h) PROVE [Audited!Next]_(Audited!vars)
  BY <1>2, QuietSteps
     DEF Lifecycle, Launch, Look, Unlink, Bind, Listen, Interrupt, Cleanup, Terminate
<1>3. ASSUME NEW c \in Commands, Act(c) PROVE [Audited!Next]_(Audited!vars)
  <2>1. CASE Authorize(c)
    BY <2>1, AuthorizeImplements
  <2>2. CASE Complete(c)
    BY <2>2, CompleteImplements
  <2>3. CASE \/ Begin(c) \/ Blocked(c) \/ Connect(c) \/ Send(c)
            \/ Receive(c) \/ Timeout(c) \/ Die(c)
    BY <2>3, QuietSteps DEF Begin, Blocked, Connect, Send, Receive, Timeout, Die
  <2> QED BY <1>3, <2>1, <2>2, <2>3 DEF Act
<1>4. CASE UNCHANGED vars
  BY <1>4, QuietSteps DEF vars
<1> QED BY <1>1, <1>2, <1>3, <1>4 DEF Next

(* What is posted for a command was authorized in the audit log, once, and
   the completion record reports it done only if it was (_mouse_action,
   _helper_ax_action and the helper, whatever dies or is late).            *)
THEOREM ImplementsAudited == Spec => ActuationIsAudited
<1>1. Init => Audited!Init
  BY InitImplements
<1>2. IInv /\ [Next]_vars => [Audited!Next]_(Audited!vars)
  BY StepImplements
<1> QED BY <1>1, <1>2, Inductive, PTL DEF Spec, ActuationIsAudited, Audited!Spec
==============================================================================
