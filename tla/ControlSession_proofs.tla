------------------------ MODULE ControlSession_proofs ------------------------
(***************************************************************************)
(* Proofs about ControlSession, for any number of connector threads and    *)
(* local processes, any requests and any length of the warning.            *)
(*                                                                         *)
(* FileShowsTheSession is not inductive: it speaks of the moments when no  *)
(* session command is running.  IInv says what the one command that may    *)
(* run meanwhile (Alone) has read, holds and has written (InHand), so that *)
(* its last write leaves what the history asks for.                        *)
(***************************************************************************)
EXTENDS ControlSession, TLAPS

(* Where a process is agrees with the command it runs.                     *)
StepsOfCommand ==
    \A p \in Procs :
        /\ proc[p].pc \in WritingSteps => Op(p) \in {"start", "stop", "kill"}
        /\ proc[p].pc \in {"peek", "emit"} => Op(p) = "start"
        /\ proc[p].pc \in {"open2", "write2"} => Op(p) \in {"start", "kill"}

(* Only a start ever writes an active session.                             *)
OnlyStartActivates ==
    \A p \in Procs :
        /\ proc[p].pc \in {"open1", "write1", "emit", "open2", "write2"}
        /\ Op(p) # "start"
        => ~proc[p].buf.active

Alone == orderly => \A p, q \in Writers : p = q

StartInHand(p) ==
    /\ proc[p].pc \in {"open1", "write1", "emit", "open2", "write2"} =>
          /\ proc[p].buf.active /\ ~proc[p].buf.kill
          /\ proc[p].buf.mode = proc[p].req.mode
    /\ proc[p].pc \in {"emit", "open2", "write2"} =>
          /\ wanted.active /\ ~wanted.kill
          /\ wanted.mode = proc[p].req.mode

StopInHand(p) ==
    /\ proc[p].pc = "load" => IsAsWanted(ReadControlSession)
    /\ proc[p].pc \in {"open1", "write1"} => proc[p].buf.kill = wanted.kill

KillInHand(p) ==
    proc[p].pc \in {"open2", "write2"} => proc[p].buf.kill

InHand ==
    orderly => \A p \in Writers :
        /\ proc[p].pc \in {"write1", "write2"} => file.form = "empty"
        /\ Op(p) = "start" => StartInHand(p)
        /\ Op(p) = "stop" => StopInHand(p)
        /\ Op(p) = "kill" => KillInHand(p)

IInv ==
    /\ TypeOK
    /\ StepsOfCommand
    /\ OnlyStartActivates
    /\ Alone
    /\ InHand
    /\ FileShowsTheSession

-------------------------------------------------------------------------------
(* Types.                                                                  *)

LEMMA DefaultType == DefaultSession \in Session
  BY WarningAssumption DEF Session, Modes, DefaultSession

LEMMA StartedType ==
    ASSUME NEW s \in Session, NEW m \in Modes
    PROVE  /\ Started(s, m) \in Session
           /\ Started(s, m).active /\ ~Started(s, m).kill
           /\ Started(s, m).mode = m
<1>1. (IF Warning(s) THEN s.left ELSE WarningSeconds) \in 0..WarningSeconds
  BY WarningAssumption DEF Session
<1> QED BY <1>1 DEF Session, Started

LEMMA StoppedType ==
    ASSUME NEW s \in Session
    PROVE  /\ Stopped(s) \in Session
           /\ ~Stopped(s).active
           /\ Stopped(s).kill = s.kill
<1>1. 0 \in 0..WarningSeconds
  BY WarningAssumption
<1> QED BY <1>1 DEF Session, Stopped

LEMMA SecondPassesType ==
    ASSUME NEW s \in Session
    PROVE  /\ SecondPasses(s) \in Session
           /\ SecondPasses(s).active = s.active
           /\ SecondPasses(s).kill = s.kill
           /\ SecondPasses(s).mode = s.mode
<1>1. (IF s.left > 0 THEN s.left - 1 ELSE 0) \in 0..WarningSeconds
  BY WarningAssumption DEF Session
<1> QED BY <1>1 DEF Session, SecondPasses

LEMMA NoRequestType == NoRequest \in RequestType
  BY DEF NoRequest, RequestType, Ops, Modes, Classes

LEMMA IdleType == Idle \in Process
  BY NoRequestType, DefaultType DEF Idle, Process, Steps, WritingSteps

(* What is read is a session, whatever the file looks like.                *)
LEMMA ReadType == TypeOK => ReadControlSession \in Session
  BY DefaultType DEF TypeOK, ReadControlSession

(* A command's first step is one.                                          *)
LEMMA CommandStepType ==
    ASSUME NEW p \in Procs, NEW op \in Ops
    PROVE  /\ CommandStep(p, op) \in Steps
           /\ op = "start" => CommandStep(p, op) = "peek"
           /\ op \in {"stop", "kill"} => CommandStep(p, op) = "load"
           /\ op = "live" => CommandStep(p, op) \in {"serverGate", "cliGate"}
  BY DEF CommandStep, Steps, WritingSteps, Ops

LEMMA BecomesType ==
    ASSUME proc \in [Procs -> Process],
           NEW p \in Procs, NEW new \in Process, Becomes(p, new)
    PROVE  /\ proc' \in [Procs -> Process]
           /\ proc'[p] = new
           /\ \A q \in Procs \ {p} : proc'[q] = proc[q]
  BY DEF Becomes

LEMMA LandedType ==
    ASSUME TypeOK, NEW s \in Session, NEW f \in Landed(s)
    PROVE  /\ f \in [form: Forms, session: Session]
           /\ file.form = "empty" => f = [form |-> "json", session |-> s]
           /\ f.form = "json" => f.session = s
           /\ f.form \in {"json", "garbled"}
  BY DefaultType DEF Landed, Forms

LEMMA TypeStep == TypeOK /\ [Next]_vars => TypeOK'
<1>1. TypeOK /\ [Next]_vars => TypeOK'
  <2> SUFFICES ASSUME TypeOK, [Next]_vars PROVE TypeOK'
    OBVIOUS
  <2> USE DEF TypeOK
  <2>0. ReadControlSession \in Session
    BY ReadType
  <2>1. ASSUME NEW p \in Procs, NEW r \in RequestType, Enter(p, r), UNCHANGED file
        PROVE  TypeOK'
    <3>1. CommandStep(p, r.op) \in Steps
      BY CommandStepType DEF RequestType
    <3>2. [proc[p] EXCEPT !.pc = CommandStep(p, r.op), !.req = r] \in Process
      BY <3>1 DEF Process
    <3>22. proc' \in [Procs -> Process]
      BY <2>1, <3>2, BecomesType DEF Enter
    <3>3. orderly' \in BOOLEAN
      BY <2>1 DEF Enter
    <3> QED BY <2>1, <3>22, <3>3 DEF Enter
  <2>2. ASSUME NEW p \in Procs, Request(p) PROVE TypeOK'
    <3>1. CASE p \in Local /\ \E r \in LocalRequests : Enter(p, r)
      BY <2>1, <2>2, <3>1, RequestsAssumption DEF Request
    <3>2. CASE /\ \E r \in RemoteRequests :
                    Becomes(p, [proc[p] EXCEPT !.pc = "killCheck", !.req = r])
               /\ UNCHANGED history
      <4>1. \A r \in RequestType :
               [proc[p] EXCEPT !.pc = "killCheck", !.req = r] \in Process
        BY DEF Process, Steps
      <4>2. proc' \in [Procs -> Process]
        BY <3>2, <4>1, BecomesType, RequestsAssumption
      <4> QED BY <2>2, <3>2, <4>2 DEF Request, history
    <3> QED BY <2>2, <3>1, <3>2 DEF Request
  <2>3. ASSUME NEW p \in Procs, NEW l \in Steps, Goto(p, l)
        PROVE  proc' \in [Procs -> Process]
    <3>1. [proc[p] EXCEPT !.pc = l] \in Process
      BY DEF Process
    <3> QED BY <2>3, <3>1, BecomesType DEF Goto
  <2>4. ASSUME NEW p \in Procs, Return(p)
        PROVE  proc' \in [Procs -> Process]
    BY <2>4, IdleType, BecomesType DEF Return
  <2>5. ASSUME NEW p \in Procs, KillCheck(p) PROVE TypeOK'
    <3>1. proc[p].req \in RequestType
      BY DEF Process
    <3> QED BY <2>1, <2>4, <2>5, <3>1 DEF KillCheck, history
  <2>6. ASSUME NEW p \in Procs, ServerGate(p) \/ CliGate(p) PROVE TypeOK'
    BY <2>3, <2>4, <2>6 DEF ServerGate, CliGate, Gate, Steps, history
  <2>7. ASSUME NEW p \in Procs, Act(p) PROVE TypeOK'
    BY <2>4, <2>7 DEF Act, history
  <2>8. ASSUME NEW p \in Procs, Peek(p) PROVE TypeOK'
    <3>1. \A b \in BOOLEAN :
             [proc[p] EXCEPT !.pc = "load", !.announce = b] \in Process
      BY DEF Process, Steps, WritingSteps
    <3>2. proc' \in [Procs -> Process]
      BY <2>8, <3>1, BecomesType DEF Peek
    <3> QED BY <2>8, <3>2 DEF Peek, history
  <2>9. ASSUME NEW p \in Procs, Load(p) PROVE TypeOK'
    <3>1. proc[p].req.mode \in Modes
      BY DEF Process, RequestType
    <3>2. (IF Op(p) = "start" THEN Started(ReadControlSession, proc[p].req.mode)
                              ELSE Stopped(ReadControlSession)) \in Session
      BY <2>0, <3>1, StartedType, StoppedType
    <3>3. \A s \in Session : [proc[p] EXCEPT !.pc = "open1", !.buf = s] \in Process
      BY DEF Process, Steps, WritingSteps
    <3>4. proc' \in [Procs -> Process]
      BY <2>9, <3>2, <3>3, BecomesType DEF Load
    <3> QED BY <2>9, <3>4 DEF Load, history
  <2>10. ASSUME NEW p \in Procs, Open(p) PROVE TypeOK'
    <3>1. proc' \in [Procs -> Process]
      BY <2>3, <2>10 DEF Open, Steps, WritingSteps
    <3>2. file' \in [form: Forms, session: Session]
      BY <2>10, DefaultType DEF Open, Forms
    <3> QED BY <2>10, <3>1, <3>2 DEF Open, history
  <2>11. ASSUME NEW p \in Procs, file' \in Landed(proc[p].buf)
         PROVE  file' \in [form: Forms, session: Session]
    BY <2>11, LandedType DEF Process
  <2>12. ASSUME NEW p \in Procs
         PROVE  Asked(p) \in [active: BOOLEAN, kill: BOOLEAN, mode: Modes]
    <3>1. proc[p].req.mode \in Modes
      BY DEF Process, RequestType
    <3> QED BY <3>1 DEF Asked
  <2>13. ASSUME NEW p \in Procs, WriteOfKill(p) PROVE TypeOK'
    <3>2. [proc[p].buf EXCEPT !.kill = TRUE] \in Session
      BY DEF Process, Session
    <3>3. [proc[p] EXCEPT !.pc = "open2", !.buf = [@ EXCEPT !.kill = TRUE]] \in Process
      BY <3>2 DEF Process, Steps, WritingSteps
    <3>1. proc' \in [Procs -> Process]
      BY <2>13, <3>3, BecomesType DEF WriteOfKill
    <3> QED BY <2>11, <2>13, <3>1 DEF WriteOfKill, history
  <2>14. ASSUME NEW p \in Procs, WriteOfStart(p) PROVE TypeOK'
    <3>1. proc' \in [Procs -> Process]
      BY <2>3, <2>14 DEF WriteOfStart, Steps, WritingSteps
    <3> QED BY <2>11, <2>12, <2>14, <3>1 DEF WriteOfStart
  <2>15. ASSUME NEW p \in Procs, LastWrite(p) PROVE TypeOK'
    BY <2>4, <2>11, <2>12, <2>15 DEF LastWrite
  <2>16. ASSUME NEW p \in Procs, EmitTakeoverWarning(p) PROVE TypeOK'
    BY <2>3, <2>16 DEF EmitTakeoverWarning, Steps, WritingSteps, history
  <2>17. CASE Tick
    <3>1. proc' \in [Procs -> Process]
      BY <2>17, SecondPassesType DEF Tick, Process
    <3>2. file' \in [form: Forms, session: Session]
      BY <2>17, SecondPassesType DEF Tick
    <3> QED BY <2>17, <3>1, <3>2 DEF Tick, history
  <2>18. CASE Crash
    BY <2>18, IdleType DEF Crash
  <2>19. CASE UNCHANGED vars
    BY <2>19 DEF vars, history
  <2> QED
    BY <2>2, <2>5, <2>6, <2>7, <2>8, <2>9, <2>10, <2>13, <2>14, <2>15, <2>16,
       <2>17, <2>18, <2>19 DEF Next, Progress, Write
<1> QED BY <1>1

(* The file, the processes and the history keep their types.               *)
THEOREM TypeCorrect == Spec => []TypeOK
<1>1. Init => TypeOK
  BY IdleType, DefaultType DEF Init, TypeOK, Forms, Modes
<1> QED BY <1>1, TypeStep, PTL DEF Spec

-------------------------------------------------------------------------------
(* The inductive invariant, one lemma per kind of step.                    *)

LEMMA InitIInv == Init => IInv
<1> SUFFICES ASSUME Init PROVE IInv
  OBVIOUS
<1>1. TypeOK
  BY IdleType, DefaultType DEF Init, TypeOK, Forms, Modes
<1>2. \A p \in Procs : proc[p].pc = "idle"
  BY DEF Init, Idle
<1>3. Writers = {}
  BY <1>2 DEF Writers, WritingSteps
<1>4. StepsOfCommand /\ OnlyStartActivates
  BY <1>2 DEF StepsOfCommand, OnlyStartActivates, WritingSteps
<1>5. FileShowsTheSession
  BY DEF Init, FileShowsTheSession, IsAsWanted, ReadControlSession, DefaultSession
<1> QED BY <1>1, <1>3, <1>4, <1>5 DEF IInv, Alone, InHand

(* A step by a process that neither is nor gets into a session command.    *)
LEMMA QuietStep ==
    ASSUME IInv, TypeOK', NEW p \in Procs, NEW new \in Process, Becomes(p, new),
           proc[p].pc \notin WritingSteps, new.pc \notin WritingSteps,
           UNCHANGED <<file, history>>
    PROVE  IInv'
<1> USE DEF IInv
<1>1. /\ proc'[p] = new
      /\ \A q \in Procs \ {p} : proc'[q] = proc[q]
  BY BecomesType DEF TypeOK
<1>2. Writers' = Writers
  BY <1>1 DEF Writers
<1>3. \A q \in Writers : proc'[q] = proc[q]
  BY <1>1 DEF Writers
<1>4. StepsOfCommand'
  BY <1>1 DEF StepsOfCommand, Op, WritingSteps
<1>5. OnlyStartActivates'
  BY <1>1 DEF OnlyStartActivates, Op, WritingSteps
<1>6. Alone'
  BY <1>2 DEF Alone, history
<1>7. InHand'
  BY <1>2, <1>3 DEF InHand, StartInHand, StopInHand, KillInHand, IsAsWanted,
        ReadControlSession, Op, history
<1>8. FileShowsTheSession'
  BY <1>2 DEF FileShowsTheSession, IsAsWanted, ReadControlSession, history
<1> QED BY <1>4, <1>5, <1>6, <1>7, <1>8

(* A process begins a session command, or its live command goes on to the
   first gate.                                                             *)
LEMMA EnterStep ==
    ASSUME IInv, TypeOK', NEW p \in Procs, NEW r \in RequestType, Enter(p, r),
           proc[p].pc \notin WritingSteps, UNCHANGED file
    PROVE  IInv'
<1> USE DEF IInv
<1> DEFINE new == [proc[p] EXCEPT !.pc = CommandStep(p, r.op), !.req = r]
<1>0. r.op \in Ops
  BY DEF RequestType
<1>1. new \in Process /\ new.pc = CommandStep(p, r.op) /\ new.req = r
  BY <1>0, CommandStepType DEF Process, TypeOK
<1>2. /\ proc'[p] = new
      /\ \A q \in Procs \ {p} : proc'[q] = proc[q]
  BY <1>1, BecomesType DEF TypeOK, Enter
<1>3. CASE r.op = "live"
  <2>1. new.pc \notin WritingSteps
    BY <1>0, <1>1, <1>3, CommandStepType DEF WritingSteps
  <2>2. UNCHANGED <<file, history>>
    BY <1>3 DEF Enter, history
  <2> QED BY <1>1, <2>1, <2>2, QuietStep DEF Enter
<1>4. CASE r.op # "live"
  <2>1. /\ new.pc \in {"peek", "load"}
        /\ r.op = "start" => new.pc = "peek"
        /\ new.pc = "peek" => r.op = "start"
        /\ r.op \in {"start", "stop", "kill"}
    BY <1>0, <1>1, <1>4, CommandStepType DEF Ops
  <2>2. Writers' = Writers \cup {p}
    BY <1>2, <2>1 DEF Writers, WritingSteps
  <2>3. orderly' => Writers = {} /\ (orderly \/ r.op # "stop")
    BY <1>4 DEF Enter
  <2> HIDE DEF new
  <2>4. StepsOfCommand'
    BY <1>1, <1>2, <2>1 DEF StepsOfCommand, Op, WritingSteps
  <2>5. OnlyStartActivates'
    <3>1. \A q \in Procs \ {p} : Op(q)' = Op(q) /\ proc'[q] = proc[q]
      BY <1>2 DEF Op
    <3>2. proc'[p].pc \in {"peek", "load"}
      BY <1>2, <2>1
    <3> QED BY <3>1, <3>2 DEF OnlyStartActivates
  <2>6. Alone'
    BY <2>2, <2>3 DEF Alone
  <2>7. ASSUME orderly', r.op = "stop"
        PROVE  IsAsWanted(ReadControlSession)'
    BY <2>3, <2>7 DEF FileShowsTheSession, IsAsWanted, ReadControlSession, Enter
  <2>8. InHand'
    BY <1>1, <1>2, <2>1, <2>2, <2>3, <2>7 DEF InHand, StartInHand, StopInHand, KillInHand, Op
  <2>9. FileShowsTheSession'
    BY <2>2 DEF FileShowsTheSession
  <2> QED BY <2>4, <2>5, <2>6, <2>8, <2>9
<1> QED BY <1>3, <1>4

(* A step of the session command of p that leaves the file and the history
   alone: what it takes for the invariant to carry over.                   *)
LEMMA WriterStep ==
    ASSUME IInv, TypeOK', NEW p \in Writers, NEW new \in Process, Becomes(p, new),
           UNCHANGED <<file, history>>,
           new.req = proc[p].req,
           new.pc \in {"load", "open1", "open2"},
           new.pc = "open2" => Op(p) = "start" /\ proc[p].pc = "emit",
           new.pc \in {"load", "open2"} => new.buf = proc[p].buf,
           new.pc = "load" => Op(p) = "start",
           new.pc = "open1" =>
              /\ proc[p].pc = "load"
              /\ Op(p) # "start" => ~new.buf.active
              /\ Op(p) = "start" => /\ new.buf.active /\ ~new.buf.kill
                                    /\ new.buf.mode = new.req.mode
              /\ Op(p) = "stop" => new.buf.kill = ReadControlSession.kill
    PROVE  IInv'
<1> USE DEF IInv
<1>0. p \in Procs /\ proc[p].pc \in WritingSteps
  BY DEF Writers
<1>1. /\ proc'[p] = new
      /\ \A q \in Procs \ {p} : proc'[q] = proc[q]
  BY <1>0, BecomesType DEF TypeOK
<1>2. Writers' = Writers
  BY <1>0, <1>1 DEF Writers, WritingSteps
<1>3. StepsOfCommand'
  BY <1>0, <1>1 DEF StepsOfCommand, Op, WritingSteps
<1>4. OnlyStartActivates'
  BY <1>0, <1>1 DEF OnlyStartActivates, Op
<1>5. Alone'
  BY <1>2 DEF Alone, history
<1>6. InHand'
  <2> SUFFICES ASSUME orderly' PROVE InHand'
    BY DEF InHand
  <2>1. Writers' = {p}
    BY <1>2 DEF Alone, history
  <2>2. Op(p)' = Op(p)
    BY <1>1 DEF Op
  <2>3. Op(p) = "start" => StartInHand(p)'
    BY <1>0, <1>1 DEF InHand, StartInHand, history
  <2>4. Op(p) = "stop" => StopInHand(p)'
    BY <1>0, <1>1 DEF InHand, StopInHand, IsAsWanted, history
  <2>5. Op(p) = "kill" => KillInHand(p)'
    BY <1>0, <1>1 DEF KillInHand
  <2> QED BY <1>1, <2>1, <2>2, <2>3, <2>4, <2>5 DEF InHand
<1>7. FileShowsTheSession'
  BY <1>2 DEF FileShowsTheSession
<1> QED BY <1>3, <1>4, <1>5, <1>6, <1>7

(* The file is opened, and with that truncated.                            *)
LEMMA OpenStep ==
    ASSUME IInv, TypeOK', NEW p \in Procs, Open(p)
    PROVE  IInv'
<1> USE DEF IInv
<1> SUFFICES ASSUME NEW l \in {"write1", "write2"}, Goto(p, l),
                    l = "write1" => At(p, "open1"),
                    l = "write2" => At(p, "open2")
             PROVE  IInv'
  BY DEF Open
<1> DEFINE new == [proc[p] EXCEPT !.pc = l]
<1>1. /\ new \in Process /\ new.pc = l
      /\ new.req = proc[p].req /\ new.buf = proc[p].buf
  BY DEF TypeOK, Process, Steps, WritingSteps
<1>2. Becomes(p, new)
  BY DEF Goto
<1> HIDE DEF new
<1>22. /\ proc'[p] = new
       /\ \A q \in Procs \ {p} : proc'[q] = proc[q]
  BY <1>1, <1>2, BecomesType DEF TypeOK
<1>3. p \in Writers /\ Writers' = Writers
  BY <1>1, <1>22 DEF Writers, WritingSteps, At
<1>4. StepsOfCommand'
  BY <1>1, <1>22 DEF StepsOfCommand, Op, WritingSteps, At
<1>5. OnlyStartActivates'
  BY <1>1, <1>22 DEF OnlyStartActivates, Op, At
<1>6. UNCHANGED history /\ file'.form = "empty"
  BY DEF Open
<1>7. Alone'
  BY <1>3, <1>6 DEF Alone, history
<1>8. InHand'
  <2> SUFFICES ASSUME orderly' PROVE InHand'
    BY DEF InHand
  <2>1. Writers' = {p} /\ orderly
    BY <1>3, <1>6 DEF Alone, history
  <2>2. Op(p)' = Op(p)
    BY <1>1, <1>22 DEF Op
  <2>3. Op(p) = "start" => StartInHand(p)'
    BY <1>1, <1>22, <1>3, <1>6, <2>1 DEF InHand, StartInHand, history, At
  <2>4. Op(p) = "stop" => StopInHand(p)'
    BY <1>1, <1>22, <1>3, <1>6, <2>1 DEF InHand, StopInHand, history, At
  <2>5. Op(p) = "kill" => KillInHand(p)'
    BY <1>1, <1>22, <1>3, <1>6, <2>1 DEF InHand, KillInHand, history, At
  <2> QED BY <1>6, <2>1, <2>2, <2>3, <2>4, <2>5 DEF InHand
<1>9. FileShowsTheSession'
  BY <1>3 DEF FileShowsTheSession
<1> QED BY <1>4, <1>5, <1>7, <1>8, <1>9

(* The first write of a kill leaves the record without the switch; the
   second one is prepared with it.                                         *)
LEMMA WriteOfKillStep ==
    ASSUME IInv, TypeOK', NEW p \in Procs, WriteOfKill(p)
    PROVE  IInv'
<1> USE DEF IInv
<1> DEFINE buf == [proc[p].buf EXCEPT !.kill = TRUE]
           new == [proc[p] EXCEPT !.pc = "open2", !.buf = buf]
<1>0. buf \in Session /\ buf.kill /\ buf.active = proc[p].buf.active
  BY DEF TypeOK, Process, Session
<1>2. Becomes(p, new)
  BY DEF WriteOfKill, TypeOK, Process, Session
<1> HIDE DEF buf
<1>1. /\ new \in Process /\ new.pc = "open2"
      /\ new.req = proc[p].req
      /\ new.buf.kill /\ new.buf.active = proc[p].buf.active
  BY <1>0 DEF TypeOK, Process, Steps, WritingSteps
<1> HIDE DEF new
<1>3. /\ proc'[p] = new
      /\ \A q \in Procs \ {p} : proc'[q] = proc[q]
  BY <1>1, <1>2, BecomesType DEF TypeOK
<1>4. At(p, "write1") /\ Op(p) = "kill" /\ UNCHANGED history
  BY DEF WriteOfKill
<1>5. p \in Writers /\ Writers' = Writers
  BY <1>1, <1>3, <1>4 DEF Writers, WritingSteps, At
<1>6. Op(p)' = "kill" /\ \A q \in Procs \ {p} : Op(q)' = Op(q)
  BY <1>1, <1>3, <1>4 DEF Op
<1>7. StepsOfCommand'
  BY <1>1, <1>3, <1>6 DEF StepsOfCommand
<1>8. OnlyStartActivates'
  BY <1>1, <1>3, <1>4, <1>6 DEF OnlyStartActivates, At
<1>9. Alone'
  BY <1>4, <1>5 DEF Alone, history
<1>10. InHand'
  <2> SUFFICES ASSUME orderly' PROVE InHand'
    BY DEF InHand
  <2>1. Writers' = {p}
    BY <1>4, <1>5 DEF Alone, history
  <2> QED BY <1>1, <1>3, <1>6, <2>1 DEF InHand, KillInHand
<1>11. FileShowsTheSession'
  BY <1>5 DEF FileShowsTheSession
<1> QED BY <1>7, <1>8, <1>9, <1>10, <1>11

(* The first write of a start that will write again.                       *)
LEMMA WriteOfStartStep ==
    ASSUME IInv, TypeOK', NEW p \in Procs, WriteOfStart(p)
    PROVE  IInv'
<1> USE DEF IInv
<1> DEFINE new == [proc[p] EXCEPT !.pc = "emit"]
<1>1. /\ new \in Process /\ new.pc = "emit"
      /\ new.req = proc[p].req /\ new.buf = proc[p].buf
  BY DEF TypeOK, Process, Steps, WritingSteps
<1>2. Becomes(p, new)
  BY DEF WriteOfStart, Goto
<1> HIDE DEF new
<1>3. /\ proc'[p] = new
      /\ \A q \in Procs \ {p} : proc'[q] = proc[q]
  BY <1>1, <1>2, BecomesType DEF TypeOK
<1>4. At(p, "write1") /\ Op(p) = "start" /\ wanted' = Asked(p) /\ UNCHANGED orderly
  BY DEF WriteOfStart
<1>5. p \in Writers /\ Writers' = Writers
  BY <1>1, <1>3, <1>4 DEF Writers, WritingSteps, At
<1>6. Op(p)' = "start" /\ \A q \in Procs \ {p} : Op(q)' = Op(q)
  BY <1>1, <1>3, <1>4 DEF Op
<1>7. StepsOfCommand'
  BY <1>1, <1>3, <1>6 DEF StepsOfCommand
<1>8. OnlyStartActivates'
  BY <1>1, <1>3, <1>4, <1>6 DEF OnlyStartActivates, At
<1>9. Alone'
  BY <1>4, <1>5 DEF Alone
<1>10. InHand'
  <2> SUFFICES ASSUME orderly' PROVE InHand'
    BY DEF InHand
  <2>1. Writers' = {p}
    BY <1>4, <1>5 DEF Alone
  <2>2. wanted' = [active |-> TRUE, kill |-> FALSE, mode |-> proc[p].req.mode]
    BY <1>4 DEF Asked
  <2>3. proc[p].buf.active /\ ~proc[p].buf.kill /\ proc[p].buf.mode = proc[p].req.mode
    BY <1>4, <1>5 DEF InHand, StartInHand, At
  <2>4. StartInHand(p)'
    BY <1>1, <1>3, <2>2, <2>3 DEF StartInHand
  <2> QED BY <1>1, <1>3, <1>6, <2>1, <2>4 DEF InHand
<1>11. FileShowsTheSession'
  BY <1>5 DEF FileShowsTheSession
<1> QED BY <1>7, <1>8, <1>9, <1>10, <1>11

(* The last write of a command: nobody is writing any more, and what has
   been written is what the command asked for.                             *)
LEMMA LastWriteStep ==
    ASSUME IInv, TypeOK', NEW p \in Procs, LastWrite(p)
    PROVE  IInv'
<1> USE DEF IInv
<1>1. Becomes(p, Idle)
  BY DEF LastWrite, Return
<1>2. /\ proc'[p] = Idle
      /\ \A q \in Procs \ {p} : proc'[q] = proc[q]
  BY <1>1, IdleType, BecomesType DEF TypeOK
<1>3. Idle.pc = "idle"
  BY DEF Idle
<1>4. /\ proc[p].pc \in {"write1", "write2"}
      /\ proc[p].pc = "write1" => Op(p) # "kill"
      /\ UNCHANGED orderly
      /\ file' \in Landed(proc[p].buf)
  BY DEF LastWrite, At
<1>5. p \in Writers /\ Writers' = Writers \ {p}
  BY <1>2, <1>3, <1>4 DEF Writers, WritingSteps
<1>6. \A q \in Procs \ {p} : Op(q)' = Op(q)
  BY <1>2 DEF Op
<1>7. StepsOfCommand'
  BY <1>2, <1>3, <1>6 DEF StepsOfCommand, WritingSteps
<1>8. OnlyStartActivates'
  BY <1>2, <1>3, <1>6 DEF OnlyStartActivates
<1>9. Alone'
  BY <1>4, <1>5 DEF Alone
<1>10. InHand'
  BY <1>4, <1>5 DEF Alone, InHand
<1>11. FileShowsTheSession'
  <2> SUFFICES ASSUME orderly' PROVE IsAsWanted(ReadControlSession)'
    BY DEF FileShowsTheSession
  <2>1. orderly
    BY <1>4
  <2>2. proc[p].buf \in Session /\ proc[p].req.mode \in Modes
    BY DEF TypeOK, Process, RequestType
  <2>3. file' = [form |-> "json", session |-> proc[p].buf]
    BY <1>4, <1>5, <2>1, <2>2, LandedType DEF InHand
  <2>4. ReadControlSession' = proc[p].buf
    BY <2>3 DEF ReadControlSession
  <2>5. CASE Op(p) = "start"
    <3>1. StartInHand(p)
      BY <1>5, <2>1, <2>5 DEF InHand
    <3>2. /\ wanted'.active /\ ~wanted'.kill /\ wanted'.mode = proc[p].req.mode
          /\ wanted'.active = TRUE /\ wanted'.kill = FALSE
      BY <1>4, <2>5, <3>1 DEF StartInHand, LastWrite, Asked, At, TypeOK
    <3>3. /\ proc[p].buf.active = TRUE /\ proc[p].buf.kill = FALSE
          /\ proc[p].buf.mode = proc[p].req.mode
      BY <1>4, <2>2, <3>1 DEF StartInHand, Session
    <3> QED BY <2>4, <3>2, <3>3 DEF IsAsWanted
  <2>6. CASE Op(p) = "stop"
    <3>1. proc[p].pc = "write1" /\ wanted' = [wanted EXCEPT !.active = FALSE]
      BY <1>4, <2>6 DEF StepsOfCommand, LastWrite, Asked, At
    <3>2. proc[p].buf.active = FALSE /\ proc[p].buf.kill = wanted.kill
      BY <1>5, <2>1, <2>2, <2>6, <3>1 DEF InHand, StopInHand, OnlyStartActivates, Session
    <3>3. wanted'.active = FALSE /\ wanted'.kill = wanted.kill
      BY <3>1 DEF TypeOK
    <3> QED BY <2>4, <3>2, <3>3 DEF IsAsWanted
  <2>7. CASE Op(p) = "kill"
    <3>1. /\ proc[p].pc = "write2"
          /\ wanted' = [wanted EXCEPT !.active = FALSE, !.kill = TRUE]
      BY <1>4, <2>7 DEF LastWrite, Asked, At
    <3>2. proc[p].buf.active = FALSE /\ proc[p].buf.kill = TRUE
      BY <1>5, <2>1, <2>2, <2>7, <3>1 DEF InHand, KillInHand, OnlyStartActivates, Session
    <3>3. wanted'.active = FALSE /\ wanted'.kill = TRUE
      BY <3>1 DEF TypeOK
    <3> QED BY <2>4, <3>2, <3>3 DEF IsAsWanted
  <2> QED BY <1>4, <2>5, <2>6, <2>7 DEF StepsOfCommand, WritingSteps
<1> QED BY <1>7, <1>8, <1>9, <1>10, <1>11

(* A second passes: only deadlines change, and they are not in the invariant. *)
LEMMA TickStep ==
    ASSUME IInv, TypeOK', Tick
    PROVE  IInv'
<1> USE DEF IInv
<1>1. ASSUME NEW q \in Procs
      PROVE  /\ proc'[q].pc = proc[q].pc /\ proc'[q].req = proc[q].req
             /\ proc'[q].buf.active = proc[q].buf.active
             /\ proc'[q].buf.kill = proc[q].buf.kill
             /\ proc'[q].buf.mode = proc[q].buf.mode
  <2>1. proc[q].buf \in Session /\ proc[q] \in Process
    BY DEF TypeOK, Process
  <2>2. proc'[q] = [proc[q] EXCEPT !.buf = SecondPasses(@)]
    BY DEF Tick
  <2>3. /\ proc'[q].pc = proc[q].pc /\ proc'[q].req = proc[q].req
        /\ proc'[q].buf = SecondPasses(proc[q].buf)
    BY <2>1, <2>2 DEF Process
  <2> QED BY <2>1, <2>3, SecondPassesType
<1>2. /\ file'.form = file.form
      /\ file'.session.active = file.session.active
      /\ file'.session.kill = file.session.kill
      /\ file'.session.mode = file.session.mode
  <2>1. file.session \in Session
    BY DEF TypeOK
  <2>2. file'.form = file.form /\ file'.session = SecondPasses(file.session)
    BY DEF Tick, TypeOK
  <2> QED BY <2>1, <2>2, SecondPassesType
<1>3. /\ ReadControlSession'.active = ReadControlSession.active
      /\ ReadControlSession'.kill = ReadControlSession.kill
      /\ ReadControlSession'.mode = ReadControlSession.mode
  BY <1>2 DEF ReadControlSession
<1>4. Writers' = Writers
  BY <1>1 DEF Writers
<1>5. \A q \in Procs : Op(q)' = Op(q)
  BY <1>1 DEF Op
<1>6. UNCHANGED history
  BY DEF Tick
<1>7. StepsOfCommand'
  BY <1>1, <1>5 DEF StepsOfCommand
<1>8. OnlyStartActivates'
  BY <1>1, <1>5 DEF OnlyStartActivates
<1>9. Alone'
  BY <1>4, <1>6 DEF Alone, history
<1>10. IsAsWanted(ReadControlSession)' <=> IsAsWanted(ReadControlSession)
  BY <1>3, <1>6 DEF IsAsWanted, history
<1>11. InHand'
  <2> SUFFICES ASSUME orderly', NEW q \in Writers
               PROVE  (/\ proc[q].pc \in {"write1", "write2"} => file.form = "empty"
                       /\ Op(q) = "start" => StartInHand(q)
                       /\ Op(q) = "stop" => StopInHand(q)
                       /\ Op(q) = "kill" => KillInHand(q))'
    BY <1>4 DEF InHand
  <2>1. q \in Procs /\ orderly
    BY <1>6 DEF Writers, history
  <2>2. /\ proc[q].pc \in {"write1", "write2"} => file.form = "empty"
        /\ Op(q) = "start" => StartInHand(q)
        /\ Op(q) = "stop" => StopInHand(q)
        /\ Op(q) = "kill" => KillInHand(q)
    BY <2>1 DEF InHand
  <2>3. Op(q) = "start" => StartInHand(q)'
    BY <1>1, <1>6, <2>1, <2>2 DEF StartInHand, history
  <2>4. Op(q) = "stop" => StopInHand(q)'
    BY <1>1, <1>6, <1>10, <2>1, <2>2 DEF StopInHand, history
  <2>5. Op(q) = "kill" => KillInHand(q)'
    BY <1>1, <2>1, <2>2 DEF KillInHand
  <2> QED BY <1>1, <1>2, <1>5, <2>1, <2>2, <2>3, <2>4, <2>5
<1>12. FileShowsTheSession'
  BY <1>4, <1>6, <1>10 DEF FileShowsTheSession, history
<1> QED BY <1>7, <1>8, <1>9, <1>11, <1>12

(* Processes die.  If a session command was under way in one of them the
   history is no longer orderly; if not, nothing the invariant says
   anything about has changed.                                             *)
LEMMA CrashStep ==
    ASSUME IInv, TypeOK', Crash
    PROVE  IInv'
<1> USE DEF IInv
<1> SUFFICES ASSUME NEW dead \in {Remote} \cup {{p} : p \in Local},
                    proc' = [p \in Procs |-> IF p \in dead THEN Idle ELSE proc[p]],
                    orderly' = (orderly /\ dead \cap Writers = {}),
                    UNCHANGED <<file, wanted>>
             PROVE  IInv'
  BY DEF Crash
<1>1. ASSUME NEW q \in Procs
      PROVE  /\ q \in dead => proc'[q] = Idle
             /\ q \notin dead => proc'[q] = proc[q]
  OBVIOUS
<1>2. Idle.pc = "idle"
  BY DEF Idle
<1>3. Writers' = Writers \ dead
  BY <1>1, <1>2 DEF Writers, WritingSteps
<1>4. StepsOfCommand'
  BY <1>1, <1>2 DEF StepsOfCommand, Op, WritingSteps
<1>5. OnlyStartActivates'
  BY <1>1, <1>2 DEF OnlyStartActivates, Op
<1>6. orderly' => orderly /\ Writers' = Writers /\ \A q \in Writers : proc'[q] = proc[q]
  BY <1>1, <1>3 DEF Writers
<1>7. Alone'
  BY <1>6 DEF Alone
<1>8. InHand'
  BY <1>6 DEF InHand, StartInHand, StopInHand, KillInHand, IsAsWanted, ReadControlSession, Op
<1>9. FileShowsTheSession'
  BY <1>6 DEF FileShowsTheSession, IsAsWanted, ReadControlSession
<1> QED BY <1>4, <1>5, <1>7, <1>8, <1>9

LEMMA IInvStep == IInv /\ [Next]_vars => IInv'
<1> SUFFICES ASSUME IInv, [Next]_vars PROVE IInv'
  OBVIOUS
<1>1. TypeOK /\ TypeOK'
  BY TypeStep DEF IInv
<1>2. \A p \in Procs : proc[p] \in Process /\ proc[p].req \in RequestType
  BY <1>1 DEF TypeOK, Process
<1>3. ASSUME NEW p \in Procs, NEW l \in Steps \ WritingSteps, Goto(p, l),
             proc[p].pc \notin WritingSteps, UNCHANGED <<file, history>>
      PROVE  IInv'
  <2>1. [proc[p] EXCEPT !.pc = l] \in Process /\ [proc[p] EXCEPT !.pc = l].pc = l
    BY <1>2 DEF Process
  <2> QED BY <1>1, <1>3, <2>1, QuietStep DEF Goto
<1>4. ASSUME NEW p \in Procs, Return(p),
             proc[p].pc \notin WritingSteps, UNCHANGED <<file, history>>
      PROVE  IInv'
  <2>1. Idle.pc \notin WritingSteps
    BY DEF Idle, WritingSteps
  <2> QED BY <1>1, <1>4, <2>1, IdleType, QuietStep DEF Return
<1>5. ASSUME NEW p \in Procs, Request(p) PROVE IInv'
  <2>1. proc[p].pc \notin WritingSteps /\ UNCHANGED file
    BY <1>5 DEF Request, At, WritingSteps
  <2>2. CASE p \in Local /\ \E r \in LocalRequests : Enter(p, r)
    BY <1>1, <2>1, <2>2, EnterStep, RequestsAssumption
  <2>3. CASE /\ \E r \in RemoteRequests :
                  Becomes(p, [proc[p] EXCEPT !.pc = "killCheck", !.req = r])
             /\ UNCHANGED history
    <3> SUFFICES ASSUME NEW r \in RequestType,
                        Becomes(p, [proc[p] EXCEPT !.pc = "killCheck", !.req = r])
                 PROVE  IInv'
      BY <2>3, RequestsAssumption
    <3>1. /\ [proc[p] EXCEPT !.pc = "killCheck", !.req = r] \in Process
          /\ [proc[p] EXCEPT !.pc = "killCheck", !.req = r].pc \notin WritingSteps
      BY <1>2 DEF Process, Steps, WritingSteps
    <3> QED BY <1>1, <2>1, <2>3, <3>1, QuietStep
  <2> QED BY <1>5, <2>2, <2>3 DEF Request
<1>6. ASSUME NEW p \in Procs, KillCheck(p) PROVE IInv'
  <2>1. proc[p].pc \notin WritingSteps /\ UNCHANGED file
    BY <1>6 DEF KillCheck, At, WritingSteps
  <2>2. CASE Return(p) /\ UNCHANGED history
    BY <1>4, <2>1, <2>2
  <2>3. CASE Enter(p, proc[p].req)
    BY <1>1, <1>2, <2>1, <2>3, EnterStep
  <2> QED BY <1>6, <2>2, <2>3 DEF KillCheck
<1>7. ASSUME NEW p \in Procs, NEW here \in {"serverGate", "cliGate"},
             NEW next \in {"cliGate", "act"}, Gate(p, here, next)
      PROVE  IInv'
  <2>1. proc[p].pc \notin WritingSteps /\ UNCHANGED <<file, history>>
    BY <1>7 DEF Gate, At, WritingSteps
  <2>2. next \in Steps \ WritingSteps
    BY DEF Steps, WritingSteps
  <2> QED BY <1>3, <1>4, <1>7, <2>1, <2>2 DEF Gate
<1>8. ASSUME NEW p \in Procs, Act(p) PROVE IInv'
  BY <1>4, <1>8 DEF Act, At, WritingSteps
<1>9. ASSUME NEW p \in Procs, Peek(p) PROVE IInv'
  <2> DEFINE new == [proc[p] EXCEPT !.pc = "load",
                                    !.announce = ~Warning(ReadControlSession)]
  <2>1. /\ p \in Writers /\ Op(p) = "start"
        /\ Becomes(p, new) /\ UNCHANGED <<file, history>>
    BY <1>9 DEF Peek, At, Writers, WritingSteps, IInv, StepsOfCommand
  <2>2. ASSUME NEW b \in BOOLEAN
        PROVE  [proc[p] EXCEPT !.pc = "load", !.announce = b] \in Process
    BY <1>2 DEF Process, Steps, WritingSteps
  <2>3. /\ new \in Process /\ new.pc = "load"
        /\ new.req = proc[p].req /\ new.buf = proc[p].buf
    BY <1>2, <2>2 DEF Process
  <2> HIDE DEF new
  <2> QED BY <1>1, <2>1, <2>3, WriterStep
<1>10. ASSUME NEW p \in Procs, Load(p) PROVE IInv'
  <2> DEFINE buf == IF Op(p) = "start" THEN Started(ReadControlSession, proc[p].req.mode)
                                       ELSE Stopped(ReadControlSession)
             new == [proc[p] EXCEPT !.pc = "open1", !.buf = buf]
  <2>1. /\ p \in Writers /\ proc[p].pc = "load"
        /\ Becomes(p, new) /\ UNCHANGED <<file, history>>
    BY <1>10 DEF Load, At, Writers, WritingSteps
  <2>2. ReadControlSession \in Session /\ proc[p].req.mode \in Modes
    BY <1>1, <1>2, ReadType DEF RequestType
  <2>3. /\ buf \in Session
        /\ Op(p) # "start" => ~buf.active /\ buf.kill = ReadControlSession.kill
        /\ Op(p) = "start" => /\ buf.active /\ ~buf.kill
                              /\ buf.mode = proc[p].req.mode
    BY <2>2, StartedType, StoppedType
  <2> HIDE DEF buf
  <2>4. /\ new \in Process /\ new.pc = "open1"
        /\ new.req = proc[p].req /\ new.buf = buf
    BY <1>2, <2>3 DEF Process, Steps, WritingSteps
  <2> HIDE DEF new
  <2> QED BY <1>1, <2>1, <2>3, <2>4, WriterStep
<1>11. ASSUME NEW p \in Procs, EmitTakeoverWarning(p) PROVE IInv'
  <2> DEFINE new == [proc[p] EXCEPT !.pc = "open2"]
  <2>1. /\ p \in Writers /\ proc[p].pc = "emit" /\ Op(p) = "start"
        /\ Becomes(p, new) /\ UNCHANGED <<file, history>>
    BY <1>11 DEF EmitTakeoverWarning, Goto, At, Writers, WritingSteps, IInv, StepsOfCommand
  <2>2. /\ new \in Process /\ new.pc = "open2"
        /\ new.req = proc[p].req /\ new.buf = proc[p].buf
    BY <1>2 DEF Process, Steps, WritingSteps
  <2> HIDE DEF new
  <2> QED BY <1>1, <2>1, <2>2, WriterStep
<1>12. CASE UNCHANGED vars
  <2>1. UNCHANGED <<file, proc, wanted, orderly>>
    BY <1>12 DEF vars, history
  <2> QED BY <2>1 DEF IInv, TypeOK, StepsOfCommand, OnlyStartActivates, Alone, InHand,
             StartInHand, StopInHand, KillInHand, FileShowsTheSession, IsAsWanted,
             ReadControlSession, Writers, Op
<1>13. ASSUME NEW p \in Procs, Progress(p) PROVE IInv'
  BY <1>1, <1>6, <1>7, <1>8, <1>9, <1>10, <1>11, <1>13,
     OpenStep, WriteOfKillStep, WriteOfStartStep, LastWriteStep
     DEF Progress, ServerGate, CliGate, Write
<1> QED BY <1>1, <1>5, <1>12, <1>13, TickStep, CrashStep DEF Next

(* What TypeCorrect says of types and FileShows of the session at rest both
   rest on this.                                                           *)
THEOREM Inductive == Spec => []IInv
  BY InitIInv, IInvStep, PTL DEF Spec

(* While session commands come one at a time and none dies half way, the
   file at rest shows what they ask for.                                   *)
THEOREM FileShows == Spec => []FileShowsTheSession
<1>1. IInv => FileShowsTheSession
  BY DEF IInv
<1> QED BY <1>1, Inductive, PTL

-------------------------------------------------------------------------------
(* The action properties.                                                  *)

(* Only the last gate lets an action through, and what it has read then
   allows it.                                                              *)
LEMMA LetThroughByGate ==
    ASSUME TypeOK, [Next]_vars, NEW p \in Procs, LetThrough(p)
    PROVE  /\ proc'[p].req = proc[p].req
           /\ GateAllows(ReadControlSession, proc[p].req.class, proc[p].req.approved)
<1> USE DEF LetThrough
<1>0. \A q \in Procs : proc[q] \in Process /\ proc[q].req \in RequestType
  BY DEF TypeOK, Process
<1>1. Idle.pc # "act"
  BY DEF Idle
<1>2. ASSUME NEW q \in Procs, NEW new \in Process, Becomes(q, new)
      PROVE  p = q /\ new.pc = "act" /\ proc'[p] = new
  BY <1>2, BecomesType DEF TypeOK
<1>3. ASSUME NEW q \in Procs, Return(q) PROVE FALSE
  BY <1>1, <1>2, <1>3, IdleType DEF Return
<1>4. ASSUME NEW q \in Procs, NEW l \in Steps, Goto(q, l)
      PROVE  p = q /\ l = "act" /\ proc'[p].req = proc[p].req
  <2>1. /\ [proc[q] EXCEPT !.pc = l] \in Process
        /\ [proc[q] EXCEPT !.pc = l].pc = l
        /\ [proc[q] EXCEPT !.pc = l].req = proc[q].req
    BY <1>0 DEF Process
  <2> QED BY <1>2, <1>4, <2>1 DEF Goto
<1>5. ASSUME NEW q \in Procs, NEW r \in RequestType, Enter(q, r) PROVE FALSE
  <2>1. CommandStep(q, r.op) \in Steps \ {"act"}
    BY CommandStepType DEF RequestType, Ops, CommandStep, Steps, WritingSteps
  <2>2. /\ [proc[q] EXCEPT !.pc = CommandStep(q, r.op), !.req = r] \in Process
        /\ [proc[q] EXCEPT !.pc = CommandStep(q, r.op), !.req = r].pc # "act"
    BY <1>0, <2>1 DEF Process
  <2> QED BY <1>2, <1>5, <2>2 DEF Enter
<1>6. ASSUME NEW q \in Procs, NEW new \in Process, new.pc # "act", Becomes(q, new)
      PROVE  FALSE
  BY <1>2, <1>6
<1>7. ASSUME NEW q \in Procs, Request(q) PROVE FALSE
  <2>1. \A r \in RequestType :
           /\ [proc[q] EXCEPT !.pc = "killCheck", !.req = r] \in Process
           /\ [proc[q] EXCEPT !.pc = "killCheck", !.req = r].pc # "act"
    BY <1>0 DEF Process, Steps
  <2> QED BY <1>5, <1>6, <1>7, <2>1, RequestsAssumption DEF Request
<1>8. ASSUME NEW q \in Procs, KillCheck(q) PROVE FALSE
  BY <1>0, <1>3, <1>5, <1>8 DEF KillCheck
<1>9. ASSUME NEW q \in Procs, ServerGate(q) PROVE FALSE
  BY <1>3, <1>4, <1>9 DEF ServerGate, Gate, Steps
<1>10. ASSUME NEW q \in Procs, CliGate(q)
       PROVE  /\ proc'[p].req = proc[p].req
              /\ GateAllows(ReadControlSession, proc[p].req.class, proc[p].req.approved)
  BY <1>3, <1>4, <1>10 DEF CliGate, Gate, Steps
<1>11. ASSUME NEW q \in Procs, Peek(q) PROVE FALSE
  <2>1. \A b \in BOOLEAN :
           /\ [proc[q] EXCEPT !.pc = "load", !.announce = b] \in Process
           /\ [proc[q] EXCEPT !.pc = "load", !.announce = b].pc # "act"
    BY <1>0 DEF Process, Steps, WritingSteps
  <2> QED BY <1>6, <1>11, <2>1 DEF Peek
<1>12. ASSUME NEW q \in Procs, Load(q) PROVE FALSE
  <2>1. ReadControlSession \in Session /\ proc[q].req.mode \in Modes
    BY <1>0, ReadType DEF RequestType
  <2>2. \A s \in Session :
           /\ [proc[q] EXCEPT !.pc = "open1", !.buf = s] \in Process
           /\ [proc[q] EXCEPT !.pc = "open1", !.buf = s].pc # "act"
    BY <1>0 DEF Process, Steps, WritingSteps
  <2> QED BY <1>6, <1>12, <2>1, <2>2, StartedType, StoppedType DEF Load
<1>13. ASSUME NEW q \in Procs, Open(q) PROVE FALSE
  BY <1>4, <1>13 DEF Open, Steps, WritingSteps
<1>14. ASSUME NEW q \in Procs, WriteOfKill(q) PROVE FALSE
  <2>1. [proc[q].buf EXCEPT !.kill = TRUE] \in Session
    BY <1>0 DEF Process, Session
  <2>2. \A s \in Session :
           /\ [proc[q] EXCEPT !.pc = "open2", !.buf = s] \in Process
           /\ [proc[q] EXCEPT !.pc = "open2", !.buf = s].pc # "act"
    BY <1>0 DEF Process, Steps, WritingSteps
  <2>3. Becomes(q, [proc[q] EXCEPT !.pc = "open2",
                                   !.buf = [proc[q].buf EXCEPT !.kill = TRUE]])
    BY <1>0, <1>14 DEF WriteOfKill, Process, Session
  <2> QED BY <1>6, <2>1, <2>2, <2>3
<1>15. ASSUME NEW q \in Procs, WriteOfStart(q) \/ EmitTakeoverWarning(q) PROVE FALSE
  BY <1>4, <1>15 DEF WriteOfStart, EmitTakeoverWarning, Steps, WritingSteps
<1>16. ASSUME NEW q \in Procs, LastWrite(q) \/ Act(q) PROVE FALSE
  BY <1>3, <1>16 DEF LastWrite, Act
<1>17. CASE Tick
  <2>1. proc'[p] = [proc[p] EXCEPT !.buf = SecondPasses(@)]
    BY <1>17 DEF Tick
  <2> QED BY <1>0, <2>1 DEF Process
<1>18. CASE Crash
  BY <1>1, <1>18 DEF Crash
<1>19. CASE UNCHANGED vars
  BY <1>19 DEF vars
<1> QED
  BY <1>7, <1>8, <1>9, <1>10, <1>11, <1>12, <1>13, <1>14, <1>15, <1>16, <1>17, <1>18,
     <1>19 DEF Next, Progress, Write

(* A kill switch that is on disk with no session command under way lets no
   action through but a Codex command, with or without an approval.        *)
THEOREM KillSwitchBlocks == Spec => KillBlocks
<1>1. TypeOK /\ [Next]_vars
      => [Sealed => \A p \in Procs : LetThrough(p) => proc[p].req.class = "codex"]_vars
  <2> SUFFICES ASSUME TypeOK, [Next]_vars, Sealed, NEW p \in Procs, LetThrough(p)
               PROVE  proc[p].req.class = "codex"
    OBVIOUS
  <2>1. GateAllows(ReadControlSession, proc[p].req.class, proc[p].req.approved)
    BY LetThroughByGate
  <2>2. ReadControlSession.kill
    BY DEF Sealed, ReadControlSession
  <2>3. proc[p].req.class \in Classes
    BY DEF TypeOK, Process, RequestType
  <2> QED BY <2>1, <2>2, <2>3 DEF GateAllows, WarningGated, Controlled, Classes
<1> QED BY <1>1, TypeCorrect, PTL DEF Spec, KillBlocks

(* Between orderly session commands an action that has no approval is let
   through only in the session the customer has granted, its warning over. *)
THEOREM ActionsAreGranted == Spec => ActsAsGranted
<1>1. IInv /\ [Next]_vars
      => [orderly /\ Writers = {} =>
            \A p \in Procs : LetThrough(p) /\ ~proc[p].req.approved =>
               /\ wanted.active /\ ~wanted.kill
               /\ file.session.left = 0
               /\ wanted.mode = "full_access" \/ proc[p].req.class = "routine"]_vars
  <2> SUFFICES ASSUME IInv, [Next]_vars, orderly, Writers = {},
                      NEW p \in Procs, LetThrough(p), ~proc[p].req.approved
               PROVE  /\ wanted.active /\ ~wanted.kill
                      /\ file.session.left = 0
                      /\ wanted.mode = "full_access" \/ proc[p].req.class = "routine"
    OBVIOUS
  <2>1. TypeOK /\ IsAsWanted(ReadControlSession)
    BY DEF IInv, FileShowsTheSession
  <2>2. GateAllows(ReadControlSession, proc[p].req.class, proc[p].req.approved)
    BY <2>1, LetThroughByGate
  <2>3. /\ ReadControlSession.active /\ ~ReadControlSession.kill
        /\ ~Warning(ReadControlSession)
        /\ ReadControlSession.mode = "full_access" \/ proc[p].req.class = "routine"
    BY <2>2 DEF GateAllows, SessionGrants, WarningGated
  <2>4. ReadControlSession = file.session
    BY <2>3 DEF ReadControlSession, DefaultSession
  <2>5. file.session.left \in 0..WarningSeconds
    BY <2>1 DEF TypeOK, Session
  <2>6. file.session.left = 0
    BY <2>3, <2>4, <2>5, WarningAssumption DEF Warning
  <2> QED BY <2>1, <2>3, <2>6 DEF IsAsWanted
<1> QED BY <1>1, Inductive, PTL DEF Spec, ActsAsGranted

(* A session that is not active is made active by the write of a start and
   by nothing else: the copies that other commands hold are not active, and
   a truncated or garbled file does not read as active.                    *)
THEOREM OnlyStartsRevive == Spec => StopIsFinal
<1>1. IInv /\ [Next]_vars
      => [~ReadControlSession.active /\ (\A p \in Procs : ~Starting(p))
            => ~ReadControlSession'.active]_vars
  <2> SUFFICES ASSUME IInv, [Next]_vars, ~ReadControlSession.active,
                      \A p \in Procs : ~Starting(p)
               PROVE  ~ReadControlSession'.active
    OBVIOUS
  <2>1. TypeOK /\ OnlyStartActivates
    BY DEF IInv
  <2>2. ~DefaultSession.active
    BY DEF DefaultSession
  <2>3. CASE UNCHANGED file
    BY <2>3 DEF ReadControlSession
  <2>4. ASSUME NEW p \in Procs, Open(p) PROVE ~ReadControlSession'.active
    BY <2>2, <2>4 DEF Open, ReadControlSession
  <2>5. ASSUME NEW p \in Procs, Write(p) PROVE ~ReadControlSession'.active
    <3>1. proc[p].pc \in {"write1", "write2"} /\ file' \in Landed(proc[p].buf)
      BY <2>5 DEF Write, WriteOfKill, WriteOfStart, LastWrite, At
    <3>2. Op(p) # "start"
      BY <3>1 DEF Starting, Writers, WritingSteps
    <3>3. ~proc[p].buf.active /\ proc[p].buf \in Session
      BY <2>1, <3>1, <3>2 DEF OnlyStartActivates, TypeOK, Process
    <3>4. file'.form = "json" => file'.session = proc[p].buf
      BY <2>1, <3>1, <3>3, LandedType
    <3> QED BY <2>2, <3>3, <3>4 DEF ReadControlSession
  <2>6. CASE Tick
    <3>1. file.session \in Session
      BY <2>1 DEF TypeOK
    <3>2. file'.form = file.form /\ file'.session = SecondPasses(file.session)
      BY <2>1, <2>6 DEF Tick, TypeOK
    <3> QED BY <2>2, <3>1, <3>2, SecondPassesType DEF ReadControlSession
  <2> QED
    BY <2>3, <2>4, <2>5, <2>6 DEF Next, Request, Progress, KillCheck, ServerGate, CliGate,
       Gate, Act, Peek, Load, EmitTakeoverWarning, Crash, vars
<1> QED BY <1>1, Inductive, PTL DEF Spec, StopIsFinal

(* A kill switch at rest stays on until a command is run on the Mac itself
   or the switch is thrown again: the requests of the VM end at the
   connector's own check, and a crash leaves the file alone.               *)
THEOREM KillSwitchHolds == Spec => KillHolds
<1>1. TypeOK /\ [Next]_vars
      => [Sealed => Sealed' \/ \E p \in Procs : BeginsCommand(p)]_vars
  <2> SUFFICES ASSUME TypeOK, [Next]_vars, Sealed,
                      \A p \in Procs : ~BeginsCommand(p)
               PROVE  Sealed'
    OBVIOUS
  <2>0. \A q \in Procs : /\ proc[q] \in Process /\ proc[q].req \in RequestType
                         /\ proc[q].pc \notin WritingSteps
    BY DEF TypeOK, Process, Sealed, Writers
  <2>1. ASSUME NEW q \in Procs, NEW new \in Process, Becomes(q, new),
               new.pc \notin WritingSteps, UNCHANGED file
        PROVE  Sealed'
    <3>1. \A r \in Procs : proc'[r].pc \notin WritingSteps
      BY <2>0, <2>1, BecomesType DEF TypeOK
    <3> QED BY <2>1, <3>1 DEF Sealed, Writers
  <2>2. ASSUME NEW q \in Procs, Return(q), UNCHANGED file PROVE Sealed'
    <3>1. Idle.pc \notin WritingSteps
      BY DEF Idle, WritingSteps
    <3> QED BY <2>1, <2>2, <3>1, IdleType DEF Return
  <2>3. ASSUME NEW q \in Procs, NEW l \in Steps \ WritingSteps, Goto(q, l), UNCHANGED file
        PROVE  Sealed'
    <3>1. [proc[q] EXCEPT !.pc = l] \in Process /\ [proc[q] EXCEPT !.pc = l].pc = l
      BY <2>0 DEF Process
    <3> QED BY <2>1, <2>3, <3>1 DEF Goto
  <2>4. ASSUME NEW q \in Procs, NEW r \in RequestType, Enter(q, r), UNCHANGED file,
               q \in Local \/ r.op = "kill" \/ r.op = "live"
        PROVE  Sealed'
    <3> DEFINE new == [proc[q] EXCEPT !.pc = CommandStep(q, r.op), !.req = r]
    <3>1. CommandStep(q, r.op) \in Steps /\ r.op \in Ops
      BY CommandStepType DEF RequestType
    <3>2. /\ new \in Process /\ new.pc = CommandStep(q, r.op) /\ new.req = r
          /\ Becomes(q, new)
      BY <2>0, <2>4, <3>1 DEF Process, Enter
    <3> HIDE DEF new
    <3>3. CASE r.op = "live"
      <4>1. new.pc \notin WritingSteps
        BY <3>1, <3>2, <3>3, CommandStepType DEF WritingSteps
      <4> QED BY <2>1, <2>4, <3>2, <4>1
    <3>4. CASE r.op # "live"
      <4>1. proc'[q] = new
        BY <3>2, BecomesType DEF TypeOK
      <4>2. new.pc \in {"peek", "load"}
        BY <3>1, <3>2, <3>4, CommandStepType DEF Ops
      <4> QED BY <2>0, <2>4, <3>2, <3>4, <4>1, <4>2 DEF BeginsCommand, WritingSteps
    <3> QED BY <3>3, <3>4
  <2>5. ASSUME NEW q \in Procs, Request(q) PROVE Sealed'
    <3>1. \A r \in RequestType :
             /\ [proc[q] EXCEPT !.pc = "killCheck", !.req = r] \in Process
             /\ [proc[q] EXCEPT !.pc = "killCheck", !.req = r].pc \notin WritingSteps
      BY <2>0 DEF Process, Steps, WritingSteps
    <3> QED BY <2>1, <2>4, <2>5, <3>1, RequestsAssumption DEF Request
  <2>6. ASSUME NEW q \in Procs, KillCheck(q) PROVE Sealed'
    <3>1. ReadControlSession.kill
      BY DEF Sealed, ReadControlSession
    <3> QED BY <2>0, <2>2, <2>4, <2>6, <3>1 DEF KillCheck, Op
  <2>7. ASSUME NEW q \in Procs, ServerGate(q) \/ CliGate(q) PROVE Sealed'
    <3>1. {"cliGate", "act"} \subseteq Steps \ WritingSteps
      BY DEF Steps, WritingSteps
    <3> QED BY <2>2, <2>3, <2>7, <3>1 DEF ServerGate, CliGate, Gate
  <2>8. ASSUME NEW q \in Procs, Act(q) PROVE Sealed'
    BY <2>2, <2>8 DEF Act
  <2>9. ASSUME NEW q \in Procs,
               Peek(q) \/ Load(q) \/ Open(q) \/ Write(q) \/ EmitTakeoverWarning(q)
        PROVE  FALSE
    <3>1. proc[q].pc \in WritingSteps
      BY <2>9 DEF Peek, Load, Open, Write, WriteOfKill, WriteOfStart, LastWrite,
         EmitTakeoverWarning, At, WritingSteps
    <3> QED BY <2>0, <3>1
  <2>10. CASE Tick
    <3>1. \A q \in Procs : proc'[q].pc = proc[q].pc
      BY <2>0, <2>10 DEF Tick, Process
    <3>2. file'.form = file.form /\ file'.session = SecondPasses(file.session)
      BY <2>10 DEF Tick, TypeOK
    <3>3. file'.session.kill
      BY <3>2, SecondPassesType DEF TypeOK, Sealed
    <3> QED BY <2>0, <3>1, <3>2, <3>3 DEF Sealed, Writers
  <2>11. CASE Crash
    <3>1. Idle.pc \notin WritingSteps
      BY DEF Idle, WritingSteps
    <3> QED BY <2>0, <2>11, <3>1 DEF Crash, Sealed, Writers
  <2>12. CASE UNCHANGED vars
    BY <2>12 DEF vars, Sealed, Writers
  <2> QED BY <2>5, <2>6, <2>7, <2>8, <2>9, <2>10, <2>11, <2>12 DEF Next, Progress
<1> QED BY <1>1, TypeCorrect, PTL DEF Spec, KillHolds
===============================================================================
