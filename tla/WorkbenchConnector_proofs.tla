----------------------- MODULE WorkbenchConnector_proofs -----------------------
(***************************************************************************)
(* What is proved of WorkbenchConnector, for any number of presses of Turn *)
(* On and any addresses.                                                   *)
(***************************************************************************)
EXTENDS WorkbenchConnector, TLAPS

(* Before a call launches its processes, they are new. *)
LaunchedOnce ==
    /\ \A s \in Starts : calls[s].pc # "done" => connector[s] = "new"
    /\ \A s \in Starts : calls[s].pc = "idle" => helper[s] = "new"

(* The manager forgets a helper as soon as it tells it to end. *)
HelperNotTold == manager.helper # None => helper[manager.helper] # "told"

(* What is noted of overlapping calls is so. *)
OneAtATime ==
    \A s, t \in Starts :
        Suspended(s) /\ Suspended(t) /\ (~ history.overlapped \/ calls[s].calm) => s = t

(* While a call is suspended, the connector before is on its way out. *)
NoneToLose ==
    Orderly => \A s \in Starts :
        Suspended(s) /\ manager.process # None => ~ At(connector, manager.process)

(* What an undisturbed call has seen is so still. *)
HelperIsThere ==
    ~ history.crashed => \A s \in Starts :
        Suspended(s) /\ calls[s].calm => manager.helper # None /\ At(helper, manager.helper)
AnswerStands ==
    ~ history.crashed => \A s \in Starts :
        calls[s].pc = "address" /\ calls[s].calm =>
            /\ calls[s].answered # None
            /\ calls[s].answered = manager.helper \/ helper[calls[s].answered] = "told"

IInv ==
    /\ TypeOK /\ NothingLeftBehind
    /\ LaunchedOnce /\ HelperNotTold /\ OneAtATime
    /\ NoneToLose /\ HelperIsThere /\ AnswerStands

-----------------------------------------------------------------------------

(* What the helpers of the actions return. *)

LEMMA TerminateOnly ==
    ASSUME NEW life \in [Starts -> Lives], NEW p \in Starts \cup {None}
    PROVE  /\ Terminate(life, p) \in [Starts -> Lives]
           /\ \A q \in Starts :
                 Terminate(life, p)[q] =
                     IF q = p /\ life[q] \in {"starting", "up", "told"} THEN "told" ELSE life[q]
BY WorkbenchAssumption DEF Terminate, IsRunning, Lives

LEMMA DisturbedOnly ==
    ASSUME TypeOK
    PROVE  /\ Disturbed \in [Starts -> Call]
           /\ \A t \in Starts : /\ Disturbed[t].pc = calls[t].pc
                                /\ Disturbed[t].answered = calls[t].answered
                                /\ ~ Disturbed[t].calm
<1>1. \A t \in Starts : calls[t] \in Call
  BY DEF TypeOK
<1>2. \A t \in Starts : [calls[t] EXCEPT !.calm = FALSE] \in Call
  BY <1>1 DEF Call
<1>3. \A t \in Starts : Disturbed[t] = [calls[t] EXCEPT !.calm = FALSE]
  BY DEF Disturbed
<1> QED  BY <1>1, <1>2, <1>3 DEF Disturbed, Call

LEMMA ReturnedType == Returned \in Call
BY DEF Returned, Call

(* One call after a step that disturbs the others and suspends it. *)
LEMMA SuspendedOnly ==
    ASSUME TypeOK, NEW s \in Starts, NEW step \in {"pinging", "waiting"},
           calls' = [Disturbed EXCEPT ![s].pc = step, ![s].calm = UnderWay = {}]
    PROVE  /\ calls' \in [Starts -> Call]
           /\ calls'[s].pc = step
           /\ calls'[s].calm => UnderWay = {}
           /\ \A t \in Starts \ {s} : calls'[t].pc = calls[t].pc /\ ~ calls'[t].calm
<1> DEFINE old == Disturbed[s]
           new == [old EXCEPT !.pc = step, !.calm = UnderWay = {}]
<1>1. Disturbed \in [Starts -> Call] /\ old \in Call
  BY DisturbedOnly
<1>2. calls' = [Disturbed EXCEPT ![s] = new]
  BY <1>1 DEF Call
<1>3. (UnderWay = {}) \in BOOLEAN
  OBVIOUS
<1>4. new \in Call /\ new.pc = step /\ (new.calm <=> UnderWay = {})
  BY <1>1, <1>3 DEF Call
<1> HIDE DEF new
<1>5. calls' \in [Starts -> Call] /\ calls'[s] = new
  <2>1. new \in Call
    BY <1>4
  <2> QED  BY <1>1, <1>2, <2>1
<1>6. \A t \in Starts \ {s} : calls'[t] = Disturbed[t]
  BY <1>1, <1>2
<1> QED  BY <1>4, <1>5, <1>6, DisturbedOnly

-----------------------------------------------------------------------------

(* Typing. *)

LEMMA TurnOnTyped ==
    ASSUME TypeOK, LaunchedOnce, NEW s \in Starts, TurnOn(s)
    PROVE  TypeOK'
<1>1. calls' \in [Starts -> Call]
  <2>1. CASE AlreadyRunning(s) \/ Offline(s)
    BY <2>1, DisturbedOnly, ReturnedType DEF AlreadyRunning, Offline
  <2>2. CASE PingHelper(s)
    BY <2>2, SuspendedOnly DEF PingHelper
  <2>3. CASE LaunchHelper(s)
    BY <2>3, SuspendedOnly DEF LaunchHelper
  <2> QED  BY <2>1, <2>2, <2>3 DEF TurnOn
<1>2. manager' \in [process : Starts \cup {None}, helper : Starts \cup {None}]
  BY DEF TypeOK, TurnOn, AlreadyRunning, Offline, PingHelper, LaunchHelper, Kept
<1>3. /\ connector' \in [Starts -> Lives]
      /\ \A p \in Starts : connector[p] \in {"up", "told"} => connector'[p] \in {"up", "told"}
  <2>1. connector' = connector \/ connector' = Terminate(connector, manager.process)
    BY DEF TurnOn, AlreadyRunning, Offline, PingHelper, LaunchHelper, DropConnector
  <2>2. manager.process \in Starts \cup {None} /\ connector \in [Starts -> Lives]
    BY DEF TypeOK
  <2> QED  BY <2>1, <2>2, TerminateOnly
<1>4. /\ helper' \in [Starts -> Lives]
      /\ \A p \in Starts : calls[s].pc = "idle" /\ p # s => helper'[p] = helper[p]
  BY DEF TypeOK, Lives, TurnOn, AlreadyRunning, Offline, PingHelper, LaunchHelper
<1>5. path # None => helper'[path] \in {"up", "told"}
  BY <1>4, WorkbenchAssumption DEF TypeOK, LaunchedOnce, TurnOn
<1>6. history' \in History
  BY DEF TypeOK, TurnOn, History
<1> QED  BY <1>1, <1>2, <1>3, <1>4, <1>5, <1>6 DEF TypeOK, TurnOn

LEMMA StartTyped ==
    ASSUME TypeOK, LaunchedOnce, NEW s \in Starts,
           Answered(s) \/ Unanswered(s) \/ LaunchConnector(s) \/ CannotLaunchConnector(s)
    PROVE  TypeOK'
<1> USE ReturnedType
<1>1. CASE Answered(s)
  <2>1. path \in Starts
    BY <1>1 DEF TypeOK, Answered, IsRunning
  <2>2. [calls[s] EXCEPT !.pc = "address", !.answered = path] \in Call
    BY <2>1 DEF TypeOK, Call
  <2>3. calls' = [calls EXCEPT ![s] = [calls[s] EXCEPT !.pc = "address", !.answered = path]]
    BY <1>1 DEF TypeOK, Call, Answered
  <2>4. calls' \in [Starts -> Call]
    BY <2>2, <2>3 DEF TypeOK
  <2> QED  BY <1>1, <2>4 DEF TypeOK, Answered
<1>2. CASE Unanswered(s) \/ CannotLaunchConnector(s)
  <2>1. calls' \in [Starts -> Call]
    BY <1>2 DEF TypeOK, Unanswered, CannotLaunchConnector
  <2>2. /\ helper' \in [Starts -> Lives]
        /\ \A p \in Starts : helper[p] \in {"up", "told"} => helper'[p] \in {"up", "told"}
    BY <1>2, TerminateOnly
       DEF TypeOK, Unanswered, CannotLaunchConnector, StopComputerUseHelper
  <2>3. manager' \in [process : Starts \cup {None}, helper : Starts \cup {None}]
    BY <1>2 DEF TypeOK, Unanswered, CannotLaunchConnector, StopComputerUseHelper
  <2> QED
    BY <1>2, <2>1, <2>2, <2>3 DEF TypeOK, Unanswered, CannotLaunchConnector
<1>3. CASE LaunchConnector(s)
  <2>1. /\ calls' \in [Starts -> Call]
        /\ connector' \in [Starts -> Lives]
        /\ manager' \in [process : Starts \cup {None}, helper : Starts \cup {None}]
    BY <1>3 DEF TypeOK, LaunchConnector, Lives
  <2>2. connector[s] = "new" /\ \A p \in Starts \ {s} : connector'[p] = connector[p]
    BY <1>3 DEF TypeOK, LaunchedOnce, LaunchConnector
  <2> QED  BY <1>3, <2>1, <2>2 DEF TypeOK, LaunchConnector
<1> QED  BY <1>1, <1>2, <1>3

LEMMA LostOnly ==
    ASSUME TypeOK, calls' = Lost
    PROVE  /\ calls' \in [Starts -> Call]
           /\ \A t \in Starts : /\ calls'[t].pc \in {"idle", "done"}
                                /\ calls'[t].pc = "idle" <=> calls[t].pc = "idle"
<1>1. \A t \in Starts : /\ calls'[t] = IF Suspended(t) THEN Returned ELSE calls[t]
                        /\ calls[t].pc \in {"idle", "pinging", "waiting", "address", "done"}
  BY DEF TypeOK, Lost, Call
<1> QED  BY <1>1, ReturnedType DEF TypeOK, Lost, Suspended, Returned

LEMMA StopTyped ==
    ASSUME TypeOK, Stop \/ Quit \/ Crash
    PROVE  TypeOK'
<1>1. calls' \in [Starts -> Call]
  BY DisturbedOnly, LostOnly DEF Stop, Quit, Crash
<1>2. /\ connector' \in [Starts -> Lives] /\ helper' \in [Starts -> Lives]
      /\ \A p \in Starts : /\ connector[p] \in {"up", "told"} => connector'[p] \in {"up", "told"}
                           /\ helper[p] \in {"up", "told"} => helper'[p] \in {"up", "told"}
  BY TerminateOnly DEF TypeOK, Stop, Quit, Crash, StopBoth
<1>3. manager' \in [process : Starts \cup {None}, helper : Starts \cup {None}]
  BY DEF Stop, Quit, Crash, StopBoth
<1>4. history' \in History
  <2>1. UnderWay \subseteq Starts
    BY DEF UnderWay
  <2> QED  BY <2>1 DEF TypeOK, Stop, Quit, Crash, History
<1>5. port' = port /\ path' = path
  BY DEF Stop, Quit, Crash, StopBoth
<1> QED  BY <1>1, <1>2, <1>3, <1>4, <1>5 DEF TypeOK

LEMMA ProcessTyped ==
    ASSUME TypeOK, NEW p \in Starts, ProcessStep(p)
    PROVE  TypeOK'
<1>1. calls' \in [Starts -> Call]
  BY DisturbedOnly DEF TypeOK, ProcessStep, HelperListens, ConnectorListens, ConnectorRefused,
                       ConnectorEnds, HelperEnds
<1>2. CASE HelperListens(p)
  BY <1>1, <1>2, WorkbenchAssumption DEF TypeOK, HelperListens, Lives
<1>3. CASE ConnectorListens(p)
  BY <1>1, <1>3, WorkbenchAssumption DEF TypeOK, ConnectorListens, Lives
<1>4. CASE ConnectorRefused(p)
  BY <1>1, <1>4, WorkbenchAssumption DEF TypeOK, ConnectorRefused, Lives
<1>5. CASE ConnectorEnds(p)
  BY <1>1, <1>5, WorkbenchAssumption DEF TypeOK, ConnectorEnds, Lives
<1>6. CASE HelperEnds(p)
  BY <1>1, <1>6, WorkbenchAssumption DEF TypeOK, HelperEnds, Lives
<1> QED  BY <1>2, <1>3, <1>4, <1>5, <1>6 DEF ProcessStep

-----------------------------------------------------------------------------

(* The other parts of the invariant. *)

LEMMA TurnOnKeeps ==
    ASSUME IInv, NEW s \in Starts, TurnOn(s)
    PROVE  IInv'
<1>1. TypeOK /\ TypeOK'
  BY TurnOnTyped DEF IInv
<1>2. /\ calls[s].pc = "idle" /\ connector[s] = "new" /\ helper[s] = "new"
      /\ calls'[s].pc \in {"pinging", "waiting", "done"}
      /\ calls'[s].pc # "done" /\ calls'[s].calm => UnderWay = {}
      /\ \A t \in Starts \ {s} : calls'[t].pc = calls[t].pc /\ ~ calls'[t].calm
  <2>1. CASE AlreadyRunning(s) \/ Offline(s)
    BY <1>1, <2>1, DisturbedOnly
       DEF IInv, LaunchedOnce, TurnOn, AlreadyRunning, Offline, Returned
  <2>2. CASE PingHelper(s)
    BY <1>1, <2>2, SuspendedOnly DEF IInv, LaunchedOnce, TurnOn, PingHelper
  <2>3. CASE LaunchHelper(s)
    BY <1>1, <2>3, SuspendedOnly DEF IInv, LaunchedOnce, TurnOn, LaunchHelper
  <2> QED  BY <2>1, <2>2, <2>3 DEF TurnOn
<1>3. /\ \A t \in Starts :
            \/ connector'[t] = connector[t]
            \/ connector[t] \in {"starting", "up", "told"} /\ connector'[t] = "told"
      /\ \A t \in Starts : At(connector', t) =>
            At(connector, t) /\ (manager.process = t => manager'.process = t)
      /\ manager'.process = manager.process \/ manager'.process = None
      /\ calls'[s].pc # "done" /\ manager'.process # None => ~ At(connector', manager'.process)
  <2>1. CASE AlreadyRunning(s)
    <3>1. calls'[s].pc = "done"
      BY <2>1, DisturbedOnly, <1>1 DEF AlreadyRunning, Returned
    <3> QED  BY <1>1, <2>1, <3>1 DEF AlreadyRunning, At
  <2>2. CASE Offline(s) \/ PingHelper(s) \/ LaunchHelper(s)
    <3>1. /\ connector' = Terminate(connector, manager.process)
          /\ manager'.process = Kept
      BY <1>1, <2>2 DEF TypeOK, Offline, PingHelper, LaunchHelper, DropConnector
    <3>2. \A t \in Starts : connector'[t] =
             IF t = manager.process /\ connector[t] \in {"starting", "up", "told"}
             THEN "told" ELSE connector[t]
      <4>1. manager.process \in Starts \cup {None} /\ connector \in [Starts -> Lives]
        BY <1>1 DEF TypeOK
      <4> QED  BY <3>1, <4>1, TerminateOnly
    <3>3. \A t \in Starts : At(connector', t) => At(connector, t) /\ manager.process # t
      BY <3>2 DEF At
    <3>4. manager'.process = manager.process \/ manager'.process = None
      BY <3>1 DEF Kept
    <3>5. manager'.process # None => ~ At(connector', manager'.process)
      <4> SUFFICES ASSUME manager'.process # None
                   PROVE  ~ At(connector', manager'.process)
        OBVIOUS
      <4>1. /\ manager'.process \in Starts
            /\ manager'.process = manager.process
        BY <1>1, <3>4 DEF TypeOK
      <4> QED  BY <3>3, <4>1 DEF At
    <3> QED  BY <3>2, <3>3, <3>4, <3>5
  <2> QED  BY <2>1, <2>2 DEF TurnOn
<1>4. \/ /\ helper' = helper
         /\ manager'.helper = manager.helper
         /\ calls'[s].pc # "done" => calls'[s].pc = "pinging" /\ IsRunning(helper, manager.helper)
      \/ /\ ~ IsRunning(helper, manager.helper)
         /\ helper' = [helper EXCEPT ![s] = "starting"]
         /\ manager'.helper = s
  <2>1. CASE AlreadyRunning(s) \/ Offline(s)
    <3>1. calls'[s].pc = "done"
      BY <1>1, <2>1, DisturbedOnly DEF AlreadyRunning, Offline, Returned
    <3> QED  BY <1>1, <2>1, <3>1 DEF AlreadyRunning, Offline, TypeOK
  <2>2. CASE PingHelper(s)
    <3>1. calls'[s].pc = "pinging"
      BY <1>1, <2>2, SuspendedOnly DEF PingHelper
    <3> QED  BY <1>1, <2>2, <3>1 DEF PingHelper, TypeOK
  <2>3. CASE LaunchHelper(s)
    BY <1>1, <2>3 DEF LaunchHelper
  <2> QED  BY <2>1, <2>2, <2>3 DEF TurnOn
<1>5. /\ port' = port /\ path' = path
      /\ history'.crashed = history.crashed
      /\ ~ history'.overlapped => ~ history.overlapped /\ UnderWay = {}
  BY <1>1 DEF TurnOn, TypeOK, History
<1> HIDE DEF TurnOn
<1>6. NothingLeftBehind'
  BY <1>1, <1>2, <1>3, <1>4, <1>5, WorkbenchAssumption
     DEF IInv, NothingLeftBehind, HelperNotTold, Orderly, At, IsRunning, TypeOK, Lives
<1>8. LaunchedOnce' /\ HelperNotTold'
  BY <1>1, <1>2, <1>3, <1>4 DEF IInv, LaunchedOnce, HelperNotTold, TypeOK
<1>9. OneAtATime'
  BY <1>1, <1>2, <1>5 DEF IInv, OneAtATime, Suspended, UnderWay
<1>10. NoneToLose'
  BY <1>1, <1>2, <1>3, <1>5 DEF IInv, NoneToLose, Orderly, Suspended, UnderWay, At
<1>11. HelperIsThere' /\ AnswerStands'
  BY <1>1, <1>2, <1>4, <1>5, WorkbenchAssumption
     DEF IInv, HelperIsThere, AnswerStands, HelperNotTold, Suspended, At, IsRunning, TypeOK, Lives
<1> QED  BY <1>1, <1>6, <1>8, <1>9, <1>10, <1>11 DEF IInv

LEMMA AnsweredKeeps ==
    ASSUME IInv, NEW s \in Starts, Answered(s)
    PROVE  IInv'
<1>1. TypeOK /\ TypeOK'
  BY StartTyped DEF IInv
<1>2. /\ UNCHANGED <<manager, connector, helper, port, path, history>>
      /\ path # None /\ IsRunning(helper, path)
      /\ calls[s].pc \in {"pinging", "waiting"} /\ calls'[s].pc = "address"
      /\ calls'[s].answered = path
      /\ calls'[s].calm <=> calls[s].calm
      /\ \A t \in Starts \ {s} : calls'[t] = calls[t]
  BY <1>1 DEF TypeOK, Answered, IsRunning, Call
<1>3. ~ history.crashed => path = manager.helper \/ helper[path] = "told"
  BY <1>1, <1>2 DEF IInv, TypeOK, NothingLeftBehind, At, IsRunning
<1>4. NothingLeftBehind' /\ LaunchedOnce' /\ HelperNotTold'
  BY <1>1, <1>2 DEF IInv, NothingLeftBehind, LaunchedOnce, HelperNotTold, Orderly, At
<1>5. OneAtATime' /\ NoneToLose' /\ HelperIsThere'
  BY <1>1, <1>2 DEF IInv, OneAtATime, NoneToLose, HelperIsThere, Suspended, Orderly, At
<1>6. AnswerStands'
  BY <1>1, <1>2, <1>3 DEF IInv, AnswerStands
<1> QED  BY <1>1, <1>4, <1>5, <1>6 DEF IInv

LEMMA UnansweredKeeps ==
    ASSUME IInv, NEW s \in Starts, Unanswered(s) \/ CannotLaunchConnector(s)
    PROVE  IInv'
<1>1. TypeOK /\ TypeOK'
  BY StartTyped DEF IInv
<1>2. /\ UNCHANGED <<connector, port, path, history>>
      /\ Suspended(s) /\ calls'[s].pc = "done"
      /\ \A t \in Starts \ {s} : calls'[t] = calls[t]
  BY <1>1 DEF TypeOK, Unanswered, CannotLaunchConnector, Suspended, Returned
<1>3. \/ UNCHANGED <<manager, helper>>
      \/ /\ manager'.process = manager.process /\ manager'.helper = None
         /\ \A h \in Starts :
               helper'[h] = IF h = manager.helper /\ helper[h] \in {"starting", "up", "told"}
                            THEN "told" ELSE helper[h]
  <2>1. manager.helper \in Starts \cup {None} /\ helper \in [Starts -> Lives]
    BY <1>1 DEF TypeOK
  <2>2. CASE StopComputerUseHelper
    <3>1. \A h \in Starts :
             helper'[h] = IF h = manager.helper /\ helper[h] \in {"starting", "up", "told"}
                          THEN "told" ELSE helper[h]
      BY <2>1, <2>2, TerminateOnly DEF StopComputerUseHelper
    <3> QED  BY <1>1, <2>2, <3>1 DEF TypeOK, StopComputerUseHelper
  <2> QED  BY <2>2 DEF Unanswered, CannotLaunchConnector
<1>4. NothingLeftBehind'
  BY <1>1, <1>2, <1>3 DEF IInv, NothingLeftBehind, Orderly, At
<1>5. LaunchedOnce' /\ HelperNotTold' /\ OneAtATime' /\ NoneToLose'
  BY <1>1, <1>2, <1>3
     DEF IInv, LaunchedOnce, HelperNotTold, OneAtATime, NoneToLose, Suspended, Orderly, At
<1>6. HelperIsThere' /\ AnswerStands'
  <2>1. \A t \in Starts : Suspended(t)' /\ calls'[t].calm => FALSE
    BY <1>2 DEF IInv, OneAtATime, Suspended
  <2> QED  BY <2>1 DEF HelperIsThere, AnswerStands, Suspended
<1> QED  BY <1>1, <1>4, <1>5, <1>6 DEF IInv

LEMMA LaunchKeeps ==
    ASSUME IInv, NEW s \in Starts, LaunchConnector(s)
    PROVE  IInv'
<1>1. TypeOK /\ TypeOK'
  BY StartTyped DEF IInv
<1>2. /\ UNCHANGED <<helper, port, path, history>>
      /\ Suspended(s) /\ calls'[s].pc = "done"
      /\ \A t \in Starts \ {s} : calls'[t] = calls[t] /\ connector'[t] = connector[t]
      /\ connector[s] = "new" /\ connector'[s] = "starting"
      /\ manager'.process = s /\ manager'.helper = manager.helper
  BY <1>1 DEF IInv, LaunchedOnce, TypeOK, LaunchConnector, Suspended, Returned
<1>3. \A t \in Starts \ {s} : Orderly => ~ At(connector, t)
  BY <1>1, <1>2, WorkbenchAssumption DEF IInv, NothingLeftBehind, NoneToLose
<1>4. NothingLeftBehind'
  BY <1>1, <1>2, <1>3 DEF IInv, NothingLeftBehind, Orderly, At
<1>6. LaunchedOnce' /\ HelperNotTold' /\ OneAtATime'
  BY <1>1, <1>2 DEF IInv, LaunchedOnce, HelperNotTold, OneAtATime, Suspended
<1>7. NoneToLose' /\ HelperIsThere' /\ AnswerStands'
  <2>1. \A t \in Starts : Suspended(t)' /\ (~ history'.overlapped \/ calls'[t].calm) => FALSE
    BY <1>2 DEF IInv, OneAtATime, Suspended
  <2> QED  BY <2>1 DEF NoneToLose, HelperIsThere, AnswerStands, Suspended, Orderly
<1> QED  BY <1>1, <1>4, <1>6, <1>7 DEF IInv

LEMMA StopKeeps ==
    ASSUME IInv, Stop \/ Quit \/ Crash
    PROVE  IInv'
<1>1. TypeOK /\ TypeOK'
  BY StopTyped DEF IInv
<1>2. /\ \A t \in Starts : /\ calls'[t].pc = "idle" <=> calls[t].pc = "idle"
                           /\ calls'[t].pc # "done" => calls'[t].pc = calls[t].pc
                           /\ Suspended(t)' => Suspended(t) /\ ~ calls'[t].calm
      /\ manager'.process = None /\ manager'.helper = None
      /\ port' = port /\ history'.overlapped = history.overlapped
  <2>1. CASE Stop
    BY <1>1, <2>1, DisturbedOnly DEF Stop, StopBoth, Suspended, TypeOK
  <2>2. CASE Quit \/ Crash
    <3>1. \A t \in Starts : /\ calls'[t].pc \in {"idle", "done"}
                            /\ calls'[t].pc = "idle" <=> calls[t].pc = "idle"
      BY <1>1, <2>2, LostOnly DEF Quit, Crash
    <3>2. \A t \in Starts : ~ Suspended(t)'
      BY <3>1 DEF Suspended
    <3>3. /\ manager'.process = None /\ manager'.helper = None
          /\ port' = port /\ history'.overlapped = history.overlapped
      <4>1. CASE Quit
        BY <1>1, <4>1 DEF Quit, StopBoth, TypeOK
      <4>2. CASE Crash
        BY <1>1, <4>2 DEF Crash, TypeOK
      <4> QED  BY <2>2, <4>1, <4>2
    <3> QED  BY <3>1, <3>2, <3>3
  <2> QED  BY <2>1, <2>2
<1>3. \/ history'.crashed /\ UNCHANGED <<connector, helper>>
      \/ /\ history'.crashed = history.crashed
         /\ \A t \in Starts :
               /\ helper'[t] = IF t = manager.helper /\ helper[t] \in {"starting", "up", "told"}
                               THEN "told" ELSE helper[t]
               /\ connector'[t] = IF t = manager.process /\ connector[t] \in {"starting", "up", "told"}
                                  THEN "told" ELSE connector[t]
  <2>1. /\ manager.helper \in Starts \cup {None} /\ helper \in [Starts -> Lives]
        /\ manager.process \in Starts \cup {None} /\ connector \in [Starts -> Lives]
    BY <1>1 DEF TypeOK
  <2>2. CASE Stop \/ Quit
    <3>1. /\ connector' = Terminate(connector, manager.process)
          /\ helper' = Terminate(helper, manager.helper)
          /\ history'.crashed = history.crashed
      BY <1>1, <2>2 DEF TypeOK, History, Stop, Quit, StopBoth
    <3>2. \A t \in Starts : helper'[t] =
             IF t = manager.helper /\ helper[t] \in {"starting", "up", "told"}
             THEN "told" ELSE helper[t]
      BY <2>1, <3>1, TerminateOnly
    <3>3. \A t \in Starts : connector'[t] =
             IF t = manager.process /\ connector[t] \in {"starting", "up", "told"}
             THEN "told" ELSE connector[t]
      BY <2>1, <3>1, TerminateOnly
    <3> QED  BY <3>1, <3>2, <3>3
  <2>3. CASE Crash
    BY <1>1, <2>3 DEF TypeOK, Crash
  <2> QED  BY <2>2, <2>3
<1>4. NothingLeftBehind'
  BY <1>1, <1>2, <1>3 DEF IInv, NothingLeftBehind, Orderly, At
<1>5. LaunchedOnce'
  <2>1. \A t \in Starts : /\ connector[t] = "new" => connector'[t] = "new"
                          /\ helper[t] = "new" => helper'[t] = "new"
    BY <1>3
  <2>2. \A t \in Starts : /\ calls'[t].pc # "done" => calls[t].pc # "done"
                          /\ calls'[t].pc = "idle" => calls[t].pc = "idle"
    BY <1>2
  <2>3. LaunchedOnce
    BY DEF IInv
  <2> QED  BY <2>1, <2>2, <2>3 DEF LaunchedOnce
<1>6. HelperNotTold' /\ OneAtATime'
  BY <1>2 DEF IInv, HelperNotTold, OneAtATime, Suspended
<1>7. NoneToLose' /\ HelperIsThere' /\ AnswerStands'
  BY <1>2 DEF NoneToLose, HelperIsThere, AnswerStands, Suspended
<1> QED  BY <1>1, <1>4, <1>5, <1>6, <1>7 DEF IInv

LEMMA ProcessKeeps ==
    ASSUME IInv, NEW p \in Starts, ProcessStep(p)
    PROVE  IInv'
<1>1. TypeOK /\ TypeOK'
  BY ProcessTyped DEF IInv
<1>2. /\ manager' = manager /\ history' = history
      /\ \A t \in Starts : calls'[t].pc = calls[t].pc /\ calls'[t].answered = calls[t].answered
      /\ \/ \A t \in Starts : ~ calls'[t].calm
         \/ /\ calls' = calls
            /\ \A t \in Starts : At(helper, t) => At(helper', t)
            /\ \A t \in Starts : helper[t] = "told" => helper'[t] = "told"
  BY <1>1, DisturbedOnly
     DEF TypeOK, Lives, ProcessStep, HelperListens, ConnectorListens, ConnectorRefused,
         ConnectorEnds, HelperEnds, At
<1>3. /\ \A t \in Starts : At(connector', t) => At(connector, t)
      /\ \A t \in Starts : At(helper', t) => At(helper, t)
      /\ \A t \in Starts : connector[t] = "new" => connector'[t] = "new"
      /\ \A t \in Starts : helper[t] = "new" => helper'[t] = "new"
      /\ \A t \in Starts : helper'[t] = "told" => helper[t] = "told"
  BY <1>1
     DEF TypeOK, Lives, ProcessStep, HelperListens, ConnectorListens, ConnectorRefused,
         ConnectorEnds, HelperEnds, At, IsRunning
<1>4. NothingLeftBehind'
  BY <1>2, <1>3 DEF IInv, NothingLeftBehind, Orderly, At
<1>6. LaunchedOnce'
  BY <1>2, <1>3 DEF IInv, LaunchedOnce
<1>7. HelperNotTold'
  BY <1>1, <1>2, <1>3 DEF IInv, HelperNotTold, TypeOK
<1>8. OneAtATime'
  BY <1>2 DEF IInv, OneAtATime, Suspended
<1>9. NoneToLose'
  BY <1>1, <1>2, <1>3 DEF IInv, NoneToLose, Suspended, Orderly, At, TypeOK
<1>10. HelperIsThere' /\ AnswerStands'
  <2>1. CASE \A t \in Starts : ~ calls'[t].calm
    BY <2>1 DEF HelperIsThere, AnswerStands
  <2>2. CASE /\ calls' = calls
             /\ \A t \in Starts : At(helper, t) => At(helper', t)
             /\ \A t \in Starts : helper[t] = "told" => helper'[t] = "told"
    <3>1. manager.helper \in Starts \cup {None}
      BY <1>1 DEF TypeOK
    <3>2. \A t \in Starts : calls[t].answered \in Starts \cup {None}
      BY <1>1 DEF TypeOK, Call
    <3>3. HelperIsThere'
      BY <1>2, <2>2, <3>1 DEF IInv, HelperIsThere, Suspended, At
    <3>4. AnswerStands'
      BY <1>2, <2>2, <3>2 DEF IInv, AnswerStands
    <3> QED  BY <3>3, <3>4
  <2> QED  BY <1>2, <2>1, <2>2
<1> QED  BY <1>1, <1>4, <1>6, <1>7, <1>8, <1>9, <1>10 DEF IInv

LEMMA InitHolds == Init => IInv
<1> SUFFICES ASSUME Init PROVE IInv
  OBVIOUS
<1>1. TypeOK
  BY DEF Init, TypeOK, Call, Lives, History
<1> QED
  BY <1>1, WorkbenchAssumption
     DEF Init, IInv, NothingLeftBehind, LaunchedOnce, HelperNotTold,
         OneAtATime, NoneToLose, HelperIsThere, AnswerStands, Suspended, At

LEMMA StepKeeps == IInv /\ [Next]_vars => IInv'
<1> SUFFICES ASSUME IInv, [Next]_vars PROVE IInv'
  OBVIOUS
<1>1. ASSUME NEW s \in Starts, StartStep(s) PROVE IInv'
  BY <1>1, TurnOnKeeps, AnsweredKeeps, UnansweredKeeps, LaunchKeeps DEF StartStep
<1>2. ASSUME NEW s \in Starts, ProcessStep(s) PROVE IInv'
  BY <1>2, ProcessKeeps
<1>3. CASE Stop \/ Quit \/ Crash
  BY <1>3, StopKeeps
<1>4. CASE UNCHANGED vars
  BY <1>4 DEF vars, IInv, TypeOK, NothingLeftBehind, LaunchedOnce,
              HelperNotTold, OneAtATime, NoneToLose, HelperIsThere, AnswerStands, Suspended, At,
              Orderly, Call
<1> QED  BY <1>1, <1>2, <1>3, <1>4 DEF Next

(* IInv is an invariant: what the manager knows of, and what an undisturbed
   call of start has seen, is so.                                          *)
THEOREM Invariant == Spec => []IInv
BY InitHolds, StepKeeps, PTL DEF Spec

(* The types, and that who holds a port, or is at the path, runs. *)
THEOREM TypeCorrect == Spec => []TypeOK
<1>1. IInv => TypeOK
  BY DEF IInv
<1> QED  BY <1>1, Invariant, PTL

(* No process is lost, but to a crash or to calls of start that overlap. *)
THEOREM NothingIsLost == Spec => []NothingLeftBehind
<1>1. IInv => NothingLeftBehind
  BY DEF IInv
<1> QED  BY <1>1, Invariant, PTL

(* A connector is launched for a helper that runs and has answered. *)
THEOREM LaunchCorrect == Spec => LaunchedForHelper
<1>1. ASSUME IInv, [Next]_vars
      PROVE  \A s \in Starts :
                connector[s] = "new" /\ connector'[s] # "new" /\ calls[s].calm /\ ~ history.crashed
                    => /\ manager.helper # None /\ At(helper, manager.helper)
                       /\ calls[s].answered # None
                       /\ \/ calls[s].answered = manager.helper
                          \/ helper[calls[s].answered] = "told"
  <2> SUFFICES ASSUME NEW s \in Starts, connector[s] = "new", connector'[s] # "new",
                      calls[s].calm, ~ history.crashed
               PROVE  /\ manager.helper # None /\ At(helper, manager.helper)
                      /\ calls[s].answered # None
                      /\ \/ calls[s].answered = manager.helper
                         \/ helper[calls[s].answered] = "told"
    OBVIOUS
  <2>1. TypeOK
    BY <1>1 DEF IInv
  <2>2. calls[s].pc = "address"
    <3>1. ASSUME NEW t \in Starts, TurnOn(t) PROVE FALSE
      <4>1. connector' = connector \/ connector' = Terminate(connector, manager.process)
        BY <3>1 DEF TurnOn, AlreadyRunning, Offline, PingHelper, LaunchHelper, DropConnector
      <4>2. manager.process \in Starts \cup {None} /\ connector \in [Starts -> Lives]
        BY <2>1 DEF TypeOK
      <4>3. connector'[s] = "new"
        BY <4>1, <4>2, TerminateOnly
      <4> QED  BY <4>3
    <3>2. ASSUME NEW t \in Starts,
                 Answered(t) \/ Unanswered(t) \/ CannotLaunchConnector(t)
          PROVE  FALSE
      BY <3>2 DEF Answered, Unanswered, CannotLaunchConnector
    <3>3. ASSUME NEW t \in Starts, LaunchConnector(t) PROVE calls[s].pc = "address"
      BY <2>1, <3>3 DEF TypeOK, LaunchConnector
    <3>4. ASSUME NEW t \in Starts, ProcessStep(t) PROVE FALSE
      BY <2>1, <3>4
         DEF TypeOK, ProcessStep, HelperListens, ConnectorListens, ConnectorRefused,
             ConnectorEnds, HelperEnds, IsRunning
    <3>5. CASE Stop \/ Quit \/ Crash
      <4>1. connector' = connector \/ connector' = Terminate(connector, manager.process)
        BY <3>5 DEF Stop, Quit, Crash, StopBoth
      <4>2. manager.process \in Starts \cup {None} /\ connector \in [Starts -> Lives]
        BY <2>1 DEF TypeOK
      <4>3. connector'[s] = "new"
        BY <4>1, <4>2, TerminateOnly
      <4> QED  BY <4>3
    <3>6. CASE UNCHANGED vars
      BY <3>6 DEF vars
    <3> QED  BY <1>1, <3>1, <3>2, <3>3, <3>4, <3>5, <3>6 DEF Next, StartStep
  <2> QED  BY <1>1, <2>2 DEF IInv, HelperIsThere, AnswerStands, Suspended
<1> QED  BY <1>1, Invariant, PTL DEF Spec, LaunchedForHelper
=============================================================================
