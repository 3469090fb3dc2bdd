------------------------- MODULE ApprovalGate_proofs -------------------------
(***************************************************************************)
(* Proofs about ApprovalGate, for any processes, requests, texts, ages and *)
(* lengths of the log.                                                     *)
(*                                                                         *)
(* The inductive invariant IInv carries an approval from the record it     *)
(* names to the record of the action: what the log holds is redacted and   *)
(* complete (LogIsRedacted), what the connector has found is still there   *)
(* (FoundIsThere), what the command line runs is what it was given         *)
(* (FieldFromSent) and what it has found is still there (GrantedIsThere).  *)
(***************************************************************************)
EXTENDS ApprovalGate, TLAPS

(* No record lacks a field that has a default, and to redact again changes
   nothing.                                                                *)
LogIsRedacted ==
    \A i \in DOMAIN log :
        /\ Takes[log[i].op] \in {"filled", "agreed"} => log[i].field # NoText
        /\ Redacted(log[i].op, log[i].field) = log[i].field

(* The steps of the command line, which knows its field.                   *)
CliSteps == {"cliGate", "cliLookup", "run", "append"}

FieldFromSent(j) ==
    j.pc \in CliSteps =>
        /\ Takes[j.op] \in {"filled", "agreed"} => j.field # NoText
        /\ j.found => j.field = Argv(j.op, j.sent)

FoundIsThere(j) ==
    j.found =>
        /\ j.pc \in {"argv"} \cup CliSteps
        /\ IsDryRunOf(j.ref, j.op, ApprovalFieldValue(j.op, j.sent))

GrantedIsThere(j) ==
    /\ j.grant # "none" => j.pc \in {"run", "append"}
    /\ j.grant = "approval" => IsDryRunOf(j.ref, j.op, j.field)

JobOK(j) == FieldFromSent(j) /\ FoundIsThere(j) /\ GrantedIsThere(j)

IInv ==
    /\ TypeOK
    /\ LogIsRedacted
    /\ \A p \in Procs : JobOK(proc[p])
    /\ ApprovedByDryRun

-------------------------------------------------------------------------------
(* What the conversions of a field return.                                 *)

(* A field stays a field on its way through the argv, the gate and the log. *)
LEMMA FieldTypes ==
    ASSUME NEW op \in DOMAIN Takes, NEW v \in Fields
    PROVE  /\ Filled(op, v) \in Fields /\ Argv(op, v) \in Fields
           /\ Redacted(op, v) \in Fields
  BY ApprovalAssumption DEF Filled, Argv, Redacted, Fields

(* A default is filled in, and what is logged is complete and redacted.    *)
LEMMA FieldIsComplete ==
    ASSUME NEW op \in DOMAIN Takes, NEW v \in Fields
    PROVE  /\ Takes[op] \in {"filled", "agreed"} =>
                 Filled(op, v) # NoText /\ Argv(op, v) # NoText
           /\ v # NoText => Redacted(op, v) # NoText
           /\ Redacted(op, Redacted(op, v)) = Redacted(op, v)
  BY ApprovalAssumption DEF Filled, Argv, Redacted, Fields

(* A process that does nothing is one of the possible processes.           *)
LEMMA IdleType == Idle \in Process
  BY DEF Idle, Process, Fields, Steps, Grants, Takes

-------------------------------------------------------------------------------
(* What a step may do to the log.                                          *)

(* The log keeps its records, all but their age.                           *)
Keeps ==
    /\ DOMAIN log \subseteq DOMAIN log'
    /\ \A i \in DOMAIN log :
          /\ log'[i].op = log[i].op /\ log'[i].field = log[i].field
          /\ log'[i].ok = log[i].ok /\ log'[i].dry = log[i].dry
          /\ log'[i].ref = log[i].ref /\ log'[i].grant = log[i].grant

(* The record that p appends.                                              *)
Entry(p) ==
    [op |-> proc[p].op, field |-> Redacted(proc[p].op, proc[p].field),
     dry |-> proc[p].dry, ok |-> proc[p].ok, ref |-> proc[p].ref, age |-> 0,
     grant |-> proc[p].grant]

(* A record keeps its type as it ages, and a new one has it.               *)
LEMMA OlderType ==
    ASSUME NEW r \in Record
    PROVE  [r EXCEPT !.age = Older(@)] \in Record
  BY ApprovalAssumption DEF Record, Older

LEMMA EntryType ==
    ASSUME TypeOK, NEW p \in Procs
    PROVE  Entry(p) \in Record
  <1>1. proc[p] \in Process
    BY DEF TypeOK
  <1>2. Redacted(proc[p].op, proc[p].field) \in Fields
    BY <1>1, FieldTypes DEF Process
  <1> QED
    BY <1>1, <1>2, ApprovalAssumption DEF Entry, Record, Process

(* Time changes the ages and nothing else.                                 *)
LEMMA TickKeeps ==
    ASSUME TypeOK, Tick
    PROVE  /\ log' \in Seq(Record) /\ DOMAIN log' = DOMAIN log
           /\ Keeps
           /\ session' \in Session
  <1>1. \A i \in DOMAIN log : log[i] \in Record
    BY DEF TypeOK
  <1>2. \A i \in DOMAIN log : [log[i] EXCEPT !.age = Older(@)] \in Record
    BY <1>1, OlderType
  <1>3. log' = [i \in 1..Len(log) |-> [log[i] EXCEPT !.age = Older(@)]]
    BY DEF Tick, TypeOK
  <1>4. log' \in Seq(Record) /\ DOMAIN log' = DOMAIN log
    BY <1>2, <1>3 DEF TypeOK
  <1>5. Keeps
    BY <1>1, <1>3, <1>4 DEF Keeps, Record, TypeOK
  <1>6. session' \in Session
    BY WarningAssumption DEF Tick, TypeOK, Session
  <1> QED
    BY <1>4, <1>5, <1>6

-------------------------------------------------------------------------------
(* The steps.                                                              *)

(* Idle processes have nothing to keep.                                    *)
LEMMA IdleOK == JobOK(Idle) /\ JobOK([Idle EXCEPT !.pc = "refused"])
  BY DEF JobOK, FieldFromSent, FoundIsThere, GrantedIsThere, CliSteps, Idle

(* A process moves and the log stays: all depends on where it moves to.    *)
LEMMA BecomesKeeps ==
    ASSUME IInv, NEW p \in Procs, NEW new \in Process, Becomes(p, new), JobOK(new)
    PROVE  IInv'
  <1>1. proc' = [proc EXCEPT ![p] = new] /\ session' = session /\ log' = log
    BY DEF Becomes
  <1>2. TypeOK'
    BY <1>1 DEF IInv, TypeOK
  <1>3. LogIsRedacted' /\ ApprovedByDryRun'
    BY <1>1 DEF IInv, LogIsRedacted, ApprovedByDryRun, IsDryRunOf
  <1>4. ASSUME NEW q \in Procs PROVE JobOK(proc[q])'
    <2>1. JobOK(proc'[q])
      BY <1>1 DEF IInv, TypeOK
    <2> QED
      BY <1>1, <2>1 DEF JobOK, FieldFromSent, FoundIsThere, GrantedIsThere, IsDryRunOf
  <1> QED
    BY <1>2, <1>3, <1>4 DEF IInv

(* A request is refused or its process dies.                               *)
LEMMA RefuseKeeps ==
    ASSUME IInv, NEW p \in Procs, Refuse(p) \/ Becomes(p, Idle)
    PROVE  IInv'
  <1>1. [Idle EXCEPT !.pc = "refused"] \in Process
    BY IdleType DEF Process, Steps
  <1> QED
    BY <1>1, IdleType, IdleOK, BecomesKeeps DEF Refuse

(* A request comes in.                                                     *)
LEMMA RequestKeeps ==
    ASSUME IInv, NEW p \in Procs, Request(p)
    PROVE  IInv'
  <1>1. PICK ref \in 0..Len(log) :
           \/ \E r \in RemoteRequests : Becomes(p, [Idle EXCEPT
                   !.pc = "killCheck", !.op = r.op, !.sent = r.sent, !.dry = r.dry,
                   !.ref = ref])
           \/ \E r \in LocalRequests : Becomes(p, [Idle EXCEPT
                   !.pc = "cliGate", !.op = r.op, !.sent = r.sent, !.dry = r.dry,
                   !.ref = ref, !.field = Filled(r.op, r.sent)])
    BY DEF Request
  <1>2. ref \in Nat
    BY DEF IInv, TypeOK
  <1>3. CASE \E r \in RemoteRequests : Becomes(p, [Idle EXCEPT
                   !.pc = "killCheck", !.op = r.op, !.sent = r.sent, !.dry = r.dry,
                   !.ref = ref])
    <2> PICK r \in RemoteRequests : Becomes(p, [Idle EXCEPT
                   !.pc = "killCheck", !.op = r.op, !.sent = r.sent, !.dry = r.dry,
                   !.ref = ref])
      BY <1>3
    <2> DEFINE new == [Idle EXCEPT
                   !.pc = "killCheck", !.op = r.op, !.sent = r.sent, !.dry = r.dry,
                   !.ref = ref]
    <2>1. r \in RequestType
      BY ApprovalAssumption
    <2>2. new \in Process
      BY <1>2, <2>1, IdleType DEF Process, RequestType, Steps
    <2>3. JobOK(new)
      BY DEF JobOK, FieldFromSent, FoundIsThere, GrantedIsThere, CliSteps, Idle
    <2> QED
      BY <2>2, <2>3, BecomesKeeps
  <1>4. CASE \E r \in LocalRequests : Becomes(p, [Idle EXCEPT
                   !.pc = "cliGate", !.op = r.op, !.sent = r.sent, !.dry = r.dry,
                   !.ref = ref, !.field = Filled(r.op, r.sent)])
    <2> PICK r \in LocalRequests : Becomes(p, [Idle EXCEPT
                   !.pc = "cliGate", !.op = r.op, !.sent = r.sent, !.dry = r.dry,
                   !.ref = ref, !.field = Filled(r.op, r.sent)])
      BY <1>4
    <2> DEFINE new == [Idle EXCEPT
                   !.pc = "cliGate", !.op = r.op, !.sent = r.sent, !.dry = r.dry,
                   !.ref = ref, !.field = Filled(r.op, r.sent)]
    <2>1. r \in RequestType
      BY ApprovalAssumption
    <2>2. r.op \in DOMAIN Takes /\ r.sent \in Fields
      BY <2>1 DEF RequestType
    <2>3. new \in Process
      BY <1>2, <2>1, <2>2, IdleType, FieldTypes DEF Process, RequestType, Steps
    <2>4. JobOK(new)
      BY <2>2, FieldIsComplete
      DEF JobOK, FieldFromSent, FoundIsThere, GrantedIsThere, CliSteps, Idle
    <2> QED
      BY <2>3, <2>4, BecomesKeeps
  <1> QED
    BY <1>1, <1>3, <1>4

(* A process goes to a step that asks for nothing new.                     *)
LEMMA GotoKeeps ==
    ASSUME IInv, NEW p \in Procs, NEW l \in Steps, Goto(p, l),
           \/ proc[p].pc \in {"killCheck", "serverGate"} /\ l \notin CliSteps \cup {"run"}
           \/ proc[p].pc \in {"cliGate", "cliLookup"} /\ l \in {"cliLookup", "append"}
    PROVE  IInv'
  <1> DEFINE new == [proc[p] EXCEPT !.pc = l]
  <1>1. proc[p] \in Process /\ JobOK(proc[p])
    BY DEF IInv, TypeOK
  <1>2. new \in Process
    BY <1>1 DEF Process
  <1>3. JobOK(new)
    BY <1>1 DEF JobOK, FieldFromSent, FoundIsThere, GrantedIsThere, CliSteps, Process
  <1> QED
    BY <1>2, <1>3, BecomesKeeps DEF Goto

(* The command line lets a request through, with what it says it has.      *)
LEMMA PassKeeps ==
    ASSUME IInv, NEW p \in Procs, NEW how \in Grants, Pass(p, "run", how),
           proc[p].pc \in {"cliGate", "cliLookup"},
           how = "approval" => IsDryRunOf(proc[p].ref, proc[p].op, proc[p].field)
    PROVE  IInv'
  <1> DEFINE new == [proc[p] EXCEPT !.pc = "run", !.grant = how]
  <1>1. proc[p] \in Process /\ JobOK(proc[p])
    BY DEF IInv, TypeOK
  <1>2. new \in Process
    BY <1>1 DEF Process, Steps
  <1>3. JobOK(new)
    BY <1>1 DEF JobOK, FieldFromSent, FoundIsThere, GrantedIsThere, CliSteps, Process
  <1> QED
    BY <1>2, <1>3, BecomesKeeps DEF Pass

(* The connector finds the record.                                         *)
LEMMA ServerLookupKeeps ==
    ASSUME IInv, NEW p \in Procs, ServerLookup(p)
    PROVE  IInv'
  <1> DEFINE j == proc[p]
             new == [j EXCEPT !.pc = "argv", !.found = TRUE]
  <1>1. j \in Process /\ JobOK(j) /\ j.pc = "serverLookup"
    BY DEF IInv, TypeOK, ServerLookup, At
  <1>2. CASE Approves(j.ref, j.op, ApprovalFieldValue(j.op, j.sent))
    <2>1. Becomes(p, new)
      BY <1>2 DEF ServerLookup
    <2>2. new \in Process
      BY <1>1 DEF Process, Steps
    <2>3. JobOK(new)
      BY <1>1, <1>2
      DEF JobOK, FieldFromSent, FoundIsThere, GrantedIsThere, CliSteps, Process, Approves
    <2> QED
      BY <2>1, <2>2, <2>3, BecomesKeeps
  <1>3. CASE ~Approves(j.ref, j.op, ApprovalFieldValue(j.op, j.sent))
    BY <1>3, RefuseKeeps DEF ServerLookup
  <1> QED
    BY <1>2, <1>3

(* The argv is built, or the request was malformed.                        *)
LEMMA BuildArgvKeeps ==
    ASSUME IInv, NEW p \in Procs, BuildArgv(p)
    PROVE  IInv'
  <1> DEFINE j == proc[p]
             new == [j EXCEPT !.pc = "cliGate", !.field = Argv(j.op, j.sent)]
  <1>1. j \in Process /\ JobOK(j) /\ j.pc = "argv"
    BY DEF IInv, TypeOK, BuildArgv, At
  <1>2. j.op \in DOMAIN Takes /\ j.sent \in Fields
    BY <1>1 DEF Process
  <1>3. CASE Becomes(p, new)
    <2>1. new \in Process
      BY <1>1, <1>2, FieldTypes DEF Process, Steps
    <2>2. JobOK(new)
      BY <1>1, <1>2, FieldIsComplete
      DEF JobOK, FieldFromSent, FoundIsThere, GrantedIsThere, CliSteps, Process
    <2> QED
      BY <1>3, <2>1, <2>2, BecomesKeeps
  <1> QED
    BY <1>3, RefuseKeeps DEF BuildArgv

(* The command succeeds or fails.                                          *)
LEMMA RunKeeps ==
    ASSUME IInv, NEW p \in Procs, Run(p)
    PROVE  IInv'
  <1>1. PICK ok \in BOOLEAN : Becomes(p, [proc[p] EXCEPT !.pc = "append", !.ok = ok])
    BY DEF Run
  <1> DEFINE new == [proc[p] EXCEPT !.pc = "append", !.ok = ok]
  <1>2. proc[p] \in Process /\ JobOK(proc[p]) /\ proc[p].pc = "run"
    BY DEF IInv, TypeOK, Run, At
  <1>3. new \in Process
    BY <1>2 DEF Process, Steps
  <1>4. JobOK(new)
    BY <1>2 DEF JobOK, FieldFromSent, FoundIsThere, GrantedIsThere, CliSteps, Process
  <1> QED
    BY <1>1, <1>3, <1>4, BecomesKeeps

(* The log changes; processes stay as they are or become idle.             *)
LEMMA JobsSurvive ==
    ASSUME IInv, Keeps, \A q \in Procs : proc'[q] = proc[q] \/ proc'[q] = Idle
    PROVE  \A q \in Procs : JobOK(proc[q])'
  <1> SUFFICES ASSUME NEW q \in Procs PROVE JobOK(proc[q])'
    OBVIOUS
  <1>1. CASE proc'[q] = Idle
    BY <1>1 DEF JobOK, FieldFromSent, FoundIsThere, GrantedIsThere, CliSteps, Idle
  <1>2. CASE proc'[q] = proc[q]
    <2>1. JobOK(proc[q])
      BY DEF IInv
    <2>2. proc[q].found =>
            IsDryRunOf(proc[q].ref, proc[q].op,
                       ApprovalFieldValue(proc[q].op, proc[q].sent))'
      BY <1>2, <2>1 DEF JobOK, FoundIsThere, Keeps, IsDryRunOf
    <2>3. proc[q].grant = "approval" =>
            IsDryRunOf(proc[q].ref, proc[q].op, proc[q].field)'
      BY <1>2, <2>1 DEF JobOK, GrantedIsThere, Keeps, IsDryRunOf
    <2> QED
      BY <1>2, <2>1, <2>2, <2>3
      DEF JobOK, FieldFromSent, FoundIsThere, GrantedIsThere
  <1> QED
    BY <1>1, <1>2

(* A record is appended: that of an approved action names its dry run.     *)
LEMMA AppendAuditKeeps ==
    ASSUME IInv, NEW p \in Procs, AppendAudit(p)
    PROVE  IInv'
  <1> DEFINE j == proc[p]
             n == Len(log) + 1
  <1>1. j \in Process /\ JobOK(j) /\ j.pc = "append" /\ log \in Seq(Record)
    BY DEF IInv, TypeOK, AppendAudit, At
  <1>2. Entry(p) \in Record
    BY EntryType DEF IInv
  <1>3. log' = Append(log, Entry(p)) /\ proc' = [proc EXCEPT ![p] = Idle]
        /\ session' = session
    BY DEF AppendAudit, Entry
  <1>4. /\ log' \in Seq(Record) /\ DOMAIN log = 1..Len(log) /\ DOMAIN log' = 1..n
        /\ \A i \in DOMAIN log : log'[i] = log[i]
        /\ log'[n] = Entry(p)
    BY <1>1, <1>2, <1>3
  <1>5. Keeps
    BY <1>4 DEF Keeps
  <1>6. TypeOK'
    BY <1>3, <1>4, IdleType DEF IInv, TypeOK
  <1>7. j.op \in DOMAIN Takes /\ j.field \in Fields
    BY <1>1 DEF Process
  <1>8. LogIsRedacted'
    <2>1. Entry(p).op = j.op /\ Entry(p).field = Redacted(j.op, j.field)
      BY DEF Entry
    <2>2. Takes[j.op] \in {"filled", "agreed"} => j.field # NoText
      BY <1>1 DEF JobOK, FieldFromSent, CliSteps
    <2>3. /\ Takes[Entry(p).op] \in {"filled", "agreed"} => Entry(p).field # NoText
          /\ Redacted(Entry(p).op, Entry(p).field) = Entry(p).field
      BY <1>7, <2>1, <2>2, FieldIsComplete
    <2> QED
      BY <1>4, <2>3 DEF IInv, LogIsRedacted
  <1>9. ApprovedByDryRun'
    <2> SUFFICES ASSUME NEW i \in 1..n, log'[i].grant = "approval"
                 PROVE  /\ log'[i].ref \in 1..(i - 1)
                        /\ IsDryRunOf(log[i].ref, log[i].op, log[i].field)'
      BY <1>4 DEF ApprovedByDryRun
    <2>1. CASE i \in DOMAIN log
      <3>1. /\ log[i].ref \in 1..(i - 1)
            /\ IsDryRunOf(log[i].ref, log[i].op, log[i].field)
        BY <1>4, <2>1 DEF IInv, ApprovedByDryRun
      <3> QED
        BY <1>4, <2>1, <3>1 DEF IsDryRunOf
    <2>2. CASE i = n
      <3>1. /\ log'[i].op = j.op /\ log'[i].ref = j.ref /\ j.grant = "approval"
            /\ log'[i].field = Redacted(j.op, j.field)
        BY <1>4, <2>2 DEF Entry
      <3>2. IsDryRunOf(j.ref, j.op, j.field)
        BY <1>1, <3>1 DEF JobOK, GrantedIsThere
      <3>3. Redacted(j.op, j.field) = j.field
        BY <3>2 DEF IInv, LogIsRedacted, IsDryRunOf
      <3>4. j.ref \in DOMAIN log
        BY <3>2 DEF IsDryRunOf
      <3>5. j.ref \in 1..(i - 1)
        BY <1>1, <1>4, <2>2, <3>4
      <3>6. log'[j.ref] = log[j.ref] /\ j.ref \in DOMAIN log'
        BY <1>1, <1>4, <3>4
      <3> QED
        BY <3>1, <3>2, <3>3, <3>5, <3>6 DEF IsDryRunOf
    <2> QED
      BY <1>1, <1>4, <2>1, <2>2
  <1>10. \A q \in Procs : JobOK(proc[q])'
    BY <1>3, <1>5, JobsSurvive DEF IInv, TypeOK
  <1> QED
    BY <1>6, <1>8, <1>9, <1>10 DEF IInv

(* Every step keeps the invariant.                                         *)
LEMMA StepKeeps ==
    ASSUME IInv, [Next]_vars
    PROVE  IInv'
  <1>1. ASSUME NEW p \in Procs, KillCheck(p) PROVE IInv'
    <2>1. Refuse(p) \/ (At(p, "killCheck") /\ Goto(p, "serverGate"))
      BY <1>1 DEF KillCheck
    <2> QED
      BY <2>1, RefuseKeeps, GotoKeeps DEF At, CliSteps, Steps
  <1>2. ASSUME NEW p \in Procs, ServerGate(p) PROVE IInv'
    <2>1. \/ Refuse(p)
          \/ At(p, "serverGate") /\ (Goto(p, "argv") \/ Goto(p, "serverLookup"))
      BY <1>2 DEF ServerGate
    <2> QED
      BY <2>1, RefuseKeeps, GotoKeeps DEF At, CliSteps, Steps
  <1>3. ASSUME NEW p \in Procs, CliGate(p) PROVE IInv'
    <2>1. /\ At(p, "cliGate")
          /\ \/ Pass(p, "run", "free") \/ Pass(p, "run", "session")
             \/ Goto(p, "append") \/ Goto(p, "cliLookup")
      BY <1>3 DEF CliGate
    <2> QED
      BY <2>1, PassKeeps, GotoKeeps DEF At, Steps, Grants
  <1>4. ASSUME NEW p \in Procs, CliLookup(p) PROVE IInv'
    <2>1. /\ At(p, "cliLookup")
          /\ \/ /\ Pass(p, "run", "approval")
                /\ IsDryRunOf(proc[p].ref, proc[p].op, proc[p].field)
             \/ Goto(p, "append")
      BY <1>4 DEF CliLookup, Approves
    <2> QED
      BY <2>1, PassKeeps, GotoKeeps DEF At, Steps, Grants
  <1>5. ASSUME NEW p \in Procs, Die(p) PROVE IInv'
    BY <1>5, RefuseKeeps DEF Die
  <1>6. ASSUME NEW s \in Session, SetSession(s) PROVE IInv'
    <2>1. session' = s /\ log' = log /\ proc' = proc
      BY <1>6 DEF SetSession
    <2>2. Keeps
      BY <2>1 DEF Keeps
    <2>3. \A q \in Procs : JobOK(proc[q])'
      BY <2>1, <2>2, JobsSurvive
    <2> QED
      BY <2>1, <2>3
      DEF IInv, TypeOK, LogIsRedacted, ApprovedByDryRun, IsDryRunOf
  <1>7. CASE ControlStart \/ ControlStop \/ KillSwitch
    <2>1. session \in Session
      BY DEF IInv, TypeOK
    <2>2. 0 \in 0..WarningSeconds /\ WarningSeconds \in 0..WarningSeconds
      BY WarningAssumption
    <2>3. CASE ControlStart
      <3>1. PICK m \in Modes : SetSession(
               [active |-> TRUE, mode |-> m, kill |-> FALSE,
                left |-> IF Warning(session) THEN session.left ELSE WarningSeconds])
        BY <2>3 DEF ControlStart
      <3>2. [active |-> TRUE, mode |-> m, kill |-> FALSE,
             left |-> IF Warning(session) THEN session.left ELSE WarningSeconds] \in Session
        BY <2>1, <2>2 DEF Session
      <3> QED
        BY <3>1, <3>2, <1>6
    <2>4. CASE ControlStop
      <3>1. [session EXCEPT !.active = FALSE, !.left = 0] \in Session
        BY <2>1, <2>2 DEF Session
      <3> QED
        BY <2>4, <3>1, <1>6 DEF ControlStop
    <2>5. CASE KillSwitch
      <3>1. [session EXCEPT !.active = FALSE, !.left = 0, !.kill = TRUE] \in Session
        BY <2>1, <2>2 DEF Session
      <3> QED
        BY <2>5, <3>1, <1>6 DEF KillSwitch
    <2> QED
      BY <1>7, <2>3, <2>4, <2>5
  <1>8. CASE Tick
    <2>1. /\ log' \in Seq(Record) /\ DOMAIN log' = DOMAIN log
          /\ Keeps /\ session' \in Session
      BY <1>8, TickKeeps DEF IInv
    <2>2. proc' = proc
      BY <1>8 DEF Tick
    <2>3. \A q \in Procs : JobOK(proc[q])'
      BY <2>1, <2>2, JobsSurvive
    <2>4. LogIsRedacted'
      BY <2>1 DEF IInv, LogIsRedacted, Keeps
    <2>5. ApprovedByDryRun'
      BY <2>1 DEF IInv, ApprovedByDryRun, IsDryRunOf, Keeps
    <2> QED
      BY <2>1, <2>2, <2>3, <2>4, <2>5 DEF IInv, TypeOK
  <1>9. CASE UNCHANGED vars
    <2>1. Keeps /\ proc' = proc /\ log' = log /\ session' = session
      BY <1>9 DEF vars, Keeps
    <2>2. \A q \in Procs : JobOK(proc[q])'
      BY <2>1, JobsSurvive
    <2> QED
      BY <2>1, <2>2 DEF IInv, TypeOK, LogIsRedacted, ApprovedByDryRun, IsDryRunOf
  <1> QED
    BY <1>1, <1>2, <1>3, <1>4, <1>5, <1>7, <1>8, <1>9, RequestKeeps, ServerLookupKeeps,
       BuildArgvKeeps, RunKeeps, AppendAuditKeeps DEF Next

(* The invariant holds throughout.                                         *)
THEOREM Inductive == Spec => []IInv
  <1>1. Init => IInv
    <2> SUFFICES ASSUME Init PROVE IInv
      OBVIOUS
    <2>1. TypeOK
      BY IdleType, WarningAssumption DEF Init, TypeOK, Session, DefaultSession, Modes
    <2>2. \A p \in Procs : JobOK(proc[p])
      BY IdleOK DEF Init
    <2> QED
      BY <2>1, <2>2 DEF Init, IInv, LogIsRedacted, ApprovedByDryRun
  <1>2. IInv /\ [Next]_vars => IInv'
    BY StepKeeps
  <1> QED
    BY <1>1, <1>2, PTL DEF Spec

(* Session, audit log and processes keep their types.                      *)
THEOREM TypeCorrect == Spec => []TypeOK
  <1>1. IInv => TypeOK
    BY DEF IInv
  <1> QED
    BY <1>1, Inductive, PTL

(* Whatever an approval lets through points to an earlier dry run of it.   *)
THEOREM ActionsAreApproved == Spec => []ApprovedByDryRun
  <1>1. IInv => ApprovedByDryRun
    BY DEF IInv
  <1> QED
    BY <1>1, Inductive, PTL

(* The connector's lookup and the command line's agree.                    *)
THEOREM LookupsAgree == Spec => []GatesAgree
  <1>1. IInv => GatesAgree
    <2> SUFFICES ASSUME IInv, NEW p \in Procs, At(p, "cliLookup"), proc[p].found,
                        Intact(proc[p].op, proc[p].sent)
                 PROVE  IsDryRunOf(proc[p].ref, proc[p].op, proc[p].field)
      BY DEF GatesAgree
    <2> DEFINE j == proc[p]
               sought == ApprovalFieldValue(j.op, j.sent)
    <2>1. IsDryRunOf(j.ref, j.op, sought) /\ j.field = Argv(j.op, j.sent)
      BY DEF IInv, JobOK, FoundIsThere, FieldFromSent, CliSteps, At
    <2>2. sought = j.field
      <3>1. CASE j.sent # NoText
        BY <2>1, <3>1 DEF ApprovalFieldValue, Argv, Filled, Intact
      <3>2. CASE j.sent = NoText
        <4>1. Takes[j.op] \in {"filled", "agreed"} => sought # NoText
          BY <2>1 DEF IInv, LogIsRedacted, IsDryRunOf
        <4> QED
          BY <2>1, <3>2, <4>1 DEF ApprovalFieldValue, Argv, Filled
      <3> QED
        BY <3>1, <3>2
    <2> QED
      BY <2>1, <2>2
  <1> QED
    BY <1>1, Inductive, PTL

-------------------------------------------------------------------------------
(* A rerun is not turned down.  Unlike a terminal's command line, that of a
   connector's thread always has what the argv made of what was sent.      *)
RemoteParses ==
    \A p \in Remote : proc[p].pc \in CliSteps =>
        proc[p].field = Argv(proc[p].op, proc[p].sent)

(* What most steps leave alone.                                            *)
SameField(j, k) == k.op = j.op /\ k.sent = j.sent /\ k.field = j.field

(* Every step keeps it.                                                    *)
LEMMA StepParses ==
    ASSUME TypeOK, RemoteParses, [Next]_vars
    PROVE  RemoteParses'
  <1> SUFFICES ASSUME NEW q \in Remote, proc'[q].pc \in CliSteps
               PROVE  proc'[q].field = Argv(proc'[q].op, proc'[q].sent)
    BY DEF RemoteParses
  <1>0. q \in Procs /\ q \notin Local /\ proc[q] \in Process
    BY ApprovalAssumption DEF Procs, TypeOK
  <1> DEFINE Keeping == proc[q].pc \in CliSteps /\ SameField(proc[q], proc'[q])
  <1>1. CASE Keeping
    BY <1>1 DEF RemoteParses, SameField
  <1>2. ASSUME NEW p \in Procs, NEW new, Becomes(p, new), p = q => new.pc \notin CliSteps
        PROVE  Keeping
    BY <1>0, <1>2 DEF Becomes, TypeOK, SameField
  <1>3. ASSUME NEW p \in Procs, NEW l, NEW how, proc[p].pc \in CliSteps,
               Goto(p, l) \/ Pass(p, l, how)
        PROVE  Keeping
    <2>0. proc[p] \in Process
      BY DEF TypeOK
    <2>1. CASE Goto(p, l)
      BY <1>0, <1>3, <2>0, <2>1 DEF Goto, Becomes, TypeOK, Process, SameField
    <2>2. CASE Pass(p, l, how)
      BY <1>0, <1>3, <2>0, <2>2 DEF Pass, Becomes, TypeOK, Process, SameField
    <2> QED
      BY <1>3, <2>1, <2>2
  <1>4. ASSUME NEW p \in Procs, Refuse(p) \/ Becomes(p, Idle) PROVE Keeping
    BY <1>0, <1>4 DEF Refuse, Becomes, Idle, CliSteps, TypeOK, SameField
  <1>5. ASSUME NEW p \in Procs, Request(p) PROVE Keeping
    <2>1. CASE p = q
      <3>1. PICK ref \in 0..Len(log), r \in RemoteRequests : Becomes(p, [Idle EXCEPT
                !.pc = "killCheck", !.op = r.op, !.sent = r.sent, !.dry = r.dry,
                !.ref = ref])
        BY <1>0, <1>5, <2>1 DEF Request
      <3>2. [Idle EXCEPT !.pc = "killCheck", !.op = r.op, !.sent = r.sent, !.dry = r.dry,
                         !.ref = ref].pc \notin CliSteps
        BY DEF Idle, CliSteps
      <3> QED
        BY <1>2, <3>1, <3>2
    <2>2. CASE p # q
      <3>1. \E new : Becomes(p, new)
        BY <1>5 DEF Request
      <3> QED
        BY <1>2, <2>2, <3>1
    <2> QED
      BY <2>1, <2>2
  <1>6. ASSUME NEW p \in Procs, NEW l \in {"serverGate", "argv", "serverLookup"}, Goto(p, l)
        PROVE  Keeping
    BY <1>0, <1>6 DEF Goto, Becomes, CliSteps, TypeOK, Process, SameField
  <1>7. ASSUME NEW p \in Procs, ServerLookup(p) PROVE Keeping
    <2>1. Refuse(p) \/ Becomes(p, [proc[p] EXCEPT !.pc = "argv", !.found = TRUE])
      BY <1>7 DEF ServerLookup
    <2>2. [proc[p] EXCEPT !.pc = "argv", !.found = TRUE].pc \notin CliSteps
      BY DEF CliSteps, TypeOK, Process
    <2> QED
      BY <1>2, <1>4, <2>1, <2>2
  <1>8. ASSUME NEW p \in Procs, BuildArgv(p), ~Keeping
        PROVE  proc'[q].field = Argv(proc'[q].op, proc'[q].sent)
    <2>1. Becomes(p, [proc[p] EXCEPT !.pc = "cliGate",
                                     !.field = Argv(proc[p].op, proc[p].sent)])
      BY <1>4, <1>8 DEF BuildArgv
    <2> QED
      BY <1>0, <1>8, <2>1 DEF Becomes, TypeOK, Process, SameField
  <1>9. ASSUME NEW p \in Procs, KillCheck(p) \/ ServerGate(p) PROVE Keeping
    BY <1>4, <1>6, <1>9 DEF KillCheck, ServerGate
  <1>10. ASSUME NEW p \in Procs, CliGate(p) \/ CliLookup(p) PROVE Keeping
    <2>1. proc[p].pc \in CliSteps
      BY <1>10 DEF CliGate, CliLookup, At, CliSteps
    <2> QED
      BY <1>3, <1>10, <2>1 DEF CliGate, CliLookup
  <1>11. ASSUME NEW p \in Procs, Run(p) PROVE Keeping
    BY <1>0, <1>11 DEF Run, Becomes, At, CliSteps, TypeOK, Process, SameField
  <1>12. ASSUME NEW p \in Procs, AppendAudit(p) PROVE Keeping
    BY <1>0, <1>12 DEF AppendAudit, Idle, CliSteps, TypeOK, SameField
  <1>13. ASSUME NEW p \in Procs, Die(p) PROVE Keeping
    BY <1>4, <1>13 DEF Die
  <1>14. proc' = proc => Keeping
    BY DEF SameField
  <1>15. CASE ControlStart \/ ControlStop \/ KillSwitch \/ Tick \/ UNCHANGED vars
    BY <1>1, <1>14, <1>15 DEF ControlStart, ControlStop, KillSwitch, SetSession, Tick, vars
  <1> QED
    BY <1>1, <1>5, <1>7, <1>8, <1>9, <1>10, <1>11, <1>12, <1>13, <1>15 DEF Next

(* A lookup that finds what it looks for does not turn the request down.   *)
LEMMA RerunStep ==
    ASSUME IInv, RemoteParses, [Next]_vars, NEW p \in Remote,
           Ordinary(proc[p].op, proc[p].sent),
           IsDryRunOf(proc[p].ref, proc[p].op,
                      Redacted(proc[p].op, Argv(proc[p].op, proc[p].sent))),
           Fresh(proc[p].ref)
    PROVE  ~TurnedDown(p)
  <1> SUFFICES ASSUME TurnedDown(p) PROVE FALSE
    OBVIOUS
  <1> DEFINE j == proc[p]
  <1>1. p \in Procs /\ j \in Process
    BY DEF Procs, IInv, TypeOK
  <1>2. Approves(j.ref, j.op, ApprovalFieldValue(j.op, j.sent))
    BY DEF Approves, Ordinary
  <1>3. At(p, "cliLookup") => Approves(j.ref, j.op, j.field)
    BY DEF Approves, Ordinary, RemoteParses, At, CliSteps
  <1>4. proc'[p] # proc[p] /\ proc'[p] # Idle /\ (At(p, "serverLookup") \/ At(p, "cliLookup"))
    BY DEF TurnedDown, At, Idle
  <1>5. ASSUME NEW q \in Procs, NEW new, Becomes(q, new) PROVE q = p
    BY <1>1, <1>4, <1>5 DEF Becomes, IInv, TypeOK
  <1>6. ASSUME NEW q \in Procs, ServerLookup(q) PROVE FALSE
    <2>1. q = p
      BY <1>5, <1>6 DEF ServerLookup, Refuse
    <2>2. /\ At(p, "serverLookup")
          /\ Becomes(p, [j EXCEPT !.pc = "argv", !.found = TRUE])
      BY <1>2, <1>6, <2>1 DEF ServerLookup
    <2>3. proc'[p].pc = "argv"
      BY <1>1, <2>2 DEF Becomes, IInv, TypeOK, Process
    <2> QED
      BY <2>2, <2>3 DEF TurnedDown, At
  <1>7. ASSUME NEW q \in Procs, CliLookup(q) PROVE FALSE
    <2>1. q = p
      BY <1>5, <1>7 DEF CliLookup, Pass, Goto
    <2>2. At(p, "cliLookup") /\ Pass(p, "run", "approval")
      BY <1>3, <1>7, <2>1 DEF CliLookup
    <2>3. proc'[p].pc = "run"
      BY <1>1, <2>2 DEF Pass, Becomes, IInv, TypeOK, Process
    <2> QED
      BY <2>2, <2>3 DEF TurnedDown, At
  <1>8. ASSUME NEW q \in Procs,
               KillCheck(q) \/ ServerGate(q) \/ BuildArgv(q) \/ CliGate(q) \/ Run(q)
        PROVE  FALSE
    <2>1. q = p
      BY <1>5, <1>8
      DEF KillCheck, ServerGate, BuildArgv, CliGate, Run, Refuse, Pass, Goto
    <2> QED
      BY <1>4, <1>8, <2>1 DEF KillCheck, ServerGate, BuildArgv, CliGate, Run, At
  <1>9. ASSUME NEW q \in Procs, Request(q) PROVE FALSE
    <2>1. q = p
      BY <1>5, <1>9 DEF Request
    <2> QED
      BY <1>4, <1>9, <2>1 DEF Request, At
  <1>10. ASSUME NEW q \in Procs, AppendAudit(q) \/ Die(q) PROVE FALSE
    BY <1>1, <1>4, <1>10 DEF AppendAudit, Die, Becomes, IInv, TypeOK
  <1>11. CASE ControlStart \/ ControlStop \/ KillSwitch \/ Tick \/ UNCHANGED vars
    BY <1>4, <1>11 DEF ControlStart, ControlStop, KillSwitch, SetSession, Tick, vars
  <1> QED
    BY <1>6, <1>7, <1>8, <1>9, <1>10, <1>11 DEF Next

(* The exact same command, with the audit id of its dry run, within the time,
   is not turned down, if argv and redaction leave its field alone.        *)
THEOREM RerunsAreAccepted == Spec => RerunIsAccepted
  <1>1. Init => RemoteParses
    BY DEF Init, RemoteParses, CliSteps, Idle, Procs
  <1>2. TypeOK /\ RemoteParses /\ [Next]_vars => RemoteParses'
    BY StepParses
  <1>3. IInv /\ RemoteParses /\ [Next]_vars =>
        [\A p \in Remote :
           LET j == proc[p] IN
           /\ Ordinary(j.op, j.sent)
           /\ IsDryRunOf(j.ref, j.op, Redacted(j.op, Argv(j.op, j.sent)))
           /\ Fresh(j.ref)
           => ~TurnedDown(p)]_vars
    BY RerunStep
  <1>4. IInv => TypeOK
    BY DEF IInv
  <1> QED
    BY <1>1, <1>2, <1>3, <1>4, Inductive, PTL DEF Spec, RerunIsAccepted
===============================================================================
