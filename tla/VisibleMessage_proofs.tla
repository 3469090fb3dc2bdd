------------------------ MODULE VisibleMessage_proofs ------------------------
(***************************************************************************)
(* Proofs about VisibleMessage, for any threads, titles, wait and number   *)
(* of changes.                                                             *)
(*                                                                         *)
(* The inductive invariant IInv says of every program what the ones before *)
(* it have found out, and that it still holds unless `stale' says that the *)
(* screen has changed since.                                               *)
(***************************************************************************)
EXTENDS VisibleMessage, TLAPS, FiniteSetTheorems

Messaging == cmd.kind \in {"send", "continue"} /\ ~cmd.dry

(* The programs that come before, between and after the keystrokes.        *)
Aimed   == {"front2", "tree2", "look1", "capture1", "clickField", "type", "return"}
Polling == {"peek", "observe", "look3", "capture3", "judge"}
After   == {"look2", "capture2"} \cup Polling

Running == cmd.result = "none"

(* Which commands get where.                                               *)
Whose ==
    Running =>
      /\ cmd.at \in Aimed \cup Polling \cup {"verify"} => Messaging
      /\ cmd.at \in {"look2", "capture2"} => Messaging \/ cmd.kind = "snapshot"
      /\ cmd.at = "focus" => ~cmd.dry
      /\ cmd.at = "clickRow" => ~cmd.dry /\ cmd.kind # "focus"
      /\ cmd.at \in {"list", "focus", "clickRow", "verify"} /\ cmd.kind # "focus" => cmd.id # Current
      /\ cmd.at \in {"list", "front1", "tree1"} => cmd.kind \in {"select", "send", "continue"}
      /\ cmd.at \in {"match", "find", "front1", "tree1"} => cmd.kind \in {"send", "continue"}
      /\ cmd.kind = "snapshot" => cmd.at \in {"look2", "capture2"}
      /\ cmd.kind = "focus" => cmd.at = "focus"

FrontKnown ==
    Running /\ cmd.at \in {"clickRow", "tree2", "look1", "capture1", "clickField", "type", "return"}
      => screen.front = "Codex" \/ "front" \in cmd.stale

ShotKnown == Running /\ cmd.shot => screen.front = "Codex" \/ "shot" \in cmd.stale

RowKnown ==
    Running /\ (cmd.at = "clickRow" \/ (cmd.at = "focus" /\ cmd.kind # "focus")) =>
      /\ cmd.slot \in 1..Cardinality(Threads)
      /\ HasId(screen.rows[cmd.slot], cmd.id) \/ "rows" \in cmd.stale

(* The title is that of the visible id, and a title to send to is shown.   *)
TitleKnown ==
    Running /\ cmd.id # Current =>
      /\ cmd.at \in Aimed \cup {"front1", "tree1", "list", "focus", "clickRow", "verify"}
           /\ cmd.kind \in {"send", "continue"}
           => cmd.id[2] = cmd.title /\ (~cmd.dry => cmd.title # Hidden)

(* The click opens the thread, or it meets another row or app; then only
   the check of the selection can know the thread.                         *)
ThreadKnown ==
    Running /\ cmd.at \in Aimed \cup {"verify"} =>
      \/ cmd.id = Current \/ Title[screen.open] = cmd.title
      \/ cmd.stale \cap {"thread", "click"} # {}

FieldKnown ==
    /\ Running /\ cmd.at \in {"look1", "capture1", "clickField"} =>
         cmd.field \in screen.fields \/ "field" \in cmd.stale
    /\ Running /\ cmd.at \in {"type", "return"} =>
         screen.focus = cmd.field \/ cmd.stale \cap {"front", "field"} # {}

SentKnown ==
    Running =>
      /\ cmd.at \in After /\ cmd.kind # "snapshot" => cmd.text # None /\ cmd.sent # None
      /\ cmd.at = "return" => cmd.text # None
      /\ cmd.at \notin After => cmd.sent = None
      /\ cmd.at \notin After \cup {"return"} => cmd.text = None
      /\ cmd.kind = "snapshot" => cmd.text = None /\ cmd.sent = None

PollKnown ==
    LET n == Len(cmd.seen) IN
    Running =>
      /\ cmd.verdict = "none"
      /\ cmd.streak <= n
      /\ \A i \in 1..n : i > n - cmd.streak => cmd.seen[i] = "idle"
      /\ cmd.at \in {"peek", "observe"} => n <= Wait
      /\ cmd.at \in {"look3", "capture3", "judge"} => n >= 1 /\ n <= Wait + 1
      /\ cmd.at \notin Polling => n = 0

IInv ==
    /\ TypeOK
    /\ Whose
    /\ FrontKnown /\ ShotKnown /\ RowKnown /\ TitleKnown /\ ThreadKnown /\ FieldKnown
    /\ SentKnown /\ PollKnown
    /\ ReportTellsSent /\ VerdictIsEarned

-------------------------------------------------------------------------------
(* What comes after each program.                                          *)
LEMMA Thens ==
    ASSUME NEW c \in Command, c.at # "end"
    PROVE  /\ Then(c) \in Programs
           /\ Then(c) = "end" <=> Last(c)
           /\ c.at = "match" => Then(c) = "find"
           /\ c.at = "find" => Then(c) = "front1"
           /\ c.at = "front1" => Then(c) = "tree1"
           /\ c.at = "tree1" /\ ~c.dry => Then(c) = IF c.id = Current THEN "front2" ELSE "list"
           /\ c.at = "list" /\ ~c.dry => Then(c) = "focus"
           /\ c.at = "focus" /\ c.kind # "focus" => Then(c) = "clickRow"
           /\ c.at = "clickRow" /\ c.kind # "select" => Then(c) = "verify"
           /\ c.at = "verify" => Then(c) = "front2"
           /\ c.at = "front2" => Then(c) = "tree2"
           /\ c.at = "tree2" => Then(c) = "look1"
           /\ c.at = "look1" => Then(c) = "capture1"
           /\ c.at = "capture1" => Then(c) = "clickField"
           /\ c.at = "clickField" => Then(c) = "type"
           /\ c.at = "type" => Then(c) = "return"
           /\ c.at = "return" => Then(c) = "look2"
           /\ c.at = "look2" => Then(c) = "capture2"
           /\ c.at = "capture2" /\ c.kind = "send" /\ Wait # 0 => Then(c) = "peek"
           /\ c.at = "peek" => Then(c) = "observe"
           /\ c.at = "observe" => Then(c) = "look3"
           /\ c.at = "look3" => Then(c) = "capture3"
           /\ c.at = "capture3" => Then(c) = "judge"
           /\ c.at = "judge" => Then(c) = "peek"
<1>1. c.at \in Programs
  BY DEF Command
<1> QED BY <1>1 DEF Then, Last, Following, Programs

LEMMA Sizes == Cardinality(Threads) \in Nat
  BY VisibleAssumption, FS_CardinalityType

-------------------------------------------------------------------------------
(* A step, and what it leaves alone.  (SMT finds its way with an EXCEPT    *)
(* only where the rest of the state is not in sight.)                      *)
Same(c) ==
    /\ cmd'.kind = c.kind /\ cmd'.id = c.id /\ cmd'.dry = c.dry /\ cmd'.title = c.title
    /\ cmd'.slot = c.slot /\ cmd'.field = c.field /\ cmd'.stale = c.stale /\ cmd'.shot = c.shot
    /\ cmd'.text = c.text /\ cmd'.sent = c.sent /\ cmd'.pictures = c.pictures
    /\ cmd'.seen = c.seen /\ cmd'.streak = c.streak

(* What most steps leave alone.                                            *)
Alike(c, d) ==
    /\ c.kind = d.kind /\ c.id = d.id /\ c.dry = d.dry /\ c.text = d.text /\ c.sent = d.sent
    /\ c.streak = d.streak /\ c.verdict = d.verdict

LEMMA Goes ==
    ASSUME NEW c \in Command, c.at # "end", c.result = "none", Go(c)
    PROVE  /\ cmd' \in Command
           /\ cmd'.at = Then(c) /\ cmd'.result = (IF Last(c) THEN "ok" ELSE "none")
           /\ Same(c) /\ cmd'.verdict = c.verdict
<1> DEFINE r == IF Last(c) THEN "ok" ELSE c.result
           p == Then(c)
<1>1. p \in Programs /\ r \in Results
  BY Thens DEF Results
<1>2. cmd' = [c EXCEPT !.at = p, !.result = r]
  BY DEF Go
<1> HIDE DEF p, r
<1>3. cmd' \in Command /\ cmd'.at = p /\ cmd'.result = r /\ Same(c) /\ cmd'.verdict = c.verdict
  BY <1>1, <1>2 DEF Command, Same
<1> QED BY <1>3 DEF p, r

Closes(c, v, r) == cmd' = [c EXCEPT !.verdict = v, !.result = r]

LEMMA Ends ==
    ASSUME NEW c \in Command, NEW v \in Observed \cup {"none", "timeout"}, NEW r \in {"ok", "failed", "submitFailed"},
           Closes(c, v, r)
    PROVE  /\ cmd' \in Command /\ cmd'.at = c.at /\ cmd'.result = r
           /\ Same(c) /\ cmd'.verdict = v
  BY DEF Closes, Command, Results, Same

Found(d, i, l) == d = Fresh([cmd EXCEPT !.slot = i, !.title = l], {"rows"})
Noted(c, sn, sk) == c = [cmd EXCEPT !.seen = sn, !.streak = sk]

LEMMA Finds ==
    ASSUME cmd \in Command, NEW i \in 0..Cardinality(Threads), NEW l \in Titles \cup {Hidden}, NEW d,
           Found(d, i, l)
    PROVE  /\ d \in Command /\ d.at = cmd.at /\ d.result = cmd.result /\ Alike(d, cmd) /\ d.slot = i
           /\ d.title = l /\ d.stale = cmd.stale \ {"rows"} /\ d.shot = cmd.shot /\ d.seen = cmd.seen
<1> DEFINE e == [cmd EXCEPT !.slot = i, !.title = l]
<1>1. /\ e \in Command /\ e.at = cmd.at /\ e.result = cmd.result /\ Alike(e, cmd) /\ e.slot = i
      /\ e.title = l /\ e.stale = cmd.stale /\ e.shot = cmd.shot /\ e.seen = cmd.seen
  <2>1. e \in Command
    BY DEF Command
  <2> QED BY <2>1 DEF Command, Alike
<1> HIDE DEF e
<1>2. d = [e EXCEPT !.stale = cmd.stale \ {"rows"}]
  BY <1>1 DEF e, Found, Fresh
<1> QED BY <1>1, <1>2 DEF Command, Alike

LEMMA Notes ==
    ASSUME cmd \in Command, NEW sn \in Seq(Observed), NEW sk \in Nat, NEW c,
           Noted(c, sn, sk)
    PROVE  /\ c \in Command /\ c.at = cmd.at /\ c.result = cmd.result /\ c.kind = cmd.kind /\ c.dry = cmd.dry
           /\ c.seen = sn /\ c.streak = sk /\ c.shot = cmd.shot /\ c.stale = cmd.stale /\ c.id = cmd.id
           /\ c.verdict = cmd.verdict /\ c.text = cmd.text /\ c.sent = cmd.sent
  BY DEF Noted, Command

LEMMA Fails ==
    ASSUME cmd \in Command, NEW r \in {"failed", "submitFailed"}, Fail(r)
    PROVE  cmd' \in Command /\ cmd'.at = cmd.at /\ cmd'.result = r /\ Same(cmd) /\ cmd'.verdict = cmd.verdict
  BY DEF Fail, Command, Results, Same

-------------------------------------------------------------------------------
(* The steps of a command.                                                 *)

(* Nothing is asked of a command that has failed, except that it says so.   *)
LEMMA FailKeeps ==
    ASSUME IInv, Running, NEW r \in {"failed", "submitFailed"}, Fail(r),
           cmd.text # None => r = "submitFailed", screen' \in Screen, moves' = moves
    PROVE  IInv'
<1>1. cmd' \in Command /\ cmd'.at = cmd.at /\ cmd'.result = r /\ Same(cmd) /\ cmd'.verdict = cmd.verdict
  BY Fails DEF IInv, TypeOK
<1>2. cmd.verdict = "none" /\ (cmd.sent # None => cmd.text # None)
  BY DEF IInv, PollKnown, SentKnown, Whose, Running, Programs, TypeOK, Command
<1> QED BY <1>1, <1>2 DEF IInv, TypeOK, Whose, FrontKnown, ShotKnown, RowKnown, TitleKnown, ThreadKnown,
         FieldKnown, SentKnown, PollKnown, ReportTellsSent, VerdictIsEarned, Same, Running

USE DEF IInv, TypeOK, Whose, FrontKnown, ShotKnown, RowKnown, TitleKnown, ThreadKnown,
        FieldKnown, SentKnown, PollKnown, ReportTellsSent, VerdictIsEarned, Same, Running,
        Messaging, Aimed, Polling, After, HasId, Label

(* The row that is found has the title.                                    *)
LEMMA MatchTitleKeeps ==
    ASSUME IInv, MatchTitle PROVE IInv'
<1>1. Running /\ cmd.at \in {"match"}
  BY DEF MatchTitle, At
<1>2. screen' = screen /\ moves' = moves
  BY DEF MatchTitle
<1>3. ASSUME NEW t \in Threads, NEW id \in VisibleIds, Label(t) = cmd.title, HasId(t, id),
             Go([cmd EXCEPT !.id = id])
      PROVE  IInv'
  <2> DEFINE c == [cmd EXCEPT !.id = id]
  <2>1. c \in Command /\ c.at = cmd.at /\ c.result = "none"
    BY <1>1, <1>3 DEF Fresh, Command
  <2>2. Go(c)
    BY <1>3
  <2> HIDE DEF c
  <2>3. ~Last(c) => Then(c) = "find"
    BY <1>1, <2>1, Thens DEF Last
  <2>4. cmd' \in Command /\ cmd'.at = Then(c) /\ cmd'.result = (IF Last(c) THEN "ok" ELSE "none")
        /\ Same(c) /\ cmd'.verdict = c.verdict
    BY <1>1, <2>1, <2>2, Goes
  <2> QED BY <1>1, <1>2, <1>3, <2>1, <2>3, <2>4, NoneAssumption DEF c, Last, Fresh, Command
<1>4. ASSUME Fail("failed") PROVE IInv'
  BY <1>1, <1>2, <1>4, FailKeeps
<1> QED BY <1>3, <1>4 DEF MatchTitle

(* Its title is kept, and is shown if the message is a live one.           *)
LEMMA FindTargetKeeps ==
    ASSUME IInv, FindTarget PROVE IInv'
<1>1. Running /\ cmd.at \in {"find"}
  BY DEF FindTarget, At
<1>2. screen' = screen /\ moves' = moves
  BY DEF FindTarget
<1>3. ASSUME NEW t \in Threads, HasId(t, cmd.id), SafeTarget(t), Go([cmd EXCEPT !.title = Label(t)])
      PROVE  IInv'
  <2> DEFINE c == [cmd EXCEPT !.title = Label(t)]
  <2>0. Label(t) \in Titles \cup {Hidden}
    BY VisibleAssumption
  <2>1. c \in Command /\ c.at = cmd.at /\ c.result = "none"
    BY <2>0, <1>1, <1>3 DEF Fresh, Command
  <2>2. Go(c)
    BY <1>3
  <2> HIDE DEF c
  <2>3. ~Last(c) => Then(c) = "front1"
    BY <1>1, <2>1, Thens DEF Last
  <2>4. cmd' \in Command /\ cmd'.at = Then(c) /\ cmd'.result = (IF Last(c) THEN "ok" ELSE "none")
        /\ Same(c) /\ cmd'.verdict = c.verdict
    BY <1>1, <2>1, <2>2, Goes
  <2> QED BY <2>0, <1>1, <1>2, <1>3, <2>1, <2>3, <2>4, NoneAssumption DEF c, Last, Fresh, Command, SafeTarget
<1>4. ASSUME Fail("failed") PROVE IInv'
  BY <1>1, <1>2, <1>4, FailKeeps
<1> QED BY <1>3, <1>4 DEF FindTarget

(* The row is where it was found.                                          *)
LEMMA FindRowKeeps ==
    ASSUME IInv, FindRow PROVE IInv'
<1>1. Running /\ cmd.at \in {"list"}
  BY DEF FindRow, At
<1>2. screen' = screen /\ moves' = moves
  BY DEF FindRow
<1>3. ASSUME NEW t \in Threads, NEW i \in DOMAIN screen.rows, HasId(t, cmd.id), screen.rows[i] = t,
             Go(Fresh([cmd EXCEPT !.slot = i, !.title = Label(t)], {"rows"}))
      PROVE  IInv'
  <2> DEFINE c == Fresh([cmd EXCEPT !.slot = i, !.title = Label(t)], {"rows"})
  <2>0. i \in 0..Cardinality(Threads) /\ i \in 1..Cardinality(Threads) /\ Label(t) \in Titles \cup {Hidden}
    BY <1>3, Sizes, VisibleAssumption DEF Screen, Orders
  <2>1. c \in Command /\ c.at = cmd.at /\ c.result = "none"
        /\ Alike(c, cmd) /\ c.slot = i /\ c.title = Label(t) /\ c.stale = cmd.stale \ {"rows"}
        /\ c.shot = cmd.shot /\ c.seen = cmd.seen
    <3>1. cmd \in Command /\ cmd.result = "none" /\ i \in 0..Cardinality(Threads) /\ Found(c, i, Label(t))
      BY <2>0, <1>1 DEF Found
    <3> HIDE DEF c, IInv, Label, HasId
    <3>2. Label(t) \in Titles \cup {Hidden}
      BY <2>0
    <3> QED BY <3>1, <3>2, Finds
  <2>2. Go(c)
    BY <1>3
  <2> HIDE DEF c
  <2>3. ~Last(c) => Then(c) = "focus"
    BY <1>1, <2>1, Thens DEF Last, Alike
  <2>4. cmd' \in Command /\ cmd'.at = Then(c) /\ cmd'.result = (IF Last(c) THEN "ok" ELSE "none")
        /\ Same(c) /\ cmd'.verdict = c.verdict
    BY <1>1, <2>1, <2>2, Goes
  <2> QED BY <2>0, <1>1, <1>2, <1>3, <2>1, <2>3, <2>4, NoneAssumption DEF Last, Alike
<1>4. ASSUME Fail("failed") PROVE IInv'
  BY <1>1, <1>2, <1>4, FailKeeps
<1> QED BY <1>3, <1>4 DEF FindRow

(* The thread that is open is the one with the title; or its row has the
   keyboard only, and what is known of the thread is what the click left.  *)
LEMMA VerifyKeeps ==
    ASSUME IInv, Verify PROVE IInv'
<1>1. Running /\ cmd.at \in {"verify"}
  BY DEF Verify, At
<1>2. screen' = screen /\ moves' = moves
  BY DEF Verify
<1>3. ASSUME NEW t \in Threads, HasId(t, cmd.id), ShownSelected(t), Go(Fresh(cmd, Learnt(t)))
      PROVE  IInv'
  <2> DEFINE c == Fresh(cmd, Learnt(t))
  <2>1. /\ c \in Command /\ c.at = cmd.at /\ c.result = "none" /\ Alike(c, cmd)
        /\ c.title = cmd.title /\ c.field = cmd.field /\ c.shot = cmd.shot /\ c.seen = cmd.seen
        /\ c.stale = cmd.stale \ Learnt(t)
    BY <1>1, <1>3 DEF Fresh, Command, Alike
  <2>2. Go(c)
    BY <1>3
  <2> HIDE DEF c
  <2>3. ~Last(c) /\ Then(c) = "front2"
    BY <1>1, <2>1, Thens DEF Last, Alike
  <2>4. cmd' \in Command /\ cmd'.at = "front2" /\ cmd'.result = "none" /\ Same(c) /\ cmd'.verdict = c.verdict
    BY <1>1, <2>1, <2>2, <2>3, Goes
  <2>5. screen.open = t => Title[screen.open] = cmd.title
    BY <1>1, <1>3 DEF Command
  <2>6. ThreadKnown'
    <3>1. CASE screen.open = t
      BY <1>2, <2>1, <2>4, <2>5, <3>1
    <3>2. CASE screen.open # t
      <4>1. Learnt(t) = {}
        BY <1>3, <3>2 DEF ShownSelected, Learnt
      <4> QED BY <1>1, <1>2, <2>1, <2>4, <4>1 DEF Alike
    <3> QED BY <3>1, <3>2
  <2>7. TypeOK' /\ Whose' /\ TitleKnown' /\ SentKnown' /\ PollKnown'
    BY <1>1, <1>2, <2>1, <2>4 DEF Alike
  <2>8. FrontKnown' /\ ShotKnown' /\ RowKnown' /\ FieldKnown' /\ ReportTellsSent' /\ VerdictIsEarned'
    BY <1>1, <1>2, <2>1, <2>4 DEF Alike, Learnt
  <2> QED BY <2>6, <2>7, <2>8
<1>4. ASSUME Fail("failed") PROVE IInv'
  BY <1>1, <1>2, <1>4, FailKeeps
<1> QED BY <1>3, <1>4 DEF Verify

(* Codex is in front.                                                      *)
LEMMA CheckFrontKeeps ==
    ASSUME IInv, CheckFront PROVE IInv'
<1>1. Running /\ cmd.at \in {"front1", "front2"}
  BY DEF CheckFront, At
<1>2. screen' = screen /\ moves' = moves
  BY DEF CheckFront
<1>3. ASSUME CodexSeen, Go(Fresh(cmd, {"front"}))
      PROVE  IInv'
  <2> DEFINE c == Fresh(cmd, {"front"})
  <2>1. c \in Command /\ c.at = cmd.at /\ c.result = "none"
    BY <1>1, <1>3 DEF Fresh, Command
  <2>2. Go(c)
    BY <1>3
  <2> HIDE DEF c
  <2>3. ~Last(c) => Then(c) = IF cmd.at = "front1" THEN "tree1" ELSE "tree2"
    BY <1>1, <2>1, Thens DEF Last
  <2>4. cmd' \in Command /\ cmd'.at = Then(c) /\ cmd'.result = (IF Last(c) THEN "ok" ELSE "none")
        /\ Same(c) /\ cmd'.verdict = c.verdict
    BY <1>1, <2>1, <2>2, Goes
  <2> QED BY <1>1, <1>2, <1>3, <2>1, <2>3, <2>4, NoneAssumption DEF c, Last, Fresh, Command, CodexSeen
<1>4. ASSUME Fail("failed") PROVE IInv'
  BY <1>1, <1>2, <1>4, FailKeeps
<1> QED BY <1>3, <1>4 DEF CheckFront

(* The field is in the tree.                                               *)
LEMMA CheckTreeKeeps ==
    ASSUME IInv, CheckTree PROVE IInv'
<1>1. Running /\ cmd.at \in {"tree1", "tree2"}
  BY DEF CheckTree, At
<1>2. screen' = screen /\ moves' = moves
  BY DEF CheckTree
<1>3. ASSUME NEW f \in screen.fields, Go(Fresh([cmd EXCEPT !.field = f], {"field"}))
      PROVE  IInv'
  <2> DEFINE c == Fresh([cmd EXCEPT !.field = f], {"field"})
  <2>0. f \in Fields
    BY <1>3 DEF Screen
  <2>1. c \in Command /\ c.at = cmd.at /\ c.result = "none"
        /\ Alike(c, cmd) /\ c.field = f /\ c.stale = cmd.stale \ {"field"}
        /\ c.slot = cmd.slot /\ c.title = cmd.title /\ c.shot = cmd.shot /\ c.seen = cmd.seen
    BY <2>0, <1>1, <1>3 DEF Fresh, Command, Alike
  <2>2. Go(c)
    BY <1>3
  <2> HIDE DEF c
  <2>3. ~Last(c) => \/ cmd.at = "tree2" /\ Then(c) = "look1"
                    \/ cmd.at = "tree1" /\ Then(c) = IF cmd.id = Current THEN "front2" ELSE "list"
    BY <1>1, <2>1, Thens DEF Last, Alike
  <2>4. cmd' \in Command /\ cmd'.at = Then(c) /\ cmd'.result = (IF Last(c) THEN "ok" ELSE "none")
        /\ Same(c) /\ cmd'.verdict = c.verdict
    BY <1>1, <2>1, <2>2, Goes
  <2> QED BY <2>0, <1>1, <1>2, <1>3, <2>1, <2>3, <2>4, NoneAssumption DEF Last, Alike
<1>4. ASSUME Fail("failed") PROVE IInv'
  BY <1>1, <1>2, <1>4, FailKeeps
<1> QED BY <1>3, <1>4 DEF CheckTree

(* A look at Codex is a look at what is in front.                          *)
LEMMA LookKeeps ==
    ASSUME IInv, Look PROVE IInv'
<1>1. Running /\ cmd.at \in {"look1", "look2", "look3"}
  BY DEF Look, At
<1>2. screen' = screen /\ moves' = moves
  BY DEF Look
<1>3. ASSUME Go(Fresh([cmd EXCEPT !.shot = CodexSeen], {"shot"}))
      PROVE  IInv'
  <2> DEFINE c == Fresh([cmd EXCEPT !.shot = CodexSeen], {"shot"})
  <2>0. CodexSeen \in BOOLEAN
    BY DEF CodexSeen
  <2>1. c \in Command /\ c.at = cmd.at /\ c.result = "none"
    BY <2>0, <1>1, <1>3 DEF Fresh, Command
  <2>2. Go(c)
    BY <1>3
  <2> HIDE DEF c
  <2>3. ~Last(c) => \/ cmd.at = "look1" /\ Then(c) = "capture1"
                    \/ cmd.at = "look2" /\ Then(c) = "capture2"
                    \/ cmd.at = "look3" /\ Then(c) = "capture3"
    BY <1>1, <2>1, Thens DEF Last
  <2>4. cmd' \in Command /\ cmd'.at = Then(c) /\ cmd'.result = (IF Last(c) THEN "ok" ELSE "none")
        /\ Same(c) /\ cmd'.verdict = c.verdict
    BY <1>1, <2>1, <2>2, Goes
  <2> QED BY <2>0, <1>1, <1>2, <1>3, <2>1, <2>3, <2>4, NoneAssumption DEF c, Last, Fresh, Command, CodexSeen
<1> QED BY <1>3 DEF Look

(* A picture or none.                                                      *)
LEMMA CaptureKeeps ==
    ASSUME IInv, Capture PROVE IInv'
<1>1. Running /\ cmd.at \in {"capture1", "capture2", "capture3"}
  BY DEF Capture, At
<1>2. screen' = screen /\ moves' = moves
  BY DEF Capture
<1>3. ASSUME NEW p \in SUBSET Apps, Go([cmd EXCEPT !.pictures = p])
      PROVE  IInv'
  <2> DEFINE c == [cmd EXCEPT !.pictures = p]
  <2>1. c \in Command /\ c.at = cmd.at /\ c.result = "none" /\ Alike(c, cmd) /\ c.title = cmd.title
        /\ c.field = cmd.field /\ c.stale = cmd.stale /\ c.shot = cmd.shot /\ c.seen = cmd.seen
    BY <1>1 DEF Command, Alike
  <2>2. Go(c)
    BY <1>3
  <2> HIDE DEF c
  <2>3. ~Last(c) => \/ cmd.at = "capture1" /\ Then(c) = "clickField"
                    \/ cmd.at = "capture2" /\ Then(c) = "peek" /\ Wait # 0 /\ cmd.kind = "send"
                    \/ cmd.at = "capture3" /\ Then(c) = "judge"
    BY <1>1, <2>1, Thens DEF Last, Alike
  <2>4. cmd' \in Command /\ cmd'.at = Then(c) /\ cmd'.result = (IF Last(c) THEN "ok" ELSE "none")
        /\ Same(c) /\ cmd'.verdict = c.verdict
    BY <1>1, <2>1, <2>2, Goes
  <2> QED BY <1>1, <1>2, <2>1, <2>3, <2>4, VisibleAssumption DEF Last, Alike
<1>4. cmd = [cmd EXCEPT !.pictures = cmd.pictures] /\ cmd.pictures \in SUBSET Apps
      /\ cmd.pictures \cup {screen.front} \in SUBSET Apps
  BY DEF Command, Screen
<1> QED BY <1>3, <1>4 DEF Capture

(* Programs that change the screen.                                         *)
LEMMA FocusKeeps ==
    ASSUME IInv, Focus PROVE IInv'
<1>1. Running /\ cmd.at = "focus" /\ moves' = moves
  BY DEF Focus, At
<1>2. /\ screen' \in Screen /\ screen'.rows = screen.rows /\ screen'.titled = screen.titled
      /\ screen'.fields = screen.fields
  BY DEF Focus, Screen, Apps
<1>3. ASSUME screen' = [screen EXCEPT !.front = "Codex"], Go(Fresh(cmd, {"front"}))
      PROVE  IInv'
  <2> DEFINE c == Fresh(cmd, {"front"})
  <2>1. c \in Command /\ c.at = cmd.at /\ c.result = "none" /\ Alike(c, cmd) /\ c.slot = cmd.slot
        /\ c.title = cmd.title /\ c.stale = cmd.stale \ {"front"} /\ c.seen = cmd.seen
    BY <1>1 DEF Fresh, Command, Alike
  <2>2. Go(c)
    BY <1>3
  <2> HIDE DEF c
  <2>3. ~Last(c) => Then(c) = "clickRow" /\ cmd.kind # "focus"
    BY <1>1, <2>1, Thens DEF Last, Alike
  <2>4. cmd' \in Command /\ cmd'.at = Then(c) /\ cmd'.result = (IF Last(c) THEN "ok" ELSE "none")
        /\ Same(c) /\ cmd'.verdict = c.verdict
    BY <1>1, <2>1, <2>2, Goes
  <2>5. screen'.front = "Codex"
    BY <1>3 DEF Screen
  <2>6. RowKnown'
    BY <1>1, <1>2, <2>1, <2>3, <2>4 DEF Alike
  <2>7. TypeOK' /\ Whose' /\ TitleKnown' /\ SentKnown' /\ PollKnown'
    BY <1>1, <1>2, <2>1, <2>3, <2>4 DEF Last, Alike
  <2>8. FrontKnown' /\ ShotKnown' /\ ThreadKnown' /\ FieldKnown' /\ ReportTellsSent' /\ VerdictIsEarned'
    BY <1>1, <1>2, <2>1, <2>3, <2>4, <2>5 DEF Last, Alike
  <2> QED BY <2>6, <2>7, <2>8
<1>4. ASSUME Fail("failed") PROVE IInv'
  BY <1>1, <1>2, <1>4, FailKeeps
<1> QED BY <1>3, <1>4 DEF Focus

(* Only what is stale may change by the click on a row.                    *)
LEMMA Meets ==
    ASSUME cmd \in Command, NEW row
    PROVE  /\ Met(row) \in Command /\ Met(row).at = cmd.at /\ Met(row).result = cmd.result
           /\ Alike(Met(row), cmd) /\ Met(row).title = cmd.title /\ Met(row).field = cmd.field
           /\ Met(row).shot = cmd.shot /\ Met(row).seen = cmd.seen
           /\ Met(row).stale = IF screen.front = "Codex" /\ HasId(row, cmd.id)
                                THEN cmd.stale \ {"thread"} ELSE cmd.stale \cup {"click"}
<1> DEFINE new == IF screen.front = "Codex" /\ HasId(row, cmd.id)
                  THEN cmd.stale \ {"thread"} ELSE cmd.stale \cup {"click"}
<1>1. new \in SUBSET Facts
  BY DEF Command, Facts
<1>2. Met(row) = [cmd EXCEPT !.stale = new]
  BY DEF Met, Fresh, Command
<1> HIDE DEF new
<1>3. /\ Met(row) \in Command /\ Met(row).at = cmd.at /\ Met(row).result = cmd.result
      /\ Alike(Met(row), cmd) /\ Met(row).title = cmd.title /\ Met(row).field = cmd.field
      /\ Met(row).shot = cmd.shot /\ Met(row).seen = cmd.seen /\ Met(row).stale = new
  BY <1>1, <1>2 DEF Command, Alike
<1> QED BY <1>3 DEF new

LEMMA ClickRowKeeps ==
    ASSUME IInv, ClickRow PROVE IInv'
<1> DEFINE row == screen.rows[cmd.slot]
           Effect(f) == Clicked([screen EXCEPT !.open = row, !.focus = f])
           c == Met(row)
<1>1. Running /\ cmd.at = "clickRow" /\ ~cmd.dry
  BY DEF ClickRow, At
<1>2. PICK f \in {row, "elsewhere"} : Acts(Effect(f), c, "failed")
  BY DEF ClickRow
<1> DEFINE effect == Effect(f)
<1>3. moves' = moves
  BY <1>2 DEF Acts
<1>4. row \in Threads /\ f \in Places
  BY <1>1, <1>2, Sizes DEF Screen, Orders, Places, Focusable
<1>5. /\ effect \in Screen /\ effect.front = screen.front
      /\ screen.front = "Codex" => effect.open = row
  BY <1>4 DEF Clicked, Screen
<1>6. /\ c \in Command /\ c.at = cmd.at /\ c.result = "none" /\ Alike(c, cmd)
      /\ c.title = cmd.title /\ c.field = cmd.field /\ c.shot = cmd.shot /\ c.seen = cmd.seen
      /\ c.stale = IF screen.front = "Codex" /\ HasId(row, cmd.id)
                   THEN cmd.stale \ {"thread"} ELSE cmd.stale \cup {"click"}
  <2> HIDE DEF row, HasId
  <2> QED BY <1>1, Meets
<1> HIDE DEF effect, c, Effect
<1>7. ASSUME screen' = effect, Go(c) PROVE IInv'
  <2>1. ~Last(c) => Then(c) = "verify" /\ cmd.kind # "select"
    BY <1>1, <1>6, Thens DEF Last, Alike
  <2>2. cmd' \in Command /\ cmd'.at = Then(c) /\ cmd'.result = (IF Last(c) THEN "ok" ELSE "none")
        /\ Same(c) /\ cmd'.verdict = c.verdict
    BY <1>1, <1>6, <1>7, Goes
  <2>3. ThreadKnown'
    <3> SUFFICES ASSUME ~Last(c), cmd.id # Current
                 PROVE  \/ Title[screen'.open] = cmd.title
                        \/ c.stale \cap {"thread", "click"} # {}
      BY <1>6, <2>2 DEF Alike
    <3>1. CASE screen.front = "Codex" /\ HasId(row, cmd.id)
      <4>1. cmd.id[2] = cmd.title /\ cmd.title # Hidden
        BY <1>1, <2>1 DEF Command, Kinds
      <4>2. Label(row) = cmd.id[2]
        BY <3>1
      <4>3. Title[row] = cmd.title
        BY <4>1, <4>2
      <4> QED BY <1>5, <1>7, <3>1, <4>3
    <3>2. CASE ~(screen.front = "Codex" /\ HasId(row, cmd.id))
      <4>1. c.stale = cmd.stale \cup {"click"}
        BY <1>6, <3>2
      <4> QED BY <4>1
    <3> QED BY <3>1, <3>2
  <2>4. TypeOK' /\ Whose' /\ TitleKnown' /\ SentKnown' /\ PollKnown'
    <3> HIDE DEF row
    <3> QED BY <1>1, <1>3, <1>5, <1>6, <1>7, <2>1, <2>2 DEF Last, Alike, Command, Kinds
  <2>5. FrontKnown' /\ ShotKnown' /\ RowKnown' /\ FieldKnown' /\ ReportTellsSent' /\ VerdictIsEarned'
    <3> HIDE DEF row
    <3> QED BY <1>1, <1>3, <1>5, <1>6, <1>7, <2>1, <2>2 DEF Last, Alike, Command, Kinds
  <2> QED BY <2>3, <2>4, <2>5
<1>8. ASSUME Fail("failed") PROVE IInv'
  <2>1. screen' \in Screen
    BY <1>2, <1>5 DEF Acts, effect
  <2> QED BY <1>1, <1>3, <1>8, <2>1, FailKeeps
<1> QED BY <1>2, <1>7, <1>8 DEF Acts, effect

LEMMA ClickFieldKeeps ==
    ASSUME IInv, ClickField PROVE IInv'
<1> DEFINE effect == Clicked([screen EXCEPT !.focus = IF cmd.field \in screen.fields THEN cmd.field
                                                      ELSE "elsewhere"])
<1>1. Running /\ cmd.at = "clickField" /\ Acts(effect, cmd, "failed") /\ moves' = moves
  BY DEF ClickField, Acts, At
<1>2. effect \in Screen /\ effect.front = screen.front /\ effect.open = screen.open
      /\ (screen.front = "Codex" /\ cmd.field \in screen.fields => effect.focus = cmd.field)
  BY DEF Clicked, Screen, Places, Focusable
<1> HIDE DEF effect
<1>3. ASSUME screen' = effect, Go(cmd) PROVE IInv'
  <2>1. ~Last(cmd) /\ Then(cmd) = "type"
    BY <1>1, Thens DEF Last
  <2>2. cmd' \in Command /\ cmd'.at = Then(cmd) /\ cmd'.result = "none"
        /\ Same(cmd) /\ cmd'.verdict = cmd.verdict
    BY <1>1, <1>3, <2>1, Goes
  <2> QED BY <1>1, <1>2, <1>3, <2>1, <2>2
<1>4. ASSUME Fail("failed") PROVE IInv'
  BY <1>1, <1>2, <1>4, FailKeeps DEF Acts
<1> QED BY <1>1, <1>3, <1>4 DEF Acts

LEMMA HereTyped == ASSUME IInv PROVE Here \in Landed /\ Here # None
  BY NoneAssumption DEF Here, Landed, Screen

(* The keystrokes land where the keyboard is.                              *)
LEMMA TypeKeeps ==
    ASSUME IInv, Type PROVE IInv'
<1> DEFINE c == [cmd EXCEPT !.text = Here]
<1>1. Running /\ cmd.at = "type" /\ screen' = screen /\ moves' = moves
  BY DEF Type, At
<1>2. c \in Command /\ c.at = "type" /\ c.result = "none" /\ c.kind = cmd.kind /\ c.id = cmd.id /\ c.dry = cmd.dry
      /\ c.title = cmd.title /\ c.field = cmd.field /\ c.stale = cmd.stale /\ c.shot = cmd.shot
      /\ c.text = Here /\ c.sent = cmd.sent /\ c.seen = cmd.seen /\ c.streak = cmd.streak /\ c.verdict = cmd.verdict
  BY <1>1, HereTyped DEF Command
<1>3. ASSUME Go(c) PROVE IInv'
  <2> HIDE DEF c
  <2>1. ~Last(c) /\ Then(c) = "return"
    BY <1>2, Thens DEF Last
  <2>2. cmd' \in Command /\ cmd'.at = "return" /\ cmd'.result = "none" /\ Same(c) /\ cmd'.verdict = c.verdict
    BY <1>2, <1>3, <2>1, Goes
  <2> QED BY <1>1, <1>2, <2>2, HereTyped
<1>4. ASSUME cmd' = [cmd EXCEPT !.text = Here, !.result = "submitFailed"] PROVE IInv'
  <2>1. Closes(c, "none", "submitFailed")
    BY <1>1, <1>4 DEF Closes, Command
  <2> HIDE DEF c
  <2>2. cmd' \in Command /\ cmd'.at = "type" /\ cmd'.result = "submitFailed" /\ Same(c) /\ cmd'.verdict = "none"
    BY <1>2, <2>1, Ends
  <2> QED BY <1>1, <1>2, <2>2
<1>5. ASSUME Fail("submitFailed") PROVE IInv'
  BY <1>1, <1>5, FailKeeps
<1> QED BY <1>3, <1>4, <1>5 DEF Type

LEMMA ReturnKeeps ==
    ASSUME IInv, Return PROVE IInv'
<1> DEFINE c == [cmd EXCEPT !.sent = Here]
<1>1. Running /\ cmd.at = "return" /\ screen' = screen /\ moves' = moves
  BY DEF Return, At
<1>2. c \in Command /\ c.at = "return" /\ c.result = "none" /\ c.kind = cmd.kind /\ c.id = cmd.id /\ c.dry = cmd.dry
      /\ c.title = cmd.title /\ c.field = cmd.field /\ c.stale = cmd.stale /\ c.shot = cmd.shot
      /\ c.text = cmd.text /\ c.sent = Here /\ c.seen = cmd.seen /\ c.streak = cmd.streak /\ c.verdict = cmd.verdict
  BY <1>1, HereTyped DEF Command
<1>3. ASSUME Go(c) PROVE IInv'
  <2> HIDE DEF c
  <2>1. ~Last(c) /\ Then(c) = "look2"
    BY <1>2, Thens DEF Last
  <2>2. cmd' \in Command /\ cmd'.at = "look2" /\ cmd'.result = "none" /\ Same(c) /\ cmd'.verdict = c.verdict
    BY <1>2, <1>3, <2>1, Goes
  <2> QED BY <1>1, <1>2, <2>2, HereTyped
<1>4. ASSUME cmd' = [cmd EXCEPT !.sent = Here, !.result = "submitFailed"] PROVE IInv'
  <2>1. Closes(c, "none", "submitFailed")
    BY <1>1, <1>4 DEF Closes, Command
  <2> HIDE DEF c
  <2>2. cmd' \in Command /\ cmd'.at = "return" /\ cmd'.result = "submitFailed" /\ Same(c) /\ cmd'.verdict = "none"
    BY <1>2, <2>1, Ends
  <2> QED BY <1>1, <1>2, <2>2
<1>5. ASSUME Fail("submitFailed") PROVE IInv'
  BY <1>1, <1>5, FailKeeps
<1> QED BY <1>3, <1>4, <1>5 DEF Return, ReturnFailed

-------------------------------------------------------------------------------
(* The polling.                                                            *)

(* A poll that finds out nothing is the last one.                          *)
LEMMA InconclusiveKeeps ==
    ASSUME IInv, Running, cmd.at \in {"peek", "observe"}, screen' = screen, moves' = moves,
           Finish([cmd EXCEPT !.seen = Append(@, "inconclusive")], "inconclusive")
    PROVE  IInv'
<1> DEFINE c == [cmd EXCEPT !.seen = Append(@, "inconclusive")]
<1>1. c \in Command /\ c.at = cmd.at /\ c.kind = cmd.kind /\ c.dry = cmd.dry /\ c.text = cmd.text /\ c.sent = cmd.sent
  <2>1. "inconclusive" \in Observed /\ Append(cmd.seen, "inconclusive") \in Seq(Observed)
    BY DEF Command, Observed
  <2> QED BY <2>1 DEF Command
<1>2. Closes(c, "inconclusive", "ok")
  BY DEF Closes, Finish
<1> HIDE DEF c
<1>3. "inconclusive" \in Observed \cup {"none", "timeout"}
  BY DEF Observed
<1>4. cmd' \in Command /\ cmd'.at = c.at /\ cmd'.result = "ok" /\ Same(c) /\ cmd'.verdict = "inconclusive"
  BY <1>1, <1>2, <1>3, Ends
<1> QED BY <1>1, <1>4

LEMMA PeekKeeps ==
    ASSUME IInv, Peek PROVE IInv'
<1>1. Running /\ cmd.at = "peek" /\ screen' = screen /\ moves' = moves
  BY DEF Peek, At
<1>2. ASSUME Go(cmd) PROVE IInv'
  <2>1. ~Last(cmd) /\ Then(cmd) = "observe"
    BY <1>1, Thens DEF Last, Command
  <2>2. cmd' \in Command /\ cmd'.at = "observe" /\ cmd'.result = "none" /\ Same(cmd) /\ cmd'.verdict = cmd.verdict
    BY <1>1, <1>2, <2>1, Goes
  <2> QED BY <1>1, <2>2
<1> QED BY <1>1, <1>2, InconclusiveKeeps DEF Peek

LEMMA ObserveKeeps ==
    ASSUME IInv, Observe PROVE IInv'
<1> DEFINE c == [cmd EXCEPT !.seen = Append(@, State), !.streak = Streak]
<1>1. Running /\ cmd.at = "observe" /\ screen' = screen /\ moves' = moves
  BY DEF Observe, At
<1>2. ASSUME Go(c) PROVE IInv'
  <2>1. State \in Observed /\ cmd.streak \in Nat /\ cmd.seen \in Seq(Observed)
        /\ Streak \in Nat /\ Streak = IF State = "idle" THEN cmd.streak + 1 ELSE 0
    BY DEF State, Streak, Observed, Command
  <2> DEFINE st == State
             sk == Streak
             sn == Append(cmd.seen, st)
  <2>2. c = [cmd EXCEPT !.seen = sn, !.streak = sk]
    OBVIOUS
  <2>3. /\ st \in Observed /\ sk \in Nat /\ sk = IF st = "idle" THEN cmd.streak + 1 ELSE 0
        /\ sn \in Seq(Observed) /\ Len(sn) = Len(cmd.seen) + 1 /\ sn[Len(sn)] = st
        /\ \A i \in 1..Len(cmd.seen) : sn[i] = cmd.seen[i]
    BY <2>1
  <2> HIDE DEF st, sk, sn, c
  <2>4. c \in Command /\ c.at = "observe" /\ c.result = "none" /\ c.kind = cmd.kind /\ c.dry = cmd.dry
        /\ c.seen = sn /\ c.streak = sk /\ c.shot = cmd.shot /\ c.stale = cmd.stale /\ c.id = cmd.id
        /\ c.verdict = cmd.verdict /\ c.text = cmd.text /\ c.sent = cmd.sent
    <3>1. cmd \in Command /\ cmd.result = "none" /\ cmd.at = "observe" /\ Noted(c, sn, sk)
      BY <1>1, <2>2 DEF Noted
    <3> HIDE DEF IInv
    <3> QED BY <2>3, <3>1, Notes
  <2>5. ~Last(c) /\ Then(c) = "look3"
    BY <2>4, Thens DEF Last, Command
  <2>6. cmd' \in Command /\ cmd'.at = "look3" /\ cmd'.result = "none" /\ Same(c) /\ cmd'.verdict = c.verdict
    BY <1>2, <2>4, <2>5, Goes
  <2>7. TypeOK' /\ Whose' /\ FrontKnown' /\ ShotKnown' /\ RowKnown' /\ TitleKnown' /\ ThreadKnown' /\ FieldKnown'
    BY <1>1, <2>4, <2>6
  <2>8. SentKnown' /\ ReportTellsSent' /\ VerdictIsEarned'
    BY <1>1, <2>4, <2>6
  <2>9. PollKnown'
    <3>1. Len(cmd.seen) \in Nat /\ Len(cmd.seen) <= Wait /\ cmd.streak <= Len(cmd.seen) /\ cmd.streak \in Nat
          /\ \A i \in 1..Len(cmd.seen) : i > Len(cmd.seen) - cmd.streak => cmd.seen[i] = "idle"
      BY <1>1, <2>1
    <3>2. sk <= Len(sn) /\ \A i \in 1..Len(sn) : i > Len(sn) - sk => sn[i] = "idle"
      <4>1. CASE st = "idle"
        <5>1. sk = cmd.streak + 1
          BY <2>3, <4>1
        <5>2. ASSUME NEW i \in 1..Len(sn), i > Len(sn) - sk PROVE sn[i] = "idle"
          <6>1. CASE i = Len(sn)
            BY <2>3, <4>1, <6>1
          <6>2. CASE i # Len(sn)
            <7> DEFINE n == Len(cmd.seen)
                       k == cmd.streak
                       m == Len(sn)
            <7>1. n \in Nat /\ k \in Nat /\ m = n + 1 /\ sk = k + 1 /\ i \in 1..m /\ i > m - sk /\ i # m
              BY <2>3, <3>1, <5>1, <5>2, <6>2
            <7> HIDE DEF n, k, m
            <7>2. i \in 1..n /\ i > n - k
              BY <7>1
            <7> QED BY <2>3, <3>1, <7>2 DEF n, k
          <6> QED BY <6>1, <6>2
        <5> QED BY <2>3, <3>1, <5>1, <5>2
      <4>2. CASE st # "idle"
        BY <2>3, <3>1, <4>2
      <4> QED BY <4>1, <4>2
    <3>3. Len(sn) \in Nat /\ Len(sn) >= 1 /\ Len(sn) <= Wait + 1
      BY <2>3, <3>1, VisibleAssumption
    <3>4. cmd'.seen = sn /\ cmd'.streak = sk /\ cmd'.verdict = "none"
      BY <1>1, <2>4, <2>6
    <3> QED BY <2>6, <3>2, <3>3, <3>4
  <2> QED BY <2>7, <2>8, <2>9
<1> QED BY <1>1, <1>2, InconclusiveKeeps DEF Observe

(* What is idle has been so twice; time is up when every poll was made.    *)
LEMMA JudgeKeeps ==
    ASSUME IInv, Judge PROVE IInv'
<1> DEFINE last == cmd.seen[Len(cmd.seen)]
<1>1. Running /\ cmd.at = "judge" /\ screen' = screen /\ moves' = moves
  BY DEF Judge, At
<1>2. /\ cmd.seen \in Seq(Observed) /\ Len(cmd.seen) \in Nat /\ Len(cmd.seen) >= 1 /\ Len(cmd.seen) <= Wait + 1
      /\ cmd.streak \in Nat /\ cmd.streak <= Len(cmd.seen) /\ last \in Observed
      /\ \A i \in 1..Len(cmd.seen) : i > Len(cmd.seen) - cmd.streak => cmd.seen[i] = "idle"
      /\ Wait \in Nat
  BY <1>1, VisibleAssumption DEF Command
<1>3. ASSUME NEW v \in Observed \cup {"timeout"}, Finish(cmd, v),
             v = "idle" => cmd.streak >= 2, v = "timeout" => Len(cmd.seen) > Wait
      PROVE  IInv'
  <2>1. Closes(cmd, v, "ok")
    BY <1>3 DEF Closes, Finish
  <2>2. cmd' \in Command /\ cmd'.at = "judge" /\ cmd'.result = "ok" /\ Same(cmd) /\ cmd'.verdict = v
    <3>1. v \in Observed \cup {"none", "timeout"} /\ cmd \in Command /\ cmd.at = "judge"
      BY <1>1, <1>3
    <3> HIDE DEF IInv
    <3> QED BY <2>1, <3>1, Ends
  <2>3. ASSUME v = "idle"
        PROVE  LET n == Len(cmd.seen) IN n >= 2 /\ cmd.seen[n] = "idle" /\ cmd.seen[n - 1] = "idle"
    <3> DEFINE n == Len(cmd.seen)
    <3>1. n \in 1..n /\ n - 1 \in 1..n /\ n > n - cmd.streak /\ n - 1 > n - cmd.streak
      BY <1>2, <1>3, <2>3
    <3> QED BY <1>2, <3>1
  <2>4. v = "timeout" => Len(cmd.seen) = Wait + 1
    BY <1>2, <1>3
  <2>5. VerdictIsEarned'
    BY <2>2, <2>3, <2>4
  <2> QED BY <1>1, <2>2, <2>5
<1>4. ASSUME Go(cmd), ~(Len(cmd.seen) > Wait) PROVE IInv'
  <2>1. ~Last(cmd) /\ Then(cmd) = "peek"
    BY <1>1, Thens DEF Last, Command
  <2>2. cmd' \in Command /\ cmd'.at = "peek" /\ cmd'.result = "none" /\ Same(cmd) /\ cmd'.verdict = cmd.verdict
    BY <1>1, <1>4, <2>1, Goes
  <2> QED BY <1>1, <1>2, <1>4, <2>2
<1> QED BY <1>2, <1>3, <1>4 DEF Judge

-------------------------------------------------------------------------------
(* What changes meanwhile is stale.                                        *)
LEMMA ChangeKeeps ==
    ASSUME IInv, NEW s \in Screen, NEW facts \in SUBSET Facts,
           Changes(s, facts),
           s.front # screen.front => {"front", "shot"} \subseteq facts,
           s.open # screen.open => "thread" \in facts,
           s.rows # screen.rows \/ s.titled # screen.titled => "rows" \in facts,
           s.focus # screen.focus \/ s.fields # screen.fields => "field" \in facts
    PROVE  IInv'
<1>1. screen' = s /\ moves' = moves + 1 /\ moves < MaxMoves /\ Running /\ cmd' = [cmd EXCEPT !.stale = @ \cup facts]
  BY DEF Changes
<1>2. /\ cmd' \in Command /\ cmd'.at = cmd.at /\ cmd'.result = cmd.result /\ cmd'.kind = cmd.kind /\ cmd'.id = cmd.id
      /\ cmd'.dry = cmd.dry /\ cmd'.title = cmd.title /\ cmd'.slot = cmd.slot /\ cmd'.field = cmd.field
      /\ cmd'.stale = cmd.stale \cup facts /\ cmd'.shot = cmd.shot /\ cmd'.text = cmd.text /\ cmd'.sent = cmd.sent
      /\ cmd'.seen = cmd.seen /\ cmd'.streak = cmd.streak /\ cmd'.verdict = cmd.verdict
  BY <1>1 DEF Command
<1>3. TypeOK'
  BY <1>1, <1>2, VisibleAssumption
<1>4. FrontKnown' /\ ShotKnown' /\ ThreadKnown' /\ FieldKnown'
  BY <1>1, <1>2
<1>5. RowKnown'
  BY <1>1, <1>2
<1>6. Whose' /\ TitleKnown' /\ SentKnown' /\ PollKnown' /\ ReportTellsSent' /\ VerdictIsEarned'
  BY <1>1, <1>2
<1> QED BY <1>3, <1>4, <1>5, <1>6

LEMMA MoveKeeps ==
    ASSUME IInv, Move PROVE IInv'
<1>1. CASE Switch
  BY <1>1, ChangeKeeps DEF Switch, Screen, Facts
<1>2. CASE Open
  BY <1>2, ChangeKeeps DEF Open, Screen, Facts
<1>3. CASE Reorder
  BY <1>3, ChangeKeeps DEF Reorder, Screen, Facts
<1>4. CASE Relabel
  BY <1>4, ChangeKeeps DEF Relabel, Screen, Facts
<1>5. CASE Refocus
  BY <1>5, ChangeKeeps DEF Refocus, Screen, Places, Focusable, Facts
<1>6. CASE Redraw
  BY <1>6, ChangeKeeps DEF Redraw, Screen, Places, Focusable, Facts
<1>7. CASE Signal
  BY <1>7, ChangeKeeps DEF Signal, Screen, Facts
<1> QED BY <1>1, <1>2, <1>3, <1>4, <1>5, <1>6, <1>7 DEF Move

-------------------------------------------------------------------------------
LEMMA InitKeeps == ASSUME Init PROVE IInv
<1>1. screen \in Screen /\ moves = 0 /\ moves \in 0..MaxMoves
  BY VisibleAssumption DEF Init
<1>2. PICK kind \in Kinds, id \in VisibleIds \cup {Current, None}, query \in Titles \cup {None}, dry \in BOOLEAN :
         /\ id # None <=> kind \in {"select", "send"}
         /\ id = Current => kind = "send"
         /\ query # None <=> kind = "continue"
         /\ kind \in {"snapshot", "focus"} => ~dry
         /\ cmd = [kind |-> kind, id |-> id, dry |-> dry,
                  at |-> First(kind, id), result |-> "none", title |-> query, slot |-> 0, field |-> None,
                  stale |-> {}, text |-> None, sent |-> None, shot |-> FALSE,
                  pictures |-> {}, seen |-> <<>>, streak |-> 0, verdict |-> "none"]
  BY DEF Init
<1>3. /\ First(kind, id) \in Programs \ {"end"}
      /\ kind = "snapshot" => First(kind, id) = "look2"
      /\ kind = "focus" => First(kind, id) = "focus"
      /\ kind = "select" => First(kind, id) = "list"
      /\ kind = "send" => First(kind, id) = IF id = Current THEN "front1" ELSE "find"
      /\ kind = "continue" => First(kind, id) = "match"
  BY DEF First, Kinds, Programs
<1>4. cmd \in Command
  BY <1>2, <1>3, Sizes DEF Command, Results
<1> QED BY <1>1, <1>2, <1>3, <1>4 DEF Kinds

LEMMA StepKeeps == ASSUME IInv, [Next]_vars PROVE IInv'
<1>1. CASE CmdStep
  BY <1>1, MatchTitleKeeps, FindTargetKeeps, FindRowKeeps, VerifyKeeps, CheckFrontKeeps, CheckTreeKeeps, LookKeeps,
     CaptureKeeps, FocusKeeps, ClickRowKeeps, ClickFieldKeeps, TypeKeeps, ReturnKeeps, PeekKeeps, ObserveKeeps,
     JudgeKeeps DEF CmdStep
<1>2. CASE Move
  BY <1>2, MoveKeeps
<1>3. CASE UNCHANGED vars
  BY <1>3 DEF vars
<1> QED BY <1>1, <1>2, <1>3 DEF Next

HIDE DEF IInv, TypeOK, Whose, FrontKnown, ShotKnown, RowKnown, TitleKnown, ThreadKnown,
         FieldKnown, SentKnown, PollKnown, ReportTellsSent, VerdictIsEarned, Same, Running,
         Messaging, Aimed, Polling, After, HasId, Label

THEOREM Invariant == Spec => []IInv
  BY InitKeeps, StepKeeps, PTL DEF Spec

(* A command stays within its type: it ends only with a result, and its
   result names the program that failed.                                   *)
THEOREM TypeCorrect == Spec => []TypeOK
  BY Invariant, PTL DEF IInv

(* send_visible_message reports what it did: submitted only when the text
   was typed and Return pressed, and a failure to submit when it was begun. *)
THEOREM ReportCorrect == Spec => []ReportTellsSent
  BY Invariant, PTL DEF IInv

(* _visible_message_post_send_status calls a turn idle only when it was so
   twice in a row, and a timeout only after every poll.                     *)
THEOREM VerdictCorrect == Spec => []VerdictIsEarned
  BY Invariant, PTL DEF IInv

-------------------------------------------------------------------------------
(* What a step may not do.                                                 *)

(* Only the keystrokes change what was typed, and only Capture the pictures. *)
LEMMA OthersLeave ==
    ASSUME IInv, CmdStep, ~Type, ~Return
    PROVE  cmd'.text = cmd.text /\ cmd'.sent = cmd.sent
<1>1. cmd \in Command
  BY DEF IInv, TypeOK
<1>2. CASE MatchTitle \/ FindTarget \/ FindRow \/ Verify
  <2>1. CASE MatchTitle
    BY <1>1, <2>1 DEF MatchTitle, Go, Fail, Command
  <2>2. CASE FindTarget
    BY <1>1, <2>2 DEF FindTarget, Go, Fail, Command
  <2>3. CASE FindRow
    BY <1>1, <2>3 DEF FindRow, Go, Fail, Fresh, Command
  <2>4. CASE Verify
    BY <1>1, <2>4 DEF Verify, Go, Fail, Fresh, Command
  <2> QED BY <1>2, <2>1, <2>2, <2>3, <2>4
<1>3. CASE CheckFront \/ CheckTree \/ Look \/ Capture
  <2>1. CASE CheckFront
    BY <1>1, <2>1 DEF CheckFront, Go, Fail, Fresh, Command
  <2>2. CASE CheckTree
    BY <1>1, <2>2 DEF CheckTree, Go, Fail, Fresh, Command
  <2>3. CASE Look
    BY <1>1, <2>3 DEF Look, Go, Fail, Fresh, Command
  <2>4. CASE Capture
    BY <1>1, <2>4 DEF Capture, Go, Fail, Fresh, Command
  <2> QED BY <1>3, <2>1, <2>2, <2>3, <2>4
<1>4. CASE Focus \/ ClickRow \/ ClickField
  <2>1. CASE ClickRow
    BY <1>1, <2>1 DEF ClickRow, Met, Acts, Go, Fail, Fresh, Command
  <2>2. CASE Focus \/ ClickField
    BY <1>1, <2>2 DEF Focus, ClickField, Acts, Go, Fail, Fresh, Command
  <2> QED BY <1>4, <2>1, <2>2
<1>5. CASE Peek \/ Observe \/ Judge
  <2>1. CASE Peek
    BY <1>1, <2>1 DEF Peek, Finish, Go, Command
  <2>2. CASE Observe
    BY <1>1, <2>2 DEF Observe, Finish, Go, Command
  <2>3. CASE Judge
    BY <1>1, <2>3 DEF Judge, Finish, Go, Command
  <2> QED BY <1>5, <2>1, <2>2, <2>3
<1> QED BY <1>2, <1>3, <1>4, <1>5 DEF CmdStep

LEMMA OthersTakeNoPicture ==
    ASSUME IInv, CmdStep, ~Capture
    PROVE  cmd'.pictures = cmd.pictures
<1>1. cmd \in Command
  BY DEF IInv, TypeOK
<1>2. CASE MatchTitle \/ FindTarget \/ FindRow \/ Verify
  <2>1. CASE MatchTitle
    BY <1>1, <2>1 DEF MatchTitle, Go, Fail, Command
  <2>2. CASE FindTarget
    BY <1>1, <2>2 DEF FindTarget, Go, Fail, Command
  <2>3. CASE FindRow
    BY <1>1, <2>3 DEF FindRow, Go, Fail, Fresh, Command
  <2>4. CASE Verify
    BY <1>1, <2>4 DEF Verify, Go, Fail, Fresh, Command
  <2> QED BY <1>2, <2>1, <2>2, <2>3, <2>4
<1>3. CASE CheckFront \/ CheckTree \/ Look
  <2>1. CASE CheckFront
    BY <1>1, <2>1 DEF CheckFront, Go, Fail, Fresh, Command
  <2>2. CASE CheckTree
    BY <1>1, <2>2 DEF CheckTree, Go, Fail, Fresh, Command
  <2>3. CASE Look
    BY <1>1, <2>3 DEF Look, Go, Fail, Fresh, Command
  <2> QED BY <1>3, <2>1, <2>2, <2>3
<1>4. CASE Focus \/ ClickRow \/ ClickField
  <2>1. CASE ClickRow
    BY <1>1, <2>1 DEF ClickRow, Met, Acts, Go, Fail, Fresh, Command
  <2>2. CASE Focus \/ ClickField
    BY <1>1, <2>2 DEF Focus, ClickField, Acts, Go, Fail, Fresh, Command
  <2> QED BY <1>4, <2>1, <2>2
<1>5. CASE Type \/ Return
  BY <1>1, <1>5 DEF Type, Return, Go, Fail, Command
<1>6. CASE Peek \/ Observe \/ Judge
  <2>1. CASE Peek
    BY <1>1, <2>1 DEF Peek, Finish, Go, Command
  <2>2. CASE Observe
    BY <1>1, <2>2 DEF Observe, Finish, Go, Command
  <2>3. CASE Judge
    BY <1>1, <2>3 DEF Judge, Finish, Go, Command
  <2> QED BY <1>6, <2>1, <2>2, <2>3
<1> QED BY <1>2, <1>3, <1>4, <1>5, <1>6 DEF CmdStep

LEMMA MovesOnlyMove ==
    ASSUME IInv, Move
    PROVE  moves' # moves /\ cmd'.text = cmd.text /\ cmd'.sent = cmd.sent /\ cmd'.pictures = cmd.pictures
<1>1. cmd \in Command /\ moves \in Nat
  BY VisibleAssumption DEF IInv, TypeOK
<1>2. PICK s, facts : Changes(s, facts)
  BY DEF Move, Switch, Open, Reorder, Relabel, Refocus, Redraw, Signal
<1> QED BY <1>1, <1>2 DEF Changes, Command

(* Whatever the screen does meanwhile, the text and the Return key go to
   Codex, to the field taken for the composer and to a thread with the title
   asked for, or to a place that changed after send_visible_message had last
   looked at it; or the click met something else than the row, and all that
   _verify_selected_visible_thread saw of the row was that it has the keyboard. *)
THEOREM MessageCorrect == Spec => MessageReachesTarget
<1> DEFINE A == /\ cmd'.text # cmd.text => Reaches(cmd'.text)
                /\ cmd'.sent # cmd.sent => Reaches(cmd'.sent)
<1>1. ASSUME IInv, [Next]_vars PROVE [A]_vars
  <2>1. CASE Type \/ Return
    <3>1. cmd'.text \in {cmd.text, Here} /\ cmd'.sent \in {cmd.sent, Here}
      BY <1>1, <2>1 DEF Type, Return, Go, Fail, Command, IInv, TypeOK
    <3>2. Running /\ cmd.at \in {"type", "return"}
      BY <2>1 DEF Type, Return, At, Running
    <3>3. /\ screen.front = "Codex" \/ "front" \in cmd.stale
          /\ screen.focus = cmd.field \/ cmd.stale \cap {"front", "field"} # {}
          /\ cmd.id = Current \/ Title[screen.open] = cmd.title \/ cmd.stale \cap {"thread", "click"} # {}
      BY <1>1, <3>2 DEF IInv, FrontKnown, FieldKnown, ThreadKnown, Aimed
    <3>4. Reaches(Here)
      BY <3>3 DEF Reaches, Here
    <3> QED BY <3>1, <3>4
  <2>2. CASE CmdStep /\ ~(Type \/ Return)
    BY <1>1, <2>2, OthersLeave
  <2>3. CASE Move
    BY <1>1, <2>3, MovesOnlyMove
  <2>4. CASE UNCHANGED vars
    BY <2>4 DEF vars
  <2> QED BY <1>1, <2>1, <2>2, <2>3, <2>4 DEF Next, CmdStep
<1> QED BY <1>1, Invariant, PTL DEF MessageReachesTarget, Spec

(* select_thread clicks with Codex in front, at the row with the visible id,
   or at one that was moved since the list was read.                        *)
THEOREM SelectCorrect == Spec => SelectsTheRowFound
<1> DEFINE A == At({"clickRow"}) /\ moves' = moves /\ cmd' # cmd =>
                  /\ screen.front = "Codex" \/ "front" \in cmd.stale
                  /\ HasId(screen.rows[cmd.slot], cmd.id) \/ "rows" \in cmd.stale
<1>1. ASSUME IInv, [Next]_vars PROVE [A]_vars
  BY <1>1 DEF IInv, FrontKnown, RowKnown, At, Running
<1> QED BY <1>1, Invariant, PTL DEF SelectsTheRowFound, Spec

(* A dry run brings nothing to the front and clicks nowhere.                *)
THEOREM DryRunCorrect == Spec => DryRunOnlyLooks
<1> DEFINE A == cmd.dry /\ screen' # screen => moves' # moves
<1>1. ASSUME IInv, [Next]_vars PROVE [A]_vars
  <2>1. CASE Focus \/ ClickRow \/ ClickField
    BY <1>1, <2>1 DEF Focus, ClickRow, ClickField, At, IInv, Whose, Running, Messaging, Aimed
  <2>2. CASE CmdStep /\ ~(Focus \/ ClickRow \/ ClickField)
    BY <2>2 DEF CmdStep, MatchTitle, FindTarget, FindRow, Verify, CheckFront, CheckTree, Look, Capture,
                Type, Return, Peek, Observe, Judge
  <2>3. CASE Move
    BY <1>1, <2>3, MovesOnlyMove
  <2>4. CASE UNCHANGED vars
    BY <2>4 DEF vars
  <2> QED BY <1>1, <2>1, <2>2, <2>3, <2>4 DEF Next
<1> QED BY <1>1, Invariant, PTL DEF DryRunOnlyLooks, Spec

(* snapshot takes no picture of another app than Codex, unless the customer
   switched to it after the look.                                           *)
THEOREM PicturesCorrect == Spec => PicturesShowCodex
<1> DEFINE A == cmd'.pictures # cmd.pictures /\ screen.front # "Codex" => "shot" \in cmd.stale
<1>1. ASSUME IInv, [Next]_vars PROVE [A]_vars
  <2>1. CASE Capture
    <3>1. CASE Takes
      BY <1>1, <2>1, <3>1 DEF Capture, At, Takes, IInv, ShotKnown, Running
    <3>2. CASE ~Takes
      BY <1>1, <2>1, <3>2 DEF Capture, Go, Command, IInv, TypeOK
    <3> QED BY <3>1, <3>2
  <2>2. CASE CmdStep /\ ~Capture
    BY <1>1, <2>2, OthersTakeNoPicture
  <2>3. CASE Move
    BY <1>1, <2>3, MovesOnlyMove
  <2>4. CASE UNCHANGED vars
    BY <2>4 DEF vars
  <2> QED BY <1>1, <2>1, <2>2, <2>3, <2>4 DEF Next
<1> QED BY <1>1, Invariant, PTL DEF PicturesShowCodex, Spec
===============================================================================
