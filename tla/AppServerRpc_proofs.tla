-------------------------- MODULE AppServerRpc_proofs --------------------------
(***************************************************************************)
(* What is proved of AppServerRpc, for any deadlines and limits and however *)
(* much the server sends of its own accord.                                *)
(***************************************************************************)
EXTENDS AppServerRpc, TLAPS, SequenceTheorems, FiniteSetTheorems

(* What was written and is not understood yet, and the messages in it that
   are complete.                                                           *)
Stream == buf \o pipe
Complete(s) == {s[i].m : i \in {i \in DOMAIN s : s[i].part = "rest"}}
Unread == Complete(Stream)

(* The messages in s were sent in that order.                              *)
Chronological(s) ==
    \A i, j \in DOMAIN s : i < j /\ s[i].part = "rest" /\ s[j].part = "rest" =>
        /\ s[i].m.nr <= s[j].m.nr
        /\ s[j].m.kind = "notification" => s[i].m.nr < s[j].m.nr

(* s is whole lines, after which one may be begun.                         *)
Begun(s) == s # <<>> /\ s[Len(s)].part = "head"
Ruled(s) ==
    /\ s # <<>> => s[1].part = "head"
    /\ \A i \in 1..(Len(s) - 1) : s[i].part = "head" <=> s[i + 1].part = "rest"

Notice(n) == [kind |-> "notification", id |-> None, nr |-> n]

(* ---- the server ---- *)

(* It numbers its notifications one by one, *)
Numbered ==
    /\ IsFiniteSet(server.said)
    /\ \A n \in 1..server.sent : Notice(n) \in server.said \cup {server.writing}
    /\ \A m \in server.said : m.nr <= server.sent /\ (m.kind = "notification" => m.nr > 0)

(* and the message it is in the midst of is its newest. *)
WritesTheNewest ==
    server.writing # NoMessage =>
        /\ server.writing.nr = server.sent
        /\ server.writing.kind = "notification" =>
              server.sent > 0 /\ \A m \in server.said : m.nr < server.sent

(* It answers what it was asked, and the client asks one thing after another. *)
AnswersTheAsked ==
    /\ \A m \in SaidOf({"answer", "error"}) : m.id \in server.asked
    /\ server.writing # NoMessage /\ server.writing.kind \in {"answer", "error"} =>
           server.writing.id \in server.asked
    /\ \A i \in server.asked : i <= client.id
    /\ client.pc \in {"start", "shaking", "asking"} => client.id \notin server.asked

(* A server that was never reached writes nothing. *)
SilentIfUnreached ==
    client.pc = "start" \/ (client.pc = "closed" /\ Spawned /\ server.up) =>
        server.writing = NoMessage

(* The handshake comes before all that it says. *)
ShakesFirst ==
    Framed /\ ~Shaken =>
        /\ server.said = {} /\ server.sent = 0
        /\ server.writing # NoMessage => server.writing.kind \in {"upgrade", "refusal"}

ServerInv == Numbered /\ WritesTheNewest /\ AnswersTheAsked /\ SilentIfUnreached /\ ShakesFirst

(* ---- the stream ---- *)

(* The messages in it were sent in that order, *)
InOrder == Unread \subseteq server.said /\ Chronological(Stream)

(* later than all that was taken from it, *)
Later ==
    \A m \in Unread : m.kind = "notification" =>
        /\ \A i \in DOMAIN client.events : client.events[i] < m.nr
        /\ client.taken # NoMessage => client.taken.nr < m.nr

(* and what is not in it any more was sent earlier. *)
EarlierIsRead ==
    client.by # "proxy" =>
        \A n \in SaidOf({"notification"}) : n \in Unread \/ \A m \in Unread : n.nr <= m.nr

(* Of stdio it has whole lines, and the start of the one being written. *)
Lines ==
    client.by = "stdio" =>
        Ruled(Stream) /\ (server.up => (server.writing # NoMessage <=> Begun(Stream)))

StreamInv == InOrder /\ Later /\ EarlierIsRead /\ Lines

(* ---- the client ---- *)

Phases ==
    /\ client.pc = "start" => client.id = 0
    /\ client.pc \in {"shaking", "asking", "reading", "collecting"} => client.id >= 1
    /\ Waiting => client.left > 0
    /\ client.pc \in {"start", "shaking", "asking", "reading"} => client.events = <<>>
    /\ client.pc = "collecting" => client.taken # NoMessage /\ Len(client.events) < MaxEvents
    /\ client.pc \notin {"closing", "terminated", "closed"} => client.result = "none"
    /\ client.step # "kept" => client.by = "proxy"

(* What it has taken was sent. *)
TakesTheSent ==
    /\ client.taken # NoMessage => client.taken \in server.said
    /\ client.events # <<>> => client.taken # NoMessage
    /\ \A i \in DOMAIN client.events : \E m \in server.said : m.nr = client.events[i]

GrantedBefore == client.id = 2 => Granted(1)

(* An answer that it waits for is still to be read, unless it is out of step. *)
AnswerIsThere ==
    client.pc = "reading" /\ client.step = "kept" =>
        \A m \in SaidOf({"answer", "error"}) : m.id = client.id => m \in Unread

(* While it collects, it has collected all that it did not leave in the stream. *)
AllCollected ==
    client.pc = "collecting" /\ client.by # "proxy" =>
        \A m \in SaidOf({"notification"}) : client.taken.nr < m.nr =>
            m \in Unread \/ \E j \in DOMAIN client.events : client.events[j] = m.nr

ClientInv == Phases /\ TakesTheSent /\ GrantedBefore /\ AnswerIsThere /\ AllCollected

IInv ==
    /\ TypeOK /\ ServerInv /\ StreamInv /\ ClientInv
    /\ SuccessIsGranted /\ EventsFollowTheAnswer

-------------------------------------------------------------------------------
(* Sequences of parts.                                                     *)

LEMMA CompleteIs ==
    ASSUME NEW s \in Seq(Parts), NEW m
    PROVE  m \in Complete(s) <=> \E i \in 1..Len(s) : s[i].part = "rest" /\ s[i].m = m
BY LenProperties DEF Complete

LEMMA CompleteTyped == ASSUME NEW s \in Seq(Parts) PROVE Complete(s) \subseteq Message
<1> SUFFICES ASSUME NEW i \in 1..Len(s) PROVE s[i].m \in Message
    BY CompleteIs
<1> s[i] \in Parts
    BY ElementOfSeq
<1> QED BY DEF Parts

(* A part more at the end. *)
LEMMA AppendHead ==
    ASSUME NEW s \in Seq(Parts), NEW p \in Parts, p.part = "head"
    PROVE  /\ Complete(Append(s, p)) = Complete(s)
           /\ Chronological(s) => Chronological(Append(s, p))
           /\ Ruled(s) /\ ~Begun(s) => Ruled(Append(s, p))
           /\ Begun(Append(s, p))
<1> DEFINE t == Append(s, p)
           n == Len(s)
<1>1. /\ t \in Seq(Parts) /\ t # <<>> /\ n \in Nat /\ Len(t) = n + 1
      /\ \A i \in 1..n : t[i] = s[i]
      /\ t[n + 1] = p
      /\ DOMAIN s = 1..n /\ DOMAIN t = 1..(n + 1)
      /\ s = <<>> <=> n = 0
    BY AppendProperties, LenProperties, EmptySeq
<1> HIDE DEF t, n
<1> p.part # "rest"
    OBVIOUS
<1>2. Complete(t) = Complete(s)
  <2>1. ASSUME NEW m PROVE m \in Complete(t) <=> m \in Complete(s)
      BY <1>1, CompleteIs DEF n
  <2> QED BY <2>1
<1>3. Chronological(s) => Chronological(t)
    BY <1>1 DEF Chronological
<1>4. ASSUME Ruled(s), ~Begun(s) PROVE Ruled(t)
  <2>1. n # 0 => s[1].part = "head" /\ s[n].part # "head"
      BY <1>1, <1>4 DEF Ruled, Begun, n
  <2>2. t[1].part = "head"
      BY <2>1, <1>1
  <2>3. ASSUME NEW i \in 1..n PROVE t[i].part = "head" <=> t[i + 1].part = "rest"
    <3>1. CASE i = n
        BY <3>1, <2>1, <1>1
    <3>2. CASE i # n
      <4> i \in 1..(n - 1) /\ i + 1 \in 1..n
          BY <3>2, <1>1
      <4> s[i].part = "head" <=> s[i + 1].part = "rest"
          BY <1>4 DEF Ruled, n
      <4> QED BY <1>1
    <3> QED BY <3>1, <3>2
  <2> QED BY <2>2, <2>3, <1>1 DEF Ruled
<1>5. Begun(t)
    BY <1>1 DEF Begun
<1> QED BY <1>2, <1>3, <1>4, <1>5 DEF t

LEMMA AppendRest ==
    ASSUME NEW s \in Seq(Parts), NEW p \in Parts, p.part = "rest"
    PROVE  /\ Complete(Append(s, p)) = Complete(s) \cup {p.m}
           /\ /\ Chronological(s)
              /\ \A u \in Complete(s) : u.nr <= p.m.nr /\ (p.m.kind = "notification" => u.nr < p.m.nr)
              => Chronological(Append(s, p))
           /\ Ruled(s) /\ Begun(s) => Ruled(Append(s, p))
           /\ ~Begun(Append(s, p))
<1> DEFINE t == Append(s, p)
           n == Len(s)
<1>1. /\ t \in Seq(Parts) /\ t # <<>> /\ n \in Nat /\ Len(t) = n + 1
      /\ \A i \in 1..n : t[i] = s[i]
      /\ t[n + 1] = p
      /\ DOMAIN s = 1..n /\ DOMAIN t = 1..(n + 1)
      /\ s = <<>> <=> n = 0
    BY AppendProperties, LenProperties, EmptySeq
<1> HIDE DEF t, n
<1> p.part # "head"
    OBVIOUS
<1>2. Complete(t) = Complete(s) \cup {p.m}
  <2>1. ASSUME NEW m PROVE m \in Complete(t) <=> m \in Complete(s) \/ m = p.m
      BY <1>1, CompleteIs DEF n
  <2> QED BY <2>1
<1>3. ASSUME Chronological(s),
             \A u \in Complete(s) : u.nr <= p.m.nr /\ (p.m.kind = "notification" => u.nr < p.m.nr)
      PROVE  Chronological(t)
  <2>1. \A i \in 1..n : s[i].part = "rest" =>
            s[i].m.nr <= p.m.nr /\ (p.m.kind = "notification" => s[i].m.nr < p.m.nr)
      BY <1>3, CompleteIs DEF n
  <2>2. ASSUME NEW i \in 1..(n + 1), NEW j \in 1..(n + 1),
               i < j, t[i].part = "rest", t[j].part = "rest"
        PROVE  t[i].m.nr <= t[j].m.nr /\ (t[j].m.kind = "notification" => t[i].m.nr < t[j].m.nr)
    <3> i \in 1..n /\ t[i] = s[i]
        BY <2>2, <1>1
    <3>1. CASE j = n + 1
        BY <3>1, <2>1, <2>2, <1>1
    <3>2. CASE j \in 1..n
        BY <3>2, <1>1, <1>3, <2>2 DEF Chronological
    <3> QED BY <3>1, <3>2, <1>1
  <2> QED BY <2>2, <1>1 DEF Chronological
<1>4. ASSUME Ruled(s), Begun(s) PROVE Ruled(t)
  <2>1. n # 0 /\ s[1].part = "head" /\ s[n].part = "head"
      BY <1>1, <1>4 DEF Ruled, Begun, n
  <2>2. t[1].part = "head"
      BY <2>1, <1>1
  <2>3. ASSUME NEW i \in 1..n PROVE t[i].part = "head" <=> t[i + 1].part = "rest"
    <3>1. CASE i = n
        BY <3>1, <2>1, <1>1
    <3>2. CASE i # n
      <4> i \in 1..(n - 1) /\ i + 1 \in 1..n
          BY <3>2, <1>1
      <4> s[i].part = "head" <=> s[i + 1].part = "rest"
          BY <1>4 DEF Ruled, n
      <4> QED BY <1>1
    <3> QED BY <3>1, <3>2
  <2> QED BY <2>2, <2>3, <1>1 DEF Ruled
<1>5. ~Begun(t)
    BY <1>1 DEF Begun
<1> QED BY <1>2, <1>3, <1>4, <1>5 DEF t

(* A part less at the front. *)
LEMMA DropOne ==
    ASSUME NEW s \in Seq(Parts), s # <<>>
    PROVE  /\ Complete(s) = Complete(Tail(s)) \cup (IF s[1].part = "rest" THEN {s[1].m} ELSE {})
           /\ Chronological(s) => Chronological(Tail(s))
           /\ Chronological(s) /\ s[1].part = "rest" =>
                 \A u \in Complete(Tail(s)) :
                    s[1].m.nr <= u.nr /\ (u.kind = "notification" => s[1].m.nr < u.nr)
<1> DEFINE t == Tail(s)
           n == Len(t)
<1>1. /\ t \in Seq(Parts) /\ n \in Nat /\ Len(s) = n + 1
      /\ \A i \in 1..n : t[i] = s[i + 1]
      /\ DOMAIN t = 1..n /\ DOMAIN s = 1..(n + 1)
  <2>1. t \in Seq(Parts) /\ n = Len(s) - 1 /\ (\A i \in 1..n : t[i] = s[i + 1])
      BY HeadTailProperties
  <2>2. DOMAIN t = 1..n /\ n \in Nat /\ Len(s) \in Nat /\ DOMAIN s = 1..Len(s)
      BY <2>1, LenProperties
  <2> QED BY <2>1, <2>2
<1> HIDE DEF t
<1>2. ASSUME NEW m
      PROVE  m \in Complete(s) <=> m \in Complete(t) \/ (s[1].part = "rest" /\ s[1].m = m)
  <2>1. m \in Complete(s) => m \in Complete(t) \/ (s[1].part = "rest" /\ s[1].m = m)
    <3> SUFFICES ASSUME NEW i \in 1..(n + 1), s[i].part = "rest", s[i].m = m, i # 1
                 PROVE  m \in Complete(t)
        BY <1>1, CompleteIs
    <3> i - 1 \in 1..n /\ t[i - 1] = s[i]
        BY <1>1
    <3> QED BY <1>1, CompleteIs DEF n
  <2>2. m \in Complete(t) => m \in Complete(s)
    <3> SUFFICES ASSUME NEW i \in 1..n, t[i].part = "rest", t[i].m = m
                 PROVE  m \in Complete(s)
        BY <1>1, CompleteIs DEF n
    <3> i + 1 \in 1..Len(s) /\ t[i] = s[i + 1]
        BY <1>1
    <3> QED BY <1>1, CompleteIs
  <2>3. s[1].part = "rest" /\ s[1].m = m => m \in Complete(s)
    <3> 1 \in 1..Len(s)
        BY <1>1
    <3> QED BY CompleteIs
  <2> QED BY <2>1, <2>2, <2>3
<1>3. ASSUME Chronological(s) PROVE Chronological(t)
  <2> SUFFICES ASSUME NEW i \in 1..n, NEW j \in 1..n, i < j, t[i].part = "rest", t[j].part = "rest"
               PROVE  t[i].m.nr <= t[j].m.nr /\ (t[j].m.kind = "notification" => t[i].m.nr < t[j].m.nr)
      BY <1>1 DEF Chronological
  <2> i + 1 \in DOMAIN s /\ j + 1 \in DOMAIN s /\ i + 1 < j + 1 /\ t[i] = s[i + 1] /\ t[j] = s[j + 1]
      BY <1>1
  <2> QED BY <1>3 DEF Chronological
<1>4. ASSUME Chronological(s), s[1].part = "rest", NEW u \in Complete(t)
      PROVE  s[1].m.nr <= u.nr /\ (u.kind = "notification" => s[1].m.nr < u.nr)
  <2> PICK i \in 1..n : t[i].part = "rest" /\ t[i].m = u
      BY <1>1, CompleteIs DEF n
  <2> 1 \in DOMAIN s /\ i + 1 \in DOMAIN s /\ 1 < i + 1 /\ t[i] = s[i + 1]
      BY <1>1
  <2> QED BY <1>4 DEF Chronological
<1>5. Complete(s) = Complete(t) \cup (IF s[1].part = "rest" THEN {s[1].m} ELSE {})
    BY <1>2
<1> QED BY <1>3, <1>4, <1>5 DEF t

(* Two parts less, of lines. *)
LEMMA DropLine ==
    ASSUME NEW s \in Seq(Parts), Ruled(s), s # <<>>, Tail(s) # <<>>
    PROVE  Ruled(Tail(Tail(s))) /\ (Begun(Tail(Tail(s))) <=> Begun(s))
<1> DEFINE t == Tail(Tail(s))
           n == Len(t)
<1>1. /\ Tail(s) \in Seq(Parts) /\ Len(Tail(s)) = Len(s) - 1
      /\ \A i \in 1..Len(Tail(s)) : Tail(s)[i] = s[i + 1]
    BY HeadTailProperties
<1>2. /\ t \in Seq(Parts) /\ n = Len(Tail(s)) - 1
      /\ \A i \in 1..n : t[i] = Tail(s)[i + 1]
    BY HeadTailProperties, <1>1
<1> HIDE DEF t
<1>3. /\ n \in Nat /\ Len(s) = n + 2 /\ (t = <<>> <=> n = 0)
      /\ \A i \in 1..n : t[i] = s[i + 2]
  <2>1. n \in Nat /\ Len(s) \in Nat /\ Len(Tail(s)) \in Nat /\ (t = <<>> <=> n = 0)
      BY <1>1, <1>2, LenProperties, EmptySeq
  <2>2. Len(Tail(s)) = n + 1 /\ Len(s) = n + 2
      BY <1>1, <1>2, <2>1
  <2>3. ASSUME NEW i \in 1..n PROVE t[i] = s[i + 2]
    <3> i + 1 \in 1..Len(Tail(s)) /\ (i + 1) + 1 = i + 2
        BY <2>1, <2>2
    <3> QED BY <1>1, <1>2
  <2> QED BY <2>1, <2>2, <2>3
<1>4. \A i \in 1..(n + 1) : s[i].part = "head" <=> s[i + 1].part = "rest"
    BY <1>3 DEF Ruled
<1>5. s[1].part = "head" /\ s[2].part = "rest"
    BY <1>3, <1>4 DEF Ruled
<1>6. Ruled(t)
  <2>1. n # 0 => t[1].part = "head"
    <3> SUFFICES ASSUME n # 0 PROVE s[3].part = "head"
        BY <1>3
    <3> 3 \in 1..Len(s) /\ 2 \in 1..(n + 1)
        BY <1>3
    <3> s[3] \in Parts
        BY ElementOfSeq
    <3> s[3].part \in {"head", "rest"}
        BY DEF Parts
    <3> s[2].part = "head" <=> s[3].part = "rest"
        BY <1>4
    <3> QED BY <1>5
  <2>2. ASSUME NEW i \in 1..(n - 1) PROVE t[i].part = "head" <=> t[i + 1].part = "rest"
    <3> /\ i + 2 \in 1..(n + 1) /\ (i + 2) + 1 = (i + 1) + 2
        /\ i \in 1..n /\ i + 1 \in 1..n
        BY <1>3
    <3> t[i] = s[i + 2] /\ t[i + 1] = s[(i + 2) + 1]
        BY <1>3
    <3> QED BY <1>4
  <2> QED BY <2>1, <2>2, <1>3 DEF Ruled
<1>7. Begun(t) <=> Begun(s)
  <2>1. CASE n = 0
    <3> Len(s) = 2
        BY <2>1, <1>3
    <3> QED BY <2>1, <1>3, <1>5 DEF Begun
  <2>2. CASE n # 0
    <3> t[n] = s[n + 2]
        BY <2>2, <1>3
    <3> QED BY <2>2, <1>3 DEF Begun
  <2> QED BY <2>1, <2>2
<1> QED BY <1>6, <1>7 DEF t

(* Lines without a whole one have nothing complete. *)
LEMMA NoLine ==
    ASSUME NEW s \in Seq(Parts), Ruled(s), ~IsLine(s)
    PROVE  Complete(s) = {}
<1> Len(s) \in Nat /\ (s # <<>> <=> Len(s) # 0)
    BY LenProperties, EmptySeq
<1>1. ~(Len(s) >= 2)
  <2> SUFFICES ASSUME Len(s) >= 2 PROVE FALSE
      OBVIOUS
  <2> 1 \in 1..(Len(s) - 1)
      OBVIOUS
  <2> s[1].part = "head" /\ s[1 + 1].part = "rest"
      BY DEF Ruled
  <2> QED BY DEF IsLine
<1>2. ASSUME NEW i \in 1..Len(s), s[i].part = "rest" PROVE FALSE
  <2> i = 1 /\ s # <<>>
      BY <1>1
  <2> QED BY <1>2 DEF Ruled
<1> QED BY <1>2, CompleteIs

LEMMA Empty == Complete(<<>>) = {} /\ Chronological(<<>>) /\ Ruled(<<>>) /\ ~Begun(<<>>)
<1>1. <<>> \in Seq(Parts) /\ Len(<<>>) = 0 /\ DOMAIN <<>> = {}
    BY EmptySeq
<1>2. Complete(<<>>) = {} /\ Chronological(<<>>)
    BY <1>1 DEF Complete, Chronological
<1>3. Ruled(<<>>) /\ ~Begun(<<>>)
    BY <1>1 DEF Ruled, Begun
<1> QED BY <1>2, <1>3

LEMMA TailOfConcat ==
    ASSUME NEW b \in Seq(Parts), NEW p \in Seq(Parts), b # <<>>
    PROVE  /\ Tail(b) \in Seq(Parts) /\ b \o p \in Seq(Parts) /\ b \o p # <<>>
           /\ Tail(b) \o p = Tail(b \o p)
           /\ Head(b) = b[1] /\ (b \o p)[1] = b[1] /\ b[1] \in Parts
<1> DEFINE s == b \o p
           l == Len(b)
           k == Len(p)
<1>1. /\ s \in Seq(Parts) /\ l \in Nat \ {0} /\ k \in Nat /\ Len(s) = l + k
      /\ \A i \in 1..(l + k) : s[i] = IF i <= l THEN b[i] ELSE p[i - l]
    BY ConcatProperties, EmptySeq, LenProperties
<1>2. s # <<>>
    BY <1>1, EmptySeq
<1>3. /\ Tail(b) \in Seq(Parts) /\ Len(Tail(b)) = l - 1
      /\ \A i \in 1..(l - 1) : Tail(b)[i] = b[i + 1]
    BY HeadTailProperties
<1>4. /\ Tail(s) \in Seq(Parts) /\ Len(Tail(s)) = l + k - 1
      /\ \A i \in 1..(l + k - 1) : Tail(s)[i] = s[i + 1]
    BY HeadTailProperties, <1>1, <1>2
<1>5. /\ Tail(b) \o p \in Seq(Parts) /\ Len(Tail(b) \o p) = l - 1 + k
      /\ \A i \in 1..(l - 1 + k) :
             (Tail(b) \o p)[i] = IF i <= l - 1 THEN Tail(b)[i] ELSE p[i - (l - 1)]
    BY ConcatProperties, <1>3
<1> HIDE DEF s, l, k
<1>6. Tail(b) \o p = Tail(s)
  <2> DEFINE t == Tail(b) \o p
             u == Tail(s)
  <2>1. \A i \in 1..(l - 1 + k) : t[i] = u[i]
    <3> SUFFICES ASSUME NEW i \in 1..(l - 1 + k) PROVE t[i] = u[i]
        OBVIOUS
    <3>1. /\ i \in 1..(l + k - 1) /\ i + 1 \in 1..(l + k) /\ i - (l - 1) = (i + 1) - l
          /\ i <= l - 1 <=> i + 1 <= l
          /\ i <= l - 1 => i \in 1..(l - 1)
        BY <1>1
    <3>2. u[i] = s[i + 1]
        BY <1>4, <3>1
    <3> QED BY <3>1, <3>2, <1>1, <1>3, <1>5
  <2>2. t \in Seq(Parts) /\ u \in Seq(Parts) /\ Len(t) = l - 1 + k /\ Len(t) = Len(u)
      BY <1>1, <1>4, <1>5
  <2> HIDE DEF t, u
  <2>3. t = u
      BY <2>1, <2>2, SeqEqual
  <2> QED BY <2>3 DEF t, u
<1>7. s[1] = b[1] /\ b[1] \in Parts
  <2> 1 \in 1..(l + k) /\ 1 <= l /\ 1 \in 1..l
      BY <1>1
  <2> b[1] \in Parts
      BY ElementOfSeq DEF l
  <2> QED BY <1>1
<1>8. Head(b) = b[1]
    OBVIOUS
<1> QED BY <1>1, <1>2, <1>3, <1>6, <1>7, <1>8 DEF s

LEMMA AppendToConcat ==
    ASSUME NEW b \in Seq(Parts), NEW p \in Seq(Parts), NEW x \in Parts
    PROVE  b \o Append(p, x) = Append(b \o p, x) /\ Append(p, x) \in Seq(Parts)
<1> <<x>> \in Seq(Parts) /\ b \o p \in Seq(Parts)
    BY ConcatProperties
<1>1. Append(p, x) = p \o <<x>> /\ Append(b \o p, x) = (b \o p) \o <<x>>
    BY AppendIsConcat
<1>2. (b \o p) \o <<x>> = b \o (p \o <<x>>)
    BY ConcatAssociative
<1> QED BY <1>1, <1>2, AppendProperties

LEMMA AfterTheLine ==
    ASSUME NEW s \in Seq(Parts), IsLine(s)
    PROVE  /\ SubSeq(s, 3, Len(s)) = Tail(Tail(s)) /\ Tail(Tail(s)) \in Seq(Parts)
           /\ s # <<>> /\ Tail(s) # <<>> /\ Tail(s) \in Seq(Parts) /\ Tail(s)[1] = s[2]
<1> DEFINE n == Len(s)
           u == SubSeq(s, 3, n)
           t == Tail(Tail(s))
<1>1. n \in Nat /\ n >= 2 /\ s # <<>>
    BY LenProperties, EmptySeq DEF IsLine
<1>2. /\ Tail(s) \in Seq(Parts) /\ Len(Tail(s)) = n - 1
      /\ \A i \in 1..(n - 1) : Tail(s)[i] = s[i + 1]
    BY HeadTailProperties, <1>1
<1>3. Tail(s) # <<>>
  <2> SUFFICES ASSUME Tail(s) = <<>> PROVE FALSE
      OBVIOUS
  <2> Len(Tail(s)) = 0
      BY EmptySeq
  <2> QED BY <1>1, <1>2
<1>4. /\ t \in Seq(Parts) /\ Len(t) = n - 2
      /\ \A i \in 1..(n - 2) : t[i] = Tail(s)[i + 1]
  <2>1. /\ t \in Seq(Parts) /\ Len(t) = Len(Tail(s)) - 1
        /\ \A i \in 1..Len(t) : t[i] = Tail(s)[i + 1]
      BY HeadTailProperties, <1>2, <1>3
  <2>2. Len(t) = n - 2
      BY <2>1, <1>1, <1>2
  <2> QED BY <2>1, <2>2
<1>5. /\ u \in Seq(Parts) /\ Len(u) = n - 2
      /\ \A i \in 1..(n - 2) : u[i] = s[i + 2]
  <2>1. \A i \in 3..n : s[i] \in Parts
    <3> SUFFICES ASSUME NEW i \in 3..n PROVE s[i] \in Parts
        OBVIOUS
    <3> i \in 1..Len(s)
        BY <1>1
    <3> QED BY ElementOfSeq
  <2>2. /\ u \in Seq(Parts) /\ Len(u) = IF 3 <= n THEN n - 3 + 1 ELSE 0
        /\ \A i \in 1..(n - 3 + 1) : u[i] = s[3 + i - 1]
      BY <2>1, <1>1, SubSeqProperties
  <2> HIDE DEF n, u
  <2>3. Len(u) = n - 2 /\ n - 3 + 1 = n - 2 /\ \A i \in Int : 3 + i - 1 = i + 2
      BY <1>1, <2>2
  <2> QED BY <2>2, <2>3
<1> HIDE DEF n, u, t
<1>6. \A i \in 1..(n - 2) : u[i] = t[i]
  <2> SUFFICES ASSUME NEW i \in 1..(n - 2) PROVE u[i] = t[i]
      OBVIOUS
  <2> i + 1 \in 1..(n - 1) /\ (i + 1) + 1 = i + 2
      BY <1>1
  <2> QED BY <1>2, <1>4, <1>5
<1>7. u = t
    BY <1>4, <1>5, <1>6, SeqEqual
<1>8. Tail(s)[1] = s[2]
  <2> 1 \in 1..(n - 1)
      BY <1>1
  <2> QED BY <1>2
<1> QED BY <1>1, <1>2, <1>3, <1>4, <1>7, <1>8 DEF n, u, t

(* A line is the first of the stream, whether it was read ahead or not.    *)
IsFirst(text, b, p) ==
    LET s == b \o p
        after == SubSeq(text, 3, Len(text)) IN
    /\ s \in Seq(Parts) /\ s # <<>> /\ Tail(s) # <<>> /\ Tail(s) \in Seq(Parts)
    /\ IsLine(b) => after \o p = Tail(Tail(s))
    /\ ~IsLine(b) => after \o <<>> = Tail(Tail(s))
    /\ after \in Seq(Parts)
    /\ s[1].part = "head"
    /\ Tail(s)[1] = text[2] /\ text[2].part = "rest" /\ text[2] \in Parts

LEMMA FirstLine ==
    ASSUME NEW b \in Seq(Parts), NEW p \in Seq(Parts), NEW text,
           IsLine(b) => text = b, ~IsLine(b) => text = b \o p, IsLine(text)
    PROVE  IsFirst(text, b, p)
<1>1. b \o p \in Seq(Parts)
    BY ConcatProperties
<1>2. text[1].part = "head" /\ text[2].part = "rest" /\ text \in Seq(Parts) /\ Len(text) >= 2
    BY <1>1 DEF IsLine
<1>3. text[2] \in Parts
  <2> 2 \in 1..Len(text)
      BY <1>2, LenProperties
  <2> QED BY <1>2, ElementOfSeq
<1>4. /\ SubSeq(text, 3, Len(text)) = Tail(Tail(text)) /\ Tail(Tail(text)) \in Seq(Parts)
      /\ text # <<>> /\ Tail(text) # <<>> /\ Tail(text) \in Seq(Parts) /\ Tail(text)[1] = text[2]
    BY <1>2, AfterTheLine
<1>5. CASE IsLine(b)
  <2>1. text = b
      BY <1>5
  <2>2. Tail(b) \o p = Tail(b \o p) /\ b \o p # <<>> /\ (b \o p)[1] = b[1]
      BY <2>1, <1>4, TailOfConcat
  <2>3. /\ Tail(Tail(b)) \o p = Tail(Tail(b) \o p) /\ Tail(b) \o p # <<>>
        /\ (Tail(b) \o p)[1] = Tail(b)[1]
      BY <2>1, <1>4, TailOfConcat
  <2>4. Tail(b) \o p \in Seq(Parts)
      BY <2>1, <1>4, ConcatProperties
  <2>5. SubSeq(text, 3, Len(text)) \o p = Tail(Tail(b \o p))
      BY <2>1, <2>2, <2>3, <1>4
  <2> QED BY <1>1, <1>2, <1>3, <1>4, <1>5, <2>1, <2>2, <2>3, <2>4, <2>5 DEF IsFirst
<1>6. CASE ~IsLine(b)
  <2>1. text = b \o p
      BY <1>6
  <2>2. SubSeq(text, 3, Len(text)) \o <<>> = Tail(Tail(text))
      BY <1>4, ConcatEmptySeq
  <2> QED BY <1>1, <1>2, <1>3, <1>4, <1>6, <2>1, <2>2 DEF IsFirst
<1> QED BY <1>5, <1>6

-------------------------------------------------------------------------------
(* Messages, and what the session is.                                      *)

LEMMA MessageIs ==
    /\ NoMessage \notin Message
    /\ \A m \in Message :
        /\ m.kind \in {"upgrade", "refusal", "answer", "error", "notification", "request"}
        /\ m.id \in Ids \cup {None}
        /\ m.nr \in 0..MaxMessages /\ m.nr \in Nat /\ m.nr <= MaxMessages
<1>1. ASSUME NEW m \in Message
      PROVE  /\ m.kind \in {"upgrade", "refusal", "answer", "error", "notification", "request"}
             /\ m.id \in Ids \cup {None}
             /\ m.nr \in 0..MaxMessages
    BY DEF Message
<1>2. NoMessage.kind = "none"
    BY DEF NoMessage
<1> QED BY <1>1, <1>2, RpcAssumption

LEMMA ClientIs ==
    ASSUME NEW c \in Client
    PROVE  /\ c.by \in {"stdio", "proxy", "websocket"} /\ c.by \in Transports
           /\ c.goal \in {"probe", "request", "subscribe"} /\ c.goal \in Goals
           /\ c.pc \in Steps /\ c.id \in 0..2
           /\ c.left \in 0..(Timeout + Duration) /\ c.left \in Nat
           /\ c.result \in Results /\ c.taken \in Message \cup {NoMessage}
           /\ c.events \in Seq(1..MaxMessages) /\ c.held \in Message \cup {NoMessage}
           /\ c.step \in {"kept", "lost", "regained"}
<1>1. /\ c.by \in Transports /\ c.goal \in Goals /\ c.pc \in Steps /\ c.id \in 0..2
      /\ c.left \in 0..(Timeout + Duration)
      /\ c.result \in Results /\ c.taken \in Message \cup {NoMessage}
      /\ c.events \in Seq(1..MaxMessages) /\ c.held \in Message \cup {NoMessage}
      /\ c.step \in {"kept", "lost", "regained"}
    BY DEF Client
<1>2. /\ Transports \subseteq {"stdio", "proxy", "websocket"}
      /\ Goals \subseteq {"probe", "request", "subscribe"}
      /\ Timeout \in Nat /\ Duration \in Nat
    BY RpcAssumption
<1>3. c.by \in {"stdio", "proxy", "websocket"} /\ c.goal \in {"probe", "request", "subscribe"}
    BY <1>1, <1>2
<1>4. c.left \in Nat
    BY <1>1, <1>2
<1> QED BY <1>1, <1>3, <1>4

LEMMA ServerIs ==
    ASSUME TypeOK
    PROVE  /\ server.asked \subseteq Ids /\ server.said \subseteq Message
           /\ server.sent \in 0..MaxMessages /\ server.sent \in Nat
           /\ server.writing \in Message \cup {NoMessage} /\ server.up \in BOOLEAN
BY RpcAssumption DEF TypeOK, Server

LEMMA StreamIs ==
    ASSUME TypeOK
    PROVE  Stream \in Seq(Parts) /\ Unread \subseteq Message
BY ConcatProperties, CompleteTyped DEF TypeOK, Stream, Unread

(* What a change of the session leaves as it is.                           *)
Forgets(c) ==
    LET d == [c EXCEPT !.held = NoMessage] IN
    /\ d \in Client
    /\ d.by = c.by /\ d.goal = c.goal /\ d.pc = c.pc /\ d.id = c.id /\ d.left = c.left
    /\ d.result = c.result /\ d.taken = c.taken /\ d.events = c.events /\ d.step = c.step

LEMMA Forgetting == ASSUME NEW c \in Client PROVE Forgets(c)
BY DEF Forgets, Client

LEMMA Closing ==
    ASSUME NEW c \in Client, NEW r \in Results, Close(c, r)
    PROVE  /\ client' \in Client
           /\ client'.pc = "closing" /\ client'.result = r
           /\ client'.by = c.by /\ client'.goal = c.goal /\ client'.id = c.id /\ client'.left = c.left
           /\ client'.taken = c.taken /\ client'.events = c.events /\ client'.step = c.step
BY DEF Close, Client, Steps

(* The client takes m out of the stream.                                   *)
Taking(m) == Deliver([client EXCEPT !.held = NoMessage], m)

Alike == client'.by = client.by /\ client'.goal = client.goal /\ client'.step = client.step

(* It ignores m, *)
Ignores(m) ==
    /\ client.pc \in {"reading", "collecting"}
    /\ ~(client.pc = "reading" /\ IsAnswer(client, m)) /\ ~Collects(client, m)
    /\ client'.pc = client.pc /\ client'.id = client.id /\ client'.left = client.left
    /\ client'.result = client.result /\ client'.taken = client.taken
    /\ client'.events = client.events

(* or has shaken hands, *)
Shakes ==
    /\ client.pc = "shaking"
    /\ client'.id = client.id /\ client'.taken = client.taken /\ client'.events = client.events
    /\ \/ client'.pc = "asking" /\ client'.result = client.result
       \/ client'.pc = "closing" /\ client'.result = "raised"

(* or has its answer, *)
TakesTheAnswer(m) ==
    /\ client.pc = "reading" /\ IsAnswer(client, m)
    /\ client'.taken = m /\ client'.events = client.events
    /\ \/ client'.pc = "closing" /\ client'.id = client.id /\ client'.result \in {"raised", "error"}
       \/ /\ m.kind # "error"
          /\ \/ /\ client.id = 1 /\ client'.id = 2
                /\ client'.pc = "asking" /\ client'.result = client.result
             \/ /\ client'.id = client.id
                /\ client'.pc = "collecting" /\ client'.result = client.result /\ client'.left > 0
             \/ client'.id = client.id /\ client'.pc = "closing" /\ client'.result = "ok"

(* or an event.                                                            *)
TakesTheEvent(m) ==
    /\ client.pc = "collecting" /\ m.kind = "notification"
    /\ client'.id = client.id /\ client'.taken = client.taken
    /\ client'.events = Append(client.events, m.nr)
    /\ \/ client'.pc = "closing" /\ client'.result = "ok"
       \/ /\ client'.pc = "collecting" /\ client'.result = client.result
          /\ client'.left = client.left /\ Len(client'.events) < MaxEvents

LEMMA TakingIs ==
    ASSUME TypeOK, Phases, Waiting, NEW m \in Message, m.kind = "notification" => m.nr > 0, Taking(m)
    PROVE  /\ client' \in Client /\ Len(client'.events) <= MaxEvents /\ Alike
           /\ Ignores(m) \/ Shakes \/ TakesTheAnswer(m) \/ TakesTheEvent(m)
<1> DEFINE c == [client EXCEPT !.held = NoMessage]
<1>1. client \in Client /\ Len(client.events) <= MaxEvents
    BY DEF TypeOK
<1>2. /\ c \in Client
      /\ c.by = client.by /\ c.goal = client.goal /\ c.pc = client.pc /\ c.id = client.id
      /\ c.left = client.left /\ c.result = client.result /\ c.taken = client.taken
      /\ c.events = client.events /\ c.step = client.step
    BY <1>1, Forgetting DEF Forgets
<1>3. Deliver(c, m)
    BY DEF Taking
<1> HIDE DEF c
<1>4. CASE c.pc = "shaking"
  <2>1. CASE m.kind = "upgrade"
    <3>1. client' = [c EXCEPT !.pc = "asking"]
        BY <1>3, <1>4, <2>1 DEF Deliver, Collects
    <3>2. /\ client' \in Client /\ client'.pc = "asking"
          /\ client'.by = c.by /\ client'.goal = c.goal /\ client'.id = c.id
          /\ client'.result = c.result /\ client'.taken = c.taken
          /\ client'.events = c.events /\ client'.step = c.step
        BY <3>1, <1>2 DEF Client, Steps
    <3>3. Alike /\ Shakes
        BY <3>2, <1>2, <1>4 DEF Alike, Shakes
    <3> QED BY <3>2, <3>3, <1>1, <1>2
  <2>2. CASE m.kind # "upgrade"
    <3>1. Close(c, "raised") /\ "raised" \in Results
        BY <1>3, <1>4, <2>2 DEF Deliver, Collects, Results
    <3>2. Alike /\ Shakes /\ client' \in Client /\ client'.events = client.events
        BY <3>1, <1>2, <1>4, Closing DEF Alike, Shakes
    <3> QED BY <3>2, <1>1
  <2> QED BY <2>1, <2>2
<1>5. CASE c.pc = "reading" /\ IsAnswer(c, m)
  <2> DEFINE t == [c EXCEPT !.taken = m]
  <2>1. /\ t \in Client /\ t.taken = m
        /\ t.by = c.by /\ t.goal = c.goal /\ t.id = c.id /\ t.left = c.left /\ t.result = c.result
        /\ t.events = c.events /\ t.step = c.step
      BY <1>2 DEF Client
  <2>2. Answered(c, m)
      BY <1>3, <1>5 DEF Deliver, Collects
  <2>3. IsAnswer(client, m) /\ client.pc = "reading"
      BY <1>2, <1>5 DEF IsAnswer
  <2> HIDE DEF t
  <2>4. CASE m.kind = "error"
    <3>1. PICK r \in {"raised", "error"} : Close(t, r)
        BY <2>2, <2>4 DEF Answered, t
    <3>2. r \in Results
        BY DEF Results
    <3>3. /\ client' \in Client /\ client'.pc = "closing" /\ client'.result = r
          /\ client'.by = c.by /\ client'.goal = c.goal /\ client'.id = c.id
          /\ client'.taken = m /\ client'.events = c.events /\ client'.step = c.step
        BY <3>1, <3>2, <2>1, Closing
    <3>4. Alike /\ TakesTheAnswer(m)
        BY <3>3, <2>3, <1>2 DEF Alike, TakesTheAnswer
    <3> QED BY <3>3, <3>4, <1>1, <1>2
  <2>5. CASE m.kind # "error" /\ c.id = 1 /\ c.goal # "probe"
    <3> DEFINE second == 2
    <3>1. client' = [t EXCEPT !.pc = "asking", !.id = second]
        BY <2>2, <2>5 DEF Answered, t
    <3> second = 2 /\ second \in 0..2
        OBVIOUS
    <3> HIDE DEF second
    <3>2. /\ client' \in Client /\ client'.pc = "asking" /\ client'.id = second
          /\ client'.by = t.by /\ client'.goal = t.goal /\ client'.result = t.result
          /\ client'.taken = t.taken /\ client'.events = t.events /\ client'.step = t.step
        BY <3>1, <2>1 DEF Client, Steps
    <3>3. Alike /\ TakesTheAnswer(m)
        BY <3>2, <2>1, <2>3, <2>5, <1>2 DEF Alike, TakesTheAnswer
    <3> QED BY <3>2, <3>3, <2>1, <1>1, <1>2
  <2>6. CASE m.kind # "error" /\ ~(c.id = 1 /\ c.goal # "probe") /\ c.goal = "subscribe"
    <3>1. client' = [t EXCEPT !.pc = "collecting", !.left = Duration]
        BY <2>2, <2>6 DEF Answered, t
    <3>2. Duration \in 0..(Timeout + Duration) /\ Duration > 0
        BY RpcAssumption
    <3>3. /\ client' \in Client /\ client'.pc = "collecting" /\ client'.left = Duration
          /\ client'.by = t.by /\ client'.goal = t.goal /\ client'.id = t.id
          /\ client'.result = t.result /\ client'.taken = t.taken
          /\ client'.events = t.events /\ client'.step = t.step
        BY <3>1, <3>2, <2>1 DEF Client, Steps
    <3>4. Alike /\ TakesTheAnswer(m)
        BY <3>2, <3>3, <2>1, <2>3, <2>6, <1>2 DEF Alike, TakesTheAnswer
    <3> QED BY <3>3, <3>4, <2>1, <1>1, <1>2
  <2>7. CASE m.kind # "error" /\ ~(c.id = 1 /\ c.goal # "probe") /\ c.goal # "subscribe"
    <3>1. Close(t, "ok") /\ "ok" \in Results
        BY <2>2, <2>7 DEF Answered, t, Results
    <3>2. /\ client' \in Client /\ client'.pc = "closing" /\ client'.result = "ok"
          /\ client'.by = c.by /\ client'.goal = c.goal /\ client'.id = c.id
          /\ client'.taken = m /\ client'.events = c.events /\ client'.step = c.step
        BY <3>1, <2>1, Closing
    <3>3. Alike /\ TakesTheAnswer(m)
        BY <3>2, <2>3, <2>7, <1>2 DEF Alike, TakesTheAnswer
    <3> QED BY <3>2, <3>3, <1>1, <1>2
  <2> QED BY <2>4, <2>5, <2>6, <2>7
<1>6. CASE c.pc # "shaking" /\ ~(c.pc = "reading" /\ IsAnswer(c, m)) /\ Collects(c, m)
  <2> DEFINE events == Append(c.events, m.nr)
             e == [c EXCEPT !.events = events]
  <2>1. c.pc = "collecting" /\ m.kind = "notification" /\ m.nr > 0
      BY <1>6 DEF Collects
  <2>2. m.nr \in 1..MaxMessages
      BY <2>1, MessageIs
  <2>3. /\ c.events \in Seq(1..MaxMessages) /\ events \in Seq(1..MaxMessages)
        /\ Len(events) = Len(c.events) + 1 /\ Len(c.events) \in Nat
      BY <2>2, <1>2, ClientIs, AppendProperties, LenProperties
  <2>4. Len(c.events) < MaxEvents
      BY <2>1, <1>2 DEF Phases
  <2>5. IF Enough(events) THEN Close(e, "ok") ELSE client' = e
      BY <1>3, <1>6, <2>1 DEF Deliver
  <2> HIDE DEF events
  <2>6. Len(events) <= MaxEvents
      BY <2>3, <2>4, RpcAssumption
  <2>7. /\ e \in Client /\ e.events = events
        /\ e.by = c.by /\ e.goal = c.goal /\ e.pc = c.pc /\ e.id = c.id /\ e.left = c.left
        /\ e.result = c.result /\ e.taken = c.taken /\ e.step = c.step
      BY <2>3, <1>2 DEF Client
  <2>8. events = Append(client.events, m.nr)
      BY <1>2 DEF events
  <2> HIDE DEF e
  <2>9. CASE Enough(events)
    <3>1. Close(e, "ok") /\ "ok" \in Results
        BY <2>5, <2>9 DEF Results
    <3>2. /\ client' \in Client /\ client'.pc = "closing" /\ client'.result = "ok"
          /\ client'.by = c.by /\ client'.goal = c.goal /\ client'.id = c.id
          /\ client'.taken = c.taken /\ client'.events = events /\ client'.step = c.step
        BY <3>1, <2>7, Closing
    <3>3. Alike /\ TakesTheEvent(m)
        BY <3>2, <2>1, <2>8, <1>2 DEF Alike, TakesTheEvent
    <3> QED BY <3>2, <3>3, <2>6
  <2>10. CASE ~Enough(events)
    <3>1. client' = e
        BY <2>5, <2>10
    <3>2. Len(events) < MaxEvents
        BY <2>10, <2>3, RpcAssumption DEF Enough
    <3>3. Alike /\ TakesTheEvent(m)
        BY <3>1, <3>2, <2>1, <2>7, <2>8, <1>2 DEF Alike, TakesTheEvent
    <3> QED BY <3>1, <3>3, <2>6, <2>7
  <2> QED BY <2>9, <2>10
<1>7. CASE c.pc # "shaking" /\ ~(c.pc = "reading" /\ IsAnswer(c, m)) /\ ~Collects(c, m)
  <2>1. client' = c
      BY <1>3, <1>7 DEF Deliver
  <2>2. Alike /\ Ignores(m)
      BY <2>1, <1>2, <1>7 DEF Alike, Ignores, Waiting, IsAnswer, Collects
  <2> QED BY <2>1, <2>2, <1>1, <1>2
<1> QED BY <1>4, <1>5, <1>6, <1>7

LEMMA EventsAre ==
    ASSUME TypeOK
    PROVE  /\ client.events \in Seq(1..MaxMessages) /\ Len(client.events) \in Nat
           /\ DOMAIN client.events = 1..Len(client.events)
           /\ \A i \in DOMAIN client.events : client.events[i] \in Nat
<1>1. client.events \in Seq(1..MaxMessages)
    BY ClientIs DEF TypeOK
<1>2. /\ Len(client.events) \in Nat
      /\ DOMAIN client.events = 1..Len(client.events)
    BY <1>1, LenProperties
<1>3. ASSUME NEW i \in DOMAIN client.events PROVE client.events[i] \in Nat
  <2> client.events[i] \in 1..MaxMessages
      BY <1>1, <1>2, ElementOfSeq
  <2> QED BY RpcAssumption
<1> QED BY <1>1, <1>2, <1>3

(* An event more. *)
LEMMA EventMore ==
    ASSUME TypeOK, NEW m \in Message, m.kind = "notification", m.nr > 0, TakesTheEvent(m)
    PROVE  \E k \in Nat :
               /\ k = Len(client.events)
               /\ DOMAIN client.events = 1..k /\ (DOMAIN client.events)' = 1..(k + 1)
               /\ \A i \in 1..k : client'.events[i] = client.events[i] /\ client.events[i] \in Nat
               /\ client'.events[k + 1] = m.nr
<1>1. m.nr \in 1..MaxMessages
    BY MessageIs
<1>2. client.events \in Seq(1..MaxMessages) /\ client'.events = Append(client.events, m.nr)
    BY EventsAre DEF TakesTheEvent
<1> DEFINE k == Len(client.events)
<1>3. /\ client'.events \in Seq(1..MaxMessages) /\ Len(client'.events) = k + 1
      /\ \A i \in 1..k : client'.events[i] = client.events[i]
      /\ client'.events[k + 1] = m.nr
    BY <1>1, <1>2, AppendProperties
<1>4. k \in Nat /\ DOMAIN client.events = 1..k /\ DOMAIN client'.events = 1..(k + 1)
    BY <1>2, <1>3, LenProperties
<1>5. \A i \in 1..k : client.events[i] \in Nat
    BY <1>4, EventsAre
<1> HIDE DEF k
<1> QED BY <1>3, <1>4, <1>5 DEF k

(* The client understands the first message in the stream.                 *)
LEMMA Understands ==
    ASSUME IInv, Waiting, NEW m \in Unread, Taking(m), UNCHANGED server,
           buf' \in Seq(Parts), pipe' \in Seq(Parts),
           Unread' \subseteq Unread, Unread \subseteq Unread' \cup {m},
           \A u \in Unread' : m.nr <= u.nr /\ (u.kind = "notification" => m.nr < u.nr),
           Chronological(Stream)', Lines'
    PROVE  IInv'
<1> USE DEF SaidOf
<1>1. /\ TypeOK /\ ServerInv /\ StreamInv /\ ClientInv /\ SuccessIsGranted /\ EventsFollowTheAnswer
      /\ m \in server.said /\ m \in Message /\ server.said \subseteq Message
    BY ServerIs DEF IInv, StreamInv, InOrder
<1>2. m.kind = "notification" => m.nr > 0
    BY <1>1 DEF ServerInv, Numbered
<1>3. /\ client' \in Client /\ Len(client'.events) <= MaxEvents /\ Alike
      /\ Ignores(m) \/ Shakes \/ TakesTheAnswer(m) \/ TakesTheEvent(m)
    BY <1>1, <1>2, TakingIs DEF ClientInv
<1>4. client' \in Client /\ client \in Client
    BY <1>1, <1>3 DEF TypeOK
<1>5. m.nr \in Nat /\ \A u \in server.said : u.nr \in Nat
    BY <1>1, MessageIs
<1>6. Unread' \subseteq server.said
    BY <1>1 DEF StreamInv, InOrder
<1>7. TypeOK'
    BY <1>1, <1>3 DEF TypeOK
<1>8. ServerInv'
  <2>1. Numbered' /\ WritesTheNewest'
      BY <1>1 DEF ServerInv, Numbered, WritesTheNewest
  <2>2. AnswersTheAsked'
    <3>1. client.id \in 0..2 /\ client'.id \in 0..2 /\ server.asked \subseteq Ids
        BY <1>1, <1>4, ClientIs, ServerIs
    <3>2. client'.id >= client.id /\ (client'.pc = "asking" => client'.id \notin server.asked)
          /\ client'.pc \notin {"start", "shaking"}
      <4>1. CASE Shakes
          BY <4>1, <1>1, <3>1 DEF Shakes, ServerInv, AnswersTheAsked
      <4>2. CASE TakesTheAnswer(m)
          BY <4>2, <1>1, <3>1 DEF TakesTheAnswer, ServerInv, AnswersTheAsked, Ids
      <4>3. CASE Ignores(m) \/ TakesTheEvent(m)
          BY <4>3, <3>1 DEF Ignores, TakesTheEvent
      <4> QED BY <1>3, <4>1, <4>2, <4>3
    <3> QED BY <1>1, <3>1, <3>2 DEF ServerInv, AnswersTheAsked, Ids
  <2>3. SilentIfUnreached'
      BY <1>3 DEF SilentIfUnreached, Ignores, Shakes, TakesTheAnswer, TakesTheEvent
  <2>4. ShakesFirst'
      BY <1>1, <1>3 DEF ServerInv, ShakesFirst, Framed, Shaken, Alike
  <2> QED BY <2>1, <2>2, <2>3, <2>4 DEF ServerInv
<1>9. StreamInv'
  <2>1. InOrder'
      BY <1>6 DEF InOrder
  <2>2. Later'
    <3> SUFFICES ASSUME NEW u \in Unread', u.kind = "notification"
                 PROVE  /\ \A i \in DOMAIN client'.events : client'.events[i] < u.nr
                        /\ client'.taken # NoMessage => client'.taken.nr < u.nr
        BY DEF Later
    <3>1. m.nr < u.nr /\ u \in Unread
        OBVIOUS
    <3>2. /\ \A i \in DOMAIN client.events : client.events[i] < u.nr
          /\ client.taken # NoMessage => client.taken.nr < u.nr
        BY <1>1, <3>1 DEF StreamInv, Later
    <3>3. CASE Ignores(m) \/ Shakes
        BY <3>2, <3>3 DEF Ignores, Shakes
    <3>4. CASE TakesTheAnswer(m)
        BY <3>1, <3>2, <3>4 DEF TakesTheAnswer
    <3>5. CASE TakesTheEvent(m)
      <4>1. m.kind = "notification"
          BY <3>5 DEF TakesTheEvent
      <4>2. PICK k \in Nat :
               /\ DOMAIN client.events = 1..k /\ (DOMAIN client.events)' = 1..(k + 1)
               /\ \A i \in 1..k : client'.events[i] = client.events[i]
               /\ client'.events[k + 1] = m.nr
          BY <4>1, <3>5, <1>1, <1>2, EventMore
      <4>3. \A i \in 1..(k + 1) : client'.events[i] < u.nr
        <5> SUFFICES ASSUME NEW i \in 1..(k + 1) PROVE client'.events[i] < u.nr
            OBVIOUS
        <5> i \in 1..k \/ i = k + 1
            OBVIOUS
        <5> QED BY <4>2, <3>1, <3>2
      <4> QED BY <4>2, <4>3, <3>2, <3>5 DEF TakesTheEvent
    <3> QED BY <1>3, <3>3, <3>4, <3>5
  <2>3. EarlierIsRead'
    <3> SUFFICES ASSUME client.by # "proxy", NEW n \in server.said, n.kind = "notification",
                        n \notin Unread', NEW u \in Unread'
                 PROVE  n.nr <= u.nr
        BY <1>3 DEF EarlierIsRead, Alike
    <3>1. CASE n = m
        BY <3>1
    <3>2. CASE n # m
        BY <3>2, <1>1 DEF StreamInv, EarlierIsRead
    <3> QED BY <3>1, <3>2
  <2> QED BY <2>1, <2>2, <2>3 DEF StreamInv
<1>10. Phases'
  <2> SUFFICES /\ client'.pc \in {"asking", "reading", "collecting", "closing"}
               /\ client'.pc # "closing" => client'.id >= 1 /\ client'.result = "none"
               /\ client'.pc \in {"reading", "collecting"} => client'.left > 0
               /\ client'.pc \in {"asking", "reading"} => client'.events = <<>>
               /\ client'.pc = "collecting" => client'.taken # NoMessage /\ Len(client'.events) < MaxEvents
               /\ client'.step # "kept" => client'.by = "proxy"
      BY DEF Phases, Waiting
  <2>1. /\ client.id >= 1 /\ client.result = "none" /\ client.left > 0
        /\ client.pc \in {"shaking", "asking", "reading"} => client.events = <<>>
        /\ client.pc = "collecting" => client.taken # NoMessage /\ Len(client.events) < MaxEvents
        /\ client.step # "kept" => client.by = "proxy"
      BY <1>1 DEF ClientInv, Phases, Waiting
  <2>2. client'.step # "kept" => client'.by = "proxy"
      BY <1>3, <2>1 DEF Alike
  <2>3. CASE Ignores(m)
      BY <2>1, <2>2, <2>3 DEF Ignores
  <2>4. CASE Shakes
      BY <2>1, <2>2, <2>4 DEF Shakes
  <2>5. CASE TakesTheAnswer(m)
    <3> m # NoMessage
        BY <1>1, MessageIs
    <3> Len(<<>>) < MaxEvents
        BY RpcAssumption
    <3> QED BY <2>1, <2>2, <2>5 DEF TakesTheAnswer
  <2>6. CASE TakesTheEvent(m)
      BY <2>1, <2>2, <2>6 DEF TakesTheEvent
  <2> QED BY <1>3, <2>3, <2>4, <2>5, <2>6
<1>11. TakesTheSent'
  <2>1. /\ client.taken # NoMessage => client.taken \in server.said
        /\ client.events # <<>> => client.taken # NoMessage
        /\ \A i \in DOMAIN client.events : \E u \in server.said : u.nr = client.events[i]
      BY <1>1 DEF ClientInv, TakesTheSent
  <2>2. CASE Ignores(m) \/ Shakes
      BY <2>1, <2>2 DEF Ignores, Shakes, TakesTheSent
  <2>3. CASE TakesTheAnswer(m)
    <3> m # NoMessage
        BY <1>1, MessageIs
    <3> QED BY <2>1, <2>3, <1>1 DEF TakesTheAnswer, TakesTheSent
  <2>4. CASE TakesTheEvent(m)
    <3>1. m.kind = "notification" /\ client'.taken = client.taken /\ client.taken # NoMessage
        BY <2>4, <1>1 DEF TakesTheEvent, ClientInv, Phases
    <3>2. PICK k \in Nat :
               /\ DOMAIN client.events = 1..k /\ (DOMAIN client.events)' = 1..(k + 1)
               /\ \A i \in 1..k : client'.events[i] = client.events[i]
               /\ client'.events[k + 1] = m.nr
        BY <3>1, <2>4, <1>1, <1>2, EventMore
    <3>3. \A i \in 1..(k + 1) : \E u \in server.said : u.nr = client'.events[i]
      <4> SUFFICES ASSUME NEW i \in 1..(k + 1) PROVE \E u \in server.said : u.nr = client'.events[i]
          OBVIOUS
      <4> i \in 1..k \/ i = k + 1
          OBVIOUS
      <4> QED BY <3>2, <2>1, <1>1
    <3> QED BY <2>1, <3>1, <3>2, <3>3 DEF TakesTheSent
  <2> QED BY <1>3, <2>2, <2>3, <2>4
<1>12. GrantedBefore' /\ SuccessIsGranted'
  <2>1. /\ client.id = 2 => Granted(1)
        /\ 2 \in server.asked => Granted(1)
        /\ client.result = "ok" \/ client.pc = "collecting" => Granted(client.id)
        /\ client.result = "none"
        /\ \A i : Granted(i) => Granted(i)'
      BY <1>1 DEF ClientInv, GrantedBefore, SuccessIsGranted, Granted, Phases, Waiting
  <2>2. CASE Ignores(m) \/ Shakes \/ TakesTheEvent(m)
      BY <2>1, <2>2 DEF Ignores, Shakes, TakesTheEvent, GrantedBefore, SuccessIsGranted, Granted
  <2>3. CASE TakesTheAnswer(m)
    <3>1. m.kind # "error" => Granted(client.id)
        BY <2>3, <1>1 DEF TakesTheAnswer, IsAnswer, Granted
    <3> QED BY <2>1, <2>3, <3>1 DEF TakesTheAnswer, GrantedBefore, SuccessIsGranted, Granted
  <2> QED BY <1>3, <2>2, <2>3
<1>13. AnswerIsThere'
  <2> SUFFICES ASSUME client'.pc = "reading", client'.step = "kept",
                      NEW a \in server.said, a.kind \in {"answer", "error"}, a.id = client'.id
               PROVE  a \in Unread'
      BY DEF AnswerIsThere
  <2>1. Ignores(m)
      BY <1>3 DEF Shakes, TakesTheAnswer, TakesTheEvent
  <2>2. a \in Unread
      BY <2>1, <1>1, <1>3 DEF Ignores, Alike, ClientInv, AnswerIsThere
  <2>3. a # m
      BY <2>1 DEF Ignores, IsAnswer
  <2> QED BY <2>2, <2>3
<1>14. AllCollected'
  <2> SUFFICES ASSUME client'.pc = "collecting", client.by # "proxy",
                      NEW n \in server.said, n.kind = "notification", client'.taken.nr < n.nr,
                      n \notin Unread'
               PROVE  \E j \in DOMAIN client'.events : client'.events[j] = n.nr
      BY <1>3 DEF AllCollected, Alike
  <2>1. CASE Ignores(m)
    <3>1. n # m /\ n \notin Unread
        BY <2>1 DEF Ignores, Collects
    <3> QED BY <2>1, <3>1, <1>1 DEF Ignores, ClientInv, AllCollected
  <2>2. CASE TakesTheAnswer(m)
    <3>1. n # m /\ client'.taken = m
        BY <2>2 DEF TakesTheAnswer, IsAnswer
    <3>2. n.nr <= m.nr
        BY <3>1, <1>1 DEF StreamInv, EarlierIsRead
    <3> QED BY <3>1, <3>2, <1>5
  <2>3. CASE TakesTheEvent(m)
    <3>1. m.kind = "notification" /\ client'.taken = client.taken /\ client.pc = "collecting"
        BY <2>3 DEF TakesTheEvent
    <3>2. PICK k \in Nat :
               /\ DOMAIN client.events = 1..k /\ (DOMAIN client.events)' = 1..(k + 1)
               /\ \A i \in 1..k : client'.events[i] = client.events[i]
               /\ client'.events[k + 1] = m.nr
        BY <3>1, <2>3, <1>1, <1>2, EventMore
    <3>3. n = m \/ \E j \in DOMAIN client.events : client.events[j] = n.nr
        BY <3>1, <1>1 DEF ClientInv, AllCollected
    <3> QED BY <3>2, <3>3
  <2> QED BY <1>3, <2>1, <2>2, <2>3 DEF Shakes
<1>15. EventsFollowTheAnswer'
  <2>1. CASE Ignores(m) \/ Shakes
      BY <2>1, <1>1, <1>3 DEF Ignores, Shakes, Alike, EventsFollowTheAnswer
  <2>2. CASE TakesTheAnswer(m)
    <3> DOMAIN client'.events = {}
        BY <2>2, <1>1, EmptySeq DEF TakesTheAnswer, ClientInv, Phases
    <3> QED BY DEF EventsFollowTheAnswer
  <2>3. CASE TakesTheEvent(m)
    <3>1. /\ m.kind = "notification" /\ client'.taken = client.taken /\ client.taken # NoMessage
          /\ client.pc = "collecting" /\ client'.by = client.by
        BY <2>3, <1>1, <1>3 DEF TakesTheEvent, ClientInv, Phases, Alike
    <3>2. PICK k \in Nat :
               /\ DOMAIN client.events = 1..k /\ (DOMAIN client.events)' = 1..(k + 1)
               /\ \A i \in 1..k : client'.events[i] = client.events[i] /\ client.events[i] \in Nat
               /\ client'.events[k + 1] = m.nr
        BY <3>1, <2>3, <1>1, <1>2, EventMore
    <3>3. /\ \A i \in 1..k : client.events[i] < m.nr
          /\ client.taken.nr < m.nr
        BY <3>1, <3>2, <1>1 DEF StreamInv, Later
    <3>4. /\ \A i, j \in 1..k : i < j => client.events[i] < client.events[j]
          /\ \A i \in 1..k : client.taken.nr < client.events[i]
          /\ client.by # "proxy" =>
                \A n \in server.said, i \in 1..k :
                    n.kind = "notification" /\ client.taken.nr < n.nr /\ n.nr < client.events[i] =>
                        \E j \in 1..k : client.events[j] = n.nr
        BY <3>2, <1>1 DEF EventsFollowTheAnswer
    <3>5. \A i, j \in 1..(k + 1) : i < j => client'.events[i] < client'.events[j]
      <4> SUFFICES ASSUME NEW i \in 1..(k + 1), NEW j \in 1..(k + 1), i < j
                   PROVE  client'.events[i] < client'.events[j]
          OBVIOUS
      <4> i \in 1..k /\ (j \in 1..k \/ j = k + 1)
          OBVIOUS
      <4> QED BY <3>2, <3>3, <3>4
    <3>6. \A i \in 1..(k + 1) : client'.taken # NoMessage /\ client'.taken.nr < client'.events[i]
      <4> SUFFICES ASSUME NEW i \in 1..(k + 1) PROVE client.taken.nr < client'.events[i]
          BY <3>1
      <4> i \in 1..k \/ i = k + 1
          OBVIOUS
      <4> QED BY <3>2, <3>3, <3>4
    <3>7. ASSUME client.by # "proxy", NEW n \in server.said, n.kind = "notification",
                 client.taken.nr < n.nr, NEW i \in 1..(k + 1), n.nr < client'.events[i]
          PROVE  \E j \in 1..(k + 1) : client'.events[j] = n.nr
      <4>1. CASE i \in 1..k
        <5> PICK j \in 1..k : client.events[j] = n.nr
            BY <4>1, <3>2, <3>4, <3>7
        <5> j \in 1..(k + 1)
            OBVIOUS
        <5> QED BY <3>2
      <4>2. CASE i = k + 1
        <5>1. n.nr < m.nr
            BY <4>2, <3>2, <3>7
        <5>2. n \notin Unread
            BY <5>1, <1>5
        <5>3. PICK j \in DOMAIN client.events : client.events[j] = n.nr
            BY <5>2, <3>1, <3>7, <1>1 DEF ClientInv, AllCollected
        <5> j \in 1..k /\ j \in 1..(k + 1)
            BY <5>3, <3>2
        <5> QED BY <5>3, <3>2
      <4> QED BY <4>1, <4>2
    <3> QED BY <3>1, <3>2, <3>5, <3>6, <3>7 DEF EventsFollowTheAnswer
  <2> QED BY <1>3, <2>1, <2>2, <2>3
<1> QED BY <1>7, <1>8, <1>9, <1>10, <1>11, <1>12, <1>13, <1>14, <1>15 DEF IInv, ClientInv, StreamInv

(* A step in which nothing is taken: the session stays where it is, *)
Stays == client'.pc = client.pc /\ client'.result = client.result /\ (Waiting => client'.left > 0)

(* or ends, *)
Ends == client'.pc = "closing" /\ (client'.result = "ok" => client.pc = "collecting")

(* or is on its way to be closed, *)
Closes ==
    /\ client.pc \in {"closing", "terminated"} /\ client'.pc \in {"terminated", "closed"}
    /\ client'.result = client.result
    /\ client'.pc = "closed" /\ Spawned => ~server'.up

TakesNothing ==
    /\ client' \in Client /\ client'.by = client.by /\ client'.id = client.id
    /\ client'.taken = client.taken /\ client'.events = client.events
    /\ Stays \/ Ends \/ Closes

(* while the server writes nothing and may die, *)
Rests ==
    /\ server' \in Server
    /\ server'.asked = server.asked /\ server'.said = server.said
    /\ server'.sent = server.sent /\ server'.writing = server.writing
    /\ server'.up => server.up

(* and of what is to be read only a client that is out of step loses some. *)
Loses ==
    /\ buf' \in Seq(Parts) /\ pipe' \in Seq(Parts) /\ Chronological(Stream)'
    /\ Unread' \subseteq Unread
    /\ Unread' # Unread => client.by = "proxy" /\ client'.step # "kept"
    /\ client'.step # "kept" => client.by = "proxy"
    /\ client'.step = "kept" => client.step = "kept"

LEMMA Proceeds ==
    ASSUME IInv, TakesNothing, Rests, Loses, Lines'
    PROVE  IInv'
<1> USE DEF SaidOf
<1>1. TypeOK /\ ServerInv /\ StreamInv /\ ClientInv /\ SuccessIsGranted /\ EventsFollowTheAnswer
    BY DEF IInv
<1>2. /\ client'.by = client.by /\ client'.id = client.id
      /\ client'.taken = client.taken /\ client'.events = client.events
      /\ server'.asked = server.asked /\ server'.said = server.said
      /\ server'.sent = server.sent /\ server'.writing = server.writing
      /\ Unread' \subseteq Unread /\ (client.by # "proxy" => Unread' = Unread)
    BY DEF TakesNothing, Rests, Loses
<1>3. Stays \/ Ends \/ Closes
    BY DEF TakesNothing
<1>4. TypeOK'
    BY <1>1 DEF TypeOK, TakesNothing, Rests, Loses
<1>5. ServerInv'
  <2>1. Numbered' /\ WritesTheNewest'
      BY <1>1, <1>2 DEF ServerInv, Numbered, WritesTheNewest
  <2>2. AnswersTheAsked'
      BY <1>1, <1>2, <1>3 DEF ServerInv, AnswersTheAsked, Stays, Ends, Closes
  <2>3. SilentIfUnreached'
      BY <1>1, <1>2, <1>3 DEF ServerInv, SilentIfUnreached, Stays, Ends, Closes, Rests, Spawned
  <2>4. ShakesFirst'
      BY <1>1, <1>2 DEF ServerInv, ShakesFirst, Framed, Shaken
  <2> QED BY <2>1, <2>2, <2>3, <2>4 DEF ServerInv
<1>6. StreamInv'
  <2>1. InOrder'
      BY <1>1, <1>2 DEF StreamInv, InOrder, Loses
  <2>2. Later'
      BY <1>1, <1>2 DEF StreamInv, Later
  <2>3. EarlierIsRead'
      BY <1>1, <1>2 DEF StreamInv, EarlierIsRead
  <2> QED BY <2>1, <2>2, <2>3 DEF StreamInv
<1>7. Phases'
    BY <1>1, <1>2, <1>3 DEF ClientInv, Phases, Waiting, Stays, Ends, Closes, Loses
<1>8. TakesTheSent'
    BY <1>1, <1>2 DEF ClientInv, TakesTheSent
<1>9. GrantedBefore' /\ SuccessIsGranted'
  <2>1. \A i : Granted(i)' <=> Granted(i)
      BY <1>2 DEF Granted
  <2>2. GrantedBefore'
      BY <1>1, <1>2, <2>1 DEF ClientInv, GrantedBefore, Granted
  <2>3. client'.result = "ok" \/ client'.pc = "collecting" =>
            client.result = "ok" \/ client.pc = "collecting"
      BY <1>3 DEF Stays, Ends, Closes
  <2>4. SuccessIsGranted'
      BY <1>1, <1>2, <2>1, <2>3 DEF SuccessIsGranted, Granted
  <2> QED BY <2>2, <2>4
<1>10. AnswerIsThere'
  <2> SUFFICES ASSUME client'.pc = "reading", client'.step = "kept"
               PROVE  client.pc = "reading" /\ client.step = "kept" /\ Unread' = Unread
      BY <1>1, <1>2 DEF ClientInv, AnswerIsThere
  <2> QED BY <1>3 DEF Stays, Ends, Closes, Loses
<1>11. AllCollected'
  <2> SUFFICES ASSUME client'.pc = "collecting" PROVE client.pc = "collecting"
      BY <1>1, <1>2 DEF ClientInv, AllCollected
  <2> QED BY <1>3 DEF Stays, Ends, Closes
<1>12. EventsFollowTheAnswer'
    BY <1>1, <1>2 DEF EventsFollowTheAnswer
<1> QED BY <1>4, <1>5, <1>6, <1>7, <1>8, <1>9, <1>10, <1>11, <1>12 DEF IInv, ClientInv, StreamInv

LEMMA StartKeeps == ASSUME IInv, Start PROVE IInv'
<1> USE DEF SaidOf
<1>1. /\ TypeOK /\ ServerInv /\ StreamInv /\ ClientInv /\ SuccessIsGranted /\ EventsFollowTheAnswer
      /\ client \in Client
    BY DEF IInv, TypeOK
<1>2. /\ client.pc = "start" /\ client.id = 0 /\ client.events = <<>> /\ client.result = "none"
      /\ client.step # "kept" => client.by = "proxy"
      /\ UNCHANGED <<pipe, buf, server>>
    BY <1>1 DEF Start, ClientInv, Phases
<1> DEFINE first == 1
<1>3. /\ first \in 0..2 /\ first = 1
      /\ Timeout \in 0..(Timeout + Duration) /\ Timeout > 0
    BY RpcAssumption
<1>4. /\ client' = [client EXCEPT !.pc = IF Framed THEN "shaking" ELSE "asking",
                                  !.id = first, !.left = Timeout]
      \/ client' = [client EXCEPT !.pc = "closed", !.result = "raised"]
    BY DEF Start
<1> HIDE DEF first
<1>5. /\ client' \in Client
      /\ client'.by = client.by /\ client'.taken = client.taken
      /\ client'.events = client.events /\ client'.step = client.step
      /\ \/ /\ client'.pc \in {"shaking", "asking"} /\ client'.id = 1
            /\ client'.left = Timeout /\ client'.result = client.result
         \/ /\ client'.pc = "closed" /\ client'.id = client.id /\ client'.result = "raised"
  <2>1. CASE client' = [client EXCEPT !.pc = IF Framed THEN "shaking" ELSE "asking",
                                      !.id = first, !.left = Timeout]
      BY <2>1, <1>1, <1>3 DEF Client, Steps
  <2>2. CASE client' = [client EXCEPT !.pc = "closed", !.result = "raised"]
      BY <2>2, <1>1 DEF Client, Steps, Results
  <2> QED BY <1>4, <2>1, <2>2
<1>6. TypeOK'
    BY <1>1, <1>2, <1>5 DEF TypeOK
<1>7. server.asked = {} /\ server.writing = NoMessage
    BY <1>1, <1>2, ServerIs DEF ServerInv, AnswersTheAsked, SilentIfUnreached, Ids
<1>8. Stream' = Stream /\ Unread' = Unread
    BY <1>2 DEF Stream, Unread
<1>9. ServerInv'
    BY <1>1, <1>2, <1>5, <1>7 DEF ServerInv, Numbered, WritesTheNewest, AnswersTheAsked,
                                  SilentIfUnreached, ShakesFirst, Framed, Shaken
<1>10. StreamInv'
    BY <1>1, <1>2, <1>5, <1>8 DEF StreamInv, InOrder, Later, EarlierIsRead, Lines
<1>11. ClientInv'
  <2>1. Phases'
      BY <1>2, <1>3, <1>5 DEF Phases, Waiting
  <2>2. TakesTheSent' /\ GrantedBefore' /\ AnswerIsThere' /\ AllCollected'
      BY <1>1, <1>2, <1>5 DEF ClientInv, TakesTheSent, GrantedBefore, AnswerIsThere, AllCollected
  <2> QED BY <2>1, <2>2 DEF ClientInv
<1>12. SuccessIsGranted' /\ EventsFollowTheAnswer'
    BY <1>1, <1>2, <1>5, <1>7 DEF SuccessIsGranted, EventsFollowTheAnswer
<1> QED BY <1>6, <1>9, <1>10, <1>11, <1>12 DEF IInv

(* A request is made.                                                      *)
LEMMA AskKeeps == ASSUME IInv, Ask PROVE IInv'
<1> USE DEF SaidOf
<1>1. /\ TypeOK /\ ServerInv /\ StreamInv /\ ClientInv /\ SuccessIsGranted /\ EventsFollowTheAnswer
      /\ client \in Client /\ server \in Server
    BY DEF IInv, TypeOK
<1>2. /\ client.pc = "asking" /\ client.events = <<>> /\ client.id \in Ids /\ client.result = "none"
      /\ client.step # "kept" => client.by = "proxy"
      /\ UNCHANGED <<pipe, buf>>
  <2> client.id \in 0..2
      BY <1>1, ClientIs
  <2> QED BY <1>1 DEF Ask, ClientInv, Phases, Ids
<1>3. Stream' = Stream /\ Unread' = Unread
    BY <1>2 DEF Stream, Unread
<1>4. CASE Close(client, "raised") /\ UNCHANGED server
  <2>1. "raised" \in Results
      BY DEF Results
  <2>2. TakesNothing
      BY <2>1, <1>1, <1>4, Closing DEF TakesNothing, Ends
  <2>3. Rests
      BY <1>1, <1>4 DEF Rests
  <2>4. Loses
      BY <2>1, <1>1, <1>2, <1>3, <1>4, Closing DEF Loses, TypeOK, StreamInv, InOrder
  <2>5. Lines'
      BY <1>1, <1>3, <1>4, <2>2 DEF TakesNothing, StreamInv, Lines
  <2> QED BY <2>2, <2>3, <2>4, <2>5, Proceeds
<1>5. CASE /\ server' = IF server.up THEN [server EXCEPT !.asked = @ \cup {client.id}] ELSE server
           /\ client' = [client EXCEPT !.pc = "reading", !.left = Timeout]
  <2>1. Timeout \in 0..(Timeout + Duration) /\ Timeout > 0
      BY RpcAssumption
  <2>2. /\ client' \in Client
        /\ client'.by = client.by /\ client'.taken = client.taken /\ client'.id = client.id
        /\ client'.events = client.events /\ client'.step = client.step
        /\ client'.pc = "reading" /\ client'.left = Timeout /\ client'.result = client.result
      BY <2>1, <1>1, <1>5 DEF Client, Steps
  <2>3. /\ server' \in Server
        /\ server'.said = server.said /\ server'.sent = server.sent
        /\ server'.writing = server.writing /\ server'.up = server.up
        /\ server.asked \subseteq server'.asked /\ server'.asked \subseteq server.asked \cup {client.id}
    <3>1. CASE server.up
      <4> DEFINE asked == server.asked \cup {client.id}
      <4>1. server' = [server EXCEPT !.asked = asked]
          BY <3>1, <1>5
      <4>2. asked \in SUBSET Ids /\ asked = server.asked \cup {client.id}
          BY <1>1, <1>2, ServerIs
      <4> HIDE DEF asked
      <4> QED BY <4>1, <4>2, <1>1 DEF Server
    <3>2. CASE ~server.up
        BY <3>2, <1>1, <1>5
    <3> QED BY <3>1, <3>2
  <2>4. TypeOK'
      BY <2>2, <2>3, <1>1, <1>2 DEF TypeOK
  <2>5. ServerInv'
    <3>1. Numbered' /\ WritesTheNewest'
        BY <1>1, <2>3 DEF ServerInv, Numbered, WritesTheNewest
    <3>2. AnswersTheAsked'
        BY <1>1, <1>2, <2>2, <2>3 DEF ServerInv, AnswersTheAsked, Ids
    <3>3. SilentIfUnreached' /\ ShakesFirst'
        BY <1>1, <2>2, <2>3 DEF ServerInv, SilentIfUnreached, ShakesFirst, Framed, Shaken
    <3> QED BY <3>1, <3>2, <3>3 DEF ServerInv
  <2>6. StreamInv'
      BY <1>1, <1>3, <2>2, <2>3 DEF StreamInv, InOrder, Later, EarlierIsRead, Lines
  <2>7. ClientInv'
    <3>1. Phases'
        BY <1>1, <1>2, <2>1, <2>2 DEF ClientInv, Phases, Waiting, Ids
    <3>2. TakesTheSent' /\ AllCollected'
        BY <1>1, <2>2, <2>3 DEF ClientInv, TakesTheSent, AllCollected
    <3>3. GrantedBefore'
        BY <1>1, <2>2, <2>3 DEF ClientInv, GrantedBefore, Granted
    <3>4. AnswerIsThere'
        BY <1>1, <1>2, <2>2, <2>3 DEF AnswerIsThere, ServerInv, AnswersTheAsked
    <3> QED BY <3>1, <3>2, <3>3, <3>4 DEF ClientInv
  <2>8. SuccessIsGranted'
      BY <1>1, <1>2, <2>2, <2>3 DEF SuccessIsGranted, Granted, ClientInv, GrantedBefore
  <2>9. EventsFollowTheAnswer'
      BY <1>1, <2>2, <2>3 DEF EventsFollowTheAnswer
  <2> QED BY <2>4, <2>5, <2>6, <2>7, <2>8, <2>9 DEF IInv
<1> QED BY <1>4, <1>5 DEF Ask

(* A line is read, or the start of one, or the process is gone.            *)
LEMMA ReadLineKeeps == ASSUME IInv, ReadLine PROVE IInv'
<1>1. /\ TypeOK /\ ServerInv /\ StreamInv /\ ClientInv
      /\ client \in Client /\ server \in Server /\ pipe \in Seq(Parts) /\ buf \in Seq(Parts)
      /\ server' = server /\ client.by = "stdio" /\ Waiting
      /\ pipe' = IF IsLine(buf) THEN pipe ELSE <<>>
    BY ClientIs DEF IInv, TypeOK, ReadLine, Framed
<1>2. Ruled(Stream) /\ Chronological(Stream) /\ Unread \subseteq server.said
      /\ Stream \in Seq(Parts) /\ pipe' \in Seq(Parts)
      /\ (server.up => (server.writing # NoMessage <=> Begun(Stream)))
    BY <1>1, StreamIs, EmptySeq DEF StreamInv, InOrder, Lines
<1> DEFINE text == IF IsLine(buf) THEN buf ELSE buf \o pipe
<1>3. CASE IsLine(text)
  <2>1. /\ Taking(text[2].m)
        /\ buf' = SubSeq(text, 3, Len(text))
      BY <1>3 DEF ReadLine, Taking
  <2> (IsLine(buf) => text = buf) /\ (~IsLine(buf) => text = buf \o pipe)
      OBVIOUS
  <2> HIDE DEF text
  <2>2. /\ Stream # <<>> /\ Tail(Stream) # <<>> /\ Tail(Stream) \in Seq(Parts)
        /\ IsLine(buf) => SubSeq(text, 3, Len(text)) \o pipe = Tail(Tail(Stream))
        /\ ~IsLine(buf) => SubSeq(text, 3, Len(text)) \o <<>> = Tail(Tail(Stream))
        /\ SubSeq(text, 3, Len(text)) \in Seq(Parts)
        /\ Stream[1].part = "head"
        /\ Tail(Stream)[1] = text[2] /\ text[2].part = "rest" /\ text[2] \in Parts
    <3> IsFirst(text, buf, pipe)
        BY <1>1, <1>3, FirstLine
    <3> QED BY DEF IsFirst, Stream
  <2> DEFINE m == text[2].m
  <2>3. Stream' = Tail(Tail(Stream))
      BY <1>1, <2>1, <2>2 DEF Stream
  <2>4. Complete(Stream) = Complete(Tail(Stream)) /\ Chronological(Tail(Stream))
      BY <1>2, <2>2, DropOne
  <2>5. /\ Complete(Tail(Stream)) = Complete(Stream') \cup {m}
        /\ Chronological(Stream')
        /\ \A u \in Complete(Stream') : m.nr <= u.nr /\ (u.kind = "notification" => m.nr < u.nr)
      BY <2>2, <2>3, <2>4, DropOne
  <2>6. Unread' = Complete(Stream') /\ Unread = Unread' \cup {m} /\ m \in Unread
      BY <2>4, <2>5 DEF Unread
  <2>7. Ruled(Stream') /\ (Begun(Stream') <=> Begun(Stream))
      BY <1>2, <2>2, <2>3, DropLine
  <2>8. Lines' /\ Chronological(Stream)'
      BY <1>1, <1>2, <2>5, <2>7 DEF Lines, Ruled, Begun, Chronological
  <2> QED BY <1>1, <1>2, <2>1, <2>2, <2>5, <2>6, <2>8, Understands
<1>4. CASE ~IsLine(text)
  <2>1. ~IsLine(buf) /\ text = Stream
      BY <1>4 DEF Stream
  <2>2. pipe' = <<>>
      BY <1>1, <2>1
  <2>3. CASE ~server.up
    <3>1. client' = [client EXCEPT !.held = NoMessage] /\ buf' = <<>>
        BY <1>4, <2>3 DEF ReadLine
    <3>2. Stream' = <<>> /\ buf' \in Seq(Parts)
        BY <2>2, <3>1, EmptySeq, ConcatEmptySeq DEF Stream
    <3>3. Unread = {}
        BY <1>2, <1>4, <2>1, NoLine DEF Unread
    <3>4. Unread' = {} /\ Chronological(Stream)' /\ Lines'
        BY <3>2, <1>1, <2>3, Empty DEF Unread, Lines, Ruled, Chronological, Begun
    <3>5. TakesNothing /\ client'.step = client.step
        BY <3>1, <1>1, Forgetting DEF Forgets, TakesNothing, Stays, ClientInv, Phases
    <3>6. Rests
        BY <1>1 DEF Rests
    <3>7. Loses
        BY <3>2, <3>3, <3>4, <3>5, <1>1, <1>2 DEF Loses, ClientInv, Phases
    <3> QED BY <3>4, <3>5, <3>6, <3>7, Proceeds
  <2>4. CASE server.up
    <3>1. text # <<>> /\ client' = [client EXCEPT !.held = text[1].m] /\ buf' = text
        BY <1>4, <2>4 DEF ReadLine
    <3>2. Stream' = Stream /\ buf' \in Seq(Parts) /\ Stream # <<>>
        BY <2>1, <2>2, <3>1, <1>2, ConcatEmptySeq DEF Stream
    <3>3. Stream[1] \in Parts
      <4> 1 \in 1..Len(Stream)
          BY <3>2, <1>2, EmptySeq
      <4> QED BY <1>2, ElementOfSeq
    <3>4. text[1].m \in Message
        BY <3>3, <2>1 DEF Parts
    <3> HIDE DEF text
    <3>5. TakesNothing /\ client'.step = client.step
        BY <3>1, <3>4, <1>1 DEF Client, TakesNothing, Stays, ClientInv, Phases
    <3>6. Rests
        BY <1>1 DEF Rests
    <3>7. Unread' = Unread /\ Chronological(Stream)' /\ Lines'
        BY <3>2, <3>5, <1>1, <1>2 DEF Unread, Lines, TakesNothing
    <3>8. Loses
        BY <3>2, <3>5, <3>7, <1>1, <1>2 DEF Loses, ClientInv, Phases
    <3> QED BY <3>5, <3>6, <3>7, <3>8, Proceeds
  <2> QED BY <2>3, <2>4
<1> QED BY <1>3, <1>4

(* What has arrived is moved to where frames are read from.                *)
LEMMA ReceiveKeeps == ASSUME IInv, Receive PROVE IInv'
<1>1. /\ TypeOK /\ StreamInv /\ ClientInv
      /\ client \in Client /\ server \in Server /\ pipe \in Seq(Parts) /\ buf \in Seq(Parts)
    BY DEF IInv, TypeOK
<1>2. buf = <<>> /\ buf' = pipe /\ pipe' = <<>> /\ client' = client /\ server' = server
    BY DEF Receive
<1>3. Stream' = Stream
    BY <1>1, <1>2, ConcatEmptySeq DEF Stream
<1>4. TakesNothing /\ Rests
    BY <1>1, <1>2 DEF TakesNothing, Stays, Rests, ClientInv, Phases
<1>5. Unread' = Unread /\ Chronological(Stream)' /\ Lines'
    BY <1>1, <1>2, <1>3 DEF Unread, StreamInv, InOrder, Lines
<1>6. Loses
    BY <1>1, <1>2, <1>5, EmptySeq DEF Loses, ClientInv, Phases
<1> QED BY <1>4, <1>5, <1>6, Proceeds

(* A header is read, or a message.                                         *)
LEMMA ReadFrameKeeps == ASSUME IInv, ReadFrame PROVE IInv'
<1>1. /\ TypeOK /\ StreamInv /\ ClientInv
      /\ client \in Client /\ server \in Server /\ pipe \in Seq(Parts) /\ buf \in Seq(Parts)
    BY DEF IInv, TypeOK
<1>2. /\ Waiting /\ client.by # "stdio" /\ buf # <<>>
      /\ buf' = Tail(buf) /\ pipe' = pipe /\ server' = server
    BY DEF ReadFrame, Framed
<1>3. /\ buf' \in Seq(Parts) /\ Stream \in Seq(Parts) /\ Stream # <<>>
      /\ Stream' = Tail(Stream) /\ Head(buf) = Stream[1] /\ Head(buf) \in Parts
    BY <1>1, <1>2, TailOfConcat DEF Stream
<1>4. Chronological(Stream) /\ Unread \subseteq server.said
    BY <1>1 DEF StreamInv, InOrder
<1> DEFINE part == Head(buf)
<1>5. part.m \in Message /\ part.part \in {"head", "rest"}
    BY <1>3 DEF Parts
<1>6. /\ Unread = Unread' \cup (IF part.part = "rest" THEN {part.m} ELSE {})
      /\ Chronological(Stream)'
      /\ part.part = "rest" =>
            \A u \in Unread' : part.m.nr <= u.nr /\ (u.kind = "notification" => part.m.nr < u.nr)
  <2>1. Unread' = Complete(Tail(Stream)) /\ (Chronological(Stream)' <=> Chronological(Tail(Stream)))
      BY <1>3 DEF Unread, Complete, Chronological
  <2> QED BY <2>1, <1>3, <1>4, DropOne DEF Unread
<1> HIDE DEF part
<1>7. CASE part.part = "head"
  <2>1. client' = [client EXCEPT !.held = part.m]
      BY <1>7 DEF ReadFrame, part
  <2>2. TakesNothing /\ client'.step = client.step
      BY <2>1, <1>1, <1>5 DEF Client, TakesNothing, Stays, ClientInv, Phases
  <2>3. Rests
      BY <1>1, <1>2 DEF Rests
  <2>4. Loses
      BY <2>2, <1>1, <1>2, <1>3, <1>6, <1>7 DEF Loses, ClientInv, Phases
  <2>5. Lines'
      BY <2>2, <1>2 DEF Lines, TakesNothing
  <2> QED BY <2>2, <2>3, <2>4, <2>5, Proceeds
<1>8. CASE part.part = "rest"
  <2>1. Taking(part.m)
      BY <1>8 DEF ReadFrame, Taking, part
  <2>2. part.m \in Unread /\ Unread' \subseteq Unread /\ Unread \subseteq Unread' \cup {part.m}
      BY <1>6, <1>8
  <2>3. Lines'
    <3> part.m.kind = "notification" => part.m.nr > 0
        BY <2>2, <1>4 DEF IInv, ServerInv, Numbered
    <3> Alike
        BY <2>1, <1>1, <1>2, <1>5, TakingIs DEF ClientInv
    <3> QED BY <1>2 DEF Lines, Alike
  <2> QED BY <2>1, <2>2, <2>3, <1>1, <1>2, <1>3, <1>6, <1>8, Understands
<1> QED BY <1>5, <1>7, <1>8

(* Out of step, the client drops a part, or finds a header.                *)
LEMMA ReadGarbageKeeps == ASSUME IInv, ReadGarbage PROVE IInv'
<1>1. /\ TypeOK /\ StreamInv /\ ClientInv
      /\ client \in Client /\ server \in Server /\ pipe \in Seq(Parts) /\ buf \in Seq(Parts)
    BY DEF IInv, TypeOK
<1>2. /\ client.step = "lost" /\ client.by = "proxy" /\ buf # <<>>
      /\ pipe' = pipe /\ server' = server
    BY <1>1 DEF ReadGarbage, ClientInv, Phases
<1>3. Rests
    BY <1>1, <1>2 DEF Rests
<1>4. CASE buf' = Tail(buf) /\ client' = client
  <2>1. TakesNothing
      BY <1>1, <1>4 DEF TakesNothing, Stays, ClientInv, Phases
  <2>2. /\ buf' \in Seq(Parts) /\ Stream \in Seq(Parts) /\ Stream # <<>> /\ Stream' = Tail(Stream)
      BY <1>1, <1>2, <1>4, TailOfConcat DEF Stream
  <2>3. Unread' = Complete(Tail(Stream)) /\ (Chronological(Stream)' <=> Chronological(Tail(Stream)))
      BY <2>2 DEF Unread, Complete, Chronological
  <2>4. Unread' \subseteq Unread /\ Chronological(Stream)'
      BY <2>2, <2>3, <1>1, DropOne DEF Unread, StreamInv, InOrder
  <2>5. Loses /\ Lines'
      BY <2>2, <2>4, <1>1, <1>2, <1>4 DEF Loses, Lines
  <2> QED BY <2>1, <2>5, <1>3, Proceeds
<1>5. CASE client' = [client EXCEPT !.step = "regained"] /\ buf' = buf
  <2>1. TakesNothing /\ client'.step = "regained"
      BY <1>1, <1>5 DEF Client, TakesNothing, Stays, ClientInv, Phases
  <2>2. Unread' = Unread /\ Chronological(Stream)'
      BY <1>1, <1>2, <1>5 DEF Unread, Stream, StreamInv, InOrder
  <2>3. Loses /\ Lines'
      BY <2>1, <2>2, <1>1, <1>2, <1>5 DEF Loses, Lines, TakesNothing
  <2> QED BY <2>1, <2>3, <1>3, Proceeds
<1> QED BY <1>4, <1>5 DEF ReadGarbage

(* Steps that leave the stream and the server alone, or end the server.    *)
LEMMA Aside ==
    ASSUME IInv, TakesNothing, Rests, UNCHANGED <<pipe, buf>>,
           client'.step = client.step \/ (client.by = "proxy" /\ client'.step # "kept")
    PROVE  IInv'
<1>1. /\ TypeOK /\ StreamInv /\ ClientInv /\ pipe \in Seq(Parts) /\ buf \in Seq(Parts)
    BY DEF IInv, TypeOK
<1>2. Unread' = Unread /\ Stream' = Stream /\ Chronological(Stream)'
    BY <1>1 DEF Unread, Stream, StreamInv, InOrder
<1>3. Loses
    BY <1>1, <1>2 DEF Loses, ClientInv, Phases
<1>4. Lines'
    BY <1>1, <1>2 DEF Lines, StreamInv, Rests, TakesNothing
<1> QED BY <1>3, <1>4, Proceeds

LEMMA ReadRaisesKeeps == ASSUME IInv, ReadRaises PROVE IInv'
<1>1. client \in Client /\ server \in Server /\ "raised" \in Results
    BY DEF IInv, TypeOK, Results
<1>2. Close(client, "raised") /\ UNCHANGED <<pipe, buf, server>>
    BY DEF ReadRaises
<1>3. TakesNothing /\ client'.step = client.step
    BY <1>1, <1>2, Closing DEF TakesNothing, Ends
<1>4. Rests
    BY <1>1, <1>2 DEF Rests
<1> QED BY <1>2, <1>3, <1>4, Aside

(* The transport is closed, and what it spawned is ended.                  *)
LEMMA CloseKeeps == ASSUME IInv, CloseTransport \/ Reap PROVE IInv'
<1>1. client \in Client /\ server \in Server
    BY DEF IInv, TypeOK
<1>2. UNCHANGED <<pipe, buf>> /\ client.pc \in {"closing", "terminated"}
    BY DEF CloseTransport, Reap
<1>3. Rests /\ (Spawned => server' = server \/ ~server'.up)
    BY <1>1 DEF CloseTransport, Reap, Rests, Server
<1>4. PICK pc \in {"terminated", "closed"} :
          /\ client' = [client EXCEPT !.pc = pc]
          /\ pc = "closed" /\ Spawned => ~server'.up
    BY <1>1 DEF CloseTransport, Reap, Closed, Server
<1>5. TakesNothing /\ client'.step = client.step
    BY <1>1, <1>2, <1>4 DEF Client, Steps, TakesNothing, Closes
<1> QED BY <1>2, <1>3, <1>5, Aside

LEMMA ServerDiesKeeps == ASSUME IInv, ServerDies PROVE IInv'
<1>1. client \in Client /\ server \in Server /\ ClientInv
    BY DEF IInv, TypeOK
<1>2. UNCHANGED <<pipe, buf, client>>
    BY DEF ServerDies
<1>3. Rests
    BY <1>1 DEF ServerDies, Rests, Server
<1>4. TakesNothing
    BY <1>1, <1>2 DEF TakesNothing, Stays, ClientInv, Phases
<1> QED BY <1>2, <1>3, <1>4, Aside

(* A slice of time passes.                                                 *)
Waits == client'.pc = client.pc /\ client'.result = client.result /\ client'.left > 0
GivesUp ==
    /\ client'.pc = "closing"
    /\ client'.result = "ok" => client.pc = "collecting"
    /\ client'.result = "timedOut" => client.pc = "reading" /\ client.id # 1

LEMMA TickIs ==
    ASSUME IInv, Tick
    PROVE  /\ client' \in Client /\ client'.by = client.by /\ client'.id = client.id
           /\ client'.taken = client.taken /\ client'.events = client.events
           /\ client'.step = client.step \/ (client.by = "proxy" /\ client'.step = "lost")
           /\ Waits \/ GivesUp
<1>1. client \in Client /\ client.left \in Nat \ {0} /\ client.left \in 0..(Timeout + Duration) /\ Waiting
    BY ClientIs DEF IInv, TypeOK, ClientInv, Phases, Tick
<1> DEFINE left == client.left - 1
           d == [client EXCEPT !.left = left]
           c == Missed(d)
<1>2. left \in 0..(Timeout + Duration) /\ left \in Nat
    BY <1>1, RpcAssumption
<1>3. IF c.left = 0 \/ (c.pc = "shaking" /\ c.by = "proxy") THEN GiveUp(c) ELSE client' = c
    BY <1>1 DEF Tick, Client
<1> HIDE DEF left
<1>4. /\ d \in Client /\ d.left = left
      /\ d.by = client.by /\ d.pc = client.pc /\ d.id = client.id /\ d.result = client.result
      /\ d.taken = client.taken /\ d.events = client.events /\ d.step = client.step
    BY <1>1, <1>2 DEF Client
<1> HIDE DEF d
<1>5. /\ c \in Client /\ c.left = d.left
      /\ c.by = d.by /\ c.pc = d.pc /\ c.id = d.id /\ c.result = d.result
      /\ c.taken = d.taken /\ c.events = d.events
      /\ c.step = d.step \/ (d.by = "proxy" /\ c.step = "lost")
  <2>1. CASE d.by = "proxy" /\ d.held # NoMessage
    <3>1. c = [d EXCEPT !.step = "lost", !.held = NoMessage]
        BY <2>1 DEF Missed
    <3> HIDE DEF c
    <3> QED BY <3>1, <2>1, <1>4 DEF Client
  <2>2. CASE ~(d.by = "proxy" /\ d.held # NoMessage)
      BY <2>2, <1>4 DEF Missed
  <2> QED BY <2>1, <2>2
<1> HIDE DEF c
<1>6. CASE client' = c /\ c.left # 0
    BY <1>2, <1>4, <1>5, <1>6 DEF Waits
<1>7. CASE GiveUp(c)
  <2>1. PICK r \in {"ok", "raised", "timedOut"} :
            /\ Close(c, r)
            /\ r = "ok" => c.pc = "collecting"
            /\ r = "timedOut" => c.pc \notin {"collecting", "shaking"} /\ c.id # 1
      BY <1>7 DEF GiveUp
  <2>2. r \in Results
      BY DEF Results
  <2>3. /\ client' \in Client /\ client'.pc = "closing" /\ client'.result = r
        /\ client'.by = c.by /\ client'.id = c.id
        /\ client'.taken = c.taken /\ client'.events = c.events /\ client'.step = c.step
      BY <2>1, <2>2, <1>5, Closing
  <2>4. GivesUp
      BY <2>1, <2>3, <1>1, <1>4, <1>5 DEF GivesUp, Waiting
  <2> QED BY <2>3, <2>4, <1>4, <1>5
<1> QED BY <1>3, <1>6, <1>7

LEMMA TickKeeps == ASSUME IInv, Tick PROVE IInv'
<1>1. UNCHANGED <<pipe, buf, server>> /\ server \in Server
    BY DEF Tick, IInv, TypeOK
<1>2. Rests
    BY <1>1 DEF Rests
<1>3. TakesNothing /\ (client'.step = client.step \/ (client.by = "proxy" /\ client'.step # "kept"))
    BY TickIs DEF TakesNothing, Waits, GivesUp, Stays, Ends
<1> QED BY <1>1, <1>2, <1>3, Aside

(* The server begins a message.                                            *)
LEMMA WritesKeeps ==
    ASSUME IInv, CanWrite, NEW m \in Message, Writes(m),
           IF m.kind = "notification" THEN m = Notice(server.sent + 1) ELSE m.nr = server.sent,
           m.kind \in {"answer", "error"} => m.id \in server.asked,
           Framed /\ ~Shaken => m.kind \in {"upgrade", "refusal"}
    PROVE  IInv'
<1> USE DEF SaidOf
<1>1. /\ TypeOK /\ ServerInv /\ StreamInv /\ ClientInv /\ SuccessIsGranted /\ EventsFollowTheAnswer
      /\ server \in Server /\ pipe \in Seq(Parts) /\ buf \in Seq(Parts)
      /\ server.sent \in Nat /\ server.said \subseteq Message
    BY ServerIs DEF IInv, TypeOK
<1>2. /\ server.up /\ server.writing = NoMessage
      /\ client.pc \notin {"start", "closing", "terminated", "closed"}
      /\ client' = client /\ buf' = buf
    BY DEF CanWrite, Writes
<1>3. /\ m.nr \in 0..MaxMessages /\ m.nr \in Nat /\ m # NoMessage
      /\ m.kind = "notification" => m.nr = server.sent + 1
    BY MessageIs DEF Notice
<1>4. /\ server' \in Server
      /\ server'.writing = m /\ server'.sent = m.nr
      /\ server'.asked = server.asked /\ server'.said = server.said /\ server'.up = server.up
  <2> DEFINE nr == m.nr
  <2>1. server' = [server EXCEPT !.writing = m, !.sent = nr]
      BY DEF Writes
  <2>2. nr \in 0..MaxMessages
      BY <1>3
  <2> HIDE DEF nr
  <2>3. /\ server' \in Server
        /\ server'.writing = m /\ server'.sent = nr
        /\ server'.asked = server.asked /\ server'.said = server.said /\ server'.up = server.up
      BY <2>1, <2>2, <1>1 DEF Server
  <2> QED BY <2>3 DEF nr
<1> DEFINE p == [m |-> m, part |-> "head"]
<1>5. p \in Parts /\ p.part = "head" /\ p.m = m
    BY DEF Parts
<1>6. Stream' = Append(Stream, p) /\ pipe' \in Seq(Parts) /\ Stream \in Seq(Parts)
    BY <1>1, <1>2, <1>5, AppendToConcat, ConcatProperties DEF Stream, Writes
<1> HIDE DEF p
<1>7. /\ Complete(Append(Stream, p)) = Complete(Stream)
      /\ Chronological(Append(Stream, p))
      /\ Ruled(Stream) /\ ~Begun(Stream) => Ruled(Append(Stream, p))
      /\ Begun(Append(Stream, p))
    BY <1>1, <1>5, <1>6, AppendHead DEF StreamInv, InOrder
<1>8. /\ Unread' = Unread /\ Chronological(Stream)'
      /\ Ruled(Stream)' <=> Ruled(Append(Stream, p))
      /\ Begun(Stream)'
  <2>1. Unread' = Complete(Stream')
      BY DEF Unread, Complete
  <2>2. Chronological(Stream)' <=> Chronological(Stream')
      BY DEF Chronological
  <2>3. (Ruled(Stream)' <=> Ruled(Stream')) /\ (Begun(Stream)' <=> Begun(Stream'))
      BY DEF Ruled, Begun
  <2> QED BY <2>1, <2>2, <2>3, <1>6, <1>7 DEF Unread
<1>9. TypeOK'
    BY <1>1, <1>2, <1>4, <1>6 DEF TypeOK
<1>10. ServerInv'
  <2>1. Numbered'
    <3>1. ASSUME NEW n \in 1..m.nr PROVE Notice(n) \in server.said \cup {m}
      <4>1. CASE n <= server.sent
        <5>1. n \in 1..server.sent
            BY <4>1, <1>1, <1>3
        <5>2. Notice(n) # NoMessage
            BY DEF Notice, NoMessage
        <5> QED BY <5>1, <5>2, <1>1, <1>2 DEF ServerInv, Numbered
      <4>2. CASE ~(n <= server.sent)
          BY <4>2, <1>1, <1>3
      <4> QED BY <4>1, <4>2
    <3>2. \A u \in server.said : u.nr <= m.nr /\ (u.kind = "notification" => u.nr > 0)
      <4> SUFFICES ASSUME NEW u \in server.said PROVE u.nr <= m.nr /\ (u.kind = "notification" => u.nr > 0)
          OBVIOUS
      <4> u.nr \in Nat /\ u.nr <= server.sent /\ (u.kind = "notification" => u.nr > 0)
          BY <1>1, MessageIs DEF ServerInv, Numbered
      <4> QED BY <1>1, <1>3
    <3> QED BY <3>1, <3>2, <1>1, <1>4 DEF ServerInv, Numbered
  <2>2. WritesTheNewest'
    <3> SUFFICES ASSUME m.kind = "notification"
                 PROVE  m.nr > 0 /\ \A u \in server.said : u.nr < m.nr
        BY <1>4 DEF WritesTheNewest
    <3> SUFFICES ASSUME NEW u \in server.said PROVE u.nr < m.nr
        BY <1>1, <1>3
    <3> u.nr \in Nat /\ u.nr <= server.sent
        BY <1>1, MessageIs DEF ServerInv, Numbered
    <3> QED BY <1>1, <1>3
  <2>3. AnswersTheAsked'
      BY <1>1, <1>2, <1>4 DEF ServerInv, AnswersTheAsked
  <2>4. SilentIfUnreached'
      BY <1>2 DEF SilentIfUnreached
  <2>5. ShakesFirst'
      BY <1>1, <1>2, <1>4 DEF ServerInv, ShakesFirst, Framed, Shaken
  <2> QED BY <2>1, <2>2, <2>3, <2>4, <2>5 DEF ServerInv
<1>11. StreamInv'
  <2>1. InOrder' /\ Later' /\ EarlierIsRead'
      BY <1>1, <1>2, <1>4, <1>8 DEF StreamInv, InOrder, Later, EarlierIsRead
  <2>2. Lines'
      BY <1>1, <1>2, <1>3, <1>4, <1>7, <1>8 DEF StreamInv, Lines
  <2> QED BY <2>1, <2>2 DEF StreamInv
<1>12. ClientInv'
    BY <1>1, <1>2, <1>4, <1>8 DEF ClientInv, Phases, Waiting, TakesTheSent, GrantedBefore, Granted,
                                  AnswerIsThere, AllCollected
<1>13. SuccessIsGranted' /\ EventsFollowTheAnswer'
    BY <1>1, <1>2, <1>4 DEF SuccessIsGranted, Granted, EventsFollowTheAnswer
<1> QED BY <1>9, <1>10, <1>11, <1>12, <1>13 DEF IInv

LEMMA ServerShakesKeeps == ASSUME IInv, ServerShakes PROVE IInv'
<1>1. PICK kind \in {"upgrade", "refusal"} : Writes([kind |-> kind, id |-> None, nr |-> 0])
    BY DEF ServerShakes
<1> DEFINE m == [kind |-> kind, id |-> None, nr |-> 0]
<1>2. 0 \in 0..MaxMessages
    BY RpcAssumption
<1>3. m \in Message /\ m.kind \in {"upgrade", "refusal"} /\ m.nr = 0
    BY <1>2 DEF Message
<1>4. CanWrite /\ server.sent = 0
    BY DEF ServerShakes, IInv, ServerInv, ShakesFirst
<1>5. Writes(m)
    BY <1>1
<1> HIDE DEF m
<1> QED BY <1>3, <1>4, <1>5, WritesKeeps

(* There is room for one notification more.                                *)
LEMMA Room ==
    ASSUME IInv, server.writing = NoMessage,
           Cardinality(SaidOf({"request", "notification"})) < MaxMessages
    PROVE  server.sent + 1 \in 0..MaxMessages
<1> DEFINE said == SaidOf({"request", "notification"})
           f == [n \in 1..server.sent |-> Notice(n)]
<1>1. TypeOK /\ Numbered
    BY DEF IInv, ServerInv
<1>2. server.sent \in Nat
    BY <1>1, ServerIs
<1>3. IsFiniteSet(said) /\ Cardinality(said) \in Nat
  <2> said \in SUBSET server.said
      BY DEF SaidOf
  <2>1. IsFiniteSet(said)
      BY <1>1, FS_Subset DEF Numbered
  <2> QED BY <2>1, FS_CardinalityType
<1>4. ASSUME NEW n \in 1..server.sent PROVE Notice(n) \in said /\ Notice(n).nr = n
  <2>1. Notice(n).kind = "notification" /\ Notice(n).nr = n /\ Notice(n) # NoMessage
      BY DEF Notice, NoMessage
  <2>2. Notice(n) \in server.said
      BY <2>1, <1>1 DEF Numbered
  <2> QED BY <2>1, <2>2 DEF SaidOf
<1> HIDE DEF said
<1>5. f \in Injection(1..server.sent, said)
    BY <1>4 DEF Injection, IsInjective
<1>6. Cardinality(1..server.sent) <= Cardinality(said)
    BY <1>3, <1>5, FS_Injection
<1>7. Cardinality(1..server.sent) = server.sent
    BY <1>2, FS_Interval
<1> QED BY <1>2, <1>3, <1>6, <1>7, RpcAssumption DEF said

LEMMA ServerSendsKeeps == ASSUME IInv, ServerSends PROVE IInv'
<1>1. PICK m \in Sendable :
        /\ Cardinality(SaidOf({"request", "notification"})) < MaxMessages
           \/ m.kind \in {"answer", "error"}
        /\ Writes(m)
    BY DEF ServerSends
<1>2. CanWrite /\ (Framed => Shaken) /\ TypeOK
    BY DEF ServerSends, IInv
<1>3. server.asked \subseteq Ids /\ server.sent \in 0..MaxMessages /\ server.sent \in Nat
    BY <1>2, ServerIs
<1>4. CASE m \in [kind : {"answer", "error"}, id : {i \in server.asked : ~Done(i)}, nr : {server.sent}]
  <2>1. m.kind \in {"answer", "error"} /\ m.id \in server.asked /\ m.nr = server.sent
      BY <1>4
  <2>2. m \in Message
      BY <1>3, <1>4 DEF Message
  <2> QED BY <2>1, <2>2, <1>1, <1>2, WritesKeeps
<1>5. CASE m \in [kind : {"request"}, id : Ids, nr : {server.sent}]
  <2>1. m.kind = "request" /\ m.nr = server.sent
      BY <1>5
  <2>2. m \in Message
      BY <1>3, <1>5 DEF Message
  <2> QED BY <2>1, <2>2, <1>1, <1>2, WritesKeeps
<1>6. CASE m \in [kind : {"notification"}, id : {None}, nr : {server.sent + 1}]
  <2> DEFINE n == server.sent + 1
  <2>1. n \in 0..MaxMessages
    <3> m.kind = "notification"
        BY <1>6
    <3> QED BY <1>1, <1>2, Room DEF CanWrite
  <2> HIDE DEF n
  <2>2. m = [kind |-> "notification", id |-> None, nr |-> n] /\ m.kind = "notification"
      BY <1>6 DEF n
  <2>3. m \in Message
      BY <2>1, <2>2 DEF Message
  <2>4. m = Notice(server.sent + 1)
      BY <2>2 DEF Notice, n
  <2> QED BY <2>2, <2>3, <2>4, <1>1, <1>2, WritesKeeps
<1> QED BY <1>1, <1>4, <1>5, <1>6 DEF Sendable

(* The server ends a message.                                              *)
LEMMA ServerEndsKeeps == ASSUME IInv, ServerEnds PROVE IInv'
<1> USE DEF SaidOf
<1> DEFINE m == server.writing
<1>1. /\ TypeOK /\ ServerInv /\ StreamInv /\ ClientInv /\ SuccessIsGranted /\ EventsFollowTheAnswer
      /\ server \in Server /\ pipe \in Seq(Parts) /\ buf \in Seq(Parts)
      /\ server.sent \in Nat /\ server.said \subseteq Message
    BY ServerIs DEF IInv, TypeOK
<1>2. server.up /\ m # NoMessage /\ client' = client /\ buf' = buf
    BY DEF ServerEnds
<1>3. /\ m \in Message /\ m.nr = server.sent
      /\ m.kind = "notification" => server.sent > 0 /\ \A u \in server.said : u.nr < server.sent
    BY <1>1, <1>2, ServerIs DEF ServerInv, WritesTheNewest
<1>4. /\ server' \in Server
      /\ server'.writing = NoMessage /\ server'.said = server.said \cup {m}
      /\ server'.asked = server.asked /\ server'.sent = server.sent /\ server'.up = server.up
  <2> DEFINE said == server.said \cup {m}
  <2>1. server' = [server EXCEPT !.writing = NoMessage, !.said = said]
      BY DEF ServerEnds
  <2>2. said \in SUBSET Message
      BY <1>1, <1>3
  <2> HIDE DEF said
  <2>3. /\ server' \in Server
        /\ server'.writing = NoMessage /\ server'.said = said
        /\ server'.asked = server.asked /\ server'.sent = server.sent /\ server'.up = server.up
      BY <2>1, <2>2, <1>1 DEF Server
  <2> QED BY <2>3 DEF said
<1>5. \A u \in server.said : u.nr \in Nat /\ u.nr <= server.sent
    BY <1>1, MessageIs DEF ServerInv, Numbered
<1> DEFINE p == [m |-> m, part |-> "rest"]
<1>6. p \in Parts /\ p.part = "rest" /\ p.m = m
    BY <1>3 DEF Parts
<1>7. Stream' = Append(Stream, p) /\ pipe' \in Seq(Parts) /\ Stream \in Seq(Parts)
  <2> pipe' = Append(pipe, p)
      BY DEF ServerEnds
  <2> HIDE DEF p
  <2> QED BY <1>1, <1>2, <1>6, AppendToConcat, ConcatProperties DEF Stream
<1> HIDE DEF p, m
<1>8. /\ Complete(Append(Stream, p)) = Complete(Stream) \cup {m}
      /\ Chronological(Append(Stream, p))
      /\ Ruled(Stream) /\ Begun(Stream) => Ruled(Append(Stream, p))
      /\ ~Begun(Append(Stream, p))
  <2>1. Chronological(Stream) /\ Complete(Stream) \subseteq server.said
      BY <1>1 DEF StreamInv, InOrder, Unread
  <2>2. \A u \in Complete(Stream) : u.nr <= m.nr /\ (m.kind = "notification" => u.nr < m.nr)
      BY <2>1, <1>3, <1>5
  <2> QED BY <2>1, <2>2, <1>6, <1>7, AppendRest
<1>9. /\ Unread' = Unread \cup {m} /\ Chronological(Stream)'
      /\ Ruled(Stream)' <=> Ruled(Append(Stream, p))
      /\ ~Begun(Stream)'
  <2>1. Unread' = Complete(Stream')
      BY DEF Unread, Complete
  <2>2. Chronological(Stream)' <=> Chronological(Stream')
      BY DEF Chronological
  <2>3. (Ruled(Stream)' <=> Ruled(Stream')) /\ (Begun(Stream)' <=> Begun(Stream'))
      BY DEF Ruled, Begun
  <2> QED BY <2>1, <2>2, <2>3, <1>7, <1>8 DEF Unread
<1>10. TypeOK'
    BY <1>1, <1>2, <1>4, <1>7 DEF TypeOK
<1>11. ServerInv'
  <2>1. Numbered'
    <3>1. IsFiniteSet(server.said \cup {m})
        BY <1>1, FS_AddElement DEF ServerInv, Numbered
    <3>2. \A n \in 1..server.sent : Notice(n) \in server.said \cup {m}
        BY <1>1 DEF ServerInv, Numbered, m
    <3>3. \A u \in server.said \cup {m} : u.nr <= server.sent /\ (u.kind = "notification" => u.nr > 0)
        BY <1>1, <1>3 DEF ServerInv, Numbered
    <3> QED BY <3>1, <3>2, <3>3, <1>4 DEF Numbered
  <2>2. WritesTheNewest' /\ SilentIfUnreached'
      BY <1>4 DEF WritesTheNewest, SilentIfUnreached
  <2>3. AnswersTheAsked'
      BY <1>1, <1>2, <1>4 DEF ServerInv, AnswersTheAsked, m
  <2>4. ShakesFirst'
      BY <1>1, <1>2, <1>4 DEF ServerInv, ShakesFirst, Framed, Shaken, m
  <2> QED BY <2>1, <2>2, <2>3, <2>4 DEF ServerInv
<1>12. StreamInv'
  <2>1. InOrder'
      BY <1>1, <1>4, <1>9 DEF StreamInv, InOrder
  <2>2. Later'
    <3> SUFFICES ASSUME m.kind = "notification"
                 PROVE  /\ \A i \in DOMAIN client.events : client.events[i] < m.nr
                        /\ client.taken # NoMessage => client.taken.nr < m.nr
        BY <1>1, <1>2, <1>9 DEF StreamInv, Later
    <3> QED BY <1>1, <1>3 DEF ClientInv, TakesTheSent
  <2>3. EarlierIsRead'
    <3> SUFFICES ASSUME client.by # "proxy", NEW n \in server.said, n.kind = "notification",
                        n \notin Unread, NEW u \in Unread \cup {m}
                 PROVE  n.nr <= u.nr
        BY <1>2, <1>4, <1>9 DEF EarlierIsRead
    <3>1. CASE u = m
        BY <3>1, <1>3, <1>5
    <3>2. CASE u \in Unread
        BY <3>2, <1>1 DEF StreamInv, EarlierIsRead
    <3> QED BY <3>1, <3>2
  <2>4. Lines'
      BY <1>1, <1>2, <1>4, <1>8, <1>9 DEF StreamInv, Lines, m
  <2> QED BY <2>1, <2>2, <2>3, <2>4 DEF StreamInv
<1>13. \A i : Granted(i) => Granted(i)'
    BY <1>4 DEF Granted
<1>14. ClientInv'
  <2>1. Phases' /\ TakesTheSent'
      BY <1>1, <1>2, <1>4 DEF ClientInv, Phases, Waiting, TakesTheSent
  <2>2. GrantedBefore'
      BY <1>1, <1>2, <1>13 DEF ClientInv, GrantedBefore, Granted
  <2>3. AnswerIsThere' /\ AllCollected'
      BY <1>1, <1>2, <1>4, <1>9 DEF ClientInv, AnswerIsThere, AllCollected
  <2> QED BY <2>1, <2>2, <2>3 DEF ClientInv
<1>15. SuccessIsGranted'
    BY <1>1, <1>2, <1>4, <1>13 DEF SuccessIsGranted, Granted
<1>16. EventsFollowTheAnswer'
  <2>1. ASSUME m.kind = "notification", NEW i \in DOMAIN client.events PROVE client.events[i] < m.nr
      BY <2>1, <1>1, <1>3 DEF ClientInv, TakesTheSent
  <2>2. ASSUME m.kind = "notification", NEW i \in DOMAIN client.events PROVE ~(m.nr < client.events[i])
    <3> client.events[i] < m.nr /\ client.events[i] \in Nat /\ m.nr \in Nat
        BY <2>1, <2>2, <1>1, <1>3, EventsAre
    <3> QED OBVIOUS
  <2> QED BY <2>2, <1>1, <1>2, <1>4 DEF EventsFollowTheAnswer
<1> QED BY <1>10, <1>11, <1>12, <1>14, <1>15, <1>16 DEF IInv

-------------------------------------------------------------------------------
(* The invariant.                                                          *)

LEMMA InitInv == ASSUME Init PROVE IInv
<1>1. /\ client \in [by : Transports, goal : Goals, pc : {"start"}, id : {0}, left : {0},
                     result : {"none"}, taken : {NoMessage}, events : {<<>>},
                     held : {NoMessage}, step : {"kept"}]
      /\ pipe = <<>> /\ buf = <<>>
      /\ server = [asked |-> {}, said |-> {}, sent |-> 0, writing |-> NoMessage, up |-> TRUE]
    BY DEF Init
<1>2. /\ client.pc = "start" /\ client.id = 0 /\ client.left = 0 /\ client.result = "none"
      /\ client.taken = NoMessage /\ client.events = <<>> /\ client.held = NoMessage
      /\ client.step = "kept"
    BY <1>1
<1>3. /\ server.asked = {} /\ server.said = {} /\ server.sent = 0
      /\ server.writing = NoMessage /\ server.up
    BY <1>1
<1>4. /\ 0 \in 0..(Timeout + Duration) /\ 0 \in 0..MaxMessages /\ 0 \in 0..2
      /\ <<>> \in Seq(1..MaxMessages) /\ Len(<<>>) = 0 /\ 0 <= MaxEvents
      /\ <<>> \in Seq(Parts) /\ DOMAIN <<>> = {}
  <2> <<>> \in Seq(1..MaxMessages) /\ <<>> \in Seq(Parts) /\ Len(<<>>) = 0
      BY EmptySeq
  <2> QED BY RpcAssumption
<1>5. client \in Client
  <2> DEFINE none == 0
  <2>1. /\ client \in [by : Transports, goal : Goals, pc : {"start"}, id : {none}, left : {none},
                       result : {"none"}, taken : {NoMessage}, events : {<<>>},
                       held : {NoMessage}, step : {"kept"}]
        /\ none \in 0..(Timeout + Duration) /\ none \in 0..2
      BY <1>1, <1>4
  <2> HIDE DEF none
  <2>2. "start" \in Steps /\ "none" \in Results
      BY DEF Steps, Results
  <2> QED BY <2>1, <2>2, <1>4 DEF Client
<1>6. server \in Server
  <2> DEFINE none == 0
  <2>1. /\ server = [asked |-> {}, said |-> {}, sent |-> none, writing |-> NoMessage, up |-> TRUE]
        /\ none \in 0..MaxMessages
      BY <1>1, <1>4
  <2> HIDE DEF none
  <2> QED BY <2>1 DEF Server
<1>7. TypeOK
    BY <1>1, <1>2, <1>4, <1>5, <1>6 DEF TypeOK
<1>8. Stream = <<>> /\ Unread = {} /\ Chronological(Stream) /\ Ruled(Stream) /\ ~Begun(Stream)
  <2> Stream = <<>>
      BY <1>1, <1>4, ConcatEmptySeq DEF Stream
  <2> QED BY Empty DEF Unread
<1>9. ServerInv
  <2>1. IsFiniteSet(server.said)
      BY <1>3, FS_EmptySet
  <2> QED BY <2>1, <1>2, <1>3 DEF ServerInv, Numbered, WritesTheNewest, AnswersTheAsked,
                                  SilentIfUnreached, ShakesFirst, SaidOf
<1>10. StreamInv
    BY <1>2, <1>3, <1>8 DEF StreamInv, InOrder, Later, EarlierIsRead, Lines
<1>11. ClientInv
    BY <1>2, <1>3, <1>4 DEF ClientInv, Phases, Waiting, TakesTheSent, GrantedBefore, AnswerIsThere,
                            AllCollected
<1>12. SuccessIsGranted /\ EventsFollowTheAnswer
    BY <1>2, <1>3, <1>4 DEF SuccessIsGranted, EventsFollowTheAnswer
<1> QED BY <1>7, <1>9, <1>10, <1>11, <1>12 DEF IInv

LEMMA NextInv == ASSUME IInv, [Next]_vars PROVE IInv'
<1>1. CASE ClientStep
    BY <1>1, StartKeeps, AskKeeps, ReadLineKeeps, ReceiveKeeps, ReadFrameKeeps, ReadGarbageKeeps,
       ReadRaisesKeeps, CloseKeeps DEF ClientStep
<1>2. CASE Tick
    BY <1>2, TickKeeps
<1>3. CASE ServerStep
    BY <1>3, ServerShakesKeeps, ServerSendsKeeps, ServerEndsKeeps, ServerDiesKeeps DEF ServerStep
<1>4. CASE UNCHANGED vars
  <2>1. client' = client /\ server' = server /\ UNCHANGED <<pipe, buf>>
      BY <1>4 DEF vars
  <2>2. TakesNothing /\ Rests
      BY <2>1 DEF TakesNothing, Stays, Rests, IInv, TypeOK, ClientInv, Phases
  <2> QED BY <2>1, <2>2, Aside
<1> QED BY <1>1, <1>2, <1>3, <1>4 DEF Next

(* What holds of the server, the stream and the client between two steps.  *)
THEOREM Invariance == Spec => []IInv
<1>1. Init => IInv
    BY InitInv
<1>2. IInv /\ [Next]_vars => IInv'
    BY NextInv
<1> QED BY <1>1, <1>2, PTL DEF Spec

(* The session, what is to be read and the server are of their types, and  *)
(* no more events are collected than were asked for (CodexJsonRpcClient).  *)
THEOREM TypeCorrect == Spec => []TypeOK
<1>1. IInv => TypeOK
    BY DEF IInv
<1> QED BY <1>1, Invariance, PTL

(* A method is asked for, and a session succeeds, only after an answer     *)
(* that is not an error, or a request of the server's with just that id    *)
(* (_request_raw).                                                         *)
THEOREM Success == Spec => []SuccessIsGranted
<1>1. IInv => SuccessIsGranted
    BY DEF IInv
<1> QED BY <1>1, Invariance, PTL

(* What collect_notifications returns was sent after the answer to the     *)
(* subscription, in that order; and of a transport that keeps in step, all *)
(* of it up to the last.                                                   *)
THEOREM Events == Spec => []EventsFollowTheAnswer
<1>1. IInv => EventsFollowTheAnswer
    BY DEF IInv
<1> QED BY <1>1, Invariance, PTL

-------------------------------------------------------------------------------
(* What a step never does.                                                 *)

(* What is read ends the session at most by a result of its own.           *)
LEMMA Reading ==
    ASSUME IInv, ReadLine \/ ReadFrame
    PROVE  client'.pc # "closed" /\ (client'.result = client.result \/ client'.result # "timedOut")
<1>1. client \in Client /\ buf \in Seq(Parts) /\ pipe \in Seq(Parts) /\ TypeOK /\ ClientInv /\ Waiting
    BY DEF IInv, TypeOK, ReadLine, ReadFrame
<1>2. ASSUME NEW m \in Unread, Taking(m)
      PROVE  client'.pc # "closed" /\ (client'.result = client.result \/ client'.result # "timedOut")
  <2>1. m \in Message /\ (m.kind = "notification" => m.nr > 0)
      BY <1>1, StreamIs DEF IInv, StreamInv, InOrder, ServerInv, Numbered
  <2> QED BY <2>1, <1>1, <1>2, TakingIs DEF ClientInv, Ignores, Shakes, TakesTheAnswer, TakesTheEvent
<1>3. ASSUME NEW held, client' = [client EXCEPT !.held = held]
      PROVE  client'.pc # "closed" /\ client'.result = client.result
    BY <1>1, <1>3 DEF Client, Waiting
<1>4. CASE ReadLine
  <2> DEFINE text == IF IsLine(buf) THEN buf ELSE buf \o pipe
  <2>1. CASE IsLine(text)
    <3>1. Taking(text[2].m)
        BY <1>4, <2>1 DEF ReadLine, Taking
    <3> (IsLine(buf) => text = buf) /\ (~IsLine(buf) => text = buf \o pipe)
        OBVIOUS
    <3> HIDE DEF text
    <3>2. IsFirst(text, buf, pipe)
        BY <1>1, <2>1, FirstLine
    <3>3. text[2].m \in Unread
      <4>1. /\ Stream \in Seq(Parts) /\ Stream # <<>> /\ Tail(Stream) # <<>>
            /\ Tail(Stream) \in Seq(Parts)
            /\ Tail(Stream)[1] = text[2] /\ text[2].part = "rest"
          BY <3>2 DEF IsFirst, Stream
      <4>2. text[2].m \in Complete(Tail(Stream))
          BY <4>1, DropOne
      <4> QED BY <4>1, <4>2, DropOne DEF Unread
    <3> QED BY <3>1, <3>3, <1>2
  <2>2. CASE ~IsLine(text)
    <3>1. \E held : client' = [client EXCEPT !.held = held]
        BY <2>2, <1>4 DEF ReadLine
    <3> QED BY <3>1, <1>3
  <2> QED BY <2>1, <2>2
<1>5. CASE ReadFrame
  <2> DEFINE part == Head(buf)
  <2>1. /\ Stream \in Seq(Parts) /\ Stream # <<>> /\ part = Stream[1] /\ part \in Parts
      BY <1>1, <1>5, TailOfConcat DEF ReadFrame, Stream
  <2>2. CASE part.part = "head"
    <3>1. client' = [client EXCEPT !.held = part.m]
        BY <1>5, <2>2 DEF ReadFrame
    <3> QED BY <3>1, <1>3
  <2>3. CASE part.part # "head"
    <3>1. Taking(part.m)
        BY <1>5, <2>3 DEF ReadFrame, Taking
    <3> HIDE DEF part
    <3>2. part.part = "rest"
        BY <2>1, <2>3 DEF Parts
    <3>3. part.m \in Unread
        BY <2>1, <3>2, DropOne DEF Unread
    <3> QED BY <3>1, <3>3, <1>2
  <2> QED BY <2>2, <2>3
<1> QED BY <1>4, <1>5

(* Only the clock gives up a request.                                      *)
LEMMA OnlyTheClock ==
    ASSUME IInv, [Next]_vars, client.result # "timedOut", client'.result = "timedOut"
    PROVE  Tick
<1>1. client \in Client
    BY DEF IInv, TypeOK
<1>2. ASSUME Start PROVE FALSE
    BY <1>1, <1>2 DEF Start, Client
<1>3. ASSUME Ask \/ ReadRaises PROVE FALSE
    BY <1>1, <1>3 DEF Ask, ReadRaises, Close, Client
<1>4. ASSUME ReadLine \/ ReadFrame PROVE FALSE
    BY <1>4, Reading
<1>5. ASSUME Receive PROVE FALSE
    BY <1>5 DEF Receive
<1>6. ASSUME ReadGarbage \/ CloseTransport \/ Reap PROVE FALSE
    BY <1>1, <1>6 DEF ReadGarbage, CloseTransport, Reap, Closed, Client
<1>7. ASSUME ServerStep \/ UNCHANGED vars PROVE FALSE
    BY <1>7 DEF ServerStep, ServerShakes, ServerSends, ServerEnds, ServerDies, Writes, vars
<1> QED BY <1>2, <1>3, <1>4, <1>5, <1>6, <1>7 DEF Next, ClientStep

(* A request that was answered is given up only where the transport cannot *)
(* read the answer: it lies read ahead behind readline, or the proxy is    *)
(* out of step or gone (read_line, _read_message, _request_raw).           *)
THEOREM GivenUp == Spec => AnsweredIsNotGivenUp
<1> DEFINE GivesUpUnread ==
        client.result # "timedOut" /\ client'.result = "timedOut" /\ Done(client.id)
           => \/ client.by = "stdio" /\ buf # <<>>
              \/ client.by = "proxy" /\ (client'.step # "kept" \/ ~server.up)
<1>1. ASSUME IInv, [Next]_vars PROVE GivesUpUnread
  <2> SUFFICES ASSUME client.result # "timedOut", client'.result = "timedOut", Done(client.id),
                      ~(client.by = "stdio" /\ buf # <<>>),
                      ~(client.by = "proxy" /\ (client'.step # "kept" \/ ~server.up))
               PROVE  FALSE
      OBVIOUS
  <2>1. Tick
      BY <1>1, OnlyTheClock
  <2>2. TypeOK /\ ClientInv /\ pipe \in Seq(Parts) /\ buf \in Seq(Parts)
        /\ client.by \in {"stdio", "proxy", "websocket"}
      BY <1>1, ClientIs DEF IInv, TypeOK
  <2>3. GivesUp
      BY <1>1, <2>1, TickIs DEF Waits
  <2>4. client.pc = "reading" /\ client.step = "kept"
      BY <1>1, <2>1, <2>2, <2>3, TickIs DEF GivesUp, ClientInv, Phases
  <2>5. PICK m \in SaidOf({"answer", "error"}) : m.id = client.id
      BY DEF Done
  <2>6. m \in Unread
      BY <2>2, <2>4, <2>5 DEF ClientInv, AnswerIsThere
  <2>7. buf = <<>> /\ pipe = <<>>
      BY <2>1, <2>2 DEF Tick, Silence, Framed
  <2>8. Unread = {}
      BY <2>2, <2>7, ConcatEmptySeq, Empty DEF Unread, Stream
  <2> QED BY <2>6, <2>8
<1>2. IInv /\ [Next]_vars => [GivesUpUnread]_vars
    BY <1>1
<1>3. Spec => [][GivesUpUnread]_vars
    BY <1>2, Invariance, PTL DEF Spec
<1> QED BY <1>3 DEF AnsweredIsNotGivenUp

(* A session that ends leaves no server behind that it started (close of   *)
(* the transports, _terminate_process).                                    *)
THEOREM Reaped == Spec => ServerIsReaped
<1> DEFINE EndsIt == client.pc # "start" /\ client'.pc = "closed" /\ Spawned => ~server'.up
<1>1. ASSUME IInv, Next PROVE EndsIt
  <2> SUFFICES ASSUME client.pc # "start", client'.pc = "closed", Spawned PROVE ~server'.up
      OBVIOUS
  <2>1. client \in Client /\ server \in Server /\ ServerInv
      BY <1>1 DEF IInv, TypeOK
  <2>2. CASE CloseTransport \/ Reap
      BY <2>1, <2>2 DEF CloseTransport, Reap, Closed, Client, Server
  <2>3. CASE ServerStep
      BY <2>1, <2>3 DEF ServerStep, ServerShakes, ServerSends, ServerEnds, ServerDies, Writes,
                        CanWrite, ServerInv, SilentIfUnreached, Server
  <2>4. CASE Tick
      BY <1>1, <2>4, TickIs DEF Tick, Waiting, Waits, GivesUp
  <2>5. CASE ReadLine \/ ReadFrame
      BY <1>1, <2>5, Reading
  <2>6. CASE Ask \/ ReadRaises
    <3>1. \/ client' = [client EXCEPT !.pc = "reading", !.left = Timeout]
          \/ Close(client, "raised")
        BY <2>6 DEF Ask, ReadRaises
    <3>2. CASE client' = [client EXCEPT !.pc = "reading", !.left = Timeout]
      <4> client'.pc = "reading"
          BY <2>1, <3>2 DEF Client
      <4> QED OBVIOUS
    <3>3. CASE Close(client, "raised")
      <4> client'.pc = "closing"
          BY <2>1, <3>3, Closing DEF Results
      <4> QED OBVIOUS
    <3> QED BY <3>1, <3>2, <3>3
  <2>7. CASE Receive \/ ReadGarbage
      BY <2>1, <2>7 DEF Receive, ReadGarbage, Waiting, Client
  <2> QED BY <1>1, <2>2, <2>3, <2>4, <2>5, <2>6, <2>7 DEF Next, ClientStep, Start
<1>2. IInv /\ [Next]_vars => [EndsIt]_vars
    BY <1>1
<1>3. Spec => [][EndsIt]_vars
    BY <1>2, Invariance, PTL DEF Spec
<1> QED BY <1>3 DEF ServerIsReaped
================================================================================
