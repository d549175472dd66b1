---------------------------- MODULE ChannelProofs ----------------------------
(***************************************************************************)
(* What holds of the channel for any number of calls, any deadline and any *)
(* length of the streams: the streams are whole, and the channel           *)
(* implements Rpc.                                                         *)
(*                                                                         *)
(* FramesIntact is kept by a read of any length because a message is taken *)
(* off both the stream and the list of what was said; the lemmas of the    *)
(* second part are about that.  That a reply is given to its own caller is *)
(* not a matter of the streams: numbers are matched, and two sessions use  *)
(* the same ones.  TurnInv and LaunchAnswered say why no two calls of one  *)
(* number are ever open at once: Browser.launch goes on only from answer   *)
(* to answer, so that the control session's calls 1 and 2 are answered     *)
(* before the page session exists, and the first three of the page, as     *)
(* NAVIGATE_CALL >= 2, before the control session makes its third.         *)
(* JourneyInv says where a call is, so that a reply that is read is of a   *)
(* call made, executed and not answered before.                            *)
(***************************************************************************)
EXTENDS Channel, SequenceTheorems, TLAPS

-----------------------------------------------------------------------------
(* The inductive invariant. *)

Messages == Calls \cup Events
Units    == Messages \cup {End}

StreamTypes ==
  /\ lastId \in [{"control", "page"} -> Nat]
  /\ asked \in Seq(Calls) /\ said \in Seq(Messages)
  /\ outbox \in Seq(Units) /\ inbox \in Seq(Units)
  /\ pipe \in Seq(Units) /\ buf \in Seq(Units)

\* Which session waits, and how many calls it has made by then.
TurnInv ==
  /\ awaited \in Calls =>
       /\ awaited[2] = lastId[awaited[1]]
       /\ awaited[1] = "control" <=> phase \in {"launch", "closing"}
  /\ awaited = Load => phase \in {"load", "up"}
  /\ phase \in {"closed", "abandoned"} => awaited = None
  /\ phase = "launch" =>
       lastId["page"] = 0 /\ lastId["control"] <= (IF awaited = None THEN 1 ELSE 2)
  /\ phase \in {"start", "load", "arrive", "up"} => lastId["control"] = 2
  /\ phase = "closing" => lastId["control"] = IF awaited = None THEN 2 ELSE 3
  /\ phase \in {"load", "arrive"} => lastId["page"] >= NAVIGATE_CALL
  /\ phase = "arrive" /\ awaited # None => lastId["page"] > NAVIGATE_CALL

\* A launch goes on only from one answer to the next.
LaunchAnswered ==
  /\ phase \in {"launch", "start", "load", "arrive"} =>
       \A c \in Calls : c[2] <= lastId[c[1]] /\ c # awaited => outcome[c] = "answered"
  /\ phase \in {"up", "closing"} =>
       \A c \in Calls : (IF c[1] = "control" THEN c[2] <= 2 ELSE c[2] <= 3)
                          => outcome[c] = "answered"

OutcomeInv ==
  \A c \in Calls :
    /\ outcome[c] = "waiting" <=> awaited = c
    /\ outcome[c] = "idle" <=> c[2] > lastId[c[1]]

\* Where a call is: in asked, in running, or executed with its answer in said
\* or taken; once, and nowhere before it is made.
JourneyInv ==
  /\ \A i, j \in 1..Len(asked) : asked[i] = asked[j] => i = j
  /\ \A i, j \in 1..Len(said) : said[i] \in Calls /\ said[i] = said[j] => i = j
  /\ \A i \in 1..Len(asked) :
       /\ asked[i] \notin running \cup executed
       /\ outcome[asked[i]] \in {"waiting", "failed"}
  /\ running \cap executed = {}
  /\ \A c \in running : outcome[c] \in {"waiting", "failed"}
  /\ \A c \in executed : outcome[c] \in {"waiting", "failed", "answered", "refused"}
  /\ \A c \in Calls : outcome[c] \in {"answered", "refused"} => c \in executed
  /\ \A i \in 1..Len(said) : said[i] \in Calls =>
       said[i] \in executed /\ outcome[said[i]] \in {"waiting", "failed"}

ChannelInv ==
  /\ ChannelTypeOK /\ StreamTypes /\ FramesIntact
  /\ TurnInv /\ LaunchAnswered /\ OutcomeInv /\ JourneyInv

-----------------------------------------------------------------------------
(* Messages and their frames. *)

LEMMA EndIsNoMessage ==
  /\ End \notin Messages /\ None \notin Messages /\ Load \notin Calls /\ None \notin Calls
  /\ Load # None
  /\ \A c \in Calls : /\ c = <<c[1], c[2]>> /\ c[1] \in {"control", "page"} /\ c[2] \in Nat \ {0}
                      /\ c[1] = "control" => c[2] <= 3
<1>1. ASSUME NEW c \in Calls
      PROVE  /\ c = <<c[1], c[2]>> /\ c[1] \in {"control", "page"} /\ c[2] \in Nat \ {0}
             /\ c[1] = "control" => c[2] <= 3
             /\ c # End /\ c # None /\ c # Load
  <2>1. PICK s \in {"control", "page"}, n \in Nat \ {0} : c = <<s, n>> /\ (s = "control" => n <= 3)
    BY ChannelAssumption DEF Calls, ControlCalls, PageCalls
  <2> QED BY <2>1 DEF End, None, Load
<1>2. \A e \in Events : e # End /\ e # None
  BY DEF Events, Load, Note, End, None
<1>3. Load # None
  BY DEF Load, None
<1> QED BY <1>1, <1>2, <1>3 DEF Messages

LEMMA FramedParts ==
  ASSUME NEW s \in Seq(Messages)
  PROVE  /\ Framed(s) \in Seq(Units) /\ Len(Framed(s)) = 2 * Len(s) /\ Len(s) \in Nat
         /\ \A i \in 1..(2 * Len(s)) : Framed(s)[i] = IF i % 2 = 1 THEN s[(i + 1) \div 2] ELSE End
<1>1. Len(s) \in Nat /\ \A i \in 1..Len(s) : s[i] \in Messages
  BY LenProperties, ElementOfSeq
<1>2. ASSUME NEW i \in 1..(2 * Len(s))
      PROVE  (IF i % 2 = 1 THEN s[(i + 1) \div 2] ELSE End) \in Units
  <2>1. CASE i % 2 = 1
    <3>1. (i + 1) \div 2 \in 1..Len(s)
      BY <1>1
    <3> QED BY <1>1, <2>1, <3>1 DEF Units
  <2> QED BY <2>1 DEF Units
<1>3. Framed(s) \in [1..(2 * Len(s)) -> Units]
  BY <1>2 DEF Framed
<1>4. 2 * Len(s) \in Nat
  BY <1>1
<1>5. Framed(s) \in Seq(Units)
  BY <1>3, <1>4, SeqDef
<1>6. DOMAIN Framed(s) = 1..Len(Framed(s)) /\ Len(Framed(s)) \in Nat
  BY <1>5, LenProperties
<1>7. Len(Framed(s)) = 2 * Len(s)
  <2>1. 1..Len(Framed(s)) = 1..(2 * Len(s))
    BY <1>3, <1>6
  <2> DEFINE a == Len(Framed(s))
             b == 2 * Len(s)
  <2>2. a \in Nat /\ b \in Nat /\ 1..a = 1..b
    BY <1>4, <1>6, <2>1
  <2> HIDE DEF a, b
  <2>3. a = b
    <3>1. a # 0 => a \in 1..b
      BY <2>2
    <3>2. b # 0 => b \in 1..a
      BY <2>2
    <3> QED BY <2>2, <3>1, <3>2
  <2> QED BY <2>3 DEF a, b
<1> QED BY <1>1, <1>5, <1>7 DEF Framed

LEMMA FrameParts ==
  ASSUME NEW m \in Messages
  PROVE  /\ Frame(m) \in Seq(Units) /\ Len(Frame(m)) = 2
         /\ Frame(m)[1] = m /\ Frame(m)[2] = End
         /\ <<m>> \in Seq(Units) /\ Len(<<m>>) = 1 /\ <<m>>[1] = m
BY DEF Frame, Units

LEMMA FramedAppend ==
  ASSUME NEW s \in Seq(Messages), NEW m \in Messages
  PROVE  Framed(Append(s, m)) = Framed(s) \o Frame(m)
<1> DEFINE t == Append(s, m)
<1>1. /\ t \in Seq(Messages) /\ Len(t) = Len(s) + 1 /\ Len(s) \in Nat
      /\ \A i \in 1..Len(s) : t[i] = s[i]
      /\ t[Len(s) + 1] = m
  BY AppendProperties, LenProperties
<1> HIDE DEF t
<1>2. /\ Framed(s) \o Frame(m) \in Seq(Units) /\ Len(Framed(s) \o Frame(m)) = 2 * Len(s) + 2
      /\ \A i \in 1..(2 * Len(s) + 2) :
           (Framed(s) \o Frame(m))[i] = IF i <= 2 * Len(s) THEN Framed(s)[i] ELSE Frame(m)[i - 2 * Len(s)]
  <2> DEFINE f == Framed(s)
             g == Frame(m)
  <2>1. f \in Seq(Units) /\ Len(f) = 2 * Len(s) /\ g \in Seq(Units) /\ Len(g) = 2
    BY FramedParts, FrameParts
  <2> HIDE DEF f, g
  <2>2. /\ f \o g \in Seq(Units) /\ Len(f \o g) = 2 * Len(s) + 2
        /\ \A i \in 1..(2 * Len(s) + 2) :
             (f \o g)[i] = IF i <= 2 * Len(s) THEN f[i] ELSE g[i - 2 * Len(s)]
    <3>1. /\ f \o g \in Seq(Units) /\ Len(f \o g) = Len(f) + Len(g)
          /\ \A i \in 1..(Len(f) + Len(g)) :
               (f \o g)[i] = IF i <= Len(f) THEN f[i] ELSE g[i - Len(f)]
      BY <2>1, ConcatProperties
    <3> QED BY <2>1, <3>1
  <2> QED BY <2>2 DEF f, g
<1>3. /\ Framed(t) \in Seq(Units) /\ Len(Framed(t)) = 2 * Len(s) + 2
      /\ \A i \in 1..(2 * Len(s) + 2) : Framed(t)[i] = IF i % 2 = 1 THEN t[(i + 1) \div 2] ELSE End
  <2>1. 2 * Len(t) = 2 * Len(s) + 2
    BY <1>1
  <2> QED BY <1>1, <2>1, FramedParts
<1>4. ASSUME NEW i \in 1..(2 * Len(s) + 2)
      PROVE  Framed(t)[i] = (Framed(s) \o Frame(m))[i]
  <2>1. CASE i <= 2 * Len(s)
    <3>1. Framed(s)[i] = IF i % 2 = 1 THEN s[(i + 1) \div 2] ELSE End
      BY <1>1, <2>1, FramedParts
    <3>2. i % 2 = 1 => (i + 1) \div 2 \in 1..Len(s)
      BY <1>1, <2>1
    <3> QED BY <1>1, <1>2, <1>3, <2>1, <3>1, <3>2
  <2>2. CASE i = 2 * Len(s) + 1
    <3>1. i % 2 = 1 /\ (i + 1) \div 2 = Len(s) + 1 /\ i - 2 * Len(s) = 1 /\ ~(i <= 2 * Len(s))
      BY <1>1, <2>2
    <3>2. Framed(t)[i] = t[(i + 1) \div 2]
      BY <1>3, <3>1
    <3>3. Framed(t)[i] = m
      BY <1>1, <3>1, <3>2
    <3>4. (Framed(s) \o Frame(m))[i] = Frame(m)[i - 2 * Len(s)]
      BY <1>2, <3>1
    <3>5. (Framed(s) \o Frame(m))[i] = m
      BY <3>1, <3>4, FrameParts
    <3> QED BY <3>3, <3>5
  <2>3. CASE i = 2 * Len(s) + 2
    <3>1. i % 2 # 1 /\ i - 2 * Len(s) = 2 /\ ~(i <= 2 * Len(s))
      BY <1>1, <2>3
    <3>2. Framed(t)[i] = End
      BY <1>3, <3>1
    <3>3. (Framed(s) \o Frame(m))[i] = Frame(m)[i - 2 * Len(s)]
      BY <1>2, <3>1
    <3>4. (Framed(s) \o Frame(m))[i] = End
      BY <3>1, <3>3, FrameParts
    <3> QED BY <3>2, <3>4
  <2>4. i <= 2 * Len(s) \/ i = 2 * Len(s) + 1 \/ i = 2 * Len(s) + 2
    <3>1. Len(s) \in Nat
      BY LenProperties
    <3> QED BY <3>1
  <2> QED BY <2>1, <2>2, <2>3, <2>4
<1>5. Framed(t) = Framed(s) \o Frame(m)
  BY <1>2, <1>3, <1>4, SeqEqual
<1> QED BY <1>5 DEF t

LEMMA Dropped ==
  ASSUME NEW w \in Seq(Units), NEW n \in Nat, n <= Len(w)
  PROVE  /\ Drop(w, n) \in Seq(Units) /\ Len(Drop(w, n)) = Len(w) - n
         /\ \A i \in 1..(Len(w) - n) : Drop(w, n)[i] = w[n + i]
<1>1. Len(w) \in Nat /\ \A i \in (n + 1)..Len(w) : w[i] \in Units
  BY LenProperties, ElementOfSeq
<1>2. /\ SubSeq(w, n + 1, Len(w)) \in Seq(Units)
      /\ Len(SubSeq(w, n + 1, Len(w))) = IF n + 1 <= Len(w) THEN Len(w) - (n + 1) + 1 ELSE 0
      /\ \A i \in 1..(Len(w) - (n + 1) + 1) : SubSeq(w, n + 1, Len(w))[i] = w[(n + 1) + i - 1]
  BY <1>1, SubSeqProperties
<1>3. Len(w) - (n + 1) + 1 = Len(w) - n /\ \A i \in 1..(Len(w) - n) : (n + 1) + i - 1 = n + i
  BY <1>1
<1>4. Len(SubSeq(w, n + 1, Len(w))) = Len(w) - n
  BY <1>1, <1>2
<1>5. \A i \in 1..(Len(w) - n) : SubSeq(w, n + 1, Len(w))[i] = w[n + i]
  BY <1>2, <1>3
<1> QED BY <1>2, <1>4, <1>5, Zenon DEF Drop

LEMMA FramedTail ==
  ASSUME NEW s \in Seq(Messages), s # <<>>
  PROVE  /\ Tail(s) \in Seq(Messages) /\ Len(Tail(s)) = Len(s) - 1 /\ Len(s) \in Nat \ {0}
         /\ \A i \in 1..Len(Tail(s)) : Tail(s)[i] = s[i + 1]
         /\ Framed(Tail(s)) = Drop(Framed(s), 2)
<1>1. /\ Tail(s) \in Seq(Messages) /\ Len(Tail(s)) = Len(s) - 1 /\ Len(s) \in Nat \ {0}
      /\ \A i \in 1..Len(Tail(s)) : Tail(s)[i] = s[i + 1]
  BY HeadTailProperties, EmptySeq
<1> DEFINE t == Tail(s)
<1>2. /\ t \in Seq(Messages) /\ Len(t) = Len(s) - 1
      /\ \A i \in 1..Len(t) : t[i] = s[i + 1]
  BY <1>1
<1> HIDE DEF t
<1>3. /\ Framed(t) \in Seq(Units) /\ Len(Framed(t)) = 2 * Len(s) - 2
      /\ \A i \in 1..(2 * Len(s) - 2) : Framed(t)[i] = IF i % 2 = 1 THEN t[(i + 1) \div 2] ELSE End
  <2>1. 2 * Len(t) = 2 * Len(s) - 2
    BY <1>1, <1>2
  <2> QED BY <1>2, <2>1, FramedParts
<1>4. /\ Drop(Framed(s), 2) \in Seq(Units) /\ Len(Drop(Framed(s), 2)) = 2 * Len(s) - 2
      /\ \A i \in 1..(2 * Len(s) - 2) : Drop(Framed(s), 2)[i] = Framed(s)[2 + i]
  <2> DEFINE f == Framed(s)
             k == 2
  <2>1. f \in Seq(Units) /\ Len(f) = 2 * Len(s) /\ k \in Nat /\ k <= Len(f)
    BY <1>1, FramedParts
  <2> HIDE DEF f, k
  <2>2. /\ Drop(f, k) \in Seq(Units) /\ Len(Drop(f, k)) = Len(f) - k
        /\ \A i \in 1..(Len(f) - k) : Drop(f, k)[i] = f[k + i]
    BY <2>1, Dropped
  <2>3. Len(f) - k = 2 * Len(s) - 2
    BY <2>1 DEF k
  <2> QED BY <2>2, <2>3 DEF f, k
<1>5. ASSUME NEW i \in 1..(2 * Len(s) - 2)
      PROVE  Framed(t)[i] = Drop(Framed(s), 2)[i]
  <2>1. 2 + i \in 1..(2 * Len(s)) /\ (2 + i) % 2 = i % 2
    BY <1>1
  <2>2. Framed(s)[2 + i] = IF (2 + i) % 2 = 1 THEN s[((2 + i) + 1) \div 2] ELSE End
    BY <2>1, FramedParts
  <2>3. i % 2 = 1 => /\ (i + 1) \div 2 \in 1..Len(t)
                     /\ ((2 + i) + 1) \div 2 = (i + 1) \div 2 + 1
    BY <1>1, <1>2
  <2> QED BY <1>2, <1>3, <1>4, <2>1, <2>2, <2>3
<1>6. Framed(t) = Drop(Framed(s), 2)
  BY <1>3, <1>4, <1>5, SeqEqual
<1> QED BY <1>1, <1>6 DEF t

LEMMA PrefixPoints ==
  ASSUME NEW s \in Seq(Units), NEW t \in Seq(Units)
  PROVE  IsPrefixOf(s, t) <=> Len(s) <= Len(t) /\ \A i \in 1..Len(s) : s[i] = t[i]
<1>1. Len(s) \in Nat /\ Len(t) \in Nat /\ \A i \in 1..Len(t) : t[i] \in Units
  BY LenProperties, ElementOfSeq
<1>2. ASSUME Len(s) <= Len(t)
      PROVE  /\ SubSeq(t, 1, Len(s)) \in Seq(Units) /\ Len(SubSeq(t, 1, Len(s))) = Len(s)
             /\ \A i \in 1..Len(s) : SubSeq(t, 1, Len(s))[i] = t[i]
  <2> DEFINE k == 1
             n == Len(s)
  <2>1. k \in Int /\ n \in Int /\ \A i \in k..n : t[i] \in Units
    BY <1>1, <1>2
  <2> HIDE DEF k, n
  <2>2. /\ SubSeq(t, k, n) \in Seq(Units) /\ Len(SubSeq(t, k, n)) = IF k <= n THEN n - k + 1 ELSE 0
        /\ \A i \in 1..(n - k + 1) : SubSeq(t, k, n)[i] = t[k + i - 1]
    BY <2>1, SubSeqProperties
  <2>3. n - k + 1 = n /\ (IF k <= n THEN n - k + 1 ELSE 0) = n /\ \A i \in 1..n : k + i - 1 = i
    BY <1>1 DEF k, n
  <2>4. Len(SubSeq(t, k, n)) = n /\ \A i \in 1..n : SubSeq(t, k, n)[i] = t[i]
    BY <2>2, <2>3
  <2> QED BY <2>2, <2>4 DEF k, n
<1>3. ASSUME Len(s) <= Len(t), s = SubSeq(t, 1, Len(s))
      PROVE  \A i \in 1..Len(s) : s[i] = t[i]
  BY <1>2, <1>3
<1>4. ASSUME Len(s) <= Len(t), \A i \in 1..Len(s) : s[i] = t[i]
      PROVE  s = SubSeq(t, 1, Len(s))
  <2> DEFINE u == SubSeq(t, 1, Len(s))
  <2>1. u \in Seq(Units) /\ Len(s) = Len(u) /\ \A i \in 1..Len(s) : s[i] = u[i]
    BY <1>2, <1>4
  <2> HIDE DEF u
  <2>2. s = u
    BY <2>1, SeqEqual
  <2> QED BY <2>2 DEF u
<1> QED BY <1>3, <1>4 DEF IsPrefixOf

LEMMA Concat ==
  ASSUME NEW a \in Seq(Units), NEW b \in Seq(Units)
  PROVE  /\ a \o b \in Seq(Units) /\ Len(a \o b) = Len(a) + Len(b) /\ Len(a) \in Nat /\ Len(b) \in Nat
         /\ \A i \in 1..Len(a) : (a \o b)[i] = a[i]
         /\ \A i \in 1..Len(b) : (a \o b)[Len(a) + i] = b[i]
<1>1. Len(a) \in Nat /\ Len(b) \in Nat
  BY LenProperties
<1>2. /\ a \o b \in Seq(Units) /\ Len(a \o b) = Len(a) + Len(b)
      /\ \A i \in 1..(Len(a) + Len(b)) : (a \o b)[i] = IF i <= Len(a) THEN a[i] ELSE b[i - Len(a)]
  BY ConcatProperties
<1>3. ASSUME NEW i \in 1..Len(a)
      PROVE  (a \o b)[i] = a[i]
  <2>1. i \in 1..(Len(a) + Len(b)) /\ i <= Len(a)
    BY <1>1
  <2> QED BY <1>2, <2>1
<1>4. ASSUME NEW i \in 1..Len(b)
      PROVE  (a \o b)[Len(a) + i] = b[i]
  <2>1. Len(a) + i \in 1..(Len(a) + Len(b)) /\ ~(Len(a) + i <= Len(a)) /\ (Len(a) + i) - Len(a) = i
    BY <1>1
  <2> QED BY <1>2, <2>1
<1> QED BY <1>1, <1>2, <1>3, <1>4

LEMMA Associates == \A s, t, u \in Seq(Units) : (s \o t) \o u = s \o (t \o u)
BY ConcatAssociative

LEMMA DropConcat ==
  ASSUME NEW w \in Seq(Units), NEW r \in Seq(Units), NEW n \in Nat, n <= Len(w)
  PROVE  Drop(w, n) \o r = Drop(w \o r, n)
<1> DEFINE a == Drop(w, n)
           c == w \o r
           d == Drop(c, n)
<1>1. /\ a \in Seq(Units) /\ Len(a) = Len(w) - n /\ \A i \in 1..(Len(w) - n) : a[i] = w[n + i]
  BY Dropped
<1>2. /\ c \in Seq(Units) /\ Len(c) = Len(w) + Len(r) /\ Len(w) \in Nat /\ Len(r) \in Nat
      /\ \A i \in 1..Len(w) : c[i] = w[i]
      /\ \A i \in 1..Len(r) : c[Len(w) + i] = r[i]
  BY Concat
<1>3. n <= Len(c)
  BY <1>2
<1> HIDE DEF c
<1>4. d \in Seq(Units) /\ Len(d) = Len(c) - n /\ \A i \in 1..(Len(c) - n) : d[i] = c[n + i]
  BY <1>2, <1>3, Dropped
<1> HIDE DEF a, d
<1>5. /\ a \o r \in Seq(Units) /\ Len(a \o r) = Len(a) + Len(r)
      /\ \A i \in 1..Len(a) : (a \o r)[i] = a[i]
      /\ \A i \in 1..Len(r) : (a \o r)[Len(a) + i] = r[i]
  BY <1>1, Concat
<1>6. Len(a \o r) = Len(d)
  BY <1>1, <1>2, <1>4, <1>5
<1>7. ASSUME NEW i \in 1..Len(a \o r)
      PROVE  (a \o r)[i] = d[i]
  <2>1. i \in 1..(Len(c) - n) /\ d[i] = c[n + i]
    BY <1>4, <1>6, <1>7
  <2>2. CASE i <= Len(w) - n
    <3>1. i \in 1..Len(a) /\ i \in 1..(Len(w) - n) /\ n + i \in 1..Len(w)
      BY <1>1, <1>2, <2>1, <2>2
    <3> QED BY <1>1, <1>2, <1>5, <2>1, <3>1
  <2>3. CASE i > Len(w) - n
    <3> DEFINE j == i - (Len(w) - n)
    <3>1. j \in 1..Len(r) /\ i = Len(a) + j /\ n + i = Len(w) + j
      BY <1>1, <1>2, <2>1, <2>3
    <3> HIDE DEF j
    <3> QED BY <1>2, <1>5, <2>1, <3>1
  <2>4. i \in Nat
    BY <2>1
  <2> QED BY <1>2, <2>2, <2>3, <2>4
<1>8. a \o r = d
  BY <1>4, <1>5, <1>6, <1>7, SeqEqual
<1> QED BY <1>8 DEF a, c, d

\* os.write and os.read move a part of what there is.
LEMMA MoveSome ==
  ASSUME NEW a \in Seq(Units), NEW p \in Seq(Units), NEW n \in 1..Len(p)
  PROVE  /\ a \o SubSeq(p, 1, n) \in Seq(Units) /\ Drop(p, n) \in Seq(Units)
         /\ (a \o SubSeq(p, 1, n)) \o Drop(p, n) = a \o p
<1> DEFINE x == SubSeq(p, 1, n)
           y == Drop(p, n)
<1>1. Len(p) \in Nat /\ n \in Nat /\ n <= Len(p) /\ \A i \in 1..Len(p) : p[i] \in Units
  BY LenProperties, ElementOfSeq
<1>2. x \in Seq(Units) /\ Len(x) = n /\ \A i \in 1..n : x[i] = p[i]
  <2> DEFINE k == 1
  <2>1. k \in Int /\ n \in Int /\ \A i \in k..n : p[i] \in Units
    BY <1>1
  <2> HIDE DEF k
  <2>2. /\ SubSeq(p, k, n) \in Seq(Units) /\ Len(SubSeq(p, k, n)) = IF k <= n THEN n - k + 1 ELSE 0
        /\ \A i \in 1..(n - k + 1) : SubSeq(p, k, n)[i] = p[k + i - 1]
    BY <2>1, SubSeqProperties
  <2>3. n - k + 1 = n /\ (IF k <= n THEN n - k + 1 ELSE 0) = n /\ \A i \in 1..n : k + i - 1 = i
    BY <1>1 DEF k
  <2>4. Len(SubSeq(p, k, n)) = n /\ \A i \in 1..n : SubSeq(p, k, n)[i] = p[i]
    BY <2>2, <2>3
  <2> QED BY <2>2, <2>4 DEF k
<1>3. y \in Seq(Units) /\ Len(y) = Len(p) - n /\ \A i \in 1..(Len(p) - n) : y[i] = p[n + i]
  BY <1>1, Dropped
<1> HIDE DEF x, y
<1>4. /\ x \o y \in Seq(Units) /\ Len(x \o y) = Len(p)
      /\ \A i \in 1..n : (x \o y)[i] = p[i]
      /\ \A i \in 1..(Len(p) - n) : (x \o y)[n + i] = p[n + i]
  <2>1. /\ x \o y \in Seq(Units) /\ Len(x \o y) = Len(x) + Len(y)
        /\ \A i \in 1..Len(x) : (x \o y)[i] = x[i]
        /\ \A i \in 1..Len(y) : (x \o y)[Len(x) + i] = y[i]
    BY <1>2, <1>3, Concat
  <2> QED BY <1>1, <1>2, <1>3, <2>1
<1>5. ASSUME NEW i \in 1..Len(x \o y)
      PROVE  (x \o y)[i] = p[i]
  <2>1. CASE i <= n
    BY <1>1, <1>4, <2>1
  <2>2. CASE i > n
    <3> DEFINE j == i - n
    <3>1. j \in 1..(Len(p) - n) /\ i = n + j
      BY <1>1, <1>4, <2>2
    <3> HIDE DEF j
    <3> QED BY <1>4, <3>1
  <2>3. i \in Nat
    BY <1>1, <1>4
  <2> QED BY <1>1, <2>1, <2>2, <2>3
<1>6. x \o y = p
  BY <1>4, <1>5, SeqEqual
<1>7. (a \o x) \o y = a \o (x \o y)
  <2>1. x \in Seq(Units) /\ y \in Seq(Units)
    BY <1>2, <1>3
  <2> QED BY <2>1, Associates
<1>8. a \o x \in Seq(Units)
  BY <1>2, Concat
<1> QED BY <1>3, <1>6, <1>7, <1>8 DEF x, y

\* The first message of a stream that is a prefix of whole frames.
LEMMA FirstFrame ==
  ASSUME NEW s \in Seq(Messages), NEW w \in Seq(Units), NEW r \in Seq(Units),
         IsPrefixOf(w \o r, Framed(s)), Complete(w)
  PROVE  /\ s # <<>> /\ 2 <= Len(w) /\ FrameLength(w) = 2
         /\ Message(w) = <<s[1]>> /\ w[1] = s[1] /\ 1 \in 1..Len(s)
<1>1. /\ Framed(s) \in Seq(Units) /\ Len(Framed(s)) = 2 * Len(s) /\ Len(s) \in Nat
      /\ \A i \in 1..(2 * Len(s)) : Framed(s)[i] = IF i % 2 = 1 THEN s[(i + 1) \div 2] ELSE End
  BY FramedParts
<1>2. /\ w \o r \in Seq(Units) /\ Len(w \o r) = Len(w) + Len(r) /\ Len(w) \in Nat /\ Len(r) \in Nat
      /\ \A i \in 1..Len(w) : (w \o r)[i] = w[i]
  BY Concat
<1>3. Len(w \o r) <= Len(Framed(s)) /\ \A i \in 1..Len(w \o r) : (w \o r)[i] = Framed(s)[i]
  <2> DEFINE a == w \o r
             f == Framed(s)
  <2>1. a \in Seq(Units) /\ f \in Seq(Units) /\ IsPrefixOf(a, f)
    BY <1>1, <1>2
  <2> HIDE DEF a, f
  <2>2. Len(a) <= Len(f) /\ \A i \in 1..Len(a) : a[i] = f[i]
    BY <2>1, PrefixPoints
  <2> QED BY <2>2 DEF a, f
<1>4. Len(w) <= 2 * Len(s) /\ \A i \in 1..Len(w) : w[i] = Framed(s)[i]
  <2>1. \A i \in 1..Len(w) : i \in 1..Len(w \o r)
    BY <1>2
  <2> QED BY <1>1, <1>2, <1>3, <2>1
<1>5. PICK n \in 1..Len(w) : w[n] = End
  BY LenProperties DEF Complete
<1>6. Len(s) >= 1 /\ 1 \in 1..Len(w) /\ 1 \in 1..Len(s) /\ 1 \in 1..(2 * Len(s)) /\ 2 \in 1..(2 * Len(s))
  BY <1>1, <1>2, <1>4, <1>5
<1>7. Framed(s)[1] = s[1] /\ Framed(s)[2] = End
  <2>1. 1 % 2 = 1 /\ (1 + 1) \div 2 = 1 /\ 2 % 2 # 1
    OBVIOUS
  <2> QED BY <1>1, <1>6, <2>1
<1>8. w[1] = s[1] /\ w[1] # End
  <2>1. s[1] \in Messages
    BY <1>6, ElementOfSeq
  <2> QED BY <1>4, <1>6, <1>7, <2>1, EndIsNoMessage
<1>9. 2 <= Len(w) /\ 2 \in 1..Len(w) /\ w[2] = End
  <2>1. n # 1
    BY <1>5, <1>8
  <2>2. 2 <= Len(w) /\ 2 \in 1..Len(w)
    BY <1>2, <1>5, <2>1
  <2> QED BY <1>4, <1>7, <2>2
<1>10. DOMAIN w = 1..Len(w)
  BY LenProperties
<1>11. FrameLength(w) = 2
  <2> DEFINE P(m) == w[m] = End /\ \A i \in 1..(m - 1) : w[i] # End
  <2>1. P(2)
    BY <1>8, <1>9
  <2>2. ASSUME NEW m \in 1..Len(w), P(m)
        PROVE  m = 2
    <3>1. m # 1
      BY <1>8, <2>2
    <3>2. m <= 2
      <4>1. CASE m > 2
        <5>1. 2 \in 1..(m - 1)
          BY <1>2, <4>1
        <5> QED BY <1>9, <2>2, <5>1
      <4> QED BY <1>2, <4>1
    <3> QED BY <1>2, <3>1, <3>2
  <2>3. (CHOOSE m \in 1..Len(w) : P(m)) = 2
    <3>1. \E m \in 1..Len(w) : P(m)
      BY <1>9, <2>1
    <3> HIDE DEF P
    <3> QED BY <2>2, <3>1
  <2> QED BY <1>10, <2>3 DEF FrameLength
<1>12. Message(w) = <<s[1]>>
  <2>1. Message(w) = SubSeq(w, 1, 1)
    BY <1>11 DEF Message
  <2>2. /\ SubSeq(w, 1, 1) \in Seq(Units) /\ Len(SubSeq(w, 1, 1)) = 1
        /\ SubSeq(w, 1, 1)[1] = w[1]
    <3> DEFINE k == 1
    <3>1. k \in Int /\ \A i \in k..k : w[i] \in Units
      BY <1>6, ElementOfSeq
    <3> HIDE DEF k
    <3>2. /\ SubSeq(w, k, k) \in Seq(Units) /\ Len(SubSeq(w, k, k)) = IF k <= k THEN k - k + 1 ELSE 0
          /\ \A i \in 1..(k - k + 1) : SubSeq(w, k, k)[i] = w[k + i - 1]
      BY <3>1, SubSeqProperties
    <3>3. k - k + 1 = 1 /\ (IF k <= k THEN k - k + 1 ELSE 0) = 1 /\ k + 1 - 1 = k /\ 1 \in 1..1 /\ k = 1
      BY DEF k
    <3>4. SubSeq(w, k, k)[1] = w[k]
      BY <3>2, <3>3
    <3> QED BY <3>2, <3>3, <3>4
  <2>3. <<s[1]>> \in Seq(Units) /\ Len(<<s[1]>>) = 1 /\ <<s[1]>>[1] = s[1]
    <3>1. s[1] \in Messages
      BY <1>6, ElementOfSeq
    <3> QED BY <3>1, FrameParts
  <2> DEFINE a == SubSeq(w, 1, 1)
             b == <<s[1]>>
  <2>4. \A i \in 1..1 : a[i] = b[i]
    BY <1>8, <2>2, <2>3
  <2>5. a \in Seq(Units) /\ b \in Seq(Units) /\ Len(a) = 1 /\ Len(b) = 1
    BY <2>2, <2>3
  <2> HIDE DEF a, b
  <2>6. a = b
    BY <2>4, <2>5, SeqEqual
  <2> QED BY <2>1, <2>6 DEF a, b
<1>13. s # <<>>
  BY <1>6
<1> QED BY <1>6, <1>8, <1>9, <1>11, <1>12, <1>13

\* Taking it leaves a prefix of the frames of the rest, and all of them if it
\* was all of them.
LEMMA TakeFrame ==
  ASSUME NEW s \in Seq(Messages), NEW w \in Seq(Units), NEW r \in Seq(Units),
         IsPrefixOf(w \o r, Framed(s)), Complete(w)
  PROVE  /\ Drop(w, FrameLength(w)) \in Seq(Units)
         /\ IsPrefixOf(Drop(w, FrameLength(w)) \o r, Framed(Tail(s)))
         /\ w \o r = Framed(s) => Drop(w, FrameLength(w)) \o r = Framed(Tail(s))
<1> DEFINE k == 2
           a == w \o r
           f == Framed(s)
<1>1. FrameLength(w) = k /\ s # <<>> /\ k <= Len(w) /\ k \in Nat
  BY FirstFrame
<1>2. a \in Seq(Units) /\ Len(a) = Len(w) + Len(r) /\ Len(w) \in Nat /\ Len(r) \in Nat
  BY Concat
<1>3. f \in Seq(Units) /\ Len(f) \in Nat /\ Framed(Tail(s)) = Drop(f, k)
  BY <1>1, FramedParts, FramedTail, LenProperties
<1> HIDE DEF k
<1>4. Drop(w, k) \in Seq(Units) /\ Drop(w, k) \o r = Drop(a, k)
  BY <1>1, Dropped, DropConcat
<1> HIDE DEF a, f
<1>5. IsPrefixOf(a, f)
  BY DEF a, f
<1>6. Len(a) <= Len(f) /\ \A i \in 1..Len(a) : a[i] = f[i]
  BY <1>2, <1>3, <1>5, PrefixPoints
<1>7. k <= Len(a) /\ k <= Len(f) /\ Len(a) \in Nat
  BY <1>1, <1>2, <1>6
<1>8. /\ Drop(a, k) \in Seq(Units) /\ Len(Drop(a, k)) = Len(a) - k
      /\ \A i \in 1..(Len(a) - k) : Drop(a, k)[i] = a[k + i]
  BY <1>1, <1>2, <1>7, Dropped
<1>9. /\ Drop(f, k) \in Seq(Units) /\ Len(Drop(f, k)) = Len(f) - k
      /\ \A i \in 1..(Len(f) - k) : Drop(f, k)[i] = f[k + i]
  BY <1>1, <1>3, <1>7, Dropped
<1>10. IsPrefixOf(Drop(a, k), Drop(f, k))
  <2>1. Len(Drop(a, k)) <= Len(Drop(f, k))
    BY <1>1, <1>3, <1>6, <1>7, <1>8, <1>9
  <2>2. ASSUME NEW i \in 1..Len(Drop(a, k))
        PROVE  Drop(a, k)[i] = Drop(f, k)[i]
    <3>1. i \in 1..(Len(a) - k) /\ i \in 1..(Len(f) - k) /\ k + i \in 1..Len(a)
      BY <1>1, <1>3, <1>6, <1>7, <1>8
    <3> QED BY <1>6, <1>8, <1>9, <3>1
  <2> QED BY <1>8, <1>9, <2>1, <2>2, PrefixPoints
<1> QED BY <1>1, <1>3, <1>4, <1>10 DEF a, f

\* One more message is written, whole or torn.
LEMMA SayFrame ==
  ASSUME NEW s \in Seq(Messages), NEW m \in Messages, NEW w \in Seq(Units), NEW r \in Seq(Units),
         w \o r = Framed(s)
  PROVE  /\ r \o Frame(m) \in Seq(Units) /\ r \o <<m>> \in Seq(Units)
         /\ w \o (r \o Frame(m)) = Framed(Append(s, m))
         /\ IsPrefixOf(w \o (r \o Frame(m)), Framed(Append(s, m)))
         /\ IsPrefixOf(w \o (r \o <<m>>), Framed(Append(s, m)))
<1> DEFINE a == w \o r
           f == Frame(m)
           h == <<m>>
<1>1. /\ f \in Seq(Units) /\ Len(f) = 2 /\ f[1] = m
      /\ h \in Seq(Units) /\ Len(h) = 1 /\ h[1] = m
  BY FrameParts
<1>2. a \in Seq(Units) /\ Framed(Append(s, m)) = a \o f
  BY Concat, FramedAppend
<1> HIDE DEF f, h
<1>3. /\ r \o f \in Seq(Units) /\ w \o (r \o f) = a \o f
      /\ r \o h \in Seq(Units) /\ w \o (r \o h) = a \o h
  <2>1. \A t \in Seq(Units) : r \o t \in Seq(Units) /\ w \o (r \o t) = (w \o r) \o t
    <3>1. ASSUME NEW t \in Seq(Units)
          PROVE  r \o t \in Seq(Units) /\ w \o (r \o t) = (w \o r) \o t
      <4>1. r \o t \in Seq(Units)
        BY Concat
      <4>2. (w \o r) \o t = w \o (r \o t)
        BY Associates
      <4> QED BY <4>1, <4>2
    <3> QED BY <3>1
  <2> QED BY <1>1, <2>1
<1> HIDE DEF a
<1>4. /\ a \o f \in Seq(Units) /\ Len(a \o f) = Len(a) + Len(f) /\ Len(a) \in Nat
      /\ \A i \in 1..Len(a) : (a \o f)[i] = a[i]
      /\ \A i \in 1..Len(f) : (a \o f)[Len(a) + i] = f[i]
  BY <1>1, <1>2, Concat
<1>5. /\ a \o h \in Seq(Units) /\ Len(a \o h) = Len(a) + Len(h)
      /\ \A i \in 1..Len(a) : (a \o h)[i] = a[i]
      /\ \A i \in 1..Len(h) : (a \o h)[Len(a) + i] = h[i]
  BY <1>1, <1>2, Concat
<1>6. IsPrefixOf(a \o f, a \o f)
  <2> DEFINE z == a \o f
  <2>1. z \in Seq(Units)
    BY <1>4
  <2> HIDE DEF z
  <2>2. Len(z) \in Nat
    BY <2>1, LenProperties
  <2>3. IsPrefixOf(z, z)
    BY <2>1, <2>2, PrefixPoints
  <2> QED BY <2>3 DEF z
<1>7. IsPrefixOf(a \o h, a \o f)
  <2>1. Len(a \o h) <= Len(a \o f)
    BY <1>1, <1>4, <1>5
  <2>2. 1 \in 1..Len(h) /\ 1 \in 1..Len(f)
    BY <1>1
  <2>3. (a \o h)[Len(a) + 1] = m /\ (a \o f)[Len(a) + 1] = m
    BY <1>1, <1>4, <1>5, <2>2
  <2>4. ASSUME NEW i \in 1..Len(a \o h)
        PROVE  (a \o h)[i] = (a \o f)[i]
    <3>1. i \in 1..Len(a) \/ i = Len(a) + 1
      BY <1>1, <1>4, <1>5
    <3> QED BY <1>4, <1>5, <2>3, <3>1
  <2> QED BY <1>4, <1>5, <2>1, <2>4, PrefixPoints
<1> QED BY <1>2, <1>3, <1>6, <1>7 DEF f, h

-----------------------------------------------------------------------------
(* The parts of the invariant, by the variables they are about. *)

AskedIntact == alive => inbox \o outbox = Framed(asked)
SaidIntact  == (alive => buf \o pipe = Framed(said)) /\ IsPrefixOf(buf \o pipe, Framed(said))

ClientTypes ==
  /\ phase \in Phases
  /\ lastId["control"] \in 0..3 /\ lastId["page"] \in 0..MaxCalls
  /\ lastId \in [{"control", "page"} -> Nat]
  /\ awaited \in Calls \cup {None, Load}
  /\ left \in 0..TIMEOUT
  /\ closed \in BOOLEAN
  /\ outcome \in [Calls -> Outcomes]
  /\ reply \in [Calls -> Calls \cup {None}]

BrowserTypes == alive \in BOOLEAN /\ running \subseteq Calls /\ executed \subseteq Calls

WireTypes ==
  /\ outbox # <<>> => awaited \in Calls
  /\ asked \in Seq(Calls) /\ said \in Seq(Messages)
  /\ outbox \in Seq(Units) /\ inbox \in Seq(Units)
  /\ pipe \in Seq(Units) /\ buf \in Seq(Units)

ClientInv == ClientTypes /\ TurnInv /\ LaunchAnswered /\ OutcomeInv

LEMMA InvParts ==
  ChannelInv <=> /\ ClientInv /\ BrowserTypes /\ WireTypes
                 /\ AskedIntact /\ SaidIntact /\ JourneyInv
BY DEF ChannelInv, ClientInv, ChannelTypeOK, StreamTypes, FramesIntact,
       ClientTypes, BrowserTypes, WireTypes, AskedIntact, SaidIntact

LEMMA InvPartsNext ==
  ChannelInv' <=> /\ ClientInv' /\ BrowserTypes' /\ WireTypes'
                  /\ AskedIntact' /\ SaidIntact' /\ JourneyInv'
BY DEF ChannelInv, ClientInv, ChannelTypeOK, StreamTypes, FramesIntact,
       ClientTypes, BrowserTypes, WireTypes, AskedIntact, SaidIntact

LEMMA ClientSame ==
  ASSUME ClientInv, UNCHANGED <<clientVars, closed, results>>
  PROVE  ClientInv'
BY DEF ClientInv, ClientTypes, TurnInv, LaunchAnswered, OutcomeInv, clientVars, results

LEMMA JourneySame ==
  ASSUME JourneyInv, UNCHANGED <<asked, said, running, executed, outcome>>
  PROVE  JourneyInv'
BY DEF JourneyInv

\* The end of a wait, whatever it leads to.
LEMMA SettledKeeps ==
  ASSUME ClientInv, awaited # None, NEW how, NEW ok, Settled(how, ok),
         \/ how = "answered" /\ ok = TRUE
         \/ how \in {"refused", "failed"} /\ ok = FALSE,
         UNCHANGED lastId
  PROVE  /\ awaited' = None /\ left' \in 0..TIMEOUT /\ phase' \in Phases
         /\ outcome' \in [Calls -> Outcomes]
         /\ \A c \in Calls : outcome'[c] = IF c = awaited THEN how ELSE outcome[c]
         /\ TurnInv' /\ LaunchAnswered' /\ OutcomeInv'
<1>1. awaited' = None /\ left' = 0 /\ Onward(ok)
  BY DEF Settled
<1>2. left' \in 0..TIMEOUT
  BY <1>1, ChannelAssumption
<1>3. /\ phase \in Phases /\ awaited \in Calls \cup {Load} /\ outcome \in [Calls -> Outcomes]
      /\ lastId \in [{"control", "page"} -> Nat]
  BY DEF ClientInv, ClientTypes
<1>4. how \in Outcomes /\ how \notin {"waiting", "idle"}
  BY DEF Outcomes
<1>5. /\ outcome' \in [Calls -> Outcomes]
      /\ \A c \in Calls : outcome'[c] = IF c = awaited THEN how ELSE outcome[c]
  <2>1. CASE awaited \in Calls
    <3>1. outcome' = [outcome EXCEPT ![awaited] = how]
      BY <2>1 DEF Settled
    <3> QED BY <1>3, <1>4, <2>1, <3>1
  <2>2. CASE awaited \notin Calls
    <3>1. outcome' = outcome
      BY <2>2 DEF Settled
    <3> QED BY <1>3, <2>2, <3>1
  <2> QED BY <2>1, <2>2
<1>6. OutcomeInv'
  <2>1. \A c \in Calls : c # None
    BY EndIsNoMessage
  <2>2. ASSUME NEW c \in Calls
        PROVE  /\ outcome'[c] # "waiting" /\ c # awaited'
               /\ outcome'[c] = "idle" <=> c[2] > lastId'[c[1]]
    <3>1. /\ outcome[c] = "waiting" <=> awaited = c
          /\ outcome[c] = "idle" <=> c[2] > lastId[c[1]]
      BY DEF ClientInv, OutcomeInv
    <3>2. CASE c = awaited
      BY <1>1, <1>4, <1>5, <2>1, <3>1, <3>2
    <3>3. CASE c # awaited
      BY <1>1, <1>5, <2>1, <3>1, <3>3
    <3> QED BY <3>2, <3>3
  <2> QED BY <2>2 DEF OutcomeInv
<1>7. phase \notin {"closed", "abandoned"}
  BY DEF ClientInv, TurnInv
<1>8. /\ phase' \in Phases
      /\ \/ phase = "up" /\ phase' = "up"
         \/ phase' \in {"closed", "abandoned"}
         \/ ok /\ phase = "launch" /\ phase' = IF lastId["control"] = 2 THEN "start" ELSE "launch"
         \/ ok /\ phase = "start" /\ phase' = IF lastId["page"] = NAVIGATE_CALL THEN "load" ELSE "start"
         \/ ok /\ phase = "load" /\ phase' = "arrive"
         \/ ok /\ phase = "arrive" /\ phase' \in {"arrive", "up"}
  BY <1>1, <1>3 DEF Onward, Phases
<1>9. TurnInv'
  <2>1. None \notin Calls /\ None # Load
    BY EndIsNoMessage
  <2>2. lastId["control"] \in Nat /\ lastId["page"] \in Nat /\ NAVIGATE_CALL \in Nat
    BY <1>3, ChannelAssumption
  <2>3. CASE phase' \in {"closed", "abandoned"}
    BY <1>1, <2>1, <2>3 DEF TurnInv
  <2>4. CASE phase = "up" /\ phase' = "up"
    BY <1>1, <2>1, <2>4 DEF ClientInv, TurnInv
  <2>5. CASE phase = "launch" /\ phase' = IF lastId["control"] = 2 THEN "start" ELSE "launch"
    BY <1>1, <2>1, <2>2, <2>5 DEF ClientInv, TurnInv
  <2>6. CASE phase = "start" /\ phase' = IF lastId["page"] = NAVIGATE_CALL THEN "load" ELSE "start"
    BY <1>1, <2>1, <2>2, <2>6 DEF ClientInv, TurnInv
  <2>7. CASE phase \in {"load", "arrive"} /\ phase' \in {"arrive", "up"}
    BY <1>1, <2>1, <2>2, <2>7 DEF ClientInv, TurnInv
  <2> QED BY <1>8, <2>3, <2>4, <2>5, <2>6, <2>7
<1>10. LaunchAnswered'
  <2>1. ASSUME phase' \in {"launch", "start", "load", "arrive"},
               NEW c \in Calls, c[2] <= lastId[c[1]]
        PROVE  outcome'[c] = "answered"
    <3>1. phase \in {"launch", "start", "load", "arrive"} /\ ok
      BY <1>8, <2>1
    <3>2. c # awaited => outcome[c] = "answered"
      BY <2>1, <3>1 DEF ClientInv, LaunchAnswered
    <3>3. how = "answered"
      BY <3>1
    <3> QED BY <1>5, <3>2, <3>3
  <2>2. ASSUME phase' \in {"up", "closing"},
               NEW c \in Calls, IF c[1] = "control" THEN c[2] <= 2 ELSE c[2] <= 3
        PROVE  outcome'[c] = "answered"
    <3>1. CASE phase = "up"
      <4>1. outcome[c] = "answered"
        BY <2>2, <3>1 DEF ClientInv, LaunchAnswered
      <4>2. c # awaited
        BY <4>1 DEF ClientInv, OutcomeInv
      <4> QED BY <1>5, <4>1, <4>2
    <3>2. CASE phase = "arrive" /\ ok
      <4>1. lastId["control"] = 2 /\ lastId["page"] > NAVIGATE_CALL
        BY <3>2 DEF ClientInv, TurnInv
      <4>2. lastId["page"] >= 3
        BY <1>3, <4>1, ChannelAssumption
      <4>3. c[1] \in {"control", "page"} /\ c[2] \in Nat
        BY EndIsNoMessage
      <4>4. c[2] <= lastId[c[1]]
        BY <1>3, <2>2, <4>1, <4>2, <4>3
      <4>5. c # awaited => outcome[c] = "answered"
        BY <3>2, <4>4 DEF ClientInv, LaunchAnswered
      <4>6. how = "answered"
        BY <3>2
      <4> QED BY <1>5, <4>5, <4>6
    <3> QED BY <1>8, <2>2, <3>1, <3>2
  <2> QED BY <2>1, <2>2 DEF LaunchAnswered
<1> QED BY <1>1, <1>2, <1>5, <1>6, <1>8, <1>9, <1>10

-----------------------------------------------------------------------------
(* Each step keeps the invariant. *)

\* The call a session would make next, and what it finds.
LEMMA NextCall ==
  ASSUME ClientInv, NEW session \in {"control", "page"}, awaited = None, Turn(session)
  PROVE  /\ <<session, lastId[session] + 1>> \in Calls
         /\ lastId[session] \in Nat
         /\ outcome[<<session, lastId[session] + 1>>] = "idle"
         /\ session = "control" <=> phase \in {"launch", "closing"}
         /\ session = "page" => lastId["page"] < MaxCalls /\ phase \in {"start", "arrive", "up"}
         /\ session = "control" => lastId["control"] < 3
<1> DEFINE n == lastId[session] + 1
           call == <<session, n>>
<1>1. lastId[session] \in Nat /\ lastId["control"] \in Nat /\ lastId["page"] \in Nat
  BY DEF ClientInv, ClientTypes
<1>2. /\ session = "control" => phase \in {"launch", "closing"}
      /\ session = "page" => lastId["page"] < MaxCalls /\ phase \in {"start", "arrive", "up"}
  BY DEF Turn
<1>3. session = "control" => lastId["control"] < 3
  BY <1>1, <1>2 DEF ClientInv, TurnInv
<1>4. call \in Calls
  <2>1. CASE session = "control"
    <3>1. n \in 1..3
      BY <1>1, <1>3, <2>1
    <3> QED BY <2>1, <3>1 DEF Calls, ControlCalls
  <2>2. CASE session = "page"
    <3>1. n \in 1..MaxCalls
      BY <1>1, <1>2, <2>2, ChannelAssumption
    <3> QED BY <2>2, <3>1 DEF Calls, PageCalls
  <2> QED BY <2>1, <2>2
<1>5. call[1] = session /\ call[2] = lastId[session] + 1
  OBVIOUS
<1> HIDE DEF call
<1>6. outcome[call] = "idle"
  BY <1>1, <1>4, <1>5 DEF ClientInv, OutcomeInv
<1> QED BY <1>1, <1>2, <1>3, <1>4, <1>6 DEF call

\* A session's counter moves on, past a call that was idle.
LEMMA Numbered ==
  ASSUME ClientInv, NEW session \in {"control", "page"}, awaited = None, Turn(session),
         NEW how \in Outcomes \ {"idle"},
         lastId' = [lastId EXCEPT ![session] = @ + 1],
         outcome' = [outcome EXCEPT ![<<session, lastId[session] + 1>>] = how]
  PROVE  LET call == <<session, lastId[session] + 1>> IN
         /\ lastId' \in [{"control", "page"} -> Nat]
         /\ lastId'["control"] \in 0..3 /\ lastId'["page"] \in 0..MaxCalls
         /\ lastId'[session] = lastId[session] + 1
         /\ \A s \in {"control", "page"} : s # session => lastId'[s] = lastId[s]
         /\ outcome' \in [Calls -> Outcomes]
         /\ \A c \in Calls : outcome'[c] = IF c = call THEN how ELSE outcome[c]
         /\ \A c \in Calls : outcome'[c] = "idle" <=> c[2] > lastId'[c[1]]
         /\ \A c \in Calls : c # call /\ c[2] <= lastId'[c[1]] => c[2] <= lastId[c[1]]
<1> DEFINE call == <<session, lastId[session] + 1>>
<1>1. /\ call \in Calls /\ lastId[session] \in Nat
      /\ session = "page" => lastId["page"] < MaxCalls
      /\ session = "control" => lastId["control"] < 3
  BY NextCall
<1>2. /\ lastId \in [{"control", "page"} -> Nat] /\ outcome \in [Calls -> Outcomes]
      /\ lastId["control"] \in 0..3 /\ lastId["page"] \in 0..MaxCalls
  BY DEF ClientInv, ClientTypes
<1>3. call[1] = session /\ call[2] = lastId[session] + 1
  OBVIOUS
<1>4. outcome' = [outcome EXCEPT ![call] = how]
  OBVIOUS
<1>5. \A c \in Calls : c[1] = session /\ c[2] = lastId[session] + 1 => c = call
  BY EndIsNoMessage
<1> HIDE DEF call
<1>6. /\ lastId' \in [{"control", "page"} -> Nat] /\ lastId'[session] = lastId[session] + 1
      /\ \A s \in {"control", "page"} : s # session => lastId'[s] = lastId[s]
  BY <1>1, <1>2
<1>7. lastId'["control"] \in 0..3 /\ lastId'["page"] \in 0..MaxCalls
  BY <1>1, <1>2, <1>6, ChannelAssumption
<1>8. /\ outcome' \in [Calls -> Outcomes]
      /\ \A c \in Calls : outcome'[c] = IF c = call THEN how ELSE outcome[c]
  BY <1>1, <1>2, <1>4
<1>9. ASSUME NEW c \in Calls
      PROVE  /\ outcome'[c] = "idle" <=> c[2] > lastId'[c[1]]
             /\ c # call /\ c[2] <= lastId'[c[1]] => c[2] <= lastId[c[1]]
  <2>1. outcome[c] = "idle" <=> c[2] > lastId[c[1]]
    BY DEF ClientInv, OutcomeInv
  <2>2. c[1] \in {"control", "page"} /\ c[2] \in Nat /\ lastId[c[1]] \in Nat
    BY <1>2, EndIsNoMessage
  <2>3. CASE c = call
    <3>1. c[2] = lastId'[c[1]]
      BY <1>3, <1>6, <2>3
    <3> QED BY <1>1, <1>3, <1>6, <1>8, <2>2, <2>3, <3>1
  <2>4. CASE c # call
    <3>1. c[1] = session => c[2] # lastId[session] + 1
      BY <1>5, <2>4
    <3>2. c[2] > lastId'[c[1]] <=> c[2] > lastId[c[1]]
      BY <1>1, <1>6, <2>2, <3>1
    <3>3. c[2] <= lastId'[c[1]] => c[2] <= lastId[c[1]]
      BY <1>1, <1>6, <2>2, <3>1
    <3> QED BY <1>8, <2>1, <2>4, <3>2, <3>3
  <2> QED BY <2>3, <2>4
<1> QED BY <1>6, <1>7, <1>8, <1>9 DEF call

LEMMA CallKeeps ==
  ASSUME ChannelInv, NEW session \in {"control", "page"}, Call(session)
  PROVE  ChannelInv'
<1> DEFINE call == <<session, lastId[session] + 1>>
<1>0. ClientInv /\ BrowserTypes /\ WireTypes /\ AskedIntact /\ SaidIntact /\ JourneyInv
  BY InvParts
<1>1. /\ awaited = None /\ Turn(session)
      /\ lastId' = [lastId EXCEPT ![session] = @ + 1]
      /\ awaited' = call /\ left' = TIMEOUT
      /\ outbox' = Frame(call) /\ asked' = Append(asked, call)
      /\ outcome' = [outcome EXCEPT ![call] = "waiting"]
      /\ UNCHANGED <<phase, inbox, pipe, buf, closed, browserVars, said, reply>>
  BY DEF Call
<1>2. /\ call \in Calls /\ outcome[call] = "idle" /\ lastId[session] \in Nat
      /\ session = "control" <=> phase \in {"launch", "closing"}
      /\ session = "page" => phase \in {"start", "arrive", "up"}
  BY <1>0, <1>1, NextCall
<1>3. "waiting" \in Outcomes \ {"idle"}
  BY DEF Outcomes
<1>4. /\ lastId' \in [{"control", "page"} -> Nat]
      /\ lastId'["control"] \in 0..3 /\ lastId'["page"] \in 0..MaxCalls
      /\ lastId'[session] = lastId[session] + 1
      /\ \A s \in {"control", "page"} : s # session => lastId'[s] = lastId[s]
      /\ outcome' \in [Calls -> Outcomes]
      /\ \A c \in Calls : outcome'[c] = IF c = call THEN "waiting" ELSE outcome[c]
      /\ \A c \in Calls : outcome'[c] = "idle" <=> c[2] > lastId'[c[1]]
      /\ \A c \in Calls : c # call /\ c[2] <= lastId'[c[1]] => c[2] <= lastId[c[1]]
  BY <1>0, <1>1, <1>3, Numbered
<1>5. call[1] = session /\ call[2] = lastId'[session]
  BY <1>4
<1>6. Load \notin Calls /\ None \notin Calls
  BY EndIsNoMessage
<1> HIDE DEF call
<1>7. ClientTypes'
  BY <1>0, <1>1, <1>2, <1>4, ChannelAssumption DEF ClientInv, ClientTypes
<1>8. TurnInv'
  <2>1. lastId["control"] \in Nat /\ lastId["page"] \in Nat /\ NAVIGATE_CALL \in Nat
    BY <1>0, ChannelAssumption DEF ClientInv, ClientTypes
  <2>2. awaited' = call /\ call # Load /\ call # None /\ UNCHANGED phase
    BY <1>1, <1>2, <1>6
  <2>3. CASE session = "control"
    BY <1>0, <1>1, <1>2, <1>4, <1>5, <2>1, <2>2, <2>3 DEF ClientInv, TurnInv
  <2>4. CASE session = "page"
    BY <1>0, <1>1, <1>2, <1>4, <1>5, <2>1, <2>2, <2>4 DEF ClientInv, TurnInv
  <2> QED BY <2>3, <2>4
<1>9. LaunchAnswered'
  <2>1. ASSUME phase \in {"launch", "start", "load", "arrive"},
               NEW c \in Calls, c[2] <= lastId'[c[1]], c # call
        PROVE  outcome'[c] = "answered"
    <3>1. c[2] <= lastId[c[1]] /\ c # awaited
      BY <1>1, <1>4, <1>6, <2>1
    <3>2. outcome[c] = "answered"
      BY <1>0, <2>1, <3>1 DEF ClientInv, LaunchAnswered
    <3> QED BY <1>4, <2>1, <3>2
  <2>2. ASSUME phase \in {"up", "closing"},
               NEW c \in Calls, IF c[1] = "control" THEN c[2] <= 2 ELSE c[2] <= 3
        PROVE  outcome'[c] = "answered"
    <3>1. outcome[c] = "answered"
      BY <1>0, <2>2 DEF ClientInv, LaunchAnswered
    <3> QED BY <1>2, <1>4, <3>1
  <2> QED BY <1>1, <2>1, <2>2 DEF LaunchAnswered
<1>10. OutcomeInv'
  <2>1. ASSUME NEW c \in Calls
        PROVE  outcome'[c] = "waiting" <=> call = c
    <3>1. outcome[c] # "waiting"
      BY <1>0, <1>1, <1>6 DEF ClientInv, OutcomeInv
    <3> QED BY <1>4, <3>1
  <2> QED BY <1>1, <1>4, <2>1 DEF OutcomeInv
<1>11. BrowserTypes' /\ SaidIntact'
  BY <1>0, <1>1 DEF BrowserTypes, SaidIntact, browserVars
<1>12. outbox = <<>> /\ asked \in Seq(Messages) /\ inbox \in Seq(Units)
  <2>1. Calls \subseteq Messages /\ asked \in Seq(Calls)
    BY <1>0 DEF Messages, WireTypes
  <2>2. asked \in Seq(Messages)
    BY <2>1, SeqMonotonic
  <2> QED BY <1>0, <1>1, <1>6, <2>2 DEF WireTypes
<1>13. WireTypes'
  <2>1. Append(asked, call) \in Seq(Calls)
    BY <1>0, <1>2, AppendProperties DEF WireTypes
  <2>2. Frame(call) \in Seq(Units)
    BY <1>2, FrameParts DEF Messages
  <2> QED BY <1>0, <1>1, <1>2, <2>1, <2>2 DEF WireTypes
<1>14. AskedIntact'
  <2>1. alive => inbox = Framed(asked)
    <3>1. inbox \o <<>> = inbox
      BY <1>12, ConcatEmptySeq
    <3> QED BY <1>0, <1>12, <3>1 DEF AskedIntact
  <2>2. Framed(Append(asked, call)) = Framed(asked) \o Frame(call)
    BY <1>2, <1>12, FramedAppend DEF Messages
  <2> QED BY <1>1, <2>1, <2>2 DEF AskedIntact, browserVars
<1>15. JourneyInv'
  <2>1. /\ Len(asked) \in Nat /\ Len(asked') = Len(asked) + 1
        /\ \A i \in 1..Len(asked) : asked'[i] = asked[i] /\ asked[i] \in Calls
        /\ asked'[Len(asked) + 1] = call
    <3>1. asked \in Seq(Calls)
      BY <1>0 DEF WireTypes
    <3>2. /\ Len(Append(asked, call)) = Len(asked) + 1
          /\ \A i \in 1..Len(asked) : Append(asked, call)[i] = asked[i]
          /\ Append(asked, call)[Len(asked) + 1] = call
      BY <1>2, <3>1, AppendProperties
    <3> QED BY <1>1, <3>1, <3>2, LenProperties, ElementOfSeq
  <2>2. \A i \in 1..Len(asked) : asked[i] # call
    BY <1>0, <1>2 DEF JourneyInv
  <2>3. call \notin running /\ call \notin executed
    BY <1>0, <1>2 DEF JourneyInv
  <2>4. UNCHANGED <<running, executed, said>>
    BY <1>1 DEF browserVars
  <2>5. \A i \in 1..Len(asked') : i \in 1..Len(asked) \/ i = Len(asked) + 1
    BY <2>1
  <2>6. \A i, j \in 1..Len(asked') : asked'[i] = asked'[j] => i = j
    BY <1>0, <2>1, <2>2, <2>5 DEF JourneyInv
  <2>7. ASSUME NEW i \in 1..Len(asked')
        PROVE  asked'[i] \notin running' \cup executed' /\ outcome'[asked'[i]] \in {"waiting", "failed"}
    <3>1. CASE i \in 1..Len(asked)
      BY <1>0, <1>4, <2>1, <2>2, <2>4, <3>1 DEF JourneyInv
    <3>2. CASE i = Len(asked) + 1
      BY <1>2, <1>4, <2>1, <2>3, <2>4, <3>2
    <3> QED BY <2>5, <3>1, <3>2
  <2>8. /\ running' \cap executed' = {}
        /\ \A c \in running' : outcome'[c] \in {"waiting", "failed"}
        /\ \A c \in executed' : outcome'[c] \in {"waiting", "failed", "answered", "refused"}
    BY <1>0, <1>4, <2>4 DEF JourneyInv, BrowserTypes
  <2>9. \A c \in Calls : outcome'[c] \in {"answered", "refused"} => c \in executed'
    BY <1>0, <1>4, <2>4 DEF JourneyInv
  <2>10. \A i, j \in 1..Len(said') : said'[i] \in Calls /\ said'[i] = said'[j] => i = j
    BY <1>0, <2>4 DEF JourneyInv
  <2>11. \A i \in 1..Len(said') : said'[i] \in Calls =>
           said'[i] \in executed' /\ outcome'[said'[i]] \in {"waiting", "failed"}
    BY <1>0, <1>4, <2>4 DEF JourneyInv
  <2> QED BY <2>6, <2>7, <2>8, <2>9, <2>10, <2>11 DEF JourneyInv
<1> QED BY <1>7, <1>8, <1>9, <1>10, <1>11, <1>13, <1>14, <1>15, InvPartsNext DEF ClientInv

LEMMA CallOnClosedKeeps ==
  ASSUME ChannelInv, NEW session \in {"control", "page"}, CallOnClosed(session)
  PROVE  ChannelInv'
<1> DEFINE call == <<session, lastId[session] + 1>>
<1>0. ClientInv /\ BrowserTypes /\ WireTypes /\ AskedIntact /\ SaidIntact /\ JourneyInv
  BY InvParts
<1>1. /\ awaited = None /\ Turn(session)
      /\ lastId' = [lastId EXCEPT ![session] = @ + 1]
      /\ outcome' = [outcome EXCEPT ![call] = "unsent"]
      /\ Onward(FALSE)
      /\ UNCHANGED <<awaited, left, wires, closed, browserVars, history, reply>>
  BY DEF CallOnClosed
<1>2. /\ call \in Calls /\ outcome[call] = "idle" /\ lastId[session] \in Nat
      /\ session = "control" <=> phase \in {"launch", "closing"}
      /\ session = "page" => phase \in {"start", "arrive", "up"}
  BY <1>0, <1>1, NextCall
<1>3. "unsent" \in Outcomes \ {"idle"}
  BY DEF Outcomes
<1>4. /\ lastId' \in [{"control", "page"} -> Nat]
      /\ lastId'["control"] \in 0..3 /\ lastId'["page"] \in 0..MaxCalls
      /\ lastId'[session] = lastId[session] + 1
      /\ \A s \in {"control", "page"} : s # session => lastId'[s] = lastId[s]
      /\ outcome' \in [Calls -> Outcomes]
      /\ \A c \in Calls : outcome'[c] = IF c = call THEN "unsent" ELSE outcome[c]
      /\ \A c \in Calls : outcome'[c] = "idle" <=> c[2] > lastId'[c[1]]
      /\ \A c \in Calls : c # call /\ c[2] <= lastId'[c[1]] => c[2] <= lastId[c[1]]
  BY <1>0, <1>1, <1>3, Numbered
<1>5. Load \notin Calls /\ None \notin Calls /\ None # Load
  BY EndIsNoMessage
<1> HIDE DEF call
<1>6. /\ phase' \in Phases
      /\ \/ phase = "up" /\ phase' = "up"
         \/ phase' \in {"closed", "abandoned"}
  BY <1>0, <1>1 DEF Onward, Phases, ClientInv, ClientTypes
<1>7. ClientTypes'
  BY <1>0, <1>1, <1>4, <1>6 DEF ClientInv, ClientTypes
<1>8. TurnInv'
  <2>1. awaited' = None
    BY <1>1
  <2>2. CASE phase' \in {"closed", "abandoned"}
    BY <1>5, <2>1, <2>2 DEF TurnInv
  <2>3. CASE phase = "up" /\ phase' = "up"
    <3>1. lastId'["control"] = 2
      BY <1>0, <1>2, <1>4, <2>3 DEF ClientInv, TurnInv
    <3> QED BY <1>5, <2>1, <2>3, <3>1 DEF TurnInv
  <2> QED BY <1>6, <2>2, <2>3
<1>9. LaunchAnswered'
  <2>1. ASSUME phase = "up",
               NEW c \in Calls, IF c[1] = "control" THEN c[2] <= 2 ELSE c[2] <= 3
        PROVE  outcome'[c] = "answered"
    <3>1. outcome[c] = "answered"
      BY <1>0, <2>1 DEF ClientInv, LaunchAnswered
    <3> QED BY <1>2, <1>4, <3>1
  <2> QED BY <1>6, <2>1 DEF LaunchAnswered
<1>10. OutcomeInv'
  <2>1. ASSUME NEW c \in Calls
        PROVE  outcome'[c] # "waiting" /\ None # c
    <3>1. outcome[c] # "waiting"
      BY <1>0, <1>1, <1>5 DEF ClientInv, OutcomeInv
    <3> QED BY <1>4, <1>5, <3>1
  <2> QED BY <1>1, <1>4, <2>1 DEF OutcomeInv
<1>11. BrowserTypes' /\ SaidIntact' /\ AskedIntact' /\ WireTypes'
  BY <1>0, <1>1 DEF BrowserTypes, SaidIntact, AskedIntact, WireTypes, browserVars, wires, history
<1>12. JourneyInv'
  <2>1. UNCHANGED <<running, executed, said, asked>>
    BY <1>1 DEF browserVars, history
  <2>2. call \notin running /\ call \notin executed /\ \A i \in 1..Len(asked) : asked[i] # call /\ asked[i] \in Calls
    <3>1. \A i \in 1..Len(asked) : asked[i] \in Calls
      BY <1>0, ElementOfSeq DEF WireTypes
    <3> QED BY <1>0, <1>2, <3>1 DEF JourneyInv
  <2>3. \A i \in 1..Len(said) : said[i] # call
    BY <1>0, <2>2, <1>2 DEF JourneyInv
  <2>4. running \subseteq Calls /\ executed \subseteq Calls
    BY <1>0 DEF BrowserTypes
  <2>5. \A c \in Calls : c # call => outcome'[c] = outcome[c]
    BY <1>4
  <2>6. outcome'[call] = "unsent"
    BY <1>2, <1>4
  <2> QED BY <1>0, <2>1, <2>2, <2>3, <2>4, <2>5, <2>6 DEF JourneyInv
<1> QED BY <1>7, <1>8, <1>9, <1>10, <1>11, <1>12, InvPartsNext DEF ClientInv

LEMMA TurnKeeps ==
  ASSUME ChannelInv, WaitForLoad \/ Close
  PROVE  ChannelInv'
<1>0. ClientInv /\ BrowserTypes /\ WireTypes /\ AskedIntact /\ SaidIntact /\ JourneyInv
  BY InvParts
<1>1. Load \notin Calls /\ None \notin Calls /\ None # Load
  BY EndIsNoMessage
<1>2. /\ awaited = None /\ UNCHANGED <<lastId, wires, closed, browserVars, history, results>>
      /\ left' \in 0..TIMEOUT
  BY <1>0, ChannelAssumption DEF WaitForLoad, Close, ClientInv, ClientTypes
<1>3. CASE WaitForLoad
  <2>1. awaited' = Load /\ UNCHANGED phase /\ phase \in {"load", "up"}
    BY <1>3 DEF WaitForLoad
  <2>2. ClientTypes' /\ TurnInv' /\ OutcomeInv'
    BY <1>0, <1>1, <1>2, <2>1 DEF ClientInv, ClientTypes, TurnInv, OutcomeInv, results
  <2>3. LaunchAnswered'
    BY <1>0, <1>1, <1>2, <2>1 DEF ClientInv, LaunchAnswered, results
  <2>4. WireTypes'
    BY <1>0, <1>1, <1>2, <2>1 DEF WireTypes, wires, history
  <2>5. BrowserTypes' /\ SaidIntact' /\ AskedIntact' /\ JourneyInv'
    BY <1>0, <1>2, JourneySame DEF BrowserTypes, SaidIntact, AskedIntact, browserVars, wires, history, results
  <2> QED BY <2>2, <2>3, <2>4, <2>5, InvPartsNext DEF ClientInv
<1>4. CASE Close
  <2>1. phase = "up" /\ phase' = "closing" /\ UNCHANGED awaited
    BY <1>4 DEF Close
  <2>2. ClientTypes' /\ TurnInv' /\ OutcomeInv'
    BY <1>0, <1>1, <1>2, <2>1 DEF ClientInv, ClientTypes, TurnInv, OutcomeInv, results, Phases
  <2>3. LaunchAnswered'
    BY <1>0, <1>1, <1>2, <2>1 DEF ClientInv, LaunchAnswered, results
  <2>4. WireTypes'
    BY <1>0, <1>1, <1>2, <2>1 DEF WireTypes, wires, history
  <2>5. BrowserTypes' /\ SaidIntact' /\ AskedIntact' /\ JourneyInv'
    BY <1>0, <1>2, JourneySame DEF BrowserTypes, SaidIntact, AskedIntact, browserVars, wires, history, results
  <2> QED BY <2>2, <2>3, <2>4, <2>5, InvPartsNext DEF ClientInv
<1> QED BY <1>3, <1>4

LEMMA FailedKeeps ==
  ASSUME ChannelInv, awaited # None, NEW broken \in BOOLEAN, Failed(broken),
         outbox' = <<>>, alive => outbox = <<>>
  PROVE  ChannelInv'
<1>0. ClientInv /\ BrowserTypes /\ WireTypes /\ AskedIntact /\ SaidIntact /\ JourneyInv
  BY InvParts
<1>1. /\ Settled("failed", FALSE)
      /\ UNCHANGED <<lastId, inbox, pipe, buf, browserVars, history, reply>>
  BY DEF Failed
<1>2. closed' \in BOOLEAN
  BY DEF Failed
<1>3. /\ awaited' = None /\ left' \in 0..TIMEOUT /\ phase' \in Phases
      /\ outcome' \in [Calls -> Outcomes]
      /\ \A c \in Calls : outcome'[c] = IF c = awaited THEN "failed" ELSE outcome[c]
      /\ TurnInv' /\ LaunchAnswered' /\ OutcomeInv'
  BY <1>0, <1>1, SettledKeeps
<1>4. ClientTypes'
  BY <1>0, <1>1, <1>2, <1>3 DEF ClientInv, ClientTypes
<1>5. WireTypes'
  BY <1>0, <1>1, EmptySeq DEF WireTypes, history
<1>6. AskedIntact' /\ SaidIntact' /\ BrowserTypes'
  BY <1>0, <1>1 DEF AskedIntact, SaidIntact, BrowserTypes, browserVars, history
<1>7. JourneyInv'
  <2>1. UNCHANGED <<running, executed, said, asked>>
    BY <1>1 DEF browserVars, history
  <2>2. running \subseteq Calls /\ executed \subseteq Calls /\ \A i \in 1..Len(asked) : asked[i] \in Calls
    <3>1. \A i \in 1..Len(asked) : asked[i] \in Calls
      BY <1>0, ElementOfSeq DEF WireTypes
    <3> QED BY <1>0, <3>1 DEF BrowserTypes
  <2>3. ASSUME NEW c \in Calls
        PROVE  outcome'[c] = outcome[c] \/ (outcome[c] = "waiting" /\ outcome'[c] = "failed")
    <3>1. outcome[c] = "waiting" <=> awaited = c
      BY <1>0 DEF ClientInv, OutcomeInv
    <3> QED BY <1>3, <3>1
  <2> QED BY <1>0, <2>1, <2>2, <2>3 DEF JourneyInv
<1> QED BY <1>3, <1>4, <1>5, <1>6, <1>7, InvPartsNext DEF ClientInv

LEMMA EndsInFailure ==
  ASSUME ChannelInv, Unwritable \/ EndOfFile \/ TimeOut
  PROVE  ChannelInv'
<1>1. WireTypes /\ None \notin Calls
  BY InvParts, EndIsNoMessage
<1>2. CASE Unwritable
  <2>1. Failed(TRUE) /\ outbox' = <<>> /\ ~alive /\ outbox # <<>>
    BY <1>2 DEF Unwritable
  <2>2. awaited # None
    BY <1>1, <2>1 DEF WireTypes
  <2> QED BY <2>1, <2>2, FailedKeeps
<1>3. CASE EndOfFile
  <2>1. Failed(TRUE) /\ outbox' = outbox /\ awaited # None /\ outbox = <<>>
    BY <1>3 DEF EndOfFile, Reading
  <2> QED BY <2>1, FailedKeeps
<1>4. CASE TimeOut
  <2>1. Failed(FALSE) /\ outbox' = outbox /\ awaited # None /\ outbox = <<>>
    BY <1>4 DEF TimeOut, Reading
  <2> QED BY <2>1, FailedKeeps
<1> QED BY <1>2, <1>3, <1>4

LEMMA WriteKeeps ==
  ASSUME ChannelInv, Write
  PROVE  ChannelInv'
<1>0. ClientInv /\ BrowserTypes /\ WireTypes /\ AskedIntact /\ SaidIntact /\ JourneyInv
  BY InvParts
<1>1. PICK n \in 1..Len(outbox) :
        /\ inbox' = inbox \o SubSeq(outbox, 1, n)
        /\ outbox' = Drop(outbox, n)
  BY DEF Write
<1>2. outbox # <<>> /\ UNCHANGED <<clientVars, pipe, buf, closed, browserVars, history, results>>
  BY DEF Write
<1>3. inbox' \in Seq(Units) /\ outbox' \in Seq(Units) /\ inbox' \o outbox' = inbox \o outbox
  BY <1>0, <1>1, MoveSome DEF WireTypes
<1>4. WireTypes'
  BY <1>0, <1>2, <1>3 DEF WireTypes, clientVars, history
<1>5. AskedIntact'
  BY <1>0, <1>2, <1>3 DEF AskedIntact, browserVars, history
<1>6. SaidIntact' /\ BrowserTypes' /\ ClientInv' /\ JourneyInv'
  <2>1. UNCHANGED <<asked, said, running, executed, outcome>>
    BY <1>2 DEF browserVars, history, results
  <2>2. UNCHANGED <<clientVars, closed, results>>
    BY <1>2
  <2> QED BY <1>0, <1>2, <2>1, <2>2, ClientSame, JourneySame DEF SaidIntact, BrowserTypes, browserVars, history
<1> QED BY <1>4, <1>5, <1>6, InvPartsNext

LEMMA FillKeeps ==
  ASSUME ChannelInv, Fill
  PROVE  ChannelInv'
<1>0. ClientInv /\ BrowserTypes /\ WireTypes /\ AskedIntact /\ SaidIntact /\ JourneyInv
  BY InvParts
<1>1. PICK n \in 1..Len(pipe) :
        /\ buf' = buf \o SubSeq(pipe, 1, n)
        /\ pipe' = Drop(pipe, n)
  BY DEF Fill
<1>2. UNCHANGED <<clientVars, outbox, inbox, closed, browserVars, history, results>>
  BY DEF Fill
<1>3. buf' \in Seq(Units) /\ pipe' \in Seq(Units) /\ buf' \o pipe' = buf \o pipe
  BY <1>0, <1>1, MoveSome DEF WireTypes
<1>4. WireTypes'
  BY <1>0, <1>2, <1>3 DEF WireTypes, clientVars, history
<1>5. SaidIntact'
  BY <1>0, <1>2, <1>3 DEF SaidIntact, browserVars, history
<1>6. AskedIntact' /\ BrowserTypes' /\ ClientInv' /\ JourneyInv'
  <2>1. UNCHANGED <<asked, said, running, executed, outcome>>
    BY <1>2 DEF browserVars, history, results
  <2>2. UNCHANGED <<clientVars, closed, results>>
    BY <1>2
  <2> QED BY <1>0, <1>2, <2>1, <2>2, ClientSame, JourneySame DEF AskedIntact, BrowserTypes, browserVars, history
<1> QED BY <1>4, <1>5, <1>6, InvPartsNext

LEMMA TickKeeps ==
  ASSUME ChannelInv, Tick
  PROVE  ChannelInv'
<1>0. ClientInv /\ BrowserTypes /\ WireTypes /\ AskedIntact /\ SaidIntact /\ JourneyInv
  BY InvParts
<1>1. /\ left > 0 /\ left' = left - 1
      /\ UNCHANGED <<phase, lastId, awaited, wires, closed, browserVars, history, results>>
  BY DEF Tick
<1>2. left' \in 0..TIMEOUT
  BY <1>0, <1>1, ChannelAssumption DEF ClientInv, ClientTypes
<1>3. ClientInv'
  BY <1>0, <1>1, <1>2 DEF ClientInv, ClientTypes, TurnInv, LaunchAnswered, OutcomeInv, results
<1>4. AskedIntact' /\ SaidIntact' /\ BrowserTypes' /\ WireTypes'
  BY <1>0, <1>1 DEF AskedIntact, SaidIntact, BrowserTypes, WireTypes, wires, browserVars, history
<1>5. JourneyInv'
  BY <1>0, <1>1, JourneySame DEF browserVars, history, results
<1> QED BY <1>3, <1>4, <1>5, InvPartsNext

\* The reply to another call never has the number of the call awaited: the
\* two sessions' calls that are open at once differ in their numbers.
LEMMA Matched ==
  ASSUME ClientInv, awaited \in Calls, NEW c \in Calls, c[2] = awaited[2],
         outcome[c] \in {"waiting", "failed"}
  PROVE  c = awaited
<1>1. /\ c = <<c[1], c[2]>> /\ c[1] \in {"control", "page"} /\ c[2] \in Nat \ {0}
      /\ c[1] = "control" => c[2] <= 3
      /\ awaited = <<awaited[1], awaited[2]>> /\ awaited[1] \in {"control", "page"}
      /\ None \notin Calls
  BY EndIsNoMessage
<1>2. outcome[c] # "idle" /\ outcome[c] # "answered"
  OBVIOUS
<1>3. c[2] <= lastId[c[1]]
  <2>1. ~(c[2] > lastId[c[1]])
    BY <1>2 DEF ClientInv, OutcomeInv
  <2>2. lastId[c[1]] \in Nat
    BY <1>1 DEF ClientInv, ClientTypes
  <2> QED BY <1>1, <2>1, <2>2
<1>4. /\ awaited[2] = lastId[awaited[1]]
      /\ awaited[1] = "control" <=> phase \in {"launch", "closing"}
      /\ phase \in {"launch", "start", "load", "arrive", "up", "closing"}
  BY <1>1 DEF ClientInv, ClientTypes, TurnInv, Phases
<1>5. SUFFICES ASSUME c # awaited
               PROVE  FALSE
  OBVIOUS
<1>6. c[1] # awaited[1]
  BY <1>1, <1>5
<1>7. CASE phase = "launch"
  <2>1. c[1] = "page" /\ lastId["page"] = 0
    BY <1>1, <1>4, <1>6, <1>7 DEF ClientInv, TurnInv
  <2> QED BY <1>1, <1>3, <2>1
<1>8. CASE phase = "closing"
  <2>1. c[1] = "page" /\ awaited[1] = "control" /\ awaited # None
    BY <1>1, <1>4, <1>6, <1>8
  <2>2. c[2] = 3
    BY <1>4, <1>8, <2>1 DEF ClientInv, TurnInv
  <2>3. outcome[c] = "answered"
    BY <1>8, <2>1, <2>2 DEF ClientInv, LaunchAnswered
  <2> QED BY <1>2, <2>3
<1>9. CASE phase \in {"start", "load", "arrive", "up"}
  <2>1. c[1] = "control" /\ lastId["control"] = 2
    BY <1>1, <1>4, <1>6, <1>9 DEF ClientInv, TurnInv
  <2>2. c[2] <= 2
    BY <1>3, <2>1
  <2>3. outcome[c] = "answered"
    BY <1>3, <1>5, <1>9, <2>1, <2>2 DEF ClientInv, LaunchAnswered
  <2> QED BY <1>2, <2>3
<1> QED BY <1>4, <1>7, <1>8, <1>9

\* The reader takes the first message of the browser.
LEMMA TakenJourney ==
  ASSUME JourneyInv, WireTypes, BrowserTypes, said # <<>>, said' = Tail(said),
         UNCHANGED <<asked, running, executed>>,
         \A c \in Calls : \/ outcome'[c] = outcome[c]
                          \/ c = said[1] /\ outcome'[c] \in {"answered", "refused"}
  PROVE  JourneyInv'
<1>1. /\ Len(said') = Len(said) - 1 /\ Len(said) \in Nat \ {0}
      /\ \A i \in 1..Len(said') : said'[i] = said[i + 1]
  BY FramedTail DEF WireTypes
<1>2. /\ \A i \in 1..Len(said') : i + 1 \in 1..Len(said) /\ i + 1 # 1
      /\ \A i, j \in 1..Len(said') : i + 1 = j + 1 => i = j
      /\ 1 \in 1..Len(said)
  BY <1>1
<1>3. \A i \in 1..Len(asked) : asked[i] \in Calls
  BY ElementOfSeq DEF WireTypes
<1>4. \A i \in 1..Len(said') : said'[i] \in Calls => said'[i] # said[1]
  BY <1>1, <1>2 DEF JourneyInv
<1>5. said[1] \in Calls => said[1] \in executed
  BY <1>2 DEF JourneyInv
<1>6. \A i, j \in 1..Len(said') : said'[i] \in Calls /\ said'[i] = said'[j] => i = j
  BY <1>1, <1>2 DEF JourneyInv
<1>7. \A i \in 1..Len(said') : said'[i] \in Calls =>
        said'[i] \in executed' /\ outcome'[said'[i]] \in {"waiting", "failed"}
  <2>1. ASSUME NEW i \in 1..Len(said'), said'[i] \in Calls
        PROVE  said'[i] \in executed' /\ outcome'[said'[i]] \in {"waiting", "failed"}
    <3>1. said'[i] = said[i + 1] /\ i + 1 \in 1..Len(said) /\ said'[i] # said[1]
      BY <1>1, <1>2, <1>4, <2>1
    <3>2. said[i + 1] \in executed /\ outcome[said[i + 1]] \in {"waiting", "failed"}
      BY <2>1, <3>1 DEF JourneyInv
    <3>3. outcome'[said'[i]] = outcome[said'[i]]
      BY <2>1, <3>1
    <3> QED BY <3>1, <3>2, <3>3
  <2> QED BY <2>1
<1>8. \A i, j \in 1..Len(asked') : asked'[i] = asked'[j] => i = j
  BY DEF JourneyInv
<1>9. \A i \in 1..Len(asked') :
        asked'[i] \notin running' \cup executed' /\ outcome'[asked'[i]] \in {"waiting", "failed"}
  BY <1>3, <1>5 DEF JourneyInv
<1>10. /\ running' \cap executed' = {}
       /\ \A c \in running' : outcome'[c] \in {"waiting", "failed"}
  BY <1>5 DEF JourneyInv, BrowserTypes
<1>11. \A c \in executed' : outcome'[c] \in {"waiting", "failed", "answered", "refused"}
  BY DEF JourneyInv, BrowserTypes
<1>12. \A c \in Calls : outcome'[c] \in {"answered", "refused"} => c \in executed'
  BY <1>5 DEF JourneyInv
<1> QED BY <1>6, <1>7, <1>8, <1>9, <1>10, <1>11, <1>12 DEF JourneyInv

\* What the reader finds when a whole message is in its buffer.
LEMMA Taken ==
  ASSUME ChannelInv, Complete(buf)
  PROVE  /\ said # <<>> /\ Message(buf) = <<said[1]>> /\ said[1] \in Messages
         /\ said[1] \in Calls => /\ outcome[said[1]] \in {"waiting", "failed"}
                                 /\ said[1] \in executed
         /\ Drop(buf, FrameLength(buf)) \in Seq(Units) /\ Tail(said) \in Seq(Messages)
         /\ IsPrefixOf(Drop(buf, FrameLength(buf)) \o pipe, Framed(Tail(said)))
         /\ alive => Drop(buf, FrameLength(buf)) \o pipe = Framed(Tail(said))
<1>1. WireTypes /\ SaidIntact /\ JourneyInv
  BY InvParts
<1>2. /\ said \in Seq(Messages) /\ buf \in Seq(Units) /\ pipe \in Seq(Units)
      /\ IsPrefixOf(buf \o pipe, Framed(said))
  BY <1>1 DEF WireTypes, SaidIntact
<1>3. said # <<>> /\ Message(buf) = <<said[1]>> /\ 1 \in 1..Len(said)
  BY <1>2, FirstFrame
<1>4. /\ Drop(buf, FrameLength(buf)) \in Seq(Units)
      /\ IsPrefixOf(Drop(buf, FrameLength(buf)) \o pipe, Framed(Tail(said)))
      /\ buf \o pipe = Framed(said) => Drop(buf, FrameLength(buf)) \o pipe = Framed(Tail(said))
  BY <1>2, TakeFrame
<1>5. Tail(said) \in Seq(Messages)
  BY <1>2, <1>3, FramedTail
<1>6. said[1] \in Messages
  BY <1>2, <1>3, ElementOfSeq
<1>7. said[1] \in Calls => outcome[said[1]] \in {"waiting", "failed"} /\ said[1] \in executed
  BY <1>1, <1>3 DEF JourneyInv
<1> QED BY <1>1, <1>3, <1>4, <1>5, <1>6, <1>7 DEF SaidIntact

LEMMA MatchedReply ==
  ASSUME ChannelInv, Take, awaited \in Calls, Matches(Message(buf))
  PROVE  said[1] = awaited
<1>1. Message(buf) = <<said[1]>> /\ Load \notin Calls
      /\ (said[1] \in Calls => outcome[said[1]] \in {"waiting", "failed"})
  BY Taken, EndIsNoMessage DEF Take
<1>2. PICK c \in Calls : <<said[1]>> = <<c>> /\ c[2] = awaited[2]
  BY <1>1 DEF Matches
<1>3. c = said[1]
  BY <1>2
<1> QED BY <1>1, <1>2, <1>3, Matched, InvParts

LEMMA TakeKeeps ==
  ASSUME ChannelInv, Take
  PROVE  ChannelInv'
<1>0. ClientInv /\ BrowserTypes /\ WireTypes /\ AskedIntact /\ SaidIntact /\ JourneyInv
  BY InvParts
<1>1. /\ awaited # None /\ outbox = <<>> /\ Complete(buf)
      /\ buf' = Drop(buf, FrameLength(buf)) /\ said' = Tail(said)
      /\ UNCHANGED <<lastId, outbox, inbox, pipe, browserVars, asked>>
  BY DEF Take, Reading
<1>2. /\ said # <<>> /\ Message(buf) = <<said[1]>>
      /\ said[1] \in Calls => /\ outcome[said[1]] \in {"waiting", "failed"}
                              /\ said[1] \in executed
      /\ buf' \in Seq(Units) /\ said' \in Seq(Messages)
      /\ IsPrefixOf(buf' \o pipe, Framed(said'))
      /\ alive => buf' \o pipe = Framed(said')
  BY <1>1, Taken
<1>3. WireTypes'
  BY <1>0, <1>1, <1>2 DEF WireTypes
<1>4. AskedIntact' /\ SaidIntact' /\ BrowserTypes'
  BY <1>0, <1>1, <1>2 DEF AskedIntact, SaidIntact, BrowserTypes, browserVars
<1>5. UNCHANGED <<asked, running, executed, lastId>>
  BY <1>1 DEF browserVars
<1>6. awaited \in Calls \cup {Load} /\ Load \notin Calls
  BY <1>0, <1>1, EndIsNoMessage DEF ClientInv, ClientTypes
<1>7. CASE ~Matches(Message(buf))
  <2>1. UNCHANGED <<phase, awaited, left, closed, results>>
    BY <1>7 DEF Take
  <2>2. ClientInv'
    BY <1>0, <1>1, <2>1, ClientSame DEF clientVars
  <2>3. JourneyInv'
    BY <1>0, <1>1, <1>2, <1>5, <2>1, TakenJourney DEF results
  <2> QED BY <1>3, <1>4, <2>2, <2>3, InvPartsNext
<1>8. CASE Matches(Message(buf))
  <2>1. /\ \/ Settled("answered", TRUE)
           \/ Settled("refused", FALSE)
        /\ reply' = IF awaited = Load THEN reply ELSE [reply EXCEPT ![awaited] = Message(buf)[1]]
        /\ closed' = (closed \/ Closes)
    BY <1>8 DEF Take
  <2>2. PICK how \in {"answered", "refused"} : Settled(how, how = "answered")
    BY <2>1
  <2>3. /\ awaited' = None /\ left' \in 0..TIMEOUT /\ phase' \in Phases
        /\ outcome' \in [Calls -> Outcomes]
        /\ \A c \in Calls : outcome'[c] = IF c = awaited THEN how ELSE outcome[c]
        /\ TurnInv' /\ LaunchAnswered' /\ OutcomeInv'
    <3>1. \/ how = "answered" /\ (how = "answered") = TRUE
          \/ how \in {"refused", "failed"} /\ (how = "answered") = FALSE
      OBVIOUS
    <3> QED BY <1>0, <1>1, <2>2, <3>1, SettledKeeps
  <2>4. awaited \in Calls => said[1] = awaited
    BY <1>8, MatchedReply
  <2>5. reply' \in [Calls -> Calls \cup {None}]
    <3>1. Message(buf)[1] = said[1] /\ reply \in [Calls -> Calls \cup {None}]
      BY <1>0, <1>2 DEF ClientInv, ClientTypes
    <3> QED BY <1>6, <2>1, <2>4, <3>1
  <2>6. closed' \in BOOLEAN
    BY <2>1
  <2>7. ClientInv'
    BY <1>0, <1>1, <2>3, <2>5, <2>6 DEF ClientInv, ClientTypes
  <2>8. \A c \in Calls : \/ outcome'[c] = outcome[c]
                         \/ c = said[1] /\ outcome'[c] \in {"answered", "refused"}
    BY <2>3, <2>4
  <2>9. JourneyInv'
    BY <1>0, <1>1, <1>2, <1>5, <2>8, TakenJourney
  <2> QED BY <1>3, <1>4, <2>7, <2>9, InvPartsNext
<1> QED BY <1>7, <1>8

LEMMA AcceptKeeps ==
  ASSUME ChannelInv, Accept
  PROVE  ChannelInv'
<1>0. ClientInv /\ BrowserTypes /\ WireTypes /\ AskedIntact /\ SaidIntact /\ JourneyInv
  BY InvParts
<1>1. /\ alive /\ Complete(inbox)
      /\ inbox' = Drop(inbox, FrameLength(inbox)) /\ asked' = Tail(asked)
      /\ running' = running \cup {c \in Calls : Message(inbox) = <<c>>}
      /\ UNCHANGED <<clientVars, outbox, pipe, buf, closed, alive, executed, said, results>>
  BY DEF Accept
<1>2. /\ asked \in Seq(Messages) /\ inbox \in Seq(Units) /\ outbox \in Seq(Units)
      /\ inbox \o outbox = Framed(asked) /\ IsPrefixOf(inbox \o outbox, Framed(asked))
  <2>1. asked \in Seq(Messages)
    BY <1>0, SeqMonotonic DEF WireTypes, Messages
  <2>2. inbox \in Seq(Units) /\ outbox \in Seq(Units) /\ inbox \o outbox = Framed(asked)
    BY <1>0, <1>1 DEF WireTypes, AskedIntact
  <2> DEFINE f == Framed(asked)
  <2>3. f \in Seq(Units) /\ Len(f) \in Nat
    BY <2>1, FramedParts, LenProperties
  <2> HIDE DEF f
  <2>4. IsPrefixOf(f, f)
    BY <2>3, PrefixPoints
  <2> QED BY <2>1, <2>2, <2>4 DEF f
<1>3. /\ asked # <<>> /\ Message(inbox) = <<asked[1]>> /\ 1 \in 1..Len(asked)
      /\ inbox' \in Seq(Units) /\ inbox' \o outbox = Framed(asked')
  BY <1>1, <1>2, FirstFrame, TakeFrame
<1>4. /\ asked' \in Seq(Calls) /\ Len(asked') = Len(asked) - 1 /\ Len(asked) \in Nat \ {0}
      /\ \A i \in 1..Len(asked') : asked'[i] = asked[i + 1]
      /\ asked[1] \in Calls
  BY <1>0, <1>1, <1>3, HeadTailProperties, EmptySeq, ElementOfSeq DEF WireTypes
<1>5. running' = running \cup {asked[1]}
  <2>1. {c \in Calls : Message(inbox) = <<c>>} = {asked[1]}
    BY <1>3, <1>4
  <2> QED BY <1>1, <2>1
<1>6. WireTypes' /\ AskedIntact' /\ SaidIntact' /\ BrowserTypes'
  BY <1>0, <1>1, <1>3, <1>4, <1>5
     DEF WireTypes, AskedIntact, SaidIntact, BrowserTypes, clientVars
<1>7. ClientInv'
  BY <1>0, <1>1, ClientSame
<1>8. JourneyInv'
  <2>1. /\ \A i \in 1..Len(asked') : i + 1 \in 1..Len(asked) /\ i + 1 # 1
        /\ \A i, j \in 1..Len(asked') : i + 1 = j + 1 => i = j
    BY <1>4
  <2>2. UNCHANGED <<said, executed, outcome>>
    BY <1>1 DEF results
  <2>3. asked[1] \notin executed /\ outcome[asked[1]] \in {"waiting", "failed"}
    BY <1>0, <1>3 DEF JourneyInv
  <2>4. \A i \in 1..Len(asked') : asked'[i] # asked[1]
    BY <1>0, <1>3, <1>4, <2>1 DEF JourneyInv
  <2>5. \A i, j \in 1..Len(asked') : asked'[i] = asked'[j] => i = j
    BY <1>0, <1>4, <2>1 DEF JourneyInv
  <2>6. \A i \in 1..Len(asked') :
          asked'[i] \notin running' \cup executed' /\ outcome'[asked'[i]] \in {"waiting", "failed"}
    BY <1>0, <1>4, <1>5, <2>1, <2>2, <2>4 DEF JourneyInv
  <2>7. running' \cap executed' = {}
    BY <1>0, <1>5, <2>2, <2>3 DEF JourneyInv
  <2>8. \A c \in running' : outcome'[c] \in {"waiting", "failed"}
    BY <1>0, <1>5, <2>2, <2>3 DEF JourneyInv
  <2> QED BY <1>0, <2>2, <2>5, <2>6, <2>7, <2>8 DEF JourneyInv
<1> QED BY <1>6, <1>7, <1>8, InvPartsNext

\* The browser writes the answer to a call it runs.
LEMMA SaidJourney ==
  ASSUME JourneyInv, WireTypes, BrowserTypes, NEW m \in Messages,
         said' = Append(said, m), outcome' = outcome,
         m \in Calls => m \in running /\ m \notin running' /\ executed' = executed \cup {m},
         m \notin Calls => executed' = executed,
         running' \subseteq running,
         asked' = asked \/ asked' = <<>>
  PROVE  JourneyInv'
<1>1. /\ Len(said') = Len(said) + 1 /\ Len(said) \in Nat
      /\ \A i \in 1..Len(said) : said'[i] = said[i]
      /\ said'[Len(said) + 1] = m
  BY AppendProperties, LenProperties DEF WireTypes
<1>2. \A i \in 1..Len(said') : i \in 1..Len(said) \/ i = Len(said) + 1
  BY <1>1
<1>3. m \in Calls => /\ m \notin executed /\ outcome[m] \in {"waiting", "failed"}
                     /\ \A i \in 1..Len(said) : said[i] # m
                     /\ \A i \in 1..Len(asked) : asked[i] # m
  BY DEF JourneyInv
<1>4. \A i, j \in 1..Len(said') : said'[i] \in Calls /\ said'[i] = said'[j] => i = j
  BY <1>1, <1>2, <1>3 DEF JourneyInv
<1>5. \A i \in 1..Len(said') : said'[i] \in Calls =>
        said'[i] \in executed' /\ outcome'[said'[i]] \in {"waiting", "failed"}
  BY <1>1, <1>2, <1>3 DEF JourneyInv
<1>6. /\ \A i, j \in 1..Len(asked') : asked'[i] = asked'[j] => i = j
      /\ \A i \in 1..Len(asked') :
           /\ asked'[i] \notin running' \cup executed'
           /\ outcome'[asked'[i]] \in {"waiting", "failed"}
  <2>1. CASE asked' = asked
    BY <1>3, <2>1 DEF JourneyInv
  <2>2. CASE asked' = <<>>
    <3>1. Len(asked') = 0
      BY <2>2
    <3>2. 1..Len(asked') = {}
      BY <3>1
    <3> QED BY <3>2
  <2> QED BY <2>1, <2>2
<1>7. /\ running' \cap executed' = {}
      /\ \A c \in running' : outcome'[c] \in {"waiting", "failed"}
      /\ \A c \in executed' : outcome'[c] \in {"waiting", "failed", "answered", "refused"}
      /\ \A c \in Calls : outcome'[c] \in {"answered", "refused"} => c \in executed'
  BY <1>3 DEF JourneyInv
<1> QED BY <1>4, <1>5, <1>6, <1>7 DEF JourneyInv

LEMMA SpeakKeeps ==
  ASSUME ChannelInv, Reply \/ Notify
  PROVE  ChannelInv'
<1>0. ClientInv /\ BrowserTypes /\ WireTypes /\ AskedIntact /\ SaidIntact /\ JourneyInv
  BY InvParts
<1>1. PICK m \in Messages :
        /\ pipe' = pipe \o Frame(m) /\ said' = Append(said, m)
        /\ m \in Calls => m \in running /\ m \notin running' /\ executed' = executed \cup {m}
        /\ m \notin Calls => executed' = executed
        /\ running' \subseteq running
  <2>1. CASE Reply
    <3>1. PICK c \in running : /\ Say(c, Frame(c)) /\ running' = running \ {c}
                               /\ executed' = executed \cup {c}
      BY <2>1 DEF Reply
    <3>2. c \in Calls
      BY <1>0 DEF BrowserTypes
    <3> QED BY <3>1, <3>2 DEF Say, Messages
  <2>2. CASE Notify
    <3>1. PICK event \in Events : Say(event, Frame(event))
      BY <2>2 DEF Notify
    <3>2. running' = running /\ executed' = executed
      BY <2>2 DEF Notify
    <3>3. event \notin Calls
      <4>1. \A c \in Calls : c # <<"event">>
        BY DEF Calls, ControlCalls, PageCalls
      <4> QED BY <4>1, EndIsNoMessage DEF Events, Note
    <3> QED BY <3>1, <3>2, <3>3 DEF Say, Messages
  <2> QED BY <2>1, <2>2
<1>2. alive /\ UNCHANGED <<clientVars, outbox, inbox, buf, closed, alive, asked, results>>
  BY DEF Reply, Notify
<1>3. /\ said \in Seq(Messages) /\ buf \in Seq(Units) /\ pipe \in Seq(Units)
      /\ buf \o pipe = Framed(said)
  BY <1>0, <1>2 DEF WireTypes, SaidIntact
<1>4. /\ pipe' \in Seq(Units) /\ buf \o pipe' = Framed(said')
      /\ IsPrefixOf(buf \o pipe', Framed(said'))
  BY <1>1, <1>3, SayFrame
<1>5. said' \in Seq(Messages)
  BY <1>1, <1>3, AppendProperties
<1>6. WireTypes' /\ AskedIntact' /\ SaidIntact'
  BY <1>0, <1>2, <1>4, <1>5 DEF WireTypes, AskedIntact, SaidIntact, clientVars
<1>7. BrowserTypes'
  BY <1>0, <1>1, <1>2 DEF BrowserTypes
<1>8. ClientInv'
  BY <1>0, <1>2, ClientSame
<1>9. JourneyInv'
  BY <1>0, <1>1, <1>2, SaidJourney DEF results
<1> QED BY <1>6, <1>7, <1>8, <1>9, InvPartsNext

LEMMA DieKeeps ==
  ASSUME ChannelInv, Die
  PROVE  ChannelInv'
<1>0. ClientInv /\ BrowserTypes /\ WireTypes /\ AskedIntact /\ SaidIntact /\ JourneyInv
  BY InvParts
<1>1. /\ alive /\ alive' = FALSE /\ running' = {} /\ inbox' = <<>> /\ asked' = <<>>
      /\ UNCHANGED <<clientVars, outbox, buf, closed, results>>
  BY DEF Die
<1>2. /\ said \in Seq(Messages) /\ buf \in Seq(Units) /\ pipe \in Seq(Units)
      /\ buf \o pipe = Framed(said)
  BY <1>0, <1>1 DEF WireTypes, SaidIntact
<1>3. inbox' \in Seq(Units) /\ asked' \in Seq(Calls)
  BY <1>1, EmptySeq
<1>4. ClientInv' /\ AskedIntact'
  BY <1>0, <1>1, ClientSame DEF AskedIntact
<1>5. CASE UNCHANGED <<pipe, said, executed>>
  <2>1. WireTypes' /\ SaidIntact' /\ BrowserTypes'
    BY <1>0, <1>1, <1>3, <1>5 DEF WireTypes, SaidIntact, BrowserTypes, clientVars
  <2>2. JourneyInv'
    <3>1. Len(asked') = 0
      BY <1>1
    <3>2. 1..Len(asked') = {}
      BY <3>1
    <3> QED BY <1>0, <1>1, <1>5, <3>2 DEF JourneyInv, results
  <2> QED BY <1>4, <2>1, <2>2, InvPartsNext
<1>6. ASSUME NEW c \in running, Say(c, <<c>>), executed' = executed \cup {c}
      PROVE  ChannelInv'
  <2>1. c \in Calls /\ c \in Messages /\ pipe' = pipe \o <<c>> /\ said' = Append(said, c)
    BY <1>0, <1>6 DEF BrowserTypes, Messages, Say
  <2>2. pipe' \in Seq(Units) /\ IsPrefixOf(buf \o pipe', Framed(said'))
    BY <1>2, <2>1, SayFrame
  <2>3. said' \in Seq(Messages)
    BY <1>2, <2>1, AppendProperties
  <2>4. WireTypes' /\ SaidIntact' /\ BrowserTypes'
    BY <1>0, <1>1, <1>3, <1>6, <2>1, <2>2, <2>3 DEF WireTypes, SaidIntact, BrowserTypes, clientVars
  <2>5. JourneyInv'
    BY <1>0, <1>1, <1>6, <2>1, SaidJourney DEF results
  <2> QED BY <1>4, <2>4, <2>5, InvPartsNext
<1> QED BY <1>5, <1>6 DEF Die

LEMMA InvStarts == Init => ChannelInv
<1> SUFFICES ASSUME Init
             PROVE  ChannelInv
  OBVIOUS
<1>1. Load # None /\ None \notin Calls /\ Load \notin Calls
      /\ \A c \in Calls : c[1] \in {"control", "page"} /\ c[2] \in Nat \ {0}
  BY EndIsNoMessage
<1>2. /\ phase = "launch" /\ lastId = [session \in {"control", "page"} |-> 0]
      /\ awaited = None /\ left = 0 /\ closed = FALSE /\ alive = TRUE
      /\ outbox = <<>> /\ inbox = <<>> /\ pipe = <<>> /\ buf = <<>>
      /\ running = {} /\ executed = {} /\ asked = <<>> /\ said = <<>>
      /\ outcome = [c \in Calls |-> "idle"] /\ reply = [c \in Calls |-> None]
  BY DEF Init
<1>3. ClientTypes
  <2>1. lastId \in [{"control", "page"} -> Nat] /\ lastId["control"] = 0 /\ lastId["page"] = 0
    BY <1>2
  <2>2. outcome \in [Calls -> Outcomes]
    BY <1>2 DEF Outcomes
  <2>3. reply \in [Calls -> Calls \cup {None}]
    BY <1>2
  <2>4. phase \in Phases /\ closed \in BOOLEAN /\ left \in 0..TIMEOUT
    <3>1. phase = "launch" /\ closed = FALSE /\ left = 0 /\ TIMEOUT \in Nat
      BY <1>2, ChannelAssumption
    <3>2. closed \in BOOLEAN
      BY <3>1, Zenon
    <3>3. phase \in Phases /\ left \in 0..TIMEOUT
      BY <3>1 DEF Phases
    <3> QED BY <3>2, <3>3
  <2> QED BY <1>2, <2>1, <2>2, <2>3, <2>4, ChannelAssumption DEF ClientTypes
<1>4. TurnInv
  BY <1>1, <1>2 DEF TurnInv
<1>5. OutcomeInv
  BY <1>1, <1>2 DEF OutcomeInv
<1>6. LaunchAnswered
  BY <1>1, <1>2 DEF LaunchAnswered
<1>7. BrowserTypes
  BY <1>2 DEF BrowserTypes
<1>8. WireTypes
  BY <1>2, EmptySeq DEF WireTypes
<1>9. Framed(<<>>) = <<>>
  <2> DEFINE s == Framed(<<>>)
  <2>1. <<>> \in Seq(Messages) /\ 2 * Len(<<>>) = 0
    BY EmptySeq
  <2>2. s \in Seq(Units) /\ Len(s) = 0
    BY <2>1, FramedParts
  <2> HIDE DEF s
  <2>3. s = <<>>
    BY <2>2, EmptySeq
  <2> QED BY <2>3 DEF s
<1>10. <<>> \o <<>> = <<>>
  OBVIOUS
<1>11. IsPrefixOf(<<>>, <<>>)
  <2>1. \A z \in Seq(Units) : IsPrefixOf(z, z)
    <3>1. ASSUME NEW z \in Seq(Units)
          PROVE  IsPrefixOf(z, z)
      <4>1. Len(z) \in Nat
        BY LenProperties
      <4> QED BY <4>1, PrefixPoints
    <3> QED BY <3>1
  <2> QED BY <2>1, EmptySeq
<1>12. AskedIntact /\ SaidIntact
  BY <1>2, <1>9, <1>10, <1>11 DEF AskedIntact, SaidIntact
<1>13. JourneyInv
  <2>1. 1..Len(asked) = {} /\ 1..Len(said) = {}
    BY <1>2
  <2> QED BY <1>2, <2>1 DEF JourneyInv
<1> QED BY <1>3, <1>4, <1>5, <1>6, <1>7, <1>8, <1>12, <1>13, InvParts DEF ClientInv

LEMMA InvStays == ChannelInv /\ [Next]_vars => ChannelInv'
<1> SUFFICES ASSUME ChannelInv, [Next]_vars
             PROVE  ChannelInv'
  OBVIOUS
<1>1. CASE Client
  BY <1>1, CallKeeps, CallOnClosedKeeps, TurnKeeps DEF Client
<1>2. CASE Waiting
  BY <1>2, WriteKeeps, EndsInFailure, TakeKeeps, FillKeeps DEF Waiting
<1>3. CASE Tick
  BY <1>3, TickKeeps
<1>4. CASE Chromium
  BY <1>4, AcceptKeeps, SpeakKeeps, DieKeeps DEF Chromium
<1>5. CASE UNCHANGED vars
  <2>1. UNCHANGED <<clientVars, closed, results>> /\ UNCHANGED <<asked, said, running, executed, outcome>>
        /\ UNCHANGED <<wires, history, browserVars>>
    BY <1>5 DEF vars, results, browserVars, history
  <2>2. ClientInv' /\ JourneyInv'
    BY <2>1, ClientSame, JourneySame, InvParts
  <2>3. BrowserTypes' /\ WireTypes' /\ AskedIntact' /\ SaidIntact'
    BY <2>1, InvParts DEF BrowserTypes, WireTypes, AskedIntact, SaidIntact,
                          clientVars, wires, history, browserVars
  <2> QED BY <2>2, <2>3, InvPartsNext
<1> QED BY <1>1, <1>2, <1>3, <1>4, <1>5 DEF Next

\* The inductive invariant of the channel: the streams are whole, and each
\* call is at one place on its way from CDPSession.call to the browser and back.
THEOREM ChannelInvHolds == Spec => []ChannelInv
BY InvStarts, InvStays, PTL DEF Spec

\* The variables of PipeConnection, CDPSession and Browser keep their types,
\* and what os.write has left belongs to the call waited for.
THEOREM ChannelTypes == Spec => []ChannelTypeOK
<1>1. ChannelInv => ChannelTypeOK
  BY DEF ChannelInv
<1> QED BY <1>1, ChannelInvHolds, PTL

\* Whatever os.write and os.read cut, and whichever waits of CDPSession.call
\* time out in the middle of a message, the reader's buffer and the pipe hold
\* exactly the messages not yet taken.
THEOREM FramesStayIntact == Spec => []FramesIntact
<1>1. ChannelInv => FramesIntact
  BY DEF ChannelInv
<1> QED BY <1>1, ChannelInvHolds, PTL

-----------------------------------------------------------------------------
(* Every step is one of the promise, or leaves its variables alone. *)

LEMMA PromiseStarts == Init => Promise!Init
BY DEF Init, Promise!Init, None, Promise!None

LEMMA CallPromised ==
  ASSUME ChannelInv, NEW session \in {"control", "page"}, Call(session) \/ CallOnClosed(session)
  PROVE  Promise!Next
<1> DEFINE call == <<session, lastId[session] + 1>>
<1>1. ClientInv /\ awaited = None /\ Turn(session)
  BY InvParts DEF Call, CallOnClosed
<1>2. call \in Calls /\ outcome[call] = "idle"
  BY <1>1, NextCall
<1>3. reply' = reply /\ executed' = executed
  BY DEF Call, CallOnClosed, browserVars
<1>4. CASE Call(session)
  <2>1. \A other \in Calls : outcome[other] # "waiting"
    BY <1>1, EndIsNoMessage DEF ClientInv, OutcomeInv
  <2>2. outcome' = [outcome EXCEPT ![call] = "waiting"]
    BY <1>4 DEF Call
  <2> HIDE DEF call
  <2>3. Promise!Ask(call)
    BY <1>2, <1>3, <2>1, <2>2 DEF Promise!Ask, Promise!Becomes
  <2> QED BY <1>2, <2>3 DEF Promise!Next
<1>5. CASE CallOnClosed(session)
  <2>1. outcome' = [outcome EXCEPT ![call] = "unsent"]
    BY <1>5 DEF CallOnClosed
  <2> HIDE DEF call
  <2>2. Promise!Refuse(call)
    BY <1>2, <1>3, <2>1 DEF Promise!Refuse, Promise!Becomes
  <2> QED BY <1>2, <2>2 DEF Promise!Next
<1> QED BY <1>4, <1>5

LEMMA FailurePromised ==
  ASSUME ChannelInv, Unwritable \/ EndOfFile \/ TimeOut
  PROVE  [Promise!Next]_(Promise!vars)
<1>1. PICK broken \in BOOLEAN : Failed(broken)
  BY DEF Unwritable, EndOfFile, TimeOut
<1>2. Settled("failed", FALSE) /\ reply' = reply /\ executed' = executed
  BY <1>1 DEF Failed, browserVars
<1>3. CASE awaited \in Calls
  <2>1. outcome[awaited] = "waiting" /\ outcome' = [outcome EXCEPT ![awaited] = "failed"]
    BY <1>2, <1>3 DEF ChannelInv, OutcomeInv, Settled
  <2>2. Promise!Fail(awaited)
    BY <1>2, <2>1 DEF Promise!Fail, Promise!Becomes
  <2> QED BY <1>3, <2>2 DEF Promise!Next
<1>4. CASE awaited \notin Calls
  <2>1. outcome' = outcome
    BY <1>2, <1>4 DEF Settled
  <2> QED BY <1>2, <2>1 DEF Promise!vars
<1> QED BY <1>3, <1>4

LEMMA TakePromised ==
  ASSUME ChannelInv, Take
  PROVE  [Promise!Next]_(Promise!vars)
<1>1. executed' = executed /\ Complete(buf) /\ awaited # None
  BY DEF Take, Reading, browserVars
<1>2. awaited \in Calls \cup {Load} /\ Load \notin Calls
  BY <1>1, EndIsNoMessage DEF ChannelInv, ChannelTypeOK
<1>3. CASE ~Matches(Message(buf))
  <2>1. UNCHANGED results
    BY <1>3 DEF Take
  <2> QED BY <1>1, <2>1 DEF results, Promise!vars
<1>4. CASE Matches(Message(buf))
  <2>1. /\ Settled("answered", TRUE) \/ Settled("refused", FALSE)
        /\ reply' = IF awaited = Load THEN reply ELSE [reply EXCEPT ![awaited] = Message(buf)[1]]
    BY <1>4 DEF Take
  <2>2. CASE awaited = Load
    <3>1. outcome' = outcome /\ reply' = reply
      BY <1>2, <2>1, <2>2 DEF Settled
    <3> QED BY <1>1, <3>1 DEF Promise!vars
  <2>3. CASE awaited \in Calls
    <3>1. /\ outcome' = [outcome EXCEPT ![awaited] = "answered"]
             \/ outcome' = [outcome EXCEPT ![awaited] = "refused"]
      BY <2>1, <2>3 DEF Settled
    <3>2. said[1] = awaited /\ Message(buf) = <<said[1]>> /\ (said[1] \in Calls => said[1] \in executed)
      BY <1>1, <1>4, <2>3, MatchedReply, Taken
    <3>3. reply' = [reply EXCEPT ![awaited] = awaited] /\ awaited \in executed
      BY <1>2, <2>1, <2>3, <3>2
    <3>4. outcome[awaited] = "waiting"
      BY <2>3 DEF ChannelInv, OutcomeInv
    <3>5. Promise!Answer(awaited)
      BY <1>1, <3>1, <3>3, <3>4 DEF Promise!Answer, Promise!Becomes
    <3> QED BY <2>3, <3>5 DEF Promise!Next
  <2> QED BY <1>2, <2>2, <2>3
<1> QED BY <1>3, <1>4

LEMMA ExecutionPromised ==
  ASSUME ChannelInv, Reply \/ Die
  PROVE  [Promise!Next]_(Promise!vars)
<1>1. UNCHANGED results
  BY DEF Reply, Die
<1>2. \/ executed' = executed
      \/ \E c \in running : executed' = executed \cup {c}
  BY DEF Reply, Die
<1>3. CASE executed' = executed
  BY <1>1, <1>3 DEF results, Promise!vars
<1>4. ASSUME NEW c \in running, executed' = executed \cup {c}
      PROVE  Promise!Next
  <2>1. c \in Calls /\ c \notin executed /\ outcome[c] \in {"waiting", "failed"}
    BY DEF ChannelInv, ChannelTypeOK, JourneyInv
  <2>2. Promise!Execute(c)
    BY <1>1, <1>4, <2>1 DEF results, Promise!Execute
  <2> QED BY <2>1, <2>2 DEF Promise!Next
<1> QED BY <1>2, <1>3, <1>4

LEMMA StepPromised == ChannelInv /\ [Next]_vars => [Promise!Next]_(Promise!vars)
<1> SUFFICES ASSUME ChannelInv, [Next]_vars
             PROVE  [Promise!Next]_(Promise!vars)
  OBVIOUS
<1>1. CASE \E session \in {"control", "page"} : Call(session) \/ CallOnClosed(session)
  BY <1>1, CallPromised
<1>2. CASE Unwritable \/ EndOfFile \/ TimeOut
  BY <1>2, FailurePromised
<1>3. CASE Take
  BY <1>3, TakePromised
<1>4. CASE Reply \/ Die
  BY <1>4, ExecutionPromised
<1>5. CASE WaitForLoad \/ Close \/ Write \/ Fill \/ Tick \/ Accept \/ Notify
  BY <1>5 DEF WaitForLoad, Close, Write, Fill, Tick, Accept, Notify,
              browserVars, results, Promise!vars
<1>6. CASE UNCHANGED vars
  BY <1>6 DEF vars, browserVars, results, Promise!vars
<1> QED BY <1>1, <1>2, <1>3, <1>4, <1>5, <1>6 DEF Next, Client, Waiting, Chromium

\* CDPSession.call over PipeConnection gives its caller the reply to its own
\* call, after the browser executed it and at most once, or a failure: the
\* channel implements Rpc.
THEOREM ChannelImplementsRpc == Spec => ImplementsRpc
<1>1. Init => Promise!Init
  BY PromiseStarts
<1>2. ChannelInv /\ [Next]_vars => [Promise!Next]_(Promise!vars)
  BY StepPromised
<1> QED BY <1>1, <1>2, ChannelInvHolds, PTL DEF Spec, ImplementsRpc, Promise!Spec

=============================================================================
