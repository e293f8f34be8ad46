-------------------------- MODULE Sessions_proofs ---------------------------
(* Proofs about sessions, their streams and the logins, for any number of    *)
(* them and any bounds.                                                      *)
EXTENDS Sessions, TLAPS, SequenceTheorems, FiniteSetTheorems

-----------------------------------------------------------------------------
(* Sequences: their elements and their order, under \o, Head and Tail.       *)

LEMMA ElementsEmpty == Elements(<<>>) = {}
BY DEF Elements

LEMMA ElementsSingle ==
  ASSUME NEW e
  PROVE  Elements(<<e>>) = {e} /\ Ascending(<<e>>)
BY DEF Elements, Ascending

LEMMA ElementsOfConcat ==
  ASSUME NEW S, NEW s \in Seq(S), NEW t \in Seq(S)
  PROVE  s \o t \in Seq(S) /\ Elements(s \o t) = Elements(s) \cup Elements(t)
<1>1. /\ Len(s) \in Nat /\ Len(t) \in Nat /\ DOMAIN s = 1 .. Len(s) /\ DOMAIN t = 1 .. Len(t)
      /\ s \o t \in Seq(S) /\ DOMAIN (s \o t) = 1 .. Len(s) + Len(t)
      /\ \A i \in 1 .. Len(s) + Len(t) :
           (s \o t)[i] = IF i <= Len(s) THEN s[i] ELSE t[i - Len(s)]
  BY ConcatProperties, LenProperties
<1>2. ASSUME NEW i \in 1 .. Len(s) + Len(t)
      PROVE  (s \o t)[i] \in Elements(s) \cup Elements(t)
  <2>1. CASE i <= Len(s)
    BY <1>1, <2>1 DEF Elements
  <2>2. CASE ~(i <= Len(s))
    <3>1. i - Len(s) \in 1 .. Len(t)
      BY <1>1, <2>2
    <3>2. QED BY <1>1, <2>2, <3>1 DEF Elements
  <2>3. QED BY <2>1, <2>2
<1>3. ASSUME NEW i \in 1 .. Len(s)
      PROVE  s[i] \in Elements(s \o t)
  <2>1. i \in 1 .. Len(s) + Len(t) /\ i <= Len(s)
    BY <1>1
  <2>2. QED BY <1>1, <2>1 DEF Elements
<1>4. ASSUME NEW i \in 1 .. Len(t)
      PROVE  t[i] \in Elements(s \o t)
  <2>1. /\ i + Len(s) \in 1 .. Len(s) + Len(t) /\ ~(i + Len(s) <= Len(s))
        /\ (i + Len(s)) - Len(s) = i
    BY <1>1
  <2>2. QED BY <1>1, <2>1 DEF Elements
<1>5. QED BY <1>1, <1>2, <1>3, <1>4 DEF Elements

LEMMA AscendingConcat ==
  ASSUME NEW S, NEW s \in Seq(S), NEW t \in Seq(S), S \subseteq Nat
  PROVE  Ascending(s \o t) <=>
           /\ Ascending(s) /\ Ascending(t)
           /\ \A a \in Elements(s), b \in Elements(t) : a < b
<1>1. /\ Len(s) \in Nat /\ Len(t) \in Nat /\ DOMAIN s = 1 .. Len(s) /\ DOMAIN t = 1 .. Len(t)
      /\ DOMAIN (s \o t) = 1 .. Len(s) + Len(t)
      /\ \A i \in 1 .. Len(s) + Len(t) :
           (s \o t)[i] = IF i <= Len(s) THEN s[i] ELSE t[i - Len(s)]
  BY ConcatProperties, LenProperties
<1>2. \A i \in 1 .. Len(s) : i \in 1 .. Len(s) + Len(t) /\ (s \o t)[i] = s[i]
  BY <1>1
<1>3. \A i \in 1 .. Len(t) :
        i + Len(s) \in 1 .. Len(s) + Len(t) /\ (s \o t)[i + Len(s)] = t[i]
  <2>1. \A i \in 1 .. Len(t) : /\ i + Len(s) \in 1 .. Len(s) + Len(t)
                               /\ ~(i + Len(s) <= Len(s)) /\ (i + Len(s)) - Len(s) = i
    BY <1>1
  <2>2. QED BY <1>1, <2>1
<1>4. ASSUME Ascending(s \o t)
      PROVE  /\ Ascending(s) /\ Ascending(t)
             /\ \A a \in Elements(s), b \in Elements(t) : a < b
  <2>1. \A i, j \in 1 .. Len(s) + Len(t) : i < j => (s \o t)[i] < (s \o t)[j]
    BY <1>1, <1>4 DEF Ascending
  <2>2. Ascending(s)
    BY <1>1, <1>2, <2>1 DEF Ascending
  <2>3. \A i, j \in 1 .. Len(t) : i < j => i + Len(s) < j + Len(s)
    BY <1>1
  <2>4. Ascending(t)
    BY <1>1, <1>3, <2>1, <2>3 DEF Ascending
  <2>5. \A i \in 1 .. Len(s), j \in 1 .. Len(t) : i < j + Len(s)
    BY <1>1
  <2>6. \A i \in 1 .. Len(s), j \in 1 .. Len(t) : s[i] < t[j]
    BY <1>2, <1>3, <2>1, <2>5
  <2>7. QED BY <1>1, <2>2, <2>4, <2>6 DEF Elements
<1>5. ASSUME Ascending(s), Ascending(t), \A a \in Elements(s), b \in Elements(t) : a < b
      PROVE  Ascending(s \o t)
  <2>1. \A i \in 1 .. Len(s), j \in 1 .. Len(t) : s[i] < t[j]
    BY <1>1, <1>5 DEF Elements
  <2>2. ASSUME NEW i \in 1 .. Len(s) + Len(t), NEW j \in 1 .. Len(s) + Len(t), i < j
        PROVE  (s \o t)[i] < (s \o t)[j]
    <3>1. CASE j <= Len(s)
      <4>1. i \in 1 .. Len(s) /\ j \in 1 .. Len(s)
        BY <1>1, <2>2, <3>1
      <4>2. QED BY <1>1, <1>2, <1>5, <2>2, <4>1 DEF Ascending
    <3>2. CASE i <= Len(s) /\ ~(j <= Len(s))
      <4>1. i \in 1 .. Len(s) /\ j - Len(s) \in 1 .. Len(t)
        BY <1>1, <2>2, <3>2
      <4>2. (s \o t)[i] = s[i] /\ (s \o t)[j] = t[j - Len(s)]
        BY <1>1, <3>2
      <4>3. QED BY <2>1, <4>1, <4>2
    <3>3. CASE ~(i <= Len(s))
      <4>1. /\ i - Len(s) \in 1 .. Len(t) /\ j - Len(s) \in 1 .. Len(t)
            /\ i - Len(s) < j - Len(s) /\ ~(j <= Len(s))
        BY <1>1, <2>2, <3>3
      <4>2. (s \o t)[i] = t[i - Len(s)] /\ (s \o t)[j] = t[j - Len(s)]
        BY <1>1, <3>3, <4>1
      <4>3. QED BY <1>1, <1>5, <4>1, <4>2 DEF Ascending
    <3>4. QED BY <3>1, <3>2, <3>3
  <2>3. QED BY <1>1, <2>2 DEF Ascending
<1>6. QED BY <1>4, <1>5

LEMMA HeadAndTail ==
  ASSUME NEW S, NEW s \in Seq(S), s # <<>>
  PROVE  /\ Head(s) \in S /\ Tail(s) \in Seq(S) /\ Len(s) \in Nat
         /\ Len(Tail(s)) = Len(s) - 1
         /\ <<Head(s)>> \in Seq(S) /\ s = <<Head(s)>> \o Tail(s)
         /\ Elements(s) = {Head(s)} \cup Elements(Tail(s))
<1>1. /\ Len(s) \in Nat /\ Len(s) > 0 /\ Head(s) = s[1] /\ Head(s) \in S /\ Tail(s) \in Seq(S)
      /\ Len(Tail(s)) = Len(s) - 1
      /\ \A i \in 1 .. Len(Tail(s)) : Tail(s)[i] = s[i + 1]
  BY HeadTailProperties, EmptySeq, LenProperties
<1>2. <<Head(s)>> \in Seq(S) /\ Len(<<Head(s)>>) = 1 /\ <<Head(s)>>[1] = Head(s)
  BY <1>1
<1>3. /\ <<Head(s)>> \o Tail(s) \in Seq(S) /\ Len(<<Head(s)>> \o Tail(s)) = Len(s)
      /\ \A i \in 1 .. Len(s) :
           (<<Head(s)>> \o Tail(s))[i] = IF i <= 1 THEN Head(s) ELSE Tail(s)[i - 1]
  <2>1. /\ <<Head(s)>> \o Tail(s) \in Seq(S)
        /\ Len(<<Head(s)>> \o Tail(s)) = 1 + (Len(s) - 1)
        /\ \A i \in 1 .. 1 + (Len(s) - 1) :
             (<<Head(s)>> \o Tail(s))[i] = IF i <= 1 THEN <<Head(s)>>[i] ELSE Tail(s)[i - 1]
    BY <1>1, <1>2, ConcatProperties
  <2>2. 1 + (Len(s) - 1) = Len(s) /\ \A i \in 1 .. Len(s) : i <= 1 => i = 1
    BY <1>1
  <2>3. QED BY <1>2, <2>1, <2>2
<1>4. \A i \in 1 .. Len(s) : i <= 1 \/ (i - 1 \in 1 .. Len(s) - 1 /\ (i - 1) + 1 = i)
  BY <1>1
<1>5. \A i \in 1 .. Len(s) : i <= 1 => i = 1
  BY <1>1
<1>6. \A i \in 1 .. Len(s) : s[i] = (<<Head(s)>> \o Tail(s))[i]
  BY <1>1, <1>3, <1>4, <1>5
<1>7. s = <<Head(s)>> \o Tail(s)
  BY <1>3, <1>6, SeqEqual
<1>8. Elements(<<Head(s)>> \o Tail(s)) = {Head(s)} \cup Elements(Tail(s))
  <2>1. Elements(<<Head(s)>>) = {Head(s)}
    BY ElementsSingle
  <2>2. Elements(<<Head(s)>> \o Tail(s)) = Elements(<<Head(s)>>) \cup Elements(Tail(s))
    BY <1>1, <1>2, ElementsOfConcat
  <2>3. QED BY <2>1, <2>2
<1>9. QED BY <1>1, <1>2, <1>7, <1>8

LEMMA AppendedElements ==
  ASSUME NEW S, NEW s \in Seq(S), NEW e \in S
  PROVE  /\ Append(s, e) \in Seq(S) /\ <<e>> \in Seq(S) /\ Append(s, e) = s \o <<e>>
         /\ Len(Append(s, e)) = Len(s) + 1 /\ Elements(Append(s, e)) = Elements(s) \cup {e}
<1>1. /\ Append(s, e) \in Seq(S) /\ <<e>> \in Seq(S) /\ Append(s, e) = s \o <<e>>
      /\ Len(Append(s, e)) = Len(s) + 1
  BY AppendProperties, AppendIsConcat
<1>2. Elements(s \o <<e>>) = Elements(s) \cup {e}
  <2>1. Elements(<<e>>) = {e}
    BY ElementsSingle
  <2>2. Elements(s \o <<e>>) = Elements(s) \cup Elements(<<e>>)
    BY <1>1, ElementsOfConcat
  <2>3. QED BY <2>1, <2>2
<1>3. QED BY <1>1, <1>2

\* A sequence has no more elements than places.
LEMMA ElementsCounted ==
  ASSUME NEW S, NEW s \in Seq(S)
  PROVE  /\ Elements(s) \subseteq S /\ IsFiniteSet(Elements(s))
         /\ Cardinality(Elements(s)) <= Len(s)
<1>1. Len(s) \in Nat /\ DOMAIN s = 1 .. Len(s) /\ s \in [1 .. Len(s) -> S]
  BY LenProperties
<1>2. IsFiniteSet(1 .. Len(s)) /\ Cardinality(1 .. Len(s)) = Len(s)
  BY <1>1, FS_Interval
<1>3. s \in Surjection(1 .. Len(s), Elements(s))
  BY <1>1 DEF Surjection, Elements
<1>4. QED
  <2>1. IsFiniteSet(Elements(s)) /\ Cardinality(Elements(s)) <= Cardinality(1 .. Len(s))
    BY <1>2, <1>3, FS_Surjection
  <2>2. QED BY <1>1, <1>2, <2>1 DEF Elements

-----------------------------------------------------------------------------
(* What the stage of a stream says of it, what an announcement under way     *)
(* says of the sessions, and what a key that was not issued has.             *)

Placed(t) ==
  /\ stream[t].hand # None <=> stream[t].stage \in {"sending", "breaking"}
  /\ stream[t].session # None <=> stream[t].stage # "unused"
  /\ stream[t].stage \in {"unused", "asked"} => got[t] = <<>> /\ buffer[t] = <<>>
  /\ Gone(t) => buffer[t] = <<>>
  /\ ~Gone(t) => dropped[t] = {}
Places == \A t \in Streams : Placed(t)

Announced ==
  /\ \A s \in Sessions : \A n \in Elements(told[s]) : n <= updates
  /\ announcing # None =>
       /\ announcing.update = updates
       /\ announcing.left \subseteq live /\ announcing.evicted \subseteq live
       /\ announcing.sent # None => announcing.sent \in announcing.left
       /\ announcing.left \cap announcing.evicted \subseteq {announcing.sent}
       /\ \A s \in announcing.left \ {announcing.sent} :
            \A n \in Elements(told[s]) : n < updates

Unissued ==
  \A s \in Sessions : login[s].stage = "none" =>
    s \notin live /\ channel[s] = <<>> /\ lastLen[s] = 0 /\ s \notin refilled

Base == TypeOK /\ Places /\ Announced /\ Unissued

LEMMA InitBase == Init => Base
<1> SUFFICES ASSUME Init PROVE Base
  OBVIOUS
<1> USE SessionsAssumption DEF Init
<1>1. TypeOK
  <2>1. ThreadTypes
    BY DEF ThreadTypes, Announcements
  <2>2. LoginTypes
    <3>1. <<ServerDevice>> \in Seq(Descriptions \cup {ServerDevice}) /\ <<ServerDevice>> # <<>>
      OBVIOUS
    <3>2. QED BY <3>1 DEF LoginTypes, Logins, NoLogin
  <2>3. SessionTypes
    BY DEF SessionTypes
  <2>4. StreamTypes
    <3>1. NoStream \in StreamStates
      BY DEF NoStream, StreamStates
    <3>2. <<>> \in Seq(Updates) /\ Len(<<>>) = 0
      OBVIOUS
    <3>3. QED BY <3>1, <3>2 DEF StreamTypes
  <2>5. QED BY <2>1, <2>2, <2>3, <2>4 DEF TypeOK
<1>2. Places
  BY DEF Places, Placed, NoStream, Gone
<1>3. Announced
  BY ElementsEmpty DEF Announced
<1>4. Unissued
  BY DEF Unissued
<1>5. QED BY <1>1, <1>2, <1>3, <1>4 DEF Base

LEMMA ToldAreUpdates ==
  ASSUME ThreadTypes, SessionTypes
  PROVE  \A s \in Sessions : /\ Elements(told[s]) \subseteq Updates /\ Elements(channel[s]) \subseteq Updates
                             /\ Updates \subseteq Nat /\ updates \in Nat
<1>1. Updates \subseteq Nat /\ updates \in Nat
  BY SessionsAssumption DEF ThreadTypes, Announcements, Updates
<1>2. ASSUME NEW s \in Sessions
      PROVE  Elements(told[s]) \subseteq Updates /\ Elements(channel[s]) \subseteq Updates
  <2>1. told[s] \in Seq(Updates) /\ channel[s] \in Seq(Updates)
    BY DEF SessionTypes
  <2>2. Elements(told[s]) \subseteq Updates
    BY <2>1, ElementsCounted
  <2>3. Elements(channel[s]) \subseteq Updates
    BY <2>1, ElementsCounted
  <2>4. QED BY <2>2, <2>3
<1>3. QED BY <1>1, <1>2

\* What a step of one stream does to its task.
Moves(t, stage, hand) ==
  /\ stream' \in [Streams -> StreamStates]
  /\ stream'[t] = [stage |-> stage, session |-> stream[t].session, hand |-> hand]
  /\ \A u \in Streams \ {t} : stream'[u] = stream[u]

LEMMA PassBase ==
  ASSUME Base, Pass
  PROVE  Base'
<1>0. /\ ThreadTypes /\ LoginTypes /\ SessionTypes /\ StreamTypes
      /\ Places /\ Announced /\ Unissued
  BY DEF Base, TypeOK
<1> USE SessionsAssumption, <1>0 DEF Pass, Free, loginVars, counters, streamVars, history
<1>1. ThreadTypes'
  BY DEF ThreadTypes, Announcements
<1>2. LoginTypes'
  BY DEF LoginTypes
<1>3. SessionTypes'
  BY DEF SessionTypes
<1>4. StreamTypes'
  BY DEF StreamTypes
<1>5. Places'
  BY DEF Places, Placed, Gone
<1>6. Announced'
  BY DEF Announced, ThreadTypes, Announcements
<1>7. Unissued'
  BY DEF Unissued
<1>8. QED BY <1>1, <1>2, <1>3, <1>4, <1>5, <1>6, <1>7 DEF Base, TypeOK

LEMMA AnnounceBase ==
  ASSUME Base, NEW requester, Announce(requester)
  PROVE  Base'
<1>0. /\ ThreadTypes /\ LoginTypes /\ SessionTypes /\ StreamTypes
      /\ Places /\ Announced /\ Unissued
  BY DEF Base, TypeOK
<1> USE SessionsAssumption, <1>0 DEF Announce, Begin, Free, loginVars, counters, streamVars, history
<1>1. /\ updates + 1 \in Updates /\ updates' = updates + 1
      /\ \A r \in Sessions : \A n \in Elements(told[r]) : n <= updates + 1 /\ n < updates + 1
  <2>1. updates + 1 \in Updates
    BY DEF ThreadTypes, Announcements, Updates
  <2>2. ASSUME NEW r \in Sessions, NEW n \in Elements(told[r])
        PROVE  n <= updates + 1 /\ n < updates + 1
    <3>1. n \in Nat /\ updates \in Nat
      BY <2>2, ToldAreUpdates
    <3>2. n <= updates
      BY <2>2 DEF Announced
    <3>3. QED BY <3>1, <3>2
  <2>3. QED BY <2>1, <2>2
<1>2. /\ announcing' \in [update : Updates, left : SUBSET Sessions, sent : Sessions \cup {None},
                          evicted : SUBSET Sessions]
      /\ announcing'.update = updates + 1 /\ announcing'.left \subseteq live
      /\ announcing'.sent = None /\ announcing'.evicted = {}
  BY <1>1 DEF SessionTypes
<1>3. ThreadTypes'
  BY <1>1, <1>2 DEF ThreadTypes, Announcements, Updates
<1>4. LoginTypes'
  BY DEF LoginTypes
<1>5. SessionTypes'
  BY DEF SessionTypes
<1>6. StreamTypes'
  BY DEF StreamTypes
<1>7. Places'
  BY DEF Places, Placed, Gone
<1>8. Announced'
  BY <1>1, <1>2 DEF Announced
<1>9. Unissued'
  BY DEF Unissued
<1>10. QED BY <1>3, <1>4, <1>5, <1>6, <1>7, <1>8, <1>9 DEF Base, TypeOK

LEMMA SendBase ==
  ASSUME Base, NEW s \in Sessions, Send(s)
  PROVE  Base'
<1>0. /\ ThreadTypes /\ LoginTypes /\ SessionTypes /\ StreamTypes
      /\ Places /\ Announced /\ Unissued
  BY DEF Base, TypeOK
<1> USE SessionsAssumption, <1>0 DEF Send, Free, loginVars, streamVars
<1>1. announcing.update \in Updates /\ s \in live /\ s \in Sessions /\ announcing.update = updates
  BY DEF ThreadTypes, Announcements, Announced
<1>2. channel[s] \in Seq(Updates) /\ told[s] \in Seq(Updates) /\ told'[s] = Append(told[s], announcing.update)
  BY DEF SessionTypes
<1>3. /\ Append(channel[s], announcing.update) \in Seq(Updates)
      /\ Append(told[s], announcing.update) \in Seq(Updates)
      /\ Elements(Append(told[s], announcing.update)) = Elements(told[s]) \cup {announcing.update}
  <2>1. Append(channel[s], announcing.update) \in Seq(Updates)
    BY <1>1, <1>2, AppendedElements
  <2>2. Append(told[s], announcing.update) \in Seq(Updates)
    BY <1>1, <1>2, AppendedElements
  <2>3. Elements(Append(told[s], announcing.update)) = Elements(told[s]) \cup {announcing.update}
    <3>1. ASSUME NEW x \in Seq(Updates), NEW e \in Updates
          PROVE  Elements(Append(x, e)) = Elements(x) \cup {e}
      BY AppendedElements
    <3>2. QED BY <1>1, <1>2, <3>1
  <2>4. QED BY <2>1, <2>2, <2>3
<1>4. /\ announcing'.update = updates /\ announcing'.left = announcing.left /\ announcing'.sent = s
      /\ announcing'.evicted \subseteq announcing.evicted \cup {s}
  BY <1>1 DEF ThreadTypes, Announcements
<1>5. ThreadTypes'
  BY DEF ThreadTypes, Announcements
<1>6. LoginTypes'
  BY DEF LoginTypes
<1>7. SessionTypes'
  BY <1>3 DEF SessionTypes, ThreadTypes, Announcements
<1>8. StreamTypes'
  BY DEF StreamTypes
<1>9. Places'
  BY DEF Places, Placed, Gone
<1>10. Announced'
  <2>1. \A r \in Sessions : \A n \in Elements(told'[r]) :
          n \in Elements(told[r]) \/ (r = s /\ n = updates)
    BY <1>1, <1>2, <1>3 DEF SessionTypes
  <2>2. ASSUME NEW r \in Sessions, NEW n \in Elements(told'[r])
        PROVE  n <= updates /\ (r \in announcing.left \ {s} => n < updates)
    <3>1. CASE n \in Elements(told[r])
      BY <1>1, <3>1 DEF Announced, Free
    <3>2. CASE r = s /\ n = updates
      BY <3>2 DEF ThreadTypes, Announcements
    <3>3. QED BY <2>1, <2>2, <3>1, <3>2
  <2>3. /\ \A r \in Sessions : \A n \in Elements(told'[r]) : n <= updates
        /\ \A r \in Sessions : r \in announcing.left \ {s} =>
             \A n \in Elements(told'[r]) : n < updates
    BY <2>2
  <2>4. announcing.left \cap announcing.evicted = {} /\ announcing.evicted \subseteq live
        /\ announcing.left \subseteq live
    <3>1. announcing.sent = None /\ announcing.left \subseteq live /\ live \subseteq Sessions
      BY DEF Announced, SessionTypes
    <3>2. None \notin live
      BY <3>1
    <3>3. QED BY <3>1, <3>2 DEF Announced
  <2>5. /\ updates' = updates /\ live' = live
        /\ \A r \in Sessions : r \in announcing'.left \ {announcing'.sent} =>
             \A n \in Elements(told'[r]) : n < updates
    BY <1>4, <2>3 DEF ThreadTypes, Announcements
  <2>6. announcing'.left \subseteq Sessions
    BY <1>4 DEF ThreadTypes, Announcements
  <2>7. QED BY <1>1, <1>4, <2>3, <2>4, <2>5, <2>6 DEF Announced
<1>11. Unissued'
  BY <1>1 DEF Unissued, SessionTypes
<1>12. QED BY <1>5, <1>6, <1>7, <1>8, <1>9, <1>10, <1>11 DEF Base, TypeOK

LEMMA NoteLengthBase ==
  ASSUME Base, NoteLength
  PROVE  Base'
<1>0. /\ ThreadTypes /\ LoginTypes /\ SessionTypes /\ StreamTypes
      /\ Places /\ Announced /\ Unissued
  BY DEF Base, TypeOK
<1> USE SessionsAssumption, <1>0 DEF NoteLength, Free, loginVars, streamVars
<1>1. announcing.sent \in Sessions /\ Len(channel[announcing.sent]) \in Nat
  BY LenProperties DEF ThreadTypes, Announcements, SessionTypes
<1>2. ThreadTypes'
  BY DEF ThreadTypes, Announcements
<1>3. LoginTypes'
  BY DEF LoginTypes
<1>4. SessionTypes'
  BY <1>1 DEF SessionTypes
<1>5. StreamTypes'
  BY DEF StreamTypes
<1>6. Places'
  BY DEF Places, Placed, Gone
<1>7. Announced'
  BY DEF Announced, ThreadTypes, Announcements
<1>8. Unissued'
  BY <1>1 DEF Unissued, Announced, SessionTypes
<1>9. QED BY <1>2, <1>3, <1>4, <1>5, <1>6, <1>7, <1>8 DEF Base, TypeOK

LEMMA EndAnnounceBase ==
  ASSUME Base, EndAnnounce
  PROVE  Base'
<1>0. /\ ThreadTypes /\ LoginTypes /\ SessionTypes /\ StreamTypes
      /\ Places /\ Announced /\ Unissued
  BY DEF Base, TypeOK
<1> USE SessionsAssumption, <1>0 DEF EndAnnounce, Free, loginVars, counters, streamVars, history
<1>1. ThreadTypes'
  BY DEF ThreadTypes, Announcements
<1>2. LoginTypes'
  BY DEF LoginTypes
<1>3. SessionTypes'
  BY DEF SessionTypes
<1>4. StreamTypes'
  BY DEF StreamTypes
<1>5. Places'
  BY DEF Places, Placed, Gone
<1>6. Announced'
  BY DEF Announced, ThreadTypes, Announcements
<1>7. Unissued'
  BY DEF Unissued
<1>8. QED BY <1>1, <1>2, <1>3, <1>4, <1>5, <1>6, <1>7 DEF Base, TypeOK

LEMMA ToolAnnounceBase ==
  ASSUME Base, ToolAnnounce
  PROVE  Base'
<1>0. /\ ThreadTypes /\ LoginTypes /\ SessionTypes /\ StreamTypes
      /\ Places /\ Announced /\ Unissued
  BY DEF Base, TypeOK
<1> USE SessionsAssumption, <1>0 DEF ToolAnnounce, Free, loginVars, counters, streamVars
<1>1. updates + 1 \in Updates
  BY DEF ThreadTypes, Announcements, Updates
<1>2. \A s \in Sessions :
        /\ Append(channel[s], updates + 1) \in Seq(Updates)
        /\ Append(told[s], updates + 1) \in Seq(Updates)
        /\ Elements(Append(told[s], updates + 1)) = Elements(told[s]) \cup {updates + 1}
  BY <1>1, AppendedElements DEF SessionTypes
<1>3. ThreadTypes'
  BY <1>1 DEF ThreadTypes, Announcements, Updates
<1>4. LoginTypes'
  BY DEF LoginTypes
<1>5. SessionTypes'
  BY <1>2 DEF SessionTypes
<1>6. StreamTypes'
  BY DEF StreamTypes
<1>7. Places'
  BY DEF Places, Placed, Gone
<1>8. Announced'
  <2>1. \A s \in Sessions : \A n \in Elements(told'[s]) : n \in Elements(told[s]) \/ n = updates + 1
    BY <1>2
  <2>2. \A s \in Sessions : \A n \in Elements(told'[s]) : n <= updates + 1
    <3>1. ASSUME NEW r \in Sessions, NEW n \in Elements(told'[r]) PROVE n <= updates + 1
      <4>1. CASE n = updates + 1
        BY <4>1 DEF ThreadTypes, Announcements
      <4>2. CASE n \in Elements(told[r])
        <5>1. n \in Nat /\ updates \in Nat
          BY <4>2, ToldAreUpdates
        <5>2. n <= updates
          BY <4>2 DEF Announced
        <5>3. QED BY <5>1, <5>2
      <4>3. QED BY <2>1, <3>1, <4>1, <4>2
    <3>2. QED BY <3>1
  <2>3. QED BY <2>2 DEF Announced
<1>9. Unissued'
  BY DEF Unissued, SessionTypes
<1>10. QED BY <1>3, <1>4, <1>5, <1>6, <1>7, <1>8, <1>9 DEF Base, TypeOK

LEMMA NewKeyBase ==
  ASSUME Base, NEW s \in Sessions, NEW d \in Descriptions, NewKey(s, d)
  PROVE  Base'
<1>0. /\ ThreadTypes /\ LoginTypes /\ SessionTypes /\ StreamTypes
      /\ Places /\ Announced /\ Unissued
  BY DEF Base, TypeOK
<1> USE SessionsAssumption, <1>0 DEF NewKey, Free, NoLogin, streamVars
<1>1. [NoLogin EXCEPT !.stage = "keyed", !.description = d] \in Logins
  BY DEF Logins
<1>2. ThreadTypes'
  BY DEF ThreadTypes, Announcements
<1>3. LoginTypes'
  BY <1>1 DEF LoginTypes
<1>4. SessionTypes'
  BY DEF SessionTypes, ThreadTypes, Announcements
<1>5. StreamTypes'
  BY DEF StreamTypes
<1>6. Places'
  BY DEF Places, Placed, Gone
<1>7. Announced'
  BY DEF Announced, ThreadTypes, Announcements
<1>8. Unissued'
  BY DEF Unissued, LoginTypes
<1>9. QED BY <1>2, <1>3, <1>4, <1>5, <1>6, <1>7, <1>8 DEF Base, TypeOK

LEMMA LookForDeviceBase ==
  ASSUME Base, NEW s \in Sessions, LookForDevice(s)
  PROVE  Base'
<1>0. /\ ThreadTypes /\ LoginTypes /\ SessionTypes /\ StreamTypes
      /\ Places /\ Announced /\ Unissued
  BY DEF Base, TypeOK
<1> USE SessionsAssumption, <1>0 DEF LookForDevice, Free, counters, streamVars, history
<1>1. /\ login[s] \in Logins /\ login[s].stage = "keyed" /\ Len(devices) \in Nat
      /\ Matches(login[s].description) \subseteq Nat
  BY LenProperties DEF LoginTypes, Matches
<1>2. \A i \in Nat :
        /\ [login[s] EXCEPT !.stage = "missing", !.seen = Len(devices)] \in Logins
        /\ [login[s] EXCEPT !.stage = "done", !.id = i] \in Logins
  BY <1>1 DEF Logins
<1>3. /\ login' \in [Sessions -> Logins]
      /\ \A r \in Sessions : login'[r].stage = "none" => login[r].stage = "none"
  <2>1. CASE Matches(login[s].description) = {}
    <3>1. login' = [login EXCEPT ![s] = [login[s] EXCEPT !.stage = "missing", !.seen = Len(devices)]]
      BY <1>1, <2>1 DEF LoginTypes
    <3>2. QED BY <1>1, <1>2, <3>1 DEF LoginTypes, Logins
  <2>2. ASSUME NEW i \in Matches(login[s].description),
               login' = [login EXCEPT ![s].stage = "done", ![s].id = i]
        PROVE  /\ login' \in [Sessions -> Logins]
               /\ \A r \in Sessions : login'[r].stage = "none" => login[r].stage = "none"
    <3>1. login' = [login EXCEPT ![s] = [login[s] EXCEPT !.stage = "done", !.id = i]]
      BY <1>1, <2>2 DEF LoginTypes
    <3>2. i \in Nat /\ [login[s] EXCEPT !.stage = "done", !.id = i] \in Logins
      BY <1>1, <1>2, <2>2
    <3>3. QED BY <1>1, <3>1, <3>2 DEF LoginTypes, Logins
  <2>3. QED BY <2>1, <2>2
<1>4. ThreadTypes'
  BY DEF ThreadTypes, Announcements
<1>5. LoginTypes'
  BY <1>3 DEF LoginTypes
<1>6. SessionTypes'
  BY DEF SessionTypes
<1>7. StreamTypes'
  BY DEF StreamTypes
<1>8. Places'
  BY DEF Places, Placed, Gone
<1>9. Announced'
  BY DEF Announced, ThreadTypes, Announcements
<1>10. Unissued'
  BY <1>3 DEF Unissued
<1>11. QED BY <1>4, <1>5, <1>6, <1>7, <1>8, <1>9, <1>10 DEF Base, TypeOK

LEMMA AddDeviceBase ==
  ASSUME Base, NEW s \in Sessions, AddDevice(s)
  PROVE  Base'
<1>0. /\ ThreadTypes /\ LoginTypes /\ SessionTypes /\ StreamTypes
      /\ Places /\ Announced /\ Unissued
  BY DEF Base, TypeOK
<1> USE SessionsAssumption, <1>0 DEF AddDevice, Begin, Free, counters, streamVars, history
<1>1. /\ updates + 1 \in Updates /\ updates' = updates + 1
      /\ \A r \in Sessions : \A n \in Elements(told[r]) : n <= updates + 1 /\ n < updates + 1
  <2>1. updates + 1 \in Updates
    BY DEF ThreadTypes, Announcements, Updates
  <2>2. ASSUME NEW r \in Sessions, NEW n \in Elements(told[r])
        PROVE  n <= updates + 1 /\ n < updates + 1
    <3>1. n \in Nat /\ updates \in Nat
      BY <2>2, ToldAreUpdates
    <3>2. n <= updates
      BY <2>2 DEF Announced
    <3>3. QED BY <3>1, <3>2
  <2>3. QED BY <2>1, <2>2
<1>2. /\ announcing' \in [update : Updates, left : SUBSET Sessions, sent : Sessions \cup {None},
                          evicted : SUBSET Sessions]
      /\ announcing'.update = updates + 1 /\ announcing'.left \subseteq live
      /\ announcing'.sent = None /\ announcing'.evicted = {}
  BY <1>1 DEF SessionTypes
<1>3. login[s] \in Logins /\ login[s].stage = "missing" /\ Len(devices) \in Nat
  BY LenProperties DEF LoginTypes
<1>4. /\ login' \in [Sessions -> Logins]
      /\ \A r \in Sessions : login'[r].stage = "none" => login[r].stage = "none"
  BY <1>3 DEF LoginTypes, Logins
<1>5. /\ login[s].description \in Descriptions \cup {ServerDevice}
      /\ Append(devices, login[s].description) \in Seq(Descriptions \cup {ServerDevice})
      /\ Append(devices, login[s].description) # <<>>
  BY <1>3, AppendProperties DEF LoginTypes, Logins
<1>6. ThreadTypes'
  BY <1>1, <1>2 DEF ThreadTypes, Announcements, Updates
<1>7. LoginTypes'
  BY <1>4, <1>5 DEF LoginTypes
<1>8. SessionTypes'
  BY DEF SessionTypes
<1>9. StreamTypes'
  BY DEF StreamTypes
<1>10. Places'
  BY DEF Places, Placed, Gone
<1>11. Announced'
  BY <1>1, <1>2 DEF Announced
<1>12. Unissued'
  BY <1>4 DEF Unissued
<1>13. QED BY <1>6, <1>7, <1>8, <1>9, <1>10, <1>11, <1>12 DEF Base, TypeOK

LEMMA AskStreamBase ==
  ASSUME Base, NEW t \in Streams, NEW s \in Sessions, AskStream(t, s)
  PROVE  Base'
<1>0. /\ ThreadTypes /\ LoginTypes /\ SessionTypes /\ StreamTypes
      /\ Places /\ Announced /\ Unissued
  BY DEF Base, TypeOK
<1> USE SessionsAssumption, <1>0 DEF AskStream, Free, loginVars, counters, history
<1>1. /\ stream' \in [Streams -> StreamStates]
      /\ stream'[t] = [stage |-> "asked", session |-> s, hand |-> None]
      /\ \A u \in Streams \ {t} : stream'[u] = stream[u]
  BY DEF StreamTypes, StreamStates
<1>2. ThreadTypes'
  BY DEF ThreadTypes, Announcements
<1>3. LoginTypes'
  BY DEF LoginTypes
<1>4. SessionTypes'
  BY DEF SessionTypes
<1>5. StreamTypes'
  BY <1>1 DEF StreamTypes
<1>6. Places'
  BY <1>1 DEF Places, Placed, Gone, StreamTypes
<1>7. Announced'
  BY DEF Announced, ThreadTypes, Announcements
<1>8. Unissued'
  BY DEF Unissued
<1>9. QED BY <1>2, <1>3, <1>4, <1>5, <1>6, <1>7, <1>8 DEF Base, TypeOK

LEMMA OpenStreamBase ==
  ASSUME Base, NEW t \in Streams, OpenStream(t)
  PROVE  Base'
<1>0. /\ ThreadTypes /\ LoginTypes /\ SessionTypes /\ StreamTypes
      /\ Places /\ Announced /\ Unissued
  BY DEF Base, TypeOK
<1> USE SessionsAssumption, <1>0 DEF OpenStream, Free, loginVars, counters, history
<1>1. Moves(t, IF stream[t].session \in live THEN "receiving" ELSE "ended", None)
  BY DEF Moves, StreamTypes, StreamStates, Places, Placed
<1>2. ThreadTypes'
  BY DEF ThreadTypes, Announcements
<1>3. LoginTypes'
  BY DEF LoginTypes
<1>4. SessionTypes'
  BY DEF SessionTypes
<1>5. StreamTypes'
  BY <1>1 DEF Moves, StreamTypes
<1>6. Places'
  <2>1. ASSUME NEW u \in Streams \ {t} PROVE Placed(u)'
    BY <1>1, <2>1 DEF Moves, Places, Placed, Gone, StreamTypes
  <2>2. Placed(t)'
    <3>1. /\ stream'[t].stage = (IF stream[t].session \in live THEN "receiving" ELSE "ended")
          /\ stream'[t].hand = None /\ stream'[t].session = stream[t].session
      BY <1>1 DEF Moves
    <3>2. Placed(t)
      BY DEF Places
    <3>3. QED BY <3>1, <3>2 DEF Placed, Gone, StreamTypes
  <2>3. QED BY <2>1, <2>2 DEF Places
<1>7. Announced'
  BY DEF Announced, ThreadTypes, Announcements
<1>8. Unissued'
  BY DEF Unissued
<1>9. QED BY <1>2, <1>3, <1>4, <1>5, <1>6, <1>7, <1>8 DEF Base, TypeOK

LEMMA ReceiveBase ==
  ASSUME Base, NEW t \in Streams, Receive(t)
  PROVE  Base'
<1>0. /\ ThreadTypes /\ LoginTypes /\ SessionTypes /\ StreamTypes
      /\ Places /\ Announced /\ Unissued
  BY DEF Base, TypeOK
<1> USE SessionsAssumption, <1>0 DEF Receive, Taken, loginVars, counters
<1>1. /\ stream[t] \in StreamStates /\ stream[t].session \in Sessions
      /\ channel[stream[t].session] \in Seq(Updates)
      /\ Head(channel[stream[t].session]) \in Updates
      /\ Tail(channel[stream[t].session]) \in Seq(Updates)
      /\ Head(channel[stream[t].session]) # None
  <2>1. stream[t] \in StreamStates /\ stream[t].session \in Sessions
    BY DEF StreamTypes, StreamStates, Places, Placed
  <2>2. channel[stream[t].session] \in Seq(Updates)
    BY <2>1 DEF SessionTypes
  <2>3. Updates \subseteq Nat
    BY DEF Updates
  <2>4. QED BY <2>1, <2>2, <2>3, HeadAndTail
<1>2. Moves(t, IF stream[t].stage = "receiving" THEN "sending" ELSE "breaking", Head(channel[stream[t].session]))
  BY <1>1 DEF Moves, StreamTypes, StreamStates, Places, Placed
<1>3. ThreadTypes'
  BY DEF ThreadTypes, Announcements
<1>4. LoginTypes'
  BY DEF LoginTypes
<1>5. SessionTypes'
  BY <1>1 DEF SessionTypes, ThreadTypes, Announcements
<1>6. StreamTypes'
  BY <1>2 DEF Moves, StreamTypes
<1>7. Places'
  <2>1. ASSUME NEW u \in Streams \ {t} PROVE Placed(u)'
    BY <1>2, <2>1 DEF Moves, Places, Placed, Gone, StreamTypes
  <2>2. Placed(t)'
    <3>1. /\ stream'[t].stage = (IF stream[t].stage = "receiving" THEN "sending" ELSE "breaking")
          /\ stream'[t].hand = Head(channel[stream[t].session]) /\ stream'[t].session = stream[t].session
      BY <1>2 DEF Moves
    <3>2. Placed(t)
      BY DEF Places
    <3>3. QED BY <1>1, <3>1, <3>2 DEF Placed, Gone, StreamTypes
  <2>3. QED BY <2>1, <2>2 DEF Places
<1>8. Announced'
  BY DEF Announced, ThreadTypes, Announcements
<1>9. Unissued'
  BY <1>1 DEF Unissued, SessionTypes
<1>10. QED BY <1>3, <1>4, <1>5, <1>6, <1>7, <1>8, <1>9 DEF Base, TypeOK

LEMMA EndStreamBase ==
  ASSUME Base, NEW t \in Streams, EndStream(t)
  PROVE  Base'
<1>0. /\ ThreadTypes /\ LoginTypes /\ SessionTypes /\ StreamTypes
      /\ Places /\ Announced /\ Unissued
  BY DEF Base, TypeOK
<1> USE SessionsAssumption, <1>0 DEF EndStream, Over, loginVars, counters, history
<1>1. Moves(t, IF stream[t].stage = "receiving" THEN "ended" ELSE "left", None)
  BY DEF Moves, StreamTypes, StreamStates, Places, Placed
<1>2. ThreadTypes'
  BY DEF ThreadTypes, Announcements
<1>3. LoginTypes'
  BY DEF LoginTypes
<1>4. SessionTypes'
  BY DEF SessionTypes
<1>5. StreamTypes'
  BY <1>1 DEF Moves, StreamTypes
<1>6. Places'
  <2>1. ASSUME NEW u \in Streams \ {t} PROVE Placed(u)'
    BY <1>1, <2>1 DEF Moves, Places, Placed, Gone, StreamTypes
  <2>2. Placed(t)'
    <3>1. /\ stream'[t].stage = (IF stream[t].stage = "receiving" THEN "ended" ELSE "left")
          /\ stream'[t].hand = None /\ stream'[t].session = stream[t].session
      BY <1>1 DEF Moves
    <3>2. Placed(t)
      BY DEF Places
    <3>3. QED BY <3>1, <3>2 DEF Placed, Gone, StreamTypes
  <2>3. QED BY <2>1, <2>2 DEF Places
<1>7. Announced'
  BY DEF Announced, ThreadTypes, Announcements
<1>8. Unissued'
  BY DEF Unissued
<1>9. QED BY <1>2, <1>3, <1>4, <1>5, <1>6, <1>7, <1>8 DEF Base, TypeOK

LEMMA ForwardBase ==
  ASSUME Base, NEW t \in Streams, Forward(t)
  PROVE  Base'
<1>0. /\ ThreadTypes /\ LoginTypes /\ SessionTypes /\ StreamTypes
      /\ Places /\ Announced /\ Unissued
  BY DEF Base, TypeOK
<1> USE SessionsAssumption, <1>0 DEF Forward, HasRoom, loginVars, counters, history
<1>1. stream[t].hand \in Updates
  BY DEF Places, Placed, StreamTypes, StreamStates
<1>2. Moves(t, "receiving", None)
  BY <1>1 DEF Moves, StreamTypes, StreamStates, Places, Placed
<1>3. /\ buffer[t] \in Seq(Updates) /\ Append(buffer[t], stream[t].hand) \in Seq(Updates)
      /\ Len(Append(buffer[t], stream[t].hand)) = Len(buffer[t]) + 1 /\ Len(buffer[t]) \in Nat
  BY <1>1, AppendedElements, LenProperties DEF StreamTypes
<1>4. ThreadTypes'
  BY DEF ThreadTypes, Announcements
<1>5. LoginTypes'
  BY DEF LoginTypes
<1>6. SessionTypes'
  BY DEF SessionTypes
<1>7. StreamTypes'
  BY <1>2, <1>3 DEF Moves, StreamTypes
<1>8. Places'
  <2>1. ASSUME NEW u \in Streams \ {t} PROVE Placed(u)'
    BY <1>2, <2>1 DEF Moves, Places, Placed, Gone, StreamTypes
  <2>2. Placed(t)'
    <3>1. /\ stream'[t].stage = ("receiving")
          /\ stream'[t].hand = None /\ stream'[t].session = stream[t].session
      BY <1>2 DEF Moves
    <3>2. Placed(t)
      BY DEF Places
    <3>3. QED BY <1>1, <3>1, <3>2 DEF Placed, Gone, StreamTypes
  <2>3. QED BY <2>1, <2>2 DEF Places
<1>9. Announced'
  BY DEF Announced, ThreadTypes, Announcements
<1>10. Unissued'
  BY DEF Unissued
<1>11. QED BY <1>4, <1>5, <1>6, <1>7, <1>8, <1>9, <1>10 DEF Base, TypeOK

LEMMA ForwardFailsBase ==
  ASSUME Base, NEW t \in Streams, ForwardFails(t)
  PROVE  Base'
<1>0. /\ ThreadTypes /\ LoginTypes /\ SessionTypes /\ StreamTypes
      /\ Places /\ Announced /\ Unissued
  BY DEF Base, TypeOK
<1> USE SessionsAssumption, <1>0 DEF ForwardFails, loginVars, counters, history
<1>1. stream[t].hand \in Updates
  BY DEF Places, Placed, StreamTypes, StreamStates
<1>2. Moves(t, "left", None)
  BY <1>1 DEF Moves, StreamTypes, StreamStates, Places, Placed
<1>3. ThreadTypes'
  BY DEF ThreadTypes, Announcements
<1>4. LoginTypes'
  BY DEF LoginTypes
<1>5. SessionTypes'
  BY DEF SessionTypes
<1>6. StreamTypes'
  BY <1>1, <1>2 DEF Moves, StreamTypes
<1>7. Places'
  <2>1. ASSUME NEW u \in Streams \ {t} PROVE Placed(u)'
    BY <1>2, <2>1 DEF Moves, Places, Placed, Gone, StreamTypes
  <2>2. Placed(t)'
    <3>1. /\ stream'[t].stage = ("left")
          /\ stream'[t].hand = None /\ stream'[t].session = stream[t].session
      BY <1>2 DEF Moves
    <3>2. Placed(t)
      BY DEF Places
    <3>3. QED BY <1>1, <3>1, <3>2 DEF Placed, Gone, StreamTypes
  <2>3. QED BY <2>1, <2>2 DEF Places
<1>8. Announced'
  BY DEF Announced, ThreadTypes, Announcements
<1>9. Unissued'
  BY DEF Unissued
<1>10. QED BY <1>3, <1>4, <1>5, <1>6, <1>7, <1>8, <1>9 DEF Base, TypeOK

LEMMA ReadBase ==
  ASSUME Base, NEW t \in Streams, Read(t)
  PROVE  Base'
<1>0. /\ ThreadTypes /\ LoginTypes /\ SessionTypes /\ StreamTypes
      /\ Places /\ Announced /\ Unissued
  BY DEF Base, TypeOK
<1> USE SessionsAssumption, <1>0 DEF Read, Connected, loginVars, counters, history
<1>1. /\ buffer[t] \in Seq(Updates) /\ got[t] \in Seq(Updates)
      /\ Tail(buffer[t]) \in Seq(Updates) /\ Len(Tail(buffer[t])) = Len(buffer[t]) - 1
      /\ Len(buffer[t]) \in Nat
  BY HeadAndTail DEF StreamTypes
<1>2. Append(got[t], Head(buffer[t])) \in Seq(Updates)
  BY <1>1, HeadAndTail, AppendedElements
<1>3. ThreadTypes'
  BY DEF ThreadTypes, Announcements
<1>4. LoginTypes'
  BY DEF LoginTypes
<1>5. SessionTypes'
  BY DEF SessionTypes
<1>6. StreamTypes'
  BY <1>1, <1>2 DEF StreamTypes
<1>7. Places'
  BY DEF Places, Placed, Gone
<1>8. Announced'
  BY DEF Announced, ThreadTypes, Announcements
<1>9. Unissued'
  BY DEF Unissued
<1>10. QED BY <1>3, <1>4, <1>5, <1>6, <1>7, <1>8, <1>9 DEF Base, TypeOK

LEMMA DisconnectBase ==
  ASSUME Base, NEW t \in Streams, Disconnect(t)
  PROVE  Base'
<1>0. /\ ThreadTypes /\ LoginTypes /\ SessionTypes /\ StreamTypes
      /\ Places /\ Announced /\ Unissued
  BY DEF Base, TypeOK
<1> USE SessionsAssumption, <1>0 DEF Disconnect, Connected, loginVars, counters, history
<1>1. Moves(t, IF stream[t].stage = "receiving" THEN "broken" ELSE "breaking", stream[t].hand)
  BY DEF Moves, StreamTypes, StreamStates, Places, Placed
<1>2. /\ {buffer[t][i] : i \in DOMAIN buffer[t]} \subseteq Updates
      /\ <<>> \in Seq(Updates) /\ Len(<<>>) = 0
  BY ElementsCounted DEF StreamTypes, Elements
<1>3. ThreadTypes'
  BY DEF ThreadTypes, Announcements
<1>4. LoginTypes'
  BY DEF LoginTypes
<1>5. SessionTypes'
  BY DEF SessionTypes
<1>6. StreamTypes'
  BY <1>1, <1>2 DEF Moves, StreamTypes
<1>7. Places'
  <2>1. ASSUME NEW u \in Streams \ {t} PROVE Placed(u)'
    BY <1>1, <2>1 DEF Moves, Places, Placed, Gone, StreamTypes
  <2>2. Placed(t)'
    <3>1. /\ stream'[t].stage = (IF stream[t].stage = "receiving" THEN "broken" ELSE "breaking")
          /\ stream'[t].hand = stream[t].hand /\ stream'[t].session = stream[t].session
      BY <1>1 DEF Moves
    <3>2. Placed(t)
      BY DEF Places
    <3>3. QED BY <3>1, <3>2 DEF Placed, Gone, StreamTypes
  <2>3. QED BY <2>1, <2>2 DEF Places
<1>8. Announced'
  BY DEF Announced, ThreadTypes, Announcements
<1>9. Unissued'
  BY DEF Unissued
<1>10. QED BY <1>3, <1>4, <1>5, <1>6, <1>7, <1>8, <1>9 DEF Base, TypeOK

LEMMA BaseStep == Base /\ [Next]_vars => Base'
<1> SUFFICES ASSUME Base, [Next]_vars PROVE Base'
  OBVIOUS
<1>1. CASE UNCHANGED vars
  BY <1>1 DEF Base, TypeOK, ThreadTypes, LoginTypes, SessionTypes, StreamTypes, Places, Announced,
              Unissued, vars, history, loginVars, streamVars, counters, Gone, Placed
<1>2. CASE Next
  <2>1. CASE AnnounceStep
    BY <2>1, SendBase, NoteLengthBase, EndAnnounceBase DEF AnnounceStep
  <2>2. ASSUME NEW t \in Streams, StreamStep(t) PROVE Base'
    BY <2>2, OpenStreamBase, ReceiveBase, EndStreamBase, ForwardBase, ForwardFailsBase
    DEF StreamStep
  <2>3. QED
    BY <1>2, <2>1, <2>2, PassBase, AnnounceBase, ToolAnnounceBase, NewKeyBase, LookForDeviceBase,
       AddDeviceBase, AskStreamBase, ReadBase, DisconnectBase DEF Next
<1>3. QED BY <1>1, <1>2

LEMMA BaseAlways == Spec => []Base
<1>1. QED BY InitBase, BaseStep, PTL DEF Spec

\* Types are kept, and no channel to a response holds more than it can: a stream
\* in its send waits for room with the update in its hand (db_post_handler).
THEOREM TypeCorrect == Spec => []TypeOK
<1>1. Base => TypeOK
  BY DEF Base
<1>2. QED BY <1>1, BaseAlways, PTL

-----------------------------------------------------------------------------
(* Logins.  One that found no device looked at those there were.             *)

SeenNone == \A s \in Sessions : login[s].stage = "missing" =>
  /\ login[s].seen <= Len(devices)
  /\ \A i \in 1 .. login[s].seen : devices[i] # login[s].description

LoginInv == SeenNone /\ LoginNamesItsDevice

LEMMA OnlyLoginsFindDevices ==
  ASSUME [Next]_vars
  PROVE  \/ UNCHANGED loginVars
         \/ \E s \in Sessions : \/ \E d \in Descriptions : NewKey(s, d)
                                \/ LookForDevice(s) \/ AddDevice(s)
BY DEF Next, vars, Pass, Announce, AnnounceStep, Send, NoteLength, EndAnnounce, ToolAnnounce,
       AskStream, StreamStep, OpenStream, Receive, EndStream, Forward, ForwardFails, Read,
       Disconnect

LEMMA LoginStep ==
  ASSUME Base, LoginInv, [Next]_vars
  PROVE  LoginInv'
<1>1. /\ LoginTypes /\ SessionsAssumption /\ SeenNone /\ LoginNamesItsDevice
      /\ Len(devices) \in Nat /\ DOMAIN devices = 1 .. Len(devices)
  BY SessionsAssumption, LenProperties DEF Base, TypeOK, LoginInv, LoginTypes
<1>2. CASE UNCHANGED loginVars
  BY <1>1, <1>2 DEF loginVars, LoginInv, SeenNone, LoginNamesItsDevice
<1>3. ASSUME NEW s \in Sessions, NEW d \in Descriptions, NewKey(s, d)
      PROVE  LoginInv'
  <2>1. /\ devices' = devices /\ blind' = blind
        /\ \A r \in Sessions : login'[r] = login[r] \/ login'[r].stage = "keyed"
    BY <1>1, <1>3 DEF NewKey, NoLogin, LoginTypes, Logins
  <2>2. SeenNone'
    BY <1>1, <2>1 DEF SeenNone
  <2>3. LoginNamesItsDevice'
    BY <1>1, <2>1 DEF LoginNamesItsDevice
  <2>4. QED BY <2>2, <2>3 DEF LoginInv
<1>4. ASSUME NEW s \in Sessions, LookForDevice(s)
      PROVE  LoginInv'
  <2>1. /\ devices' = devices /\ blind' = blind
        /\ \A r \in Sessions \ {s} : login'[r] = login[r]
        /\ login'[s].description = login[s].description
    BY <1>1, <1>4 DEF LookForDevice, LoginTypes, Logins
  <2>2. \/ /\ login'[s].stage = "missing" /\ login'[s].seen = Len(devices)
           /\ Matches(login[s].description) = {}
        \/ /\ login'[s].stage = "done" /\ login'[s].id \in Matches(login[s].description)
    BY <1>1, <1>4 DEF LookForDevice, LoginTypes, Logins
  <2>3. SeenNone'
    <3>1. ASSUME Matches(login[s].description) = {}, NEW i \in 1 .. Len(devices)
          PROVE  devices[i] # login[s].description
      <4>1. i - 1 \in 0 .. Len(devices) - 1 /\ (i - 1) + 1 = i
        BY <1>1
      <4>2. QED BY <3>1, <4>1 DEF Matches
    <3>2. QED BY <1>1, <2>1, <2>2, <3>1 DEF SeenNone
  <2>4. LoginNamesItsDevice'
    <3>1. ASSUME NEW i \in Matches(login[s].description)
          PROVE  i < Len(devices) /\ devices[i + 1] = login[s].description
      BY <1>1 DEF Matches
    <3>2. QED BY <1>1, <2>1, <2>2, <3>1 DEF LoginNamesItsDevice
  <2>5. QED BY <2>3, <2>4 DEF LoginInv
<1>5. ASSUME NEW s \in Sessions, AddDevice(s)
      PROVE  LoginInv'
  <2> DEFINE d == login[s].description
             n == Len(devices)
  <2>1. /\ devices' = Append(devices, d) /\ Len(devices') = n + 1
        /\ DOMAIN devices' = 1 .. n + 1
        /\ \A i \in 1 .. n : devices'[i] = devices[i]
        /\ devices'[n + 1] = d
    <3>1. d \in Descriptions \cup {ServerDevice}
      BY <1>1 DEF LoginTypes, Logins
    <3>2. devices \in Seq(Descriptions \cup {ServerDevice})
      BY <1>1 DEF LoginTypes
    <3>3. devices' = Append(devices, d)
      BY <1>5 DEF AddDevice
    <3>4. QED BY <3>1, <3>2, <3>3, AppendProperties, LenProperties
  <2>2. /\ \A r \in Sessions \ {s} : login'[r] = login[r]
        /\ login'[s].description = d /\ login'[s].stage = "done" /\ login'[s].id = n
        /\ login[s].stage = "missing"
        /\ ~blind' => ~blind /\ login[s].seen = n
    BY <1>1, <1>5 DEF AddDevice, LoginTypes, Logins
  <2> HIDE DEF d, n
  <2>3. n = Len(devices) /\ n \in Nat
    BY <1>1 DEF n
  <2>4. SeenNone'
    <3>1. ASSUME NEW r \in Sessions \ {s}, login[r].stage = "missing"
          PROVE  /\ login[r].seen <= n + 1
                 /\ \A i \in 1 .. login[r].seen : devices'[i] # login[r].description
      <4>1. login[r].seen <= n /\ login[r].seen \in Nat
        BY <1>1, <2>3, <3>1 DEF SeenNone, LoginTypes, Logins
      <4>2. \A i \in 1 .. login[r].seen : i \in 1 .. n
        BY <2>3, <4>1
      <4>3. QED BY <1>1, <2>1, <2>3, <3>1, <4>1, <4>2 DEF SeenNone
    <3>2. ASSUME NEW r \in Sessions, login'[r].stage = "missing"
          PROVE  /\ login'[r].seen <= Len(devices')
                 /\ \A i \in 1 .. login'[r].seen : devices'[i] # login'[r].description
      <4>1. r # s
        BY <2>2, <3>2
      <4>2. login'[r] = login[r]
        BY <2>2, <4>1
      <4>3. QED BY <2>1, <3>1, <3>2, <4>1, <4>2
    <3>3. QED BY <3>2 DEF SeenNone
  <2>5. LoginNamesItsDevice'
    <3>1. ASSUME NEW r \in Sessions, login'[r].stage = "done"
          PROVE  login'[r].id < Len(devices') /\ devices'[login'[r].id + 1] = login'[r].description
      <4>1. CASE r = s
        BY <2>1, <2>2, <2>3, <4>1
      <4>2. CASE r # s
        <5>1. /\ login[r].id < n /\ login[r].id \in Nat /\ login'[r] = login[r]
              /\ devices[login[r].id + 1] = login[r].description
          BY <1>1, <2>2, <2>3, <3>1, <4>2 DEF LoginNamesItsDevice, LoginTypes, Logins
        <5>2. login[r].id + 1 \in 1 .. n
          BY <2>3, <5>1
        <5>3. QED BY <2>1, <2>3, <5>1, <5>2
      <4>3. QED BY <4>1, <4>2
    <3>2. ASSUME ~blind', NEW i \in 1 .. n + 1, NEW k \in 1 .. n + 1, devices'[i] = devices'[k]
          PROVE  i = k
      <4>1. ~blind /\ \A j \in 1 .. n : devices[j] # d
        BY <1>1, <2>2, <2>3, <3>2 DEF SeenNone, d
      <4>2. \A j, l \in 1 .. n : devices[j] = devices[l] => j = l
        BY <1>1, <2>3, <4>1 DEF LoginNamesItsDevice
      <4>3. \A j \in 1 .. n + 1 : j \in 1 .. n \/ j = n + 1
        BY <2>3
      <4>4. QED BY <2>1, <3>2, <4>1, <4>2, <4>3
    <3>3. QED BY <2>1, <3>1, <3>2 DEF LoginNamesItsDevice
  <2>6. QED BY <2>4, <2>5 DEF LoginInv
<1>6. QED BY <1>2, <1>3, <1>4, <1>5, OnlyLoginsFindDevices

\* A login that ends names a device described as its client's, and no description
\* is there twice unless a login added one without having seen the other: between
\* the answers and Add(Device) of auth_post_handler another login may add it.
THEOREM LoginsFindTheirDevice == Spec => []LoginNamesItsDevice
<1>1. Init => LoginInv
  BY DEF Init, NoLogin, LoginInv, SeenNone, LoginNamesItsDevice
<1>2. Base /\ LoginInv /\ [Next]_vars => LoginInv'
  BY LoginStep
<1>3. LoginInv => LoginNamesItsDevice
  BY DEF LoginInv
<1>4. QED BY <1>1, <1>2, <1>3, BaseAlways, PTL DEF Spec

-----------------------------------------------------------------------------
(* Idleness.  A live session that is not found quiet has, outside its own    *)
(* turn, a length below the one noted if a stream has taken an update since. *)

InTurn(s) == announcing # None /\ announcing.sent = s

CountersTell(s) ==
  /\ taken[s] <= day /\ lastDecrease[s] <= day
  /\ InTurn(s) => lastDecrease[s] = day
  /\ s \notin refilled /\ ~InTurn(s) =>
       /\ Len(channel[s]) <= lastLen[s]
       /\ Len(channel[s]) = lastLen[s] => taken[s] <= lastDecrease[s]

IdleInv == \A s \in live \ evicting : CountersTell(s)

idleVars == <<day, live, channel, counters, announcing, taken, refilled>>

LEMMA OnlyTheseCount ==
  ASSUME [Next]_vars
  PROVE  \/ UNCHANGED idleVars \/ Pass
         \/ \E requester \in Sessions \cup {Local} : Announce(requester)
         \/ \E s \in Sessions : Send(s)
         \/ NoteLength \/ EndAnnounce \/ ToolAnnounce
         \/ \E s \in Sessions : AddDevice(s) \/ \E d \in Descriptions : NewKey(s, d)
         \/ \E t \in Streams : Receive(t)
BY DEF Next, vars, AnnounceStep, StreamStep, idleVars, history, LookForDevice, AskStream,
       OpenStream, EndStream, Forward, ForwardFails, Read, Disconnect

\* The counters of a session's turn: a quiet one is in the eviction's set after it.
LEMMA SendIdle ==
  ASSUME Base, IdleInv, NEW s \in Sessions, Send(s)
  PROVE  /\ IdleInv'
         /\ evicting' \ evicting \subseteq {s}
         /\ s \in evicting' \ evicting => s \in refilled \/ day - taken[s] > QuietDays
<1>1. /\ announcing \in Announcements /\ announcing # None /\ announcing.sent = None
      /\ s \in live /\ s # None /\ s \notin evicting /\ None \notin Announcements
      /\ \A r \in Sessions : r # None
  <2>1. /\ announcing # None /\ announcing.sent = None /\ s \in announcing.left
        /\ announcing \in Announcements
    BY DEF Send, Free, Base, TypeOK, ThreadTypes
  <2>2. s \in live /\ (s \in announcing.evicted => s = None)
    BY <2>1 DEF Base, Announced
  <2>3. \A r \in Sessions : r # None
    BY SessionsAssumption
  <2>4. QED BY <2>1, <2>2, <2>3, SessionsAssumption DEF evicting
<1>2. /\ announcing' \in Announcements /\ announcing'.sent = s
      /\ announcing'.evicted = IF Quiet(s) THEN announcing.evicted \cup {s} ELSE announcing.evicted
  BY <1>1 DEF Send, Announcements
<1>3. announcing' # None /\ evicting = announcing.evicted /\ evicting' = announcing'.evicted
  BY <1>1, <1>2 DEF evicting
<1>4. /\ \A r \in Sessions : ~InTurn(r)
      /\ \A r \in Sessions : InTurn(r)' => r = s
  BY <1>1, <1>2, <1>3 DEF InTurn
<1>5. /\ UNCHANGED <<day, live, lastLen, taken, refilled>>
      /\ \A r \in Sessions \ {s} : channel'[r] = channel[r] /\ lastDecrease'[r] = lastDecrease[r]
      /\ ~Quiet(s) => lastDecrease'[s] = day
  BY DEF Send, Base, TypeOK, SessionTypes
<1>6. CountersTell(s) /\ day \in Nat /\ taken[s] \in Nat /\ lastDecrease[s] \in Nat
      /\ live \subseteq Sessions
  BY <1>1, SessionsAssumption DEF IdleInv, Base, TypeOK, SessionTypes, ThreadTypes
<1>7. ASSUME NEW r \in live' \ evicting' PROVE CountersTell(r)'
  <2>1. r \in live /\ r \notin evicting /\ r \in Sessions /\ (r = s => ~Quiet(s))
    BY <1>2, <1>3, <1>5, <1>6, <1>7
  <2>2. CASE r = s
    <3>1. lastDecrease'[s] = day /\ InTurn(s)'
      BY <1>1, <1>2, <1>3, <1>5, <2>1, <2>2 DEF InTurn
    <3>2. taken'[s] <= day /\ day' = day /\ day <= day
      BY <1>5, <1>6 DEF CountersTell
    <3>3. QED BY <2>2, <3>1, <3>2 DEF CountersTell
  <2>3. CASE r # s
    <3>1. CountersTell(r) /\ ~InTurn(r) /\ ~InTurn(r)'
      BY <1>4, <2>1, <2>3 DEF IdleInv
    <3>2. QED BY <1>5, <2>1, <2>3, <3>1 DEF CountersTell
  <2>4. QED BY <2>2, <2>3
<1>8. IdleInv'
  BY <1>7 DEF IdleInv
<1>9. ASSUME s \in evicting' \ evicting, s \notin refilled
      PROVE  day - taken[s] > QuietDays
  <2>1. lastLen[s] = Len(channel[s]) /\ day - lastDecrease[s] > QuietDays
    BY <1>2, <1>3, <1>9 DEF Quiet
  <2>2. taken[s] <= lastDecrease[s]
    BY <1>4, <1>6, <1>9, <2>1 DEF CountersTell
  <2>3. QED BY <1>6, <2>1, <2>2, SessionsAssumption
<1>10. evicting' \ evicting \subseteq {s}
  BY <1>2, <1>3
<1>11. QED BY <1>8, <1>9, <1>10

LEMMA IdleStep ==
  ASSUME Base, IdleInv, [Next]_vars
  PROVE  IdleInv' /\ \A s \in evicting' \ evicting : s \in refilled \/ day - taken[s] > QuietDays
<1>0. /\ live \subseteq Sessions /\ day \in Nat /\ announcing \in Announcements \cup {None}
      /\ None \notin Announcements /\ (\A s \in Sessions : s # None)
      /\ \A s \in Sessions : /\ taken[s] \in Nat /\ lastDecrease[s] \in Nat /\ lastLen[s] \in Nat
                             /\ Len(channel[s]) \in Nat
      /\ SessionTypes
  BY SessionsAssumption, LenProperties DEF Base, TypeOK, SessionTypes, ThreadTypes
<1>1. ASSUME Free
      PROVE  evicting = {} /\ \A s \in Sessions : ~InTurn(s)
  BY <1>1 DEF Free, evicting, InTurn
<1>2. CASE UNCHANGED idleVars
  BY <1>2 DEF idleVars, counters, IdleInv, CountersTell, InTurn, evicting
<1>3. CASE Pass
  <2>1. /\ Free /\ day' = day + 1
        /\ UNCHANGED <<live, channel, counters, announcing, taken, refilled>>
    BY <1>3 DEF Pass, history
  <2>2. evicting' = {} /\ \A s \in Sessions : ~InTurn(s)'
    BY <2>1 DEF Free, evicting, InTurn
  <2>3. IdleInv'
    <3>1. ASSUME NEW s \in live PROVE CountersTell(s)'
      BY <1>0, <1>1, <2>1, <2>2 DEF IdleInv, CountersTell, counters
    <3>2. QED BY <2>1, <2>2, <3>1 DEF IdleInv
  <2>4. QED BY <2>2, <2>3
<1>4. ASSUME Free, updates < MaxUpdates, NEW requester, Begin(requester),
             UNCHANGED <<day, live, channel, counters, taken, refilled>>
      PROVE  IdleInv' /\ evicting' = {}
  <2>1. /\ announcing'.sent = None /\ announcing'.evicted = {}
    BY <1>4 DEF Begin
  <2>2. evicting' = {} /\ \A s \in Sessions : ~InTurn(s)'
    BY <1>0, <2>1 DEF evicting, InTurn
  <2>3. ASSUME NEW s \in live PROVE CountersTell(s)'
    BY <1>0, <1>1, <1>4, <2>2 DEF IdleInv, CountersTell, counters
  <2>4. QED BY <1>4, <2>2, <2>3 DEF IdleInv
<1>5. CASE NoteLength
  <2> DEFINE s == announcing.sent
  <2>1. /\ announcing # None /\ s \in Sessions /\ announcing \in Announcements
        /\ announcing'.sent = None /\ announcing'.evicted = announcing.evicted
        /\ announcing' \in Announcements
    BY <1>0, <1>5 DEF NoteLength, Free, Announcements
  <2>2. /\ UNCHANGED <<day, live, channel, lastDecrease, taken>>
        /\ lastLen'[s] = Len(channel[s]) /\ refilled' = refilled \ {s}
        /\ \A r \in Sessions \ {s} : lastLen'[r] = lastLen[r]
    BY <1>0, <1>5, <2>1 DEF NoteLength, SessionTypes
  <2>3. /\ evicting' = evicting /\ \A r \in Sessions : ~InTurn(r)' /\ (InTurn(r) <=> r = s)
    BY <1>0, <2>1 DEF evicting, InTurn
  <2> HIDE DEF s
  <2>4. ASSUME NEW r \in live \ evicting PROVE CountersTell(r)'
    <3>1. CountersTell(r) /\ r \in Sessions
      BY <1>0, <2>4 DEF IdleInv
    <3>2. CASE r = s
      <4>1. lastDecrease[r] = day /\ taken[r] <= day
        BY <2>3, <3>1, <3>2 DEF CountersTell
      <4>2. Len(channel'[r]) <= lastLen'[r] /\ taken'[r] <= lastDecrease'[r] /\ lastDecrease'[r] <= day'
        BY <1>0, <2>2, <3>1, <3>2, <4>1
      <4>3. QED BY <2>2, <2>3, <3>1, <4>1, <4>2 DEF CountersTell
    <3>3. CASE r # s
      BY <2>2, <2>3, <3>1, <3>3 DEF CountersTell
    <3>4. QED BY <3>2, <3>3
  <2>5. QED BY <2>2, <2>3, <2>4 DEF IdleInv
<1>6. CASE EndAnnounce
  <2>1. /\ announcing # None /\ announcing' = None /\ live' = live \ announcing.evicted
        /\ announcing.left = {}
        /\ UNCHANGED <<day, channel, counters, taken, refilled>>
    BY <1>6 DEF EndAnnounce, Free, history
  <2>2. announcing.sent = None
    BY <2>1 DEF Base, Announced
  <2>3. evicting' = {} /\ evicting = announcing.evicted
        /\ \A s \in Sessions : ~InTurn(s) /\ ~InTurn(s)'
    BY <1>0, <2>1, <2>2 DEF evicting, InTurn
  <2>4. ASSUME NEW s \in live \ evicting PROVE CountersTell(s)'
    BY <1>0, <2>1, <2>3, <2>4 DEF IdleInv, CountersTell, counters
  <2>5. QED BY <2>1, <2>3, <2>4 DEF IdleInv
<1>7. CASE ToolAnnounce
  <2>1. /\ Free /\ live \subseteq refilled' /\ UNCHANGED <<day, live, counters, announcing, taken>>
    BY <1>7 DEF ToolAnnounce
  <2>2. evicting' = {} /\ \A s \in Sessions : ~InTurn(s)'
    BY <2>1 DEF Free, evicting, InTurn
  <2>3. ASSUME NEW s \in live PROVE CountersTell(s)'
    BY <1>0, <1>1, <2>1, <2>2 DEF IdleInv, CountersTell, counters
  <2>4. QED BY <2>1, <2>2, <2>3 DEF IdleInv
<1>8. ASSUME NEW s \in Sessions, NEW d \in Descriptions, NewKey(s, d)
      PROVE  IdleInv' /\ evicting' = {}
  <2>1. /\ Free /\ login[s].stage = "none" /\ live' = live \cup {s}
        /\ UNCHANGED <<day, channel, lastLen, announcing, refilled>>
        /\ lastDecrease'[s] = day /\ taken'[s] = day
        /\ \A r \in Sessions \ {s} : lastDecrease'[r] = lastDecrease[r] /\ taken'[r] = taken[r]
    BY <1>0, <1>8 DEF NewKey, SessionTypes
  <2>2. evicting' = {} /\ \A r \in Sessions : ~InTurn(r)'
    BY <2>1 DEF Free, evicting, InTurn
  <2>3. channel[s] = <<>> /\ lastLen[s] = 0
    BY <2>1 DEF Base, Unissued
  <2>4. CountersTell(s)'
    <3>1. Len(channel'[s]) = 0 /\ lastLen'[s] = 0
      BY <2>1, <2>3, EmptySeq
    <3>2. QED BY <1>0, <2>1, <2>2, <3>1 DEF CountersTell
  <2>5. ASSUME NEW r \in live \ {s} PROVE CountersTell(r)'
    <3>1. CountersTell(r) /\ ~InTurn(r) /\ ~InTurn(r)' /\ r \in Sessions
      BY <1>0, <1>1, <2>1, <2>2 DEF IdleInv
    <3>2. QED BY <2>1, <3>1 DEF CountersTell
  <2>6. QED BY <2>1, <2>2, <2>4, <2>5 DEF IdleInv
<1>9. ASSUME NEW t \in Streams, Receive(t)
      PROVE  IdleInv' /\ evicting' = evicting
  <2> DEFINE s == stream[t].session
  <2>1. /\ s \in Sessions /\ channel[s] # <<>> /\ channel[s] \in Seq(Updates)
        /\ channel'[s] = Tail(channel[s]) /\ taken'[s] = day
        /\ \A r \in Sessions \ {s} : channel'[r] = channel[r] /\ taken'[r] = taken[r]
        /\ UNCHANGED <<day, live, counters, announcing, refilled>>
    BY <1>0, <1>9 DEF Receive, SessionTypes, Base, TypeOK, StreamTypes, StreamStates, Places, Placed
  <2> HIDE DEF s
  <2>2. Len(channel'[s]) = Len(channel[s]) - 1
    BY <2>1, HeadAndTail
  <2>3. evicting' = evicting /\ \A r \in Sessions : InTurn(r)' <=> InTurn(r)
    BY <2>1 DEF evicting, InTurn
  <2>4. ASSUME NEW r \in live \ evicting PROVE CountersTell(r)'
    <3>1. CountersTell(r) /\ r \in Sessions
      BY <1>0, <2>4 DEF IdleInv
    <3>2. CASE r = s
      <4>1. /\ taken'[r] <= day' /\ lastDecrease'[r] <= day'
            /\ InTurn(r)' => lastDecrease'[r] = day'
        BY <1>0, <2>1, <2>3, <3>1, <3>2 DEF CountersTell, counters
      <4>2. ASSUME r \notin refilled, ~InTurn(r)
            PROVE  Len(channel'[r]) < lastLen'[r]
        <5>1. Len(channel[r]) <= lastLen[r]
          BY <3>1, <4>2 DEF CountersTell
        <5>2. lastLen'[r] = lastLen[r] /\ Len(channel'[r]) = Len(channel[r]) - 1
          BY <2>1, <2>2, <3>2 DEF counters
        <5>3. QED BY <1>0, <3>1, <5>1, <5>2
      <4>3. /\ r \notin refilled' /\ ~InTurn(r)' => Len(channel'[r]) < lastLen'[r]
            /\ Len(channel'[r]) \in Int /\ lastLen'[r] \in Int
        BY <1>0, <2>1, <2>2, <2>3, <3>1, <3>2, <4>2 DEF counters
      <4>4. QED BY <4>1, <4>3 DEF CountersTell
    <3>3. CASE r # s
      BY <2>1, <2>3, <3>1, <3>3 DEF CountersTell, counters
    <3>4. QED BY <3>2, <3>3
  <2>5. QED BY <2>1, <2>3, <2>4 DEF IdleInv
<1>10. ASSUME NEW requester \in Sessions \cup {Local}, Announce(requester)
       PROVE  IdleInv' /\ evicting' = {}
  BY <1>4, <1>10 DEF Announce, history
<1>11. ASSUME NEW s \in Sessions, AddDevice(s)
       PROVE  IdleInv' /\ evicting' = {}
  BY <1>4, <1>11 DEF AddDevice, history
<1>12. ASSUME NEW s \in Sessions, Send(s)
       PROVE  IdleInv' /\ \A r \in evicting' \ evicting : r \in refilled \/ day - taken[r] > QuietDays
  BY <1>12, SendIdle
<1>13. QED
  BY <1>2, <1>3, <1>5, <1>6, <1>7, <1>8, <1>9, <1>10, <1>11, <1>12, OnlyTheseCount

\* A session is evicted (handle_add_request and the others) only if no stream took
\* an update of it for the quiet time, or if a tool request refilled its channel:
\* a length that is the one noted cannot hide a reception, though the length is
\* read again after the send, when a stream may have taken the update.
THEOREM EvictedSessionsWereIdle == Spec => EvictedWasIdle
<1>1. Init => IdleInv
  BY DEF Init, IdleInv
<1>2. Base /\ IdleInv /\ [Next]_vars => IdleInv'
  BY IdleStep
<1>3. Base /\ IdleInv /\ [Next]_vars =>
        [\A s \in evicting' \ evicting : s \in refilled \/ day - taken[s] > QuietDays]_vars
  BY IdleStep
<1>4. QED BY <1>1, <1>2, <1>3, BaseAlways, PTL DEF Spec, EvictedWasIdle

-----------------------------------------------------------------------------
(* Conservation.  Where the updates of a session are, in the form the steps  *)
(* change it: the session's, each stream's, and that two streams of one      *)
(* session have nothing in common.                                           *)

Has(t) == Elements(Carried(t)) \cup dropped[t]

Whole(s) ==
  /\ \A n : n \in Elements(told[s]) <=>
       n \in Elements(channel[s]) \/ \E t \in Streams : stream[t].session = s /\ n \in Has(t)
  /\ Ascending(channel[s])
  /\ (\A t \in Streams : stream[t].session # s) => channel[s] = told[s]

Own(t, s) ==
  /\ Ascending(Carried(t) \o channel[s])
  /\ Has(t) \cap Elements(channel[s]) = {}
  /\ Elements(Carried(t)) \cap dropped[t] = {}
  /\ IsFiniteSet(dropped[t]) /\ Cardinality(dropped[t]) <= BufferSize + 1
  /\ stream[t].stage # "left" => Cardinality(dropped[t]) <= BufferSize

Alone(t, s) ==
  ~Gone(t) /\ (\A u \in Streams \ {t} : stream[u].session # s) =>
    Carried(t) \o channel[s] = told[s]

Part(t) == \A s \in Sessions : stream[t].session = s => Own(t, s) /\ Alone(t, s)

Separate(t, u) ==
  t # u /\ stream[t].session \in Sessions /\ stream[t].session = stream[u].session =>
    Has(t) \cap Has(u) = {}

Conserved ==
  /\ \A s \in Sessions : Whole(s)
  /\ \A t \in Streams : Part(t)
  /\ \A t, u \in Streams : Separate(t, u)

LEMMA CarriedTypes ==
  ASSUME Base, NEW t \in Streams
  PROVE  /\ got[t] \in Seq(Updates) /\ buffer[t] \in Seq(Updates) /\ Hand(t) \in Seq(Updates)
         /\ got[t] \o buffer[t] \in Seq(Updates) /\ Carried(t) \in Seq(Updates)
         /\ Elements(Carried(t)) = Elements(got[t]) \cup Elements(buffer[t]) \cup Elements(Hand(t))
         /\ stream[t].hand \in Updates \cup {None} /\ dropped[t] \subseteq Updates
         /\ Len(buffer[t]) <= BufferSize
         /\ Elements(Hand(t)) = {stream[t].hand} \ {None}
<1>1. /\ got[t] \in Seq(Updates) /\ buffer[t] \in Seq(Updates)
      /\ stream[t].hand \in Updates \cup {None} /\ dropped[t] \subseteq Updates
      /\ Len(buffer[t]) <= BufferSize
  BY DEF Base, TypeOK, StreamTypes, StreamStates
<1>2. /\ Hand(t) \in Seq(Updates) /\ Elements(Hand(t)) = {stream[t].hand} \ {None}
  <2>1. CASE stream[t].hand = None
    <3>1. Hand(t) = <<>> /\ Elements(<<>>) = {}
      BY <2>1, ElementsEmpty DEF Hand
    <3>2. QED BY <2>1, <3>1
  <2>2. CASE stream[t].hand # None
    <3>1. Hand(t) = <<stream[t].hand>> /\ stream[t].hand \in Updates
      BY <1>1, <2>2 DEF Hand
    <3>2. Elements(<<stream[t].hand>>) = {stream[t].hand}
      BY ElementsSingle
    <3>3. QED BY <2>2, <3>1, <3>2
  <2>3. QED BY <2>1, <2>2
<1>3. /\ got[t] \o buffer[t] \in Seq(Updates)
      /\ Elements(got[t] \o buffer[t]) = Elements(got[t]) \cup Elements(buffer[t])
  BY <1>1, ElementsOfConcat
<1>4. /\ (got[t] \o buffer[t]) \o Hand(t) \in Seq(Updates)
      /\ Elements((got[t] \o buffer[t]) \o Hand(t))
           = Elements(got[t] \o buffer[t]) \cup Elements(Hand(t))
  <2>1. ASSUME NEW x \in Seq(Updates), NEW y \in Seq(Updates)
        PROVE  x \o y \in Seq(Updates) /\ Elements(x \o y) = Elements(x) \cup Elements(y)
    BY ElementsOfConcat
  <2>2. QED BY <1>2, <1>3, <2>1
<1>5. QED BY <1>1, <1>2, <1>3, <1>4 DEF Carried

LEMMA UpdatesAreNat == Updates \subseteq Nat
BY SessionsAssumption DEF Updates

\* The order among the parts of a stream and the channel it takes from.
LEMMA PartsAscend ==
  ASSUME Base, NEW t \in Streams, NEW c \in Seq(Updates)
  PROVE  Ascending(Carried(t) \o c) <=>
           /\ Ascending(got[t]) /\ Ascending(buffer[t]) /\ Ascending(Hand(t)) /\ Ascending(c)
           /\ \A a \in Elements(got[t]), b \in Elements(buffer[t]) : a < b
           /\ \A a \in Elements(got[t]) \cup Elements(buffer[t]), b \in Elements(Hand(t)) : a < b
           /\ \A a \in Elements(Carried(t)), b \in Elements(c) : a < b
<1> DEFINE g == got[t]
           b == buffer[t]
           h == Hand(t)
<1>1. /\ g \in Seq(Updates) /\ b \in Seq(Updates) /\ h \in Seq(Updates)
      /\ g \o b \in Seq(Updates) /\ Carried(t) \in Seq(Updates) /\ Carried(t) = (g \o b) \o h
  BY CarriedTypes DEF Carried
<1> HIDE DEF g, b, h
<1>2. Elements(g \o b) = Elements(g) \cup Elements(b)
  BY <1>1, ElementsOfConcat
<1>3. Ascending(g \o b) <=> /\ Ascending(g) /\ Ascending(b)
                            /\ \A x \in Elements(g), y \in Elements(b) : x < y
  BY <1>1, UpdatesAreNat, AscendingConcat
<1>4. Ascending((g \o b) \o h) <=> /\ Ascending(g \o b) /\ Ascending(h)
                                   /\ \A x \in Elements(g \o b), y \in Elements(h) : x < y
  BY <1>1, UpdatesAreNat, AscendingConcat
<1>5. Ascending(Carried(t) \o c) <=> /\ Ascending(Carried(t)) /\ Ascending(c)
                                     /\ \A x \in Elements(Carried(t)), y \in Elements(c) : x < y
  BY <1>1, UpdatesAreNat, AscendingConcat
<1>6. QED BY <1>1, <1>2, <1>3, <1>4, <1>5 DEF g, b, h

\* A step that moves what a stream has within the stream, or has it dropped.
LEMMA KeepsAll ==
  ASSUME Conserved, UNCHANGED <<channel, told>>,
         \A t \in Streams :
           /\ stream'[t].session = stream[t].session /\ Has(t)' = Has(t)
           /\ \/ /\ Carried(t)' = Carried(t) /\ dropped'[t] = dropped[t]
                 /\ Gone(t)' <=> Gone(t)
                 /\ stream[t].stage = "left" => stream'[t].stage = "left"
              \/ /\ Gone(t)'
                 /\ \A s \in Sessions : stream[t].session = s => Own(t, s)'
  PROVE  Conserved'
<1>1. ASSUME NEW s \in Sessions PROVE Whole(s)'
  <2>1. Whole(s)
    BY DEF Conserved
  <2>2. QED BY <2>1 DEF Whole
<1>2. ASSUME NEW t \in Streams, NEW s \in Sessions, stream'[t].session = s
      PROVE  Own(t, s)' /\ Alone(t, s)'
  <2>1. Own(t, s) /\ Alone(t, s) /\ stream[t].session = s
    BY <1>2 DEF Conserved, Part
  <2>2. CASE Gone(t)' /\ Own(t, s)'
    BY <2>2 DEF Alone
  <2>3. CASE /\ Carried(t)' = Carried(t) /\ dropped'[t] = dropped[t] /\ Gone(t)' <=> Gone(t)
             /\ stream[t].stage = "left" => stream'[t].stage = "left"
    <3>1. Own(t, s)'
      BY <2>1, <2>3 DEF Own, Has
    <3>2. Alone(t, s)'
      BY <2>1, <2>3 DEF Alone
    <3>3. QED BY <3>1, <3>2
  <2>4. QED BY <2>1, <2>2, <2>3
<1>3. \A t, u \in Streams : Separate(t, u)'
  BY DEF Conserved, Separate
<1>4. QED BY <1>1, <1>2, <1>3 DEF Conserved, Part

\* Some sessions are told an update later than all they were told.
LEMMA Tells ==
  ASSUME Base, Conserved, NEW e \in Updates, NEW T \in SUBSET Sessions,
         UNCHANGED <<stream, buffer, got, dropped>>,
         \A s \in Sessions \ T : channel'[s] = channel[s] /\ told'[s] = told[s],
         \A s \in T : /\ channel'[s] = Append(channel[s], e)
                      /\ told'[s] = Append(told[s], e)
                      /\ \A n \in Elements(told[s]) : n < e
  PROVE  Conserved'
<1>1. \A t \in Streams : Has(t)' = Has(t) /\ Carried(t)' = Carried(t) /\ Gone(t)' = Gone(t)
  BY DEF Has, Carried, Hand, Gone
<1>2. ASSUME NEW s \in T
      PROVE  /\ channel[s] \in Seq(Updates) /\ told[s] \in Seq(Updates)
             /\ <<e>> \in Seq(Updates) /\ channel'[s] = channel[s] \o <<e>>
             /\ channel'[s] \in Seq(Updates) /\ told'[s] = told[s] \o <<e>>
             /\ Elements(channel'[s]) = Elements(channel[s]) \cup {e}
             /\ Elements(told'[s]) = Elements(told[s]) \cup {e}
  <2>1. channel[s] \in Seq(Updates) /\ told[s] \in Seq(Updates)
    BY DEF Base, TypeOK, SessionTypes
  <2>2. ASSUME NEW x \in Seq(Updates)
        PROVE  /\ Append(x, e) \in Seq(Updates) /\ <<e>> \in Seq(Updates)
               /\ Append(x, e) = x \o <<e>> /\ Elements(Append(x, e)) = Elements(x) \cup {e}
    BY AppendedElements
  <2>3. QED BY <2>1, <2>2
<1>3. ASSUME NEW s \in Sessions
      PROVE  /\ Whole(s) /\ \A n \in Elements(channel[s]) : n \in Elements(told[s])
             /\ \A t \in Streams : stream[t].session = s =>
                  \A n \in Has(t) : n \in Elements(told[s])
  BY DEF Conserved, Whole
<1>4. ASSUME NEW s \in Sessions PROVE Whole(s)'
  <2>1. CASE s \notin T
    BY <1>1, <1>3, <2>1 DEF Whole
  <2>2. CASE s \in T
    <3>1. Ascending(channel'[s])
      <4>1. \A a \in Elements(channel[s]), b \in Elements(<<e>>) : a < b
        BY <1>3, <2>2, ElementsSingle
      <4>2. Ascending(channel[s]) /\ Ascending(<<e>>)
        BY <1>3, ElementsSingle DEF Whole
      <4>3. channel[s] \in Seq(Updates) /\ <<e>> \in Seq(Updates) /\ channel'[s] = channel[s] \o <<e>>
        BY <1>2, <2>2
      <4>4. Ascending(channel[s] \o <<e>>)
        BY <4>1, <4>2, <4>3, UpdatesAreNat, AscendingConcat
      <4>5. QED BY <4>3, <4>4
    <3>2. \A n : n \in Elements(told'[s]) <=>
            n \in Elements(channel'[s]) \/ \E t \in Streams : stream[t].session = s /\ n \in Has(t)
      <4>1. /\ Elements(channel'[s]) = Elements(channel[s]) \cup {e}
            /\ Elements(told'[s]) = Elements(told[s]) \cup {e}
        BY <1>2, <2>2
      <4>2. \A n : n \in Elements(told[s]) <=>
              n \in Elements(channel[s]) \/ \E t \in Streams : stream[t].session = s /\ n \in Has(t)
        BY <1>3 DEF Whole
      <4>3. QED BY <4>1, <4>2
    <3>3. (\A t \in Streams : stream[t].session # s) => channel'[s] = told'[s]
      BY <1>3, <2>2 DEF Whole
    <3>4. QED BY <1>1, <3>1, <3>2, <3>3 DEF Whole
  <2>3. QED BY <2>1, <2>2
<1>5. ASSUME NEW t \in Streams, NEW s \in Sessions, stream[t].session = s
      PROVE  Own(t, s)' /\ Alone(t, s)'
  <2>1. Own(t, s) /\ Alone(t, s) /\ Carried(t) \in Seq(Updates) /\ channel[s] \in Seq(Updates)
    BY <1>5, CarriedTypes DEF Conserved, Part, Base, TypeOK, SessionTypes
  <2>2. CASE s \notin T
    <3>1. Own(t, s)'
      BY <1>1, <2>1, <2>2 DEF Own
    <3>2. Alone(t, s)'
      BY <1>1, <2>1, <2>2 DEF Alone
    <3>3. QED BY <3>1, <3>2
  <2>3. CASE s \in T
    <3>1. /\ channel'[s] \in Seq(Updates) /\ channel'[s] = channel[s] \o <<e>>
          /\ <<e>> \in Seq(Updates)
          /\ Elements(channel'[s]) = Elements(channel[s]) \cup {e}
          /\ told'[s] = told[s] \o <<e>>
      BY <1>2, <2>3
    <3>2. (Carried(t) \o channel[s]) \o <<e>> = Carried(t) \o channel'[s]
      <4>1. ASSUME NEW x \in Seq(Updates), NEW y \in Seq(Updates), NEW z \in Seq(Updates)
            PROVE  (x \o y) \o z = x \o (y \o z)
        BY ConcatAssociative
      <4> DEFINE one == <<e>>
      <4>2. one \in Seq(Updates) /\ channel'[s] = channel[s] \o one
        BY <3>1
      <4> HIDE DEF one
      <4>3. (Carried(t) \o channel[s]) \o one = Carried(t) \o channel'[s]
        <5>1. (Carried(t) \o channel[s]) \o one = Carried(t) \o (channel[s] \o one)
          BY <2>1, <4>1, <4>2, Zenon
        <5>2. QED BY <4>2, <5>1, Zenon
      <4>4. QED BY <4>3 DEF one
    <3>3. \A n \in Has(t) : n < e
      BY <1>3, <1>5, <2>3
    <3>4. e \in Nat /\ e \notin Has(t)
      BY <3>3, UpdatesAreNat
    <3>5. Ascending(Carried(t) \o channel'[s])
      <4>1. /\ Ascending(Carried(t)) /\ Ascending(channel[s])
            /\ \A a \in Elements(Carried(t)), b \in Elements(channel[s]) : a < b
        BY <2>1, UpdatesAreNat, AscendingConcat DEF Own
      <4>2. Ascending(channel'[s])
        BY <1>4 DEF Whole
      <4>3. \A a \in Elements(Carried(t)), b \in Elements(channel'[s]) : a < b
        BY <3>1, <3>3, <4>1 DEF Has
      <4>4. QED BY <2>1, <3>1, <4>1, <4>2, <4>3, UpdatesAreNat, AscendingConcat
    <3>6. Own(t, s)'
      BY <1>1, <2>1, <3>1, <3>4, <3>5 DEF Own
    <3>7. Alone(t, s)'
      <4>1. ASSUME ~Gone(t), \A u \in Streams \ {t} : stream[u].session # s
            PROVE  Carried(t) \o channel'[s] = told'[s]
        BY <2>1, <3>1, <3>2, <4>1 DEF Alone
      <4>2. QED BY <1>1, <4>1 DEF Alone
    <3>8. QED BY <3>6, <3>7
  <2>4. QED BY <2>2, <2>3
<1>6. \A t, u \in Streams : Separate(t, u)'
  BY <1>1 DEF Conserved, Separate
<1>7. QED BY <1>4, <1>5, <1>6 DEF Conserved, Part

LEMMA AskConserves ==
  ASSUME Base, Conserved, NEW t \in Streams, NEW s \in Sessions, AskStream(t, s)
  PROVE  Conserved'
<1>1. /\ stream[t].stage = "unused" /\ stream[t].session = None /\ stream[t].hand = None
      /\ got[t] = <<>> /\ buffer[t] = <<>> /\ dropped[t] = {}
  BY DEF AskStream, Base, Places, Placed, Gone
<1>2. /\ UNCHANGED <<channel, told, got, buffer, dropped>>
      /\ stream'[t] = [stage |-> "asked", session |-> s, hand |-> None]
      /\ \A u \in Streams \ {t} : stream'[u] = stream[u]
      /\ \A r \in Sessions : r # None
  BY SessionsAssumption DEF AskStream, history, Base, TypeOK, StreamTypes
<1>3. \A u \in Streams \ {t} : Has(u)' = Has(u) /\ Carried(u)' = Carried(u) /\ Gone(u)' = Gone(u)
  BY <1>2 DEF Has, Carried, Hand, Gone
<1>4. /\ Carried(t) = <<>> /\ Carried(t)' = <<>>
      /\ Has(t) = {} /\ Has(t)' = {} /\ Elements(Carried(t))' = {}
  <2>1. <<>> \o <<>> \o <<>> = <<>>
    OBVIOUS
  <2>2. Carried(t) = <<>> /\ Carried(t)' = <<>>
    BY <1>1, <1>2, <2>1 DEF Carried, Hand
  <2>3. QED BY <1>1, <1>2, <2>2, ElementsEmpty DEF Has
<1>5. ASSUME NEW r \in Sessions PROVE Whole(r)'
  <2>1. Whole(r)
    BY DEF Conserved
  <2>2. \A n : (\E u \in Streams : stream'[u].session = r /\ n \in Has(u)') <=>
               (\E u \in Streams : stream[u].session = r /\ n \in Has(u))
    BY <1>2, <1>3, <1>4
  <2>3. (\A u \in Streams : stream'[u].session # r) => \A u \in Streams : stream[u].session # r
    BY <1>1, <1>2
  <2>4. QED BY <1>2, <2>1, <2>2, <2>3 DEF Whole
<1>6. Own(t, s)' /\ Alone(t, s)'
  <2>1. /\ channel[s] \in Seq(Updates) /\ Whole(s)
        /\ <<>> \o channel[s] = channel[s]
    BY ConcatEmptySeq DEF Base, TypeOK, SessionTypes, Conserved
  <2>2. Ascending(Carried(t)' \o channel'[s])
    BY <1>2, <1>4, <2>1 DEF Whole
  <2>3. IsFiniteSet({}) /\ Cardinality({}) = 0 /\ BufferSize \in Nat
    BY FS_EmptySet, SessionsAssumption
  <2>4. Own(t, s)'
    <3>1. Has(t)' \cap Elements(channel'[s]) = {} /\ Elements(Carried(t))' \cap dropped'[t] = {}
      BY <1>4
    <3>2. IsFiniteSet(dropped'[t]) /\ Cardinality(dropped'[t]) = 0
      BY <1>1, <1>2, <2>3
    <3>3. 0 <= BufferSize /\ 0 <= BufferSize + 1
      BY <2>3
    <3>4. QED BY <2>2, <3>1, <3>2, <3>3 DEF Own
  <2>5. ASSUME \A u \in Streams \ {t} : stream'[u].session # s
        PROVE  channel[s] = told[s]
    BY <1>1, <1>2, <2>1, <2>5 DEF Whole
  <2>6. Alone(t, s)'
    BY <1>2, <1>4, <2>1, <2>5 DEF Alone
  <2>7. QED BY <2>4, <2>6
<1>7. ASSUME NEW u \in Streams \ {t}, NEW r \in Sessions, stream'[u].session = r
      PROVE  Own(u, r)' /\ Alone(u, r)'
  <2>1. Own(u, r) /\ Alone(u, r)
    BY <1>2, <1>7 DEF Conserved, Part
  <2>2. Own(u, r)'
    BY <1>2, <1>3, <2>1 DEF Own
  <2>3. ASSUME \A v \in Streams \ {u} : stream'[v].session # r
        PROVE  \A v \in Streams \ {u} : stream[v].session # r
    BY <1>1, <1>2, <2>3
  <2>4. Alone(u, r)'
    BY <1>2, <1>3, <2>1, <2>3 DEF Alone
  <2>5. QED BY <2>2, <2>4
<1>8. ASSUME NEW u \in Streams, NEW r \in Sessions, stream'[u].session = r
      PROVE  Own(u, r)' /\ Alone(u, r)'
  BY <1>2, <1>6, <1>7, <1>8
<1>9. \A u, v \in Streams : Separate(u, v)'
  BY <1>2, <1>3, <1>4 DEF Conserved, Separate
<1>10. QED BY <1>5, <1>8, <1>9 DEF Conserved, Part

LEMMA ReceiveConserves ==
  ASSUME Base, Conserved, NEW t \in Streams, Receive(t)
  PROVE  Conserved'
<1>0. PICK s \in Sessions : s = stream[t].session
  BY SessionsAssumption DEF Receive, Base, TypeOK, StreamTypes, StreamStates, Places, Placed
<1>h. PICK h : h = Head(channel[s])
  OBVIOUS
<1>c. PICK c : c = Tail(channel[s])
  OBVIOUS
<1>1. /\ stream[t].stage \in {"receiving", "broken"} /\ stream[t].hand = None /\ s \in Sessions
      /\ channel[s] # <<>> /\ channel[s] \in Seq(Updates)
  BY <1>0 DEF Receive, Base, TypeOK, StreamTypes, StreamStates, SessionTypes, Places, Placed
<1>2. /\ UNCHANGED <<told, got, buffer, dropped>>
      /\ stream'[t].session = s /\ stream'[t].hand = h
      /\ stream'[t].stage = IF stream[t].stage = "receiving" THEN "sending" ELSE "breaking"
      /\ \A u \in Streams \ {t} : stream'[u] = stream[u]
      /\ channel'[s] = c /\ \A r \in Sessions \ {s} : channel'[r] = channel[r]
  BY <1>0, <1>h, <1>c, <1>1 DEF Receive, Taken, Base, TypeOK, StreamTypes, StreamStates, SessionTypes
<1>3. /\ h \in Updates /\ c \in Seq(Updates) /\ <<h>> \in Seq(Updates)
      /\ channel[s] = <<h>> \o c /\ Elements(channel[s]) = {h} \cup Elements(c)
      /\ h # None
  BY <1>h, <1>c, <1>1, HeadAndTail, UpdatesAreNat, SessionsAssumption
<1>o. PICK one : one = <<h>>
  OBVIOUS
<1>4. Elements(one) = {h}
  BY <1>o, ElementsSingle
<1>5. Hand(t) = <<>> /\ Hand(t)' = one
  BY <1>o, <1>1, <1>2, <1>3 DEF Hand
<1>6. one \in Seq(Updates) /\ channel[s] = one \o c
  BY <1>o, <1>3
<1>7. \A u \in Streams \ {t} : /\ Has(u)' = Has(u) /\ Carried(u)' = Carried(u)
                               /\ Gone(u)' = Gone(u) /\ stream'[u].stage = stream[u].stage
  BY <1>2 DEF Has, Carried, Hand, Gone
<1>8. /\ Carried(t) \in Seq(Updates) /\ Carried(t)' = Carried(t) \o one
      /\ Carried(t)' \o c = Carried(t) \o channel[s]
      /\ Elements(Carried(t)') = Elements(Carried(t)) \cup {h}
      /\ Has(t)' = Has(t) \cup {h}
  <2>1. got[t] \o buffer[t] \in Seq(Updates) /\ Carried(t) \in Seq(Updates)
    BY CarriedTypes
  <2>2. Carried(t) = got[t] \o buffer[t]
    <3>1. (got[t] \o buffer[t]) \o <<>> = got[t] \o buffer[t]
      BY <2>1, ConcatEmptySeq
    <3>2. QED BY <1>5, <3>1 DEF Carried
  <2>3. Carried(t)' = Carried(t) \o one
    BY <1>2, <1>5, <2>2 DEF Carried
  <2>4. (Carried(t) \o one) \o c = Carried(t) \o (one \o c)
    <3>1. ASSUME NEW x \in Seq(Updates), NEW y \in Seq(Updates), NEW z \in Seq(Updates)
          PROVE  (x \o y) \o z = x \o (y \o z)
      BY ConcatAssociative
    <3>2. QED BY <1>3, <1>6, <2>1, <3>1, Zenon
  <2>5. Elements(Carried(t) \o one) = Elements(Carried(t)) \cup Elements(one)
    BY <1>6, <2>1, ElementsOfConcat, Zenon
  <2>6. Elements(Carried(t)') = Elements(Carried(t)) \cup {h}
    BY <1>4, <2>3, <2>5
  <2>7. Carried(t)' \o c = Carried(t) \o channel[s]
    BY <1>6, <2>3, <2>4, Zenon
  <2>8. Has(t)' = Has(t) \cup {h}
    BY <1>2, <2>6 DEF Has
  <2>9. QED BY <2>1, <2>3, <2>6, <2>7, <2>8
<1>9. Whole(s) /\ Ascending(c) /\ \A e \in Elements(c) : h < e
  <2>1. Whole(s) /\ Ascending(one \o c)
    BY <1>1, <1>6 DEF Conserved, Whole
  <2>2. Ascending(c) /\ \A a \in Elements(one), b \in Elements(c) : a < b
    BY <1>3, <1>6, <2>1, UpdatesAreNat, AscendingConcat
  <2>3. QED BY <1>4, <2>1, <2>2
<1>10. h \notin Elements(c) /\ h \in Elements(channel[s])
  BY <1>3, <1>9, UpdatesAreNat
<1>11. ASSUME NEW r \in Sessions PROVE Whole(r)'
  <2>1. Whole(r)
    BY DEF Conserved
  <2>2. CASE r = s
    <3>1. \A n : (\E u \in Streams : stream'[u].session = s /\ n \in Has(u)') <=>
                 n = h \/ (\E u \in Streams : stream[u].session = s /\ n \in Has(u))
      <4>1. stream[t].session = s
        BY <1>0
      <4>2. QED BY <1>2, <1>7, <1>8, <4>1
    <3>2. \A n : n \in Elements(channel[s]) <=> n = h \/ n \in Elements(c)
      BY <1>3
    <3>3. \A n : n \in Elements(told[s]) <=>
            n \in Elements(channel[s]) \/ \E u \in Streams : stream[u].session = s /\ n \in Has(u)
      BY <2>1, <2>2 DEF Whole
    <3>4. \A n : n \in Elements(told[s]) <=>
            n \in Elements(c) \/ \E u \in Streams : stream'[u].session = s /\ n \in Has(u)'
      BY <3>1, <3>2, <3>3
    <3>5. stream'[t].session = s
      BY <1>2
    <3>6. QED BY <1>2, <1>9, <2>2, <3>4, <3>5 DEF Whole
  <2>3. CASE r # s
    <3>1. \A n : (\E u \in Streams : stream'[u].session = r /\ n \in Has(u)') <=>
                 (\E u \in Streams : stream[u].session = r /\ n \in Has(u))
      <4>1. stream[t].session # r /\ stream'[t].session # r
        BY <1>0, <1>2, <2>3
      <4>2. QED BY <1>2, <1>7, <4>1
    <3>2. (\A u \in Streams : stream'[u].session # r) => \A u \in Streams : stream[u].session # r
      BY <1>0, <1>2, <2>3
    <3>3. QED BY <1>2, <2>1, <2>3, <3>1, <3>2 DEF Whole
  <2>4. QED BY <2>2, <2>3
<1>12. Own(t, s) /\ Alone(t, s)
  BY <1>0, <1>1 DEF Conserved, Part
<1>13. Own(t, s)' /\ Alone(t, s)'
  <2>1. Own(t, s)'
    <3>1. stream[t].stage # "left" /\ stream'[t].stage # "left"
      BY <1>1, <1>2
    <3>2. Has(t)' \cap Elements(c) = {}
      BY <1>3, <1>8, <1>10, <1>12 DEF Own
    <3>3. Elements(Carried(t)') \cap dropped[t] = {}
      BY <1>8, <1>10, <1>12 DEF Own, Has
    <3>4. Ascending(Carried(t)' \o channel'[s])
      BY <1>2, <1>8, <1>12 DEF Own
    <3>5. QED BY <1>2, <1>12, <3>1, <3>2, <3>3, <3>4 DEF Own
  <2>2. Alone(t, s)'
    <3>1. Gone(t)' <=> Gone(t)
      BY <1>1, <1>2 DEF Gone
    <3>2. (\A u \in Streams \ {t} : stream'[u].session # s) =>
            \A u \in Streams \ {t} : stream[u].session # s
      BY <1>2
    <3>3. Carried(t)' \o channel'[s] = Carried(t) \o channel[s]
      BY <1>2, <1>8
    <3>4. QED BY <1>2, <1>12, <3>1, <3>2, <3>3 DEF Alone
  <2>3. QED BY <2>1, <2>2
<1>14. ASSUME NEW u \in Streams \ {t}, NEW r \in Sessions, stream'[u].session = r
       PROVE  Own(u, r)' /\ Alone(u, r)'
  <2>1. Own(u, r) /\ Alone(u, r) /\ stream[u].session = r /\ Carried(u) \in Seq(Updates)
    BY <1>2, <1>14, CarriedTypes DEF Conserved, Part
  <2>2. CASE r = s
    <3>1. Ascending(Carried(u) \o c)
      <4>1. /\ Ascending(Carried(u))
            /\ \A a \in Elements(Carried(u)), b \in Elements(channel[s]) : a < b
        BY <1>0, <1>1, <2>1, <2>2, UpdatesAreNat, AscendingConcat DEF Own
      <4>2. \A a \in Elements(Carried(u)), b \in Elements(c) : a < b
        BY <1>3, <4>1
      <4>3. QED BY <1>3, <1>9, <2>1, <4>1, <4>2, UpdatesAreNat, AscendingConcat
    <3>2. Own(u, r)'
      <4>1. Has(u) \cap Elements(c) = {}
        BY <1>3, <2>1, <2>2 DEF Own
      <4>2. QED BY <1>2, <1>7, <2>1, <2>2, <3>1, <4>1 DEF Own
    <3>3. Alone(u, r)'
      BY <1>2, <2>2 DEF Alone
    <3>4. QED BY <3>2, <3>3
  <2>3. CASE r # s
    <3>1. Own(u, r)'
      BY <1>2, <1>7, <2>1, <2>3 DEF Own
    <3>2. Alone(u, r)'
      BY <1>0, <1>2, <1>7, <2>1, <2>3 DEF Alone
    <3>3. QED BY <3>1, <3>2
  <2>4. QED BY <2>2, <2>3
<1>15. ASSUME NEW u \in Streams, NEW r \in Sessions, stream'[u].session = r
       PROVE  Own(u, r)' /\ Alone(u, r)'
  <2>1. CASE u = t
    BY <1>2, <1>13, <1>15, <2>1
  <2>2. QED BY <1>14, <1>15, <2>1
<1>16. ASSUME NEW u \in Streams \ {t}, stream[u].session = s
       PROVE  h \notin Has(u)
  <2>1. Own(u, s)
    BY <1>0, <1>1, <1>16 DEF Conserved, Part
  <2>2. QED BY <1>10, <2>1 DEF Own
<1>17. ASSUME NEW u \in Streams, NEW v \in Streams PROVE Separate(u, v)'
  <2>1. Separate(u, v)
    BY DEF Conserved
  <2>2. stream'[u].session = stream[u].session /\ stream'[v].session = stream[v].session
    BY <1>0, <1>2
  <2>3. CASE u = t /\ v # t
    BY <1>0, <1>7, <1>8, <1>16, <2>1, <2>2, <2>3 DEF Separate
  <2>4. CASE v = t /\ u # t
    BY <1>0, <1>7, <1>8, <1>16, <2>1, <2>2, <2>4 DEF Separate
  <2>5. CASE u # t /\ v # t
    BY <1>7, <2>1, <2>2, <2>5 DEF Separate
  <2>6. QED BY <2>3, <2>4, <2>5 DEF Separate
<1>18. QED BY <1>11, <1>15, <1>17 DEF Conserved, Part

\* The other streams of a step of stream t.
LEMMA OthersKeep ==
  ASSUME NEW t \in Streams, NEW u \in Streams \ {t},
         stream'[u] = stream[u], buffer'[u] = buffer[u], got'[u] = got[u], dropped'[u] = dropped[u]
  PROVE  /\ stream'[u].session = stream[u].session /\ Has(u)' = Has(u)
         /\ Carried(u)' = Carried(u) /\ dropped'[u] = dropped[u] /\ Gone(u)' = Gone(u)
         /\ stream[u].stage = "left" => stream'[u].stage = "left"
BY DEF Has, Carried, Hand, Gone

LEMMA ForwardConserves ==
  ASSUME Base, Conserved, NEW t \in Streams, Forward(t)
  PROVE  Conserved'
<1>1. /\ stream[t].stage = "sending" /\ stream[t].hand \in Updates /\ stream[t].hand # None
      /\ UNCHANGED <<channel, told, got, dropped>>
      /\ stream'[t].session = stream[t].session /\ stream'[t].stage = "receiving"
      /\ stream'[t].hand = None /\ buffer'[t] = Append(buffer[t], stream[t].hand)
      /\ \A u \in Streams \ {t} : stream'[u] = stream[u] /\ buffer'[u] = buffer[u]
  BY DEF Forward, Base, TypeOK, StreamTypes, StreamStates, Places, Placed, history
<1>2. PICK one : one = <<stream[t].hand>>
  OBVIOUS
<1>3. /\ one \in Seq(Updates) /\ Append(buffer[t], stream[t].hand) = buffer[t] \o one
      /\ got[t] \in Seq(Updates) /\ buffer[t] \in Seq(Updates)
      /\ got[t] \o (buffer[t] \o one) \in Seq(Updates)
  <2>1. got[t] \in Seq(Updates) /\ buffer[t] \in Seq(Updates)
    BY CarriedTypes
  <2>2. one \in Seq(Updates) /\ Append(buffer[t], stream[t].hand) = buffer[t] \o one
    BY <1>1, <1>2, <2>1, AppendedElements
  <2>3. \A x, y \in Seq(Updates) : x \o y \in Seq(Updates)
    BY ConcatProperties
  <2>4. QED BY <2>1, <2>2, <2>3
<1>4. Carried(t)' = Carried(t)
  <2>1. Hand(t) = one /\ Hand(t)' = <<>>
    BY <1>1, <1>2 DEF Hand
  <2>2. Carried(t) = (got[t] \o buffer[t]) \o one
    BY <2>1 DEF Carried
  <2>3. Carried(t)' = (got[t] \o (buffer[t] \o one)) \o <<>>
    BY <1>1, <1>3, <2>1 DEF Carried
  <2>4. (got[t] \o (buffer[t] \o one)) \o <<>> = got[t] \o (buffer[t] \o one)
    BY <1>3, ConcatEmptySeq
  <2>5. (got[t] \o buffer[t]) \o one = got[t] \o (buffer[t] \o one)
    <3>1. ASSUME NEW x \in Seq(Updates), NEW y \in Seq(Updates), NEW z \in Seq(Updates)
          PROVE  (x \o y) \o z = x \o (y \o z)
      BY ConcatAssociative
    <3>2. QED BY <1>3, <3>1, Zenon
  <2>6. QED BY <2>2, <2>3, <2>4, <2>5, Zenon
<1>5. /\ Has(t)' = Has(t) /\ ~Gone(t) /\ ~Gone(t)' /\ dropped'[t] = dropped[t]
      /\ stream[t].stage # "left"
  BY <1>1, <1>4 DEF Has, Gone
<1>6. QED BY <1>1, <1>4, <1>5, OthersKeep, KeepsAll

LEMMA ReadConserves ==
  ASSUME Base, Conserved, NEW t \in Streams, Read(t)
  PROVE  Conserved'
<1>1. /\ UNCHANGED <<channel, told, stream, dropped>> /\ buffer[t] # <<>>
      /\ got[t] \in Seq(Updates) /\ buffer[t] \in Seq(Updates)
      /\ got'[t] = Append(got[t], Head(buffer[t])) /\ buffer'[t] = Tail(buffer[t])
      /\ \A u \in Streams \ {t} : got'[u] = got[u] /\ buffer'[u] = buffer[u]
  BY DEF Read, Base, TypeOK, StreamTypes, history
<1>2. PICK one : one = <<Head(buffer[t])>>
  OBVIOUS
<1>3. /\ Head(buffer[t]) \in Updates /\ Tail(buffer[t]) \in Seq(Updates)
      /\ one \in Seq(Updates) /\ buffer[t] = one \o Tail(buffer[t])
  BY <1>1, <1>2, HeadAndTail
<1>4. Append(got[t], Head(buffer[t])) = got[t] \o one
  BY <1>1, <1>2, <1>3, AppendedElements
<1>5. (got[t] \o one) \o Tail(buffer[t]) = got[t] \o buffer[t]
  <2>1. ASSUME NEW x \in Seq(Updates), NEW y \in Seq(Updates), NEW z \in Seq(Updates)
        PROVE  (x \o y) \o z = x \o (y \o z)
    BY ConcatAssociative
  <2>2. (got[t] \o one) \o Tail(buffer[t]) = got[t] \o (one \o Tail(buffer[t]))
    BY <1>1, <1>3, <2>1, Zenon
  <2>3. QED BY <1>3, <2>2, Zenon
<1>6. Hand(t)' = Hand(t) /\ Carried(t)' = (got[t] \o one) \o Tail(buffer[t]) \o Hand(t)
  BY <1>1, <1>4 DEF Carried, Hand
<1>7. Carried(t)' = Carried(t)
  BY <1>5, <1>6 DEF Carried
<1>8. Has(t)' = Has(t) /\ Gone(t)' = Gone(t)
  BY <1>1, <1>7 DEF Has, Gone
<1>9. QED BY <1>1, <1>7, <1>8, OthersKeep, KeepsAll

\* The order of the parts of a stream that loses some of them.
LEMMA OwnOrder ==
  ASSUME Base, NEW t \in Streams, NEW s \in Sessions, Own(t, s)
  PROVE  /\ Ascending(got[t]) /\ Ascending(Hand(t)) /\ Ascending(channel[s])
         /\ channel[s] \in Seq(Updates)
         /\ \A a \in Elements(got[t]), b \in Elements(buffer[t]) : a < b
         /\ \A a \in Elements(got[t]) \cup Elements(buffer[t]), b \in Elements(Hand(t)) : a < b
         /\ \A a \in Elements(got[t]) \cup Elements(Hand(t)), b \in Elements(channel[s]) : a < b
<1>1. channel[s] \in Seq(Updates)
  BY DEF Base, TypeOK, SessionTypes
<1>2. QED BY <1>1, PartsAscend, CarriedTypes DEF Own

LEMMA ForwardFailsConserves ==
  ASSUME Base, Conserved, NEW t \in Streams, ForwardFails(t)
  PROVE  Conserved'
<1>1. PICK hand \in Updates : hand = stream[t].hand /\ hand # None
  BY DEF ForwardFails, Base, TypeOK, StreamTypes, StreamStates, Places, Placed
<1>2. /\ stream[t].stage = "breaking" /\ buffer[t] = <<>>
      /\ UNCHANGED <<channel, told, got, buffer>>
      /\ stream'[t].session = stream[t].session /\ stream'[t].stage = "left"
      /\ stream'[t].hand = None /\ dropped'[t] = dropped[t] \cup {hand}
      /\ \A u \in Streams \ {t} : stream'[u] = stream[u] /\ dropped'[u] = dropped[u]
  BY <1>1 DEF ForwardFails, Base, TypeOK, StreamTypes, StreamStates, Places, Placed, Gone, history
<1>3. /\ got[t] \in Seq(Updates) /\ Elements(buffer[t]) = {} /\ Elements(Hand(t)) = {hand}
      /\ Elements(Carried(t)) = Elements(got[t]) \cup {hand}
  <2>1. Elements(buffer[t]) = {}
    BY <1>2, ElementsEmpty
  <2>2. QED BY <1>1, <2>1, CarriedTypes
<1>4. Carried(t)' = got[t]
  <2>1. Carried(t)' = (got[t] \o <<>>) \o <<>>
    BY <1>2 DEF Carried, Hand
  <2>2. got[t] \o <<>> = got[t]
    BY <1>3, ConcatEmptySeq
  <2>3. QED BY <2>1, <2>2
<1>5. Has(t)' = Has(t) /\ Gone(t)'
  BY <1>2, <1>3, <1>4 DEF Has, Gone
<1>6. ASSUME NEW s \in Sessions, stream[t].session = s
      PROVE  Own(t, s)'
  <2>1. Own(t, s)
    BY <1>6 DEF Conserved, Part
  <2>2. /\ Ascending(got[t]) /\ Ascending(channel[s]) /\ channel[s] \in Seq(Updates)
        /\ \A a \in Elements(got[t]), b \in Elements(Hand(t)) : a < b
        /\ \A a \in Elements(got[t]), b \in Elements(channel[s]) : a < b
    BY <2>1, OwnOrder
  <2>3. Ascending(got[t] \o channel[s])
    BY <1>3, <2>2, UpdatesAreNat, AscendingConcat
  <2>4. hand \notin Elements(got[t])
    <3>1. hand \in Elements(got[t]) => hand < hand
      BY <1>3, <2>2
    <3>2. QED BY <3>1, UpdatesAreNat
  <2>5. Elements(got[t]) \cap dropped'[t] = {}
    BY <1>2, <1>3, <2>1, <2>4 DEF Own
  <2>6. IsFiniteSet(dropped'[t]) /\ Cardinality(dropped'[t]) <= BufferSize + 1
    <3>1. IsFiniteSet(dropped[t]) /\ Cardinality(dropped[t]) <= BufferSize
      BY <1>2, <2>1 DEF Own
    <3>2. Cardinality(dropped[t]) \in Nat /\ BufferSize \in Nat
      BY <3>1, FS_CardinalityType, SessionsAssumption
    <3>3. /\ IsFiniteSet(dropped[t] \cup {hand})
          /\ Cardinality(dropped[t] \cup {hand}) <= Cardinality(dropped[t]) + 1
      BY <3>1, <3>2, FS_AddElement
    <3>4. Cardinality(dropped[t] \cup {hand}) \in Nat
      BY <3>3, FS_CardinalityType
    <3>5. QED BY <1>2, <3>1, <3>2, <3>3, <3>4
  <2>7. Has(t)' \cap Elements(channel'[s]) = {}
    BY <1>2, <1>5, <2>1 DEF Own
  <2>8. Ascending(Carried(t)' \o channel'[s]) /\ Elements(Carried(t)') \cap dropped'[t] = {}
    BY <1>2, <1>4, <2>3, <2>5
  <2>9. QED BY <1>2, <2>6, <2>7, <2>8 DEF Own
<1>7. QED BY <1>2, <1>5, <1>6, OthersKeep, KeepsAll

LEMMA DisconnectConserves ==
  ASSUME Base, Conserved, NEW t \in Streams, Disconnect(t)
  PROVE  Conserved'
<1>1. /\ ~Gone(t) /\ dropped[t] = {} /\ UNCHANGED <<channel, told, got>>
      /\ stream'[t].session = stream[t].session /\ stream'[t].stage \in {"broken", "breaking"}
      /\ stream'[t].hand = stream[t].hand /\ dropped'[t] = Elements(buffer[t])
      /\ buffer'[t] = <<>>
      /\ \A u \in Streams \ {t} :
           stream'[u] = stream[u] /\ dropped'[u] = dropped[u] /\ buffer'[u] = buffer[u]
  BY DEF Disconnect, Connected, Base, TypeOK, StreamTypes, StreamStates, Places, Placed, Gone,
         history, Elements
<1>2. /\ got[t] \in Seq(Updates) /\ buffer[t] \in Seq(Updates) /\ Hand(t) \in Seq(Updates)
      /\ Elements(Carried(t)) = Elements(got[t]) \cup Elements(buffer[t]) \cup Elements(Hand(t))
      /\ Len(buffer[t]) <= BufferSize
  BY CarriedTypes
<1>3. Carried(t)' = got[t] \o Hand(t)
  <2>1. Carried(t)' = (got[t] \o <<>>) \o Hand(t)
    BY <1>1 DEF Carried, Hand
  <2>2. got[t] \o <<>> = got[t]
    BY <1>2, ConcatEmptySeq
  <2>3. QED BY <2>1, <2>2
<1>4. /\ got[t] \o Hand(t) \in Seq(Updates)
      /\ Elements(got[t] \o Hand(t)) = Elements(got[t]) \cup Elements(Hand(t))
  BY <1>2, ElementsOfConcat
<1>5. Has(t)' = Has(t) /\ Gone(t)'
  <2>1. Gone(t)'
    BY <1>1 DEF Gone
  <2>2. Has(t)' = Elements(got[t]) \cup Elements(Hand(t)) \cup Elements(buffer[t])
    BY <1>1, <1>3, <1>4 DEF Has
  <2>3. QED BY <1>1, <1>2, <2>1, <2>2 DEF Has
<1>6. ASSUME NEW s \in Sessions, stream[t].session = s
      PROVE  Own(t, s)'
  <2>1. Own(t, s)
    BY <1>6 DEF Conserved, Part
  <2>2. /\ Ascending(got[t]) /\ Ascending(Hand(t)) /\ Ascending(channel[s])
        /\ channel[s] \in Seq(Updates)
        /\ \A a \in Elements(got[t]), b \in Elements(buffer[t]) : a < b
        /\ \A a \in Elements(got[t]) \cup Elements(buffer[t]), b \in Elements(Hand(t)) : a < b
        /\ \A a \in Elements(got[t]) \cup Elements(Hand(t)), b \in Elements(channel[s]) : a < b
    BY <2>1, OwnOrder
  <2>3. Ascending(got[t] \o Hand(t))
    BY <1>2, <2>2, UpdatesAreNat, AscendingConcat
  <2>4. Ascending((got[t] \o Hand(t)) \o channel[s])
    <3>1. \A a \in Elements(got[t] \o Hand(t)), b \in Elements(channel[s]) : a < b
      BY <1>4, <2>2
    <3>2. QED BY <1>4, <2>2, <2>3, <3>1, UpdatesAreNat, AscendingConcat
  <2>5. (Elements(got[t]) \cup Elements(Hand(t))) \cap Elements(buffer[t]) = {}
    <3>1. Elements(buffer[t]) \subseteq Updates
      BY <1>2, ElementsCounted
    <3>2. ASSUME NEW b \in Elements(buffer[t])
          PROVE  b \notin Elements(got[t]) /\ b \notin Elements(Hand(t))
      <4>1. b \in Nat
        BY <3>1, UpdatesAreNat
      <4>2. ~(b < b)
        BY <4>1
      <4>3. QED BY <2>2, <4>2
    <3>3. QED BY <3>2
  <2>6. /\ IsFiniteSet(dropped'[t]) /\ Cardinality(dropped'[t]) <= BufferSize
        /\ Cardinality(dropped'[t]) <= BufferSize + 1
    <3>1. /\ IsFiniteSet(Elements(buffer[t])) /\ Cardinality(Elements(buffer[t])) <= Len(buffer[t])
      BY <1>2, ElementsCounted
    <3>2. Cardinality(Elements(buffer[t])) \in Nat /\ BufferSize \in Nat /\ Len(buffer[t]) \in Nat
      BY <1>2, <3>1, FS_CardinalityType, LenProperties, SessionsAssumption
    <3>3. QED BY <1>1, <1>2, <3>1, <3>2
  <2>7. Has(t)' \cap Elements(channel'[s]) = {}
    BY <1>1, <1>5, <2>1 DEF Own
  <2>8. Ascending(Carried(t)' \o channel'[s]) /\ Elements(Carried(t)') \cap dropped'[t] = {}
    BY <1>1, <1>3, <1>4, <2>4, <2>5
  <2>9. QED BY <2>6, <2>7, <2>8 DEF Own
<1>7. QED BY <1>1, <1>5, <1>6, OthersKeep, KeepsAll

streamUpdates == <<channel, told, streamVars>>

LEMMA OnlyTheseMove ==
  ASSUME [Next]_vars
  PROVE  \/ UNCHANGED streamUpdates
         \/ \E s \in Sessions : Send(s)
         \/ ToolAnnounce
         \/ \E t \in Streams : \/ \E s \in Sessions : AskStream(t, s)
                               \/ OpenStream(t) \/ Receive(t) \/ EndStream(t) \/ Forward(t)
                               \/ ForwardFails(t) \/ Read(t) \/ Disconnect(t)
BY DEF Next, vars, AnnounceStep, StreamStep, streamUpdates, history, Pass, Announce, NoteLength,
       EndAnnounce, NewKey, LookForDevice, AddDevice

LEMMA ConservedStep ==
  ASSUME Base, Conserved, [Next]_vars
  PROVE  Conserved'
<1>1. CASE UNCHANGED streamUpdates
  <2>1. UNCHANGED <<channel, told, stream, buffer, got, dropped>>
    BY <1>1 DEF streamUpdates, streamVars
  <2>2. \A t \in Streams : Has(t)' = Has(t) /\ Carried(t)' = Carried(t) /\ Gone(t)' = Gone(t)
    BY <2>1 DEF Has, Carried, Hand, Gone
  <2>3. QED BY <2>1, <2>2, KeepsAll
<1>2. ASSUME NEW s \in Sessions, Send(s)
      PROVE  Conserved'
  <2>1. /\ announcing \in Announcements /\ announcing # None /\ announcing.sent = None
        /\ s \in announcing.left \ {announcing.sent} /\ announcing.update = updates
        /\ UNCHANGED <<stream, buffer, got, dropped>>
    <3>1. s # None
      BY SessionsAssumption
    <3>2. QED BY <1>2, <3>1 DEF Send, Free, streamVars, Base, TypeOK, ThreadTypes, Announced
  <2>2. PICK e \in Updates : e = announcing.update
    BY <2>1 DEF Announcements
  <2>3. \A n \in Elements(told[s]) : n < e
    BY <2>1, <2>2 DEF Base, Announced
  <2>4. /\ channel'[s] = Append(channel[s], e) /\ told'[s] = Append(told[s], e)
        /\ \A r \in Sessions \ {s} : channel'[r] = channel[r] /\ told'[r] = told[r]
    BY <1>2, <2>2 DEF Send, Base, TypeOK, SessionTypes
  <2>5. {s} \in SUBSET Sessions
    OBVIOUS
  <2>6. \A r \in {s} : /\ channel'[r] = Append(channel[r], e) /\ told'[r] = Append(told[r], e)
                       /\ \A n \in Elements(told[r]) : n < e
    BY <2>3, <2>4
  <2>7. QED BY <2>1, <2>4, <2>5, <2>6, Tells
<1>3. CASE ToolAnnounce
  <2>1. /\ UNCHANGED <<stream, buffer, got, dropped>> /\ updates < MaxUpdates
        /\ live \in SUBSET Sessions /\ updates \in Nat
    BY <1>3 DEF ToolAnnounce, streamVars, Base, TypeOK, ThreadTypes, SessionTypes
  <2>2. PICK e \in Updates : e = updates + 1
    BY <2>1, SessionsAssumption DEF Updates
  <2>3. /\ \A r \in Sessions \ live : channel'[r] = channel[r] /\ told'[r] = told[r]
        /\ \A r \in live : channel'[r] = Append(channel[r], e) /\ told'[r] = Append(told[r], e)
    BY <1>3, <2>1, <2>2 DEF ToolAnnounce
  <2>4. ASSUME NEW r \in live, NEW n \in Elements(told[r]) PROVE n < e
    <3>1. n <= updates
      BY <2>1, <2>4 DEF Base, Announced
    <3>2. n \in Nat
      BY <2>1, <2>4, ToldAreUpdates DEF Base, TypeOK
    <3>3. QED BY <2>1, <2>2, <3>1, <3>2
  <2>5. QED BY <2>1, <2>3, <2>4, Tells
<1>4. ASSUME NEW t \in Streams, OpenStream(t) \/ EndStream(t)
      PROVE  Conserved'
  <2>1. /\ UNCHANGED <<channel, told, buffer, got, dropped>>
        /\ stream'[t].session = stream[t].session /\ stream'[t].hand = stream[t].hand
        /\ Gone(t)' <=> Gone(t)
        /\ stream[t].stage # "left"
        /\ \A u \in Streams \ {t} : stream'[u] = stream[u]
    BY <1>4 DEF OpenStream, EndStream, Base, TypeOK, StreamTypes, StreamStates, Gone, history
  <2>2. Carried(t)' = Carried(t) /\ Has(t)' = Has(t)
    BY <2>1 DEF Carried, Has, Hand
  <2>3. QED BY <2>1, <2>2, OthersKeep, KeepsAll
<1>5. QED
  BY <1>1, <1>2, <1>3, <1>4, AskConserves, ReceiveConserves, ForwardConserves,
     ForwardFailsConserves, ReadConserves, DisconnectConserves, OnlyTheseMove

LEMMA InitConserved == Init => Conserved
<1> SUFFICES ASSUME Init PROVE Conserved
  OBVIOUS
<1>1. \A s \in Sessions : s # None
  BY SessionsAssumption
<1>2. \A t \in Streams : stream[t].session = None
  BY DEF Init, NoStream
<1>3. \A s \in Sessions : channel[s] = <<>> /\ told[s] = <<>>
  BY DEF Init
<1>4. Ascending(<<>>)
  BY DEF Ascending
<1>5. QED BY <1>1, <1>2, <1>3, <1>4 DEF Conserved, Whole, Part, Separate

LEMMA ConservedSuffices ==
  ASSUME Base, Conserved
  PROVE  UpdatesConserved
<1>1. ASSUME NEW s \in Sessions
      PROVE  Elements(told[s]) = Elements(channel[s])
               \cup UNION {Elements(Carried(t)) \cup dropped[t] : t \in StreamsOf(s)}
  <2>1. Whole(s)
    BY DEF Conserved
  <2>2. \A n : n \in UNION {Elements(Carried(t)) \cup dropped[t] : t \in StreamsOf(s)} <=>
               \E t \in Streams : stream[t].session = s /\ n \in Has(t)
    BY DEF StreamsOf, Has
  <2>3. QED BY <2>1, <2>2 DEF Whole
<1>2. ASSUME NEW s \in Sessions, NEW t \in StreamsOf(s)
      PROVE  /\ Ascending(Carried(t) \o channel[s])
             /\ (Elements(Carried(t)) \cup dropped[t]) \cap Elements(channel[s]) = {}
             /\ Elements(Carried(t)) \cap dropped[t] = {}
             /\ Cardinality(dropped[t]) <= BufferSize + 1
  BY <1>2 DEF StreamsOf, Conserved, Part, Own, Has
<1>3. ASSUME NEW s \in Sessions, NEW t \in StreamsOf(s), NEW u \in StreamsOf(s) \ {t}
      PROVE  (Elements(Carried(t)) \cup dropped[t])
               \cap (Elements(Carried(u)) \cup dropped[u]) = {}
  BY <1>3 DEF StreamsOf, Conserved, Separate, Has
<1>4. ASSUME NEW s \in Sessions, NEW t \in StreamsOf(s), Connected(t), StreamsOf(s) = {t}
      PROVE  Carried(t) \o channel[s] = told[s]
  <2>1. Alone(t, s) /\ ~Gone(t)
    BY <1>4 DEF StreamsOf, Conserved, Part, Connected, Gone
  <2>2. \A u \in Streams \ {t} : stream[u].session # s
    BY <1>4 DEF StreamsOf
  <2>3. QED BY <2>1, <2>2 DEF Alone
<1>5. QED BY <1>1, <1>2, <1>3, <1>4 DEF UpdatesConserved

\* Every update a session was told is, once, in its channel, with one of its
\* streams, or lost by one whose client went away; each stream gives its part out
\* in order, and a client with the only stream misses none (db_post_handler and
\* the announcements of the database thread).
THEOREM UpdatesAreConserved == Spec => []UpdatesConserved
<1>1. Base /\ Conserved /\ [Next]_vars => Conserved'
  BY ConservedStep
<1>2. Base /\ Conserved => UpdatesConserved
  BY ConservedSuffices
<1>3. QED BY InitConserved, <1>1, <1>2, BaseAlways, PTL DEF Spec
=============================================================================
