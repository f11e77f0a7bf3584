-------------------------- MODULE GameReportsProofs --------------------------
(* Theorems about GameEvents and GameReports, for every value of their constants. *)
EXTENDS GameReports, ListLemmas

-----------------------------------------------------------------------------
(* The lines of a body *)

\* An event as parseEventsFile() makes it of a file.
Written ==
    {e \in [user : {"event without a user"}, team_a : Names, team_b : Names, name : Values,
            time : Int, updates : [Sections -> Maps], description : Seq(Seq(Values))] :
        gameName(e.team_a, e.team_b) \in Games}

Titles == Sections \cup {"user", "team a", "team b", "event name", "time", "description"}
Lines(user, e) ==
    [tab : BOOLEAN, left : Titles \cup {NoText} \cup Keys,
     val : {user, lower[e.team_a], lower[e.team_b], e.name, e.time, ""}
           \cup Values \cup Seq(Values)]

\* Where the titles of a body are.
Count(updates) == Cardinality(DOMAIN updates)
TeamA(e) == 7 + Count(e.updates["general game updates"])
TeamB(e) == TeamA(e) + 1 + Count(e.updates["team a updates"])
Descr(e) == TeamB(e) + 1 + Count(e.updates["team b updates"])

\* From line to line of the header, and from title to title.
Laid(body, user, e) ==
    /\ body \in Seq(Lines(user, e)) /\ Descr(e) <= Len(body)
    /\ body[1] = Line("user", user)
    /\ body[2] = Line("team a", lower[e.team_a])
    /\ body[3] = Line("team b", lower[e.team_b])
    /\ body[4] = Line("event name", e.name)
    /\ body[5] = Line("time", e.time)
    /\ body[6] = Line("general game updates", "")
    /\ body[TeamA(e)] = Line("team a updates", "")
    /\ body[TeamB(e)] = Line("team b updates", "")
    /\ body[Descr(e)] = Line("description", "")
    /\ \A i \in 1 .. Count(e.updates["general game updates"]) :
          body[6 + i] = UpdateLines(e.updates["general game updates"])[i]
    /\ \A i \in 1 .. Count(e.updates["team a updates"]) :
          body[TeamA(e) + i] = UpdateLines(e.updates["team a updates"])[i]
    /\ \A i \in 1 .. Count(e.updates["team b updates"]) :
          body[TeamB(e) + i] = UpdateLines(e.updates["team b updates"])[i]
    /\ \A i \in 1 .. Len(body) - Descr(e) :
          i \in 1 .. Len(e.description) /\ body[Descr(e) + i] = Text(e.description[i])

LEMMA SetToSeqIs ==
    ASSUME NEW S, IsFiniteSet(S)
    PROVE  /\ Cardinality(S) \in Nat
           /\ SetToSeq(S) \in [1..Cardinality(S) -> S]
           /\ \A i, j \in 1..Cardinality(S) : SetToSeq(S)[i] = SetToSeq(S)[j] => i = j
           /\ \A x \in S : \E i \in 1..Cardinality(S) : SetToSeq(S)[i] = x
<1> DEFINE n == Cardinality(S)
<1>1. n \in Nat /\ \E f : f \in Bijection(1..n, S)
    BY FS_CardinalityType, Zenon DEF ExistsBijection
<1>2. \E f : f \in [1..n -> S] /\ IsInjective(f)
    BY <1>1, Zenon DEF Bijection, Injection
<1>3. SetToSeq(S) \in [1..n -> S] /\ IsInjective(SetToSeq(S))
    BY <1>2, Zenon DEF SetToSeq
<1>4. SetToSeq(S) \in Injection(1..n, S)
    BY <1>3, Zenon DEF Injection
<1>5. IsFiniteSet(1..n) /\ Cardinality(1..n) = n
    BY <1>1, FS_Interval
<1>6. SetToSeq(S) \in Surjection(1..n, S)
    BY <1>4, <1>5, FS_Injection
<1> QED
    BY <1>1, <1>3, <1>6 DEF IsInjective, Surjection

LEMMA MapIs ==
    ASSUME NEW u \in Maps
    PROVE  /\ IsFiniteSet(DOMAIN u) /\ DOMAIN u \subseteq Keys
           /\ \A key \in DOMAIN u : u[key] \in Values
           /\ u = [key \in DOMAIN u |-> u[key]]
<1>1. PICK K \in SUBSET Keys : IsFiniteSet(K) /\ u \in [K -> Values]
    BY DEF Maps
<1> QED
    BY <1>1

LEMMA UpdateLinesAre ==
    ASSUME NEW user, NEW e, NEW u \in Maps
    PROVE  /\ UpdateLines(u) \in Seq(Lines(user, e)) /\ Len(UpdateLines(u)) = Count(u)
           /\ Count(u) \in Nat
           /\ \A i \in 1..Count(u) :
                 /\ UpdateLines(u)[i] = Tabbed(SetToSeq(DOMAIN u)[i], u[SetToSeq(DOMAIN u)[i]])
                 /\ SetToSeq(DOMAIN u)[i] \in DOMAIN u
           /\ \A i, j \in 1..Count(u) :
                 UpdateLines(u)[i].left = UpdateLines(u)[j].left => i = j
           /\ \A key \in DOMAIN u : \E i \in 1..Count(u) : UpdateLines(u)[i].left = key
<1> DEFINE keys == SetToSeq(DOMAIN u)
           n == Count(u)
<1>1. /\ n \in Nat /\ DOMAIN keys = 1..n
      /\ \A i \in 1..n : keys[i] \in DOMAIN u
      /\ \A i, j \in 1..n : keys[i] = keys[j] => i = j
      /\ \A x \in DOMAIN u : \E i \in 1..n : keys[i] = x
    BY MapIs, SetToSeqIs DEF Count
<1>2. UpdateLines(u) = [i \in 1..n |-> Tabbed(keys[i], u[keys[i]])]
    BY <1>1 DEF UpdateLines
<1> HIDE DEF keys, n
<1>3. ASSUME NEW i \in 1..n
      PROVE  /\ Tabbed(keys[i], u[keys[i]]) \in Lines(user, e)
             /\ Tabbed(keys[i], u[keys[i]]).left = keys[i]
  <2>1. keys[i] \in Keys /\ u[keys[i]] \in Values
      BY <1>1, MapIs
  <2> QED
      BY <2>1 DEF Tabbed, Line, Lines
<1>4. UpdateLines(u) \in Seq(Lines(user, e)) /\ Len(UpdateLines(u)) = n
    BY <1>1, <1>2, <1>3
<1>5. \A i \in 1..n : UpdateLines(u)[i] = Tabbed(keys[i], u[keys[i]]) /\ keys[i] \in DOMAIN u
    BY <1>1, <1>2
<1>6. \A i \in 1..n : UpdateLines(u)[i].left = keys[i]
    BY <1>3, <1>5
<1> QED
    BY <1>1, <1>4, <1>5, <1>6 DEF keys, n

\* The body of a report has its lines where they belong.
LEMMA ReportLaid ==
    ASSUME NEW user, NEW e \in Written
    PROVE  /\ Laid(reportEvent(user, e), user, e)
           /\ Len(reportEvent(user, e)) = Descr(e) + Len(e.description)
<1> DEFINE S == Lines(user, e)
           nG == Count(e.updates["general game updates"])
           nA == Count(e.updates["team a updates"])
           nB == Count(e.updates["team b updates"])
           lG == UpdateLines(e.updates["general game updates"])
           lA == UpdateLines(e.updates["team a updates"])
           lB == UpdateLines(e.updates["team b updates"])
           d == e.description
           w == [i \in DOMAIN d |-> Text(d[i])]
           h == Header(user, e)
           body == reportEvent(user, e)
<1>1. /\ e.updates["general game updates"] \in Maps /\ e.updates["team a updates"] \in Maps
      /\ e.updates["team b updates"] \in Maps
    BY DEF Written, Sections
<1>2. /\ lG \in Seq(S) /\ Len(lG) = nG /\ nG \in Nat
      /\ lA \in Seq(S) /\ Len(lA) = nA /\ nA \in Nat
      /\ lB \in Seq(S) /\ Len(lB) = nB /\ nB \in Nat
  <2>1. lG \in Seq(S) /\ Len(lG) = nG /\ nG \in Nat
      BY <1>1, UpdateLinesAre, Zenon
  <2>2. lA \in Seq(S) /\ Len(lA) = nA /\ nA \in Nat
      BY <1>1, UpdateLinesAre, Zenon
  <2>3. lB \in Seq(S) /\ Len(lB) = nB /\ nB \in Nat
      BY <1>1, UpdateLinesAre, Zenon
  <2> QED
      BY <2>1, <2>2, <2>3, Zenon
<1>3. TeamA(e) = 7 + nG /\ TeamB(e) = TeamA(e) + 1 + nA /\ Descr(e) = TeamB(e) + 1 + nB
    BY Zenon DEF TeamA, TeamB, Descr
<1>4. body = h \o <<Line("general game updates", "")>> \o lG \o <<Line("team a updates", "")>>
             \o lA \o <<Line("team b updates", "")>> \o lB \o <<Line("description", "")>> \o w
    BY Zenon DEF reportEvent
<1>5. d \in Seq(Seq(Values))
    BY DEF Written
<1> HIDE DEF nG, nA, nB, lG, lA, lB, d, body
<1>6. w \in Seq(S) /\ Len(w) = Len(d) /\ \A i \in 1..Len(d) : w[i] = Text(d[i])
  <2>1. DOMAIN d = 1..Len(d) /\ Len(d) \in Nat
      BY <1>5
  <2>2. ASSUME NEW i \in 1..Len(d) PROVE Text(d[i]) \in S
    <3>1. d[i] \in Seq(Values)
        BY <1>5
    <3> QED
        BY <3>1 DEF Text, Line, Lines
  <2> HIDE DEF S
  <2> QED
      BY <2>1, <2>2
<1>7. \A t \in Sections \cup {"description"} : Line(t, "") \in S
    BY DEF Line, Lines, Titles
<1>8. /\ h \in Seq(S) /\ Len(h) = 5
      /\ h[1] = Line("user", user) /\ h[2] = Line("team a", lower[e.team_a])
      /\ h[3] = Line("team b", lower[e.team_b]) /\ h[4] = Line("event name", e.name)
      /\ h[5] = Line("time", e.time)
  <2>1. /\ Line("user", user) \in S /\ Line("team a", lower[e.team_a]) \in S
        /\ Line("team b", lower[e.team_b]) \in S /\ Line("event name", e.name) \in S
        /\ Line("time", e.time) \in S
      BY DEF Line, Lines, Titles
  <2>3. h = <<Line("user", user), Line("team a", lower[e.team_a]),
              Line("team b", lower[e.team_b]), Line("event name", e.name), Line("time", e.time)>>
      BY Zenon DEF Header
  <2> DEFINE a == Line("user", user)
             b == Line("team a", lower[e.team_a])
             c == Line("team b", lower[e.team_b])
             x == Line("event name", e.name)
             y == Line("time", e.time)
  <2> HIDE DEF S, h, a, b, c, x, y
  <2>4. a \in S /\ b \in S /\ c \in S /\ x \in S /\ y \in S /\ h = <<a, b, c, x, y>>
      BY <2>1, <2>3, Zenon DEF a, b, c, x, y
  <2>5. h \in Seq(S) /\ Len(h) = 5
      BY <2>4
  <2>6. h[1] = a /\ h[2] = b /\ h[3] = c /\ h[4] = x /\ h[5] = y
      BY <2>4
  <2> QED
      BY <2>5, <2>6, Zenon DEF a, b, c, x, y
<1> HIDE DEF S, w, h
<1>8a. h \in Seq(S) /\ Len(h) = 5
    BY <1>8, Zenon
<1>9. /\ Line("general game updates", "") \in S /\ Line("team a updates", "") \in S
      /\ Line("team b updates", "") \in S /\ Line("description", "") \in S
    BY <1>7 DEF Sections
<1>10. /\ TeamA(e) = Len(h) + Len(lG) + 2 /\ TeamB(e) = TeamA(e) + 1 + Len(lA)
       /\ Descr(e) = TeamB(e) + 1 + Len(lB)
    BY <1>2, <1>3, <1>8a
<1>11. /\ body \in Seq(S) /\ Len(body) = Descr(e) + Len(w)
       /\ \A i \in 1..Len(h) : body[i] = h[i]
       /\ body[Len(h) + 1] = Line("general game updates", "")
       /\ body[TeamA(e)] = Line("team a updates", "")
       /\ body[TeamB(e)] = Line("team b updates", "")
       /\ body[Descr(e)] = Line("description", "")
       /\ \A i \in 1..Len(lG) : body[Len(h) + 1 + i] = lG[i]
       /\ \A i \in 1..Len(lA) : body[TeamA(e) + i] = lA[i]
       /\ \A i \in 1..Len(lB) : body[TeamB(e) + i] = lB[i]
       /\ \A i \in 1..Len(w) : body[Descr(e) + i] = w[i]
  <2> DEFINE t1 == Line("general game updates", "")
             t2 == Line("team a updates", "")
             t3 == Line("team b updates", "")
             t4 == Line("description", "")
  <2>1. w \in Seq(S)
      BY <1>6
  <2>2. t1 \in S /\ t2 \in S /\ t3 \in S /\ t4 \in S
      BY <1>9
  <2>3. body = h \o <<t1>> \o lG \o <<t2>> \o lA \o <<t3>> \o lB \o <<t4>> \o w
      BY <1>4
  <2> HIDE DEF t1, t2, t3, t4
  <2>4. /\ body \in Seq(S) /\ Len(body) = Descr(e) + Len(w)
        /\ \A i \in 1..Len(h) : body[i] = h[i]
        /\ body[Len(h) + 1] = t1 /\ body[TeamA(e)] = t2
        /\ body[TeamB(e)] = t3 /\ body[Descr(e)] = t4
        /\ \A i \in 1..Len(lG) : body[Len(h) + 1 + i] = lG[i]
        /\ \A i \in 1..Len(lA) : body[TeamA(e) + i] = lA[i]
        /\ \A i \in 1..Len(lB) : body[TeamB(e) + i] = lB[i]
        /\ \A i \in 1..Len(w) : body[Descr(e) + i] = w[i]
    <3> DEFINE p1 == h \o <<t1>>
               p2 == p1 \o lG
               p3 == p2 \o <<t2>>
               p4 == p3 \o lA
               p5 == p4 \o <<t3>>
               p6 == p5 \o lB
               p7 == p6 \o <<t4>>
               p8 == p7 \o w
    <3>0. body = p8
        BY <2>3
    <3>1. ASSUME NEW s \in Seq(S), NEW t \in S
          PROVE  /\ s \o <<t>> \in Seq(S) /\ Len(s \o <<t>>) = Len(s) + 1
                 /\ \A i \in 1..Len(s) : (s \o <<t>>)[i] = s[i]
                 /\ (s \o <<t>>)[Len(s) + 1] = t
        OBVIOUS
    <3>1a. ASSUME NEW s \in Seq(S), NEW t \in Seq(S)
           PROVE  /\ s \o t \in Seq(S) /\ Len(s \o t) = Len(s) + Len(t)
                  /\ \A i \in 1..Len(s) : (s \o t)[i] = s[i]
                  /\ \A i \in 1..Len(t) : (s \o t)[Len(s) + i] = t[i]
        OBVIOUS
    <3>2. /\ Len(h) \in Nat /\ Len(lG) \in Nat /\ Len(lA) \in Nat /\ Len(lB) \in Nat /\ Len(w) \in Nat
          /\ TeamA(e) \in Nat /\ TeamB(e) \in Nat /\ Descr(e) \in Nat
          /\ h \in Seq(S) /\ lG \in Seq(S) /\ lA \in Seq(S) /\ lB \in Seq(S) /\ w \in Seq(S)
        BY <1>2, <1>8a, <1>10, <2>1
    <3>3. /\ p1 \in Seq(S) /\ Len(p1) = Len(h) + 1 /\ \A i \in 1..Len(h) : p1[i] = h[i]
          /\ p1[Len(h) + 1] = t1
        BY <3>1, <2>2, <3>2, Zenon
    <3> HIDE DEF p1
    <3>4. /\ p2 \in Seq(S) /\ Len(p2) = Len(p1) + Len(lG) /\ \A i \in 1..Len(p1) : p2[i] = p1[i]
          /\ \A i \in 1..Len(lG) : p2[Len(p1) + i] = lG[i]
        BY <3>1a, <2>2, <3>2, <3>3, Zenon
    <3> HIDE DEF p2
    <3>5. /\ p3 \in Seq(S) /\ Len(p3) = Len(p2) + 1 /\ \A i \in 1..Len(p2) : p3[i] = p2[i]
          /\ p3[Len(p2) + 1] = t2
        BY <3>1, <2>2, <3>2, <3>4, Zenon
    <3> HIDE DEF p3
    <3>6. /\ p4 \in Seq(S) /\ Len(p4) = Len(p3) + Len(lA) /\ \A i \in 1..Len(p3) : p4[i] = p3[i]
          /\ \A i \in 1..Len(lA) : p4[Len(p3) + i] = lA[i]
        BY <3>1a, <2>2, <3>2, <3>5, Zenon
    <3> HIDE DEF p4
    <3>7. /\ p5 \in Seq(S) /\ Len(p5) = Len(p4) + 1 /\ \A i \in 1..Len(p4) : p5[i] = p4[i]
          /\ p5[Len(p4) + 1] = t3
        BY <3>1, <2>2, <3>2, <3>6, Zenon
    <3> HIDE DEF p5
    <3>8. /\ p6 \in Seq(S) /\ Len(p6) = Len(p5) + Len(lB) /\ \A i \in 1..Len(p5) : p6[i] = p5[i]
          /\ \A i \in 1..Len(lB) : p6[Len(p5) + i] = lB[i]
        BY <3>1a, <2>2, <3>2, <3>7, Zenon
    <3> HIDE DEF p6
    <3>9. /\ p7 \in Seq(S) /\ Len(p7) = Len(p6) + 1 /\ \A i \in 1..Len(p6) : p7[i] = p6[i]
          /\ p7[Len(p6) + 1] = t4
        BY <3>1, <2>2, <3>2, <3>8, Zenon
    <3> HIDE DEF p7
    <3>10. /\ p8 \in Seq(S) /\ Len(p8) = Len(p7) + Len(w) /\ \A i \in 1..Len(p7) : p8[i] = p7[i]
           /\ \A i \in 1..Len(w) : p8[Len(p7) + i] = w[i]
        BY <3>1a, <2>2, <3>2, <3>9, Zenon
    <3> HIDE DEF p8
    <3> USE <1>2, <1>8a, <1>10, <2>1, <2>2
    <3>11. /\ Len(p1) = Len(h) + 1 /\ Len(p3) = TeamA(e) /\ Len(p5) = TeamB(e) /\ Len(p7) = Descr(e)
           /\ Len(p2) = TeamA(e) - 1 /\ Len(p4) = TeamB(e) - 1 /\ Len(p6) = Descr(e) - 1
        BY <3>2, <3>3, <3>4, <3>5, <3>6, <3>7, <3>8, <3>9
    <3>12. /\ \A i \in 1..Descr(e) : p8[i] = p7[i]
           /\ \A i \in 1..Descr(e) - 1 : p7[i] = p6[i]
           /\ \A i \in 1..TeamB(e) : p6[i] = p5[i]
           /\ \A i \in 1..TeamB(e) - 1 : p5[i] = p4[i]
           /\ \A i \in 1..TeamA(e) : p4[i] = p3[i]
           /\ \A i \in 1..TeamA(e) - 1 : p3[i] = p2[i]
           /\ \A i \in 1..Len(h) + 1 : p2[i] = p1[i]
        BY <3>4, <3>5, <3>6, <3>7, <3>8, <3>9, <3>10, <3>11
    <3>13. \A i \in 1..Descr(e) - 1 : p8[i] = p6[i]
        BY <3>2, <3>12
    <3>14. \A i \in 1..TeamB(e) : p8[i] = p5[i]
        BY <3>2, <3>12, <3>13
    <3>15. \A i \in 1..TeamB(e) - 1 : p8[i] = p4[i]
        BY <3>2, <3>12, <3>14
    <3>16. \A i \in 1..TeamA(e) : p8[i] = p3[i]
        BY <3>2, <3>12, <3>15
    <3>17. \A i \in 1..TeamA(e) - 1 : p8[i] = p2[i]
        BY <3>2, <3>12, <3>16
    <3>18. \A i \in 1..Len(h) + 1 : p8[i] = p1[i]
        BY <3>2, <3>12, <3>17
    <3>19. /\ \A i \in 1..Len(h) : p8[i] = h[i]
           /\ p8[Len(h) + 1] = t1
        BY <3>2, <3>3, <3>18
    <3>20. \A i \in 1..Len(lG) : p8[Len(h) + 1 + i] = lG[i]
      <4>1. ASSUME NEW i \in 1..Len(lG) PROVE p8[Len(h) + 1 + i] = lG[i]
        <5>1. Len(h) + 1 + i \in 1..TeamA(e) - 1 /\ p2[Len(p1) + i] = lG[i]
            BY <3>2, <3>4
        <5> QED
            BY <3>11, <3>17, <5>1
      <4> QED
          BY <4>1
    <3>21. p8[TeamA(e)] = t2 /\ \A i \in 1..Len(lA) : p8[TeamA(e) + i] = lA[i]
      <4>1. ASSUME NEW i \in 1..Len(lA) PROVE p8[TeamA(e) + i] = lA[i]
        <5>1. TeamA(e) + i \in 1..TeamB(e) - 1 /\ p4[Len(p3) + i] = lA[i]
            BY <3>2, <3>6
        <5> QED
            BY <3>11, <3>15, <5>1
      <4>2. TeamA(e) \in 1..TeamA(e) /\ p3[TeamA(e)] = t2
          BY <3>2, <3>5, <3>11
      <4> QED
          BY <3>16, <4>1, <4>2
    <3>22. p8[TeamB(e)] = t3 /\ \A i \in 1..Len(lB) : p8[TeamB(e) + i] = lB[i]
      <4>1. ASSUME NEW i \in 1..Len(lB) PROVE p8[TeamB(e) + i] = lB[i]
        <5>1. TeamB(e) + i \in 1..Descr(e) - 1 /\ p6[Len(p5) + i] = lB[i]
            BY <3>2, <3>8
        <5> QED
            BY <3>11, <3>13, <5>1
      <4>2. TeamB(e) \in 1..TeamB(e) /\ p5[TeamB(e)] = t3
          BY <3>2, <3>7, <3>11
      <4> QED
          BY <3>14, <4>1, <4>2
    <3>23. p8[Descr(e)] = t4 /\ \A i \in 1..Len(w) : p8[Descr(e) + i] = w[i]
        BY <3>2, <3>9, <3>10, <3>11, <3>12
    <3> QED
        BY <3>0, <3>2, <3>10, <3>11, <3>19, <3>20, <3>21, <3>22, <3>23
  <2> QED
      BY <2>4, Zenon DEF t1, t2, t3, t4
<1>12. /\ body[1] = Line("user", user) /\ body[2] = Line("team a", lower[e.team_a])
       /\ body[3] = Line("team b", lower[e.team_b]) /\ body[4] = Line("event name", e.name)
       /\ body[5] = Line("time", e.time) /\ body[6] = Line("general game updates", "")
       /\ \A i \in 1..nG : body[6 + i] = lG[i]
  <2>1. 1 \in 1..Len(h) /\ 2 \in 1..Len(h) /\ 3 \in 1..Len(h) /\ 4 \in 1..Len(h) /\ 5 \in 1..Len(h)
      BY <1>8a
  <2>2. Len(h) + 1 = 6 /\ Len(lG) = nG
      BY <1>2, <1>8a
  <2>3. body[1] = h[1] /\ body[2] = h[2] /\ body[3] = h[3] /\ body[4] = h[4] /\ body[5] = h[5]
      BY <1>11, <2>1
  <2>4. body[6] = Line("general game updates", "") /\ \A i \in 1..nG : body[6 + i] = lG[i]
      BY <1>11, <2>2
  <2> QED
      BY <1>8, <2>3, <2>4, Zenon
<1>13. /\ Descr(e) <= Len(body)
       /\ \A i \in 1 .. Len(body) - Descr(e) :
             i \in 1..Len(d) /\ body[Descr(e) + i] = Text(d[i])
  <2>0. w \in Seq(S) /\ Len(body) = Descr(e) + Len(w)
      BY <1>6, <1>11, Zenon
  <2>1. Descr(e) \in Nat /\ Len(w) \in Nat /\ Len(body) = Descr(e) + Len(w)
      BY <1>2, <1>3, <2>0
  <2>2. Len(body) - Descr(e) = Len(d) /\ Descr(e) <= Len(body)
      BY <1>6, <2>1
  <2> QED
      BY <1>6, <1>11, <2>2
<1>14. /\ \A i \in 1..nA : body[TeamA(e) + i] = lA[i]
       /\ \A i \in 1..nB : body[TeamB(e) + i] = lB[i]
    BY <1>2, <1>11
<1>15. Laid(body, user, e)
    BY <1>11, <1>12, <1>13, <1>14, Zenon DEF Laid, S, nG, nA, nB, lG, lA, lB, d
<1> QED
    BY <1>6, <1>11, <1>15 DEF body, d

\* The server leaves out the empty lines at the end, and nothing else.
Blank(line) == line.left = NoText /\ line.val = <<>>

LastLine(body, k, n) ==
    /\ n = 0 \/ ~Blank(body[n])
    /\ \A i \in n + 1 .. k : Blank(body[i])

LEMMA ExtractIs ==
    ASSUME NEW S, NEW body \in Seq(S)
    PROVE  \E n \in 0..Len(body) :
              extract(body) = SubSeq(body, 1, n) /\ LastLine(body, Len(body), n)
<1> DEFINE D == {k \in Nat : \E n \in 0..k : LastLine(body, k, n)}
<1>1. 0 \in D
    BY DEF LastLine
<1>2. ASSUME NEW k \in Nat, k \in D PROVE k + 1 \in D
  <2>1. PICK n \in 0..k : LastLine(body, k, n)
      BY <1>2
  <2>2. CASE Blank(body[k + 1])
    <3>1. LastLine(body, k + 1, n) /\ n \in 0 .. k + 1
        BY <1>2, <2>1, <2>2 DEF LastLine
    <3> QED
        BY <1>2, <3>1
  <2>3. CASE ~Blank(body[k + 1])
    <3>1. LastLine(body, k + 1, k + 1) /\ k + 1 \in 0 .. k + 1
        BY <1>2, <2>3 DEF LastLine
    <3> QED
        BY <1>2, <3>1
  <2> QED
      BY <2>2, <2>3
<1> HIDE DEF D
<1>3. Len(body) \in D
    BY <1>1, <1>2, InductiveSet
<1>4. \E n \in 0..Len(body) : LastLine(body, Len(body), n)
    BY <1>3 DEF D
<1> DEFINE last == CHOOSE n \in 0..Len(body) : LastLine(body, Len(body), n)
<1>5. last \in 0..Len(body) /\ LastLine(body, Len(body), last)
    BY <1>4
<1>6. extract(body) = SubSeq(body, 1, last)
    BY Zenon DEF extract, LastLine, Blank
<1> QED
    BY <1>5, <1>6

LEMMA TitlesInOrder ==
    ASSUME NEW e \in Written
    PROVE  LET nG == Count(e.updates["general game updates"])
               nA == Count(e.updates["team a updates"])
               nB == Count(e.updates["team b updates"])
           IN  /\ nG \in Nat /\ nA \in Nat /\ nB \in Nat
               /\ TeamA(e) = 7 + nG /\ TeamB(e) = TeamA(e) + 1 + nA
               /\ Descr(e) = TeamB(e) + 1 + nB
<1>1. /\ e.updates["general game updates"] \in Maps /\ e.updates["team a updates"] \in Maps
      /\ e.updates["team b updates"] \in Maps
    BY DEF Written, Sections
<1>2. /\ Count(e.updates["general game updates"]) \in Nat
      /\ Count(e.updates["team a updates"]) \in Nat
      /\ Count(e.updates["team b updates"]) \in Nat
    BY <1>1, UpdateLinesAre, Zenon
<1> QED
    BY <1>2, Zenon DEF TeamA, TeamB, Descr

LEMMA ExtractLaid ==
    ASSUME NEW user, NEW e \in Written
    PROVE  LET body == extract(reportEvent(user, e))
           IN  /\ Laid(body, user, e)
               /\ Len(body) - Descr(e) \in 0..Len(e.description)
               /\ \A i \in Len(body) - Descr(e) + 1 .. Len(e.description) :
                     e.description[i] = <<>>
<1> DEFINE body == reportEvent(user, e)
           short == extract(body)
           d == e.description
           S == Lines(user, e)
<1>1. Laid(body, user, e) /\ Len(body) = Descr(e) + Len(d)
    BY ReportLaid
<1>2. d \in Seq(Seq(Values))
    BY DEF Written
<1>3. body \in Seq(S)
    BY <1>1, Zenon DEF Laid
<1>4. PICK n \in 0..Len(body) : short = SubSeq(body, 1, n) /\ LastLine(body, Len(body), n)
    BY <1>3, ExtractIs
<1> HIDE DEF body, short, d, S
<1>5. Descr(e) \in Nat /\ Descr(e) >= 9
  <2> DEFINE nG == Count(e.updates["general game updates"])
             nA == Count(e.updates["team a updates"])
             nB == Count(e.updates["team b updates"])
  <2>1. /\ nG \in Nat /\ nA \in Nat /\ nB \in Nat
        /\ TeamA(e) = 7 + nG /\ TeamB(e) = TeamA(e) + 1 + nA /\ Descr(e) = TeamB(e) + 1 + nB
      BY TitlesInOrder, Zenon
  <2> HIDE DEF nG, nA, nB
  <2> QED
      BY <2>1
<1>6. body[Descr(e)] = Line("description", "") /\ ~Blank(body[Descr(e)])
  <2>1. body[Descr(e)] = Line("description", "")
      BY <1>1, Zenon DEF Laid
  <2>2. ~Blank(Line("description", ""))
      BY DEF Blank, Line, NoText
  <2> QED
      BY <2>1, <2>2, Zenon
<1>7. n >= Descr(e) /\ n \in Nat /\ Len(body) \in Nat
  <2>1. ~Blank(body[Descr(e)]) /\ \A i \in n + 1 .. Len(body) : Blank(body[i])
      BY <1>4, <1>6, Zenon DEF LastLine
  <2>2. Len(body) = Descr(e) + Len(d) /\ Len(d) \in Nat
      BY <1>1, <1>2
  <2> QED
      BY <1>4, <1>5, <2>1, <2>2
<1>8. /\ short \in Seq(S) /\ Len(short) = n
      /\ \A i \in 1..n : short[i] = body[i]
    BY <1>3, <1>4, <1>7
<1>9. /\ n - Descr(e) \in 0..Len(d) /\ Len(d) \in Nat
    BY <1>1, <1>2, <1>4, <1>5, <1>7
<1>10. ASSUME NEW i \in n - Descr(e) + 1 .. Len(d) PROVE d[i] = <<>>
  <2>1. Descr(e) + i \in n + 1 .. Len(body) /\ i \in 1 .. Len(body) - Descr(e)
      BY <1>1, <1>5, <1>7, <1>9
  <2>2. Blank(body[Descr(e) + i])
      BY <1>4, <2>1 DEF LastLine
  <2>3. body[Descr(e) + i] = Text(d[i])
      BY <1>1, <2>1, Zenon DEF Laid, d
  <2> QED
      BY <2>2, <2>3 DEF Blank, Text, Line
<1>11. Laid(short, user, e)
  <2>1. \A i \in 1..Descr(e) : short[i] = body[i]
      BY <1>5, <1>7, <1>8
  <2>2. ASSUME NEW i \in 1 .. Len(short) - Descr(e)
        PROVE  i \in 1..Len(d) /\ short[Descr(e) + i] = Text(d[i])
    <3>1. i \in 1 .. Len(body) - Descr(e) /\ Descr(e) + i \in 1..n
        BY <1>4, <1>5, <1>7, <1>8
    <3>2. i \in 1..Len(d) /\ body[Descr(e) + i] = Text(d[i])
        BY <1>1, <3>1, Zenon DEF Laid, d
    <3> QED
        BY <1>8, <3>1, <3>2
  <2> DEFINE nG == Count(e.updates["general game updates"])
             nA == Count(e.updates["team a updates"])
             nB == Count(e.updates["team b updates"])
  <2>4. nG \in Nat /\ nA \in Nat /\ nB \in Nat
      BY TitlesInOrder, Zenon
  <2>5. TeamA(e) = 7 + nG /\ TeamB(e) = TeamA(e) + 1 + nA /\ Descr(e) = TeamB(e) + 1 + nB
      BY TitlesInOrder, Zenon
  <2> HIDE DEF nG, nA, nB
  <2>6. /\ {1, 2, 3, 4, 5, 6, TeamA(e), TeamB(e), Descr(e)} \subseteq 1..Descr(e)
        /\ \A i \in 1..nG : 6 + i \in 1..Descr(e)
        /\ \A i \in 1..nA : TeamA(e) + i \in 1..Descr(e)
        /\ \A i \in 1..nB : TeamB(e) + i \in 1..Descr(e)
      BY <2>4, <2>5
  <2>7. /\ \A i \in {1, 2, 3, 4, 5, 6, TeamA(e), TeamB(e), Descr(e)} : short[i] = body[i]
        /\ \A i \in 1..nG : short[6 + i] = body[6 + i]
        /\ \A i \in 1..nA : short[TeamA(e) + i] = body[TeamA(e) + i]
        /\ \A i \in 1..nB : short[TeamB(e) + i] = body[TeamB(e) + i]
      BY <2>1, <2>6, Zenon
  <2>8. /\ short[1] = body[1] /\ short[2] = body[2] /\ short[3] = body[3]
        /\ short[4] = body[4] /\ short[5] = body[5] /\ short[6] = body[6]
        /\ short[TeamA(e)] = body[TeamA(e)] /\ short[TeamB(e)] = body[TeamB(e)]
        /\ short[Descr(e)] = body[Descr(e)]
      BY <2>7, Zenon
  <2>9. Descr(e) <= Len(short)
      BY <1>7, <1>8
  <2> QED
      BY <1>1, <1>8, <2>2, <2>7, <2>8, <2>9, Zenon DEF Laid, S, d, nG, nA, nB
<1> QED
    BY <1>8, <1>9, <1>10, <1>11 DEF body, short, d

-----------------------------------------------------------------------------
(* What parse() makes of a body *)

LEMMA FindIs ==
    ASSUME NEW S, NEW body \in Seq(S), NEW title,
           NEW p \in 1..Len(body), ~body[p].tab, body[p].left = title,
           \A i \in 1..Len(body) : i # p => body[i].tab \/ body[i].left # title
    PROVE  Find(body, title) = p
<1> DEFINE titled(i) == ~body[i].tab /\ body[i].left = title
           found(i) == titled(i) /\ \A j \in 1 .. i - 1 : ~titled(j)
<1>1. \A i \in 1..Len(body) : titled(i) <=> i = p
    OBVIOUS
<1>2. DOMAIN body = 1..Len(body) /\ Len(body) \in Nat
    OBVIOUS
<1>3. found(p)
  <2>1. titled(p) /\ \A j \in 1 .. p - 1 : j \in 1..Len(body) /\ j # p
      BY <1>1, <1>2
  <2> HIDE DEF titled
  <2> QED
      BY <1>1, <2>1
<1>4. Find(body, title) = CHOOSE i \in DOMAIN body : found(i)
    BY Zenon DEF Find
<1>5. \A i \in DOMAIN body : found(i) => i = p
    BY <1>1, <1>2
<1>6. p \in DOMAIN body
    BY <1>2
<1> HIDE DEF found
<1> QED
    BY <1>3, <1>4, <1>5, <1>6

LEMMA UpdatesAre ==
    ASSUME NEW u \in Maps, NEW from \in Int, NEW body,
           \A i \in 1..Count(u) : body[from + i] = UpdateLines(u)[i]
    PROVE  Updates(body, from, from + Count(u) + 1) = u
<1> DEFINE n == Count(u)
           keys == SetToSeq(DOMAIN u)
           lines == from + 1 .. (from + n + 1) - 1
           first(key) == CHOOSE i \in lines :
                            /\ body[i].left = key
                            /\ \A j \in lines : body[j].left = key => i <= j
<1>1. n \in Nat
    BY UpdateLinesAre
<1>2. \A i \in lines : i - from \in 1..n /\ from + (i - from) = i
    BY <1>1
<1>3. ASSUME NEW i \in lines
      PROVE  /\ body[i] = UpdateLines(u)[i - from] /\ keys[i - from] \in DOMAIN u
             /\ body[i].left = keys[i - from] /\ body[i].val = u[keys[i - from]]
  <2>1. i - from \in 1..n /\ from + (i - from) = i
      BY <1>2
  <2>2. body[i] = UpdateLines(u)[i - from]
      BY <2>1
  <2>3. /\ UpdateLines(u)[i - from] = Tabbed(keys[i - from], u[keys[i - from]])
        /\ keys[i - from] \in DOMAIN u
      BY <2>1, UpdateLinesAre
  <2> QED
      BY <2>2, <2>3 DEF Tabbed, Line
<1>4. \A i, j \in lines : body[i].left = body[j].left => i = j
  <2>1. ASSUME NEW i \in lines, NEW j \in lines, body[i].left = body[j].left PROVE i = j
    <3>1. UpdateLines(u)[i - from].left = UpdateLines(u)[j - from].left
        BY <1>3, <2>1, Zenon
    <3>2. i - from \in 1..n /\ j - from \in 1..n
        BY <1>2
    <3>3. i - from = j - from
        BY <3>1, <3>2, UpdateLinesAre, Zenon
    <3> QED
        BY <1>2, <3>3
  <2> QED
      BY <2>1
<1>5. ASSUME NEW key \in DOMAIN u PROVE \E i \in lines : body[i].left = key
  <2>1. PICK k \in 1..n : UpdateLines(u)[k].left = key
      BY UpdateLinesAre
  <2>2. from + k \in lines
      BY <1>1
  <2> QED
      BY <2>1, <2>2
<1>6. {body[i].left : i \in lines} = DOMAIN u
  <2>1. \A i \in lines : body[i].left \in DOMAIN u
      BY <1>3, Zenon
  <2> HIDE DEF lines
  <2> QED
      BY <1>5, <2>1, Zenon
<1>7. ASSUME NEW key \in DOMAIN u PROVE body[first(key)].val = u[key]
  <2>1. PICK k \in lines : body[k].left = key
      BY <1>5
  <2>2. body[k].left = key /\ \A j \in lines : body[j].left = key => k <= j
      BY <1>2, <1>4, <2>1
  <2>3. first(key) \in lines /\ body[first(key)].left = key
      BY <2>2
  <2> HIDE DEF first
  <2> QED
      BY <1>3, <2>3
<1>8. Updates(body, from, from + n + 1) = [key \in DOMAIN u |-> body[first(key)].val]
    BY <1>6, Zenon DEF Updates
<1>9. u = [key \in DOMAIN u |-> u[key]]
    BY MapIs
<1> HIDE DEF first, n
<1>10. [key \in DOMAIN u |-> body[first(key)].val] = [key \in DOMAIN u |-> u[key]]
    BY <1>7
<1> QED
    BY <1>8, <1>9, <1>10 DEF n

\* Empty lists at the end do not show when a list of lists is flattened.
LEMMA FlattenBlank ==
    ASSUME NEW B, NEW d \in Seq(Seq(B)), NEW m \in 0..Len(d),
           \A i \in m + 1 .. Len(d) : d[i] = <<>>
    PROVE  FlattenSeq(SubSeq(d, 1, m)) = FlattenSeq(d)
<1> DEFINE D == {k \in Nat : m + k <= Len(d) =>
                    FlattenSeq(SubSeq(d, 1, m + k)) = FlattenSeq(SubSeq(d, 1, m))}
<1>1. 0 \in D
    OBVIOUS
<1>2. ASSUME NEW k \in Nat, k \in D PROVE k + 1 \in D
  <2>1. SUFFICES ASSUME m + (k + 1) <= Len(d)
                 PROVE  FlattenSeq(SubSeq(d, 1, m + (k + 1))) = FlattenSeq(SubSeq(d, 1, m))
      OBVIOUS
  <2> DEFINE s == SubSeq(d, 1, m + k)
  <2>2. s \in Seq(Seq(B)) /\ SubSeq(d, 1, m + (k + 1)) = Append(s, d[m + (k + 1)])
      BY <2>1
  <2>3. d[m + (k + 1)] = <<>> /\ <<>> \in Seq(B)
      BY <2>1
  <2> HIDE DEF s
  <2>4. FlattenSeq(Append(s, <<>>)) = FlattenSeq(s) \o <<>> /\ FlattenSeq(s) \in Seq(B)
      BY <2>2, <2>3, FlattenSeqAppend, FlattenSeqType
  <2>5. FlattenSeq(s) \o <<>> = FlattenSeq(s)
      BY <2>4
  <2>6. FlattenSeq(s) = FlattenSeq(SubSeq(d, 1, m))
      BY <1>2, <2>1 DEF s
  <2> QED
      BY <2>2, <2>3, <2>4, <2>5, <2>6
<1> HIDE DEF D
<1>3. Len(d) - m \in Nat /\ m + (Len(d) - m) = Len(d)
    OBVIOUS
<1>4. Len(d) - m \in D
    BY <1>1, <1>2, <1>3, InductiveSet
<1>5. FlattenSeq(SubSeq(d, 1, m + (Len(d) - m))) = FlattenSeq(SubSeq(d, 1, m))
    BY <1>3, <1>4 DEF D
<1>6. SubSeq(d, 1, Len(d)) = d
    OBVIOUS
<1> QED
    BY <1>3, <1>5, <1>6

\* All lines but nine have a tab, or no title.
LEMMA UntitledLines ==
    ASSUME NEW user, NEW e \in Written, NEW body, Laid(body, user, e),
           NEW i \in 1..Len(body),
           i \notin {1, 2, 3, 4, 5, 6, TeamA(e), TeamB(e), Descr(e)}
    PROVE  body[i].tab \/ body[i].left = NoText
<1> DEFINE uG == e.updates["general game updates"]
           uA == e.updates["team a updates"]
           uB == e.updates["team b updates"]
           d == e.description
<1>1. /\ Count(uG) \in Nat /\ Count(uA) \in Nat /\ Count(uB) \in Nat
      /\ TeamA(e) = 7 + Count(uG) /\ TeamB(e) = TeamA(e) + 1 + Count(uA)
      /\ Descr(e) = TeamB(e) + 1 + Count(uB)
    BY TitlesInOrder, Zenon
<1>2. uG \in Maps /\ uA \in Maps /\ uB \in Maps
    BY DEF Written, Sections
<1>3. ASSUME NEW u \in Maps, NEW k \in 1..Count(u) PROVE UpdateLines(u)[k].tab
  <2>1. UpdateLines(u)[k] = Tabbed(SetToSeq(DOMAIN u)[k], u[SetToSeq(DOMAIN u)[k]])
      BY UpdateLinesAre, Zenon
  <2>2. \A key, val : Tabbed(key, val).tab
      BY DEF Tabbed, Line
  <2> QED
      BY <2>1, <2>2, Zenon
<1>4. /\ \A k \in 1..Count(uG) : body[6 + k] = UpdateLines(uG)[k]
      /\ \A k \in 1..Count(uA) : body[TeamA(e) + k] = UpdateLines(uA)[k]
      /\ \A k \in 1..Count(uB) : body[TeamB(e) + k] = UpdateLines(uB)[k]
      /\ \A k \in 1 .. Len(body) - Descr(e) : body[Descr(e) + k] = Text(d[k])
    BY Zenon DEF Laid
<1>5. body \in Seq(Lines(user, e))
    BY Zenon DEF Laid
<1>6. Len(body) \in Nat
    BY <1>5
<1> HIDE DEF uG, uA, uB, d
<1>7. \/ i - 6 \in 1..Count(uG) /\ 6 + (i - 6) = i
      \/ i - TeamA(e) \in 1..Count(uA) /\ TeamA(e) + (i - TeamA(e)) = i
      \/ i - TeamB(e) \in 1..Count(uB) /\ TeamB(e) + (i - TeamB(e)) = i
      \/ i - Descr(e) \in 1 .. Len(body) - Descr(e) /\ Descr(e) + (i - Descr(e)) = i
  <2>1. i # 1 /\ i # 2 /\ i # 3 /\ i # 4 /\ i # 5 /\ i # 6
      BY Zenon
  <2>2. i # TeamA(e) /\ i # TeamB(e) /\ i # Descr(e)
      BY Zenon
  <2>3. i > 6
      BY <2>1
  <2> DEFINE a == TeamA(e)
             b == TeamB(e)
             c == Descr(e)
  <2> HIDE DEF a, b, c
  <2>4. \/ i \in 7..a - 1 \/ i \in a + 1 .. b - 1 \/ i \in b + 1 .. c - 1
        \/ i \in c + 1 .. Len(body)
      BY <1>1, <1>6, <2>2, <2>3 DEF a, b, c
  <2>5. /\ Count(uG) \in Nat /\ Count(uA) \in Nat /\ Count(uB) \in Nat
        /\ a = 7 + Count(uG) /\ b = a + 1 + Count(uA) /\ c = b + 1 + Count(uB)
      BY <1>1 DEF a, b, c
  <2>5a. a \in Nat /\ b \in Nat /\ c \in Nat
    <3> DEFINE g == Count(uG)
               x == Count(uA)
               y == Count(uB)
    <3>1. g \in Nat /\ x \in Nat /\ y \in Nat /\ a = 7 + g /\ b = a + 1 + x /\ c = b + 1 + y
        BY <2>5, Zenon
    <3> HIDE DEF g, x, y
    <3> QED
        BY ONLY <3>1
  <2>6. \/ i - 6 \in 1..Count(uG) /\ 6 + (i - 6) = i
        \/ i - a \in 1..Count(uA) /\ a + (i - a) = i
        \/ i - b \in 1..Count(uB) /\ b + (i - b) = i
        \/ i - c \in 1 .. Len(body) - c /\ c + (i - c) = i
    <3> DEFINE g == Count(uG)
               x == Count(uA)
               y == Count(uB)
               n == Len(body)
    <3>1. g \in Nat /\ x \in Nat /\ y \in Nat /\ n \in Nat /\ i \in Nat
        BY <1>6, <2>5
    <3>2. a = 7 + g /\ b = a + 1 + x /\ c = b + 1 + y
        BY <2>5
    <3>3. \/ i \in 7..a - 1 \/ i \in a + 1 .. b - 1 \/ i \in b + 1 .. c - 1
          \/ i \in c + 1 .. n
        BY <2>4
    <3> HIDE DEF g, x, y, n
    <3>4. \/ i - 6 \in 1..g /\ 6 + (i - 6) = i
          \/ i - a \in 1..x /\ a + (i - a) = i
          \/ i - b \in 1..y /\ b + (i - b) = i
          \/ i - c \in 1 .. n - c /\ c + (i - c) = i
        BY <2>5a, <3>1, <3>2, <3>3
    <3> QED
        BY <3>4, Zenon DEF g, x, y, n
  <2> QED
      BY <2>6, Zenon DEF a, b, c
<1>8. CASE i - 6 \in 1..Count(uG) /\ 6 + (i - 6) = i
  <2>1. UpdateLines(uG)[i - 6].tab
      BY <1>2, <1>3, <1>8, Zenon
  <2>2. body[6 + (i - 6)] = UpdateLines(uG)[i - 6]
      BY <1>4, <1>8, Zenon
  <2>3. body[i] = UpdateLines(uG)[i - 6]
      BY <1>8, <2>2
  <2> QED
      BY <2>1, <2>3, Zenon
<1>9. CASE i - TeamA(e) \in 1..Count(uA) /\ TeamA(e) + (i - TeamA(e)) = i
  <2>1. UpdateLines(uA)[i - TeamA(e)].tab
      BY <1>2, <1>3, <1>9, Zenon
  <2>2. body[TeamA(e) + (i - TeamA(e))] = UpdateLines(uA)[i - TeamA(e)]
      BY <1>4, <1>9, Zenon
  <2>3. body[i] = UpdateLines(uA)[i - TeamA(e)]
      BY <1>9, <2>2
  <2> QED
      BY <2>1, <2>3, Zenon
<1>10. CASE i - TeamB(e) \in 1..Count(uB) /\ TeamB(e) + (i - TeamB(e)) = i
  <2>1. UpdateLines(uB)[i - TeamB(e)].tab
      BY <1>2, <1>3, <1>10, Zenon
  <2>2. body[TeamB(e) + (i - TeamB(e))] = UpdateLines(uB)[i - TeamB(e)]
      BY <1>4, <1>10, Zenon
  <2>3. body[i] = UpdateLines(uB)[i - TeamB(e)]
      BY <1>10, <2>2
  <2> QED
      BY <2>1, <2>3, Zenon
<1>11. CASE i - Descr(e) \in 1 .. Len(body) - Descr(e) /\ Descr(e) + (i - Descr(e)) = i
  <2>1. body[i] = Text(d[i - Descr(e)])
      BY <1>4, <1>11, Zenon
  <2> QED
      BY <2>1 DEF Text, Line
<1> QED
    BY <1>7, <1>8, <1>9, <1>10, <1>11, Zenon

\* Each title is found where it was put.
LEMMA TitlesFound ==
    ASSUME NEW user, NEW e \in Written, NEW body, Laid(body, user, e)
    PROVE  /\ Find(body, "user") = 1 /\ Find(body, "team a") = 2 /\ Find(body, "team b") = 3
           /\ Find(body, "event name") = 4 /\ Find(body, "time") = 5
           /\ Find(body, "general game updates") = 6
           /\ Find(body, "team a updates") = TeamA(e) /\ Find(body, "team b updates") = TeamB(e)
           /\ Find(body, "description") = Descr(e)
<1> DEFINE P == {1, 2, 3, 4, 5, 6, TeamA(e), TeamB(e), Descr(e)}
           S == Lines(user, e)
           nG == Count(e.updates["general game updates"])
           nA == Count(e.updates["team a updates"])
           nB == Count(e.updates["team b updates"])
<1>1. /\ nG \in Nat /\ nA \in Nat /\ nB \in Nat
      /\ TeamA(e) = 7 + nG /\ TeamB(e) = TeamA(e) + 1 + nA /\ Descr(e) = TeamB(e) + 1 + nB
    BY TitlesInOrder, Zenon
<1>2. body \in Seq(S) /\ Descr(e) <= Len(body)
    BY Zenon DEF Laid
<1> HIDE DEF nG, nA, nB, S
<1>3. P \subseteq 1..Len(body)
    BY <1>1, <1>2
<1>4. ASSUME NEW t, NEW v PROVE Line(t, v).left = t /\ ~Line(t, v).tab
    BY DEF Line
<1>4a. ASSUME NEW line, NEW t, NEW v, line = Line(t, v) PROVE line.left = t
    BY <1>4, <1>4a
<1>5. /\ body[1].left = "user" /\ body[2].left = "team a" /\ body[3].left = "team b"
      /\ body[4].left = "event name" /\ body[5].left = "time"
      /\ body[6].left = "general game updates"
      /\ body[TeamA(e)].left = "team a updates" /\ body[TeamB(e)].left = "team b updates"
      /\ body[Descr(e)].left = "description"
      /\ \A i \in P : ~body[i].tab
  <2>1. /\ body[1] = Line("user", user) /\ body[2] = Line("team a", lower[e.team_a])
        /\ body[3] = Line("team b", lower[e.team_b]) /\ body[4] = Line("event name", e.name)
        /\ body[5] = Line("time", e.time) /\ body[6] = Line("general game updates", "")
        /\ body[TeamA(e)] = Line("team a updates", "")
        /\ body[TeamB(e)] = Line("team b updates", "")
        /\ body[Descr(e)] = Line("description", "")
      BY Zenon DEF Laid
  <2>2. ASSUME NEW i \in P PROVE ~body[i].tab
    <3>1. \/ i = 1 \/ i = 2 \/ i = 3 \/ i = 4 \/ i = 5 \/ i = 6
          \/ i = TeamA(e) \/ i = TeamB(e) \/ i = Descr(e)
        BY Zenon
    <3>2. \E t, v : body[i] = Line(t, v)
        BY <2>1, <3>1, Zenon
    <3> QED
        BY <1>4, <3>2, Zenon
  <2>3. body[1].left = "user"
    <3>1. body[1] = Line("user", user)
        BY <2>1, Zenon
    <3> QED
        BY ONLY <1>4a, <3>1, Zenon
  <2>4. body[2].left = "team a"
    <3>1. body[2] = Line("team a", lower[e.team_a])
        BY <2>1, Zenon
    <3> QED
        BY ONLY <1>4a, <3>1, Zenon
  <2>5. body[3].left = "team b"
    <3>1. body[3] = Line("team b", lower[e.team_b])
        BY <2>1, Zenon
    <3> QED
        BY ONLY <1>4a, <3>1, Zenon
  <2>6. body[4].left = "event name"
    <3>1. body[4] = Line("event name", e.name)
        BY <2>1, Zenon
    <3> QED
        BY ONLY <1>4a, <3>1, Zenon
  <2>7. body[5].left = "time"
    <3>1. body[5] = Line("time", e.time)
        BY <2>1, Zenon
    <3> QED
        BY ONLY <1>4a, <3>1, Zenon
  <2>8. body[6].left = "general game updates"
    <3>1. body[6] = Line("general game updates", "")
        BY <2>1, Zenon
    <3> QED
        BY ONLY <1>4a, <3>1, Zenon
  <2>9. body[TeamA(e)].left = "team a updates"
    <3>1. body[TeamA(e)] = Line("team a updates", "")
        BY <2>1, Zenon
    <3> QED
        BY ONLY <1>4a, <3>1, Zenon
  <2>10. body[TeamB(e)].left = "team b updates"
    <3>1. body[TeamB(e)] = Line("team b updates", "")
        BY <2>1, Zenon
    <3> QED
        BY ONLY <1>4a, <3>1, Zenon
  <2>11. body[Descr(e)].left = "description"
    <3>1. body[Descr(e)] = Line("description", "")
        BY <2>1, Zenon
    <3> QED
        BY ONLY <1>4a, <3>1, Zenon
  <2> QED
      BY <2>2, <2>3, <2>4, <2>5, <2>6, <2>7, <2>8, <2>9, <2>10, <2>11, Zenon
<1>6. ASSUME NEW t, t # NoText, NEW p \in P, body[p].left = t, \A i \in P : i # p => body[i].left # t
      PROVE  Find(body, t) = p
  <2>1. ASSUME NEW i \in 1..Len(body), i # p PROVE body[i].tab \/ body[i].left # t
    <3>1. CASE i \in P
        BY <1>6, <2>1, <3>1, Zenon
    <3>2. CASE i \notin P
        BY <1>6, <3>2, UntitledLines, Zenon
    <3> QED
        BY <3>1, <3>2
  <2>2. p \in 1..Len(body) /\ ~body[p].tab
      BY <1>3, <1>5, Zenon
  <2> QED
      BY <1>2, <1>6, <2>1, <2>2, FindIs
<1>7. Find(body, "user") = 1
    BY <1>5, <1>6 DEF NoText
<1> QED
    BY <1>5, <1>6 DEF NoText

LEMMA DescriptionKept ==
    ASSUME NEW user, NEW e \in Written, NEW body, Laid(body, user, e),
           Len(body) - Descr(e) \in 0..Len(e.description),
           \A i \in Len(body) - Descr(e) + 1 .. Len(e.description) : e.description[i] = <<>>
    PROVE  Description(body, Descr(e)) = FlattenSeq(e.description)
<1> DEFINE d == e.description
           m == Len(body) - Descr(e)
<1>1. d \in Seq(Seq(Values)) /\ m \in 0..Len(d) /\ \A i \in m + 1 .. Len(d) : d[i] = <<>>
    BY DEF Written
<1>2. \A i \in 1..m : body[Descr(e) + i].val = d[i]
  <2>1. \A i \in 1..m : body[Descr(e) + i] = Text(d[i])
      BY Zenon DEF Laid
  <2>2. \A words : Text(words).val = words
      BY DEF Text, Line
  <2> QED
      BY <2>1, <2>2, Zenon
<1> HIDE DEF d
<1>3. [i \in 1..m |-> body[Descr(e) + i].val] = [i \in 1..m |-> d[i]]
    BY <1>2, Zenon
<1>4. Description(body, Descr(e)) = FlattenSeq([i \in 1..m |-> d[i]])
    BY <1>3, Zenon DEF Description
<1> HIDE DEF m
<1>5. [i \in 1..m |-> d[i]] = SubSeq(d, 1, m)
    BY <1>1
<1>6. FlattenSeq(SubSeq(d, 1, m)) = FlattenSeq(d)
    BY <1>1, FlattenBlank
<1> QED
    BY <1>4, <1>5, <1>6, Zenon DEF d

\* What reads the report of an event gets the user who reported it, the names of the teams
\* in small letters, all updates, and the words of the description without its lines.
THEOREM ParseReport ==
    ASSUME NEW user, NEW e \in Written
    PROVE  parse(extract(reportEvent(user, e)))
              = Event(user, lower[e.team_a], lower[e.team_b], e.name, e.time, e.updates,
                      FlattenSeq(e.description))
<1> DEFINE body == extract(reportEvent(user, e))
           uG == e.updates["general game updates"]
           uA == e.updates["team a updates"]
           uB == e.updates["team b updates"]
           section(s, g, a, b, d) ==
              CASE s = "general game updates" -> Updates(body, g, a)
                [] s = "team a updates" -> Updates(body, a, b)
                [] s = "team b updates" -> Updates(body, b, d)
           P(i1, i2, i3, i4, i5, g, a, b, d) ==
              Event(body[i1].val, body[i2].val, body[i3].val, body[i4].val, body[i5].val,
                    [s \in Sections |-> section(s, g, a, b, d)], Description(body, d))
           sec(s) == section(s, 6, TeamA(e), TeamB(e), Descr(e))
<1>1. /\ Laid(body, user, e)
      /\ Len(body) - Descr(e) \in 0..Len(e.description)
      /\ \A i \in Len(body) - Descr(e) + 1 .. Len(e.description) : e.description[i] = <<>>
    BY ExtractLaid, Zenon
<1> HIDE DEF body
<1>2. parse(body) = Event(body[1].val, body[2].val, body[3].val, body[4].val, body[5].val,
                          [s \in Sections |-> sec(s)], Description(body, Descr(e)))
  <2>1. /\ Find(body, "user") = 1 /\ Find(body, "team a") = 2 /\ Find(body, "team b") = 3
        /\ Find(body, "event name") = 4 /\ Find(body, "time") = 5
      BY <1>1, TitlesFound, Zenon
  <2>2. /\ Find(body, "general game updates") = 6
        /\ Find(body, "team a updates") = TeamA(e) /\ Find(body, "team b updates") = TeamB(e)
        /\ Find(body, "description") = Descr(e)
      BY <1>1, TitlesFound, Zenon
  <2>3. parse(body) = P(Find(body, "user"), Find(body, "team a"), Find(body, "team b"),
                        Find(body, "event name"), Find(body, "time"),
                        Find(body, "general game updates"), Find(body, "team a updates"),
                        Find(body, "team b updates"), Find(body, "description"))
      BY Zenon DEF parse
  <2>4. P(1, 2, 3, 4, 5, 6, TeamA(e), TeamB(e), Descr(e))
            = Event(body[1].val, body[2].val, body[3].val, body[4].val, body[5].val,
                    [s \in Sections |-> sec(s)], Description(body, Descr(e)))
      BY Zenon
  <2> HIDE DEF P, sec
  <2> QED
      BY <2>1, <2>2, <2>3, <2>4, Zenon
<1>3. /\ body[1].val = user /\ body[2].val = lower[e.team_a] /\ body[3].val = lower[e.team_b]
      /\ body[4].val = e.name /\ body[5].val = e.time
  <2>1. /\ body[1] = Line("user", user) /\ body[2] = Line("team a", lower[e.team_a])
        /\ body[3] = Line("team b", lower[e.team_b]) /\ body[4] = Line("event name", e.name)
        /\ body[5] = Line("time", e.time)
      BY <1>1, Zenon DEF Laid
  <2>2. ASSUME NEW k, NEW t, NEW v, body[k] = Line(t, v) PROVE body[k].val = v
      BY <2>2 DEF Line
  <2> DEFINE a == lower[e.team_a]
             b == lower[e.team_b]
             n == e.name
             t == e.time
  <2>3. body[1] = Line("user", user) /\ body[2] = Line("team a", a) /\ body[3] = Line("team b", b)
      BY <2>1
  <2>4. body[4] = Line("event name", n) /\ body[5] = Line("time", t)
      BY <2>1
  <2> HIDE DEF a, b, n, t
  <2>5. body[1].val = user /\ body[2].val = a /\ body[3].val = b
      BY <2>2, <2>3, Zenon
  <2>6. body[4].val = n /\ body[5].val = t
      BY <2>2, <2>4, Zenon
  <2> QED
      BY <2>5, <2>6, Zenon DEF a, b, n, t
<1>4. e.updates \in [Sections -> Maps] /\ uG \in Maps /\ uA \in Maps /\ uB \in Maps
    BY DEF Written, Sections
<1>5. /\ Updates(body, 6, TeamA(e)) = uG /\ Updates(body, TeamA(e), TeamB(e)) = uA
      /\ Updates(body, TeamB(e), Descr(e)) = uB
  <2> DEFINE nG == Count(uG)
             nA == Count(uA)
             nB == Count(uB)
  <2>1. /\ nG \in Nat /\ nA \in Nat /\ nB \in Nat
        /\ TeamA(e) = 7 + nG /\ TeamB(e) = TeamA(e) + 1 + nA /\ Descr(e) = TeamB(e) + 1 + nB
      BY TitlesInOrder, Zenon
  <2> HIDE DEF nG, nA, nB
  <2>2. /\ TeamA(e) \in Int /\ TeamB(e) \in Int
        /\ TeamA(e) = 6 + nG + 1 /\ TeamB(e) = TeamA(e) + nA + 1 /\ Descr(e) = TeamB(e) + nB + 1
      BY <2>1
  <2>3. /\ \A i \in 1..nG : body[6 + i] = UpdateLines(uG)[i]
        /\ \A i \in 1..nA : body[TeamA(e) + i] = UpdateLines(uA)[i]
        /\ \A i \in 1..nB : body[TeamB(e) + i] = UpdateLines(uB)[i]
      BY <1>1, Zenon DEF Laid, nG, nA, nB
  <2> HIDE DEF uG, uA, uB
  <2>4. Updates(body, 6, 6 + nG + 1) = uG
      BY <1>4, <2>3, UpdatesAre DEF nG
  <2>5. Updates(body, TeamA(e), TeamA(e) + nA + 1) = uA
      BY <1>4, <2>2, <2>3, UpdatesAre DEF nA
  <2>6. Updates(body, TeamB(e), TeamB(e) + nB + 1) = uB
      BY <1>4, <2>2, <2>3, UpdatesAre DEF nB
  <2> QED
      BY <2>2, <2>4, <2>5, <2>6
<1>6. [s \in Sections |-> sec(s)] = e.updates
  <2>1. ASSUME NEW s \in Sections PROVE sec(s) = e.updates[s]
      BY <1>5 DEF Sections
  <2>2. e.updates = [s \in Sections |-> e.updates[s]]
      BY <1>4
  <2> HIDE DEF sec
  <2>3. [s \in Sections |-> sec(s)] = [s \in Sections |-> e.updates[s]]
      BY <2>1
  <2> QED
      BY <2>2, <2>3, Zenon
<1>7. Description(body, Descr(e)) = FlattenSeq(e.description)
    BY <1>1, DescriptionKept, Zenon
<1> HIDE DEF sec
<1>8. parse(body) = Event(user, lower[e.team_a], lower[e.team_b], e.name, e.time, e.updates,
                          FlattenSeq(e.description))
    BY <1>2, <1>3, <1>6, <1>7, Zenon
<1> QED
    BY <1>8 DEF body

-----------------------------------------------------------------------------
(* What is on its way *)

By(c, e) == [e EXCEPT !.user = c]
Origins == {By(c, e) : c \in Clients, e \in Written}

Sent(c, e) ==
    Frame("SEND", gameName(e.team_a, e.team_b), reportEvent(c, e), By(c, e))
Passed(c, e) ==
    Frame("MESSAGE", gameName(e.team_a, e.team_b), extract(reportEvent(c, e)), By(c, e))

Upward(c) ==
    {Plain("SUBSCRIBE", game) : game \in Games} \cup {Plain("DISCONNECT", <<>>)}
    \cup {Sent(c, e) : e \in Written}
Downward == {Plain("RECEIPT", <<>>)} \cup {Passed(c, e) : c \in Clients, e \in Written}

FlagsOK ==
    /\ joined \in [Clients -> SUBSET Games]
    /\ online \in [Clients -> BOOLEAN] /\ closing \in [Clients -> BOOLEAN]
    /\ subscribers \in [Games -> SUBSET Clients]
    /\ threads \in SUBSET Clients /\ cut \in BOOLEAN /\ (~cut => threads = Clients)
    /\ reports \in 0..MaxReports
TodoOK == todo \in [Clients -> Seq(Written)]
UpOK == DOMAIN up = Clients /\ \A c \in Clients : up[c] \in Seq(Upward(c))
DownOK == down \in [Clients -> Seq(Downward)]
HistoryOK == due \in [Clients -> Seq(Origins)] /\ received \in [Clients -> Seq(Origins)]

Known(known) ==
    /\ DOMAIN known \subseteq Games \cup Words
    /\ \A game \in DOMAIN known : DOMAIN known[game] \subseteq Clients
SummariesOK == DOMAIN summaries = Clients /\ \A c \in Clients : Known(summaries[c])

TInv == FlagsOK /\ TodoOK /\ UpOK /\ DownOK /\ HistoryOK /\ SummariesOK

LEMMA FramesUp ==
    ASSUME NEW c, NEW f \in Upward(c)
    PROVE  /\ f.command \in {"SUBSCRIBE", "SEND", "DISCONNECT"}
           /\ f.command = "SUBSCRIBE" => f.game \in Games
           /\ f.command = "SEND" => \E e \in Written : f = Sent(c, e)
<1>1. CASE \E game \in Games : f = Plain("SUBSCRIBE", game)
    BY <1>1 DEF Plain, Frame
<1>2. CASE f = Plain("DISCONNECT", <<>>)
    BY <1>2 DEF Plain, Frame
<1>3. CASE \E e \in Written : f = Sent(c, e)
  <2>1. f.command = "SEND"
      BY <1>3 DEF Sent, Frame
  <2> QED
      BY <1>3, <2>1
<1> QED
    BY <1>1, <1>2, <1>3 DEF Upward

LEMMA FramesDown ==
    ASSUME NEW f \in Downward
    PROVE  /\ f.command \in {"RECEIPT", "MESSAGE"}
           /\ f.command = "MESSAGE" => \E c \in Clients, e \in Written : f = Passed(c, e)
<1>1. CASE f = Plain("RECEIPT", <<>>)
    BY <1>1 DEF Plain, Frame
<1>2. CASE \E c \in Clients, e \in Written : f = Passed(c, e)
  <2>1. f.command = "MESSAGE"
      BY <1>2 DEF Passed, Frame
  <2> QED
      BY <1>2, <2>1
<1> QED
    BY <1>1, <1>2 DEF Downward

LEMMA TypesFollow ==
    ASSUME TInv
    PROVE  TypeOK
<1>1. ASSUME NEW c \in Clients, NEW i \in DOMAIN up[c]
      PROVE  up[c][i].command \in {"SUBSCRIBE", "SEND", "DISCONNECT"}
  <2>1. up[c][i] \in Upward(c)
      BY <1>1 DEF TInv, UpOK
  <2> QED
      BY <2>1, FramesUp, Zenon
<1>2. ASSUME NEW c \in Clients, NEW i \in DOMAIN down[c]
      PROVE  down[c][i].command \in {"RECEIPT", "MESSAGE"}
  <2>1. down[c][i] \in Downward
      BY <1>2 DEF TInv, DownOK
  <2> QED
      BY <2>1, FramesDown, Zenon
<1> QED
    BY <1>1, <1>2, Zenon DEF TInv, FlagsOK, SummariesOK, Known, TypeOK

\* The events of a file.
LEMMA FileIsWritten ==
    ASSUME NEW file \in Files
    PROVE  /\ parseEventsFile(file) \in Seq(Written)
           /\ gameName(file.team_a, file.team_b) \in Games
<1> DEFINE events == file.events
           a == file.team_a
           b == file.team_b
<1>1. /\ a \in Names /\ b \in Names /\ events \in Seq(FileEvents) /\ gameName(a, b) \in Games
    BY ReportsAssumption DEF Games
<1>2. parseEventsFile(file) =
          [i \in DOMAIN events |->
              Event("event without a user", a, b, events[i].name, events[i].time,
                    events[i].updates, events[i].description)]
    BY Zenon DEF parseEventsFile
<1> HIDE DEF events, a, b
<1>3. ASSUME NEW x \in FileEvents
      PROVE  Event("event without a user", a, b, x.name, x.time, x.updates, x.description)
                \in Written
  <2>1. /\ x.name \in Values /\ x.time \in Int /\ x.updates \in [Sections -> Maps]
        /\ x.description \in Seq(Seq(Values))
      BY DEF FileEvents
  <2> QED
      BY <1>1, <2>1 DEF Event, Written
<1>4. DOMAIN events = 1..Len(events) /\ Len(events) \in Nat /\ \A i \in 1..Len(events) : events[i] \in FileEvents
    BY <1>1
<1>5. \A i \in 1..Len(events) :
          Event("event without a user", a, b, events[i].name, events[i].time,
                events[i].updates, events[i].description) \in Written
    BY <1>3, <1>4, Zenon
<1> DEFINE made(x) == Event("event without a user", a, b, x.name, x.time, x.updates, x.description)
<1>6. parseEventsFile(file) \in Seq(Written)
  <2>1. parseEventsFile(file) = [i \in 1..Len(events) |-> made(events[i])]
      BY <1>2, <1>4, Zenon
  <2>2. \A i \in 1..Len(events) : made(events[i]) \in Written
      BY <1>5, Zenon
  <2> HIDE DEF made
  <2> QED
      BY <1>4, <2>1, <2>2
<1> QED
    BY <1>1, <1>6 DEF a, b

LEMMA WrittenGame ==
    ASSUME NEW e \in Written
    PROVE  gameName(e.team_a, e.team_b) \in Games
BY DEF Written

-----------------------------------------------------------------------------
(* Every step keeps the types *)

LEMMA PutKeeps ==
    ASSUME UpOK, NEW c \in Clients, NEW frame \in Upward(c), Put(c, frame)
    PROVE  UpOK' /\ up'[c] = Append(up[c], frame) /\ \A d \in Clients \ {c} : up'[d] = up[d]
<1>1. /\ DOMAIN up' = Clients /\ up'[c] = Append(up[c], frame)
      /\ \A d \in Clients \ {c} : up'[d] = up[d]
    BY DEF UpOK, Put
<1>2. ASSUME NEW d \in Clients PROVE up'[d] \in Seq(Upward(d))
  <2>1. up[d] \in Seq(Upward(d))
      BY DEF UpOK
  <2>2. CASE d = c
      BY <1>1, <2>1, <2>2
  <2>3. CASE d # c
      BY <1>1, <2>1, <2>3
  <2> QED
      BY <2>2, <2>3
<1>3. \A d \in Clients : Upward(d)' = Upward(d)
    BY DEF Upward, Sent
<1> QED
    BY <1>1, <1>2, <1>3 DEF UpOK

LEMMA TakenKeeps ==
    ASSUME UpOK, NEW c \in Clients, up[c] # <<>>, Taken(c)
    PROVE  /\ UpOK' /\ up'[c] = Tail(up[c]) /\ \A d \in Clients \ {c} : up'[d] = up[d]
           /\ Head(up[c]) \in Upward(c)
<1>1. /\ DOMAIN up' = Clients /\ up'[c] = Tail(up[c])
      /\ \A d \in Clients \ {c} : up'[d] = up[d]
    BY DEF UpOK, Taken
<1>2. ASSUME NEW d \in Clients PROVE up'[d] \in Seq(Upward(d))
  <2>1. up[d] \in Seq(Upward(d))
      BY DEF UpOK
  <2>2. CASE d = c
    <3>1. ASSUME NEW s \in Seq(Upward(d)), s # <<>> PROVE Tail(s) \in Seq(Upward(d))
        BY <3>1, HeadTailProperties, Zenon
    <3> QED
        BY <1>1, <2>1, <2>2, <3>1, Zenon
  <2>3. CASE d # c
      BY <1>1, <2>1, <2>3
  <2> QED
      BY <2>2, <2>3
<1>3. Head(up[c]) \in Upward(c)
    BY DEF UpOK
<1>4. \A d \in Clients : Upward(d)' = Upward(d)
    BY DEF Upward, Sent
<1> QED
    BY <1>1, <1>2, <1>3, <1>4 DEF UpOK

LEMMA ReceiptKeeps ==
    ASSUME DownOK, NEW c \in Clients,
           down' = [down EXCEPT ![c] = Append(@, Plain("RECEIPT", <<>>))]
    PROVE  DownOK'
<1>1. Plain("RECEIPT", <<>>) \in Downward
    BY DEF Downward
<1> HIDE DEF Downward
<1> QED
    BY <1>1 DEF DownOK

\* What a step does not touch keeps its type.
LEMMA Untouched ==
    ASSUME TInv
    PROVE  /\ UNCHANGED <<joined, online, closing, subscribers, threads, cut, reports>> => FlagsOK'
           /\ UNCHANGED todo => TodoOK'
           /\ UNCHANGED up => UpOK'
           /\ UNCHANGED down => DownOK'
           /\ UNCHANGED <<due, received>> => HistoryOK'
           /\ UNCHANGED summaries => SummariesOK'
<1>1. UNCHANGED <<joined, online, closing, subscribers, threads, cut, reports>> => FlagsOK'
    BY DEF TInv, FlagsOK
<1>2. UNCHANGED todo => TodoOK'
    BY DEF TInv, TodoOK
<1>3. UNCHANGED up => UpOK'
    BY DEF TInv, UpOK
<1>4. UNCHANGED down => DownOK'
    BY DEF TInv, DownOK
<1>5. UNCHANGED <<due, received>> => HistoryOK'
    BY DEF TInv, HistoryOK
<1>6. UNCHANGED summaries => SummariesOK'
    BY DEF TInv, SummariesOK
<1> QED
    BY <1>1, <1>2, <1>3, <1>4, <1>5, <1>6, Zenon

LEMMA TypesStutter ==
    ASSUME TInv, UNCHANGED vars
    PROVE  TInv'
BY Untouched DEF TInv, vars, client, network, history

LEMMA JoinTypes ==
    ASSUME TInv, NEW c \in Clients, NEW game \in Games, Join(c, game)
    PROVE  TInv'
<1>1. FlagsOK'
  <2>1. joined' \in [Clients -> SUBSET Games]
      BY DEF Join, TInv, FlagsOK
  <2> QED
      BY <2>1 DEF Join, TInv, FlagsOK, history
<1>2. UpOK'
  <2>1. Plain("SUBSCRIBE", game) \in Upward(c)
      BY DEF Upward
  <2> QED
      BY <2>1, PutKeeps DEF Join, TInv
<1> QED
    BY <1>1, <1>2, Untouched DEF Join, TInv, history

LEMMA ReportTypes ==
    ASSUME TInv, NEW c \in Clients, NEW file \in Files, Report(c, file)
    PROVE  TInv'
<1>1. FlagsOK'
    BY ReportsAssumption DEF Report, TInv, FlagsOK, network
<1>2. TodoOK'
    BY FileIsWritten DEF Report, TInv, TodoOK
<1> QED
    BY <1>1, <1>2, Untouched DEF Report, TInv, network

LEMMA SendEventTypes ==
    ASSUME TInv, NEW c \in Clients, SendEvent(c)
    PROVE  TInv'
<1>1. todo[c] \in Seq(Written) /\ todo[c] # <<>>
    BY DEF SendEvent, TInv, TodoOK
<1>2. Head(todo[c]) \in Written
    BY <1>1
<1>3. TodoOK'
    BY <1>1 DEF SendEvent, TInv, TodoOK
<1>4. \/ Put(c, Sent(c, Head(todo[c]))) \/ UNCHANGED up
    BY DEF SendEvent, Sent, By
<1>5. UpOK'
  <2>1. Sent(c, Head(todo[c])) \in Upward(c)
      BY <1>2 DEF Upward
  <2> QED
      BY <1>4, <2>1, PutKeeps, Untouched DEF TInv
<1> QED
    BY <1>3, <1>5, Untouched DEF SendEvent, TInv, history

LEMMA EmplacedIs ==
    ASSUME NEW map, NEW key, NEW val
    PROVE  LET more == Emplaced(map, Pair(key, val))
           IN  /\ DOMAIN more = DOMAIN map \cup {key}
               /\ \A k \in DOMAIN map : more[k] = map[k]
               /\ key \notin DOMAIN map => more[key] = val
BY DEF Emplaced, Pair

LEMMA SummaryTypes ==
    ASSUME TInv, NEW c \in Clients, NEW word \in Words, Summary(c, word)
    PROVE  TInv'
<1> DEFINE more == Emplaced(summaries[c], Pair(word, Nothing))
<1>1. DOMAIN more = DOMAIN summaries[c] \cup {word}
    BY EmplacedIs, Zenon
<1>2. \A k \in DOMAIN summaries[c] : more[k] = summaries[c][k]
    BY DEF Emplaced
<1>3. word \notin DOMAIN summaries[c] => more[word] = Nothing
    BY EmplacedIs, Zenon
<1> HIDE DEF more
<1>4. Known(more)
    BY <1>1, <1>2, <1>3 DEF TInv, SummariesOK, Known, Nothing
<1>5. SummariesOK'
  <2>1. summaries' = [summaries EXCEPT ![c] = more]
      BY DEF Summary, more
  <2> QED
      BY <1>4, <2>1 DEF TInv, SummariesOK, Known
<1> QED
    BY <1>5, Untouched DEF Summary, TInv, network, history

LEMMA LogoutTypes ==
    ASSUME TInv, NEW c \in Clients, Logout(c)
    PROVE  TInv'
<1>1. FlagsOK'
    BY DEF Logout, TInv, FlagsOK, history
<1>2. UpOK'
  <2>1. Plain("DISCONNECT", <<>>) \in Upward(c)
      BY DEF Upward
  <2> QED
      BY <2>1, PutKeeps DEF Logout, TInv
<1> QED
    BY <1>1, <1>2, Untouched DEF Logout, TInv, history

LEMMA SubscribeTypes ==
    ASSUME TInv, NEW c \in Clients, exectueSUBSCRIBE(c)
    PROVE  TInv'
<1>1. UpOK /\ up[c] # <<>> /\ Taken(c) /\ Head(up[c]).command = "SUBSCRIBE"
    BY DEF exectueSUBSCRIBE, TInv
<1>2. UpOK' /\ Head(up[c]) \in Upward(c)
    BY <1>1, TakenKeeps
<1>3. Head(up[c]).game \in Games
    BY <1>1, <1>2, FramesUp
<1>4. FlagsOK'
    BY <1>3 DEF exectueSUBSCRIBE, TInv, FlagsOK, client, history
<1>5. DownOK'
    BY ReceiptKeeps DEF exectueSUBSCRIBE, TInv
<1> QED
    BY <1>2, <1>4, <1>5, Untouched DEF exectueSUBSCRIBE, TInv, client, history

LEMMA DisconnectTypes ==
    ASSUME TInv, NEW c \in Clients, exectueDISCONNECT(c)
    PROVE  TInv'
<1>1. UpOK /\ up[c] # <<>> /\ Taken(c)
    BY DEF exectueDISCONNECT, TInv
<1>2. UpOK'
    BY <1>1, TakenKeeps
<1>3. FlagsOK'
    BY DEF exectueDISCONNECT, TInv, FlagsOK, client, history
<1>4. DownOK'
    BY ReceiptKeeps DEF exectueDISCONNECT, TInv
<1> QED
    BY <1>2, <1>3, <1>4, Untouched DEF exectueDISCONNECT, TInv, client, history

\* Every SEND is passed on, to all who are on the channel unless it is cut short.
LEMMA SendPasses ==
    ASSUME NEW c, executeSEND(c) \/ SENDCutShort(c)
    PROVE  \E to : PassedOn(c, to) /\ (~cut' => ~cut /\ to = subscribers[Head(up[c]).game])
<1>1. CASE executeSEND(c)
    BY <1>1, Zenon DEF executeSEND, Reached
<1>2. CASE SENDCutShort(c)
    BY <1>2, Zenon DEF SENDCutShort
<1> QED
    BY <1>1, <1>2

\* What becomes of a SEND of c.
Passes(c, e, to) ==
    /\ Head(up[c]).game = gameName(e.team_a, e.team_b)
    /\ down' = [d \in Clients |->
                  IF d \in to /\ online[d] /\ d \in threads
                  THEN Append(down[d], Passed(c, e)) ELSE down[d]]
    /\ due' = [d \in Clients |->
                  IF d \in subscribers[gameName(e.team_a, e.team_b)] /\ online[d]
                  THEN Append(due[d], By(c, e)) ELSE due[d]]

LEMMA SendIs ==
    ASSUME UpOK, NEW c \in Clients, NEW to, PassedOn(c, to)
    PROVE  \E e \in Written : Passes(c, e, to)
<1> DEFINE f == Head(up[c])
           m == Frame("MESSAGE", f.game, extract(f.body), f.origin)
<1>1. f \in Upward(c) /\ f.command = "SEND"
    BY TakenKeeps DEF PassedOn
<1>2. PICK e \in Written : f = Sent(c, e)
    BY <1>1, FramesUp
<1>3. m = Passed(c, e) /\ f.game = gameName(e.team_a, e.team_b) /\ f.origin = By(c, e)
  <2> DEFINE g == gameName(e.team_a, e.team_b)
             b == reportEvent(c, e)
             o == By(c, e)
  <2>1. f = Frame("SEND", g, b, o)
      BY <1>2, Zenon DEF Sent
  <2> HIDE DEF f, g, b, o
  <2>2. f.game = g /\ f.origin = o /\ f.body = b
      BY <2>1 DEF Frame
  <2> QED
      BY <2>2, Zenon DEF Passed, g, b, o
<1>4. /\ down' = [d \in Clients |->
                    IF d \in to /\ online[d] /\ d \in threads THEN Append(down[d], m)
                    ELSE down[d]]
      /\ due' = [d \in Clients |->
                    IF d \in subscribers[f.game] /\ online[d]
                    THEN Append(due[d], f.origin) ELSE due[d]]
    BY DEF PassedOn
<1> HIDE DEF m, f
<1>5. down' = [d \in Clients |->
                 IF d \in to /\ online[d] /\ d \in threads
                 THEN Append(down[d], Passed(c, e)) ELSE down[d]]
    BY <1>3, <1>4, Zenon
<1>6. due' = [d \in Clients |->
                IF d \in subscribers[gameName(e.team_a, e.team_b)] /\ online[d]
                THEN Append(due[d], By(c, e)) ELSE due[d]]
    BY <1>3, <1>4, Zenon
<1> QED
    BY <1>3, <1>5, <1>6, Zenon DEF f, Passes

LEMMA PassedTypes ==
    ASSUME TInv, NEW c \in Clients, NEW to, PassedOn(c, to),
           threads' \in SUBSET Clients, cut' \in BOOLEAN, ~cut' => threads' = Clients
    PROVE  TInv'
<1>1. UpOK /\ up[c] # <<>> /\ Taken(c)
    BY DEF PassedOn, TInv
<1>2. UpOK'
    BY <1>1, TakenKeeps
<1>3. PICK e \in Written : Passes(c, e, to)
    BY <1>1, SendIs, Zenon
<1>4. Passed(c, e) \in Downward /\ By(c, e) \in Origins
    BY DEF Downward, Origins
<1>5. DownOK'
    BY <1>3, <1>4 DEF Passes, TInv, DownOK
<1>6. HistoryOK'
  <2>1. received' = received
      BY DEF PassedOn
  <2>2. due \in [Clients -> Seq(Origins)]
      BY DEF TInv, HistoryOK
  <2>3. due' \in [Clients -> Seq(Origins)]
      BY <1>3, <1>4, <2>2 DEF Passes
  <2> QED
      BY <2>1, <2>3 DEF TInv, HistoryOK
<1>7. FlagsOK'
    BY DEF PassedOn, TInv, FlagsOK, client
<1> QED
    BY <1>2, <1>5, <1>6, <1>7, Untouched DEF PassedOn, TInv, client

LEMMA SendTypes ==
    ASSUME TInv, NEW c \in Clients, executeSEND(c)
    PROVE  TInv'
<1>1. PassedOn(c, Reached(c, Head(up[c]).game))
    BY DEF executeSEND
<1>2. threads' \in SUBSET Clients /\ cut' \in BOOLEAN /\ (~cut' => threads' = Clients)
    BY DEF executeSEND, TInv, FlagsOK
<1> QED
    BY <1>1, <1>2, PassedTypes, Zenon

LEMMA CutShortTypes ==
    ASSUME TInv, NEW c \in Clients, SENDCutShort(c)
    PROVE  TInv'
<1>1. PICK to : PassedOn(c, to)
    BY Zenon DEF SENDCutShort
<1>2. threads' \in SUBSET Clients /\ cut'
    BY DEF SENDCutShort, TInv, FlagsOK
<1> QED
    BY <1>1, <1>2, PassedTypes, Zenon

LEMMA AfterFrameTypes ==
    ASSUME TInv, NEW c \in Clients, NEW known, Known(known), down[c] # <<>> \/ closing[c],
           AfterFrame(c, known), received' \in [Clients -> Seq(Origins)]
    PROVE  TInv'
<1>1. FlagsOK'
  <2>1. joined' \in [Clients -> SUBSET Games] /\ online' \in [Clients -> BOOLEAN]
      BY DEF AfterFrame, TInv, FlagsOK
  <2> QED
      BY <2>1 DEF AfterFrame, TInv, FlagsOK
<1>2. DownOK'
  <2>1. down[c] \in Seq(Downward)
      BY DEF TInv, DownOK
  <2>2. (down[c] # <<>> => Tail(down[c]) \in Seq(Downward)) /\ <<>> \in Seq(Downward)
      BY <2>1
  <2>3. (IF closing[c] THEN <<>> ELSE Tail(down[c])) \in Seq(Downward)
      BY <2>2, Zenon
  <2> QED
      BY <2>3 DEF AfterFrame, TInv, DownOK
<1>3. HistoryOK'
    BY DEF AfterFrame, TInv, HistoryOK
<1>4. SummariesOK'
  <2> DEFINE kept == IF closing[c] THEN Nothing ELSE known
  <2>1. Known(kept)
      BY DEF Known, Nothing
  <2>2. summaries' = [summaries EXCEPT ![c] = kept]
      BY DEF AfterFrame
  <2> HIDE DEF kept
  <2> QED
      BY <2>1, <2>2 DEF TInv, SummariesOK, Known
<1> QED
    BY <1>1, <1>2, <1>3, <1>4, Untouched DEF AfterFrame, TInv

LEMMA SummaryKnown ==
    ASSUME NEW known, Known(known), NEW game \in Games, NEW user \in Clients, NEW toAdd
    PROVE  Known(update_summary(known, game, user, toAdd))
<1> DEFINE new == update(EmptyEvent(toAdd.team_a, toAdd.team_b), toAdd)
           more == update_summary(known, game, user, toAdd)
<1>1. CASE game \in DOMAIN known /\ user \in DOMAIN known[game]
  <2> DEFINE inner == [known[game] EXCEPT ![user] = update(known[game][user], toAdd)]
  <2>1. more = [known EXCEPT ![game] = inner]
      BY <1>1 DEF update_summary
  <2>2. DOMAIN inner = DOMAIN known[game]
      OBVIOUS
  <2> HIDE DEF more, inner
  <2>3. /\ DOMAIN more = DOMAIN known /\ more[game] = inner
        /\ \A k \in DOMAIN known : k # game => more[k] = known[k]
      BY <1>1, <2>1
  <2>4. DOMAIN inner \subseteq Clients
      BY <1>1, <2>2 DEF Known
  <2>5. Known(more)
      BY <2>3, <2>4 DEF Known
  <2> QED
      BY <2>5 DEF more
<1>2. CASE game \in DOMAIN known /\ user \notin DOMAIN known[game]
  <2> DEFINE inner == Emplaced(known[game], Pair(user, new))
  <2>1. more = [known EXCEPT ![game] = inner]
      BY <1>2 DEF update_summary
  <2>2. DOMAIN inner = DOMAIN known[game] \cup {user}
      BY EmplacedIs
  <2> HIDE DEF more, inner
  <2>3. /\ DOMAIN more = DOMAIN known /\ more[game] = inner
        /\ \A k \in DOMAIN known : k # game => more[k] = known[k]
      BY <1>2, <2>1
  <2>4. DOMAIN inner \subseteq Clients
      BY <1>2, <2>2 DEF Known
  <2>5. Known(more)
      BY <2>3, <2>4 DEF Known
  <2> QED
      BY <2>5 DEF more
<1>3. CASE game \notin DOMAIN known
  <2> DEFINE inner == Pair(user, new)
  <2>1. more = Emplaced(known, Pair(game, inner))
      BY <1>3, Zenon DEF update_summary
  <2>2. DOMAIN inner = {user}
      BY DEF Pair
  <2> HIDE DEF inner, more
  <2>3. /\ DOMAIN more = DOMAIN known \cup {game} /\ more[game] = inner
        /\ \A k \in DOMAIN known : more[k] = known[k]
      BY <1>3, <2>1 DEF Emplaced, Pair
  <2>4. ASSUME NEW k \in DOMAIN more PROVE DOMAIN more[k] \subseteq Clients
      BY <2>2, <2>3, <2>4 DEF Known
  <2>5. Known(more)
      BY <2>3, <2>4 DEF Known
  <2> QED
      BY <2>5 DEF more
<1> QED
    BY <1>1, <1>2, <1>3

\* What the socket thread reads in a MESSAGE.
LEMMA MessageIs ==
    ASSUME TInv, NEW c \in Clients, ReadMESSAGE(c)
    PROVE  \E u \in Clients, e \in Written :
              /\ Head(down[c]) = Passed(u, e)
              /\ received' = [received EXCEPT ![c] = Append(@, By(u, e))]
              /\ AfterFrame(c, update_summary(summaries[c], gameName(e.team_a, e.team_b), u,
                                  Event(u, lower[e.team_a], lower[e.team_b], e.name, e.time,
                                        e.updates, FlattenSeq(e.description))))
<1> DEFINE f == Head(down[c])
<1>1. f \in Downward /\ f.command = "MESSAGE"
    BY DEF TInv, DownOK, ReadMESSAGE
<1>2. PICK u \in Clients, e \in Written : f = Passed(u, e)
    BY <1>1, FramesDown, Zenon
<1>3. f.body = extract(reportEvent(u, e)) /\ f.origin = By(u, e)
    BY <1>2 DEF Passed, Frame
<1> DEFINE p == Event(u, lower[e.team_a], lower[e.team_b], e.name, e.time, e.updates,
                      FlattenSeq(e.description))
<1>4. parse(f.body) = p
    BY <1>3, ParseReport, Zenon
<1>5. p.user = u /\ <<p.team_a, p.team_b>> = gameName(e.team_a, e.team_b)
    BY DEF Event, gameName
<1> HIDE DEF f, p
<1>6. AfterFrame(c, update_summary(summaries[c], <<p.team_a, p.team_b>>, p.user, p))
    BY <1>4, Zenon DEF ReadMESSAGE, f
<1>7. received' = [received EXCEPT ![c] = Append(@, By(u, e))]
    BY <1>3, Zenon DEF ReadMESSAGE, f
<1> QED
    BY <1>2, <1>5, <1>6, <1>7, Zenon DEF f, p

LEMMA MessageTypes ==
    ASSUME TInv, NEW c \in Clients, ReadMESSAGE(c)
    PROVE  TInv'
<1>1. PICK u \in Clients, e \in Written :
          /\ received' = [received EXCEPT ![c] = Append(@, By(u, e))]
          /\ AfterFrame(c, update_summary(summaries[c], gameName(e.team_a, e.team_b), u,
                              Event(u, lower[e.team_a], lower[e.team_b], e.name, e.time,
                                    e.updates, FlattenSeq(e.description))))
    BY MessageIs, Zenon
<1>2. By(u, e) \in Origins
    BY DEF Origins
<1>3. received' \in [Clients -> Seq(Origins)]
    BY <1>1, <1>2 DEF TInv, HistoryOK
<1>4. Known(summaries[c]) /\ gameName(e.team_a, e.team_b) \in Games
    BY WrittenGame DEF TInv, SummariesOK
<1>5. Known(update_summary(summaries[c], gameName(e.team_a, e.team_b), u,
                Event(u, lower[e.team_a], lower[e.team_b], e.name, e.time,
                      e.updates, FlattenSeq(e.description))))
    BY <1>4, SummaryKnown, Zenon
<1>6. down[c] # <<>>
    BY DEF ReadMESSAGE
<1> QED
    BY <1>1, <1>3, <1>5, <1>6, AfterFrameTypes, Zenon

LEMMA ReceiptTypes ==
    ASSUME TInv, NEW c \in Clients, ReadRECEIPT(c)
    PROVE  TInv'
<1>1. Known(summaries[c]) /\ AfterFrame(c, summaries[c]) /\ down[c] # <<>>
    BY DEF ReadRECEIPT, TInv, SummariesOK
<1>2. received' \in [Clients -> Seq(Origins)]
    BY DEF ReadRECEIPT, TInv, HistoryOK
<1> QED
    BY <1>1, <1>2, AfterFrameTypes

LEMMA FailsTypes ==
    ASSUME TInv, NEW c \in Clients, ReadFails(c)
    PROVE  TInv'
<1>1. Known(summaries[c]) /\ AfterFrame(c, summaries[c]) /\ closing[c]
    BY DEF ReadFails, TInv, SummariesOK
<1>2. received' \in [Clients -> Seq(Origins)]
    BY DEF ReadFails, TInv, HistoryOK
<1> QED
    BY <1>1, <1>2, AfterFrameTypes

LEMMA TypesAtFirst ==
    ASSUME Init
    PROVE  TInv
<1>1. FlagsOK
  <2>1. reports \in 0..MaxReports
      BY ReportsAssumption DEF Init
  <2>2. /\ joined \in [Clients -> SUBSET Games] /\ subscribers \in [Games -> SUBSET Clients]
        /\ online \in [Clients -> BOOLEAN] /\ closing \in [Clients -> BOOLEAN]
      BY DEF Init
  <2> QED
      BY <2>1, <2>2 DEF Init, FlagsOK
<1>1a. TodoOK /\ UpOK /\ DownOK /\ HistoryOK
    BY DEF Init, TodoOK, UpOK, DownOK, HistoryOK
<1>2. SummariesOK
    BY DEF Init, SummariesOK, Known, Nothing
<1> QED
    BY <1>1, <1>1a, <1>2 DEF TInv

LEMMA TypesKept ==
    ASSUME TInv, [Next]_vars
    PROVE  TInv'
<1>1. CASE UNCHANGED vars
    BY <1>1, TypesStutter
<1>2. ASSUME NEW c \in Clients, Keyboard(c) PROVE TInv'
    BY <1>2, JoinTypes, ReportTypes, SendEventTypes, SummaryTypes, LogoutTypes, Zenon DEF Keyboard
<1>3. ASSUME NEW c \in Clients, process(c) PROVE TInv'
    BY <1>3, SubscribeTypes, SendTypes, CutShortTypes, DisconnectTypes, Zenon DEF process
<1>4. ASSUME NEW c \in Clients, Socket(c) PROVE TInv'
    BY <1>4, MessageTypes, ReceiptTypes, FailsTypes, Zenon DEF Socket
<1> QED
    BY <1>1, <1>2, <1>3, <1>4, Zenon DEF Next

\* All variables of the clients and the server keep their types: only games of the files
\* have channels, only frames of known kinds are on their way, and a summary, whose keys
\* are read from the bodies of frames, is about a game and a client there are.
THEOREM TypeCorrect == Spec => []TypeOK
<1>1. Init => TInv
    BY TypesAtFirst
<1>2. TInv /\ [Next]_vars => TInv'
    BY TypesKept
<1>3. TInv => TypeOK
    BY TypesFollow
<1> QED
    BY <1>1, <1>2, <1>3, PTL DEF Spec

-----------------------------------------------------------------------------
(* How reports add up *)

\* What is written of an event that is on its way.
Originals ==
    [user : Clients, team_a : Names, team_b : Names, name : Values, time : Int,
     updates : [Sections -> Maps], description : Seq(Seq(Values))]

Summaries ==
    [user : {""}, team_a : Names, team_b : Names, name : {""}, time : {0},
     updates : [Sections -> Maps], description : Seq(Int \X Values \X Seq(Values))]

LEMMA OriginIs ==
    ASSUME NEW u \in Clients, NEW e \in Written
    PROVE  /\ By(u, e) \in Originals
           /\ By(u, e).user = u /\ By(u, e).team_a = e.team_a /\ By(u, e).team_b = e.team_b
           /\ By(u, e).name = e.name /\ By(u, e).time = e.time
           /\ By(u, e).updates = e.updates /\ By(u, e).description = e.description
<1> DEFINE none == "event without a user"
           U == [Sections -> Maps]
           D == Seq(Seq(Values))
<1>1. e \in [user : {none}, team_a : Names, team_b : Names, name : Values, time : Int,
             updates : U, description : D]
    BY DEF Written
<1> HIDE DEF none, U, D
<1>2. /\ By(u, e) \in [user : Clients, team_a : Names, team_b : Names, name : Values,
                       time : Int, updates : U, description : D]
      /\ By(u, e).user = u /\ By(u, e).team_a = e.team_a /\ By(u, e).team_b = e.team_b
      /\ By(u, e).name = e.name /\ By(u, e).time = e.time
      /\ By(u, e).updates = e.updates /\ By(u, e).description = e.description
    BY <1>1 DEF By
<1> QED
    BY <1>2, Zenon DEF Originals, U, D

LEMMA OriginsTyped == Origins \subseteq Originals
BY OriginIs DEF Origins

\* A report of user on a game, and nothing of any other.
Mine(user, game) ==
    [o \in Originals |-> IF o.user = user /\ gameName(o.team_a, o.team_b) = game
                         THEN <<o>> ELSE <<>>]

LEMMA ToldType ==
    ASSUME NEW list \in Seq(Originals), NEW user, NEW game
    PROVE  /\ Mine(user, game) \in [Originals -> Seq(Originals)]
           /\ Told(list, user, game) = FlattenSeq(Mapped(Mine(user, game), list))
           /\ Told(list, user, game) \in Seq(Originals)
<1> DEFINE mine(x) == x.user = user /\ gameName(x.team_a, x.team_b) = game
           f == Mine(user, game)
<1>1. f = [x \in Originals |-> IF mine(x) THEN <<x>> ELSE <<>>]
    BY Zenon DEF Mine
<1> HIDE DEF f
<1>2. f \in [Originals -> Seq(Originals)]
  <2> HIDE DEF mine
  <2> QED
      BY <1>1
<1>3. \A i \in DOMAIN list : list[i] \in Originals
    OBVIOUS
<1>4. \A i \in DOMAIN list : f[list[i]] = IF mine(list[i]) THEN <<list[i]>> ELSE <<>>
  <2> HIDE DEF mine
  <2> QED
      BY <1>1, <1>3
<1>5. [i \in DOMAIN list |-> IF mine(list[i]) THEN <<list[i]>> ELSE <<>>] = Mapped(f, list)
  <2> HIDE DEF mine
  <2> QED
      BY <1>4, Zenon DEF Mapped
<1>6. Told(list, user, game) = FlattenSeq(Mapped(f, list))
    BY <1>5, Zenon DEF Told
<1>7. FlattenSeq(Mapped(f, list)) \in Seq(Originals)
    BY <1>2, FlattenMapped
<1> QED
    BY <1>2, <1>6, <1>7, Zenon DEF f

LEMMA NothingTold ==
    ASSUME NEW user, NEW game
    PROVE  Told(<<>>, user, game) = <<>>
<1>1. Mapped(Mine(user, game), <<>>) = <<>>
    BY DEF Mapped
<1>2. FlattenSeq(<<>>) = <<>>
    BY DEF FlattenSeq
<1>3. <<>> \in Seq(Originals)
    OBVIOUS
<1> QED
    BY <1>1, <1>2, <1>3, ToldType, Zenon

LEMMA ToldAppend ==
    ASSUME NEW list \in Seq(Originals), NEW o \in Originals, NEW user, NEW game
    PROVE  Told(Append(list, o), user, game) =
                IF o.user = user /\ gameName(o.team_a, o.team_b) = game
                THEN Append(Told(list, user, game), o) ELSE Told(list, user, game)
<1> DEFINE mine == o.user = user /\ gameName(o.team_a, o.team_b) = game
           f == Mine(user, game)
           longer == Append(list, o)
           told == Told(list, user, game)
<1>1. f[o] = IF mine THEN <<o>> ELSE <<>>
    BY Zenon DEF Mine
<1>2. longer \in Seq(Originals)
    OBVIOUS
<1> HIDE DEF f, longer
<1>3. f \in [Originals -> Seq(Originals)] /\ told = FlattenSeq(Mapped(f, list)) /\ told \in Seq(Originals)
    BY ToldType, Zenon DEF f
<1>4. FlattenSeq(Mapped(f, longer)) = FlattenSeq(Mapped(f, list)) \o f[o]
  <2>1. FlattensAppend(f, list, o)
      BY <1>3, FlattenMappedAppend
  <2> QED
      BY ONLY <2>1 DEF FlattensAppend, longer
<1>5. Told(longer, user, game) = told \o f[o]
    BY <1>2, <1>3, <1>4, ToldType, Zenon DEF f
<1> HIDE DEF told
<1>6. CASE mine
  <2> HIDE DEF mine
  <2>1. Told(longer, user, game) = Append(told, o)
      BY <1>1, <1>3, <1>5, <1>6
  <2> QED
      BY <1>6, <2>1, Zenon DEF longer, told, mine
<1>7. CASE ~mine
  <2> HIDE DEF mine
  <2>1. Told(longer, user, game) = told
      BY <1>1, <1>3, <1>5, <1>7
  <2> QED
      BY <1>7, <2>1, Zenon DEF longer, told, mine
<1> QED
    BY <1>6, <1>7

\* What one summary tells of the reports of one user on one game.
Sums(summary, events) ==
    /\ \A s \in Sections :
          /\ \A key \in DOMAIN summary.updates[s] :
                LastReported(events, s, key, summary.updates[s][key])
          /\ \A i \in DOMAIN events :
                DOMAIN events[i].updates[s] \subseteq DOMAIN summary.updates[s]
    /\ summary.description =
          [i \in DOMAIN events |-> <<events[i].time, events[i].name,
                                    FlattenSeq(events[i].description)>>]

\* An event as parse() makes it of By(u, e).
Read(o) == Event(o.user, lower[o.team_a], lower[o.team_b], o.name, o.time, o.updates,
                 FlattenSeq(o.description))

LEMMA EmplacedType ==
    ASSUME NEW m \in Maps, NEW n \in Maps
    PROVE  Emplaced(m, n) \in Maps
<1>1. /\ IsFiniteSet(DOMAIN m) /\ DOMAIN m \subseteq Keys /\ \A k \in DOMAIN m : m[k] \in Values
      /\ IsFiniteSet(DOMAIN n) /\ DOMAIN n \subseteq Keys /\ \A k \in DOMAIN n : n[k] \in Values
    BY MapIs
<1> DEFINE K == DOMAIN m \cup DOMAIN n
<1>2. IsFiniteSet(K) /\ K \subseteq Keys
    BY <1>1, FS_Union
<1>3. Emplaced(m, n) \in [K -> Values]
    BY <1>1 DEF Emplaced
<1> HIDE DEF K
<1> QED
    BY <1>2, <1>3 DEF Maps

LEMMA NoUpdatesType == NoUpdates \in [Sections -> Maps]
<1>1. {} \in SUBSET Keys /\ IsFiniteSet({})
    BY FS_EmptySet
<1>2. <<>> \in [{} -> Values]
    OBVIOUS
<1>3. Nothing \in Maps
    BY <1>1, <1>2 DEF Maps, Nothing
<1> QED
    BY <1>3 DEF NoUpdates

LEMMA EmptyIs ==
    ASSUME NEW a \in Names, NEW b \in Names
    PROVE  /\ EmptyEvent(a, b) \in Summaries /\ Sums(EmptyEvent(a, b), <<>>)
           /\ EmptyEvent(a, b).team_a = a /\ EmptyEvent(a, b).team_b = b
<1> DEFINE x == EmptyEvent(a, b)
           D == Seq(Int \X Values \X Seq(Values))
           U == [Sections -> Maps]
           none == NoUpdates
<1>1. none \in U /\ <<>> \in D
    BY NoUpdatesType
<1>2. x = Event("", a, b, "", 0, none, <<>>)
    BY Zenon DEF EmptyEvent
<1> HIDE DEF x, U, D, none
<1>3. /\ x \in [user : {""}, team_a : Names, team_b : Names, name : {""}, time : {0},
                updates : U, description : D]
      /\ x.team_a = a /\ x.team_b = b /\ x.updates = none /\ x.description = <<>>
    BY <1>1, <1>2 DEF Event
<1>4. x \in Summaries
    BY <1>3, Zenon DEF Summaries, U, D
<1>5. \A s \in Sections : DOMAIN x.updates[s] = {}
  <2>1. \A s \in Sections : NoUpdates[s] = <<>>
      BY Zenon DEF NoUpdates, Nothing
  <2>2. \A s \in Sections : x.updates[s] = <<>>
      BY <1>3, <2>1, Zenon DEF none
  <2>3. DOMAIN <<>> = {}
      OBVIOUS
  <2> QED
      BY <2>2, <2>3, Zenon
<1> DEFINE list == <<>>
<1>6. DOMAIN list = {} /\ x.description = list
  <2>1. DOMAIN <<>> = {}
      OBVIOUS
  <2> QED
      BY <1>3, <2>1, Zenon
<1>7. x.description = [i \in DOMAIN list |-> <<list[i].time, list[i].name,
                                               FlattenSeq(list[i].description)>>]
    BY <1>6
<1> HIDE DEF list
<1>8. Sums(x, list)
    BY <1>5, <1>6, <1>7, Zenon DEF Sums
<1> QED
    BY <1>3, <1>4, <1>8, Zenon DEF x, list

\* What update() makes of a summary.
LEMMA UpdateIs ==
    ASSUME NEW summary \in Summaries, NEW o \in Originals
    PROVE  LET next == update(summary, Read(o))
           IN  /\ next \in Summaries
               /\ next.team_a = summary.team_a /\ next.team_b = summary.team_b
               /\ \A s \in Sections :
                     next.updates[s] = Emplaced(o.updates[s], summary.updates[s])
               /\ next.description =
                     Append(summary.description, <<o.time, o.name, FlattenSeq(o.description)>>)
<1> DEFINE D == Seq(Int \X Values \X Seq(Values))
           U == [Sections -> Maps]
           d == <<o.time, o.name, FlattenSeq(o.description)>>
           u == [s \in Sections |-> Emplaced(o.updates[s], summary.updates[s])]
           next == update(summary, Read(o))
           S == [user : {""}, team_a : Names, team_b : Names, name : {""}, time : {0},
                 updates : U, description : D]
           OS == [user : Clients, team_a : Names, team_b : Names, name : Values, time : Int,
                  updates : U, description : Seq(Seq(Values))]
           r == Read(o)
           text == FlattenSeq(o.description)
<1>1. o \in OS /\ summary \in S
    BY Zenon DEF Originals, Summaries
<1>2. text \in Seq(Values)
  <2>1. o.description \in Seq(Seq(Values))
      BY DEF Originals
  <2> QED
      BY <2>1, FlattenSeqType
<1>3. r.time = o.time /\ r.name = o.name /\ r.updates = o.updates /\ r.description = text
  <2> HIDE DEF text
  <2>1. r = Event(o.user, lower[o.team_a], lower[o.team_b], o.name, o.time, o.updates, text)
      BY Zenon DEF Read, text
  <2> QED
      BY <2>1 DEF Event
<1>4. summary.description \in D /\ summary.updates \in U
  <2> HIDE DEF U, D
  <2> QED
      BY <1>1
<1>5. o.time \in Int /\ o.name \in Values /\ o.updates \in U
  <2> HIDE DEF U
  <2> QED
      BY <1>1
<1>6. d \in Int \X Values \X Seq(Values)
  <2> HIDE DEF text
  <2> QED
      BY <1>2, <1>5 DEF text
<1>7. Append(summary.description, d) \in D
  <2> HIDE DEF d
  <2> QED
      BY <1>4, <1>6
<1>8. u \in U
    BY <1>4, <1>5, EmplacedType
<1>9. next = [summary EXCEPT !.updates = u, !.description = Append(@, d)]
  <2>1. next = [summary EXCEPT
                  !.updates = [s \in Sections |-> Emplaced(r.updates[s], summary.updates[s])],
                  !.description = Append(@, <<r.time, r.name, r.description>>)]
      BY Zenon DEF update
  <2> HIDE DEF r, text
  <2> QED
      BY <1>3, <2>1, Zenon DEF text
<1> DEFINE dd == Append(summary.description, d)
<1>10. next = [summary EXCEPT !.updates = u, !.description = dd]
  <2> HIDE DEF u, d, next, S
  <2> QED
      BY <1>1, <1>9 DEF S
<1> HIDE DEF u, d, dd, next, U, D
<1>11. /\ next \in S /\ next.team_a = summary.team_a /\ next.team_b = summary.team_b
       /\ next.updates = u /\ next.description = dd
    BY <1>1, <1>7, <1>8, <1>10 DEF dd
<1>12. \A s \in Sections : u[s] = Emplaced(o.updates[s], summary.updates[s])
    BY Zenon DEF u
<1>13. next \in Summaries
    BY <1>11, Zenon DEF Summaries, U, D
<1> QED
    BY <1>11, <1>12, <1>13, Zenon DEF next, dd, d

\* The report that comes last has the last word.
LEMMA LastOfAppend ==
    ASSUME NEW events \in Seq(Originals), NEW o \in Originals, NEW s \in Sections, NEW key, NEW val
    PROVE  /\ key \in DOMAIN o.updates[s] =>
                LastReported(Append(events, o), s, key, o.updates[s][key])
           /\ key \notin DOMAIN o.updates[s] /\ LastReported(events, s, key, val) =>
                LastReported(Append(events, o), s, key, val)
<1> DEFINE more == Append(events, o)
           n == Len(events)
<1>1. /\ n \in Nat /\ Len(more) = n + 1 /\ DOMAIN more = 1..n + 1 /\ DOMAIN events = 1..n
      /\ more[n + 1] = o /\ \A i \in 1..n : more[i] = events[i]
    OBVIOUS
<1> HIDE DEF more, n
<1>2. ASSUME key \in DOMAIN o.updates[s]
      PROVE  LastReported(more, s, key, o.updates[s][key])
  <2>1. n + 1 \in DOMAIN more /\ \A j \in (n + 1) + 1 .. Len(more) : FALSE
      BY <1>1
  <2> QED
      BY <1>1, <1>2, <2>1, Zenon DEF LastReported
<1>3. ASSUME key \notin DOMAIN o.updates[s], LastReported(events, s, key, val)
      PROVE  LastReported(more, s, key, val)
  <2>1. PICK i \in 1..n :
            /\ key \in DOMAIN events[i].updates[s] /\ events[i].updates[s][key] = val
            /\ \A j \in i + 1 .. n : key \notin DOMAIN events[j].updates[s]
      BY <1>1, <1>3, Zenon DEF LastReported, n
  <2>2. i \in DOMAIN more /\ more[i] = events[i]
      BY <1>1
  <2>3. ASSUME NEW j \in i + 1 .. Len(more) PROVE key \notin DOMAIN more[j].updates[s]
    <3>1. CASE j = n + 1
        BY <1>1, <1>3, <3>1, Zenon
    <3>2. CASE j # n + 1
      <4>1. j \in i + 1 .. n /\ j \in 1..n
          BY <1>1, <3>2
      <4> QED
          BY <1>1, <2>1, <4>1, Zenon
    <3> QED
        BY <3>1, <3>2
  <2> QED
      BY <2>1, <2>2, <2>3, Zenon DEF LastReported
<1> QED
    BY <1>2, <1>3, Zenon DEF more

LEMMA UpdateSums ==
    ASSUME NEW summary \in Summaries, NEW events \in Seq(Originals), NEW o \in Originals,
           Sums(summary, events)
    PROVE  Sums(update(summary, Read(o)), Append(events, o))
<1> DEFINE next == update(summary, Read(o))
           more == Append(events, o)
           n == Len(events)
           told(x) == <<x.time, x.name, FlattenSeq(x.description)>>
<1>1. /\ \A s \in Sections : next.updates[s] = Emplaced(o.updates[s], summary.updates[s])
      /\ next.description = Append(summary.description, told(o))
    BY UpdateIs, Zenon
<1>2. /\ n \in Nat /\ Len(more) = n + 1 /\ DOMAIN more = 1..n + 1 /\ DOMAIN events = 1..n
      /\ more[n + 1] = o /\ \A i \in 1..n : more[i] = events[i]
    OBVIOUS
<1>3. summary.description = [i \in 1..n |-> told(events[i])]
    BY <1>2, Zenon DEF Sums
<1> HIDE DEF next
<1>4. ASSUME NEW s \in Sections, NEW key \in DOMAIN next.updates[s]
      PROVE  LastReported(more, s, key, next.updates[s][key])
  <2> DEFINE map == o.updates[s]
             old == summary.updates[s]
  <2>1. \/ key \in DOMAIN map /\ next.updates[s][key] = map[key]
        \/ key \notin DOMAIN map /\ key \in DOMAIN old /\ next.updates[s][key] = old[key]
    <3>1. next.updates[s] = Emplaced(map, old)
        BY <1>1
    <3> HIDE DEF map, old
    <3> QED
        BY <1>4, <3>1 DEF Emplaced
  <2>2. CASE key \in DOMAIN map /\ next.updates[s][key] = map[key]
      BY <2>2, LastOfAppend, Zenon
  <2>3. CASE key \notin DOMAIN map /\ key \in DOMAIN old /\ next.updates[s][key] = old[key]
    <3>1. LastReported(events, s, key, old[key])
        BY <2>3, Zenon DEF Sums
    <3> QED
        BY <2>3, <3>1, LastOfAppend, Zenon
  <2> QED
      BY <2>1, <2>2, <2>3
<1>5. ASSUME NEW s \in Sections, NEW i \in DOMAIN more
      PROVE  DOMAIN more[i].updates[s] \subseteq DOMAIN next.updates[s]
  <2> DEFINE map == o.updates[s]
             old == summary.updates[s]
  <2>1. DOMAIN next.updates[s] = DOMAIN map \cup DOMAIN old
    <3>1. next.updates[s] = Emplaced(map, old)
        BY <1>1
    <3> HIDE DEF map, old
    <3> QED
        BY <3>1 DEF Emplaced
  <2>2. CASE i = n + 1
    <3>1. more[i].updates[s] = map
        BY <1>2, <2>2, Zenon
    <3> HIDE DEF map, old
    <3> QED
        BY <2>1, <3>1
  <2>3. CASE i # n + 1
    <3>1. i \in 1..n
        BY <1>2, <2>3
    <3>2. more[i].updates[s] = events[i].updates[s]
        BY <1>2, <3>1, Zenon
    <3>3. DOMAIN events[i].updates[s] \subseteq DOMAIN old
        BY <1>2, <3>1, Zenon DEF Sums
    <3> HIDE DEF map, old, more
    <3> QED
        BY <2>1, <3>2, <3>3
  <2> QED
      BY <2>2, <2>3
<1>6. next.description = [i \in DOMAIN more |-> told(more[i])]
  <2> HIDE DEF more, n, told
  <2>1. Append([i \in 1..n |-> told(events[i])], told(o)) = [i \in 1..n + 1 |-> told(more[i])]
    <3> DEFINE list == [i \in 1..n |-> told(events[i])]
               T == {told(events[i]) : i \in 1..n}
    <3>1. list \in Seq(T) /\ Len(list) = n /\ \A i \in 1..n : list[i] = told(events[i])
        BY <1>2
    <3> HIDE DEF list, T
    <3>2. /\ DOMAIN Append(list, told(o)) = 1..n + 1
          /\ Append(list, told(o)) = [i \in DOMAIN Append(list, told(o)) |-> Append(list, told(o))[i]]
          /\ \A i \in 1..n : Append(list, told(o))[i] = list[i]
          /\ Append(list, told(o))[n + 1] = told(o)
      <4> DEFINE d == told(o)
      <4> HIDE DEF d
      <4>1. list \in Seq(T \cup {d})
          BY <1>2, <3>1
      <4>2. Append(list, d) \in Seq(T \cup {d}) /\ Len(Append(list, d)) = n + 1
          BY <3>1, <4>1
      <4>3. /\ DOMAIN Append(list, d) = 1..n + 1
            /\ Append(list, d) = [i \in DOMAIN Append(list, d) |-> Append(list, d)[i]]
        <5>1. ASSUME NEW q \in Seq(T \cup {d})
              PROVE  DOMAIN q = 1..Len(q) /\ q = [i \in DOMAIN q |-> q[i]]
            OBVIOUS
        <5> QED
            BY <4>2, <5>1, Zenon
      <4>4. /\ \A i \in 1..n : Append(list, d)[i] = list[i]
            /\ Append(list, d)[n + 1] = d
          BY <1>2, <3>1, <4>1
      <4> QED
          BY <4>3, <4>4, Zenon DEF d
    <3>3. \A i \in 1..n + 1 : Append(list, told(o))[i] = told(more[i])
      <4>1. ASSUME NEW i \in 1..n + 1 PROVE Append(list, told(o))[i] = told(more[i])
        <5>1. CASE i = n + 1
            BY <1>2, <3>2, <5>1, Zenon
        <5>2. CASE i # n + 1
          <6>1. i \in 1..n
              BY <1>2, <5>2
          <6> QED
              BY <1>2, <3>1, <3>2, <6>1, Zenon
        <5> QED
            BY <5>1, <5>2
      <4> QED
          BY <4>1
    <3>4. Append(list, told(o)) = [i \in 1..n + 1 |-> told(more[i])]
        BY <3>2, <3>3, Zenon
    <3> QED
        BY <3>4 DEF list
  <2> QED
      BY <1>1, <1>2, <1>3, <2>1, Zenon
<1> HIDE DEF more
<1>7. Sums(next, more)
    BY <1>4, <1>5, <1>6, Zenon DEF Sums
<1> QED
    BY <1>7, Zenon DEF next, more

\* What update_summary() makes of the summaries a client has.
LEMMA UpdateSummaryIs ==
    ASSUME NEW known, NEW game, NEW user, NEW toAdd
    PROVE  LET next == update_summary(known, game, user, toAdd)
               has(g, u) == g \in DOMAIN known /\ u \in DOMAIN known[g]
           IN  /\ game \in DOMAIN next /\ user \in DOMAIN next[game]
               /\ next[game][user] =
                    update(IF has(game, user) THEN known[game][user]
                           ELSE EmptyEvent(toAdd.team_a, toAdd.team_b), toAdd)
               /\ \A g, u : g # game \/ u # user =>
                     /\ (g \in DOMAIN next /\ u \in DOMAIN next[g]) <=> has(g, u)
                     /\ has(g, u) => next[g][u] = known[g][u]
<1> DEFINE new == update(EmptyEvent(toAdd.team_a, toAdd.team_b), toAdd)
           next == update_summary(known, game, user, toAdd)
<1>1. CASE game \in DOMAIN known /\ user \in DOMAIN known[game]
  <2> DEFINE upd == update(known[game][user], toAdd)
             inner == [known[game] EXCEPT ![user] = upd]
  <2>1. next = [known EXCEPT ![game] = inner]
      BY <1>1 DEF update_summary
  <2> HIDE DEF new, upd
  <2>2. /\ DOMAIN inner = DOMAIN known[game] /\ inner[user] = upd
        /\ \A u \in DOMAIN known[game] : u # user => inner[u] = known[game][u]
      BY <1>1
  <2> HIDE DEF inner, next
  <2>3. /\ DOMAIN next = DOMAIN known /\ next[game] = inner
        /\ \A g \in DOMAIN known : g # game => next[g] = known[g]
      BY <1>1, <2>1
  <2>4. /\ game \in DOMAIN next /\ user \in DOMAIN next[game] /\ next[game][user] = upd
        /\ \A g, u : g # game \/ u # user =>
              /\ (g \in DOMAIN next /\ u \in DOMAIN next[g])
                    <=> (g \in DOMAIN known /\ u \in DOMAIN known[g])
              /\ g \in DOMAIN known /\ u \in DOMAIN known[g] => next[g][u] = known[g][u]
      BY <1>1, <2>2, <2>3
  <2> QED
      BY <1>1, <2>4, Zenon DEF next, upd
<1>2. CASE game \in DOMAIN known /\ user \notin DOMAIN known[game]
  <2> DEFINE inner == Emplaced(known[game], Pair(user, new))
  <2>1. next = [known EXCEPT ![game] = inner]
      BY <1>2 DEF update_summary
  <2> HIDE DEF new
  <2>2. /\ DOMAIN inner = DOMAIN known[game] \cup {user} /\ inner[user] = new
        /\ \A u \in DOMAIN known[game] : inner[u] = known[game][u]
      BY <1>2 DEF Emplaced, Pair
  <2> HIDE DEF inner, next
  <2>3. /\ DOMAIN next = DOMAIN known /\ next[game] = inner
        /\ \A g \in DOMAIN known : g # game => next[g] = known[g]
      BY <1>2, <2>1
  <2>4. /\ game \in DOMAIN next /\ user \in DOMAIN next[game] /\ next[game][user] = new
        /\ \A g, u : g # game \/ u # user =>
              /\ (g \in DOMAIN next /\ u \in DOMAIN next[g])
                    <=> (g \in DOMAIN known /\ u \in DOMAIN known[g])
              /\ g \in DOMAIN known /\ u \in DOMAIN known[g] => next[g][u] = known[g][u]
      BY <1>2, <2>2, <2>3
  <2> QED
      BY <1>2, <2>4, Zenon DEF next, new
<1>3. CASE game \notin DOMAIN known
  <2> DEFINE inner == Pair(user, new)
  <2>1. next = Emplaced(known, Pair(game, inner))
      BY <1>3, Zenon DEF update_summary
  <2> HIDE DEF new
  <2>2. DOMAIN inner = {user} /\ inner[user] = new
      BY DEF Pair
  <2> HIDE DEF inner, next
  <2>3. /\ DOMAIN next = DOMAIN known \cup {game} /\ next[game] = inner
        /\ \A g \in DOMAIN known : next[g] = known[g]
      BY <1>3, <2>1 DEF Emplaced, Pair
  <2>4. /\ game \in DOMAIN next /\ user \in DOMAIN next[game] /\ next[game][user] = new
        /\ \A g, u : g # game \/ u # user =>
              /\ (g \in DOMAIN next /\ u \in DOMAIN next[g])
                    <=> (g \in DOMAIN known /\ u \in DOMAIN known[g])
              /\ g \in DOMAIN known /\ u \in DOMAIN known[g] => next[g][u] = known[g][u]
      BY <1>3, <2>2, <2>3
  <2> QED
      BY <1>3, <2>4, Zenon DEF next, new
<1> QED
    BY <1>1, <1>2, <1>3

-----------------------------------------------------------------------------
(* A client's summaries tell what it has read *)

Has(known, game, user) == game \in DOMAIN known /\ user \in DOMAIN known[game]

AddsUp(known, list) ==
    \A user \in Clients, game \in Games :
        LET events == Told(list, user, game)
        IN  /\ Has(known, game, user) <=> events # <<>>
            /\ events # <<>> =>
                /\ known[game][user] \in Summaries
                /\ <<known[game][user].team_a, known[game][user].team_b>> = game
                /\ Sums(known[game][user], events)

AddingUp == \A c \in Clients : online[c] => AddsUp(summaries[c], received[c])

LEMMA AddsUpAtFirst == AddsUp(Nothing, <<>>)
<1>1. DOMAIN Nothing = {}
    BY DEF Nothing
<1> QED
    BY <1>1, NothingTold, Zenon DEF AddsUp, Has

\* What was typed behind summary changes nothing.
LEMMA AddsUpLookedUp ==
    ASSUME NEW known, NEW list, NEW word, AddsUp(known, list)
    PROVE  AddsUp(Emplaced(known, Pair(word, Nothing)), list)
<1> DEFINE more == Emplaced(known, Pair(word, Nothing))
<1>1. /\ DOMAIN more = DOMAIN known \cup {word} /\ \A g \in DOMAIN known : more[g] = known[g]
      /\ word \notin DOMAIN known => DOMAIN more[word] = {}
  <2>1. DOMAIN more = DOMAIN known \cup {word} /\ \A g \in DOMAIN known : more[g] = known[g]
      BY DEF Emplaced, Pair
  <2>2. word \notin DOMAIN known => more[word] = Nothing
      BY EmplacedIs, Zenon
  <2>3. DOMAIN Nothing = {}
      BY DEF Nothing
  <2> QED
      BY <2>1, <2>2, <2>3, Zenon
<1> HIDE DEF more
<1>2. \A game, user : Has(more, game, user) <=> Has(known, game, user)
    BY <1>1 DEF Has
<1>3. \A game, user : Has(known, game, user) => more[game][user] = known[game][user]
    BY <1>1 DEF Has
<1>4. ASSUME NEW user \in Clients, NEW game \in Games
      PROVE  LET events == Told(list, user, game)
             IN  /\ Has(more, game, user) <=> events # <<>>
                 /\ events # <<>> =>
                    /\ more[game][user] \in Summaries
                    /\ <<more[game][user].team_a, more[game][user].team_b>> = game
                    /\ Sums(more[game][user], events)
  <2> DEFINE events == Told(list, user, game)
  <2>1. /\ Has(known, game, user) <=> events # <<>>
        /\ events # <<>> =>
            /\ known[game][user] \in Summaries
            /\ <<known[game][user].team_a, known[game][user].team_b>> = game
            /\ Sums(known[game][user], events)
      BY Zenon DEF AddsUp
  <2>2. Has(more, game, user) <=> Has(known, game, user)
      BY <1>2, Zenon
  <2>3. CASE Has(known, game, user)
    <3>1. more[game][user] = known[game][user]
        BY <1>3, <2>3, Zenon
    <3> QED
        BY ONLY <2>1, <2>2, <2>3, <3>1, Zenon
  <2>4. CASE ~Has(known, game, user)
      BY ONLY <2>1, <2>2, <2>4, Zenon
  <2> QED
      BY <2>3, <2>4, Zenon
<1>5. AddsUp(more, list)
    BY <1>4, Zenon DEF AddsUp
<1> QED
    BY <1>5 DEF more

LEMMA AddsUpMore ==
    ASSUME NEW known, NEW list \in Seq(Originals), AddsUp(known, list),
           NEW u \in Clients, NEW o \in Originals, o.user = u
    PROVE  AddsUp(update_summary(known, gameName(o.team_a, o.team_b), u, Read(o)), Append(list, o))
<1> DEFINE g == gameName(o.team_a, o.team_b)
           next == update_summary(known, g, u, Read(o))
           longer == Append(list, o)
           new == EmptyEvent(lower[o.team_a], lower[o.team_b])
           r == Read(o)
<1>1. r.team_a = lower[o.team_a] /\ r.team_b = lower[o.team_b]
    BY DEF Read, Event
<1>2. lower[o.team_a] \in Names /\ lower[o.team_b] \in Names
    BY LowerAssumption DEF Originals
<1>3. new \in Summaries /\ Sums(new, <<>>) /\ <<new.team_a, new.team_b>> = g
  <2>1. new \in Summaries /\ Sums(new, <<>>)
        /\ new.team_a = lower[o.team_a] /\ new.team_b = lower[o.team_b]
    <3> DEFINE x == lower[o.team_a]
               y == lower[o.team_b]
    <3>1. x \in Names /\ y \in Names
        BY <1>2, Zenon
    <3> HIDE DEF x, y, new
    <3>2. /\ EmptyEvent(x, y) \in Summaries /\ Sums(EmptyEvent(x, y), <<>>)
          /\ EmptyEvent(x, y).team_a = x /\ EmptyEvent(x, y).team_b = y
        BY ONLY <3>1, EmptyIs
    <3> QED
        BY ONLY <3>2 DEF x, y, new
  <2> QED
      BY <2>1, Zenon DEF gameName
<1>4. /\ Has(next, g, u)
      /\ next[g][u] = update(IF Has(known, g, u) THEN known[g][u] ELSE new, r)
      /\ \A h, v : h # g \/ v # u =>
            /\ Has(next, h, v) <=> Has(known, h, v)
            /\ Has(known, h, v) => next[h][v] = known[h][v]
  <2>1. next = update_summary(known, g, u, r) /\ new = EmptyEvent(r.team_a, r.team_b)
      BY <1>1, Zenon
  <2> HIDE DEF next, new, r, g
  <2>2. LET n == update_summary(known, g, u, r)
            has(h, v) == h \in DOMAIN known /\ v \in DOMAIN known[h]
        IN  /\ g \in DOMAIN n /\ u \in DOMAIN n[g]
            /\ n[g][u] =
                 update(IF has(g, u) THEN known[g][u] ELSE EmptyEvent(r.team_a, r.team_b), r)
            /\ \A h, v : h # g \/ v # u =>
                  /\ (h \in DOMAIN n /\ v \in DOMAIN n[h]) <=> has(h, v)
                  /\ has(h, v) => n[h][v] = known[h][v]
      BY UpdateSummaryIs
  <2> QED
      BY <2>1, <2>2, Zenon DEF Has
<1> HIDE DEF next, new
<1>5. ASSUME NEW user \in Clients, NEW game \in Games
      PROVE  LET events == Told(longer, user, game)
             IN  /\ Has(next, game, user) <=> events # <<>>
                 /\ events # <<>> =>
                    /\ next[game][user] \in Summaries
                    /\ <<next[game][user].team_a, next[game][user].team_b>> = game
                    /\ Sums(next[game][user], events)
  <2> DEFINE before == Told(list, user, game)
  <2>1. before \in Seq(Originals)
      BY ToldType, Zenon
  <2>2. /\ Has(known, game, user) <=> before # <<>>
        /\ before # <<>> =>
             /\ known[game][user] \in Summaries
             /\ <<known[game][user].team_a, known[game][user].team_b>> = game
             /\ Sums(known[game][user], before)
      BY Zenon DEF AddsUp
  <2>3. CASE user # u \/ game # g
    <3>1. Told(longer, user, game) = before
      <4>1. Told(longer, user, game) = IF o.user = user /\ gameName(o.team_a, o.team_b) = game
                                       THEN Append(before, o) ELSE before
          BY ToldAppend
      <4> QED
          BY <2>3, <4>1, Zenon
    <3> QED
        BY <1>4, <2>2, <2>3, <3>1, Zenon
  <2>4. CASE user = u /\ game = g
    <3> DEFINE old == IF Has(known, g, u) THEN known[g][u] ELSE new
    <3>1. Told(longer, user, game) = Append(before, o)
        BY <2>4, ToldAppend, Zenon
    <3>2. Append(before, o) # <<>>
      <4> HIDE DEF before
      <4> QED
          BY <2>1
    <3>3. old \in Summaries /\ <<old.team_a, old.team_b>> = g /\ Sums(old, before)
      <4>1. CASE Has(known, g, u)
          BY <2>2, <2>4, <4>1, Zenon
      <4>2. CASE ~Has(known, g, u)
        <5>1. before = <<>> /\ old = new
            BY <2>2, <2>4, <4>2, Zenon
        <5> QED
            BY <1>3, <5>1, Zenon
      <4> QED
          BY <4>1, <4>2
    <3>4. next[game][user] = update(old, r)
        BY <1>4, <2>4, Zenon
    <3> HIDE DEF old, before
    <3>5. /\ update(old, r) \in Summaries
          /\ update(old, r).team_a = old.team_a /\ update(old, r).team_b = old.team_b
        BY <3>3, UpdateIs, Zenon
    <3>6. Sums(update(old, r), Append(before, o))
        BY <2>1, <3>3, UpdateSums, Zenon
    <3> QED
        BY <1>4, <2>4, <3>1, <3>2, <3>3, <3>4, <3>5, <3>6, Zenon
  <2> QED
      BY <2>3, <2>4
<1>6. AddsUp(next, longer)
    BY <1>5, Zenon DEF AddsUp
<1> QED
    BY <1>6, Zenon DEF next, longer

LEMMA AddingUpKept ==
    ASSUME TInv, AddingUp, [Next]_vars
    PROVE  AddingUp'
<1> SUFFICES ASSUME NEW d \in Clients, online'[d]
             PROVE  AddsUp(summaries'[d], received'[d])
  <2>1. \A known, list : AddsUp(known, list)' = AddsUp(known', list')
      BY DEF AddsUp
  <2> QED
      BY DEF AddingUp, AddsUp
<1>0. /\ DOMAIN summaries = Clients /\ received \in [Clients -> Seq(Origins)]
      /\ online \in [Clients -> BOOLEAN]
    BY DEF TInv, SummariesOK, HistoryOK, FlagsOK
<1>1. CASE /\ summaries'[d] = summaries[d] /\ received'[d] = received[d] /\ online'[d] = online[d]
    BY <1>1, Zenon DEF AddingUp
<1>2. CASE UNCHANGED vars
    BY <1>1, <1>2, Zenon DEF vars, client, history
<1>3. ASSUME NEW c \in Clients, NEW word \in Words, Summary(c, word)
      PROVE  AddsUp(summaries'[d], received'[d])
  <2>1. received' = received /\ online' = online
      BY <1>3 DEF Summary, history
  <2>2. CASE d = c
    <3>1. summaries'[d] = Emplaced(summaries[d], Pair(word, Nothing))
        BY <1>0, <1>3, <2>2 DEF Summary
    <3>2. AddsUp(summaries[d], received[d])
        BY <2>1, Zenon DEF AddingUp
    <3> QED
        BY <2>1, <3>1, <3>2, AddsUpLookedUp, Zenon
  <2>3. CASE d # c
    <3>1. summaries'[d] = summaries[d]
        BY <1>0, <1>3, <2>3 DEF Summary
    <3> QED
        BY <1>1, <2>1, <3>1, Zenon
  <2> QED
      BY <2>2, <2>3
<1>4. ASSUME NEW c \in Clients, Keyboard(c)
      PROVE  AddsUp(summaries'[d], received'[d])
  <2>1. CASE \E word \in Words : Summary(c, word)
      BY <1>3, <2>1
  <2>2. CASE ~ \E word \in Words : Summary(c, word)
    <3>1. summaries' = summaries /\ received' = received /\ online' = online
        BY <1>4, <2>2 DEF Keyboard, Join, Report, SendEvent, Logout, history
    <3> QED
        BY <1>1, <3>1, Zenon
  <2> QED
      BY <2>1, <2>2
<1>5. ASSUME NEW c \in Clients, process(c)
      PROVE  AddsUp(summaries'[d], received'[d])
  <2>1. summaries' = summaries /\ received' = received /\ online' = online
      BY <1>5, SendPasses
          DEF process, exectueSUBSCRIBE, PassedOn, exectueDISCONNECT, client, history
  <2> QED
      BY <1>1, <2>1, Zenon
<1>6. ASSUME NEW c \in Clients, NEW known, AfterFrame(c, known)
      PROVE  /\ d = c => ~closing[c] /\ summaries'[d] = known
             /\ d # c => summaries'[d] = summaries[d] /\ online'[d] = online[d]
  <2>1. d = c => online'[d] = ~closing[c] /\ summaries'[d] = IF closing[c] THEN Nothing ELSE known
      BY <1>0, <1>6 DEF AfterFrame
  <2>2. d # c => summaries'[d] = summaries[d] /\ online'[d] = online[d]
      BY <1>0, <1>6 DEF AfterFrame
  <2> QED
      BY <2>1, <2>2, Zenon
<1>7. ASSUME NEW c \in Clients, ReadMESSAGE(c)
      PROVE  AddsUp(summaries'[d], received'[d])
  <2>1. PICK u \in Clients, e \in Written :
            /\ received' = [received EXCEPT ![c] = Append(@, By(u, e))]
            /\ AfterFrame(c, update_summary(summaries[c], gameName(e.team_a, e.team_b), u,
                                Event(u, lower[e.team_a], lower[e.team_b], e.name, e.time,
                                      e.updates, FlattenSeq(e.description))))
      BY <1>7, MessageIs, Zenon
  <2> DEFINE o == By(u, e)
             next == update_summary(summaries[c], gameName(o.team_a, o.team_b), u, Read(o))
  <2>2. o \in Originals /\ o.user = u
      BY OriginIs, Zenon
  <2>3. AfterFrame(c, next)
      BY <2>1, OriginIs, Zenon DEF Read
  <2>4. CASE d = c
    <3>1. summaries'[d] = next
        BY <1>6, <2>3, <2>4, Zenon
    <3>2. received'[d] = Append(received[d], o) /\ received[d] \in Seq(Originals)
      <4>1. received[d] \in Seq(Originals)
          BY <1>0, OriginsTyped
      <4> HIDE DEF o
      <4>2. received' = [received EXCEPT ![c] = Append(@, o)]
          BY <2>1, Zenon DEF o
      <4> QED
          BY <1>0, <2>4, <4>1, <4>2
    <3>3. AddsUp(summaries[d], received[d])
      <4>1. online[c]
          BY <1>7 DEF ReadMESSAGE
      <4> QED
          BY <2>4, <4>1, Zenon DEF AddingUp
    <3> HIDE DEF o
    <3>4. AddsUp(next, Append(received[d], o))
        BY <2>2, <2>4, <3>2, <3>3, AddsUpMore, Zenon
    <3> QED
        BY <3>1, <3>2, <3>4, Zenon
  <2>5. CASE d # c
    <3>1. received'[d] = received[d]
        BY <1>0, <2>1, <2>5
    <3>2. summaries'[d] = summaries[d] /\ online'[d] = online[d]
        BY <1>6, <2>3, <2>5, Zenon
    <3> QED
        BY <1>1, <3>1, <3>2, Zenon
  <2> QED
      BY <2>4, <2>5
<1>8. ASSUME NEW c \in Clients, ReadRECEIPT(c) \/ ReadFails(c)
      PROVE  AddsUp(summaries'[d], received'[d])
  <2>1. AfterFrame(c, summaries[c]) /\ received' = received /\ online[c]
      BY <1>8 DEF ReadRECEIPT, ReadFails
  <2>2. CASE d = c
    <3>1. summaries'[d] = summaries[d]
        BY <1>6, <2>1, <2>2, Zenon
    <3> QED
        BY <2>1, <2>2, <3>1, Zenon DEF AddingUp
  <2>3. CASE d # c
    <3>1. summaries'[d] = summaries[d] /\ online'[d] = online[d]
        BY <1>6, <2>1, <2>3, Zenon
    <3> QED
        BY <1>1, <2>1, <3>1, Zenon
  <2> QED
      BY <2>2, <2>3
<1> QED
    BY <1>2, <1>4, <1>5, <1>7, <1>8, Zenon DEF Next, Socket

LEMMA AddingUpMeans ==
    ASSUME AddingUp
    PROVE  SummariesAddUp
<1>1. ASSUME NEW c \in Clients, NEW user \in Clients, NEW game \in Games, online[c]
      PROVE  LET events == ReadBy(c, user, game)
                 summary == summaries[c][game][user]
             IN  /\ HasSummary(c, user, game) <=> events # <<>>
                 /\ events # <<>> =>
                    /\ <<summary.team_a, summary.team_b>> = game
                    /\ Sums(summary, events)
  <2>1. AddsUp(summaries[c], received[c])
      BY <1>1, Zenon DEF AddingUp
  <2>2. LET events == Told(received[c], user, game)
        IN  /\ Has(summaries[c], game, user) <=> events # <<>>
            /\ events # <<>> =>
                /\ summaries[c][game][user] \in Summaries
                /\ <<summaries[c][game][user].team_a, summaries[c][game][user].team_b>> = game
                /\ Sums(summaries[c][game][user], events)
      BY <2>1, Zenon DEF AddsUp
  <2> QED
      BY <2>2, Zenon DEF Has, HasSummary, ReadBy
<1> QED
    BY <1>1, Zenon DEF SummariesAddUp, Sums

\* Every client's summaries tell what the frames it has read were made of: each key has the
\* value reported last, no key is lost or made up, the descriptions are there once each and
\* in order, whether or not SENDs are cut short.  What reportEvent() writes, the server
\* splits and parse() reads comes out of it unchanged, for all files whose keys have no
\* colon and whose values no line end.
THEOREM SummariesRight == Spec => []SummariesAddUp
<1>1. Init => TInv /\ AddingUp
  <2>1. Init => AddingUp
      BY AddsUpAtFirst DEF Init, AddingUp
  <2> QED
      BY <2>1, TypesAtFirst
<1>2. TInv /\ AddingUp /\ [Next]_vars => TInv' /\ AddingUp'
    BY TypesKept, AddingUpKept
<1>3. TInv /\ AddingUp => SummariesAddUp
    BY AddingUpMeans
<1> QED
    BY <1>1, <1>2, <1>3, PTL DEF Spec

-----------------------------------------------------------------------------
(* What was sent to a client is on its way or read *)

\* What a frame to a client brings.
Brings == [m \in Downward |-> IF m.command = "MESSAGE" THEN <<m.origin>> ELSE <<>>]
Coming(frames) == FlattenSeq(Mapped(Brings, frames))

Arriving == ~cut => \A c \in Clients : online[c] => due[c] = received[c] \o Coming(down[c])

LEMMA BringsType ==
    /\ Brings \in [Downward -> Seq(Originals)]
    /\ Plain("RECEIPT", <<>>) \in Downward /\ Brings[Plain("RECEIPT", <<>>)] = <<>>
    /\ \A u \in Clients, e \in Written :
          Passed(u, e) \in Downward /\ Brings[Passed(u, e)] = <<By(u, e)>>
<1>1. /\ Plain("RECEIPT", <<>>) \in Downward
      /\ \A u \in Clients, e \in Written : Passed(u, e) \in Downward
    BY DEF Downward
<1>2. Brings[Plain("RECEIPT", <<>>)] = <<>>
  <2>1. Plain("RECEIPT", <<>>).command # "MESSAGE"
      BY DEF Plain, Frame
  <2> HIDE DEF Downward
  <2> QED
      BY <1>1, <2>1 DEF Brings
<1>3. ASSUME NEW u \in Clients, NEW e \in Written PROVE Brings[Passed(u, e)] = <<By(u, e)>>
  <2>1. Passed(u, e).command = "MESSAGE" /\ Passed(u, e).origin = By(u, e)
      BY DEF Passed, Frame
  <2>2. Brings[Passed(u, e)] = <<Passed(u, e).origin>>
      BY <1>1, <2>1 DEF Brings
  <2> QED
      BY <2>1, <2>2, Zenon
<1>4. ASSUME NEW m \in Downward PROVE Brings[m] \in Seq(Originals)
  <2>1. CASE m = Plain("RECEIPT", <<>>)
    <3>1. <<>> \in Seq(Originals)
        OBVIOUS
    <3> QED
        BY <1>2, <2>1, <3>1, Zenon
  <2>2. CASE \E u \in Clients, e \in Written : m = Passed(u, e)
    <3>1. PICK u \in Clients, e \in Written : m = Passed(u, e)
        BY <2>2
    <3>2. Brings[m] = <<By(u, e)>> /\ By(u, e) \in Originals
        BY <1>3, <3>1, OriginIs, Zenon
    <3> QED
        BY <3>2
  <2> QED
      BY <2>1, <2>2 DEF Downward
<1>5. DOMAIN Brings = Downward /\ Brings = [m \in Downward |-> Brings[m]]
    BY Zenon DEF Brings
<1>6. Brings \in [Downward -> Seq(Originals)]
    BY <1>4, <1>5
<1> QED
    BY <1>1, <1>2, <1>3, <1>6, Zenon

LEMMA ComingIs ==
    ASSUME NEW frames \in Seq(Downward)
    PROVE  /\ Coming(frames) \in Seq(Originals) /\ Coming(<<>>) = <<>>
           /\ \A m \in Downward : Coming(Append(frames, m)) = Coming(frames) \o Brings[m]
           /\ frames # <<>> => Coming(frames) = Brings[Head(frames)] \o Coming(Tail(frames))
<1>1. Brings \in [Downward -> Seq(Originals)]
    BY BringsType, Zenon
<1>2. Coming(frames) \in Seq(Originals)
    BY <1>1, FlattenMapped, Zenon DEF Coming
<1>3. Coming(<<>>) = <<>>
  <2>1. Mapped(Brings, <<>>) = <<>>
      BY DEF Mapped
  <2>2. FlattenSeq(<<>>) = <<>>
      BY DEF FlattenSeq
  <2> QED
      BY <2>1, <2>2, Zenon DEF Coming
<1>4. \A m \in Downward : Coming(Append(frames, m)) = Coming(frames) \o Brings[m]
  <2>1. \A m \in Downward : FlattensAppend(Brings, frames, m)
      BY <1>1, FlattenMappedAppend
  <2> QED
      BY <2>1, Zenon DEF Coming, FlattensAppend
<1>5. ASSUME frames # <<>> PROVE Coming(frames) = Brings[Head(frames)] \o Coming(Tail(frames))
  <2>1. /\ Head(frames) \in Downward /\ Tail(frames) \in Seq(Downward)
        /\ frames = <<Head(frames)>> \o Tail(frames)
      BY <1>5
  <2>2. Coming(<<Head(frames)>> \o Tail(frames)) = Brings[Head(frames)] \o Coming(Tail(frames))
    <3>1. FlattensCons(Brings, Head(frames), Tail(frames))
        BY ONLY <1>1, <2>1, FlattenMappedCons
    <3> QED
        BY <3>1, Zenon DEF Coming, FlattensCons
  <2> QED
      BY <2>1, <2>2, Zenon
<1> QED
    BY <1>2, <1>3, <1>4, <1>5, Zenon

LEMMA ArrivingKept ==
    ASSUME TInv, Arriving, [Next]_vars
    PROVE  Arriving'
<1> SUFFICES ASSUME ~cut', NEW d \in Clients, online'[d]
             PROVE  due'[d] = received'[d] \o Coming(down'[d])
  <2>1. \A frames : Coming(frames)' = Coming(frames')
      BY DEF Coming, Mapped, Brings
  <2> QED
      BY <2>1, Zenon DEF Arriving
<1>0. /\ down[d] \in Seq(Downward) /\ due[d] \in Seq(Originals) /\ received[d] \in Seq(Originals)
      /\ online \in [Clients -> BOOLEAN]
  <2>1. down[d] \in Seq(Downward) /\ due[d] \in Seq(Origins) /\ received[d] \in Seq(Origins)
      BY DEF TInv, DownOK, HistoryOK
  <2> QED
      BY <2>1, OriginsTyped DEF TInv, FlagsOK
<1>00. ~cut
  <2>1. ASSUME NEW c \in Clients, process(c) PROVE ~cut
      BY <2>1, SendPasses, Zenon DEF process, exectueSUBSCRIBE, exectueDISCONNECT, history
  <2>2. ASSUME NEW c \in Clients, Keyboard(c) \/ Socket(c) \/ UNCHANGED vars PROVE cut' = cut
      BY <2>2 DEF Keyboard, Join, Report, SendEvent, Summary, Logout, Socket, ReadMESSAGE,
                  ReadRECEIPT, ReadFails, AfterFrame, vars, history
  <2> QED
      BY <2>1, <2>2 DEF Next, vars, history
<1>0a. online[d] => due[d] = received[d] \o Coming(down[d])
    BY <1>00, Zenon DEF Arriving
<1>1. CASE due'[d] = due[d] /\ received'[d] = received[d] /\ down'[d] = down[d] /\ online'[d] = online[d]
    BY <1>0a, <1>1, Zenon
<1>2. CASE UNCHANGED vars
    BY <1>1, <1>2, Zenon DEF vars, client, network, history
<1>3. ASSUME NEW c \in Clients, Keyboard(c)
      PROVE  due'[d] = received'[d] \o Coming(down'[d])
  <2>1. due' = due /\ received' = received /\ down' = down /\ online' = online
      BY <1>3 DEF Keyboard, Join, Report, SendEvent, Summary, Logout, network, history
  <2> QED
      BY <1>1, <2>1, Zenon
<1>4. ASSUME NEW c \in Clients,
             down' = [down EXCEPT ![c] = Append(@, Plain("RECEIPT", <<>>))],
             due' = due, received' = received, online' = online
      PROVE  due'[d] = received'[d] \o Coming(down'[d])
  <2> DEFINE m == Plain("RECEIPT", <<>>)
  <2>1. m \in Downward /\ Brings[m] = <<>>
      BY BringsType, Zenon
  <2>2. CASE d = c
    <3>1. down'[d] = Append(down[d], m)
      <4> HIDE DEF m
      <4>1. down' = [down EXCEPT ![c] = Append(@, m)]
          BY <1>4, Zenon DEF m
      <4> QED
          BY <2>2, <4>1 DEF TInv, DownOK
    <3>2. Coming(down'[d]) = Coming(down[d]) \o Brings[m] /\ Coming(down[d]) \in Seq(Originals)
        BY <1>0, <2>1, <3>1, ComingIs, Zenon
    <3> HIDE DEF m
    <3>3. Coming(down'[d]) = Coming(down[d])
        BY <2>1, <3>2
    <3> QED
        BY <1>0a, <1>4, <3>3, Zenon
  <2>3. CASE d # c
    <3>1. down'[d] = down[d]
        BY <1>4, <2>3 DEF TInv, DownOK
    <3> QED
        BY <1>1, <1>4, <3>1, Zenon
  <2> QED
      BY <2>2, <2>3
<1>5. ASSUME NEW c \in Clients, executeSEND(c) \/ SENDCutShort(c)
      PROVE  due'[d] = received'[d] \o Coming(down'[d])
  <2>0. PassedOn(c, subscribers[Head(up[c]).game])
      BY <1>5, SendPasses, Zenon
  <2>1. UpOK /\ received' = received /\ online' = online /\ d \in threads
      BY <1>00, <2>0 DEF TInv, FlagsOK, PassedOn, client
  <2>2. PICK e \in Written : Passes(c, e, subscribers[Head(up[c]).game])
      BY <2>0, <2>1, SendIs, Zenon
  <2> DEFINE m == Passed(c, e)
             o == By(c, e)
  <2>3. m \in Downward /\ Brings[m] = <<o>> /\ o \in Originals
      BY BringsType, OriginIs, Zenon
  <2>4. CASE d \in subscribers[gameName(e.team_a, e.team_b)] /\ online[d]
    <3>1. down'[d] = Append(down[d], m) /\ due'[d] = Append(due[d], o)
        BY <2>1, <2>2, <2>4, Zenon DEF Passes
    <3>2. Coming(down'[d]) = Coming(down[d]) \o Brings[m] /\ Coming(down[d]) \in Seq(Originals)
        BY <1>0, <2>3, <3>1, ComingIs, Zenon
    <3> HIDE DEF m, o
    <3> DEFINE r == received[d]
               q == Coming(down[d])
    <3>3. due'[d] = Append(r \o q, o) /\ Coming(down'[d]) = q \o <<o>>
        BY <1>0a, <2>3, <2>4, <3>1, <3>2, Zenon
    <3>4. r \in Seq(Originals) /\ q \in Seq(Originals) /\ o \in Originals
        BY <1>0, <2>3, <3>2, Zenon
    <3> HIDE DEF r, q
    <3>5. Append(r \o q, o) = r \o (q \o <<o>>)
      <4>1. AppendsBehind(r, q, o)
          BY ONLY <3>4, AppendBehind
      <4> QED
          BY ONLY <4>1 DEF AppendsBehind
    <3> QED
        BY <2>1, <3>3, <3>5, Zenon DEF r
  <2>5. CASE ~(d \in subscribers[gameName(e.team_a, e.team_b)] /\ online[d])
    <3>1. down'[d] = down[d] /\ due'[d] = due[d]
        BY <2>2, <2>5, Zenon DEF Passes
    <3> QED
        BY <1>1, <2>1, <3>1, Zenon
  <2> QED
      BY <2>4, <2>5
<1>6. ASSUME NEW c \in Clients, process(c)
      PROVE  due'[d] = received'[d] \o Coming(down'[d])
  <2>1. CASE executeSEND(c) \/ SENDCutShort(c)
      BY <1>5, <2>1
  <2>2. CASE exectueSUBSCRIBE(c) \/ exectueDISCONNECT(c)
    <3>1. /\ down' = [down EXCEPT ![c] = Append(@, Plain("RECEIPT", <<>>))]
          /\ due' = due /\ received' = received /\ online' = online
        BY <2>2 DEF exectueSUBSCRIBE, exectueDISCONNECT, client, history
    <3> QED
        BY <1>4, <3>1, Zenon
  <2> QED
      BY <1>6, <2>1, <2>2 DEF process
<1>7. ASSUME NEW c \in Clients, NEW known, AfterFrame(c, known)
      PROVE  /\ due' = due
             /\ d = c => ~closing[d] /\ down'[d] = Tail(down[d])
             /\ d # c => down'[d] = down[d] /\ online'[d] = online[d]
  <2>1. due' = due
      BY <1>7 DEF AfterFrame
  <2>2. /\ d = c => online'[d] = ~closing[c]
        /\ d = c => down'[d] = IF closing[c] THEN <<>> ELSE Tail(down[c])
      BY <1>0, <1>7 DEF AfterFrame, TInv, DownOK
  <2>3. d # c => down'[d] = down[d] /\ online'[d] = online[d]
      BY <1>0, <1>7 DEF AfterFrame, TInv, DownOK
  <2> QED
      BY <2>1, <2>2, <2>3, Zenon
<1>8. ASSUME NEW c \in Clients, ReadMESSAGE(c)
      PROVE  due'[d] = received'[d] \o Coming(down'[d])
  <2>1. PICK u \in Clients, e \in Written :
            /\ Head(down[c]) = Passed(u, e)
            /\ received' = [received EXCEPT ![c] = Append(@, By(u, e))]
            /\ AfterFrame(c, update_summary(summaries[c], gameName(e.team_a, e.team_b), u,
                                Event(u, lower[e.team_a], lower[e.team_b], e.name, e.time,
                                      e.updates, FlattenSeq(e.description))))
      BY <1>8, MessageIs, Zenon
  <2> DEFINE o == By(u, e)
  <2>2. /\ due' = due
        /\ d = c => down'[d] = Tail(down[d])
        /\ d # c => down'[d] = down[d] /\ online'[d] = online[d]
      BY <1>7, <2>1, Zenon
  <2>3. o \in Originals /\ Brings[Passed(u, e)] = <<o>>
      BY BringsType, OriginIs, Zenon
  <2>4. CASE d = c
    <3> HIDE DEF o
    <3>1. received'[d] = Append(received[d], o)
      <4>1. received' = [received EXCEPT ![c] = Append(@, o)]
          BY <2>1, Zenon DEF o
      <4> QED
          BY <2>4, <4>1 DEF TInv, HistoryOK
    <3>2. online[d] /\ down[d] # <<>>
        BY <1>8, <2>4 DEF ReadMESSAGE
    <3>3. Coming(down[d]) = <<o>> \o Coming(Tail(down[d]))
      <4>1. Coming(down[d]) = Brings[Head(down[d])] \o Coming(Tail(down[d]))
          BY <1>0, <3>2, ComingIs, Zenon
      <4> QED
          BY <2>1, <2>3, <2>4, <4>1, Zenon
    <3>4. Coming(Tail(down[d])) \in Seq(Originals)
      <4>1. Tail(down[d]) \in Seq(Downward)
          BY <1>0, <3>2
      <4> QED
          BY <4>1, ComingIs, Zenon
    <3> DEFINE r == received[d]
               q == Coming(Tail(down[d]))
    <3>5. due'[d] = r \o (<<o>> \o q)
        BY <1>0a, <2>2, <3>2, <3>3, Zenon
    <3>6. r \in Seq(Originals) /\ q \in Seq(Originals) /\ o \in Originals
        BY <1>0, <2>3, <3>4, Zenon
    <3> HIDE DEF r, q
    <3>7. r \o (<<o>> \o q) = Append(r, o) \o q
        BY ONLY <3>6
    <3> QED
        BY <2>2, <2>4, <3>1, <3>5, <3>7, Zenon DEF r, q
  <2>5. CASE d # c
    <3>1. received'[d] = received[d]
        BY <2>1, <2>5 DEF TInv, HistoryOK
    <3> QED
        BY <1>1, <2>2, <2>5, <3>1, Zenon
  <2> QED
      BY <2>4, <2>5
<1>9. ASSUME NEW c \in Clients, ReadRECEIPT(c)
      PROVE  due'[d] = received'[d] \o Coming(down'[d])
  <2>1. /\ AfterFrame(c, summaries[c]) /\ received' = received /\ online[c] /\ down[c] # <<>>
        /\ Head(down[c]).command = "RECEIPT"
      BY <1>9 DEF ReadRECEIPT
  <2>2. /\ due' = due
        /\ d = c => down'[d] = Tail(down[d])
        /\ d # c => down'[d] = down[d] /\ online'[d] = online[d]
      BY <1>7, <2>1, Zenon
  <2>3. CASE d = c
    <3>1. Brings[Head(down[d])] = <<>>
      <4>1. Head(down[d]) \in Downward
          BY <1>0, <2>1, <2>3
      <4>2. Head(down[d]).command # "MESSAGE"
          BY <2>1, <2>3
      <4> QED
          BY <4>1, <4>2, Zenon DEF Brings
    <3>2. Coming(down[d]) = Brings[Head(down[d])] \o Coming(Tail(down[d]))
        BY <1>0, <2>1, <2>3, ComingIs, Zenon
    <3>3. Coming(Tail(down[d])) \in Seq(Originals)
      <4>1. Tail(down[d]) \in Seq(Downward)
          BY <1>0, <2>1, <2>3
      <4> QED
          BY <4>1, ComingIs, Zenon
    <3>4. Coming(down[d]) = Coming(Tail(down[d]))
        BY <3>1, <3>2, <3>3
    <3> QED
        BY <1>0a, <2>1, <2>2, <2>3, <3>4, Zenon
  <2>4. CASE d # c
      BY <1>1, <2>1, <2>2, <2>4, Zenon
  <2> QED
      BY <2>3, <2>4
<1>10. ASSUME NEW c \in Clients, ReadFails(c)
       PROVE  due'[d] = received'[d] \o Coming(down'[d])
  <2>1. AfterFrame(c, summaries[c]) /\ received' = received /\ closing[c]
      BY <1>10 DEF ReadFails
  <2>2. due' = due /\ d # c /\ down'[d] = down[d] /\ online'[d] = online[d]
      BY <1>7, <2>1, Zenon
  <2> QED
      BY <1>1, <2>1, <2>2, Zenon
<1> QED
    BY <1>2, <1>3, <1>6, <1>8, <1>9, <1>10, Zenon DEF Next, Socket

-----------------------------------------------------------------------------
(* Nobody who logs out sends anything behind DISCONNECT *)

\* No frame of a list is a DISCONNECT.
Staying(frames) == \A i \in DOMAIN frames : frames[i].command # "DISCONNECT"

Leaving ==
    \A c \in Clients :
        /\ closing[c] => todo[c] = <<>>
        /\ ~closing[c] => Staying(up[c])
        /\ \A i \in DOMAIN up[c] : up[c][i].command = "DISCONNECT" => i = Len(up[c])

LEMMA StayingIs ==
    ASSUME NEW S, NEW frames \in Seq(S), NEW m \in S, Staying(frames)
    PROVE  /\ m.command # "DISCONNECT" => Staying(Append(frames, m))
           /\ \A i \in DOMAIN Append(frames, m) :
                 Append(frames, m)[i].command = "DISCONNECT" => i = Len(Append(frames, m))
<1> DEFINE more == Append(frames, m)
           n == Len(frames)
<1>1. /\ n \in Nat /\ Len(more) = n + 1 /\ DOMAIN more = 1..n + 1 /\ DOMAIN frames = 1..n
      /\ more[n + 1] = m /\ \A i \in 1..n : more[i] = frames[i]
    OBVIOUS
<1> HIDE DEF more, n
<1>2. ASSUME NEW i \in DOMAIN more, i # n + 1 PROVE more[i].command # "DISCONNECT"
  <2>1. i \in DOMAIN frames /\ more[i] = frames[i]
      BY <1>1, <1>2
  <2> QED
      BY <2>1, Zenon DEF Staying
<1>3. more[n + 1].command = m.command
    BY <1>1, Zenon
<1>4. m.command # "DISCONNECT" => Staying(more)
    BY <1>2, <1>3, Zenon DEF Staying
<1>5. \A i \in DOMAIN more : more[i].command = "DISCONNECT" => i = Len(more)
    BY <1>1, <1>2, Zenon
<1> QED
    BY <1>4, <1>5, Zenon DEF more

LEMMA LeavingKept ==
    ASSUME TInv, Leaving, [Next]_vars
    PROVE  Leaving'
<1> DEFINE Goal(d) == /\ closing'[d] => todo'[d] = <<>>
                      /\ ~closing'[d] => Staying(up'[d])
                      /\ \A i \in DOMAIN up'[d] : up'[d][i].command = "DISCONNECT"
                                                    => i = Len(up'[d])
<1> SUFFICES ASSUME NEW d \in Clients
             PROVE  Goal(d)
    BY Zenon DEF Leaving, Staying
<1>0. /\ closing \in [Clients -> BOOLEAN] /\ todo \in [Clients -> Seq(Written)]
      /\ UpOK /\ up[d] \in Seq(Upward(d))
    BY DEF TInv, FlagsOK, TodoOK, UpOK
<1>0a. /\ closing[d] => todo[d] = <<>>
       /\ ~closing[d] => Staying(up[d])
       /\ \A i \in DOMAIN up[d] : up[d][i].command = "DISCONNECT" => i = Len(up[d])
    BY Zenon DEF Leaving
<1>1. CASE closing'[d] = closing[d] /\ todo'[d] = todo[d] /\ up'[d] = up[d]
    BY <1>0a, <1>1, Zenon
<1>2. CASE UNCHANGED vars
    BY <1>1, <1>2, Zenon DEF vars, client, network
<1>3. ASSUME NEW m \in Upward(d), m.command # "DISCONNECT", Put(d, m), ~closing[d],
             closing'[d] = closing[d]
      PROVE  Goal(d)
  <2>1. up'[d] = Append(up[d], m)
      BY <1>0, <1>3, PutKeeps, Zenon
  <2>2. Staying(up[d])
      BY <1>0a, <1>3, Zenon
  <2>3. /\ Staying(Append(up[d], m))
        /\ \A i \in DOMAIN Append(up[d], m) :
              Append(up[d], m)[i].command = "DISCONNECT" => i = Len(Append(up[d], m))
      BY <1>0, <1>3, <2>2, StayingIs, Zenon
  <2> QED
      BY <1>3, <2>1, <2>3, Zenon
<1>4. ASSUME NEW c \in Clients, Keyboard(c)
      PROVE  Goal(d)
  <2>1. CASE c # d
    <3>1. closing'[d] = closing[d] /\ todo'[d] = todo[d] /\ up'[d] = up[d]
        BY <1>0, <1>4, <2>1 DEF Keyboard, Join, Report, SendEvent, Summary, Logout, Put, UpOK,
                                network
    <3> QED
        BY <1>1, <3>1, Zenon
  <2>2. CASE \E game \in Games : Join(d, game)
    <3>1. PICK game \in Games : Join(d, game)
        BY <2>2
    <3> DEFINE m == Plain("SUBSCRIBE", game)
    <3>2. m \in Upward(d) /\ m.command # "DISCONNECT"
        BY DEF Upward, Plain, Frame
    <3>3. Put(d, m) /\ ~closing[d] /\ closing' = closing
        BY <3>1 DEF Join, Free
    <3> HIDE DEF m
    <3> QED
        BY <1>3, <3>2, <3>3, Zenon
  <2>3. CASE \E file \in Files : Report(d, file)
    <3>1. ~closing[d] /\ closing' = closing /\ up' = up
        BY <2>3 DEF Report, Free, network
    <3> QED
        BY <1>0a, <3>1, Zenon
  <2>4. CASE SendEvent(d)
    <3> DEFINE m == Sent(d, Head(todo[d]))
    <3>1. todo[d] # <<>> /\ closing' = closing /\ (Put(d, m) \/ UNCHANGED up)
        BY <2>4 DEF SendEvent, Sent, By
    <3>2. ~closing[d]
        BY <1>0a, <3>1, Zenon
    <3>3. m \in Upward(d) /\ m.command # "DISCONNECT"
      <4>1. Head(todo[d]) \in Written
          BY <1>0, <3>1
      <4>2. m \in Upward(d)
          BY <4>1 DEF Upward
      <4>3. m.command = "SEND"
          BY DEF Sent, Frame
      <4> QED
          BY <4>2, <4>3
    <3> HIDE DEF m
    <3>4. CASE Put(d, m)
        BY <1>3, <3>1, <3>2, <3>3, <3>4, Zenon
    <3>5. CASE UNCHANGED up
        BY <1>0a, <3>1, <3>2, <3>5, Zenon
    <3> QED
        BY <3>1, <3>4, <3>5
  <2>5. CASE \E word \in Words : Summary(d, word)
    <3>1. closing' = closing /\ todo' = todo /\ up' = up
        BY <2>5 DEF Summary, network
    <3> QED
        BY <1>1, <3>1, Zenon
  <2>6. CASE Logout(d)
    <3> DEFINE m == Plain("DISCONNECT", <<>>)
    <3>1. Put(d, m) /\ ~closing[d] /\ todo[d] = <<>> /\ todo' = todo /\ closing'[d]
        BY <1>0, <2>6 DEF Logout, Free
    <3>2. m \in Upward(d)
        BY DEF Upward
    <3> HIDE DEF m
    <3>3. up'[d] = Append(up[d], m)
        BY <1>0, <3>1, <3>2, PutKeeps, Zenon
    <3>4. Staying(up[d])
        BY <1>0a, <3>1, Zenon
    <3>5. \A i \in DOMAIN Append(up[d], m) :
              Append(up[d], m)[i].command = "DISCONNECT" => i = Len(Append(up[d], m))
        BY <1>0, <3>2, <3>4, StayingIs, Zenon
    <3> QED
        BY <3>1, <3>3, <3>5, Zenon
  <2> QED
      BY <1>4, <2>1, <2>2, <2>3, <2>4, <2>5, <2>6, Zenon DEF Keyboard
<1>5. ASSUME NEW c \in Clients, process(c)
      PROVE  Goal(d)
  <2>1. up[c] # <<>> /\ Taken(c) /\ closing' = closing /\ todo' = todo
      BY <1>5, SendPasses DEF process, exectueSUBSCRIBE, PassedOn, exectueDISCONNECT, client
  <2>2. up'[c] = Tail(up[c]) /\ \A e \in Clients \ {c} : up'[e] = up[e]
      BY <1>0, <2>1, TakenKeeps, Zenon
  <2>3. CASE c # d
      BY <1>1, <2>1, <2>2, <2>3
  <2>4. CASE c = d
    <3> DEFINE n == Len(up[d])
               rest == Tail(up[d])
    <3>1. /\ n \in Nat /\ n # 0 /\ Len(rest) = n - 1 /\ DOMAIN rest = 1..n - 1
          /\ DOMAIN up[d] = 1..n /\ \A i \in 1..n - 1 : rest[i] = up[d][i + 1]
        BY <1>0, <2>1, <2>4
    <3> HIDE DEF n, rest
    <3>2. ASSUME NEW i \in DOMAIN rest
          PROVE  i + 1 \in DOMAIN up[d] /\ rest[i].command = up[d][i + 1].command
        BY <3>1
    <3>3. ~closing[d] => Staying(rest)
        BY <1>0a, <3>2, Zenon DEF Staying
    <3>4. ASSUME NEW i \in DOMAIN rest, rest[i].command = "DISCONNECT" PROVE i = Len(rest)
      <4>1. i + 1 = n
          BY <1>0a, <3>2, <3>4, Zenon DEF n
      <4> QED
          BY <3>1, <3>4, <4>1
    <3> QED
        BY <1>0a, <2>1, <2>2, <2>4, <3>3, <3>4, Zenon DEF rest
  <2> QED
      BY <2>3, <2>4
<1>6. ASSUME NEW c \in Clients, Socket(c)
      PROVE  Goal(d)
  <2>1. closing' = closing /\ todo' = todo /\ up' = up
      BY <1>6 DEF Socket, ReadMESSAGE, ReadRECEIPT, ReadFails, AfterFrame
  <2> QED
      BY <1>1, <2>1, Zenon
<1> QED
    BY <1>2, <1>4, <1>5, <1>6, Zenon DEF Next

-----------------------------------------------------------------------------
(* Followers of a game have been sent the same reports, from some report on *)

\* Who has been sent a report on a game is still on its channel, or has been taken off it
\* by his DISCONNECT.
Following ==
    \A c \in Clients, user \in Clients, game \in Games :
        online[c] /\ Told(due[c], user, game) # <<>>
            => c \in subscribers[game] \/ (closing[c] /\ up[c] = <<>>)

\* One of two lists is the end of the other.
Nested(s, t) == \E p \in Seq(Originals) : s = p \o t \/ t = p \o s

Agreeing ==
    \A c \in Clients, d \in Clients, user \in Clients, game \in Games :
        online[c] /\ online[d] /\ c \in subscribers[game] /\ d \in subscribers[game]
            => Nested(Told(due[c], user, game), Told(due[d], user, game))

\* Who is online in a step was so before it.
LEMMA OnlineWas ==
    ASSUME TInv, [Next]_vars, NEW d \in Clients, online'[d]
    PROVE  online[d]
<1>1. ASSUME NEW c \in Clients, NEW known, AfterFrame(c, known), online[c] PROVE online[d]
  <2>1. CASE d = c
      BY <1>1, <2>1
  <2>2. CASE d # c
      BY <1>1, <2>2 DEF AfterFrame, TInv, FlagsOK
  <2> QED
      BY <2>1, <2>2
<1>2. ASSUME NEW c \in Clients, Socket(c) PROVE online[d]
    BY <1>1, <1>2 DEF Socket, ReadMESSAGE, ReadRECEIPT, ReadFails
<1>3. ASSUME NEW c \in Clients, Keyboard(c) PROVE online[d]
    BY <1>3 DEF Keyboard, Join, Report, SendEvent, Summary, Logout
<1>4. ASSUME NEW c \in Clients, process(c) PROVE online[d]
    BY <1>4, SendPasses DEF process, exectueSUBSCRIBE, PassedOn, exectueDISCONNECT, client
<1>5. CASE UNCHANGED vars
    BY <1>5 DEF vars, client
<1> QED
    BY <1>2, <1>3, <1>4, <1>5, Zenon DEF Next

\* What of the reports a SEND of c makes due.
LEMMA SendDue ==
    ASSUME TInv, NEW c \in Clients, NEW to, PassedOn(c, to)
    PROVE  \E o \in Originals, g \in Games :
              \A d \in Clients, user \in Clients, game \in Games :
                  Told(due'[d], user, game) =
                      IF game = g /\ user = c /\ d \in subscribers[game] /\ online[d]
                      THEN Append(Told(due[d], user, game), o) ELSE Told(due[d], user, game)
<1>1. UpOK
    BY DEF TInv
<1>2. PICK e \in Written : Passes(c, e, to)
    BY <1>1, SendIs, Zenon
<1> DEFINE o == By(c, e)
           g == gameName(o.team_a, o.team_b)
<1>3. o \in Originals /\ o.user = c /\ g = gameName(e.team_a, e.team_b)
    BY OriginIs, Zenon
<1>4. g \in Games
    BY <1>3, WrittenGame, Zenon
<1>5. ASSUME NEW d \in Clients, NEW user \in Clients, NEW game \in Games
      PROVE  Told(due'[d], user, game) =
                IF game = g /\ user = c /\ d \in subscribers[game] /\ online[d]
                THEN Append(Told(due[d], user, game), o) ELSE Told(due[d], user, game)
  <2>1. due[d] \in Seq(Originals)
    <3>1. due[d] \in Seq(Origins)
        BY DEF TInv, HistoryOK
    <3> QED
        BY <3>1, OriginsTyped
  <2>2. due'[d] = IF d \in subscribers[g] /\ online[d] THEN Append(due[d], o) ELSE due[d]
      BY <1>2, <1>3, Zenon DEF Passes
  <2>2a. o \in Originals
      BY <1>3, Zenon
  <2> HIDE DEF g, o
  <2>3. Told(Append(due[d], o), user, game) =
            IF o.user = user /\ gameName(o.team_a, o.team_b) = game
            THEN Append(Told(due[d], user, game), o) ELSE Told(due[d], user, game)
    <3> DEFINE list == due[d]
    <3>1. list \in Seq(Originals)
        BY <2>1
    <3> HIDE DEF list
    <3>2. Told(Append(list, o), user, game) =
            IF o.user = user /\ gameName(o.team_a, o.team_b) = game
            THEN Append(Told(list, user, game), o) ELSE Told(list, user, game)
        BY <2>2a, <3>1, ToldAppend
    <3> QED
        BY <3>2 DEF list
  <2>4. CASE d \in subscribers[g] /\ online[d]
    <3>1. Told(due'[d], user, game) =
            IF user = c /\ game = g THEN Append(Told(due[d], user, game), o)
            ELSE Told(due[d], user, game)
        BY <1>3, <2>2, <2>3, <2>4, Zenon DEF g
    <3> QED
        BY <2>4, <3>1, Zenon
  <2>5. CASE ~(d \in subscribers[g] /\ online[d])
      BY <2>2, <2>5, Zenon
  <2> QED
      BY <2>4, <2>5
<1> HIDE DEF o, g
<1> QED
    BY <1>3, <1>4, <1>5, Zenon

LEMMA FollowingKept ==
    ASSUME TInv, Leaving, Following, [Next]_vars
    PROVE  Following'
<1> SUFFICES ASSUME NEW d \in Clients, NEW user \in Clients, NEW game \in Games,
                    online'[d], Told(due'[d], user, game) # <<>>
             PROVE  d \in subscribers'[game] \/ (closing'[d] /\ up'[d] = <<>>)
    BY Zenon DEF Following, Told
<1>0. online[d] /\ UpOK /\ subscribers \in [Games -> SUBSET Clients]
    BY OnlineWas DEF TInv, FlagsOK
<1>1. ASSUME due' = due
      PROVE  d \in subscribers[game] \/ (closing[d] /\ up[d] = <<>>)
    BY <1>0, <1>1, Zenon DEF Following
<1>2. CASE UNCHANGED vars
    BY <1>1, <1>2, Zenon DEF vars, client, network, history
<1>3. ASSUME NEW c \in Clients, Keyboard(c)
      PROVE  d \in subscribers'[game] \/ (closing'[d] /\ up'[d] = <<>>)
  <2>1. due' = due /\ subscribers' = subscribers
      BY <1>3 DEF Keyboard, Join, Report, SendEvent, Summary, Logout, network, history
  <2>2. ASSUME closing[d] PROVE closing'[d] /\ up'[d] = up[d]
    <3>1. CASE c # d
        BY <1>0, <1>3, <2>2, <3>1
            DEF Keyboard, Join, Report, SendEvent, Summary, Logout, Put, UpOK, network, TInv, FlagsOK
    <3>2. CASE c = d
      <4>1. ~Free(d)
          BY <2>2 DEF Free
      <4>2. SendEvent(d)
          BY <1>3, <3>2, <4>1 DEF Keyboard, Join, Report, Summary, Logout
      <4>3. todo[d] = <<>>
          BY <2>2, Zenon DEF Leaving
      <4> QED
          BY <4>2, <4>3 DEF SendEvent
    <3> QED
        BY <3>1, <3>2
  <2> QED
      BY <1>1, <2>1, <2>2, Zenon
<1>4. ASSUME NEW c \in Clients, exectueSUBSCRIBE(c)
      PROVE  d \in subscribers'[game] \/ (closing'[d] /\ up'[d] = <<>>)
  <2>1. /\ up[c] # <<>> /\ Taken(c) /\ due' = due /\ closing' = closing
        /\ subscribers' = [subscribers EXCEPT ![Head(up[c]).game] = @ \cup {c}]
      BY <1>4 DEF exectueSUBSCRIBE, client, history
  <2>2. subscribers[game] \subseteq subscribers'[game]
      BY <1>0, <2>1
  <2>3. CASE c = d
      BY <1>1, <2>1, <2>2, <2>3
  <2>4. CASE c # d
    <3>1. up'[d] = up[d]
        BY <1>0, <2>1, <2>4, TakenKeeps, Zenon
    <3> QED
        BY <1>1, <2>1, <2>2, <3>1
  <2> QED
      BY <2>3, <2>4
<1>5. ASSUME NEW c \in Clients, NEW to, PassedOn(c, to)
      PROVE  d \in subscribers'[game] \/ (closing'[d] /\ up'[d] = <<>>)
  <2>1. up[c] # <<>> /\ Taken(c) /\ closing' = closing /\ subscribers' = subscribers
      BY <1>5 DEF PassedOn, client
  <2>2. d \in subscribers[game] \/ Told(due'[d], user, game) = Told(due[d], user, game)
      BY <1>5, SendDue, Zenon
  <2>3. d \in subscribers[game] \/ (closing[d] /\ up[d] = <<>>)
      BY <1>0, <2>2, Zenon DEF Following
  <2>4. CASE c = d
      BY <2>1, <2>3, <2>4
  <2>5. CASE c # d
    <3>1. up'[d] = up[d]
        BY <1>0, <2>1, <2>5, TakenKeeps, Zenon
    <3> QED
        BY <2>1, <2>3, <3>1, Zenon
  <2> QED
      BY <2>4, <2>5
<1>6. ASSUME NEW c \in Clients, exectueDISCONNECT(c)
      PROVE  d \in subscribers'[game] \/ (closing'[d] /\ up'[d] = <<>>)
  <2>1. /\ up[c] # <<>> /\ Head(up[c]).command = "DISCONNECT" /\ Taken(c)
        /\ due' = due /\ closing' = closing
        /\ subscribers' = [g \in Games |-> subscribers[g] \ {c}]
      BY <1>6 DEF exectueDISCONNECT, client, history
  <2>2. up'[c] = Tail(up[c]) /\ \A e \in Clients \ {c} : up'[e] = up[e]
      BY <1>0, <2>1, TakenKeeps, Zenon
  <2>3. CASE c = d
    <3> DEFINE frames == up[d]
    <3>1. frames \in Seq(Upward(d)) /\ frames # <<>>
        BY <1>0, <2>1, <2>3 DEF UpOK
    <3>2. 1 \in DOMAIN frames /\ frames[1].command = "DISCONNECT"
      <4> HIDE DEF frames
      <4>1. 1 \in DOMAIN frames /\ frames[1] = Head(frames)
          BY <3>1
      <4> QED
          BY <2>1, <2>3, <4>1, Zenon DEF frames
    <3>3. closing[d] /\ Len(frames) = 1
        BY <3>2, Zenon DEF Leaving, Staying
    <3> HIDE DEF frames
    <3>4. Tail(frames) = <<>>
      <4>1. Tail(frames) \in Seq(Upward(d)) /\ Len(Tail(frames)) = 0
          BY <3>1, <3>3
      <4> QED
          BY <4>1, EmptySeq
    <3> QED
        BY <2>1, <2>2, <2>3, <3>3, <3>4, Zenon DEF frames
  <2>4. CASE c # d
    <3>1. up'[d] = up[d]
        BY <2>2, <2>4
    <3>2. d \in subscribers[game] => d \in subscribers'[game]
        BY <2>1, <2>4
    <3> QED
        BY <1>1, <2>1, <3>1, <3>2, Zenon
  <2> QED
      BY <2>3, <2>4
<1>7. ASSUME NEW c \in Clients, Socket(c)
      PROVE  d \in subscribers'[game] \/ (closing'[d] /\ up'[d] = <<>>)
  <2>1. due' = due /\ subscribers' = subscribers /\ closing' = closing /\ up' = up
      BY <1>7 DEF Socket, ReadMESSAGE, ReadRECEIPT, ReadFails, AfterFrame
  <2> QED
      BY <1>1, <2>1, Zenon
<1> QED
    BY <1>2, <1>3, <1>4, <1>5, <1>6, <1>7, SendPasses, Zenon DEF Next, process

LEMMA NestedIs ==
    ASSUME NEW s \in Seq(Originals), NEW t \in Seq(Originals)
    PROVE  /\ Nested(<<>>, t) /\ Nested(s, <<>>)
           /\ \A o \in Originals : Nested(s, t) => Nested(Append(s, o), Append(t, o))
<1>1. t = t \o <<>> /\ s = s \o <<>>
    OBVIOUS
<1>2. Nested(<<>>, t) /\ Nested(s, <<>>)
    BY <1>1, Zenon DEF Nested
<1>3. ASSUME NEW o \in Originals, NEW p \in Seq(Originals)
      PROVE  Append(p \o s, o) = p \o Append(s, o) /\ Append(p \o t, o) = p \o Append(t, o)
  <2>1. AppendsBehind(p, s, o)
      BY AppendBehind
  <2>2. AppendsBehind(p, t, o)
      BY AppendBehind
  <2> QED
      BY ONLY <2>1, <2>2 DEF AppendsBehind
<1>4. ASSUME NEW o \in Originals, Nested(s, t)
      PROVE  Nested(Append(s, o), Append(t, o))
  <2>1. PICK p \in Seq(Originals) : s = p \o t \/ t = p \o s
      BY <1>4, Zenon DEF Nested
  <2>2. Append(s, o) = p \o Append(t, o) \/ Append(t, o) = p \o Append(s, o)
      BY <1>3, <2>1, Zenon
  <2> QED
      BY <2>2, Zenon DEF Nested
<1> QED
    BY <1>2, <1>4, Zenon

LEMMA AgreeingKept ==
    ASSUME TInv, Leaving, Following, Agreeing, [Next]_vars
    PROVE  Agreeing'
<1> SUFFICES ASSUME NEW c \in Clients, NEW d \in Clients, NEW user \in Clients, NEW game \in Games,
                    online'[c], online'[d], c \in subscribers'[game], d \in subscribers'[game]
             PROVE  Nested(Told(due'[c], user, game), Told(due'[d], user, game))
    BY Zenon DEF Agreeing
<1>0. online[c] /\ online[d] /\ subscribers \in [Games -> SUBSET Clients]
    BY OnlineWas DEF TInv, FlagsOK
<1>0a. ASSUME NEW x \in Clients
       PROVE  Told(due[x], user, game) \in Seq(Originals)
  <2>1. due[x] \in Seq(Origins)
      BY DEF TInv, HistoryOK
  <2>2. due[x] \in Seq(Originals)
      BY <2>1, OriginsTyped
  <2> QED
      BY <2>2, ToldType, Zenon
<1>1. ASSUME due' = due, c \in subscribers[game], d \in subscribers[game]
      PROVE  Nested(Told(due'[c], user, game), Told(due'[d], user, game))
    BY <1>0, <1>1, Zenon DEF Agreeing
<1>2. CASE due' = due /\ subscribers' = subscribers
    BY <1>1, <1>2, Zenon
<1>3. ASSUME NEW x \in Clients, Keyboard(x) PROVE due' = due /\ subscribers' = subscribers
    BY <1>3 DEF Keyboard, Join, Report, SendEvent, Summary, Logout, network, history
<1>4. ASSUME NEW x \in Clients, Socket(x) PROVE due' = due /\ subscribers' = subscribers
    BY <1>4 DEF Socket, ReadMESSAGE, ReadRECEIPT, ReadFails, AfterFrame
<1>5. ASSUME NEW x \in Clients, exectueSUBSCRIBE(x)
      PROVE  Nested(Told(due'[c], user, game), Told(due'[d], user, game))
  <2>1. /\ up[x] # <<>> /\ due' = due
        /\ subscribers' = [subscribers EXCEPT ![Head(up[x]).game] = @ \cup {x}]
      BY <1>5 DEF exectueSUBSCRIBE, history
  <2>2. subscribers'[game] \subseteq subscribers[game] \cup {x}
      BY <1>0, <2>1
  <2>3. ASSUME online[x], x \notin subscribers[game] PROVE Told(due[x], user, game) = <<>>
      BY <2>1, <2>3, Zenon DEF Following
  <2>4. CASE c \notin subscribers[game]
    <3>1. c = x
        BY <2>2, <2>4
    <3>2. Told(due'[c], user, game) = <<>>
        BY <1>0, <2>1, <2>3, <2>4, <3>1, Zenon
    <3> QED
        BY <1>0a, <2>1, <3>2, NestedIs, Zenon
  <2>5. CASE d \notin subscribers[game]
    <3>1. d = x
        BY <2>2, <2>5
    <3>2. Told(due'[d], user, game) = <<>>
        BY <1>0, <2>1, <2>3, <2>5, <3>1, Zenon
    <3> QED
        BY <1>0a, <2>1, <3>2, NestedIs, Zenon
  <2> QED
      BY <1>1, <2>1, <2>4, <2>5, Zenon
<1>6. ASSUME NEW x \in Clients, NEW to, PassedOn(x, to)
      PROVE  Nested(Told(due'[c], user, game), Told(due'[d], user, game))
  <2>1. c \in subscribers[game] /\ d \in subscribers[game]
      BY <1>6 DEF PassedOn
  <2>2. Nested(Told(due[c], user, game), Told(due[d], user, game))
      BY <1>0, <2>1, Zenon DEF Agreeing
  <2>3. \/ /\ Told(due'[c], user, game) = Told(due[c], user, game)
           /\ Told(due'[d], user, game) = Told(due[d], user, game)
        \/ \E o \in Originals :
              /\ Told(due'[c], user, game) = Append(Told(due[c], user, game), o)
              /\ Told(due'[d], user, game) = Append(Told(due[d], user, game), o)
    <3>0. PICK o \in Originals, g \in Games :
              \A y \in Clients, v \in Clients, h \in Games :
                  Told(due'[y], v, h) =
                      IF h = g /\ v = x /\ y \in subscribers[h] /\ online[y]
                      THEN Append(Told(due[y], v, h), o) ELSE Told(due[y], v, h)
        BY <1>6, SendDue
    <3>1. \A y \in Clients :
              Told(due'[y], user, game) =
                  IF game = g /\ user = x /\ y \in subscribers[game] /\ online[y]
                  THEN Append(Told(due[y], user, game), o) ELSE Told(due[y], user, game)
        BY <3>0, Zenon
    <3>2. CASE game = g /\ user = x
      <4>1. /\ Told(due'[c], user, game) = Append(Told(due[c], user, game), o)
            /\ Told(due'[d], user, game) = Append(Told(due[d], user, game), o)
          BY <1>0, <2>1, <3>1, <3>2, Zenon
      <4> QED
          BY <4>1
    <3>3. CASE ~(game = g /\ user = x)
        BY <3>1, <3>3, Zenon
    <3> QED
        BY <3>2, <3>3
  <2> QED
      BY <1>0a, <2>2, <2>3, NestedIs, Zenon
<1>7. ASSUME NEW x \in Clients, exectueDISCONNECT(x)
      PROVE  Nested(Told(due'[c], user, game), Told(due'[d], user, game))
  <2>1. due' = due /\ subscribers' = [g \in Games |-> subscribers[g] \ {x}]
      BY <1>7 DEF exectueDISCONNECT, history
  <2>2. subscribers'[game] \subseteq subscribers[game]
      BY <2>1
  <2> QED
      BY <1>1, <2>1, <2>2
<1>8. CASE UNCHANGED vars
    BY <1>2, <1>8, Zenon DEF vars, network, history
<1> QED
    BY <1>2, <1>3, <1>4, <1>5, <1>6, <1>7, <1>8, SendPasses, Zenon DEF Next, process

-----------------------------------------------------------------------------
(* Followers agree *)

\* A key has one last value, and what a longer list says last its end says too.
LEMMA LastIsOne ==
    ASSUME NEW s \in Seq(Originals), NEW t \in Seq(Originals), Nested(s, t), NEW section, NEW key,
           NEW v, LastReported(s, section, key, v), NEW w, LastReported(t, section, key, w)
    PROVE  v = w
<1>1. ASSUME NEW events \in Seq(Originals), NEW x, LastReported(events, section, key, x),
             NEW y, LastReported(events, section, key, y)
      PROVE  x = y
  <2> DEFINE n == Len(events)
  <2>1. n \in Nat /\ DOMAIN events = 1..n
      OBVIOUS
  <2>2. PICK i \in 1..n :
            /\ key \in DOMAIN events[i].updates[section] /\ events[i].updates[section][key] = x
            /\ \A j \in i + 1 .. n : key \notin DOMAIN events[j].updates[section]
      BY <1>1, <2>1, Zenon DEF LastReported
  <2>3. PICK k \in 1..n :
            /\ key \in DOMAIN events[k].updates[section] /\ events[k].updates[section][key] = y
            /\ \A j \in k + 1 .. n : key \notin DOMAIN events[j].updates[section]
      BY <1>1, <2>1, Zenon DEF LastReported
  <2> HIDE DEF n
  <2>4. i \notin k + 1 .. n /\ k \notin i + 1 .. n
      BY <2>2, <2>3, Zenon
  <2>5. i = k
      BY <2>1, <2>4
  <2> QED
      BY <2>2, <2>3, <2>5, Zenon
<1>2. ASSUME NEW p \in Seq(Originals), NEW events \in Seq(Originals), NEW x,
             LastReported(events, section, key, x)
      PROVE  LastReported(p \o events, section, key, x) /\ p \o events \in Seq(Originals)
  <2> DEFINE n == Len(events)
             m == Len(p)
             all == p \o events
  <2>1. /\ n \in Nat /\ m \in Nat /\ DOMAIN events = 1..n /\ DOMAIN all = 1..m + n
        /\ Len(all) = m + n /\ all \in Seq(Originals) /\ \A i \in 1..n : all[m + i] = events[i]
      OBVIOUS
  <2>2. PICK i \in 1..n :
            /\ key \in DOMAIN events[i].updates[section] /\ events[i].updates[section][key] = x
            /\ \A j \in i + 1 .. n : key \notin DOMAIN events[j].updates[section]
      BY <1>2, <2>1, Zenon DEF LastReported
  <2> HIDE DEF n, m, all
  <2>3. m + i \in DOMAIN all /\ all[m + i] = events[i]
      BY <2>1
  <2>4. ASSUME NEW j \in (m + i) + 1 .. Len(all) PROVE key \notin DOMAIN all[j].updates[section]
    <3>1. j - m \in i + 1 .. n /\ j - m \in 1..n /\ j = m + (j - m)
        BY <2>1
    <3>2. all[m + (j - m)] = events[j - m]
        BY <2>1, <3>1
    <3> QED
        BY <2>2, <3>1, <3>2, Zenon
  <2>5. LastReported(all, section, key, x)
      BY <2>2, <2>3, <2>4, Zenon DEF LastReported
  <2> QED
      BY <2>1, <2>5, Zenon DEF all
<1>3. PICK p \in Seq(Originals) : s = p \o t \/ t = p \o s
    BY Zenon DEF Nested
<1>4. CASE s = p \o t
  <2>1. LastReported(s, section, key, w)
      BY <1>2, <1>4, Zenon
  <2> QED
      BY <1>1, <2>1, Zenon
<1>5. CASE t = p \o s
  <2>1. LastReported(t, section, key, v)
      BY <1>2, <1>5, Zenon
  <2> QED
      BY <1>1, <2>1, Zenon
<1> QED
    BY <1>3, <1>4, <1>5

FInv == TInv /\ AddingUp /\ Arriving /\ Leaving /\ Following /\ Agreeing

LEMMA FollowersMean ==
    ASSUME FInv
    PROVE  FollowersAgree
<1> SUFFICES ASSUME NEW c \in Clients, NEW d \in Clients, NEW user \in Clients, NEW game \in Games,
                    ~cut,
                    \A follower \in {c, d} :
                        /\ online[follower] /\ down[follower] = <<>>
                        /\ follower \in subscribers[game] /\ HasSummary(follower, user, game),
                    NEW s \in Sections,
                    NEW key \in DOMAIN summaries[c][game][user].updates[s]
                                \cap DOMAIN summaries[d][game][user].updates[s]
             PROVE  summaries[c][game][user].updates[s][key]
                        = summaries[d][game][user].updates[s][key]
    BY DEF FollowersAgree
<1> DEFINE told(x) == Told(due[x], user, game)
           value(x) == summaries[x][game][user].updates[s][key]
<1>1. ASSUME NEW x \in {c, d}
      PROVE  told(x) \in Seq(Originals) /\ LastReported(told(x), s, key, value(x))
  <2>1. /\ x \in Clients /\ online[x] /\ down[x] = <<>> /\ HasSummary(x, user, game)
        /\ key \in DOMAIN summaries[x][game][user].updates[s]
      OBVIOUS
  <2>2. due[x] \in Seq(Originals) /\ received[x] \in Seq(Originals)
    <3>1. due[x] \in Seq(Origins) /\ received[x] \in Seq(Origins)
        BY <2>1 DEF FInv, TInv, HistoryOK
    <3> QED
        BY <3>1, OriginsTyped
  <2>3. due[x] = received[x]
    <3>1. due[x] = received[x] \o Coming(<<>>)
        BY <2>1, Zenon DEF FInv, Arriving
    <3>2. <<>> \in Seq(Downward)
        OBVIOUS
    <3>3. Coming(<<>>) = <<>>
        BY <3>2, ComingIs, Zenon
    <3> QED
        BY <2>2, <3>1, <3>3
  <2>4. told(x) \in Seq(Originals)
      BY <2>2, ToldType, Zenon
  <2>5. AddsUp(summaries[x], received[x])
      BY <2>1, Zenon DEF FInv, AddingUp
  <2>6. Has(summaries[x], game, user)
      BY <2>1, Zenon DEF Has, HasSummary
  <2>7. Sums(summaries[x][game][user], told(x))
      BY <2>3, <2>5, <2>6, Zenon DEF AddsUp
  <2> QED
      BY <2>1, <2>4, <2>7, Zenon DEF Sums
<1>2. Nested(told(c), told(d))
    BY Zenon DEF FInv, Agreeing
<1> HIDE DEF told, value
<1>3. /\ told(c) \in Seq(Originals) /\ LastReported(told(c), s, key, value(c))
      /\ told(d) \in Seq(Originals) /\ LastReported(told(d), s, key, value(d))
    BY <1>1
<1>4. value(c) = value(d)
    BY <1>2, <1>3, LastIsOne, Zenon
<1> QED
    BY <1>4, Zenon DEF value

\* As long as no SEND was cut short by somebody who joins or leaves its channel, two clients
\* that have read all that was sent to them agree on every key that both have of a user's
\* reports on a game, when both are on its channel.  It needs that a client is sent
\* nothing about a game before it is on the channel, so that the one who joined later has
\* been sent the end of the other's reports; that the server's order is that of the
\* sockets; and that nobody comes back to a channel behind DISCONNECT.
THEOREM FollowersRight == Spec => []FollowersAgree
<1>1. Init => FInv
  <2> SUFFICES ASSUME Init PROVE FInv
      OBVIOUS
  <2>1. TInv /\ AddingUp
      BY TypesAtFirst, AddsUpAtFirst DEF Init, AddingUp
  <2>2. Arriving
    <3>1. <<>> \in Seq(Downward) /\ <<>> \o <<>> = <<>>
        OBVIOUS
    <3>2. Coming(<<>>) = <<>>
        BY <3>1, ComingIs, Zenon
    <3> QED
        BY <3>1, <3>2 DEF Init, Arriving
  <2>3. Leaving
      BY DEF Init, Leaving, Staying
  <2>4. \A c \in Clients, user \in Clients, game \in Games : Told(due[c], user, game) = <<>>
      BY NothingTold DEF Init
  <2>5. Following
      BY <2>4, Zenon DEF Following
  <2>6. Agreeing
    <3>1. <<>> \in Seq(Originals)
        OBVIOUS
    <3>2. Nested(<<>>, <<>>)
        BY <3>1, NestedIs, Zenon
    <3> QED
        BY <2>4, <3>2, Zenon DEF Agreeing
  <2> QED
      BY <2>1, <2>2, <2>3, <2>5, <2>6 DEF FInv
<1>2. FInv /\ [Next]_vars => FInv'
    BY TypesKept, AddingUpKept, ArrivingKept, LeavingKept, FollowingKept, AgreeingKept DEF FInv
<1>3. FInv => FollowersAgree
    BY FollowersMean
<1> QED
    BY <1>1, <1>2, <1>3, PTL DEF Spec
=============================================================================
