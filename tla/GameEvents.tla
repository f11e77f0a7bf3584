------------------------------ MODULE GameEvents ------------------------------
(***************************************************************************)
(* Event.cpp, and reportEvent() of the client: how an event becomes the    *)
(* body of a SEND frame, how the body of a MESSAGE becomes an event, and   *)
(* how events add up to the summary of a user's reports on a game.         *)
(*                                                                         *)
(* A body is a sequence of lines.  A line is the text in front of its      *)
(* first colon, with or without a tab, and the text behind it; a line of a *)
(* description has only words.  Keys and values are opaque: a key has no   *)
(* colon, and a value no line end.                                         *)
(*                                                                         *)
(* The description of an event in a file is a sequence of lines, that of   *)
(* an event read from a frame a sequence of words, and that of a summary a *)
(* sequence of what was reported when.                                     *)
(***************************************************************************)
EXTENDS Integers, SequencesExt

CONSTANTS Names,      \* of teams, in capital and small letters
          lower,      \* ::tolower, applied to a name
          Keys,       \* of updates
          Values      \* of updates, names of events, and words of their descriptions

ASSUME LowerAssumption ==
    lower \in [Names -> Names] /\ \A n \in Names : lower[lower[n]] = lower[n]

NoText == "no text"

-----------------------------------------------------------------------------
(* std::map *)

Maps == UNION {[K -> Values] : K \in {K \in SUBSET Keys : IsFiniteSet(K)}}
Nothing == <<>>
Pair(key, val) == [k \in {key} |-> val]

\* A map to which another's pairs are added one by one: a key keeps the value it has.
Emplaced(map, more) ==
    [key \in DOMAIN map \cup DOMAIN more |->
        IF key \in DOMAIN map THEN map[key] ELSE more[key]]

-----------------------------------------------------------------------------
(* Event *)

\* The three maps of updates, by the line that begins each one in a body.
Sections == {"general game updates", "team a updates", "team b updates"}

Event(user, a, b, name, time, updates, description) ==
    [user |-> user, team_a |-> a, team_b |-> b, name |-> name, time |-> time,
     updates |-> updates, description |-> description]

NoUpdates == [s \in Sections |-> Nothing]
EmptyEvent(a, b) == Event("", a, b, "", 0, NoUpdates, <<>>)

\* An event as it is in a file, the lines of its description apart.
FileEvents ==
    [name : Values, time : Int, updates : [Sections -> Maps], description : Seq(Seq(Values))]

\* parseEventsFile(): every event of the file gets the names of its teams.
parseEventsFile(file) ==
    [i \in DOMAIN file.events |->
        LET e == file.events[i]
        IN  Event("event without a user", file.team_a, file.team_b, e.name, e.time,
                  e.updates, e.description)]

\* The code joins the names by "_", so that games of teams with a "_" in their names might
\* come out the same; such names are left out.
gameName(a, b) == <<lower[a], lower[b]>>

-----------------------------------------------------------------------------
(* Lines *)

Line(left, val) == [tab |-> FALSE, left |-> left, val |-> val]
Tabbed(key, val) == [Line(key, val) EXCEPT !.tab = TRUE]
Text(words) == Line(NoText, words)

\* Mutant: no tab in front of a key.
UpdateLines_Flush(updates) ==
    LET keys == SetToSeq(DOMAIN updates)
    IN  [i \in DOMAIN keys |-> Line(keys[i], updates[keys[i]])]

\* A line per key, in some order.
UpdateLines(updates) ==
    LET keys == SetToSeq(DOMAIN updates)
    IN  [i \in DOMAIN keys |-> Tabbed(keys[i], updates[keys[i]])]

\* Mutant: the name has been cleared.
Header_NoUser(user, e) ==
    <<Line("user", ""), Line("team a", lower[e.team_a]), Line("team b", lower[e.team_b]),
      Line("event name", e.name), Line("time", e.time)>>

Header(user, e) ==
    <<Line("user", user), Line("team a", lower[e.team_a]), Line("team b", lower[e.team_b]),
      Line("event name", e.name), Line("time", e.time)>>

\* The body of the SEND frame for an event.
reportEvent(user, e) ==
    Header(user, e)
    \o <<Line("general game updates", "")>> \o UpdateLines(e.updates["general game updates"])
    \o <<Line("team a updates", "")>> \o UpdateLines(e.updates["team a updates"])
    \o <<Line("team b updates", "")>> \o UpdateLines(e.updates["team b updates"])
    \o <<Line("description", "")>> \o [i \in DOMAIN e.description |-> Text(e.description[i])]

\* extract() of the server splits a frame at its line ends, which drops the empty
\* lines at the end, and Message.toString() puts the lines together again.
extract(body) ==
    LET blank(line) == line.left = NoText /\ line.val = <<>>
        last == CHOOSE n \in 0..Len(body) :
                    /\ n = 0 \/ ~blank(body[n])
                    /\ \A i \in n + 1 .. Len(body) : blank(body[i])
    IN  SubSeq(body, 1, last)

-----------------------------------------------------------------------------
(* Event(frame_body) reads the lines one by one.  Inside a section it looks out  *)
(* for the line that begins the next one.                                        *)

\* The first line that has a title in front of its colon; reportEvent() puts the
\* titles in the order in which they are looked for.
Find(body, title) ==
    LET titled(i) == ~body[i].tab /\ body[i].left = title
    IN  CHOOSE i \in DOMAIN body : titled(i) /\ \A j \in 1 .. i - 1 : ~titled(j)

\* The updates between two lines: emplace() keeps the value that a key has.
Updates(body, from, to) ==
    LET lines == from + 1 .. to - 1
        first(key) == CHOOSE i \in lines :
                        /\ body[i].left = key
                        /\ \A j \in lines : body[j].left = key => i <= j
    IN  [key \in {body[i].left : i \in lines} |-> body[first(key)].val]

\* The lines of a description are put together without the line ends.
Description(body, from) ==
    FlattenSeq([i \in 1 .. Len(body) - from |-> body[from + i].val])

parse(body) ==
    LET val(title) == body[Find(body, title)].val
        general == Find(body, "general game updates")
        team_a == Find(body, "team a updates")
        team_b == Find(body, "team b updates")
        description == Find(body, "description")
    IN  Event(val("user"), val("team a"), val("team b"), val("event name"), val("time"),
              [s \in Sections |->
                CASE s = "general game updates" -> Updates(body, general, team_a)
                  [] s = "team a updates" -> Updates(body, team_a, team_b)
                  [] s = "team b updates" -> Updates(body, team_b, description)],
              Description(body, description))

-----------------------------------------------------------------------------
(* Summaries *)

\* Mutant: the first value of a key stays.
update_Emplaces(summary, toAdd) ==
    [summary EXCEPT
        !.updates = [s \in Sections |-> Emplaced(summary.updates[s], toAdd.updates[s])],
        !.description = Append(@, <<toAdd.time, toAdd.name, toAdd.description>>)]

\* Event::update: the last value of a key wins, and the descriptions line up.
update(summary, toAdd) ==
    [summary EXCEPT
        !.updates = [s \in Sections |-> Emplaced(toAdd.updates[s], summary.updates[s])],
        !.description = Append(@, <<toAdd.time, toAdd.name, toAdd.description>>)]

=============================================================================
