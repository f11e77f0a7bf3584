---------------------------- MODULE GameReportsMC ----------------------------
(* Three files on one game, spelled differently, and the games one may ask for. *)
EXTENDS GameReports, TLC

MCNames == {"Germany", "germany", "Japan", "japan"}
MClower == [n \in MCNames |-> CASE n = "Germany" -> "germany"
                                 [] n = "Japan" -> "japan"
                                 [] OTHER -> n]
MCKeys == {"active", "goals", "possession", "team b updates"}
MCValues == {"true", "false", "0", "1", "none", "40%", "kickoff", "goal", "end",
             "here", "we", "go", "1-0"}
MCWords == {<<"germany", "japan">>}

ByTeam(general, a, b) ==
    [s \in Sections |-> CASE s = "general game updates" -> general
                           [] s = "team a updates" -> a
                           [] s = "team b updates" -> b]

Kickoff == [name |-> "kickoff", time |-> 0,
            updates |-> ByTeam("active" :> "true", "goals" :> "0", "goals" :> "0"),
            description |-> <<<<"here", "we">>, <<>>, <<"go">>, <<>>>>]
Goal == [name |-> "goal", time |-> 33,
         updates |-> ByTeam(Nothing, ("goals" :> "1") @@ ("team b updates" :> "none"),
                             "possession" :> "40%"),
         description |-> <<<<"1-0">>>>]
End == [name |-> "end", time |-> 90, updates |-> ByTeam("active" :> "false", Nothing, Nothing),
        description |-> <<<<>>>>]

\* The same two words in three spellings, of one game; each file reports one event.
MCFiles == {
    [team_a |-> "Germany", team_b |-> "Japan", events |-> <<Kickoff>>],
    [team_a |-> "germany", team_b |-> "Japan", events |-> <<End>>],
    [team_a |-> "Germany", team_b |-> "japan", events |-> <<Goal>>]}

=============================================================================
