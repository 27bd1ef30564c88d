----------------------------- MODULE TopicMatch -----------------------------
(***************************************************************************)
(* topicMatchesSub(): whether the topic of a report matches the filter of  *)
(* a subscription, character by character as the bridge does it, beside    *)
(* the definition by levels that MQTT gives.  A text is a sequence of      *)
(* characters.                                                             *)
(***************************************************************************)
EXTENDS Naturals, Sequences

\* The end of the level that has begun at t: its '/', or the text's end.
LevelEnd(topic, t) ==
  CHOOSE e \in t..(Len(topic) + 1) :
    /\ e > Len(topic) \/ topic[e] = "/"
    /\ \A i \in t..(e - 1) : topic[i] # "/"

\* Variant: a filter that ends in "/#" does not match the level above it.
AtEnd_NoParent(topic, sub, t, s) ==
  \/ t > Len(topic) /\ s > Len(sub)
  \/ s <= Len(sub) /\ sub[s] = "#"

\* What topicMatchesSub() answers when its loop has come to an end of one text.
AtEnd(topic, sub, t, s) ==
  \/ t > Len(topic) /\ s > Len(sub)
  \/ SubSeq(sub, s, Len(sub)) = <<"/", "#">>
  \/ s <= Len(sub) /\ sub[s] = "#"

\* The places behind the level of a topic that a "+" stands for, and behind
\* that "+": a slash is left out in either text, if there is one.
BehindLevel(topic, t) ==
  IF LevelEnd(topic, t) <= Len(topic) THEN LevelEnd(topic, t) + 1 ELSE LevelEnd(topic, t)
BehindPlus(sub, s) == IF s < Len(sub) /\ sub[s + 1] = "/" THEN s + 2 ELSE s + 1

topicMatchesSub(topic, sub) ==
  LET from[t \in 1..(Len(topic) + 1)] ==
        [s \in 1..(Len(sub) + 1) |->
           IF t > Len(topic) \/ s > Len(sub) THEN AtEnd(topic, sub, t, s)
           ELSE \/ sub[s] = "#"
                \/ sub[s] = "+" /\ from[BehindLevel(topic, t)][BehindPlus(sub, s)]
                \/ sub[s] \notin {"#", "+"} /\ topic[t] = sub[s] /\ from[t + 1][s + 1]]
  IN from[1][1]

-----------------------------------------------------------------------------
(***************************************************************************)
(* The reference: a topic is a sequence of levels between its slashes.     *)
(***************************************************************************)
Levels(text) ==
  LET from[t \in 1..(Len(text) + 1)] ==
        <<SubSeq(text, t, LevelEnd(text, t) - 1)>> \o
          IF LevelEnd(text, t) > Len(text) THEN <<>> ELSE from[LevelEnd(text, t) + 1]
  IN from[1]

\* A wildcard is a level of its own, and '#' is the last one.
Valid(levels) ==
  \A k \in 1..Len(levels) :
    /\ (\E i \in 1..Len(levels[k]) : levels[k][i] = "+") => levels[k] = <<"+">>
    /\ (\E i \in 1..Len(levels[k]) : levels[k][i] = "#") =>
         levels[k] = <<"#">> /\ k = Len(levels)

NoneEmpty(levels) == \A k \in 1..Len(levels) : levels[k] # <<>>

\* The levels of a filter in front of a final '#'.
Fixed(s) == IF s[Len(s)] = <<"#">> THEN Len(s) - 1 ELSE Len(s)

LevelsMatch(t, s) ==
  /\ IF s[Len(s)] = <<"#">> THEN Len(t) >= Fixed(s) ELSE Len(t) = Fixed(s)
  /\ \A k \in 1..Fixed(s) : s[k] = <<"+">> \/ s[k] = t[k]

\* A report reaches the clients whose filter MQTT says it matches, for filters
\* that are valid and texts without empty levels.
MatchesAsMqtt(e) ==
  Valid(Levels(e.sub)) /\ NoneEmpty(Levels(e.sub)) /\ NoneEmpty(Levels(e.topic)) =>
    topicMatchesSub(e.topic, e.sub) = LevelsMatch(Levels(e.topic), Levels(e.sub))
=============================================================================
