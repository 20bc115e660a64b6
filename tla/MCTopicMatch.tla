---------------------------- MODULE MCTopicMatch ----------------------------
(***************************************************************************)
(* Enumerates every pattern and every topic up to a length, one token at a *)
(* time, so that the matching algorithm can be compared with its rules.    *)
(***************************************************************************)
EXTENDS TopicMatch

CONSTANTS Names,       \* ordinary tokens
          MaxLen       \* bound on the number of tokens

ASSUME NamesAssumption == Names \cup {Star, Rest} \subseteq STRING

VARIABLES pattern, topic

topicVars == <<pattern, topic>>

TopicInit == pattern = <<>> /\ topic = <<>>

GrowPattern ==
    /\ Len(pattern) < MaxLen
    /\ \E token \in Names \cup {Star, Rest} \cup PartialWildcards :
           pattern' = Append(pattern, token)
    /\ UNCHANGED topic

GrowTopic ==
    /\ Len(topic) < MaxLen
    /\ \E token \in Names : topic' = Append(topic, token)
    /\ UNCHANGED pattern

TopicNext == GrowPattern \/ GrowTopic

TopicSpec == TopicInit /\ [][TopicNext]_topicVars

-----------------------------------------------------------------------------
\* On every pattern that validate_topic_pattern lets through, the index loop
\* of topic_match decides what the five rules of the docstring say: '*' is one
\* token, a last '>' is zero or more, anything else is itself.
LoopFollowsRules ==
    Valid(pattern) => (Match(pattern, topic) <=> MatchByRules(pattern, topic))

=============================================================================
