----------------------------- MODULE TopicMatch -----------------------------
(***************************************************************************)
(* The topic patterns of the message broker (app/server/sd_slowmq.py,      *)
(* validate_topic_pattern and topic_match; the same algorithm serves the   *)
(* in-process broker of control_AsyncLocalPubsub.py).  A topic and a       *)
(* pattern are the sequences of tokens that str.split(".") makes of them;  *)
(* a token is a string.                                                    *)
(***************************************************************************)
EXTENDS Naturals, Sequences

Star == "*"        \* one token
Rest == ">"        \* zero or more trailing tokens

\* Tokens that hold a wildcard character without being a wildcard ("f*o").
CONSTANT PartialWildcards

ASSUME PartialWildcardsAssumption == PartialWildcards \subseteq STRING \ {Star, Rest}

\* Mutant: '>' is accepted anywhere.
Valid_RestAnywhere(pattern) ==
    \A i \in DOMAIN pattern : pattern[i] \notin PartialWildcards

\* validate_topic_pattern: what makes it raise ValueError is the negation.
Valid(pattern) ==
    \A i \in DOMAIN pattern :
        /\ pattern[i] = Rest => i = Len(pattern)
        /\ pattern[i] \notin PartialWildcards

\* topic_match: the loop.  Its two indices k_pattern and k_topic start at the
\* same value and every branch that goes round again increments both, so one
\* index k stands for both.
Walk(pattern, topic) ==
    LET walk[k \in 1..(Len(pattern) + 1)] ==
            IF k > Len(pattern)
            THEN k = Len(topic) + 1
            ELSE \/ pattern[k] = Rest
                 \/ /\ k <= Len(topic)
                    /\ pattern[k] \in {Star, topic[k]}
                    /\ walk[k + 1]
    IN  walk

Match(pattern, topic) == Walk(pattern, topic)[1]

-----------------------------------------------------------------------------
(* The reference: the rules listed in the docstring of                     *)
(* validate_topic_pattern, for a valid pattern.                            *)

Agree(pattern, topic, n) == \A i \in 1..n : pattern[i] \in {Star, topic[i]}

MatchByRules(pattern, topic) ==
    LET n == Len(pattern)
    IN  IF n > 0 /\ pattern[n] = Rest
        THEN Len(topic) >= n - 1 /\ Agree(pattern, topic, n - 1)
        ELSE Len(topic) = n /\ Agree(pattern, topic, n)

=============================================================================
