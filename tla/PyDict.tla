------------------------------- MODULE PyDict -------------------------------
(***************************************************************************)
(* Python dictionaries as TLA+ functions: a dictionary is a function whose *)
(* domain is the set of keys it holds now.  The insertion order is not     *)
(* kept; no property of the modules that use this one depends on it.       *)
(***************************************************************************)

EmptyDict == [k \in {} |-> k]

\* d[k] = v
Put(d, k, v) == [x \in DOMAIN d \cup {k} |-> IF x = k THEN v ELSE d[x]]

\* d.pop(k, None)
Pop(d, k) == [x \in DOMAIN d \ {k} |-> d[x]]

=============================================================================
