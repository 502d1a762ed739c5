----------------------------- MODULE MCLogMatch -----------------------------
(* LogMatch with rule files of at most MaxValues values.                   *)
EXTENDS LogMatch, Integers, FiniteSets
CONSTANTS r1, r2, x, bad, t, h1, h2, p,
          MaxValues   \* bound: the values in a rule file


Size(c) == Cardinality(c.message) + Cardinality(c.message_unmatch) + Cardinality(c.tags)
           + Cardinality(c.source_host) + Cardinality(c.source_path) + Cardinality(c.delete)

MCFile == {c \in RuleFile : Size(c) <= MaxValues}
MCResult == {0, 1, 12}   \* a match, REG_NOMATCH, REG_ESPACE
=============================================================================
