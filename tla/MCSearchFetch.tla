---------------------------- MODULE MCSearchFetch ----------------------------
(* Instances of SearchFetch for TLC.                                        *)
EXTENDS SearchFetch, TLC

CONSTANTS i1, i2, i3, t1, t2

\* Every list of two pages: empty, with an entry that has no id, with ids that
\* another page has too; with and without a loop of tokens.
TwoPageTables ==
  [Tokens -> [items : {<<>>, <<i1>>, <<i2, NoId>>}, next : Tokens \cup {End}]]

\* One page with three entries.
OnePage == {[t \in Tokens |-> [items |-> <<i1, i2, i3>>, next |-> End]]}

\* Both.
SearchTables == TwoPageTables \cup OnePage
=============================================================================
