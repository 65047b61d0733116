----------------------------- MODULE MCCollector ----------------------------
(* An instance of Collector for TLC.                                       *)
EXTENDS Collector

Q(n, p, v) == [nom |-> <<n>>, pays |-> p, val |-> v]

\* Two listings with tables of their own that have a name in common: when the
\* first one fails to register, it is polled with the map of the second.
MCSites == <<[tbl |-> "cfd", bdd |-> "indices"],
             [tbl |-> "actionsvals", bdd |-> "actions"]>>
MCPages == <<{<<Q("A", <<>>, 2)>>},
             {<<Q("B", <<"US">>, 1), Q("A", <<>>, 1)>>, <<Q("A", <<>>, 2)>>}>>

MCLine == {Q(n, p, v) : n \in {"A", "B"}, p \in {<<>>, <<"US">>}, v \in {1, 2}}

=============================================================================
