---------------------------- MODULE MCRegistrars ----------------------------
(* An instance of Registrars for TLC.                                      *)
EXTENDS Registrars

Q(n, p, v) == [nom |-> <<n>>, pays |-> p, val |-> v]

\* Two listings that feed one table and have a name in common.  RecupLocal
\* registers the first; the second gains a line above a known one.
MCSites == <<[tbl |-> "actionsvals", bdd |-> "actions"],
             [tbl |-> "actionsvals", bdd |-> "actions"]>>
MCPages == <<{<<Q("B", <<"US">>, 1)>>},
             {<<Q("A", <<>>, 1)>>, <<Q("B", <<"US">>, 1), Q("A", <<>>, 2)>>}>>
MCLine  == {Q(n, p, v) : n \in {"A", "B"}, p \in {<<>>, <<"US">>}, v \in {1, 2}}

=============================================================================
