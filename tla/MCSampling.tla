----------------------------- MODULE MCSampling -----------------------------
(* An instance of Sampling for TLC.                                        *)
EXTENDS Sampling

\* Up to two files, with other identifiers before and after.
MCContents ==
  LET F == {FileOf(b, m, a) : b \in 0..1, m \in 0..5, a \in {0, 2}}
  IN  {[lines |-> <<>>, files |-> 0]}
        \cup {[lines |-> f, files |-> 1] : f \in F}
        \cup {[lines |-> f \o g, files |-> 2] : f \in F, g \in F}

=============================================================================
