----------------------------- MODULE MCArchiver -----------------------------
(* Instances of Archiver for TLC.                                          *)
EXTENDS Archiver

\* Two sites share the table, as the three share listings of Launcher do: the
\* second one meets the file, or the missing file, of the first.
MCSharedTable == <<"actionsvals", "actionsvals">>

MCOneSite == <<"cfd">>

\* Months of three days: the month wraps within the bound.
MCDayOfMonth == [d \in 0..MaxDay + 1 |-> (d % 3) + 1]

=============================================================================
