----------------------------- MODULE Registrars -----------------------------
(***************************************************************************)
(* RecupLocal/src/Recup/Launcher.java beside the collector: a program that *)
(* is started by hand, registers the lines of one listing and ends.  Both  *)
(* programs take the next identifier from MAX(ID) and swallow the errors   *)
(* of their INSERTs, so the two INSERTs of a line are separate steps here. *)
(* The map RecupLocal builds is never used and is left out.                *)
(***************************************************************************)
EXTENDS Collector

CONSTANT Local   \* position of the listing that RecupLocal registers

ASSUME LocalAssumption == Local \in 1..Len(SITES)

VARIABLES
  lpc,           \* off, pays or ref: the INSERT RecupLocal comes to
  llignes,       \* lines it has still to register
  page,          \* history: the page that the collector polls
  unsaved        \* history: (position, key) of the entries whose price has no row:
                 \* that of the registration, or its INSERT failed

local == <<lpc, llignes>>
notes == <<page, unsaved>>
rvars == <<vars, local, notes>>

RInit ==
  /\ Init
  /\ lpc = "off" /\ llignes = <<>> /\ page = <<>> /\ unsaved = {}

\* What the history keeps of an INSERT that left the table without p.
PaysFailed(p) == {c \in {p} : \A e \in paysTbl' : e.nom # c}

-----------------------------------------------------------------------------
(* recupIndices, with its two INSERTs apart.                               *)

RegisterPays ==
  /\ pc = "regrow" /\ lignes # <<>> /\ st
  /\ paysTbl' \in PaysAfter(pays(ligne))
  /\ paysErr' = paysErr \cup PaysFailed(pays(ligne))
  /\ pc' = "regref"
  /\ UNCHANGED <<st, x, lignes, indicestmp, indices, ref, stored, shown, refErr,
                 origin, local, notes>>

RegisterRef ==
  /\ pc = "regref"
  /\ indicestmp' = With(indicestmp, key(ligne), [nom |-> ligne.nom, last |-> ligne.val])
  /\ ref' \in RefAfter(SITE.bdd, pays(ligne), ligne.nom, paysTbl)
  /\ refErr' = refErr \cup
       {b \in {<<SITE.bdd, ligne.nom>>} : \A e \in ref' : <<e.bdd, e.nom>> # b}
  /\ lignes' = Tail(lignes) /\ pc' = "regrow"
  /\ unsaved' = unsaved \cup {<<Len(indices) + 1, key(ligne)>>}
  /\ UNCHANGED <<st, x, indices, paysTbl, stored, shown, paysErr, origin, local, page>>

\* A cell that cannot be read, or a null Statement, ends the site.
RegisterFail ==
  /\ pc \in {"regrow", "regref"} /\ lignes # <<>>
  /\ NextRegistration
  /\ UNCHANGED <<st, indices, base, history, local, notes>>

-----------------------------------------------------------------------------
(* RecupLocal: main.                                                       *)

LocalStart ==
  /\ lpc = "off"
  /\ llignes' \in Pages[Local] /\ lpc' = "pays"
  /\ UNCHANGED <<vars, notes>>

LocalPays ==
  /\ lpc = "pays" /\ llignes # <<>>
  /\ paysTbl' \in PaysAfter(pays(Head(llignes)))
  /\ paysErr' = paysErr \cup PaysFailed(pays(Head(llignes)))
  /\ lpc' = "ref"
  /\ UNCHANGED <<thread, ref, stored, shown, refErr, origin, llignes, notes>>

LocalRefBeforePays ==
  /\ lpc = "pays" /\ llignes # <<>>
  /\ ref' \in RefAfter(SITES[Local].bdd, pays(Head(llignes)), Head(llignes).nom, paysTbl)
  /\ llignes' = Tail(llignes) /\ lpc' = "pays"
  /\ UNCHANGED <<thread, paysTbl, stored, history, notes>>

LocalRef ==
  /\ lpc = "ref"
  /\ ref' \in RefAfter(SITES[Local].bdd, pays(Head(llignes)), Head(llignes).nom, paysTbl)
  /\ llignes' = Tail(llignes) /\ lpc' = "pays"
  /\ UNCHANGED <<thread, paysTbl, stored, history, notes>>

\* The end of main: after the last line, by an exception or by hand.
LocalEnd ==
  /\ lpc # "off"
  /\ lpc' = "off" /\ llignes' = <<>>
  /\ UNCHANGED <<vars, notes>>

-----------------------------------------------------------------------------

\* What the history keeps of a line that was read: whether its INSERT failed.
Note ==
  LET e == <<x, key(ligne)>>
  IN  unsaved' = IF indices' = indices THEN unsaved
                 ELSE IF \E o \in DOMAIN origin' :
                           <<origin'[o].from.site, origin'[o].from.key>> = e
                      THEN unsaved \ {e}
                      ELSE unsaved \cup {e}

RNext ==
  \/ RegisterPays \/ RegisterRef \/ RegisterFail
  \/ LocalStart \/ LocalPays \/ LocalRef \/ LocalEnd
  \/ /\ Crash \/ FetchListing \/ EndListing \/ EndPage
     /\ UNCHANGED <<local, notes>>
  \/ /\ Boot
     /\ unsaved' = {}
     /\ UNCHANGED <<local, page>>
  \/ /\ FetchPage
     /\ page' = lignes'
     /\ UNCHANGED <<local, unsaved>>
  \/ /\ ReadLine
     /\ Note
     /\ UNCHANGED <<local, page>>

RSpec == RInit /\ [][RNext]_rvars

-----------------------------------------------------------------------------
(* Properties; IdsIdentify, CountryKnown and RepeatExplained of Collector  *)
(* are checked here too.                                                   *)

Passed == 1..Len(page) - Len(lignes)

LastOfKey(i) == \A j \in Passed : j > i => key(page[j]) # key(page[i])

\* When a page is left, after its last line or at one that is unknown or cannot
\* be read, the lines above it are in the table: each index has a row with the
\* price of its last line, under its identifier or none, unless that price is
\* the one it was registered with or its INSERT failed; and the last row that
\* this listing stored for the identifier has no other price.  The line that
\* ends a page costs the lines below it and no other, also in a list of maps
\* that is shifted (Launcher.loopVals, Indice.addVal).
PageStored ==
  [][pc = "row" /\ pc' # "row" =>
       \A i \in Passed : LastOfKey(i) =>
         LET o == <<SITE.tbl, IdIn(RefOf(SITE.bdd), page[i].nom)>>
             e == <<x, key(page[i])>>
         IN  /\ e \notin unsaved => \E v \in stored :
                  /\ v.tbl = SITE.tbl /\ v.val = page[i].val
                  /\ v.id = NoId \/ \E f \in RefOf(SITE.bdd) : f.nom = page[i].nom /\ f.id = v.id
             /\ o \in DOMAIN origin /\ <<origin[o].from.site, origin[o].from.key>> = e
                  => origin[o].from.val = page[i].val]_rvars

=============================================================================
