------------------------------ MODULE Collector -----------------------------
(***************************************************************************)
(* RecupIndices, Launcher.java and Indice.java: the thread that registers  *)
(* the rows of the web listings (recupIndices) and then polls them for     *)
(* ever (loopVals), inserting the prices that changed (Indice.addVal).     *)
(*                                                                         *)
(* Names and countries are sequences of words, so that the key nom + pays  *)
(* of the code is a concatenation here too.  The archive that the loop     *)
(* calls once in a while is in Archiver.tla.  Lines of a listing without   *)
(* cells are left out: both loops skip them.                               *)
(***************************************************************************)
EXTENDS Integers, Sequences

CONSTANTS
  SITES,     \* per site, the value table [tbl] and the reference table [bdd]
  Pages,     \* per site, the contents the listing can show
  Line,      \* the lines a listing can have: nom, pays and val
  NoId       \* NULL

ASSUME SitesAssumption ==
  /\ Len(SITES) \in Nat \ {0}
  /\ DOMAIN SITES = 1..Len(SITES)
  /\ DOMAIN Pages = 1..Len(SITES)
  /\ \A s \in 1..Len(SITES) : \A p \in Pages[s] : p \in Seq(Line)
  /\ NoId \notin Nat

VARIABLES
  pc,          \* down, reg, regrow (recupIndices), poll, row (loopVals)
  st,          \* init obtained a Statement
  x,           \* position in SITES
  lignes,      \* lines of the fetched page that are still to be read
  indicestmp,  \* map of the site being registered: key -> [nom, last]
  indices,     \* the maps of the sites that were registered
  paysTbl,     \* table PAYS: [id, nom]
  ref,         \* reference tables: [bdd, id, pays, nom]
  stored       \* value tables: [tbl, id, val]

\* History, read by no action.
VARIABLES
  shown,       \* what the polled pages showed: [tbl, bdd, nom, val]
  paysErr,     \* countries whose INSERT in PAYS failed
  refErr,      \* (bdd, nom) whose INSERT failed since the program started
  origin       \* (tbl, id) -> the value last inserted, the entry it came from,
               \* and whether it repeats the value this entry inserted before

thread  == <<pc, st, x, lignes, indicestmp, indices>>
base    == <<paysTbl, ref, stored>>
history == <<shown, paysErr, refErr, origin>>
vars    == <<thread, base, history>>

Empty   == [k \in {} |-> 0]
SITE    == SITES[x]
ligne   == Head(lignes)

\* An empty title of the flag stands for the whole world.
Monde   == <<"Monde">>
pays(r) == IF r.pays = <<>> THEN Monde ELSE r.pays
key(r)  == r.nom \o pays(r)

\* The maps from keys to Indice objects.
Keys  == {key(r) : r \in Line}
Indice == [nom : {r.nom : r \in Line}, last : {r.val : r \in Line}]
Map   == UNION {[D -> Indice] : D \in SUBSET Keys}

\* No two lines have the same key without having the same name.
ASSUME KeysAssumption ==
  \A r, q \in Line : key(r) = key(q) => r.nom = q.nom

With(f, k, v) == [i \in DOMAIN f \cup {k} |-> IF i = k THEN v ELSE f[i]]

\* COALESCE(MAX(ID) + 1, 0)
LastId(ids) ==
  IF ids = {} THEN 0 ELSE CHOOSE m \in ids : \A n \in ids : n <= m

NextId(ids) ==
  IF ids = {} THEN 0 ELSE (CHOOSE m \in ids : \A n \in ids : n <= m) + 1

\* A scalar subquery SELECT ID: NULL when no row matches.
IdIn(S, nom) ==
  IF \E e \in S : e.nom = nom THEN (CHOOSE e \in S : e.nom = nom).id ELSE NoId

Init ==
  /\ pc = "down" /\ st = FALSE /\ x = 1 /\ lignes = <<>>
  /\ indicestmp = Empty /\ indices = <<>>
  /\ paysTbl = {} /\ ref = {} /\ stored = {}
  /\ shown = {} /\ paysErr = {} /\ refErr = {} /\ origin = Empty

\* init: the lists start empty; without a database st stays null.
Boot ==
  /\ pc = "down"
  /\ pc' = "reg" /\ st' \in BOOLEAN /\ x' = 1
  /\ refErr' = {} /\ origin' = Empty
  /\ UNCHANGED <<lignes, indicestmp, indices, base, shown, paysErr>>

-----------------------------------------------------------------------------
(* recupIndices                                                            *)

\* The next site, or the polling loop after the last one.
NextRegistration ==
  /\ lignes' = <<>> /\ indicestmp' = Empty
  /\ IF x < Len(SITES) THEN x' = x + 1 /\ pc' = "reg"
                       ELSE x' = 1 /\ pc' = "poll"

\* The page is fetched, or an exception ends the site: its map is not added,
\* and the maps of the following sites take its place in the list.
FetchListing ==
  /\ pc = "reg"
  /\ \/ NextRegistration
     \/ /\ lignes' \in Pages[x]
        /\ indicestmp' = Empty /\ pc' = "regrow" /\ x' = x
  /\ UNCHANGED <<st, indices, base, history>>

\* The tables after an INSERT whose errors are swallowed: a name that is there
\* already violates the key of the table; any INSERT may fail.
PaysAfter(p) ==
  IF \E e \in paysTbl : e.nom = p THEN {paysTbl}
  ELSE {paysTbl, paysTbl \cup {[id |-> NextId({e.id : e \in paysTbl}), nom |-> p]}}

RefOf(bdd) == {e \in ref : e.bdd = bdd}

RefAfter(bdd, p, nom, T) ==
  IF \E e \in RefOf(bdd) : e.nom = nom THEN {ref}
  ELSE {ref, ref \cup {[bdd |-> bdd, id |-> NextId({e.id : e \in RefOf(bdd)}),
                        pays |-> IdIn(T, p), nom |-> nom]}}

\* One line of the listing: INSERT INTO PAYS, put in the map, INSERT INTO the
\* reference table.  A cell that cannot be read, or a null Statement, ends the
\* site, before or after the INSERT INTO PAYS.
RegisterLine ==
  /\ pc = "regrow" /\ lignes # <<>>
  /\ \/ /\ NextRegistration
        /\ UNCHANGED <<paysTbl, ref, paysErr, refErr>>
     \/ /\ st
        /\ NextRegistration
        /\ paysTbl' \in PaysAfter(pays(ligne))
        /\ UNCHANGED <<ref, paysErr, refErr>>
     \/ /\ st
        /\ paysTbl' \in PaysAfter(pays(ligne))
        /\ indicestmp' = With(indicestmp, key(ligne), [nom |-> ligne.nom, last |-> ligne.val])
        /\ ref' \in RefAfter(SITE.bdd, pays(ligne), ligne.nom, paysTbl')
        /\ paysErr' = paysErr \cup
             {p \in {pays(ligne)} : \A e \in paysTbl' : e.nom # p}
        /\ refErr' = refErr \cup
             {b \in {<<SITE.bdd, ligne.nom>>} : \A e \in ref' : <<e.bdd, e.nom>> # b}
        /\ lignes' = Tail(lignes)
        /\ UNCHANGED <<pc, x>>
  /\ UNCHANGED <<st, indices, stored, shown, origin>>

EndListing ==
  /\ pc = "regrow" /\ lignes = <<>>
  /\ indices' = Append(indices, indicestmp)
  /\ NextRegistration
  /\ UNCHANGED <<st, base, history>>

-----------------------------------------------------------------------------
(* loopVals                                                                *)

\* The next site; a round after the last one.
NextSite ==
  /\ lignes' = <<>> /\ pc' = "poll"
  /\ x' = IF x < Len(SITES) THEN x + 1 ELSE 1

\* The page is fetched, or an exception ends the site for this round.
FetchPage ==
  /\ pc = "poll"
  /\ \/ NextSite /\ UNCHANGED shown
     \/ /\ \E p \in Pages[x] :
             /\ lignes' = p
             /\ shown' = shown \cup {[tbl |-> SITE.tbl, bdd |-> SITE.bdd, nom |-> p[i].nom,
                                     val |-> p[i].val] : i \in 1..Len(p)}
        /\ pc' = "row" /\ x' = x
  /\ UNCHANGED <<st, indicestmp, indices, base, paysErr, refErr, origin>>

\* indices.get(x).get(nom + pays) finds an entry.
Known == x <= Len(indices) /\ key(ligne) \in DOMAIN indices[x]
Entry == indices[x][key(ligne)]
TargetIdByKey == IdIn(RefOf(SITE.bdd), key(ligne))
TargetId == IdIn(RefOf(SITE.bdd), Entry.nom)

\* The INSERT of addVal, and what the history keeps of it.
Insert(tbl, d) ==
  LET o    == <<tbl, TargetId>>
      from == [val |-> d, site |-> x, key |-> key(ligne)]
  IN  /\ stored' = stored \cup {[tbl |-> tbl, id |-> TargetId, val |-> d]}
      /\ origin' = With(origin, o,
           [from |-> from, again |-> o \in DOMAIN origin /\ origin[o].from = from])

\* Indice.addVal: last is set before the INSERT, whose errors are swallowed.
addValForgetful(d) ==
  /\ Entry.last # d
  /\ UNCHANGED indices
  /\ Insert(SITE.tbl, d)

addValInFirstTable(d) ==
  /\ Entry.last # d
  /\ indices' = [indices EXCEPT ![x][key(ligne)].last = d]
  /\ Insert(SITES[1].tbl, d)

addValStale(d) ==
  /\ Entry.last # d
  /\ indices' = [indices EXCEPT ![x][key(ligne)].last = d]
  /\ Insert(SITE.tbl, Entry.last)

addVal(d) ==
  \/ /\ Entry.last = d
     /\ UNCHANGED <<indices, stored, origin>>
  \/ /\ Entry.last # d
     /\ indices' = [indices EXCEPT ![x][key(ligne)].last = d]
     /\ \/ Insert(SITE.tbl, d)
        \/ /\ stored' = stored
           /\ origin' = [o \in {o \in DOMAIN origin :
                                 ~(origin[o].from.site = x /\ origin[o].from.key = key(ligne))}
                         |-> origin[o]]

\* One line of the page.  A cell that cannot be read, a site beyond the list of
\* maps or an unknown key is an exception: the rest of the page is dropped.
\* (addVal never meets a null Statement: without one no line is registered.)
ReadLine ==
  /\ pc = "row" /\ lignes # <<>>
  /\ \/ /\ NextSite
        /\ UNCHANGED <<indices, stored, origin>>
     \/ /\ Known
        /\ addVal(ligne.val)
        /\ lignes' = Tail(lignes)
        /\ UNCHANGED <<pc, x>>
  /\ UNCHANGED <<st, indicestmp, paysTbl, ref, shown, paysErr, refErr>>

EndPage ==
  /\ pc = "row" /\ lignes = <<>>
  /\ NextSite
  /\ UNCHANGED <<st, indicestmp, indices, base, history>>

\* The process ends; what is in memory is lost.
Crash ==
  /\ pc # "down"
  /\ pc' = "down" /\ st' = FALSE /\ x' = 1 /\ lignes' = <<>>
  /\ indicestmp' = Empty /\ indices' = <<>>
  /\ UNCHANGED <<base, history>>

Next ==
  \/ Boot \/ Crash
  \/ FetchListing \/ RegisterLine \/ EndListing
  \/ FetchPage \/ ReadLine \/ EndPage

Spec == Init /\ [][Next]_vars

-----------------------------------------------------------------------------
(* Properties.                                                             *)

\* The shape of the state: there are never more maps than sites, the maps of
\* a program that polls stay those that recupIndices built, and a program
\* without a database has no entry in any of them.
TypeOK ==
  /\ pc \in {"down", "reg", "regrow", "poll", "row"}
  /\ st \in BOOLEAN /\ x \in 1..Len(SITES) /\ lignes \in Seq(Line)
  /\ indicestmp \in Map /\ indices \in Seq(Map)
  /\ Len(indices) <= Len(SITES)
  /\ pc \in {"reg", "regrow"} => Len(indices) < x
  /\ pc = "down" => indices = <<>> /\ indicestmp = Empty
  /\ ~st => /\ DOMAIN indicestmp = {}
            /\ \A i \in 1..Len(indices) : DOMAIN indices[i] = {}

\* Every stored value was shown, at that price, by a page of a site that feeds
\* this table, on a line whose name has this identifier: the list of maps may
\* be shifted against SITES after a failed registration (Launcher.recupIndices,
\* indices.add), and still no value is filed under the wrong name or table.
Provenance ==
  \A v \in stored : \E s \in shown :
    /\ s.tbl = v.tbl /\ s.val = v.val
    /\ v.id # NoId => \E e \in ref : e.bdd = s.bdd /\ e.nom = s.nom /\ e.id = v.id

\* An identifier names one country in PAYS, or one name in a reference table,
\* and the other way round, across crashes and new registrations: the joins of
\* BDD.write and of getIndices neither multiply nor mix rows
\* (COALESCE(MAX(ID)+1,0) in recupIndices).
IdsIdentify ==
  /\ \A e, f \in paysTbl : e.id = f.id <=> e.nom = f.nom
  /\ \A e, f \in ref : e.bdd = f.bdd => (e.id = f.id <=> e.nom = f.nom)

\* An index is missing from the join of getIndices with PAYS only if an INSERT
\* INTO PAYS once failed: recupIndices inserts the country before the index.
CountryKnown ==
  paysErr = {} => \A e \in ref : \E c \in paysTbl : c.id = e.pays

\* Every site was registered: map i of the list is that of site i.
Aligned == Len(indices) = Len(SITES)

\* A value is stored without identifier, where the archive will drop it, only
\* if the INSERT of its name failed since the start, or if some site failed to
\* register (Launcher.recupIndices puts the entry before that INSERT).
NullIdExplained ==
  [][\A v \in stored' \ stored :
       v.id = NoId => ~Aligned \/ <<SITE.bdd, ligne.nom>> \in refErr]_vars

\* Two values in a row of one identifier are equal only if they come from two
\* entries (two listings show the stock), or if an INSERT failed or the program
\* was restarted in between: an unchanged price is not stored (Indice.addVal).
RepeatExplained == \A o \in DOMAIN origin : ~origin[o].again

=============================================================================
