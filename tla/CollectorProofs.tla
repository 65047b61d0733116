-------------------------- MODULE CollectorProofs ---------------------------
(***************************************************************************)
(* Proofs about Collector.tla and, at the end, Registrars.tla, for every   *)
(* list of sites and every content of the listings.                        *)
(***************************************************************************)
EXTENDS Registrars, TLAPS

\* A map is a function from keys of lines to Indice objects.
LEMMA MapElim ==
  ASSUME NEW f \in Map
  PROVE  /\ f = [k \in DOMAIN f |-> f[k]] /\ DOMAIN f \subseteq Keys
         /\ \A k \in DOMAIN f : f[k] \in Indice
<1>1. PICK D \in SUBSET Keys : f \in [D -> Indice]
  BY DEF Map
<1> QED BY <1>1

\* A function from keys to Indice objects is a map.
LEMMA MapIntro ==
  ASSUME NEW D \in SUBSET Keys, NEW f \in [D -> Indice]
  PROVE  f \in Map
BY DEF Map

\* new HashMap has no entry.
LEMMA EmptyMap == Empty \in Map /\ DOMAIN Empty = {}
<1>1. DOMAIN Empty = {} /\ Empty \in [{} -> Indice]
  BY DEF Empty
<1> QED BY Zenon, <1>1, MapIntro

\* put adds an entry or replaces one.
LEMMA MapPut ==
  ASSUME NEW f \in Map, NEW k \in Keys, NEW e \in Indice
  PROVE  With(f, k, e) \in Map
<1>1. \A i \in DOMAIN f : f[i] \in Indice
  BY MapElim
<1>2. DOMAIN f \subseteq Keys
  BY MapElim
<1>3. With(f, k, e) \in [DOMAIN f \cup {k} -> Indice]
  BY <1>1 DEF With
<1> QED BY <1>2, <1>3, MapIntro

\* The line at the head of the page, and the rest of the page.
LEMMA HeadOfPage ==
  ASSUME TypeOK, lignes # <<>>
  PROVE  /\ ligne \in Line /\ Tail(lignes) \in Seq(Line)
         /\ key(ligne) \in Keys
         /\ [nom |-> ligne.nom, last |-> ligne.val] \in Indice
<1>1. ligne \in Line /\ Tail(lignes) \in Seq(Line)
  BY DEF TypeOK, ligne
<1> QED BY <1>1 DEF Keys, Indice

\* Setting last keeps the maps maps of the same domains.
LEMMA SetLast ==
  ASSUME TypeOK, lignes # <<>>, Known,
         indices' = [indices EXCEPT ![x][key(ligne)].last = ligne.val]
  PROVE  /\ indices' \in Seq(Map) /\ Len(indices') = Len(indices)
         /\ \A i \in 1..Len(indices) : DOMAIN indices'[i] = DOMAIN indices[i]
         /\ \A i \in 1..Len(indices) : \A k \in DOMAIN indices[i] :
              /\ indices'[i][k].nom = indices[i][k].nom
              /\ indices'[i][k].last = IF i = x /\ k = key(ligne) THEN ligne.val
                                       ELSE indices[i][k].last
<1> DEFINE k == key(ligne)
           f == indices[x]
           g == [f EXCEPT ![k].last = ligne.val]
<1>1. x \in 1..Len(indices) /\ k \in DOMAIN f
  BY DEF TypeOK, Known
<1>2. indices \in Seq(Map) /\ f \in Map
  BY <1>1 DEF TypeOK
<1>3. /\ f = [i \in DOMAIN f |-> f[i]] /\ DOMAIN f \subseteq Keys
      /\ \A i \in DOMAIN f : f[i] \in Indice
  BY <1>2, MapElim
<1>4. ligne.val \in {r.val : r \in Line}
  BY HeadOfPage
<1>5. /\ g \in [DOMAIN f -> Indice]
      /\ \A i \in DOMAIN f : /\ g[i].nom = f[i].nom
                             /\ g[i].last = IF i = k THEN ligne.val ELSE f[i].last
  <2> HIDE DEF f, k
  <2> QED BY <1>1, <1>3, <1>4 DEF Indice, g
<1>6. g \in Map
  BY Zenon, <1>3, <1>5, MapIntro
<1>7. indices' = [indices EXCEPT ![x] = g]
  OBVIOUS
<1>8. indices' \in Seq(Map) /\ Len(indices') = Len(indices)
      /\ \A i \in 1..Len(indices) : indices'[i] = IF i = x THEN g ELSE indices[i]
  <2> HIDE DEF g, f
  <2> QED BY SMTT(30), <1>1, <1>2, <1>6, <1>7
<1>9. DOMAIN g = DOMAIN f
  BY <1>5
<1> HIDE DEF g
<1> QED BY <1>5, <1>8, <1>9

-----------------------------------------------------------------------------
(* Types.                                                                  *)

\* Leaving a site during the registration, and during the polling.
LEMMA NextRegistrationType ==
  ASSUME TypeOK, NextRegistration
  PROVE  /\ pc' \in {"reg", "poll"} /\ x' \in 1..Len(SITES)
         /\ lignes' \in Seq(Line) /\ indicestmp' \in Map /\ DOMAIN indicestmp' = {}
         /\ pc' \in {"reg", "regrow"} => x' = x + 1
BY SitesAssumption, EmptyMap DEF TypeOK, NextRegistration

\* Leaving a site during the polling.
LEMMA NextSiteType ==
  ASSUME TypeOK, NextSite
  PROVE  pc' = "poll" /\ x' \in 1..Len(SITES) /\ lignes' \in Seq(Line)
BY SitesAssumption DEF TypeOK, NextSite

\* Every step of the collector keeps the shape of its state.
LEMMA TypeStep == TypeOK /\ [Next]_vars => TypeOK'
<1> SUFFICES ASSUME TypeOK, [Next]_vars PROVE TypeOK'
  OBVIOUS
<1> USE SitesAssumption
<1>1. CASE UNCHANGED vars
  BY <1>1 DEF TypeOK, vars, thread
<1>2. CASE Boot
  <2>1. Len(indices) = 0 /\ indices' = indices /\ st' \in BOOLEAN
    BY <1>2 DEF TypeOK, Boot
  <2>2. DOMAIN indicestmp = {}
    BY <1>2, EmptyMap DEF TypeOK, Boot
  <2> QED BY <1>2, <2>1, <2>2 DEF TypeOK, Boot
<1>3. CASE Crash
  <2>1. /\ Len(indices') = 0 /\ indices' = <<>>
        /\ indices' \in Seq(Map) /\ lignes' \in Seq(Line)
    BY <1>3 DEF Crash
  <2>3. st' \in BOOLEAN
    BY Zenon, <1>3 DEF Crash
  <2>2. indicestmp' \in Map /\ DOMAIN indicestmp' = {}
    BY <1>3, EmptyMap DEF Crash
  <2> QED BY <1>3, <2>1, <2>2, <2>3 DEF TypeOK, Crash
<1>4. CASE FetchListing
  <2>1. CASE NextRegistration
    BY <1>4, <2>1, NextRegistrationType DEF TypeOK, FetchListing
  <2>2. CASE lignes' \in Pages[x] /\ indicestmp' = Empty /\ pc' = "regrow" /\ x' = x
    <3>1. lignes' \in Seq(Line)
      BY <2>2 DEF TypeOK
    <3> QED BY <1>4, <2>2, <3>1, EmptyMap DEF TypeOK, FetchListing
  <2> QED BY <1>4, <2>1, <2>2 DEF FetchListing
<1>5. CASE RegisterLine
  <2>1. CASE NextRegistration
    BY <1>5, <2>1, NextRegistrationType DEF TypeOK, RegisterLine
  <2>2. CASE ~NextRegistration
    <3>1. indicestmp' = With(indicestmp, key(ligne), [nom |-> ligne.nom, last |-> ligne.val])
          /\ lignes' = Tail(lignes) /\ pc = "regrow" /\ st /\ UNCHANGED <<pc, x, st, indices>>
      BY <1>5, <2>2 DEF RegisterLine
    <3>2. lignes' \in Seq(Line) /\ indicestmp' \in Map
      BY <1>5, <3>1, HeadOfPage, MapPut DEF RegisterLine, TypeOK
    <3> QED BY <3>1, <3>2 DEF TypeOK
  <2> QED BY <2>1, <2>2
<1>6. CASE EndListing
  <2>1. /\ indices' \in Seq(Map) /\ Len(indices') = Len(indices) + 1
        /\ \A i \in 1..Len(indices') :
             indices'[i] = IF i <= Len(indices) THEN indices[i] ELSE indicestmp
    BY <1>6 DEF EndListing, TypeOK
  <2>2. Len(indices) < x
    BY <1>6 DEF EndListing, TypeOK
  <2>3. ~st => DOMAIN indicestmp = {}
    BY DEF TypeOK
  <2> QED BY <1>6, <2>1, <2>2, <2>3, NextRegistrationType DEF TypeOK, EndListing
<1>7. CASE FetchPage
  <2>1. CASE NextSite
    BY <1>7, <2>1, NextSiteType DEF TypeOK, FetchPage
  <2>2. CASE ~NextSite
    <3>1. lignes' \in Seq(Line)
      BY <1>7, <2>2 DEF FetchPage, TypeOK
    <3> QED BY <1>7, <2>2, <3>1 DEF TypeOK, FetchPage
  <2> QED BY <2>1, <2>2
<1>8. CASE ReadLine
  <2>1. CASE NextSite /\ UNCHANGED indices
    BY <1>8, <2>1, NextSiteType DEF TypeOK, ReadLine
  <2>2. CASE Known /\ addVal(ligne.val) /\ lignes' = Tail(lignes) /\ UNCHANGED <<pc, x>>
    <3>1. lignes' \in Seq(Line)
      BY <1>8, <2>2, HeadOfPage DEF ReadLine
    <3>2. CASE UNCHANGED indices
      BY <1>8, <2>2, <3>1, <3>2 DEF TypeOK, ReadLine
    <3>3. CASE indices' = [indices EXCEPT ![x][key(ligne)].last = ligne.val]
      <4>1. /\ indices' \in Seq(Map) /\ Len(indices') = Len(indices)
            /\ \A i \in 1..Len(indices) : DOMAIN indices'[i] = DOMAIN indices[i]
        BY <1>8, <2>2, <3>3, SetLast DEF ReadLine
      <4> QED BY <1>8, <2>2, <3>1, <4>1 DEF TypeOK, ReadLine
    <3> QED BY <2>2, <3>2, <3>3 DEF addVal
  <2> QED BY <1>8, <2>1, <2>2 DEF ReadLine
<1>9. CASE EndPage
  BY <1>9, NextSiteType DEF TypeOK, EndPage
<1> QED BY <1>1, <1>2, <1>3, <1>4, <1>5, <1>6, <1>7, <1>8, <1>9 DEF Next

\* The shape of the state at the start.
LEMMA TypeInit == Init => TypeOK
<1> SUFFICES ASSUME Init PROVE TypeOK
  OBVIOUS
<1>1. st \in BOOLEAN
  BY Zenon DEF Init
<1>2. Len(indices) = 0 /\ indices \in Seq(Map) /\ lignes \in Seq(Line)
  BY DEF Init
<1> QED BY <1>1, <1>2, EmptyMap, SitesAssumption DEF Init, TypeOK

\* The shape of the state holds in every reachable state.
THEOREM TypeCorrect == Spec => []TypeOK
BY TypeInit, TypeStep, PTL DEF Spec

-----------------------------------------------------------------------------
(* Identifiers.                                                            *)

\* The identifiers in use are 0, 1, ... without a hole.
Dense(S) == \E n \in Nat : S = 0..n - 1

IdsInv ==
  /\ Dense({e.id : e \in paysTbl})
  /\ \A b : Dense({e.id : e \in RefOf(b)})
  /\ IdsIdentify

\* MAX(ID) + 1 is an identifier not in use, and the next one.
LEMMA NextIdFresh ==
  ASSUME NEW S, Dense(S)
  PROVE  NextId(S) \notin S /\ Dense(S \cup {NextId(S)})
<1>1. PICK n \in Nat : S = 0..n - 1
  BY DEF Dense
<1>2. NextId(S) = n
  <2>1. CASE n = 0
    BY <1>1, <2>1 DEF NextId
  <2>2. CASE n > 0
    <3>1. n - 1 \in S /\ \A k \in S : k <= n - 1
      BY <1>1, <2>2
    <3>2. \A m \in S : (\A k \in S : k <= m) => m = n - 1
      BY <1>1, <3>1
    <3>3. (CHOOSE m \in S : \A k \in S : k <= m) = n - 1
      BY <3>1, <3>2
    <3>4. NextId(S) = (n - 1) + 1
      BY Zenon, <3>1, <3>3 DEF NextId
    <3> QED BY <3>4
  <2> QED BY <2>1, <2>2
<1>3. S \cup {n} = 0..(n + 1) - 1
  BY <1>1
<1>4. n \notin S /\ n + 1 \in Nat
  BY <1>1
<1>5. Dense(S \cup {n})
  BY Zenon, <1>3, <1>4 DEF Dense
<1> QED BY <1>2, <1>4, <1>5

\* An INSERT INTO PAYS keeps the identifiers of PAYS dense and distinct.
LEMMA PaysStep ==
  ASSUME IdsInv, NEW p, paysTbl' \in PaysAfter(p)
  PROVE  /\ Dense({e.id : e \in paysTbl'})
         /\ \A e, f \in paysTbl' : e.id = f.id <=> e.nom = f.nom
<1> DEFINE ids == {e.id : e \in paysTbl}
           new == [id |-> NextId(ids), nom |-> p]
<1>1. CASE paysTbl' = paysTbl
  BY <1>1 DEF IdsInv, IdsIdentify
<1>2. CASE paysTbl' = paysTbl \cup {new} /\ \A e \in paysTbl : e.nom # p
  <2>1. Dense(ids) /\ new.id = NextId(ids) /\ new.nom = p
    BY DEF IdsInv
  <2>2. new.id \notin ids /\ Dense(ids \cup {new.id})
    BY <2>1, NextIdFresh
  <2> HIDE DEF new
  <2>3. {e.id : e \in paysTbl'} = ids \cup {new.id}
    BY <1>2
  <2>4. \A e \in paysTbl : e.id # new.id /\ e.nom # new.nom
    BY Zenon, <1>2, <2>1, <2>2
  <2>5. \A e, f \in paysTbl' : e.id = f.id <=> e.nom = f.nom
    BY <1>2, <2>4 DEF IdsInv, IdsIdentify
  <2> QED BY Zenon, <2>2, <2>3, <2>5
<1> QED BY Zenon, <1>1, <1>2 DEF PaysAfter

\* So does an INSERT INTO a reference table.
LEMMA RefStep ==
  ASSUME IdsInv, NEW bdd, NEW p, NEW nom, NEW T, ref' \in RefAfter(bdd, p, nom, T)
  PROVE  /\ \A b : Dense({e.id : e \in {f \in ref' : f.bdd = b}})
         /\ \A e, f \in ref' : e.bdd = f.bdd => (e.id = f.id <=> e.nom = f.nom)
<1> DEFINE ids == {e.id : e \in RefOf(bdd)}
           new == [bdd |-> bdd, id |-> NextId(ids), pays |-> IdIn(T, p), nom |-> nom]
<1>1. CASE ref' = ref
  BY Zenon, <1>1 DEF IdsInv, IdsIdentify, RefOf
<1>2. CASE ref' = ref \cup {new} /\ \A e \in RefOf(bdd) : e.nom # nom
  <2>1. Dense(ids) /\ new.id = NextId(ids) /\ new.nom = nom /\ new.bdd = bdd
    BY Zenon DEF IdsInv
  <2>2. new.id \notin ids /\ Dense(ids \cup {new.id})
    BY <2>1, NextIdFresh
  <2> HIDE DEF new
  <2>3. \A e \in ref : e.bdd = bdd => e.id # new.id /\ e.nom # new.nom
    BY Zenon, <1>2, <2>1, <2>2 DEF RefOf
  <2>4. ASSUME NEW b PROVE Dense({e.id : e \in {f \in ref' : f.bdd = b}})
    <3>1. CASE b = bdd
      <4>1. {e.id : e \in {f \in ref' : f.bdd = b}} = ids \cup {new.id}
        BY Zenon, <1>2, <2>1, <3>1 DEF RefOf
      <4> QED BY Zenon, <2>2, <4>1
    <3>2. CASE b # bdd
      <4>1. {f \in ref' : f.bdd = b} = RefOf(b)
        BY <1>2, <2>1, <3>2 DEF RefOf
      <4> QED BY <4>1 DEF IdsInv
    <3> QED BY <3>1, <3>2
  <2>5. \A e, f \in ref' : e.bdd = f.bdd => (e.id = f.id <=> e.nom = f.nom)
    BY SMTT(30), <1>2, <2>1, <2>3 DEF IdsInv, IdsIdentify
  <2> QED BY Zenon, <2>4, <2>5
<1> QED BY Zenon, <1>1, <1>2 DEF RefAfter

\* The reference tables only change while the listings are registered.
LEMMA BaseStep ==
  ASSUME [Next]_vars
  PROVE  \/ UNCHANGED <<paysTbl, ref>>
         \/ /\ RegisterLine
            /\ paysTbl' \in PaysAfter(pays(ligne))
            /\ ref' = ref \/ ref' \in RefAfter(SITE.bdd, pays(ligne), ligne.nom, paysTbl')
BY DEF Next, vars, base, Boot, Crash, FetchListing, RegisterLine, EndListing, FetchPage,
   ReadLine, EndPage

\* Every step keeps the identifiers dense and distinct.
LEMMA IdsStep == IdsInv /\ [Next]_vars => IdsInv'
<1> SUFFICES ASSUME IdsInv, [Next]_vars PROVE IdsInv'
  OBVIOUS
<1>1. CASE UNCHANGED <<paysTbl, ref>>
  BY <1>1 DEF IdsInv, IdsIdentify, RefOf
<1>2. CASE /\ paysTbl' \in PaysAfter(pays(ligne))
           /\ ref' = ref \/ ref' \in RefAfter(SITE.bdd, pays(ligne), ligne.nom, paysTbl')
  <2>1. /\ Dense({e.id : e \in paysTbl'})
        /\ \A e, f \in paysTbl' : e.id = f.id <=> e.nom = f.nom
    BY <1>2, PaysStep
  <2>2. /\ \A b : Dense({e.id : e \in {f \in ref' : f.bdd = b}})
        /\ \A e, f \in ref' : e.bdd = f.bdd => (e.id = f.id <=> e.nom = f.nom)
    BY Zenon, <1>2, RefStep DEF IdsInv, IdsIdentify, RefOf
  <2> QED BY Zenon, <2>1, <2>2 DEF IdsInv, IdsIdentify, RefOf
<1> QED BY <1>1, <1>2, BaseStep

\* Empty tables have no identifiers.
LEMMA IdsInit == Init => IdsInv
<1>1. Dense({})
  BY DEF Dense
<1>2. ASSUME Init PROVE {e.id : e \in paysTbl} = {} /\ \A b : {e.id : e \in RefOf(b)} = {}
  BY <1>2 DEF Init, RefOf
<1> QED BY Zenon, <1>1, <1>2 DEF Init, IdsInv, IdsIdentify

\* An identifier stands for one country or one name, for ever.
THEOREM IdsTheorem == Spec => []IdsIdentify
<1>1. IdsInv => IdsIdentify
  BY Zenon DEF IdsInv
<1> QED BY <1>1, IdsInit, IdsStep, PTL DEF Spec

-----------------------------------------------------------------------------
(* Provenance.                                                             *)

\* The entry under the key of a line has the name of that line.
Named(f) == \A k \in DOMAIN f : \A r \in Line : key(r) = k => f[k].nom = r.nom

MapsNamed ==
  /\ Named(indicestmp)
  /\ \A i \in 1..Len(indices) : Named(indices[i])

\* The lines still to be read were shown by the site being polled.
LinesShown ==
  pc = "row" => \A i \in 1..Len(lignes) :
    [tbl |-> SITE.tbl, bdd |-> SITE.bdd, nom |-> lignes[i].nom, val |-> lignes[i].val] \in shown

ProvInv == TypeOK /\ MapsNamed /\ LinesShown /\ Provenance

\* A step of loopVals on one line that is known, with a new price.
Update ==
  /\ pc = "row" /\ lignes # <<>> /\ Known /\ Entry.last # ligne.val
  /\ indices' = [indices EXCEPT ![x][key(ligne)].last = ligne.val]

\* The four ways a step changes the list of maps.
LEMMA ListStep ==
  ASSUME [Next]_vars
  PROVE  \/ UNCHANGED indices
         \/ pc' = "down" /\ indices' = <<>>
         \/ pc = "regrow" /\ indices' = Append(indices, indicestmp)
         \/ ReadLine /\ Update
BY Zenon DEF Next, vars, thread, Boot, Crash, FetchListing, RegisterLine, EndListing, FetchPage,
   ReadLine, EndPage, addVal, Update

\* The three ways a step changes the map of the site being registered.
LEMMA TmpStep ==
  ASSUME [Next]_vars
  PROVE  \/ UNCHANGED indicestmp
         \/ indicestmp' = Empty
         \/ /\ RegisterLine /\ lignes # <<>>
            /\ indicestmp' = With(indicestmp, key(ligne), [nom |-> ligne.nom, last |-> ligne.val])
BY Zenon DEF Next, vars, thread, Boot, Crash, FetchListing, RegisterLine, EndListing, FetchPage,
   ReadLine, EndPage, NextRegistration

\* Every step keeps the names of the entries those of their lines.
LEMMA NamedStep ==
  ASSUME TypeOK, MapsNamed, [Next]_vars
  PROVE  MapsNamed'
<1>1. Named(indicestmp')
  <2>1. CASE UNCHANGED indicestmp
    BY <2>1 DEF MapsNamed
  <2>2. CASE indicestmp' = Empty
    BY <2>2, EmptyMap DEF Named
  <2>3. CASE /\ lignes # <<>>
             /\ indicestmp' = With(indicestmp, key(ligne), [nom |-> ligne.nom, last |-> ligne.val])
    <3>1. ligne \in Line
      BY <2>3, HeadOfPage
    <3>2. ASSUME NEW k \in DOMAIN indicestmp', NEW r \in Line, key(r) = k
          PROVE  indicestmp'[k].nom = r.nom
      <4>1. CASE k = key(ligne)
        <5>1. r.nom = ligne.nom
          BY <3>1, <3>2, <4>1, KeysAssumption
        <5>2. indicestmp'[k] = [nom |-> ligne.nom, last |-> ligne.val]
          BY <2>3, <4>1 DEF With
        <5> QED BY <5>1, <5>2
      <4>2. CASE k # key(ligne)
        <5>1. k \in DOMAIN indicestmp /\ indicestmp'[k] = indicestmp[k]
          BY <2>3, <3>2, <4>2 DEF With
        <5> QED BY <3>2, <5>1 DEF MapsNamed, Named
      <4> QED BY <4>1, <4>2
    <3> QED BY <3>2 DEF Named
  <2> QED BY <2>1, <2>2, <2>3, TmpStep
<1>2. ASSUME NEW i \in 1..Len(indices') PROVE Named(indices'[i])
  <2>1. CASE UNCHANGED indices
    BY <1>2, <2>1 DEF MapsNamed
  <2>2. CASE indices' = <<>>
    BY <1>2, <2>2
  <2>3. CASE indices' = Append(indices, indicestmp)
    <3>1. indices \in Seq(Map) /\ indicestmp \in Map
      BY DEF TypeOK
    <3>2. /\ Len(indices') = Len(indices) + 1
          /\ \A j \in 1..Len(indices') :
               indices'[j] = IF j <= Len(indices) THEN indices[j] ELSE indicestmp
      BY <2>3, <3>1
    <3>3. CASE i <= Len(indices)
      <4>1. i \in 1..Len(indices) /\ indices'[i] = indices[i]
        BY <1>2, <3>1, <3>2, <3>3
      <4> QED BY <4>1 DEF MapsNamed
    <3>4. CASE ~(i <= Len(indices))
      BY <1>2, <3>2, <3>4 DEF MapsNamed
    <3> QED BY <3>3, <3>4
  <2>4. CASE Update
    <3>1. /\ Len(indices') = Len(indices) /\ DOMAIN indices'[i] = DOMAIN indices[i]
          /\ \A k \in DOMAIN indices[i] : indices'[i][k].nom = indices[i][k].nom
      BY SMTT(30), <1>2, <2>4, SetLast DEF Update
    <3> QED BY <3>1 DEF MapsNamed, Named
  <2> QED BY <2>1, <2>2, <2>3, <2>4, ListStep
<1> QED BY <1>1, <1>2 DEF MapsNamed

\* Every step keeps the unread lines among those that were shown.
LEMMA ShownStep ==
  ASSUME TypeOK, LinesShown, [Next]_vars
  PROVE  LinesShown'
<1>1. CASE UNCHANGED vars
  BY <1>1 DEF LinesShown, SITE, vars, thread, history
<1>2. CASE pc' # "row"
  BY <1>2 DEF LinesShown
<1>3. CASE FetchPage /\ ~NextSite
  <2>1. PICK p \in Pages[x] :
          /\ lignes' = p
          /\ shown' = shown \cup {[tbl |-> SITE.tbl, bdd |-> SITE.bdd, nom |-> p[i].nom,
                                  val |-> p[i].val] : i \in 1..Len(p)}
    BY <1>3 DEF FetchPage
  <2>2. x' = x
    BY <1>3 DEF FetchPage
  <2> QED BY <2>1, <2>2 DEF LinesShown, SITE
<1>4. CASE ReadLine /\ pc' = "row"
  <2>1. /\ pc = "row" /\ lignes # <<>> /\ lignes' = Tail(lignes)
        /\ UNCHANGED <<x, shown>>
    BY <1>4 DEF ReadLine, NextSite
  <2>2. \A i \in 1..Len(lignes') : i + 1 \in 1..Len(lignes) /\ lignes'[i] = lignes[i + 1]
    BY <2>1 DEF TypeOK
  <2>3. \A i \in 1..Len(lignes) :
          [tbl |-> SITE.tbl, bdd |-> SITE.bdd, nom |-> lignes[i].nom, val |-> lignes[i].val] \in shown
    BY <2>1 DEF LinesShown
  <2> QED BY <2>1, <2>2, <2>3 DEF LinesShown, SITE
<1> QED BY Zenon, <1>1, <1>2, <1>3, <1>4 DEF Next, Boot, Crash, FetchListing, RegisterLine,
     NextRegistration, EndListing, FetchPage, ReadLine, EndPage, NextSite

\* Rows are only added to the reference tables and to the history.
LEMMA RefGrows ==
  ASSUME [Next]_vars
  PROVE  ref \subseteq ref' /\ shown \subseteq shown'
<1>1. ref \subseteq ref'
  BY Zenon, BaseStep DEF RefAfter
<1>2. shown \subseteq shown'
  BY Zenon DEF Next, vars, history, Boot, Crash, FetchListing, RegisterLine, EndListing, FetchPage,
     ReadLine, EndPage
<1> QED BY <1>1, <1>2

\* The scalar subquery yields the identifier of a row of that name, or NULL.
LEMMA IdInRow ==
  ASSUME NEW S, NEW nom, IdIn(S, nom) # NoId
  PROVE  \E e \in S : e.nom = nom /\ e.id = IdIn(S, nom)
BY Zenon DEF IdIn

\* Only a line with a new price stores a value, the one addVal writes.
LEMMA StoredStep ==
  ASSUME [Next]_vars
  PROVE  \/ stored' = stored
         \/ Update /\ stored' = stored \cup {[tbl |-> SITE.tbl, id |-> TargetId, val |-> ligne.val]}
<1>1. stored' = stored \/ ReadLine
  BY Zenon DEF Next, vars, base, Boot, Crash, FetchListing, RegisterLine, EndListing, FetchPage,
     EndPage
<1>2. CASE ReadLine
  <2>1. CASE stored' = stored
    BY <2>1
  <2>2. CASE stored' # stored
    <3>1. /\ pc = "row" /\ lignes # <<>> /\ Known /\ addVal(ligne.val)
      BY <1>2, <2>2 DEF ReadLine
    <3>2. /\ Entry.last # ligne.val /\ Insert(SITE.tbl, ligne.val)
          /\ indices' = [indices EXCEPT ![x][key(ligne)].last = ligne.val]
      BY <2>2, <3>1 DEF addVal
    <3> QED BY <3>1, <3>2 DEF Update, Insert
  <2> QED BY <2>1, <2>2
<1> QED BY SMTT(30), <1>1, <1>2

\* Every step keeps the provenance of the stored values.
LEMMA ProvStep == ProvInv /\ [Next]_vars => ProvInv'
<1> SUFFICES ASSUME ProvInv, [Next]_vars PROVE ProvInv'
  OBVIOUS
<1>1. TypeOK' /\ MapsNamed' /\ LinesShown'
  BY TypeStep, NamedStep, ShownStep DEF ProvInv
<1>2. ASSUME NEW v \in stored
      PROVE  \E s \in shown' :
               /\ s.tbl = v.tbl /\ s.val = v.val
               /\ v.id # NoId => \E e \in ref' : e.bdd = s.bdd /\ e.nom = s.nom /\ e.id = v.id
  BY RefGrows DEF ProvInv, Provenance
<1>3. \/ stored' = stored
      \/ Update /\ stored' = stored \cup {[tbl |-> SITE.tbl, id |-> TargetId, val |-> ligne.val]}
  BY StoredStep
<1>4. ASSUME Update
      PROVE  \E s \in shown' :
               /\ s.tbl = SITE.tbl /\ s.val = ligne.val
               /\ TargetId # NoId =>
                    \E e \in ref' : e.bdd = s.bdd /\ e.nom = s.nom /\ e.id = TargetId
  <2> DEFINE s == [tbl |-> SITE.tbl, bdd |-> SITE.bdd, nom |-> ligne.nom, val |-> ligne.val]
  <2>1. 1 \in 1..Len(lignes) /\ lignes[1] = ligne
    BY <1>4 DEF Update, ProvInv, TypeOK, ligne
  <2>2. s \in shown'
    BY <1>4, <2>1, RefGrows DEF Update, ProvInv, LinesShown
  <2>3. ligne \in Line
    BY <1>4, HeadOfPage DEF ProvInv, Update
  <2>4. x \in 1..Len(indices) /\ key(ligne) \in DOMAIN indices[x]
    BY <1>4 DEF Update, Known, ProvInv, TypeOK
  <2>5. Entry.nom = ligne.nom
    BY <2>3, <2>4 DEF ProvInv, MapsNamed, Named, Entry
  <2>6. TargetId # NoId => \E e \in RefOf(SITE.bdd) : e.nom = ligne.nom /\ e.id = TargetId
    BY <2>5, IdInRow DEF TargetId
  <2>7. TargetId # NoId => \E e \in ref' : e.bdd = s.bdd /\ e.nom = s.nom /\ e.id = TargetId
    BY Zenon, <2>6, RefGrows DEF RefOf
  <2> QED BY <2>2, <2>7
<1>5. Provenance'
  <2> SUFFICES ASSUME NEW v \in stored'
               PROVE  \E s \in shown' :
                 /\ s.tbl = v.tbl /\ s.val = v.val
                 /\ v.id # NoId => \E e \in ref' : e.bdd = s.bdd /\ e.nom = s.nom /\ e.id = v.id
    BY DEF Provenance
  <2>1. CASE v \in stored
    BY Zenon, <1>2, <2>1
  <2>2. CASE v \notin stored
    <3>1. Update /\ v = [tbl |-> SITE.tbl, id |-> TargetId, val |-> ligne.val]
      BY <1>3, <2>2
    <3>2. v.tbl = SITE.tbl /\ v.id = TargetId /\ v.val = ligne.val
      BY Zenon, <3>1
    <3> QED BY <1>4, <3>1, <3>2
  <2> QED BY Zenon, <2>1, <2>2
<1> QED BY <1>1, <1>5 DEF ProvInv

\* Nothing is stored at the start.
LEMMA ProvInit == Init => ProvInv
<1> SUFFICES ASSUME Init PROVE ProvInv
  OBVIOUS
<1>1. MapsNamed
  <2>1. Len(indices) = 0 /\ DOMAIN indicestmp = {}
    BY EmptyMap DEF Init
  <2> QED BY <2>1 DEF MapsNamed, Named
<1> QED BY <1>1, TypeInit DEF Init, ProvInv, LinesShown, Provenance

\* Every stored value was shown under the name its identifier stands for.
THEOREM ProvenanceTheorem == Spec => []Provenance
<1>1. ProvInv => Provenance
  BY Zenon DEF ProvInv
<1> QED BY <1>1, ProvInit, ProvStep, PTL DEF Spec

-----------------------------------------------------------------------------
(* Repeated values.                                                        *)

\* What the entry of key k of site s feeds.
Target(s, k) == <<SITES[s].tbl, IdIn(RefOf(SITES[s].bdd), indices[s][k].nom)>>

\* While the program polls, the entry a value came from still has this value; a
\* value without identifier may come from an entry that has one by now.
OriginOK(o) ==
  LET f == origin[o].from
  IN  /\ f.site \in 1..Len(indices) /\ f.key \in DOMAIN indices[f.site]
      /\ \/ indices[f.site][f.key].last = f.val /\ o = Target(f.site, f.key)
         \/ o[2] = NoId /\ Target(f.site, f.key)[2] # NoId

OriginInv ==
  /\ TypeOK
  /\ pc \in {"reg", "regrow"} => DOMAIN origin = {}
  /\ pc \in {"poll", "row"} => \A o \in DOMAIN origin : OriginOK(o)
  /\ RepeatExplained

\* Only loopVals and the start of the program change the origins.
LEMMA OriginStep ==
  ASSUME [Next]_vars
  PROVE  \/ UNCHANGED origin
         \/ Boot
         \/ ReadLine /\ Known /\ addVal(ligne.val) /\ UNCHANGED <<pc, x>>
BY Zenon DEF Next, vars, history, Boot, Crash, FetchListing, RegisterLine, EndListing, FetchPage,
   ReadLine, EndPage

\* With a new price: the origins after the INSERT, and after an INSERT that failed.
LEMMA UpdateStep ==
  ASSUME TypeOK, \A o \in DOMAIN origin : OriginOK(o) /\ ~origin[o].again,
         Update, UNCHANGED <<pc, ref>>,
         \/ Insert(SITE.tbl, ligne.val)
         \/ origin' = [o \in {o \in DOMAIN origin :
                                ~(origin[o].from.site = x /\ origin[o].from.key = key(ligne))}
                       |-> origin[o]]
  PROVE  \A o \in DOMAIN origin' : OriginOK(o)' /\ ~origin'[o].again
<1> DEFINE k == key(ligne)
           d == ligne.val
           t == <<SITE.tbl, TargetId>>
<1>1. /\ Len(indices') = Len(indices)
      /\ \A i \in 1..Len(indices) : DOMAIN indices'[i] = DOMAIN indices[i]
      /\ \A i \in 1..Len(indices) : \A j \in DOMAIN indices[i] :
              /\ indices'[i][j].nom = indices[i][j].nom
              /\ indices'[i][j].last = IF i = x /\ j = k THEN d ELSE indices[i][j].last
  BY SetLast DEF Update
<1>2. x \in 1..Len(indices) /\ k \in DOMAIN indices[x] /\ indices[x][k].last # d
  BY DEF Update, Known, Entry, TypeOK
<1>3. t = Target(x, k)
  BY Zenon DEF TargetId, Target, Entry, SITE
<1>4. \A i \in 1..Len(indices) : \A j \in DOMAIN indices[i] : Target(i, j)' = Target(i, j)
  BY Zenon, <1>1 DEF Target, RefOf
<1>5. ASSUME NEW o \in DOMAIN origin PROVE OriginOK(o) /\ ~origin[o].again
  BY Zenon, <1>5
<1> HIDE DEF k, d, t
<1>6. ASSUME NEW o \in DOMAIN origin, origin'[o] = origin[o],
             ~(origin[o].from.site = x /\ origin[o].from.key = k) \/ o # t
      PROVE  OriginOK(o)' /\ ~origin'[o].again
  <2> DEFINE f == origin[o].from
  <2>1. f.site \in 1..Len(indices) /\ f.key \in DOMAIN indices[f.site]
    BY Zenon, <1>5 DEF OriginOK
  <2>2. Target(f.site, f.key)' = Target(f.site, f.key)
    BY Zenon, <1>4, <1>6, <2>1
  <2>3. CASE indices[f.site][f.key].last = f.val /\ o = Target(f.site, f.key)
    <3>1. ~(f.site = x /\ f.key = k)
      BY Zenon, <1>3, <1>6, <2>3
    <3>2. indices'[f.site][f.key].last = f.val
      BY Zenon, <1>1, <2>1, <2>3, <3>1
    <3> QED BY Zenon, <1>1, <1>5, <1>6, <2>1, <2>2, <2>3, <3>2 DEF OriginOK
  <2>4. CASE o[2] = NoId /\ Target(f.site, f.key)[2] # NoId
    BY Zenon, <1>1, <1>5, <1>6, <2>1, <2>2, <2>4 DEF OriginOK
  <2> QED BY Zenon, <1>5, <2>3, <2>4 DEF OriginOK
<1>7. CASE Insert(SITE.tbl, ligne.val)
  <2> DEFINE from == [val |-> d, site |-> x, key |-> k]
  <2>1. origin' = With(origin, t, [from |-> from, again |-> t \in DOMAIN origin /\ origin[t].from = from])
    BY Zenon, <1>7 DEF Insert, d, k, t
  <2>2. t \in DOMAIN origin => origin[t].from # from
    <3> SUFFICES ASSUME t \in DOMAIN origin, origin[t].from = from PROVE FALSE
      BY Zenon
    <3>1. \/ indices[from.site][from.key].last = from.val
          \/ t[2] = NoId /\ Target(from.site, from.key)[2] # NoId
      BY Zenon, <1>5 DEF OriginOK
    <3> QED BY Zenon, <1>2, <1>3, <3>1
  <2>3. origin'[t] = [from |-> from, again |-> FALSE]
    BY Zenon, <2>1, <2>2 DEF With
  <2>4. ASSUME NEW o, o = t, NEW i, i = x, NEW j, j = k PROVE OriginOK(o)' /\ ~origin'[o].again
    <3>6. origin'[o] = [from |-> from, again |-> FALSE]
      BY Zenon, <2>3, <2>4
    <3>1. origin'[o].from = from /\ ~origin'[o].again
      <4> HIDE DEF from
      <4> QED BY <3>6
    <3>2. i \in 1..Len(indices) /\ j \in DOMAIN indices[i] /\ o = Target(i, j)
      BY <1>2, <1>3, <2>4
    <3>3. o = Target(i, j)'
      BY <1>4, <3>2
    <3>4. indices'[i][j].last = d
      BY <1>1, <2>4, <3>2
    <3>5. origin'[o].from.site = i /\ origin'[o].from.key = j /\ origin'[o].from.val = d
      BY <2>4, <3>1
    <3> QED BY Zenon, <1>1, <3>1, <3>2, <3>3, <3>4, <3>5 DEF OriginOK
  <2>5. ASSUME NEW o \in DOMAIN origin', o # t PROVE OriginOK(o)' /\ ~origin'[o].again
    <3>1. o \in DOMAIN origin /\ origin'[o] = origin[o]
      BY <2>1, <2>5 DEF With
    <3> QED BY Zenon, <1>6, <2>5, <3>1
  <2> QED BY SMTT(30), <2>4, <2>5
<1>8. CASE origin' = [o \in {o \in DOMAIN origin :
                                ~(origin[o].from.site = x /\ origin[o].from.key = key(ligne))}
                     |-> origin[o]]
  <2> SUFFICES ASSUME NEW o \in DOMAIN origin' PROVE OriginOK(o)' /\ ~origin'[o].again
    OBVIOUS
  <2>1. /\ o \in DOMAIN origin /\ origin'[o] = origin[o]
        /\ ~(origin[o].from.site = x /\ origin[o].from.key = k)
    BY Zenon, <1>8 DEF k
  <2> QED BY <1>6, <2>1
<1> QED BY <1>7, <1>8

\* Every step keeps the origins in agreement with the entries.
LEMMA OriginInvStep == OriginInv /\ [Next]_vars => OriginInv'
<1> SUFFICES ASSUME OriginInv, [Next]_vars PROVE OriginInv'
  OBVIOUS
<1>1. TypeOK'
  BY TypeStep DEF OriginInv
<1>2. CASE Boot
  <2>1. DOMAIN origin' = {} /\ pc' = "reg"
    BY <1>2, EmptyMap DEF Boot
  <2> QED BY <1>1, <2>1 DEF OriginInv, RepeatExplained
<1>3. CASE UNCHANGED origin /\ pc' = "down"
  BY <1>1, <1>3 DEF OriginInv, RepeatExplained
<1>4. CASE UNCHANGED origin /\ pc \in {"reg", "regrow"}
  BY SMTT(30), <1>1, <1>4 DEF OriginInv, RepeatExplained
<1>5. CASE UNCHANGED <<origin, indices, ref>> /\ pc \in {"poll", "row"}
           /\ pc' \in {"poll", "row"}
  BY Zenon, <1>1, <1>5 DEF OriginInv, RepeatExplained, OriginOK, Target, RefOf
<1>6. CASE ReadLine /\ Known /\ addVal(ligne.val) /\ UNCHANGED <<pc, x>>
  <2>1. pc = "row" /\ pc' = "row" /\ lignes # <<>> /\ ref' = ref
    BY <1>6 DEF ReadLine
  <2>2. CASE UNCHANGED <<indices, origin>>
    BY <1>5, <2>1, <2>2
  <2>3. CASE ~UNCHANGED <<indices, origin>>
    <3>1. /\ Entry.last # ligne.val
          /\ indices' = [indices EXCEPT ![x][key(ligne)].last = ligne.val]
          /\ \/ Insert(SITE.tbl, ligne.val)
             \/ origin' = [o \in {o \in DOMAIN origin :
                                ~(origin[o].from.site = x /\ origin[o].from.key = key(ligne))}
                           |-> origin[o]]
      BY <1>6, <2>3 DEF addVal
    <3>2. Update
      BY <1>6, <2>1, <3>1 DEF Update
    <3>3. TypeOK /\ \A o \in DOMAIN origin : OriginOK(o) /\ ~origin[o].again
      BY <2>1 DEF OriginInv, RepeatExplained
    <3>4. \A o \in DOMAIN origin' : OriginOK(o)' /\ ~origin'[o].again
      BY <2>1, <3>1, <3>2, <3>3, UpdateStep
    <3> QED BY <1>1, <2>1, <3>4 DEF OriginInv, RepeatExplained
  <2> QED BY <2>2, <2>3
<1>7. CASE UNCHANGED vars
  <2>1. UNCHANGED <<pc, origin, indices, ref>>
    BY <1>7 DEF vars, thread, base, history
  <2> QED BY Zenon, <1>1, <2>1 DEF OriginInv, RepeatExplained, OriginOK, Target, RefOf
<1>8. CASE Crash \/ FetchListing \/ RegisterLine \/ EndListing
  BY Zenon, <1>3, <1>4, <1>8 DEF Crash, FetchListing, RegisterLine, EndListing, history
<1>9. CASE FetchPage \/ EndPage \/ (ReadLine /\ NextSite /\ UNCHANGED <<indices, origin>>)
  BY <1>5, <1>9 DEF FetchPage, EndPage, ReadLine, NextSite, history, base
<1> QED BY <1>2, <1>6, <1>7, <1>8, <1>9 DEF Next, ReadLine

\* A value that follows an equal one of the same identifier has a reason.
THEOREM RepeatTheorem == Spec => []RepeatExplained
<1>1. Init => OriginInv
  <2>1. ASSUME Init PROVE DOMAIN origin = {} /\ TypeOK /\ pc = "down"
    BY <2>1, EmptyMap, TypeInit DEF Init
  <2> QED BY <2>1 DEF OriginInv, RepeatExplained
<1>2. OriginInv => RepeatExplained
  BY DEF OriginInv
<1> QED BY <1>1, <1>2, OriginInvStep, PTL DEF Spec

-----------------------------------------------------------------------------
(* Countries and values without identifier.                                *)

\* Every step keeps the countries of the indices in PAYS.
LEMMA CountryStep == CountryKnown /\ [Next]_vars => CountryKnown'
<1> SUFFICES ASSUME CountryKnown, [Next]_vars, paysErr' = {}, NEW e \in ref'
             PROVE  \E c \in paysTbl' : c.id = e.pays
  BY Zenon DEF CountryKnown
<1>1. paysErr \subseteq paysErr'
  BY Zenon DEF Next, vars, history, Boot, Crash, FetchListing, RegisterLine, EndListing, FetchPage,
     ReadLine, EndPage
<1>2. paysTbl \subseteq paysTbl'
  BY Zenon, BaseStep DEF PaysAfter
<1>3. CASE e \in ref
  BY <1>1, <1>2, <1>3 DEF CountryKnown
<1>4. CASE e \notin ref
  <2>1. RegisterLine /\ ref' \in RefAfter(SITE.bdd, pays(ligne), ligne.nom, paysTbl') /\ ref' # ref
    BY Zenon, <1>4, BaseStep
  <2>2. e.pays = IdIn(paysTbl', pays(ligne))
    <3> DEFINE new == [bdd |-> SITE.bdd, id |-> NextId({c.id : c \in RefOf(SITE.bdd)}),
                       pays |-> IdIn(paysTbl', pays(ligne)), nom |-> ligne.nom]
    <3>1. ref' = ref \cup {new}
      BY Zenon, <2>1 DEF RefAfter
    <3>2. e = new
      BY Zenon, <1>4, <3>1
    <3> QED BY Zenon, <3>2
  <2>3. \E c \in paysTbl' : c.nom = pays(ligne)
    BY Zenon, <2>1 DEF RegisterLine
  <2> QED BY Zenon, <2>2, <2>3 DEF IdIn
<1> QED BY <1>3, <1>4

\* Unless an INSERT INTO PAYS failed, every index has its country in PAYS.
THEOREM CountryTheorem == Spec => []CountryKnown
<1>1. Init => CountryKnown
  BY DEF Init, CountryKnown
<1> QED BY <1>1, CountryStep, PTL DEF Spec

\* The name is in its reference table, or its INSERT failed.
Listed(b, nom) == <<b, nom>> \in refErr \/ \E e \in ref : e.bdd = b /\ e.nom = nom

Covered(i, f) == \A k \in DOMAIN f : Listed(SITES[i].bdd, f[k].nom)

\* As long as no site failed, the i-th map is the map of the i-th site.
AlignedInv ==
  /\ pc = "regrow" => Covered(x, indicestmp)
  /\ pc \in {"reg", "regrow"} /\ Len(indices) = x - 1 =>
       \A i \in 1..Len(indices) : Covered(i, indices[i])
  /\ pc \in {"poll", "row"} /\ Aligned =>
       \A i \in 1..Len(indices) : Covered(i, indices[i])

\* Names stay in the reference tables and in the list of failures, except at a start.
LEMMA ListedGrows ==
  ASSUME [Next]_vars, ~Boot
  PROVE  refErr \subseteq refErr' /\ ref \subseteq ref'
<1>1. refErr \subseteq refErr'
  BY Zenon DEF Next, vars, history, Boot, Crash, FetchListing, RegisterLine, EndListing, FetchPage,
     ReadLine, EndPage
<1> QED BY <1>1, RefGrows

\* Every step keeps the maps of a program without failed site in the order of SITES.
LEMMA AlignedStep ==
  ASSUME TypeOK, AlignedInv, [Next]_vars
  PROVE  AlignedInv'
<1> DEFINE AllCovered == \A i \in 1..Len(indices) : Covered(i, indices[i])
<1>3. Len(SITES) \in Nat
  BY SitesAssumption
<1> USE <1>3
<1>1. CASE Boot
  <2>1. Len(indices') = 0 /\ pc' = "reg"
    BY <1>1 DEF Boot, TypeOK
  <2> QED BY <2>1 DEF AlignedInv
<1>2. CASE pc' = "down"
  BY <1>2 DEF AlignedInv
<1>4. ASSUME ~Boot, UNCHANGED indices, AllCovered PROVE AllCovered'
  <2> SUFFICES ASSUME NEW i \in 1..Len(indices) PROVE Covered(i, indices[i])'
    BY <1>4
  <2> QED BY <1>4, ListedGrows DEF Covered, Listed
<1>5. CASE ~Boot /\ NextRegistration /\ UNCHANGED indices /\ pc \in {"reg", "regrow"}
  <2>1. Len(indices') < x
    BY <1>5 DEF TypeOK
  <2>2. pc' # "regrow" /\ (pc' = "reg" => x' = x + 1) /\ (pc' = "poll" => x = Len(SITES))
    BY <1>5 DEF NextRegistration, TypeOK
  <2>3. pc' \in {"reg", "poll"} /\ Len(indices') \in Nat /\ x \in Nat
    BY <1>5 DEF NextRegistration, TypeOK
  <2>4. pc' = "reg" => Len(indices') # x' - 1
    BY <2>1, <2>2, <2>3
  <2>5. pc' = "poll" => Len(indices') # Len(SITES)
    BY <2>1, <2>2, <2>3
  <2> QED BY <2>3, <2>4, <2>5 DEF AlignedInv, Aligned
<1>6. CASE FetchListing /\ pc' = "regrow"
  <2>1. indicestmp' = Empty /\ x' = x /\ pc = "reg" /\ UNCHANGED indices /\ ~Boot
    BY <1>6 DEF FetchListing, NextRegistration, Boot
  <2>2. Covered(x, indicestmp)'
    BY Zenon, <2>1, EmptyMap DEF Covered
  <2> QED BY Zenon, <1>4, <1>6, <2>1, <2>2 DEF AlignedInv
<1>7. CASE RegisterLine /\ pc' = "regrow"
  <2>1. /\ indicestmp' = With(indicestmp, key(ligne), [nom |-> ligne.nom, last |-> ligne.val])
        /\ refErr' = refErr \cup
             {b \in {<<SITE.bdd, ligne.nom>>} : \A e \in ref' : <<e.bdd, e.nom>> # b}
        /\ x' = x /\ pc = "regrow" /\ UNCHANGED indices /\ ~Boot
    BY Zenon, <1>7 DEF RegisterLine, NextRegistration, Boot
  <2>2. ASSUME NEW k \in DOMAIN indicestmp'
        PROVE  Listed(SITES[x].bdd, indicestmp[k].nom)'
    <3>1. CASE k = key(ligne)
      <4>1. indicestmp'[k].nom = ligne.nom
        BY Zenon, <2>1, <3>1 DEF With
      <4>2. \/ <<SITE.bdd, ligne.nom>> \in refErr'
            \/ \E e \in ref' : e.bdd = SITE.bdd /\ e.nom = ligne.nom
        BY Zenon, <2>1
      <4> QED BY Zenon, <2>1, <4>1, <4>2 DEF Listed, SITE
    <3>2. CASE k # key(ligne)
      <4>1. k \in DOMAIN indicestmp /\ indicestmp'[k] = indicestmp[k]
        BY Zenon, <2>1, <2>2, <3>2 DEF With
      <4>2. Listed(SITES[x].bdd, indicestmp[k].nom)
        BY Zenon, <2>1, <4>1 DEF AlignedInv, Covered
      <4> QED BY Zenon, <2>1, <4>1, <4>2, ListedGrows DEF Listed
    <3> QED BY Zenon, <3>1, <3>2
  <2>3. Covered(x, indicestmp)'
    BY Zenon, <2>2 DEF Covered
  <2> QED BY Zenon, <1>4, <1>7, <2>1, <2>3 DEF AlignedInv
<1>8. CASE EndListing
  <2>1. /\ pc = "regrow" /\ NextRegistration /\ ~Boot
        /\ indices' = Append(indices, indicestmp) /\ Len(indices) < x
    BY <1>8 DEF EndListing, TypeOK, Boot
  <2>2. /\ Len(indices') = Len(indices) + 1
        /\ \A i \in 1..Len(indices') :
             \/ i \in 1..Len(indices) /\ indices'[i] = indices[i]
             \/ i = Len(indices) + 1 /\ indices'[i] = indicestmp
    BY <2>1 DEF TypeOK
  <2>3. pc' \in {"reg", "poll"} /\ (pc' = "reg" => x' = x + 1) /\ (pc' = "poll" => x = Len(SITES))
        /\ x \in Nat /\ Len(indices) \in Nat
    BY <2>1 DEF NextRegistration, TypeOK
  <2>4. ASSUME Len(indices) = x - 1 PROVE AllCovered'
    <3> SUFFICES ASSUME NEW i \in 1..Len(indices') PROVE Covered(i, indices[i])'
      BY Zenon
    <3>1. CASE i \in 1..Len(indices) /\ indices'[i] = indices[i]
      <4>1. Covered(i, indices[i])
        BY Zenon, <2>1, <2>4, <3>1 DEF AlignedInv
      <4> QED BY Zenon, <2>1, <3>1, <4>1, ListedGrows DEF Covered, Listed
    <3>2. CASE i = x /\ indices'[i] = indicestmp
      <4>1. Covered(i, indicestmp)
        BY <2>1, <3>2 DEF AlignedInv
      <4> QED BY <2>1, <3>2, <4>1, ListedGrows DEF Covered, Listed
    <3>3. x = Len(indices) + 1
      BY <2>3, <2>4
    <3>4. \/ i \in 1..Len(indices) /\ indices'[i] = indices[i]
          \/ i = Len(indices) + 1 /\ indices'[i] = indicestmp
      BY <2>2
    <3> QED BY <3>1, <3>2, <3>3, <3>4
  <2>5. pc' = "reg" /\ Len(indices') = x' - 1 => Len(indices) = x - 1
    BY <2>2, <2>3
  <2>6. pc' = "poll" /\ Len(indices') = Len(SITES) => Len(indices) = x - 1
    BY <2>2, <2>3
  <2> QED BY Zenon, <2>3, <2>4, <2>5, <2>6 DEF AlignedInv, Aligned
<1>9. CASE UNCHANGED indices /\ pc \in {"poll", "row"} /\ pc' \in {"poll", "row"}
  <2>1. ~Boot
    BY Zenon, <1>9 DEF Boot
  <2> QED BY <1>4, <1>9, <2>1 DEF AlignedInv, Aligned
<1>10. CASE Update /\ pc' = "row"
  <2>1. /\ Len(indices') = Len(indices) /\ pc = "row" /\ ~Boot
        /\ \A i \in 1..Len(indices) : DOMAIN indices'[i] = DOMAIN indices[i]
        /\ \A i \in 1..Len(indices) : \A k \in DOMAIN indices[i] :
             indices'[i][k].nom = indices[i][k].nom
    BY <1>10, SetLast DEF Update, Boot
  <2>2. ASSUME Aligned, NEW i \in 1..Len(indices) PROVE Covered(i, indices[i])'
    <3>1. Covered(i, indices[i])
      BY <2>1, <2>2 DEF AlignedInv
    <3>2. \A k \in DOMAIN indices[i] : Listed(SITES[i].bdd, indices[i][k].nom)
      BY <3>1 DEF Covered
    <3>3. refErr \subseteq refErr' /\ ref \subseteq ref'
      BY Zenon, <2>1, ListedGrows
    <3>4. ASSUME NEW k \in DOMAIN indices'[i] PROVE Listed(SITES[i].bdd, indices[i][k].nom)'
      <4>1. k \in DOMAIN indices[i] /\ indices'[i][k].nom = indices[i][k].nom
        BY Zenon, <2>1, <2>2, <3>4
      <4> QED BY Zenon, <3>2, <3>3, <4>1 DEF Listed
    <3> QED BY Zenon, <3>4 DEF Covered
  <2> QED BY <1>10, <2>1, <2>2 DEF AlignedInv, Aligned
<1>11. CASE UNCHANGED vars
  <2>1. /\ pc' = pc /\ x' = x /\ indices' = indices /\ indicestmp' = indicestmp
        /\ ref' = ref /\ refErr' = refErr
    BY Zenon, <1>11 DEF vars, thread, base, history
  <2>2. Covered(x, indicestmp) => Covered(x, indicestmp)'
    BY Zenon, <2>1 DEF Covered, Listed
  <2>3. AllCovered => AllCovered'
    <3>1. ASSUME NEW i PROVE Covered(i, indices[i]) => Covered(i, indices[i])'
      BY Zenon, <2>1 DEF Covered, Listed
    <3>2. Len(indices)' = Len(indices)
      BY Zenon, <2>1
    <3> QED BY Zenon, <3>1, <3>2
  <2>4. Aligned' <=> Aligned
    BY Zenon, <2>1 DEF Aligned
  <2>5. (Len(indices) = x - 1)' <=> Len(indices) = x - 1
    BY Zenon, <2>1
  <2> HIDE DEF AllCovered
  <2>6. /\ pc \in {"reg", "regrow"} /\ Len(indices) = x - 1 => AllCovered
        /\ pc \in {"poll", "row"} /\ Aligned => AllCovered
    BY Zenon DEF AlignedInv, AllCovered
  <2>7. /\ pc' \in {"reg", "regrow"} /\ (Len(indices) = x - 1)' => AllCovered'
        /\ pc' \in {"poll", "row"} /\ Aligned' => AllCovered'
    BY Zenon, <2>1, <2>3, <2>4, <2>5, <2>6
  <2>8. pc' = "regrow" => Covered(x, indicestmp)'
    BY Zenon, <2>1, <2>2 DEF AlignedInv
  <2> QED BY Zenon, <2>7, <2>8 DEF AlignedInv, AllCovered
<1>12. CASE FetchListing
  BY SMTT(30), <1>5, <1>6, <1>12 DEF FetchListing, Boot
<1>13. CASE RegisterLine
  <2>1. pc = "regrow" /\ UNCHANGED indices /\ ~Boot /\ (NextRegistration \/ pc' = "regrow")
    BY Zenon, <1>13 DEF RegisterLine, Boot
  <2> QED BY Zenon, <1>5, <1>7, <1>13, <2>1
<1>14. CASE FetchPage \/ EndPage
  BY Zenon, <1>9, <1>14 DEF FetchPage, EndPage, NextSite
<1>15. CASE ReadLine
  <2>1. CASE UNCHANGED indices
    BY <1>9, <1>15, <2>1 DEF ReadLine, NextSite
  <2>2. CASE ~UNCHANGED indices
    BY <1>10, <1>15, <2>2 DEF ReadLine, addVal, Update
  <2> QED BY <2>1, <2>2
<1> QED BY <1>1, <1>2, <1>8, <1>11, <1>12, <1>13, <1>14, <1>15 DEF Next, Crash

\* A stored value without identifier comes from a failed INSERT of the name or
\* from a list of maps that a failed site has shifted.
THEOREM NullIdTheorem == Spec => NullIdExplained
<1> DEFINE I == ProvInv /\ IdsInv /\ AlignedInv
           A == \A v \in stored' \ stored :
                  v.id = NoId => ~Aligned \/ <<SITE.bdd, ligne.nom>> \in refErr
<1>1. Init => I
  <2>1. ASSUME Init PROVE IdsInv /\ ProvInv
    BY <2>1, IdsInit, ProvInit
  <2> QED BY Zenon, <2>1 DEF Init, AlignedInv
<1>2. I /\ [Next]_vars => I'
  BY ProvStep, IdsStep, AlignedStep DEF ProvInv
<1>3. I /\ [Next]_vars => A
  <2> SUFFICES ASSUME I, [Next]_vars, NEW v \in stored' \ stored, v.id = NoId, Aligned,
                      <<SITE.bdd, ligne.nom>> \notin refErr
               PROVE  FALSE
    OBVIOUS
  <2>1. Update /\ TargetId = NoId
    BY StoredStep
  <2>2. x \in 1..Len(indices) /\ key(ligne) \in DOMAIN indices[x] /\ ligne \in Line
    BY <2>1, HeadOfPage DEF Update, Known, ProvInv, TypeOK
  <2>3. Entry.nom = ligne.nom
    BY <2>2 DEF ProvInv, MapsNamed, Named, Entry
  <2>4. Covered(x, indices[x])
    BY Zenon, <2>1, <2>2 DEF Update, AlignedInv
  <2>5. \E e \in RefOf(SITE.bdd) : e.nom = Entry.nom
    BY <2>2, <2>3, <2>4 DEF Covered, Listed, SITE, Entry, RefOf
  <2>6. \E e \in RefOf(SITE.bdd) : e.id = TargetId
    BY Zenon, <2>5 DEF TargetId, IdIn
  <2>7. PICK n \in Nat : {e.id : e \in RefOf(SITE.bdd)} = 0..n - 1
    BY Zenon DEF IdsInv, Dense
  <2>8. TargetId \in Nat
    BY <2>6, <2>7
  <2> QED BY <2>1, <2>8, SitesAssumption
<1>4. A => (\A v \in stored' \ stored :
                  v.id = NoId => ~Aligned \/ <<SITE.bdd, ligne.nom>> \in refErr)
  OBVIOUS
<1> HIDE DEF I
<1> QED BY <1>1, <1>2, <1>3, PTL DEF Spec, NullIdExplained

-----------------------------------------------------------------------------
(* The collector beside RecupLocal.                                        *)

\* A step of the two programs that leaves the tables PAYS and ref alone, or is
\* one INSERT into one of them.
LEMMA RBaseStep ==
  ASSUME [RNext]_rvars
  PROVE  \/ UNCHANGED <<paysTbl, ref>>
         \/ ref' = ref /\ \E p : paysTbl' \in PaysAfter(p)
         \/ paysTbl' = paysTbl /\ \E b, p, n : ref' \in RefAfter(b, p, n, paysTbl)
<1>1. CASE UNCHANGED rvars \/ LocalStart \/ LocalEnd \/ RegisterFail
  BY Zenon, <1>1 DEF rvars, LocalStart, LocalEnd, RegisterFail, vars, base
<1>2. CASE Boot \/ Crash \/ FetchListing \/ EndListing \/ ReadLine \/ EndPage \/ FetchPage
  BY Zenon, <1>2 DEF Boot, Crash, FetchListing, EndListing, ReadLine, EndPage, FetchPage, base
<1>3. CASE RegisterPays \/ LocalPays
  BY Zenon, <1>3 DEF RegisterPays, LocalPays
<1>4. CASE RegisterRef \/ LocalRef
  BY Zenon, <1>4 DEF RegisterRef, LocalRef
<1> QED BY Zenon, <1>1, <1>2, <1>3, <1>4 DEF RNext

\* Each INSERT of either program keeps the identifiers dense and distinct.
LEMMA RIdsStep == IdsInv /\ [RNext]_rvars => IdsInv'
<1> SUFFICES ASSUME IdsInv, [RNext]_rvars PROVE IdsInv'
  OBVIOUS
<1>1. CASE UNCHANGED <<paysTbl, ref>>
  BY <1>1 DEF IdsInv, IdsIdentify, RefOf
<1>2. CASE ref' = ref /\ \E p : paysTbl' \in PaysAfter(p)
  <2>1. /\ Dense({e.id : e \in paysTbl'})
        /\ \A e, f \in paysTbl' : e.id = f.id <=> e.nom = f.nom
    BY Zenon, <1>2, PaysStep
  <2> QED BY Zenon, <1>2, <2>1 DEF IdsInv, IdsIdentify, RefOf
<1>3. CASE paysTbl' = paysTbl /\ \E b, p, n : ref' \in RefAfter(b, p, n, paysTbl)
  <2>1. /\ \A b : Dense({e.id : e \in {f \in ref' : f.bdd = b}})
        /\ \A e, f \in ref' : e.bdd = f.bdd => (e.id = f.id <=> e.nom = f.nom)
    BY Zenon, <1>3, RefStep
  <2> QED BY Zenon, <1>3, <2>1 DEF IdsInv, IdsIdentify, RefOf
<1> QED BY Zenon, <1>1, <1>2, <1>3, RBaseStep

\* An identifier stands for one country or one name, though two programs take
\* the next identifier from the same tables.
THEOREM RIdsTheorem == RSpec => []IdsIdentify
<1>1. RInit => IdsInv
  BY IdsInit DEF RInit
<1>2. IdsInv => IdsIdentify
  BY DEF IdsInv
<1> QED BY <1>1, <1>2, RIdsStep, PTL DEF RSpec

-----------------------------------------------------------------------------

\* Between its two INSERTs, a program has the line whose country it inserted.
RTypeOK ==
  /\ pc \in {"down", "reg", "regrow", "regref", "poll", "row"}
  /\ pc # "regref" => TypeOK
  /\ pc = "regref" =>
       /\ st \in BOOLEAN /\ st /\ x \in 1..Len(SITES) /\ lignes \in Seq(Line) /\ lignes # <<>>
       /\ indicestmp \in Map /\ indices \in Seq(Map) /\ Len(indices) < x
  /\ lpc \in {"off", "pays", "ref"} /\ llignes \in Seq(Line)
  /\ lpc = "ref" => llignes # <<>>

\* Every step of the two programs keeps the shape of their state.
LEMMA RTypeStep == RTypeOK /\ [RNext]_rvars => RTypeOK'
<1> SUFFICES ASSUME RTypeOK, [RNext]_rvars PROVE RTypeOK'
  OBVIOUS
<1> USE SitesAssumption
<1> DEFINE Own == /\ lpc \in {"off", "pays", "ref"} /\ llignes \in Seq(Line)
                  /\ lpc = "ref" => llignes # <<>>
<1>1. Own'
  <2>1. CASE LocalStart
    BY <2>1, LocalAssumption DEF LocalStart
  <2>2. CASE LocalEnd
    BY SMTT(30), <2>2 DEF LocalEnd
  <2>3. CASE LocalPays
    BY Zenon, <2>3 DEF LocalPays, RTypeOK
  <2>4. CASE LocalRef
    BY SMTT(30), <2>4 DEF LocalRef, RTypeOK
  <2>5. CASE UNCHANGED local
    BY Zenon, <2>5 DEF RTypeOK, local
  <2> QED BY Zenon, <2>1, <2>2, <2>3, <2>4, <2>5
       DEF RNext, rvars, RegisterPays, RegisterRef, RegisterFail
<1> HIDE DEF Own
<1>2. CASE UNCHANGED thread
  BY Zenon, <1>1, <1>2 DEF RTypeOK, TypeOK, thread, Own
<1>3. CASE Boot \/ FetchListing \/ EndListing \/ ReadLine \/ EndPage \/ FetchPage
  <2>1. pc # "regref" /\ [Next]_vars
    BY Zenon, <1>3 DEF Boot, FetchListing, EndListing, ReadLine, EndPage, FetchPage, Next
  <2>2. TypeOK'
    BY Zenon, <2>1, TypeStep DEF RTypeOK
  <2>3. pc' \in {"down", "reg", "regrow", "poll", "row"}
    BY Zenon, <2>2 DEF TypeOK
  <2> QED BY <1>1, <2>2, <2>3 DEF RTypeOK, Own
<1>4. CASE Crash
  <2>1. TypeOK'
    <3>1. /\ Len(indices') = 0 /\ indices' = <<>>
          /\ indices' \in Seq(Map) /\ lignes' \in Seq(Line)
      BY <1>4 DEF Crash
    <3>2. st' \in BOOLEAN
      BY Zenon, <1>4 DEF Crash
    <3>3. indicestmp' \in Map /\ DOMAIN indicestmp' = {}
      BY Zenon, <1>4, EmptyMap DEF Crash
    <3> QED BY <1>4, <3>1, <3>2, <3>3 DEF TypeOK, Crash
  <2> QED BY Zenon, <1>1, <1>4, <2>1 DEF RTypeOK, Own, Crash
<1>5. CASE RegisterPays
  <2>1. /\ TypeOK /\ pc = "regrow" /\ lignes # <<>> /\ st /\ pc' = "regref"
        /\ UNCHANGED <<st, x, lignes, indicestmp, indices>>
    BY Zenon, <1>5 DEF RegisterPays, RTypeOK
  <2> QED BY Zenon, <1>1, <2>1 DEF RTypeOK, TypeOK, Own
<1>6. CASE RegisterRef
  <2>1. /\ pc = "regref" /\ pc' = "regrow" /\ UNCHANGED <<st, x, indices>>
        /\ indicestmp' = With(indicestmp, key(ligne), [nom |-> ligne.nom, last |-> ligne.val])
        /\ lignes' = Tail(lignes)
    BY Zenon, <1>6 DEF RegisterRef
  <2>2. /\ st \in BOOLEAN /\ st /\ x \in 1..Len(SITES) /\ lignes \in Seq(Line) /\ lignes # <<>>
        /\ indicestmp \in Map /\ indices \in Seq(Map) /\ Len(indices) < x
    BY Zenon, <2>1 DEF RTypeOK
  <2>3. ligne \in Line /\ Tail(lignes) \in Seq(Line)
    BY <2>2 DEF ligne
  <2>4. key(ligne) \in Keys /\ [nom |-> ligne.nom, last |-> ligne.val] \in Indice
    BY Zenon, <2>3 DEF Keys, Indice
  <2>5. indicestmp' \in Map
    BY Zenon, <2>1, <2>2, <2>4, MapPut
  <2>6. TypeOK'
    BY SMTT(30), <2>1, <2>2, <2>3, <2>5 DEF TypeOK
  <2> QED BY SMTT(30), <1>1, <2>1, <2>6 DEF RTypeOK, Own
<1>7. CASE RegisterFail
  <2>1. /\ NextRegistration /\ UNCHANGED <<st, indices>> /\ pc \in {"regrow", "regref"}
    BY Zenon, <1>7 DEF RegisterFail
  <2>2. /\ st \in BOOLEAN /\ x \in 1..Len(SITES) /\ indices \in Seq(Map) /\ Len(indices) < x
        /\ ~st => \A i \in 1..Len(indices) : DOMAIN indices[i] = {}
    BY Zenon, <2>1 DEF RTypeOK, TypeOK
  <2>3. /\ pc' \in {"reg", "poll"} /\ x' \in 1..Len(SITES)
        /\ lignes' \in Seq(Line) /\ indicestmp' \in Map /\ DOMAIN indicestmp' = {}
        /\ pc' \in {"reg", "regrow"} => x' = x + 1
    BY <2>1, <2>2, EmptyMap DEF NextRegistration
  <2>4. TypeOK'
    BY <2>1, <2>2, <2>3 DEF TypeOK
  <2> QED BY Zenon, <1>1, <2>3, <2>4 DEF RTypeOK, Own
<1> QED BY Zenon, <1>2, <1>3, <1>4, <1>5, <1>6, <1>7
     DEF RNext, rvars, vars, LocalStart, LocalPays, LocalRef, LocalEnd

\* The shape of the state holds in every reachable state of the two programs.
LEMMA RTypeCorrect == RSpec => []RTypeOK
<1>1. RInit => RTypeOK
  <2> SUFFICES ASSUME RInit PROVE RTypeOK
    OBVIOUS
  <2>1. TypeOK /\ pc = "down"
    BY Zenon, TypeInit DEF RInit, Init
  <2> QED BY <2>1 DEF RInit, RTypeOK
<1> QED BY <1>1, RTypeStep, PTL DEF RSpec

-----------------------------------------------------------------------------

\* A program that comes to its second INSERT has its country in PAYS, or an
\* INSERT INTO PAYS has failed.
RCountryInv ==
  /\ CountryKnown
  /\ pc = "regref" => pays(ligne) \in paysErr \cup {c.nom : c \in paysTbl}
  /\ lpc = "ref" => pays(Head(llignes)) \in paysErr \cup {c.nom : c \in paysTbl}

\* The index that an INSERT adds has a country that is in PAYS.
LEMMA NewRefCountry ==
  ASSUME CountryKnown, NEW b, NEW p, NEW n, paysErr = {}, p \in {c.nom : c \in paysTbl},
         ref' \in RefAfter(b, p, n, paysTbl)
  PROVE  \A e \in ref' : \E c \in paysTbl : c.id = e.pays
<1> SUFFICES ASSUME NEW e \in ref' PROVE \E c \in paysTbl : c.id = e.pays
  BY Zenon
<1>1. CASE e \in ref
  BY <1>1 DEF CountryKnown
<1>2. CASE e \notin ref
  <2> DEFINE new == [bdd |-> b, id |-> NextId({c.id : c \in RefOf(b)}), pays |-> IdIn(paysTbl, p), nom |-> n]
  <2>1. ref' = ref \cup {new}
    BY Zenon, <1>2 DEF RefAfter
  <2>2. e = new
    BY Zenon, <1>2, <2>1
  <2>3. e.pays = IdIn(paysTbl, p)
    BY Zenon, <2>2
  <2>4. \E c \in paysTbl : c.nom = p
    OBVIOUS
  <2> QED BY Zenon, <2>3, <2>4 DEF IdIn
<1> QED BY Zenon, <1>1, <1>2

\* Every step of the two programs keeps the countries of the indices in PAYS.
LEMMA RCountryStep == RCountryInv /\ [RNext]_rvars => RCountryInv'
<1> SUFFICES ASSUME RCountryInv, [RNext]_rvars PROVE RCountryInv'
  OBVIOUS
<1> DEFINE Tried(p) == p \in paysErr \cup {c.nom : c \in paysTbl}
<1>1. CASE UNCHANGED <<paysTbl, ref, paysErr>> /\ pc' # "regref"
           /\ (lpc' = "ref" => UNCHANGED <<lpc, llignes>>)
  BY Zenon, <1>1 DEF RCountryInv, CountryKnown
<1>2. CASE UNCHANGED <<thread, paysTbl, ref, paysErr>> /\ lpc' # "ref"
  BY Zenon, <1>2 DEF RCountryInv, CountryKnown, thread, ligne
<1>3. CASE UNCHANGED rvars
  <2>1. UNCHANGED <<pc, lignes, paysTbl, ref, paysErr, lpc, llignes>>
    BY Zenon, <1>3 DEF rvars, vars, thread, base, history, local
  <2> QED BY Zenon, <2>1 DEF RCountryInv, CountryKnown, ligne
<1>4. ASSUME NEW p, ref' = ref, paysTbl' \in PaysAfter(p), paysErr' = paysErr \cup PaysFailed(p)
      PROVE  CountryKnown' /\ Tried(p)' /\ \A q : Tried(q) => Tried(q)'
  <2>1. paysTbl \subseteq paysTbl'
    BY Zenon, <1>4 DEF PaysAfter
  <2>2. paysErr' = {} => paysErr = {}
    BY Zenon, <1>4
  <2>3. CountryKnown'
    BY <1>4, <2>1, <2>2 DEF CountryKnown, RCountryInv
  <2>4. p \in paysErr' \/ \E c \in paysTbl' : c.nom = p
    BY <1>4 DEF PaysFailed
  <2>5. Tried(p)'
    BY <2>4
  <2>6. \A q : Tried(q) => Tried(q)'
    BY Zenon, <1>4, <2>1
  <2> QED BY <2>3, <2>5, <2>6
<1>5. CASE RegisterPays
  <2>1. /\ ref' = ref /\ paysTbl' \in PaysAfter(pays(ligne))
        /\ paysErr' = paysErr \cup PaysFailed(pays(ligne)) /\ UNCHANGED <<lignes, lpc, llignes>>
    BY Zenon, <1>5 DEF RegisterPays, local
  <2>2. CountryKnown' /\ Tried(pays(ligne))' /\ \A q : Tried(q) => Tried(q)'
    BY Zenon, <1>4, <2>1 DEF ligne
  <2> HIDE DEF Tried
  <2>3. lpc = "ref" => Tried(pays(Head(llignes)))
    BY DEF RCountryInv, Tried
  <2>4. lpc = "ref" => Tried(pays(Head(llignes)))'
    BY Zenon, <2>1, <2>2, <2>3
  <2> QED BY Zenon, <2>1, <2>2, <2>4 DEF RCountryInv, Tried, ligne
<1>6. CASE LocalPays
  <2>1. /\ ref' = ref /\ paysTbl' \in PaysAfter(pays(Head(llignes)))
        /\ paysErr' = paysErr \cup PaysFailed(pays(Head(llignes)))
        /\ UNCHANGED <<pc, lignes, llignes>>
    BY Zenon, <1>6 DEF LocalPays, thread
  <2>2. CountryKnown' /\ Tried(pays(Head(llignes)))' /\ \A q : Tried(q) => Tried(q)'
    BY Zenon, <1>4, <2>1
  <2> HIDE DEF Tried
  <2>3. pc = "regref" => Tried(pays(ligne))
    BY DEF RCountryInv, Tried
  <2>4. pc = "regref" => Tried(pays(ligne))'
    BY Zenon, <2>1, <2>2, <2>3 DEF ligne
  <2> QED BY Zenon, <2>1, <2>2, <2>4 DEF RCountryInv, Tried, ligne
<1>7. CASE RegisterRef
  <2>1. /\ pc = "regref" /\ pc' = "regrow" /\ UNCHANGED <<paysTbl, paysErr, lpc, llignes>>
        /\ ref' \in RefAfter(SITE.bdd, pays(ligne), ligne.nom, paysTbl)
    BY Zenon, <1>7 DEF RegisterRef, local
  <2>2. paysErr = {} => \A e \in ref' : \E c \in paysTbl : c.id = e.pays
    BY Zenon, <2>1, NewRefCountry DEF RCountryInv
  <2> QED BY Zenon, <2>1, <2>2 DEF RCountryInv, CountryKnown
<1>8. CASE LocalRef
  <2>1. /\ lpc = "ref" /\ lpc' = "pays" /\ UNCHANGED <<paysTbl, paysErr, pc, lignes>>
        /\ ref' \in RefAfter(SITES[Local].bdd, pays(Head(llignes)), Head(llignes).nom, paysTbl)
    BY Zenon, <1>8 DEF LocalRef, thread, history
  <2>2. paysErr = {} => \A e \in ref' : \E c \in paysTbl : c.id = e.pays
    BY <2>1, NewRefCountry DEF RCountryInv
  <2> QED BY Zenon, <2>1, <2>2 DEF RCountryInv, CountryKnown, ligne
<1>9. CASE \/ RegisterFail
           \/ /\ Boot \/ Crash \/ FetchListing \/ EndListing \/ ReadLine \/ EndPage \/ FetchPage
              /\ UNCHANGED local
  <2>1. UNCHANGED <<paysTbl, ref, paysErr, lpc, llignes>> /\ pc' # "regref"
    <3>1. CASE RegisterFail
      BY Zenon, <3>1 DEF RegisterFail, NextRegistration, base, history, local
    <3>2. CASE Boot \/ Crash \/ FetchListing \/ EndListing
      BY Zenon, <1>9, <3>2 DEF Boot, Crash, FetchListing, EndListing, NextRegistration, base, history, local,
         RegisterFail
    <3>3. CASE ReadLine \/ EndPage \/ FetchPage
      BY Zenon, <1>9, <3>3 DEF ReadLine, EndPage, FetchPage, NextSite, base, history, local, RegisterFail
    <3> QED BY Zenon, <1>9, <3>1, <3>2, <3>3
  <2> QED BY SMTT(30), <1>1, <2>1
<1>10. CASE LocalStart \/ LocalEnd
  BY Zenon, <1>2, <1>10 DEF LocalStart, LocalEnd, vars, base, history
<1> QED BY Zenon, <1>3, <1>5, <1>6, <1>7, <1>8, <1>9, <1>10 DEF RNext, local

\* Every index has its country in PAYS unless an INSERT INTO PAYS failed, in
\* either program: each inserts the country before the index.
THEOREM RCountryTheorem == RSpec => []CountryKnown
<1>1. RInit => RCountryInv
  BY Zenon DEF RInit, Init, RCountryInv, CountryKnown
<1>2. RCountryInv => CountryKnown
  BY Zenon DEF RCountryInv
<1> QED BY <1>1, <1>2, RCountryStep, PTL DEF RSpec

-----------------------------------------------------------------------------

\* The lines of the page that were read have their last prices in memory.
PrefixFollowed ==
  pc = "row" =>
    \A i \in Passed : LastOfKey(i) => indices[x][key(page[i])].last = page[i].val

\* While a page is read: the unread lines are the end of the page, and the keys
\* of the others are in the map of this position.
PrefixInv ==
  /\ RTypeOK
  /\ pc = "row" =>
       /\ page \in Seq(Line) /\ Len(lignes) <= Len(page)
       /\ \A i \in 1..Len(lignes) : lignes[i] = page[Len(page) - Len(lignes) + i]
       /\ \A i \in Passed : x \in 1..Len(indices) /\ key(page[i]) \in DOMAIN indices[x]
  /\ PrefixFollowed

\* A line whose key is in the map has its price in memory afterwards, and the
\* prices of the other keys stay.
LEMMA ReadKnown ==
  ASSUME TypeOK, pc = "row", lignes # <<>>, Known, addVal(ligne.val)
  PROVE  /\ Len(indices') = Len(indices) /\ DOMAIN indices'[x] = DOMAIN indices[x]
         /\ x \in 1..Len(indices) /\ key(ligne) \in DOMAIN indices[x]
         /\ indices'[x][key(ligne)].last = ligne.val
         /\ \A k \in DOMAIN indices[x] : k # key(ligne) => indices'[x][k].last = indices[x][k].last
<1>1. x \in 1..Len(indices) /\ key(ligne) \in DOMAIN indices[x]
  BY DEF Known, TypeOK
<1>2. CASE Entry.last = ligne.val /\ UNCHANGED indices
  BY Zenon, <1>1, <1>2 DEF Entry
<1>3. CASE indices' = [indices EXCEPT ![x][key(ligne)].last = ligne.val]
  <2>1. /\ Len(indices') = Len(indices)
        /\ \A i \in 1..Len(indices) : DOMAIN indices'[i] = DOMAIN indices[i]
        /\ \A i \in 1..Len(indices) : \A j \in DOMAIN indices[i] :
              indices'[i][j].last = IF i = x /\ j = key(ligne) THEN ligne.val ELSE indices[i][j].last
    BY <1>3, SetLast
  <2> QED BY Zenon, <1>1, <2>1
<1> QED BY Zenon, <1>2, <1>3 DEF addVal

\* Every step of the two programs keeps the invariant of the polled page.
LEMMA PrefixStep == PrefixInv /\ [RNext]_rvars => PrefixInv'
<1> SUFFICES ASSUME PrefixInv, [RNext]_rvars PROVE PrefixInv'
  OBVIOUS
<1>0. RTypeOK /\ RTypeOK'
  BY Zenon, RTypeStep DEF PrefixInv
<1>1. CASE pc' # "row"
  BY Zenon, <1>0, <1>1 DEF PrefixInv, PrefixFollowed
<1>2. CASE UNCHANGED <<pc, x, lignes, indices, page>>
  BY Zenon, <1>0, <1>2 DEF PrefixInv, PrefixFollowed, Passed, LastOfKey
<1>3. CASE FetchPage /\ pc' = "row" /\ page' = lignes'
  <2>1. lignes' \in Seq(Line)
    BY <1>0, <1>3 DEF RTypeOK, TypeOK
  <2>2. Passed' = {}
    BY <1>3, <2>1 DEF Passed
  <2>3. \A i \in 1..Len(lignes') : lignes'[i] = page'[Len(page') - Len(lignes') + i]
    BY <1>3, <2>1
  <2> QED BY <1>0, <1>3, <2>1, <2>2, <2>3 DEF PrefixInv, PrefixFollowed
<1>4. CASE ReadLine /\ pc' = "row" /\ page' = page
  <2> DEFINE n == Len(page) - Len(lignes)
             k == key(ligne)
  <2>1. /\ pc = "row" /\ lignes # <<>> /\ Known /\ addVal(ligne.val) /\ lignes' = Tail(lignes)
        /\ x' = x
    BY Zenon, <1>4 DEF ReadLine, NextSite
  <2>2. TypeOK
    BY Zenon, <1>0, <2>1 DEF RTypeOK
  <2>3. /\ page \in Seq(Line) /\ lignes \in Seq(Line) /\ Len(lignes) <= Len(page)
        /\ \A i \in 1..Len(lignes) : lignes[i] = page[n + i]
    BY <2>1, <2>2 DEF PrefixInv, TypeOK
  <2>4. /\ Len(lignes) \in Nat \ {0} /\ Len(page) \in Nat /\ n \in Nat /\ n < Len(page)
        /\ Len(lignes') = Len(lignes) - 1
        /\ \A i \in 1..Len(lignes') : lignes'[i] = lignes[i + 1]
    BY <2>1, <2>3
  <2>5. page[n + 1] = ligne
    BY SMTT(30), <2>3, <2>4 DEF ligne
  <2>6. Passed = 1..n /\ Passed' = 1..n + 1
    BY <1>4, <2>4 DEF Passed
  <2>7. /\ Len(indices') = Len(indices) /\ DOMAIN indices'[x] = DOMAIN indices[x]
        /\ x \in 1..Len(indices) /\ k \in DOMAIN indices[x]
        /\ indices'[x][k].last = ligne.val
        /\ \A j \in DOMAIN indices[x] : j # k => indices'[x][j].last = indices[x][j].last
    BY Zenon, <2>1, <2>2, ReadKnown
  <2>8. \A i \in 1..Len(lignes') : lignes'[i] = page[Len(page) - Len(lignes') + i]
    BY <2>3, <2>4
  <2> HIDE DEF n, k
  <2>9. \A i \in 1..n + 1 : i \in 1..n \/ i = n + 1
    BY <2>4
  <2>10. \A i \in Passed' : x \in 1..Len(indices') /\ key(page[i]) \in DOMAIN indices'[x]
    <3>1. \A i \in 1..n : key(page[i]) \in DOMAIN indices[x]
      BY Zenon, <2>1, <2>6 DEF PrefixInv
    <3> QED BY Zenon, <2>5, <2>6, <2>7, <2>9, <3>1 DEF k
  <2>11. ASSUME NEW i \in 1..n + 1, \A j \in 1..n + 1 : j > i => key(page[j]) # key(page[i])
         PROVE  indices'[x][key(page[i])].last = page[i].val
    <3>1. CASE i = n + 1
      BY Zenon, <2>5, <2>7, <3>1 DEF k
    <3>2. CASE i \in 1..n
      <4>0. n \in Nat
        BY Zenon, <2>4
      <4>1. n + 1 \in 1..n + 1 /\ n + 1 > i /\ \A j \in 1..n : j \in 1..n + 1
        BY <3>2, <4>0
      <4>2. key(page[i]) # k
        BY Zenon, <2>5, <2>11, <4>1 DEF k
      <4>3. indices[x][key(page[i])].last = page[i].val
        BY Zenon, <2>1, <2>6, <2>11, <3>2, <4>1 DEF PrefixInv, PrefixFollowed, LastOfKey
      <4>4. key(page[i]) \in DOMAIN indices[x]
        BY Zenon, <2>1, <2>6, <3>2 DEF PrefixInv
      <4> QED BY Zenon, <2>7, <4>2, <4>3, <4>4
    <3> QED BY Zenon, <2>9, <3>1, <3>2
  <2>12. PrefixFollowed'
    BY Zenon, <1>4, <2>1, <2>6, <2>11 DEF PrefixFollowed, LastOfKey
  <2>13. Len(lignes') <= Len(page')
    BY SMTT(30), <1>4, <2>3, <2>4
  <2> QED BY Zenon, <1>0, <1>4, <2>1, <2>3, <2>8, <2>10, <2>12, <2>13 DEF PrefixInv
<1>5. CASE LocalStart \/ LocalPays \/ LocalRef \/ LocalEnd \/ UNCHANGED rvars
  BY Zenon, <1>2, <1>5 DEF LocalStart, LocalPays, LocalRef, LocalEnd, rvars, vars, thread, notes
<1>6. CASE RegisterPays \/ RegisterRef \/ RegisterFail \/ Boot \/ Crash \/ FetchListing \/ EndListing \/ EndPage
  BY Zenon, <1>1, <1>6 DEF RegisterPays, RegisterRef, RegisterFail, Boot, Crash, FetchListing, EndListing, EndPage,
     NextRegistration, NextSite
<1> QED BY Zenon, <1>1, <1>3, <1>4, <1>5, <1>6 DEF RNext

\* It holds in every reachable state.
LEMMA PrefixTheorem == RSpec => []PrefixInv
<1>1. RInit => PrefixInv
  <2> SUFFICES ASSUME RInit PROVE PrefixInv
    OBVIOUS
  <2>1. TypeOK /\ pc = "down"
    BY TypeInit DEF RInit, Init
  <2> QED BY <2>1 DEF RInit, RTypeOK, PrefixInv, PrefixFollowed
<1> QED BY <1>1, PrefixStep, PTL DEF RSpec

-----------------------------------------------------------------------------

\* A name that has an identifier keeps it; one that has none may get one.
LEMMA IdKept ==
  ASSUME IdsInv, IdsInv', ref \subseteq ref', NEW b, NEW n
  PROVE  \/ IdIn(RefOf(b), n)' = IdIn(RefOf(b), n)
         \/ IdIn(RefOf(b), n) = NoId /\ IdIn(RefOf(b), n)' # NoId
<1>1. CASE \E e \in RefOf(b) : e.nom = n
  <2>1. PICK e \in RefOf(b) : e.nom = n /\ e.id = IdIn(RefOf(b), n)
    BY Zenon, <1>1 DEF IdIn
  <2>2. e \in RefOf(b)'
    BY DEF RefOf
  <2>3. PICK f \in RefOf(b)' : f.nom = n /\ f.id = IdIn(RefOf(b), n)'
    BY Zenon, <2>1, <2>2 DEF IdIn
  <2>4. e \in ref' /\ f \in ref' /\ e.bdd = f.bdd /\ e.nom = f.nom
    BY <2>1, <2>2, <2>3 DEF RefOf
  <2>5. e.id = f.id
    BY <2>4 DEF IdsInv, IdsIdentify
  <2> QED BY <2>1, <2>3, <2>5
<1>2. CASE ~ \E e \in RefOf(b) : e.nom = n
  <2>1. IdIn(RefOf(b), n) = NoId
    BY Zenon, <1>2 DEF IdIn
  <2> QED BY <2>1
<1> QED BY Zenon, <1>1, <1>2

\* Rows are only added to the reference tables.
LEMMA RRefGrows ==
  ASSUME [RNext]_rvars
  PROVE  ref \subseteq ref'
BY Zenon, RBaseStep DEF RefAfter

ROriginInv ==
  /\ RTypeOK /\ IdsInv
  /\ pc \in {"reg", "regrow", "regref"} => DOMAIN origin = {}
  /\ pc \in {"poll", "row"} => \A o \in DOMAIN origin : OriginOK(o)
  /\ RepeatExplained

\* An INSERT of RecupLocal leaves the entries as they are.
LEMMA OriginKept ==
  ASSUME IdsInv, IdsInv', ref \subseteq ref', UNCHANGED <<indices, origin>>,
         NEW o \in DOMAIN origin, OriginOK(o)
  PROVE  OriginOK(o)'
<1>1. PICK f, i, k : f = origin[o].from /\ i = f.site /\ k = f.key
  OBVIOUS
<1>2. PICK b, n : b = SITES[i].bdd /\ n = indices[i][k].nom
  BY Zenon
<1>3. /\ i \in 1..Len(indices) /\ k \in DOMAIN indices[i]
      /\ \/ indices[i][k].last = f.val /\ o = Target(i, k)
         \/ o[2] = NoId /\ Target(i, k)[2] # NoId
  BY Zenon, <1>1 DEF OriginOK
<1>4. /\ Target(i, k) = <<SITES[i].tbl, IdIn(RefOf(b), n)>>
      /\ Target(i, k)' = <<SITES[i].tbl, IdIn(RefOf(b), n)'>>
  BY Zenon, <1>2 DEF Target, RefOf
<1>5. \/ IdIn(RefOf(b), n)' = IdIn(RefOf(b), n)
      \/ IdIn(RefOf(b), n) = NoId /\ IdIn(RefOf(b), n)' # NoId
  BY Zenon, IdKept
<1>6. \/ indices'[i][k].last = f.val /\ o = Target(i, k)'
      \/ o[2] = NoId /\ Target(i, k)'[2] # NoId
  <2>1. PICK u, v : u = IdIn(RefOf(b), n) /\ v = IdIn(RefOf(b), n)'
    BY Zenon
  <2>2. PICK y, z : y = Target(i, k) /\ z = Target(i, k)'
    BY Zenon
  <2>3. PICK a : y = <<a, u>> /\ z = <<a, v>>
    BY Zenon, <1>4, <2>1, <2>2
  <2>4. y[2] = u /\ z[2] = v
    BY <2>3
  <2>5. u = v \/ (u = NoId /\ v # NoId)
    BY Zenon, <1>5, <2>1
  <2>6. u = v => y = z
    BY Zenon, <2>3
  <2> QED BY Zenon, <1>3, <2>2, <2>4, <2>5, <2>6
<1>7. f = origin'[o].from /\ i \in 1..Len(indices') /\ k \in DOMAIN indices'[i]
  BY <1>1, <1>3
<1> QED BY Zenon, <1>1, <1>6, <1>7 DEF OriginOK

\* Every step of the two programs keeps the origins in agreement with the entries.
LEMMA ROriginStep == ROriginInv /\ [RNext]_rvars => ROriginInv'
<1> SUFFICES ASSUME ROriginInv, [RNext]_rvars PROVE ROriginInv'
  OBVIOUS
<1>1. RTypeOK' /\ IdsInv' /\ IdsInv /\ ref \subseteq ref'
  BY Zenon, RTypeStep, RIdsStep, RRefGrows DEF ROriginInv
<1>2. CASE Boot
  <2>1. DOMAIN origin' = {} /\ pc' = "reg"
    BY Zenon, <1>2, EmptyMap DEF Boot
  <2> QED BY <1>1, <2>1 DEF ROriginInv, RepeatExplained
<1>3. CASE UNCHANGED origin /\ pc' = "down"
  BY Zenon, <1>1, <1>3 DEF ROriginInv, RepeatExplained
<1>4. CASE UNCHANGED origin /\ pc \in {"reg", "regrow", "regref"}
  BY Zenon, <1>1, <1>4 DEF ROriginInv, RepeatExplained
<1>5. CASE /\ UNCHANGED <<origin, indices>>
           /\ \/ pc' = pc
              \/ pc \in {"poll", "row"} /\ pc' \in {"poll", "row"}
  <2>1. pc \in {"poll", "row"} => \A o \in DOMAIN origin' : OriginOK(o)'
    <3> SUFFICES ASSUME pc \in {"poll", "row"}, NEW o \in DOMAIN origin' PROVE OriginOK(o)'
      OBVIOUS
    <3>1. o \in DOMAIN origin /\ OriginOK(o)
      BY Zenon, <1>5 DEF ROriginInv
    <3> QED BY <1>1, <1>5, <3>1, OriginKept
  <2>2. RepeatExplained'
    BY Zenon, <1>5 DEF ROriginInv, RepeatExplained
  <2> QED BY Zenon, <1>1, <1>5, <2>1, <2>2 DEF ROriginInv
<1>6. CASE ReadLine /\ Known /\ addVal(ligne.val) /\ UNCHANGED <<pc, x>>
  <2>1. pc = "row" /\ pc' = "row" /\ lignes # <<>> /\ ref' = ref
    BY <1>6 DEF ReadLine
  <2>2. CASE UNCHANGED <<indices, origin>>
    BY Zenon, <1>5, <2>1, <2>2
  <2>3. CASE ~UNCHANGED <<indices, origin>>
    <3>1. /\ Entry.last # ligne.val
          /\ indices' = [indices EXCEPT ![x][key(ligne)].last = ligne.val]
          /\ \/ Insert(SITE.tbl, ligne.val)
             \/ origin' = [o \in {o \in DOMAIN origin :
                                ~(origin[o].from.site = x /\ origin[o].from.key = key(ligne))}
                           |-> origin[o]]
      BY <1>6, <2>3 DEF addVal
    <3>2. Update
      BY Zenon, <1>6, <2>1, <3>1 DEF Update
    <3>3. TypeOK /\ \A o \in DOMAIN origin : OriginOK(o) /\ ~origin[o].again
      BY <2>1 DEF ROriginInv, RepeatExplained, RTypeOK
    <3>4. \A o \in DOMAIN origin' : OriginOK(o)' /\ ~origin'[o].again
      BY <2>1, <3>1, <3>2, <3>3, UpdateStep
    <3> QED BY Zenon, <1>1, <2>1, <3>4 DEF ROriginInv, RepeatExplained
  <2> QED BY <2>2, <2>3
<1>7. CASE LocalStart \/ LocalPays \/ LocalRef \/ LocalEnd \/ UNCHANGED rvars
  <2>1. UNCHANGED <<pc, origin, indices>>
    BY Zenon, <1>7 DEF LocalStart, LocalPays, LocalRef, LocalEnd, rvars, vars, thread, history
  <2> QED BY Zenon, <1>5, <2>1
<1>8. CASE Crash \/ FetchListing \/ EndListing \/ RegisterPays \/ RegisterRef \/ RegisterFail
  BY Zenon, <1>3, <1>4, <1>8 DEF Crash, FetchListing, EndListing, RegisterPays, RegisterRef, RegisterFail, history
<1>9. CASE FetchPage \/ EndPage \/ (ReadLine /\ NextSite /\ UNCHANGED <<indices, origin>>)
  BY Zenon, <1>5, <1>9 DEF FetchPage, EndPage, ReadLine, NextSite, history, base
<1>10. ReadLine => (NextSite /\ UNCHANGED <<indices, origin>>) \/ (Known /\ addVal(ligne.val) /\ UNCHANGED <<pc, x>>)
  BY Zenon DEF ReadLine
<1> QED BY Zenon, <1>2, <1>6, <1>7, <1>8, <1>9, <1>10 DEF RNext

\* The origins agree with the entries in every reachable state.
LEMMA ROriginCorrect == RSpec => []ROriginInv
<1>1. RInit => ROriginInv
  <2> SUFFICES ASSUME RInit PROVE ROriginInv
    OBVIOUS
  <2>1. DOMAIN origin = {} /\ TypeOK /\ pc = "down" /\ IdsInv
    BY EmptyMap, TypeInit, IdsInit DEF RInit, Init
  <2> QED BY <2>1 DEF RInit, RTypeOK, ROriginInv, RepeatExplained
<1> QED BY <1>1, ROriginStep, PTL DEF RSpec

\* A value that follows an equal one of the same identifier has a reason, also
\* if RecupLocal registers its name while the collector polls.
THEOREM RRepeatTheorem == RSpec => []RepeatExplained
<1>2. ROriginInv => RepeatExplained
  BY Zenon DEF ROriginInv
<1> QED BY <1>2, ROriginCorrect, PTL

-----------------------------------------------------------------------------

RProvInv == RTypeOK /\ MapsNamed /\ LinesShown /\ Provenance

\* Rows added to the reference tables and to the history keep the provenance.
LEMMA ProvKept ==
  ASSUME Provenance, stored' = stored, ref \subseteq ref', shown \subseteq shown'
  PROVE  Provenance'
<1> SUFFICES ASSUME NEW v \in stored
             PROVE  \E s \in shown' :
               /\ s.tbl = v.tbl /\ s.val = v.val
               /\ v.id # NoId => \E e \in ref' : e.bdd = s.bdd /\ e.nom = s.nom /\ e.id = v.id
  BY Zenon DEF Provenance
<1>1. PICK s \in shown :
        /\ s.tbl = v.tbl /\ s.val = v.val
        /\ v.id # NoId => \E e \in ref : e.bdd = s.bdd /\ e.nom = s.nom /\ e.id = v.id
  BY Zenon DEF Provenance
<1> QED BY Zenon, <1>1

\* Every step of the two programs keeps the provenance of the stored values.
LEMMA RProvStep == RProvInv /\ [RNext]_rvars => RProvInv'
<1> SUFFICES ASSUME RProvInv, [RNext]_rvars PROVE RProvInv'
  OBVIOUS
<1>0. RTypeOK' /\ ref \subseteq ref'
  BY Zenon, RTypeStep, RRefGrows DEF RProvInv
<1>1. CASE UNCHANGED <<pc, x, lignes, indicestmp, indices, stored, shown>>
  <2>1. MapsNamed' /\ LinesShown'
    BY <1>1 DEF RProvInv, MapsNamed, LinesShown, SITE
  <2> QED BY Zenon, <1>0, <1>1, <2>1, ProvKept DEF RProvInv
<1>2. CASE Boot \/ FetchListing \/ EndListing \/ ReadLine \/ EndPage \/ FetchPage
  <2>1. pc # "regref" /\ [Next]_vars
    BY Zenon, <1>2 DEF Boot, FetchListing, EndListing, ReadLine, EndPage, FetchPage, Next
  <2>2. ProvInv
    BY Zenon, <2>1 DEF RProvInv, RTypeOK, ProvInv
  <2> QED BY <1>0, <2>1, <2>2, ProvStep DEF RProvInv, ProvInv
<1>3. CASE Crash
  <2>1. pc' = "down" /\ indices' = <<>> /\ indicestmp' = Empty /\ UNCHANGED <<stored, shown>>
    BY Zenon, <1>3 DEF Crash, base, history
  <2>2. MapsNamed'
    BY SMTT(30), <2>1, EmptyMap DEF MapsNamed, Named
  <2> QED BY Zenon, <1>0, <2>1, <2>2, ProvKept DEF RProvInv, LinesShown
<1>4. CASE RegisterFail
  <2>1. pc' # "row" /\ indicestmp' = Empty /\ UNCHANGED <<indices, stored, shown>>
    BY Zenon, <1>4 DEF RegisterFail, NextRegistration, base, history
  <2>2. MapsNamed'
    BY SMTT(30), <2>1, EmptyMap DEF RProvInv, MapsNamed, Named
  <2> QED BY Zenon, <1>0, <2>1, <2>2, ProvKept DEF RProvInv, LinesShown
<1>5. CASE RegisterPays
  <2>1. pc' # "row" /\ UNCHANGED <<indicestmp, indices, stored, shown>>
    BY Zenon, <1>5 DEF RegisterPays
  <2> QED BY <1>0, <2>1, ProvKept DEF RProvInv, LinesShown, MapsNamed
<1>6. CASE RegisterRef
  <2>1. /\ pc = "regref" /\ pc' # "row" /\ UNCHANGED <<indices, stored, shown>>
        /\ indicestmp' = With(indicestmp, key(ligne), [nom |-> ligne.nom, last |-> ligne.val])
    BY Zenon, <1>6 DEF RegisterRef
  <2>2. ligne \in Line
    BY <2>1 DEF RProvInv, RTypeOK, ligne
  <2>3. ASSUME NEW k \in DOMAIN indicestmp', NEW r \in Line, key(r) = k
        PROVE  indicestmp'[k].nom = r.nom
    <3>1. CASE k = key(ligne)
      <4>1. r.nom = ligne.nom
        BY Zenon, <2>2, <2>3, <3>1, KeysAssumption
      <4>2. indicestmp'[k] = [nom |-> ligne.nom, last |-> ligne.val]
        BY Zenon, <2>1, <3>1 DEF With
      <4> QED BY <4>1, <4>2
    <3>2. CASE k # key(ligne)
      <4>1. k \in DOMAIN indicestmp /\ indicestmp'[k] = indicestmp[k]
        BY Zenon, <2>1, <2>3, <3>2 DEF With
      <4> QED BY Zenon, <2>3, <4>1 DEF RProvInv, MapsNamed, Named
    <3> QED BY Zenon, <3>1, <3>2
  <2>4. MapsNamed'
    BY <2>1, <2>3 DEF RProvInv, MapsNamed, Named
  <2> QED BY Zenon, <1>0, <2>1, <2>4, ProvKept DEF RProvInv, LinesShown
<1>7. CASE LocalStart \/ LocalPays \/ LocalRef \/ LocalEnd \/ UNCHANGED rvars
  <2>1. UNCHANGED <<pc, x, lignes, indicestmp, indices, stored, shown>>
    BY Zenon, <1>7 DEF LocalStart, LocalPays, LocalRef, LocalEnd, rvars, vars, thread, base, history
  <2> QED BY SMTT(30), <1>1, <2>1
<1> QED BY Zenon, <1>2, <1>3, <1>4, <1>5, <1>6, <1>7 DEF RNext

\* The invariant of the provenance holds in every reachable state.
LEMMA RProvCorrect == RSpec => []RProvInv
<1>1. RInit => RProvInv
  <2> SUFFICES ASSUME RInit PROVE RProvInv
    OBVIOUS
  <2>1. ProvInv /\ TypeOK /\ pc = "down"
    BY TypeInit, ProvInit DEF RInit, Init
  <2> QED BY <2>1 DEF RInit, RTypeOK, RProvInv, ProvInv
<1> QED BY <1>1, RProvStep, PTL DEF RSpec

\* Every stored value was shown under the name its identifier stands for, with
\* RecupLocal beside the collector too.
THEOREM RProvenanceTheorem == RSpec => []Provenance
<1>1. RProvInv => Provenance
  BY DEF RProvInv
<1> QED BY <1>1, RProvCorrect, PTL

-----------------------------------------------------------------------------
(* The rows of a page.                                                     *)

\* The price of the entry of key k of site s is in the table.
Saved(s, k) ==
  \E v \in stored :
    /\ v.tbl = SITES[s].tbl /\ v.val = indices[s][k].last
    /\ v.id = NoId \/ \E f \in RefOf(SITES[s].bdd) : f.nom = indices[s][k].nom /\ f.id = v.id

\* An entry has its price in the table, or the history knows why not.
SavedInv ==
  /\ \A k \in DOMAIN indicestmp : <<Len(indices) + 1, k>> \in unsaved
  /\ \A s \in 1..Len(indices) : \A k \in DOMAIN indices[s] : <<s, k>> \in unsaved \/ Saved(s, k)

\* Rows are only added, so a price that is in the table stays there.
LEMMA SavedKept ==
  ASSUME stored \subseteq stored', ref \subseteq ref', NEW s, NEW k,
         indices'[s][k].last = indices[s][k].last, indices'[s][k].nom = indices[s][k].nom,
         Saved(s, k)
  PROVE  Saved(s, k)'
<1>1. RefOf(SITES[s].bdd) \subseteq RefOf(SITES[s].bdd)'
  BY DEF RefOf
<1> QED BY Zenon, <1>1 DEF Saved

\* A line that was read: its row is there, or its INSERT failed.
LEMMA SavedRead ==
  ASSUME TypeOK, pc = "row", lignes # <<>>, Known, addVal(ligne.val), Note, SavedInv,
         UNCHANGED <<indicestmp, ref>>
  PROVE  SavedInv'
<1>1. CASE UNCHANGED <<indices, stored, origin>>
  <2>1. unsaved' = unsaved
    BY <1>1 DEF Note
  <2>2. ASSUME NEW s \in 1..Len(indices), NEW j \in DOMAIN indices[s]
        PROVE  <<s, j>> \in unsaved' \/ Saved(s, j)'
    BY Zenon, <1>1, <2>1, SavedKept DEF SavedInv
  <2> QED BY Zenon, <1>1, <2>1, <2>2 DEF SavedInv
<1>2. CASE ~UNCHANGED <<indices, stored, origin>>
  <2> DEFINE k == key(ligne)
             e == <<x, k>>
  <2>1. /\ Entry.last # ligne.val
        /\ indices' = [indices EXCEPT ![x][key(ligne)].last = ligne.val]
        /\ \/ Insert(SITE.tbl, ligne.val)
           \/ /\ stored' = stored
              /\ origin' = [o \in {o \in DOMAIN origin :
                                   ~(origin[o].from.site = x /\ origin[o].from.key = k)}
                            |-> origin[o]]
    BY Zenon, <1>2 DEF addVal
  <2>2. /\ Len(indices') = Len(indices)
        /\ \A i \in 1..Len(indices) : DOMAIN indices'[i] = DOMAIN indices[i]
        /\ \A i \in 1..Len(indices) : \A j \in DOMAIN indices[i] :
              /\ indices'[i][j].nom = indices[i][j].nom
              /\ indices'[i][j].last = IF i = x /\ j = k THEN ligne.val ELSE indices[i][j].last
    BY <2>1, SetLast
  <2>3. x \in 1..Len(indices) /\ k \in DOMAIN indices[x]
    BY DEF Known, TypeOK
  <2>4. indices' # indices
    <3>1. indices'[x][k].last = ligne.val
      BY Zenon, <2>2, <2>3
    <3> QED BY Zenon, <2>1, <3>1 DEF Entry
  <2>5. stored \subseteq stored'
    BY <2>1 DEF Insert
  <2>6. ASSUME NEW s, s = x, NEW j, j = k PROVE <<s, j>> \in unsaved' \/ Saved(s, j)'
    <3>1. CASE Insert(SITE.tbl, ligne.val)
      <4>1. [tbl |-> SITE.tbl, id |-> TargetId, val |-> ligne.val] \in stored'
        BY <3>1 DEF Insert
      <4>2. PICK v \in stored' : v.tbl = SITE.tbl /\ v.id = TargetId /\ v.val = ligne.val
        BY <4>1
      <4>3. TargetId = NoId \/ \E f \in RefOf(SITE.bdd) : f.nom = Entry.nom /\ f.id = TargetId
        BY Zenon DEF TargetId, IdIn
      <4>4. indices'[s][j].last = ligne.val /\ indices'[s][j].nom = Entry.nom
        BY Zenon, <2>2, <2>3, <2>6 DEF Entry
      <4>5. RefOf(SITES[s].bdd)' = RefOf(SITE.bdd) /\ SITES[s] = SITE
        BY Zenon, <2>6 DEF RefOf, SITE
      <4> QED BY Zenon, <4>2, <4>3, <4>4, <4>5 DEF Saved
    <3>2. CASE origin' = [o \in {o \in DOMAIN origin :
                                   ~(origin[o].from.site = x /\ origin[o].from.key = k)}
                            |-> origin[o]]
      <4>1. ASSUME NEW o \in DOMAIN origin' PROVE <<origin'[o].from.site, origin'[o].from.key>> # e
        BY <3>2
      <4> QED BY <2>4, <2>6, <4>1 DEF Note
    <3> QED BY Zenon, <2>1, <3>1, <3>2
  <2>7. \A d : d \in unsaved /\ d # e => d \in unsaved'
    BY DEF Note
  <2> HIDE DEF k
  <2>8. ASSUME NEW s \in 1..Len(indices), NEW j \in DOMAIN indices[s]
        PROVE  <<s, j>> \in unsaved' \/ Saved(s, j)'
    <3>1. CASE s = x /\ j = k
      BY Zenon, <2>6, <3>1
    <3>2. CASE ~(s = x /\ j = k)
      <4>1. <<s, j>> # e
        BY <3>2
      <4>2. <<s, j>> \in unsaved \/ Saved(s, j)
        BY Zenon DEF SavedInv
      <4>3. indices'[s][j].last = indices[s][j].last /\ indices'[s][j].nom = indices[s][j].nom
        BY Zenon, <2>2, <3>2
      <4> QED BY Zenon, <2>5, <2>7, <4>1, <4>2, <4>3, SavedKept
    <3> QED BY Zenon, <3>1, <3>2
  <2>9. ASSUME NEW j \in DOMAIN indicestmp PROVE <<Len(indices) + 1, j>> \in unsaved'
    <3>1. Len(indices) + 1 # x
      BY <2>3 DEF TypeOK
    <3>2. <<Len(indices) + 1, j>> # e
      BY <3>1
    <3> QED BY Zenon, <2>7, <3>2 DEF SavedInv
  <2> QED BY Zenon, <2>2, <2>8, <2>9 DEF SavedInv
<1> QED BY Zenon, <1>1, <1>2

\* Every step of the two programs keeps the prices in the table.
LEMMA SavedStep == RTypeOK /\ SavedInv /\ [RNext]_rvars => SavedInv'
<1> SUFFICES ASSUME RTypeOK, SavedInv, [RNext]_rvars PROVE SavedInv'
  OBVIOUS
<1>0. ref \subseteq ref'
  BY Zenon, RRefGrows
<1>1. CASE UNCHANGED <<indices, stored, unsaved>> /\ (indicestmp' = indicestmp \/ indicestmp' = Empty)
  <2>1. ASSUME NEW s \in 1..Len(indices), NEW k \in DOMAIN indices[s]
        PROVE  <<s, k>> \in unsaved' \/ Saved(s, k)'
    BY Zenon, <1>0, <1>1, SavedKept DEF SavedInv
  <2>2. \A k \in DOMAIN indicestmp' : k \in DOMAIN indicestmp
    BY Zenon, <1>1, EmptyMap
  <2> QED BY Zenon, <1>1, <2>1, <2>2 DEF SavedInv
<1>2. CASE Boot \/ Crash
  <2>1. DOMAIN indicestmp' = {} /\ indices' = <<>>
    BY Zenon, <1>2, EmptyMap DEF Boot, Crash, RTypeOK, TypeOK
  <2> QED BY <2>1 DEF SavedInv
<1>3. CASE RegisterRef
  <2>1. /\ indicestmp' = With(indicestmp, key(ligne), [nom |-> ligne.nom, last |-> ligne.val])
        /\ unsaved' = unsaved \cup {<<Len(indices) + 1, key(ligne)>>}
        /\ UNCHANGED <<indices, stored>>
    BY Zenon, <1>3 DEF RegisterRef
  <2>2. DOMAIN indicestmp' = DOMAIN indicestmp \cup {key(ligne)}
    BY Zenon, <2>1 DEF With
  <2>3. ASSUME NEW s \in 1..Len(indices), NEW k \in DOMAIN indices[s]
        PROVE  <<s, k>> \in unsaved' \/ Saved(s, k)'
    BY Zenon, <1>0, <2>1, SavedKept DEF SavedInv
  <2> QED BY Zenon, <2>1, <2>2, <2>3 DEF SavedInv
<1>4. CASE EndListing /\ UNCHANGED unsaved
  <2>1. indices' = Append(indices, indicestmp) /\ DOMAIN indicestmp' = {} /\ stored' = stored
    BY Zenon, <1>4, EmptyMap DEF EndListing, NextRegistration, base
  <2>2. indices \in Seq(Map)
    BY Zenon, <1>4 DEF EndListing, RTypeOK, TypeOK
  <2>3. /\ Len(indices) \in Nat /\ Len(indices') = Len(indices) + 1
        /\ \A s \in 1..Len(indices) : indices'[s] = indices[s]
        /\ indices'[Len(indices) + 1] = indicestmp
    BY <2>1, <2>2
  <2>4. \A s \in 1..Len(indices') : s \in 1..Len(indices) \/ s = Len(indices) + 1
    BY <2>3
  <2>5. ASSUME NEW s \in 1..Len(indices), NEW k \in DOMAIN indices'[s]
        PROVE  <<s, k>> \in unsaved' \/ Saved(s, k)'
    BY Zenon, <1>0, <1>4, <2>1, <2>3, SavedKept DEF SavedInv
  <2> QED BY Zenon, <1>4, <2>1, <2>3, <2>4, <2>5 DEF SavedInv
<1>5. CASE ReadLine /\ Note
  <2>1. CASE NextSite /\ UNCHANGED <<indices, stored, origin>>
    <3>1. unsaved' = unsaved /\ indicestmp' = indicestmp
      BY <1>5, <2>1 DEF Note, ReadLine
    <3> QED BY Zenon, <1>1, <2>1, <3>1
  <2>2. CASE Known /\ addVal(ligne.val)
    BY Zenon, <1>5, <2>2, SavedRead DEF ReadLine, RTypeOK
  <2> QED BY Zenon, <1>5, <2>1, <2>2 DEF ReadLine
<1>6. CASE UNCHANGED rvars \/ LocalStart \/ LocalPays \/ LocalRef \/ LocalEnd
  BY Zenon, <1>1, <1>6 DEF rvars, LocalStart, LocalPays, LocalRef, LocalEnd, vars, thread, base, notes
<1>7. CASE RegisterPays \/ RegisterFail
  BY Zenon, <1>1, <1>7 DEF RegisterPays, RegisterFail, NextRegistration, base, notes
<1>8. CASE (FetchListing \/ EndPage \/ FetchPage) /\ UNCHANGED unsaved
  BY Zenon, <1>1, <1>8 DEF FetchListing, EndPage, FetchPage, NextRegistration, base
<1> QED BY Zenon, <1>2, <1>3, <1>4, <1>5, <1>6, <1>7, <1>8 DEF RNext, notes

\* The lines above the one where a page is left are in the table, at the prices
\* that the page shows, whatever ended it and whichever program registered them.
THEOREM StoredTheorem == RSpec => PageStored
<1> DEFINE e(i) == <<x, key(page[i])>>
           o(i) == <<SITE.tbl, IdIn(RefOf(SITE.bdd), page[i].nom)>>
           Row(i) == \E v \in stored :
                       /\ v.tbl = SITE.tbl /\ v.val = page[i].val
                       /\ v.id = NoId \/ \E f \in RefOf(SITE.bdd) : f.nom = page[i].nom /\ f.id = v.id
           Right(i) ==
             /\ e(i) \notin unsaved => Row(i)
             /\ o(i) \in DOMAIN origin /\ <<origin[o(i)].from.site, origin[o(i)].from.key>> = e(i)
                  => origin[o(i)].from.val = page[i].val
           I == PrefixInv /\ ROriginInv /\ RProvInv /\ SavedInv
<1>1. ASSUME I, pc = "row", NEW i \in Passed, LastOfKey(i) PROVE Right(i)
  <2>1. /\ x \in 1..Len(indices) /\ key(page[i]) \in DOMAIN indices[x]
        /\ indices[x][key(page[i])].last = page[i].val
    BY Zenon, <1>1 DEF PrefixInv, PrefixFollowed
  <2>2. page[i] \in Line
    <3>1. page \in Seq(Line) /\ lignes \in Seq(Line)
      BY Zenon, <1>1 DEF PrefixInv, RTypeOK, TypeOK
    <3> QED BY <3>1 DEF Passed
  <2>3. indices[x][key(page[i])].nom = page[i].nom
    BY Zenon, <1>1, <2>1, <2>2 DEF RProvInv, MapsNamed, Named
  <2>4. e(i) \notin unsaved => Row(i)
    <3>1. e(i) \notin unsaved => Saved(x, key(page[i]))
      BY Zenon, <1>1, <2>1 DEF SavedInv
    <3>2. Saved(x, key(page[i])) => Row(i)
      BY Zenon, <2>1, <2>3 DEF Saved, SITE
    <3> QED BY Zenon, <3>1, <3>2
  <2>5. o(i) = Target(x, key(page[i]))
    BY Zenon, <2>3 DEF Target, SITE
  <2>6. ASSUME o(i) \in DOMAIN origin, <<origin[o(i)].from.site, origin[o(i)].from.key>> = e(i)
        PROVE  origin[o(i)].from.val = page[i].val
    <3>1. PICK t, f, k : t = o(i) /\ f = origin[t].from /\ k = key(page[i])
      BY Zenon
    <3>2. <<f.site, f.key>> = <<x, k>>
      BY Zenon, <2>6, <3>1
    <3>3. f.site = x /\ f.key = k
      BY <3>2
    <3>4. OriginOK(t)
      BY Zenon, <1>1, <2>6, <3>1 DEF ROriginInv
    <3>5. \/ indices[x][k].last = f.val
          \/ t[2] = NoId /\ Target(x, k)[2] # NoId
      BY Zenon, <3>1, <3>3, <3>4 DEF OriginOK
    <3> QED BY Zenon, <2>1, <2>5, <3>1, <3>5
  <2> QED BY Zenon, <2>4, <2>6
<1>2. I /\ [RNext]_rvars =>
        [pc = "row" /\ pc' # "row" => \A i \in Passed : LastOfKey(i) => Right(i)]_rvars
  <2> HIDE DEF I, Right
  <2> QED BY Zenon, <1>1
<1>3. RInit => SavedInv
  <2> SUFFICES ASSUME RInit PROVE SavedInv
    OBVIOUS
  <2>1. DOMAIN indicestmp = {} /\ indices = <<>>
    BY Zenon, EmptyMap DEF RInit, Init
  <2> QED BY <2>1 DEF SavedInv
<1>4. RSpec => []SavedInv
  BY <1>3, SavedStep, RTypeCorrect, PTL DEF RSpec
<1> QED BY <1>2, <1>4, PrefixTheorem, ROriginCorrect, RProvCorrect, PTL DEF RSpec, PageStored

=============================================================================
