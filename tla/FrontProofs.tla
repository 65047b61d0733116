---------------------------- MODULE FrontProofs ----------------------------
(***************************************************************************)
(* Proofs about Front.tla: the interval, the answers in flight, the        *)
(* selection, the values of the chart; and about Totals.tla, at the end.   *)
(***************************************************************************)
EXTENDS Totals, SequenceTheorems, WellFoundedInduction, TLAPS

Kinds == {"list", "total", "vals", "new"}

\* The requests in flight are a sequence of records; what their answers and
\* dates are made of does not matter here.
Requests(D, A) ==
  [kind : Kinds, id : Indices \cup {NoIndice}, time : {"none", "AllTime", "Today"},
   date : D, done : BOOLEAN, ans : A, out : A]

\* What stays of a sequence when an element is removed.
LEMMA Removed ==
  ASSUME NEW S, NEW s \in Seq(S), NEW k \in 1..Len(s)
  PROVE  /\ RemoveAt(s, k) \in Seq(S) /\ Len(RemoveAt(s, k)) = Len(s) - 1
         /\ \A i \in 1..Len(s) - 1 : RemoveAt(s, k)[i] = IF i < k THEN s[i] ELSE s[i + 1]
<1> DEFINE p == SubSeq(s, 1, k - 1)
           q == SubSeq(s, k + 1, Len(s))
<1>0. Len(s) \in Nat /\ k \in Nat
  OBVIOUS
<1>1. p \in Seq(S) /\ Len(p) = k - 1 /\ \A i \in 1..k - 1 : p[i] = s[i]
  OBVIOUS
<1>2. q \in Seq(S) /\ Len(q) = Len(s) - k /\ \A i \in 1..Len(s) - k : q[i] = s[k + i]
  OBVIOUS
<1>3. RemoveAt(s, k) = p \o q
  BY DEF RemoveAt
<1> HIDE DEF p, q
<1>4. /\ p \o q \in Seq(S) /\ Len(p \o q) = Len(p) + Len(q)
      /\ \A i \in 1..Len(p) + Len(q) : (p \o q)[i] = IF i <= Len(p) THEN p[i] ELSE q[i - Len(p)]
  BY Zenon, <1>1, <1>2, ConcatProperties
<1>5. Len(p) + Len(q) = Len(s) - 1
  BY <1>0, <1>1, <1>2
<1>6. ASSUME NEW i \in 1..Len(s) - 1
      PROVE  (p \o q)[i] = IF i < k THEN s[i] ELSE s[i + 1]
  <2>1. (p \o q)[i] = IF i <= k - 1 THEN p[i] ELSE q[i - (k - 1)]
    BY Zenon, <1>1, <1>4, <1>5
  <2>2. CASE i < k
    BY <1>0, <1>1, <2>1, <2>2
  <2>3. CASE ~(i < k)
    <3> DEFINE j == i - (k - 1)
    <3>1. j \in 1..Len(s) - k /\ k + j = i + 1 /\ ~(i <= k - 1)
      BY <1>0, <2>3
    <3> QED BY <1>2, <2>1, <2>3, <3>1
  <2> QED BY Zenon, <2>2, <2>3
<1> QED BY <1>3, <1>4, <1>5, <1>6

-----------------------------------------------------------------------------
(* Which requests are in a sequence, and which one of a kind is the last.  *)

Has(s, K) == \E k \in DOMAIN s : s[k].kind \in K

LastIs(s, kind, id, time) ==
  \E k \in DOMAIN s :
    /\ s[k].kind = kind /\ s[k].id = id /\ s[k].time = time
    /\ \A j \in DOMAIN s : j > k => s[j].kind # kind

SameRequests(s, t) ==
  /\ \A K : Has(t, K) = Has(s, K)
  /\ \A kind, id, time : LastIs(t, kind, id, time) <=> LastIs(s, kind, id, time)

Without(s, k, t) ==
  /\ \A K : Has(t, K) => Has(s, K)
  /\ \A K : s[k].kind \notin K => Has(t, K) = Has(s, K)
  /\ \A kind, id, time : s[k].kind # kind /\ LastIs(s, kind, id, time)
       => LastIs(t, kind, id, time)
  /\ \A id, time :
       LastIs(s, s[k].kind, id, time) /\ (\A j \in 1..k - 1 : s[j].kind # s[k].kind)
       => \/ LastIs(t, s[k].kind, id, time)
          \/ ~Has(t, {s[k].kind}) /\ id = s[k].id /\ time = s[k].time

With(s, kind, id, time, t) ==
  /\ \A K : Has(t, K) <=> Has(s, K) \/ kind \in K
  /\ \A c, i, h : kind # c /\ LastIs(s, c, i, h) => LastIs(t, c, i, h)
  /\ LastIs(t, kind, id, time)

\* The elements of t are those of s and r.
Within(s, r, t) == \A i \in DOMAIN t : t[i] = r \/ \E j \in DOMAIN s : t[i] = s[j]

\* The network once the k-th request is answered.
Marked(s, k, x, o) == [s EXCEPT ![k].done = TRUE, ![k].ans = x, ![k].out = o]

\* An answer changes neither the requests nor their order.
LEMMA Answered ==
  ASSUME NEW D, NEW A, NEW s \in Seq(Requests(D, A)), NEW k \in DOMAIN s, NEW x, NEW o, NEW t,
         t = Marked(s, k, x, o)
  PROVE  /\ t \in Seq(Requests(D, A \cup {x, o})) /\ SameRequests(s, t)
         /\ Within(s, t[k], t) /\ t[k].kind = s[k].kind /\ t[k].ans = x /\ t[k].out = o
<1>1. DOMAIN t = 1..Len(s) /\ DOMAIN s = 1..Len(s) /\ Len(s) \in Nat
  BY DEF Marked
<1>2. t[k] = [[[s[k] EXCEPT !.done = TRUE] EXCEPT !.ans = x] EXCEPT !.out = o]
  BY DEF Marked
<1>3. s[k] \in Requests(D, A)
  BY <1>1, ElementOfSeq
<1>4. /\ t[k] \in Requests(D, A \cup {x, o}) /\ t[k].ans = x /\ t[k].out = o
      /\ t[k].kind = s[k].kind /\ t[k].id = s[k].id /\ t[k].time = s[k].time
  BY Zenon, <1>2, <1>3 DEF Requests
<1>5. \A i \in DOMAIN t : i # k => t[i] = s[i]
  BY DEF Marked
<1>6. \A i \in 1..Len(s) : s[i] \in Requests(D, A \cup {x, o})
  <2> SUFFICES ASSUME NEW i \in 1..Len(s) PROVE s[i] \in Requests(D, A \cup {x, o})
    BY Zenon
  <2>1. s[i] \in Requests(D, A)
    BY <1>1, ElementOfSeq
  <2> QED BY <2>1 DEF Requests
<1>7. t \in Seq(Requests(D, A \cup {x, o}))
  <2>1. \A i \in 1..Len(s) : t[i] \in Requests(D, A \cup {x, o})
    BY Zenon, <1>1, <1>4, <1>5, <1>6
  <2>2. t \in [1..Len(s) -> Requests(D, A \cup {x, o})]
    BY Zenon, <1>1, <2>1 DEF Marked
  <2> DEFINE R == Requests(D, A \cup {x, o})
  <2>3. t \in UNION {[1..n -> R] : n \in Nat}
    BY <1>1, <2>2, Zenon
  <2> QED BY <2>3, SeqDef, Zenon
<1>8. \A i \in DOMAIN s : t[i].kind = s[i].kind /\ t[i].id = s[i].id /\ t[i].time = s[i].time
  BY <1>1, <1>4, <1>5
<1>9. \A K : Has(t, K) = Has(s, K)
  BY Zenon, <1>1, <1>8 DEF Has
<1>10. \A kind, id, time : LastIs(t, kind, id, time) <=> LastIs(s, kind, id, time)
  <2>1. DOMAIN t = DOMAIN s
    BY <1>1
  <2>2. ASSUME NEW kind, NEW id, NEW time, LastIs(t, kind, id, time)
        PROVE  LastIs(s, kind, id, time)
    <3>1. PICK k2 \in DOMAIN t :
            /\ t[k2].kind = kind /\ t[k2].id = id /\ t[k2].time = time
            /\ \A j \in DOMAIN t : j > k2 => t[j].kind # kind
      BY <2>2, Zenon DEF LastIs
    <3>2. \A j \in DOMAIN s : j > k2 => s[j].kind # kind
      BY <1>8, <2>1, <3>1, Zenon
    <3> QED BY <1>8, <2>1, <3>1, <3>2, Zenon DEF LastIs
  <2>3. ASSUME NEW kind, NEW id, NEW time, LastIs(s, kind, id, time)
        PROVE  LastIs(t, kind, id, time)
    BY <1>8, <2>1, <2>3 DEF LastIs
  <2> QED BY <2>2, <2>3, Zenon
<1>11. Within(s, t[k], t)
  BY <1>1, <1>5 DEF Within
<1> QED BY <1>4, <1>7, <1>9, <1>10, <1>11 DEF SameRequests

\* An element is taken out.
LEMMA Taken ==
  ASSUME NEW S, NEW s \in Seq(S), NEW k \in 1..Len(s), NEW t, t = RemoveAt(s, k)
  PROVE  t \in Seq(S) /\ Without(s, k, t) /\ Within(s, s[k], t)
<1>1. /\ t \in Seq(S) /\ Len(t) = Len(s) - 1
      /\ \A i \in 1..Len(s) - 1 : t[i] = IF i < k THEN s[i] ELSE s[i + 1]
  BY Zenon, Removed
<1>2. DOMAIN s = 1..Len(s) /\ DOMAIN t = 1..Len(s) - 1 /\ Len(s) \in Nat /\ k \in Nat
  BY <1>1
<1> DEFINE Old(i) == IF i < k THEN i ELSE i + 1
           New(j) == IF j < k THEN j ELSE j - 1
<1>3. \A i \in DOMAIN t : Old(i) \in DOMAIN s /\ Old(i) # k /\ t[i] = s[Old(i)] /\ New(Old(i)) = i
  BY <1>1, <1>2
<1>4. \A j \in DOMAIN s : j # k => New(j) \in DOMAIN t /\ Old(New(j)) = j /\ t[New(j)] = s[j]
  BY <1>1, <1>2
<1>5. \A i, j \in DOMAIN t : j > i => Old(j) > Old(i)
  BY <1>2
<1>6. \A i, j \in DOMAIN t : j > i <=> Old(j) > Old(i)
  BY <1>2
<1> HIDE DEF Old, New
<1>7. \A K : Has(t, K) => Has(s, K)
  BY <1>3 DEF Has
<1>8. \A K : s[k].kind \notin K => Has(t, K) = Has(s, K)
  <2> SUFFICES ASSUME NEW K, s[k].kind \notin K, Has(s, K) PROVE Has(t, K)
    BY <1>7 DEF Has
  <2> QED BY <1>4 DEF Has
<1>9. ASSUME NEW kind, NEW id, NEW time, NEW m \in DOMAIN s, m # k,
             s[m].kind = kind, s[m].id = id, s[m].time = time,
             \A j \in DOMAIN s : j > m => s[j].kind # kind
      PROVE  LastIs(t, kind, id, time)
  <2>1. New(m) \in DOMAIN t /\ t[New(m)] = s[m] /\ Old(New(m)) = m
    BY <1>4, <1>9
  <2>2. \A j \in DOMAIN t : j > New(m) => t[j].kind # kind
    <3> SUFFICES ASSUME NEW j \in DOMAIN t, j > New(m) PROVE t[j].kind # kind
      OBVIOUS
    <3>1. Old(j) > m /\ Old(j) \in DOMAIN s /\ t[j] = s[Old(j)]
      BY <1>3, <1>6, <2>1
    <3> QED BY <1>9, <3>1
  <2> QED BY <1>9, <2>1, <2>2 DEF LastIs
<1>10. \A kind, id, time : s[k].kind # kind /\ LastIs(s, kind, id, time) => LastIs(t, kind, id, time)
  BY <1>9 DEF LastIs
<1>11. ASSUME NEW id, NEW time, LastIs(s, s[k].kind, id, time),
              \A j \in 1..k - 1 : s[j].kind # s[k].kind, ~LastIs(t, s[k].kind, id, time)
       PROVE  ~Has(t, {s[k].kind}) /\ id = s[k].id /\ time = s[k].time
  <2>1. /\ id = s[k].id /\ time = s[k].time
        /\ \A j \in DOMAIN s : j > k => s[j].kind # s[k].kind
    <3>1. PICK m \in DOMAIN s :
            /\ s[m].kind = s[k].kind /\ s[m].id = id /\ s[m].time = time
            /\ \A j \in DOMAIN s : j > m => s[j].kind # s[k].kind
      BY <1>11 DEF LastIs
    <3>2. m = k
      BY <1>9, <1>11, <3>1
    <3> QED BY Zenon, <3>1, <3>2
  <2>2. \A j \in DOMAIN s : j # k => s[j].kind # s[k].kind
    BY <1>2, <1>11, <2>1
  <2> QED BY <1>3, <2>1, <2>2 DEF Has
<1>12. \A i \in DOMAIN t : \E j \in DOMAIN s : t[i] = s[j]
  BY <1>3
<1>13. Without(s, k, t)
  BY Zenon, <1>7, <1>8, <1>10, <1>11 DEF Without
<1> QED BY <1>1, <1>12, <1>13 DEF Within

\* A request is sent.
LEMMA Sent ==
  ASSUME NEW S, NEW s \in Seq(S), NEW r \in S, NEW t, t = Append(s, r)
  PROVE  t \in Seq(S) /\ With(s, r.kind, r.id, r.time, t) /\ Within(s, r, t)
<1>1. /\ t \in Seq(S) /\ Len(t) = Len(s) + 1 /\ Len(s) \in Nat
      /\ \A i \in 1..Len(s) : t[i] = s[i]
      /\ t[Len(s) + 1] = r
  OBVIOUS
<1>2. DOMAIN s = 1..Len(s) /\ DOMAIN t = 1..Len(s) + 1
  BY <1>1
<1>3. \A K : Has(t, K) <=> Has(s, K) \/ r.kind \in K
  <2>1. \A K : Has(t, K) => Has(s, K) \/ r.kind \in K
    BY <1>1, <1>2 DEF Has
  <2>2. \A K : Has(s, K) => Has(t, K)
    BY <1>1, <1>2 DEF Has
  <2>3. \A K : r.kind \in K => Has(t, K)
    <3>1. Len(s) + 1 \in DOMAIN t
      BY <1>1, <1>2
    <3> QED BY <1>1, <3>1 DEF Has
  <2> QED BY <2>1, <2>2, <2>3
<1>4. \A kind, id, time : r.kind # kind /\ LastIs(s, kind, id, time) => LastIs(t, kind, id, time)
  BY <1>1, <1>2 DEF LastIs
<1>5. LastIs(t, r.kind, r.id, r.time)
  <2>1. Len(s) + 1 \in DOMAIN t /\ \A j \in DOMAIN t : ~(j > Len(s) + 1)
    BY <1>1, <1>2
  <2> QED BY <1>1, <2>1 DEF LastIs
<1>6. \A i \in DOMAIN t : t[i] = r \/ \E j \in DOMAIN s : t[i] = s[j]
  BY <1>1, <1>2
<1> QED BY <1>1, <1>3, <1>4, <1>5, <1>6 DEF With, Within

-----------------------------------------------------------------------------
(* What the steps do to the network.                                       *)

\* The records that the component sends.
LEMMA RequestType ==
  ASSUME NEW D, NEW A, NEW kind \in Kinds, NEW id \in Indices \cup {NoIndice},
         NEW time \in {"none", "AllTime", "Today"}, NEW date \in D, <<>> \in A, 0 \in A
  PROVE  Request(kind, id, time, date) \in Requests(D, A)
BY DEF Request, Requests

\* The network may be thought of as typed by sets that contain any date and
\* any answer.
LEMMA Widen ==
  ASSUME NEW D, NEW A, NEW s \in Seq(Requests(D, A)), NEW d, NEW x, NEW o
  PROVE  s \in Seq(Requests(D \cup {d}, A \cup {x, o}))
<1>1. Requests(D, A) \subseteq Requests(D \cup {d}, A \cup {x, o})
  BY DEF Requests
<1> QED BY Zenon, <1>1, SeqMonotonic

\* A network: a sequence of requests whose answers have the form that the
\* callbacks expect.
AnsOK(r) ==
  /\ r.kind = "total" /\ r.done => \E x, y : r.ans = <<x, y>>
  /\ r.kind = "list" /\ r.done => r.ans \in Seq(Indices)

Network(s) ==
  /\ \E D, A : s \in Seq(Requests(D, A))
  /\ \A k \in DOMAIN s : AnsOK(s[k])

\* An answer leaves a network, with the same requests.
LEMMA NetworkAnswered ==
  ASSUME NEW s, Network(s), NEW k \in DOMAIN s, NEW x, NEW o, NEW t,
         t = Marked(s, k, x, o),
         s[k].kind = "total" => \E a, b : x = <<a, b>>, s[k].kind = "list" => x \in Seq(Indices)
  PROVE  Network(t) /\ SameRequests(s, t)
<1>1. PICK D, A : s \in Seq(Requests(D, A))
  BY DEF Network
<1>2. /\ t \in Seq(Requests(D, A \cup {x, o})) /\ SameRequests(s, t)
      /\ Within(s, t[k], t) /\ t[k].kind = s[k].kind /\ t[k].ans = x
  BY <1>1, Answered
<1>3. \A i \in DOMAIN t : AnsOK(t[i])
  <2>1. AnsOK(t[k])
    BY <1>2 DEF AnsOK
  <2> QED BY <1>2, <2>1 DEF Network, Within
<1>4. \E DD, AA : t \in Seq(Requests(DD, AA))
  BY <1>2
<1> QED BY <1>2, <1>3, <1>4 DEF Network

\* So does taking a request out.
LEMMA NetworkTaken ==
  ASSUME NEW s, Network(s), NEW k \in DOMAIN s, NEW t, t = RemoveAt(s, k) \o <<>>
  PROVE  Network(t) /\ Without(s, k, t)
<1>1. PICK D, A : s \in Seq(Requests(D, A))
  BY DEF Network
<1>2. k \in 1..Len(s)
  BY <1>1
<1>3. RemoveAt(s, k) \in Seq(Requests(D, A))
  BY <1>1, <1>2, Removed
<1>4. t = RemoveAt(s, k)
  BY <1>3, ConcatEmptySeq
<1>5. Without(s, k, t) /\ Within(s, s[k], t)
  BY <1>1, <1>2, <1>4, Taken, Zenon
<1>6. \A i \in DOMAIN t : AnsOK(t[i])
  BY <1>5 DEF Network, Within
<1>7. \E DD, AA : t \in Seq(Requests(DD, AA))
  BY <1>3, <1>4
<1> QED BY <1>5, <1>6, <1>7 DEF Network

\* So does sending one.
LEMMA NetworkSent ==
  ASSUME NEW s, Network(s), NEW kind \in Kinds, NEW id \in Indices \cup {NoIndice},
         NEW time \in {"none", "AllTime", "Today"}, NEW date, NEW t,
         t = s \o <<Request(kind, id, time, date)>>
  PROVE  Network(t) /\ With(s, kind, id, time, t)
<1> DEFINE r == Request(kind, id, time, date)
<1>1. PICK D, A : s \in Seq(Requests(D, A))
  BY DEF Network
<1> DEFINE R == Requests(D \cup {date}, A \cup {<<>>, 0})
<1>2. s \in Seq(R)
  BY Zenon, <1>1, Widen
<1>3. r \in R
  BY Zenon, RequestType
<1>4. r.kind = kind /\ r.id = id /\ r.time = time /\ AnsOK(r)
  BY DEF Request, AnsOK
<1> HIDE DEF r, R
<1>5. t = Append(s, r)
  BY <1>2, <1>3, AppendIsConcat DEF r
<1>6. t \in Seq(R) /\ With(s, r.kind, r.id, r.time, t) /\ Within(s, r, t)
  BY <1>2, <1>3, <1>5, Sent, Zenon
<1>7. \A i \in DOMAIN t : AnsOK(t[i])
  BY <1>4, <1>6 DEF Network, Within
<1>8. \E DD, AA : t \in Seq(Requests(DD, AA))
  BY <1>6 DEF R
<1> QED BY <1>4, <1>6, <1>7, <1>8 DEF Network

-----------------------------------------------------------------------------
(* The inductive invariant.                                                *)

NetInv ==
  /\ Network(net)
  /\ indiceSelected \in Indices \cup {NoIndice}
  /\ timeSelected \in {"AllTime", "Today"}

\* A request that will start an interval is as bad as an interval.
TimerInv ==
  /\ timing \in Nat /\ OneTimer
  /\ ~alive /\ (timers # {} \/ Has(net, {"list", "vals"})) => pending

\* The last request of a kind is for the selection, or the last answer was.
SelectionInv ==
  ~reordered /\ ~failed /\ indiceSelected # NoIndice =>
    /\ \/ LastIs(net, "vals", indiceSelected, timeSelected)
       \/ ~Has(net, {"vals"}) /\ chartOf = <<indiceSelected, timeSelected>>
    /\ \/ LastIs(net, "total", indiceSelected, "none")
       \/ ~Has(net, {"total"}) /\ numbersOf = indiceSelected

\* The totals are asked for before the values.
PageInv ==
  /\ timers # {} \/ Has(net, {"new"}) => chartDatasets # <<>>
  /\ numbers = <<>> \/ DOMAIN numbers = 1..2
  /\ numbers = <<>> /\ ~failed =>
       \/ Has(net, {"total"})
       \/ chartDatasets = <<>> /\ ~Has(net, {"vals"})

FInv == NetInv /\ TimerInv /\ SelectionInv /\ PageInv

\* The request of ngOnInit is the only one in flight.
LEMMA InitInv == Init => FInv
<1> SUFFICES ASSUME Init PROVE FInv
  OBVIOUS
<1> DEFINE r == Request("list", NoIndice, "none", 0)
<1>1. r \in Requests({0}, {<<>>, 0}) /\ r.kind = "list" /\ r.done = FALSE
  BY DEF Request, Requests, Kinds
<1>2. net = <<r>>
  BY DEF Init
<1> HIDE DEF r
<1>3. net \in Seq(Requests({0}, {<<>>, 0})) /\ DOMAIN net = {1} /\ net[1] = r
  BY <1>1, <1>2
<1>4. Network(net)
  <2>1. \E D, A : net \in Seq(Requests(D, A))
    BY <1>3
  <2> QED BY <1>1, <1>3, <2>1 DEF Network, AnsOK
<1>5. ~Has(net, {"vals"}) /\ ~Has(net, {"total"}) /\ ~Has(net, {"new"})
  BY Zenon, <1>1, <1>3 DEF Has
<1> QED BY <1>4, <1>5 DEF Init, FInv, NetInv, TimerInv, SelectionInv, PageInv, OneTimer

\* The back-end answers a request.
LEMMA AnswerStep ==
  ASSUME FInv, NEW k \in DOMAIN net, NEW x, NEW o, AnswerPart(k, x, o),
         net[k].kind = "total" => \E a, b : x = <<a, b>>, net[k].kind = "list" => x \in Seq(Indices)
  PROVE  FInv'
<1>1. net' = Marked(net, k, x, o)
  BY DEF AnswerPart, Marked
<1>2. Network(net') /\ SameRequests(net, net')
  BY <1>1, NetworkAnswered DEF FInv, NetInv
<1>3. /\ Has(net', {"vals"}) = Has(net, {"vals"}) /\ Has(net', {"total"}) = Has(net, {"total"})
      /\ Has(net', {"new"}) = Has(net, {"new"})
      /\ Has(net', {"list", "vals"}) = Has(net, {"list", "vals"})
      /\ LastIs(net', "vals", indiceSelected, timeSelected)
           <=> LastIs(net, "vals", indiceSelected, timeSelected)
      /\ LastIs(net', "total", indiceSelected, "none") <=> LastIs(net, "total", indiceSelected, "none")
  BY <1>2, Zenon DEF SameRequests
<1>4. UNCHANGED <<indiceSelected, timeSelected, chartDatasets, chartOf, numbers, numbersOf,
                  timing, timers, alive, reordered, failed, pending>>
  BY DEF AnswerPart, chart, intervals
<1> QED BY <1>2, <1>3, <1>4 DEF FInv, NetInv, TimerInv, SelectionInv, PageInv, OneTimer

\* An answer, or an error, leaves the network.
LEMMA TakeNet ==
  ASSUME Network(net), NEW k \in DOMAIN net, TakeAndSend(k, <<>>)
  PROVE  Network(net') /\ Without(net, k, net')
BY NetworkTaken DEF TakeAndSend

\* Nothing overtaken: the answer is the first of its kind.
LEMMA First ==
  ASSUME NEW k \in DOMAIN net, ~Overtakes(k)
  PROVE  \A j \in 1..k - 1 : net[j].kind # net[k].kind
BY Zenon DEF Overtakes

\* getTotal's callback: an answer that overtakes none of its kind is the last one
\* or leaves the last one in flight.
LEMMA TotalStep ==
  ASSUME FInv, NEW k, OnTotal(k)
  PROVE  FInv'
<1>0. k \in DOMAIN net /\ net[k].kind = "total" /\ net[k].done
  BY DEF OnTotal, Arrives
<1>1. Network(net') /\ Without(net, k, net')
  BY <1>0, TakeNet DEF OnTotal, FInv, NetInv
<1>2. /\ Has(net', {"vals"}) = Has(net, {"vals"}) /\ Has(net', {"new"}) = Has(net, {"new"})
      /\ Has(net', {"list", "vals"}) = Has(net, {"list", "vals"})
      /\ LastIs(net, "vals", indiceSelected, timeSelected)
           => LastIs(net', "vals", indiceSelected, timeSelected)
  <2>1. net[k].kind \notin {"vals"} /\ net[k].kind \notin {"new"} /\ net[k].kind \notin {"list", "vals"}
        /\ net[k].kind # "vals"
    BY <1>0
  <2> QED BY <1>1, <2>1, Zenon DEF Without
<1>3. Has(net', {"total"}) => Has(net, {"total"})
  BY <1>1, Zenon DEF Without
<1>4. LastIs(net, "total", indiceSelected, "none") /\ ~Overtakes(k) =>
        LastIs(net', "total", indiceSelected, "none")
          \/ (~Has(net', {"total"}) /\ indiceSelected = net[k].id)
  BY <1>0, <1>1, First, Zenon DEF Without
<1>5. DOMAIN net[k].ans = 1..2
  <2>1. PICK x, y : net[k].ans = <<x, y>>
    BY <1>0 DEF FInv, NetInv, Network, AnsOK
  <2> QED BY <2>1
<1>6. net[k].ans # <<>>
  BY <1>5
<1>7. /\ numbers' = net[k].ans /\ numbersOf' = net[k].id
      /\ reordered' = (reordered \/ Overtakes(k))
      /\ UNCHANGED <<indiceSelected, timeSelected, chartDatasets, chartOf,
                     timing, timers, alive, failed, pending>>
  BY DEF OnTotal, chart, intervals
<1>8. NetInv' /\ TimerInv'
  BY Zenon, <1>1, <1>2, <1>7 DEF FInv, NetInv, TimerInv, OneTimer
<1>9. PageInv'
  BY Zenon, <1>2, <1>5, <1>6, <1>7 DEF FInv, PageInv
<1>10. SelectionInv'
  <2> SUFFICES ASSUME ~reordered', ~failed, indiceSelected # NoIndice
               PROVE  SelectionInv'
    BY <1>7 DEF SelectionInv
  <2>1. ~reordered /\ ~Overtakes(k)
    BY Zenon, <1>7
  <2>2. \/ LastIs(net', "vals", indiceSelected, timeSelected)
        \/ ~Has(net', {"vals"}) /\ chartOf = <<indiceSelected, timeSelected>>
    BY <1>2, <2>1 DEF FInv, SelectionInv
  <2>3. LastIs(net, "total", indiceSelected, "none")
    <3>1. Has(net, {"total"})
      BY Zenon, <1>0 DEF Has
    <3> QED BY <2>1, <3>1 DEF FInv, SelectionInv
  <2>4. \/ LastIs(net', "total", indiceSelected, "none")
        \/ ~Has(net', {"total"}) /\ numbersOf' = indiceSelected
    BY Zenon, <1>4, <1>7, <2>1, <2>3
  <2> QED BY Zenon, <1>7, <2>2, <2>4 DEF SelectionInv
<1> QED BY Zenon, <1>8, <1>9, <1>10 DEF FInv

\* getIndiceVals' callback: the same, and the interval is replaced.
LEMMA ValsStep ==
  ASSUME FInv, NEW k, OnVals(k)
  PROVE  FInv'
<1>0. k \in DOMAIN net /\ net[k].kind = "vals"
  BY Zenon DEF OnVals, OnValsWith, Arrives
<1>1. Network(net') /\ Without(net, k, net')
  BY <1>0, TakeNet DEF OnVals, OnValsWith, FInv, NetInv
<1>2. /\ Has(net', {"total"}) = Has(net, {"total"}) /\ Has(net', {"new"}) = Has(net, {"new"})
      /\ LastIs(net, "total", indiceSelected, "none") => LastIs(net', "total", indiceSelected, "none")
  <2>1. net[k].kind \notin {"total"} /\ net[k].kind \notin {"new"} /\ net[k].kind # "total"
    BY <1>0
  <2> QED BY <1>1, <2>1, Zenon DEF Without
<1>3. Has(net', {"list", "vals"}) => Has(net, {"list", "vals"})
  BY <1>1, Zenon DEF Without
<1>4. LastIs(net, "vals", indiceSelected, timeSelected) /\ ~Overtakes(k) =>
        LastIs(net', "vals", indiceSelected, timeSelected)
          \/ (~Has(net', {"vals"}) /\ indiceSelected = net[k].id /\ timeSelected = net[k].time)
  BY <1>0, <1>1, First, Zenon DEF Without
<1>5. /\ chartDatasets' # <<>> /\ chartOf' = <<net[k].id, net[k].time>>
      /\ reordered' = (reordered \/ Overtakes(k))
      /\ UNCHANGED <<indiceSelected, timeSelected, numbers, numbersOf, alive, failed, pending>>
  BY Zenon DEF OnVals, OnValsWith
<1>6. \/ timing' = timing + 1 /\ timers' = (timers \ {timing}) \cup {timing + 1}
      \/ timing' = timing /\ timers' = timers \ {timing}
  BY DEF OnVals, OnValsWith, StartTiming
<1>7. Has(net, {"vals"}) /\ Has(net, {"list", "vals"})
  BY <1>0 DEF Has
<1>8. NetInv' /\ TimerInv'
  <2>1. NetInv'
    BY <1>1, <1>5 DEF FInv, NetInv
  <2>2. timing \in Nat /\ timers \subseteq {timing}
    BY DEF FInv, TimerInv, OneTimer
  <2>3. timing' \in Nat /\ timers' \subseteq {timing'}
    <3>1. timers \ {timing} = {}
      BY <2>2
    <3>2. CASE timing' = timing + 1 /\ timers' = (timers \ {timing}) \cup {timing + 1}
      BY <2>2, <3>1, <3>2
    <3>3. CASE timing' = timing /\ timers' = timers \ {timing}
      BY <2>2, <3>1, <3>3
    <3> QED BY <1>6, <3>2, <3>3
  <2>4. ~alive => pending
    BY Zenon, <1>7 DEF FInv, TimerInv
  <2> QED BY Zenon, <1>5, <2>1, <2>3, <2>4 DEF TimerInv, OneTimer
<1>9. PageInv'
  BY Zenon, <1>2, <1>5, <1>7 DEF FInv, PageInv
<1>10. SelectionInv'
  <2> SUFFICES ASSUME ~reordered', ~failed, indiceSelected # NoIndice
               PROVE  SelectionInv'
    BY <1>5 DEF SelectionInv
  <2>1. ~reordered /\ ~Overtakes(k)
    BY Zenon, <1>5
  <2>2. \/ LastIs(net', "total", indiceSelected, "none")
        \/ ~Has(net', {"total"}) /\ numbersOf = indiceSelected
    BY Zenon, <1>2, <2>1 DEF FInv, SelectionInv
  <2>3. LastIs(net, "vals", indiceSelected, timeSelected)
    BY Zenon, <1>7, <2>1 DEF FInv, SelectionInv
  <2>4. \/ LastIs(net', "vals", indiceSelected, timeSelected)
        \/ ~Has(net', {"vals"}) /\ chartOf' = <<indiceSelected, timeSelected>>
    BY Zenon, <1>4, <1>5, <2>1, <2>3
  <2> QED BY Zenon, <1>5, <2>2, <2>4 DEF SelectionInv
<1> QED BY <1>8, <1>9, <1>10 DEF FInv

\* The answer of a poll.
LEMMA NewStep ==
  ASSUME FInv, NEW k, OnNew(k)
  PROVE  FInv'
<1>0. k \in DOMAIN net /\ net[k].kind = "new"
  BY Zenon DEF OnNew, OnNewWith, Arrives
<1>1. Network(net') /\ Without(net, k, net')
  BY <1>0, TakeNet DEF OnNew, OnNewWith, FInv, NetInv
<1>2. /\ Has(net', {"total"}) = Has(net, {"total"}) /\ Has(net', {"vals"}) = Has(net, {"vals"})
      /\ Has(net', {"list", "vals"}) = Has(net, {"list", "vals"})
      /\ LastIs(net, "total", indiceSelected, "none") => LastIs(net', "total", indiceSelected, "none")
      /\ LastIs(net, "vals", indiceSelected, timeSelected)
           => LastIs(net', "vals", indiceSelected, timeSelected)
  <2>1. /\ net[k].kind \notin {"total"} /\ net[k].kind \notin {"vals"} /\ net[k].kind \notin {"list", "vals"}
        /\ net[k].kind # "total" /\ net[k].kind # "vals"
    BY Zenon, <1>0
  <2> QED BY <1>1, <2>1, Zenon DEF Without
<1>3. UNCHANGED <<indiceSelected, timeSelected, chartOf, numbersOf, timing, timers, alive,
                  reordered, failed, pending>>
  BY DEF OnNew, OnNewWith, intervals
<1>4. Has(net, {"new"}) /\ chartDatasets # <<>>
  BY <1>0 DEF Has, FInv, PageInv
<1>5. chartDatasets' # <<>>
  <2>1. chartDatasets' = chartDatasets \/ \E c : chartDatasets' = <<c>>
    BY Zenon DEF OnNew, OnNewWith
  <2> QED BY <1>4, <2>1
<1>6. numbers' = numbers \/ numbers' = [i \in DOMAIN numbers |-> Plus(numbers[i], Len(net[k].ans))]
  BY Zenon DEF OnNew, OnNewWith
<1>7. (numbers' = <<>> \/ DOMAIN numbers' = 1..2) /\ (numbers' = <<>> => numbers = <<>>)
  <2>1. numbers = <<>> \/ DOMAIN numbers = 1..2
    BY DEF FInv, PageInv
  <2>2. DOMAIN numbers' = DOMAIN numbers
    BY <1>6
  <2>3. CASE DOMAIN numbers = 1..2
    <3>1. 1 \in DOMAIN numbers'
      BY <2>2, <2>3
    <3>2. numbers' # <<>>
      BY <3>1
    <3> QED BY <2>2, <2>3, <3>2
  <2>4. CASE numbers = <<>>
    <3>1. DOMAIN numbers = {}
      BY <2>4
    <3>2. numbers' = <<>>
      BY <1>6, <2>4, <3>1
    <3> QED BY <2>4, <3>2
  <2> QED BY <2>1, <2>3, <2>4
<1>8. NetInv' /\ TimerInv' /\ SelectionInv'
  BY Zenon, <1>1, <1>2, <1>3 DEF FInv, NetInv, TimerInv, SelectionInv, OneTimer
<1>9. PageInv'
  BY Zenon, <1>2, <1>3, <1>4, <1>5, <1>7 DEF FInv, PageInv
<1> QED BY Zenon, <1>8, <1>9 DEF FInv

\* A request that fails.
LEMMA ErrorStep ==
  ASSUME FInv, NEW k, OnError(k)
  PROVE  FInv'
<1>1. Network(net') /\ Without(net, k, net')
  BY TakeNet DEF OnError, FInv, NetInv
<1>2. /\ Has(net', {"list", "vals"}) => Has(net, {"list", "vals"})
      /\ Has(net', {"new"}) => Has(net, {"new"})
  BY <1>1, Zenon DEF Without
<1>3. failed' /\ UNCHANGED <<indiceSelected, timeSelected, chartDatasets, numbers, timing,
                             timers, alive, pending>>
  BY Zenon DEF OnError, chart, intervals
<1> QED BY Zenon, <1>1, <1>2, <1>3 DEF FInv, NetInv, TimerInv, SelectionInv, PageInv, OneTimer

\* A poll is sent.
LEMMA TickStep ==
  ASSUME FInv, Tick
  PROVE  FInv'
<1>1. net' = net \o <<Request("new", indiceSelected, "none", maxDate)>>
  <2>1. PICK D, A : net \in Seq(Requests(D, A))
    BY DEF FInv, NetInv, Network
  <2>2. net \in Seq(Requests(D \cup {maxDate}, A \cup {<<>>, 0}))
    BY Zenon, <2>1, Widen
  <2>3. getNewVals \in Requests(D \cup {maxDate}, A \cup {<<>>, 0})
    BY RequestType DEF getNewVals, FInv, NetInv, Kinds
  <2> QED BY <2>2, <2>3, AppendIsConcat DEF Tick, getNewVals
<1>2. Network(net') /\ With(net, "new", indiceSelected, "none", net')
  BY Zenon, <1>1, NetworkSent DEF FInv, NetInv, Kinds
<1>3. /\ Has(net', {"total"}) <=> Has(net, {"total"})
      /\ Has(net', {"vals"}) <=> Has(net, {"vals"})
      /\ Has(net', {"list", "vals"}) <=> Has(net, {"list", "vals"})
      /\ LastIs(net, "total", indiceSelected, "none") => LastIs(net', "total", indiceSelected, "none")
      /\ LastIs(net, "vals", indiceSelected, timeSelected)
           => LastIs(net', "vals", indiceSelected, timeSelected)
  <2>1. /\ "new" \notin {"total"} /\ "new" \notin {"vals"} /\ "new" \notin {"list", "vals"}
        /\ "new" # "total" /\ "new" # "vals"
    OBVIOUS
  <2> QED BY <1>2, <2>1, Zenon DEF With
<1>4. timers # {} /\ UNCHANGED <<indiceSelected, timeSelected, chartDatasets, chartOf, numbers,
                  numbersOf, timing, timers, alive, reordered, failed, pending>>
  BY DEF Tick, chart, intervals
<1> QED BY Zenon, <1>2, <1>3, <1>4 DEF FInv, NetInv, TimerInv, SelectionInv, PageInv, OneTimer

And(s, r) == s \o <<r>>
AndBoth(s, r, q) == s \o <<r, q>>

\* Sending two requests is sending one and then the other.
LEMMA TwoSent ==
  ASSUME NEW S, NEW s \in Seq(S), NEW r \in S, NEW q \in S
  PROVE  AndBoth(s, r, q) = And(And(s, r), q)
<1>1. <<r>> \in Seq(S) /\ <<q>> \in Seq(S) /\ <<r, q>> \in Seq(S)
  OBVIOUS
<1> DEFINE p == <<r>>
           u == <<q>>
           w == <<r, q>>
<1>2. Len(p) = 1 /\ p[1] = r /\ Len(u) = 1 /\ u[1] = q /\ Len(w) = 2 /\ w[1] = r /\ w[2] = q
  OBVIOUS
<1> HIDE DEF p, u, w
<1>3. /\ p \o u \in Seq(S) /\ Len(p \o u) = Len(p) + Len(u)
      /\ \A i \in 1..Len(p) + Len(u) : (p \o u)[i] = IF i <= Len(p) THEN p[i] ELSE u[i - Len(p)]
  BY Zenon, <1>1, ConcatProperties DEF p, u
<1>4. \A i \in 1..2 : w[i] = (p \o u)[i]
  BY <1>2, <1>3
<1>5. w = p \o u
  BY <1>1, <1>2, <1>3, <1>4, SeqEqual DEF w
<1>6. (s \o p) \o u = s \o (p \o u)
  <2>1. p \in Seq(S) /\ u \in Seq(S)
    BY <1>1 DEF p, u
  <2> QED BY <2>1, ConcatAssociative
<1> QED BY <1>5, <1>6 DEF p, u, w, And, AndBoth

\* The totals and the values of an indice are asked for.
LEMMA LoadNet ==
  ASSUME NEW s, Network(s), NEW id \in Indices \cup {NoIndice},
         NEW time \in {"AllTime", "Today"},
         NEW r, r = Request("total", id, "none", 0), NEW q, q = Request("vals", id, time, 0),
         NEW t, t = AndBoth(s, r, q)
  PROVE  /\ Network(t)
         /\ Has(t, {"total"}) /\ (Has(t, {"new"}) <=> Has(s, {"new"}))
         /\ LastIs(t, "vals", id, time) /\ LastIs(t, "total", id, "none")
<1>1. t = And(And(s, r), q)
  <2>1. PICK D, A : s \in Seq(Requests(D, A))
    BY DEF Network
  <2>2. s \in Seq(Requests(D \cup {0}, A \cup {<<>>, 0}))
    BY Zenon, <2>1, Widen
  <2>3. r \in Requests(D \cup {0}, A \cup {<<>>, 0}) /\ q \in Requests(D \cup {0}, A \cup {<<>>, 0})
    BY RequestType DEF Kinds
  <2>4. PICK R : s \in Seq(R) /\ r \in R /\ q \in R
    BY Zenon, <2>2, <2>3
  <2>5. AndBoth(s, r, q) = And(And(s, r), q)
    BY <2>4, TwoSent
  <2> QED BY <2>5
<1>2. PICK u : u = And(s, r)
  OBVIOUS
<1>3. Network(u) /\ With(s, "total", id, "none", u)
  BY Zenon, <1>2, NetworkSent DEF Kinds, And
<1>4. Network(t) /\ With(u, "vals", id, time, t)
  BY Zenon, <1>1, <1>2, <1>3, NetworkSent DEF Kinds, And
<1>5. /\ "total" \in {"total"} /\ "total" \notin {"new"} /\ "vals" \notin {"new"} /\ "vals" # "total"
  OBVIOUS
<1> QED BY <1>3, <1>4, <1>5, Zenon DEF With

\* ngOnInit's callback.
LEMMA ListStep ==
  ASSUME FInv, NEW k, OnList(k)
  PROVE  FInv'
<1>0. k \in DOMAIN net /\ net[k].kind = "list" /\ net[k].done
  BY DEF OnList, Arrives
<1>1. Has(net, {"list", "vals"})
  BY Zenon, <1>0 DEF Has
<1>2. net[k].ans \in Seq(Indices)
  BY Zenon, <1>0 DEF FInv, NetInv, Network, AnsOK
<1>3. UNCHANGED <<timeSelected, chartDatasets, chartOf, numbers, numbersOf, timing, timers,
                  alive, reordered, failed, pending>>
  BY DEF OnList, chart, intervals
<1>4. TimerInv'
  BY Zenon, <1>1, <1>3 DEF FInv, TimerInv, OneTimer
<1> DEFINE s == RemoveAt(net, k) \o <<>>
<1>5. Network(s) /\ Without(net, k, s)
  BY <1>0, NetworkTaken DEF FInv, NetInv
<1>6. Has(s, {"new"}) => Has(net, {"new"})
  BY <1>5, Zenon DEF Without
<1>7. CASE net[k].ans # <<>>
  <2> DEFINE id == net[k].ans[1]
  <2>1. id \in Indices
    BY <1>2, <1>7
  <2>2. indiceSelected' = id /\ net' = s \o Load(id)
    <3>1. indiceSelected' = id /\ net' = RemoveAt(net, k) \o Load(id)
      BY <1>7 DEF OnList, TakeAndSend
    <3>2. s = RemoveAt(net, k)
      <4>1. PICK D, A : net \in Seq(Requests(D, A))
        BY DEF FInv, NetInv, Network
      <4>2. RemoveAt(net, k) \in Seq(Requests(D, A))
        BY <1>0, <4>1, Removed
      <4> QED BY <4>2, ConcatEmptySeq
    <3> QED BY Zenon, <3>1, <3>2
  <2> HIDE DEF s, id
  <2>3. /\ Network(net')
        /\ Has(net', {"total"}) /\ (Has(net', {"new"}) <=> Has(s, {"new"}))
        /\ LastIs(net', "vals", id, timeSelected) /\ LastIs(net', "total", id, "none")
    <3> DEFINE r == Request("total", id, "none", 0)
               q == Request("vals", id, timeSelected, 0)
    <3>1. net' = AndBoth(s, r, q)
      BY <2>2 DEF AndBoth, Load, getTotal, getIndiceVals
    <3>2. timeSelected \in {"AllTime", "Today"} /\ id \in Indices \cup {NoIndice}
      BY Zenon, <2>1 DEF FInv, NetInv
    <3> QED BY <1>5, <3>1, <3>2, LoadNet
  <2> QED BY Zenon, <1>3, <1>4, <1>6, <2>1, <2>2, <2>3 DEF FInv, NetInv, SelectionInv, PageInv
<1>8. CASE net[k].ans = <<>>
  <2>1. net' = s /\ indiceSelected' = indiceSelected
    BY <1>8 DEF OnList, TakeAndSend
  <2> HIDE DEF s
  <2>2. /\ Has(s, {"total"}) = Has(net, {"total"}) /\ Has(s, {"vals"}) = Has(net, {"vals"})
        /\ LastIs(net, "total", indiceSelected, "none") => LastIs(s, "total", indiceSelected, "none")
        /\ LastIs(net, "vals", indiceSelected, timeSelected)
             => LastIs(s, "vals", indiceSelected, timeSelected)
    <3>1. /\ net[k].kind \notin {"total"} /\ net[k].kind \notin {"vals"}
          /\ net[k].kind # "total" /\ net[k].kind # "vals"
      BY Zenon, <1>0
    <3> QED BY <1>5, <3>1, Zenon DEF Without
  <2> QED BY Zenon, <1>3, <1>4, <1>5, <1>6, <2>1, <2>2 DEF FInv, NetInv, SelectionInv, PageInv
<1> QED BY <1>7, <1>8

\* A click selects an indice.
LEMMA ClickStep ==
  ASSUME FInv, NEW i \in Indices, clickIndice(i)
  PROVE  FInv'
<1> DEFINE r == Request("total", i, "none", 0)
           q == Request("vals", i, timeSelected, 0)
<1>1. net' = AndBoth(net, r, q)
  BY DEF clickIndice, Click, AndBoth, Load, getTotal, getIndiceVals
<1>2. timeSelected \in {"AllTime", "Today"} /\ i \in Indices \cup {NoIndice} /\ Network(net)
  BY Zenon DEF FInv, NetInv
<1>3. /\ Network(net')
      /\ Has(net', {"total"}) /\ (Has(net', {"new"}) <=> Has(net, {"new"}))
      /\ LastIs(net', "vals", i, timeSelected) /\ LastIs(net', "total", i, "none")
  BY <1>1, <1>2, LoadNet
<1>4. /\ alive /\ indiceSelected' = i
      /\ UNCHANGED <<timeSelected, chartDatasets, chartOf, numbers, numbersOf, timing, timers,
                     alive, reordered, failed, pending>>
  BY Zenon DEF clickIndice, Click, chart, intervals
<1> QED BY <1>2, <1>3, <1>4 DEF FInv, NetInv, TimerInv, SelectionInv, PageInv, OneTimer

\* A click selects a time.
LEMMA TimeStep ==
  ASSUME FInv, NEW h \in {"AllTime", "Today"}, changeTime(h)
  PROVE  FInv'
<1>1. net' = net \o <<Request("vals", indiceSelected, h, 0)>>
  BY DEF changeTime, Click, getIndiceVals
<1>2. Network(net') /\ With(net, "vals", indiceSelected, h, net')
  BY Zenon, <1>1, NetworkSent DEF FInv, NetInv, Kinds
<1>3. /\ Has(net', {"total"}) <=> Has(net, {"total"})
      /\ Has(net', {"new"}) <=> Has(net, {"new"})
      /\ LastIs(net, "total", indiceSelected, "none") => LastIs(net', "total", indiceSelected, "none")
      /\ LastIs(net', "vals", indiceSelected, h)
  <2>1. "vals" \notin {"total"} /\ "vals" \notin {"new"} /\ "vals" # "total"
    BY Zenon
  <2> QED BY <1>2, <2>1, Zenon DEF With
<1>4. /\ alive /\ timeSelected' = h /\ numbers # <<>>
      /\ UNCHANGED <<indiceSelected, chartDatasets, chartOf, numbers, numbersOf, timing, timers,
                     alive, reordered, failed, pending>>
  BY DEF changeTime, Click, Shown, chart, intervals
<1> QED BY Zenon, <1>2, <1>3, <1>4 DEF FInv, NetInv, TimerInv, SelectionInv, PageInv, OneTimer

\* The back-end answers.
LEMMA ServeStep ==
  ASSUME FInv, NEW k, Serve(k)
  PROVE  FInv'
<1>1. CASE ServeList(k)
  <2>1. PICK l \in Listings : AnswerPart(k, l, 0)
    BY Zenon, <1>1 DEF ServeList, Answer
  <2>2. l \in Seq(Indices) /\ k \in DOMAIN net /\ net[k].kind = "list"
    BY Zenon, <1>1, FrontAssumption DEF ServeList, Asked
  <2> QED BY Zenon, <2>1, <2>2, AnswerStep
<1>2. CASE ServeTotal(k)
  <2>1. PICK x, y : AnswerPart(k, <<x, y>>, 0)
    BY <1>2, Zenon DEF ServeTotal, Answer
  <2>2. k \in DOMAIN net /\ net[k].kind = "total"
    BY Zenon, <1>2 DEF ServeTotal, Asked
  <2> QED BY <2>1, <2>2, AnswerStep
<1>3. CASE ServeVals(k)
  <2>1. PICK x, o : AnswerPart(k, x, o)
    BY <1>3, Zenon DEF ServeVals, ServeBoth, ServeTable
  <2>2. k \in DOMAIN net /\ net[k].kind = "vals"
    BY <1>3, Zenon DEF ServeVals, ServeBoth, ServeTable, Asked
  <2> QED BY <2>1, <2>2, AnswerStep
<1>4. CASE ServeNew(k)
  <2>1. PICK x : AnswerPart(k, x, 0)
    BY <1>4, Zenon DEF ServeNew, Answer
  <2>2. k \in DOMAIN net /\ net[k].kind = "new"
    BY <1>4, Zenon DEF ServeNew, Asked
  <2> QED BY <2>1, <2>2, AnswerStep
<1> QED BY Zenon, <1>1, <1>2, <1>3, <1>4 DEF Serve

\* ngOnDestroy records what is awaited.
LEMMA DestroyStep ==
  ASSUME FInv, ngOnDestroy
  PROVE  FInv'
<1>1. /\ alive' = FALSE /\ timers' = timers \ {timing} /\ pending' = Awaited({"list", "vals"})
      /\ UNCHANGED <<net, indiceSelected, timeSelected, chartDatasets, chartOf, numbers,
                     numbersOf, timing, reordered, failed>>
  BY DEF ngOnDestroy, chart
<1>2. timers' = {}
  BY <1>1 DEF FInv, TimerInv, OneTimer
<1>3. Awaited({"list", "vals"}) <=> Has(net, {"list", "vals"})
  BY Zenon DEF Awaited, Has
<1> QED BY Zenon, <1>1, <1>2, <1>3 DEF FInv, NetInv, TimerInv, SelectionInv, PageInv, OneTimer

\* Every step keeps the invariant.
LEMMA NextInv == FInv /\ [Next]_vars => FInv'
<1> SUFFICES ASSUME FInv, [Next]_vars PROVE FInv'
  BY Zenon
<1>1. ASSUME UNCHANGED <<net, indiceSelected, timeSelected, chart, numbers, numbersOf, intervals,
                         alive, reordered, failed, pending>>
      PROVE  FInv'
  BY Zenon, <1>1 DEF chart, intervals, FInv, NetInv, TimerInv, SelectionInv, PageInv, OneTimer
<1>2. CASE addVal \/ Archive
  BY <1>1, <1>2 DEF addVal, Archive
<1>3. CASE \E k \in 1..MaxNet : Serve(k) \/ Apply(k) \/ OnError(k)
  BY <1>3, ServeStep, ListStep, TotalStep, ValsStep, NewStep, ErrorStep, Zenon DEF Apply
<1>4. CASE Tick
  BY <1>4, TickStep
<1>5. CASE \E i \in Indices : clickIndice(i)
  BY <1>5, ClickStep
<1>6. CASE \E h \in {"AllTime", "Today"} : changeTime(h)
  BY Zenon, <1>6, TimeStep
<1>7. CASE ngOnDestroy
  BY <1>7, DestroyStep
<1>8. CASE UNCHANGED vars
  BY <1>1, <1>8 DEF vars
<1> QED BY Zenon, <1>2, <1>3, <1>4, <1>5, <1>6, <1>7, <1>8 DEF Next

\* The inductive invariant holds in every reachable state.
LEMMA Invariant == Spec => []FInv
BY InitInv, NextInv, PTL DEF Spec

-----------------------------------------------------------------------------

\* At most one interval runs, and clearInterval is given its handle, for any
\* number of requests in flight and any order of their answers.
THEOREM OneTimerTheorem == Spec => []OneTimer
<1>1. FInv => OneTimer
  BY Zenon DEF FInv, TimerInv
<1> QED BY <1>1, Invariant, PTL

\* An interval survives ngOnDestroy only when the values or the list were
\* awaited.
THEOREM LeakTheorem == Spec => []LeakExplained
<1>1. FInv => LeakExplained
  BY Zenon DEF FInv, TimerInv, LeakExplained
<1> QED BY <1>1, Invariant, PTL

\* What is shown is what was asked for last, unless answers of clickIndice or
\* changeTime overtook each other or a request failed.
THEOREM SelectionTheorem == Spec => []SelectionShown
<1>1. FInv => SelectionShown
  <2> SUFFICES ASSUME FInv PROVE SelectionShown
    OBVIOUS
  <2>1. (Awaited({"vals"}) <=> Has(net, {"vals"})) /\ (Awaited({"total"}) <=> Has(net, {"total"}))
    BY Zenon DEF Awaited, Has
  <2>2. LastIs(net, "vals", indiceSelected, timeSelected) => Has(net, {"vals"})
    BY DEF LastIs, Has
  <2>3. LastIs(net, "total", indiceSelected, "none") => Has(net, {"total"})
    BY DEF LastIs, Has
  <2> QED BY <2>1, <2>2, <2>3 DEF FInv, SelectionInv, SelectionShown
<1> QED BY <1>1, Invariant, PTL

\* The template's test of numbers[3][1] throws only while the totals are
\* awaited, or after a request failed.
THEOREM TemplateTheorem == Spec => []TemplateThrowsExplained
<1>1. FInv => TemplateThrowsExplained
  <2>1. Has(net, {"total"}) => Awaited({"total"})
    BY Zenon DEF Awaited, Has
  <2> QED BY <2>1 DEF FInv, PageInv, TemplateThrowsExplained, TemplateThrows
<1> QED BY <1>1, Invariant, PTL

-----------------------------------------------------------------------------
(* Types and bounds.                                                       *)

\* The network is bounded, the totals are all there or none is, there is at
\* most one chart, and every interval has a handle that was given out.
BoundInv ==
  /\ Len(net) <= MaxNet /\ clicks \in 0..MaxClicks
  /\ timers \subseteq 1..timing
  /\ chartDatasets = <<>> \/ \E c : chartDatasets = <<c>>
  /\ numbers = <<>> \/ \E x, y : numbers = <<x, y>>

\* An answer of the back-end changes the answered request only.
LEMMA AnswerNet ==
  ASSUME FInv, NEW k, Serve(k)
  PROVE  /\ Len(net') = Len(net) /\ k \in DOMAIN net
         /\ UNCHANGED <<stores, indiceSelected, timeSelected, chart, numbers, numbersOf, intervals,
                        alive, clicks, reordered, failed, pending>>
<1>1. (\E x, o : AnswerPart(k, x, o)) /\ k \in DOMAIN net
  BY Zenon DEF Serve, ServeList, ServeTotal, ServeVals, ServeBoth, ServeTable, ServeNew, Answer, Asked
<1>2. PICK x, o : AnswerPart(k, x, o)
  BY <1>1
<1>3. PICK D, A : net \in Seq(Requests(D, A))
  BY DEF FInv, NetInv, Network
<1>4. net' = Marked(net, k, x, o)
  BY Zenon, <1>2 DEF AnswerPart, Marked
<1>5. net' \in Seq(Requests(D, A \cup {x, o}))
  BY Zenon, <1>1, <1>3, <1>4, Answered
<1>6. DOMAIN net' = DOMAIN net
  BY Zenon, <1>4 DEF Marked
<1>7. Len(net') = Len(net)
  BY <1>3, <1>5, <1>6
<1> QED BY <1>1, <1>2, <1>7 DEF AnswerPart

\* Every step keeps the bounds.
LEMMA BoundStep == FInv /\ BoundInv /\ [Next]_vars => BoundInv'
<1> SUFFICES ASSUME FInv, BoundInv, [Next]_vars PROVE BoundInv'
  OBVIOUS
<1>1. CASE addVal \/ Archive \/ UNCHANGED vars
  <2>1. UNCHANGED <<net, clicks, chartDatasets, numbers, timing, timers>>
    BY Zenon, <1>1 DEF addVal, Archive, vars, chart, intervals
  <2> QED BY Zenon, <2>1 DEF BoundInv
<1>2. ASSUME NEW k, Serve(k) PROVE BoundInv'
  <2>1. Len(net') = Len(net) /\ UNCHANGED <<clicks, chartDatasets, numbers, timing, timers>>
    BY Zenon, <1>2, AnswerNet DEF chart, intervals
  <2> QED BY Zenon, <2>1 DEF BoundInv
<1>3. ASSUME NEW k, OnList(k) PROVE BoundInv'
  <2>1. Len(net') <= MaxNet /\ UNCHANGED <<clicks, chartDatasets, numbers, timing, timers>>
    BY Zenon, <1>3 DEF OnList, TakeAndSend, chart, intervals
  <2> QED BY Zenon, <2>1 DEF BoundInv
<1>4. ASSUME NEW k, OnTotal(k) PROVE BoundInv'
  <2>1. /\ Len(net') <= MaxNet /\ numbers' = net[k].ans
        /\ UNCHANGED <<clicks, chartDatasets, timing, timers>>
    BY Zenon, <1>4 DEF OnTotal, TakeAndSend, chart, intervals
  <2>2. \E x, y : net[k].ans = <<x, y>>
    BY Zenon, <1>4 DEF OnTotal, Arrives, FInv, NetInv, Network, AnsOK
  <2> QED BY Zenon, <2>1, <2>2 DEF BoundInv
<1>5. ASSUME NEW k, OnVals(k) PROVE BoundInv'
  <2>1. Len(net') <= MaxNet /\ chartDatasets' = <<net[k].ans>> /\ UNCHANGED <<clicks, numbers>>
    BY Zenon, <1>5 DEF OnVals, OnValsWith, TakeAndSend
  <2>2. \/ timing' = timing + 1 /\ timers' = (timers \ {timing}) \cup {timing + 1}
        \/ timing' = timing /\ timers' = timers \ {timing}
    BY <1>5 DEF OnVals, OnValsWith, StartTiming
  <2>3. timers' \subseteq 1..timing'
    <3>1. timing \in Nat /\ timers \subseteq 1..timing
      BY DEF BoundInv, FInv, TimerInv
    <3>2. timing + 1 \in 1..timing + 1 /\ \A i \in 1..timing : i \in 1..timing + 1
      BY <3>1
    <3> QED BY Zenon, <2>2, <3>1, <3>2
  <2> QED BY Zenon, <2>1, <2>3 DEF BoundInv
<1>6. ASSUME NEW k, OnNew(k) PROVE BoundInv'
  <2>1. Len(net') <= MaxNet /\ UNCHANGED <<clicks, timing, timers>>
    BY <1>6 DEF OnNew, OnNewWith, TakeAndSend, intervals
  <2>2. chartDatasets' = chartDatasets \/ \E c : chartDatasets' = <<c>>
    BY <1>6, Zenon DEF OnNew, OnNewWith
  <2>3. numbers' = numbers \/ numbers' = [i \in DOMAIN numbers |-> Plus(numbers[i], Len(net[k].ans))]
    BY <1>6, Zenon DEF OnNew, OnNewWith
  <2>4. numbers' = <<>> \/ \E x, y : numbers' = <<x, y>>
    <3>1. CASE numbers = <<>>
      BY <2>3, <3>1
    <3>2. ASSUME NEW x, NEW y, numbers = <<x, y>> PROVE \E a, b : numbers' = <<a, b>>
      <4> DEFINE p(z) == Plus(z, Len(net[k].ans))
      <4>1. numbers' = <<x, y>> \/ numbers' = [i \in 1..2 |-> p(numbers[i])]
        BY <2>3, <3>2
      <4> HIDE DEF p
      <4>2. [i \in 1..2 |-> p(numbers[i])] = <<p(x), p(y)>>
        BY <3>2
      <4> QED BY <4>1, <4>2
    <3> QED BY <3>1, <3>2 DEF BoundInv
  <2> QED BY Zenon, <2>1, <2>2, <2>4 DEF BoundInv
<1>7. ASSUME NEW k, OnError(k) PROVE BoundInv'
  <2>1. Len(net') <= MaxNet /\ UNCHANGED <<clicks, chartDatasets, numbers, timing, timers>>
    BY <1>7 DEF OnError, TakeAndSend, chart, intervals
  <2> QED BY <2>1 DEF BoundInv
<1>8. CASE Tick
  <2>1. PICK D, A : net \in Seq(Requests(D, A))
    BY DEF FInv, NetInv, Network
  <2>2. Len(net') = Len(net) + 1 /\ Len(net) \in Nat /\ Len(net) < MaxNet
    BY <1>8, <2>1 DEF Tick
  <2>3. UNCHANGED <<clicks, chartDatasets, numbers, timing, timers>>
    BY <1>8 DEF Tick, chart, intervals
  <2> QED BY <2>2, <2>3, FrontAssumption DEF BoundInv
<1>9. CASE (\E i \in Indices : clickIndice(i)) \/ \E h \in {"AllTime", "Today"} : changeTime(h)
  <2>1. /\ Len(net') <= MaxNet /\ clicks < MaxClicks /\ clicks' = clicks + 1
        /\ UNCHANGED <<chartDatasets, numbers, timing, timers>>
    BY <1>9 DEF clickIndice, changeTime, Click, chart, intervals
  <2> QED BY <2>1, FrontAssumption DEF BoundInv
<1>10. CASE ngOnDestroy
  <2>1. timers' = timers \ {timing} /\ UNCHANGED <<net, clicks, chartDatasets, numbers, timing>>
    BY <1>10 DEF ngOnDestroy, chart
  <2> QED BY Zenon, <2>1 DEF BoundInv
<1> QED BY Zenon, <1>1, <1>2, <1>3, <1>4, <1>5, <1>6, <1>7, <1>8, <1>9, <1>10 DEF Next, Apply

\* The bounds hold in every reachable state.
LEMMA Bounds == Spec => []BoundInv
<1>1. Init => BoundInv
  BY FrontAssumption DEF Init, BoundInv
<1> QED BY <1>1, BoundStep, Invariant, PTL DEF Spec

\* The component's variables keep their types: the totals are all there or none
\* is, and a poll is only sent once there is a chart to extend.
THEOREM FrontTypeCorrect == Spec => []TypeOK
<1>1. FInv /\ BoundInv => TypeOK
  <2> SUFFICES ASSUME FInv, BoundInv PROVE TypeOK
    OBVIOUS
  <2>1. \A k \in DOMAIN net : net[k].kind \in {"list", "total", "vals", "new"}
    <3>1. PICK D, A : net \in Seq(Requests(D, A))
      BY DEF FInv, NetInv, Network
    <3>2. \A k \in DOMAIN net : net[k] \in Requests(D, A)
      BY <3>1, ElementOfSeq
    <3> QED BY <3>2 DEF Requests, Kinds
  <2>2. Len(chartDatasets) \in 0..1 /\ Len(numbers) \in {0, 2}
    BY DEF BoundInv
  <2>3. Awaited({"new"}) => chartDatasets # <<>>
    BY DEF Awaited, Has, FInv, PageInv
  <2> QED BY <2>1, <2>2, <2>3 DEF TypeOK, BoundInv, FInv, NetInv, TimerInv
<1> QED BY <1>1, Invariant, Bounds, PTL

-----------------------------------------------------------------------------
(* Select, by induction on the position: the least one where it is wrong.   *)

\* Every non-empty set of numbers has a least element.
LEMMA Least ==
  ASSUME NEW S \in SUBSET Nat, S # {}
  PROVE  \E m \in S : \A n \in S : m <= n
<1>1. PICK m \in S : \A n \in S : ~(<<n, m>> \in OpToRel(<, Nat))
  BY Zenon, NatLessThanWellFounded, WFMin
<1>2. \A n \in S : n \in Nat /\ ~(n < m)
  BY Zenon, <1>1 DEF OpToRel
<1> QED BY <1>2

\* The values selected among the first n elements.
UpTo(s, I, f, n) ==
  IF n = 0 THEN <<>>
  ELSE IF n \in I THEN Append(f[n - 1], s[n]) ELSE f[n - 1]

\* The recursive definition of Selected has a solution.
LEMMA SelectedExists ==
  ASSUME NEW s, Len(s) \in Nat, NEW I
  PROVE  \E f : f = [n \in 0..Len(s) |-> UpTo(s, I, f, n)]
<1> DEFINE Solved(m) == \E f : f = [n \in 0..m |-> UpTo(s, I, f, n)]
           Bad == {m \in Nat : ~Solved(m)}
<1>1. Solved(0)
  <2> DEFINE f == [n \in 0..0 |-> <<>>]
  <2>1. f = [n \in 0..0 |-> UpTo(s, I, f, n)]
    BY DEF UpTo
  <2> QED BY <2>1
<1>2. ASSUME NEW m \in Nat, Solved(m) PROVE Solved(m + 1)
  <2>1. PICK g : g = [n \in 0..m |-> UpTo(s, I, g, n)]
    BY Zenon, <1>2
  <2> DEFINE f == [n \in 0..m + 1 |-> IF n = m + 1 THEN UpTo(s, I, g, n) ELSE g[n]]
  <2>2. ASSUME NEW n \in 0..m + 1 PROVE f[n] = UpTo(s, I, f, n)
    <3>1. CASE n = 0
      BY <2>1, <3>1 DEF UpTo
    <3>2. CASE n # 0
      <4>1. n - 1 \in 0..m /\ n - 1 # m + 1 /\ f[n - 1] = g[n - 1]
        BY <3>2
      <4>2. f[n] = UpTo(s, I, g, n)
        BY <2>1
      <4> QED BY Zenon, <3>2, <4>1, <4>2 DEF UpTo
    <3> QED BY Zenon, <3>1, <3>2
  <2>3. f = [n \in 0..m + 1 |-> f[n]]
    OBVIOUS
  <2>4. f = [n \in 0..m + 1 |-> UpTo(s, I, f, n)]
    <3> HIDE DEF f
    <3> QED BY <2>2, <2>3, Zenon
  <2> QED BY Zenon, <2>4
<1>3. ASSUME Bad # {} PROVE FALSE
  <2> HIDE DEF Solved
  <2>1. PICK m \in Bad : \A n \in Bad : m <= n
    BY Zenon, <1>3, Least
  <2>2. m \in Nat /\ m # 0 /\ ~Solved(m)
    BY <1>1
  <2>3. m - 1 \in Nat /\ m - 1 \notin Bad
    BY <2>1, <2>2
  <2>4. Solved((m - 1) + 1)
    BY <1>2, <2>3
  <2> QED BY <2>2, <2>4
<1> QED BY <1>3

\* What Selected is, one element after the other.
LEMMA SelectedIs ==
  ASSUME NEW s, Len(s) \in Nat, NEW I, NEW n \in 0..Len(s)
  PROVE  Selected(s, I)[n] = UpTo(s, I, Selected(s, I), n)
<1> DEFINE F == Selected(s, I)
<1>1. F = CHOOSE f : f = [i \in 0..Len(s) |-> UpTo(s, I, f, i)]
  BY DEF Selected, UpTo
<1>2. \E f : f = [i \in 0..Len(s) |-> UpTo(s, I, f, i)]
  BY Zenon, SelectedExists
<1>3. F = [i \in 0..Len(s) |-> UpTo(s, I, F, i)]
  <2> HIDE DEF F
  <2> QED BY <1>1, <1>2, Zenon
<1> QED BY <1>3, Zenon

-----------------------------------------------------------------------------
(* Sequences of values.                                                    *)

Vals == [id : Indices, date : Nat \ {0}, n : Nat]

\* No value twice, and by date.
Ordered(s) ==
  \A i, j \in 1..Len(s) : i < j => s[i] # s[j] /\ s[i].date <= s[j].date

\* t has the values of s at the positions of I up to n, in their order.
Selects(s, I, n, t) ==
  /\ t \in Seq(Vals) /\ Ordered(t)
  /\ \A x \in 1..Len(t) : \E i \in I : i \in 1..n /\ t[x] = s[i]
  /\ \A i \in I : i \in 1..n => \E x \in 1..Len(t) : t[x] = s[i]

\* One more element is looked at.
LEMMA SelectsMore ==
  ASSUME NEW s \in Seq(Vals), Ordered(s), NEW I, NEW n \in 1..Len(s), NEW t, Selects(s, I, n - 1, t)
  PROVE  Selects(s, I, n, IF n \in I THEN Append(t, s[n]) ELSE t)
<1>0. Len(s) \in Nat /\ n \in Nat /\ t \in Seq(Vals) /\ Len(t) \in Nat /\ s[n] \in Vals
  BY DEF Selects
<1>1. CASE n \notin I
  <2>1. \A i \in I : i \in 1..n => i \in 1..n - 1
    BY <1>0, <1>1
  <2>2. \A i \in 1..n - 1 : i \in 1..n
    BY <1>0
  <2> QED BY Zenon, <1>1, <2>1, <2>2 DEF Selects
<1>2. CASE n \in I
  <2> DEFINE u == Append(t, s[n])
  <2>1. /\ u \in Seq(Vals) /\ Len(u) = Len(t) + 1 /\ u[Len(t) + 1] = s[n]
        /\ \A x \in 1..Len(t) : u[x] = t[x]
    BY <1>0
  <2> HIDE DEF u
  <2>2. \A x \in 1..Len(u) : x \in 1..Len(t) \/ x = Len(t) + 1
    BY <1>0, <2>1
  <2>3. \A x \in 1..Len(t) : t[x] # s[n] /\ t[x].date <= s[n].date
    <3> SUFFICES ASSUME NEW x \in 1..Len(t) PROVE t[x] # s[n] /\ t[x].date <= s[n].date
      OBVIOUS
    <3>1. PICK i \in I : i \in 1..n - 1 /\ t[x] = s[i]
      BY DEF Selects
    <3>2. i \in 1..Len(s) /\ i < n
      BY <1>0, <3>1
    <3> QED BY Zenon, <3>1, <3>2 DEF Ordered
  <2>4. Ordered(u)
    <3> SUFFICES ASSUME NEW x \in 1..Len(u), NEW y \in 1..Len(u), x < y
                 PROVE  u[x] # u[y] /\ u[x].date <= u[y].date
      BY Zenon DEF Ordered
    <3>1. x \in 1..Len(t)
      BY <1>0, <2>1
    <3>2. CASE y \in 1..Len(t)
      <4>1. t[x] # t[y] /\ t[x].date <= t[y].date
        BY Zenon, <3>1, <3>2 DEF Selects, Ordered
      <4> QED BY <2>1, <3>1, <3>2, <4>1
    <3>3. CASE y = Len(t) + 1
      BY Zenon, <2>1, <2>3, <3>1, <3>3
    <3> QED BY Zenon, <2>2, <3>2, <3>3
  <2>5. \A x \in 1..Len(u) : \E i \in I : i \in 1..n /\ u[x] = s[i]
    <3> SUFFICES ASSUME NEW x \in 1..Len(u) PROVE \E i \in I : i \in 1..n /\ u[x] = s[i]
      BY Zenon
    <3>1. CASE x \in 1..Len(t)
      <4>1. PICK i \in I : i \in 1..n - 1 /\ t[x] = s[i]
        BY Zenon, <3>1 DEF Selects
      <4>2. i \in 1..n
        BY <1>0, <4>1
      <4> QED BY Zenon, <2>1, <3>1, <4>1, <4>2
    <3>2. CASE x = Len(t) + 1
      BY <1>0, <1>2, <2>1, <3>2
    <3> QED BY Zenon, <2>2, <3>1, <3>2
  <2>6. \A i \in I : i \in 1..n => \E x \in 1..Len(u) : u[x] = s[i]
    <3> SUFFICES ASSUME NEW i \in I, i \in 1..n PROVE \E x \in 1..Len(u) : u[x] = s[i]
      BY Zenon
    <3>1. CASE i = n
      <4>1. Len(t) + 1 \in 1..Len(u)
        BY <1>0, <2>1
      <4> QED BY Zenon, <2>1, <3>1, <4>1
    <3>2. CASE i # n
      <4>1. i \in 1..n - 1
        BY <1>0, <3>2
      <4>2. PICK x \in 1..Len(t) : t[x] = s[i]
        BY Zenon, <4>1 DEF Selects
      <4>3. x \in 1..Len(u)
        BY <1>0, <2>1
      <4> QED BY Zenon, <2>1, <4>2, <4>3
    <3> QED BY Zenon, <3>1, <3>2
  <2> QED BY Zenon, <1>2, <2>1, <2>4, <2>5, <2>6 DEF Selects, u
<1> QED BY Zenon, <1>1, <1>2

\* Select finds the elements at the positions of I, and no others, in order.
LEMMA SelectFinds ==
  ASSUME NEW s \in Seq(Vals), Ordered(s), NEW I
  PROVE  Selects(s, I, Len(s), Select(s, I))
<1> DEFINE F == Selected(s, I)
           Bad == {n \in 0..Len(s) : ~Selects(s, I, n, F[n])}
<1>0. Len(s) \in Nat
  OBVIOUS
<1>1. \A n \in 0..Len(s) : F[n] = UpTo(s, I, F, n)
  BY Zenon, <1>0, SelectedIs
<1> HIDE DEF F
<1>2. Selects(s, I, 0, F[0])
  <2>1. F[0] = <<>>
    BY <1>0, <1>1 DEF UpTo
  <2>2. <<>> \in Seq(Vals) /\ Len(<<>>) = 0
    OBVIOUS
  <2> QED BY <2>1, <2>2 DEF Selects, Ordered
<1>3. ASSUME Bad # {} PROVE FALSE
  <2>1. PICK m \in Bad : \A n \in Bad : m <= n
    <3>1. Bad \in SUBSET Nat
      BY <1>0
    <3> HIDE DEF Bad
    <3> QED BY <1>3, <3>1, Least
  <2>2. m \in 1..Len(s) /\ ~Selects(s, I, m, F[m])
    BY <1>0, <1>2
  <2>3. m - 1 \in 0..Len(s) /\ m - 1 \notin Bad
    BY <1>0, <2>1, <2>2
  <2>4. Selects(s, I, m - 1, F[m - 1])
    BY Zenon, <2>3
  <2>5. Selects(s, I, m, IF m \in I THEN Append(F[m - 1], s[m]) ELSE F[m - 1])
    BY Zenon, <2>2, <2>4, SelectsMore
  <2>6. F[m] = IF m \in I THEN Append(F[m - 1], s[m]) ELSE F[m - 1]
    BY <1>1, <2>2 DEF UpTo
  <2> QED BY <2>2, <2>5, <2>6
<1>4. Selects(s, I, Len(s), F[Len(s)])
  BY <1>0, <1>3
<1> QED BY <1>4 DEF F, Select

-----------------------------------------------------------------------------
(* The stores.                                                             *)

\* Two sequences one after the other.
TwoJoined(S, a, b, c) ==
  /\ c \in Seq(S) /\ Len(c) = Len(a) + Len(b) /\ Len(a) \in Nat /\ Len(b) \in Nat
  /\ \A i \in 1..Len(a) : i \in 1..Len(c) /\ c[i] = a[i]
  /\ \A i \in 1..Len(b) : Len(a) + i \in 1..Len(c) /\ c[Len(a) + i] = b[i]
  /\ \A i \in 1..Len(c) : i \in 1..Len(a) \/ \E j \in 1..Len(b) : i = Len(a) + j

\* That is what \o does.
LEMMA Joined ==
  ASSUME NEW S, NEW a \in Seq(S), NEW b \in Seq(S), NEW c, c = a \o b
  PROVE  TwoJoined(S, a, b, c)
<1>0. Len(a) \in Nat /\ Len(b) \in Nat
  OBVIOUS
<1>1. /\ c \in Seq(S) /\ Len(c) = Len(a) + Len(b)
      /\ \A i \in 1..Len(a) + Len(b) : c[i] = IF i <= Len(a) THEN a[i] ELSE b[i - Len(a)]
  BY Zenon, ConcatProperties
<1>2. \A i \in 1..Len(a) : i \in 1..Len(c) /\ c[i] = a[i]
  BY <1>0, <1>1
<1>3. ASSUME NEW i \in 1..Len(b)
      PROVE  Len(a) + i \in 1..Len(c) /\ c[Len(a) + i] = b[i]
  <2>1. Len(a) + i \in 1..Len(a) + Len(b) /\ ~(Len(a) + i <= Len(a)) /\ (Len(a) + i) - Len(a) = i
    BY <1>0
  <2> QED BY <1>1, <2>1
<1>4. ASSUME NEW i \in 1..Len(c), i \notin 1..Len(a)
      PROVE  \E j \in 1..Len(b) : i = Len(a) + j
  <2>1. i - Len(a) \in 1..Len(b) /\ i = Len(a) + (i - Len(a))
    BY <1>0, <1>1, <1>4
  <2> QED BY <2>1
<1> QED BY Zenon, <1>0, <1>1, <1>2, <1>3, <1>4 DEF TwoJoined

\* All the values stored, those of the files first.
Everything == files \o table

\* The values are numbered as they come and their dates never go back.
StoreInv ==
  /\ files \in Seq(Vals) /\ table \in Seq(Vals)
  /\ Ordered(Everything)
  /\ \A i \in 1..Len(Everything) : Everything[i].n = i

\* The archive: the same values, fewer of them in the table.
Moved ==
  /\ Everything' = Everything
  /\ \A j \in 1..Len(table') : \E i \in 1..Len(table) : table'[j] = table[i]

\* The collector: one more value, the last one by date.
Added(v) ==
  /\ Everything' = Append(Everything, v) /\ table' = Append(table, v)
  /\ \A i \in 1..Len(Everything) : Everything[i].date <= v.date

\* The table is the end of what is stored.
LEMMA TableIn ==
  ASSUME StoreInv
  PROVE  /\ Everything \in Seq(Vals) /\ Ordered(table)
         /\ Len(table) <= Len(Everything)
         /\ \A i \in 1..Len(table) : \E j \in 1..Len(Everything) : table[i] = Everything[j]
<1>1. files \in Seq(Vals) /\ table \in Seq(Vals) /\ Everything = files \o table
  BY Zenon DEF StoreInv, Everything
<1>2. /\ Everything \in Seq(Vals) /\ Len(Everything) = Len(files) + Len(table)
      /\ Len(files) \in Nat /\ Len(table) \in Nat
      /\ \A i \in 1..Len(table) : /\ Len(files) + i \in 1..Len(Everything)
                                  /\ Everything[Len(files) + i] = table[i]
  BY <1>1, Joined DEF TwoJoined
<1>3. Ordered(table)
  <2> SUFFICES ASSUME NEW i \in 1..Len(table), NEW j \in 1..Len(table), i < j
               PROVE  table[i] # table[j] /\ table[i].date <= table[j].date
    BY Zenon DEF Ordered
  <2>1. Len(files) + i < Len(files) + j
    BY <1>2
  <2>2. /\ Everything[Len(files) + i] # Everything[Len(files) + j]
        /\ Everything[Len(files) + i].date <= Everything[Len(files) + j].date
    BY Zenon, <1>2, <2>1 DEF StoreInv, Ordered
  <2> QED BY Zenon, <1>2, <2>2
<1>4. Len(table) <= Len(Everything)
  BY <1>2
<1>5. \A i \in 1..Len(table) : \E j \in 1..Len(Everything) : table[i] = Everything[j]
  BY <1>2
<1> QED BY Zenon, <1>2, <1>3, <1>4, <1>5

\* A sequence in two parts, after another one.
LEMMA Regrouped ==
  ASSUME NEW S, NEW f \in Seq(S), NEW p \in Seq(S), NEW q \in Seq(S),
         NEW t, t = p \o q, NEW u, u = f \o p
  PROVE  u \o q = f \o t
<1>1. (f \o p) \o q = f \o (p \o q)
  BY SMTT(30), ConcatAssociative
<1> QED BY Zenon, <1>1

\* The two parts of a sequence.
Cut(t, k, p, q) == p = SubSeq(t, 1, k) /\ q = SubSeq(t, k + 1, Len(t))

TwoParts(S, t, k, p, q) ==
  /\ p \in Seq(S) /\ q \in Seq(S) /\ t = p \o q
  /\ Len(q) = Len(t) - k /\ \A j \in 1..Len(t) - k : q[j] = t[k + j]

\* Cutting gives them.
LEMMA CutParts ==
  ASSUME NEW S, NEW t \in Seq(S), NEW k \in 1..Len(t), NEW p, NEW q, Cut(t, k, p, q)
  PROVE  TwoParts(S, t, k, p, q)
<1>0. Len(t) \in Nat /\ k \in Nat
  OBVIOUS
<1>1. p \in Seq(S)
  BY <1>0 DEF Cut
<1>2. q \in Seq(S) /\ Len(q) = Len(t) - k /\ \A j \in 1..Len(t) - k : q[j] = t[k + j]
  BY <1>0 DEF Cut
<1>3. t = p \o q
  <2>1. 1 \in 1..Len(t) + 1 /\ k \in 1 - 1..Len(t) /\ Len(t) \in k..Len(t)
    BY <1>0
  <2>2. p \o q = SubSeq(t, 1, Len(t))
    BY Zenon, <2>1, ConcatAdjacentSubSeq DEF Cut
  <2> QED BY Zenon, <2>2, SubSeqFull
<1> QED BY <1>1, <1>2, <1>3 DEF TwoParts

\* An element after the second of two sequences is after both.
LEMMA AppendJoined ==
  ASSUME NEW S, NEW f \in Seq(S), NEW t \in Seq(S), NEW v \in S
  PROVE  f \o Append(t, v) = Append(f \o t, v)
<1>1. f \o t \in Seq(S) /\ <<v>> \in Seq(S)
  BY ConcatProperties
<1>2. Append(t, v) = t \o <<v>> /\ Append(f \o t, v) = (f \o t) \o <<v>>
  BY Zenon, <1>1, AppendIsConcat
<1>3. (f \o t) \o <<v>> = f \o (t \o <<v>>)
  BY <1>1, ConcatAssociative
<1> QED BY Zenon, <1>2, <1>3

\* The archive moves the beginning of the table.
LEMMA ArchiveStep ==
  ASSUME StoreInv, Archive
  PROVE  StoreInv' /\ Moved
<1>1. PICK k \in 1..Len(table) : /\ files' = files \o SubSeq(table, 1, k)
                                 /\ table' = SubSeq(table, k + 1, Len(table))
  BY Zenon DEF Archive
<1>2. files \in Seq(Vals) /\ table \in Seq(Vals) /\ Len(table) \in Nat /\ k \in Nat
  BY DEF StoreInv
<1>3. PICK p, q : Cut(table, k, p, q)
  BY Zenon DEF Cut
<1>4. /\ p \in Seq(Vals) /\ q \in Seq(Vals) /\ table = p \o q
      /\ Len(q) = Len(table) - k /\ \A j \in 1..Len(table) - k : q[j] = table[k + j]
  <2>1. TwoParts(Vals, table, k, p, q)
    BY <1>2, <1>3, CutParts
  <2> QED BY <2>1 DEF TwoParts
<1>5. files' = files \o p /\ table' = q
  BY Zenon, <1>1, <1>3 DEF Cut
<1>6. files' \o table' = files \o table
  BY SMTT(30), <1>2, <1>4, <1>5, Regrouped
<1>7. files' \in Seq(Vals)
  BY <1>2, <1>4, <1>5, ConcatProperties
<1>8. ASSUME NEW j \in 1..Len(table') PROVE \E i \in 1..Len(table) : table'[j] = table[i]
  <2>1. k + j \in 1..Len(table) /\ table'[j] = table[k + j]
    BY <1>2, <1>4, <1>5
  <2> QED BY <2>1
<1>9. Everything' = Everything /\ table' \in Seq(Vals)
  BY Zenon, <1>4, <1>5, <1>6 DEF Everything
<1> QED BY Zenon, <1>7, <1>8, <1>9 DEF StoreInv, Moved

\* A sequence by date, and one more value that is not before the last one.
LEMMA OrderedMore ==
  ASSUME NEW s \in Seq(Vals), Ordered(s), NEW v \in Vals,
         \A i \in 1..Len(s) : s[i] # v /\ s[i].date <= v.date
  PROVE  Ordered(Append(s, v))
<1> DEFINE u == Append(s, v)
<1>1. /\ Len(u) = Len(s) + 1 /\ u[Len(s) + 1] = v /\ Len(s) \in Nat
      /\ \A x \in 1..Len(s) : u[x] = s[x]
  OBVIOUS
<1> HIDE DEF u
<1>2. ASSUME NEW x \in 1..Len(u), NEW y \in 1..Len(u), x < y
      PROVE  u[x] # u[y] /\ u[x].date <= u[y].date
  <2>1. x \in 1..Len(s) /\ (y \in 1..Len(s) \/ y = Len(s) + 1)
    BY <1>1, <1>2
  <2>2. CASE y \in 1..Len(s)
    <3>1. s[x] # s[y] /\ s[x].date <= s[y].date
      BY Zenon, <1>2, <2>1, <2>2 DEF Ordered
    <3> QED BY Zenon, <1>1, <2>1, <2>2, <3>1
  <2>3. CASE y = Len(s) + 1
    BY Zenon, <1>1, <2>1, <2>3
  <2> QED BY Zenon, <2>1, <2>2, <2>3
<1> QED BY Zenon, <1>2 DEF Ordered, u

\* The collector adds a value.
LEMMA AddStep ==
  ASSUME StoreInv, addVal
  PROVE  StoreInv' /\ \E v \in Vals : Added(v)
<1> DEFINE last == IF Everything = <<>> THEN 1 ELSE Last(Everything).date
<1>0. PICK date : \E id \in Quoted, later \in 0..1 :
        /\ date = IF Everything = <<>> THEN 1 ELSE Last(Everything).date + later
        /\ table' = Append(table, [id |-> id, date |-> date, n |-> Len(Everything) + 1])
  BY Zenon DEF addVal, Everything
<1>1. PICK id \in Quoted, later \in 0..1 :
        /\ date = IF Everything = <<>> THEN 1 ELSE Last(Everything).date + later
        /\ table' = Append(table, [id |-> id, date |-> date, n |-> Len(Everything) + 1])
  BY Zenon, <1>0
<1>2. files' = files
  BY Zenon DEF addVal
<1>3. /\ Everything \in Seq(Vals) /\ Len(Everything) \in Nat
      /\ files \in Seq(Vals) /\ table \in Seq(Vals)
  BY TableIn DEF StoreInv
<1>4. last \in Nat \ {0} /\ \A i \in 1..Len(Everything) : Everything[i].date <= last
  <2>1. CASE Everything = <<>>
    BY <2>1
  <2>2. CASE Everything # <<>>
    <3>1. Len(Everything) \in 1..Len(Everything) /\ last = Everything[Len(Everything)].date
      BY <1>3, <2>2 DEF Last
    <3>2. Everything[Len(Everything)] \in Vals /\ \A i \in 1..Len(Everything) : Everything[i] \in Vals
      BY <1>3, <3>1
    <3>3. \A i \in 1..Len(Everything) : i < Len(Everything) =>
            Everything[i].date <= Everything[Len(Everything)].date
      BY Zenon, <3>1 DEF StoreInv, Ordered
    <3> QED BY <1>3, <3>1, <3>2, <3>3 DEF Vals
  <2> QED BY Zenon, <2>1, <2>2
<1> DEFINE v == [id |-> id, date |-> date, n |-> Len(Everything) + 1]
<1>5. /\ v \in Vals /\ v.n = Len(Everything) + 1
      /\ \A i \in 1..Len(Everything) : Everything[i].date <= v.date
  <2>1. v.date = date /\ v.n = Len(Everything) + 1
    OBVIOUS
  <2>2. date \in Nat \ {0} /\ last <= date /\ Len(Everything) + 1 \in Nat
    <3>1. date = last \/ date = last + later
      BY Zenon, <1>1
    <3> HIDE DEF last
    <3> QED BY <1>3, <1>4, <3>1
  <2>3. v \in Vals
    BY Zenon, <2>2, FrontAssumption DEF Vals
  <2>4. \A i \in 1..Len(Everything) : Everything[i].date \in Nat
    <3>1. \A i \in 1..Len(Everything) : Everything[i] \in Vals
      BY <1>3
    <3> QED BY <3>1 DEF Vals
  <2> HIDE DEF v, last
  <2> QED BY <1>4, <2>1, <2>2, <2>3, <2>4
<1>6. table' = Append(table, v)
  BY <1>1
<1> HIDE DEF v, last
<1>7. Everything' = Append(Everything, v)
  <2>1. files \o Append(table, v) = Append(files \o table, v)
    BY <1>3, <1>5, AppendJoined
  <2> QED BY Zenon, <1>2, <1>6, <2>1 DEF Everything
<1>8. \A i \in 1..Len(Everything) : Everything[i] # v /\ Everything[i].date <= v.date
  <2>1. \A i \in 1..Len(Everything) : Everything[i].n # v.n
    BY <1>3, <1>5 DEF StoreInv
  <2> QED BY <1>5, <2>1
<1>9. Ordered(Everything')
  <2>1. Ordered(Everything)
    BY Zenon DEF StoreInv
  <2> QED BY Zenon, <1>3, <1>5, <1>7, <1>8, <2>1, OrderedMore
<1>10. \A i \in 1..Len(Everything') : Everything'[i].n = i
  <2>1. /\ Len(Everything') = Len(Everything) + 1 /\ Everything'[Len(Everything) + 1] = v
        /\ \A i \in 1..Len(Everything) : Everything'[i] = Everything[i]
    BY <1>3, <1>5, <1>7, AppendProperties
  <2>2. \A i \in 1..Len(Everything') : i \in 1..Len(Everything) \/ i = Len(Everything) + 1
    BY <1>3, <2>1
  <2> QED BY Zenon, <1>5, <2>1, <2>2 DEF StoreInv
<1>11. table' \in Seq(Vals) /\ files' \in Seq(Vals)
  BY <1>2, <1>3, <1>5, <1>6
<1>12. Added(v)
  BY Zenon, <1>6, <1>7, <1>8 DEF Added
<1> QED BY Zenon, <1>5, <1>9, <1>10, <1>11, <1>12 DEF StoreInv

\* Steps of the stores: the same values with fewer of them in the table, or one
\* more value.
Grown(E, T, E2, T2) ==
  \/ E2 = E /\ \A j \in 1..Len(T2) : \E i \in 1..Len(T) : T2[j] = T[i]
  \/ \E v \in Vals : /\ E2 = Append(E, v) /\ T2 = Append(T, v)
                     /\ \A i \in 1..Len(E) : E[i].date <= v.date

\* What the collector, the archive and everyone else do to the stores.
LEMMA StoreStep ==
  ASSUME StoreInv, [Next]_vars
  PROVE  StoreInv' /\ Grown(Everything, table, Everything', table')
<1>1. CASE addVal
  BY Zenon, <1>1, AddStep DEF Added, Grown
<1>2. CASE Archive
  BY Zenon, <1>2, ArchiveStep DEF Moved, Grown
<1>3. CASE UNCHANGED stores
  <2>1. files' = files /\ table' = table
    BY Zenon, <1>3 DEF stores
  <2>2. StoreInv' /\ Everything' = Everything
    BY Zenon, <2>1 DEF StoreInv, Everything
  <2> QED BY <2>1, <2>2 DEF Grown
<1>4. addVal \/ Archive \/ UNCHANGED stores
  BY Zenon DEF Next, vars, Serve, ServeList, ServeTotal, ServeVals, ServeBoth, ServeTable, ServeNew, Answer, AnswerPart, Apply, OnList,
     OnTotal, OnVals, OnValsWith, OnNew, OnNewWith, OnError, Tick, clickIndice, changeTime, Click,
     ngOnDestroy
<1> QED BY Zenon, <1>1, <1>2, <1>3, <1>4

-----------------------------------------------------------------------------
(* The values of the chart.                                                *)

Covers(s, d) == \E i \in 1..Len(s) : s[i].date = d
Past(s, d) == \A i \in 1..Len(s) : s[i].date <= d

\* Values of one indice that are or were stored, each once and by date.
Held(s, id, E) ==
  /\ s \in Seq(Vals) /\ Ordered(s)
  /\ \A i \in 1..Len(s) : s[i].id = id /\ \E j \in 1..Len(E) : s[i] = E[j]

\* Of the first n values of s, o more were left out, for being more than the
\* limit, and some were before the date of the n-th.
LeftOut(s, n, o, d) == o # 0 /\ n + o > LIMIT /\ n \in 1..Len(s) /\ d < s[n].date

\* An answer to a request for the values after a date, o of them left out: a
\* value of the table that is not in it has the date of one that is, or came
\* later, or was left out.
Good(s, id, d, o, E, T) ==
  /\ Held(s, id, E)
  /\ \A i \in 1..Len(s) : s[i].date > d
  /\ \A j \in 1..Len(T) : T[j].id = id /\ T[j].date > d =>
       Covers(s, T[j].date) \/ Past(s, T[j].date) \/ LeftOut(s, Len(s), o, T[j].date)

\* A chart whose last date is m: inside it, the table has no other dates but
\* those left out when its first n values were asked for.
Clean(s, id, m, n, o, E, T) ==
  /\ Held(s, id, E)
  /\ s # <<>> => m = s[Len(s)].date
  /\ \A j \in 1..Len(T) :
       /\ T[j].id = id /\ T[j].date <= m
       /\ \E i \in 1..Len(s) : s[i].date <= T[j].date
       => Covers(s, T[j].date) \/ LeftOut(s, n, o, T[j].date)

\* A sequence with an element has a last one.
LEMMA HasLast ==
  ASSUME NEW S, NEW s \in Seq(S), NEW i \in 1..Len(s)
  PROVE  s # <<>> /\ Len(s) \in 1..Len(s)
OBVIOUS

\* Neither of two dates is after the other: they are the same.
LEMMA SameDate ==
  ASSUME NEW a \in Nat, NEW b \in Nat, a <= b, b <= a
  PROVE  a = b
OBVIOUS

\* A date is after another or it is not.
LEMMA AfterOrNot ==
  ASSUME NEW a \in Nat, NEW b \in Nat
  PROVE  a > b \/ a <= b
OBVIOUS

\* The second element of a pair.
LEMMA Second ==
  ASSUME NEW x, NEW a, NEW b, x = <<a, b>>
  PROVE  x[2] = b
OBVIOUS

\* Stores that grow leave values held.
LEMMA HeldKept ==
  ASSUME NEW E \in Seq(Vals), NEW T \in Seq(Vals), NEW E2, NEW T2, Grown(E, T, E2, T2),
         NEW s, NEW id, Held(s, id, E)
  PROVE  Held(s, id, E2)
<1>1. \A j \in 1..Len(E) : \E i \in 1..Len(E2) : E2[i] = E[j]
  <2>1. CASE E2 = E
    BY <2>1
  <2>2. ASSUME NEW v \in Vals, E2 = Append(E, v) PROVE \A j \in 1..Len(E) : j \in 1..Len(E2) /\ E2[j] = E[j]
    BY <2>2
  <2> QED BY Zenon, <2>1, <2>2 DEF Grown
<1> QED BY Zenon, <1>1 DEF Held

\* A value of the table was there before, or it is not before any other.
LEMMA OldOrLast ==
  ASSUME NEW E \in Seq(Vals), NEW T \in Seq(Vals), NEW E2, NEW T2, Grown(E, T, E2, T2),
         NEW j \in 1..Len(T2)
  PROVE  (\E i \in 1..Len(T) : T2[j] = T[i]) \/ \A i \in 1..Len(E) : E[i].date <= T2[j].date
<1>1. ASSUME NEW v \in Vals, T2 = Append(T, v), \A i \in 1..Len(E) : E[i].date <= v.date,
             ~\E i \in 1..Len(T) : T2[j] = T[i]
      PROVE  T2[j] = v
  <2>1. /\ Len(T) \in Nat /\ Len(T2) = Len(T) + 1 /\ T2[Len(T) + 1] = v
        /\ \A i \in 1..Len(T) : T2[i] = T[i]
    BY <1>1, AppendProperties
  <2>2. j \notin 1..Len(T)
    BY Zenon, <1>1, <2>1
  <2> QED BY <2>1, <2>2
<1> QED BY Zenon, <1>1 DEF Grown

\* Stores that grow leave an answer good.
LEMMA GoodKept ==
  ASSUME NEW E \in Seq(Vals), NEW T \in Seq(Vals), NEW E2, NEW T2, Grown(E, T, E2, T2),
         NEW s, NEW id, NEW d, NEW o, Good(s, id, d, o, E, T)
  PROVE  Good(s, id, d, o, E2, T2)
<1>1. Held(s, id, E2)
  BY Zenon, HeldKept DEF Good
<1>2. ASSUME NEW j \in 1..Len(T2), T2[j].id = id, T2[j].date > d
      PROVE  Covers(s, T2[j].date) \/ Past(s, T2[j].date) \/ LeftOut(s, Len(s), o, T2[j].date)
  <2>1. CASE \E i \in 1..Len(T) : T2[j] = T[i]
    BY Zenon, <1>2, <2>1 DEF Good
  <2>2. CASE \A i \in 1..Len(E) : E[i].date <= T2[j].date
    BY Zenon, <2>2 DEF Good, Held, Past
  <2> QED BY Zenon, <2>1, <2>2, OldOrLast
<1> QED BY Zenon, <1>1, <1>2 DEF Good

\* And a chart clean.
LEMMA CleanKept ==
  ASSUME NEW E \in Seq(Vals), NEW T \in Seq(Vals), NEW E2, NEW T2, Grown(E, T, E2, T2),
         T2 \in Seq(Vals), NEW s, NEW id, NEW m \in Nat, NEW n, NEW o,
         Clean(s, id, m, n, o, E, T)
  PROVE  Clean(s, id, m, n, o, E2, T2)
<1>1. Held(s, id, E2)
  BY Zenon, HeldKept DEF Clean
<1>2. ASSUME NEW j \in 1..Len(T2), T2[j].id = id, T2[j].date <= m,
             \E i \in 1..Len(s) : s[i].date <= T2[j].date
      PROVE  Covers(s, T2[j].date) \/ LeftOut(s, n, o, T2[j].date)
  <2>1. CASE \E i \in 1..Len(T) : T2[j] = T[i]
    BY Zenon, <1>2, <2>1 DEF Clean
  <2>2. CASE \A i \in 1..Len(E) : E[i].date <= T2[j].date
    <3>1. s \in Seq(Vals) /\ s # <<>> /\ Len(s) \in 1..Len(s) /\ m = s[Len(s)].date
      <4>1. s \in Seq(Vals)
        BY Zenon DEF Clean, Held
      <4>2. s # <<>> /\ Len(s) \in 1..Len(s)
        BY Zenon, <1>2, <4>1, HasLast
      <4> QED BY Zenon, <4>1, <4>2 DEF Clean
    <3>2. m <= T2[j].date
      BY Zenon, <2>2, <3>1 DEF Clean, Held
    <3>3. T2[j].date \in Nat
      <4>1. T2[j] \in Vals
        OBVIOUS
      <4> QED BY Zenon, <4>1 DEF Vals
    <3>4. m = T2[j].date
      BY Zenon, <1>2, <3>2, <3>3, SameDate
    <3> QED BY Zenon, <3>1, <3>4 DEF Covers
  <2> QED BY Zenon, <2>1, <2>2, OldOrLast
<1> QED BY Zenon, <1>1, <1>2 DEF Clean

\* Select finds exactly the values of an indice after a date.
LEMMA SelectGood ==
  ASSUME NEW E \in Seq(Vals), NEW T \in Seq(Vals), NEW s \in Seq(Vals), Ordered(s),
         \A i \in 1..Len(s) : \E j \in 1..Len(E) : s[i] = E[j],
         \A j \in 1..Len(T) : \E i \in 1..Len(s) : s[i] = T[j],
         NEW id, NEW d, NEW I, I = {i \in DOMAIN s : s[i].id = id /\ s[i].date > d}
  PROVE  Good(Select(s, I), id, d, 0, E, T)
<1> DEFINE x == Select(s, I)
<1>1. Selects(s, I, Len(s), x)
  BY Zenon, SelectFinds
<1>2. DOMAIN s = 1..Len(s)
  OBVIOUS
<1> HIDE DEF x
<1>3. ASSUME NEW i \in 1..Len(x)
      PROVE  x[i].id = id /\ x[i].date > d /\ \E j \in 1..Len(E) : x[i] = E[j]
  <2>1. PICK k \in I : k \in 1..Len(s) /\ x[i] = s[k]
    BY Zenon, <1>1 DEF Selects
  <2> QED BY Zenon, <2>1
<1>4. ASSUME NEW j \in 1..Len(T), T[j].id = id, T[j].date > d
      PROVE  Covers(x, T[j].date)
  <2>1. PICK i \in 1..Len(s) : s[i] = T[j]
    OBVIOUS
  <2>2. i \in I
    BY Zenon, <1>2, <1>4, <2>1
  <2>3. PICK k \in 1..Len(x) : x[k] = s[i]
    BY <1>1, <2>2 DEF Selects
  <2> QED BY Zenon, <2>1, <2>3 DEF Covers
<1>5. Held(x, id, E)
  BY Zenon, <1>1, <1>3 DEF Held, Selects
<1> QED BY Zenon, <1>3, <1>4, <1>5 DEF Good, x

\* The last date of some values by date.
LEMMA LastDate ==
  ASSUME NEW s \in Seq(Vals), Ordered(s), NEW i \in 1..Len(s)
  PROVE  s[i].date \in Nat /\ s[i].date <= s[Len(s)].date /\ Len(s) \in 1..Len(s)
<1>1. Len(s) \in Nat /\ Len(s) \in 1..Len(s) /\ i <= Len(s)
  OBVIOUS
<1>2. s[i] \in Vals
  OBVIOUS
<1>3. s[i].date \in Nat
  BY Zenon, <1>2 DEF Vals
<1>4. CASE i < Len(s)
  <2>1. s[i].date <= s[Len(s)].date
    BY <1>1, <1>4, Zenon DEF Ordered
  <2> QED BY Zenon, <1>1, <1>3, <2>1
<1>5. CASE i = Len(s)
  BY SMTT(30), <1>1, <1>3, <1>5
<1> QED BY <1>1, <1>4, <1>5

\* The answer of the back-end to getNewVals.
LEMMA SinceGood ==
  ASSUME StoreInv, NEW id, NEW d
  PROVE  Good(Since(id, d), id, d, 0, Everything, table)
<1>1. /\ Everything \in Seq(Vals) /\ table \in Seq(Vals) /\ Ordered(table)
      /\ \A i \in 1..Len(table) : \E j \in 1..Len(Everything) : table[i] = Everything[j]
  BY Zenon, TableIn DEF StoreInv
<1>2. \A i \in 1..Len(table) : \E j \in 1..Len(table) : table[i] = table[j]
  BY Zenon
<1> QED BY Zenon, <1>1, <1>2, SelectGood DEF Since

-----------------------------------------------------------------------------
(* Long series are thinned out.                                            *)

\* How many elements Select finds: no more than there are, and as many only if
\* every position is asked for.
Shorter(x, s, I) == Len(x) \in 0..Len(s) /\ (Len(x) = Len(s) <=> \A i \in 1..Len(s) : i \in I)

\* So it does.
LEMMA SelectLen ==
  ASSUME NEW S, NEW s \in Seq(S), NEW I, NEW x, x = Select(s, I)
  PROVE  x \in Seq(S) /\ Shorter(x, s, I)
<1> DEFINE F == Selected(s, I)
           Right(n) == /\ F[n] \in Seq(S) /\ Len(F[n]) \in 0..n
                       /\ Len(F[n]) = n <=> \A i \in 1..n : i \in I
           Bad == {n \in 0..Len(s) : ~Right(n)}
<1>0. Len(s) \in Nat
  OBVIOUS
<1>1. \A n \in 0..Len(s) : F[n] = UpTo(s, I, F, n)
  BY Zenon, <1>0, SelectedIs
<1> HIDE DEF F
<1>2. Right(0)
  <2>1. F[0] = <<>>
    BY <1>0, <1>1 DEF UpTo
  <2> QED BY <2>1
<1>3. ASSUME NEW n \in 1..Len(s), Right(n - 1) PROVE Right(n)
  <2>0. n \in Nat \ {0} /\ s[n] \in S
    BY <1>0
  <2>1. F[n] = IF n \in I THEN Append(F[n - 1], s[n]) ELSE F[n - 1]
    BY <1>0, <1>1, <2>0 DEF UpTo
  <2>2. PICK y : y = F[n - 1]
    BY Zenon
  <2>3. y \in Seq(S) /\ Len(y) \in 0..n - 1 /\ (Len(y) = n - 1 <=> \A i \in 1..n - 1 : i \in I)
    BY Zenon, <1>3, <2>2
  <2>4. (\A i \in 1..n : i \in I) <=> n \in I /\ \A i \in 1..n - 1 : i \in I
    BY <2>0
  <2>5. CASE n \in I
    <3>1. F[n] = Append(y, s[n])
      BY <2>1, <2>2, <2>5
    <3>2. F[n] \in Seq(S) /\ Len(F[n]) = Len(y) + 1
      BY <2>0, <2>3, <3>1
    <3>3. Len(F[n]) \in 0..n /\ (Len(F[n]) = n <=> Len(y) = n - 1)
      BY <2>0, <2>3, <3>2
    <3> QED BY Zenon, <2>3, <2>4, <2>5, <3>2, <3>3
  <2>6. CASE n \notin I
    <3>1. F[n] = y
      BY <2>1, <2>2, <2>6
    <3>2. Len(y) \in 0..n /\ Len(y) # n
      BY <2>0, <2>3
    <3> QED BY Zenon, <2>3, <2>4, <2>6, <3>1, <3>2
  <2> QED BY Zenon, <2>5, <2>6
<1> HIDE DEF Right
<1>4. ASSUME Bad # {} PROVE FALSE
  <2>1. PICK m \in Bad : \A n \in Bad : m <= n
    <3>1. Bad \in SUBSET Nat
      BY <1>0
    <3> HIDE DEF Bad
    <3> QED BY <1>4, <3>1, Least
  <2>2. m \in 1..Len(s) /\ ~Right(m)
    BY <1>0, <1>2
  <2>3. m - 1 \in 0..Len(s) /\ m - 1 \notin Bad
    BY <1>0, <2>1, <2>2
  <2>4. Right(m - 1)
    BY Zenon, <2>3
  <2> QED BY Zenon, <1>3, <2>2, <2>4
<1>5. Right(Len(s))
  BY <1>0, <1>4
<1> QED BY <1>5 DEF Right, F, Select, Shorter

\* Up to the limit nothing is left out.
LEMMA ModuloOne ==
  ASSUME NEW n \in Nat, n <= LIMIT
  PROVE  modulo(n) = 1
<1> DEFINE P(m) == n \div m <= LIMIT /\ \A l \in 1..m - 1 : n \div l > LIMIT
<1>1. 1 \in 1..n + 1 /\ P(1)
  BY FrontAssumption
<1>2. ASSUME NEW m \in 1..n + 1, P(m) PROVE m = 1
  <2>1. ~(n \div 1 > LIMIT)
    BY FrontAssumption
  <2>2. 1 \notin 1..m - 1
    BY Zenon, <1>2, <2>1
  <2> QED BY <2>2
<1>3. modulo(n) = CHOOSE m \in 1..n + 1 : P(m)
  BY DEF modulo
<1> HIDE DEF P
<1> QED BY Zenon, <1>1, <1>2, <1>3

\* Nor by MOD.
LEMMA AllByModulo ==
  ASSUME NEW S, NEW s \in Seq(S), Len(s) <= LIMIT
  PROVE  \A i \in 1..Len(s) : i \in {a \in DOMAIN s : a % modulo(Len(s)) = 0}
<1>1. modulo(Len(s)) = 1
  BY ModuloOne
<1>2. \A i \in 1..Len(s) : i \in DOMAIN s /\ i % 1 = 0
  OBVIOUS
<1> QED BY Zenon, <1>1, <1>2

\* Nor by sed.
LEMMA AllThin ==
  ASSUME NEW S, NEW s \in Seq(S), Len(s) <= LIMIT, NEW J \in SUBSET DOMAIN s, Thins(J, s)
  PROVE  \A i \in 1..Len(s) : i \in J
<1>1. modulo(Len(s)) = 1 /\ DOMAIN s = 1..Len(s)
  BY ModuloOne
<1> SUFFICES ASSUME NEW i \in 1..Len(s) PROVE i \in J
  OBVIOUS
<1>2. PICK j \in J : i - 1 < j /\ j <= i
  BY Zenon, <1>1 DEF Thins
<1>3. j \in 1..Len(s)
  BY Zenon, <1>1
<1>4. j = i
  BY <1>2, <1>3
<1> QED BY Zenon, <1>4

\* x is what is taken of the n values that s has of an indice.
Part(x, n, s, id) ==
  /\ Held(x, id, s) /\ n \in Nat /\ Len(x) \in 0..n
  /\ n <= LIMIT => Len(x) = n
  /\ Len(x) = n => \A j \in 1..Len(s) : s[j].id = id => Covers(x, s[j].date)

\* So is what Select takes, if it takes all up to the limit.
LEMMA SelectPart ==
  ASSUME NEW s \in Seq(Vals), Ordered(s), NEW id, NEW v, v = ValsOf(s, id), NEW J,
         Len(v) <= LIMIT => \A i \in 1..Len(v) : i \in J
  PROVE  Part(Select(v, J), Len(v), s, id)
<1>1. Selects(s, {i \in DOMAIN s : s[i].id = id}, Len(s), v)
  BY Zenon, SelectFinds DEF ValsOf
<1>2. v \in Seq(Vals) /\ Ordered(v) /\ Len(v) \in Nat /\ DOMAIN s = 1..Len(s)
  BY <1>1 DEF Selects
<1>3. PICK x : x = Select(v, J)
  BY Zenon
<1>4. Selects(v, J, Len(v), x)
  BY Zenon, <1>2, <1>3, SelectFinds
<1>5. Len(x) \in 0..Len(v) /\ (Len(x) = Len(v) <=> \A i \in 1..Len(v) : i \in J)
  <2>1. Shorter(x, v, J)
    BY Zenon, <1>2, <1>3, SelectLen
  <2> QED BY Zenon, <2>1 DEF Shorter
<1>6. ASSUME NEW i \in 1..Len(x)
      PROVE  x[i].id = id /\ \E j \in 1..Len(s) : x[i] = s[j]
  <2>1. PICK a \in J : a \in 1..Len(v) /\ x[i] = v[a]
    BY Zenon, <1>4 DEF Selects
  <2>2. PICK b \in {c \in DOMAIN s : s[c].id = id} : b \in 1..Len(s) /\ v[a] = s[b]
    BY Zenon, <1>1, <2>1 DEF Selects
  <2> QED BY Zenon, <2>1, <2>2
<1>7. Held(x, id, s)
  BY Zenon, <1>4, <1>6 DEF Held, Selects
<1>8. ASSUME Len(x) = Len(v), NEW j \in 1..Len(s), s[j].id = id PROVE Covers(x, s[j].date)
  <2>1. PICK a \in 1..Len(v) : v[a] = s[j]
    BY Zenon, <1>1, <1>2, <1>8 DEF Selects
  <2>2. PICK b \in 1..Len(x) : x[b] = v[a]
    BY Zenon, <1>4, <1>5, <1>8, <2>1 DEF Selects
  <2> QED BY Zenon, <2>1, <2>2 DEF Covers
<1>9. Len(v) <= LIMIT => Len(x) = Len(v)
  BY Zenon, <1>5
<1> QED BY Zenon, <1>2, <1>3, <1>5, <1>7, <1>8, <1>9 DEF Part

\* Values by date, and others that are not before them.
LEMMA OrderedJoined ==
  ASSUME NEW c \in Seq(Vals), Ordered(c), NEW x \in Seq(Vals), Ordered(x), NEW s, s = c \o x,
         \A i \in 1..Len(c) : \A j \in 1..Len(x) : c[i] # x[j] /\ c[i].date <= x[j].date
  PROVE  Ordered(s)
<1>1. TwoJoined(Vals, c, x, s)
  BY Zenon, Joined
<1>2. /\ Len(s) = Len(c) + Len(x) /\ Len(c) \in Nat /\ Len(x) \in Nat
      /\ \A i \in 1..Len(c) : i \in 1..Len(s) /\ s[i] = c[i]
      /\ \A i \in 1..Len(x) : Len(c) + i \in 1..Len(s) /\ s[Len(c) + i] = x[i]
      /\ \A i \in 1..Len(s) : i \in 1..Len(c) \/ \E j \in 1..Len(x) : i = Len(c) + j
  BY Zenon, <1>1 DEF TwoJoined
<1> SUFFICES ASSUME NEW i \in 1..Len(s), NEW j \in 1..Len(s), i < j
             PROVE  s[i] # s[j] /\ s[i].date <= s[j].date
  BY Zenon DEF Ordered
<1>3. CASE i \in 1..Len(c) /\ j \in 1..Len(c)
  <2>1. s[i] = c[i] /\ s[j] = c[j]
    BY Zenon, <1>2, <1>3
  <2> QED BY <1>3, <2>1, Zenon DEF Ordered
<1>4. ASSUME i \in 1..Len(c), NEW b \in 1..Len(x), j = Len(c) + b
      PROVE  s[i] # s[j] /\ s[i].date <= s[j].date
  <2>1. s[i] = c[i] /\ s[j] = x[b]
    BY Zenon, <1>2, <1>4
  <2> QED BY Zenon, <1>4, <2>1
<1>5. ASSUME NEW a \in 1..Len(x), NEW b \in 1..Len(x), i = Len(c) + a, j = Len(c) + b
      PROVE  s[i] # s[j] /\ s[i].date <= s[j].date
  <2>1. s[i] = x[a] /\ s[j] = x[b] /\ a < b
    BY <1>2, <1>5
  <2> QED BY <2>1, Zenon DEF Ordered
<1>6. ASSUME NEW a \in 1..Len(x), i = Len(c) + a, j \in 1..Len(c) PROVE FALSE
  BY SMTT(30), <1>2, <1>6
<1> QED BY Zenon, <1>2, <1>3, <1>4, <1>5, <1>6

\* Values of the files and then values of the table.
LEMMA HeldJoined ==
  ASSUME StoreInv, NEW id, NEW p, Held(p, id, files), NEW q, Held(q, id, table), NEW x, x = p \o q
  PROVE  Held(x, id, Everything)
<1>1. /\ files \in Seq(Vals) /\ table \in Seq(Vals) /\ Everything = files \o table
      /\ Ordered(Everything)
  BY Zenon DEF StoreInv, Everything
<1>2. PICK f, t, E : f = files /\ t = table /\ E = Everything
  BY Zenon
<1>3. TwoJoined(Vals, f, t, E)
  BY Zenon, <1>1, <1>2, Joined
<1>4. /\ Len(f) \in Nat /\ Len(t) \in Nat
      /\ \A i \in 1..Len(f) : i \in 1..Len(E) /\ E[i] = f[i]
      /\ \A i \in 1..Len(t) : Len(f) + i \in 1..Len(E) /\ E[Len(f) + i] = t[i]
  BY Zenon, <1>3 DEF TwoJoined
<1>5. /\ p \in Seq(Vals) /\ Ordered(p) /\ q \in Seq(Vals) /\ Ordered(q)
      /\ \A i \in 1..Len(p) : p[i].id = id /\ \E a \in 1..Len(f) : p[i] = f[a]
      /\ \A i \in 1..Len(q) : q[i].id = id /\ \E a \in 1..Len(t) : q[i] = t[a]
  BY Zenon, <1>2 DEF Held
<1>6. ASSUME NEW i \in 1..Len(p), NEW j \in 1..Len(q)
      PROVE  p[i] # q[j] /\ p[i].date <= q[j].date
  <2>1. PICK a \in 1..Len(f) : p[i] = f[a]
    BY Zenon, <1>5
  <2>2. PICK b \in 1..Len(t) : q[j] = t[b]
    BY Zenon, <1>5
  <2>3. a < Len(f) + b
    BY <1>4
  <2>4. E[a] # E[Len(f) + b] /\ E[a].date <= E[Len(f) + b].date
    BY Zenon, <1>1, <1>2, <1>4, <2>3 DEF Ordered
  <2> QED BY Zenon, <1>4, <2>1, <2>2, <2>4
<1>7. Ordered(x)
  BY Zenon, <1>5, <1>6, OrderedJoined
<1>8. TwoJoined(Vals, p, q, x)
  BY Zenon, <1>5, Joined
<1>9. ASSUME NEW i \in 1..Len(x) PROVE x[i].id = id /\ \E a \in 1..Len(E) : x[i] = E[a]
  <2>1. CASE i \in 1..Len(p)
    <3>1. x[i] = p[i]
      BY Zenon, <1>8, <2>1 DEF TwoJoined
    <3>2. PICK a \in 1..Len(f) : p[i] = f[a]
      BY Zenon, <1>5, <2>1
    <3> QED BY Zenon, <1>4, <1>5, <2>1, <3>1, <3>2
  <2>2. ASSUME NEW b \in 1..Len(q), i = Len(p) + b
        PROVE  x[i].id = id /\ \E a \in 1..Len(E) : x[i] = E[a]
    <3>1. x[i] = q[b]
      BY Zenon, <1>8, <2>2 DEF TwoJoined
    <3>2. PICK a \in 1..Len(t) : q[b] = t[a]
      BY Zenon, <1>5
    <3> QED BY Zenon, <1>4, <1>5, <3>1, <3>2
  <2> QED BY Zenon, <1>8, <2>1, <2>2 DEF TwoJoined
<1> QED BY Zenon, <1>2, <1>7, <1>8, <1>9 DEF Held, TwoJoined

\* An answer to getIndiceVals, o values left out: only if there are more than
\* the limit, and none of the table if o is 0.
Whole(x, o, id, E, T) ==
  /\ Held(x, id, E) /\ o \in Nat
  /\ o # 0 => Len(x) + o > LIMIT
  /\ o = 0 => \A j \in 1..Len(T) : T[j].id = id => Covers(x, T[j].date)

\* The values of the table.
LEMMA TableWhole ==
  ASSUME StoreInv, NEW id, NEW n, NEW x, Part(x, n, table, id)
  PROVE  Whole(x, n - Len(x), id, Everything, table) /\ Len(x) + (n - Len(x)) = n
<1>1. /\ Held(x, id, table) /\ n \in Nat /\ Len(x) \in 0..n
      /\ n <= LIMIT => Len(x) = n
      /\ Len(x) = n => \A j \in 1..Len(table) : table[j].id = id => Covers(x, table[j].date)
  BY Zenon DEF Part
<1>2. \A i \in 1..Len(table) : \E j \in 1..Len(Everything) : table[i] = Everything[j]
  BY Zenon, TableIn
<1>3. Held(x, id, Everything)
  <2>1. ASSUME NEW i \in 1..Len(x) PROVE x[i].id = id /\ \E j \in 1..Len(Everything) : x[i] = Everything[j]
    <3>1. PICK a \in 1..Len(table) : x[i] = table[a]
      BY Zenon, <1>1 DEF Held
    <3>2. PICK j \in 1..Len(Everything) : table[a] = Everything[j]
      BY Zenon, <1>2
    <3> QED BY Zenon, <1>1, <3>1, <3>2 DEF Held
  <2> QED BY Zenon, <1>1, <2>1 DEF Held
<1>4. /\ n - Len(x) \in Nat /\ (n - Len(x) = 0 => Len(x) = n)
      /\ n - Len(x) # 0 => Len(x) + (n - Len(x)) > LIMIT
      /\ Len(x) + (n - Len(x)) = n
  <2>1. LIMIT \in Nat
    BY FrontAssumption
  <2> QED BY <1>1, <2>1
<1> QED BY Zenon, <1>1, <1>3, <1>4 DEF Whole

\* Values of the files, n in all, before values of the table, m in all.
BothParts(p, n, q, m, x, o, id) ==
  /\ Part(p, n, files, id) /\ Part(q, m, table, id)
  /\ x = p \o q /\ o = n + m - Len(x)

\* They are whole.
LEMMA BothWhole ==
  ASSUME StoreInv, NEW p, NEW n, NEW q, NEW m, NEW x, NEW o, NEW id, BothParts(p, n, q, m, x, o, id)
  PROVE  Whole(x, o, id, Everything, table) /\ Len(x) + o = n + m
<1>0. x = p \o q /\ o = n + m - Len(x)
  BY Zenon DEF BothParts
<1>1. Held(p, id, files) /\ n \in Nat /\ Len(p) \in 0..n /\ (n <= LIMIT => Len(p) = n)
  BY Zenon DEF BothParts, Part
<1>2. /\ Held(q, id, table) /\ m \in Nat /\ Len(q) \in 0..m
      /\ m <= LIMIT => Len(q) = m
      /\ Len(q) = m => \A j \in 1..Len(table) : table[j].id = id => Covers(q, table[j].date)
  BY Zenon DEF BothParts, Part
<1>3. Held(x, id, Everything)
  BY Zenon, <1>0, <1>1, <1>2, HeldJoined
<1>4. TwoJoined(Vals, p, q, x)
  BY Zenon, <1>0, <1>1, <1>2, Joined DEF Held
<1>5. Len(x) = Len(p) + Len(q)
  BY Zenon, <1>4 DEF TwoJoined
<1>6. /\ o \in Nat /\ (o = 0 => Len(q) = m)
      /\ o # 0 => Len(x) + o > LIMIT
      /\ Len(x) + o = n + m
  <2>1. LIMIT \in Nat
    BY FrontAssumption
  <2>2. PICK a, c, l : a = Len(p) /\ c = Len(q) /\ l = Len(x)
    BY Zenon
  <2>3. /\ o = n + m - l /\ l = a + c /\ n \in Nat /\ m \in Nat /\ a \in 0..n /\ c \in 0..m
        /\ (n <= LIMIT => a = n) /\ (m <= LIMIT => c = m)
    BY Zenon, <1>0, <1>1, <1>2, <1>5, <2>2
  <2>4. o \in Nat /\ (o = 0 => c = m) /\ (o # 0 => l + o > LIMIT) /\ l + o = n + m
    BY <2>1, <2>3
  <2> QED BY Zenon, <2>2, <2>4
<1>7. ASSUME NEW d, Covers(q, d) PROVE Covers(x, d)
  BY Zenon, <1>4, <1>7 DEF TwoJoined, Covers
<1> QED BY Zenon, <1>2, <1>3, <1>6, <1>7 DEF Whole

\* The values of an indice in the files and in the table.
LEMMA ValsTyped ==
  ASSUME StoreInv, NEW id, NEW f, f = ValsOf(files, id), NEW t, t = ValsOf(table, id)
  PROVE  /\ files \in Seq(Vals) /\ table \in Seq(Vals) /\ Ordered(files) /\ Ordered(table)
         /\ f \in Seq(Vals) /\ t \in Seq(Vals)
<1>1. /\ files \in Seq(Vals) /\ table \in Seq(Vals) /\ Everything = files \o table
      /\ Ordered(Everything) /\ Ordered(table)
  BY Zenon, TableIn DEF StoreInv, Everything
<1>2. PICK a, b, E : a = files /\ b = table /\ E = Everything
  BY Zenon
<1>3. TwoJoined(Vals, a, b, E)
  BY Zenon, <1>1, <1>2, Joined
<1>4. \A i \in 1..Len(a) : i \in 1..Len(E) /\ E[i] = a[i]
  BY Zenon, <1>3 DEF TwoJoined
<1>5. Ordered(a)
  <2> SUFFICES ASSUME NEW i \in 1..Len(a), NEW j \in 1..Len(a), i < j
               PROVE  a[i] # a[j] /\ a[i].date <= a[j].date
    BY Zenon DEF Ordered
  <2>1. E[i] # E[j] /\ E[i].date <= E[j].date
    BY Zenon, <1>1, <1>2, <1>4 DEF Ordered
  <2> QED BY Zenon, <1>4, <2>1
<1>6. f \in Seq(Vals) /\ t \in Seq(Vals)
  BY Zenon, <1>1, <1>2, <1>5, SelectFinds DEF ValsOf, Selects
<1> QED BY Zenon, <1>1, <1>2, <1>5, <1>6

\* What getIndiceVals is answered from the table, and how many values are left
\* out of it.
LEMMA ServedTable ==
  ASSUME StoreInv, NEW k, ServeTable(k)
  PROVE  \E x, o : /\ AnswerPart(k, x, o) /\ Whole(x, o, net[k].id, Everything, table)
                   /\ Len(x) + o = Len(ValsOf(table, net[k].id))
<1>1. PICK id, t : id = net[k].id /\ t = ValsOf(table, id)
  BY Zenon
<1>2. table \in Seq(Vals) /\ Ordered(table) /\ t \in Seq(Vals)
  BY Zenon, <1>1, ValsTyped
<1>3. Part(EveryModulo(t), Len(t), table, id)
  BY Zenon, <1>1, <1>2, AllByModulo, SelectPart DEF EveryModulo
<1>4. AnswerPart(k, EveryModulo(t), Len(t) - Len(EveryModulo(t)))
  BY Zenon, <1>1 DEF ServeTable
<1>5. PICK x, o : x = EveryModulo(t) /\ o = Len(t) - Len(x)
  BY Zenon
<1>6. Whole(x, o, id, Everything, table) /\ Len(x) + o = Len(t)
  BY Zenon, <1>3, <1>5, TableWhole
<1> QED BY Zenon, <1>1, <1>4, <1>5, <1>6

\* The same for the files and the table.
LEMMA ServedBoth ==
  ASSUME StoreInv, NEW k, ServeBoth(k)
  PROVE  \E x, o : /\ AnswerPart(k, x, o) /\ Whole(x, o, net[k].id, Everything, table)
                   /\ Len(x) + o = Len(ValsOf(files, net[k].id)) + Len(ValsOf(table, net[k].id))
<1>1. PICK id, f, t : id = net[k].id /\ f = ValsOf(files, id) /\ t = ValsOf(table, id)
  BY Zenon
<1>2. /\ files \in Seq(Vals) /\ table \in Seq(Vals) /\ Ordered(files) /\ Ordered(table)
      /\ f \in Seq(Vals) /\ t \in Seq(Vals)
  BY Zenon, <1>1, ValsTyped
<1>3. Part(EveryModulo(t), Len(t), table, id)
  BY Zenon, <1>1, <1>2, AllByModulo, SelectPart DEF EveryModulo
<1>4. PICK p \in Thinned(f) :
        AnswerPart(k, p \o EveryModulo(t), Len(f) + Len(t) - Len(p \o EveryModulo(t)))
  BY Zenon, <1>1 DEF ServeBoth
<1>5. PICK J \in SUBSET DOMAIN f : Thins(J, f) /\ p = Select(f, J)
  BY Zenon, <1>4 DEF Thinned
<1>6. Part(p, Len(f), files, id)
  BY Zenon, <1>1, <1>2, <1>5, AllThin, SelectPart
<1>7. PICK q, x, o : q = EveryModulo(t) /\ x = p \o q /\ o = Len(f) + Len(t) - Len(x)
  BY Zenon
<1>8. BothParts(p, Len(f), q, Len(t), x, o, id)
  BY Zenon, <1>3, <1>6, <1>7 DEF BothParts
<1>9. Whole(x, o, id, Everything, table) /\ Len(x) + o = Len(f) + Len(t)
  BY <1>8, BothWhole
<1> QED BY Zenon, <1>1, <1>4, <1>7, <1>9

\* A whole answer is good.
LEMMA WholeGood ==
  ASSUME NEW E, NEW T \in Seq(Vals), NEW x, NEW o, NEW id, Whole(x, o, id, E, T)
  PROVE  Good(x, id, 0, o, E, T)
<1>1. x \in Seq(Vals) /\ Ordered(x) /\ Len(x) \in Nat
  BY DEF Whole, Held
<1>2. \A i \in 1..Len(x) : x[i].date > 0
  <2>1. \A i \in 1..Len(x) : x[i] \in Vals
    BY <1>1
  <2> QED BY <2>1 DEF Vals
<1>3. ASSUME NEW j \in 1..Len(T), T[j].id = id
      PROVE  Covers(x, T[j].date) \/ Past(x, T[j].date) \/ LeftOut(x, Len(x), o, T[j].date)
  <2>1. PICK d : d = T[j].date
    BY Zenon
  <2>2. d \in Nat
    <3>1. T[j] \in Vals
      OBVIOUS
    <3> QED BY Zenon, <2>1, <3>1 DEF Vals
  <2>3. CASE o = 0
    BY Zenon, <1>3, <2>1, <2>3 DEF Whole
  <2>4. CASE x = <<>>
    BY <2>1, <2>4 DEF Past
  <2>5. CASE o # 0 /\ x # <<>>
    <3>1. Len(x) \in 1..Len(x)
      BY <1>1, <2>5
    <3>2. \A i \in 1..Len(x) : x[i].date \in Nat /\ x[i].date <= x[Len(x)].date
      BY Zenon, <1>1, LastDate
    <3>3. CASE d < x[Len(x)].date
      BY Zenon, <2>1, <2>5, <3>1, <3>3 DEF Whole, LeftOut
    <3>4. CASE ~(d < x[Len(x)].date)
      <4>1. \A i \in 1..Len(x) : x[i].date <= d
        BY <2>2, <3>1, <3>2, <3>4
      <4> QED BY Zenon, <2>1, <4>1 DEF Past
    <3> QED BY Zenon, <3>3, <3>4
  <2> QED BY Zenon, <2>3, <2>4, <2>5
<1> QED BY Zenon, <1>2, <1>3 DEF Good, Whole

-----------------------------------------------------------------------------
(* Where the requests in flight come from.                                 *)

\* A request as the component sends it.
NewRequest(r, id, m) ==
  /\ r.done = FALSE /\ r.id = id
  /\ r.date = IF r.kind = "new" THEN m ELSE 0

\* The elements of t are those of s, or new requests.
SentAfter(s, t, id, m) ==
  \A i \in DOMAIN t : (\E j \in DOMAIN s : t[i] = s[j]) \/ NewRequest(t[i], id, m)

\* Requests sent after those in flight.
LEMMA SentRequests ==
  ASSUME NEW S, NEW s \in Seq(S), NEW q \in Seq(S), NEW id, NEW m,
         \A i \in DOMAIN q : NewRequest(q[i], id, m)
  PROVE  SentAfter(s, s \o q, id, m)
<1>1. PICK t : t = s \o q
  BY Zenon
<1>2. TwoJoined(S, s, q, t)
  BY <1>1, Joined, Zenon
<1> USE DEF TwoJoined
<1>3. DOMAIN t = 1..Len(t) /\ DOMAIN s = 1..Len(s) /\ DOMAIN q = 1..Len(q)
  BY <1>2
<1>4. ASSUME NEW i \in 1..Len(t)
      PROVE  (\E j \in DOMAIN s : t[i] = s[j]) \/ NewRequest(t[i], id, m)
  <2>1. CASE i \in 1..Len(s)
    BY <1>2, <1>3, <2>1, Zenon
  <2>2. ASSUME NEW j \in 1..Len(q), i = Len(s) + j PROVE NewRequest(t[i], id, m)
    <3>1. t[i] = q[j]
      BY <1>2, <2>2, Zenon
    <3> QED BY Zenon, <1>3, <3>1
  <2> QED BY Zenon, <1>2, <2>1, <2>2
<1> QED BY Zenon, <1>1, <1>3, <1>4 DEF SentAfter

\* The same when one of those in flight is taken out.
LEMMA SentAfterTaking ==
  ASSUME NEW S, NEW s \in Seq(S), NEW k \in DOMAIN s, NEW q \in Seq(S), NEW id, NEW m,
         \A i \in DOMAIN q : NewRequest(q[i], id, m)
  PROVE  SentAfter(s, RemoveAt(s, k) \o q, id, m)
<1>1. PICK r : r = RemoveAt(s, k)
  OBVIOUS
<1>2. k \in 1..Len(s)
  OBVIOUS
<1>3. r \in Seq(S) /\ Within(s, s[k], r)
  BY Zenon, <1>1, <1>2, Taken
<1>4. SentAfter(r, r \o q, id, m)
  BY Zenon, <1>3, SentRequests
<1>5. PICK t : t = r \o q
  BY Zenon
<1>6. SentAfter(s, t, id, m)
  <2> SUFFICES ASSUME NEW i \in DOMAIN t, ~NewRequest(t[i], id, m)
               PROVE  \E j \in DOMAIN s : t[i] = s[j]
    BY Zenon DEF SentAfter
  <2>1. PICK j \in DOMAIN r : t[i] = r[j]
    BY Zenon, <1>4, <1>5 DEF SentAfter
  <2> QED BY Zenon, <1>3, <2>1 DEF Within
<1> QED BY Zenon, <1>1, <1>5, <1>6

\* What the component sends when it is told to load an indice.
LEMMA LoadRequests ==
  ASSUME NEW id \in Indices, timeSelected \in {"AllTime", "Today"}, NEW D, 0 \in D, NEW A, <<>> \in A, 0 \in A
  PROVE  /\ Load(id) \in Seq(Requests(D, A))
         /\ \A i \in DOMAIN Load(id) : NewRequest(Load(id)[i], id, maxDate)
<1>1. PICK r, q : r = getTotal(id) /\ q = getIndiceVals(id, timeSelected)
  BY Zenon
<1>2. r \in Requests(D, A) /\ q \in Requests(D, A)
  BY Zenon, <1>1, RequestType DEF getTotal, getIndiceVals, Kinds
<1>3. NewRequest(r, id, maxDate) /\ NewRequest(q, id, maxDate)
  BY Zenon, <1>1 DEF getTotal, getIndiceVals, Request, NewRequest
<1>4. Load(id) = <<r, q>>
  BY Zenon, <1>1 DEF Load
<1> QED BY <1>2, <1>3, <1>4

\* The steps that are not answers of the back-end.
Otherwise ==
  \/ addVal \/ Archive \/ Tick \/ ngOnDestroy \/ UNCHANGED vars
  \/ \E k : Apply(k) \/ OnError(k)
  \/ \E i \in Indices : clickIndice(i)
  \/ \E t \in {"AllTime", "Today"} : changeTime(t)

\* Every request in flight was in flight before or is a new one, for the indice
\* selected now and the values after the last one shown.
LEMMA NetSource ==
  ASSUME FInv, Otherwise
  PROVE  SentAfter(net, net', indiceSelected', maxDate)
<1>1. PICK D, A : net \in Seq(Requests(D, A)) /\ 0 \in D /\ maxDate \in D
          /\ <<>> \in A /\ 0 \in A
  <2>1. PICK D, A : net \in Seq(Requests(D, A))
    BY DEF FInv, NetInv, Network
  <2>2. net \in Seq(Requests(D \cup {0}, A \cup {<<>>, 0}))
    BY Zenon, <2>1, Widen
  <2>3. net \in Seq(Requests((D \cup {0}) \cup {maxDate}, (A \cup {<<>>, 0}) \cup {<<>>, 0}))
    BY Zenon, <2>2, Widen
  <2> QED BY <2>3
<1> DEFINE R == Requests(D, A)
<1>2. <<>> \in Seq(R) /\ \A i \in DOMAIN <<>> : NewRequest(<<>>[i], indiceSelected', maxDate)
  OBVIOUS
<1>3. timeSelected \in {"AllTime", "Today"} /\ indiceSelected \in Indices \cup {NoIndice}
  BY DEF FInv, NetInv
<1> HIDE DEF R
<1>4. net \in Seq(R)
  BY <1>1 DEF R
<1>5. ASSUME NEW k \in DOMAIN net, TakeAndSend(k, <<>>)
      PROVE  SentAfter(net, net', indiceSelected', maxDate)
  BY Zenon, <1>2, <1>4, <1>5, SentAfterTaking DEF TakeAndSend
<1>6. CASE UNCHANGED net
  BY Zenon, <1>6 DEF SentAfter
<1>7. ASSUME NEW k, OnList(k) PROVE SentAfter(net, net', indiceSelected', maxDate)
  <2>1. k \in DOMAIN net /\ net[k].ans \in Seq(Indices)
    BY <1>7 DEF OnList, Arrives, FInv, NetInv, Network, AnsOK
  <2>2. CASE net[k].ans = <<>>
    BY Zenon, <1>5, <1>7, <2>1, <2>2 DEF OnList
  <2>3. CASE net[k].ans # <<>>
    <3>1. PICK id \in Indices : id = net[k].ans[1]
      BY SMTT(30), <2>1, <2>3
    <3>2. indiceSelected' = id /\ net' = RemoveAt(net, k) \o Load(id)
      BY Zenon, <1>7, <2>3, <3>1 DEF OnList, TakeAndSend
    <3>3. Load(id) \in Seq(R) /\ \A i \in DOMAIN Load(id) : NewRequest(Load(id)[i], id, maxDate)
      BY Zenon, <1>1, <1>3, LoadRequests DEF R
    <3>4. SentAfter(net, RemoveAt(net, k) \o Load(id), id, maxDate)
      <4>1. PICK q, s, m : q = Load(id) /\ s = net /\ m = maxDate
        BY Zenon
      <4>2. s \in Seq(R) /\ k \in DOMAIN s /\ q \in Seq(R) /\ \A i \in DOMAIN q : NewRequest(q[i], id, m)
        BY Zenon, <1>4, <2>1, <3>3, <4>1
      <4>3. SentAfter(s, RemoveAt(s, k) \o q, id, m)
        BY Zenon, <4>2, SentAfterTaking
      <4> QED BY Zenon, <4>1, <4>3
    <3> QED BY Zenon, <3>2, <3>4
  <2> QED BY <2>2, <2>3
<1>8. ASSUME NEW k, OnTotal(k) \/ OnVals(k) \/ OnNew(k) \/ OnError(k)
      PROVE  SentAfter(net, net', indiceSelected', maxDate)
  BY Zenon, <1>5, <1>8 DEF OnTotal, OnVals, OnValsWith, OnNew, OnNewWith, OnError, Arrives
<1>9. CASE Tick
  <2>1. PICK r : r = getNewVals
    BY Zenon
  <2>2. r \in R /\ NewRequest(r, indiceSelected, maxDate)
    BY Zenon, <1>1, <1>3, <2>1, RequestType DEF getNewVals, Request, NewRequest, R, Kinds
  <2>3. <<r>> \in Seq(R) /\ \A i \in DOMAIN <<r>> : NewRequest(<<r>>[i], indiceSelected, maxDate)
    BY <2>2
  <2>4. SentAfter(net, net \o <<r>>, indiceSelected, maxDate)
    BY Zenon, <1>4, <2>3, SentRequests
  <2>5. net' = net \o <<r>> /\ indiceSelected' = indiceSelected
    BY Zenon, <1>4, <1>9, <2>1, <2>2, AppendIsConcat DEF Tick
  <2> QED BY Zenon, <2>4, <2>5
<1>10. ASSUME NEW id \in Indices, clickIndice(id) PROVE SentAfter(net, net', indiceSelected', maxDate)
  <2>1. indiceSelected' = id /\ net' = net \o Load(id)
    BY Zenon, <1>10 DEF clickIndice, Click
  <2>2. Load(id) \in Seq(R) /\ \A i \in DOMAIN Load(id) : NewRequest(Load(id)[i], id, maxDate)
    BY <1>1, <1>3, LoadRequests DEF R
  <2>3. SentAfter(net, net \o Load(id), id, maxDate)
    BY Zenon, <1>4, <2>2, SentRequests
  <2> QED BY Zenon, <2>1, <2>3
<1>11. ASSUME NEW h \in {"AllTime", "Today"}, changeTime(h)
       PROVE  SentAfter(net, net', indiceSelected', maxDate)
  <2>1. PICK r : r = getIndiceVals(indiceSelected, h)
    BY Zenon
  <2>2. r \in R /\ NewRequest(r, indiceSelected, maxDate)
    BY Zenon, <1>1, <1>3, <2>1, RequestType DEF getIndiceVals, Request, NewRequest, R, Kinds
  <2>3. <<r>> \in Seq(R) /\ \A i \in DOMAIN <<r>> : NewRequest(<<r>>[i], indiceSelected, maxDate)
    BY <2>2
  <2>4. SentAfter(net, net \o <<r>>, indiceSelected, maxDate)
    BY Zenon, <1>4, <2>3, SentRequests
  <2>5. net' = net \o <<r>> /\ indiceSelected' = indiceSelected
    BY Zenon, <1>11, <2>1 DEF changeTime, Click
  <2> QED BY Zenon, <2>4, <2>5
<1>12. addVal \/ Archive \/ ngOnDestroy \/ UNCHANGED vars => UNCHANGED net
  BY Zenon DEF addVal, Archive, ngOnDestroy, vars
<1> QED BY Zenon, <1>6, <1>7, <1>8, <1>9, <1>10, <1>11, <1>12 DEF Otherwise, Apply

-----------------------------------------------------------------------------
(* The chart is clean.                                                     *)

\* The chart that getIndiceVals draws.
LEMMA FirstChart ==
  ASSUME NEW E, NEW T \in Seq(Vals), NEW s, NEW id, NEW m \in Nat, NEW o,
         Good(s, id, 0, o, E, T),
         s # <<>> => m = s[Len(s)].date
  PROVE  Clean(s, id, m, Len(s), o, E, T)
<1>1. s \in Seq(Vals) /\ Ordered(s)
  BY Zenon DEF Good, Held
<1>2. ASSUME NEW j \in 1..Len(T), T[j].id = id, T[j].date <= m,
             NEW i \in 1..Len(s)
      PROVE  Covers(s, T[j].date) \/ LeftOut(s, Len(s), o, T[j].date)
  <2>1. T[j] \in Vals
    OBVIOUS
  <2>2. T[j].date \in Nat /\ T[j].date > 0
    BY <2>1 DEF Vals
  <2>3. Len(s) \in 1..Len(s) /\ m = s[Len(s)].date
    BY <1>1
  <2>4. CASE Past(s, T[j].date)
    <3>1. m <= T[j].date
      BY Zenon, <2>3, <2>4 DEF Past
    <3>2. m = T[j].date
      BY <1>2, <2>2, <3>1
    <3> QED BY Zenon, <2>3, <3>2 DEF Covers
  <2> QED BY Zenon, <1>2, <2>2, <2>4 DEF Good
<1> QED BY Zenon, <1>2 DEF Clean, Good

\* The chart that getNewVals makes longer.
LEMMA LongerChart ==
  ASSUME NEW E, NEW T \in Seq(Vals), NEW c, NEW x, NEW s, NEW id, NEW m \in Nat,
         NEW n, NEW o, Clean(c, id, m, n, o, E, T), Good(x, id, m, 0, E, T), x # <<>>, s = c \o x
  PROVE  Clean(s, id, x[Len(x)].date, n, o, E, T)
<1>1. c \in Seq(Vals) /\ Ordered(c) /\ x \in Seq(Vals) /\ Ordered(x)
  BY DEF Clean, Good, Held
<1>2. TwoJoined(Vals, c, x, s)
  BY Zenon, <1>1, Joined
<1>3. /\ s \in Seq(Vals) /\ Len(s) = Len(c) + Len(x) /\ Len(c) \in Nat /\ Len(x) \in Nat \ {0}
      /\ \A i \in 1..Len(c) : i \in 1..Len(s) /\ s[i] = c[i]
      /\ \A i \in 1..Len(x) : Len(c) + i \in 1..Len(s) /\ s[Len(c) + i] = x[i]
      /\ \A i \in 1..Len(s) : i \in 1..Len(c) \/ \E j \in 1..Len(x) : i = Len(c) + j
  BY <1>1, <1>2 DEF TwoJoined
<1>4. \A i \in 1..Len(c) : c[i].date \in Nat /\ c[i].date <= m
  <2> SUFFICES ASSUME NEW i \in 1..Len(c) PROVE c[i].date \in Nat /\ c[i].date <= m
    BY Zenon
  <2>1. c # <<>> /\ m = c[Len(c)].date
    BY Zenon, <1>1, HasLast DEF Clean
  <2> QED BY Zenon, <1>1, <2>1, LastDate
<1>5. \A i \in 1..Len(x) : x[i].date \in Nat /\ x[i].date > m /\ x[i].date <= x[Len(x)].date
  BY Zenon, <1>1, LastDate DEF Good
<1>6. Ordered(s)
  <2>1. \A i \in 1..Len(c) : \A j \in 1..Len(x) : c[i] # x[j] /\ c[i].date <= x[j].date
    <3> SUFFICES ASSUME NEW i \in 1..Len(c), NEW j \in 1..Len(x)
                 PROVE  c[i] # x[j] /\ c[i].date <= x[j].date
      BY Zenon
    <3>1. c[i].date < x[j].date
      BY SMTT(30), <1>4, <1>5
    <3> QED BY SMTT(30), <1>4, <1>5, <3>1
  <2> QED BY Zenon, <1>1, <2>1, OrderedJoined
<1>7. Held(s, id, E)
  <2>1. /\ \A i \in 1..Len(c) : c[i].id = id /\ \E j \in 1..Len(E) : c[i] = E[j]
        /\ \A i \in 1..Len(x) : x[i].id = id /\ \E j \in 1..Len(E) : x[i] = E[j]
    BY Zenon DEF Clean, Good, Held
  <2>2. ASSUME NEW i \in 1..Len(s)
        PROVE  (\E a \in 1..Len(c) : s[i] = c[a]) \/ \E b \in 1..Len(x) : s[i] = x[b]
    <3>1. CASE i \in 1..Len(c)
      BY <1>3, <3>1, Zenon
    <3>2. ASSUME NEW b \in 1..Len(x), i = Len(c) + b PROVE s[i] = x[b]
      BY <1>3, <3>2, Zenon
    <3> QED BY <1>3, <3>1, <3>2, Zenon
  <2>3. \A i \in 1..Len(s) : s[i].id = id /\ \E j \in 1..Len(E) : s[i] = E[j]
    <3> SUFFICES ASSUME NEW i \in 1..Len(s)
                 PROVE  s[i].id = id /\ \E j \in 1..Len(E) : s[i] = E[j]
      BY Zenon
    <3>1. PICK v : v = s[i]
      BY Zenon
    <3>2. ASSUME NEW a \in 1..Len(c), v = c[a] PROVE v.id = id /\ \E j \in 1..Len(E) : v = E[j]
      BY Zenon, <2>1, <3>2
    <3>3. ASSUME NEW b \in 1..Len(x), v = x[b] PROVE v.id = id /\ \E j \in 1..Len(E) : v = E[j]
      BY Zenon, <2>1, <3>3
    <3> QED BY Zenon, <2>2, <3>1, <3>2, <3>3
  <2> QED BY Zenon, <1>3, <1>6, <2>3 DEF Held
<1>8. Len(x) \in 1..Len(x) /\ s[Len(s)] = x[Len(x)]
  <2>1. Len(x) \in 1..Len(x)
    BY SMTT(30), <1>3
  <2> QED BY Zenon, <1>3, <2>1
<1>9. ASSUME NEW j \in 1..Len(T), T[j].id = id, T[j].date <= x[Len(x)].date,
             NEW i \in 1..Len(s), s[i].date <= T[j].date
      PROVE  Covers(s, T[j].date) \/ LeftOut(s, n, o, T[j].date)
  <2>1. T[j] \in Vals
    OBVIOUS
  <2>2. T[j].date \in Nat
    BY Zenon, <2>1 DEF Vals
  <2>3. CASE T[j].date > m
    <3>1. CASE Covers(x, T[j].date)
      <4>1. PICK b \in 1..Len(x) : x[b].date = T[j].date
        BY Zenon, <3>1 DEF Covers
      <4>2. PICK e : e \in 1..Len(s) /\ s[e] = x[b]
        BY Zenon, <1>3
      <4> QED BY Zenon, <4>1, <4>2 DEF Covers
    <3>2. CASE Past(x, T[j].date)
      <4>1. x[Len(x)].date <= T[j].date
        BY Zenon, <1>8, <3>2 DEF Past
      <4>2. x[Len(x)].date = T[j].date
        BY Zenon, <1>5, <1>8, <1>9, <2>2, <4>1, SameDate
      <4>3. Len(s) \in 1..Len(s)
        BY SMTT(30), <1>3
      <4> QED BY Zenon, <1>8, <4>2, <4>3 DEF Covers
    <3> QED BY Zenon, <1>9, <2>3, <3>1, <3>2 DEF Good, LeftOut
  <2>4. CASE T[j].date <= m
    <3>1. i \in 1..Len(c)
      <4> SUFFICES ASSUME NEW b \in 1..Len(x), i = Len(c) + b PROVE FALSE
        BY Zenon, <1>3
      <4>1. s[i] = x[b]
        BY Zenon, <1>3
      <4> QED BY SMTT(30), <1>5, <1>9, <2>2, <2>4, <4>1
    <3>2. c[i].date <= T[j].date
      BY Zenon, <1>3, <1>9, <3>1
    <3>3. Covers(c, T[j].date) \/ LeftOut(c, n, o, T[j].date)
      BY Zenon, <1>9, <2>4, <3>1, <3>2 DEF Clean
    <3>4. Covers(c, T[j].date) => Covers(s, T[j].date)
      BY SMTT(30), <1>3 DEF Covers
    <3>5. LeftOut(c, n, o, T[j].date) => LeftOut(s, n, o, T[j].date)
      BY Zenon, <1>3 DEF LeftOut
    <3> QED BY Zenon, <3>3, <3>4, <3>5
  <2> QED BY Zenon, <2>2, <2>3, <2>4, AfterOrNot
<1> QED BY Zenon, <1>7, <1>8, <1>9 DEF Clean

\* The answers in flight are good for what is stored now, whatever was stored
\* when they were given, and the chart is clean.
ReqGood(r, E, T) ==
  /\ r.date \in Nat /\ (r.kind = "vals" => r.date = 0)
  /\ r.kind \in {"vals", "new"} /\ r.done => Good(r.ans, r.id, r.date, r.out, E, T)
  /\ r.kind = "new" /\ r.done => r.out = 0
  /\ r.kind = "vals" /\ r.done => r.out \in Nat

NetGood(s, E, T) == \A k \in DOMAIN s : ReqGood(s[k], E, T)

ChartGood(E, T) ==
  chartDatasets # <<>> /\ ~mixed => Clean(chartDatasets[1], chartOf[1], maxDate, loaded, left, E, T)

SeriesInv ==
  /\ StoreInv /\ maxDate \in Nat
  /\ NetGood(net, Everything, table) /\ ChartGood(Everything, table)

\* A new request is good, having no answer.
LEMMA NewGood ==
  ASSUME NEW r, NEW id, NEW m \in Nat, NewRequest(r, id, m), NEW E, NEW T
  PROVE  ReqGood(r, E, T)
BY DEF NewRequest, ReqGood

\* What the back-end answers is good.
LEMMA ServeGood ==
  ASSUME FInv, SeriesInv, NEW k, Serve(k)
  PROVE  NetGood(net', Everything, table)
<1>0. StoreInv /\ table \in Seq(Vals)
  BY Zenon DEF SeriesInv, StoreInv
<1>1. \E x, o : /\ AnswerPart(k, x, o) /\ k \in DOMAIN net
                /\ \/ net[k].kind = "list" \/ net[k].kind = "total"
                   \/ net[k].kind = "vals" /\ o \in Nat /\ Good(x, net[k].id, 0, o, Everything, table)
                   \/ /\ net[k].kind = "new" /\ o = 0
                      /\ Good(x, net[k].id, net[k].date, 0, Everything, table)
  <2>1. CASE ServeList(k) \/ ServeTotal(k)
    BY Zenon, <2>1 DEF ServeList, ServeTotal, Answer, Asked
  <2>2. CASE ServeVals(k)
    <3>1. PICK x, o : AnswerPart(k, x, o) /\ Whole(x, o, net[k].id, Everything, table)
      BY Zenon, <1>0, <2>2, ServedTable, ServedBoth DEF ServeVals
    <3>2. PICK E, T, id : E = Everything /\ T = table /\ id = net[k].id
      BY Zenon
    <3>3. Good(x, id, 0, o, E, T)
      BY Zenon, <1>0, <3>1, <3>2, WholeGood
    <3> QED BY Zenon, <2>2, <3>1, <3>2, <3>3 DEF Whole, ServeVals, ServeBoth, ServeTable, Asked
  <2>3. CASE ServeNew(k)
    BY Zenon, <1>0, <2>3, SinceGood DEF ServeNew, NewSince, Answer, Asked
  <2> QED BY Zenon, <2>1, <2>2, <2>3 DEF Serve
<1>2. PICK x, o : /\ AnswerPart(k, x, o) /\ k \in DOMAIN net
                  /\ \/ net[k].kind = "list" \/ net[k].kind = "total"
                     \/ net[k].kind = "vals" /\ o \in Nat /\ Good(x, net[k].id, 0, o, Everything, table)
                     \/ /\ net[k].kind = "new" /\ o = 0
                        /\ Good(x, net[k].id, net[k].date, 0, Everything, table)
  BY Zenon, <1>1
<1>3. net' = Marked(net, k, x, o)
  BY Zenon, <1>2 DEF AnswerPart, Marked
<1>4. DOMAIN net' = DOMAIN net /\ \A i \in DOMAIN net' : i # k => net'[i] = net[i]
  BY Zenon, <1>3 DEF Marked
<1>5. PICK D, A : net \in Seq(Requests(D, A))
  BY DEF FInv, NetInv, Network
<1>6. /\ net'[k].ans = x /\ net'[k].out = o /\ net'[k].kind = net[k].kind
      /\ net'[k].id = net[k].id /\ net'[k].date = net[k].date
  <2>1. net'[k] = [[[net[k] EXCEPT !.done = TRUE] EXCEPT !.ans = x] EXCEPT !.out = o]
    BY Zenon, <1>2, <1>3 DEF Marked
  <2>2. k \in DOMAIN net
    BY Zenon, <1>2
  <2>3. k \in 1..Len(net)
    BY <1>5, <2>2
  <2>4. net[k] \in Requests(D, A)
    BY Zenon, <1>5, <2>3, ElementOfSeq
  <2> QED BY Zenon, <2>1, <2>4 DEF Requests
<1>7. ReqGood(net[k], Everything, table)
  BY Zenon, <1>2 DEF SeriesInv, NetGood
<1>8. ReqGood(net'[k], Everything, table)
  <2>1. PICK y : y = net'[k]
    BY Zenon
  <2>2. y.date \in Nat /\ (y.kind = "vals" => y.date = 0)
    BY Zenon, <1>6, <1>7, <2>1 DEF ReqGood
  <2>3. y.kind \in {"vals", "new"} => Good(y.ans, y.id, y.date, y.out, Everything, table)
    BY Zenon, <1>2, <1>6, <2>1, <2>2
  <2>4. (y.kind = "new" => y.out = 0) /\ (y.kind = "vals" => y.out \in Nat)
    BY Zenon, <1>2, <1>6, <2>1
  <2> QED BY Zenon, <2>1, <2>2, <2>3, <2>4 DEF ReqGood
<1> QED BY Zenon, <1>4, <1>8 DEF SeriesInv, NetGood

\* The values that getIndiceVals asked for.
LEMMA ValsChart ==
  ASSUME FInv, SeriesInv, NEW k, OnVals(k)
  PROVE  maxDate' \in Nat /\ ChartGood(Everything, table)'
<1>1. UNCHANGED stores
  BY Zenon DEF OnVals, OnValsWith
<1>2. Everything' = Everything /\ table' = table
  BY <1>1 DEF stores, Everything
<1>3. /\ k \in DOMAIN net /\ net[k].kind = "vals" /\ net[k].done
      /\ chartDatasets' = <<net[k].ans>> /\ chartOf' = <<net[k].id, net[k].time>>
      /\ loaded' = Len(net[k].ans) /\ left' = net[k].out
      /\ \/ net[k].ans # <<>> /\ maxDate' = Last(net[k].ans).date
         \/ net[k].ans = <<>> /\ maxDate' = maxDate
  BY Zenon DEF OnVals, OnValsWith, Arrives
<1>4. PICK x, id, o : x = net[k].ans /\ id = net[k].id /\ o = net[k].out
  BY Zenon
<1>5. Good(x, id, 0, o, Everything, table)
  BY Zenon, <1>3, <1>4 DEF SeriesInv, NetGood, ReqGood
<1>6. x \in Seq(Vals) /\ Ordered(x) /\ table \in Seq(Vals) /\ maxDate \in Nat
  BY Zenon, <1>5 DEF Good, Held, SeriesInv, StoreInv
<1>7. maxDate' \in Nat /\ (x # <<>> => maxDate' = x[Len(x)].date)
  <2>1. CASE x = <<>>
    BY Zenon, <1>3, <1>4, <1>6, <2>1
  <2>2. CASE x # <<>>
    <3>1. Len(x) \in 1..Len(x)
      BY <1>6, <2>2
    <3> QED BY Zenon, <1>3, <1>4, <1>6, <2>2, <3>1, LastDate DEF Last
  <2> QED BY Zenon, <2>1, <2>2
<1>8. PICK m \in Nat : m = maxDate'
  BY Zenon, <1>7
<1>9. Clean(x, id, m, Len(x), o, Everything, table)
  <2>1. PICK E, T : E = Everything /\ T = table
    BY Zenon
  <2>2. Good(x, id, 0, o, E, T) /\ T \in Seq(Vals) /\ (x # <<>> => m = x[Len(x)].date)
    BY Zenon, <1>5, <1>6, <1>7, <1>8, <2>1
  <2>3. Clean(x, id, m, Len(x), o, E, T)
    BY Zenon, <2>2, FirstChart
  <2> QED BY Zenon, <2>1, <2>3
<1>10. chartDatasets'[1] = x /\ chartOf'[1] = id /\ loaded' = Len(x) /\ left' = o
  BY Zenon, <1>3, <1>4
<1> QED BY Zenon, <1>2, <1>7, <1>8, <1>9, <1>10 DEF ChartGood

\* The values that getNewVals polled.
LEMMA NewChart ==
  ASSUME FInv, SeriesInv, NEW k, OnNew(k)
  PROVE  maxDate' \in Nat /\ ChartGood(Everything, table)'
<1>1. UNCHANGED stores
  BY Zenon DEF OnNew, OnNewWith
<1>2. Everything' = Everything /\ table' = table
  BY <1>1 DEF stores, Everything
<1>3. /\ k \in DOMAIN net /\ net[k].kind = "new" /\ net[k].done
      /\ chartOf' = chartOf /\ loaded' = loaded /\ left' = left
      /\ \/ /\ net[k].ans # <<>> /\ chartDatasets' = <<chartDatasets[1] \o net[k].ans>>
            /\ maxDate' = Last(net[k].ans).date
            /\ mixed' = (mixed \/ net[k].id # chartOf[1] \/ net[k].date # maxDate)
         \/ UNCHANGED <<chartDatasets, maxDate, mixed>>
  BY Zenon DEF OnNew, OnNewWith, Arrives
<1>4. PICK x, id, d : x = net[k].ans /\ id = net[k].id /\ d = net[k].date
  BY Zenon
<1>5. Good(x, id, d, 0, Everything, table)
  BY Zenon, <1>3, <1>4 DEF SeriesInv, NetGood, ReqGood
<1>6. x \in Seq(Vals) /\ Ordered(x) /\ table \in Seq(Vals) /\ maxDate \in Nat
  BY Zenon, <1>5 DEF Good, Held, SeriesInv, StoreInv
<1>7. CASE UNCHANGED <<chartDatasets, maxDate, mixed>>
  <2>1. /\ chartDatasets' = chartDatasets /\ maxDate' = maxDate /\ mixed' = mixed
        /\ chartOf' = chartOf /\ loaded' = loaded /\ left' = left
    BY Zenon, <1>3, <1>7
  <2>2. maxDate \in Nat /\ ChartGood(Everything, table)
    BY Zenon DEF SeriesInv
  <2> QED BY Zenon, <1>2, <2>1, <2>2 DEF ChartGood
<1>8. CASE /\ x # <<>> /\ chartDatasets' = <<chartDatasets[1] \o x>>
           /\ maxDate' = Last(x).date
           /\ mixed' = (mixed \/ id # chartOf[1] \/ d # maxDate)
  <2>1. Len(x) \in 1..Len(x)
    BY SMTT(30), <1>6, <1>8
  <2>2. maxDate' = x[Len(x)].date /\ maxDate' \in Nat
    BY Zenon, <1>6, <1>8, <2>1, LastDate DEF Last
  <2>3. chartDatasets # <<>>
    BY Zenon, <1>3 DEF FInv, PageInv, Has
  <2>4. ASSUME ~mixed'
        PROVE  Clean(chartDatasets'[1], chartOf[1], maxDate', loaded, left, Everything, table)
    <3>1. ~mixed /\ id = chartOf[1] /\ d = maxDate
      BY <1>8, <2>4, Zenon
    <3>2. PICK c : c = chartDatasets[1]
      BY Zenon
    <3>3. Clean(c, id, d, loaded, left, Everything, table)
      BY Zenon, <2>3, <3>1, <3>2 DEF SeriesInv, ChartGood
    <3>4. PICK s : s = c \o x
      BY Zenon
    <3>5. Clean(s, id, x[Len(x)].date, loaded, left, Everything, table)
      BY Zenon, <1>5, <1>6, <1>8, <3>1, <3>3, <3>4, LongerChart
    <3>6. chartDatasets'[1] = s
      BY <1>8, <3>2, <3>4
    <3> QED BY Zenon, <2>2, <3>1, <3>5, <3>6
  <2> QED BY Zenon, <1>2, <1>3, <2>2, <2>4 DEF ChartGood
<1> QED BY Zenon, <1>3, <1>4, <1>7, <1>8

\* Every step keeps it.
LEMMA SeriesStep ==
  ASSUME FInv, SeriesInv, [Next]_vars
  PROVE  SeriesInv'
<1>1. StoreInv' /\ Grown(Everything, table, Everything', table')
  BY Zenon, StoreStep DEF SeriesInv
<1>2. PICK E, T, E2, T2 : E = Everything /\ T = table /\ E2 = Everything' /\ T2 = table'
  BY Zenon
<1>3. E \in Seq(Vals) /\ T \in Seq(Vals) /\ T2 \in Seq(Vals) /\ Grown(E, T, E2, T2) /\ maxDate \in Nat
  BY Zenon, <1>1, <1>2, TableIn DEF SeriesInv, StoreInv
<1>4. NetGood(net, E2, T2)
  <2> SUFFICES ASSUME NEW k \in DOMAIN net PROVE ReqGood(net[k], E2, T2)
    BY DEF NetGood
  <2>1. PICK r : r = net[k]
    BY Zenon
  <2>2. ReqGood(r, E, T)
    BY Zenon, <1>2, <2>1 DEF SeriesInv, NetGood
  <2>3. \A a, id, d, o : Good(a, id, d, o, E, T) => Good(a, id, d, o, E2, T2)
    BY Zenon, <1>3, GoodKept
  <2> QED BY Zenon, <2>1, <2>2, <2>3 DEF ReqGood
<1>5. chartDatasets # <<>> /\ ~mixed => Clean(chartDatasets[1], chartOf[1], maxDate, loaded, left, E2, T2)
  <2>1. PICK c, id, m, n, o : /\ c = chartDatasets[1] /\ id = chartOf[1] /\ m = maxDate
                              /\ n = loaded /\ o = left
    BY Zenon
  <2>2. Clean(c, id, m, n, o, E, T) => Clean(c, id, m, n, o, E2, T2)
    BY Zenon, <1>3, <2>1, CleanKept
  <2> QED BY Zenon, <1>2, <2>1, <2>2 DEF SeriesInv, ChartGood
<1>6. NetGood(net', E2, T2)
  <2>1. ASSUME NEW k, Serve(k) PROVE NetGood(net', E2, T2)
    <3>1. UNCHANGED stores
      BY Zenon, <2>1, AnswerNet
    <3>2. E2 = E /\ T2 = T
      BY SMTT(30), <1>2, <3>1 DEF stores, Everything
    <3> QED BY <1>2, <2>1, <3>2, ServeGood
  <2>2. CASE Otherwise
    <3>1. PICK id : SentAfter(net, net', id, maxDate)
      BY Zenon, <2>2, NetSource
    <3> QED BY Zenon, <1>3, <1>4, <3>1, NewGood DEF SentAfter, NetGood
  <2>3. (\E k : Serve(k)) \/ Otherwise
    BY Zenon DEF Next, Otherwise
  <2> QED BY Zenon, <2>1, <2>2, <2>3
<1>7. maxDate' \in Nat /\ ChartGood(Everything, table)'
  <2>1. CASE UNCHANGED chart
    BY Zenon, <1>2, <1>3, <1>5, <2>1 DEF chart, ChartGood
  <2>2. UNCHANGED chart \/ \E k : OnVals(k) \/ OnNew(k)
    BY Zenon DEF Next, vars, Serve, ServeList, ServeTotal, ServeVals, ServeBoth, ServeTable, ServeNew, Answer, AnswerPart, Apply, OnList,
       OnTotal, OnError, Tick, clickIndice, changeTime, Click, ngOnDestroy, addVal, Archive
  <2> QED BY <2>1, <2>2, ValsChart, NewChart
<1> QED BY Zenon, <1>1, <1>2, <1>6, <1>7 DEF SeriesInv

\* The stores, the answers in flight and the chart agree, in every state.
LEMMA Series == Spec => []SeriesInv
<1>1. Init => SeriesInv
  <2> SUFFICES ASSUME Init PROVE SeriesInv
    OBVIOUS
  <2>1. files = <<>> /\ table = <<>> /\ Everything = <<>> /\ Len(Everything) = 0
    BY DEF Init, Everything
  <2>2. StoreInv
    BY <2>1 DEF StoreInv, Ordered
  <2>3. PICK r : r = Request("list", NoIndice, "none", 0) /\ net = <<r>>
    BY Zenon DEF Init
  <2>4. ReqGood(r, Everything, table)
    BY <2>3 DEF Request, ReqGood
  <2>5. NetGood(net, Everything, table)
    BY SMTT(30), <2>3, <2>4 DEF NetGood
  <2> QED BY Zenon, <2>2, <2>5 DEF SeriesInv, ChartGood, Init
<1> QED BY <1>1, SeriesStep, Invariant, PTL DEF Spec

\* The chart shows values of one indice, each once and by date, unless a poll
\* sent for an earlier state of the chart was applied to it.
THEOREM SeriesTheorem == Spec => []SeriesClean
<1>1. SeriesInv => SeriesClean
  <2> SUFFICES ASSUME SeriesInv, chartDatasets # <<>>, ~mixed, NEW c, c = chartDatasets[1],
                      NEW i \in DOMAIN c
               PROVE  /\ c[i].id = chartOf[1]
                      /\ \A j \in 1..i - 1 : c[j] # c[i] /\ c[j].date <= c[i].date
    BY Zenon DEF SeriesClean
  <2>1. Held(c, chartOf[1], Everything)
    BY Zenon DEF SeriesInv, ChartGood, Clean
  <2>2. c \in Seq(Vals) /\ Ordered(c) /\ i \in 1..Len(c)
    BY <2>1 DEF Held
  <2>3. \A j \in 1..i - 1 : j \in 1..Len(c) /\ j < i
    BY <2>2
  <2>4. \A j \in 1..i - 1 : c[j] # c[i] /\ c[j].date <= c[i].date
    BY <2>2, <2>3, Zenon DEF Ordered
  <2> QED BY Zenon, <2>1, <2>2, <2>4 DEF Held
<1> QED BY <1>1, Series, PTL

\* A value of the table that is missing inside the chart has the date of another
\* one that is shown: DATE > '...' skips only the values that come in the
\* second of the last one shown.  Or else it is older than the last value that
\* getIndiceVals brought, and MOD left values out: they were more than the limit.
THEOREM GapTheorem == Spec => []GapExplained
<1>1. SeriesInv => GapExplained
  <2> SUFFICES ASSUME SeriesInv, chartDatasets # <<>>, ~mixed, NEW c, c = chartDatasets[1],
                      NEW v \in Range(ValsOf(table, chartOf[1])), NEW w \in Range(c),
                      w.date <= v.date, v.date <= maxDate
               PROVE  \/ \E u \in Range(c) : u.date = v.date
                      \/ left # 0 /\ loaded + left > LIMIT /\ v.date < c[loaded].date
    BY Zenon DEF GapExplained
  <2>1. PICK id, m : id = chartOf[1] /\ m = maxDate
    BY Zenon
  <2>2. Clean(c, id, m, loaded, left, Everything, table)
    BY Zenon, <2>1 DEF SeriesInv, ChartGood
  <2>3. c \in Seq(Vals) /\ table \in Seq(Vals) /\ Ordered(table)
    BY Zenon, <2>2, TableIn DEF Clean, Held, SeriesInv, StoreInv
  <2>4. PICK i \in 1..Len(c) : w = c[i]
    BY <2>3 DEF Range
  <2>5. PICK x : x = ValsOf(table, id)
    BY Zenon
  <2>6. Selects(table, {a \in DOMAIN table : table[a].id = id}, Len(table), x)
    BY Zenon, <2>3, <2>5, SelectFinds DEF ValsOf
  <2>7. PICK b \in 1..Len(x) : v = x[b]
    <3>1. PICK b \in DOMAIN x : v = x[b]
      BY Zenon, <2>1, <2>5 DEF Range
    <3>2. x \in Seq(Vals)
      BY Zenon, <2>6 DEF Selects
    <3>3. DOMAIN x = 1..Len(x)
      BY <3>2
    <3> QED BY Zenon, <3>1, <3>3
  <2>8. PICK j \in 1..Len(table) : v = table[j] /\ table[j].id = id
    BY Zenon, <2>6, <2>7 DEF Selects
  <2>9. Covers(c, v.date) \/ LeftOut(c, loaded, left, v.date)
    BY Zenon, <2>1, <2>2, <2>4, <2>8 DEF Clean
  <2>10. Covers(c, v.date) => \E u \in Range(c) : u.date = v.date
    BY <2>3 DEF Covers, Range
  <2> QED BY Zenon, <2>9, <2>10 DEF LeftOut
<1> QED BY <1>1, Series, PTL

-----------------------------------------------------------------------------
(* Totals.tla: the total and the chart.                                    *)

\* While totals or values are awaited nothing moves, so that what was answered
\* since is the number of values stored now.
Counted(E, id) == Len(ValsOf(E, id))

\* Some values, with o left out, make n in all.
Makes(x, o, n) == n = Len(x) + o /\ (o # 0 => n > LIMIT)

Fresh(r, E) ==
  /\ r.kind = "total" /\ r.done => r.ans[2] \in {NaN, Counted(E, r.id)}
  /\ r.kind = "vals" /\ r.done => Makes(r.ans, r.out, Counted(E, r.id))

NetFresh(s, E) == \A k \in DOMAIN s : Fresh(s[k], E)

ChartFresh(E) ==
  chartDatasets # <<>> => Makes(chartDatasets[1], left, Counted(E, chartOf[1]))
NumbersFresh(E) == numbers # <<>> => numbers[2] \in {NaN, Counted(E, numbersOf)}

\* changeTime asked for a chart of another indice than the one of the totals.
Elsewhere ==
  /\ chartOf[1] # numbersOf /\ chartOf[1] = indiceSelected
  /\ \A k \in DOMAIN net : net[k].kind = "vals" => net[k].id = chartOf[1]

Agree ==
  chartDatasets # <<>> /\ numbers # <<>> /\ chartOf[1] = numbersOf =>
    numbers[2] = NaN \/ Makes(chartDatasets[1], left, numbers[2])

ChartSeq == left \in Nat /\ (chartDatasets # <<>> => chartDatasets[1] \in Seq(Vals))

AgreeInv ==
  /\ NetFresh(net, Everything)
  /\ Has(net, {"total"}) \/ Has(net, {"vals"}) =>
       /\ Has(net, {"vals"}) \/ ChartFresh(Everything)
       /\ Has(net, {"total"}) \/ NumbersFresh(Everything) \/ Elsewhere
  /\ ~Has(net, {"total"}) /\ ~Has(net, {"vals"}) => Agree

TotInv == ChartSeq /\ (~failed /\ ~torn => AgreeInv)

\* The same positions up to n, and those after the a first.
Alike(I, J, n) == \A i \in 1..n : i \in I <=> i \in J
Shifted(I, K, a, n) == \A i \in 1..n : a + i \in I <=> i \in K

\* Two sequences that begin alike, and the positions asked for too.
LEMMA SameStart ==
  ASSUME NEW s, NEW t, Len(s) \in Nat, Len(t) \in Nat, NEW I, NEW J,
         NEW m \in 0..Len(s), m <= Len(t),
         \A i \in 1..m : s[i] = t[i], Alike(I, J, m)
  PROVE  Selected(s, I)[m] = Selected(t, J)[m]
<1> DEFINE F == Selected(s, I)
           G == Selected(t, J)
           Bad == {n \in 0..m : F[n] # G[n]}
<1>0. m \in Nat /\ \A n \in 0..m : n \in 0..Len(s) /\ n \in 0..Len(t)
  OBVIOUS
<1>1. \A n \in 0..m : F[n] = UpTo(s, I, F, n) /\ G[n] = UpTo(t, J, G, n)
  <2>1. \A n \in 0..Len(s) : F[n] = UpTo(s, I, F, n)
    BY Zenon, SelectedIs
  <2>2. \A n \in 0..Len(t) : G[n] = UpTo(t, J, G, n)
    BY Zenon, SelectedIs
  <2> HIDE DEF F, G
  <2> QED BY Zenon, <1>0, <2>1, <2>2
<1> HIDE DEF F, G
<1>2. F[0] = G[0]
  BY <1>0, <1>1 DEF UpTo
<1>3. ASSUME Bad # {} PROVE FALSE
  <2>1. PICK n \in Bad : \A l \in Bad : n <= l
    <3>1. Bad \in SUBSET Nat
      BY <1>0
    <3> HIDE DEF Bad
    <3> QED BY <1>3, <3>1, Least
  <2>2. n \in 1..m /\ n # 0 /\ F[n] # G[n]
    BY <1>0, <1>2
  <2>3. n - 1 \in 0..m /\ n - 1 \notin Bad
    BY <1>0, <2>1, <2>2
  <2>4. F[n - 1] = G[n - 1]
    BY Zenon, <2>3
  <2>5. s[n] = t[n] /\ (n \in I <=> n \in J) /\ n \in 0..m
    BY <1>0, <2>2 DEF Alike
  <2> QED BY Zenon, <1>1, <2>2, <2>4, <2>5 DEF UpTo
<1>4. F[m] = G[m]
  BY <1>0, <1>3
<1> QED BY <1>4 DEF F, G

\* What is selected of two sequences, one after the other.
LEMMA SelectJoined ==
  ASSUME NEW S, NEW f \in Seq(S), NEW t \in Seq(S), NEW c, TwoJoined(S, f, t, c),
         NEW I, NEW J, NEW K,
         Alike(I, J, Len(f)), Shifted(I, K, Len(f), Len(t))
  PROVE  Len(Select(c, I)) = Len(Select(f, J)) + Len(Select(t, K))
<1> DEFINE F == Selected(c, I)
           H == Selected(t, K)
           a == Len(f)
           Right(n) == /\ F[a + n] \in Seq(S) /\ H[n] \in Seq(S)
                       /\ Len(F[a + n]) = Len(Select(f, J)) + Len(H[n])
           Bad == {n \in 0..Len(t) : ~Right(n)}
<1>0. /\ c \in Seq(S) /\ Len(c) = a + Len(t) /\ a \in Nat /\ Len(t) \in Nat /\ Len(c) \in Nat
      /\ \A i \in 1..a : i \in 1..Len(c) /\ c[i] = f[i]
      /\ \A i \in 1..Len(t) : a + i \in 1..Len(c) /\ c[a + i] = t[i]
  BY DEF TwoJoined
<1>1. /\ \A n \in 0..Len(c) : F[n] = UpTo(c, I, F, n)
      /\ \A n \in 0..Len(t) : H[n] = UpTo(t, K, H, n)
  BY Zenon, <1>0, SelectedIs
<1>2. F[a] = Select(f, J) /\ Select(f, J) \in Seq(S) /\ Len(Select(f, J)) \in Nat
  <2>1. a \in 0..Len(c) /\ a <= Len(f)
    BY <1>0
  <2>2. (\A i \in 1..a : c[i] = f[i]) /\ Alike(I, J, a)
    BY Zenon, <1>0
  <2>3. Selected(c, I)[a] = Selected(f, J)[a]
    <3>1. PICK m : m = a
      BY Zenon
    <3>2. Len(c) \in Nat /\ Len(f) \in Nat /\ m \in 0..Len(c) /\ m <= Len(f)
      BY Zenon, <1>0, <2>1, <3>1
    <3>3. (\A i \in 1..m : c[i] = f[i]) /\ Alike(I, J, m)
      BY Zenon, <2>2, <3>1
    <3>4. Selected(c, I)[m] = Selected(f, J)[m]
      BY SMTT(30), <3>2, <3>3, SameStart
    <3> QED BY Zenon, <3>1, <3>4
  <2>4. Select(f, J) \in Seq(S)
    BY Zenon, SelectLen
  <2> QED BY <2>3, <2>4 DEF Select
<1> HIDE DEF F, H
<1>3. Right(0)
  <2>1. H[0] = <<>>
    BY <1>0, <1>1 DEF UpTo
  <2>2. a + 0 = a /\ 0 \in 0..Len(t)
    BY <1>0
  <2>3. PICK y : y = Select(f, J) /\ y \in Seq(S) /\ Len(y) \in Nat
    BY Zenon, <1>2
  <2>4. F[a + 0] = y
    BY Zenon, <1>2, <2>2, <2>3
  <2>5. Len(y) = Len(y) + Len(<<>>) /\ <<>> \in Seq(S)
    BY <2>3
  <2> QED BY Zenon, <2>1, <2>3, <2>4, <2>5
<1>4. ASSUME NEW n \in 1..Len(t), Right(n - 1) PROVE Right(n)
  <2>0. /\ n \in Nat \ {0} /\ t[n] \in S /\ n \in 0..Len(t) /\ a + n \in 0..Len(c) /\ a + n # 0
        /\ (a + n) - 1 = a + (n - 1) /\ c[a + n] = t[n] /\ (a + n \in I <=> n \in K)
    BY <1>0 DEF Shifted
  <2>1. PICK y, z : y = F[a + (n - 1)] /\ z = H[n - 1]
    BY Zenon
  <2>2. y \in Seq(S) /\ z \in Seq(S) /\ Len(y) = Len(Select(f, J)) + Len(z)
    BY Zenon, <1>4, <2>1
  <2>3. /\ F[a + n] = IF n \in K THEN Append(y, t[n]) ELSE y
        /\ H[n] = IF n \in K THEN Append(z, t[n]) ELSE z
    BY Zenon, <1>1, <2>0, <2>1 DEF UpTo
  <2>4. CASE n \in K
    <3>1. F[a + n] = Append(y, t[n]) /\ H[n] = Append(z, t[n])
      BY <2>3, <2>4
    <3>2. /\ Append(y, t[n]) \in Seq(S) /\ Len(Append(y, t[n])) = Len(y) + 1 /\ Len(y) \in Nat
          /\ Append(z, t[n]) \in Seq(S) /\ Len(Append(z, t[n])) = Len(z) + 1 /\ Len(z) \in Nat
      <4>1. PICK e \in S : e = t[n]
        BY Zenon, <2>0
      <4>2. ASSUME NEW u \in Seq(S)
            PROVE  Append(u, e) \in Seq(S) /\ Len(Append(u, e)) = Len(u) + 1 /\ Len(u) \in Nat
        OBVIOUS
      <4> QED BY Zenon, <2>2, <4>1, <4>2
    <3>3. Len(y) + 1 = Len(Select(f, J)) + (Len(z) + 1)
      BY <1>2, <2>2, <3>2
    <3> QED BY Zenon, <3>1, <3>2, <3>3
  <2>5. CASE n \notin K
    BY Zenon, <2>2, <2>3, <2>5
  <2> QED BY Zenon, <2>4, <2>5
<1> HIDE DEF Right
<1>5. ASSUME Bad # {} PROVE FALSE
  <2>1. PICK m \in Bad : \A n \in Bad : m <= n
    <3>1. Bad \in SUBSET Nat
      BY <1>0
    <3> HIDE DEF Bad
    <3> QED BY <1>5, <3>1, Least
  <2>2. m \in 1..Len(t) /\ ~Right(m)
    BY <1>0, <1>3
  <2>3. m - 1 \in 0..Len(t) /\ m - 1 \notin Bad
    BY <1>0, <2>1, <2>2
  <2>4. Right(m - 1)
    BY Zenon, <2>3
  <2> QED BY Zenon, <1>4, <2>2, <2>4
<1>6. Right(Len(t))
  BY <1>0, <1>5
<1> QED BY <1>0, <1>6 DEF Right, F, H, Select

\* The values of an indice are those in the files and those in the table.
LEMMA CountJoined ==
  ASSUME StoreInv, NEW id
  PROVE  Counted(Everything, id) = Len(ValsOf(files, id)) + Len(ValsOf(table, id))
<1>1. files \in Seq(Vals) /\ table \in Seq(Vals) /\ Everything = files \o table
  BY Zenon DEF StoreInv, Everything
<1>2. PICK f, t, c : f = files /\ t = table /\ c = Everything
  BY Zenon
<1>3. TwoJoined(Vals, f, t, c) /\ f \in Seq(Vals) /\ t \in Seq(Vals)
  BY Zenon, <1>1, <1>2, Joined
<1>4. PICK I, J, K : /\ I = {i \in DOMAIN c : c[i].id = id} /\ J = {i \in DOMAIN f : f[i].id = id}
                     /\ K = {i \in DOMAIN t : t[i].id = id}
  BY Zenon
<1>5. DOMAIN f = 1..Len(f) /\ DOMAIN t = 1..Len(t) /\ DOMAIN c = 1..Len(c)
  BY <1>3 DEF TwoJoined
<1>6. Alike(I, J, Len(f)) /\ Shifted(I, K, Len(f), Len(t))
  <2>1. /\ \A i \in 1..Len(f) : i \in 1..Len(c) /\ c[i] = f[i]
        /\ \A i \in 1..Len(t) : Len(f) + i \in 1..Len(c) /\ c[Len(f) + i] = t[i]
    BY Zenon, <1>3 DEF TwoJoined
  <2>2. ASSUME NEW i \in 1..Len(f) PROVE i \in I <=> i \in J
    BY <1>4, <1>5, <2>1
  <2>3. ASSUME NEW i \in 1..Len(t) PROVE Len(f) + i \in I <=> i \in K
    <3>1. PICK j : j = Len(f) + i
      BY Zenon
    <3>2. j \in DOMAIN c /\ c[j] = t[i] /\ i \in DOMAIN t
      BY Zenon, <1>5, <2>1, <3>1
    <3> QED BY <1>4, <3>1, <3>2
  <2> QED BY <2>2, <2>3 DEF Alike, Shifted
<1>7. Len(Select(c, I)) = Len(Select(f, J)) + Len(Select(t, K))
  BY SMTT(30), <1>3, <1>6, SelectJoined
<1> QED BY Zenon, <1>2, <1>4, <1>7 DEF Counted, ValsOf

\* The steps of Totals are steps of Front.
LEMMA TotalsStep == [TNext]_tvars => [Next]_vars
BY Zenon DEF TNext, tvars, Next, Stores, ServesTable, Polls, AsksAgain, Serve, ServeVals, Apply

\* Totals or values are awaited.
LEMMA MovesHas == Moves <=> Has(net, {"total"}) \/ Has(net, {"vals"})
<1>1. \A x : x \in {"total", "vals"} <=> x \in {"total"} \/ x \in {"vals"}
  BY Zenon
<1> QED BY <1>1, Zenon DEF Moves, Awaited, Has

\* New requests have no answer.
LEMMA FreshSent ==
  ASSUME NEW s, NEW t, NEW id, NEW m, NEW E, SentAfter(s, t, id, m), NetFresh(s, E)
  PROVE  NetFresh(t, E)
<1> SUFFICES ASSUME NEW i \in DOMAIN t PROVE Fresh(t[i], E)
  BY Zenon DEF NetFresh
<1>1. CASE \E j \in DOMAIN s : t[i] = s[j]
  BY Zenon, <1>1 DEF NetFresh
<1>2. CASE NewRequest(t[i], id, m)
  BY Zenon, <1>2 DEF NewRequest, Fresh
<1> QED BY Zenon, <1>1, <1>2 DEF SentAfter

\* The values awaited are still all for the chart.
LEMMA ElsewhereSent ==
  ASSUME Elsewhere, UNCHANGED numbersOf, UNCHANGED indiceSelected, chartOf'[1] = chartOf[1],
         SentAfter(net, net', indiceSelected', maxDate)
  PROVE  Elsewhere'
<1>1. ASSUME NEW i \in DOMAIN net', net'[i].kind = "vals" PROVE net'[i].id = chartOf[1]
  <2>1. CASE \E j \in DOMAIN net : net'[i] = net[j]
    BY Zenon, <1>1, <2>1 DEF Elsewhere
  <2>2. CASE NewRequest(net'[i], indiceSelected', maxDate)
    BY Zenon, <2>2 DEF NewRequest, Elsewhere
  <2> QED BY Zenon, <2>1, <2>2 DEF SentAfter
<1> QED BY Zenon, <1>1 DEF Elsewhere

Page == <<chartDatasets, chartOf, left, numbers, numbersOf, indiceSelected, failed>>

\* Steps that touch neither the page nor the totals and values awaited.
LEMMA AgreeKept ==
  ASSUME AgreeInv, UNCHANGED Page, Everything' = Everything,
         SentAfter(net, net', indiceSelected', maxDate),
         Has(net', {"total"}) <=> Has(net, {"total"}), Has(net', {"vals"}) <=> Has(net, {"vals"})
  PROVE  AgreeInv'
<1>1. NetFresh(net', Everything')
  BY Zenon, FreshSent DEF AgreeInv
<1>2. ChartFresh(Everything)' = ChartFresh(Everything) /\ NumbersFresh(Everything)' = NumbersFresh(Everything) /\ Agree' = Agree
  BY Zenon DEF Page, ChartFresh, NumbersFresh, Agree
<1>3. Elsewhere => Elsewhere'
  BY Zenon, ElsewhereSent DEF Page
<1> QED BY <1>1, <1>2, <1>3, Zenon DEF AgreeInv

\* A value is stored.
LEMMA StoresAgree ==
  ASSUME AgreeInv, addVal, ~Moves
  PROVE  AgreeInv'
<1>1. ~Has(net, {"total"}) /\ ~Has(net, {"vals"})
  BY Zenon, MovesHas
<1>2. net' = net /\ UNCHANGED Page
  BY Zenon DEF addVal, Page, chart
<1>3. ~Has(net', {"total"}) /\ ~Has(net', {"vals"})
  BY Zenon, <1>1, <1>2
<1>4. NetFresh(net', Everything')
  BY Zenon, <1>1, <1>2 DEF NetFresh, Fresh, Has
<1>5. Agree'
  BY <1>1, <1>2 DEF AgreeInv, Agree, Page
<1> QED BY Zenon, <1>3, <1>4, <1>5 DEF AgreeInv

\* The back-end answers with what is stored.
LEMMA ServeAgree ==
  ASSUME FInv, AgreeInv, NEW k, Serve(k),
         ServeVals(k) => \E x, o : AnswerPart(k, x, o) /\ Makes(x, o, Counted(Everything, net[k].id))
  PROVE  AgreeInv'
<1>1. PICK x, o : /\ AnswerPart(k, x, o) /\ k \in DOMAIN net
                  /\ \/ net[k].kind = "list" \/ net[k].kind = "new"
                     \/ /\ net[k].kind = "vals"
                        /\ Makes(x, o, Counted(Everything, net[k].id))
                     \/ /\ net[k].kind = "total"
                        /\ \E a : x = <<a, Len(Stored(net[k].id))>> \/ x = <<a, NaN>>
  <2>1. CASE ServeList(k) \/ ServeNew(k)
    BY Zenon, <2>1 DEF ServeList, ServeNew, Answer, Asked
  <2>2. CASE ServeTotal(k)
    BY Zenon, <2>2 DEF ServeTotal, Answer, Asked
  <2>3. CASE ServeVals(k)
    <3>1. k \in DOMAIN net /\ net[k].kind = "vals"
      BY Zenon, <2>3 DEF ServeVals, ServeBoth, ServeTable, Asked
    <3>2. PICK x, o : AnswerPart(k, x, o) /\ Makes(x, o, Counted(Everything, net[k].id))
      BY Zenon, <2>3
    <3> QED BY Zenon, <3>1, <3>2
  <2> QED BY Zenon, <2>1, <2>2, <2>3 DEF Serve
<1>2. PICK D, A : net \in Seq(Requests(D, A))
  BY DEF FInv, NetInv, Network
<1>3. net' = Marked(net, k, x, o)
  BY Zenon, <1>1 DEF AnswerPart, Marked
<1>4. DOMAIN net' = DOMAIN net /\ \A i \in DOMAIN net' : i # k => net'[i] = net[i]
  BY Zenon, <1>3 DEF Marked
<1>5. net[k] \in Requests(D, A)
  <2>1. k \in DOMAIN net
    BY Zenon, <1>1
  <2>2. k \in 1..Len(net)
    BY <1>2, <2>1
  <2> QED BY Zenon, <1>2, <2>2, ElementOfSeq
<1>6. net'[k].ans = x /\ net'[k].out = o /\ net'[k].kind = net[k].kind /\ net'[k].id = net[k].id
  <2>1. net'[k] = [[[net[k] EXCEPT !.done = TRUE] EXCEPT !.ans = x] EXCEPT !.out = o]
    BY Zenon, <1>1, <1>3 DEF Marked
  <2> QED BY Zenon, <1>5, <2>1 DEF Requests
<1>7. UNCHANGED Page /\ Everything' = Everything
  BY SMTT(30), AnswerNet DEF Page, chart, stores, Everything
<1>8. Fresh(net'[k], Everything)
  <2>1. \A id : Stored(id) = ValsOf(Everything, id)
    BY SMTT(30) DEF Stored, Everything
  <2>2. CASE net[k].kind = "total"
    <3>1. x[2] \in {NaN, Len(Stored(net[k].id))}
      <4>1. PICK a, n : x = <<a, n>> /\ n \in {NaN, Len(Stored(net[k].id))}
        BY Zenon, <1>1, <2>2
      <4> QED BY Zenon, <4>1, Second
    <3> QED BY Zenon, <1>6, <2>1, <2>2, <3>1 DEF Fresh, Counted
  <2>3. CASE net[k].kind = "vals"
    BY Zenon, <1>1, <1>6, <2>3 DEF Fresh
  <2> QED BY Zenon, <1>1, <1>6, <2>2, <2>3 DEF Fresh
<1>9. NetFresh(net', Everything')
  BY Zenon, <1>4, <1>7, <1>8 DEF NetFresh, AgreeInv
<1>10. Has(net', {"total"}) = Has(net, {"total"}) /\ Has(net', {"vals"}) = Has(net, {"vals"})
  <2>1. SameRequests(net, net')
    BY Zenon, <1>1, <1>2, <1>3, Answered
  <2> QED BY <2>1, Zenon DEF SameRequests
<1>11. Elsewhere => Elsewhere'
  BY Zenon, <1>4, <1>6, <1>7 DEF Elsewhere, Page
<1>12. ChartFresh(Everything)' = ChartFresh(Everything) /\ NumbersFresh(Everything)' = NumbersFresh(Everything) /\ Agree' = Agree
  BY Zenon, <1>7 DEF Page, ChartFresh, NumbersFresh, Agree
<1> QED BY <1>9, <1>10, <1>11, <1>12, Zenon DEF AgreeInv

\* getTotal's callback.
LEMMA TotalAgree ==
  ASSUME FInv, AgreeInv, NEW k, OnTotal(k), SentAfter(net, net', indiceSelected', maxDate)
  PROVE  AgreeInv'
<1>1. /\ k \in DOMAIN net /\ net[k].kind = "total" /\ net[k].done
      /\ numbers' = net[k].ans /\ numbersOf' = net[k].id
      /\ UNCHANGED <<stores, chartDatasets, chartOf, left>>
  BY Zenon DEF OnTotal, Arrives, chart
<1>2. Everything' = Everything
  BY Zenon, <1>1 DEF stores, Everything
<1>3. NetFresh(net', Everything')
  BY Zenon, <1>2, FreshSent DEF AgreeInv
<1>4. NumbersFresh(Everything)'
  BY Zenon, <1>1, <1>2 DEF AgreeInv, NetFresh, Fresh, NumbersFresh
<1>5. Without(net, k, net')
  BY Zenon, <1>1, TakeNet DEF OnTotal, FInv, NetInv
<1>6. Has(net', {"vals"}) = Has(net, {"vals"}) /\ Has(net, {"total"})
  <2>1. net[k].kind \notin {"vals"}
    BY Zenon, <1>1
  <2> QED BY <1>1, <1>5, <2>1, Zenon DEF Without, Has
<1>7. Has(net, {"vals"}) \/ ChartFresh(Everything)'
  BY Zenon, <1>1, <1>2, <1>6 DEF AgreeInv, ChartFresh
<1>8. ChartFresh(Everything)' => Agree'
  BY Zenon, <1>4 DEF ChartFresh, NumbersFresh, Agree
<1> QED BY <1>3, <1>4, <1>6, <1>7, <1>8, Zenon DEF AgreeInv

\* getIndiceVals' callback.
LEMMA ValsAgree ==
  ASSUME FInv, AgreeInv, NEW k, OnVals(k), SentAfter(net, net', indiceSelected', maxDate)
  PROVE  AgreeInv'
<1>1. /\ k \in DOMAIN net /\ net[k].kind = "vals" /\ net[k].done
      /\ chartDatasets' = <<net[k].ans>> /\ chartOf' = <<net[k].id, net[k].time>>
      /\ left' = net[k].out
      /\ UNCHANGED <<stores, numbers, numbersOf, indiceSelected>>
  BY Zenon DEF OnVals, OnValsWith, Arrives
<1>2. Everything' = Everything
  BY Zenon, <1>1 DEF stores, Everything
<1>3. NetFresh(net', Everything')
  BY <1>2, FreshSent DEF AgreeInv
<1>4. ChartFresh(Everything)'
  <2>1. Makes(net[k].ans, net[k].out, Counted(Everything, net[k].id))
    BY Zenon, <1>1 DEF AgreeInv, NetFresh, Fresh
  <2>2. chartDatasets'[1] = net[k].ans /\ chartOf'[1] = net[k].id
    BY Zenon, <1>1
  <2> QED BY Zenon, <1>1, <1>2, <2>1, <2>2 DEF ChartFresh
<1>5. Without(net, k, net')
  BY Zenon, <1>1, TakeNet DEF OnVals, OnValsWith, FInv, NetInv
<1>6. Has(net', {"total"}) = Has(net, {"total"}) /\ Has(net, {"vals"})
  <2>1. net[k].kind \notin {"total"}
    BY Zenon, <1>1
  <2> QED BY <1>1, <1>5, <2>1, Zenon DEF Without, Has
<1>7. Elsewhere => Elsewhere'
  <2> SUFFICES ASSUME Elsewhere PROVE Elsewhere'
    BY Zenon
  <2>1. chartOf'[1] = chartOf[1]
    BY Zenon, <1>1 DEF Elsewhere
  <2> QED BY Zenon, <1>1, <2>1, ElsewhereSent
<1>8. NumbersFresh(Everything)' = NumbersFresh(Everything)
  BY Zenon, <1>1, <1>2 DEF NumbersFresh
<1>9. Has(net, {"total"}) \/ NumbersFresh(Everything)' \/ Elsewhere'
  BY Zenon, <1>6, <1>7, <1>8 DEF AgreeInv
<1>10. NumbersFresh(Everything)' \/ Elsewhere' => Agree'
  BY Zenon, <1>4 DEF ChartFresh, NumbersFresh, Agree, Elsewhere
<1> QED BY <1>3, <1>4, <1>6, <1>9, <1>10, Zenon DEF AgreeInv

\* getNewVals' callback: what a poll brings is added to both.
LEMMA NewAgree ==
  ASSUME FInv, SeriesInv, ChartSeq, AgreeInv, NEW k, OnNew(k), Moves => net[k].ans = <<>>,
         SentAfter(net, net', indiceSelected', maxDate)
  PROVE  AgreeInv'
<1>1. /\ k \in DOMAIN net /\ net[k].kind = "new" /\ net[k].done
      /\ UNCHANGED <<stores, chartOf, left, numbersOf, indiceSelected, failed>>
      /\ \/ /\ net[k].ans # <<>> /\ chartDatasets' = <<chartDatasets[1] \o net[k].ans>>
            /\ numbers' = [i \in DOMAIN numbers |-> Plus(numbers[i], Len(net[k].ans))]
         \/ UNCHANGED <<chartDatasets, numbers>>
  BY Zenon DEF OnNew, OnNewWith, Arrives
<1>2. Everything' = Everything
  BY Zenon, <1>1 DEF stores, Everything
<1>3. Without(net, k, net')
  BY Zenon, <1>1, TakeNet DEF OnNew, OnNewWith, FInv, NetInv
<1>4. Has(net', {"total"}) = Has(net, {"total"}) /\ Has(net', {"vals"}) = Has(net, {"vals"})
  <2>1. net[k].kind \notin {"vals"} /\ net[k].kind \notin {"total"}
    BY Zenon, <1>1
  <2> QED BY <1>3, <2>1, Zenon DEF Without
<1>5. CASE UNCHANGED <<chartDatasets, numbers>>
  BY SMTT(30), <1>1, <1>2, <1>4, <1>5, AgreeKept DEF Page
<1>6. CASE /\ net[k].ans # <<>> /\ chartDatasets' = <<chartDatasets[1] \o net[k].ans>>
           /\ numbers' = [i \in DOMAIN numbers |-> Plus(numbers[i], Len(net[k].ans))]
  <2>1. ~Has(net, {"total"}) /\ ~Has(net, {"vals"})
    BY Zenon, <1>6, MovesHas
  <2>2. chartDatasets # <<>>
    BY Zenon, <1>1 DEF FInv, PageInv, Has
  <2>3. PICK c, x : c = chartDatasets[1] /\ x = net[k].ans
    BY Zenon
  <2>4. c \in Seq(Vals) /\ x \in Seq(Vals)
    BY Zenon, <1>1, <2>2, <2>3 DEF ChartSeq, SeriesInv, NetGood, ReqGood, Good, Held
  <2>5. /\ Len(c) \in Nat /\ Len(x) \in Nat /\ Len(c \o x) = Len(c) + Len(x)
        /\ chartDatasets'[1] = c \o x
    <3>1. chartDatasets' = <<c \o x>>
      BY Zenon, <1>6, <2>3
    <3>2. chartDatasets'[1] = c \o x
      BY Zenon, <3>1
    <3> QED BY SMTT(30), <2>4, <3>2
  <2>6. Agree'
    <3> SUFFICES ASSUME numbers' # <<>>, chartOf'[1] = numbersOf'
                 PROVE  numbers'[2] = NaN \/ Makes(chartDatasets'[1], left', numbers'[2])
      BY Zenon DEF Agree
    <3>1. numbers # <<>>
      BY SMTT(30), <1>6
    <3>2. DOMAIN numbers = 1..2
      BY Zenon, <3>1 DEF FInv, PageInv
    <3>3. numbers'[2] = Plus(numbers[2], Len(x))
      BY SMTT(30), <1>6, <2>3, <3>2
    <3>4. numbers[2] = NaN \/ Makes(c, left, numbers[2])
      BY Zenon, <1>1, <2>1, <2>2, <2>3, <3>1 DEF AgreeInv, Agree
    <3>5. left' = left /\ left \in Nat /\ LIMIT \in Nat
      BY Zenon, <1>1, FrontAssumption DEF ChartSeq
    <3>6. CASE numbers[2] = NaN
      BY Zenon, <3>3, <3>6 DEF Plus
    <3>7. CASE numbers[2] # NaN
      <4>1. PICK b, l, n : b = Len(c) /\ l = left /\ n = Len(x)
        BY Zenon
      <4>2. numbers[2] = b + l /\ (l # 0 => b + l > LIMIT) /\ numbers'[2] = (b + l) + n
        BY Zenon, <3>3, <3>4, <3>7, <4>1 DEF Plus, Makes
      <4>3. b \in Nat /\ l \in Nat /\ n \in Nat
        BY Zenon, <2>5, <3>5, <4>1
      <4>4. (b + l) + n = (b + n) + l /\ (b + l > LIMIT => (b + l) + n > LIMIT)
        BY <3>5, <4>3
      <4>5. Len(chartDatasets'[1]) = b + n
        BY Zenon, <2>5, <4>1
      <4> QED BY Zenon, <3>5, <4>1, <4>2, <4>4, <4>5 DEF Makes
    <3> QED BY Zenon, <3>6, <3>7
  <2>7. NetFresh(net', Everything')
    BY Zenon, <1>2, FreshSent DEF AgreeInv
  <2> QED BY Zenon, <1>4, <2>1, <2>6, <2>7 DEF AgreeInv
<1> QED BY Zenon, <1>1, <1>5, <1>6

\* Both are asked for.
LEMMA LoadAgree ==
  ASSUME AgreeInv, UNCHANGED stores, SentAfter(net, net', indiceSelected', maxDate),
         Has(net', {"total"}), Has(net', {"vals"})
  PROVE  AgreeInv'
<1>1. Everything' = Everything
  BY Zenon DEF stores, Everything
<1>2. NetFresh(net', Everything')
  BY Zenon, <1>1, FreshSent DEF AgreeInv
<1> QED BY Zenon, <1>2 DEF AgreeInv

\* Only the chart is asked for.
LEMMA TimeAgree ==
  ASSUME FInv, AgreeInv, NEW h \in {"AllTime", "Today"}, changeTime(h),
         chartOf[1] = indiceSelected, Len(Stored(indiceSelected)) = Len(chartDatasets[1]) + left,
         SentAfter(net, net', indiceSelected', maxDate)
  PROVE  AgreeInv'
<1>1. /\ net' = net \o <<Request("vals", indiceSelected, h, 0)>>
      /\ chartDatasets # <<>> /\ numbers # <<>>
      /\ UNCHANGED <<stores, chartDatasets, chartOf, numbers, numbersOf, indiceSelected>>
  BY Zenon DEF changeTime, Click, getIndiceVals, Shown, chart
<1>2. Network(net') /\ With(net, "vals", indiceSelected, h, net')
  BY Zenon, <1>1, NetworkSent DEF FInv, NetInv, Kinds
<1>3. (Has(net', {"total"}) <=> Has(net, {"total"})) /\ Has(net', {"vals"})
  <2>1. "vals" \notin {"total"} /\ "vals" \in {"vals"}
    BY Zenon
  <2> QED BY <1>2, <2>1, Zenon DEF With
<1>4. Everything' = Everything
  BY Zenon, <1>1 DEF stores, Everything
<1>5. NetFresh(net', Everything')
  BY <1>4, FreshSent DEF AgreeInv
<1>6. NumbersFresh(Everything)' = NumbersFresh(Everything)
  BY Zenon, <1>1, <1>4 DEF NumbersFresh
<1>7. Elsewhere => Elsewhere'
  BY <1>1, ElsewhereSent
<1>8. CASE Has(net, {"total"}) \/ Has(net, {"vals"})
  BY <1>3, <1>5, <1>6, <1>7, <1>8, Zenon DEF AgreeInv
<1>9. CASE ~Has(net, {"total"}) /\ ~Has(net, {"vals"})
  <2>1. CASE chartOf[1] = numbersOf
    <3>1. numbers[2] \in {NaN, Len(Stored(numbersOf))}
      BY Zenon, <1>1, <1>9, <2>1 DEF AgreeInv, Agree, Makes
    <3>2. NumbersFresh(Everything)
      BY Zenon, <3>1 DEF NumbersFresh, Counted, Stored, Everything
    <3> QED BY <1>3, <1>5, <1>6, <3>2, Zenon DEF AgreeInv
  <2>2. CASE chartOf[1] # numbersOf
    <3>1. \A i \in DOMAIN net : net[i].kind # "vals"
      BY Zenon, <1>9 DEF Has
    <3>2. Elsewhere
      BY Zenon, <2>2, <3>1 DEF Elsewhere
    <3> QED BY <1>3, <1>5, <1>7, <3>2, Zenon DEF AgreeInv
  <2> QED BY Zenon, <2>1, <2>2
<1> QED BY Zenon, <1>8, <1>9

\* A chart holds values, and the number of those left out is known.
LEMMA ChartSeqStep ==
  ASSUME FInv, SeriesInv, ChartSeq, [Next]_vars
  PROVE  ChartSeq'
<1>1. CASE UNCHANGED chart
  BY Zenon, <1>1 DEF chart, ChartSeq
<1>2. ASSUME NEW k, OnVals(k) PROVE ChartSeq'
  <2>1. k \in DOMAIN net /\ net[k].kind = "vals" /\ net[k].done
        /\ chartDatasets' = <<net[k].ans>> /\ left' = net[k].out
    BY Zenon, <1>2 DEF OnVals, OnValsWith, Arrives
  <2>2. net[k].ans \in Seq(Vals) /\ net[k].out \in Nat
    BY Zenon, <2>1 DEF SeriesInv, NetGood, ReqGood, Good, Held
  <2> QED BY Zenon, <2>1, <2>2 DEF ChartSeq
<1>3. ASSUME NEW k, OnNew(k) PROVE ChartSeq'
  <2>1. /\ k \in DOMAIN net /\ net[k].kind = "new" /\ net[k].done /\ left' = left
        /\ \/ chartDatasets' = <<chartDatasets[1] \o net[k].ans>>
           \/ UNCHANGED chartDatasets
    BY <1>3, Zenon DEF OnNew, OnNewWith, Arrives
  <2>2. PICK c, x : c = chartDatasets[1] /\ x = net[k].ans
    BY Zenon
  <2>3. chartDatasets # <<>>
    BY <2>1 DEF FInv, PageInv, Has
  <2>4. c \in Seq(Vals) /\ x \in Seq(Vals)
    BY Zenon, <2>1, <2>2, <2>3 DEF ChartSeq, SeriesInv, NetGood, ReqGood, Good, Held
  <2>5. c \o x \in Seq(Vals)
    BY <2>4
  <2>6. CASE chartDatasets' = <<c \o x>>
    BY Zenon, <2>1, <2>5, <2>6 DEF ChartSeq
  <2>7. CASE UNCHANGED chartDatasets
    BY <2>1, <2>7 DEF ChartSeq
  <2> QED BY Zenon, <2>1, <2>2, <2>6, <2>7
<1>4. UNCHANGED chart \/ \E k : OnVals(k) \/ OnNew(k)
  BY Zenon DEF Next, vars, Serve, ServeList, ServeTotal, ServeVals, ServeBoth, ServeTable, ServeNew, Answer, AnswerPart, Apply, OnList,
     OnTotal, OnError, Tick, clickIndice, changeTime, Click, ngOnDestroy, addVal, Archive
<1> QED BY Zenon, <1>1, <1>2, <1>3, <1>4

\* The component asks for the totals and for the values.
LEMMA LoadHas ==
  ASSUME NEW s, Network(s), NEW id \in Indices, timeSelected \in {"AllTime", "Today"}
  PROVE  Has(s \o Load(id), {"total"}) /\ Has(s \o Load(id), {"vals"})
<1>1. PICK r, q, t : /\ r = Request("total", id, "none", 0)
                     /\ q = Request("vals", id, timeSelected, 0) /\ t = AndBoth(s, r, q)
  BY Zenon
<1>2. Has(t, {"total"}) /\ LastIs(t, "vals", id, timeSelected)
  BY Zenon, <1>1, LoadNet
<1>3. Has(t, {"vals"})
  BY Zenon, <1>2 DEF LastIs, Has
<1>4. t = s \o Load(id)
  BY Zenon, <1>1 DEF AndBoth, Load, getTotal, getIndiceVals
<1> QED BY Zenon, <1>2, <1>3, <1>4

\* ngOnInit's callback.
LEMMA ListAgree ==
  ASSUME FInv, AgreeInv, NEW k, OnList(k), SentAfter(net, net', indiceSelected', maxDate)
  PROVE  AgreeInv'
<1>1. /\ k \in DOMAIN net /\ net[k].kind = "list" /\ net[k].ans \in Seq(Indices)
      /\ UNCHANGED <<stores, chartDatasets, chartOf, left, numbers, numbersOf, failed>>
  BY Zenon DEF OnList, Arrives, chart, FInv, NetInv, Network, AnsOK
<1>2. CASE net[k].ans = <<>>
  <2>1. TakeAndSend(k, <<>>) /\ UNCHANGED indiceSelected
    BY Zenon, <1>2 DEF OnList
  <2>2. Without(net, k, net')
    BY Zenon, <1>1, <2>1, TakeNet DEF FInv, NetInv
  <2>3. Has(net', {"total"}) = Has(net, {"total"}) /\ Has(net', {"vals"}) = Has(net, {"vals"})
    <3>1. net[k].kind \notin {"vals"} /\ net[k].kind \notin {"total"}
      BY Zenon, <1>1
    <3> QED BY <2>2, <3>1, Zenon DEF Without
  <2>4. UNCHANGED Page /\ Everything' = Everything
    BY SMTT(30), <1>1, <2>1 DEF Page, stores, Everything
  <2> QED BY Zenon, <2>3, <2>4, AgreeKept
<1>3. CASE net[k].ans # <<>>
  <2>1. PICK id \in Indices : id = net[k].ans[1]
    BY SMTT(30), <1>1, <1>3
  <2>2. net' = RemoveAt(net, k) \o Load(id)
    BY Zenon, <1>3, <2>1 DEF OnList, TakeAndSend
  <2>3. PICK s : s = RemoveAt(net, k)
    OBVIOUS
  <2>4. Network(s)
    <3>1. Network(RemoveAt(net, k) \o <<>>)
      BY Zenon, <1>1, NetworkTaken DEF FInv, NetInv
    <3>2. s = RemoveAt(net, k) \o <<>>
      <4>1. PICK D, A : net \in Seq(Requests(D, A))
        BY Zenon DEF FInv, NetInv, Network
      <4>2. RemoveAt(net, k) \in Seq(Requests(D, A))
        BY <1>1, <4>1, Removed
      <4> QED BY <2>3, <4>2, ConcatEmptySeq
    <3> QED BY SMTT(30), <3>1, <3>2
  <2>5. Has(net', {"total"}) /\ Has(net', {"vals"})
    BY Zenon, <2>2, <2>3, <2>4, LoadHas DEF FInv, NetInv
  <2> QED BY Zenon, <1>1, <2>5, LoadAgree
<1> QED BY Zenon, <1>2, <1>3

\* An interval fires.
LEMMA TickAgree ==
  ASSUME FInv, AgreeInv, Tick, SentAfter(net, net', indiceSelected', maxDate)
  PROVE  AgreeInv'
<1>1. net' = net \o <<Request("new", indiceSelected, "none", maxDate)>>
  <2>1. PICK D, A : net \in Seq(Requests(D, A))
    BY DEF FInv, NetInv, Network
  <2>2. net \in Seq(Requests(D \cup {maxDate}, A \cup {<<>>, 0}))
    BY Zenon, <2>1, Widen
  <2>3. getNewVals \in Requests(D \cup {maxDate}, A \cup {<<>>, 0})
    BY RequestType DEF getNewVals, FInv, NetInv, Kinds
  <2> QED BY Zenon, <2>2, <2>3, AppendIsConcat DEF Tick, getNewVals
<1>2. With(net, "new", indiceSelected, "none", net')
  BY Zenon, <1>1, NetworkSent DEF FInv, NetInv, Kinds
<1>3. (Has(net', {"total"}) <=> Has(net, {"total"})) /\ (Has(net', {"vals"}) <=> Has(net, {"vals"}))
  <2>1. "new" \notin {"total"} /\ "new" \notin {"vals"}
    BY Zenon
  <2> QED BY <1>2, <2>1, Zenon DEF With
<1>4. UNCHANGED Page /\ Everything' = Everything
  BY DEF Tick, Page, chart, stores, Everything
<1> QED BY Zenon, <1>3, <1>4, AgreeKept

\* Every step of Totals.tla.
LEMMA AgreeStep ==
  ASSUME FInv, SeriesInv, TotInv, [TNext]_tvars
  PROVE  TotInv'
<1>0. [Next]_vars
  BY Zenon, TotalsStep
<1>1. ChartSeq'
  BY Zenon, <1>0, ChartSeqStep DEF TotInv
<1> SUFFICES ASSUME ~failed', ~torn' PROVE AgreeInv'
  BY Zenon, <1>1 DEF TotInv
<1>2. ~failed
  <2>1. failed' = failed \/ failed' = TRUE
    BY <1>0, Zenon DEF Next, vars, Serve, ServeList, ServeTotal, ServeVals, ServeBoth, ServeTable, ServeNew, Answer, AnswerPart, Apply, OnList,
     OnTotal, OnVals, OnValsWith, OnNew, OnNewWith, OnError, Tick, clickIndice, changeTime, Click,
     ngOnDestroy, addVal, Archive
  <2> QED BY <2>1, Zenon
<1>3. ~torn
  <2>1. torn' = torn \/ \E x : torn' = (torn \/ x)
    BY Zenon DEF TNext, tvars, Stores, ServesTable, Polls, AsksAgain
  <2> QED BY <2>1, Zenon
<1>4. AgreeInv /\ ChartSeq
  BY Zenon, <1>2, <1>3 DEF TotInv
<1>5. Otherwise => SentAfter(net, net', indiceSelected', maxDate)
  BY Zenon, NetSource
<1>6. CASE Stores
  <2>1. ~Moves
    BY <1>6, Zenon DEF Stores
  <2> QED BY Zenon, <1>4, <1>6, <2>1, StoresAgree DEF Stores
<1>7. ASSUME NEW k, ServesTable(k) \/ ServeBoth(k) PROVE AgreeInv'
  <2>1. PICK f, t, n : /\ f = Len(ValsOf(files, net[k].id)) /\ t = Len(ValsOf(table, net[k].id))
                       /\ n = Counted(Everything, net[k].id)
    BY Zenon
  <2>2. n = f + t /\ f \in Nat /\ t \in Nat
    <3>1. StoreInv
      BY Zenon DEF SeriesInv
    <3>2. n = f + t
      BY Zenon, <2>1, <3>1, CountJoined
    <3>3. ValsOf(files, net[k].id) \in Seq(Vals) /\ ValsOf(table, net[k].id) \in Seq(Vals)
      BY Zenon, <3>1, ValsTyped
    <3> QED BY <2>1, <3>2, <3>3
  <2>3. \E x, o : AnswerPart(k, x, o) /\ Whole(x, o, net[k].id, Everything, table) /\ Len(x) + o = n
    <3>1. CASE ServesTable(k)
      <4>1. ServeTable(k) /\ ValsOf(files, net[k].id) = <<>>
        BY Zenon, <3>1 DEF ServesTable
      <4>2. f = 0
        BY <2>1, <4>1
      <4>3. n = t
        BY <2>2, <4>2
      <4> QED BY Zenon, <2>1, <4>1, <4>3, ServedTable DEF SeriesInv
    <3>2. CASE ServeBoth(k)
      BY Zenon, <2>1, <2>2, <3>2, ServedBoth DEF SeriesInv
    <3> QED BY Zenon, <1>7, <3>1, <3>2
  <2>4. \E x, o : AnswerPart(k, x, o) /\ Makes(x, o, n)
    BY Zenon, <2>3 DEF Whole, Makes
  <2>5. Serve(k)
    BY Zenon, <1>7 DEF ServesTable, Serve, ServeVals
  <2> QED BY Zenon, <1>4, <2>1, <2>4, <2>5, ServeAgree
<1>8. ASSUME NEW k, Polls(k) PROVE AgreeInv'
  <2>1. OnNew(k) /\ (Moves => net[k].ans = <<>>)
    BY <1>8, Zenon DEF Polls
  <2>2. Otherwise
    BY Zenon, <2>1 DEF Otherwise, Apply
  <2> QED BY Zenon, <1>4, <1>5, <2>1, <2>2, NewAgree
<1>9. ASSUME NEW t \in {"AllTime", "Today"}, AsksAgain(t) PROVE AgreeInv'
  <2>1. /\ changeTime(t) /\ chartOf[1] = indiceSelected
        /\ Len(Stored(indiceSelected)) = Len(chartDatasets[1]) + left
    BY <1>9, Zenon DEF AsksAgain
  <2>2. Otherwise
    BY Zenon, <2>1 DEF Otherwise
  <2> QED BY Zenon, <1>4, <1>5, <2>1, <2>2, TimeAgree
<1>10. ASSUME NEW k, ServeList(k) \/ ServeTotal(k) \/ ServeNew(k) PROVE AgreeInv'
  <2>1. ~ServeVals(k) /\ Serve(k)
    BY Zenon, <1>10 DEF ServeList, ServeTotal, ServeNew, ServeVals, ServeBoth, ServeTable, Serve, Asked
  <2> QED BY Zenon, <1>4, <2>1, ServeAgree
<1>11. ASSUME NEW k, OnList(k) \/ OnTotal(k) \/ OnVals(k) PROVE AgreeInv'
  <2>1. Otherwise
    BY Zenon, <1>11 DEF Otherwise, Apply
  <2> QED BY SMTT(30), <1>4, <1>5, <1>11, <2>1, ListAgree, TotalAgree, ValsAgree
<1>12. ASSUME NEW k, OnError(k) PROVE FALSE
  BY Zenon, <1>12 DEF OnError
<1>13. CASE Tick
  BY Zenon, <1>4, <1>5, <1>13, TickAgree DEF Otherwise
<1>14. ASSUME NEW i \in Indices, clickIndice(i) PROVE AgreeInv'
  <2>1. net' = net \o Load(i) /\ UNCHANGED stores
    BY Zenon, <1>14 DEF clickIndice, Click
  <2>2. Has(net', {"total"}) /\ Has(net', {"vals"})
    BY Zenon, <2>1, LoadHas DEF FInv, NetInv
  <2>3. Otherwise
    BY Zenon, <1>14 DEF Otherwise
  <2> QED BY SMTT(30), <1>4, <1>5, <2>1, <2>2, <2>3, LoadAgree
<1>15. CASE Archive \/ ngOnDestroy \/ UNCHANGED vars
  <2>1. net' = net /\ UNCHANGED Page
    BY <1>15 DEF Archive, ngOnDestroy, vars, Page, chart
  <2>2. Everything' = Everything
    <3>1. CASE Archive
      BY SMTT(30), <3>1, ArchiveStep DEF SeriesInv, Moved
    <3>2. CASE ngOnDestroy \/ UNCHANGED vars
      BY Zenon, <3>2 DEF ngOnDestroy, vars, stores, Everything
    <3> QED BY Zenon, <1>15, <3>1, <3>2
  <2>3. Otherwise
    BY Zenon, <1>15 DEF Otherwise
  <2> QED BY SMTT(30), <1>4, <1>5, <2>1, <2>2, <2>3, AgreeKept
<1>16. UNCHANGED tvars => UNCHANGED vars
  BY DEF tvars
<1> QED BY Zenon, <1>6, <1>7, <1>8, <1>9, <1>10, <1>11, <1>12, <1>13, <1>14, <1>15, <1>16 DEF TNext

\* Once no answer is awaited, the total "All time" on the page is the number of
\* values that answers and polls gave to the chart, and those that thinning out
\* left out of it, which takes more than the limit: however stale or doubled
\* the polls were, unless a request failed, a value came or a poll was applied
\* between the two answers, or changeTime asked for the chart alone before
\* polls had brought everything (getTotal, getIndiceVals, getNewVals).
THEOREM TotalAgreesTheorem == TSpec => []TotalAgrees
<1>1. TSpec => []FInv /\ []SeriesInv
  <2>1. TInit => Init
    BY Zenon DEF TInit
  <2> QED BY <2>1, TotalsStep, Invariant, Series, PTL DEF TSpec, Spec
<1>2. TInit => TotInv
  <2> SUFFICES ASSUME TInit PROVE TotInv
    OBVIOUS
  <2>1. PICK r : r = Request("list", NoIndice, "none", 0) /\ net = <<r>>
    BY Zenon DEF TInit, Init
  <2>2. NetFresh(net, Everything)
    BY SMTT(30), <2>1 DEF NetFresh, Fresh, Request
  <2>3. ~Has(net, {"total"}) /\ ~Has(net, {"vals"})
    BY <2>1 DEF Has, Request
  <2>4. chartDatasets = <<>> /\ left = 0
    BY Zenon DEF TInit, Init
  <2> QED BY Zenon, <2>2, <2>3, <2>4 DEF TotInv, ChartSeq, AgreeInv, Agree
<1>3. TotInv => TotalAgrees
  <2> SUFFICES ASSUME AgreeInv, chartDatasets # <<>>, numbers # <<>>, ~Moves, chartOf = <<numbersOf, "AllTime">>
               PROVE  \/ numbers[2] = NaN
                      \/ /\ numbers[2] = Len(chartDatasets[1]) + left
                         /\ left # 0 => numbers[2] > LIMIT
    BY Zenon DEF TotInv, TotalAgrees, Moves
  <2>1. ~Has(net, {"total"}) /\ ~Has(net, {"vals"})
    BY Zenon, MovesHas
  <2>2. chartOf[1] = numbersOf
    OBVIOUS
  <2> QED BY Zenon, <2>1, <2>2 DEF AgreeInv, Agree, Makes
<1> QED BY <1>1, <1>2, <1>3, AgreeStep, PTL DEF TSpec

=============================================================================
