----------------------------- MODULE SiteProofs -----------------------------
(***************************************************************************)
(* Proofs about Site, for any names, profiles, templates and bounds.       *)
(***************************************************************************)
EXTENDS Site, FiniteSetTheorems, SequenceTheorems, WellFoundedInduction, TLAPS

Disjoint(clusters) == \A i, j \in DOMAIN clusters : i # j => clusters[i].pcs \cap clusters[j].pcs = {}

\* A session that a handler finds and leaves: no BMS is listed twice.
GoodSession(s) == /\ s \in Sessions /\ s.active \in DOMAIN s.clusters
                  /\ s.current \in Range(s.pcs) /\ Disjoint(s.clusters)
                  /\ IsInjective(s.devices)

\* A file may be cut off, but what can be read of it is a site that has clusters
\* and PCSs, and that shares no PCS, and a list without a BMS twice.
GoodFiles(f) == /\ f \in Files /\ f.site # <<>> /\ f.pcs # <<>>
                /\ f.site # Broken => Disjoint(f.site)
                /\ f.devices # Broken => IsInjective(f.devices)

InStep(s, f) == /\ f.pcs = s.pcs /\ Bindings(f.site) = Bindings(s.clusters)
                /\ f.devices \in {s.devices, Broken} \/ s.devices = <<>>

Inv == /\ GoodSession(session) /\ edits \in 0..MaxEdits /\ up \in BOOLEAN
       /\ disk \in [Profiles -> Files] /\ \A q \in Profiles : GoodFiles(disk[q])
       /\ up => InStep(session, disk[session.profile])
-----------------------------------------------------------------------------
(* Sequences.                                                              *)

LEMMA Smallest ==
    ASSUME NEW T \in SUBSET Nat, T # {}
    PROVE  \E i \in T : \A j \in T : i <= j
<1>1. \E x \in T : \A y \in T : ~ (<<y, x>> \in OpToRel(<, Nat))
  BY NatLessThanWellFounded, WFMin
<1>2. PICK x \in T : \A y \in T : ~ (<<y, x>> \in OpToRel(<, Nat))
  BY <1>1
<1>3. ASSUME NEW y \in T PROVE x <= y
  <2>1. x \in Nat /\ y \in Nat
    OBVIOUS
  <2>2. ~(y < x)
    BY <1>2, <2>1 DEF OpToRel
  <2> QED
    BY <2>1, <2>2
<1> QED
  BY <1>3

LEMMA Largest ==
    ASSUME NEW n \in Nat, NEW T \in SUBSET (1..n), T # {}
    PROVE  \E i \in T : \A j \in T : j <= i
<1> DEFINE U == {n - i : i \in T}
<1>1. U \in SUBSET Nat /\ U # {}
  <2>1. \A i \in T : n - i \in Nat
    OBVIOUS
  <2> QED
    BY <2>1
<1>2. PICK u \in U : \A v \in U : u <= v
  <2> HIDE DEF U
  <2> QED
    BY <1>1, Smallest
<1>3. PICK i \in T : u = n - i
  OBVIOUS
<1>4. ASSUME NEW j \in T PROVE j <= i
  <2>1. n - j \in U
    OBVIOUS
  <2>2. n - i <= n - j
    BY <1>2, <1>3, <2>1
  <2>3. i \in Nat /\ j \in Nat
    OBVIOUS
  <2> QED
    BY <2>2, <2>3
<1> QED
  BY <1>4

\* RemoveFirst leaves the other places as they were, one place further to the front
\* when they were behind.
LEMMA RemovedAt ==
    ASSUME NEW S, NEW s \in Seq(S), NEW e, \E i \in 1..Len(s) : s[i] = e
    PROVE  LET r == RemoveFirst(s, e)
           IN  \E k \in 1..Len(s) :
                 /\ s[k] = e /\ r \in Seq(S) /\ Len(r) = Len(s) - 1
                 /\ \A i \in 1..Len(s) - 1 : r[i] = s[IF i < k THEN i ELSE i + 1]
<1> DEFINE I == {i \in 1..Len(s) : s[i] = e}
           k == Min(I)
           front == SubSeq(s, 1, k - 1)
           back == SubSeq(s, k + 1, Len(s))
<1>1. Len(s) \in Nat /\ I \in SUBSET Nat /\ I # {}
  BY LenProperties
<1>2. k \in I
  BY <1>1, Smallest DEF Min
<1>3. RemoveFirst(s, e) = front \o back
  BY <1>1 DEF RemoveFirst, RemoveAt, SelectInSeq
<1>4. k \in 1..Len(s) /\ s[k] = e
  BY <1>2
<1> HIDE DEF k, I
<1>5. /\ front \in Seq(S) /\ Len(front) = k - 1
      /\ \A i \in 1..k - 1 : front[i] = s[i]
  BY <1>1, <1>4, SubSeqProperties, ElementOfSeq
<1>6. /\ back \in Seq(S) /\ Len(back) = Len(s) - k
      /\ \A i \in 1..Len(s) - k : back[i] = s[k + i]
  <2>1. \A i \in k + 1..Len(s) : s[i] \in S
    BY <1>1, <1>4, ElementOfSeq
  <2>2. k + 1 \in Int /\ Len(s) \in Int
    BY <1>1, <1>4
  <2> QED
    BY <1>1, <1>4, <2>1, <2>2, SubSeqProperties
<1> HIDE DEF front, back
<1> DEFINE r == front \o back
<1>7. /\ r \in Seq(S) /\ Len(r) = Len(s) - 1
      /\ \A i \in 1..Len(s) - 1 : r[i] = IF i <= k - 1 THEN front[i] ELSE back[i - (k - 1)]
  <2>1. /\ r \in Seq(S) /\ Len(r) = Len(front) + Len(back)
        /\ \A i \in 1..Len(front) + Len(back) :
              r[i] = IF i <= Len(front) THEN front[i] ELSE back[i - Len(front)]
    BY <1>5, <1>6, ConcatProperties
  <2>2. k \in Nat /\ (k - 1) + (Len(s) - k) = Len(s) - 1
    BY <1>1, <1>4
  <2> QED
    BY <1>5, <1>6, <2>1, <2>2
<1> HIDE DEF r
<1>8. ASSUME NEW i \in 1..Len(s) - 1 PROVE r[i] = s[IF i < k THEN i ELSE i + 1]
  <2>1. CASE i < k
    BY <1>1, <1>4, <1>5, <1>7, <2>1
  <2>2. CASE i >= k
    <3>1. i - (k - 1) \in 1..Len(s) - k /\ k + (i - (k - 1)) = i + 1
      BY <1>1, <1>4, <2>2
    <3> QED
      BY <1>1, <1>4, <1>6, <1>7, <2>2, <3>1
  <2> QED
    BY <1>1, <1>4, <2>1, <2>2
<1> QED
  BY <1>3, <1>4, <1>7, <1>8 DEF r

LEMMA RemoveFirstKeeps ==
    ASSUME NEW S, NEW s \in Seq(S), NEW e
    PROVE  LET r == RemoveFirst(s, e)
           IN  /\ r \in Seq(S) /\ (Len(s) > 1 => r # <<>>)
               /\ Range(s) \ {e} \subseteq Range(r) /\ Range(r) \subseteq Range(s)
               /\ IsInjective(s) => IsInjective(r) /\ e \notin Range(r)
<1>1. CASE ~ \E i \in 1..Len(s) : s[i] = e
  <2>1. RemoveFirst(s, e) = s
    BY <1>1 DEF RemoveFirst
  <2>2. e \notin Range(s)
    BY <1>1, RangeEquality
  <2> QED
    BY <2>1, <2>2, EmptySeq
<1>2. CASE \E i \in 1..Len(s) : s[i] = e
  <2> DEFINE r == RemoveFirst(s, e)
  <2>1. PICK k \in 1..Len(s) :
          /\ s[k] = e /\ r \in Seq(S) /\ Len(r) = Len(s) - 1
          /\ \A i \in 1..Len(s) - 1 : r[i] = s[IF i < k THEN i ELSE i + 1]
    BY <1>2, RemovedAt
  <2> HIDE DEF r
  <2>2. /\ Len(s) \in Nat /\ DOMAIN s = 1..Len(s) /\ DOMAIN r = 1..Len(s) - 1
        /\ k \in Nat /\ k >= 1
    BY <2>1, LenProperties
  <2>3. ASSUME NEW x \in Range(s), x # e PROVE x \in Range(r)
    <3>1. PICK i \in 1..Len(s) : s[i] = x
      BY <2>2 DEF Range
    <3>2. CASE i < k
      <4>1. i \in 1..Len(s) - 1 /\ r[i] = x
        BY <2>1, <2>2, <3>1, <3>2
      <4> QED
        BY <2>2, <4>1 DEF Range
    <3>3. CASE i > k
      <4>1. i - 1 \in 1..Len(s) - 1 /\ ~(i - 1 < k) /\ (i - 1) + 1 = i
        BY <2>2, <3>3
      <4>2. r[i - 1] = x
        BY <2>1, <3>1, <4>1
      <4> QED
        BY <2>2, <4>1, <4>2 DEF Range
    <3> QED
      BY <2>1, <2>2, <2>3, <3>1, <3>2, <3>3
  <2>4. Range(r) \subseteq Range(s)
    <3>1. ASSUME NEW i \in 1..Len(s) - 1 PROVE r[i] \in Range(s)
      <4>1. (IF i < k THEN i ELSE i + 1) \in 1..Len(s)
        BY <2>2
      <4> QED
        BY <2>1, <2>2, <4>1 DEF Range
    <3> QED
      BY <2>2, <3>1 DEF Range
  <2>5. ASSUME IsInjective(s) PROVE IsInjective(r) /\ e \notin Range(r)
    <3> DEFINE w(i) == IF i < k THEN i ELSE i + 1
    <3>1. ASSUME NEW i \in 1..Len(s) - 1
          PROVE  w(i) \in 1..Len(s) /\ w(i) # k /\ r[i] = s[w(i)]
      BY <2>1, <2>2
    <3>2. \A i, j \in 1..Len(s) - 1 : w(i) = w(j) => i = j
      BY <2>2
    <3> HIDE DEF w
    <3>3. \A i, j \in 1..Len(s) : s[i] = s[j] => i = j
      BY <2>2, <2>5 DEF IsInjective
    <3>4. IsInjective(r)
      BY <2>2, <3>1, <3>2, <3>3 DEF IsInjective
    <3>5. \A i \in 1..Len(s) - 1 : r[i] # e
      BY <2>1, <3>1, <3>3
    <3> QED
      BY <2>2, <3>4, <3>5 DEF Range
  <2>6. Len(s) > 1 => r # <<>>
    BY <2>1, <2>2, EmptySeq
  <2> QED
    BY <2>1, <2>3, <2>4, <2>5, <2>6 DEF r
<1> QED
  BY <1>1, <1>2

LEMMA AppendedOnce ==
    ASSUME NEW S, NEW s \in Seq(S), NEW e \in S, e \notin Range(s)
    PROVE  /\ Range(Append(s, e)) = Range(s) \cup {e}
           /\ IsInjective(s) => IsInjective(Append(s, e))
<1> DEFINE t == Append(s, e)
           n == Len(s)
<1>1. n \in Nat /\ DOMAIN s = 1..n
  BY LenProperties
<1>2. /\ t \in Seq(S) /\ Len(t) = n + 1 /\ t[n + 1] = e
      /\ \A i \in 1..n : t[i] = s[i]
  BY <1>1, AppendProperties
<1> HIDE DEF t, n
<1>3. DOMAIN t = 1..n + 1 /\ 1..n + 1 = (1..n) \cup {n + 1}
  BY <1>1, <1>2, LenProperties
<1>4. Range(t) = Range(s) \cup {e}
  BY <1>1, <1>2, <1>3 DEF Range
<1>5. \A i \in 1..n : t[i] # e
  BY <1>1, <1>2 DEF Range
<1>6. IsInjective(s) => IsInjective(t)
  BY <1>1, <1>2, <1>3, <1>5 DEF IsInjective
<1> QED
  BY <1>4, <1>6 DEF t

LEMMA PrefixOnce ==
    ASSUME NEW S, NEW s \in Seq(S), NEW n \in 0..Len(s), IsInjective(s)
    PROVE  IsInjective(SubSeq(s, 1, n))
<1> DEFINE t == SubSeq(s, 1, n)
<1>1. Len(s) \in Nat /\ DOMAIN s = 1..Len(s) /\ n \in Nat /\ n <= Len(s)
  BY LenProperties
<1>2. t \in Seq(S) /\ Len(t) = n /\ \A i \in 1..n : t[i] = s[i]
  <2>1. \A i \in 1..n : s[i] \in S
    BY <1>1, ElementOfSeq
  <2> QED
    BY <1>1, <2>1, SubSeqProperties
<1> HIDE DEF t
<1>3. DOMAIN t = 1..n
  BY <1>2, LenProperties
<1>4. IsInjective(t)
  BY <1>1, <1>2, <1>3 DEF IsInjective
<1> QED
  BY <1>4 DEF t

LEMMA EmptyOnce == IsInjective(<<>>)
  BY DEF IsInjective

\* A list of clusters that is changed place by place.
LEMMA Placewise ==
    ASSUME NEW c \in Seq(Clusters), NEW d, d = [i \in DOMAIN c |-> d[i]],
           \A i \in DOMAIN c : d[i] \in Clusters
    PROVE  d \in Seq(Clusters) /\ DOMAIN d = DOMAIN c /\ Len(d) = Len(c)
<1>1. Len(c) \in Nat /\ DOMAIN c = 1..Len(c)
  BY LenProperties
<1>2. d \in [1..Len(c) -> Clusters]
  BY <1>1
<1>3. d \in Seq(Clusters)
  BY <1>1, <1>2, SeqDef
<1> QED
  BY <1>1, <1>2, <1>3, LenProperties

LEMMA WithoutKeeps ==
    ASSUME NEW c \in Seq(Clusters), NEW bms, NEW pcs
    PROVE  LET d == Without(c, bms, pcs)
           IN  /\ d \in Seq(Clusters) /\ DOMAIN d = DOMAIN c /\ Len(d) = Len(c)
               /\ \A i \in DOMAIN c : /\ d[i].name = c[i].name /\ d[i].pcs = c[i].pcs \ pcs
                                      /\ d[i].bms = c[i].bms \ bms
               /\ Disjoint(c) => Disjoint(d)
<1> DEFINE d == Without(c, bms, pcs)
<1>1. /\ d = [i \in DOMAIN c |-> d[i]]
      /\ \A i \in DOMAIN c : d[i] = [c[i] EXCEPT !.bms = @ \ bms, !.pcs = @ \ pcs]
  BY DEF Without
<1> HIDE DEF d
<1>2. \A i \in DOMAIN c : c[i] \in Clusters
  BY LenProperties, ElementOfSeq
<1>3. ASSUME NEW i \in DOMAIN c
      PROVE  /\ d[i] \in Clusters /\ d[i].name = c[i].name /\ d[i].pcs = c[i].pcs \ pcs
             /\ d[i].bms = c[i].bms \ bms
  <2>1. c[i] \in Clusters /\ d[i] = [c[i] EXCEPT !.bms = c[i].bms \ bms, !.pcs = c[i].pcs \ pcs]
    BY <1>1, <1>2
  <2>2. /\ c[i] = [name |-> c[i].name, bms |-> c[i].bms, pcs |-> c[i].pcs]
        /\ c[i].name \in ClusterNames /\ c[i].bms \in SUBSET Bms /\ c[i].pcs \in SUBSET Pcs
    BY <2>1 DEF Clusters
  <2>3. d[i] = [name |-> c[i].name, bms |-> c[i].bms \ bms, pcs |-> c[i].pcs \ pcs]
    BY <2>1, <2>2
  <2> QED
    BY <2>2, <2>3 DEF Clusters
<1>4. d \in Seq(Clusters) /\ DOMAIN d = DOMAIN c /\ Len(d) = Len(c)
  BY <1>1, <1>3, Placewise
<1>5. Disjoint(c) => Disjoint(d)
  BY <1>3, <1>4 DEF Disjoint
<1> QED
  BY <1>3, <1>4, <1>5 DEF d

\* One cluster is exchanged.
LEMMA ExchangedKeeps ==
    ASSUME NEW c \in Seq(Clusters), NEW k \in DOMAIN c, NEW x \in Clusters
    PROVE  LET d == [c EXCEPT ![k] = x]
           IN  /\ d \in Seq(Clusters) /\ DOMAIN d = DOMAIN c /\ Len(d) = Len(c)
               /\ d[k] = x /\ \A i \in DOMAIN c \ {k} : d[i] = c[i]
               /\ (\A i \in DOMAIN c \ {k} : c[i].pcs \cap x.pcs = {}) /\ Disjoint(c) => Disjoint(d)
<1> DEFINE d == [c EXCEPT ![k] = x]
<1>1. k \in 1..Len(c) /\ DOMAIN c = 1..Len(c)
  BY LenProperties
<1>2. d \in Seq(Clusters) /\ Len(d) = Len(c)
  BY <1>1, ExceptSeq
<1>3. DOMAIN d = DOMAIN c /\ d[k] = x /\ \A i \in DOMAIN c \ {k} : d[i] = c[i]
  OBVIOUS
<1> HIDE DEF d
<1>4. (\A i \in DOMAIN c \ {k} : c[i].pcs \cap x.pcs = {}) /\ Disjoint(c) => Disjoint(d)
  <2> SUFFICES ASSUME \A i \in DOMAIN c \ {k} : c[i].pcs \cap x.pcs = {}, Disjoint(c),
                      NEW i \in DOMAIN c, NEW j \in DOMAIN c, i # j
               PROVE  d[i].pcs \cap d[j].pcs = {}
    BY <1>3 DEF Disjoint
  <2>1. CASE i = k
    BY <1>3, <2>1
  <2>2. CASE j = k
    BY <1>3, <2>2
  <2>3. CASE i # k /\ j # k
    BY <1>3, <2>3 DEF Disjoint
  <2> QED
    BY <2>1, <2>2, <2>3
<1> QED
  BY <1>2, <1>3, <1>4 DEF d

LEMMA BindingsOf ==
    ASSUME NEW c, NEW d, DOMAIN c = DOMAIN d,
           \A i \in DOMAIN c : c[i].name = d[i].name /\ c[i].pcs = d[i].pcs
    PROVE  Bindings(c) = Bindings(d)
  BY DEF Bindings

LEMMA NamedExist ==
    ASSUME NEW c, session.clusters \in Seq(Clusters), c \in Names
    PROVE  FirstNamed(c) \in DOMAIN session.clusters /\ LastNamed(c) \in DOMAIN session.clusters
<1>1. /\ Len(session.clusters) \in Nat /\ DOMAIN session.clusters = 1..Len(session.clusters)
      /\ Named(c) \in SUBSET (1..Len(session.clusters)) /\ Named(c) # {}
  BY LenProperties DEF Named, Names
<1>2. FirstNamed(c) \in Named(c)
  BY <1>1, Smallest DEF FirstNamed
<1>3. LastNamed(c) \in Named(c)
  BY <1>1, Largest DEF LastNamed
<1> QED
  BY <1>1, <1>2, <1>3
-----------------------------------------------------------------------------
(* Saving and dying.                                                       *)

LEMMA DefaultsAreGood ==
    /\ GoodFiles(DefaultFiles) /\ DefaultFiles.pcs = <<PCS1>>
    /\ DefaultSite \in Seq(Clusters) /\ DefaultSite # <<>> /\ Disjoint(DefaultSite)
<1>1. [name |-> Cluster1, bms |-> {}, pcs |-> {PCS1}] \in Clusters
  BY NamesAssumption DEF Clusters
<1>2. DefaultSite \in Seq(Clusters) /\ DefaultSite # <<>> /\ DOMAIN DefaultSite = {1}
  BY <1>1 DEF DefaultSite
<1>3. <<PCS1>> \in Seq(Pcs) /\ <<PCS1>> # <<>> /\ <<>> \in Seq(Bms)
  BY NamesAssumption
<1>4. Disjoint(DefaultSite)
  BY <1>2 DEF Disjoint
<1>5. DefaultFiles \in Files /\ DefaultFiles.pcs = <<PCS1>> /\ DefaultFiles.site = DefaultSite
  BY <1>2, <1>3 DEF DefaultFiles, Files
<1> QED
  BY <1>2, <1>3, <1>4, <1>5, EmptyOnce DEF GoodFiles, DefaultFiles

LEMMA FreshIsGood ==
    ASSUME NEW f, f.pcs \in Seq(Pcs), f.pcs # <<>>
    PROVE  GoodSession(Fresh(f))
<1>1. f.pcs[1] \in Pcs /\ 1 \in DOMAIN f.pcs /\ f.pcs[1] \in Range(f.pcs)
  <2>1. Len(f.pcs) \in Nat \ {0} /\ DOMAIN f.pcs = 1..Len(f.pcs)
    BY EmptySeq, LenProperties
  <2>2. 1 \in 1..Len(f.pcs)
    BY <2>1
  <2> QED
    BY <2>1, <2>2, ElementOfSeq DEF Range
<1> DEFINE x == [name |-> Cluster1, bms |-> {}, pcs |-> {f.pcs[1]}]
<1>2. x \in Clusters
  BY <1>1, NamesAssumption DEF Clusters
<1> HIDE DEF x
<1>3. <<x>> \in Seq(Clusters) /\ DOMAIN <<x>> = {1} /\ Disjoint(<<x>>)
  BY <1>2 DEF Disjoint
<1>4. Fresh(f) = [profile |-> DefaultProfile, devices |-> <<>>, clusters |-> <<x>>, active |-> 1,
                  pcs |-> f.pcs, current |-> f.pcs[1]]
  BY DEF Fresh, x
<1>5. <<>> \in Seq(Bms)
  OBVIOUS
<1> QED
  BY <1>1, <1>3, <1>4, <1>5, EmptyOnce, NamesAssumption DEF GoodSession, Sessions

LEMMA DownIsGood == GoodSession(Down)
<1>1. DefaultFiles.pcs \in Seq(Pcs) /\ DefaultFiles.pcs # <<>>
  BY DefaultsAreGood, NamesAssumption
<1> QED
  BY <1>1, FreshIsGood DEF Down

Parts == {"devices", "site", "pcs"}

LEMMA SessionParts ==
    ASSUME NEW s, GoodSession(s)
    PROVE  /\ s.profile \in Profiles /\ s.devices \in Seq(Bms) /\ s.clusters \in Seq(Clusters)
           /\ s.active \in Nat /\ s.pcs \in Seq(Pcs) /\ s.current \in Pcs
           /\ s.clusters # <<>> /\ s.pcs # <<>>
           /\ s.clusters # Broken /\ s.pcs # Broken /\ s.devices # Broken
<1>1. /\ s.profile \in Profiles /\ s.devices \in Seq(Bms) /\ s.clusters \in Seq(Clusters)
      /\ s.active \in Nat /\ s.pcs \in Seq(Pcs) /\ s.current \in Pcs
  BY DEF GoodSession, Sessions
<1>2. s.clusters # <<>> /\ s.pcs # <<>>
  <2>1. DOMAIN <<>> = {} /\ Range(<<>>) = {}
    BY DEF Range
  <2> QED
    BY <2>1 DEF GoodSession
<1> QED
  BY <1>1, <1>2, BrokenAssumption

LEMMA FileParts ==
    ASSUME NEW f, GoodFiles(f)
    PROVE  /\ DOMAIN f = Parts
           /\ f.devices \in Seq(Bms) \cup {Broken} /\ f.site \in Seq(Clusters) \cup {Broken}
           /\ f.pcs \in Seq(Pcs) \cup {Broken}
           /\ f = [devices |-> f.devices, site |-> f.site, pcs |-> f.pcs]
  BY DEF GoodFiles, Files, Parts

LEMMA SavedIsGood ==
    ASSUME NEW f, GoodFiles(f), NEW s, GoodSession(s), NEW kinds
    PROVE  LET g == Saved(f, s, kinds)
           IN  /\ GoodFiles(g)
               /\ g.devices = IF "devices" \in kinds THEN s.devices ELSE f.devices
               /\ g.site = IF "site" \in kinds THEN s.clusters ELSE f.site
               /\ g.pcs = IF "pcs" \in kinds THEN s.pcs ELSE f.pcs
<1> DEFINE g == Saved(f, s, kinds)
<1>1. /\ Content(s).devices = s.devices /\ Content(s).site = s.clusters /\ Content(s).pcs = s.pcs
      /\ Content(s)["devices"] = s.devices /\ Content(s)["site"] = s.clusters
      /\ Content(s)["pcs"] = s.pcs
  BY DEF Content
<1>2. DOMAIN f = Parts
  BY FileParts
<1>3. g = [x \in Parts |-> IF x \in kinds THEN Content(s)[x] ELSE f[x]]
  BY <1>2 DEF Saved
<1> HIDE DEF g
<1>4. /\ g.devices = IF "devices" \in kinds THEN s.devices ELSE f.devices
      /\ g.site = IF "site" \in kinds THEN s.clusters ELSE f.site
      /\ g.pcs = IF "pcs" \in kinds THEN s.pcs ELSE f.pcs
  BY <1>1, <1>3 DEF Parts
<1>5. g = [devices |-> g.devices, site |-> g.site, pcs |-> g.pcs]
  BY <1>3 DEF Parts
<1>6. /\ g.devices \in Seq(Bms) \cup {Broken} /\ g.site \in Seq(Clusters) \cup {Broken}
      /\ g.pcs \in Seq(Pcs) \cup {Broken}
  BY <1>4, FileParts, SessionParts
<1>7. g \in Files
  BY <1>5, <1>6 DEF Files
<1>8. /\ g.site # <<>> /\ g.pcs # <<>> /\ (g.site # Broken => Disjoint(g.site))
      /\ g.devices # Broken => IsInjective(g.devices)
  BY <1>4, SessionParts DEF GoodFiles, GoodSession
<1> QED
  BY <1>4, <1>7, <1>8 DEF GoodFiles, g

LEMMA CutOffIsGood ==
    ASSUME NEW f, GoodFiles(f), NEW k \in Parts
    PROVE  GoodFiles([f EXCEPT ![k] = Broken])
<1> DEFINE g == [f EXCEPT ![k] = Broken]
<1>1. DOMAIN f = Parts
  BY FileParts
<1>2. /\ g.devices \in {f.devices, Broken} /\ g.site \in {f.site, Broken} /\ g.pcs \in {f.pcs, Broken}
      /\ g = [x \in Parts |-> g[x]]
  BY <1>1 DEF Parts
<1> HIDE DEF g
<1>3. /\ g.devices \in Seq(Bms) \cup {Broken} /\ g.site \in Seq(Clusters) \cup {Broken}
      /\ g.pcs \in Seq(Pcs) \cup {Broken}
  BY <1>2, FileParts
<1>4. g = [devices |-> g.devices, site |-> g.site, pcs |-> g.pcs]
  BY <1>2 DEF Parts
<1>5. g \in Files
  BY <1>3, <1>4 DEF Files
<1>6. Broken # <<>>
  <2>1. <<>> \in Seq(Bms)
    BY EmptySeq
  <2> QED
    BY <2>1, BrokenAssumption
<1>7. g.site # <<>> /\ g.pcs # <<>> /\ (g.site # Broken => Disjoint(g.site))
  BY <1>2, <1>6 DEF GoodFiles
<1> QED
  BY <1>5, <1>7 DEF GoodFiles, g

LEMMA DieStep ==
    ASSUME Inv, edits' \in 0..MaxEdits, Die, NEW q \in Profiles, NEW f, GoodFiles(f),
           disk' = [disk EXCEPT ![q] = f]
    PROVE  Inv'
<1>1. session' = Down /\ up' = FALSE
  BY DEF Die
<1>2. GoodSession(session')
  BY <1>1, DownIsGood
<1>3. disk' \in [Profiles -> Files] /\ \A r \in Profiles : GoodFiles(disk'[r])
  BY DEF Inv, GoodFiles
<1> QED
  BY <1>1, <1>2, <1>3 DEF Inv, GoodSession, GoodFiles, Disjoint

LEMMA DieSavingStep ==
    ASSUME Inv, edits' \in 0..MaxEdits, NEW q \in Profiles, NEW f, GoodFiles(f),
           NEW s, GoodSession(s), NEW kinds \in Seq(Parts), DieSaving(q, f, s, kinds)
    PROVE  Inv'
<1>0. PICK k \in 1..Len(kinds) : \E w \in {Broken, Content(s)[kinds[k]]} :
        /\ disk' = [disk EXCEPT ![q] = [Saved(f, s, Range(SubSeq(kinds, 1, k - 1)))
                                            EXCEPT ![kinds[k]] = w]]
        /\ Die
  BY Zenon DEF DieSaving
<1>1. PICK written \in {Broken, Content(s)[kinds[k]]} :
        /\ disk' = [disk EXCEPT ![q] = [Saved(f, s, Range(SubSeq(kinds, 1, k - 1)))
                                            EXCEPT ![kinds[k]] = written]]
        /\ Die
  BY <1>0
<1> DEFINE before == Range(SubSeq(kinds, 1, k - 1))
           g == Saved(f, s, before)
           x == kinds[k]
<1>2. GoodFiles(g) /\ x \in Parts
  <2> HIDE DEF before
  <2> QED
    BY SavedIsGood, ElementOfSeq
<1>3. GoodFiles([g EXCEPT ![x] = written])
  <2>1. CASE written = Broken
    <3> HIDE DEF g, x
    <3> QED
      BY <1>2, <2>1, CutOffIsGood
  <2>2. CASE written = Content(s)[x]
    <3> HIDE DEF before
    <3>1. [g EXCEPT ![x] = written] = Saved(f, s, before \cup {x})
      BY <1>2, <2>2, FileParts DEF Saved
    <3> QED
      BY <3>1, SavedIsGood
  <2> QED
    BY <2>1, <2>2
<1>4. disk' = [disk EXCEPT ![q] = [g EXCEPT ![x] = written]] /\ Die
  BY <1>1
<1> HIDE DEF g, x
<1> QED
  BY <1>3, <1>4, DieStep

\* A handler leaves a good session and saves what it changed.
LEMMA CommitStep ==
    ASSUME Inv, NEW s, GoodSession(s), NEW kinds \in Seq(Parts), Commit(s, kinds),
           LET f == disk[s.profile]
           IN  /\ "pcs" \in Range(kinds) \/ f.pcs = s.pcs
               /\ "site" \in Range(kinds) \/ Bindings(f.site) = Bindings(s.clusters)
               /\ "devices" \in Range(kinds) \/ f.devices \in {s.devices, Broken} \/ s.devices = <<>>
    PROVE  Inv'
<1> DEFINE f == disk[s.profile]
           g == Saved(f, s, Range(kinds))
<1>1. s.profile \in Profiles /\ GoodFiles(f) /\ edits' \in 0..MaxEdits
  BY SessionParts, SiteBoundsAssumption DEF Inv, Commit
<1>2. CASE DieSaving(s.profile, f, s, kinds)
  <2> HIDE DEF f
  <2> QED
    BY <1>1, <1>2, DieSavingStep
<1>3. CASE disk' = [disk EXCEPT ![s.profile] = g] /\ session' = s /\ up' = TRUE
  <2>1. /\ GoodFiles(g)
        /\ g.devices = IF "devices" \in Range(kinds) THEN s.devices ELSE f.devices
        /\ g.site = IF "site" \in Range(kinds) THEN s.clusters ELSE f.site
        /\ g.pcs = IF "pcs" \in Range(kinds) THEN s.pcs ELSE f.pcs
    <3> HIDE DEF f
    <3> QED
      BY <1>1, SavedIsGood
  <2>2. InStep(s, g)
    <3> HIDE DEF g
    <3> QED
      BY <2>1 DEF InStep
  <2> HIDE DEF g
  <2>3. /\ disk' \in [Profiles -> Files] /\ disk'[s.profile] = g
        /\ \A q \in Profiles : GoodFiles(disk'[q])
    BY <1>1, <1>3, <2>1 DEF Inv, GoodFiles
  <2>4. GoodSession(session')
    BY <1>3
  <2>5. GoodSession(session)'
    BY <2>4 DEF GoodSession, Disjoint
  <2>6. (\A q \in Profiles : GoodFiles(disk[q]))'
    BY <2>3 DEF GoodFiles, Disjoint
  <2>7. InStep(session, disk[session.profile])'
    BY <1>3, <2>2, <2>3 DEF InStep, Bindings
  <2> QED
    BY <1>1, <1>3, <2>3, <2>5, <2>6, <2>7 DEF Inv
<1> QED
  BY <1>2, <1>3 DEF Commit
-----------------------------------------------------------------------------
(* The handlers.                                                           *)

LEMMA SessionIs ==
    ASSUME NEW s, GoodSession(s)
    PROVE  s = [profile |-> s.profile, devices |-> s.devices, clusters |-> s.clusters,
                active |-> s.active, pcs |-> s.pcs, current |-> s.current]
  BY DEF GoodSession, Sessions

\* Handlers touch the devices and the clusters, or the PCSs and the clusters, of
\* which the active one stays.
Reclustered(s, d, c, a) == [s EXCEPT !.devices = d, !.clusters = c, !.active = a]
Repowered(s, p, x, c) == [s EXCEPT !.pcs = p, !.current = x, !.clusters = c]

LEMMA ClustersChanged ==
    ASSUME NEW s, GoodSession(s), NEW d \in Seq(Bms), NEW c \in Seq(Clusters), NEW a \in DOMAIN c,
           Disjoint(c), IsInjective(d)
    PROVE  LET t == Reclustered(s, d, c, a)
           IN  /\ GoodSession(t) /\ t.profile = s.profile /\ t.devices = d /\ t.clusters = c
               /\ t.pcs = s.pcs
<1> DEFINE t == Reclustered(s, d, c, a)
<1>0. t = [s EXCEPT !.devices = d, !.clusters = c, !.active = a]
  BY DEF Reclustered
<1> HIDE DEF t
<1>1. t = [profile |-> s.profile, devices |-> d, clusters |-> c, active |-> a,
           pcs |-> s.pcs, current |-> s.current]
  BY <1>0 DEF GoodSession, Sessions
<1>2. s.profile \in Profiles /\ s.pcs \in Seq(Pcs) /\ s.current \in Range(s.pcs)
  BY SessionParts DEF GoodSession
<1>3. a \in Nat /\ s.current \in Pcs
  BY LenProperties, SessionParts
<1>4. /\ GoodSession(t) /\ t.profile = s.profile /\ t.devices = d /\ t.clusters = c
      /\ t.pcs = s.pcs
  BY <1>1, <1>2, <1>3 DEF GoodSession, Sessions
<1> QED
  BY <1>4 DEF t

LEMMA PcsChanged ==
    ASSUME NEW s, GoodSession(s), NEW p \in Seq(Pcs), NEW x \in Range(p), NEW c \in Seq(Clusters),
           s.active \in DOMAIN c, Disjoint(c)
    PROVE  LET t == Repowered(s, p, x, c)
           IN  /\ GoodSession(t) /\ t.profile = s.profile /\ t.devices = s.devices
               /\ t.clusters = c /\ t.pcs = p
<1> DEFINE t == Repowered(s, p, x, c)
<1>0. t = [s EXCEPT !.pcs = p, !.current = x, !.clusters = c]
  BY DEF Repowered
<1> HIDE DEF t
<1>1. t = [profile |-> s.profile, devices |-> s.devices, clusters |-> c, active |-> s.active,
           pcs |-> p, current |-> x]
  BY <1>0 DEF GoodSession, Sessions
<1>2. s.profile \in Profiles /\ s.devices \in Seq(Bms)
  BY SessionParts
<1>3. s.active \in Nat /\ x \in Pcs
  BY SessionParts, RangeOfSeq
<1>4. /\ GoodSession(t) /\ t.profile = s.profile /\ t.devices = s.devices
      /\ t.clusters = c /\ t.pcs = p
  BY <1>1, <1>2, <1>3 DEF GoodSession, Sessions
<1> QED
  BY <1>4 DEF t

LEMMA ClusterTyping ==
    ASSUME NEW x \in Clusters
    PROVE  /\ x.name \in ClusterNames /\ x.bms \in SUBSET Bms /\ x.pcs \in SUBSET Pcs
           /\ \A b \in SUBSET Bms : [x EXCEPT !.bms = b] \in Clusters /\ [x EXCEPT !.bms = b].pcs = x.pcs
                                   /\ [x EXCEPT !.bms = b].name = x.name
           /\ \A b \in SUBSET Pcs : [x EXCEPT !.pcs = b] \in Clusters /\ [x EXCEPT !.pcs = b].pcs = b
           /\ \A n \in ClusterNames : [x EXCEPT !.name = n] \in Clusters /\ [x EXCEPT !.name = n].pcs = x.pcs
  BY DEF Clusters

\* The BMSs of one cluster are exchanged: the bindings stay.
LEMMA BmsExchanged ==
    ASSUME NEW c \in Seq(Clusters), NEW k \in DOMAIN c, NEW b \in SUBSET Bms
    PROVE  LET d == [c EXCEPT ![k].bms = b]
           IN  /\ d \in Seq(Clusters) /\ DOMAIN d = DOMAIN c /\ Bindings(d) = Bindings(c)
               /\ Disjoint(c) => Disjoint(d)
<1> DEFINE x == [c[k] EXCEPT !.bms = b]
           d == [c EXCEPT ![k] = x]
<1>1. c[k] \in Clusters
  BY LenProperties, ElementOfSeq
<1>2. x \in Clusters /\ x.pcs = c[k].pcs /\ x.name = c[k].name
  BY <1>1, ClusterTyping
<1> HIDE DEF x
<1>3. /\ d \in Seq(Clusters) /\ DOMAIN d = DOMAIN c /\ Len(d) = Len(c)
      /\ d[k] = x /\ \A i \in DOMAIN c \ {k} : d[i] = c[i]
      /\ (\A i \in DOMAIN c \ {k} : c[i].pcs \cap x.pcs = {}) /\ Disjoint(c) => Disjoint(d)
  BY <1>2, ExchangedKeeps
<1>4. [c EXCEPT ![k].bms = b] = d
  BY DEF x
<1> HIDE DEF d
<1>5. Bindings(d) = Bindings(c)
  BY <1>2, <1>3, BindingsOf
<1>6. Disjoint(c) => Disjoint(d)
  BY <1>2, <1>3 DEF Disjoint
<1> QED
  BY <1>3, <1>4, <1>5, <1>6

LEMMA DevicesSteps ==
    ASSUME Inv, NEW b \in Bms, AddDevice(b) \/ RemoveDevice(b)
    PROVE  Inv'
<1>1. GoodSession(session) /\ up
  BY DEF Inv, AddDevice, RemoveDevice, Commit
<1>2. /\ session.devices \in Seq(Bms) /\ session.clusters \in Seq(Clusters)
      /\ session.active \in DOMAIN session.clusters /\ Disjoint(session.clusters)
      /\ session.pcs = disk[session.profile].pcs
      /\ <<"devices", "site">> \in Seq(Parts) /\ Range(<<"devices", "site">>) = {"devices", "site"}
  <2>1. <<"devices", "site">> \in Seq(Parts)
    BY DEF Parts
  <2>2. Range(<<"devices", "site">>) = {"devices", "site"}
    BY DEF Range
  <2> QED
    BY <1>1, <2>1, <2>2, SessionParts DEF Inv, InStep, GoodSession
<1>3. CASE AddDevice(b)
  <2> DEFINE d == Append(session.devices, b)
             k == session.active
             c == [session.clusters EXCEPT ![k].bms = session.clusters[k].bms \cup {b}]
             s == Added(session, b)
  <2>1. session.clusters[k] \in Clusters
    BY <1>2, LenProperties, ElementOfSeq
  <2>2. session.clusters[k].bms \cup {b} \in SUBSET Bms
    BY <2>1, ClusterTyping
  <2>3. c \in Seq(Clusters) /\ k \in DOMAIN c /\ Disjoint(c)
    BY <1>2, <2>2, BmsExchanged
  <2>4. d \in Seq(Bms) /\ IsInjective(d)
    BY <1>1, <1>2, <1>3, AppendedOnce DEF AddDevice, Devices, GoodSession
  <2>5. s = Reclustered(session, d, c, k)
    BY <1>1, SessionIs DEF Added, Reclustered
  <2>6. Commit(s, <<"devices", "site">>)
    BY <1>3 DEF AddDevice
  <2> HIDE DEF d, c, s
  <2>7. GoodSession(s) /\ s.profile = session.profile /\ s.pcs = session.pcs
    BY <1>1, <2>3, <2>4, <2>5, ClustersChanged
  <2> QED
    BY <1>2, <2>6, <2>7, CommitStep
<1>4. CASE RemoveDevice(b)
  <2> DEFINE d == RemoveFirst(session.devices, b)
             c == Without(session.clusters, {b}, {})
             s == [session EXCEPT !.devices = d, !.clusters = c]
  <2>1. c \in Seq(Clusters) /\ session.active \in DOMAIN c /\ Disjoint(c)
    BY <1>2, WithoutKeeps
  <2>2. d \in Seq(Bms) /\ IsInjective(d)
    BY <1>1, <1>2, RemoveFirstKeeps DEF GoodSession
  <2>3. Commit(s, <<"devices", "site">>)
    BY <1>4 DEF RemoveDevice
  <2> HIDE DEF d, c
  <2>4. s = Reclustered(session, d, c, session.active)
    BY <1>1, SessionIs DEF Reclustered
  <2> HIDE DEF s
  <2>5. GoodSession(s) /\ s.profile = session.profile /\ s.pcs = session.pcs
    BY <1>1, <2>1, <2>2, <2>4, ClustersChanged
  <2> QED
    BY <1>2, <2>3, <2>5, CommitStep
<1> QED
  BY <1>3, <1>4

LEMMA RunningParts ==
    ASSUME Inv, up
    PROVE  /\ GoodSession(session) /\ session.profile \in Profiles /\ session.devices \in Seq(Bms)
           /\ session.clusters \in Seq(Clusters) /\ session.pcs \in Seq(Pcs) /\ session.pcs # <<>>
           /\ session.current \in Range(session.pcs)
           /\ session.active \in DOMAIN session.clusters /\ Disjoint(session.clusters)
           /\ InStep(session, disk[session.profile])
  BY SessionParts DEF Inv, GoodSession

LEMMA ClustersCommitted ==
    ASSUME Inv, up, NEW c \in Seq(Clusters), NEW a \in DOMAIN c, Disjoint(c),
           NEW kinds, kinds = <<"site">> \/ (kinds = <<>> /\ c = session.clusters),
           Commit(Reclustered(session, session.devices, c, a), kinds)
    PROVE  Inv'
<1> DEFINE s == Reclustered(session, session.devices, c, a)
<1>1. /\ GoodSession(s) /\ s.profile = session.profile /\ s.devices = session.devices
      /\ s.clusters = c /\ s.pcs = session.pcs
  BY SMTT(40), RunningParts, ClustersChanged DEF GoodSession
<1> HIDE DEF s
<1>2. kinds \in Seq(Parts) /\ (kinds = <<"site">> => "site" \in Range(kinds))
  <2>1. <<"site">> \in Seq(Parts) /\ <<>> \in Seq(Parts)
    BY DEF Parts
  <2>2. "site" \in Range(<<"site">>)
    BY DEF Range
  <2> QED
    BY <2>1, <2>2
<1>3. /\ disk[s.profile].pcs = s.pcs
      /\ "site" \in Range(kinds) \/ Bindings(disk[s.profile].site) = Bindings(s.clusters)
      /\ disk[s.profile].devices \in {s.devices, Broken} \/ s.devices = <<>>
  BY <1>1, <1>2, RunningParts DEF InStep
<1>4. Commit(s, kinds)
  BY DEF s
<1> QED
  BY <1>1, <1>2, <1>3, <1>4, CommitStep

LEMMA ProjectStep == ASSUME Inv, ProjectPage PROVE Inv'
<1>1. PICK n \in ClusterNames :
        \/ AddCluster(n) \/ RenameCluster(n) \/ ActivateCluster(n)
        \/ \E p \in Pcs : BindPcs(p, n) \/ UnbindPcs(p, n)
        \/ \E b \in Bms : MoveBms(b, n)
  BY DEF ProjectPage
<1>2. up
  BY <1>1 DEF AddCluster, RenameCluster, ActivateCluster, BindPcs, UnbindPcs, MoveBms, Commit
<1> DEFINE old == session.clusters
           d == session.devices
           a == session.active
<1>3. /\ GoodSession(session) /\ old \in Seq(Clusters) /\ a \in DOMAIN old /\ Disjoint(old)
      /\ \A i \in DOMAIN old : old[i] \in Clusters
  BY <1>2, RunningParts, LenProperties, ElementOfSeq
<1>4. ASSUME NEW c, NEW k, Commit([session EXCEPT !.clusters = c], k)
      PROVE  Commit(Reclustered(session, d, c, a), k)
  <2>1. Reclustered(session, d, c, a) = [session EXCEPT !.clusters = c]
    BY <1>3 DEF Reclustered, GoodSession, Sessions
  <2> QED
    BY <1>4, <2>1
<1>5. CASE AddCluster(n)
  <2> DEFINE x == [name |-> n, bms |-> {}, pcs |-> {}]
             c == Append(old, x)
  <2>1. Commit([session EXCEPT !.clusters = c], <<"site">>)
    BY <1>5 DEF AddCluster
  <2>2. x \in Clusters /\ x.pcs = {}
    BY DEF Clusters
  <2> HIDE DEF x
  <2>3. /\ c \in Seq(Clusters) /\ Len(c) = Len(old) + 1
        /\ c[Len(old) + 1] = x /\ \A i \in 1..Len(old) : c[i] = old[i]
    BY <1>3, <2>2, AppendProperties
  <2> HIDE DEF c
  <2>4. /\ Len(old) \in Nat /\ DOMAIN old = 1..Len(old) /\ DOMAIN c = 1..(Len(old) + 1)
    BY <1>3, <2>3, LenProperties
  <2>5. a \in DOMAIN c
    BY <1>3, <2>4
  <2>6. Disjoint(c)
    <3> SUFFICES ASSUME NEW i \in DOMAIN c, NEW j \in DOMAIN c, i # j
                 PROVE  c[i].pcs \cap c[j].pcs = {}
      BY DEF Disjoint
    <3>1. CASE i = Len(old) + 1 \/ j = Len(old) + 1
      BY <2>2, <2>3, <3>1
    <3>2. CASE i # Len(old) + 1 /\ j # Len(old) + 1
      <4>1. i \in DOMAIN old /\ j \in DOMAIN old
        BY <2>4, <3>2
      <4> QED
        BY <1>3, <2>3, <2>4, <4>1 DEF Disjoint
    <3> QED
      BY <3>1, <3>2
  <2> QED
    BY <1>2, <1>4, <2>1, <2>3, <2>5, <2>6, ClustersCommitted
<1>6. CASE RenameCluster(n)
  <2> DEFINE x == [old[a] EXCEPT !.name = n]
             c == [old EXCEPT ![a] = x]
  <2>1. x \in Clusters /\ x.pcs = old[a].pcs
    BY <1>3, ClusterTyping
  <2>2. Commit([session EXCEPT !.clusters[a].name = n], <<"site">>)
    BY <1>6 DEF RenameCluster
  <2>3. [session EXCEPT !.clusters[a].name = n] = [session EXCEPT !.clusters = c]
    OBVIOUS
  <2>4. Commit([session EXCEPT !.clusters = c], <<"site">>)
    BY <2>2, <2>3
  <2> HIDE DEF x
  <2>5. /\ c \in Seq(Clusters) /\ DOMAIN c = DOMAIN old
        /\ (\A i \in DOMAIN old \ {a} : old[i].pcs \cap x.pcs = {}) /\ Disjoint(old) => Disjoint(c)
    BY <1>3, <2>1, ExchangedKeeps
  <2>6. Disjoint(c)
    BY <1>3, <2>1, <2>5 DEF Disjoint
  <2> HIDE DEF c
  <2> QED
    BY <1>2, <1>3, <1>4, <2>4, <2>5, <2>6, ClustersCommitted
<1>7. CASE ActivateCluster(n)
  <2>1. Commit([session EXCEPT !.active = FirstNamed(n)], <<>>) /\ n \in Names
    BY <1>7 DEF ActivateCluster
  <2>2. FirstNamed(n) \in DOMAIN old
    BY <1>3, <2>1, NamedExist
  <2>3. Reclustered(session, d, old, FirstNamed(n)) = [session EXCEPT !.active = FirstNamed(n)]
    BY <1>3 DEF Reclustered, GoodSession, Sessions
  <2> QED
    BY <1>2, <1>3, <2>1, <2>2, <2>3, ClustersCommitted
<1>8. ASSUME NEW p \in Pcs, BindPcs(p, n) PROVE Inv'
  <2> DEFINE k == FirstNamed(n)
             w == Without(old, {}, {p})
             x == [w[k] EXCEPT !.pcs = w[k].pcs \cup {p}]
             c == [w EXCEPT ![k] = x]
  <2>1. Commit([session EXCEPT !.clusters = BoundTo(@, p, k)], <<"site">>) /\ n \in Names
    BY <1>8 DEF BindPcs
  <2>2. BoundTo(old, p, k) = c
    BY DEF BoundTo
  <2>3. Commit([session EXCEPT !.clusters = c], <<"site">>)
    BY <2>1, <2>2
  <2>4. k \in DOMAIN old
    BY <1>3, <2>1, NamedExist
  <2>5. /\ w \in Seq(Clusters) /\ DOMAIN w = DOMAIN old /\ Disjoint(w)
        /\ \A i \in DOMAIN old : w[i].pcs = old[i].pcs \ {p}
    BY <1>3, WithoutKeeps
  <2> HIDE DEF k, w
  <2>6. w[k] \in Clusters
    BY <2>4, <2>5, LenProperties, ElementOfSeq
  <2>7. x \in Clusters /\ x.pcs = w[k].pcs \cup {p}
    BY <2>6, ClusterTyping
  <2> HIDE DEF x
  <2>8. \A i \in DOMAIN w \ {k} : w[i].pcs \cap x.pcs = {}
    BY <2>4, <2>5, <2>7 DEF Disjoint
  <2>9. c \in Seq(Clusters) /\ DOMAIN c = DOMAIN w /\ Disjoint(c)
    BY <2>4, <2>5, <2>7, <2>8, ExchangedKeeps
  <2> HIDE DEF c
  <2> QED
    BY <1>2, <1>3, <1>4, <2>3, <2>5, <2>9, ClustersCommitted
<1>9. ASSUME NEW p \in Pcs, UnbindPcs(p, n) PROVE Inv'
  <2> DEFINE k == FirstNamed(n)
             x == [old[k] EXCEPT !.pcs = old[k].pcs \ {p}]
             c == [old EXCEPT ![k] = x]
  <2>1. Commit([session EXCEPT !.clusters[k].pcs = @ \ {p}], <<"site">>) /\ n \in Names
    BY <1>9 DEF UnbindPcs
  <2>2. [session EXCEPT !.clusters[k].pcs = @ \ {p}] = [session EXCEPT !.clusters = c]
    OBVIOUS
  <2>3. Commit([session EXCEPT !.clusters = c], <<"site">>)
    BY <2>1, <2>2
  <2>4. k \in DOMAIN old
    BY <1>3, <2>1, NamedExist
  <2> HIDE DEF k
  <2>5. x \in Clusters /\ x.pcs = old[k].pcs \ {p}
    BY <1>3, <2>4, ClusterTyping
  <2> HIDE DEF x
  <2>6. \A i \in DOMAIN old \ {k} : old[i].pcs \cap x.pcs = {}
    BY <1>3, <2>4, <2>5 DEF Disjoint
  <2>7. c \in Seq(Clusters) /\ DOMAIN c = DOMAIN old /\ Disjoint(c)
    BY <1>3, <2>4, <2>5, <2>6, ExchangedKeeps
  <2> HIDE DEF c
  <2> QED
    BY <1>2, <1>3, <1>4, <2>3, <2>7, ClustersCommitted
<1>10. ASSUME NEW b \in Bms, MoveBms(b, n) PROVE Inv'
  <2> DEFINE k == LastNamed(n)
             w == Without(old, {b}, {})
             h == w[k].bms \cup {b}
             c == [w EXCEPT ![k].bms = h]
  <2>1. Commit([session EXCEPT !.clusters = MovedTo(@, b, k)], <<"site">>) /\ n \in Names
    BY <1>10 DEF MoveBms
  <2>2. MovedTo(old, b, k) = c
    BY DEF MovedTo
  <2>3. Commit([session EXCEPT !.clusters = c], <<"site">>)
    BY <2>1, <2>2
  <2>4. k \in DOMAIN old
    BY <1>3, <2>1, NamedExist
  <2>5. w \in Seq(Clusters) /\ DOMAIN w = DOMAIN old /\ Disjoint(w)
    BY <1>3, WithoutKeeps
  <2> HIDE DEF k, w
  <2>6. w[k] \in Clusters
    BY <2>4, <2>5, LenProperties, ElementOfSeq
  <2>7. h \in SUBSET Bms
    BY <2>6, ClusterTyping
  <2> HIDE DEF h
  <2>8. c \in Seq(Clusters) /\ DOMAIN c = DOMAIN w /\ Disjoint(c)
    BY <2>4, <2>5, <2>7, BmsExchanged
  <2> HIDE DEF c
  <2> QED
    BY <1>2, <1>3, <1>4, <2>3, <2>5, <2>8, ClustersCommitted
<1> QED
  BY <1>1, <1>5, <1>6, <1>7, <1>8, <1>9, <1>10

LEMMA PcsCommitted ==
    ASSUME Inv, up, NEW p \in Seq(Pcs), NEW x \in Range(p), NEW c \in Seq(Clusters),
           session.active \in DOMAIN c, Disjoint(c), NEW kinds,
           \/ kinds \in {<<"pcs", "site">>, <<"site", "pcs">>}
           \/ kinds = <<"site">> /\ p = session.pcs
           \/ kinds = <<"pcs">> /\ c = session.clusters,
           Commit(Repowered(session, p, x, c), kinds)
    PROVE  Inv'
<1> DEFINE s == Repowered(session, p, x, c)
<1>1. /\ GoodSession(s) /\ s.profile = session.profile /\ s.devices = session.devices
      /\ s.clusters = c /\ s.pcs = p
  BY RunningParts, PcsChanged
<1> HIDE DEF s
<1>2. /\ kinds \in Seq(Parts)
      /\ "pcs" \in Range(kinds) \/ p = session.pcs
      /\ "site" \in Range(kinds) \/ c = session.clusters
  <2>1. /\ <<"site">> \in Seq(Parts) /\ <<"pcs">> \in Seq(Parts)
        /\ <<"pcs", "site">> \in Seq(Parts) /\ <<"site", "pcs">> \in Seq(Parts)
    BY DEF Parts
  <2>2. /\ "site" \in Range(<<"site">>) /\ "pcs" \in Range(<<"pcs">>)
        /\ "pcs" \in Range(<<"pcs", "site">>) /\ "site" \in Range(<<"pcs", "site">>)
        /\ "pcs" \in Range(<<"site", "pcs">>) /\ "site" \in Range(<<"site", "pcs">>)
    BY DEF Range
  <2> QED
    BY <2>1, <2>2
<1>3. /\ "pcs" \in Range(kinds) \/ disk[s.profile].pcs = s.pcs
      /\ "site" \in Range(kinds) \/ Bindings(disk[s.profile].site) = Bindings(s.clusters)
      /\ disk[s.profile].devices \in {s.devices, Broken} \/ s.devices = <<>>
  BY <1>1, <1>2, RunningParts DEF InStep
<1>4. Commit(s, kinds)
  BY DEF s
<1> QED
  BY <1>1, <1>2, <1>3, <1>4, CommitStep

LEMMA FirstOf ==
    ASSUME NEW p \in Seq(Pcs), p # <<>>
    PROVE  p[1] \in Range(p)
<1>1. Len(p) \in Nat \ {0} /\ DOMAIN p = 1..Len(p)
  BY EmptySeq, LenProperties
<1>2. 1 \in 1..Len(p)
  BY <1>1
<1> QED
  BY <1>1, <1>2 DEF Range

LEMMA LoadedPcs ==
    ASSUME NEW s, GoodSession(s), NEW p \in Seq(Pcs), p # <<>>
    PROVE  /\ WithLoadedPcs(s, p) = Repowered(s, p, p[1], s.clusters)
           /\ LET t == WithLoadedPcs(s, p)
              IN  /\ GoodSession(t) /\ t.profile = s.profile /\ t.devices = s.devices
                  /\ t.clusters = s.clusters /\ t.pcs = p
<1>1. WithLoadedPcs(s, p) = Repowered(s, p, p[1], s.clusters)
  BY DEF WithLoadedPcs, Repowered, GoodSession, Sessions
<1>2. /\ p[1] \in Range(p) /\ s.clusters \in Seq(Clusters) /\ s.active \in DOMAIN s.clusters
      /\ Disjoint(s.clusters)
  BY FirstOf, SessionParts DEF GoodSession
<1> QED
  BY <1>1, <1>2, PcsChanged

LEMMA PcsSteps ==
    ASSUME Inv,
           \/ \E p \in Pcs : AddPcs(p) \/ RemovePcs(p) \/ SelectPcs(p)
           \/ \E t \in Templates : ApplyTemplate(t)
           \/ ReloadPcs
    PROVE  Inv'
<1> DEFINE old == session.pcs
           c == session.clusters
<1>0. up
  BY DEF AddPcs, RemovePcs, SelectPcs, ApplyTemplate, ReloadPcs, Commit
<1>1. /\ GoodSession(session) /\ old \in Seq(Pcs) /\ old # <<>> /\ session.current \in Range(old)
      /\ c \in Seq(Clusters) /\ session.active \in DOMAIN c /\ Disjoint(c)
      /\ old = disk[session.profile].pcs
  BY <1>0, RunningParts DEF InStep
<1>2. ASSUME NEW p \in Pcs, AddPcs(p) PROVE Inv'
  <2> DEFINE q == WithPcs(old, p)
  <2>1. q \in Seq(Pcs) /\ p \in Range(q)
    <3>1. CASE p \in Range(old)
      BY <1>1, <3>1 DEF WithPcs
    <3>2. CASE p \notin Range(old)
      <4>1. q = Append(old, p)
        BY <3>2 DEF WithPcs
      <4>2. /\ Append(old, p) \in Seq(Pcs) /\ Len(Append(old, p)) = Len(old) + 1
            /\ Append(old, p)[Len(old) + 1] = p
        BY <1>1, AppendProperties
      <4>3. Len(old) \in Nat /\ DOMAIN Append(old, p) = 1..(Len(old) + 1)
        BY <1>1, <4>2, LenProperties
      <4>4. Len(old) + 1 \in DOMAIN Append(old, p)
        BY <4>3
      <4>5. p \in Range(Append(old, p))
        BY <4>2, <4>4 DEF Range
      <4> QED
        BY <4>1, <4>2, <4>5
    <3> QED
      BY <3>1, <3>2
  <2>2. Commit([session EXCEPT !.pcs = q, !.current = p], <<"pcs">>)
    BY <1>2 DEF AddPcs
  <2> HIDE DEF q
  <2>3. Repowered(session, q, p, c) = [session EXCEPT !.pcs = q, !.current = p]
    BY <1>1 DEF Repowered, GoodSession, Sessions
  <2> QED
    BY <1>0, <1>1, <2>1, <2>2, <2>3, PcsCommitted
<1>3. ASSUME NEW p \in Pcs, RemovePcs(p) PROVE Inv'
  <2> DEFINE left == RemoveFirst(old, p)
             x == IF session.current = p THEN left[1] ELSE session.current
             w == Without(c, {}, {p})
  <2>1. left \in Seq(Pcs) /\ left # <<>> /\ Range(old) \ {p} \subseteq Range(left)
    BY <1>1, <1>3, RemoveFirstKeeps DEF RemovePcs
  <2>2. Commit([session EXCEPT !.pcs = left, !.clusters = w, !.current = x], <<"site", "pcs">>)
    BY <1>3 DEF RemovePcs
  <2> HIDE DEF left
  <2>3. x \in Range(left)
    BY <1>1, <2>1, FirstOf
  <2>4. w \in Seq(Clusters) /\ session.active \in DOMAIN w /\ Disjoint(w)
    BY <1>1, WithoutKeeps
  <2> HIDE DEF w, x
  <2>5. Repowered(session, left, x, w) = [session EXCEPT !.pcs = left, !.clusters = w, !.current = x]
    BY <1>1 DEF Repowered, GoodSession, Sessions
  <2> QED
    BY <1>0, <1>1, <2>1, <2>2, <2>3, <2>4, <2>5, PcsCommitted
<1>4. ASSUME NEW p \in Pcs, SelectPcs(p) PROVE Inv'
  <2>1. p \in Range(old) /\ Commit([session EXCEPT !.current = p], <<"pcs">>)
    BY <1>4 DEF SelectPcs
  <2>2. Repowered(session, old, p, c) = [session EXCEPT !.current = p]
    BY <1>1 DEF Repowered, GoodSession, Sessions
  <2> QED
    BY <1>0, <1>1, <2>1, <2>2, PcsCommitted
<1>5. ASSUME NEW t \in Templates, ApplyTemplate(t) PROVE Inv'
  <2>1. t \in Seq(Pcs) /\ t # <<>>
    BY NamesAssumption
  <2>2. Commit(WithLoadedPcs(session, t), <<"pcs", "site">>)
    BY <1>5 DEF ApplyTemplate
  <2> QED
    BY <1>0, <1>1, <2>1, <2>2, LoadedPcs, FirstOf, PcsCommitted
<1>6. CASE ReloadPcs
  <2>1. Commit(WithLoadedPcs(session, old), <<"site">>)
    BY <1>1, <1>6 DEF ReloadPcs
  <2> QED
    BY <1>0, <1>1, <2>1, LoadedPcs, FirstOf, PcsCommitted
<1> QED
  BY <1>2, <1>3, <1>4, <1>5, <1>6
-----------------------------------------------------------------------------
(* Loading.                                                                *)

LEMMA LoadingIsGood ==
    ASSUME NEW s, GoodSession(s), NEW devices \in Seq(Bms), IsInjective(devices),
           NEW n \in 0..Len(devices)
    PROVE  LET t == Loading(s, devices, n)
           IN  /\ GoodSession(t) /\ t.profile = s.profile /\ t.devices = SubSeq(devices, 1, n)
               /\ Bindings(t.clusters) = Bindings(s.clusters) /\ t.pcs = s.pcs
<1> DEFINE d == SubSeq(devices, 1, n)
           c == [s.clusters EXCEPT ![s.active].bms = Range(d)]
           t == Loading(s, devices, n)
<1>1. d \in Seq(Bms) /\ Range(d) \in SUBSET Bms /\ IsInjective(d)
  <2>1. Len(devices) \in Nat /\ \A i \in 1..n : devices[i] \in Bms
    BY LenProperties, ElementOfSeq
  <2>2. d \in Seq(Bms)
    BY <2>1, SubSeqProperties
  <2> QED
    BY <2>2, RangeOfSeq, PrefixOnce
<1>2. s.clusters \in Seq(Clusters) /\ s.active \in DOMAIN s.clusters /\ Disjoint(s.clusters)
  BY SessionParts DEF GoodSession
<1>3. t = [s EXCEPT !.devices = d, !.clusters = c]
  BY DEF Loading
<1> HIDE DEF d
<1>4. c \in Seq(Clusters) /\ DOMAIN c = DOMAIN s.clusters /\ Bindings(c) = Bindings(s.clusters) /\ Disjoint(c)
  BY <1>1, <1>2, BmsExchanged
<1> HIDE DEF c, t
<1>5. t = Reclustered(s, d, c, s.active)
  BY <1>3 DEF Reclustered, GoodSession, Sessions
<1>6. GoodSession(t) /\ t.profile = s.profile /\ t.devices = d /\ t.clusters = c /\ t.pcs = s.pcs
  BY <1>1, <1>2, <1>4, <1>5, ClustersChanged
<1> QED
  BY <1>4, <1>6 DEF t, d

LEMMA RewrittenIsGood ==
    ASSUME NEW f, GoodFiles(f), NEW s, GoodSession(s), NEW devices \in Seq(Bms),
           IsInjective(devices), NEW n \in 0..Len(devices)
    PROVE  LET g == Rewritten(f, s, devices, n)
               t == Loading(s, devices, n)
           IN  /\ GoodFiles(g) /\ g.pcs = f.pcs
               /\ n = 0 => g = f
               /\ n # 0 => g.site = t.clusters /\ g.devices = SubSeq(devices, 1, n)
<1>1. CASE n = 0
  BY <1>1 DEF Rewritten
<1>2. CASE n # 0
  <2> DEFINE t == Loading(s, devices, n)
  <2>1. Rewritten(f, s, devices, n) = Saved(f, t, Both)
    BY <1>2 DEF Rewritten
  <2>2. GoodSession(t) /\ t.devices = SubSeq(devices, 1, n)
    BY LoadingIsGood
  <2> HIDE DEF t
  <2>3. LET g == Saved(f, t, Both)
        IN  /\ GoodFiles(g) /\ g.devices = t.devices /\ g.site = t.clusters /\ g.pcs = f.pcs
    BY <2>2, SavedIsGood DEF Both
  <2> QED
    BY <1>2, <2>1, <2>2, <2>3 DEF t
<1> QED
  BY <1>1, <1>2

LEMMA DieLoadingStep ==
    ASSUME Inv, edits' \in 0..MaxEdits, NEW s, GoodSession(s), NEW f, GoodFiles(f),
           NEW devices \in Seq(Bms), IsInjective(devices), DieLoading(s, f, devices)
    PROVE  Inv'
<1>1. PICK n \in 1..Len(devices) :
        DieSaving(s.profile, Rewritten(f, s, devices, n - 1), Loading(s, devices, n),
                  <<"devices", "site">>)
  BY DEF DieLoading
<1>2. n \in 0..Len(devices) /\ n - 1 \in 0..Len(devices)
  BY LenProperties
<1>3. GoodFiles(Rewritten(f, s, devices, n - 1)) /\ GoodSession(Loading(s, devices, n))
  BY <1>2, RewrittenIsGood, LoadingIsGood
<1>4. s.profile \in Profiles /\ <<"devices", "site">> \in Seq(Parts)
  BY SessionParts DEF Parts
<1> QED
  BY <1>1, <1>3, <1>4, DieSavingStep

LEMMA RunningStep ==
    ASSUME Inv, edits' \in 0..MaxEdits, NEW s, GoodSession(s), NEW f, GoodFiles(f), InStep(s, f),
           session' = s, up' = TRUE, disk' = [disk EXCEPT ![s.profile] = f]
    PROVE  Inv'
<1>1. s.profile \in Profiles
  BY SessionParts
<1>2. /\ disk' \in [Profiles -> Files] /\ disk'[s.profile] = f
      /\ \A q \in Profiles : GoodFiles(disk'[q])
  BY <1>1 DEF Inv, GoodFiles
<1> QED
  BY <1>1, <1>2 DEF Inv, GoodSession, GoodFiles, Disjoint, InStep, Bindings

LEMMA SaveDevicesStep == ASSUME Inv, NEW q \in Profiles, SaveDevices(q) PROVE Inv'
<1> DEFINE own == session.profile
           one == [disk EXCEPT ![q].devices = session.devices]
<1>1. up /\ edits' \in 0..MaxEdits /\ own \in Profiles /\ GoodSession(session)
      /\ InStep(session, disk[own]) /\ <<"devices">> \in Seq(Parts)
  BY RunningParts, SiteBoundsAssumption DEF Inv, SaveDevices, Parts
<1>2. ASSUME NEW r \in Profiles, NEW f, GoodFiles(f)
      PROVE  /\ GoodFiles([f EXCEPT !.devices = session.devices])
             /\ GoodFiles([f EXCEPT !.devices = Broken])
             /\ [f EXCEPT !.devices = session.devices].pcs = f.pcs
             /\ [f EXCEPT !.devices = session.devices].site = f.site
             /\ [f EXCEPT !.devices = session.devices].devices = session.devices
  <2> DEFINE g == [f EXCEPT !.devices = session.devices]
             h == [f EXCEPT !.devices = Broken]
  <2>1. session.devices \in Seq(Bms) /\ IsInjective(session.devices)
    BY <1>1, SessionParts DEF GoodSession
  <2>2. /\ g = [devices |-> session.devices, site |-> f.site, pcs |-> f.pcs]
        /\ h = [devices |-> Broken, site |-> f.site, pcs |-> f.pcs]
    BY <1>2, FileParts
  <2> HIDE DEF g, h
  <2>3. g \in Files /\ h \in Files
    BY <1>2, <2>1, <2>2, FileParts DEF Files
  <2>4. /\ GoodFiles(g) /\ GoodFiles(h)
        /\ g.pcs = f.pcs /\ g.site = f.site /\ g.devices = session.devices
    BY <1>2, <2>1, <2>2, <2>3 DEF GoodFiles
  <2> QED
    BY <2>4 DEF g, h
<1>3. CASE DieSaving(q, disk[q], session, <<"devices">>)
  BY <1>1, <1>3, DieSavingStep DEF Inv
<1>4. CASE /\ disk' = [disk EXCEPT ![q].devices = session.devices, ![own].devices = session.devices]
           /\ UNCHANGED <<session, up>>
  <2>1. disk' = [one EXCEPT ![own].devices = session.devices]
    BY <1>4
  <2>2. /\ one \in [Profiles -> Files] /\ \A r \in Profiles : GoodFiles(one[r])
        /\ one[own].pcs = disk[own].pcs /\ one[own].site = disk[own].site
    BY <1>1, <1>2 DEF Inv, GoodFiles
  <2> HIDE DEF one
  <2>3. /\ disk' = [disk' EXCEPT ![own] = disk'[own]]
        /\ disk' \in [Profiles -> Files] /\ \A r \in Profiles : GoodFiles(disk'[r])
        /\ disk'[own] = [one[own] EXCEPT !.devices = session.devices]
    <3>1. disk' = [one EXCEPT ![own] = [one[own] EXCEPT !.devices = session.devices]]
      BY <2>1
    <3>2. GoodFiles([one[own] EXCEPT !.devices = session.devices])
      BY <1>1, <1>2, <2>2
    <3> QED
      BY <1>1, <2>2, <3>1, <3>2 DEF GoodFiles
  <2>4. InStep(session, disk'[own])
    BY <1>1, <1>2, <2>2, <2>3 DEF InStep
  <2>5. session' = session /\ up' = up
    BY <1>4
  <2>6. GoodSession(session)' /\ InStep(session, disk[session.profile])'
    BY <1>1, <2>4, <2>5 DEF GoodSession, Disjoint, InStep, Bindings
  <2>7. (\A r \in Profiles : GoodFiles(disk[r]))'
    BY <2>3 DEF GoodFiles, Disjoint
  <2>8. disk' \in [Profiles -> Files] /\ up' \in BOOLEAN
    BY <2>3, <2>5 DEF Inv
  <2> QED
    BY <1>1, <2>6, <2>7, <2>8 DEF Inv
<1>5. CASE /\ disk' = [disk EXCEPT ![q].devices = session.devices, ![own].devices = Broken] /\ Die
  <2>1. disk' = [one EXCEPT ![own] = [one[own] EXCEPT !.devices = Broken]]
    BY <1>5
  <2>2. one \in [Profiles -> Files] /\ \A r \in Profiles : GoodFiles(one[r])
    BY <1>1, <1>2 DEF Inv, GoodFiles
  <2> HIDE DEF one
  <2>3. GoodFiles([one[own] EXCEPT !.devices = Broken])
    BY <1>1, <1>2, <2>2
  <2>4. disk' \in [Profiles -> Files] /\ \A r \in Profiles : GoodFiles(disk'[r])
    BY <1>1, <2>1, <2>2, <2>3 DEF GoodFiles
  <2>5. session' = Down /\ up' = FALSE /\ GoodSession(session')
    BY <1>5, DownIsGood DEF Die
  <2> QED
    BY <1>1, <2>4, <2>5 DEF Inv, GoodSession, GoodFiles, Disjoint
<1> QED
  BY <1>3, <1>4, <1>5 DEF SaveDevices

LEMMA LoadDevicesStep == ASSUME Inv, NEW q \in Profiles, LoadDevices(q) PROVE Inv'
<1> DEFINE devices == disk[q].devices
           f == disk[session.profile]
           n == Len(devices)
           s == Loading(session, devices, n)
           g == Rewritten(f, session, devices, n)
<1>1. up /\ edits' \in 0..MaxEdits /\ session.profile \in Profiles /\ GoodSession(session)
      /\ GoodFiles(f) /\ InStep(session, f)
  BY RunningParts, SiteBoundsAssumption DEF Inv, LoadDevices
<1>2. devices \in Seq(Bms) /\ IsInjective(devices)
  BY FileParts DEF Inv, LoadDevices, GoodFiles
<1>3. n \in 0..Len(devices) /\ Len(devices) \in Nat
  BY <1>2, LenProperties
<1>4. CASE session' = s /\ up' = TRUE /\ disk' = [disk EXCEPT ![session.profile] = g]
  <2> HIDE DEF devices, f
  <2>1. /\ GoodSession(s) /\ s.profile = session.profile /\ s.devices = SubSeq(devices, 1, n)
        /\ Bindings(s.clusters) = Bindings(session.clusters) /\ s.pcs = session.pcs
    BY <1>1, <1>2, <1>3, LoadingIsGood
  <2>2. /\ GoodFiles(g) /\ g.pcs = f.pcs /\ (n = 0 => g = f)
        /\ n # 0 => g.site = s.clusters /\ g.devices = SubSeq(devices, 1, n)
    BY <1>1, <1>2, <1>3, RewrittenIsGood
  <2>3. n = 0 => s.devices = <<>>
    <3>1. n = 0 => SubSeq(devices, 1, n) = <<>>
      BY SubSeqEmpty
    <3> QED
      BY <2>1, <3>1
  <2> HIDE DEF s, g, n
  <2>4. InStep(s, g)
    BY <1>1, <2>1, <2>2, <2>3 DEF InStep
  <2>5. disk' = [disk EXCEPT ![s.profile] = g]
    BY <1>4, <2>1
  <2> QED
    BY <1>1, <1>4, <2>1, <2>2, <2>4, <2>5, RunningStep
<1>5. CASE DieLoading(session, f, devices)
  <2> HIDE DEF devices, f
  <2> QED
    BY <1>1, <1>2, <1>5, DieLoadingStep
<1> QED
  BY <1>4, <1>5 DEF LoadDevices

LEMMA EnsuredIsGood ==
    ASSUME NEW f, GoodFiles(f)
    PROVE  LET g == Ensured(f)
           IN  /\ GoodFiles(g) /\ g.devices = f.devices
               /\ g.site \in Seq(Clusters) /\ g.pcs \in Seq(Pcs)
<1> DEFINE site == IF f.site = Broken THEN DefaultSite ELSE f.site
           pcs == IF f.pcs = Broken THEN <<PCS1>>
                  ELSE IF PCS1 \in Range(f.pcs) THEN f.pcs ELSE Append(f.pcs, PCS1)
           g == Ensured(f)
<1>1. site \in Seq(Clusters) /\ site # <<>> /\ Disjoint(site)
  BY FileParts, DefaultsAreGood DEF GoodFiles
<1>2. pcs \in Seq(Pcs) /\ pcs # <<>>
  <2>1. <<PCS1>> \in Seq(Pcs) /\ <<PCS1>> # <<>>
    BY NamesAssumption
  <2>2. CASE f.pcs # Broken
    <3>1. f.pcs \in Seq(Pcs) /\ f.pcs # <<>>
      BY <2>2, FileParts DEF GoodFiles
    <3>2. Append(f.pcs, PCS1) \in Seq(Pcs) /\ Append(f.pcs, PCS1) # <<>>
      BY <3>1, NamesAssumption, AppendProperties
    <3> QED
      BY <2>2, <3>1, <3>2
  <2> QED
    BY <2>1, <2>2
<1>3. g = [f EXCEPT !.site = site, !.pcs = pcs]
  BY DEF Ensured
<1> HIDE DEF site, pcs, g
<1>4. g.devices = f.devices /\ g.site = site /\ g.pcs = pcs
      /\ g = [devices |-> f.devices, site |-> site, pcs |-> pcs]
  BY <1>3 DEF GoodFiles, Files
<1>5. g \in Files
  BY <1>1, <1>2, <1>4, FileParts DEF Files
<1>6. GoodFiles(g) /\ g.devices = f.devices /\ g.site \in Seq(Clusters) /\ g.pcs \in Seq(Pcs)
  BY <1>1, <1>2, <1>4, <1>5 DEF GoodFiles
<1> QED
  BY <1>6 DEF g

LEMMA RebuiltIsGood ==
    ASSUME NEW c \in Seq(Clusters), NEW devices
    PROVE  LET d == Rebuilt(c, devices)
           IN  /\ d \in Seq(Clusters) /\ DOMAIN d = DOMAIN c /\ Bindings(d) = Bindings(c)
               /\ Disjoint(c) => Disjoint(d)
<1> DEFINE d == Rebuilt(c, devices)
<1>1. \A i \in DOMAIN c : c[i] \in Clusters
  BY LenProperties, ElementOfSeq
<1>2. d = [i \in DOMAIN c |-> d[i]] /\ \A i \in DOMAIN c : d[i] = [c[i] EXCEPT !.bms = @ \cap Range(devices)]
  BY DEF Rebuilt
<1> HIDE DEF d
<1>3. ASSUME NEW i \in DOMAIN c
      PROVE  d[i] \in Clusters /\ d[i].name = c[i].name /\ d[i].pcs = c[i].pcs
  <2>1. c[i] \in Clusters /\ d[i] = [c[i] EXCEPT !.bms = c[i].bms \cap Range(devices)]
    BY <1>1, <1>2
  <2>2. c[i].bms \cap Range(devices) \in SUBSET Bms
    BY <2>1, ClusterTyping
  <2> QED
    BY <2>1, <2>2, ClusterTyping
<1>4. d \in Seq(Clusters) /\ DOMAIN d = DOMAIN c
  BY <1>2, <1>3, Placewise
<1>5. Bindings(d) = Bindings(c)
  BY <1>3, <1>4, BindingsOf
<1>6. Disjoint(c) => Disjoint(d)
  BY <1>3, <1>4 DEF Disjoint
<1> QED
  BY <1>4, <1>5, <1>6 DEF d

LEMMA AutoLoadStep ==
    ASSUME Inv, edits' \in 0..MaxEdits, NEW s, GoodSession(s), NEW f, GoodFiles(f), AutoLoad(s, f)
    PROVE  Inv'
<1> DEFINE ensured == Ensured(f)
           devices == IF f.devices = Broken THEN <<>> ELSE f.devices
           n == Len(devices)
           common == WithLoadedPcs(s, ensured.pcs)
           loaded == IF f.devices = Broken THEN common ELSE Loading(common, devices, n)
           after == Rewritten(ensured, common, devices, n)
           rebuilt == Rebuilt(after.site, loaded.devices)
           t == [loaded EXCEPT !.clusters = rebuilt, !.active = 1]
<1>1. /\ GoodFiles(ensured) /\ ensured.devices = f.devices
      /\ ensured.site \in Seq(Clusters) /\ ensured.pcs \in Seq(Pcs) /\ ensured.pcs # <<>>
  BY EnsuredIsGood DEF GoodFiles
<1>2. /\ devices \in Seq(Bms) /\ n \in Nat /\ n \in 0..Len(devices) /\ IsInjective(devices)
      /\ f.devices = Broken => n = 0
  <2>1. devices \in Seq(Bms) /\ IsInjective(devices)
    BY FileParts, EmptySeq, EmptyOnce DEF GoodFiles
  <2> QED
    BY <2>1, LenProperties, EmptySeq
<1>3. GoodSession(common) /\ common.profile = s.profile /\ common.pcs = ensured.pcs
  <2> HIDE DEF ensured
  <2> QED
    BY <1>1, LoadedPcs
<1>4. CASE session' = t /\ disk' = [disk EXCEPT ![s.profile] = after] /\ up' = TRUE
  <2> HIDE DEF ensured, devices, common
  <2>1. /\ GoodSession(Loading(common, devices, n)) /\ Loading(common, devices, n).profile = s.profile
        /\ Loading(common, devices, n).devices = SubSeq(devices, 1, n)
        /\ Loading(common, devices, n).pcs = ensured.pcs
    BY <1>2, <1>3, LoadingIsGood
  <2>2. GoodSession(loaded) /\ loaded.profile = s.profile /\ loaded.pcs = ensured.pcs
    BY <1>3, <2>1
  <2>3. /\ GoodFiles(after) /\ after.pcs = ensured.pcs /\ (n = 0 => after = ensured)
        /\ n # 0 => /\ after.site = Loading(common, devices, n).clusters
                    /\ after.devices = SubSeq(devices, 1, n)
    BY <1>1, <1>2, <1>3, RewrittenIsGood
  <2>4. after.devices \in {loaded.devices, Broken} \/ loaded.devices = <<>>
    <3>1. CASE f.devices = Broken
      BY <1>1, <1>2, <2>3, <3>1
    <3>2. CASE f.devices # Broken /\ n # 0
      BY <2>1, <2>3, <3>2
    <3>3. CASE f.devices # Broken /\ n = 0
      <4>1. SubSeq(devices, 1, n) = <<>>
        BY <3>3, SubSeqEmpty
      <4> QED
        BY <2>1, <3>3, <4>1
    <3> QED
      BY <3>1, <3>2, <3>3
  <2>5. after.site \in Seq(Clusters) /\ after.site # <<>> /\ Disjoint(after.site)
    <3>1. after.site \in Seq(Clusters)
      BY <1>1, <2>1, <2>3, SessionParts
    <3>2. after.site # Broken
      BY <3>1, BrokenAssumption
    <3> QED
      BY <2>3, <3>1, <3>2 DEF GoodFiles
  <2> HIDE DEF loaded, after
  <2>6. /\ rebuilt \in Seq(Clusters) /\ DOMAIN rebuilt = DOMAIN after.site
        /\ Bindings(rebuilt) = Bindings(after.site) /\ Disjoint(rebuilt)
    BY <2>5, RebuiltIsGood
  <2>7. 1 \in DOMAIN rebuilt
    <3>1. Len(after.site) \in Nat \ {0} /\ DOMAIN after.site = 1..Len(after.site)
      BY <2>5, EmptySeq, LenProperties
    <3> QED
      BY <2>6, <3>1
  <2> HIDE DEF rebuilt
  <2>8. t = Reclustered(loaded, loaded.devices, rebuilt, 1)
    BY <2>2 DEF Reclustered, GoodSession, Sessions
  <2> HIDE DEF t
  <2>9. /\ GoodSession(t) /\ t.profile = s.profile /\ t.devices = loaded.devices
        /\ t.clusters = rebuilt /\ t.pcs = ensured.pcs
    <3>1. loaded.devices \in Seq(Bms) /\ IsInjective(loaded.devices)
      BY <2>2, SessionParts DEF GoodSession
    <3> QED
      BY <2>2, <2>6, <2>7, <2>8, <3>1, ClustersChanged
  <2>10. InStep(t, after)
    BY <2>3, <2>4, <2>6, <2>9 DEF InStep
  <2>11. disk' = [disk EXCEPT ![t.profile] = after]
    BY <1>4, <2>9
  <2> QED
    BY <1>4, <2>3, <2>9, <2>10, <2>11, RunningStep
<1>5. CASE DieLoading(common, ensured, devices)
  <2> HIDE DEF ensured, devices, common
  <2> QED
    BY <1>1, <1>2, <1>3, <1>5, DieLoadingStep
<1>6. CASE \E x \in {"site", "pcs"} : /\ ensured[x] # f[x] /\ Die
                                      /\ disk' = [disk EXCEPT ![s.profile] = [f EXCEPT ![x] = Broken]]
  <2>1. PICK x \in Parts : Die /\ disk' = [disk EXCEPT ![s.profile] = [f EXCEPT ![x] = Broken]]
    BY <1>6 DEF Parts
  <2> QED
    BY <2>1, CutOffIsGood, SessionParts, DieStep
<1> QED
  BY <1>4, <1>5, <1>6 DEF AutoLoad

LEMMA ProfileSteps ==
    ASSUME Inv,
           \/ Start \/ Stop
           \/ \E q \in Profiles : \/ LoadProfile(q) \/ SaveProfile(q)
                                  \/ \E r \in Profiles : ImportProfile(q, r)
    PROVE  Inv'
<1>1. GoodSession(session) /\ \A q \in Profiles : GoodFiles(disk[q])
  BY DEF Inv
<1>2. ASSUME NEW q \in Profiles
      PROVE  LET t == [session EXCEPT !.profile = q]
             IN  /\ GoodSession(t) /\ t.profile = q /\ t.devices = session.devices
                 /\ t.clusters = session.clusters /\ t.pcs = session.pcs
  <2> DEFINE t == [session EXCEPT !.profile = q]
  <2>1. t = [profile |-> q, devices |-> session.devices, clusters |-> session.clusters,
             active |-> session.active, pcs |-> session.pcs, current |-> session.current]
    BY SMTT(30), <1>1 DEF GoodSession, Sessions
  <2> HIDE DEF t
  <2>2. /\ GoodSession(t) /\ t.profile = q /\ t.devices = session.devices
        /\ t.clusters = session.clusters /\ t.pcs = session.pcs
    BY <1>1, <2>1, SessionParts DEF GoodSession, Sessions
  <2> QED
    BY <2>2 DEF t
<1>3. CASE Start
  <2> DEFINE f == disk[DefaultProfile]
             s == Fresh(Ensured(f))
  <2>1. GoodFiles(f) /\ AutoLoad(s, f) /\ edits' \in 0..MaxEdits
    BY <1>1, <1>3, NamesAssumption DEF Start, Inv
  <2> HIDE DEF f
  <2>2. GoodSession(s)
    BY <2>1, EnsuredIsGood, FreshIsGood DEF GoodFiles
  <2> HIDE DEF s
  <2> QED
    BY <2>1, <2>2, AutoLoadStep
<1>4. CASE Stop
  <2>1. session' = Down /\ up' = FALSE /\ disk' = disk /\ edits' = edits
    BY <1>4 DEF Stop, Die
  <2> QED
    BY <2>1, DownIsGood DEF Inv, GoodSession, Disjoint, GoodFiles
<1>5. ASSUME NEW q \in Profiles, LoadProfile(q) PROVE Inv'
  <2>1. AutoLoad([session EXCEPT !.profile = q], disk[q]) /\ edits' \in 0..MaxEdits
    BY <1>5, SiteBoundsAssumption DEF LoadProfile, Inv
  <2> QED
    BY <1>1, <1>2, <2>1, AutoLoadStep
<1>6. ASSUME NEW q \in Profiles, SaveProfile(q) PROVE Inv'
  <2> DEFINE t == [session EXCEPT !.profile = q]
             kinds == <<"devices", "site", "pcs">>
  <2>1. Commit(t, kinds)
    BY <1>6 DEF SaveProfile
  <2>2. GoodSession(t)
    BY <1>2
  <2>3. kinds \in Seq(Parts) /\ Range(kinds) = Parts
    <3>1. kinds \in Seq(Parts)
      BY DEF Parts
    <3>2. "devices" \in Range(kinds) /\ "site" \in Range(kinds) /\ "pcs" \in Range(kinds)
      BY DEF Range
    <3> QED
      BY <3>1, <3>2, RangeOfSeq DEF Parts
  <2>4. "devices" \in Range(kinds) /\ "site" \in Range(kinds) /\ "pcs" \in Range(kinds)
    BY <2>3 DEF Parts
  <2> HIDE DEF t, kinds
  <2> QED
    BY <2>1, <2>2, <2>3, <2>4, CommitStep
<1>7. ASSUME NEW q \in Profiles, NEW r \in Profiles, ImportProfile(q, r) PROVE Inv'
  <2>1. edits' \in 0..MaxEdits
    BY <1>7, SiteBoundsAssumption DEF ImportProfile, Inv
  <2>2. CASE AutoLoad([session EXCEPT !.profile = q], disk[r])
    BY <1>1, <1>2, <2>1, <2>2, AutoLoadStep
  <2>3. ASSUME NEW x \in DOMAIN DefaultFiles, NEW unpacked \in SUBSET DOMAIN DefaultFiles,
               disk' = [disk EXCEPT ![q] = [y \in DOMAIN DefaultFiles |->
                   IF y = x THEN Broken ELSE IF y \in unpacked THEN disk[r][y] ELSE DefaultFiles[y]]],
               Die
        PROVE  Inv'
    <3> DEFINE f == [y \in DOMAIN DefaultFiles |->
                   IF y = x THEN Broken ELSE IF y \in unpacked THEN disk[r][y] ELSE DefaultFiles[y]]
               d == disk[r]
    <3>1. GoodFiles(d) /\ GoodFiles(DefaultFiles) /\ DOMAIN DefaultFiles = Parts
      BY <1>1, DefaultsAreGood, FileParts
    <3>2. /\ f = [y \in Parts |-> f[y]]
          /\ f.devices \in {Broken, d.devices, DefaultFiles.devices}
          /\ f.site \in {Broken, d.site, DefaultFiles.site}
          /\ f.pcs \in {Broken, d.pcs, DefaultFiles.pcs}
      BY <3>1 DEF Parts
    <3>3. disk' = [disk EXCEPT ![q] = f]
      BY <2>3
    <3> HIDE DEF f, d
    <3>4. f = [devices |-> f.devices, site |-> f.site, pcs |-> f.pcs]
      BY <3>2 DEF Parts
    <3>5. f \in Files
      BY <3>1, <3>2, <3>4, FileParts DEF Files
    <3>6. /\ f.site # <<>> /\ f.pcs # <<>> /\ (f.site # Broken => Disjoint(f.site))
          /\ f.devices # Broken => IsInjective(f.devices)
      <4>1. Broken # <<>>
        BY EmptySeq, BrokenAssumption
      <4> QED
        BY <3>1, <3>2, <4>1 DEF GoodFiles
    <3>7. GoodFiles(f)
      BY <3>5, <3>6 DEF GoodFiles
    <3> QED
      BY <2>1, <2>3, <3>3, <3>7, DieStep
  <2> QED
    BY <1>7, <2>2, <2>3 DEF ImportProfile
<1> QED
  BY <1>3, <1>4, <1>5, <1>6, <1>7
-----------------------------------------------------------------------------
(* What a load of the files leaves.                                        *)

LEMMA AutoLoaded ==
    ASSUME Inv, NEW s, GoodSession(s), NEW f, GoodFiles(f), AutoLoad(s, f), up'
    PROVE  /\ session'.profile = s.profile /\ disk'[s.profile].devices = f.devices
           /\ session'.devices = IF f.devices = Broken THEN s.devices ELSE f.devices
           /\ \E site \in Seq(Clusters) :
                /\ session'.clusters = Rebuilt(site, session'.devices)
                /\ f.devices \notin {Broken, <<>>} =>
                     site = [s.clusters EXCEPT ![s.active].bms = Range(f.devices)]
<1> DEFINE ensured == Ensured(f)
           devices == IF f.devices = Broken THEN <<>> ELSE f.devices
           n == Len(devices)
           common == WithLoadedPcs(s, ensured.pcs)
           loaded == IF f.devices = Broken THEN common ELSE Loading(common, devices, n)
           after == Rewritten(ensured, common, devices, n)
           rebuilt == Rebuilt(after.site, loaded.devices)
           t == [loaded EXCEPT !.clusters = rebuilt, !.active = 1]
<1>1. session' = t /\ disk' = [disk EXCEPT ![s.profile] = after]
  BY Zenon DEF AutoLoad, DieLoading, DieSaving, Die
<1>2. /\ GoodFiles(ensured) /\ ensured.devices = f.devices
      /\ ensured.site \in Seq(Clusters) /\ ensured.pcs \in Seq(Pcs) /\ ensured.pcs # <<>>
  BY EnsuredIsGood DEF GoodFiles
<1>3. /\ devices \in Seq(Bms) /\ n \in Nat /\ n \in 0..Len(devices) /\ IsInjective(devices)
      /\ n = 0 <=> devices = <<>>
  <2>1. devices \in Seq(Bms) /\ IsInjective(devices)
    BY FileParts, EmptySeq, EmptyOnce DEF GoodFiles
  <2> HIDE DEF devices
  <2> QED
    BY <2>1, LenProperties, EmptySeq
<1> HIDE DEF ensured
<1>4. /\ GoodSession(common) /\ common.profile = s.profile /\ common.devices = s.devices
      /\ common.clusters = s.clusters
  BY <1>2, LoadedPcs
<1>5. common.active = s.active
  BY DEF WithLoadedPcs, GoodSession, Sessions
<1>6. SubSeq(devices, 1, n) = devices
  <2> HIDE DEF devices
  <2> QED
    BY <1>3, SubSeqFull
<1> HIDE DEF common
<1>7. /\ GoodSession(Loading(common, devices, n)) /\ Loading(common, devices, n).profile = s.profile
      /\ Loading(common, devices, n).devices = devices
      /\ Loading(common, devices, n).clusters = [s.clusters EXCEPT ![s.active].bms = Range(devices)]
  <2> HIDE DEF devices, n
  <2>1. /\ GoodSession(Loading(common, devices, n))
        /\ Loading(common, devices, n).profile = common.profile
        /\ Loading(common, devices, n).devices = SubSeq(devices, 1, n)
    BY <1>3, <1>4, LoadingIsGood
  <2>2. Loading(common, devices, n).clusters
          = [common.clusters EXCEPT ![common.active].bms = Range(SubSeq(devices, 1, n))]
    BY <1>4 DEF Loading, GoodSession, Sessions
  <2> QED
    BY <1>4, <1>5, <1>6, <2>1, <2>2
<1>8. /\ GoodFiles(after)
      /\ n = 0 => after = ensured
      /\ n # 0 => after.site = Loading(common, devices, n).clusters /\ after.devices = devices
  <2> HIDE DEF devices, n
  <2> QED
    BY <1>2, <1>3, <1>4, <1>6, RewrittenIsGood
<1>9. after.devices = f.devices
  BY <1>2, <1>3, <1>8
<1>10. /\ GoodSession(loaded) /\ loaded.profile = s.profile
       /\ loaded.devices = IF f.devices = Broken THEN s.devices ELSE f.devices
  BY <1>4, <1>7
<1>11. /\ after.site \in Seq(Clusters)
       /\ f.devices \notin {Broken, <<>>} =>
            after.site = [s.clusters EXCEPT ![s.active].bms = Range(f.devices)]
  BY <1>2, <1>3, <1>7, <1>8, SessionParts
<1> HIDE DEF devices, n, loaded, after
<1>12. t.profile = s.profile /\ t.devices = loaded.devices /\ t.clusters = rebuilt
  BY <1>10 DEF GoodSession, Sessions
<1>13. s.profile \in Profiles /\ disk \in [Profiles -> Files]
  BY SessionParts DEF Inv
<1> HIDE DEF t
<1> QED
  BY <1>1, <1>9, <1>10, <1>11, <1>12, <1>13
\* The profile that a handler loads is set before.
LEMMA OtherProfile ==
    ASSUME GoodSession(session), NEW q \in Profiles
    PROVE  LET t == [session EXCEPT !.profile = q]
           IN  /\ GoodSession(t) /\ t.profile = q /\ t.devices = session.devices
               /\ t.clusters = session.clusters /\ t.active = session.active
<1> DEFINE t == [session EXCEPT !.profile = q]
<1>1. t = [profile |-> q, devices |-> session.devices, clusters |-> session.clusters,
           active |-> session.active, pcs |-> session.pcs, current |-> session.current]
  BY SMTT(30) DEF GoodSession, Sessions
<1> HIDE DEF t
<1>2. /\ GoodSession(t) /\ t.profile = q /\ t.devices = session.devices
      /\ t.clusters = session.clusters /\ t.active = session.active
  BY <1>1, SessionParts DEF GoodSession, Sessions
<1> QED
  BY <1>2 DEF t

-----------------------------------------------------------------------------
(* Where the BMSs are.                                                     *)

Places(s, b) == {i \in DOMAIN s.clusters : b \in s.clusters[i].bms}

LEMMA PlacesCounted ==
    ASSUME NEW s, GoodSession(s), NEW b \in Bms
    PROVE  /\ b \in Range(s.devices) /\ (\E k : Places(s, b) = {k}) => b \notin Misplaced(s)
           /\ b \notin Range(s.devices) => (b \notin Misplaced(s) <=> Places(s, b) = {})
<1> DEFINE P == Places(s, b)
<1>1. IsFiniteSet(P)
  <2>1. DOMAIN s.clusters = 1..Len(s.clusters) /\ Len(s.clusters) \in Nat
    BY SessionParts, LenProperties
  <2>2. IsFiniteSet(1..Len(s.clusters))
    BY <2>1, FS_Interval
  <2> QED
    BY <2>1, <2>2, FS_Subset DEF Places
<1>2. b \in Misplaced(s) <=> Cardinality(P) # IF b \in Range(s.devices) THEN 1 ELSE 0
  BY DEF Misplaced, Places
<1> HIDE DEF P
<1>3. Cardinality(P) = 0 <=> P = {}
  BY <1>1, FS_EmptySet
<1>4. (\E k : P = {k}) => Cardinality(P) = 1
  BY FS_Singleton
<1> QED
  BY <1>2, <1>3, <1>4 DEF P

LEMMA SamePlaces ==
    ASSUME NEW s, NEW t, NEW b \in Bms, Places(t, b) = Places(s, b),
           b \in Range(t.devices) <=> b \in Range(s.devices), b \in Misplaced(t)
    PROVE  b \in Misplaced(s)
  BY DEF Misplaced, Places

\* BMSs stay where they are when the clusters keep them and no device comes or goes.
LEMMA SameBms ==
    ASSUME NEW s, NEW t, t.devices = s.devices, DOMAIN t.clusters = DOMAIN s.clusters,
           \A i \in DOMAIN s.clusters : t.clusters[i].bms = s.clusters[i].bms
    PROVE  Misplaced(t) \subseteq Misplaced(s)
<1> SUFFICES ASSUME NEW b \in Bms, b \in Misplaced(t) PROVE b \in Misplaced(s)
  BY DEF Misplaced
<1>1. Places(t, b) = Places(s, b)
  BY DEF Places
<1> QED
  BY <1>1, SamePlaces

\* A handler that returned has done what it commits.
LEMMA Returned ==
    ASSUME NEW s, NEW kinds, Commit(s, kinds), up'
    PROVE  up /\ session' = s
  BY Zenon DEF Commit, DieSaving, Die

\* Taking a PCS from all clusters leaves their BMSs.
LEMMA BmsStay ==
    ASSUME NEW c \in Seq(Clusters), NEW pcs, NEW none, none = {}
    PROVE  LET d == Without(c, none, pcs)
           IN  /\ d \in Seq(Clusters) /\ DOMAIN d = DOMAIN c
               /\ \A i \in DOMAIN c : d[i].bms = c[i].bms
<1> DEFINE d == Without(c, none, pcs)
<1>1. d = [i \in DOMAIN c |-> [c[i] EXCEPT !.bms = @ \ none, !.pcs = @ \ pcs]]
  BY DEF Without
<1>2. \A i \in DOMAIN c : c[i] \in Clusters
  BY LenProperties, ElementOfSeq
<1>3. \A i \in DOMAIN c : d[i].bms = c[i].bms \ none
  BY ZenonT(60), <1>1, <1>2 DEF Clusters
<1>4. d \in Seq(Clusters) /\ DOMAIN d = DOMAIN c
  BY WithoutKeeps
<1> HIDE DEF d
<1>5. \A i \in DOMAIN c : d[i].bms = c[i].bms
  BY <1>3
<1> QED
  BY <1>4, <1>5 DEF d

LEMMA DevicesPlaced ==
    ASSUME Inv, GoodSession(session'), up', NEW b \in Bms, AddDevice(b) \/ RemoveDevice(b)
    PROVE  Misplaced(session') \subseteq Misplaced(session)
<1> DEFINE old == session.clusters
           k == session.active
<1>1. GoodSession(session)
  BY DEF Inv
<1>2. /\ session.devices \in Seq(Bms) /\ old \in Seq(Clusters) /\ k \in DOMAIN old
      /\ IsInjective(session.devices)
  BY <1>1, SessionParts DEF GoodSession
<1>3. \A i \in DOMAIN old : old[i] \in Clusters
  BY <1>2, LenProperties, ElementOfSeq
<1> SUFFICES ASSUME NEW e \in Bms, e \in Misplaced(session') PROVE e \in Misplaced(session)
  BY DEF Misplaced
<1>4. CASE AddDevice(b)
  <2> DEFINE d == Append(session.devices, b)
             x == [old[k] EXCEPT !.bms = old[k].bms \cup {b}]
             c == [old EXCEPT ![k] = x]
  <2>1. session' = Added(session, b) /\ b \notin Range(session.devices)
    BY <1>4, Returned DEF AddDevice, Devices
  <2>2. Added(session, b) = [session EXCEPT !.devices = d, !.clusters = c]
    BY DEF Added
  <2>3. x.bms = old[k].bms \cup {b}
    BY <1>2, <1>3 DEF Clusters
  <2> HIDE DEF x
  <2>4. Range(d) = Range(session.devices) \cup {b}
    BY <1>2, <2>1, AppendedOnce
  <2> HIDE DEF d
  <2>5. DOMAIN c = DOMAIN old /\ c[k] = x /\ \A i \in DOMAIN old \ {k} : c[i] = old[i]
    BY <1>2
  <2> HIDE DEF c
  <2>6. session'.devices = d /\ session'.clusters = c
    BY <1>1, <2>1, <2>2 DEF GoodSession, Sessions
  <2>7. CASE e # b
    <3>1. Places(session', e) = Places(session, e)
      BY <1>2, <2>3, <2>5, <2>6, <2>7 DEF Places
    <3> QED
      BY <2>4, <2>6, <2>7, <3>1, SamePlaces
  <2>8. CASE e = b
    <3>1. CASE Places(session, b) = {}
      <4>1. Places(session', b) = {k}
        BY <1>2, <2>3, <2>5, <2>6, <3>1 DEF Places
      <4> QED
        BY <2>4, <2>6, <2>8, <4>1, PlacesCounted
    <3>2. CASE Places(session, b) # {}
      BY <1>1, <2>1, <2>8, <3>2, PlacesCounted
    <3> QED
      BY <3>1, <3>2
  <2> QED
    BY <2>7, <2>8
<1>5. CASE RemoveDevice(b)
  <2> DEFINE d == RemoveFirst(session.devices, b)
             c == Without(old, {b}, {})
  <2>1. session' = [session EXCEPT !.devices = d, !.clusters = c]
    BY <1>5, Returned DEF RemoveDevice
  <2>2. /\ Range(session.devices) \ {b} \subseteq Range(d) /\ Range(d) \subseteq Range(session.devices)
        /\ b \notin Range(d)
    BY <1>2, RemoveFirstKeeps
  <2>3. DOMAIN c = DOMAIN old /\ \A i \in DOMAIN old : c[i].bms = old[i].bms \ {b}
    BY <1>2, WithoutKeeps
  <2> HIDE DEF d, c
  <2>4. session'.devices = d /\ session'.clusters = c
    BY <1>1, <2>1 DEF GoodSession, Sessions
  <2>5. CASE e # b
    <3>1. Places(session', e) = Places(session, e)
      BY <2>3, <2>4, <2>5 DEF Places
    <3> QED
      BY <2>2, <2>4, <2>5, <3>1, SamePlaces
  <2>6. CASE e = b
    <3>1. Places(session', b) = {}
      BY <2>3, <2>4 DEF Places
    <3> QED
      BY <2>2, <2>4, <2>6, <3>1, PlacesCounted
  <2> QED
    BY <2>5, <2>6
<1> QED
  BY <1>4, <1>5

LEMMA ProjectPlaced ==
    ASSUME Inv, GoodSession(session'), up', ProjectPage
    PROVE  Misplaced(session') \subseteq Misplaced(session)
<1>1. PICK n \in ClusterNames :
        \/ AddCluster(n) \/ RenameCluster(n) \/ ActivateCluster(n)
        \/ \E p \in Pcs : BindPcs(p, n) \/ UnbindPcs(p, n)
        \/ \E b \in Bms : MoveBms(b, n)
  BY DEF ProjectPage
<1> DEFINE old == session.clusters
           a == session.active
<1>2. GoodSession(session)
  BY DEF Inv
<1>3. old \in Seq(Clusters) /\ a \in DOMAIN old /\ \A i \in DOMAIN old : old[i] \in Clusters
  BY <1>2, SessionParts, LenProperties, ElementOfSeq DEF GoodSession
<1>4. \A c : LET t == [session EXCEPT !.clusters = c]
             IN  t.clusters = c /\ t.devices = session.devices
  BY <1>2 DEF GoodSession, Sessions
<1>5. CASE AddCluster(n)
  <2> DEFINE x == [name |-> n, bms |-> {}, pcs |-> {}]
             c == Append(old, x)
  <2>1. session' = [session EXCEPT !.clusters = c]
    BY <1>5, Returned DEF AddCluster
  <2>2. x \in Clusters /\ x.bms = {}
    BY DEF Clusters
  <2> HIDE DEF x
  <2>3. /\ c \in Seq(Clusters) /\ Len(c) = Len(old) + 1
        /\ c[Len(old) + 1] = x /\ \A i \in 1..Len(old) : c[i] = old[i]
    BY <1>3, <2>2, AppendProperties
  <2> HIDE DEF c
  <2>4. Len(old) \in Nat /\ DOMAIN old = 1..Len(old) /\ DOMAIN c = (1..Len(old)) \cup {Len(old) + 1}
    <3>1. Len(old) \in Nat /\ DOMAIN old = 1..Len(old) /\ DOMAIN c = 1..Len(old) + 1
      BY <1>3, <2>3, LenProperties
    <3> QED
      BY <3>1
  <2> SUFFICES ASSUME NEW b \in Bms, b \in Misplaced(session') PROVE b \in Misplaced(session)
    BY DEF Misplaced
  <2>5. Places(session', b) = Places(session, b)
    BY <1>4, <2>1, <2>2, <2>3, <2>4 DEF Places
  <2> QED
    BY <1>4, <2>1, <2>5, SamePlaces
<1>6. CASE RenameCluster(n)
  <2> DEFINE x == [old[a] EXCEPT !.name = n]
             c == [old EXCEPT ![a] = x]
  <2>1. session' = [session EXCEPT !.clusters = c]
    BY <1>6, Returned DEF RenameCluster
  <2>2. x.bms = old[a].bms
    BY <1>3 DEF Clusters
  <2> HIDE DEF x
  <2>3. DOMAIN c = DOMAIN old /\ \A i \in DOMAIN old : c[i].bms = old[i].bms
    BY <1>3, <2>2
  <2> HIDE DEF c
  <2> QED
    BY <1>4, <2>1, <2>3, SameBms
<1>7. CASE ActivateCluster(n)
  <2>1. session' = [session EXCEPT !.active = FirstNamed(n)]
    BY <1>7, Returned DEF ActivateCluster
  <2>2. session'.clusters = old /\ session'.devices = session.devices
    BY <1>2, <2>1 DEF GoodSession, Sessions
  <2> QED
    BY <2>2, SameBms
<1>8. ASSUME NEW p \in Pcs, BindPcs(p, n) PROVE Misplaced(session') \subseteq Misplaced(session)
  <2> DEFINE k == FirstNamed(n)
             w == Without(old, {}, {p})
             x == [w[k] EXCEPT !.pcs = w[k].pcs \cup {p}]
             c == [w EXCEPT ![k] = x]
  <2>1. session' = [session EXCEPT !.clusters = BoundTo(@, p, k)] /\ n \in Names
    BY <1>8, Returned DEF BindPcs
  <2>2. session' = [session EXCEPT !.clusters = c]
    BY <2>1 DEF BoundTo
  <2>3. k \in DOMAIN old
    BY <1>3, <2>1, NamedExist
  <2>4. /\ w \in Seq(Clusters) /\ DOMAIN w = DOMAIN old
        /\ \A i \in DOMAIN old : w[i].bms = old[i].bms
    BY <1>3, BmsStay
  <2> HIDE DEF k, w
  <2>5. w[k] \in Clusters
    BY <2>3, <2>4, LenProperties, ElementOfSeq
  <2>6. x.bms = w[k].bms
    BY <2>5 DEF Clusters
  <2> HIDE DEF x
  <2>7. DOMAIN c = DOMAIN old /\ \A i \in DOMAIN old : c[i].bms = old[i].bms
    BY <2>3, <2>4, <2>6
  <2> HIDE DEF c
  <2> QED
    BY <1>4, <2>2, <2>7, SameBms
<1>9. ASSUME NEW p \in Pcs, UnbindPcs(p, n) PROVE Misplaced(session') \subseteq Misplaced(session)
  <2> DEFINE k == FirstNamed(n)
             x == [old[k] EXCEPT !.pcs = old[k].pcs \ {p}]
             c == [old EXCEPT ![k] = x]
  <2>1. session' = [session EXCEPT !.clusters = c] /\ n \in Names
    BY <1>9, Returned DEF UnbindPcs
  <2>2. k \in DOMAIN old
    BY <1>3, <2>1, NamedExist
  <2> HIDE DEF k
  <2>3. x.bms = old[k].bms
    BY <1>3, <2>2 DEF Clusters
  <2> HIDE DEF x
  <2>4. DOMAIN c = DOMAIN old /\ \A i \in DOMAIN old : c[i].bms = old[i].bms
    BY <2>2, <2>3
  <2> HIDE DEF c
  <2> QED
    BY <1>4, <2>1, <2>4, SameBms
<1>10. ASSUME NEW b \in Bms, MoveBms(b, n) PROVE Misplaced(session') \subseteq Misplaced(session)
  <2> DEFINE k == LastNamed(n)
             w == Without(old, {b}, {})
             x == [w[k] EXCEPT !.bms = w[k].bms \cup {b}]
             c == [w EXCEPT ![k] = x]
  <2>1. session' = [session EXCEPT !.clusters = MovedTo(@, b, k)] /\ n \in Names
    BY <1>10, Returned DEF MoveBms
  <2>2. session' = [session EXCEPT !.clusters = c]
    BY <2>1 DEF MovedTo
  <2>3. PICK j \in DOMAIN old : b \in old[j].bms
    BY <1>10 DEF MoveBms
  <2>4. k \in DOMAIN old
    BY <1>3, <2>1, NamedExist
  <2>5. /\ w \in Seq(Clusters) /\ DOMAIN w = DOMAIN old
        /\ \A i \in DOMAIN old : w[i].bms = old[i].bms \ {b}
    BY <1>3, WithoutKeeps
  <2> HIDE DEF k, w
  <2>6. w[k] \in Clusters
    BY <2>4, <2>5, LenProperties, ElementOfSeq
  <2>7. x.bms = w[k].bms \cup {b}
    BY <2>6 DEF Clusters
  <2> HIDE DEF x
  <2>8. DOMAIN c = DOMAIN old /\ c[k] = x /\ \A i \in DOMAIN old \ {k} : c[i] = w[i]
    BY <2>4, <2>5
  <2> HIDE DEF c
  <2>9. session'.clusters = c /\ session'.devices = session.devices
    BY <1>4, <2>2
  <2> SUFFICES ASSUME NEW e \in Bms, e \in Misplaced(session') PROVE e \in Misplaced(session)
    BY DEF Misplaced
  <2>10. CASE e # b
    <3>1. Places(session', e) = Places(session, e)
      BY <2>4, <2>5, <2>7, <2>8, <2>9, <2>10 DEF Places
    <3> QED
      BY <2>9, <3>1, SamePlaces
  <2>11. CASE e = b
    <3>1. Places(session', b) = {k}
      BY <2>4, <2>5, <2>7, <2>8, <2>9 DEF Places
    <3>2. b \notin Range(session.devices)
      BY <2>9, <2>11, <3>1, PlacesCounted
    <3>3. Places(session, b) # {}
      BY <2>3 DEF Places
    <3> QED
      BY <1>2, <2>11, <3>2, <3>3, PlacesCounted
  <2> QED
    BY <2>10, <2>11
<1> QED
  BY <1>1, <1>5, <1>6, <1>7, <1>8, <1>9, <1>10

LEMMA PcsPlaced ==
    ASSUME Inv, up',
           \/ \E p \in Pcs : AddPcs(p) \/ RemovePcs(p) \/ SelectPcs(p)
           \/ \E t \in Templates : ApplyTemplate(t)
           \/ ReloadPcs
           \/ \E q \in Profiles : SaveProfile(q)
    PROVE  Misplaced(session') \subseteq Misplaced(session)
<1>1. GoodSession(session) /\ session.clusters \in Seq(Clusters)
  BY SessionParts DEF Inv
<1>2. SUFFICES /\ session'.devices = session.devices
               /\ DOMAIN session'.clusters = DOMAIN session.clusters
               /\ \A i \in DOMAIN session.clusters :
                     session'.clusters[i].bms = session.clusters[i].bms
  BY SameBms
<1>3. ASSUME NEW p \in Pcs, AddPcs(p)
      PROVE  session'.devices = session.devices /\ session'.clusters = session.clusters
  <2>1. session' = [session EXCEPT !.pcs = WithPcs(@, p), !.current = p]
    BY <1>3, Returned DEF AddPcs
  <2> QED
    BY <1>1, <2>1 DEF GoodSession, Sessions
<1>4. ASSUME NEW p \in Pcs, RemovePcs(p)
      PROVE  /\ session'.devices = session.devices
             /\ DOMAIN session'.clusters = DOMAIN session.clusters
             /\ \A i \in DOMAIN session.clusters :
                   session'.clusters[i].bms = session.clusters[i].bms
  <2> DEFINE left == RemoveFirst(session.pcs, p)
             w == Without(session.clusters, {}, {p})
             x == IF session.current = p THEN left[1] ELSE session.current
  <2>1. session' = [session EXCEPT !.pcs = left, !.clusters = w, !.current = x]
    <3>1. Commit([session EXCEPT !.pcs = left, !.clusters = w, !.current = x], <<"site", "pcs">>)
      BY <1>4 DEF RemovePcs
    <3> HIDE DEF left, w, x
    <3> QED
      BY <3>1, Returned
  <2>2. DOMAIN w = DOMAIN session.clusters
        /\ \A i \in DOMAIN session.clusters : w[i].bms = session.clusters[i].bms
    BY <1>1, BmsStay
  <2> HIDE DEF left, w, x
  <2>3. session'.devices = session.devices /\ session'.clusters = w
    BY <1>1, <2>1 DEF GoodSession, Sessions
  <2> QED
    BY <2>2, <2>3
<1>5. ASSUME NEW p \in Pcs, SelectPcs(p)
      PROVE  session'.devices = session.devices /\ session'.clusters = session.clusters
  <2>1. session' = [session EXCEPT !.current = p]
    BY <1>5, Returned DEF SelectPcs
  <2> QED
    BY <1>1, <2>1 DEF GoodSession, Sessions
<1>6. ASSUME NEW q, session' = WithLoadedPcs(session, q)
      PROVE  session'.devices = session.devices /\ session'.clusters = session.clusters
  BY <1>1, <1>6 DEF WithLoadedPcs, GoodSession, Sessions
<1>7. ASSUME NEW t \in Templates, ApplyTemplate(t)
      PROVE  session'.devices = session.devices /\ session'.clusters = session.clusters
  <2>1. session' = WithLoadedPcs(session, t)
    BY <1>7, Returned DEF ApplyTemplate
  <2> QED
    BY <1>6, <2>1
<1>8. CASE ReloadPcs
  <2>1. session' = WithLoadedPcs(session, disk[session.profile].pcs)
    BY <1>8, Returned DEF ReloadPcs
  <2>2. session'.devices = session.devices /\ session'.clusters = session.clusters
    BY <1>6, <2>1
  <2> QED
    BY <2>2
<1>9. ASSUME NEW q \in Profiles, SaveProfile(q)
      PROVE  session'.devices = session.devices /\ session'.clusters = session.clusters
  <2>1. session' = [session EXCEPT !.profile = q]
    BY <1>9, Returned DEF SaveProfile
  <2> QED
    BY <1>1, <2>1 DEF GoodSession, Sessions
<1> QED
  BY <1>3, <1>4, <1>5, <1>7, <1>8, <1>9

\* Over a site of one cluster, a list of devices is placed as a whole.
LEMMA OneClusterPlaced ==
    ASSUME NEW t, GoodSession(t), NEW k, DOMAIN t.clusters = {k},
           t.clusters[k].bms = Range(t.devices)
    PROVE  Misplaced(t) = {}
<1> SUFFICES ASSUME NEW b \in Bms PROVE b \notin Misplaced(t)
  BY DEF Misplaced
<1>1. CASE b \in Range(t.devices)
  <2>1. Places(t, b) = {k}
    BY <1>1 DEF Places
  <2> QED
    BY <1>1, <2>1, PlacesCounted
<1>2. CASE b \notin Range(t.devices)
  <2>1. Places(t, b) = {}
    BY <1>2 DEF Places
  <2> QED
    BY <1>2, <2>1, PlacesCounted
<1> QED
  BY <1>1, <1>2

\* A site of one cluster has it at its active place.
LEMMA OneCluster ==
    ASSUME NEW s, GoodSession(s), ~(Len(s.clusters) > 1)
    PROVE  DOMAIN s.clusters = {s.active}
<1>1. /\ s.clusters \in Seq(Clusters) /\ s.active \in DOMAIN s.clusters
      /\ DOMAIN s.clusters = 1..Len(s.clusters) /\ Len(s.clusters) \in Nat
  BY SessionParts, LenProperties DEF GoodSession
<1> QED
  BY <1>1

LEMMA LoadDevicesPlaced ==
    ASSUME Inv, GoodSession(session'), up', NEW q \in Profiles, LoadDevices(q),
           ~(Len(session.clusters) > 1)
    PROVE  Misplaced(session') = {}
<1> DEFINE devices == disk[q].devices
           n == Len(devices)
           a == session.active
           d == SubSeq(devices, 1, n)
           c == [session.clusters EXCEPT ![a].bms = Range(d)]
<1>1. GoodSession(session) /\ session.clusters \in Seq(Clusters) /\ DOMAIN session.clusters = {a}
  BY OneCluster, SessionParts DEF Inv
<1>2. session.clusters[a] \in Clusters
  BY <1>1, LenProperties, ElementOfSeq
<1>3. session' = Loading(session, devices, n)
  BY Zenon DEF LoadDevices, DieLoading, DieSaving, Die
<1>4. Loading(session, devices, n) = [session EXCEPT !.devices = d, !.clusters = c]
  BY DEF Loading
<1> HIDE DEF devices, n, d
<1>5. DOMAIN c = {a} /\ c[a].bms = Range(d)
  BY <1>1, <1>2 DEF Clusters
<1> HIDE DEF c
<1>6. session'.devices = d /\ session'.clusters = c
  BY <1>1, <1>3, <1>4 DEF GoodSession, Sessions
<1> QED
  BY <1>5, <1>6, OneClusterPlaced

LEMMA AutoLoadPlaced ==
    ASSUME Inv, GoodSession(session'), up', NEW s, GoodSession(s), NEW f, GoodFiles(f),
           AutoLoad(s, f), ~(Len(s.clusters) > 1), f.devices = Broken => s.devices = <<>>
    PROVE  Misplaced(session') = {}
<1> DEFINE d == session'.devices
<1>1. /\ d = IF f.devices = Broken THEN s.devices ELSE f.devices
      /\ \E site \in Seq(Clusters) :
           /\ session'.clusters = Rebuilt(site, d)
           /\ f.devices \notin {Broken, <<>>} =>
                site = [s.clusters EXCEPT ![s.active].bms = Range(f.devices)]
  BY AutoLoaded
<1>2. PICK site \in Seq(Clusters) :
        /\ session'.clusters = Rebuilt(site, d)
        /\ f.devices \notin {Broken, <<>>} =>
             site = [s.clusters EXCEPT ![s.active].bms = Range(f.devices)]
  BY <1>1
<1>3. /\ DOMAIN session'.clusters = DOMAIN site
      /\ \A i \in DOMAIN site : session'.clusters[i] = [site[i] EXCEPT !.bms = @ \cap Range(d)]
  BY <1>2 DEF Rebuilt
<1>4. \A i \in DOMAIN site : site[i] \in Clusters
  BY LenProperties, ElementOfSeq
<1>5. \A i \in DOMAIN site : session'.clusters[i].bms = site[i].bms \cap Range(d)
  BY <1>3, <1>4 DEF Clusters
<1>6. CASE d = <<>>
  <2>1. Range(d) = {}
    BY <1>6 DEF Range
  <2> SUFFICES ASSUME NEW b \in Bms PROVE b \notin Misplaced(session')
    BY DEF Misplaced
  <2>2. Places(session', b) = {} /\ b \notin Range(session'.devices)
    BY <1>3, <1>5, <2>1 DEF Places
  <2> QED
    BY <2>2, PlacesCounted
<1>7. CASE d # <<>>
  <2>1. d = f.devices /\ f.devices \notin {Broken, <<>>}
    BY <1>1, <1>7
  <2>2. DOMAIN s.clusters = {s.active} /\ s.clusters[s.active] \in Clusters
    <3>1. DOMAIN s.clusters = {s.active} /\ s.clusters \in Seq(Clusters)
      BY OneCluster, SessionParts
    <3> QED
      BY <3>1, LenProperties, ElementOfSeq
  <2>3. DOMAIN site = {s.active} /\ site[s.active].bms = Range(d)
    <3> DEFINE x == [s.clusters[s.active] EXCEPT !.bms = Range(f.devices)]
    <3>1. site = [s.clusters EXCEPT ![s.active] = x]
      BY <1>2, <2>1
    <3>2. x.bms = Range(d)
      BY <2>1, <2>2 DEF Clusters
    <3> HIDE DEF x
    <3> QED
      BY <2>2, <3>1, <3>2
  <2>4. /\ DOMAIN session'.clusters = {s.active}
        /\ session'.clusters[s.active].bms = Range(session'.devices)
    <3>1. DOMAIN session'.clusters = {s.active}
      BY Zenon, <1>3, <2>3
    <3>2. session'.clusters[s.active].bms = site[s.active].bms \cap Range(d)
      <4>1. s.active \in DOMAIN site
        BY <2>3
      <4> QED
        BY Zenon, <1>5, <4>1
    <3>3. session'.clusters[s.active].bms = Range(d) \cap Range(d)
      <4> HIDE DEF d
      <4> QED
        BY Zenon, <2>3, <3>2
    <3>4. session'.clusters[s.active].bms = Range(d)
      <4> HIDE DEF d
      <4> QED
        BY <3>3
    <3> QED
      BY Zenon, <3>1, <3>4
  <2> DEFINE t == session'
             k == s.active
  <2>5. GoodSession(t) /\ DOMAIN t.clusters = {k} /\ t.clusters[k].bms = Range(t.devices)
    <3>1. GoodSession(session')
      OBVIOUS
    <3> HIDE DEF d
    <3> QED
      BY Zenon, <2>4, <3>1
  <2>6. Misplaced(t) = {}
    <3> HIDE DEF t, k
    <3> QED
      BY <2>5, OneClusterPlaced
  <2> QED
    BY <2>6
<1> QED
  BY <1>6, <1>7

\* A step misplaces no BMS, unless it loads devices over a site that is not theirs.
LEMMA StepPlaced ==
    ASSUME Inv, Inv', Next, up'
    PROVE  \/ Misplaced(session') \subseteq IF up THEN Misplaced(session) ELSE {}
           \/ LoadsOver
<1>1. /\ GoodSession(session) /\ GoodSession(session')
      /\ \A q \in Profiles : GoodFiles(disk[q])
  BY DEF Inv, GoodSession, Disjoint
<1>2. CASE Start
  <2> DEFINE f == disk[DefaultProfile]
             s == Fresh(Ensured(f))
  <2>1. GoodFiles(f) /\ AutoLoad(s, f)
    BY <1>1, <1>2, NamesAssumption DEF Start
  <2>2. s.devices = <<>> /\ ~(Len(s.clusters) > 1)
    BY DEF Fresh
  <2>3. GoodSession(s)
    <3> HIDE DEF f
    <3> QED
      BY <2>1, EnsuredIsGood, FreshIsGood DEF GoodFiles
  <2> HIDE DEF f, s
  <2>4. Misplaced(session') = {}
    BY <1>1, <2>1, <2>2, <2>3, AutoLoadPlaced
  <2> QED
    BY <2>4
<1>3. ASSUME NEW q \in Profiles, LoadDevices(q)
      PROVE  up /\ (Misplaced(session') = {} \/ LoadsOver)
  <2>1. CASE Len(session.clusters) > 1
    BY <1>3, <2>1 DEF LoadsOver, LoadDevices
  <2>2. CASE ~(Len(session.clusters) > 1)
    BY <1>1, <1>3, <2>2, LoadDevicesPlaced DEF LoadDevices
  <2> QED
    BY <2>1, <2>2
<1>4. ASSUME NEW q \in Profiles, NEW r \in Profiles,
             AutoLoad([session EXCEPT !.profile = r], disk[q]),
             ~(Len(session.clusters) > 1), disk[q].devices # Broken
      PROVE  Misplaced(session') = {}
  <2> DEFINE s == [session EXCEPT !.profile = r]
  <2>1. AutoLoad(s, disk[q])
    BY <1>4
  <2>2. GoodSession(s) /\ ~(Len(s.clusters) > 1)
    BY <1>1, <1>4, OtherProfile
  <2> HIDE DEF s
  <2> QED
    BY <1>1, <1>4, <2>1, <2>2, AutoLoadPlaced
<1>5. ASSUME NEW q \in Profiles, LoadProfile(q)
      PROVE  up /\ (Misplaced(session') = {} \/ LoadsOver)
  <2>1. up /\ AutoLoad([session EXCEPT !.profile = q], disk[q])
    BY <1>5 DEF LoadProfile
  <2> QED
    BY <1>4, <1>5, <2>1 DEF LoadsOver
<1>6. ASSUME NEW q \in Profiles, NEW r \in Profiles, ImportProfile(r, q)
      PROVE  up /\ (Misplaced(session') = {} \/ LoadsOver)
  <2>1. up /\ AutoLoad([session EXCEPT !.profile = r], disk[q])
    BY Zenon, <1>6 DEF ImportProfile, Die
  <2> QED
    BY <1>4, <1>6, <2>1 DEF LoadsOver
<1>7. ASSUME NEW q \in Profiles, SaveDevices(q)
      PROVE  up /\ session' = session
  BY Zenon, <1>7 DEF SaveDevices, DieSaving, Die
<1>8. ASSUME NEW b \in Bms, AddDevice(b) \/ RemoveDevice(b)
      PROVE  up /\ Misplaced(session') \subseteq Misplaced(session)
  BY <1>1, <1>8, DevicesPlaced DEF AddDevice, RemoveDevice, Commit
<1>9. CASE ProjectPage
  <2>1. up
    BY ZenonT(60), <1>9 DEF ProjectPage, AddCluster, RenameCluster, ActivateCluster, BindPcs, UnbindPcs,
         MoveBms, Commit
  <2> QED
    BY <1>1, <1>9, <2>1, ProjectPlaced
<1>10. CASE \/ \E p \in Pcs : AddPcs(p) \/ RemovePcs(p) \/ SelectPcs(p)
            \/ \E t \in Templates : ApplyTemplate(t)
            \/ ReloadPcs
            \/ \E q \in Profiles : SaveProfile(q)
  <2>1. up
    BY <1>10 DEF AddPcs, RemovePcs, SelectPcs, ApplyTemplate, ReloadPcs, SaveProfile, Commit
  <2> QED
    BY <1>10, <2>1, PcsPlaced
<1>11. ~Stop
  BY DEF Stop, Die
<1>12. CASE DevicesPages
  BY <1>3, <1>7, <1>8, <1>10, <1>12 DEF DevicesPages
<1> QED
  BY <1>2, <1>5, <1>6, <1>9, <1>10, <1>11, <1>12 DEF Next

-----------------------------------------------------------------------------
LEMMA Initially == Init => Inv
<1> SUFFICES ASSUME Init PROVE Inv
  OBVIOUS
<1>1. disk = [q \in Profiles |-> DefaultFiles] /\ session = Down /\ up = FALSE /\ edits = 0
  BY DEF Init
<1>2. GoodFiles(DefaultFiles) /\ DefaultFiles \in Files
  BY DefaultsAreGood DEF GoodFiles
<1>3. GoodSession(session) /\ edits \in 0..MaxEdits /\ ~up /\ up \in BOOLEAN
  <2>1. edits \in 0..MaxEdits
    BY <1>1, SiteBoundsAssumption
  <2>2. ~up /\ up \in BOOLEAN
    BY <1>1
  <2>3. GoodSession(session)
    BY <1>1, DownIsGood
  <2> QED
    BY <2>1, <2>2, <2>3
<1>4. disk \in [Profiles -> Files] /\ \A q \in Profiles : GoodFiles(disk[q])
  BY <1>1, <1>2
<1> QED
  BY <1>3, <1>4 DEF Inv

LEMMA Inductive == Inv /\ [Next]_vars => Inv'
<1> SUFFICES ASSUME Inv, [Next]_vars PROVE Inv'
  OBVIOUS
<1>1. CASE UNCHANGED vars
  BY <1>1 DEF vars, Inv, GoodSession, GoodFiles, Disjoint, InStep, Bindings
<1>2. CASE DevicesPages
  BY <1>2, DevicesSteps, SaveDevicesStep, LoadDevicesStep, PcsSteps DEF DevicesPages
<1>3. CASE ProjectPage
  BY <1>3, ProjectStep
<1>4. CASE \/ Start \/ Stop
           \/ \E q \in Profiles : \/ LoadProfile(q) \/ SaveProfile(q)
                                  \/ \E r \in Profiles : ImportProfile(q, r)
  BY <1>4, ProfileSteps
<1> QED
  BY <1>1, <1>2, <1>3, <1>4 DEF Next

LEMMA Always == Spec => []Inv
<1> QED
  BY Initially, Inductive, PTL DEF Spec

\* A session has an active cluster and a current PCS that exist, and a file holds
\* a list of the right kind or is unreadable.
THEOREM Typing == Spec => []TypeOK
<1>1. Inv => TypeOK
  BY DEF Inv, TypeOK, GoodSession
<1> QED
  BY <1>1, Always, PTL

\* Whatever the files of all profiles went through, no PCS is in two clusters.
THEOREM NoSharedPcs == Spec => []PcsInOneCluster
<1>1. Inv => PcsInOneCluster
  BY DEF Inv, GoodSession, Disjoint, PcsInOneCluster
<1> QED
  BY <1>1, Always, PTL

\* The files of the current profile hold what the session holds.
THEOREM Saving == Spec => []EditsAreSaved
<1>1. Inv => EditsAreSaved
  BY DEF Inv, InStep, EditsAreSaved
<1> QED
  BY <1>1, Always, PTL

\* A load that is not interrupted ends with the list of devices that it started
\* from, in memory and in the file, although it wrote the file once for each entry.
THEOREM LoadsKeep == Spec => LoadKeepsDevices
<1>1. ASSUME Inv, up', Start \/ \E q \in Profiles : LoadProfile(q)
      PROVE  LET q == session'.profile
             IN  /\ disk'[q].devices = disk[q].devices
                 /\ disk[q].devices = Broken \/ session'.devices = disk[q].devices
  <2>1. GoodSession(session) /\ \A q \in Profiles : GoodFiles(disk[q])
    BY <1>1 DEF Inv
  <2>2. CASE Start
    <3> DEFINE f == disk[DefaultProfile]
               s == Fresh(Ensured(f))
    <3>1. GoodFiles(f) /\ AutoLoad(s, f) /\ s.profile = DefaultProfile
      BY <2>1, <2>2, NamesAssumption DEF Start, Fresh
    <3>2. GoodSession(s)
      <4> HIDE DEF f
      <4> QED
        BY <3>1, EnsuredIsGood, FreshIsGood DEF GoodFiles
    <3> HIDE DEF s
    <3> QED
      BY ZenonT(60), <1>1, <3>1, <3>2, AutoLoaded
  <2>3. ASSUME NEW r \in Profiles, LoadProfile(r)
        PROVE  LET q == session'.profile
               IN  /\ disk'[q].devices = disk[q].devices
                   /\ disk[q].devices = Broken \/ session'.devices = disk[q].devices
    <3> DEFINE s == [session EXCEPT !.profile = r]
    <3>1. AutoLoad(s, disk[r])
      BY <2>3 DEF LoadProfile
    <3>2. GoodSession(s) /\ s.profile = r
      BY <2>1, OtherProfile
    <3> HIDE DEF s
    <3> QED
      BY ZenonT(60), <1>1, <2>1, <3>1, <3>2, AutoLoaded
  <2> QED
    BY <1>1, <2>2, <2>3
<1>2. Inv /\ [Next]_vars =>
        [up' /\ (Start \/ \E q \in Profiles : LoadProfile(q)) =>
          LET q == session'.profile
          IN  /\ disk'[q].devices = disk[q].devices
              /\ disk[q].devices = Broken \/ session'.devices = disk[q].devices]_vars
  BY <1>1
<1> QED
  BY <1>2, Always, PTL DEF Spec, LoadKeepsDevices

\* No handler and no start leaves a BMS without its cluster, in two, or in one while
\* it is no device, unless it loads a list over a site of several clusters or one
\* that cannot be read; that no BMS is ever listed twice is what makes it true of
\* the removal of a device.
THEOREM BmsPlaced == Spec => EveryBmsPlaced
<1>1. Inv /\ [Next]_vars =>
        [up' => \/ Misplaced(session') \subseteq IF up THEN Misplaced(session) ELSE {}
                \/ LoadsOver]_vars
  BY Inductive, StepPlaced
<1> QED
  BY <1>1, Always, PTL DEF Spec, EveryBmsPlaced
=============================================================================
