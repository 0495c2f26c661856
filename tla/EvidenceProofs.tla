--------------------------- MODULE EvidenceProofs ---------------------------
(***************************************************************************)
(* Proofs about Evidence, Latency and CanSignals, for any files, mappings  *)
(* and sizes.                                                              *)
(***************************************************************************)
EXTENDS Evidence, Latency, CanSignals, FiniteSetTheorems, SequenceTheorems,
        WellFoundedInduction, TLAPS

\* The widgets have their types and their pages are in range.
UiOK(s) == s \in Uis /\ \A k \in Kinds : s.page[k] <= s.pages[k]

\* Follows, of any state of the widgets.
FollowedBy(s, k, of) == IF s.records[k] # None THEN of = s.records[k]
                        ELSE of = None \/ GivenBy(s.cached[k], of)

\* The cache files that the tables come from are of the right kind, were named by
\* the load that gave the records, and hold these unless they were cleared.
Keyed(s) == \A k \in Kinds : /\ s.cached[k] # None => s.cached[k].kind = k
                             /\ s.records[k] # None => GivenBy(s.cached[k], s.records[k])
BackedOn(s, k) == \A e \in cache : e.key = s.cached[k] => FollowedBy(s, k, e.records)
Backed(s) == \A k \in Kinds : BackedOn(s, k)

\* A table shows the records, and is blank only when none of them matches.
FullOn(s, k) == s.table[k].matched > 0 => s.table[k].rows # {}
TabledOn(s, k) == /\ (k = "can" => s.view = "Frames") => FollowedBy(s, k, s.table[k].of)
                  /\ FullOn(s, k)
Tabled(s) == \A k \in Kinds : TabledOn(s, k)

Plotted(s) == s.plot = {[signal |-> x, of |-> s.records["can"]] :
                          x \in s.selected \cap Decoded(s.records["can"])}
Insighted(s) == FollowedBy(s, "modbus", s.insight)

\* What a handler finds and leaves.
Good(s) == UiOK(s) /\ Keyed(s) /\ Backed(s) /\ Tabled(s) /\ Plotted(s) /\ Insighted(s)

\* An entry was named, parsed and saved in this order, over one file and mapping.
CacheOK == \A e \in cache :
    /\ e.key.source.file = e.meta.source.file /\ e.records.source.file = e.meta.source.file
    /\ e.key.mapping = e.meta.mapping /\ e.records.mapping = e.meta.mapping
    /\ e.key.source.version <= e.records.source.version
    /\ e.records.source.version <= e.meta.source.version
    /\ e.meta.source.version <= version[e.meta.source.file]

\* So is a load: its file may have grown since, its mapping has not changed, and
\* until it saves no entry was written after it began.
JobOK == Busy =>
    /\ job.key.kind = job.kind /\ job.key.source.file = job.file
    /\ job.key.mapping = Fingerprint(job.mapping)
    /\ job.key.source.version <= version[job.file]
    /\ job.step # "show" => \A e \in cache : e.meta.source.file = job.file
                              => e.meta.source.version <= job.key.source.version
    /\ job.step = "save" =>
         /\ job.read \in Analyses
         /\ job.read.source.file = job.file /\ job.read.mapping = Fingerprint(job.mapping)
         /\ job.key.source.version <= job.read.source.version
         /\ job.read.source.version <= version[job.file]
    /\ job.step = "show" =>
         /\ job.read \in Analyses /\ GivenBy(job.key, job.read)
         /\ \A e \in cache : e.key = job.key => e.records = job.read

\* Between saving and showing, the tables' cache file may be newer than they are.
Showing(k) == Busy /\ job.step = "show" /\ job.key = ui.cached[k]
UiInv == /\ Keyed(ui) /\ Tabled(ui) /\ Plotted(ui) /\ Insighted(ui)
         /\ \A k \in Kinds : Showing(k) \/ BackedOn(ui, k)

UniqueKeys == \A d, e \in cache : d.key = e.key => d = e

Inv == TypeOK /\ CacheOK /\ UniqueKeys /\ JobOK /\ UiInv

-----------------------------------------------------------------------------
(* Types of what the handlers are built from.                              *)

LEMMA AnalysisParts ==
    ASSUME NEW r \in Analyses
    PROVE  /\ r.source \in SourcePrints /\ r.mapping \in MappingPrints
           /\ r.source.file \in Sources /\ r.source.version \in Versions
           /\ r.mapping # None => r.mapping.file \in Mappings
  BY DEF Analyses, SourcePrints, MappingPrints

LEMMA VersionsAreNumbers == Versions \subseteq Nat \ {0} /\ 1 \in Versions
  BY SizesAssumption DEF Versions

LEMMA RowsAreNumbers ==
    ASSUME NEW r \in Analyses \cup {None}
    PROVE  Rows(r) \subseteq Nat /\ IsFiniteSet(Rows(r))
<1>1. CASE r = None
  BY <1>1, FS_EmptySet DEF Rows
<1>2. CASE r # None
  <2>1. r.source.version \in Nat
    BY <1>2, AnalysisParts, VersionsAreNumbers
  <2>2. Rows(r) = 1..r.source.version
    BY <1>2 DEF Rows
  <2> QED
    BY SMTT(30), <2>1, <2>2, FS_Interval
<1> QED
  BY <1>1, <1>2

LEMMA MatchingRows ==
    ASSUME NEW r \in Analyses \cup {None}, NEW least
    PROVE  /\ Matching(r, least) \subseteq Nat
           /\ Cardinality(Matching(r, least)) \in Nat
  BY RowsAreNumbers, FS_Subset, FS_CardinalityType DEF Matching

LEMMA PagesArePositive == ASSUME NEW n \in Nat PROVE Pages(n) \in Nat \ {0}
<1>1. CASE n = 0
  BY <1>1 DEF Pages
<1>2. CASE n # 0
  <2>1. PageSize \in Nat /\ PageSize > 0 /\ n + PageSize - 1 >= PageSize
    BY <1>2, SizesAssumption
  <2>2. (n + PageSize - 1) \div PageSize \in Nat \ {0}
    BY <2>1
  <2> QED
    BY <1>2, <2>2 DEF Pages
<1> QED
  BY <1>1, <1>2

LEMMA ClampedInRange ==
    ASSUME NEW n \in Nat, NEW page \in Nat \ {0}
    PROVE  Clamped(page, n) \in Nat \ {0} /\ Clamped(page, n) <= Pages(n)
  BY PagesArePositive DEF Clamped

LEMMA Quotients ==
    ASSUME NEW b \in Nat \ {0}
    PROVE  /\ \A q \in Nat : (q * b) \div b = q
           /\ \A n \in Nat : n \div b \in Nat /\ (n \div b) * b <= n
<1>1. ASSUME NEW q \in Nat PROVE (q * b) \div b = q
  <2> DEFINE a == q * b
             d == a \div b
             m == a % b
  <2>1. a \in Nat /\ d \in Nat /\ m \in Nat /\ a = b * d + m /\ m < b
    OBVIOUS
  <2>2. b * (q - d) = m
    <3>1. b * (q - d) = b * q - b * d /\ b * q = q * b
      BY <2>1
    <3> HIDE DEF d, m
    <3> QED
      BY <2>1, <3>1
  <2> HIDE DEF a, d, m
  <2>3. ~(q - d >= 1)
    <3> SUFFICES ASSUME q - d >= 1 PROVE FALSE
      OBVIOUS
    <3>1. b * (q - d) >= b
      BY <2>1
    <3> QED
      BY <2>1, <2>2, <3>1
  <2>4. ~(q - d <= -1)
    <3> SUFFICES ASSUME q - d <= -1 PROVE FALSE
      OBVIOUS
    <3>1. b * (q - d) <= -b
      BY <2>1
    <3> QED
      BY <2>1, <2>2, <3>1
  <2>5. q = d
    BY <2>1, <2>3, <2>4
  <2> QED
    BY <2>5 DEF d, a
<1>2. ASSUME NEW n \in Nat PROVE n \div b \in Nat /\ (n \div b) * b <= n
  <2>1. n \div b \in Nat /\ n = b * (n \div b) + (n % b) /\ n % b >= 0 /\ n % b \in Int
    OBVIOUS
  <2> DEFINE d == n \div b
             m == n % b
  <2> HIDE DEF d, m
  <2>2. d * b = b * d /\ n = b * d + m /\ m >= 0 /\ m \in Int /\ d \in Nat
    BY <2>1 DEF d, m
  <2>3. d * b <= n
    BY <2>2
  <2> QED
    BY <2>2, <2>3 DEF d
<1> QED
  BY <1>1, <1>2

\* A page in the range of the spin box has a row, if there is one to show.
LEMMA PagesAreFull ==
    ASSUME NEW r \in Analyses \cup {None}, NEW least \in Versions, NEW page \in Nat \ {0},
           Cardinality(Matching(r, least)) > 0, page <= Pages(Cardinality(Matching(r, least)))
    PROVE  Table(r, least, page).rows # {}
<1> DEFINE n == Cardinality(Matching(r, least))
           v == r.source.version
           q == page - 1
           i == least + q * PageSize
<1>1. r # None
  <2> SUFFICES ASSUME r = None PROVE FALSE
    OBVIOUS
  <2>1. Matching(r, least) = {}
    BY DEF Matching, Rows
  <2> QED
    BY <2>1, FS_EmptySet
<1>2. v \in Nat /\ least \in Nat /\ least >= 1
  <2>1. v \in Versions
    BY <1>1, AnalysisParts
  <2> HIDE DEF v
  <2> QED
    BY <2>1, VersionsAreNumbers
<1>3. Matching(r, least) = least..v
  <2>1. Rows(r) = 1..v
    BY <1>1 DEF Rows
  <2> HIDE DEF v
  <2>2. {j \in 1..v : j >= least} = least..v
    BY <1>2
  <2> QED
    BY <2>1, <2>2 DEF Matching
<1>4. n = v - least + 1 /\ least <= v
  <2> HIDE DEF v
  <2>1. Cardinality(least..v) = IF least > v THEN 0 ELSE v - least + 1
    BY <1>2, FS_Interval
  <2> QED
    BY <1>2, <1>3, <2>1
<1> HIDE DEF v
<1>5. n \in Nat /\ n > 0
  BY <1>2, <1>4
<1>6. PageSize \in Nat \ {0} /\ q \in Nat
  BY SizesAssumption
<1>7. q * PageSize <= n - 1
  <2> HIDE DEF n
  <2> DEFINE x == n + PageSize - 1
  <2>1. x \in Nat /\ Pages(n) = x \div PageSize
    BY <1>5, <1>6 DEF Pages
  <2> HIDE DEF x
  <2>2. x \div PageSize \in Nat /\ (x \div PageSize) * PageSize <= x
    BY <1>6, <2>1, Quotients
  <2>3. page <= x \div PageSize
    BY <2>1 DEF n
  <2>4. page * PageSize <= (x \div PageSize) * PageSize
    <3> DEFINE d == x \div PageSize
    <3>1. d \in Nat /\ page <= d
      BY <2>2, <2>3
    <3> HIDE DEF d
    <3>2. page * PageSize <= d * PageSize
      BY <1>6, <3>1
    <3> QED
      BY <3>2 DEF d
  <2>5. page * PageSize = q * PageSize + PageSize
    BY <1>6
  <2>6. q * PageSize \in Nat
    BY <1>6
  <2> HIDE DEF q
  <2> QED
    BY <1>5, <1>6, <2>1, <2>2, <2>4, <2>5, <2>6 DEF x
<1>8. i \in Matching(r, least) /\ i - least = q * PageSize
  <2> DEFINE y == q * PageSize
  <2>1. y \in Nat
    BY <1>6
  <2> HIDE DEF y, n
  <2>2. least + y \in least..v /\ (least + y) - least = y
    BY <1>2, <1>4, <1>5, <1>7, <2>1 DEF y
  <2> QED
    BY <1>3, <2>2 DEF y
<1>9. (i - least) \div PageSize = page - 1
  BY <1>6, <1>8, Quotients
<1>10. Table(r, least, page).rows = {j \in Matching(r, least) : (j - least) \div PageSize = page - 1}
  BY DEF Table
<1> HIDE DEF i
<1> QED
  BY <1>8, <1>9, <1>10

LEMMA ShownTyping ==
    ASSUME TypeOK, NEW s \in Uis, NEW k \in Kinds
    PROVE  Shown(s, k) \in Analyses \cup {None}
<1>1. CASE OnDisk(s, k) = {}
  BY <1>1 DEF Shown, Uis
<1>2. CASE OnDisk(s, k) # {}
  <2>1. (CHOOSE e \in OnDisk(s, k) : TRUE) \in OnDisk(s, k)
    BY <1>2
  <2>2. OnDisk(s, k) \subseteq Entries
    BY DEF OnDisk, TypeOK
  <2> QED
    BY <1>2, <2>1, <2>2 DEF Shown, Entries
<1> QED
  BY <1>1, <1>2

LEMMA RefreshedTyping ==
    ASSUME TypeOK, NEW s, UiOK(s), NEW k \in Kinds
    PROVE  UiOK(Refreshed(s, k))
<1>1. CASE k = "can" /\ s.view # "Frames"
  BY <1>1 DEF Refreshed
<1>2. CASE ~(k = "can" /\ s.view # "Frames")
  <2> DEFINE of == Shown(s, k)
             count == Cardinality(Matching(of, s.least[k]))
             page == Clamped(s.page[k], count)
             table == Table(of, s.least[k], page)
  <2>1. s \in Uis /\ s.page[k] \in Nat \ {0}
    BY DEF UiOK, Uis
  <2>2. of \in Analyses \cup {None} /\ count \in Nat
    BY <2>1, ShownTyping, MatchingRows
  <2>3. Pages(count) \in Nat \ {0} /\ page \in Nat \ {0} /\ page <= Pages(count)
    BY <2>1, <2>2, PagesArePositive, ClampedInRange
  <2>4. table \in Tables
    BY <2>2, MatchingRows DEF Table, Tables
  <2>5. Refreshed(s, k) = [s EXCEPT !.page[k] = page, !.pages[k] = Pages(count), !.table[k] = table]
    BY <1>2 DEF Refreshed
  <2> DEFINE pagesOf == [s.page EXCEPT ![k] = page]
             spins == [s.pages EXCEPT ![k] = Pages(count)]
             tables == [s.table EXCEPT ![k] = table]
  <2>6. /\ pagesOf \in [Kinds -> Nat \ {0}] /\ spins \in [Kinds -> Nat \ {0}]
        /\ tables \in [Kinds -> Tables]
        /\ \A j \in Kinds : pagesOf[j] <= spins[j]
    BY <2>1, <2>3, <2>4 DEF UiOK, Uis
  <2>7. Refreshed(s, k) = [s EXCEPT !.page = pagesOf, !.pages = spins, !.table = tables]
    BY <2>5
  <2> HIDE DEF of, count, page, table, pagesOf, spins, tables
  <2> QED
    BY ZenonT(40), <2>1, <2>6, <2>7 DEF UiOK, Uis
<1> QED
  BY <1>1, <1>2

LEMMA ChartedTyping ==
    ASSUME NEW s, UiOK(s)
    PROVE  UiOK(Charted(s)) /\ Charted(s).selected = s.selected
<1> DEFINE plot == {[signal |-> x, of |-> s.records["can"]] :
                      x \in s.selected \cap Decoded(s.records["can"])}
<1>1. s.selected \subseteq Signals /\ s.records["can"] \in Analyses \cup {None}
  BY DEF UiOK, Uis, Kinds
<1>2. plot \subseteq Curves
  BY <1>1 DEF Curves
<1>3. Charted(s) = [s EXCEPT !.plot = plot]
  BY DEF Charted
<1> HIDE DEF plot
<1> QED
  BY <1>2, <1>3 DEF UiOK, Uis

\* A refresh touches the table of its kind and its pages, and nothing else.
LEMMA RefreshedKeeps ==
    ASSUME NEW s \in Uis, NEW k \in Kinds
    PROVE  LET t == Refreshed(s, k)
           IN  /\ t.records = s.records /\ t.cached = s.cached /\ t.view = s.view
               /\ t.selected = s.selected /\ t.plot = s.plot /\ t.insight = s.insight
               /\ \A j \in Kinds \ {k} : t.table[j] = s.table[j]
               /\ (k = "can" /\ s.view # "Frames") \/ t.table[k].of = Shown(s, k)
<1>1. CASE k = "can" /\ s.view # "Frames"
  BY <1>1 DEF Refreshed
<1>2. CASE ~(k = "can" /\ s.view # "Frames")
  <2> DEFINE count == Cardinality(Matching(Shown(s, k), s.least[k]))
             page == Clamped(s.page[k], count)
             table == Table(Shown(s, k), s.least[k], page)
  <2>1. Refreshed(s, k) = [s EXCEPT !.page[k] = page, !.pages[k] = Pages(count), !.table[k] = table]
    BY <1>2 DEF Refreshed
  <2>2. table.of = Shown(s, k)
    BY DEF Table
  <2> HIDE DEF count, page, table
  <2>3. /\ Refreshed(s, k).records = s.records /\ Refreshed(s, k).cached = s.cached
        /\ Refreshed(s, k).view = s.view /\ Refreshed(s, k).selected = s.selected
        /\ Refreshed(s, k).plot = s.plot /\ Refreshed(s, k).insight = s.insight
        /\ Refreshed(s, k).table = [s.table EXCEPT ![k] = table]
    BY <2>1 DEF Uis
  <2>4. s.table \in [Kinds -> Tables]
    BY DEF Uis
  <2> QED
    BY <2>2, <2>3, <2>4
<1> QED
  BY <1>1, <1>2

LEMMA RefreshedIsFull ==
    ASSUME TypeOK, NEW s, UiOK(s), NEW k \in Kinds, FullOn(s, k)
    PROVE  FullOn(Refreshed(s, k), k)
<1>1. CASE k = "can" /\ s.view # "Frames"
  BY <1>1 DEF Refreshed
<1>2. CASE ~(k = "can" /\ s.view # "Frames")
  <2> DEFINE of == Shown(s, k)
             least == s.least[k]
             count == Cardinality(Matching(of, least))
             page == Clamped(s.page[k], count)
             table == Table(of, least, page)
  <2>1. s \in Uis /\ s.page[k] \in Nat \ {0} /\ least \in Versions
    BY DEF UiOK, Uis
  <2>2. of \in Analyses \cup {None} /\ count \in Nat
    BY <2>1, ShownTyping, MatchingRows
  <2>3. page \in Nat \ {0} /\ page <= Pages(count)
    BY <2>1, <2>2, ClampedInRange
  <2>4. Refreshed(s, k) = [s EXCEPT !.page[k] = page, !.pages[k] = Pages(count), !.table[k] = table]
    BY <1>2 DEF Refreshed
  <2>5. table.matched = count
    BY DEF Table
  <2> HIDE DEF of, least, page
  <2>6. table.matched > 0 => table.rows # {}
    <3> SUFFICES ASSUME count > 0 PROVE table.rows # {}
      BY <2>5
    <3> QED
      BY <2>1, <2>2, <2>3, PagesAreFull
  <2> HIDE DEF count, table
  <2>7. Refreshed(s, k).table = [s.table EXCEPT ![k] = table] /\ s.table \in [Kinds -> Tables]
    BY <2>1, <2>4 DEF Uis
  <2> QED
    BY <2>6, <2>7 DEF FullOn
<1> QED
  BY <1>1, <1>2

\* Whatever the table of its kind showed before, it follows the records after.
LEMMA RefreshedGood ==
    ASSUME TypeOK, NEW s, NEW k \in Kinds, UiOK(s), Keyed(s), Backed(s), Plotted(s), Insighted(s),
           \A j \in Kinds \ {k} : TabledOn(s, j), FullOn(s, k)
    PROVE  Good(Refreshed(s, k))
<1> DEFINE t == Refreshed(s, k)
<1>1. UiOK(t)
  BY RefreshedTyping
<1>2. s \in Uis
  BY DEF UiOK
<1>3. /\ t.records = s.records /\ t.cached = s.cached /\ t.view = s.view
      /\ t.selected = s.selected /\ t.plot = s.plot /\ t.insight = s.insight
      /\ \A j \in Kinds \ {k} : t.table[j] = s.table[j]
      /\ (k = "can" /\ s.view # "Frames") \/ t.table[k].of = Shown(s, k)
  BY <1>2, RefreshedKeeps
<1> HIDE DEF t
<1>4. Keyed(t) /\ Backed(t) /\ Plotted(t) /\ Insighted(t)
  BY <1>3 DEF Keyed, Backed, BackedOn, FollowedBy, Plotted, Insighted
<1>5. ASSUME NEW j \in Kinds PROVE TabledOn(t, j)
  <2>1. CASE j # k
    BY <2>1, <1>3 DEF TabledOn, FullOn, FollowedBy
  <2>2. CASE j = k
    <3>1. FollowedBy(s, k, Shown(s, k))
      <4>1. CASE OnDisk(s, k) = {}
        BY <4>1 DEF Shown, FollowedBy
      <4>2. CASE OnDisk(s, k) # {}
        <5>1. PICK e \in OnDisk(s, k) : Shown(s, k) = e.records
          BY <4>2 DEF Shown
        <5> QED
          BY <5>1 DEF Backed, BackedOn, OnDisk
      <4> QED
        BY <4>1, <4>2
    <3>2. FullOn(t, k)
      BY RefreshedIsFull DEF t
    <3> QED
      BY <2>2, <3>1, <3>2, <1>3 DEF TabledOn, FullOn, FollowedBy
  <2> QED
    BY <2>1, <2>2
<1>6. Tabled(t)
  BY <1>5 DEF Tabled
<1> QED
  BY <1>1, <1>4, <1>6 DEF Good, t

\* The plot is drawn again from the records.
LEMMA ChartedKeeps ==
    ASSUME NEW s, UiOK(s)
    PROVE  LET t == Charted(s)
           IN  /\ UiOK(t) /\ Plotted(t)
               /\ t.records = s.records /\ t.cached = s.cached /\ t.view = s.view
               /\ t.table = s.table /\ t.selected = s.selected /\ t.insight = s.insight
<1> DEFINE plot == {[signal |-> x, of |-> s.records["can"]] :
                      x \in s.selected \cap Decoded(s.records["can"])}
           t == Charted(s)
<1>1. UiOK(t) /\ s \in Uis
  BY ChartedTyping DEF UiOK
<1>2. t = [s EXCEPT !.plot = plot]
  BY DEF Charted
<1> HIDE DEF t
<1>3. /\ t.records = s.records /\ t.cached = s.cached /\ t.view = s.view /\ t.table = s.table
      /\ t.selected = s.selected /\ t.plot = plot /\ t.insight = s.insight
  <2> HIDE DEF plot
  <2> QED
    BY <1>1, <1>2 DEF Uis
<1>4. Plotted(t)
  BY <1>3 DEF Plotted
<1> QED
  BY <1>1, <1>3, <1>4 DEF t

LEMMA DecodedTyping ==
    ASSUME NEW r \in Analyses \cup {None}
    PROVE  Decoded(r) \subseteq Signals
<1>1. CASE r = None \/ r.mapping = None
  BY <1>1 DEF Decoded
<1>2. CASE ~(r = None \/ r.mapping = None)
  <2>1. r.mapping.file \in Mappings
    BY <1>2, AnalysisParts
  <2> QED
    BY <1>2, <2>1, FilesAssumption DEF Decoded
<1> QED
  BY <1>1, <1>2

LEMMA RebuiltKeeps ==
    ASSUME NEW s, UiOK(s)
    PROVE  LET t == Rebuilt(s)
           IN  /\ UiOK(t) /\ Plotted(t)
               /\ t.records = s.records /\ t.cached = s.cached /\ t.view = s.view
               /\ t.table = s.table /\ t.insight = s.insight
<1> DEFINE found == Decoded(s.records["can"])
           first == IF s.selected = {} /\ found # {} THEN {CHOOSE x \in found : TRUE} ELSE s.selected
           u == [s EXCEPT !.selected = first]
<1>1. s \in Uis /\ s.records["can"] \in Analyses \cup {None} /\ s.selected \subseteq Signals
  BY DEF UiOK, Uis, Kinds
<1>2. found \subseteq Signals
  BY <1>1, DecodedTyping
<1>3. first \subseteq Signals
  <2> HIDE DEF found
  <2> QED
    BY <1>1, <1>2
<1>4. Rebuilt(s) = Charted(u)
  BY <1>1 DEF Rebuilt
<1> HIDE DEF first
<1>5. /\ UiOK(u) /\ u.records = s.records /\ u.cached = s.cached /\ u.view = s.view
      /\ u.table = s.table /\ u.insight = s.insight
  BY <1>1, <1>3 DEF UiOK, Uis
<1> HIDE DEF u
<1> QED
  BY <1>4, <1>5, ChartedKeeps

\* An analysis that was named, and that its cache file holds if there is one, is
\* shown in full: table, plot and insight.
LEMMA LoadedGood ==
    ASSUME TypeOK, Keyed(ui), Tabled(ui), Plotted(ui), Insighted(ui),
           NEW k \in Kinds, NEW key \in Keys, key.kind = k, NEW r \in Analyses,
           GivenBy(key, r), \A e \in cache : e.key = key => e.records = r,
           \A j \in Kinds \ {k} : BackedOn(ui, j)
    PROVE  Good(Loaded(ui, k, key, r))
<1> DEFINE t == [ui EXCEPT !.records[k] = r, !.cached[k] = key]
           records == [ui.records EXCEPT ![k] = r]
           cached == [ui.cached EXCEPT ![k] = key]
<1>1. ui \in Uis /\ UiOK(ui)
  BY DEF TypeOK, UiOK
<1>2. /\ records \in [Kinds -> Analyses \cup {None}] /\ cached \in [Kinds -> Keys \cup {None}]
      /\ records[k] = r /\ cached[k] = key
      /\ \A j \in Kinds \ {k} : records[j] = ui.records[j] /\ cached[j] = ui.cached[j]
  BY <1>1 DEF Uis
<1>3. t = [ui EXCEPT !.records = records, !.cached = cached]
  OBVIOUS
<1> HIDE DEF t, records, cached
<1>4. /\ UiOK(t) /\ t.records = records /\ t.cached = cached /\ t.view = ui.view
      /\ t.table = ui.table /\ t.selected = ui.selected /\ t.plot = ui.plot
      /\ t.insight = ui.insight
  BY <1>1, <1>2, <1>3 DEF UiOK, Uis
<1>5. Keyed(t) /\ Backed(t) /\ FullOn(t, k) /\ \A j \in Kinds \ {k} : TabledOn(t, j)
  BY <1>2, <1>4 DEF Keyed, Backed, BackedOn, Tabled, TabledOn, FullOn, FollowedBy
<1>6. CASE k = "can"
  <2> DEFINE u == Rebuilt(t)
  <2>1. /\ UiOK(u) /\ Plotted(u) /\ u.records = records /\ u.cached = cached
        /\ u.view = ui.view /\ u.table = ui.table /\ u.insight = ui.insight
    BY <1>4, RebuiltKeeps
  <2> HIDE DEF u
  <2>2. Keyed(u) /\ Backed(u) /\ FullOn(u, k) /\ \A j \in Kinds \ {k} : TabledOn(u, j)
    BY <1>4, <1>5, <2>1 DEF Keyed, Backed, BackedOn, TabledOn, FullOn, FollowedBy
  <2>3. Insighted(u)
    BY <1>2, <1>6, <2>1 DEF Insighted, FollowedBy, Kinds
  <2>4. Good(Refreshed(u, k))
    BY <2>1, <2>2, <2>3, RefreshedGood
  <2> QED
    BY <1>6, <2>4 DEF Loaded, t, u
<1>7. CASE k # "can"
  <2> DEFINE u == Analysed(t)
  <2>0. k = "modbus" /\ "can" \in Kinds \ {k}
    BY <1>7 DEF Kinds
  <2>1. u = [t EXCEPT !.insight = records["modbus"]]
    BY <1>4 DEF Analysed
  <2>2. records["modbus"] \in Analyses \cup {None}
    BY <1>2, <2>0
  <2> HIDE DEF u
  <2>3. /\ UiOK(u) /\ u.records = records /\ u.cached = cached /\ u.view = ui.view
        /\ u.table = ui.table /\ u.selected = ui.selected /\ u.plot = ui.plot
        /\ u.insight = records["modbus"]
    BY <1>4, <2>1, <2>2 DEF UiOK, Uis
  <2>4. Keyed(u) /\ Backed(u) /\ FullOn(u, k) /\ \A j \in Kinds \ {k} : TabledOn(u, j)
    BY <1>4, <1>5, <2>3 DEF Keyed, Backed, BackedOn, TabledOn, FullOn, FollowedBy
  <2>5. Plotted(u) /\ Insighted(u)
    BY <1>2, <2>0, <2>3 DEF Plotted, Insighted, FollowedBy
  <2>6. Good(Refreshed(u, k))
    BY <2>3, <2>4, <2>5, RefreshedGood
  <2> QED
    BY <1>7, <2>6 DEF Loaded, t, u
<1> QED
  BY <1>6, <1>7

LEMMA ClearedCaptureGood ==
    ASSUME TypeOK, NEW s, Good(s) PROVE Good(ClearedCapture(s))
<1> DEFINE t == [s EXCEPT !.records["modbus"] = None, !.label["modbus"] = None]
           records == [s.records EXCEPT !["modbus"] = None]
           label == [s.label EXCEPT !["modbus"] = None]
<1>1. s \in Uis /\ UiOK(s) /\ "modbus" \in Kinds /\ "can" \in Kinds
  BY DEF Good, UiOK, Kinds
<1>2. /\ records \in [Kinds -> Analyses \cup {None}] /\ label \in [Kinds -> Sources \cup {None}]
      /\ records["modbus"] = None /\ records["can"] = s.records["can"]
  BY <1>1 DEF Uis
<1>3. t = [s EXCEPT !.records = records, !.label = label]
  OBVIOUS
<1> HIDE DEF t, records, label
<1>4. /\ UiOK(t) /\ t.records = records /\ t.cached = s.cached /\ t.view = s.view
      /\ t.table = s.table /\ t.selected = s.selected /\ t.plot = s.plot /\ t.insight = s.insight
  BY ZenonT(40), <1>1, <1>2, <1>3 DEF UiOK, Uis
<1>5. Keyed(t) /\ Backed(t) /\ Tabled(t) /\ Plotted(t) /\ Insighted(t)
  BY <1>2, <1>4 DEF Good, Keyed, Backed, BackedOn, Tabled, TabledOn, FullOn, FollowedBy, Plotted,
     Insighted, Kinds
<1>6. FullOn(t, "modbus")
  BY <1>1, <1>5 DEF Tabled, TabledOn
<1>7. Good(Refreshed(t, "modbus"))
  BY <1>1, <1>4, <1>5, <1>6, RefreshedGood DEF Tabled
<1> QED
  BY <1>7 DEF ClearedCapture, t

LEMMA ClearedLogGood ==
    ASSUME TypeOK, NEW s, Good(s) PROVE Good(ClearedLog(s))
<1> DEFINE t == [s EXCEPT !.records["can"] = None, !.label["can"] = None, !.selected = {},
                          !.table["can"] = Blank]
           records == [s.records EXCEPT !["can"] = None]
           label == [s.label EXCEPT !["can"] = None]
           table == [s.table EXCEPT !["can"] = Blank]
<1>1. s \in Uis /\ UiOK(s) /\ "modbus" \in Kinds /\ "can" \in Kinds
  BY DEF Good, UiOK, Kinds
<1>2. /\ records \in [Kinds -> Analyses \cup {None}] /\ label \in [Kinds -> Sources \cup {None}]
      /\ table \in [Kinds -> Tables]
      /\ records["can"] = None /\ records["modbus"] = s.records["modbus"]
      /\ table["modbus"] = s.table["modbus"] /\ table["can"].matched = 0
      /\ table["can"].of = None
  BY <1>1 DEF Uis, Blank, Tables
<1>3. t = [s EXCEPT !.records = records, !.label = label, !.selected = {}, !.table = table]
  OBVIOUS
<1> HIDE DEF t, records, label, table
<1>4. /\ UiOK(t) /\ t.records = records /\ t.cached = s.cached /\ t.view = s.view
      /\ t.table = table /\ t.insight = s.insight
  BY ZenonT(40), <1>1, <1>2, <1>3 DEF UiOK, Uis
<1> DEFINE u == Charted(t)
<1>5. /\ UiOK(u) /\ Plotted(u) /\ u.records = records /\ u.cached = s.cached /\ u.view = s.view
      /\ u.table = table /\ u.insight = s.insight
  BY <1>4, ChartedKeeps
<1> HIDE DEF u
<1>6. Keyed(u) /\ Backed(u) /\ Tabled(u) /\ Insighted(u)
  BY <1>2, <1>5 DEF Good, Keyed, Backed, BackedOn, Tabled, TabledOn, FullOn, FollowedBy,
     Insighted, Kinds
<1>7. Good(u)
  BY <1>5, <1>6 DEF Good
<1> QED
  BY <1>7 DEF ClearedLog, u, t
-----------------------------------------------------------------------------
(* Steps.                                                                  *)

\* Between two loads, everything is as a handler expects it.
LEMMA IdleIsGood == ASSUME Inv, ~Busy PROVE Good(ui)
  BY DEF Inv, UiInv, Good, UiOK, TypeOK, Backed, Showing

LEMMA FingerprintTyping ==
    ASSUME TypeOK
    PROVE  /\ \A m \in Mappings \cup {None} : Fingerprint(m) \in MappingPrints
           /\ \A f \in Sources : Fingerprint(f) = [file |-> f, version |-> version[f]]
           /\ \A f \in Sources : Fingerprint(f) \in SourcePrints
<1>1. \A f \in Sources \cup Mappings : version[f] \in Versions
  BY DEF TypeOK
<1> QED
  BY <1>1, FilesAssumption DEF Fingerprint, MappingPrints, SourcePrints

LEMMA HandledStep ==
    ASSUME Inv, ~Busy, NEW s, Good(s), Handled(s), UNCHANGED cache
    PROVE  Inv'
<1>1. ui' = s /\ version' = version /\ job' = job /\ cache' = cache
  BY DEF Handled
<1>2. TypeOK'
  BY <1>1 DEF Inv, TypeOK, Good, UiOK
<1>3. CacheOK' /\ ~Busy'
  BY <1>1 DEF Inv, CacheOK, Busy
<1>4. JobOK'
  BY <1>3 DEF JobOK
<1>5. UiInv'
  BY <1>1 DEF UiInv, Good, Backed, BackedOn, Keyed, Tabled, TabledOn, FullOn, FollowedBy,
     Plotted, Insighted
<1> QED
  BY <1>1, <1>2, <1>3, <1>4, <1>5 DEF Inv, UniqueKeys

\* A load begins: its name is taken from the files as they are now, so that no
\* entry can be of a later version.
LEMMA BeginStep ==
    ASSUME Inv, ~Busy, UNCHANGED cache,
           version' \in [Sources \cup Mappings -> Versions],
           \A f \in Sources : version'[f] = version[f],
           NEW s, Good(s), NEW k \in Kinds, NEW f \in Sources, NEW m \in Mappings \cup {None},
           Begin(s, k, f, m)
    PROVE  Inv'
<1> DEFINE source == [file |-> f, version |-> version[f]]
           mapping == Fingerprint(m)'
           key == [kind |-> k, source |-> source, mapping |-> mapping]
<1>1. ui' = s /\ cache' = cache
  BY DEF Begin
<1>2. version[f] \in Versions /\ source \in SourcePrints
  BY DEF Inv, TypeOK, SourcePrints
<1>3. mapping \in MappingPrints
  BY FilesAssumption DEF Fingerprint, MappingPrints
<1>4. job' = [step |-> "check", kind |-> k, file |-> f, mapping |-> m, key |-> key, read |-> None]
  BY FilesAssumption DEF Begin, KeyOf, Fingerprint
<1> HIDE DEF mapping
<1>5. key \in Keys
  BY <1>2, <1>3 DEF Keys
<1>6. job' \in Jobs
  BY <1>4, <1>5 DEF Jobs
<1>7. TypeOK'
  BY <1>1, <1>6 DEF Inv, TypeOK, Good, UiOK
<1>8. \A e \in cache : e.meta.source.file \in Sources
  BY DEF Inv, TypeOK, Entries, Analyses, SourcePrints
<1>9. CacheOK'
  BY <1>1, <1>8 DEF Inv, CacheOK
<1>10. JobOK'
  <2>1. /\ job'.key.kind = job'.kind /\ job'.key.source.file = job'.file
        /\ job'.key.mapping = Fingerprint(job.mapping)'
        /\ job'.key.source.version = version'[job'.file] /\ job'.step = "check"
    <3>1. job'.mapping = m
      BY <1>4
    <3>2. Fingerprint(job.mapping)' = mapping
      BY <3>1 DEF mapping, Fingerprint
    <3> QED
      BY <1>4, <3>2
  <2>2. version'[f] \in Nat
    BY <1>2, VersionsAreNumbers
  <2>3. job'.file = f /\ job'.key.source.version = version[f]
    BY <1>4
  <2>4. \A e \in cache' : e.meta.source.file = job'.file => e.meta.source.version <= job'.key.source.version
    BY <1>1, <2>3 DEF Inv, CacheOK
  <2> QED
    BY <2>1, <2>2, <2>3, <2>4 DEF JobOK
<1>11. UiInv'
  BY <1>1 DEF UiInv, Good, Backed, BackedOn, Keyed, Tabled, TabledOn, FullOn, FollowedBy,
     Plotted, Insighted
<1> QED
  BY <1>1, <1>7, <1>9, <1>10, <1>11 DEF Inv, UniqueKeys

LEMMA PresentTyping ==
    ASSUME Inv, Busy
    PROVE  /\ job \in Jobs /\ Present \in Analyses
           /\ Present.source.file = job.file /\ Present.source.version = version[job.file]
           /\ Present.mapping = Fingerprint(job.mapping) /\ version[job.file] \in Nat
<1>1. TypeOK /\ job \in Jobs
  BY DEF Inv, TypeOK, Busy
<1>2. job.file \in Sources /\ job.mapping \in Mappings \cup {None}
  BY <1>1 DEF Jobs
<1>3. version[job.file] \in Nat
  BY <1>1, <1>2, VersionsAreNumbers DEF TypeOK
<1> QED
  BY <1>1, <1>2, <1>3, FingerprintTyping DEF Present, Analyses

\* What the check finds is an analysis of the file as it is.
LEMMA HitIsTrue ==
    ASSUME Inv, Busy, job.step = "check", NEW e \in cache, e.key = job.key, e.meta = Present
    PROVE  e.records = Present
<1>1. /\ e \in Entries /\ e.records \in Analyses /\ e.meta \in Analyses /\ Present \in Analyses
      /\ e.key.source \in SourcePrints
  BY PresentTyping DEF Inv, TypeOK, Entries, Keys
<1>2. /\ e.records.source \in SourcePrints /\ e.meta.source \in SourcePrints
      /\ e.records.source.version \in Nat /\ e.meta.source.version \in Nat
      /\ e.key.source.version \in Nat
  BY <1>1, AnalysisParts, VersionsAreNumbers DEF SourcePrints
<1>3. e.meta.source.file = job.file
  BY PresentTyping
<1>4. /\ e.meta.source.version <= e.key.source.version
      /\ e.key.source.version <= e.records.source.version
      /\ e.records.source.version <= e.meta.source.version
  BY <1>3 DEF Inv, CacheOK, JobOK
<1>5. e.records.source.version = e.meta.source.version
  BY <1>2, <1>4
<1>6. e.records.source.file = e.meta.source.file /\ e.records.mapping = e.meta.mapping
  BY DEF Inv, CacheOK
<1>7. e.records.source = e.meta.source
  BY <1>2, <1>5, <1>6 DEF SourcePrints
<1> QED
  BY <1>1, <1>6, <1>7 DEF Analyses

\* A step of a load that leaves widgets, files and cache alone, and whose job
\* goes on, keeps everything that is not about the step and what was read.
LEMMA CheckStep == ASSUME Inv, Check PROVE Inv'
<1>1. Busy /\ job.step = "check" /\ job \in Jobs /\ ui' = ui /\ cache' = cache /\ version' = version
  BY PresentTyping DEF Check
<1>2. TypeOK /\ CacheOK' /\ JobOK /\ UiInv
  BY <1>1 DEF Inv, CacheOK
<1>3. CASE \E e \in cache : /\ e.key = job.key /\ e.meta = Present
                            /\ job' = [job EXCEPT !.step = "show", !.read = e.records]
  <2> PICK e \in cache : /\ e.key = job.key /\ e.meta = Present
                         /\ job' = [job EXCEPT !.step = "show", !.read = e.records]
    BY <1>3
  <2>1. e.records = Present /\ Present \in Analyses
    BY <1>1, HitIsTrue, PresentTyping
  <2>2. /\ job' \in Jobs /\ job'.step = "show" /\ job'.read = e.records /\ job'.read \in Analyses
        /\ job'.key = job.key /\ job'.kind = job.kind /\ job'.file = job.file /\ job'.mapping = job.mapping
    BY <1>1, <2>1 DEF Jobs
  <2>3. \A d \in cache : d.key = job.key => d.records = job'.read
    <3> SUFFICES ASSUME NEW d \in cache, d.key = job.key PROVE d.records = e.records
      BY <2>2
    <3>1. UniqueKeys
      BY DEF Inv
    <3> QED
      BY <3>1 DEF UniqueKeys
  <2>4. JobOK'
    <3>1. Fingerprint(job.mapping)' = Fingerprint(job.mapping)
      BY <1>1, <2>2 DEF Fingerprint
    <3>2. job.key \in Keys /\ job'.read = Present
      BY <1>1, <2>1, <2>2 DEF Jobs
    <3>3. GivenBy(job'.key, job'.read)
      BY <1>1, <1>2, <2>2, <3>2, PresentTyping, NoneAssumption DEF GivenBy, JobOK
    <3> QED
      BY <1>1, <1>2, <2>2, <2>3, <3>1, <3>3 DEF JobOK, Busy
  <2>5. TypeOK' /\ UiInv' /\ UniqueKeys'
    BY <1>1, <1>2, <2>2 DEF Inv, TypeOK, UiInv, Keyed, Tabled, TabledOn, FullOn, FollowedBy,
       Plotted, Insighted, BackedOn, Showing, UniqueKeys
  <2> QED
    BY <1>2, <2>4, <2>5 DEF Inv
<1>4. CASE job' = [job EXCEPT !.step = "read"]
  <2>1. /\ job' \in Jobs /\ job'.step = "read" /\ job'.key = job.key
        /\ job'.kind = job.kind /\ job'.file = job.file /\ job'.mapping = job.mapping
    BY <1>1, <1>4 DEF Jobs
  <2>2. JobOK'
    <3>1. Fingerprint(job.mapping)' = Fingerprint(job.mapping)
      BY <1>1, <2>1 DEF Fingerprint
    <3> QED
      BY <1>1, <1>2, <2>1, <3>1 DEF JobOK, Busy
  <2>3. TypeOK' /\ UiInv' /\ UniqueKeys'
    BY <1>1, <1>2, <2>1 DEF Inv, TypeOK, UiInv, Keyed, Tabled, TabledOn, FullOn, FollowedBy,
       Plotted, Insighted, BackedOn, Showing, UniqueKeys
  <2> QED
    BY <1>2, <2>2, <2>3 DEF Inv
<1> QED
  BY <1>3, <1>4 DEF Check

LEMMA ReadStep == ASSUME Inv, Read PROVE Inv'
<1>1. Busy /\ job.step = "read" /\ job \in Jobs /\ ui' = ui /\ cache' = cache /\ version' = version
  BY PresentTyping DEF Read
<1>2. TypeOK /\ CacheOK' /\ JobOK /\ UiInv
  BY <1>1 DEF Inv, CacheOK
<1>3. job' = [job EXCEPT !.step = "save", !.read = Present] /\ Present \in Analyses
  BY PresentTyping DEF Read
<1>4. /\ job' \in Jobs /\ job'.step = "save" /\ job'.read = Present /\ job'.key = job.key
      /\ job'.kind = job.kind /\ job'.file = job.file /\ job'.mapping = job.mapping
  BY <1>1, <1>3 DEF Jobs
<1>5. /\ Present.source.file = job.file /\ Present.source.version = version[job.file]
      /\ Present.mapping = Fingerprint(job.mapping) /\ version[job.file] \in Nat
  BY <1>1, PresentTyping
<1>6. Fingerprint(job.mapping)' = Fingerprint(job.mapping)
  BY <1>1, <1>4 DEF Fingerprint
<1>7. JobOK'
  BY <1>1, <1>2, <1>3, <1>4, <1>5, <1>6 DEF JobOK, Busy
<1>8. TypeOK' /\ UiInv' /\ UniqueKeys'
  BY <1>1, <1>2, <1>4 DEF Inv, TypeOK, UiInv, Keyed, Tabled, TabledOn, FullOn, FollowedBy,
     Plotted, Insighted, BackedOn, Showing, UniqueKeys
<1> QED
  BY <1>2, <1>7, <1>8 DEF Inv

\* The entry that is written takes the place of the one of its name.
LEMMA SaveStep == ASSUME Inv, Save PROVE Inv'
<1> DEFINE new == [key |-> job.key, meta |-> Present, records |-> job.read]
<1>1. Busy /\ job.step = "save" /\ job \in Jobs /\ ui' = ui /\ version' = version
  BY PresentTyping DEF Save
<1>2. TypeOK /\ CacheOK /\ UniqueKeys /\ JobOK /\ UiInv
  BY DEF Inv
<1>3. cache' = {e \in cache : e.key # job.key} \cup {new} /\ job' = [job EXCEPT !.step = "show"]
  BY DEF Save
<1>4. /\ job' \in Jobs /\ job'.step = "show" /\ job'.read = job.read /\ job'.key = job.key
      /\ job'.kind = job.kind /\ job'.file = job.file /\ job'.mapping = job.mapping
  BY <1>1, <1>3 DEF Jobs
<1>5. /\ Present.source.file = job.file /\ Present.source.version = version[job.file]
      /\ Present.mapping = Fingerprint(job.mapping) /\ version[job.file] \in Nat
      /\ Present \in Analyses
  BY <1>1, PresentTyping
<1>6. job.read \in Analyses /\ job.key \in Keys
  BY <1>1, <1>2 DEF JobOK, Jobs
<1>7. new \in Entries /\ new.key = job.key /\ new.meta = Present /\ new.records = job.read
  BY <1>5, <1>6 DEF Entries
<1> HIDE DEF new
<1>8. Fingerprint(job.mapping)' = Fingerprint(job.mapping)
  BY <1>1, <1>4 DEF Fingerprint
<1>9. CacheOK'
  <2>1. \A e \in cache' : e \in cache \/ e = new
    BY <1>3
  <2>2. /\ new.key.source.file = new.meta.source.file /\ new.records.source.file = new.meta.source.file
        /\ new.key.mapping = new.meta.mapping /\ new.records.mapping = new.meta.mapping
        /\ new.key.source.version <= new.records.source.version
        /\ new.records.source.version <= new.meta.source.version
        /\ new.meta.source.version <= version[new.meta.source.file]
    BY <1>1, <1>2, <1>5, <1>7 DEF JobOK
  <2> QED
    BY <1>1, <1>2, <2>1, <2>2 DEF CacheOK
<1>10. UniqueKeys' /\ \A e \in cache' : e.key = job.key => e.records = job.read
  BY <1>2, <1>3, <1>7 DEF UniqueKeys
<1>11. JobOK'
  <2>1. GivenBy(job.key, job.read)
    BY <1>1, <1>2, <1>6, NoneAssumption DEF GivenBy, JobOK
  <2> QED
    BY <1>1, <1>2, <1>4, <1>6, <1>8, <1>10, <2>1 DEF JobOK, Busy
<1>12. TypeOK'
  BY <1>1, <1>2, <1>3, <1>4, <1>7 DEF TypeOK
<1>13. UiInv'
  <2>1. Keyed(ui)' /\ Tabled(ui)' /\ Plotted(ui)' /\ Insighted(ui)'
    BY <1>1, <1>2 DEF UiInv, Keyed, Tabled, TabledOn, FullOn, FollowedBy, Plotted, Insighted
  <2>2. ASSUME NEW k \in Kinds, job.key # ui.cached[k] PROVE BackedOn(ui, k)'
    <3>1. BackedOn(ui, k)
      BY <1>2, <2>2 DEF UiInv, Showing
    <3> QED
      BY <1>1, <1>3, <1>7, <2>2, <3>1 DEF BackedOn, FollowedBy
  <2>3. ASSUME NEW k \in Kinds, job.key = ui.cached[k] PROVE Showing(k)'
    <3>1. Busy'
      BY <1>4, NoneAssumption DEF Busy
    <3> QED
      BY <1>1, <1>4, <2>3, <3>1 DEF Showing
  <2> QED
    BY <2>1, <2>2, <2>3 DEF UiInv
<1> QED
  BY <1>9, <1>10, <1>11, <1>12, <1>13 DEF Inv

LEMMA ShowStep == ASSUME Inv, Show PROVE Inv'
<1>1. /\ Busy /\ job.step = "show" /\ job \in Jobs /\ cache' = cache /\ version' = version
      /\ ui' = Loaded(ui, job.kind, job.key, job.read) /\ job' = None
  BY PresentTyping DEF Show
<1>2. TypeOK /\ CacheOK /\ UniqueKeys /\ JobOK /\ UiInv
  BY DEF Inv
<1>3. job.kind \in Kinds /\ job.key \in Keys /\ job.key.kind = job.kind /\ job.read \in Analyses
  BY <1>1, <1>2 DEF JobOK, Jobs
<1>4. GivenBy(job.key, job.read) /\ \A e \in cache : e.key = job.key => e.records = job.read
  BY <1>1, <1>2 DEF JobOK
<1>5. ASSUME NEW k \in Kinds \ {job.kind} PROVE BackedOn(ui, k)
  <2>1. CASE ui.cached[k] = None
    BY <1>2, <1>3, <2>1, NoneAssumption DEF UiInv, Showing
  <2>2. CASE ui.cached[k] # None
    <3>1. job.key # ui.cached[k]
      BY <1>2, <1>3, <2>2 DEF UiInv, Keyed
    <3> QED
      BY <1>2, <3>1 DEF UiInv, Showing
  <2> QED
    BY <2>1, <2>2
<1>6. Good(ui')
  BY <1>1, <1>2, <1>3, <1>4, <1>5, LoadedGood DEF UiInv
<1>7. TypeOK'
  BY <1>1, <1>2, <1>6 DEF Good, UiOK, TypeOK
<1>8. CacheOK' /\ UniqueKeys' /\ JobOK'
  BY <1>1, <1>2 DEF CacheOK, UniqueKeys, JobOK, Busy
<1>9. UiInv'
  <2>1. Keyed(ui)' /\ Tabled(ui)' /\ Plotted(ui)' /\ Insighted(ui)'
    BY <1>1, <1>6 DEF Good, Keyed, Tabled, TabledOn, FullOn, FollowedBy, Plotted, Insighted
  <2>2. (\A k \in Kinds : BackedOn(ui, k))'
    BY <1>1, <1>6 DEF Good, Backed, BackedOn, FollowedBy
  <2> QED
    BY <2>1, <2>2 DEF UiInv
<1> QED
  BY <1>7, <1>8, <1>9 DEF Inv

\* A load that fails has written nothing yet, or what it wrote is shown.
LEMMA FailStep == ASSUME Inv, LoadFails PROVE Inv'
<1>1. job.step # "show" /\ job' = None /\ ui' = ui /\ cache' = cache /\ version' = version
  BY DEF LoadFails
<1>2. \A k \in Kinds : BackedOn(ui, k)
  BY <1>1 DEF Inv, UiInv, Showing
<1> QED
  BY <1>1, <1>2 DEF Inv, TypeOK, CacheOK, UniqueKeys, JobOK, Busy, UiInv, BackedOn,
     Keyed, Tabled, TabledOn, FullOn, FollowedBy, Plotted, Insighted

LEMMA GrowStep == ASSUME Inv, NEW f \in Sources, Grow(f) PROVE Inv'
<1>1. /\ version' = [version EXCEPT ![f] = @ + 1] /\ version[f] < MaxVersion
      /\ job' = job /\ ui' = ui /\ cache' = cache
  BY DEF Grow
<1>2. TypeOK /\ CacheOK /\ UniqueKeys /\ JobOK /\ UiInv
  BY DEF Inv
<1>3. version \in [Sources \cup Mappings -> Versions] /\ MaxVersion \in Nat
  BY <1>2, SizesAssumption DEF TypeOK
<1>4. version' \in [Sources \cup Mappings -> Versions]
  BY <1>1, <1>3 DEF Versions
<1>5. ASSUME NEW g \in Sources
      PROVE  version[g] \in Nat /\ version'[g] \in Nat /\ version[g] <= version'[g]
  <2>1. version[g] \in Nat
    BY <1>3, VersionsAreNumbers
  <2>2. version'[g] = IF g = f THEN version[g] + 1 ELSE version[g]
    BY <1>1, <1>3
  <2> QED
    BY <2>1, <2>2
<1>6. \A m \in Mappings \cup {None} : Fingerprint(m)' = Fingerprint(m)
  BY <1>1, <1>3, FilesAssumption DEF Fingerprint
<1>7. CacheOK'
  <2>1. \A e \in cache : e.meta.source.file \in Sources /\ e.meta.source.version \in Nat
    BY <1>2, VersionsAreNumbers DEF TypeOK, Entries, Analyses, SourcePrints
  <2>2. \A e \in cache : e.meta.source.version <= version'[e.meta.source.file]
    BY <1>2, <1>5, <2>1 DEF CacheOK
  <2> QED
    BY <1>1, <1>2, <2>2 DEF CacheOK
<1>8. JobOK'
  <2> SUFFICES ASSUME Busy PROVE JobOK'
    BY <1>1 DEF JobOK, Busy
  <2>1. /\ job.file \in Sources /\ job.mapping \in Mappings \cup {None}
        /\ job.key.source.version \in Nat
    BY <1>2, VersionsAreNumbers DEF TypeOK, Busy, Jobs, Keys, SourcePrints
  <2>2. job.key.source.version <= version'[job.file]
    BY <1>2, <1>5, <2>1 DEF JobOK
  <2>3. job.step = "save" => job.read.source.version <= version'[job.file]
    <3> SUFFICES ASSUME job.step = "save" PROVE job.read.source.version <= version'[job.file]
      OBVIOUS
    <3>1. job.read.source.version \in Nat
      BY <1>2, AnalysisParts, VersionsAreNumbers DEF JobOK
    <3> QED
      BY <1>2, <1>5, <2>1, <3>1 DEF JobOK
  <2>4. Fingerprint(job.mapping)' = Fingerprint(job.mapping)
    BY <1>1, <1>6, <2>1 DEF Fingerprint
  <2> QED
    BY <1>1, <1>2, <2>2, <2>3, <2>4 DEF JobOK
<1>9. TypeOK' /\ UniqueKeys' /\ UiInv'
  BY <1>1, <1>2, <1>4 DEF TypeOK, UniqueKeys, UiInv, Keyed, Tabled, TabledOn, FullOn, FollowedBy,
     Plotted, Insighted,
     BackedOn, Showing, Busy
<1> QED
  BY <1>7, <1>8, <1>9 DEF Inv

LEMMA DropCacheStep == ASSUME Inv, DropCache PROVE Inv'
<1>1. ~Busy /\ job' = job /\ ui' = ui /\ cache' = {} /\ version' = version
  BY DEF DropCache
<1> QED
  BY <1>1 DEF Inv, TypeOK, CacheOK, UniqueKeys, JobOK, Busy, UiInv, BackedOn, Showing,
     Keyed, Tabled, TabledOn, FullOn, FollowedBy, Plotted, Insighted

LEMMA OpenedTyping == UiOK(Opened) /\ Opened.plot = {} /\ Opened.selected = {}
                      /\ \A k \in Kinds : Opened.records[k] = None /\ Opened.cached[k] = None
<1>1. /\ [k \in Kinds |-> None] \in [Kinds -> Sources \cup {None}]
      /\ [k \in Kinds |-> None] \in [Kinds -> Analyses \cup {None}]
      /\ [k \in Kinds |-> None] \in [Kinds -> Keys \cup {None}]
      /\ [k \in Kinds |-> 1] \in [Kinds -> Versions]
      /\ [k \in Kinds |-> 1] \in [Kinds -> Nat \ {0}]
      /\ [k \in Kinds |-> Blank] \in [Kinds -> Tables]
      /\ [k \in Kinds |-> {}] \in [Kinds -> SUBSET Nat]
  BY VersionsAreNumbers DEF Blank, Tables
<1> QED
  BY <1>1 DEF UiOK, Uis, Opened

\* A window that was opened fits any files and any cache.
LEMMA OpenedGood ==
    ASSUME TypeOK
    PROVE  /\ Keyed(Opened) /\ Tabled(Opened) /\ Plotted(Opened) /\ Insighted(Opened)
           /\ \A k \in Kinds : BackedOn(Opened, k)
<1>1. "can" \in Kinds /\ "modbus" \in Kinds
  BY DEF Kinds
<1>2. Plotted(Opened)
  BY OpenedTyping DEF Plotted
<1>3. /\ \A k \in Kinds : Opened.table[k].matched = 0 /\ Opened.table[k].of = None
      /\ Opened.insight = None
  BY DEF Opened, Blank
<1>4. \A e \in cache : e.key # None
  BY NoneAssumption DEF TypeOK, Entries
<1> QED
  BY <1>1, <1>2, <1>3, <1>4, OpenedTyping DEF Keyed, Tabled, TabledOn, FullOn, FollowedBy,
     Insighted, BackedOn

LEMMA RestartStep == ASSUME Inv, Restart PROVE Inv'
<1>1. ui' = Opened /\ job' = None /\ cache' = cache /\ version' = version
  BY DEF Restart
<1>2. TypeOK' /\ CacheOK' /\ UniqueKeys' /\ JobOK'
  BY <1>1, OpenedTyping DEF Inv, TypeOK, UiOK, CacheOK, UniqueKeys, JobOK, Busy
<1>3. UiInv'
  BY <1>1, OpenedGood DEF Inv, UiInv, BackedOn, Keyed, Tabled, TabledOn, FullOn, FollowedBy,
     Plotted, Insighted
<1> QED
  BY <1>2, <1>3 DEF Inv

LEMMA Initially == ASSUME Init PROVE Inv
<1>1. ui = Opened /\ job = None /\ cache = {} /\ version = [f \in Sources \cup Mappings |-> 1]
  BY DEF Init
<1>2. TypeOK /\ CacheOK /\ UniqueKeys /\ JobOK
  BY <1>1, OpenedTyping, VersionsAreNumbers DEF TypeOK, UiOK, CacheOK, UniqueKeys, JobOK, Busy
<1>3. UiInv
  BY <1>1, <1>2, OpenedGood DEF UiInv
<1> QED
  BY <1>2, <1>3 DEF Inv

\* Handlers that change nothing that the tables, the plot or the cache depend on.
LEMMA LabelGood ==
    ASSUME NEW s, Good(s)
    PROVE  /\ \A k \in Kinds, f \in Sources : Good([s EXCEPT !.label[k] = f])
           /\ \A m \in Mappings \cup {None} :
                /\ Good([s EXCEPT !.mapping = m])
                /\ [s EXCEPT !.mapping = m].label = s.label
                /\ [s EXCEPT !.mapping = m].mapping = m
           /\ \A k \in Kinds, f \in Sources : [s EXCEPT !.label[k] = f].mapping = s.mapping
<1>1. s \in Uis
  BY DEF Good, UiOK
<1>2. ASSUME NEW k \in Kinds, NEW f \in Sources
      PROVE  Good([s EXCEPT !.label[k] = f]) /\ [s EXCEPT !.label[k] = f].mapping = s.mapping
  <2> DEFINE label == [s.label EXCEPT ![k] = f]
             t == [s EXCEPT !.label[k] = f]
  <2>1. label \in [Kinds -> Sources \cup {None}]
    BY <1>1 DEF Uis
  <2>2. t = [s EXCEPT !.label = label]
    OBVIOUS
  <2> HIDE DEF label, t
  <2>3. /\ UiOK(t) /\ t.records = s.records /\ t.cached = s.cached /\ t.view = s.view
        /\ t.table = s.table /\ t.selected = s.selected /\ t.plot = s.plot
        /\ t.insight = s.insight /\ t.mapping = s.mapping
    BY <1>1, <2>1, <2>2 DEF Good, UiOK, Uis
  <2>4. Good(t)
    BY <2>3 DEF Good, Keyed, Backed, BackedOn, Tabled, TabledOn, FullOn, FollowedBy, Plotted,
       Insighted
  <2> QED
    BY <2>3, <2>4 DEF t
<1>3. ASSUME NEW m \in Mappings \cup {None}
      PROVE  /\ Good([s EXCEPT !.mapping = m]) /\ [s EXCEPT !.mapping = m].label = s.label
             /\ [s EXCEPT !.mapping = m].mapping = m
  <2> DEFINE t == [s EXCEPT !.mapping = m]
  <2>1. /\ UiOK(t) /\ t.records = s.records /\ t.cached = s.cached /\ t.view = s.view
        /\ t.table = s.table /\ t.selected = s.selected /\ t.plot = s.plot
        /\ t.insight = s.insight /\ t.label = s.label /\ t.mapping = m
    BY <1>1 DEF Good, UiOK, Uis
  <2> HIDE DEF t
  <2>2. Good(t)
    BY <2>1 DEF Good, Keyed, Backed, BackedOn, Tabled, TabledOn, FullOn, FollowedBy, Plotted,
       Insighted
  <2> QED
    BY <2>1, <2>2 DEF t
<1> QED
  BY <1>2, <1>3

LEMMA LoadSteps ==
    ASSUME Inv, (\E f \in Captures : LoadCapture(f)) \/ (\E f \in Logs : LoadLog(f))
    PROVE  Inv'
<1>1. ~Busy /\ UNCHANGED <<cache, version>> /\ Good(ui)
  BY IdleIsGood DEF LoadCapture, LoadLog, Act
<1>2. /\ version' \in [Sources \cup Mappings -> Versions]
      /\ \A f \in Sources : version'[f] = version[f]
  BY <1>1 DEF Inv, TypeOK
<1>3. ASSUME NEW f \in Captures, LoadCapture(f) PROVE Inv'
  <2> DEFINE s == [ui EXCEPT !.label["modbus"] = f]
  <2>1. f \in Sources /\ Good(s)
    BY <1>1, LabelGood DEF Sources, Kinds
  <2>2. Begin(s, "modbus", f, None)
    BY <1>3 DEF LoadCapture
  <2> HIDE DEF s
  <2> QED
    BY <1>1, <1>2, <2>1, <2>2, BeginStep DEF Kinds
<1>4. ASSUME NEW f \in Logs, LoadLog(f) PROVE Inv'
  <2> PICK m \in Mappings \cup {None} : ui.mapping = m
    BY DEF Inv, TypeOK, Uis
  <2> DEFINE s == [ui EXCEPT !.label["can"] = f]
  <2>1. f \in Sources /\ Good(s) /\ s.mapping = m
    BY <1>1, LabelGood DEF Sources, Kinds
  <2>2. Begin(s, "can", f, ui.mapping)
    BY <1>4 DEF LoadLog
  <2>3. ui' = s
    BY <2>2 DEF Begin
  <2>4. ui'.mapping = m
    BY <2>1, <2>3
  <2>5. Begin(s, "can", f, m)
    BY <2>2, <2>4 DEF Begin, KeyOf, Fingerprint
  <2> HIDE DEF s
  <2> QED
    BY <1>1, <1>2, <2>1, <2>5, BeginStep DEF Kinds
<1> QED
  BY <1>3, <1>4

LEMMA MappedStep ==
    ASSUME Inv, ~Busy, UNCHANGED cache, NEW m \in Mappings \cup {None}, Mapped(m),
           version' \in [Sources \cup Mappings -> Versions],
           \A f \in Sources : version'[f] = version[f]
    PROVE  Inv'
<1> DEFINE s == [ui EXCEPT !.mapping = m]
<1>1. Good(s) /\ s.label = ui.label
  BY IdleIsGood, LabelGood
<1> PICK f \in Sources \cup {None} : s.label["can"] = f
  BY <1>1 DEF Inv, TypeOK, Uis, Kinds
<1>2. CASE f = None
  <2>1. ui' = s /\ job' = job /\ cache' = cache
    BY <1>2 DEF Mapped
  <2> HIDE DEF s
  <2>2. TypeOK' /\ ~Busy' /\ JobOK' /\ UniqueKeys'
    BY <1>1, <2>1 DEF Inv, TypeOK, Good, UiOK, Busy, JobOK, UniqueKeys
  <2>3. CacheOK'
    <3>1. \A e \in cache : e.meta.source.file \in Sources
      BY DEF Inv, TypeOK, Entries, Analyses, SourcePrints
    <3> QED
      BY <2>1, <3>1 DEF Inv, CacheOK
  <2>4. UiInv'
    BY <1>1, <2>1 DEF UiInv, Good, Backed, BackedOn, Keyed, Tabled, TabledOn, FullOn, FollowedBy,
       Plotted, Insighted
  <2> QED
    BY <2>2, <2>3, <2>4 DEF Inv
<1>3. CASE f # None
  <2>1. Begin(s, "can", s.label["can"], m)
    BY <1>3 DEF Mapped
  <2>2. ui' = s
    BY <2>1 DEF Begin
  <2>3. ui'.label["can"] = f
    BY <1>1, <2>2
  <2>4. [ui' EXCEPT !.mapping = m].label = ui'.label
    <3>1. ui' \in Uis
      BY <1>1, <2>2 DEF Good, UiOK
    <3> QED
      BY <3>1 DEF Uis
  <2>5. Begin(s, "can", f, m)
    BY <2>1, <2>3, <2>4 DEF Begin, KeyOf, Fingerprint
  <2> HIDE DEF s
  <2> QED
    BY <1>1, <1>3, <2>5, BeginStep DEF Kinds
<1> QED
  BY <1>2, <1>3

LEMMA MappingSteps ==
    ASSUME Inv, (\E m \in Mappings, v \in Versions : ChooseMapping(m, v)) \/ ClearMapping
    PROVE  Inv'
<1>1. ASSUME NEW m \in Mappings, NEW v \in Versions, ChooseMapping(m, v) PROVE Inv'
  <2>1. ~Busy /\ cache' = cache /\ Mapped(m) /\ version' = [version EXCEPT ![m] = v]
    BY <1>1 DEF ChooseMapping, Act
  <2>2. /\ version' \in [Sources \cup Mappings -> Versions]
        /\ \A f \in Sources : version'[f] = version[f]
    BY <2>1, FilesAssumption DEF Inv, TypeOK
  <2> QED
    BY <2>1, <2>2, MappedStep
<1>2. ASSUME ClearMapping PROVE Inv'
  <2>1. ~Busy /\ cache' = cache /\ Mapped(None) /\ version' = version
    BY <1>2 DEF ClearMapping, Act
  <2>2. version' \in [Sources \cup Mappings -> Versions]
    BY <2>1 DEF Inv, TypeOK
  <2> QED
    BY <2>1, <2>2, MappedStep
<1> QED
  BY <1>1, <1>2

\* Good speaks of these fields only.
LEMMA AlikeIsGood ==
    ASSUME NEW s, Good(s), NEW t, UiOK(t),
           t.records = s.records, t.cached = s.cached, t.view = s.view, t.table = s.table,
           t.selected = s.selected, t.plot = s.plot, t.insight = s.insight
    PROVE  Good(t)
  BY DEF Good, Keyed, Backed, BackedOn, Tabled, TabledOn, FullOn, FollowedBy, Plotted, Insighted

LEMMA RefreshKeepsGood ==
    ASSUME TypeOK, NEW s, Good(s), NEW k \in Kinds
    PROVE  Good(Refreshed(s, k))
<1>1. FullOn(s, k)
  BY DEF Good, Tabled, TabledOn
<1> QED
  BY <1>1, RefreshedGood DEF Good, Tabled

LEMMA ClearSteps ==
    ASSUME Inv, AnalyzeIssues \/ ClearCapture \/ ClearLog \/ ClearAll
    PROVE  Inv'
<1>1. ~Busy /\ UNCHANGED cache /\ Good(ui) /\ TypeOK
  BY IdleIsGood DEF AnalyzeIssues, ClearCapture, ClearLog, ClearAll, Act, Inv
<1>2. CASE AnalyzeIssues
  <2> DEFINE s == Analysed(ui)
  <2>1. ui \in Uis /\ ui.records["modbus"] \in Analyses \cup {None}
    BY <1>1 DEF Good, UiOK, Uis, Kinds
  <2>2. /\ UiOK(s) /\ s.records = ui.records /\ s.cached = ui.cached /\ s.view = ui.view
        /\ s.table = ui.table /\ s.selected = ui.selected /\ s.plot = ui.plot
        /\ s.insight = ui.records["modbus"]
    BY <1>1, <2>1 DEF Analysed, Good, UiOK, Uis
  <2>3. Handled(s)
    BY <1>2 DEF AnalyzeIssues
  <2> HIDE DEF s
  <2>4. Good(s)
    BY <1>1, <2>2 DEF Good, Keyed, Backed, BackedOn, Tabled, TabledOn, FullOn, FollowedBy,
       Plotted, Insighted
  <2> QED
    BY <1>1, <2>3, <2>4, HandledStep
<1>3. CASE ClearCapture
  BY <1>1, <1>3, ClearedCaptureGood, HandledStep DEF ClearCapture
<1>4. CASE ClearLog
  BY <1>1, <1>4, ClearedLogGood, HandledStep DEF ClearLog
<1>5. CASE ClearAll
  <2> DEFINE s == ClearedLog(ClearedCapture(ui))
             report == [k \in Kinds |-> None]
             t == [s EXCEPT !.report = report]
  <2>1. Good(s) /\ s \in Uis
    BY <1>1, ClearedCaptureGood, ClearedLogGood DEF Good, UiOK
  <2>2. Handled(t)
    BY <1>5 DEF ClearAll
  <2> HIDE DEF s
  <2>3. report \in [Kinds -> Analyses \cup {None}]
    OBVIOUS
  <2> HIDE DEF report
  <2>4. /\ UiOK(t) /\ t.records = s.records /\ t.cached = s.cached /\ t.view = s.view
        /\ t.table = s.table /\ t.selected = s.selected /\ t.plot = s.plot
        /\ t.insight = s.insight
    BY <2>1, <2>3 DEF Good, UiOK, Uis
  <2> HIDE DEF t
  <2> QED
    BY <1>1, <2>1, <2>2, <2>4, AlikeIsGood, HandledStep
<1> QED
  BY <1>2, <1>3, <1>4, <1>5

\* The filter and the page are set, the page within the range of its spin box.
LEMMA PageGood ==
    ASSUME NEW s, Good(s), NEW k \in Kinds, NEW n \in Versions,
           NEW p \in Nat \ {0}, p <= s.pages[k]
    PROVE  Good([s EXCEPT !.least[k] = n, !.page[k] = p])
<1> DEFINE least == [s.least EXCEPT ![k] = n]
           page == [s.page EXCEPT ![k] = p]
           t == [s EXCEPT !.least[k] = n, !.page[k] = p]
<1>1. s \in Uis /\ UiOK(s)
  BY DEF Good, UiOK
<1>2. /\ least \in [Kinds -> Versions] /\ page \in [Kinds -> Nat \ {0}]
      /\ \A j \in Kinds : page[j] <= s.pages[j]
  BY <1>1 DEF UiOK, Uis
<1>3. t = [s EXCEPT !.least = least, !.page = page]
  OBVIOUS
<1> HIDE DEF t, least, page
<1>4. /\ UiOK(t) /\ t.records = s.records /\ t.cached = s.cached /\ t.view = s.view
      /\ t.table = s.table /\ t.selected = s.selected /\ t.plot = s.plot
      /\ t.insight = s.insight
  BY <1>1, <1>2, <1>3 DEF UiOK, Uis
<1>5. Good(t)
  BY <1>4, AlikeIsGood
<1> QED
  BY <1>5 DEF t

LEMMA TurnStep ==
    ASSUME Inv, NEW k \in Kinds, NEW p \in Nat \ {0}, p <= ui.pages[k], Turn(k, p)
    PROVE  Inv'
<1>1. ~Busy /\ UNCHANGED cache /\ Good(ui) /\ TypeOK
  BY IdleIsGood DEF Turn, Act, Inv
<1>2. ui \in Uis /\ ui.least[k] \in Versions
  BY <1>1 DEF Good, UiOK, Uis
<1>3. [ui EXCEPT !.page[k] = p] = [ui EXCEPT !.least[k] = ui.least[k], !.page[k] = p]
  BY <1>2 DEF Uis
<1>4. Good([ui EXCEPT !.page[k] = p])
  BY <1>1, <1>2, <1>3, PageGood
<1> DEFINE s == [ui EXCEPT !.page[k] = p]
<1>5. Handled(Refreshed(s, k))
  BY DEF Turn
<1> HIDE DEF s
<1> QED
  BY <1>1, <1>4, <1>5, RefreshKeepsGood, HandledStep DEF s

LEMMA PageSteps ==
    ASSUME Inv, NEW k \in Kinds,
           \/ \E n \in Versions : Filter(k, n)
           \/ \E n \in Versions, p \in Versions : Edit(k, n, p)
           \/ FirstPage(k) \/ PrevPage(k) \/ NextPage(k) \/ LastPage(k)
    PROVE  Inv'
<1>1. /\ TypeOK /\ ui \in Uis /\ ui.page[k] \in Nat \ {0} /\ ui.pages[k] \in Nat \ {0}
      /\ ui.page[k] <= ui.pages[k]
  BY DEF Inv, TypeOK, Uis
<1>2. ASSUME NEW n \in Versions, Filter(k, n) PROVE Inv'
  <2> DEFINE s == [ui EXCEPT !.least[k] = n]
  <2>1. ~Busy /\ UNCHANGED cache /\ Good(ui) /\ Handled(Refreshed(s, k))
    BY <1>2, IdleIsGood DEF Filter, Act
  <2>2. s = [ui EXCEPT !.least[k] = n, !.page[k] = ui.page[k]]
    BY <1>1 DEF Uis
  <2> HIDE DEF s
  <2>3. Good(s)
    BY <1>1, <2>1, <2>2, PageGood
  <2> QED
    BY <1>1, <2>1, <2>3, RefreshKeepsGood, HandledStep
<1>3. ASSUME NEW n \in Versions, NEW p \in Versions, Edit(k, n, p) PROVE Inv'
  <2> DEFINE s == [ui EXCEPT !.least[k] = n, !.page[k] = p]
  <2>1. ~Busy /\ UNCHANGED cache /\ Good(ui) /\ Handled(s) /\ p <= ui.pages[k]
    BY <1>3, IdleIsGood DEF Edit, Act
  <2>2. p \in Nat \ {0}
    BY VersionsAreNumbers
  <2>3. Good(s)
    BY <2>1, <2>2, PageGood
  <2> HIDE DEF s
  <2> QED
    BY <2>1, <2>3, HandledStep
<1>4. CASE FirstPage(k)
  BY <1>1, <1>4, TurnStep DEF FirstPage
<1>5. CASE PrevPage(k)
  <2> DEFINE p == IF ui.page[k] > 1 THEN ui.page[k] - 1 ELSE 1
  <2>1. p \in Nat \ {0} /\ p <= ui.pages[k]
    BY <1>1
  <2>2. Turn(k, p)
    BY <1>5 DEF PrevPage
  <2> HIDE DEF p
  <2> QED
    BY <2>1, <2>2, TurnStep
<1>6. CASE NextPage(k)
  <2> DEFINE p == IF ui.page[k] < ui.pages[k] THEN ui.page[k] + 1 ELSE ui.pages[k]
  <2>1. p \in Nat \ {0} /\ p <= ui.pages[k]
    BY <1>1
  <2>2. Turn(k, p)
    BY <1>6 DEF NextPage
  <2> HIDE DEF p
  <2> QED
    BY <2>1, <2>2, TurnStep
<1>7. CASE LastPage(k)
  BY <1>1, <1>7, TurnStep DEF LastPage
<1> QED
  BY <1>2, <1>3, <1>4, <1>5, <1>6, <1>7

LEMMA ViewGood ==
    ASSUME TypeOK, NEW s, Good(s), NEW v \in {"Frames", "Digest"}
    PROVE  Good(Refreshed([s EXCEPT !.view = v], "can"))
<1> DEFINE t == [s EXCEPT !.view = v]
<1>1. /\ UiOK(t) /\ t.records = s.records /\ t.cached = s.cached /\ t.table = s.table
      /\ t.selected = s.selected /\ t.plot = s.plot /\ t.insight = s.insight
  BY DEF Good, UiOK, Uis
<1> HIDE DEF t
<1>2. /\ Keyed(t) /\ Backed(t) /\ Plotted(t) /\ Insighted(t)
      /\ \A j \in Kinds \ {"can"} : TabledOn(t, j)
  BY <1>1 DEF Good, Keyed, Backed, BackedOn, Tabled, TabledOn, FullOn, FollowedBy, Plotted,
     Insighted
<1>3. FullOn(t, "can")
  BY <1>1 DEF Good, Tabled, TabledOn, FullOn, Kinds
<1>4. Good(Refreshed(t, "can"))
  BY <1>1, <1>2, <1>3, RefreshedGood DEF Kinds
<1> QED
  BY <1>4 DEF t

LEMMA ViewSteps ==
    ASSUME Inv, (\E v \in {"Frames", "Digest"} : ChooseView(v)) \/ SelectIssue
    PROVE  Inv'
<1>1. ~Busy /\ UNCHANGED cache /\ Good(ui) /\ TypeOK
  BY IdleIsGood DEF ChooseView, SelectIssue, Act, Inv
<1>2. PICK v \in {"Frames", "Digest"} : Handled(Refreshed([ui EXCEPT !.view = v], "can"))
  BY DEF ChooseView, SelectIssue
<1> QED
  BY <1>1, <1>2, ViewGood, HandledStep

LEMMA SignalGood ==
    ASSUME NEW s, Good(s), NEW chosen \in SUBSET Signals
    PROVE  Good(Charted([s EXCEPT !.selected = chosen]))
<1> DEFINE t == [s EXCEPT !.selected = chosen]
           u == Charted(t)
<1>1. /\ UiOK(t) /\ t.records = s.records /\ t.cached = s.cached /\ t.view = s.view
      /\ t.table = s.table /\ t.insight = s.insight
  BY DEF Good, UiOK, Uis
<1> HIDE DEF t
<1>2. /\ UiOK(u) /\ Plotted(u) /\ u.records = s.records /\ u.cached = s.cached
      /\ u.view = s.view /\ u.table = s.table /\ u.insight = s.insight
  BY <1>1, ChartedKeeps
<1> HIDE DEF u
<1>3. Good(u)
  BY <1>2 DEF Good, Keyed, Backed, BackedOn, Tabled, TabledOn, FullOn, FollowedBy, Insighted
<1> QED
  BY <1>3 DEF u, t

LEMMA SignalSteps ==
    ASSUME Inv, (\E x \in Signals : AddSignal(x)) \/ ClearSignals
    PROVE  Inv'
<1>1. ~Busy /\ UNCHANGED cache /\ Good(ui)
  BY IdleIsGood DEF AddSignal, ClearSignals, Act
<1>2. ui.selected \in SUBSET Signals
  BY <1>1 DEF Good, UiOK, Uis
<1>3. ASSUME NEW x \in Signals, AddSignal(x) PROVE Inv'
  <2> DEFINE chosen == ui.selected \cup {x}
  <2>1. Handled(Charted([ui EXCEPT !.selected = chosen]))
    BY <1>3 DEF AddSignal
  <2>2. chosen \in SUBSET Signals
    BY <1>2
  <2> HIDE DEF chosen
  <2> QED
    BY <1>1, <2>1, <2>2, SignalGood, HandledStep
<1>4. CASE ClearSignals
  <2>1. Handled(Charted([ui EXCEPT !.selected = {}]))
    BY <1>4 DEF ClearSignals
  <2> QED
    BY <1>1, <2>1, SignalGood, HandledStep
<1> QED
  BY <1>3, <1>4

LEMMA DiagnoseStep == ASSUME Inv, Diagnose PROVE Inv'
<1>1. ~Busy /\ UNCHANGED cache /\ Good(ui) /\ TypeOK /\ "can" \in Kinds /\ "modbus" \in Kinds
  BY IdleIsGood DEF Diagnose, Act, Inv, Kinds
<1>2. ui \in Uis /\ ui.records \in [Kinds -> Analyses \cup {None}]
  BY <1>1 DEF Good, UiOK, Uis
<1> DEFINE s == [ui EXCEPT !.report = ui.records]
<1>5. Handled(Refreshed(Refreshed(s, "can"), "modbus"))
  BY DEF Diagnose
<1>7. /\ UiOK(s) /\ s.records = ui.records /\ s.cached = ui.cached /\ s.view = ui.view
      /\ s.table = ui.table /\ s.selected = ui.selected /\ s.plot = ui.plot
      /\ s.insight = ui.insight
  BY <1>1, <1>2 DEF Good, UiOK, Uis
<1> HIDE DEF s
<1>8. Good(s)
  BY <1>1, <1>7, AlikeIsGood
<1> QED
  BY <1>1, <1>5, <1>8, RefreshKeepsGood, HandledStep
-----------------------------------------------------------------------------
LEMMA Inductive == Inv /\ [Next]_vars => Inv'
<1> SUFFICES ASSUME Inv, [Next]_vars PROVE Inv'
  OBVIOUS
<1>1. CASE UNCHANGED vars
  BY <1>1 DEF vars, Inv, TypeOK, CacheOK, UniqueKeys, JobOK, UiInv, Busy, Present, Fingerprint,
              Keyed, Tabled, TabledOn, FullOn, FollowedBy, Plotted, Insighted, Showing, BackedOn
<1>2. CASE Check \/ Read \/ Save \/ Show \/ LoadFails
  BY <1>2, CheckStep, ReadStep, SaveStep, ShowStep, FailStep
<1>3. CASE (\E f \in Captures : LoadCapture(f)) \/ (\E f \in Logs : LoadLog(f))
  BY <1>3, LoadSteps
<1>4. CASE (\E m \in Mappings, v \in Versions : ChooseMapping(m, v)) \/ ClearMapping
  BY <1>4, MappingSteps
<1>5. CASE AnalyzeIssues \/ ClearCapture \/ ClearLog \/ ClearAll
  BY <1>5, ClearSteps
<1>6. ASSUME NEW k \in Kinds,
             \/ \E n \in Versions : Filter(k, n)
             \/ \E n \in Versions, p \in Versions : Edit(k, n, p)
             \/ FirstPage(k) \/ PrevPage(k) \/ NextPage(k) \/ LastPage(k)
      PROVE  Inv'
  BY <1>6, PageSteps
<1>7. CASE (\E v \in {"Frames", "Digest"} : ChooseView(v)) \/ SelectIssue
  BY <1>7, ViewSteps
<1>8. CASE (\E x \in Signals : AddSignal(x)) \/ ClearSignals
  BY <1>8, SignalSteps
<1>9. CASE Diagnose
  BY <1>9, DiagnoseStep
<1>10. ASSUME NEW f \in Sources, Grow(f) PROVE Inv'
  BY <1>10, GrowStep
<1>11. CASE DropCache \/ Restart
  BY <1>11, DropCacheStep, RestartStep
<1> QED
  BY <1>1, <1>2, <1>3, <1>4, <1>5, <1>6, <1>7, <1>8, <1>9, <1>10, <1>11 DEF Next

LEMMA Always == Spec => []Inv
<1>1. Init => Inv
  BY Initially
<1> QED
  BY <1>1, Inductive, PTL DEF Spec

\* The cache holds analyses, and the widgets show kinds, pages and signals that exist.
THEOREM Typing == Spec => []TypeOK
<1>1. Inv => TypeOK
  BY DEF Inv
<1> QED
  BY <1>1, Always, PTL

\* The tables, which are read from the cache files, show the records in memory and,
\* once these were cleared, nothing but what the last load gave.
THEOREM TablesAreTrue == Spec => []TablesFollowRecords
<1>1. Inv => TablesFollowRecords
  BY DEF Inv, UiInv, Tabled, TabledOn, FullOn, FollowedBy, TablesFollowRecords, Follows
<1> QED
  BY <1>1, Always, PTL

\* A table is blank only when no record matches, whatever was filtered, turned,
\* cleared and loaded since: the page that the spin box keeps is always in the
\* range of the rows that it is refreshed with.
THEOREM NoBlank == Spec => []NoBlankPage
<1>1. Inv => NoBlankPage
  BY DEF Inv, UiInv, Tabled, TabledOn, FullOn, NoBlankPage
<1> QED
  BY <1>1, Always, PTL

\* Curves never outlive what they were derived from; the communication analysis is
\* of the packets in memory and, once these were cleared, of the last load's.
THEOREM Derived == Spec => []DerivedFollowsRecords
<1>1. Inv => DerivedFollowsRecords
  BY DEF Inv, UiInv, Plotted, Insighted, FollowedBy, DerivedFollowsRecords, Follows
<1> QED
  BY <1>1, Always, PTL

\* What the cache serves is the analysis of the files as they are.
THEOREM Hits == Spec => HitsAreTrue
<1>1. ASSUME Inv, Next, Busy, job.step = "check", job' # None, job'.step = "show"
      PROVE  job'.read = Present
  <2>1. Check
    <3>1. job # None
      BY <1>1 DEF Busy
    <3>2. ~Read /\ ~Save /\ ~Show
      BY <1>1 DEF Read, Save, Show
    <3>3. job' # job
      BY <1>1
    <3>4. ~LoadFails /\ ~Restart /\ \A f \in Sources : ~Grow(f)
      BY <1>1, <3>3 DEF LoadFails, Restart, Grow
    <3>5. ~Act /\ ~DropCache
      BY <1>1 DEF Act, DropCache
    <3> QED
      BY <1>1, <3>2, <3>4, <3>5 DEF Next, LoadCapture, LoadLog, ChooseMapping, ClearMapping,
           AnalyzeIssues, ClearCapture, ClearLog, ClearAll, Filter, Edit, FirstPage, PrevPage,
           NextPage, LastPage, Turn, ChooseView, AddSignal, ClearSignals, Diagnose, SelectIssue
  <2>2. job \in Jobs
    BY <1>1 DEF Inv, TypeOK, Busy
  <2>3. PICK e \in cache : e.key = job.key /\ e.meta = Present /\ job' = [job EXCEPT !.step = "show", !.read = e.records]
    <3>1. [job EXCEPT !.step = "read"].step = "read"
      BY <2>2 DEF Jobs
    <3> QED
      BY <1>1, <2>1, <3>1 DEF Check
  <2>4. job'.read = e.records
    BY <2>2, <2>3 DEF Jobs
  <2> QED
    BY <1>1, <2>3, <2>4, HitIsTrue
<1>2. Inv /\ [Next]_vars => [Busy /\ job.step = "check" /\ job' # None /\ job'.step = "show"
                               => job'.read = Present]_vars
  BY <1>1
<1> QED
  BY <1>2, Always, PTL DEF Spec, HitsAreTrue
-----------------------------------------------------------------------------
(* Sets of numbers, and values that a loop computes.                       *)
\* A set of numbers has a least one.
LEMMA Smallest ==
    ASSUME NEW T \in SUBSET Nat, T # {}
    PROVE  \E i \in T : \A j \in T : i <= j
<1>1. \E x \in T : \A y \in T : ~ (<<y, x>> \in OpToRel(<, Nat))
  BY NatLessThanWellFounded, WFMin
<1>2. PICK x \in T : \A y \in T : ~ (<<y, x>> \in OpToRel(<, Nat))
  BY <1>1
<1>3. ASSUME NEW y \in T PROVE x <= y
  <2>1. x \in Nat /\ y \in Nat
    OBVIOUS
  <2>2. ~(y < x)
    BY <1>2, <2>1 DEF OpToRel
  <2> QED
    BY <2>1, <2>2
<1> QED
  BY <1>3

\* Induction up to a bound, said of a set of numbers.
LEMMA BoundedInduction ==
    ASSUME NEW L \in Nat, NEW T, 0 \in T, \A n \in 1..L : n - 1 \in T => n \in T
    PROVE  \A n \in 0..L : n \in T
<1> DEFINE Left == {n \in 0..L : n \notin T}
<1> SUFFICES ASSUME Left # {} PROVE FALSE
  OBVIOUS
<1>1. Left \in SUBSET Nat
  OBVIOUS
<1>2. PICK n \in Left : \A j \in Left : n <= j
  BY <1>1, Smallest
<1>3. n # 0 /\ n \in 1..L /\ n - 1 \in 0..L
  BY <1>2
<1>4. n - 1 \notin Left
  BY <1>2, <1>3
<1> QED
  BY <1>2, <1>3, <1>4

\* A value computed by steps from a first one exists, whatever the step is.
Stepwise(g, L, S, base, step) ==
    g \in [0..L -> S] /\ g[0] = base /\ \A n \in 1..L : g[n] = step[n][g[n - 1]]
LEMMA Recursion ==
    ASSUME NEW L \in Nat, NEW S, NEW base \in S, NEW step \in [1..L -> [S -> S]]
    PROVE  \E g : Stepwise(g, L, S, base, step)
<1> DEFINE Runs(g, m) == /\ g[0] = base
                         /\ \A n \in 1..m : g[n] = step[n][g[n - 1]]
           T == {m \in 0..L : \E g \in [0..m -> S] : Runs(g, m)}
<1>1. 0 \in T
  <2> DEFINE g == [n \in 0..0 |-> base]
  <2>1. g \in [0..0 -> S] /\ g[0] = base
    OBVIOUS
  <2>2. Runs(g, 0)
    BY <2>1
  <2> HIDE DEF g, Runs
  <2> QED
    BY <2>1, <2>2
<1>2. ASSUME NEW m \in 1..L, m - 1 \in T PROVE m \in T
  <2>1. PICK old \in [0..m - 1 -> S] : Runs(old, m - 1)
    BY <1>2
  <2> DEFINE g == [n \in 0..m |-> IF n = m THEN step[m][old[m - 1]] ELSE old[n]]
  <2>2. old[m - 1] \in S /\ step[m][old[m - 1]] \in S
    OBVIOUS
  <2>3. g \in [0..m -> S]
    BY <2>2
  <2>4. g[0] = base
    BY <2>1
  <2>5. ASSUME NEW n \in 1..m PROVE g[n] = step[n][g[n - 1]]
    <3>1. g[n - 1] = old[n - 1]
      OBVIOUS
    <3>2. CASE n = m
      BY <3>1, <3>2
    <3>3. CASE n # m
      <4>1. n \in 1..m - 1
        BY <3>3
      <4>2. g[n] = old[n] /\ old[n] = step[n][old[n - 1]]
        BY <2>1, <3>3, <4>1
      <4> QED
        BY <3>1, <4>2
    <3> QED
      BY <3>2, <3>3
  <2> HIDE DEF g
  <2>6. Runs(g, m)
    BY <2>4, <2>5
  <2> HIDE DEF Runs
  <2> QED
    BY <2>3, <2>6
<1>3. L \in T
  <2> HIDE DEF T
  <2>1. \A n \in 0..L : n \in T
    BY <1>1, <1>2, BoundedInduction
  <2> QED
    BY <2>1
<1> QED
  BY <1>3 DEF Stepwise
-----------------------------------------------------------------------------
\* The packets that are whole, and the traffic among them.
LEMMA WholePackets ==
    ASSUME NEW P, file \in Seq(P)
    PROVE  /\ Len(Whole) \in 0..Len(file) /\ DOMAIN Whole = 1..Len(Whole)
           /\ \A i \in 1..Len(Whole) : Whole[i] = file[i]
           /\ Traffic = {i \in 1..Len(Whole) : IsModbus(Whole[i])}
<1> DEFINE whole == {n \in 0..Len(file) : \A i \in 1..n : file[i].whole}
           Left == {Len(file) - n : n \in whole}
           most == CHOOSE n \in whole : \A m \in whole : m <= n
<1>1. Len(file) \in Nat /\ DOMAIN file = 1..Len(file)
  OBVIOUS
<1>2. 0 \in whole
  BY <1>1
<1>3. Left \in SUBSET Nat /\ Left # {}
  BY <1>1, <1>2
<1>4. PICK l \in Left : \A k \in Left : l <= k
  <2> HIDE DEF Left
  <2> QED
    BY <1>3, Smallest
<1>5. PICK n \in whole : l = Len(file) - n
  BY <1>4
<1>6. \A m \in whole : m <= n
  <2> TAKE m \in whole
  <2>1. Len(file) - n <= Len(file) - m
    BY <1>4, <1>5
  <2> QED
    BY <1>1, <2>1
<1>7. most \in whole /\ \A m \in whole : m <= most
  <2> HIDE DEF whole
  <2>1. \E k \in whole : \A m \in whole : m <= k
    BY <1>6
  <2> QED
    BY <2>1
<1>8. Whole = SubSeq(file, 1, most)
  BY DEF Whole
<1> HIDE DEF most
<1>9. /\ most \in 0..Len(file) /\ \A i \in 1..most : file[i].whole
      /\ \A k \in 0..Len(file) : (\A i \in 1..k : file[i].whole) => k <= most
  BY <1>7
<1>10. /\ Len(Whole) = most /\ DOMAIN Whole = 1..most
       /\ \A i \in 1..most : Whole[i] = file[i]
  BY <1>1, <1>8, <1>9
<1>11. ASSUME NEW i
       PROVE  i \in Traffic <=> i \in 1..most /\ IsModbus(Whole[i])
  <2>1. CASE i \in 1..most
    <3>1. i \in DOMAIN file /\ \A j \in 1..i : file[j].whole
      BY <1>1, <1>9, <2>1
    <3> QED
      BY <1>10, <2>1, <3>1 DEF Traffic
  <2>2. CASE i \notin 1..most
    <3> SUFFICES ASSUME i \in Traffic PROVE FALSE
      BY <2>2
    <3>1. i \in 1..Len(file) /\ \A j \in 1..i : file[j].whole
      BY <1>1 DEF Traffic
    <3>2. i <= most
      BY <1>1, <1>9, <3>1
    <3> QED
      BY <1>1, <1>9, <2>2, <3>1, <3>2
  <2> QED
    BY <2>1, <2>2
<1> QED
  BY <1>9, <1>10, <1>11

\* The records after n of the packets.
LEMMA RecordsLoop ==
    ASSUME NEW P, file \in Seq(P)
    PROVE  LET N == Len(Whole)
           IN  \E u \in [0..N -> Seq({Record(Whole[n]) : n \in 1..N})] :
                 /\ u[0] = <<>> /\ Records = u[N]
                 /\ \A n \in 1..N : u[n] = IF IsModbus(Whole[n])
                                            THEN Append(u[n - 1], Record(Whole[n])) ELSE u[n - 1]
<1> DEFINE N == Len(Whole)
           W == Whole
           S == Seq({Record(W[n]) : n \in 1..N})
           Step(x, n) == IF IsModbus(W[n]) THEN Append(x, Record(W[n])) ELSE x
           step == [n \in 1..N |-> [x \in S |-> Step(x, n)]]
           Eq(g) == [n \in 0..N |-> IF n = 0 THEN <<>> ELSE Step(g[n - 1], n)]
           upTo == CHOOSE g : g = Eq(g)
<1>1. N \in Nat
  BY WholePackets
<1>2. Records = upTo[N]
  BY DEF Records
<1> HIDE DEF N, W
<1>3. step \in [1..N -> [S -> S]] /\ <<>> \in S
  <2>1. ASSUME NEW n \in 1..N, NEW x \in S PROVE Step(x, n) \in S
    OBVIOUS
  <2> HIDE DEF Step, S
  <2>2. step \in [1..N -> [S -> S]]
    BY <2>1
  <2> QED
    BY <2>2 DEF S
<1> HIDE DEF S
<1>4. PICK u : Stepwise(u, N, S, <<>>, step)
  <2> HIDE DEF step
  <2> QED
    BY <1>1, <1>3, Recursion
<1>5. ASSUME NEW n \in 1..N PROVE u[n] = Step(u[n - 1], n)
  <2>1. u[n - 1] \in S
    BY <1>1, <1>4 DEF Stepwise
  <2>2. u[n] = step[n][u[n - 1]]
    BY <1>4 DEF Stepwise
  <2> HIDE DEF Step
  <2> QED
    BY <2>1, <2>2
<1> HIDE DEF Step, step
<1>0. u \in [0..N -> S] /\ u[0] = <<>>
  BY <1>4 DEF Stepwise
<1>6. u = Eq(u)
  BY <1>0, <1>1, <1>5
<1>7. upTo = Eq(upTo)
  <2>1. \E g : g = Eq(g)
    BY <1>6
  <2> QED
    BY <2>1
<1> HIDE DEF upTo
<1> DEFINE T == {n \in 0..N : upTo[n] = u[n]}
<1>8. 0 \in T
  BY <1>0, <1>1, <1>7
<1>9. ASSUME NEW n \in 1..N, n - 1 \in T PROVE n \in T
  <2>1. upTo[n] = Step(upTo[n - 1], n)
    BY <1>1, <1>7
  <2> QED
    BY <1>5, <1>9, <2>1
<1>10. N \in T
  <2> HIDE DEF T
  <2>1. \A n \in 0..N : n \in T
    BY <1>1, <1>8, <1>9, BoundedInduction
  <2> QED
    BY <1>1, <2>1
<1>11. Records = u[N]
  BY <1>2, <1>10
<1> QED
  BY <1>0, <1>5, <1>11 DEF N, W, S, Step

\* How many packets of the traffic there are up to a place.
Rank(i) == Cardinality(Traffic \cap 1..i)

LEMMA Ranks ==
    ASSUME NEW P, file \in Seq(P)
    PROVE  LET N == Len(Whole)
           IN  /\ \A i \in 0..N : Rank(i) \in Nat
               /\ Rank(0) = 0
               /\ \A i \in 1..N : Rank(i) = IF IsModbus(Whole[i]) THEN Rank(i - 1) + 1 ELSE Rank(i - 1)
               /\ \A i, j \in 0..N : i <= j => Rank(i) <= Rank(j)
<1> DEFINE N == Len(Whole)
<1>1. N \in Nat /\ \A i : i \in Traffic <=> i \in 1..N /\ IsModbus(Whole[i])
  BY WholePackets
<1> HIDE DEF N
<1>2. ASSUME NEW i \in 0..N
      PROVE  /\ IsFiniteSet(Traffic \cap 1..i) /\ Rank(i) \in Nat
             /\ \A j \in 0..N : j <= i => Rank(j) <= Rank(i)
  <2>1. i \in Int /\ IsFiniteSet(1..i)
    BY <1>1, FS_Interval
  <2>2. IsFiniteSet(Traffic \cap 1..i)
    BY <2>1, FS_Subset
  <2>3. ASSUME NEW j \in 0..N, j <= i PROVE Rank(j) <= Rank(i)
    <3>1. (Traffic \cap 1..j) \subseteq (Traffic \cap 1..i)
      BY <1>1, <2>3
    <3> QED
      BY <2>2, <3>1, FS_Subset DEF Rank
  <2> QED
    BY <2>2, <2>3, FS_CardinalityType DEF Rank
<1>3. Rank(0) = 0
  <2>1. Traffic \cap 1..0 = {}
    OBVIOUS
  <2> QED
    BY <2>1, FS_EmptySet DEF Rank
<1>4. ASSUME NEW i \in 1..N
      PROVE  Rank(i) = IF IsModbus(Whole[i]) THEN Rank(i - 1) + 1 ELSE Rank(i - 1)
  <2>1. CASE IsModbus(Whole[i])
    <3>1. Traffic \cap 1..i = (Traffic \cap 1..i - 1) \cup {i}
      BY <1>1, <2>1
    <3>2. i \notin Traffic \cap 1..i - 1
      OBVIOUS
    <3>3. IsFiniteSet(Traffic \cap 1..i - 1)
      <4>1. i - 1 \in 0..N
        BY <1>1
      <4> QED
        BY <1>2, <4>1
    <3>4. Cardinality((Traffic \cap 1..i - 1) \cup {i}) = Cardinality(Traffic \cap 1..i - 1) + 1
      BY <3>2, <3>3, FS_AddElement
    <3> QED
      BY <2>1, <3>1, <3>4 DEF Rank
  <2>2. CASE ~IsModbus(Whole[i])
    <3>1. Traffic \cap 1..i = Traffic \cap 1..i - 1
      BY <1>1, <2>2
    <3> QED
      BY <2>2, <3>1 DEF Rank
  <2> QED
    BY <2>1, <2>2
<1> QED
  BY <1>2, <1>3, <1>4 DEF N

\* The records are those of the traffic, in its order.
LEMMA RecordsFollow ==
    ASSUME NEW P, file \in Seq(P)
    PROVE  /\ Len(Records) \in Nat /\ DOMAIN Records = 1..Len(Records)
           /\ \E S : Records \in Seq(S)
           /\ \A i \in Traffic : Rank(i) \in 1..Len(Records) /\ Records[Rank(i)] = Record(file[i])
           /\ \A n \in 1..Len(Records) : \E i \in Traffic : Rank(i) = n
<1> DEFINE N == Len(Whole)
           W == Whole
           S == {Record(W[n]) : n \in 1..N}
<1>1. /\ N \in Nat /\ \A i : i \in Traffic <=> i \in 1..N /\ IsModbus(W[i])
      /\ \A i \in 1..N : W[i] = file[i]
  BY WholePackets
<1>2. /\ \A i \in 0..N : Rank(i) \in Nat
      /\ Rank(0) = 0
      /\ \A i \in 1..N : Rank(i) = IF IsModbus(W[i]) THEN Rank(i - 1) + 1 ELSE Rank(i - 1)
      /\ \A i, j \in 0..N : i <= j => Rank(i) <= Rank(j)
  BY Ranks
<1>3. PICK u \in [0..N -> Seq(S)] :
        /\ u[0] = <<>> /\ Records = u[N]
        /\ \A n \in 1..N : u[n] = IF IsModbus(W[n]) THEN Append(u[n - 1], Record(W[n])) ELSE u[n - 1]
  BY RecordsLoop
<1> HIDE DEF N, W
<1> DEFINE Kept(k) == /\ Len(u[k]) = Rank(k)
                      /\ \A i \in 1..k : IsModbus(W[i]) =>
                            Rank(i) \in 1..Rank(k) /\ u[k][Rank(i)] = Record(W[i])
                      /\ \A n \in 1..Rank(k) : \E i \in 1..k : IsModbus(W[i]) /\ Rank(i) = n
           T == {k \in 0..N : Kept(k)}
<1>4. 0 \in T
  <2>1. Len(u[0]) = Rank(0)
    BY <1>2, <1>3
  <2> QED
    BY <1>1, <1>2, <2>1
<1>5. ASSUME NEW k \in 1..N, k - 1 \in T PROVE k \in T
  <2>1. /\ Len(u[k - 1]) = Rank(k - 1) /\ Rank(k - 1) \in Nat
        /\ \A i \in 1..k - 1 : IsModbus(W[i]) =>
              Rank(i) \in 1..Rank(k - 1) /\ u[k - 1][Rank(i)] = Record(W[i])
        /\ \A n \in 1..Rank(k - 1) : \E i \in 1..k - 1 : IsModbus(W[i]) /\ Rank(i) = n
    BY <1>1, <1>2, <1>5
  <2>2. u[k - 1] \in Seq(S)
    BY <1>1, <1>3
  <2>3. CASE ~IsModbus(W[k])
    <3>1. u[k] = u[k - 1] /\ Rank(k) = Rank(k - 1)
      BY <1>2, <1>3, <2>3
    <3>2. \A i \in 1..k : IsModbus(W[i]) => i \in 1..k - 1
      BY <1>1, <2>3
    <3>3. Kept(k)
      BY <2>1, <3>1, <3>2
    <3> QED
      BY <3>3
  <2>4. CASE IsModbus(W[k])
    <3> DEFINE r == Rank(k - 1)
               before == u[k - 1]
               x == Record(W[k])
    <3>1. u[k] = Append(before, x) /\ Rank(k) = r + 1
      BY <1>2, <1>3, <2>4
    <3>2. r \in Nat /\ Len(before) = r /\ before \in Seq(S) /\ x \in S
      BY <2>1, <2>2
    <3>3. /\ Len(u[k]) = r + 1 /\ u[k][r + 1] = x
          /\ \A n \in 1..r : u[k][n] = before[n]
      <4> HIDE DEF before, r, x, S
      <4> QED
        BY <3>1, <3>2
    <3>4. ASSUME NEW i \in 1..k, IsModbus(W[i])
          PROVE  Rank(i) \in 1..Rank(k) /\ u[k][Rank(i)] = Record(W[i])
      <4>1. CASE i = k
        BY <3>1, <3>2, <3>3, <4>1
      <4>2. CASE i # k
        <5>1. i \in 1..k - 1
          BY <4>2
        <5>2. Rank(i) \in 1..r /\ before[Rank(i)] = Record(W[i])
          BY <2>1, <3>4, <5>1
        <5> HIDE DEF r, before
        <5> QED
          BY <3>1, <3>2, <3>3, <5>2
      <4> QED
        BY <4>1, <4>2
    <3>5. ASSUME NEW n \in 1..Rank(k)
          PROVE  \E i \in 1..k : IsModbus(W[i]) /\ Rank(i) = n
      <4>1. CASE n = Rank(k)
        BY <2>4, <4>1
      <4>2. CASE n # Rank(k)
        <5>1. n \in 1..r
          BY <3>1, <3>2, <4>2
        <5>2. PICK i \in 1..k - 1 : IsModbus(W[i]) /\ Rank(i) = n
          BY <2>1, <5>1
        <5> QED
          BY <5>2
      <4> QED
        BY <4>1, <4>2
    <3>6. Kept(k)
      BY <3>1, <3>3, <3>4, <3>5
    <3> QED
      BY <3>6
  <2> QED
    BY <2>3, <2>4
<1>6. Kept(N)
  <2>1. N \in T
    <3> HIDE DEF T
    <3>1. \A k \in 0..N : k \in T
      BY <1>1, <1>4, <1>5, BoundedInduction
    <3> QED
      BY <1>1, <3>1
  <2> QED
    BY <2>1
<1>7. Records \in Seq(S)
  BY <1>1, <1>3
<1>8. Len(Records) = Rank(N)
  BY <1>3, <1>6
<1>9. ASSUME NEW i \in Traffic
      PROVE  Rank(i) \in 1..Len(Records) /\ Records[Rank(i)] = Record(file[i])
  BY <1>1, <1>3, <1>6, <1>8
<1>10. ASSUME NEW n \in 1..Len(Records) PROVE \E i \in Traffic : Rank(i) = n
  BY <1>1, <1>6, <1>8
<1> HIDE DEF S
<1>11. Len(Records) \in Nat /\ DOMAIN Records = 1..Len(Records)
  BY <1>7
<1> QED
  BY <1>7, <1>9, <1>10, <1>11

\* Places and ranks are inverse to each other and have the same order.
LEMMA Placed ==
    ASSUME NEW P, file \in Seq(P)
    PROVE  /\ \A i \in Traffic : i \in Nat /\ i \in DOMAIN file /\ PlaceOf(Rank(i)) = i
           /\ \A n \in 1..Len(Records) : /\ PlaceOf(n) \in Traffic /\ Rank(PlaceOf(n)) = n
                                         /\ Records[n] = Record(file[PlaceOf(n)])
           /\ \A i, j \in Traffic : i < j <=> Rank(i) < Rank(j)
<1> DEFINE N == Len(Whole)
<1>1. /\ N \in Nat /\ \A i : i \in Traffic <=> i \in 1..N /\ IsModbus(Whole[i])
  BY WholePackets
<1>2. /\ \A i \in 0..N : Rank(i) \in Nat
      /\ \A i \in 1..N : Rank(i) = IF IsModbus(Whole[i]) THEN Rank(i - 1) + 1 ELSE Rank(i - 1)
      /\ \A i, j \in 0..N : i <= j => Rank(i) <= Rank(j)
  BY Ranks
<1> HIDE DEF N
<1>3. ASSUME NEW i \in Traffic, NEW j \in Traffic, i < j PROVE Rank(i) < Rank(j)
  <2>1. i \in 0..N /\ j - 1 \in 0..N /\ i <= j - 1 /\ j \in 1..N /\ IsModbus(Whole[j])
    BY <1>1, <1>3
  <2>2. Rank(i) <= Rank(j - 1) /\ Rank(j) = Rank(j - 1) + 1
    BY <1>2, <2>1
  <2>3. Rank(i) \in Nat /\ Rank(j - 1) \in Nat
    BY <1>2, <2>1
  <2> QED
    BY <2>2, <2>3
<1>4. ASSUME NEW i \in Traffic, NEW j \in Traffic PROVE i < j <=> Rank(i) < Rank(j)
  <2>1. i \in Nat /\ j \in Nat /\ Rank(i) \in Nat /\ Rank(j) \in Nat
    BY <1>1, <1>2
  <2>2. i < j => Rank(i) < Rank(j)
    BY <1>3
  <2>3. j < i => Rank(j) < Rank(i)
    BY <1>3
  <2> QED
    BY <2>1, <2>2, <2>3
<1>5. ASSUME NEW n, NEW i \in Traffic, Rank(i) = n
      PROVE  PlaceOf(n) = i
  <2> DEFINE j == PlaceOf(n)
  <2>1. j \in Traffic /\ Rank(j) = n
    <3>1. \E k \in Traffic : Cardinality(Traffic \cap 1..k) = n
      BY <1>5 DEF Rank
    <3>2. j = CHOOSE k \in Traffic : Cardinality(Traffic \cap 1..k) = n
      BY DEF PlaceOf
    <3> HIDE DEF j
    <3> QED
      BY <3>1, <3>2 DEF Rank
  <2> HIDE DEF j
  <2>2. i \in Nat /\ j \in Nat /\ Rank(i) \in Nat
    BY <1>1, <1>2, <2>1
  <2>3. ~(i < j) /\ ~(j < i)
    BY <1>4, <1>5, <2>1, <2>2
  <2>4. j = i
    BY <2>2, <2>3
  <2> QED
    BY <2>4 DEF j
<1>6. ASSUME NEW n \in 1..Len(Records)
      PROVE  /\ PlaceOf(n) \in Traffic /\ Rank(PlaceOf(n)) = n
             /\ Records[n] = Record(file[PlaceOf(n)])
  <2>1. PICK i \in Traffic : Rank(i) = n
    BY RecordsFollow
  <2>2. PlaceOf(n) = i
    BY <1>5, <2>1
  <2>3. Records[Rank(i)] = Record(file[i])
    BY RecordsFollow
  <2> QED
    BY <2>1, <2>2, <2>3
<1>7. ASSUME NEW i \in Traffic PROVE i \in Nat /\ i \in DOMAIN file /\ PlaceOf(Rank(i)) = i
  <2>1. i \in Nat /\ i \in DOMAIN file
    BY <1>1 DEF Traffic
  <2> QED
    BY <1>5, <2>1
<1> QED
  BY <1>4, <1>6, <1>7
-----------------------------------------------------------------------------
(* The annotation, in terms of the records: what is pending and answered.  *)
Alone(capture, i, n) == \A m \in i + 1..n : capture[m].id # capture[i].id
PendingAt(capture, n) == {i \in Requests(capture) : i <= n /\ Alone(capture, i, n)}
AnsweredAt(capture, n) ==
    {p \in Requests(capture) \X (DOMAIN capture \ Requests(capture)) :
        /\ p[1] < p[2] /\ p[2] <= n /\ capture[p[1]].id = capture[p[2]].id
        /\ Alone(capture, p[1], p[2] - 1)}
SameAs(capture, n) == {i \in PendingAt(capture, n - 1) : capture[i].id = capture[n].id}

\* One more record changes what is pending, and what is answered, as the scan does.
LEMMA PendingStep ==
    ASSUME NEW S, NEW capture \in Seq(S), NEW n \in 1..Len(capture)
    PROVE  PendingAt(capture, n) =
             IF n \in Requests(capture)
             THEN (PendingAt(capture, n - 1) \ SameAs(capture, n)) \cup {n}
             ELSE PendingAt(capture, n - 1) \ SameAs(capture, n)
<1>1. Requests(capture) \subseteq 1..Len(capture) /\ Len(capture) \in Nat
  BY DEF Requests
<1>2. ASSUME NEW i \in Requests(capture), i < n
      PROVE  i \in PendingAt(capture, n) <=>
               i \in PendingAt(capture, n - 1) /\ capture[i].id # capture[n].id
  <2>1. i \in Nat /\ i <= n - 1 /\ i <= n
    BY <1>1, <1>2
  <2>2. Alone(capture, i, n) <=> Alone(capture, i, n - 1) /\ capture[n].id # capture[i].id
    <3>1. i + 1..n = (i + 1..n - 1) \cup {n}
      BY <2>1
    <3> QED
      BY <3>1 DEF Alone
  <2> QED
    BY <2>1, <2>2 DEF PendingAt
<1>3. ASSUME NEW i \in Requests(capture), i > n
      PROVE  i \notin PendingAt(capture, n) /\ i \notin PendingAt(capture, n - 1)
  BY <1>1, <1>3 DEF PendingAt
<1>4. n \notin PendingAt(capture, n - 1)
  BY DEF PendingAt
<1>5. n \in Requests(capture) => n \in PendingAt(capture, n)
  <2>1. n + 1..n = {}
    OBVIOUS
  <2> QED
    BY <2>1 DEF PendingAt, Alone
<1>6. \A m : PendingAt(capture, m) \subseteq Requests(capture)
  BY DEF PendingAt
<1>7. \A i \in Requests(capture) : i < n \/ i = n \/ i > n
  BY <1>1
<1> QED
  BY <1>2, <1>3, <1>4, <1>5, <1>6, <1>7 DEF SameAs

LEMMA AnsweredStep ==
    ASSUME NEW S, NEW capture \in Seq(S), NEW n \in 1..Len(capture)
    PROVE  AnsweredAt(capture, n) =
             IF n \in Requests(capture) THEN AnsweredAt(capture, n - 1)
             ELSE AnsweredAt(capture, n - 1) \cup {<<i, n>> : i \in SameAs(capture, n)}
<1> DEFINE Q == Requests(capture)
           D == DOMAIN capture
<1>1. Q \subseteq D /\ D = 1..Len(capture) /\ Len(capture) \in Nat
  BY DEF Requests
<1>2. ASSUME NEW i \in Q, NEW j \in D \ Q
      PROVE  /\ j # n => (<<i, j>> \in AnsweredAt(capture, n) <=> <<i, j>> \in AnsweredAt(capture, n - 1))
             /\ j = n => /\ <<i, j>> \notin AnsweredAt(capture, n - 1)
                         /\ <<i, j>> \in AnsweredAt(capture, n) <=> i \in SameAs(capture, n)
  <2>1. i \in Nat /\ j \in Nat
    BY <1>1
  <2>2. \A m : <<i, j>> \in AnsweredAt(capture, m) <=>
                 /\ i < j /\ j <= m /\ capture[i].id = capture[j].id
                 /\ Alone(capture, i, j - 1)
    BY <1>1 DEF AnsweredAt
  <2>3. i \in SameAs(capture, n) <=>
          i <= n - 1 /\ Alone(capture, i, n - 1) /\ capture[i].id = capture[n].id
    BY DEF SameAs, PendingAt
  <2> QED
    BY <2>1, <2>2, <2>3
<1>3. \A m : AnsweredAt(capture, m) \subseteq Q \X (D \ Q)
  BY DEF AnsweredAt
<1>4. SameAs(capture, n) \subseteq Q /\ n \in D
  BY <1>1 DEF SameAs, PendingAt
<1> HIDE DEF Q, D
<1>5. CASE n \in Q
  <2>1. \A i \in Q, j \in D \ Q : <<i, j>> \in AnsweredAt(capture, n) <=> <<i, j>> \in AnsweredAt(capture, n - 1)
    BY <1>2, <1>5
  <2>2. AnsweredAt(capture, n) = AnsweredAt(capture, n - 1)
    <3> SUFFICES ASSUME NEW p \in Q \X (D \ Q)
                 PROVE  p \in AnsweredAt(capture, n) <=> p \in AnsweredAt(capture, n - 1)
      BY <1>3
    <3>1. PICK i \in Q, j \in D \ Q : p = <<i, j>>
      OBVIOUS
    <3> QED
      BY <2>1, <3>1
  <2> QED
    BY <1>5, <2>2 DEF Q
<1>6. CASE n \notin Q
  <2> DEFINE new == AnsweredAt(capture, n - 1) \cup {<<i, n>> : i \in SameAs(capture, n)}
  <2>1. \A i \in Q, j \in D \ Q : <<i, j>> \in new <=>
           <<i, j>> \in AnsweredAt(capture, n - 1) \/ (j = n /\ i \in SameAs(capture, n))
    OBVIOUS
  <2>2. new \subseteq Q \X (D \ Q)
    BY <1>3, <1>4, <1>6
  <2> HIDE DEF new
  <2>3. \A i \in Q, j \in D \ Q : <<i, j>> \in AnsweredAt(capture, n) <=> <<i, j>> \in new
    BY <1>2, <2>1
  <2>4. AnsweredAt(capture, n) = new
    <3> SUFFICES ASSUME NEW p \in Q \X (D \ Q)
                 PROVE  p \in AnsweredAt(capture, n) <=> p \in new
      BY <1>3, <2>2
    <3>1. PICK i \in Q, j \in D \ Q : p = <<i, j>>
      OBVIOUS
    <3> QED
      BY <2>3, <3>1
  <2> QED
    BY <1>6, <2>4 DEF Q, new
<1> QED
  BY <1>5, <1>6

\* The scan of _annotate_modbus_transactions computes both.
LEMMA Scanned ==
    ASSUME NEW S, NEW capture \in Seq(S)
    PROVE  /\ Scan(capture).pending = PendingAt(capture, Len(capture))
           /\ Scan(capture).answered = AnsweredAt(capture, Len(capture))
<1> DEFINE L == Len(capture)
           Q == Requests(capture)
           At(n) == [pending |-> PendingAt(capture, n), answered |-> AnsweredAt(capture, n)]
           Same(x, n) == {i \in x.pending : capture[i].id = capture[n].id}
           Step(x, n) == IF n \in Q
                         THEN [x EXCEPT !.pending = (@ \ Same(x, n)) \cup {n}]
                         ELSE [pending |-> x.pending \ Same(x, n),
                               answered |-> x.answered \cup {<<i, n>> : i \in Same(x, n)}]
           Eq(g) == [n \in 0..L |-> IF n = 0 THEN [pending |-> {}, answered |-> {}]
                                    ELSE Step(g[n - 1], n)]
           after == CHOOSE g : g = Eq(g)
           u == [n \in 0..L |-> At(n)]
<1>1. L \in Nat /\ Q \subseteq 1..L
  BY DEF Requests
<1>2. Scan(capture) = after[L]
  BY DEF Scan
<1>3. At(0) = [pending |-> {}, answered |-> {}]
  <2>1. PendingAt(capture, 0) = {}
    BY <1>1 DEF PendingAt
  <2>2. AnsweredAt(capture, 0) = {}
    BY DEF AnsweredAt, Requests
  <2> QED
    BY <2>1, <2>2
<1>4. ASSUME NEW n \in 1..L PROVE At(n) = Step(At(n - 1), n)
  <2>1. Same(At(n - 1), n) = SameAs(capture, n)
    BY DEF SameAs
  <2> HIDE DEF Same
  <2>2. CASE n \in Q
    <3>1. PendingAt(capture, n) = (PendingAt(capture, n - 1) \ SameAs(capture, n)) \cup {n}
      BY <2>2, PendingStep
    <3>2. AnsweredAt(capture, n) = AnsweredAt(capture, n - 1)
      BY <2>2, AnsweredStep
    <3> QED
      BY <2>1, <2>2, <3>1, <3>2
  <2>3. CASE n \notin Q
    <3>1. PendingAt(capture, n) = PendingAt(capture, n - 1) \ SameAs(capture, n)
      BY <2>3, PendingStep
    <3>2. AnsweredAt(capture, n) =
            AnsweredAt(capture, n - 1) \cup {<<i, n>> : i \in SameAs(capture, n)}
      BY <2>3, AnsweredStep
    <3> QED
      BY <2>1, <2>3, <3>1, <3>2
  <2> QED
    BY <2>2, <2>3
<1>5. \A n \in 0..L : u[n] = At(n)
  OBVIOUS
<1> HIDE DEF At, Step
<1>6. u = Eq(u)
  <2>1. ASSUME NEW n \in 0..L
        PROVE  At(n) = IF n = 0 THEN [pending |-> {}, answered |-> {}] ELSE Step(u[n - 1], n)
    <3>1. CASE n = 0
      BY <1>3, <3>1
    <3>2. CASE n # 0
      <4>1. n \in 1..L /\ n - 1 \in 0..L
        BY <1>1, <3>2
      <4>2. u[n - 1] = At(n - 1)
        BY <1>5, <4>1
      <4> HIDE DEF u
      <4> QED
        BY <1>4, <3>2, <4>1, <4>2
    <3> QED
      BY <3>1, <3>2
  <2> QED
    BY <2>1
<1>7. after = Eq(after)
  <2>1. \E g : g = Eq(g)
    BY <1>6
  <2> QED
    BY <2>1
<1> HIDE DEF after, u
<1> DEFINE T == {n \in 0..L : after[n] = u[n]}
<1>8. 0 \in T
  <2>1. 0 \in 0..L
    BY <1>1
  <2>2. after[0] = [pending |-> {}, answered |-> {}] /\ u[0] = [pending |-> {}, answered |-> {}]
    BY <1>6, <1>7, <2>1
  <2> QED
    BY <2>1, <2>2
<1>9. ASSUME NEW n \in 1..L, n - 1 \in T PROVE n \in T
  <2>1. n \in 0..L /\ n # 0 /\ after[n - 1] = u[n - 1]
    BY <1>9
  <2>2. after[n] = Step(after[n - 1], n) /\ u[n] = Step(u[n - 1], n)
    BY <1>6, <1>7, <2>1
  <2> QED
    BY <2>1, <2>2
<1>10. L \in T
  <2> HIDE DEF T
  <2>1. \A n \in 0..L : n \in T
    BY <1>1, <1>8, <1>9, BoundedInduction
  <2> QED
    BY <1>1, <2>1
<1>11. Scan(capture) = At(L)
  BY <1>1, <1>2, <1>5, <1>10
<1> QED
  BY <1>11 DEF At

\* The traffic between two places has an id if and only if the records between
\* their ranks have it.
LEMMA SilenceKept ==
    ASSUME NEW P, file \in Seq(P), NEW i \in Traffic, NEW j \in Nat, NEW n \in 0..Len(Records), i < j,
           \A k \in Traffic : k < j <=> Rank(k) <= n
    PROVE  Silent(i, j) <=> Alone(Records, Rank(i), n)
<1> DEFINE R == Records
           r == Rank(i)
<1>1. /\ Len(R) \in Nat
      /\ \A k \in Traffic : Rank(k) \in 1..Len(R) /\ R[Rank(k)] = Record(file[k])
  BY RecordsFollow
<1>2. /\ \A k \in Traffic : k \in Nat /\ PlaceOf(Rank(k)) = k
      /\ \A m \in 1..Len(R) : PlaceOf(m) \in Traffic /\ Rank(PlaceOf(m)) = m
      /\ \A k, l \in Traffic : k < l <=> Rank(k) < Rank(l)
  BY Placed
<1> HIDE DEF R, r
<1>3. ASSUME NEW k \in Traffic PROVE R[Rank(k)].id = file[k].id
  <2>1. R[Rank(k)] = Record(file[k])
    BY <1>1
  <2> QED
    BY <2>1 DEF Record
<1>4. ASSUME Alone(R, r, n), NEW k \in Traffic, i < k, k < j PROVE file[k].id # file[i].id
  <2>1. Rank(k) \in r + 1..n
    BY <1>1, <1>2, <1>4 DEF r
  <2> QED
    BY <1>3, <1>4, <2>1 DEF Alone, r
<1>5. ASSUME Silent(i, j), NEW m \in r + 1..n PROVE R[m].id # R[r].id
  <2>3. r \in Nat /\ n \in Nat /\ n <= Len(R) /\ m \in 1..Len(R)
    BY <1>1 DEF r, R
  <2> DEFINE k == PlaceOf(m)
  <2>1. k \in Traffic /\ Rank(k) = m
    BY <1>2, <2>3
  <2> HIDE DEF k
  <2>2. i < k /\ k < j
    BY <1>1, <1>2, <1>5, <2>1, <2>3 DEF r
  <2> QED
    BY <1>3, <1>5, <2>1, <2>2 DEF Silent, r
<1> QED
  BY <1>4, <1>5 DEF Silent, Alone, R, r

\* The requests, answers and timeouts of the traffic are those of the records.
LEMMA RequestsAre ==
    ASSUME NEW P, file \in Seq(P), NEW i \in Traffic
    PROVE  /\ Rank(i) \in 1..Len(Records) /\ Rank(i) \in DOMAIN Records
           /\ Asks(i) <=> Rank(i) \in Requests(Records)
           /\ Records[Rank(i)].id = file[i].id /\ Records[Rank(i)].time = file[i].time
<1> DEFINE R == Records
           r == Rank(i)
<1>1. DOMAIN R = 1..Len(R) /\ r \in 1..Len(R) /\ R[r] = Record(file[i])
  BY RecordsFollow
<1>2. Requests(Records) = {n \in DOMAIN R : R[n].direction = "Request"}
  BY DEF Requests
<1> HIDE DEF R, r
<1>3. R[r].id = file[i].id /\ R[r].time = file[i].time /\ R[r].direction = Direction(file[i])
  BY <1>1 DEF Record
<1>4. Asks(i) <=> Direction(file[i]) = "Request"
  BY DEF Asks, Direction
<1> QED
  BY <1>1, <1>2, <1>3, <1>4 DEF R, r

LEMMA AnswersAre ==
    ASSUME NEW P, file \in Seq(P), NEW i \in Traffic, NEW j \in Traffic
    PROVE  Answers(i, j) <=> <<Rank(i), Rank(j)>> \in AnsweredAt(Records, Len(Records))
<1> DEFINE R == Records
           L == Len(R)
           r == Rank(i)
           s == Rank(j)
<1>1. /\ r \in 1..L /\ s \in 1..L /\ L \in Nat /\ i \in Nat /\ j \in Nat
      /\ r \in DOMAIN R /\ s \in DOMAIN R
      /\ i < j <=> r < s
  BY RecordsFollow, RequestsAre, Placed
<1>2. /\ Asks(i) <=> r \in Requests(R)
      /\ Asks(j) <=> s \in Requests(R)
      /\ R[r].id = file[i].id /\ R[s].id = file[j].id
  BY RequestsAre
<1>3. ASSUME i < j PROVE Silent(i, j) <=> Alone(R, r, s - 1)
  <2>1. ASSUME NEW k \in Traffic PROVE k < j <=> Rank(k) <= s - 1
    <3>1. k < j <=> Rank(k) < s
      BY Placed
    <3>2. Rank(k) \in 1..L
      BY RecordsFollow
    <3> HIDE DEF s, L
    <3> QED
      BY <1>1, <3>1, <3>2
  <2>2. s - 1 \in 0..Len(Records)
    BY <1>1
  <2>3. Silent(i, j) <=> Alone(Records, Rank(i), s - 1)
    <3> DEFINE n == s - 1
    <3> HIDE DEF n, s
    <3>1. n \in 0..Len(Records) /\ \A k \in Traffic : k < j <=> Rank(k) <= n
      BY <2>1, <2>2 DEF n
    <3>2. Silent(i, j) <=> Alone(Records, Rank(i), n)
      BY <1>1, <1>3, <3>1, SilenceKept
    <3> QED
      BY <3>2 DEF n
  <2> QED
    BY <2>3
<1>4. <<r, s>> \in AnsweredAt(R, L) <=>
        /\ r \in Requests(R) /\ s \notin Requests(R) /\ r < s
        /\ R[r].id = R[s].id /\ Alone(R, r, s - 1)
  <2>1. r <= L /\ s <= L
    BY <1>1
  <2> HIDE DEF r, s, R, L
  <2> QED
    BY <1>1, <2>1 DEF AnsweredAt
<1> HIDE DEF r, s, L, R
<1>5. Answers(i, j) <=> /\ r \in Requests(R) /\ s \notin Requests(R) /\ r < s
                       /\ R[r].id = R[s].id /\ Alone(R, r, s - 1)
  BY <1>1, <1>2, <1>3 DEF Answers
<1> QED
  BY <1>4, <1>5 DEF r, s, L, R

LEMMA UnansweredAre ==
    ASSUME NEW P, file \in Seq(P), NEW i \in Traffic
    PROVE  Unanswered(i) <=> Rank(i) \in TimedOut(Records)
<1> DEFINE R == Records
           L == Len(R)
           r == Rank(i)
           j == Len(file) + 1
           end == PlaceOf(L)
<1>1. /\ r \in 1..L /\ L \in Nat /\ i \in Nat /\ j \in Nat
      /\ r \in DOMAIN R /\ i \in DOMAIN file /\ i < j
  BY RecordsFollow, RequestsAre, Placed
<1>2. Asks(i) <=> r \in Requests(R)
  BY RequestsAre
<1>3. Silent(i, j) <=> Alone(R, r, L)
  <2>1. ASSUME NEW k \in Traffic PROVE k < j <=> Rank(k) <= L
    BY RecordsFollow, Placed
  <2>2. L \in 0..Len(Records)
    BY <1>1
  <2> HIDE DEF j, L
  <2> QED
    BY <1>1, <2>1, <2>2, SilenceKept
<1>4. end \in Traffic /\ Rank(end) = L /\ L \in 1..L
  BY <1>1, Placed
<1>5. ASSUME NEW k \in Traffic PROVE k <= end
  <2>1. Rank(k) \in 1..L /\ k \in Nat /\ end \in Nat /\ (end < k <=> Rank(end) < Rank(k))
    BY <1>4, RecordsFollow, Placed
  <2> HIDE DEF end, L
  <2> QED
    BY <1>1, <1>4, <2>1
<1>6. R[L].time = file[end].time /\ R[r].time = file[i].time
  BY <1>4, RequestsAre
<1>7. (\E last \in Traffic : /\ \A n \in Traffic : n <= last
                             /\ file[last].time - file[i].time >= Timeout)
        <=> file[end].time - file[i].time >= Timeout
  <2>1. ASSUME NEW last \in Traffic, \A n \in Traffic : n <= last PROVE last = end
    <3>1. last \in Nat /\ end \in Nat
      BY <1>4, Placed
    <3>2. last <= end /\ end <= last
      BY <1>4, <1>5, <2>1
    <3> HIDE DEF end
    <3> QED
      BY <3>1, <3>2
  <2> HIDE DEF end
  <2> QED
    BY <1>4, <1>5, <2>1
<1>8. r \in PendingAt(R, L) <=> r \in Requests(R) /\ Alone(R, r, L)
  BY <1>1 DEF PendingAt
<1>9. TimedOut(R) = {n \in PendingAt(R, L) : R[L].time - R[n].time >= Timeout}
  <2>1. \E S : R \in Seq(S)
    BY RecordsFollow
  <2>2. Scan(R).pending = PendingAt(R, L)
    BY <2>1, Scanned
  <2> QED
    BY <2>2 DEF TimedOut
<1> HIDE DEF end, r, L, R
<1> QED
  BY <1>1, <1>2, <1>3, <1>6, <1>7, <1>8, <1>9 DEF Unanswered, j, r, R

\* They make the annotation.
LEMMA TrueAnnotation == ASSUME NEW P, file \in Seq(P) PROVE AnnotationIsTrue
<1> DEFINE R == Records
           L == Len(R)
           place == [n \in DOMAIN Records |-> PlaceOf(n)]
           answered == Scan(R).answered
<1>1. L \in Nat /\ DOMAIN R = 1..L
  BY RecordsFollow
<1>2. /\ \A i \in Traffic : Rank(i) \in DOMAIN R /\ place[Rank(i)] = i /\ i \in DOMAIN file
      /\ \A n \in DOMAIN R : place[n] \in Traffic /\ Rank(place[n]) = n
  <2>1. \A n \in DOMAIN R : place[n] = PlaceOf(n)
    OBVIOUS
  <2>2. \A i \in Traffic : Rank(i) \in DOMAIN R /\ PlaceOf(Rank(i)) = i /\ i \in DOMAIN file
    BY RequestsAre, Placed
  <2>3. \A n \in DOMAIN R : PlaceOf(n) \in Traffic /\ Rank(PlaceOf(n)) = n
    BY <1>1, Placed
  <2> HIDE DEF place, R
  <2> QED
    BY <2>1, <2>2, <2>3
<1>3. answered = AnsweredAt(R, L)
  <2>1. \E S : R \in Seq(S)
    BY RecordsFollow
  <2> QED
    BY <2>1, Scanned
<1>4. answered \subseteq (DOMAIN R) \X (DOMAIN R)
  BY <1>3 DEF AnsweredAt, Requests
<1>5. \A i, j \in Traffic : Answers(i, j) <=> <<Rank(i), Rank(j)>> \in answered
  BY <1>3, AnswersAre
<1>6. \A i \in Traffic : Unanswered(i) <=> Rank(i) \in TimedOut(R)
  BY UnansweredAre
<1>7. TimedOut(R) \subseteq DOMAIN R
  <2>1. \E S : R \in Seq(S)
    BY RecordsFollow
  <2>2. Scan(R).pending = PendingAt(R, L)
    BY <2>1, Scanned
  <2> QED
    BY <2>2 DEF TimedOut, PendingAt, Requests
<1>8. \A i, j : Answers(i, j) => i \in Traffic /\ j \in Traffic
  BY DEF Answers, Asks
<1>9. \A i : Unanswered(i) => i \in Traffic
  BY DEF Unanswered, Asks
<1> HIDE DEF place, answered, L
<1>10. {<<place[p[1]], place[p[2]]>> : p \in answered} =
         {p \in (DOMAIN file) \X (DOMAIN file) : Answers(p[1], p[2])}
  <2>1. ASSUME NEW p \in answered
        PROVE  /\ <<place[p[1]], place[p[2]]>> \in (DOMAIN file) \X (DOMAIN file)
               /\ Answers(place[p[1]], place[p[2]])
    <3>1. PICK m \in DOMAIN R, n \in DOMAIN R : p = <<m, n>>
      BY <1>4
    <3>2. /\ place[m] \in Traffic /\ Rank(place[m]) = m
          /\ place[n] \in Traffic /\ Rank(place[n]) = n
      BY <1>2
    <3> HIDE DEF R
    <3>3. Answers(place[m], place[n])
      BY <1>5, <3>1, <3>2
    <3> QED
      BY <1>2, <3>1, <3>2, <3>3
  <2>2. ASSUME NEW p \in (DOMAIN file) \X (DOMAIN file), Answers(p[1], p[2])
        PROVE  \E q \in answered : p = <<place[q[1]], place[q[2]]>>
    <3>1. PICK i \in DOMAIN file, j \in DOMAIN file : p = <<i, j>>
      OBVIOUS
    <3>2. Answers(i, j) /\ i \in Traffic /\ j \in Traffic
      BY <1>8, <2>2, <3>1
    <3>3. <<Rank(i), Rank(j)>> \in answered /\ place[Rank(i)] = i /\ place[Rank(j)] = j
      BY <1>2, <1>5, <3>2
    <3> DEFINE q == <<Rank(i), Rank(j)>>
    <3>4. q \in answered /\ p = <<place[q[1]], place[q[2]]>>
      BY <3>1, <3>3
    <3> HIDE DEF q
    <3> QED
      BY <3>4
  <2> QED
    BY <2>1, <2>2
<1>11. {place[n] : n \in TimedOut(Records)} = {i \in DOMAIN file : Unanswered(i)}
  <2>1. ASSUME NEW n \in TimedOut(R) PROVE place[n] \in DOMAIN file /\ Unanswered(place[n])
    <3>1. place[n] \in Traffic /\ Rank(place[n]) = n
      BY <1>2, <1>7
    <3> HIDE DEF R
    <3> QED
      BY <1>2, <1>6, <3>1
  <2>2. ASSUME NEW i, Unanswered(i) PROVE Rank(i) \in TimedOut(R) /\ place[Rank(i)] = i
    BY <1>2, <1>6, <1>9, <2>2
  <2> QED
    BY <2>1, <2>2
<1> QED
  BY Zenon, <1>10, <1>11 DEF AnnotationIsTrue, place, answered

\* Whatever is written to a capture file, in whatever state it is read, answers,
\* latencies and timeouts are those of its packets.
THEOREM TrueAnnotations == CaptureSpec => []AnnotationIsTrue
<1> DEFINE FileOK == file \in Seq(Packets)
<1>1. CaptureInit => FileOK
  BY DEF CaptureInit
<1>2. FileOK /\ [CaptureNext]_file => FileOK'
  <2> SUFFICES ASSUME FileOK, [CaptureNext]_file PROVE FileOK'
    OBVIOUS
  <2>1. CASE Flush
    <3> DEFINE n == Len(file)
    <3>1. n \in DOMAIN file /\ file \in [1..n -> Packets]
      BY <2>1 DEF Flush, Complete
    <3>2. [file[n] EXCEPT !.whole = TRUE] \in Packets
      <4> DEFINE q == file[n]
      <4>1. q \in Packets
        BY <3>1
      <4> HIDE DEF q
      <4>2. [q EXCEPT !.whole = TRUE] \in Packets
        BY <4>1 DEF Packets
      <4> QED
        BY <4>2 DEF q
    <3>3. file' = [file EXCEPT ![n] = [file[n] EXCEPT !.whole = TRUE]]
      BY <2>1 DEF Flush
    <3> HIDE DEF n, Packets
    <3>4. file' \in [1..n -> Packets] /\ n \in Nat
      BY <3>1, <3>2, <3>3 DEF n
    <3> QED
      BY <3>4
  <2>2. ASSUME NEW p \in SamplePackets, Capture(p) PROVE FileOK'
    <3>1. p \in Packets
      BY LatencyAssumption
    <3> HIDE DEF Packets
    <3> QED
      BY <2>2, <3>1 DEF Capture
  <2>3. CASE UNCHANGED file
    BY <2>3
  <2> QED
    BY <2>1, <2>2, <2>3 DEF CaptureNext
<1>3. FileOK => AnnotationIsTrue
  BY TrueAnnotation
<1> QED
  BY <1>1, <1>2, <1>3, PTL DEF CaptureSpec
-----------------------------------------------------------------------------
(* Quotients and remainders, for CanSignals.                               *)
\* Quotient and remainder are the only ones.
LEMMA DivMod ==
    ASSUME NEW a \in Int, NEW b \in Nat, b > 0
    PROVE  /\ a \div b \in Int /\ a % b \in Int
           /\ a = b * (a \div b) + (a % b)
           /\ 0 <= a % b /\ a % b < b
  OBVIOUS

LEMMA DivModUnique ==
    ASSUME NEW b \in Nat, b > 0, NEW q \in Int, NEW r \in Int, 0 <= r, r < b
    PROVE  (b * q + r) \div b = q /\ (b * q + r) % b = r
<1> DEFINE a == b * q + r
           d == a \div b
           m == a % b
<1>1. a \in Int /\ d \in Int /\ m \in Int
  BY DivMod
<1>2. a = b * d + m /\ 0 <= m /\ m < b
  BY <1>1, DivMod
<1> HIDE DEF d, m
<1>3. b * (q - d) = m - r
  BY <1>1, <1>2
<1>4. ~(q - d >= 1)
  <2> SUFFICES ASSUME q - d >= 1 PROVE FALSE
    OBVIOUS
  <2>1. b * (q - d) >= b
    BY <1>1
  <2> QED
    BY <1>1, <1>2, <1>3, <2>1
<1>5. ~(q - d <= -1)
  <2> SUFFICES ASSUME q - d <= -1 PROVE FALSE
    OBVIOUS
  <2>1. b * (q - d) <= -b
    BY <1>1
  <2> QED
    BY <1>1, <1>2, <1>3, <2>1
<1>6. q = d
  BY <1>1, <1>4, <1>5
<1> QED
  BY <1>1, <1>2, <1>6 DEF d, m, a

\* Of natural numbers they are natural.
LEMMA NaturalDivision ==
    ASSUME NEW x \in Nat, NEW a \in Nat \ {0}
    PROVE  x \div a \in Nat /\ x % a \in 0..a - 1 /\ x = a * (x \div a) + (x % a)
<1> DEFINE q == x \div a
           r == x % a
<1>1. q \in Int /\ r \in Int /\ x = a * q + r /\ 0 <= r /\ r < a
  BY DivMod
<1> HIDE DEF q, r
<1>2. ~(q <= -1)
  <2> SUFFICES ASSUME q <= -1 PROVE FALSE
    OBVIOUS
  <2>1. a * q <= -a
    BY <1>1
  <2> QED
    BY <1>1, <2>1
<1>3. q \in Nat /\ r \in 0..a - 1 /\ x = a * q + r
  BY <1>1, <1>2
<1> QED
  BY <1>3 DEF q, r

\* To divide twice is to divide by the product.
LEMMA DividedTwice ==
    ASSUME NEW x \in Nat, NEW a \in Nat \ {0}, NEW b \in Nat \ {0}
    PROVE  /\ x \div (a * b) = (x \div a) \div b
           /\ x % (a * b) = a * ((x \div a) % b) + (x % a)
<1> DEFINE q == x \div a
           r == x % a
           k == q \div b
           m == q % b
           c == a * b
           low == a * m + r
<1>1. q \in Nat /\ r \in 0..a - 1 /\ x = a * q + r
  BY NaturalDivision
<1> HIDE DEF q, r
<1>2. k \in Nat /\ m \in 0..b - 1 /\ q = b * k + m
  BY <1>1, NaturalDivision
<1> HIDE DEF k, m
<1>3. c \in Nat /\ c > 0
  OBVIOUS
<1>4. x = c * k + low
  <2>1. a * (b * k + m) = (a * b) * k + a * m
    BY <1>2
  <2> QED
    BY <1>1, <1>2, <2>1
<1>5. low \in Int /\ 0 <= low /\ low < c
  <2>1. a * m <= a * (b - 1) /\ a * m >= 0 /\ a * m \in Int
    BY <1>2
  <2>2. a * (b - 1) = c - a
    OBVIOUS
  <2> DEFINE p == a * m
  <2> HIDE DEF p, c
  <2>3. p + r \in Int /\ 0 <= p + r /\ p + r < c
    BY <1>1, <1>3, <2>1, <2>2 DEF p
  <2> QED
    BY <2>3 DEF p
<1> HIDE DEF c, low
<1>6. x \div c = k /\ x % c = low
  BY <1>2, <1>3, <1>4, <1>5, DivModUnique
<1> QED
  BY <1>6 DEF c, low, k, m, q, r

\* What is added in multiples of the divisor is added to the quotient.
LEMMA AddedMultiple ==
    ASSUME NEW x \in Nat, NEW m \in Nat \ {0}, NEW k \in Nat
    PROVE  (x + m * k) \div m = (x \div m) + k
<1> DEFINE q == x \div m
           r == x % m
<1>1. q \in Nat /\ r \in 0..m - 1 /\ x = m * q + r
  BY NaturalDivision
<1> HIDE DEF q, r
<1>2. x + m * k = m * (q + k) + r
  BY <1>1
<1>3. (m * (q + k) + r) \div m = q + k
  BY <1>1, DivModUnique
<1> QED
  BY <1>2, <1>3 DEF q
-----------------------------------------------------------------------------
(* Powers of two.                                                          *)
Doubling(g, L) == g \in [0..L -> Nat] /\ g[0] = 1 /\ \A n \in 1..L : g[n] = 2 * g[n - 1]

LEMMA DoublingExists == ASSUME NEW L \in Nat PROVE \E g : Doubling(g, L)
<1> DEFINE step == [n \in 1..L |-> [x \in Nat |-> 2 * x]]
<1>1. step \in [1..L -> [Nat -> Nat]] /\ 1 \in Nat
  OBVIOUS
<1>2. PICK g : Stepwise(g, L, Nat, 1, step)
  <2> HIDE DEF step
  <2> QED
    BY <1>1, Recursion
<1>3. g \in [0..L -> Nat] /\ g[0] = 1 /\ \A n \in 1..L : g[n] = step[n][g[n - 1]]
  <2> HIDE DEF step
  <2> QED
    BY <1>2 DEF Stepwise
<1>4. ASSUME NEW n \in 1..L PROVE g[n] = 2 * g[n - 1]
  <2>1. g[n - 1] \in Nat
    BY <1>3
  <2> QED
    BY <1>3, <2>1
<1> QED
  BY <1>3, <1>4 DEF Doubling

LEMMA DoublingsAgree ==
    ASSUME NEW K \in Nat, NEW L \in Nat, K <= L, NEW g, Doubling(g, K), NEW h, Doubling(h, L)
    PROVE  g[K] = h[K]
<1> DEFINE T == {n \in 0..K : g[n] = h[n]}
<1>1. 0 \in T
  BY DEF Doubling
<1>2. ASSUME NEW n \in 1..K, n - 1 \in T PROVE n \in T
  <2>1. n \in 1..L
    OBVIOUS
  <2>2. g[n] = 2 * g[n - 1] /\ h[n] = 2 * h[n - 1]
    BY <2>1 DEF Doubling
  <2> QED
    BY <1>2, <2>2
<1>3. K \in T
  <2> HIDE DEF T
  <2>1. \A n \in 0..K : n \in T
    BY <1>1, <1>2, BoundedInduction
  <2> QED
    BY <2>1
<1> QED
  BY <1>3

\* TwoTo has the values that its recursion says.
LEMMA PowersOfTwo ==
    /\ TwoTo[0] = 1
    /\ \A k \in Nat : TwoTo[k] \in Nat \ {0} /\ TwoTo[k + 1] = 2 * TwoTo[k]
<1> DEFINE Eq(f) == [k \in Nat |-> IF k = 0 THEN 1 ELSE 2 * f[k - 1]]
           upTo == [k \in Nat |-> CHOOSE g : Doubling(g, k)]
           power == [k \in Nat |-> upTo[k][k]]
<1>1. ASSUME NEW k \in Nat PROVE Doubling(upTo[k], k)
  <2>1. \E g : Doubling(g, k)
    BY DoublingExists
  <2> QED
    BY <2>1
<1> HIDE DEF upTo
<1>2. ASSUME NEW k \in Nat, k # 0 PROVE power[k] = 2 * power[k - 1]
  <2>1. k - 1 \in Nat /\ k - 1 <= k /\ k \in 1..k
    BY <1>2
  <2>2. upTo[k - 1][k - 1] = upTo[k][k - 1]
    BY <1>1, <2>1, DoublingsAgree
  <2>3. upTo[k][k] = 2 * upTo[k][k - 1]
    BY <1>1, <2>1 DEF Doubling
  <2> QED
    BY <2>1, <2>2, <2>3
<1>3. power[0] = 1
  BY <1>1 DEF Doubling
<1>4. power = Eq(power)
  <2>1. \A k \in Nat : power[k] = IF k = 0 THEN 1 ELSE 2 * power[k - 1]
    BY <1>2, <1>3
  <2> HIDE DEF power
  <2>2. power = [k \in Nat |-> power[k]]
    BY DEF power
  <2> QED
    BY <2>1, <2>2
<1>5. TwoTo = CHOOSE f : f = Eq(f)
  BY DEF TwoTo
<1>6. TwoTo = Eq(TwoTo)
  <2>1. \E f : f = Eq(f)
    BY <1>4
  <2> QED
    BY <1>5, <2>1
<1>7. TwoTo[0] = 1
  BY <1>6
<1>8. ASSUME NEW k \in Nat PROVE TwoTo[k + 1] = 2 * TwoTo[k]
  BY <1>6
<1>9. ASSUME NEW k \in Nat PROVE TwoTo[k] \in Nat \ {0}
  <2> DEFINE T == {n \in 0..k : TwoTo[n] \in Nat \ {0}}
  <2>1. 0 \in T
    BY <1>7
  <2>2. ASSUME NEW n \in 1..k, n - 1 \in T PROVE n \in T
    <3>1. n - 1 \in Nat /\ TwoTo[(n - 1) + 1] = 2 * TwoTo[n - 1] /\ (n - 1) + 1 = n
      BY <1>8
    <3> QED
      BY <2>2, <3>1
  <2>3. k \in T
    <3> HIDE DEF T
    <3>1. \A n \in 0..k : n \in T
      BY <2>1, <2>2, BoundedInduction
    <3> QED
      BY <3>1
  <2> QED
    BY <2>3
<1> QED
  BY <1>7, <1>8, <1>9

LEMMA Positive == \A k \in Nat : TwoTo[k] \in Nat /\ TwoTo[k] > 0
<1>1. \A k \in Nat : TwoTo[k] \in Nat \ {0}
  BY PowersOfTwo
<1> QED
  BY <1>1

LEMMA PowersMultiply ==
    ASSUME NEW a \in Nat, NEW b \in Nat
    PROVE  TwoTo[a + b] = TwoTo[a] * TwoTo[b]
<1> DEFINE T == {n \in 0..b : TwoTo[a + n] = TwoTo[a] * TwoTo[n]}
<1>0. TwoTo[a] \in Nat
  BY PowersOfTwo
<1>1. 0 \in T
  <2>1. a + 0 = a /\ TwoTo[0] = 1
    BY PowersOfTwo
  <2> QED
    BY <1>0, <2>1
<1>2. ASSUME NEW n \in 1..b, n - 1 \in T PROVE n \in T
  <2> DEFINE m == n - 1
  <2>1. m \in Nat /\ a + m \in Nat /\ m + 1 = n /\ (a + m) + 1 = a + n
    OBVIOUS
  <2>2. TwoTo[m + 1] = 2 * TwoTo[m] /\ TwoTo[(a + m) + 1] = 2 * TwoTo[a + m]
    BY <2>1, PowersOfTwo
  <2>3. TwoTo[a + m] = TwoTo[a] * TwoTo[m] /\ TwoTo[m] \in Nat
    BY <1>2, <2>1, PowersOfTwo
  <2> HIDE DEF m
  <2>4. 2 * (TwoTo[a] * TwoTo[m]) = TwoTo[a] * (2 * TwoTo[m])
    BY <1>0, <2>3
  <2> QED
    BY <2>1, <2>2, <2>3, <2>4
<1>3. b \in T
  <2> HIDE DEF T
  <2>1. \A n \in 0..b : n \in T
    BY <1>1, <1>2, BoundedInduction
  <2> QED
    BY <2>1
<1> QED
  BY <1>3
-----------------------------------------------------------------------------
(* The bits of a number.                                                   *)
BitAt(x, k) == (x \div TwoTo[k]) % 2

\* One bit more of the remainder.
LEMMA LowBits ==
    ASSUME NEW x \in Nat, NEW k \in Nat
    PROVE  /\ BitAt(x, k) \in {0, 1}
           /\ x % TwoTo[k] \in 0..TwoTo[k] - 1
           /\ x % TwoTo[k + 1] = (x % TwoTo[k]) + TwoTo[k] * BitAt(x, k)
<1> DEFINE p == TwoTo[k]
<1>1. p \in Nat \ {0} /\ TwoTo[k + 1] = p * 2
  BY PowersOfTwo
<1> HIDE DEF p
<1>2. x % (p * 2) = p * ((x \div p) % 2) + (x % p)
  <2>1. p \in Nat \ {0} /\ 2 \in Nat \ {0}
    BY <1>1
  <2> QED
    BY ZenonT(30), <2>1, DividedTwice
<1>3. x \div p \in Nat /\ x % p \in 0..p - 1
  BY <1>1, NaturalDivision
<1>4. (x \div p) % 2 \in {0, 1}
  BY <1>3
<1> DEFINE c == (x \div p) % 2
           r == x % p
<1> HIDE DEF c, r
<1>5. p * c + r = r + p * c
  BY <1>1, <1>3, <1>4 DEF c, r
<1>6. x % TwoTo[k + 1] = r + p * c
  BY <1>1, <1>2, <1>5 DEF c, r
<1> QED
  BY <1>3, <1>4, <1>6 DEF p, c, r, BitAt

\* A shift moves the bits.
LEMMA ShiftedBit ==
    ASSUME NEW x \in Nat, NEW s \in Nat, NEW k \in Nat
    PROVE  BitAt(x \div TwoTo[s], k) = BitAt(x, s + k)
<1>1. TwoTo[s] \in Nat \ {0} /\ TwoTo[k] \in Nat \ {0} /\ TwoTo[s + k] = TwoTo[s] * TwoTo[k]
  BY PowersOfTwo, PowersMultiply
<1>2. x \div (TwoTo[s] * TwoTo[k]) = (x \div TwoTo[s]) \div TwoTo[k]
  BY <1>1, DividedTwice
<1> QED
  BY <1>1, <1>2 DEF BitAt

\* A number has no bit beyond the powers above it.
LEMMA NoHighBit ==
    ASSUME NEW x \in Nat, NEW k \in Nat, x < TwoTo[k]
    PROVE  x \div TwoTo[k] = 0 /\ BitAt(x, k) = 0
<1> DEFINE p == TwoTo[k]
<1>1. p \in Nat \ {0}
  BY PowersOfTwo
<1> HIDE DEF p
<1>2. (p * 0 + x) \div p = 0
  BY <1>1, DivModUnique DEF p
<1>3. p * 0 + x = x
  BY <1>1
<1>4. x \div p = 0
  BY <1>2, <1>3
<1> QED
  BY <1>4 DEF BitAt, p

\* Two numbers, one put above the other, keep their bits.
LEMMA JoinedBits ==
    ASSUME NEW m \in Nat, NEW x \in Nat, x < TwoTo[m], NEW d \in Nat, NEW b \in Nat
    PROVE  BitAt(x + TwoTo[m] * d, b) = IF b < m THEN BitAt(x, b) ELSE BitAt(d, b - m)
<1> DEFINE p == TwoTo[m]
<1>1. p \in Nat \ {0} /\ p * d \in Nat
  BY PowersOfTwo
<1>2. CASE b < m
  <2> DEFINE k == m - b - 1
             q == TwoTo[b]
             r == TwoTo[k]
  <2>1. k \in Nat /\ m = b + (k + 1) /\ k + 1 \in Nat
    BY <1>2
  <2>2. q \in Nat \ {0} /\ r \in Nat \ {0} /\ TwoTo[k + 1] = 2 * r
    BY <2>1, PowersOfTwo
  <2>3. TwoTo[b + (k + 1)] = TwoTo[b] * TwoTo[k + 1]
    BY <2>1, PowersMultiply
  <2>4. p = q * (2 * r)
    BY <2>1, <2>2, <2>3
  <2> HIDE DEF p, q, r, k
  <2> DEFINE e == r * d
             f == 2 * e
  <2>5. e \in Nat /\ p * d = q * (2 * e)
    <3>1. (q * (2 * r)) * d = q * (2 * (r * d))
      BY <2>2
    <3> QED
      BY <2>2, <2>4, <3>1
  <2> HIDE DEF e
  <2>6. (x + q * (2 * e)) \div q = (x \div q) + 2 * e
    <3>1. f \in Nat
      BY <2>5
    <3> HIDE DEF f
    <3>2. (x + q * f) \div q = (x \div q) + f
      BY <2>2, <3>1, AddedMultiple
    <3> QED
      BY <3>2 DEF f
  <2>7. x \div q \in Nat
    BY <2>2, NaturalDivision
  <2> DEFINE y == x \div q
  <2> HIDE DEF y
  <2>8. (y + 2 * e) % 2 = y % 2
    BY <2>5, <2>7 DEF y
  <2> QED
    BY <1>2, <2>5, <2>6, <2>8 DEF BitAt, p, q, y
<1>3. CASE ~(b < m)
  <2>1. b - m \in Nat /\ m + (b - m) = b
    BY <1>3
  <2>2. BitAt((x + p * d) \div p, b - m) = BitAt(x + p * d, m + (b - m))
    <3> DEFINE y == x + p * d
               j == b - m
    <3>1. y \in Nat /\ j \in Nat
      BY <1>1, <2>1
    <3> HIDE DEF y, j
    <3>2. BitAt(y \div p, j) = BitAt(y, m + j)
      BY <3>1, ShiftedBit
    <3> QED
      BY <3>2 DEF y, j
  <2>3. (x + p * d) \div p = (x \div p) + d
    <3> HIDE DEF p
    <3> QED
      BY <1>1, AddedMultiple
  <2>4. x \div p = 0
    BY NoHighBit
  <2> HIDE DEF p
  <2>5. (x + p * d) \div p = d
    BY <2>3, <2>4
  <2> QED
    BY <1>3, <2>1, <2>2, <2>5 DEF p
<1> QED
  BY <1>2, <1>3

\* The bits of the n-th byte.
LEMMA Octets ==
    ASSUME NEW b \in Nat, NEW n \in Nat, n > 0
    PROVE  /\ b < 8 * (n - 1) => b \div 8 < n - 1
           /\ 8 * (n - 1) <= b /\ b < 8 * n => b \div 8 = n - 1 /\ b % 8 = b - 8 * (n - 1)
           /\ 8 * n <= b => b \div 8 >= n
           /\ b \div 8 \in Nat /\ b % 8 \in 0..7
  OBVIOUS

LEMMA ByteSize == TwoTo[8] = 256 /\ \A k \in Nat : k >= 8 => TwoTo[k] >= 256
<1>1. TwoTo[0] = 1 /\ \A k \in Nat : TwoTo[k + 1] = 2 * TwoTo[k]
  BY PowersOfTwo
<1>2. TwoTo[0 + 1] = 2
  BY <1>1
<1>3. TwoTo[1 + 1] = 4
  BY <1>1, <1>2
<1>4. TwoTo[2 + 1] = 8
  BY <1>1, <1>3
<1>5. TwoTo[3 + 1] = 16
  BY <1>1, <1>4
<1>6. TwoTo[4 + 1] = 32
  BY <1>1, <1>5
<1>7. TwoTo[5 + 1] = 64
  BY <1>1, <1>6
<1>8. TwoTo[6 + 1] = 128
  BY <1>1, <1>7
<1>9. TwoTo[7 + 1] = 256
  BY <1>1, <1>8
<1>10. ASSUME NEW k \in Nat, k >= 8 PROVE TwoTo[k] >= 256
  <2> DEFINE j == k - 8
  <2>1. j \in Nat /\ 8 + j = k
    BY <1>10
  <2>2. TwoTo[8 + j] = TwoTo[8] * TwoTo[j] /\ TwoTo[j] \in Nat \ {0}
    BY <2>1, PowersMultiply, PowersOfTwo
  <2> HIDE DEF j
  <2>3. 256 * TwoTo[j] >= 256
    BY <2>2
  <2> QED
    BY <1>9, <2>1, <2>2, <2>3
<1> QED
  BY <1>9, <1>10
-----------------------------------------------------------------------------
(* The number that the bytes of a frame are read as.                       *)
Bytes == 0..255

\* int.from_bytes, byte by byte.
LEMMA BytesLoop ==
    ASSUME NEW data \in Seq(Bytes)
    PROVE  LET L == Len(data)
           IN  \E u \in [0..L -> Nat] :
                 /\ u[0] = 0 /\ RawInt(data) = u[L]
                 /\ \A n \in 1..L : u[n] = u[n - 1] + data[n] * TwoTo[8 * (n - 1)]
<1> DEFINE L == Len(data)
           Step(x, n) == x + data[n] * TwoTo[8 * (n - 1)]
           step == [n \in 1..L |-> [x \in Nat |-> Step(x, n)]]
           Eq(g) == [n \in 0..L |-> IF n = 0 THEN 0 ELSE Step(g[n - 1], n)]
           upTo == CHOOSE g : g = Eq(g)
<1>1. L \in Nat
  OBVIOUS
<1>2. RawInt(data) = upTo[L]
  BY DEF RawInt
<1>3. step \in [1..L -> [Nat -> Nat]]
  <2>1. ASSUME NEW n \in 1..L, NEW x \in Nat PROVE Step(x, n) \in Nat
    <3>0. data[n] \in Bytes /\ n \in Nat /\ n >= 1
      BY <1>1
    <3>1. data[n] \in Nat /\ 8 * (n - 1) \in Nat
      <4> DEFINE d == data[n]
      <4>1. d \in 0..255
        BY <3>0 DEF Bytes
      <4> HIDE DEF d
      <4>2. d \in Nat /\ 8 * (n - 1) \in Nat
        BY <3>0, <4>1
      <4> QED
        BY <4>2 DEF d
    <3>2. TwoTo[8 * (n - 1)] \in Nat
      BY <3>1, Positive
    <3>3. data[n] * TwoTo[8 * (n - 1)] \in Nat
      BY <3>1, <3>2
    <3> QED
      BY <3>3
  <2> HIDE DEF Step
  <2> QED
    BY <2>1
<1> HIDE DEF L
<1>4. PICK u : Stepwise(u, L, Nat, 0, step)
  <2> HIDE DEF step
  <2> QED
    BY <1>1, <1>3, Recursion
<1>5. u \in [0..L -> Nat] /\ u[0] = 0
  BY <1>4 DEF Stepwise
<1>6. ASSUME NEW n \in 1..L PROVE u[n] = Step(u[n - 1], n)
  <2>1. u[n - 1] \in Nat
    BY <1>1, <1>5
  <2>2. u[n] = step[n][u[n - 1]]
    BY <1>4 DEF Stepwise
  <2> HIDE DEF Step
  <2> QED
    BY <2>1, <2>2
<1> HIDE DEF Step, step
<1>7. u = Eq(u)
  BY <1>1, <1>5, <1>6
<1>8. upTo = Eq(upTo)
  <2>1. \E g : g = Eq(g)
    BY <1>7
  <2> QED
    BY <2>1
<1> HIDE DEF upTo
<1> DEFINE T == {n \in 0..L : upTo[n] = u[n]}
<1>9. 0 \in T
  BY <1>1, <1>5, <1>8
<1>10. ASSUME NEW n \in 1..L, n - 1 \in T PROVE n \in T
  <2>1. upTo[n] = Step(upTo[n - 1], n)
    BY <1>1, <1>8
  <2> QED
    BY <1>6, <1>10, <2>1
<1>11. L \in T
  <2> HIDE DEF T
  <2>1. \A n \in 0..L : n \in T
    BY <1>1, <1>9, <1>10, BoundedInduction
  <2> QED
    BY <1>1, <2>1
<1> QED
  BY <1>2, <1>5, <1>6, <1>11 DEF L, Step

\* It has the bits of the bytes, in their order, and no others.
LEMMA BitsOfBytes ==
    ASSUME NEW data \in Seq(Bytes)
    PROVE  /\ RawInt(data) \in Nat /\ RawInt(data) < TwoTo[8 * Len(data)]
           /\ \A b \in Nat : BitAt(RawInt(data), b) = Bit(data, b)
<1> DEFINE L == Len(data)
<1>1. L \in Nat /\ \A n \in 1..L : data[n] \in Bytes
  OBVIOUS
<1>2. PICK u \in [0..L -> Nat] :
        /\ u[0] = 0 /\ RawInt(data) = u[L]
        /\ \A n \in 1..L : u[n] = u[n - 1] + data[n] * TwoTo[8 * (n - 1)]
  BY BytesLoop
<1> HIDE DEF L
<1> DEFINE Upto(b, n) == IF b \div 8 < n THEN (data[b \div 8 + 1] \div TwoTo[b % 8]) % 2 ELSE 0
           Joined(n) == u[n] < TwoTo[8 * n] /\ \A b \in Nat : BitAt(u[n], b) = Upto(b, n)
           T == {n \in 0..L : Joined(n)}
<1>3. 0 \in T
  <2>1. 8 * 0 = 0 /\ TwoTo[0] = 1
    BY PowersOfTwo
  <2>2. ASSUME NEW b \in Nat PROVE BitAt(u[0], b) = 0 /\ ~(b \div 8 < 0)
    <3>1. TwoTo[b] \in Nat /\ TwoTo[b] > 0
      BY Positive
    <3> QED
      BY <1>2, <3>1, NoHighBit
  <2> QED
    BY <1>1, <1>2, <2>1, <2>2
<1>4. ASSUME NEW n \in 1..L, n - 1 \in T PROVE n \in T
  <2> DEFINE m == 8 * (n - 1)
             M == TwoTo[m]
             x == u[n - 1]
             d == data[n]
  <2>1. m \in Nat /\ n \in Nat /\ n > 0 /\ n - 1 \in 0..L /\ m + 8 = 8 * n
    BY <1>1
  <2>2. x \in Nat /\ d \in 0..255
    BY <1>1, <1>2, <2>1 DEF Bytes
  <2>3. u[n] = x + d * M
    BY <1>2
  <2>4. Joined(n - 1)
    <3> HIDE DEF Joined
    <3> QED
      BY <1>4
  <2>5. x < M /\ \A b \in Nat : BitAt(x, b) = Upto(b, n - 1)
    <3> HIDE DEF Upto, BitAt
    <3> QED
      BY <2>4
  <2> HIDE DEF x
  <2>6. M \in Nat \ {0} /\ TwoTo[m + 8] = M * TwoTo[8] /\ TwoTo[8] = 256
    <3> HIDE DEF m
    <3>1. M \in Nat /\ M > 0
      BY <2>1, Positive
    <3>2. m \in Nat /\ 8 \in Nat
      BY <2>1
    <3>3. TwoTo[m + 8] = TwoTo[m] * TwoTo[8]
      BY <3>2, PowersMultiply
    <3>4. TwoTo[8] = 256
      BY ByteSize
    <3> QED
      BY <3>1, <3>3, <3>4
  <2>7. TwoTo[8 * n] = M * 256
    <3> HIDE DEF M, m
    <3> QED
      BY <2>1, <2>6
  <2> HIDE DEF d
  <2>8. d * M = M * d /\ M * d \in Nat /\ M * d <= M * 255
    <3> HIDE DEF M
    <3> QED
      BY <2>2, <2>6
  <2>9. u[n] = x + M * d
    BY <2>3, <2>8
  <2>10. u[n] < TwoTo[8 * n]
    <3> DEFINE h == M * d
    <3>1. h \in Nat /\ h <= M * 255 /\ u[n] = x + h
      BY <2>8, <2>9
    <3>2. x < M
      BY <2>5
    <3> HIDE DEF M, h
    <3>3. x + h < M * 256
      BY <2>2, <2>6, <3>1, <3>2
    <3> QED
      BY <2>7, <3>1, <3>3
  <2>11. ASSUME NEW b \in Nat PROVE BitAt(u[n], b) = Upto(b, n)
    <3>1. BitAt(x + M * d, b) = IF b < m THEN BitAt(x, b) ELSE BitAt(d, b - m)
      <4>1. d \in Nat
        BY <2>2
      <4> HIDE DEF m
      <4> QED
        BY <2>1, <2>2, <2>5, <4>1, JoinedBits
    <3>2. /\ b < m => b \div 8 < n - 1
          /\ m <= b /\ b < 8 * n => b \div 8 = n - 1 /\ b % 8 = b - m
          /\ 8 * n <= b => b \div 8 >= n
          /\ b \div 8 \in Nat
      BY <2>1, Octets
    <3> HIDE DEF M
    <3>3. CASE b < m
      <4>1. b \div 8 < n - 1 /\ b \div 8 < n
        BY <2>1, <3>2, <3>3
      <4>2. BitAt(u[n], b) = Upto(b, n - 1)
        BY <2>5, <2>9, <3>1, <3>3
      <4> QED
        BY <4>1, <4>2
    <3>4. CASE m <= b /\ b < 8 * n
      <4>1. ~(b < m) /\ b \div 8 < n /\ b \div 8 + 1 = n /\ b % 8 = b - m
        BY <2>1, <3>2, <3>4
      <4>2. BitAt(u[n], b) = BitAt(d, b % 8)
        BY <2>9, <3>1, <4>1
      <4> QED
        BY <4>1, <4>2 DEF BitAt, d
    <3>5. CASE 8 * n <= b
      <4>1. ~(b < m) /\ ~(b \div 8 < n) /\ b - m \in Nat /\ b - m >= 8
        BY <2>1, <3>2, <3>5
      <4> DEFINE k == b - m
      <4>2. k \in Nat /\ k >= 8
        BY <4>1
      <4> HIDE DEF k, m
      <4>3. TwoTo[k] >= 256 /\ TwoTo[k] \in Nat
        BY <4>2, ByteSize, PowersOfTwo
      <4>4. d \in Nat /\ d < TwoTo[k]
        BY <2>2, <4>3
      <4>5. BitAt(d, k) = 0
        BY <4>2, <4>4, NoHighBit
      <4> QED
        BY <2>9, <3>1, <4>1, <4>5 DEF k
    <3> QED
      BY <2>1, <3>3, <3>4, <3>5
  <2> HIDE DEF M, m, Upto
  <2> QED
    BY <2>10, <2>11
<1>5. Joined(L)
  <2>1. L \in T
    <3> HIDE DEF T
    <3>1. \A n \in 0..L : n \in T
      BY <1>1, <1>3, <1>4, BoundedInduction
    <3> QED
      BY <1>1, <3>1
  <2> QED
    BY <2>1
<1>6. L = Len(data) /\ u[L] \in Nat
  BY <1>1, <1>2 DEF L
<1>7. \A b \in Nat : Upto(b, L) = Bit(data, b)
  BY <1>6 DEF Bit
<1> HIDE DEF Upto
<1> QED
  BY <1>2, <1>5, <1>6, <1>7
-----------------------------------------------------------------------------
(* The places of the bits.                                                 *)
LEMMA Places ==
    ASSUME NEW b \in Nat
    PROVE  /\ Place(b) \in Nat /\ Place(Place(b)) = b
           /\ Following(b) \in Nat /\ Place(Following(b)) = Place(b) + 1
<1> DEFINE q == b \div 8
           r == b % 8
<1>1. q \in Nat /\ r \in 0..7 /\ b = 8 * q + r
  BY NaturalDivision
<1> HIDE DEF q, r
<1>2. Place(b) = 8 * q + (7 - r)
  BY DEF Place, q, r
<1>3. ASSUME NEW i \in Nat, NEW j \in 0..7 PROVE Place(8 * i + j) = 8 * i + (7 - j)
  <2>1. (8 * i + j) \div 8 = i /\ (8 * i + j) % 8 = j
    BY DivModUnique
  <2> QED
    BY <2>1 DEF Place
<1>4. 7 - r \in 0..7 /\ 7 - (7 - r) = r
  BY <1>1
<1>5. Place(8 * q + (7 - r)) = 8 * q + (7 - (7 - r))
  BY <1>1, <1>3, <1>4
<1>6. Following(b) \in Nat /\ Place(Following(b)) = Place(b) + 1
  <2>1. Following(b) = IF r = 0 THEN b + 15 ELSE b - 1
    BY DEF Following, r
  <2>2. CASE r = 0
    <3>1. Following(b) = 8 * (q + 1) + 7
      BY <1>1, <2>1, <2>2
    <3>2. Place(8 * (q + 1) + 7) = 8 * (q + 1) + (7 - 7)
      <4> DEFINE i == q + 1
      <4>1. i \in Nat /\ 7 \in 0..7
        BY <1>1
      <4> HIDE DEF i
      <4>2. Place(8 * i + 7) = 8 * i + (7 - 7)
        BY <1>3, <4>1
      <4> QED
        BY <4>2 DEF i
    <3> QED
      BY <1>1, <1>2, <2>2, <3>1, <3>2
  <2>3. CASE r # 0
    <3>1. Following(b) = 8 * q + (r - 1) /\ r - 1 \in 0..7
      BY <1>1, <2>1, <2>3
    <3>2. Place(8 * q + (r - 1)) = 8 * q + (7 - (r - 1))
      BY <1>1, <1>3, <3>1
    <3> QED
      BY <1>1, <1>2, <3>1, <3>2
  <2> QED
    BY <2>2, <2>3
<1> QED
  BY <1>1, <1>2, <1>4, <1>5, <1>6

\* The bit after a place is at the place after it.
LEMMA NextPlace ==
    ASSUME NEW c \in Nat
    PROVE  Place(c) \in Nat /\ Following(Place(c)) = Place(c + 1)
<1>1. Place(c) \in Nat /\ Place(Place(c)) = c
  BY Places
<1> DEFINE b == Place(c)
           f == Following(b)
<1>2. b \in Nat
  BY <1>1
<1> HIDE DEF b
<1>3. f \in Nat /\ Place(f) = Place(b) + 1
  BY <1>2, Places
<1> HIDE DEF f
<1>4. Place(Place(f)) = f
  BY <1>3, Places
<1>5. Place(b) = c
  BY <1>1 DEF b
<1> QED
  BY <1>1, <1>3, <1>4, <1>5 DEF b, f
-----------------------------------------------------------------------------
(* The value of bits by their weights.                                     *)
IsLayout(l) == /\ l.start \in Nat /\ l.length \in Nat \ {0}
               /\ l.order \in {"little", "big"} /\ l.signed \in BOOLEAN

IsSum(u, data, l) ==
    /\ u \in [0..l.length -> Nat] /\ u[0] = 0
    /\ \A k \in 1..l.length :
         u[k] = u[k - 1] + TwoTo[k - 1] * Bit(data, BitOfWeight(l, k - 1))

LEMMA BitIsBit ==
    ASSUME NEW data \in Seq(Bytes), NEW b \in Nat
    PROVE  Bit(data, b) \in {0, 1}
<1>1. RawInt(data) \in Nat /\ BitAt(RawInt(data), b) = Bit(data, b)
  BY BitsOfBytes
<1> DEFINE x == RawInt(data)
<1>2. x \in Nat
  BY <1>1
<1> HIDE DEF x
<1>3. BitAt(x, b) \in {0, 1}
  BY <1>2, LowBits
<1> QED
  BY <1>1, <1>3 DEF x

LEMMA BitsWeighed ==
    ASSUME NEW data \in Seq(Bytes), NEW l, IsLayout(l), NEW k \in 0..l.length - 1
    PROVE  /\ BitOfWeight(l, k) \in Nat
           /\ Bit(data, BitOfWeight(l, k)) \in {0, 1}
<1> DEFINE c == Place(l.start) + l.length - 1 - k
<1>1. l.start \in Nat /\ l.length \in Nat
  BY DEF IsLayout
<1>2. Place(l.start) \in Nat
  BY <1>1, Places
<1>3. c \in Nat /\ l.start + k \in Nat
  BY <1>1, <1>2
<1> HIDE DEF c
<1>4. Place(c) \in Nat
  BY <1>3, Places
<1>5. BitOfWeight(l, k) = IF l.order = "little" THEN l.start + k ELSE Place(c)
  BY DEF BitOfWeight, c
<1>6. BitOfWeight(l, k) \in Nat
  BY <1>3, <1>4, <1>5
<1> QED
  BY <1>6, BitIsBit

\* There is such a sum, whatever the bits.
LEMMA SumExists ==
    ASSUME NEW data \in Seq(Bytes), NEW l, IsLayout(l)
    PROVE  \E u : IsSum(u, data, l)
<1> DEFINE L == l.length
           Step(x, n) == x + TwoTo[n - 1] * Bit(data, BitOfWeight(l, n - 1))
           step == [n \in 1..L |-> [x \in Nat |-> Step(x, n)]]
<1>1. L \in Nat
  BY DEF IsLayout
<1>2. step \in [1..L -> [Nat -> Nat]]
  <2>1. ASSUME NEW n \in 1..L, NEW x \in Nat PROVE Step(x, n) \in Nat
    <3> DEFINE k == n - 1
    <3>1. k \in 0..L - 1 /\ k \in Nat
      BY <1>1
    <3> HIDE DEF k
    <3>2. Bit(data, BitOfWeight(l, k)) \in {0, 1} /\ TwoTo[k] \in Nat
      BY <3>1, BitsWeighed, Positive
    <3>3. x + TwoTo[k] * Bit(data, BitOfWeight(l, k)) \in Nat
      BY <3>2
    <3> QED
      BY <3>3 DEF k
  <2> HIDE DEF Step, L
  <2> QED
    BY <2>1
<1>3. PICK u : Stepwise(u, L, Nat, 0, step)
  <2> HIDE DEF step, L
  <2> QED
    BY <1>1, <1>2, Recursion
<1>4. u \in [0..L -> Nat] /\ u[0] = 0
  BY <1>3 DEF Stepwise
<1>5. ASSUME NEW n \in 1..L PROVE u[n] = Step(u[n - 1], n)
  <2>1. u[n - 1] \in Nat
    BY <1>1, <1>4
  <2>2. u[n] = step[n][u[n - 1]]
    BY <1>3 DEF Stepwise
  <2> HIDE DEF Step, L
  <2> QED
    BY <2>1, <2>2
<1> QED
  BY <1>4, <1>5 DEF IsSum

\* Its first k bits are below 2^k.
LEMMA SumBounded ==
    ASSUME NEW data \in Seq(Bytes), NEW l, IsLayout(l), NEW u, IsSum(u, data, l)
    PROVE  \A k \in 0..l.length : u[k] \in Nat /\ u[k] < TwoTo[k]
<1> DEFINE L == l.length
           T == {k \in 0..L : u[k] < TwoTo[k]}
<1>1. L \in Nat /\ u \in [0..L -> Nat] /\ u[0] = 0
  BY DEF IsLayout, IsSum
<1>2. 0 \in T
  <2>1. TwoTo[0] = 1
    BY PowersOfTwo
  <2> QED
    BY <1>1, <2>1
<1>3. ASSUME NEW n \in 1..L, n - 1 \in T PROVE n \in T
  <2> DEFINE k == n - 1
             b == Bit(data, BitOfWeight(l, k))
             p == TwoTo[k]
  <2>1. k \in 0..L - 1 /\ k \in Nat /\ k + 1 = n /\ u[k] \in Nat
    BY <1>1
  <2>2. u[k] < p /\ u[n] = u[k] + p * b
    BY <1>3 DEF IsSum
  <2>3. p \in Nat /\ TwoTo[n] = 2 * p
    <3> HIDE DEF k
    <3> QED
      BY <2>1, PowersOfTwo
  <2>4. b \in {0, 1}
    <3> HIDE DEF k
    <3> QED
      BY <2>1, BitsWeighed
  <2> HIDE DEF b, p
  <2>5. p * b \in Nat /\ p * b <= p
    BY <2>3, <2>4
  <2>6. u[n] < TwoTo[n]
    BY <2>1, <2>2, <2>3, <2>5
  <2> QED
    BY <2>6
<1>4. \A k \in 0..L : k \in T
  <2> HIDE DEF T, L
  <2> QED
    BY <1>1, <1>2, <1>3, BoundedInduction
<1> QED
  BY <1>1, <1>4

\* A number with these bits is their sum, up to the length.
LEMMA SumOfNumber ==
    ASSUME NEW data \in Seq(Bytes), NEW l, IsLayout(l), NEW u, IsSum(u, data, l), NEW y \in Nat,
           \A k \in 0..l.length - 1 : BitAt(y, k) = Bit(data, BitOfWeight(l, k))
    PROVE  y % TwoTo[l.length] = u[l.length]
<1> DEFINE L == l.length
           T == {k \in 0..L : y % TwoTo[k] = u[k]}
<1>1. L \in Nat /\ u \in [0..L -> Nat] /\ u[0] = 0
  BY DEF IsLayout, IsSum
<1>2. 0 \in T
  <2>1. TwoTo[0] = 1 /\ y % 1 = 0
    BY PowersOfTwo
  <2> QED
    BY <1>1, <2>1
<1>3. ASSUME NEW n \in 1..L, n - 1 \in T PROVE n \in T
  <2> DEFINE k == n - 1
  <2>1. k \in 0..L - 1 /\ k \in Nat /\ k + 1 = n
    BY <1>1
  <2>2. y % TwoTo[k] = u[k]
    BY <1>3
  <2>3. u[n] = u[k] + TwoTo[k] * Bit(data, BitOfWeight(l, k))
    BY DEF IsSum
  <2> HIDE DEF k
  <2>4. y % TwoTo[k + 1] = (y % TwoTo[k]) + TwoTo[k] * BitAt(y, k)
    BY <2>1, LowBits
  <2>5. BitAt(y, k) = Bit(data, BitOfWeight(l, k))
    BY <2>1
  <2> QED
    BY <2>1, <2>2, <2>3, <2>4, <2>5
<1>4. \A k \in 0..L : k \in T
  <2> HIDE DEF T, L
  <2> QED
    BY <1>1, <1>2, <1>3, BoundedInduction
<1> QED
  BY <1>1, <1>4

\* The value of the bits, the highest of which counts against the others when
\* the signal has a sign.
LEMMA TwosComplement ==
    ASSUME NEW data \in Seq(Bytes), NEW l, IsLayout(l), NEW u, IsSum(u, data, l)
    PROVE  Meant(data, l) = LET value == u[l.length]
                            IN  IF l.signed /\ value >= TwoTo[l.length - 1]
                                THEN value - TwoTo[l.length] ELSE value
<1> DEFINE L == l.length
           B(k) == Bit(data, BitOfWeight(l, k))
           Step(x, k) == x + Weight(l, k - 1) * B(k - 1)
           Eq(g) == [k \in 0..L |-> IF k = 0 THEN 0 ELSE Step(g[k - 1], k)]
           sum == CHOOSE g : g = Eq(g)
           low == u[L - 1]
           b == B(L - 1)
           p == TwoTo[L - 1]
           w == [k \in 0..L |-> IF k = L /\ l.signed THEN low - p * b ELSE u[k]]
<1>1. /\ L \in Nat /\ L > 0 /\ L - 1 \in Nat /\ u \in [0..L -> Nat] /\ u[0] = 0
      /\ \A k \in 1..L : u[k] = u[k - 1] + TwoTo[k - 1] * B(k - 1)
  BY DEF IsLayout, IsSum
<1>2. \A k \in 0..L - 1 : B(k) \in {0, 1}
  BY BitsWeighed
<1>3. \A k \in 0..L - 1 : TwoTo[k] \in Nat
  BY Positive
<1>4. Meant(data, l) = sum[L]
  BY DEF Meant
<1> HIDE DEF B, L
<1>5. L - 1 \in 0..L - 1 /\ (L - 1) + 1 = L
  BY <1>1
<1>6. b \in {0, 1} /\ low \in Nat /\ p \in Nat
  BY <1>1, <1>2, <1>3, <1>5
<1>7. low < p /\ TwoTo[L] = 2 * p /\ u[L] = low + p * b
  <2>1. u[L - 1] < TwoTo[L - 1]
    <3>1. \A k \in 0..L : u[k] < TwoTo[k]
      BY SumBounded DEF L
    <3>2. L - 1 \in 0..L
      BY <1>1
    <3> QED
      BY <3>1, <3>2
  <2>2. TwoTo[(L - 1) + 1] = 2 * TwoTo[L - 1]
    BY <1>1, PowersOfTwo
  <2>3. u[L] = u[L - 1] + TwoTo[L - 1] * B(L - 1)
    BY <1>1
  <2> QED
    BY <1>5, <2>1, <2>2, <2>3
<1>8. ASSUME NEW k \in 1..L PROVE w[k] = Step(w[k - 1], k)
  <2>1. k \in 0..L /\ k - 1 \in 0..L /\ k - 1 # L /\ k - 1 \in 0..L - 1
    BY <1>1
  <2>2. w[k - 1] = u[k - 1] /\ u[k - 1] \in Nat
    BY <1>1, <2>1
  <2>3. CASE k = L /\ l.signed
    <3>1. w[k] = low - p * b
      BY <2>1, <2>3
    <3>2. Weight(l, k - 1) = -p
      BY <2>3 DEF Weight, L
    <3>3. B(k - 1) = b /\ u[k - 1] = low
      BY <2>3
    <3> HIDE DEF b, p, low
    <3>4. low + (-p) * b = low - p * b
      BY <1>6
    <3> QED
      BY <2>2, <3>1, <3>2, <3>3, <3>4
  <2>4. CASE ~(k = L /\ l.signed)
    <3>1. w[k] = u[k]
      BY <2>1, <2>4
    <3>2. Weight(l, k - 1) = TwoTo[k - 1]
      BY <1>1, <2>4 DEF Weight, L
    <3> QED
      BY <1>1, <2>2, <3>1, <3>2
  <2> QED
    BY <2>3, <2>4
<1>9. w[0] = 0
  BY <1>1
<1> HIDE DEF b, p, low, Step
<1>10. w = Eq(w)
  <2>1. \A k \in 0..L : w[k] = IF k = 0 THEN 0 ELSE Step(w[k - 1], k)
    <3> HIDE DEF w
    <3>1. \A k \in 0..L : k # 0 => k \in 1..L
      BY <1>1
    <3> QED
      BY <1>8, <1>9, <3>1
  <2> HIDE DEF w
  <2>2. w = [k \in 0..L |-> w[k]]
    BY DEF w
  <2> QED
    BY <2>1, <2>2
<1>11. sum = Eq(sum)
  <2> HIDE DEF w, Eq
  <2>1. \E g : g = Eq(g)
    BY <1>10
  <2> QED
    BY <2>1
<1>12. sum[L] = w[L]
  <2> HIDE DEF w, sum
  <2> DEFINE T == {k \in 0..L : sum[k] = w[k]}
  <2>1. 0 \in T
    BY <1>1, <1>9, <1>11
  <2>2. ASSUME NEW k \in 1..L, k - 1 \in T PROVE k \in T
    <3>1. sum[k] = Step(sum[k - 1], k)
      BY <1>1, <1>11
    <3> QED
      BY <1>8, <2>2, <3>1
  <2>3. L \in T
    <3> HIDE DEF T
    <3>1. \A k \in 0..L : k \in T
      BY <1>1, <2>1, <2>2, BoundedInduction
    <3> QED
      BY <1>1, <3>1
  <2> QED
    BY <2>3
<1>13. w[L] = IF l.signed THEN low - p * b ELSE u[L]
  BY <1>1
<1>14. low - p * b = IF u[L] >= p THEN u[L] - TwoTo[L] ELSE u[L]
  BY <1>6, <1>7
<1>15. TwoTo[L - 1] = p
  BY DEF p
<1> HIDE DEF w, sum
<1> QED
  BY <1>4, <1>12, <1>13, <1>14, <1>15 DEF L
-----------------------------------------------------------------------------
(* What _extract_dbc_signal computes.                                      *)
LEMMA LittleEndian ==
    ASSUME NEW data \in Seq(Bytes), NEW l, IsLayout(l), l.order = "little",
           NEW u, IsSum(u, data, l)
    PROVE  Unsigned(data, l) = u[l.length]
<1> DEFINE x == RawInt(data)
           y == x \div TwoTo[l.start]
<1>1. x \in Nat /\ \A b \in Nat : BitAt(x, b) = Bit(data, b)
  BY BitsOfBytes
<1>2. l.start \in Nat /\ l.length \in Nat
  BY DEF IsLayout
<1> HIDE DEF x
<1>3. y \in Nat
  <2> DEFINE p == TwoTo[l.start]
  <2>1. p \in Nat /\ p > 0
    BY <1>2, Positive
  <2> HIDE DEF p
  <2>2. p \in Nat \ {0}
    BY <2>1
  <2>3. x \div p \in Nat
    BY <1>1, <2>2, NaturalDivision
  <2> QED
    BY <2>3 DEF p
<1>4. ASSUME NEW k \in 0..l.length - 1 PROVE BitAt(y, k) = Bit(data, BitOfWeight(l, k))
  <2>1. k \in Nat /\ l.start + k \in Nat
    BY <1>2
  <2>2. BitAt(y, k) = BitAt(x, l.start + k)
    BY <1>1, <1>2, <2>1, ShiftedBit
  <2> QED
    BY <1>1, <2>1, <2>2 DEF BitOfWeight
<1> HIDE DEF y
<1>5. y % TwoTo[l.length] = u[l.length]
  BY <1>3, <1>4, SumOfNumber
<1> QED
  BY <1>5 DEF Unsigned, x, y

\* A Motorola signal is collected from the bits in their order of transmission.
LEMMA CollectedLoop ==
    ASSUME NEW data \in Seq(Bytes), NEW l, IsLayout(l)
    PROVE  \E v \in [0..l.length -> Nat] :
             /\ v[0] = 0 /\ Collected(data, l) = v[l.length]
             /\ \A n \in 1..l.length : v[n] = 2 * v[n - 1] + Bit(data, Place(Place(l.start) + (n - 1)))
<1> DEFINE L == l.length
           a == Place(l.start)
           BitEq(g) == [n \in 0..(L - 1) |-> IF n = 0 THEN l.start ELSE Following(g[n - 1])]
           bit == CHOOSE g : g = BitEq(g)
           place == [n \in 0..(L - 1) |-> Place(a + n)]
           Eq(g) == [n \in 0..L |-> IF n = 0 THEN 0 ELSE 2 * g[n - 1] + Bit(data, bit[n - 1])]
           value == CHOOSE g : g = Eq(g)
<1>1. L \in Nat /\ L > 0 /\ l.start \in Nat
  BY DEF IsLayout
<1>2. a \in Nat /\ Place(a) = l.start
  BY <1>1, Places
<1>3. Collected(data, l) = value[L]
  BY DEF Collected
<1> HIDE DEF L, a
<1>4. place[0] = l.start
  BY <1>1, <1>2
<1>5. ASSUME NEW n \in 1..(L - 1) PROVE place[n] = Following(place[n - 1])
  <2>1. n \in 0..(L - 1) /\ n - 1 \in 0..(L - 1) /\ a + (n - 1) \in Nat /\ (a + (n - 1)) + 1 = a + n
    BY <1>1, <1>2
  <2>2. place[n] = Place(a + n) /\ place[n - 1] = Place(a + (n - 1))
    BY <2>1
  <2>3. Following(Place(a + (n - 1))) = Place((a + (n - 1)) + 1)
    BY <2>1, NextPlace
  <2> QED
    BY <2>1, <2>2, <2>3
<1>6. place = BitEq(place)
  <2>1. \A n \in 0..(L - 1) : place[n] = IF n = 0 THEN l.start ELSE Following(place[n - 1])
    <3> HIDE DEF place
    <3>1. \A n \in 0..(L - 1) : n # 0 => n \in 1..(L - 1)
      BY <1>1
    <3> QED
      BY <1>4, <1>5, <3>1
  <2> HIDE DEF place
  <2>2. place = [n \in 0..(L - 1) |-> place[n]]
    BY DEF place
  <2> QED
    BY <2>1, <2>2
<1>7. bit = BitEq(bit)
  <2> HIDE DEF place, BitEq
  <2>1. \E g : g = BitEq(g)
    BY <1>6
  <2> QED
    BY <2>1
<1>8. \A n \in 0..(L - 1) : bit[n] = place[n]
  <2> HIDE DEF place, bit
  <2> DEFINE T == {n \in 0..(L - 1) : bit[n] = place[n]}
             K == L - 1
  <2>0. K \in Nat /\ 0 \in 0..K
    BY <1>1
  <2>1. 0 \in T
    BY <1>4, <1>7, <2>0
  <2>2. ASSUME NEW n \in 1..K, n - 1 \in T PROVE n \in T
    <3>1. n \in 0..(L - 1) /\ n # 0
      BY <2>0
    <3>2. bit[n] = Following(bit[n - 1])
      BY <1>7, <3>1
    <3> QED
      BY <1>5, <2>2, <3>1, <3>2
  <2> HIDE DEF T
  <2>3. \A n \in 0..K : n \in T
    <3> HIDE DEF K
    <3> QED
      BY <2>0, <2>1, <2>2, BoundedInduction
  <2> QED
    BY <2>3 DEF T
<1>9. \A n \in 0..(L - 1) : bit[n] = Place(a + n) /\ Bit(data, Place(a + n)) \in {0, 1}
  <2>1. ASSUME NEW n \in 0..(L - 1) PROVE Bit(data, Place(a + n)) \in {0, 1}
    <3>1. a + n \in Nat
      BY <1>1, <1>2
    <3>2. Place(a + n) \in Nat
      BY <3>1, NextPlace
    <3> QED
      BY <3>2, BitIsBit
  <2> QED
    BY <1>8, <2>1
<1> HIDE DEF bit
<1> DEFINE B(n) == Bit(data, Place(a + (n - 1)))
           step == [n \in 1..L |-> [x \in Nat |-> 2 * x + B(n)]]
<1>10. \A n \in 1..L : B(n) \in {0, 1} /\ bit[n - 1] = Place(a + (n - 1))
  <2>1. \A n \in 1..L : n - 1 \in 0..(L - 1)
    BY <1>1
  <2> QED
    BY <1>9, <2>1
<1> HIDE DEF B
<1>11. step \in [1..L -> [Nat -> Nat]]
  BY <1>10
<1>12. PICK v : Stepwise(v, L, Nat, 0, step)
  <2> HIDE DEF step
  <2> QED
    BY <1>1, <1>11, Recursion
<1>13. v \in [0..L -> Nat] /\ v[0] = 0
  BY <1>12 DEF Stepwise
<1>14. ASSUME NEW n \in 1..L PROVE v[n] = 2 * v[n - 1] + B(n)
  <2>1. v[n - 1] \in Nat
    BY <1>1, <1>13
  <2>2. v[n] = step[n][v[n - 1]]
    BY <1>12 DEF Stepwise
  <2> QED
    BY <2>1, <2>2
<1>15. ASSUME NEW n \in 1..L PROVE Bit(data, bit[n - 1]) = B(n)
  BY <1>10 DEF B
<1> HIDE DEF step
<1>16. v = Eq(v)
  <2>1. \A n \in 0..L : v[n] = IF n = 0 THEN 0 ELSE 2 * v[n - 1] + Bit(data, bit[n - 1])
    BY <1>1, <1>13, <1>14, <1>15
  <2>2. v = [n \in 0..L |-> v[n]]
    BY <1>13
  <2> QED
    BY <2>1, <2>2
<1>17. value = Eq(value)
  <2> HIDE DEF Eq
  <2>1. \E g : g = Eq(g)
    BY <1>16
  <2> QED
    BY <2>1
<1>18. value[L] = v[L]
  <2> HIDE DEF value
  <2> DEFINE T == {n \in 0..L : value[n] = v[n]}
  <2>1. 0 \in T
    BY <1>1, <1>13, <1>17
  <2>2. ASSUME NEW n \in 1..L, n - 1 \in T PROVE n \in T
    <3>1. value[n] = 2 * value[n - 1] + Bit(data, bit[n - 1])
      BY <1>1, <1>17
    <3> QED
      BY <1>14, <1>15, <2>2, <3>1
  <2>3. L \in T
    <3> HIDE DEF T
    <3>1. \A n \in 0..L : n \in T
      BY <1>1, <2>1, <2>2, BoundedInduction
    <3> QED
      BY <1>1, <3>1
  <2> QED
    BY <2>3
<1> HIDE DEF value
<1> QED
  BY <1>3, <1>13, <1>14, <1>18 DEF L, B, a

\* A number below a power of two is its own remainder.
LEMMA SmallRemainder ==
    ASSUME NEW x \in Nat, NEW k \in Nat, x < TwoTo[k]
    PROVE  x % TwoTo[k] = x
<1> DEFINE p == TwoTo[k]
<1>1. p \in Nat /\ p > 0
  BY Positive
<1> HIDE DEF p
<1>2. (p * 0 + x) % p = x
  BY <1>1, DivModUnique DEF p
<1>3. p * 0 + x = x
  BY <1>1
<1> QED
  BY <1>2, <1>3 DEF p

\* The value collected has the bits in the opposite order.
LEMMA BigEndian ==
    ASSUME NEW data \in Seq(Bytes), NEW l, IsLayout(l), l.order # "little",
           NEW u, IsSum(u, data, l)
    PROVE  Unsigned(data, l) = u[l.length]
<1> DEFINE L == l.length
           a == Place(l.start)
           B(n) == Bit(data, Place(a + n))
<1>1. L \in Nat /\ L > 0 /\ l.start \in Nat
  BY DEF IsLayout
<1>2. a \in Nat
  BY <1>1, Places
<1>3. PICK v \in [0..L -> Nat] :
        /\ v[0] = 0 /\ Collected(data, l) = v[L]
        /\ \A n \in 1..L : v[n] = 2 * v[n - 1] + B(n - 1)
  BY CollectedLoop
<1> HIDE DEF L, a
<1>4. \A n \in Nat : B(n) \in {0, 1}
  <2>1. ASSUME NEW n \in Nat PROVE B(n) \in {0, 1}
    <3>1. a + n \in Nat
      BY <1>2
    <3>2. Place(a + n) \in Nat
      BY <3>1, NextPlace
    <3> QED
      BY <3>2, BitIsBit
  <2> QED
    BY <2>1
<1>5. TwoTo[0] = 1 /\ TwoTo[1] = 2
  <2>1. TwoTo[0] = 1 /\ TwoTo[0 + 1] = 2 * TwoTo[0]
    BY PowersOfTwo
  <2> QED
    BY <2>1
<1> HIDE DEF B
<1> DEFINE Joined(m) == v[m] < TwoTo[m] /\ \A j \in 0..m - 1 : BitAt(v[m], j) = B(m - 1 - j)
           T == {m \in 0..L : Joined(m)}
<1>6. 0 \in T
  BY <1>1, <1>3, <1>5
<1>7. ASSUME NEW n \in 1..L, n - 1 \in T PROVE n \in T
  <2> DEFINE m == n - 1
             d == v[m]
             b == B(m)
  <2>1. m \in Nat /\ m \in 0..L /\ m + 1 = n
    BY <1>1
  <2>2. d \in Nat /\ b \in {0, 1} /\ v[n] = 2 * d + b
    BY <1>3, <1>4, <2>1
  <2>3. Joined(m)
    <3> HIDE DEF Joined
    <3> QED
      BY <1>7
  <2>4. d < TwoTo[m] /\ \A j \in 0..m - 1 : BitAt(d, j) = B(m - 1 - j)
    BY <2>3
  <2> HIDE DEF d, b, m
  <2>5. TwoTo[m] \in Nat /\ TwoTo[m + 1] = 2 * TwoTo[m]
    BY <2>1, PowersOfTwo
  <2>6. v[n] < TwoTo[n]
    <3> DEFINE p == TwoTo[m]
    <3>1. p \in Nat /\ d < p
      BY <2>4, <2>5
    <3> HIDE DEF p
    <3>2. 2 * d + b < 2 * p
      BY <2>2, <3>1
    <3> QED
      BY <2>1, <2>2, <2>5, <3>2 DEF p
  <2>7. ASSUME NEW j \in 0..n - 1 PROVE BitAt(v[n], j) = B(n - 1 - j)
    <3>1. j \in Nat /\ 1 \in Nat /\ b \in Nat /\ b < TwoTo[1]
      BY <1>5, <2>2
    <3>2. BitAt(b + TwoTo[1] * d, j) = IF j < 1 THEN BitAt(b, j) ELSE BitAt(d, j - 1)
      BY <2>2, <3>1, JoinedBits
    <3>3. b + TwoTo[1] * d = v[n]
      BY <1>5, <2>2
    <3>4. CASE j = 0
      <4>1. BitAt(v[n], j) = BitAt(b, 0)
        BY <3>2, <3>3, <3>4
      <4>2. BitAt(b, 0) = b
        BY <1>5, <2>2 DEF BitAt
      <4>3. n - 1 - j = m
        BY <2>1, <3>4
      <4> QED
        BY <4>1, <4>2, <4>3 DEF b
    <3>5. CASE j # 0
      <4>1. ~(j < 1) /\ j - 1 \in 0..m - 1 /\ m - 1 - (j - 1) = n - 1 - j
        BY <2>1, <3>1, <3>5
      <4>2. BitAt(d, j - 1) = B(m - 1 - (j - 1))
        BY <2>4, <4>1
      <4> QED
        BY <3>2, <3>3, <4>1, <4>2
    <3> QED
      BY <3>4, <3>5
  <2> QED
    BY <2>6, <2>7
<1>8. Joined(L)
  <2> HIDE DEF Joined
  <2>1. L \in T
    <3> HIDE DEF T
    <3>1. \A n \in 0..L : n \in T
      BY <1>1, <1>6, <1>7, BoundedInduction
    <3> QED
      BY <1>1, <3>1
  <2> QED
    BY <2>1
<1> DEFINE y == v[L]
<1>9. y \in Nat /\ y < TwoTo[L] /\ \A j \in 0..L - 1 : BitAt(y, j) = B(L - 1 - j)
  BY <1>1, <1>3, <1>8
<1> HIDE DEF y
<1>10. ASSUME NEW k \in 0..L - 1 PROVE BitAt(y, k) = Bit(data, BitOfWeight(l, k))
  <2>1. a + (L - 1 - k) = a + L - 1 - k
    BY <1>1, <1>2
  <2>2. BitOfWeight(l, k) = Place(a + L - 1 - k)
    BY DEF BitOfWeight, a, L
  <2> QED
    BY <1>9, <2>1, <2>2 DEF B
<1>11. y % TwoTo[L] = u[L]
  BY <1>9, <1>10, SumOfNumber DEF L
<1>12. y % TwoTo[L] = y
  BY <1>1, <1>9, SmallRemainder
<1>13. Unsigned(data, l) = y
  BY <1>3 DEF Unsigned, y
<1> QED
  BY <1>11, <1>12, <1>13 DEF L

\* So the signal of either order has the value meant.
LEMMA ExtractedIsMeant ==
    ASSUME NEW data \in Seq(Bytes), NEW l, IsLayout(l)
    PROVE  Extracted(data, l) = Meant(data, l)
<1>1. PICK u : IsSum(u, data, l)
  BY SumExists
<1>2. Unsigned(data, l) = u[l.length]
  BY <1>1, LittleEndian, BigEndian
<1>3. Meant(data, l) = LET value == u[l.length]
                       IN  IF l.signed /\ value >= TwoTo[l.length - 1]
                           THEN value - TwoTo[l.length] ELSE value
  BY <1>1, TwosComplement
<1> QED
  BY <1>2, <1>3 DEF Extracted
-----------------------------------------------------------------------------
(* What _decode_with_mapping computes for whole bytes.                     *)
\* The slice of an entry has its length only if the frame is long enough.
LEMMA Slices ==
    ASSUME NEW data \in Seq(Bytes), NEW e \in ByteEntries
    PROVE  /\ e.start + e.length <= Len(data) =>
                /\ Slice(data, e) \in Seq(Bytes) /\ Len(Slice(data, e)) = e.length
                /\ \A i \in 1..e.length : Slice(data, e)[i] = data[e.start + i]
           /\ ~(e.start + e.length <= Len(data)) => Len(Slice(data, e)) # e.length
<1>1. e.start \in Nat /\ e.length \in Nat /\ e.length > 0 /\ Len(data) \in Nat
  BY SignalsAssumption DEF ByteEntries
<1> DEFINE s == e.start
           n == e.length
<1> HIDE DEF s, n
<1>2. CASE s + n <= Len(data)
  <2>1. Slice(data, e) = SubSeq(data, s + 1, s + n)
    BY <1>2 DEF Slice, s, n
  <2>2. /\ SubSeq(data, s + 1, s + n) \in Seq(Bytes)
        /\ Len(SubSeq(data, s + 1, s + n)) = n
        /\ \A i \in 1..n : SubSeq(data, s + 1, s + n)[i] = data[s + i]
    <3> DEFINE from == s + 1
               to == s + n
    <3>1. from \in Int /\ to \in Int /\ from <= to /\ to - from + 1 = n
      BY <1>1 DEF s, n
    <3>2. \A i \in from..to : data[i] \in Bytes
      BY <1>1, <1>2 DEF s, n
    <3>3. \A i \in 1..n : from + i - 1 = s + i
      BY <1>1 DEF s, n
    <3> HIDE DEF from, to
    <3>4. /\ SubSeq(data, from, to) \in Seq(Bytes)
          /\ Len(SubSeq(data, from, to)) = IF from <= to THEN to - from + 1 ELSE 0
          /\ \A i \in 1..to - from + 1 : SubSeq(data, from, to)[i] = data[from + i - 1]
      BY <3>1, <3>2, SubSeqProperties
    <3>5. /\ SubSeq(data, from, to) \in Seq(Bytes)
          /\ Len(SubSeq(data, from, to)) = n
          /\ \A i \in 1..n : SubSeq(data, from, to)[i] = data[s + i]
      BY <3>1, <3>3, <3>4
    <3> QED
      BY <3>5 DEF from, to
  <2> QED
    BY <1>2, <2>1, <2>2 DEF s, n
<1>3. CASE ~(s + n <= Len(data))
  <2>1. Slice(data, e) = SubSeq(data, s + 1, Len(data))
    BY <1>3 DEF Slice, s, n
  <2>2. Len(SubSeq(data, s + 1, Len(data))) # n
    BY <1>1, <1>3 DEF s, n
  <2> QED
    BY <1>3, <2>1, <2>2 DEF s, n
<1> QED
  BY <1>2, <1>3 DEF s, n

\* The bytes of an entry, lowest first.
Ordered(data, e) ==
    IF e.order = "little" THEN Slice(data, e)
    ELSE [i \in DOMAIN Slice(data, e) |-> Slice(data, e)[Len(Slice(data, e)) + 1 - i]]

LEMMA OrderedBytes ==
    ASSUME NEW data \in Seq(Bytes), NEW e \in ByteEntries, e.start + e.length <= Len(data)
    PROVE  /\ Ordered(data, e) \in Seq(Bytes) /\ Len(Ordered(data, e)) = e.length
           /\ \A i \in 1..e.length :
                Ordered(data, e)[i] = data[IF e.order = "little" THEN e.start + i
                                           ELSE e.start + e.length + 1 - i]
<1> DEFINE bytes == Slice(data, e)
           n == e.length
           s == e.start
           reversed == [i \in DOMAIN bytes |-> bytes[Len(bytes) + 1 - i]]
<1>1. n \in Nat /\ s \in Nat
  BY SignalsAssumption DEF ByteEntries
<1>2. bytes \in Seq(Bytes) /\ Len(bytes) = n /\ \A i \in 1..n : bytes[i] = data[s + i]
  BY Slices
<1>3. Ordered(data, e) = IF e.order = "little" THEN bytes ELSE reversed
  BY DEF Ordered
<1> HIDE DEF bytes, n, s
<1>4. DOMAIN bytes = 1..n
  BY <1>2
<1>5. ASSUME NEW i \in 1..n
      PROVE  /\ n + 1 - i \in 1..n /\ s + (n + 1 - i) = s + n + 1 - i
             /\ reversed[i] = data[s + n + 1 - i] /\ reversed[i] \in Bytes
  <2>1. n + 1 - i \in 1..n /\ s + (n + 1 - i) = s + n + 1 - i
    BY <1>1
  <2>2. reversed[i] = bytes[n + 1 - i]
    BY <1>2, <1>4
  <2>3. bytes[n + 1 - i] \in Bytes
    BY <1>2, <1>4, <2>1
  <2> QED
    BY <1>2, <2>1, <2>2, <2>3
<1>6. reversed \in [1..n -> Bytes]
  BY <1>4, <1>5
<1> HIDE DEF reversed
<1>7. reversed \in Seq(Bytes) /\ Len(reversed) = n
  BY <1>1, <1>6
<1> QED
  BY <1>2, <1>3, <1>5, <1>7 DEF n, s

\* Their bits are those of the frame where a DBC would say.
LEMMA OrderedBits ==
    ASSUME NEW data \in Seq(Bytes), NEW e \in ByteEntries, e.start + e.length <= Len(data),
           NEW k \in 0..8 * e.length - 1
    PROVE  Bit(Ordered(data, e), k) = Bit(data, BitOfWeight(AsBits(e), k))
<1> DEFINE n == e.length
           s == e.start
           q == k \div 8
           r == k % 8
           o == Ordered(data, e)
           place == IF e.order = "little" THEN s + (q + 1) ELSE s + n + 1 - (q + 1)
           at == BitOfWeight(AsBits(e), k)
<1>1. n \in Nat /\ n > 0 /\ s \in Nat /\ Len(data) \in Nat /\ s + n <= Len(data)
  BY SignalsAssumption DEF ByteEntries
<1>2. k \in Nat /\ k < 8 * n
  BY <1>1
<1>3. q \in Nat /\ r \in 0..7 /\ k = 8 * q + r
  BY <1>2, NaturalDivision
<1> HIDE DEF q, r, n, s
<1>4. q < n /\ q + 1 \in 1..n
  BY <1>1, <1>2, <1>3
<1>5. Len(o) = n /\ o[q + 1] = data[place]
  BY <1>4, OrderedBytes DEF n, s
<1>6. Bit(o, k) = (data[place] \div TwoTo[r]) % 2
  BY <1>4, <1>5 DEF Bit, q, r
<1>7. at \div 8 + 1 = place /\ at % 8 = r /\ at \div 8 < Len(data)
  <2>1. CASE e.order = "little"
    <3>1. at = 8 * s + k
      BY <2>1 DEF BitOfWeight, AsBits, s
    <3>2. at = 8 * (s + q) + r /\ s + q \in Int
      BY <1>1, <1>3, <3>1
    <3>3. at \div 8 = s + q /\ at % 8 = r
      <4> DEFINE i == s + q
      <4>1. i \in Int /\ at = 8 * i + r /\ r \in Int /\ 0 <= r /\ r < 8
        BY <1>3, <3>2
      <4> HIDE DEF i, at
      <4>2. (8 * i + r) \div 8 = i /\ (8 * i + r) % 8 = r
        BY <4>1, DivModUnique
      <4> QED
        BY <4>1, <4>2 DEF i
    <3> HIDE DEF at
    <3> QED
      BY <1>1, <1>3, <1>4, <2>1, <3>3
  <2>2. CASE e.order # "little"
    <3> DEFINE i == s + n - 1 - q
               c == 8 * i + (7 - r)
    <3>1. i \in Nat /\ 7 - r \in 0..7 /\ 7 - (7 - r) = r
      BY <1>1, <1>3, <1>4
    <3>2. at = Place(Place(8 * s + 7) + 8 * n - 1 - k)
      BY <2>2 DEF BitOfWeight, AsBits, s, n
    <3>3. Place(8 * s + 7) = 8 * s
      <4>1. (8 * s + 7) \div 8 = s /\ (8 * s + 7) % 8 = 7
        BY <1>1, DivModUnique
      <4> QED
        BY <1>1, <4>1 DEF Place
    <3>4. 8 * s + 8 * n - 1 - k = c
      BY <1>1, <1>3
    <3>5. at = Place(c)
      BY <3>2, <3>3, <3>4
    <3>6. c \div 8 = i /\ c % 8 = 7 - r
      <4> DEFINE j == 7 - r
      <4>1. j \in Int /\ 0 <= j /\ j < 8
        BY <1>3
      <4> HIDE DEF i, j
      <4>2. (8 * i + j) \div 8 = i /\ (8 * i + j) % 8 = j
        BY <3>1, <4>1, DivModUnique
      <4> QED
        BY <4>2 DEF j
    <3>7. Place(c) = 8 * i + r
      <4> HIDE DEF c
      <4> QED
        BY <3>1, <3>6 DEF Place
    <3>8. at \div 8 = i /\ at % 8 = r
      <4> HIDE DEF i, c, at
      <4>1. at = 8 * i + r
        BY <3>5, <3>7
      <4> QED
        BY <1>3, <3>1, <4>1, DivModUnique
    <3> HIDE DEF at, c
    <3> QED
      BY <1>1, <1>3, <1>4, <2>2, <3>8
  <2> QED
    BY <2>1, <2>2
<1> QED
  BY <1>6, <1>7 DEF Bit

\* So the signal of whole bytes has the value meant.
LEMMA EntryIsMeant ==
    ASSUME NEW data \in Seq(Bytes), NEW e \in ByteEntries
    PROVE  FromEntry(data, e) = IF e.start + e.length <= Len(data)
                                THEN {Meant(data, AsBits(e))} ELSE {}
<1>1. CASE ~(e.start + e.length <= Len(data))
  BY <1>1, Slices DEF FromEntry
<1>2. CASE e.start + e.length <= Len(data)
  <2> DEFINE l == AsBits(e)
             y == RawInt(Ordered(data, e))
             m == 8 * e.length
  <2>1. e.start \in Nat /\ e.length \in Nat /\ e.length > 0 /\ e.order \in {"little", "big"} /\ e.signed \in BOOLEAN
    BY SignalsAssumption DEF ByteEntries
  <2>2. IsLayout(l) /\ l.length = m /\ l.signed = e.signed
    BY <2>1 DEF IsLayout, AsBits
  <2>3. m \in Nat /\ m > 0 /\ m - 1 \in Nat /\ (m - 1) + 1 = m
    BY <2>1
  <2>4. Ordered(data, e) \in Seq(Bytes) /\ Len(Ordered(data, e)) = e.length
    BY <1>2, OrderedBytes
  <2>5. /\ y \in Nat /\ y < TwoTo[m]
        /\ \A b \in Nat : BitAt(y, b) = Bit(Ordered(data, e), b)
    BY <2>4, BitsOfBytes
  <2> HIDE DEF y
  <2>6. ASSUME NEW k \in 0..m - 1 PROVE BitAt(y, k) = Bit(data, BitOfWeight(l, k))
    <3>1. k \in Nat
      BY <2>3
    <3>2. Bit(Ordered(data, e), k) = Bit(data, BitOfWeight(l, k))
      BY <1>2, OrderedBits
    <3> QED
      BY <2>5, <3>1, <3>2
  <2> HIDE DEF l, m
  <2>7. PICK u : IsSum(u, data, l)
    BY <2>2, SumExists
  <2>8. y % TwoTo[m] = u[m]
    BY <2>2, <2>5, <2>6, <2>7, SumOfNumber
  <2>9. y = u[m]
    BY <2>3, <2>5, <2>8, SmallRemainder
  <2>10. Meant(data, l) = IF e.signed /\ y >= TwoTo[m - 1] THEN y - TwoTo[m] ELSE y
    BY <2>2, <2>7, <2>9, TwosComplement
  <2>11. 2 * y >= TwoTo[m] <=> y >= TwoTo[m - 1]
    <3> DEFINE p == TwoTo[m - 1]
    <3>1. p \in Nat /\ TwoTo[m] = 2 * p
      BY <2>3, PowersOfTwo
    <3> HIDE DEF p
    <3>2. 2 * y >= 2 * p <=> y >= p
      BY <2>5, <3>1
    <3> QED
      BY <3>1, <3>2 DEF p
  <2>12. FromBytes(Slice(data, e), e) = IF e.signed /\ 2 * y >= TwoTo[m] THEN y - TwoTo[m] ELSE y
    BY DEF FromBytes, Ordered, y, m
  <2>13. FromBytes(Slice(data, e), e) = Meant(data, l)
    BY <2>10, <2>11, <2>12
  <2>14. Len(Slice(data, e)) = e.length
    BY <1>2, Slices
  <2> QED
    BY <1>2, <2>13, <2>14 DEF FromEntry, l
<1> QED
  BY <1>1, <1>2
-----------------------------------------------------------------------------
\* In any frame, also one shorter than the mapping says, any signal of a DBC or of
\* a JSON mapping has the value that its bits have by their places and weights.
THEOREM TrueSignals == SignalSpec => []SignalsAreTrue
<1> DEFINE DbcOK == \E layout \in Layouts : signal = [from |-> "dbc", at |-> layout]
           JsonOK == \E e \in ByteEntries : signal = [from |-> "json", at |-> e]
           SignalOK == frame \in Seq(Bytes) /\ (signal = NoSignal \/ DbcOK \/ JsonOK)
<1>1. SignalInit => SignalOK
  BY DEF SignalInit
<1>2. SignalOK /\ [SignalNext]_signalVars => SignalOK'
  <2> SUFFICES ASSUME SignalOK, [SignalNext]_signalVars PROVE SignalOK'
    OBVIOUS
  <2>1. CASE Define
    BY <2>1 DEF Define
  <2>2. ASSUME NEW data \in Frames, Receive(data) PROVE SignalOK'
    <3>1. PICK n \in 0..MaxBytes : data \in [1..n -> SampleBytes]
      BY DEF Frames
    <3>2. n \in Nat
      BY SignalsAssumption
    <3>3. data \in [1..n -> Bytes]
      BY <3>1, SignalsAssumption DEF Bytes
    <3>4. data \in Seq(Bytes)
      BY <3>2, <3>3
    <3> QED
      BY <2>2, <3>4 DEF Receive
  <2>3. CASE UNCHANGED signalVars
    BY <2>3 DEF signalVars
  <2> QED
    BY <2>1, <2>2, <2>3 DEF SignalNext
<1>3. SignalOK => SignalsAreTrue
  <2> SUFFICES ASSUME SignalOK, signal # NoSignal
               PROVE  DecodedValues = IF signal.from = "dbc" THEN {Meant(frame, signal.at)}
                                      ELSE IF signal.at.start + signal.at.length <= Len(frame)
                                      THEN {Meant(frame, AsBits(signal.at))} ELSE {}
    BY Zenon DEF SignalsAreTrue
  <2>1. ASSUME NEW layout \in Layouts, signal = [from |-> "dbc", at |-> layout]
        PROVE  DecodedValues = {Meant(frame, layout)} /\ signal.from = "dbc" /\ signal.at = layout
    <3>1. IsLayout(layout)
      BY SignalsAssumption DEF Layouts, IsLayout
    <3>2. Extracted(frame, layout) = Meant(frame, layout)
      BY <3>1, ExtractedIsMeant
    <3> QED
      BY <2>1, <3>2 DEF DecodedValues
  <2>2. ASSUME NEW e \in ByteEntries, signal = [from |-> "json", at |-> e]
        PROVE  /\ signal.from # "dbc" /\ signal.at = e
               /\ DecodedValues = IF e.start + e.length <= Len(frame)
                                  THEN {Meant(frame, AsBits(e))} ELSE {}
    <3>1. FromEntry(frame, e) = IF e.start + e.length <= Len(frame)
                                THEN {Meant(frame, AsBits(e))} ELSE {}
      BY EntryIsMeant
    <3> QED
      BY <2>2, <3>1 DEF DecodedValues
  <2>3. CASE DbcOK
    <3>1. PICK layout \in Layouts : signal = [from |-> "dbc", at |-> layout]
      BY <2>3
    <3> QED
      BY <2>1, <3>1
  <2>4. CASE JsonOK
    <3>1. PICK e \in ByteEntries : signal = [from |-> "json", at |-> e]
      BY <2>4
    <3> QED
      BY <2>2, <3>1
  <2> QED
    BY <2>3, <2>4
<1> HIDE DEF SignalOK
<1> QED
  BY <1>1, <1>2, <1>3, PTL DEF SignalSpec
=============================================================================
