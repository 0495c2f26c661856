------------------------------ MODULE Evidence ------------------------------
(***************************************************************************)
(* The packet page: a Modbus capture and a CAN log are loaded, analysed,   *)
(* shown page by page, plotted and diagnosed.  An analysis is kept in an   *)
(* SQLite cache so that a file is parsed once; the file may go on growing  *)
(* while Wireshark writes it, also between the steps of a load.            *)
(*                                                                         *)
(* The content of a file is its version: a capture of version n holds the  *)
(* records 1..n.  What was read is named by fingerprints, not by bytes:    *)
(* an analysis says of which file and of which mapping it is.              *)
(***************************************************************************)
EXTENDS Naturals, FiniteSets

CONSTANTS
    Captures, Logs,  \* the files of the two kinds
    Mappings,        \* the DBC and JSON files that decode CAN frames
    Signals,         \* the keys of decoded signals
    SignalsOf,       \* the signals that a mapping decodes
    None,            \* no file, nothing loaded
    PageSize,        \* rows of a table page
    MaxPlots,        \* curves of the plot
    MaxVersion,      \* bound on the versions of a file
    MaxActs          \* bound on the actions of the operator

Sources == Captures \cup Logs
ASSUME FilesAssumption == /\ Captures \cap Logs = {} /\ Sources \cap Mappings = {}
                          /\ None \notin Sources \cup Mappings
                          /\ SignalsOf \in [Mappings -> SUBSET Signals]
ASSUME SizesAssumption == /\ PageSize \in Nat \ {0} /\ MaxPlots \in Nat
                          /\ MaxVersion \in Nat \ {0} /\ MaxActs \in Nat

Kinds == {"modbus", "can"}
SourcesOf(k) == IF k = "modbus" THEN Captures ELSE Logs
Versions == 1..MaxVersion

\* path, size and mtime of a file, and of the mapping that was copied into the
\* profile; a mapping that is not chosen has none.
SourcePrints == [file : Sources, version : Versions]
MappingPrints == [file : Mappings, version : Versions] \cup {None}
Analyses == [source : SourcePrints, mapping : MappingPrints]

\* A cache file is named by what was to be analysed (cache_path_for); its meta
\* table says what was analysed when it was saved.
Keys == [kind : Kinds, source : SourcePrints, mapping : MappingPrints]
Entries == [key : Keys, meta : Analyses, records : Analyses]

VARIABLES
    version, \* of every file
    cache,   \* the cache files of the profile
    job,     \* the load that is under way
    ui,      \* the widgets and the fields of the mixin
    acts     \* number of the operator's actions
vars == <<version, cache, job, ui, acts>>

Fingerprint(f) == IF f = None THEN None ELSE [file |-> f, version |-> version[f]]
MutKeyOf(k, f, m) == [kind |-> k, source |-> [file |-> f, version |-> 1], mapping |-> Fingerprint(m)]
KeyOf(k, f, m) == [kind |-> k, source |-> Fingerprint(f), mapping |-> Fingerprint(m)]

Jobs == [step : {"check", "read", "save", "show"}, kind : Kinds, file : Sources,
         mapping : Mappings \cup {None}, key : Keys, read : Analyses \cup {None}]
Busy == job # None
ASSUME NoneAssumption == None \notin Jobs \cup Keys \cup Analyses
-----------------------------------------------------------------------------
(***************************************************************************)
(* The fields of ui.                                                       *)
(*   label, mapping      the line edits with the chosen files              *)
(*   records             packet_records and can_records, None when empty   *)
(*   cached              packet_modbus_cache_path, packet_can_cache_path   *)
(*   least, page, pages  the filter (a lower bound on the index), the page *)
(*                       spin box and its maximum                          *)
(*   table               the rows on display, of what, and how many match  *)
(*   view                the CAN view: the frames, or one of the digests   *)
(*   selected, plot      the chosen signals and the curves on display      *)
(*   insight             what communication_analysis is of                 *)
(*   report              what the diagnosis on display is of               *)
(***************************************************************************)
Tables == [of : Analyses \cup {None}, rows : SUBSET Nat, matched : Nat]
Curves == [signal : Signals, of : Analyses \cup {None}]
Uis == [label    : [Kinds -> Sources \cup {None}], mapping : Mappings \cup {None},
        records  : [Kinds -> Analyses \cup {None}], cached : [Kinds -> Keys \cup {None}],
        least    : [Kinds -> Versions], page : [Kinds -> Nat \ {0}],
        pages    : [Kinds -> Nat \ {0}], table : [Kinds -> Tables],
        view     : {"Frames", "Digest"}, selected : SUBSET Signals, plot : SUBSET Curves,
        insight  : Analyses \cup {None},
        report   : [Kinds -> Analyses \cup {None}] \cup {None}]

Blank == [of |-> None, rows |-> {}, matched |-> 0]
Opened == [label    |-> [k \in Kinds |-> None], mapping |-> None,
           records  |-> [k \in Kinds |-> None], cached |-> [k \in Kinds |-> None],
           least    |-> [k \in Kinds |-> 1], page |-> [k \in Kinds |-> 1],
           pages    |-> [k \in Kinds |-> 1], table |-> [k \in Kinds |-> Blank],
           view     |-> "Frames", selected |-> {}, plot |-> {},
           insight  |-> None, report |-> None]

Init == /\ version = [f \in Sources \cup Mappings |-> 1]
        /\ cache = {} /\ job = None /\ ui = Opened /\ acts = 0

Rows(r) == IF r = None THEN {} ELSE 1..r.source.version
Decoded(r) == IF r = None \/ r.mapping = None THEN {} ELSE SignalsOf[r.mapping.file]

\* _load_modbus_page_from_cache and _load_can_page_from_cache: the cache file,
\* when there is one, comes before the records in memory.
OnDisk(s, k) == {e \in cache : e.key = s.cached[k]}
Shown(s, k) == IF OnDisk(s, k) = {} THEN s.records[k]
               ELSE (CHOOSE e \in OnDisk(s, k) : TRUE).records

\* _set_page_controls, over n rows that match.
Pages(n) == IF n = 0 THEN 1 ELSE (n + PageSize - 1) \div PageSize
MutClamped(page, n) == page
Clamped(page, n) == IF page > Pages(n) THEN Pages(n) ELSE page

Matching(r, least) == {i \in Rows(r) : i >= least}
Table(of, least, page) ==
    [of |-> of, matched |-> Cardinality(Matching(of, least)),
     rows |-> {i \in Matching(of, least) : (i - least) \div PageSize = page - 1}]

\* refresh_packet_table and refresh_can_table; the table of the frames is
\* hidden, and left as it is, while a digest is on display.
Refreshed(s, k) ==
    IF k = "can" /\ s.view # "Frames" THEN s
    ELSE LET of == Shown(s, k)
             count == Cardinality(Matching(of, s.least[k]))
             page == Clamped(s.page[k], count)
         IN  [s EXCEPT !.page[k] = page, !.pages[k] = Pages(count),
                       !.table[k] = Table(of, s.least[k], page)]

\* refresh_packet_can_signal_chart
Charted(s) == [s EXCEPT !.plot = {[signal |-> x, of |-> s.records["can"]] :
                                    x \in s.selected \cap Decoded(s.records["can"])}]

\* rebuild_packet_can_signal_buffers: one signal is chosen when none is.
MutRebuilt(s) ==
    LET found == Decoded(s.records["can"])
    IN  IF found = {} THEN s
        ELSE Charted([s EXCEPT !.selected = IF @ = {} THEN {CHOOSE x \in found : TRUE} ELSE @])
Rebuilt(s) ==
    LET found == Decoded(s.records["can"])
    IN  Charted([s EXCEPT !.selected = IF @ = {} /\ found # {}
                                       THEN {CHOOSE x \in found : TRUE} ELSE @])

\* analyze_modbus_issues
Analysed(s) == [s EXCEPT !.insight = s.records["modbus"]]

\* The end of load_packet_capture and of _analyze_can_log_path.
MutLoaded(s, k, key, r) ==
    LET t == [s EXCEPT !.records[k] = r]
    IN  [Refreshed(IF k = "can" THEN Rebuilt(t) ELSE Analysed(t), k) EXCEPT !.cached[k] = key]
Loaded(s, k, key, r) ==
    LET t == [s EXCEPT !.records[k] = r, !.cached[k] = key]
    IN  Refreshed(IF k = "can" THEN Rebuilt(t) ELSE Analysed(t), k)
-----------------------------------------------------------------------------
(***************************************************************************)
(* Loading, step by step: name the cache file, look into it, parse, save,  *)
(* show.  The window is blocked meanwhile; the files are not.              *)
(***************************************************************************)
Begin(s, k, f, m) ==
    /\ ui' = s
    /\ job' = [step |-> "check", kind |-> k, file |-> f, mapping |-> m,
               key |-> KeyOf(k, f, m)', read |-> None]

Present == [source |-> Fingerprint(job.file), mapping |-> Fingerprint(job.mapping)]

\* has_kind compares both fingerprints with the meta table.
Check ==
    /\ Busy /\ job.step = "check"
    /\ LET hits == {e \in cache : e.key = job.key /\ e.meta = Present}
       IN  \/ \E e \in hits : job' = [job EXCEPT !.step = "show", !.read = e.records]
           \/ hits = {} /\ job' = [job EXCEPT !.step = "read"]
    /\ UNCHANGED <<version, cache, ui, acts>>

\* PacketAnalyzer.analyze and CanAnalyzer.analyze.
Read ==
    /\ Busy /\ job.step = "read"
    /\ job' = [job EXCEPT !.step = "save", !.read = Present]
    /\ UNCHANGED <<version, cache, ui, acts>>

\* save_modbus and save_can: one transaction, with the fingerprints of now.
Save ==
    /\ Busy /\ job.step = "save"
    /\ cache' = {e \in cache : e.key # job.key} \cup
                {[key |-> job.key, meta |-> Present, records |-> job.read]}
    /\ job' = [job EXCEPT !.step = "show"]
    /\ UNCHANGED <<version, ui, acts>>

Show ==
    /\ Busy /\ job.step = "show"
    /\ ui' = Loaded(ui, job.kind, job.key, job.read) /\ job' = None
    /\ UNCHANGED <<version, cache, acts>>

\* An exception of any step is shown; the line edit names the new file already.
LoadFails ==
    /\ Busy /\ job.step # "show"
    /\ job' = None
    /\ UNCHANGED <<version, cache, ui, acts>>
-----------------------------------------------------------------------------
(* What the operator does.                                                 *)

Act == ~Busy /\ acts < MaxActs /\ acts' = acts + 1 /\ UNCHANGED cache
Handled(s) == ui' = s /\ UNCHANGED <<version, job>>

LoadCapture(f) ==
    /\ Act /\ UNCHANGED version
    /\ Begin([ui EXCEPT !.label["modbus"] = f], "modbus", f, None)

LoadLog(f) ==
    /\ Act /\ UNCHANGED version
    /\ Begin([ui EXCEPT !.label["can"] = f], "can", f, ui.mapping)

\* The chosen mapping, or none; a log that is loaded is analysed again.
Mapped(m) ==
    LET s == [ui EXCEPT !.mapping = m]
    IN  IF s.label["can"] = None THEN ui' = s /\ UNCHANGED job
        ELSE Begin(s, "can", s.label["can"], m)

\* copy2 puts the file into the profile, over an older or a newer namesake.
ChooseMapping(m, v) == Act /\ version' = [version EXCEPT ![m] = v] /\ Mapped(m)
ClearMapping == Act /\ UNCHANGED version /\ Mapped(None)

ClearedCapture(s) ==
    Refreshed([s EXCEPT !.records["modbus"] = None, !.label["modbus"] = None], "modbus")
ClearedLog(s) ==
    Charted([s EXCEPT !.records["can"] = None, !.label["can"] = None, !.selected = {},
                      !.table["can"] = Blank])

AnalyzeIssues == Act /\ Handled(Analysed(ui))
ClearCapture == Act /\ Handled(ClearedCapture(ui))
ClearLog == Act /\ Handled(ClearedLog(ui))

\* clear_packet_all_evidence
ClearAll ==
    /\ Act
    /\ Handled([ClearedLog(ClearedCapture(ui)) EXCEPT !.report = [k \in Kinds |-> None]])

\* The text filter acts at once, the ranges and the page spin box only with
\* the next refresh.
Filter(k, n) == Act /\ Handled(Refreshed([ui EXCEPT !.least[k] = n], k))
Edit(k, n, p) == Act /\ p <= ui.pages[k] /\ Handled([ui EXCEPT !.least[k] = n, !.page[k] = p])

\* First page and Apply, Prev, Next, Last.
Turn(k, p) == Act /\ Handled(Refreshed([ui EXCEPT !.page[k] = p], k))
FirstPage(k) == Turn(k, 1)
PrevPage(k) == Turn(k, IF ui.page[k] > 1 THEN ui.page[k] - 1 ELSE 1)
NextPage(k) == Turn(k, IF ui.page[k] < ui.pages[k] THEN ui.page[k] + 1 ELSE ui.pages[k])
LastPage(k) == Turn(k, ui.pages[k])

ChooseView(v) == Act /\ v # ui.view /\ Handled(Refreshed([ui EXCEPT !.view = v], "can"))

AddSignal(x) ==
    /\ Act /\ x \in Decoded(ui.records["can"]) \ ui.selected
    /\ Cardinality(ui.selected) < MaxPlots
    /\ Handled(Charted([ui EXCEPT !.selected = @ \cup {x}]))
ClearSignals == Act /\ Handled(Charted([ui EXCEPT !.selected = {}]))

\* run_packet_diagnosis, also before an export when nothing was diagnosed.
Diagnose ==
    /\ Act
    /\ Handled(Refreshed(Refreshed([ui EXCEPT !.report = ui.records], "can"), "modbus"))

\* on_packet_diagnosis_row_selected: an issue with CAN frames turns to them.
SelectIssue ==
    /\ Act /\ ui.report # None
    /\ ui.report["can"] # None /\ ui.view # "Frames"
    /\ Handled(Refreshed([ui EXCEPT !.view = "Frames"], "can"))
-----------------------------------------------------------------------------
(* The environment: a file grows, the cache is deleted, the program ends.  *)

Grow(f) ==
    /\ version[f] < MaxVersion
    /\ version' = [version EXCEPT ![f] = @ + 1]
    /\ UNCHANGED <<cache, job, ui, acts>>

DropCache ==
    /\ ~Busy /\ cache # {} /\ cache' = {}
    /\ UNCHANGED <<version, job, ui, acts>>

Restart ==
    /\ ui # Opened
    /\ ui' = Opened /\ job' = None
    /\ UNCHANGED <<version, cache, acts>>

Next ==
    \/ Check \/ Read \/ Save \/ Show \/ LoadFails
    \/ \E f \in Captures : LoadCapture(f)
    \/ \E f \in Logs : LoadLog(f)
    \/ \E m \in Mappings, v \in Versions : ChooseMapping(m, v)
    \/ ClearMapping \/ AnalyzeIssues \/ ClearCapture \/ ClearLog \/ ClearAll
    \/ \E k \in Kinds : \/ \E n \in Versions : Filter(k, n)
                       \/ \E n \in Versions, p \in Versions : Edit(k, n, p)
                       \/ FirstPage(k) \/ PrevPage(k) \/ NextPage(k) \/ LastPage(k)
    \/ \E v \in {"Frames", "Digest"} : ChooseView(v)
    \/ \E x \in Signals : AddSignal(x)
    \/ ClearSignals \/ Diagnose \/ SelectIssue
    \/ \E f \in Sources : Grow(f)
    \/ DropCache \/ Restart

Spec == Init /\ [][Next]_vars
-----------------------------------------------------------------------------
(* Properties.                                                             *)

TypeOK ==
    /\ version \in [Sources \cup Mappings -> Versions]
    /\ cache \subseteq Entries
    /\ job \in Jobs \cup {None}
    /\ ui \in Uis /\ \A k \in Kinds : ui.page[k] <= ui.pages[k]

\* A load that is served from the cache shows the analysis of the file, and of
\* the mapping, as they are on the disk at that moment: a capture that grew
\* while an earlier load parsed or saved it is never shown in its old state.
HitsAreTrue ==
    [][Busy /\ job.step = "check" /\ job' # None /\ job'.step = "show"
        => job'.read = Present]_vars

\* What a load may have given whose cache file was named by key: it is of the file
\* and of the mapping that were named, and no older than the name.
GivenBy(key, of) ==
    /\ key # None /\ of.source.file = key.source.file /\ of.mapping = key.mapping
    /\ key.source.version <= of.source.version

\* The records of kind k in memory; after they were cleared, nothing or what the
\* load gave that was shown last.
Follows(k, of) == IF ui.records[k] # None THEN of = ui.records[k]
                  ELSE of = None \/ GivenBy(ui.cached[k], of)

\* The rows on display, which come from a cache file whenever there is one, are
\* rows of the records in memory, from which the details, the diagnosis, the
\* statistics and the exports are taken.  Clearing empties the memory and keeps
\* the name of the cache file (packet_mixin.py:51-64), so rows are shown with
\* nothing in memory: these are rows of the capture or log that was loaded last,
\* never of another file, of another mapping or of an earlier state.
TablesFollowRecords ==
    \A k \in Kinds : (k = "can" => ui.view = "Frames") => Follows(k, ui.table[k].of)

\* The plot shows the selected signals as the records in memory decode them: no
\* curve outlives the log or the mapping it was derived from.  The communication
\* analysis, which the reports print beside the number of packets, is of these
\* packets while there are any.  It does outlive a capture that is cleared, and
\* is then printed beside a number of zero (report_manager.py:103, 134-138): it
\* is the analysis of the capture that was loaded last, or none.
DerivedFollowsRecords ==
    /\ ui.plot = {[signal |-> x, of |-> ui.records["can"]] :
                     x \in ui.selected \cap Decoded(ui.records["can"])}
    /\ Follows("modbus", ui.insight)

\* However the filter, the file and the page changed since: a table is blank
\* only when no record matches.
NoBlankPage == \A k \in Kinds : ui.table[k].matched > 0 => ui.table[k].rows # {}
=============================================================================
