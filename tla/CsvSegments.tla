---------------------------- MODULE CsvSegments ----------------------------
(***************************************************************************)
(* CsvRecorder of recorder.py: the CSV files of one device.  A file is     *)
(* named by the date of its rows and the recorder's schema version.  The   *)
(* columns of a row are a set of points: their order follows from it.      *)
(* AlarmRecorder is the case of one fixed set of points.                   *)
(***************************************************************************)
EXTENDS Naturals

CONSTANTS
    Points,         \* what a row may have values for
    MaxDate,        \* bound on the dates, 1..MaxDate
    MaxVersion      \* bound on the schema version

Dates == 1..MaxDate
Versions == 1..MaxVersion
Files == Dates \X Versions
PointSets == (SUBSET Points) \ {{}}
ASSUME SegmentsAssumption == MaxDate \in Nat \ {0} /\ MaxVersion \in Nat \ {0}

VARIABLES
    headers,        \* the header of every file, {} for a file that does not exist
    date,           \* current_date, 0 for None
    fieldnames,     \* {} before the first row
    version,        \* _schema_version
    isOpen,         \* writer is not None
    own,            \* history: the files this recorder has created
    garbled         \* history: files with a row that is not under their header

recorder == <<date, fieldnames, version, isOpen>>
segments == <<headers, recorder, own, garbled>>

SegmentsInit == /\ headers = [f \in Files |-> {}]
                /\ date = 0 /\ fieldnames = {} /\ version = 1 /\ isOpen = FALSE
                /\ own = {} /\ garbled = {}

\* A new CsvRecorder: it knows nothing of the files that are there.
NewRecorder == /\ date' = 0 /\ fieldnames' = {} /\ version' = 1 /\ isOpen' = FALSE
               /\ own' = {}
               /\ UNCHANGED <<headers, garbled>>

\* field_changed, and the version it leads to.
FieldChanged(row) == fieldnames # {} /\ ~(row.fields \subseteq fieldnames)

\* A mistake to be caught: the new columns go to the file of the old ones.
MutNextVersion(row) == version

NextVersion(row) == IF FieldChanged(row) THEN version + 1 ELSE version
MustOpen(row) == date # row.date \/ ~isOpen \/ FieldChanged(row)

\* A row is readable when its layout is that of the header and loses no value.
Garbles(row, layout, header) == layout # header \/ ~(row.fields \subseteq layout)

\* writerow on the file that is open.
WriteLine(row) ==
    /\ ~MustOpen(row)
    /\ garbled' = IF Garbles(row, fieldnames, headers[<<date, version>>])
                  THEN garbled \cup {<<date, version>>} ELSE garbled
    /\ UNCHANGED <<headers, recorder, own>>

\* _open_for_date: the header is written only to a file that is new.
Reopen(row) ==
    /\ MustOpen(row)
    /\ LET file == <<row.date, NextVersion(row)>>
           isNew == headers[file] = {}
       IN /\ headers' = [headers EXCEPT ![file] = IF isNew THEN row.fields ELSE @]
          /\ own' = IF isNew THEN own \cup {file} ELSE own
          /\ garbled' = IF Garbles(row, row.fields, headers'[file])
                        THEN garbled \cup {file} ELSE garbled
    /\ date' = row.date /\ fieldnames' = row.fields /\ version' = NextVersion(row)
    /\ isOpen' = TRUE

\* The file that was open is closed, the new one cannot be opened.
OpenFails(row) ==
    /\ MustOpen(row)
    /\ date' = row.date /\ fieldnames' = row.fields /\ version' = NextVersion(row)
    /\ isOpen' = FALSE
    /\ UNCHANGED <<headers, own, garbled>>

\* write_row; it may raise, and leave no row.
WriteRow(row) == WriteLine(row) \/ Reopen(row) \/ OpenFails(row)

CloseFile == /\ isOpen' = FALSE
             /\ UNCHANGED <<headers, date, fieldnames, version, own, garbled>>

\* Every variable of the recorder has its type.
SegmentsType == /\ headers \in [Files -> SUBSET Points]
                /\ date \in Dates \cup {0}
                /\ fieldnames \subseteq Points
                /\ version \in Versions
                /\ isOpen \in BOOLEAN
                /\ own \subseteq Files /\ garbled \subseteq Files

\* "If a new point appears later, it rotates to a new CSV segment so headers stay
\* valid and old files remain readable": in the files a recorder has created,
\* every row is under the header, with all its values.
HeadersStayValid == garbled \cap own = {}

\* The same of all files, those found at the start of a recording included.
AllHeadersValid == garbled = {}
=============================================================================
