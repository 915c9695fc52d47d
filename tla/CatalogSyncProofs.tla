---------------------------- MODULE CatalogSyncProofs ----------------------------
(***************************************************************************)
(* Proofs about CatalogSync: the watermark stands, one version is active,  *)
(* and no sequence of snapshots and deltas leaves a change of the library  *)
(* out for good, for any number of books, versions, documents and days.    *)
(***************************************************************************)
EXTENDS CatalogSync, TLAPS

\* No date lies ahead, and nobody holds more than the library has.
Bounds ==
    /\ \A b \in Books :
          /\ register[b].registered <= register[b].updated
          /\ register[b].updated <= today
    /\ source.watermark <= today
    /\ \A v \in VersionIds : versions[v].asOf <= today
    /\ \A d \in Documents : documents[d].through <= today
    /\ \A v \in VersionIds, b \in Books : versions[v].holdings[b] <= register[b].rev
    /\ \A d \in Documents, b \in Books : documents[d].recs[b] <= register[b].rev

\* A file has what its window asks for, except changes made on its last day or
\* later, and nothing that was last changed before its window.
HasItsWindow(d, b) ==
    /\ documents[d].role = "CATALOG_DELTA_REGISTRATION" =>
          /\ ~Updated(b) /\ register[b].registered >= documents[d].start
                /\ register[b].registered < documents[d].through
                => documents[d].recs[b] = register[b].rev
          /\ documents[d].recs[b] > 0 => register[b].registered >= documents[d].start
    /\ documents[d].role = "CATALOG_DELTA_UPDATE" =>
          /\ Updated(b) /\ register[b].updated >= documents[d].start
                /\ register[b].updated < documents[d].through
                => documents[d].recs[b] = register[b].rev
          /\ documents[d].recs[b] > 0 => Updated(b) /\ register[b].updated >= documents[d].start
Exports == \A d \in Documents, b \in Books : HasItsWindow(d, b)

\* A staged snapshot misses only what a delta after it would ask for, and was
\* staged when the version it expects was active, or later.
Staged ==
    \A v \in VersionIds : versions[v].status = "STAGING" =>
        /\ \A b \in Books : LastChange(b) < versions[v].asOf - Overlap
              => versions[v].holdings[b] = register[b].rev
        /\ versions[v].expected = source.active => versions[v].asOf >= source.watermark
        /\ versions[v].expected # None =>
              versions[versions[v].expected].status \in {"ACTIVE", "SUPERSEDED"}

CInv == TypeOK /\ Bounds /\ Exports /\ ActiveIsCurrent /\ Staged /\ NothingMissed

--------------------------------------------------------------------------------
LEMMA InitCInv == Init => CInv
<1>. USE CatalogAssumption
<1>. SUFFICES ASSUME Init PROVE CInv
  OBVIOUS
<1>1. TypeOK
  BY DEF Init, TypeOK, NoDocument, NoVersion, Holdings, Revisions, Days, SourceTypes
<1>2. Bounds
  BY <1>1 DEF Init, Bounds, NoDocument, NoVersion, TypeOK, Revisions
<1>3. Exports
  BY DEF Init, Exports, HasItsWindow, NoDocument
<1>4. ActiveIsCurrent /\ Staged /\ NothingMissed
  BY DEF Init, ActiveIsCurrent, Staged, NothingMissed, NoVersion
<1>. QED
  BY <1>1, <1>2, <1>3, <1>4 DEF CInv

LEMMA NextDayKeeps == CInv /\ NextDay => CInv'
<1>. USE CatalogAssumption DEF NextDay, dbVars
<1>. SUFFICES ASSUME CInv, NextDay PROVE CInv'
  OBVIOUS
<1>1. TypeOK'
  BY DEF CInv, TypeOK
<1>2. Bounds'
  BY DEF CInv, Bounds, TypeOK
<1>3. Exports' /\ ActiveIsCurrent' /\ Staged' /\ NothingMissed'
  BY DEF CInv, Exports, HasItsWindow, ActiveIsCurrent, Staged, NothingMissed, LastChange, Updated
<1>. QED
  BY <1>1, <1>2, <1>3 DEF CInv

\* A change is of today: no file and no version was ever to have it.
LEMMA ChangeKeeps == \A b \in Books : CInv /\ Change(b) => CInv'
<1>. USE CatalogAssumption DEF dbVars
<1>. SUFFICES ASSUME NEW b \in Books, CInv, Change(b) PROVE CInv'
  OBVIOUS
<1>0. /\ TypeOK /\ Bounds
      /\ UNCHANGED <<today, documents, versions, source, batches, v1>>
      /\ register[b].rev \in Nat /\ register[b].rev < MaxRevision
  BY DEF CInv, Change, TypeOK, Revisions
<1>1. TypeOK'
  <2>1. register' \in [Books -> [rev : Revisions, registered : 0 .. MaxDay, updated : 0 .. MaxDay]]
    BY <1>0 DEF Change, TypeOK, Revisions
  <2>. QED
    BY <1>0, <2>1 DEF TypeOK
<1>2. \A c \in Books : c # b => register'[c] = register[c]
  BY <1>0 DEF Change, TypeOK
<1>3. /\ register'[b].rev = register[b].rev + 1
      /\ register'[b].updated = today
      /\ register[b].rev = 0 => register'[b].registered = today
      /\ register[b].rev # 0 => register'[b].registered = register[b].registered
  BY <1>0 DEF Change, TypeOK
<1>4. Bounds'
  <2>1. register[b].updated \in Int /\ register[b].registered \in Int /\ today \in Int
    BY <1>0 DEF TypeOK
  <2>2. \A c \in Books : register'[c].registered <= register'[c].updated /\ register'[c].updated <= today
    BY <1>0, <1>2, <1>3, <2>1 DEF Bounds
  <2>3. \A v \in VersionIds : versions[v].holdings[b] \in Nat
    BY <1>0 DEF TypeOK, Holdings, Revisions
  <2>4. \A v \in VersionIds, c \in Books : versions[v].holdings[c] <= register'[c].rev
    BY <1>0, <1>2, <1>3, <2>3 DEF Bounds
  <2>5. \A d \in Documents : documents[d].recs[b] \in Nat
    BY <1>0 DEF TypeOK, Holdings, Revisions
  <2>6. \A d \in Documents, c \in Books : documents[d].recs[c] <= register'[c].rev
    BY <1>0, <1>2, <1>3, <2>5 DEF Bounds
  <2>. QED
    BY <1>0, <2>2, <2>4, <2>6 DEF Bounds
<1>5. LastChange(b)' = today /\ \A c \in Books : c # b => LastChange(c)' = LastChange(c)
  <2>1. LastChange(b)' = today
    <3>1. CASE register[b].rev = 0
      BY <1>0, <1>3, <3>1 DEF LastChange, Updated
    <3>2. CASE register[b].rev # 0
      BY <1>0, <1>3, <3>2 DEF LastChange, Updated
    <3>. QED
      BY <3>1, <3>2
  <2>2. \A c \in Books : c # b => LastChange(c)' = LastChange(c)
    BY <1>2 DEF LastChange, Updated
  <2>. QED
    BY <2>1, <2>2
<1>6. Exports'
  <2>. SUFFICES ASSUME NEW d \in Documents, NEW c \in Books PROVE HasItsWindow(d, c)'
    BY DEF Exports
  <2>1. CASE c # b
    BY <1>0, <1>2, <2>1 DEF CInv, Exports, HasItsWindow, Updated
  <2>2. CASE c = b
    <3>1. documents[d].through <= today /\ documents[d].recs[b] <= register[b].rev
      BY <1>0 DEF Bounds
    <3>2. /\ documents[d].start \in Int /\ documents[d].through \in Int
          /\ documents[d].recs[b] \in Nat /\ today \in Int
          /\ register[b].registered \in Int /\ register[b].updated \in Int
      BY <1>0 DEF TypeOK, Days, Holdings, Revisions
    <3>3. /\ register[b].registered <= register[b].updated
          /\ register[b].updated <= today
      BY <1>0 DEF Bounds
    <3>4. /\ documents[d].role = "CATALOG_DELTA_REGISTRATION" /\ documents[d].recs[b] > 0 =>
              register[b].registered >= documents[d].start
          /\ documents[d].role = "CATALOG_DELTA_UPDATE" /\ documents[d].recs[b] > 0 =>
              register[b].rev > 1 /\ register[b].updated >= documents[d].start
      BY DEF CInv, Exports, HasItsWindow, Updated
    <3>. QED
      BY <1>0, <1>3, <2>2, <3>1, <3>2, <3>3, <3>4 DEF HasItsWindow, Updated
  <2>. QED
    BY <2>1, <2>2
<1>7. ActiveIsCurrent'
  BY <1>0 DEF CInv, ActiveIsCurrent
<1>8. Staged' /\ NothingMissed'
  <2>1. \A v \in VersionIds : versions[v].asOf <= today /\ versions[v].asOf \in Int
    BY <1>0 DEF Bounds, TypeOK
  <2>2. source.watermark <= today /\ source.watermark \in Int /\ today \in Int
    BY <1>0 DEF Bounds, TypeOK
  <2>. QED
    BY <1>0, <1>2, <1>5, <2>1, <2>2 DEF CInv, Staged, NothingMissed
<1>. QED
  BY <1>1, <1>4, <1>6, <1>7, <1>8 DEF CInv

LEMMA ExportKeeps ==
    \A d \in Documents : CInv /\ (ExportRegistrations(d) \/ ExportUpdates(d) \/ Parse(d)) => CInv'
<1>. USE CatalogAssumption
<1>. SUFFICES ASSUME NEW d \in Documents, CInv,
                     ExportRegistrations(d) \/ ExportUpdates(d) \/ Parse(d)
              PROVE  CInv'
  OBVIOUS
<1>0. /\ TypeOK /\ Bounds
      /\ UNCHANGED <<today, register, versions, source, batches, v1>>
  BY DEF CInv, ExportRegistrations, ExportUpdates, AddDocument, Parse
<1>1. ActiveIsCurrent' /\ Staged' /\ NothingMissed'
  BY <1>0 DEF CInv, ActiveIsCurrent, Staged, NothingMissed, LastChange, Updated
<1>2. \A e \in Documents : e # d => documents'[e] = documents[e]
  BY <1>0 DEF ExportRegistrations, ExportUpdates, AddDocument, Parse, TypeOK
<1>3. \A b \in Books : register[b].rev \in Revisions /\ register[b].rev \in Nat
  BY <1>0 DEF TypeOK, Revisions
<1>4. Starts \subseteq Days
  BY <1>0 DEF TypeOK, Starts, Days
<1>9. /\ Days \subseteq Int /\ Starts \subseteq Int /\ 0 .. today \subseteq Int
      /\ \A b \in Books : register[b].registered \in Int /\ register[b].updated \in Int
  BY <1>0, <1>4 DEF Days, TypeOK
<1>5. CASE Parse(d)
  <2>1. TypeOK'
    <3>1. documents' \in [Documents ->
             [role : Roles \cup {"NONE"}, start : Days, through : 0 .. MaxDay,
              recs : Holdings, parsed : BOOLEAN]]
      <4>. DEFINE Rows == [role : Roles \cup {"NONE"}, start : Days, through : 0 .. MaxDay,
                           recs : Holdings, parsed : BOOLEAN]
      <4>1. documents \in [Documents -> Rows]
        BY <1>0 DEF TypeOK
      <4>2. documents' = [documents EXCEPT ![d] = [documents[d] EXCEPT !.parsed = TRUE]]
        BY <1>5 DEF Parse
      <4>3. [documents[d] EXCEPT !.parsed = TRUE] \in Rows
        BY <4>1
      <4>. HIDE DEF Rows
      <4>4. documents' \in [Documents -> Rows]
        BY <4>1, <4>2, <4>3
      <4>. QED
        BY <4>4 DEF Rows
    <3>. QED
      BY <1>0, <3>1 DEF TypeOK
  <2>2. /\ documents'[d].role = documents[d].role /\ documents'[d].start = documents[d].start
        /\ documents'[d].through = documents[d].through /\ documents'[d].recs = documents[d].recs
    BY <1>0, <1>5 DEF TypeOK, Parse
  <2>3. Bounds'
    BY <1>0, <1>2, <2>2 DEF Bounds
  <2>4. Exports'
    <3>. SUFFICES ASSUME NEW e \in Documents, NEW b \in Books PROVE HasItsWindow(e, b)'
      BY DEF Exports
    <3>1. /\ documents'[e].role = documents[e].role /\ documents'[e].start = documents[e].start
          /\ documents'[e].through = documents[e].through /\ documents'[e].recs = documents[e].recs
      BY <1>2, <2>2
    <3>2. HasItsWindow(e, b)
      BY DEF CInv, Exports
    <3>. QED
      BY <1>0, <3>1, <3>2 DEF HasItsWindow, Updated
  <2>. QED
    BY <1>1, <2>1, <2>3, <2>4 DEF CInv
<1>6. ASSUME NEW role \in Roles, NEW start \in Starts, NEW through \in 0 .. today, NEW recs \in Holdings,
             AddDocument(d, role, start, through, recs),
             \A b \in Books : recs[b] <= register[b].rev,
             \A b \in Books : HasItsWindow(d, b)'
      PROVE  CInv'
  <2>1. documents'[d] = [role |-> role, start |-> start, through |-> through, recs |-> recs, parsed |-> FALSE]
    BY <1>0, <1>6 DEF AddDocument, TypeOK
  <2>2. TypeOK'
    <3>1. through \in 0 .. MaxDay
      BY <1>0 DEF TypeOK
    <3>2. documents'[d] \in [role : Roles \cup {"NONE"}, start : Days, through : 0 .. MaxDay,
                             recs : Holdings, parsed : BOOLEAN]
      BY <1>4, <2>1, <3>1
    <3>3. documents' \in [Documents ->
             [role : Roles \cup {"NONE"}, start : Days, through : 0 .. MaxDay,
              recs : Holdings, parsed : BOOLEAN]]
      BY <1>0, <1>6, <3>2 DEF AddDocument, TypeOK
    <3>. QED
      BY <1>0, <3>3 DEF TypeOK
  <2>3. Bounds'
    <3>1. \A e \in Documents : documents'[e].through <= today
      BY <1>0, <1>2, <2>1 DEF Bounds, TypeOK
    <3>2. \A e \in Documents, b \in Books : documents'[e].recs[b] <= register[b].rev
      BY <1>0, <1>2, <1>6, <2>1 DEF Bounds
    <3>. QED
      BY <1>0, <3>1, <3>2 DEF Bounds
  <2>4. Exports'
    <3>. SUFFICES ASSUME NEW e \in Documents, NEW b \in Books PROVE HasItsWindow(e, b)'
      BY DEF Exports
    <3>1. CASE e = d
      BY <1>6, <3>1
    <3>2. CASE e # d
      <4>1. HasItsWindow(e, b) /\ documents'[e] = documents[e]
        BY <1>2, <3>2 DEF CInv, Exports
      <4>. QED
        BY <1>0, <4>1 DEF HasItsWindow, Updated
    <3>. QED
      BY <3>1, <3>2
  <2>. QED
    BY <1>1, <2>2, <2>3, <2>4 DEF CInv
<1>7. CASE ExportRegistrations(d)
  <2>1. PICK start \in Starts, through \in 0 .. today :
          AddDocument(d, "CATALOG_DELTA_REGISTRATION", start, through,
             [b \in Books |-> IF register[b].registered \in start .. through
                              THEN register[b].rev ELSE 0])
    BY <1>7 DEF ExportRegistrations
  <2>. DEFINE recs == [b \in Books |-> IF register[b].registered \in start .. through
                                      THEN register[b].rev ELSE 0]
  <2>2. recs \in Holdings /\ \A b \in Books : recs[b] <= register[b].rev
    BY <1>3 DEF Holdings, Revisions
  <2>3. /\ documents'[d].role = "CATALOG_DELTA_REGISTRATION" /\ documents'[d].recs = recs
        /\ documents'[d].start = start /\ documents'[d].through = through
    BY <1>0, <2>1 DEF AddDocument, TypeOK
  <2>4. \A b \in Books : HasItsWindow(d, b)'
    <3>. SUFFICES ASSUME NEW b \in Books PROVE HasItsWindow(d, b)'
      OBVIOUS
    <3>1. start \in Int /\ through \in Int /\ register[b].registered \in Int
      BY <1>9
    <3>2. /\ register[b].registered >= start /\ register[b].registered < through => recs[b] = register[b].rev
          /\ recs[b] > 0 => register[b].registered >= start
      BY <3>1
    <3>. QED
      BY <1>0, <2>3, <3>2 DEF HasItsWindow
  <2>. QED
    BY <1>6, <2>1, <2>2, <2>4 DEF Roles
<1>8. CASE ExportUpdates(d)
  <2>1. PICK start \in Starts, through \in 0 .. today :
          AddDocument(d, "CATALOG_DELTA_UPDATE", start, through,
             [b \in Books |-> IF Updated(b) /\ register[b].updated \in start .. through
                              THEN register[b].rev ELSE 0])
    BY <1>8 DEF ExportUpdates
  <2>. DEFINE recs == [b \in Books |-> IF Updated(b) /\ register[b].updated \in start .. through
                                      THEN register[b].rev ELSE 0]
  <2>2. recs \in Holdings /\ \A b \in Books : recs[b] <= register[b].rev
    BY <1>3 DEF Holdings, Revisions
  <2>3. /\ documents'[d].role = "CATALOG_DELTA_UPDATE" /\ documents'[d].recs = recs
        /\ documents'[d].start = start /\ documents'[d].through = through
    BY <1>0, <2>1 DEF AddDocument, TypeOK
  <2>4. \A b \in Books : HasItsWindow(d, b)'
    <3>. SUFFICES ASSUME NEW b \in Books PROVE HasItsWindow(d, b)'
      OBVIOUS
    <3>1. start \in Int /\ through \in Int /\ register[b].updated \in Int
      BY <1>9
    <3>2. /\ Updated(b) /\ register[b].updated >= start /\ register[b].updated < through
               => recs[b] = register[b].rev
          /\ recs[b] > 0 => Updated(b) /\ register[b].updated >= start
      BY <3>1
    <3>3. Updated(b)' <=> Updated(b)
      BY <1>0 DEF Updated
    <3>4. /\ (Updated(b) /\ register[b].updated >= documents[d].start
                 /\ register[b].updated < documents[d].through
               => documents[d].recs[b] = register[b].rev)'
          /\ (documents[d].recs[b] > 0 => Updated(b) /\ register[b].updated >= documents[d].start)'
      BY <1>0, <2>3, <3>2, <3>3
    <3>. QED
      BY <2>3, <3>4 DEF HasItsWindow
  <2>. QED
    BY <1>6, <2>1, <2>2, <2>4 DEF Roles
<1>. QED
  BY <1>5, <1>7, <1>8

--------------------------------------------------------------------------------
(* Versions. *)

VersionRows ==
    [status : {"NONE", "STAGING", "ACTIVE", "SUPERSEDED"}, type : SourceTypes,
     holdings : Holdings, asOf : 0 .. MaxDay, expected : VersionIds \cup {None},
     batch : (Documents \X Documents) \cup {None}]

\* What a switch to another active version does to the rows.
LEMMA MakeActiveRows ==
  ASSUME TypeOK, NEW v \in VersionIds, NEW row \in VersionRows, MakeActive(v, row)
  PROVE  /\ versions' \in [VersionIds -> VersionRows]
         /\ versions'[v] = [row EXCEPT !.status = "ACTIVE"]
         /\ \A w \in VersionIds : w # v =>
               /\ versions'[w].status = IF versions[w].status = "ACTIVE" THEN "SUPERSEDED"
                                        ELSE versions[w].status
               /\ versions'[w].type = versions[w].type
               /\ versions'[w].holdings = versions[w].holdings
               /\ versions'[w].asOf = versions[w].asOf
               /\ versions'[w].expected = versions[w].expected
<1>1. versions \in [VersionIds -> VersionRows]
  BY DEF TypeOK, VersionRows
<1>2. [row EXCEPT !.status = "ACTIVE"] \in VersionRows
  BY DEF VersionRows
<1>3. \A w \in VersionIds : [versions[w] EXCEPT !.status = "SUPERSEDED"] \in VersionRows
  BY <1>1 DEF VersionRows
<1>4. versions' \in [VersionIds -> VersionRows]
  BY <1>1, <1>2, <1>3 DEF MakeActive
<1>5. versions'[v] = [row EXCEPT !.status = "ACTIVE"]
  BY DEF MakeActive
<1>6. \A w \in VersionIds : w # v =>
          versions'[w] = IF versions[w].status = "ACTIVE"
                         THEN [versions[w] EXCEPT !.status = "SUPERSEDED"] ELSE versions[w]
  BY DEF MakeActive
<1>7. \A w \in VersionIds : w # v =>
               /\ versions'[w].status = IF versions[w].status = "ACTIVE" THEN "SUPERSEDED"
                                        ELSE versions[w].status
               /\ versions'[w].type = versions[w].type
               /\ versions'[w].holdings = versions[w].holdings
               /\ versions'[w].asOf = versions[w].asOf
               /\ versions'[w].expected = versions[w].expected
  BY <1>1, <1>6 DEF VersionRows
<1>. QED
  BY <1>4, <1>5, <1>7

\* What is left to show of a switch: the new version's holdings and dates.
LEMMA SwitchKeeps ==
  ASSUME CInv, NEW v \in VersionIds, NEW row \in VersionRows, MakeActive(v, row),
         UNCHANGED <<today, register, documents>>,
         source' \in [active : VersionIds \cup {None}, type : SourceTypes,
                      watermark : 0 .. MaxDay, full : 0 .. MaxDay],
         batches' \in [Documents \X Documents -> {"NONE", "PARTIAL_FAILURE", "SUCCESS"}],
         v1' \in {"NONE", "PENDING_CONFIRMATION", "ACTIVATED"},
         versions[v].status \in {"NONE", "STAGING"},
         source'.active = v, source'.type = row.type,
         source'.watermark <= today, row.asOf <= today,
         \A b \in Books : row.holdings[b] <= register[b].rev,
         row.type = "DLS_MARC" => \A b \in Books :
            LastChange(b) < source'.watermark - Overlap => row.holdings[b] = register[b].rev
  PROVE  CInv'
<1>. USE CatalogAssumption
<1>0. TypeOK /\ Bounds /\ ActiveIsCurrent /\ Staged
  BY DEF CInv
<1>1. /\ versions' \in [VersionIds -> VersionRows]
      /\ versions'[v] = [row EXCEPT !.status = "ACTIVE"]
      /\ \A w \in VersionIds : w # v =>
            /\ versions'[w].status = IF versions[w].status = "ACTIVE" THEN "SUPERSEDED"
                                     ELSE versions[w].status
            /\ versions'[w].type = versions[w].type
            /\ versions'[w].holdings = versions[w].holdings
            /\ versions'[w].asOf = versions[w].asOf
            /\ versions'[w].expected = versions[w].expected
  BY <1>0, MakeActiveRows
<1>2. /\ versions'[v].status = "ACTIVE" /\ versions'[v].type = row.type
      /\ versions'[v].holdings = row.holdings /\ versions'[v].asOf = row.asOf
      /\ versions'[v].expected = row.expected
  BY <1>1 DEF VersionRows
<1>3. TypeOK'
  BY <1>0, <1>1 DEF TypeOK, VersionRows
<1>4. Bounds'
  BY <1>0, <1>1, <1>2 DEF Bounds
<1>5. Exports'
  BY DEF CInv, Exports, HasItsWindow, Updated
<1>6. ActiveIsCurrent'
  <2>. SUFFICES ASSUME NEW w \in VersionIds
       PROVE  /\ versions'[w].status = "ACTIVE" <=> w = source'.active
              /\ w = source'.active => versions'[w].type = source'.type
    BY DEF ActiveIsCurrent
  <2>1. CASE w = v
    BY <1>2, <2>1
  <2>2. CASE w # v
    <3>1. versions'[w].status # "ACTIVE"
      BY <1>1, <2>2
    <3>. QED
      BY <2>2, <3>1
  <2>. QED
    BY <2>1, <2>2
<1>7. Staged'
  <2>. SUFFICES ASSUME NEW w \in VersionIds, versions'[w].status = "STAGING"
       PROVE  /\ \A b \in Books : LastChange(b)' < versions'[w].asOf - Overlap
                    => versions'[w].holdings[b] = register'[b].rev
              /\ versions'[w].expected = source'.active => versions'[w].asOf >= source'.watermark
              /\ versions'[w].expected # None =>
                    versions'[versions'[w].expected].status \in {"ACTIVE", "SUPERSEDED"}
    BY DEF Staged
  <2>1. w # v /\ versions[w].status = "STAGING"
    BY <1>1, <1>2
  <2>2. \A b \in Books : LastChange(b)' = LastChange(b)
    BY DEF LastChange, Updated
  <2>3. /\ versions'[w].expected = versions[w].expected
        /\ versions'[w].expected \in VersionIds \cup {None}
    BY <1>0, <1>1, <2>1 DEF TypeOK
  <2>4. versions[w].expected # None =>
            versions[versions[w].expected].status \in {"ACTIVE", "SUPERSEDED"}
    BY <1>0, <2>1 DEF Staged
  <2>5. versions'[w].expected # v
    BY <2>3, <2>4
  <2>6. versions'[w].expected # None =>
            versions'[versions'[w].expected].status \in {"ACTIVE", "SUPERSEDED"}
    BY <1>1, <2>3, <2>4, <2>5
  <2>7. \A b \in Books : LastChange(b)' < versions'[w].asOf - Overlap
            => versions'[w].holdings[b] = register'[b].rev
    BY <1>0, <1>1, <2>1, <2>2 DEF Staged
  <2>. QED
    BY <2>5, <2>6, <2>7
<1>8. NothingMissed'
  BY <1>2 DEF NothingMissed, LastChange, Updated
<1>. QED
  BY <1>3, <1>4, <1>5, <1>6, <1>7, <1>8 DEF CInv

LEMMA StageFullKeeps == \A v \in VersionIds : CInv /\ StageFull(v) => CInv'
<1>. USE CatalogAssumption
<1>. SUFFICES ASSUME NEW v \in VersionIds, CInv, StageFull(v) PROVE CInv'
  OBVIOUS
<1>0. /\ TypeOK /\ Bounds /\ ActiveIsCurrent /\ Staged
      /\ UNCHANGED <<today, register, documents, source, batches, v1>>
  BY DEF CInv, StageFull
<1>1. PICK recs \in FullExports, type \in SourceTypes :
        /\ versions[v].status = "NONE"
        /\ versions' = [versions EXCEPT ![v] =
              [status |-> "STAGING", type |-> type, holdings |-> recs,
               asOf |-> today, expected |-> source.active, batch |-> None]]
  BY DEF StageFull
<1>2. /\ today \in Int /\ StagingDelay \in Int /\ Overlap \in Int
      /\ \A b \in Books : register[b].rev \in Revisions /\ LastChange(b) \in Int
  BY <1>0 DEF TypeOK, LastChange
<1>3. /\ recs \in Holdings
      /\ \A b \in Books : recs[b] <= register[b].rev
      /\ \A b \in Books : LastChange(b) < today - StagingDelay => recs[b] = register[b].rev
  <2>1. CASE recs = [b \in Books |-> register[b].rev]
    BY <1>2, <2>1 DEF Holdings, Revisions
  <2>2. CASE recs = [b \in Books |-> IF LastChange(b) >= today - StagingDelay /\ register[b].rev > 0
                                    THEN register[b].rev - 1 ELSE register[b].rev]
    <3>1. \A b \in Books : recs[b] \in Revisions /\ recs[b] <= register[b].rev
      BY <1>2, <2>2 DEF Revisions
    <3>2. \A b \in Books : LastChange(b) < today - StagingDelay => recs[b] = register[b].rev
      BY <1>2, <2>2
    <3>. QED
      BY <2>2, <3>1, <3>2 DEF Holdings
  <2>. QED
    BY <1>1, <2>1, <2>2 DEF FullExports
<1>. DEFINE row == [status |-> "STAGING", type |-> type, holdings |-> recs,
                    asOf |-> today, expected |-> source.active, batch |-> None]
<1>4. row \in VersionRows
  BY <1>0, <1>1, <1>3 DEF TypeOK, VersionRows
<1>5. versions \in [VersionIds -> VersionRows] /\ versions' = [versions EXCEPT ![v] = row]
  BY <1>0, <1>1 DEF TypeOK, VersionRows
<1>6. /\ row.status = "STAGING" /\ row.holdings = recs /\ row.asOf = today
      /\ row.expected = source.active
  OBVIOUS
<1>. HIDE DEF row
<1>7. /\ versions' \in [VersionIds -> VersionRows] /\ versions'[v] = row
      /\ \A w \in VersionIds : w # v => versions'[w] = versions[w]
  BY <1>4, <1>5
<1>8. TypeOK'
  BY <1>0, <1>7 DEF TypeOK, VersionRows
<1>9. Bounds' /\ Exports' /\ ActiveIsCurrent' /\ NothingMissed'
  <2>1. Bounds'
    BY <1>0, <1>2, <1>3, <1>6, <1>7 DEF Bounds
  <2>2. Exports'
    BY <1>0 DEF CInv, Exports, HasItsWindow, Updated
  <2>3. v # source.active
    BY <1>0, <1>1 DEF ActiveIsCurrent
  <2>4. ActiveIsCurrent'
    BY <1>0, <1>6, <1>7, <2>3 DEF ActiveIsCurrent
  <2>5. NothingMissed'
    BY <1>0, <1>7, <2>3 DEF CInv, NothingMissed, LastChange, Updated, TypeOK
  <2>. QED
    BY <2>1, <2>2, <2>4, <2>5
<1>10. Staged'
  <2>1. \A b \in Books : LastChange(b)' = LastChange(b)
    BY <1>0 DEF LastChange, Updated
  <2>2. source.active # None => source.active # v /\ versions[source.active].status = "ACTIVE"
    BY <1>0, <1>1 DEF ActiveIsCurrent, TypeOK
  <2>3. source.watermark <= today
    BY <1>0 DEF Bounds
  <2>. SUFFICES ASSUME NEW w \in VersionIds, versions'[w].status = "STAGING"
       PROVE  /\ \A b \in Books : LastChange(b)' < versions'[w].asOf - Overlap
                    => versions'[w].holdings[b] = register'[b].rev
              /\ versions'[w].expected = source'.active => versions'[w].asOf >= source'.watermark
              /\ versions'[w].expected # None =>
                    versions'[versions'[w].expected].status \in {"ACTIVE", "SUPERSEDED"}
    BY DEF Staged
  <2>4. CASE w = v
    <3>1. \A b \in Books : LastChange(b) < today - Overlap => recs[b] = register[b].rev
      BY <1>2, <1>3
    <3>2. source.active # None => source.active \in VersionIds
      BY <1>0 DEF TypeOK
    <3>. QED
      BY <1>0, <1>6, <1>7, <2>1, <2>2, <2>3, <2>4, <3>1, <3>2
  <2>5. CASE w # v
    <3>1. versions'[w] = versions[w] /\ versions[w].status = "STAGING"
      BY <1>7, <2>5
    <3>2. versions[w].expected # None => versions[w].expected \in VersionIds \ {v}
      BY <1>0, <1>1, <3>1 DEF Staged, TypeOK
    <3>. QED
      BY <1>0, <1>7, <2>1, <3>1, <3>2 DEF Staged
  <2>. QED
    BY <2>4, <2>5
<1>. QED
  BY <1>8, <1>9, <1>10 DEF CInv

LEMMA ActivateStagedKeeps ==
  \A v \in VersionIds : CInv /\ ActivateStaged(v) => CInv' /\ source'.watermark >= source.watermark
<1>. USE CatalogAssumption
<1>. SUFFICES ASSUME NEW v \in VersionIds, CInv, ActivateStaged(v)
              PROVE  CInv' /\ source'.watermark >= source.watermark
  OBVIOUS
<1>0. TypeOK /\ Bounds /\ Staged
  BY DEF CInv
<1>1. /\ versions[v].status = "STAGING" /\ versions[v].expected = source.active
      /\ MakeActive(v, versions[v])
      /\ source' = [active |-> v, type |-> versions[v].type,
                    watermark |-> versions[v].asOf, full |-> today]
      /\ UNCHANGED <<today, register, documents, batches, v1>>
  BY DEF ActivateStaged
<1>2. versions[v] \in VersionRows
  BY <1>0 DEF TypeOK, VersionRows
<1>3. /\ source'.active = v /\ source'.type = versions[v].type
      /\ source'.watermark = versions[v].asOf
      /\ source' \in [active : VersionIds \cup {None}, type : SourceTypes,
                       watermark : 0 .. MaxDay, full : 0 .. MaxDay]
  BY <1>0, <1>1, <1>2 DEF TypeOK, VersionRows
<1>4. /\ versions[v].asOf <= today
      /\ \A b \in Books : versions[v].holdings[b] <= register[b].rev
  BY <1>0 DEF Bounds
<1>5. \A b \in Books : LastChange(b) < versions[v].asOf - Overlap
                         => versions[v].holdings[b] = register[b].rev
  BY <1>0, <1>1 DEF Staged
<1>6. versions[v].asOf >= source.watermark
  BY <1>0, <1>1 DEF Staged
<1>7. /\ batches' \in [Documents \X Documents -> {"NONE", "PARTIAL_FAILURE", "SUCCESS"}]
      /\ v1' \in {"NONE", "PENDING_CONFIRMATION", "ACTIVATED"}
  BY <1>0, <1>1 DEF TypeOK
<1>8. CInv'
  BY <1>1, <1>2, <1>3, <1>4, <1>5, <1>7, SwitchKeeps
<1>. QED
  BY <1>3, <1>6, <1>8

LEMMA ActivateV1Keeps ==
  \A v \in VersionIds : CInv /\ ActivateV1(v) => CInv' /\ source'.watermark >= source.watermark
<1>. USE CatalogAssumption
<1>. SUFFICES ASSUME NEW v \in VersionIds, CInv, ActivateV1(v)
              PROVE  CInv' /\ source'.watermark >= source.watermark
  OBVIOUS
<1>. DEFINE row == [status |-> "STAGING", type |-> "DLS_EXCEL", holdings |-> V1Holdings,
                    asOf |-> today, expected |-> source.active, batch |-> None]
<1>0. TypeOK /\ Bounds
  BY DEF CInv
<1>1. /\ versions[v].status = "NONE" /\ MakeActive(v, row)
      /\ source' = [active |-> v, type |-> "DLS_EXCEL", watermark |-> today, full |-> today]
      /\ v1' = "ACTIVATED"
      /\ UNCHANGED <<today, register, documents, batches>>
  BY DEF ActivateV1
<1>2. V1Holdings \in Holdings /\ \A b \in Books : V1Holdings[b] <= register[b].rev
  <2>1. \A b \in Books : register[b].rev \in Revisions
    BY <1>0 DEF TypeOK
  <2>. QED
    BY <2>1 DEF V1Holdings, Holdings, Revisions
<1>3. row \in VersionRows
  BY <1>0, <1>2 DEF TypeOK, VersionRows, SourceTypes
<1>4. /\ row.type = "DLS_EXCEL" /\ row.asOf = today /\ row.holdings = V1Holdings
  OBVIOUS
<1>5. /\ source'.active = v /\ source'.type = "DLS_EXCEL" /\ source'.watermark = today
      /\ source' \in [active : VersionIds \cup {None}, type : SourceTypes,
                       watermark : 0 .. MaxDay, full : 0 .. MaxDay]
      /\ today \in Int
  BY <1>0, <1>1 DEF TypeOK, SourceTypes
<1>6. batches' \in [Documents \X Documents -> {"NONE", "PARTIAL_FAILURE", "SUCCESS"}]
  BY <1>0, <1>1 DEF TypeOK
<1>. HIDE DEF row
<1>7. CInv'
  BY <1>1, <1>2, <1>3, <1>4, <1>5, <1>6, SwitchKeeps
<1>8. source.watermark <= today
  BY <1>0 DEF Bounds
<1>. QED
  BY <1>5, <1>7, <1>8

LEMMA DeltaPartialKeeps ==
  \A reg, upd \in Documents : CInv /\ DeltaPartial(reg, upd) => CInv'
<1>. SUFFICES ASSUME NEW reg \in Documents, NEW upd \in Documents, CInv, DeltaPartial(reg, upd)
              PROVE  CInv'
  OBVIOUS
<1>1. /\ UNCHANGED <<today, register, documents, versions, source, v1>>
      /\ batches' = [batches EXCEPT ![<<reg, upd>>] = "PARTIAL_FAILURE"]
  BY DEF DeltaPartial
<1>2. TypeOK'
  BY <1>1 DEF CInv, TypeOK
<1>3. Bounds' /\ Exports' /\ ActiveIsCurrent' /\ Staged' /\ NothingMissed'
  BY <1>1 DEF CInv, Bounds, Exports, HasItsWindow, ActiveIsCurrent, Staged, NothingMissed, LastChange, Updated
<1>. QED
  BY <1>2, <1>3 DEF CInv

\* The heart of the matter: what the old version does not have, the files of
\* the window from the overlap on have, and nothing in them is older than what
\* it replaces.
LEMMA DeltaAppliedKeeps ==
  \A v \in VersionIds, reg, upd \in Documents :
    CInv /\ DeltaApplied(v, reg, upd) => CInv' /\ source'.watermark >= source.watermark
<1>. USE CatalogAssumption
<1>. SUFFICES ASSUME NEW v \in VersionIds, NEW reg \in Documents, NEW upd \in Documents,
                     CInv, DeltaApplied(v, reg, upd)
              PROVE  CInv' /\ source'.watermark >= source.watermark
  OBVIOUS
<1>. DEFINE old  == versions[source.active].holdings
            through == documents[upd].through
            new  == Applied(old, reg, upd)
            row  == [status |-> "STAGING", type |-> "DLS_MARC", holdings |-> new,
                     asOf |-> through, expected |-> None, batch |-> <<reg, upd>>]
<1>0. TypeOK /\ Bounds /\ NothingMissed
  BY DEF CInv
<1>1. /\ versions[v].status = "NONE" /\ MakeActive(v, row)
      /\ source' = [source EXCEPT !.active = v, !.watermark = through]
      /\ batches' = [batches EXCEPT ![<<reg, upd>>] = "SUCCESS"]
      /\ UNCHANGED <<today, register, documents, v1>>
  BY DEF DeltaApplied
<1>2. /\ source.active # None /\ source.type = "DLS_MARC"
      /\ through \in source.watermark .. today
      /\ documents[reg].role = "CATALOG_DELTA_REGISTRATION"
      /\ documents[upd].role = "CATALOG_DELTA_UPDATE"
      /\ documents[reg].through = through
      /\ documents[reg].start = source.watermark - Overlap
      /\ documents[upd].start = source.watermark - Overlap
  BY DEF DeltaApplied, DeltaAccepted
<1>3. /\ source.active \in VersionIds
      /\ old \in Holdings /\ documents[upd].recs \in Holdings /\ documents[reg].recs \in Holdings
      /\ through \in 0 .. MaxDay /\ through \in Int /\ today \in Int /\ source.watermark \in Int
  BY <1>0, <1>2 DEF TypeOK
<1>4. \A b \in Books :
        /\ new[b] = IF documents[upd].recs[b] > 0 THEN documents[upd].recs[b]
                    ELSE IF documents[reg].recs[b] > 0 THEN documents[reg].recs[b]
                    ELSE old[b]
        /\ old[b] \in Nat /\ documents[upd].recs[b] \in Nat /\ documents[reg].recs[b] \in Nat
        /\ old[b] <= register[b].rev /\ documents[upd].recs[b] <= register[b].rev
        /\ documents[reg].recs[b] <= register[b].rev
        /\ register[b].rev \in Nat
        /\ register[b].registered \in Int /\ register[b].updated \in Int
        /\ register[b].registered <= register[b].updated
  BY <1>0, <1>3 DEF Applied, Holdings, Revisions, TypeOK, Bounds
<1>5. new \in Holdings
  BY <1>3 DEF Applied, Holdings
<1>6. row \in VersionRows
  BY <1>3, <1>5 DEF VersionRows, SourceTypes
<1>7. \A b \in Books : new[b] <= register[b].rev
  BY <1>4
<1>8. ASSUME NEW b \in Books, LastChange(b) < through - Overlap
      PROVE  new[b] = register[b].rev
  <2>1. HasItsWindow(reg, b) /\ HasItsWindow(upd, b)
    BY DEF CInv, Exports
  <2>2. /\ ~Updated(b) /\ register[b].registered >= source.watermark - Overlap
               /\ register[b].registered < through => documents[reg].recs[b] = register[b].rev
        /\ documents[reg].recs[b] > 0 => register[b].registered >= source.watermark - Overlap
        /\ Updated(b) /\ register[b].updated >= source.watermark - Overlap
               /\ register[b].updated < through => documents[upd].recs[b] = register[b].rev
        /\ documents[upd].recs[b] > 0 => Updated(b) /\ register[b].updated >= source.watermark - Overlap
    BY <1>2, <2>1 DEF HasItsWindow
  <2>3. LastChange(b) \in Int /\ Overlap \in Nat
    BY <1>4 DEF LastChange
  <2>4. CASE LastChange(b) < source.watermark - Overlap
    <3>1. old[b] = register[b].rev
      BY <1>0, <1>2, <2>4 DEF NothingMissed
    <3>2. documents[upd].recs[b] = 0 /\ documents[reg].recs[b] = 0
      BY <1>3, <1>4, <2>2, <2>4 DEF LastChange
    <3>. QED
      BY <1>4, <3>1, <3>2
  <2>5. CASE LastChange(b) >= source.watermark - Overlap
    <3>1. CASE Updated(b)
      <4>1. documents[upd].recs[b] = register[b].rev
        BY <1>3, <1>8, <2>2, <2>3, <2>5, <3>1 DEF LastChange
      <4>. QED
        BY <1>4, <3>1, <4>1 DEF Updated
    <3>2. CASE ~Updated(b)
      <4>1. documents[reg].recs[b] = register[b].rev
        BY <1>3, <1>8, <2>2, <2>3, <2>5, <3>2 DEF LastChange
      <4>2. documents[upd].recs[b] = 0
        BY <1>4, <2>2, <3>2
      <4>. QED
        BY <1>4, <4>1, <4>2
    <3>. QED
      BY <3>1, <3>2
  <2>. QED
    BY <1>3, <2>3, <2>4, <2>5
<1>9. /\ row.type = "DLS_MARC" /\ row.asOf = through /\ row.holdings = new
  OBVIOUS
<1>10. /\ source'.active = v /\ source'.type = "DLS_MARC" /\ source'.watermark = through
       /\ source' \in [active : VersionIds \cup {None}, type : SourceTypes,
                        watermark : 0 .. MaxDay, full : 0 .. MaxDay]
  BY <1>0, <1>1, <1>2, <1>3 DEF TypeOK
<1>11. /\ batches' \in [Documents \X Documents -> {"NONE", "PARTIAL_FAILURE", "SUCCESS"}]
       /\ v1' \in {"NONE", "PENDING_CONFIRMATION", "ACTIVATED"}
  BY <1>0, <1>1 DEF TypeOK
<1>. HIDE DEF row, new
<1>12. CInv'
  BY <1>1, <1>2, <1>3, <1>6, <1>7, <1>8, <1>9, <1>10, <1>11, SwitchKeeps
<1>. QED
  BY <1>2, <1>3, <1>10, <1>12

--------------------------------------------------------------------------------
LEMMA StepKeeps == CInv /\ [Next]_vars => CInv' /\ source'.watermark >= source.watermark
<1>. SUFFICES ASSUME CInv, [Next]_vars PROVE CInv' /\ source'.watermark >= source.watermark
  OBVIOUS
<1>0. source.watermark \in Int
  BY CatalogAssumption DEF CInv, TypeOK
<1>1. CASE NextDay
  <2>1. source' = source
    BY <1>1 DEF NextDay, dbVars
  <2>. QED
    BY <1>0, <1>1, <2>1, NextDayKeeps
<1>2. ASSUME NEW b \in Books, Change(b) PROVE CInv' /\ source'.watermark >= source.watermark
  <2>1. source' = source
    BY <1>2 DEF Change, dbVars
  <2>. QED
    BY <1>0, <1>2, <2>1, ChangeKeeps
<1>3. ASSUME NEW d \in Documents, ExportRegistrations(d) \/ ExportUpdates(d) \/ Parse(d)
      PROVE  CInv' /\ source'.watermark >= source.watermark
  <2>1. source' = source
    BY <1>3 DEF ExportRegistrations, ExportUpdates, AddDocument, Parse
  <2>. QED
    BY <1>0, <1>3, <2>1, ExportKeeps
<1>4. ASSUME NEW v \in VersionIds, ActivateStaged(v) \/ ActivateV1(v) \/ StageFull(v)
      PROVE  CInv' /\ source'.watermark >= source.watermark
  <2>1. CASE StageFull(v)
    <3>1. source' = source
      BY <2>1 DEF StageFull
    <3>. QED
      BY <1>0, <2>1, <3>1, StageFullKeeps
  <2>2. CASE ActivateStaged(v)
    BY <2>2, ActivateStagedKeeps
  <2>3. CASE ActivateV1(v)
    BY <2>3, ActivateV1Keeps
  <2>. QED
    BY <1>4, <2>1, <2>2, <2>3
<1>5. ASSUME NEW reg \in Documents, NEW upd \in Documents, DeltaPartial(reg, upd)
      PROVE  CInv' /\ source'.watermark >= source.watermark
  <2>1. source' = source
    BY <1>5 DEF DeltaPartial
  <2>. QED
    BY <1>0, <1>5, <2>1, DeltaPartialKeeps
<1>6. ASSUME NEW v \in VersionIds, NEW reg \in Documents, NEW upd \in Documents, DeltaApplied(v, reg, upd)
      PROVE  CInv' /\ source'.watermark >= source.watermark
  BY <1>6, DeltaAppliedKeeps
<1>7. CASE UNCHANGED vars
  <2>1. UNCHANGED <<today, register, documents, versions, source, batches, v1>>
    BY <1>7 DEF vars, dbVars
  <2>2. TypeOK' /\ Bounds'
    BY <2>1 DEF CInv, TypeOK, Bounds
  <2>3. Exports' /\ ActiveIsCurrent' /\ Staged' /\ NothingMissed'
    BY <2>1 DEF CInv, Exports, HasItsWindow, ActiveIsCurrent, Staged, NothingMissed, LastChange, Updated
  <2>. QED
    BY <1>0, <2>1, <2>2, <2>3 DEF CInv
<1>. QED
  BY <1>1, <1>2, <1>3, <1>4, <1>5, <1>6, <1>7 DEF Next

LEMMA Inductive == Spec => []CInv
<1>1. CInv /\ [Next]_vars => CInv'
  BY StepKeeps
<1>. QED
  BY InitCInv, <1>1, PTL DEF Spec

\* No sequence of snapshots staged late, partial batches, retries and exports
\* that miss the rest of their last day leaves a change of the library out of
\* the active MARC catalog for good (apply_delta, activate_staged).
THEOREM NothingMissedHolds == Spec => []NothingMissed
<1>1. CInv => NothingMissed
  BY DEF CInv
<1>. QED
  BY Inductive, <1>1, PTL

\* The one active version is the one that the source state is about.
THEOREM ActiveIsCurrentHolds == Spec => []ActiveIsCurrent
<1>1. CInv => ActiveIsCurrent
  BY DEF CInv
<1>. QED
  BY Inductive, <1>1, PTL

\* The watermark does not go back, whenever a staged snapshot is activated.
THEOREM WatermarkStandsHolds == Spec => WatermarkStands
<1>1. CInv /\ [Next]_vars => [source'.watermark >= source.watermark]_vars
  BY StepKeeps
<1>. QED
  BY Inductive, <1>1, PTL DEF Spec, WatermarkStands

\* Every variable keeps its type.
THEOREM TypeHolds == Spec => []TypeOK
<1>1. CInv => TypeOK
  BY DEF CInv
<1>. QED
  BY Inductive, <1>1, PTL

--------------------------------------------------------------------------------
(* Batches of deltas. *)

\* A version of a delta is of a batch that is recorded as applied.
BatchInv ==
    /\ NoBatchTwice
    /\ \A v \in VersionIds : versions[v].batch # None => batches[versions[v].batch] = "SUCCESS"

LEMMA MakeActiveBatch ==
  ASSUME TypeOK, NEW v \in VersionIds, NEW row \in VersionRows, MakeActive(v, row)
  PROVE  /\ versions'[v].batch = row.batch
         /\ \A w \in VersionIds : w # v => versions'[w].batch = versions[w].batch
<1>1. versions \in [VersionIds -> VersionRows]
  BY DEF TypeOK, VersionRows
<1>. QED
  BY <1>1 DEF MakeActive, VersionRows

LEMMA BatchStep == TypeOK /\ BatchInv /\ [Next]_vars => BatchInv'
<1>. USE CatalogAssumption
<1>. SUFFICES ASSUME TypeOK, BatchInv, [Next]_vars PROVE BatchInv'
  OBVIOUS
<1>1. ASSUME UNCHANGED <<versions, batches>> PROVE BatchInv'
  BY <1>1 DEF BatchInv, NoBatchTwice
<1>2. ASSUME NEW v \in VersionIds, versions'[v].batch = None, UNCHANGED batches,
             \A w \in VersionIds : w # v => versions'[w].batch = versions[w].batch
      PROVE  BatchInv'
  BY <1>2 DEF BatchInv, NoBatchTwice
<1>3. ASSUME NEW v \in VersionIds, ActivateStaged(v) \/ ActivateV1(v) \/ StageFull(v)
      PROVE  BatchInv'
  <2>1. CASE StageFull(v)
    <3>1. /\ UNCHANGED batches /\ versions'[v].batch = None
          /\ \A w \in VersionIds : w # v => versions'[w].batch = versions[w].batch
      BY <2>1 DEF StageFull, TypeOK
    <3>. QED
      BY <1>2, <3>1
  <2>2. CASE ActivateStaged(v)
    <3>1. versions[v] \in VersionRows /\ MakeActive(v, versions[v]) /\ UNCHANGED batches
      BY <2>2 DEF ActivateStaged, TypeOK, VersionRows
    <3>2. \A w \in VersionIds : versions'[w].batch = versions[w].batch
      BY <3>1, MakeActiveBatch
    <3>. QED
      BY <3>1, <3>2 DEF BatchInv, NoBatchTwice
  <2>3. CASE ActivateV1(v)
    <3>. DEFINE row == [status |-> "STAGING", type |-> "DLS_EXCEL", holdings |-> V1Holdings,
                        asOf |-> today, expected |-> source.active, batch |-> None]
    <3>1. MakeActive(v, row) /\ UNCHANGED batches
      BY <2>3 DEF ActivateV1
    <3>2. row \in VersionRows
      <4>1. \A b \in Books : register[b].rev \in Revisions
        BY DEF TypeOK
      <4>2. V1Holdings \in Holdings
        BY <4>1 DEF V1Holdings, Holdings, Revisions
      <4>. QED
        BY <4>2 DEF TypeOK, VersionRows, SourceTypes
    <3>3. row.batch = None
      OBVIOUS
    <3>. HIDE DEF row
    <3>. QED
      BY <1>2, <3>1, <3>2, <3>3, MakeActiveBatch
  <2>. QED
    BY <1>3, <2>1, <2>2, <2>3
<1>4. ASSUME NEW reg \in Documents, NEW upd \in Documents, DeltaPartial(reg, upd) PROVE BatchInv'
  <2>1. /\ UNCHANGED versions /\ batches[<<reg, upd>>] # "SUCCESS"
        /\ batches' = [batches EXCEPT ![<<reg, upd>>] = "PARTIAL_FAILURE"]
    BY <1>4 DEF DeltaPartial, DeltaAccepted
  <2>2. \A p \in Documents \X Documents : batches[p] = "SUCCESS" => batches'[p] = "SUCCESS"
    BY <2>1 DEF TypeOK
  <2>3. \A v \in VersionIds : versions[v].batch # None => versions[v].batch \in Documents \X Documents
    BY DEF TypeOK
  <2>. QED
    BY <2>1, <2>2, <2>3 DEF BatchInv, NoBatchTwice
<1>5. ASSUME NEW v \in VersionIds, NEW reg \in Documents, NEW upd \in Documents, DeltaApplied(v, reg, upd)
      PROVE  BatchInv'
  <2>. DEFINE new == Applied(versions[source.active].holdings, reg, upd)
              row == [status |-> "STAGING", type |-> "DLS_MARC", holdings |-> new,
                      asOf |-> documents[upd].through, expected |-> None, batch |-> <<reg, upd>>]
  <2>1. /\ source.active # None /\ batches[<<reg, upd>>] # "SUCCESS"
        /\ batches' = [batches EXCEPT ![<<reg, upd>>] = "SUCCESS"]
        /\ MakeActive(v, row)
    BY <1>5 DEF DeltaApplied, DeltaAccepted
  <2>2. new \in Holdings
    BY <2>1 DEF TypeOK, Applied, Holdings
  <2>3. row \in VersionRows
    <3>1. documents[upd].through \in 0 .. MaxDay
      BY DEF TypeOK
    <3>. QED
      BY <2>2, <3>1 DEF VersionRows, SourceTypes
  <2>4. row.batch = <<reg, upd>>
    OBVIOUS
  <2>. HIDE DEF row, new
  <2>5. /\ versions'[v].batch = <<reg, upd>>
        /\ \A w \in VersionIds : w # v => versions'[w].batch = versions[w].batch
    BY <2>1, <2>3, <2>4, MakeActiveBatch
  <2>6. \A p \in Documents \X Documents : batches[p] = "SUCCESS" => batches'[p] = "SUCCESS"
    BY <2>1 DEF TypeOK
  <2>7. batches'[<<reg, upd>>] = "SUCCESS"
    BY <2>1 DEF TypeOK
  <2>8. \A w \in VersionIds : versions[w].batch # None => versions[w].batch \in Documents \X Documents
    BY DEF TypeOK
  <2>9. \A w \in VersionIds : versions[w].batch # <<reg, upd>>
    BY <2>1 DEF BatchInv
  <2>. QED
    BY <2>5, <2>6, <2>7, <2>8, <2>9 DEF BatchInv, NoBatchTwice
<1>6. CASE NextDay \/ (\E b \in Books : Change(b)) \/ UNCHANGED vars
  BY <1>1, <1>6 DEF NextDay, Change, vars, dbVars
<1>7. ASSUME NEW d \in Documents, ExportRegistrations(d) \/ ExportUpdates(d) \/ Parse(d)
      PROVE  BatchInv'
  BY <1>1, <1>7 DEF ExportRegistrations, ExportUpdates, AddDocument, Parse
<1>. QED
  BY <1>3, <1>4, <1>5, <1>6, <1>7 DEF Next

\* However often two documents are sent as a delta, they make one version
\* (apply_delta's look at the recorded batch).
THEOREM NoBatchTwiceHolds == Spec => []NoBatchTwice
<1>1. Init => BatchInv
  BY CatalogAssumption DEF Init, BatchInv, NoBatchTwice, NoVersion
<1>2. TypeOK /\ BatchInv /\ [Next]_vars => BatchInv'
  BY BatchStep
<1>3. BatchInv => NoBatchTwice
  BY DEF BatchInv
<1>. QED
  BY TypeHolds, <1>1, <1>2, <1>3, PTL DEF Spec

================================================================================
