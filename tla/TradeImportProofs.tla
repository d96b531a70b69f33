--------------------------- MODULE TradeImportProofs ---------------------------
(***************************************************************************)
(* What holds of trade imports for any files, symbols and importers: an    *)
(* import knows the rows that were there when it started and those it has  *)
(* added, so what it adds again came from one that ran beside it.          *)
(* And what the replay of a file's trades covers, the replay of the log    *)
(* covers once it has the file's buys.                                     *)
(***************************************************************************)
EXTENDS TradeImport, FiniteSetTheorems, WellFoundedInduction, TLAPS

Fields == {"file", "at", "number", "known", "imported", "skipped", "errors"}

Running(i) == pc[i] # "idle"

\* Ids are given in the order of commits, so there is a largest one.
IdsSound ==
    /\ \A t \in trades : t.id[1] \in Nat \ {0} /\ t.symbol \in securities
    /\ \E top \in Nat : \A t \in trades : t.id[1] <= top
    /\ \A t, u \in trades : t.id = u.id => t = u

ImportSound(i) ==
    /\ DOMAIN import[i] = Fields
    /\ ~Running(i) => import[i] = NoImport /\ pending[i] = {}
    /\ Running(i) => import[i].file \in Seq(FileRow) /\ import[i].number \in 1 .. imports
    /\ import[i].imported \in Nat /\ import[i].skipped \in Nat /\ import[i].errors \in Nat
    /\ import[i].at = 1 + import[i].imported + import[i].skipped + import[i].errors

\* Imports that run at once are told apart, and noted.
RunsAreNoted ==
    \A i, u \in Importers : Running(i) /\ Running(u) /\ u # i =>
        import[i].number # import[u].number /\ {import[i].number, import[u].number} \in overlaps

\* A row an import has not heard of came from one beside it.
UnknownIsBeside ==
    \A i \in Importers, t \in trades :
        Running(i) /\ t.by > 0 /\ ReadOf(t) \notin import[i].known =>
            t.by # import[i].number /\ {t.by, import[i].number} \in overlaps

TwinsSound ==
    /\ \A t \in trades : t.by \in 0 .. imports
    /\ \A t, u \in trades : t # u /\ t.by > 0 /\ u.by > 0 /\ ReadOf(t) = ReadOf(u) => {t.by, u.by} \in overlaps

ImportInvariant ==
    /\ securities \subseteq Symbols /\ imports \in Nat
    /\ pc \in [Importers -> {"idle", "rows", "inserting"}] /\ pending \in [Importers -> SUBSET Symbols]
    /\ DOMAIN import = Importers
    /\ \A i \in Importers : ImportSound(i)
    /\ IdsSound /\ RunsAreNoted /\ UnknownIsBeside /\ TwinsSound
-------------------------------------------------------------------------------
(* The largest id *)

LEMMA NatMin ==
  ASSUME NEW T, T \subseteq Nat, T # {}
  PROVE  \E x \in T : \A y \in T : x <= y
<1> DEFINE R == OpToRel(<, Nat)
<1>1. PICK x \in T : \A y \in T : <<y, x>> \notin R
  BY NatLessThanWellFounded, WFMin
<1>2. \A m, n \in Nat : <<n, m>> \in R <=> n < m
  BY DEF OpToRel
<1> HIDE DEF R
<1>3. ASSUME NEW y \in T
      PROVE  x <= y
  <2>1. x \in Nat /\ y \in Nat /\ <<y, x>> \notin R
    BY <1>1
  <2>2. ~(y < x)
    BY <1>2, <2>1
  <2>3. QED
    BY <2>1, <2>2
<1>4. QED
  BY <1>3

LEMMA MaxBounds ==
  ASSUME NEW S, S \subseteq Nat, S # {}, NEW top \in Nat, \A x \in S : x <= top
  PROVE  Max(S) \in S /\ \A x \in S : x <= Max(S)
<1> DEFINE T == {n \in Nat : \A x \in S : x <= n}
<1>1. PICK m \in T : \A n \in T : m <= n
  <2>1. T # {} /\ T \subseteq Nat
    OBVIOUS
  <2>2. QED
    BY <2>1, NatMin
<1>2. m \in S
  <2>1. SUFFICES ASSUME m \notin S PROVE FALSE
    OBVIOUS
  <2>2. PICK x \in S : TRUE
    OBVIOUS
  <2>3. m - 1 \in T
    BY <1>1, <2>1, <2>2
  <2>4. QED
    BY <1>1, <2>3
<1>3. \A x \in S : m >= x
  BY <1>1
<1>4. QED
  BY <1>2, <1>3 DEF Max

LEMMA NextIdIsNew ==
  ASSUME ImportInvariant
  PROVE  NextId \in Nat \ {0} /\ \A t \in trades : t.id[1] < NextId
<1> DEFINE ids == {0} \cup {t.id[1] : t \in trades}
<1>1. ids \subseteq Nat /\ ids # {} /\ \E top \in Nat : \A x \in ids : x <= top
  <2>1. PICK top \in Nat : \A t \in trades : t.id[1] \in Nat /\ t.id[1] <= top
    BY DEF ImportInvariant, IdsSound
  <2>2. \A x \in ids : x \in Nat /\ x <= top
    BY <2>1
  <2>3. QED
    BY <2>2
<1>2. /\ \A t \in trades : t.id[1] \in ids
      /\ NextId = 1 + Max(ids)
  BY DEF NextId
<1> HIDE DEF ids
<1>3. Max(ids) \in ids /\ \A x \in ids : x <= Max(ids)
  BY <1>1, MaxBounds
<1>4. ASSUME NEW top, top = Max(ids)
      PROVE  1 + top \in Nat \ {0} /\ \A t \in trades : t.id[1] < 1 + top
  <2>1. top \in Nat /\ \A t \in trades : t.id[1] \in Nat /\ t.id[1] <= top
    BY <1>1, <1>2, <1>3, <1>4
  <2>2. QED
    BY <2>1
<1>5. QED
  BY <1>2, <1>4
-------------------------------------------------------------------------------
(* Steps that add no trade *)

\* One import goes on with its file or ends, and the others do not move.
Goes(i) ==
    /\ pc' \in [Importers -> {"idle", "rows", "inserting"}] /\ pending' \in [Importers -> SUBSET Symbols]
    /\ DOMAIN import' = Importers
    /\ \A u \in Importers \ {i} : pc'[u] = pc[u] /\ import'[u] = import[u] /\ pending'[u] = pending[u]

LEMMA OthersStay ==
  ASSUME ImportInvariant, NEW i \in Importers, Goes(i), imports' \in Nat, imports <= imports', NEW u \in Importers \ {i}
  PROVE  ImportSound(u)'
<1>1. ImportSound(u) /\ pc'[u] = pc[u] /\ import'[u] = import[u] /\ pending'[u] = pending[u]
  BY DEF ImportInvariant, Goes
<1>2. Running(u) => import[u].number \in 1 .. imports'
  BY <1>1 DEF ImportInvariant, ImportSound
<1>3. QED
  BY <1>1, <1>2 DEF ImportSound, Running

LEMMA QuietKeeps ==
  ASSUME ImportInvariant, NEW i \in Importers, Goes(i), ImportSound(i)',
         Running(i)' => Running(i) /\ import'[i].number = import[i].number /\ import'[i].known = import[i].known,
         UNCHANGED <<securities, trades, imports, overlaps>>
  PROVE  ImportInvariant'
<1>1. \A u \in Importers :
        Running(u)' => Running(u) /\ import'[u].number = import[u].number /\ import'[u].known = import[u].known
  BY DEF Goes, Running
<1>2. \A u \in Importers : ImportSound(u)'
  BY OthersStay DEF ImportInvariant
<1>3. IdsSound' /\ TwinsSound'
  BY DEF ImportInvariant, IdsSound, TwinsSound, ReadOf
<1>4. RunsAreNoted'
  BY <1>1 DEF ImportInvariant, RunsAreNoted
<1>5. UnknownIsBeside'
  BY <1>1 DEF ImportInvariant, UnknownIsBeside, ReadOf
<1>6. QED
  BY <1>2, <1>3, <1>4, <1>5 DEF ImportInvariant, Goes

Counters == {"imported", "skipped", "errors"}

\* A row is counted once.
LEMMA CountIsSound ==
  ASSUME ImportInvariant, NEW i \in Importers, pc[i] \in {"rows", "inserting"}, NEW what \in Counters, Count(i, what),
         pc' = [pc EXCEPT ![i] = "rows"], NEW flushed \in SUBSET Symbols, pending' = [pending EXCEPT ![i] = flushed],
         UNCHANGED imports
  PROVE  Goes(i) /\ ImportSound(i)' /\ import'[i].number = import[i].number /\ import'[i].known = import[i].known
<1> DEFINE counted == [import[i] EXCEPT ![what] = @ + 1]
           new == [counted EXCEPT !.at = @ + 1]
<1>1. ImportSound(i) /\ Running(i)
  BY DEF ImportInvariant, Running
<1>2. import' = [import EXCEPT ![i] = new]
  <2>1. what # "at" /\ {what, "at"} \subseteq DOMAIN import[i] /\ i \in DOMAIN import
    BY <1>1 DEF ImportInvariant, ImportSound, Fields, Counters
  <2>2. QED
    BY <2>1 DEF Count
<1>3. /\ DOMAIN counted = Fields /\ counted.file = import[i].file /\ counted.number = import[i].number
      /\ counted.known = import[i].known /\ counted.at = import[i].at
      /\ counted.imported \in Nat /\ counted.skipped \in Nat /\ counted.errors \in Nat
      /\ counted.at + 1 = 1 + counted.imported + counted.skipped + counted.errors
  <2>1. \A field \in Fields : counted[field] = IF field = what THEN import[i][field] + 1 ELSE import[i][field]
    BY <1>1 DEF ImportSound
  <2>2. DOMAIN counted = Fields
    BY <1>1 DEF ImportSound
  <2> HIDE DEF counted
  <2>3. /\ counted.file = import[i].file /\ counted.number = import[i].number
        /\ counted.known = import[i].known /\ counted.at = import[i].at
    BY <2>1 DEF Fields, Counters
  <2>4. /\ counted.imported = IF what = "imported" THEN import[i].imported + 1 ELSE import[i].imported
        /\ counted.skipped = IF what = "skipped" THEN import[i].skipped + 1 ELSE import[i].skipped
        /\ counted.errors = IF what = "errors" THEN import[i].errors + 1 ELSE import[i].errors
    BY <2>1 DEF Fields
  <2>5. /\ import[i].imported \in Nat /\ import[i].skipped \in Nat /\ import[i].errors \in Nat
        /\ import[i].at = 1 + import[i].imported + import[i].skipped + import[i].errors
    BY <1>1 DEF ImportSound
  <2>6. /\ counted.imported \in Nat /\ counted.skipped \in Nat /\ counted.errors \in Nat
        /\ counted.at + 1 = 1 + counted.imported + counted.skipped + counted.errors
    BY <2>3, <2>4, <2>5 DEF Counters
  <2>7. QED
    BY <2>2, <2>3, <2>6
<1> HIDE DEF counted
<1>4. /\ DOMAIN new = Fields /\ new.file = import[i].file /\ new.number = import[i].number
      /\ new.known = import[i].known /\ new.at = counted.at + 1
      /\ new.imported = counted.imported /\ new.skipped = counted.skipped /\ new.errors = counted.errors
  BY <1>3 DEF Fields
<1> HIDE DEF new
<1>5. Goes(i) /\ import'[i] = new /\ pc'[i] = "rows" /\ pending'[i] = flushed
  BY <1>2 DEF ImportInvariant, Goes
<1>6. ImportSound(i)'
  BY <1>1, <1>3, <1>4, <1>5 DEF ImportSound, Running
<1>7. QED
  BY <1>4, <1>5, <1>6

\* The request is over, for better or worse.
LEMMA EndKeeps ==
  ASSUME ImportInvariant, NEW i \in Importers, pc' = [pc EXCEPT ![i] = "idle"],
         import' = [import EXCEPT ![i] = NoImport], pending' = [pending EXCEPT ![i] = {}],
         UNCHANGED <<securities, trades, imports, overlaps>>
  PROVE  ImportInvariant'
<1>1. Goes(i) /\ pc'[i] = "idle" /\ import'[i] = NoImport /\ pending'[i] = {}
  BY DEF ImportInvariant, Goes
<1>2. /\ DOMAIN NoImport = Fields /\ NoImport.imported = 0 /\ NoImport.skipped = 0 /\ NoImport.errors = 0
      /\ NoImport.at = 1
  BY DEF NoImport, Fields
<1>3. ImportSound(i)'
  BY <1>1, <1>2 DEF ImportSound, Running
<1>4. QED
  BY <1>1, <1>3, QuietKeeps DEF Running

\* The symbol of a row is one of the symbols.
LEMMA RowHasSymbol ==
  ASSUME ImportInvariant, NEW i \in Importers, Running(i), HasRow(i)
  PROVE  Row(i).symbol \in Symbols
<1>1. import[i].file \in Seq(FileRow) /\ import[i].at \in 1 .. Len(import[i].file)
  <2>1. /\ import[i].file \in Seq(FileRow) /\ import[i].at <= Len(import[i].file)
        /\ import[i].imported \in Nat /\ import[i].skipped \in Nat /\ import[i].errors \in Nat
        /\ import[i].at = 1 + import[i].imported + import[i].skipped + import[i].errors
    BY DEF HasRow, ImportInvariant, ImportSound
  <2>2. ASSUME NEW a \in Nat, NEW b \in Nat, NEW c \in Nat, NEW at, at = 1 + a + b + c
        PROVE  at \in Nat \ {0}
    BY <2>2
  <2>3. import[i].at \in Nat \ {0}
    BY <2>1, <2>2
  <2>4. Len(import[i].file) \in Nat
    BY <2>1
  <2>5. QED
    BY <2>1, <2>3, <2>4
<1>2. import[i].file[import[i].at] \in FileRow
  BY <1>1
<1>3. QED
  BY <1>2 DEF Row, Read, FileRow

LEMMA RowsKeep ==
  ASSUME ImportInvariant, NEW i \in Importers,
         RowBad(i) \/ RowKnown(i) \/ RowWaits(i) \/ RowFails(i) \/ RowRefused(i) \/ Finish(i)
  PROVE  ImportInvariant'
<1>1. ASSUME NEW what \in Counters, pc[i] = "rows", Count(i, what), UNCHANGED <<securities, trades, pc, pending, imports, overlaps>>
      PROVE  ImportInvariant'
  <2>1. pc' = [pc EXCEPT ![i] = "rows"] /\ pending' = [pending EXCEPT ![i] = pending[i]] /\ pending[i] \in SUBSET Symbols
    <3>1. pending[i] \subseteq Symbols /\ pending = [pending EXCEPT ![i] = pending[i]] /\ pc = [pc EXCEPT ![i] = pc[i]]
      BY DEF ImportInvariant, ImportSound
    <3>2. QED
      BY <1>1, <3>1
  <2>2. QED
    BY <1>1, <2>1, CountIsSound, QuietKeeps DEF Running
<1>2. CASE RowBad(i) \/ RowKnown(i)
  BY <1>1, <1>2 DEF RowBad, RowKnown, Counters, db
<1>3. CASE RowWaits(i)
  <2>1. /\ pc[i] = "rows" /\ pc' = [pc EXCEPT ![i] = "inserting"]
        /\ UNCHANGED <<securities, trades, import, pending, imports, overlaps>>
    BY <1>3 DEF RowWaits, db
  <2>2. Goes(i) /\ pc'[i] = "inserting"
    BY <2>1 DEF ImportInvariant, Goes
  <2>3. ImportSound(i)'
    BY <2>1, <2>2 DEF ImportInvariant, ImportSound, Running
  <2>4. QED
    BY <2>1, <2>2, <2>3, QuietKeeps DEF Running
<1>4. CASE RowFails(i)
  BY <1>4, EndKeeps DEF RowFails, db
<1>5. CASE RowRefused(i)
  <2>1. /\ pc[i] \in {"rows", "inserting"} /\ HasRow(i) /\ Count(i, "errors")
        /\ pending' = [pending EXCEPT ![i] = Flushed(i)] /\ pc' = [pc EXCEPT ![i] = "rows"]
        /\ UNCHANGED <<securities, trades, imports, overlaps>>
    BY <1>5 DEF RowRefused, Resolved, ToCreate, db
  <2>2. Flushed(i) \in SUBSET Symbols
    BY <2>1, RowHasSymbol DEF Flushed, Running, ImportInvariant, ImportSound
  <2>3. QED
    BY <2>1, <2>2, CountIsSound, QuietKeeps DEF Counters, Running
<1>6. CASE Finish(i)
  BY <1>6, EndKeeps DEF Finish, db
<1>7. QED
  BY <1>2, <1>3, <1>4, <1>5, <1>6
-------------------------------------------------------------------------------
(* Steps that do *)

LEMMA StartKeeps ==
  ASSUME ImportInvariant, NEW i \in Importers, Start(i)
  PROVE  ImportInvariant'
<1>1. PICK file \in Files :
        /\ import' = [import EXCEPT ![i] = [NoImport EXCEPT !.file = file, !.number = imports + 1, !.known = ExternalIds]]
        /\ pc' = [pc EXCEPT ![i] = "rows"]
  BY DEF Start
<1> DEFINE new == [NoImport EXCEPT !.file = file, !.number = imports + 1, !.known = ExternalIds]
<1>2. /\ ~Running(i) /\ imports' = imports + 1 /\ imports \in Nat
      /\ overlaps' = overlaps \cup {{imports + 1, import[u].number} : u \in {v \in Importers : Running(v)}}
      /\ UNCHANGED <<securities, trades, pending>>
  BY DEF Start, Running, db, ImportInvariant
<1>3. /\ DOMAIN new = Fields /\ new.file = file /\ new.number = imports + 1 /\ new.known = ExternalIds
      /\ new.at = 1 /\ new.imported = 0 /\ new.skipped = 0 /\ new.errors = 0
  BY DEF NoImport, Fields
<1> HIDE DEF new
<1>4. Goes(i) /\ import'[i] = new /\ Running(i)' /\ pending'[i] = pending[i]
  BY <1>1, <1>2 DEF ImportInvariant, Goes, Running, new
<1>5. \A u \in Importers \ {i} : Running(u)' => Running(u) /\ import'[u] = import[u] /\ import[u].number \in 1 .. imports
  BY <1>4 DEF Goes, Running, ImportInvariant, ImportSound
<1>6. ImportSound(i)'
  BY <1>2, <1>3, <1>4, FilesAssumption DEF ImportSound
<1>7. RunsAreNoted'
  <2>1. ASSUME NEW u \in Importers \ {i}, Running(u)'
        PROVE  /\ import'[i].number # import'[u].number
               /\ {import'[i].number, import'[u].number} \in overlaps'
    <3>1. import'[i].number = imports + 1 /\ import'[u].number = import[u].number /\ import[u].number \in 1 .. imports
      BY <1>3, <1>4, <1>5, <2>1
    <3>2. {imports + 1, import[u].number} \in overlaps'
      BY <1>2, <1>5, <2>1
    <3>3. QED
      BY <1>2, <3>1, <3>2
  <2>2. ASSUME NEW u \in Importers, NEW v \in Importers, v # u, Running(u)', Running(v)'
        PROVE  /\ import'[u].number # import'[v].number
               /\ {import'[u].number, import'[v].number} \in overlaps'
    <3>1. CASE u = i
      BY <2>1, <2>2, <3>1
    <3>2. CASE v = i
      <4>1. {import'[u].number, import'[v].number} = {import'[v].number, import'[u].number}
        OBVIOUS
      <4>2. QED
        BY <2>1, <2>2, <3>2, <4>1
    <3>3. CASE u # i /\ v # i
      BY <1>2, <1>5, <2>2, <3>3 DEF ImportInvariant, RunsAreNoted
    <3>4. QED
      BY <3>1, <3>2, <3>3
  <2>3. QED
    BY <2>2 DEF RunsAreNoted
<1>8. UnknownIsBeside'
  <2>1. \A t \in trades : t.by > 0 => ReadOf(t) \in import'[i].known
    BY <1>3, <1>4 DEF ExternalIds
  <2>2. \A u \in Importers \ {i}, t \in trades : Running(u)' /\ t.by > 0 /\ ReadOf(t) \notin import'[u].known =>
            t.by # import'[u].number /\ {t.by, import'[u].number} \in overlaps'
    BY <1>2, <1>5 DEF ImportInvariant, UnknownIsBeside
  <2>3. QED
    BY <1>2, <2>1, <2>2 DEF UnknownIsBeside, ReadOf
<1>9. TwinsSound'
  BY <1>2 DEF ImportInvariant, TwinsSound, ReadOf
<1>10. IdsSound'
  BY <1>2 DEF ImportInvariant, IdsSound
<1>11. \A u \in Importers : ImportSound(u)'
  BY <1>2, <1>4, <1>6, OthersStay
<1>12. QED
  BY <1>2, <1>4, <1>7, <1>8, <1>9, <1>10, <1>11 DEF ImportInvariant, Goes

LEMMA DeleteKeeps ==
  ASSUME ImportInvariant, NEW t \in trades, Delete(t)
  PROVE  ImportInvariant'
<1>1. trades' \subseteq trades /\ UNCHANGED <<securities, pc, import, pending, imports, overlaps>>
  BY DEF Delete
<1>2. \A i \in Importers : ImportSound(i)'
  BY <1>1 DEF ImportInvariant, ImportSound, Running
<1>3. IdsSound'
  BY <1>1 DEF ImportInvariant, IdsSound
<1>4. RunsAreNoted' /\ UnknownIsBeside' /\ TwinsSound'
  BY <1>1 DEF ImportInvariant, RunsAreNoted, UnknownIsBeside, TwinsSound, Running, ReadOf
<1>5. QED
  BY <1>1, <1>2, <1>3, <1>4 DEF ImportInvariant

\* The row is none the import has heard of, so a twin of it came from an import beside it; and to
\* every other that runs it comes from one beside.
LEMMA ImportedKeeps ==
  ASSUME ImportInvariant, NEW i \in Importers, RowImported(i)
  PROVE  ImportInvariant'
<1> DEFINE number == import[i].number
           row == Row(i)
           trade == Trade(NextId, row, number)
           counted == [import[i] EXCEPT !.imported = @ + 1]
           moved == [counted EXCEPT !.at = @ + 1]
           new == [moved EXCEPT !.known = @ \cup {row}]
<1>1. /\ HasRow(i) /\ row \notin import[i].known /\ Running(i)
      /\ trades' = trades \cup {trade} /\ securities' = securities \cup Flushed(i)
      /\ pending' = [pending EXCEPT ![i] = {}] /\ pc' = [pc EXCEPT ![i] = "rows"]
      /\ import' = [import EXCEPT ![i].imported = @ + 1, ![i].at = @ + 1, ![i].known = @ \cup {row}]
      /\ UNCHANGED <<imports, overlaps>>
  BY DEF RowImported, Resolved, ToCreate, Running
<1>2. ImportSound(i) /\ number \in 1 .. imports /\ imports \in Nat
  BY <1>1 DEF ImportInvariant, ImportSound
<1>3. import' = [import EXCEPT ![i] = new]
  BY <1>1, <1>2 DEF ImportInvariant, ImportSound, Fields
<1>4. /\ DOMAIN counted = Fields /\ counted.file = import[i].file /\ counted.number = number
      /\ counted.known = import[i].known /\ counted.at = import[i].at
      /\ counted.imported = import[i].imported + 1
      /\ counted.skipped = import[i].skipped /\ counted.errors = import[i].errors
  BY <1>2 DEF ImportSound, Fields
<1> HIDE DEF counted
<1>5. /\ DOMAIN moved = Fields /\ moved.file = import[i].file /\ moved.number = number
      /\ moved.known = import[i].known /\ moved.at = import[i].at + 1
      /\ moved.imported = import[i].imported + 1
      /\ moved.skipped = import[i].skipped /\ moved.errors = import[i].errors
  BY <1>4 DEF Fields
<1> HIDE DEF moved
<1>6. /\ DOMAIN new = Fields /\ new.file = import[i].file /\ new.number = number
      /\ new.known = import[i].known \cup {row} /\ new.at = import[i].at + 1
      /\ new.imported = import[i].imported + 1
      /\ new.skipped = import[i].skipped /\ new.errors = import[i].errors
  BY <1>5 DEF Fields
<1> HIDE DEF new
<1>7. Goes(i) /\ import'[i] = new /\ Running(i)' /\ pending'[i] = {}
  BY <1>1, <1>3 DEF ImportInvariant, Goes, Running
<1>8. \A u \in Importers \ {i} : Running(u)' => Running(u) /\ import'[u] = import[u]
  BY <1>7 DEF Goes, Running
<1>9. /\ trade.id = <<NextId>> /\ trade.id[1] = NextId /\ trade.by = number /\ ReadOf(trade) = row
      /\ trade.symbol = row.symbol
  BY DEF Trade, ReadOf, Row, Read
<1>10. row.symbol \in Symbols /\ row.symbol \in securities' /\ securities' \subseteq Symbols
  <2>1. row.symbol \in Symbols /\ pending[i] \subseteq Symbols
    BY <1>1, RowHasSymbol DEF ImportInvariant
  <2>2. QED
    BY <1>1, <2>1 DEF Flushed, ImportInvariant
<1>11. NextId \in Nat \ {0} /\ \A t \in trades : t.id[1] < NextId
  BY NextIdIsNew
<1>12. ImportSound(i)'
  <2>1. /\ import[i].imported \in Nat /\ import[i].skipped \in Nat /\ import[i].errors \in Nat
        /\ import[i].at = 1 + import[i].imported + import[i].skipped + import[i].errors
    BY <1>1, <1>2 DEF ImportSound
  <2>2. /\ new.imported \in Nat /\ new.skipped \in Nat /\ new.errors \in Nat
        /\ new.at = 1 + new.imported + new.skipped + new.errors
    BY <1>6, <2>1
  <2>3. DOMAIN new = Fields /\ new.file \in Seq(FileRow) /\ new.number \in 1 .. imports'
    BY <1>1, <1>2, <1>6 DEF ImportSound
  <2>4. QED
    BY <1>7, <2>2, <2>3 DEF ImportSound
<1> HIDE DEF trade, row, number
<1>13. IdsSound'
  <2>1. \A t \in trades' : t.id[1] \in Nat \ {0} /\ t.symbol \in securities' /\ t.id[1] <= NextId
    BY <1>1, <1>9, <1>10, <1>11 DEF ImportInvariant, IdsSound
  <2>2. \A t \in trades : t.id # trade.id
    BY <1>9, <1>11 DEF ImportInvariant, IdsSound
  <2>3. QED
    BY <1>1, <1>11, <2>1, <2>2 DEF ImportInvariant, IdsSound
<1>14. \A t \in trades : t.by > 0 /\ ReadOf(t) = row => {t.by, number} \in overlaps
  BY <1>1 DEF ImportInvariant, UnknownIsBeside, number
<1>15. TwinsSound'
  <2>1. ASSUME NEW t \in trades, t.by > 0, ReadOf(t) = ReadOf(trade)
        PROVE  {t.by, trade.by} \in overlaps /\ {trade.by, t.by} \in overlaps
    <3>1. {t.by, trade.by} = {trade.by, t.by}
      OBVIOUS
    <3>2. QED
      BY <1>9, <1>14, <2>1, <3>1
  <2>2. \A t \in trades' : t.by \in 0 .. imports
    BY <1>1, <1>2, <1>9 DEF ImportInvariant, TwinsSound, number
  <2>3. \A t, u \in trades' : t # u /\ t.by > 0 /\ u.by > 0 /\ ReadOf(t) = ReadOf(u) => {t.by, u.by} \in overlaps
    BY <1>1, <2>1 DEF ImportInvariant, TwinsSound
  <2>4. QED
    BY <1>1, <2>2, <2>3 DEF TwinsSound, ReadOf
<1>16. RunsAreNoted'
  <2>1. \A u \in Importers : Running(u)' => Running(u) /\ import'[u].number = import[u].number
    BY <1>1, <1>6, <1>7, <1>8 DEF number
  <2>2. QED
    BY <1>1, <2>1 DEF ImportInvariant, RunsAreNoted
<1>17. UnknownIsBeside'
  <2>1. ASSUME NEW t \in trades', t.by > 0, ReadOf(t) \notin import'[i].known
        PROVE  t.by # import'[i].number /\ {t.by, import'[i].number} \in overlaps
    BY <1>1, <1>6, <1>7, <1>9, <2>1 DEF ImportInvariant, UnknownIsBeside, number
  <2>2. ASSUME NEW u \in Importers \ {i}, Running(u)', NEW t \in trades', t.by > 0, ReadOf(t) \notin import'[u].known
        PROVE  t.by # import'[u].number /\ {t.by, import'[u].number} \in overlaps
    <3>1. CASE t \in trades
      BY <1>8, <2>2, <3>1 DEF ImportInvariant, UnknownIsBeside
    <3>2. CASE t = trade
      <4>1. t.by = number /\ Running(i) /\ Running(u) /\ import'[u] = import[u]
        BY <1>1, <1>8, <1>9, <2>2, <3>2
      <4>2. number # import[u].number /\ {number, import[u].number} \in overlaps
        BY <2>2, <4>1 DEF ImportInvariant, RunsAreNoted, number
      <4>3. import'[u].number = import[u].number
        BY <4>1
      <4>4. QED
        BY <4>1, <4>2, <4>3
    <3>3. QED
      BY <1>1, <2>2, <3>1, <3>2
  <2>3. ASSUME NEW u \in Importers, NEW t \in trades', Running(u)', t.by > 0, ReadOf(t) \notin import'[u].known
        PROVE  t.by # import'[u].number /\ {t.by, import'[u].number} \in overlaps'
    <3>1. overlaps' = overlaps
      BY <1>1
    <3>2. CASE u = i
      BY <2>1, <2>3, <3>1, <3>2
    <3>3. CASE u # i
      BY <2>2, <2>3, <3>1, <3>3
    <3>4. QED
      BY <3>2, <3>3
  <2>4. QED
    BY <2>3 DEF UnknownIsBeside, ReadOf
<1>18. \A u \in Importers : ImportSound(u)'
  BY <1>1, <1>2, <1>7, <1>12, OthersStay
<1>19. QED
  BY <1>1, <1>2, <1>7, <1>10, <1>13, <1>15, <1>16, <1>17, <1>18 DEF ImportInvariant, Goes
-------------------------------------------------------------------------------
(* The invariant *)

LEMMA InitInvariant == Init => ImportInvariant
<1> SUFFICES ASSUME Init PROVE ImportInvariant
  OBVIOUS
<1>1. /\ DOMAIN NoImport = Fields /\ NoImport.imported = 0 /\ NoImport.skipped = 0 /\ NoImport.errors = 0
      /\ NoImport.at = 1
  BY DEF NoImport, Fields
<1>2. \A i \in Importers : import[i] = NoImport /\ pc[i] = "idle" /\ pending[i] = {}
  BY DEF Init
<1>3. \A i \in Importers : ImportSound(i)
  BY <1>1, <1>2 DEF ImportSound, Running
<1>4. IdsSound /\ RunsAreNoted /\ UnknownIsBeside /\ TwinsSound
  BY <1>2 DEF Init, IdsSound, RunsAreNoted, UnknownIsBeside, TwinsSound, Running
<1>5. QED
  BY <1>3, <1>4 DEF Init, ImportInvariant

LEMMA StepInvariant == ImportInvariant /\ [Next]_vars => ImportInvariant'
<1> SUFFICES ASSUME ImportInvariant, [Next]_vars PROVE ImportInvariant'
  OBVIOUS
<1>1. CASE Next
  BY <1>1, RowsKeep, StartKeeps, DeleteKeeps, ImportedKeeps DEF Next, ImportStep
<1>2. CASE UNCHANGED vars
  <2>1. UNCHANGED <<securities, trades, pc, import, pending, imports, overlaps>>
    BY <1>2 DEF vars, db
  <2>2. \A i \in Importers : ImportSound(i)'
    BY <2>1 DEF ImportInvariant, ImportSound, Running
  <2>3. IdsSound' /\ RunsAreNoted' /\ UnknownIsBeside' /\ TwinsSound'
    BY <2>1 DEF ImportInvariant, IdsSound, RunsAreNoted, UnknownIsBeside, TwinsSound, Running, ReadOf
  <2>4. QED
    BY <2>1, <2>2, <2>3 DEF ImportInvariant
<1>3. QED
  BY <1>1, <1>2

\* An import under way has a number, and NoImport has none.
LEMMA InvariantSuffices == ImportInvariant => TwinsOverlapped
<1> SUFFICES ASSUME ImportInvariant PROVE TwinsOverlapped
  OBVIOUS
<1>1. ASSUME NEW i \in Importers
      PROVE  /\ import[i].at = 1 + import[i].imported + import[i].skipped + import[i].errors
             /\ pc[i] = "idle" <=> import[i] = NoImport
             /\ pending[i] \subseteq IF pc[i] = "idle" THEN {} ELSE Symbols
  <2>1. ImportSound(i) /\ pending[i] \subseteq Symbols
    BY DEF ImportInvariant
  <2>2. NoImport.number = 0
    BY DEF NoImport
  <2>3. Running(i) => import[i].number # 0
    BY <2>1 DEF ImportSound, ImportInvariant
  <2>4. pc[i] = "idle" <=> import[i] = NoImport
    BY <2>1, <2>2, <2>3 DEF ImportSound, Running
  <2>5. QED
    BY <2>1, <2>4 DEF ImportSound, Running
<1>2. TypeOK
  BY <1>1 DEF ImportInvariant, IdsSound, TypeOK
<1>3. QED
  BY <1>2 DEF ImportInvariant, TwinsSound, TwinsOverlapped

\* A re-import is idempotent (trade_import.py, import_csv and its known ids): whatever the files,
\* and however many sessions import and delete, two trades of one row come from two imports that
\* ran at once.
THEOREM TwinsAlwaysOverlapped == Spec => []TwinsOverlapped
<1>1. Init => ImportInvariant
  BY InitInvariant
<1>2. ImportInvariant /\ [Next]_vars => ImportInvariant'
  BY StepInvariant
<1>3. ImportInvariant => TwinsOverlapped
  BY InvariantSuffices
<1>4. QED
  BY <1>1, <1>2, <1>3, PTL DEF Spec
-------------------------------------------------------------------------------
(* Parts of finite sets *)

\* Induction, with the property as the set of the numbers that have it.
LEMMA NatUp ==
  ASSUME NEW T, 0 \in T, \A n \in Nat : n \in T => n + 1 \in T
  PROVE  \A n \in Nat : n \in T
<1> DEFINE U == {n \in Nat : n \notin T}
<1>1. SUFFICES ASSUME U # {} PROVE FALSE
  OBVIOUS
<1>2. PICK m \in U : \A n \in U : m <= n
  <2>1. U \subseteq Nat
    OBVIOUS
  <2>2. QED
    BY <1>1, <2>1, NatMin
<1>3. m \in Nat /\ m \notin T /\ m # 0
  OBVIOUS
<1>4. m - 1 \in Nat /\ m - 1 \in T
  BY <1>2, <1>3
<1>5. (m - 1) + 1 \in T
  BY <1>4
<1>6. QED
  BY <1>3, <1>5

\* A finite set less a member.
LEMMA OneLess ==
  ASSUME NEW S, IsFiniteSet(S), NEW s \in SUBSET S, s # {}, NEW x \in s
  PROVE  /\ s \ {x} \in SUBSET S /\ IsFiniteSet(s) /\ IsFiniteSet(s \ {x})
         /\ Cardinality(s) \in Nat \ {0} /\ Cardinality(s \ {x}) = Cardinality(s) - 1
<1>1. IsFiniteSet(s)
  BY FS_Subset
<1>2. Cardinality(s) \in Nat /\ Cardinality(s) # 0
  BY <1>1, FS_CardinalityType, FS_EmptySet
<1>3. IsFiniteSet(s \ {x}) /\ Cardinality(s \ {x}) = Cardinality(s) - 1
  BY <1>1, FS_RemoveElement
<1>4. QED
  BY <1>1, <1>2, <1>3

LEMMA Sized ==
  ASSUME NEW S, IsFiniteSet(S), NEW s \in SUBSET S
  PROVE  /\ IsFiniteSet(s) /\ Cardinality(s) \in Nat /\ Cardinality(s) <= Cardinality(S)
         /\ Cardinality(s) = 0 <=> s = {}
<1>1. IsFiniteSet(s) /\ Cardinality(s) <= Cardinality(S)
  BY FS_Subset
<1>2. QED
  BY <1>1, FS_CardinalityType, FS_EmptySet

\* What is true of a part if it is of the part less each of its members is true of all parts of a
\* finite set; the property as the set of the parts that have it.
LEMMA PartsUp ==
  ASSUME NEW S, IsFiniteSet(S), NEW T, {} \in T,
         \A s \in SUBSET S : s # {} /\ (\A x \in s : s \ {x} \in T) => s \in T
  PROVE  \A s \in SUBSET S : s \in T
<1> DEFINE U == {n \in Nat : \A s \in SUBSET S : Cardinality(s) = n => s \in T}
<1>1. 0 \in U
  BY Sized
<1>2. ASSUME NEW n \in Nat, n \in U
      PROVE  n + 1 \in U
  <2>1. ASSUME NEW s \in SUBSET S, Cardinality(s) = n + 1
        PROVE  s \in T
    <3>1. s # {}
      BY <2>1, Sized
    <3>2. ASSUME NEW x \in s PROVE s \ {x} \in T
      <4>1. s \ {x} \in SUBSET S /\ Cardinality(s \ {x}) = Cardinality(s) - 1
        BY <3>1, OneLess
      <4>2. Cardinality(s \ {x}) = n
        BY <2>1, <4>1
      <4>3. QED
        BY <1>2, <4>1, <4>2
    <3>3. QED
      BY <3>1, <3>2
  <2>2. QED
    BY <2>1
<1>3. \A n \in Nat : n \in U
  <2> HIDE DEF U
  <2>1. QED
    BY <1>1, <1>2, NatUp
<1>4. ASSUME NEW s \in SUBSET S PROVE s \in T
  <2>1. Cardinality(s) \in Nat
    BY Sized
  <2>2. QED
    BY <1>3, <2>1
<1>5. QED
  BY <1>4

\* What comes before what in an order in which members may be level.
Levels(S, R) ==
    /\ \A x, y \in S : <<x, y>> \in R \/ <<y, x>> \in R
    /\ \A x, y, z \in S : <<x, y>> \in R /\ <<y, z>> \in R => <<x, z>> \in R

LEMMA LastOf ==
  ASSUME NEW S, IsFiniteSet(S), S # {}, NEW R, Levels(S, R)
  PROVE  \E x \in S : \A y \in S : <<y, x>> \in R
<1> DEFINE T == {s \in SUBSET S : s # {} => \E x \in s : \A y \in s : <<y, x>> \in R}
<1>1. {} \in T
  OBVIOUS
<1>2. ASSUME NEW s \in SUBSET S, s # {}, \A x \in s : s \ {x} \in T
      PROVE  s \in T
  <2>1. PICK z \in s : TRUE
    BY <1>2
  <2>2. z \in S /\ <<z, z>> \in R
    BY DEF Levels
  <2>3. CASE s \ {z} = {}
    BY <2>1, <2>2, <2>3
  <2>4. CASE s \ {z} # {}
    <3>1. PICK x \in s \ {z} : \A y \in s \ {z} : <<y, x>> \in R
      BY <1>2, <2>4
    <3>2. CASE <<z, x>> \in R
      BY <3>1, <3>2
    <3>3. CASE <<z, x>> \notin R
      <4>1. <<x, z>> \in R
        BY <2>2, <3>3 DEF Levels
      <4>2. \A y \in s : <<y, z>> \in R
        BY <2>2, <3>1, <4>1 DEF Levels
      <4>3. QED
        BY <4>2
    <3>4. QED
      BY <3>2, <3>3
  <2>5. QED
    BY <2>3, <2>4
<1> HIDE DEF T
<1>3. S \in T
  BY <1>1, <1>2, PartsUp
<1>4. QED
  BY <1>3 DEF T

\* Rows of buys and sells that can be put in the order of a replay.
Traded(rows) ==
    /\ IsFiniteSet(rows)
    /\ \A t \in rows : t.day \in Int /\ t.id[1] \in Int /\ t.type \in {"buy", "sell"} /\ t.quantity \in Nat

LEMMA TradedPart == ASSUME NEW rows, Traded(rows), NEW s \in SUBSET rows PROVE Traded(s)
<1>1. IsFiniteSet(s)
  BY FS_Subset DEF Traded
<1>2. QED
  BY <1>1 DEF Traded

LEMMA LatestIs ==
  ASSUME NEW rows, Traded(rows), rows # {}
  PROVE  Latest(rows) \in rows /\ \A u \in rows : NotAfter(u, Latest(rows))
<1> DEFINE R == {p \in rows \X rows : NotAfter(p[1], p[2])}
<1>1. \A t, u \in rows : <<t, u>> \in R <=> NotAfter(t, u)
  OBVIOUS
<1>2. \A t \in rows : t.day \in Int /\ t.id[1] \in Int
  BY DEF Traded
<1> HIDE DEF R
<1>3. Levels(rows, R)
  <2>1. \A t, u \in rows : NotAfter(t, u) \/ NotAfter(u, t)
    BY <1>2 DEF NotAfter
  <2>2. \A t, u, v \in rows : NotAfter(t, u) /\ NotAfter(u, v) => NotAfter(t, v)
    BY <1>2 DEF NotAfter
  <2>3. QED
    BY <1>1, <2>1, <2>2 DEF Levels
<1>4. PICK t \in rows : \A u \in rows : <<u, t>> \in R
  BY <1>3, LastOf DEF Traded
<1>5. \A u \in rows : NotAfter(u, t)
  BY <1>1, <1>4
<1>6. QED
  BY <1>5 DEF Latest
-------------------------------------------------------------------------------
(* Folds *)

\* A value for each part of a set, each made of a member and the value of the rest.
Folds(T, V, F, choice, base, g) ==
    /\ g \in [SUBSET T -> V]
    /\ g[{}] = base
    /\ \A s \in SUBSET T : s # {} => g[s] = F[<<g[s \ {choice[s]}], choice[s]>>]

FoldStep(T, F, choice, base, g) ==
    [s \in SUBSET T |-> IF s = {} THEN base ELSE F[<<g[s \ {choice[s]}], choice[s]>>]]

GoodFolds(T, V, F, choice, base, n) ==
    {g \in [SUBSET T -> V] :
       \A s \in SUBSET T : Cardinality(s) <= n => g[s] = FoldStep(T, F, choice, base, g)[s]}

Choice(T, choice) == \A s \in SUBSET T : s # {} => choice[s] \in s

\* There is such a function for a finite set, however a member is chosen.
LEMMA FoldExists ==
  ASSUME NEW S, IsFiniteSet(S), NEW V, NEW base \in V, NEW F \in [V \X S -> V],
         NEW choice, Choice(S, choice)
  PROVE  \E g : Folds(S, V, F, choice, base, g)
<1> DEFINE Good(n) == GoodFolds(S, V, F, choice, base, n)
           Step(g) == FoldStep(S, F, choice, base, g)
           T == {n \in Nat : Good(n) # {}}
<1>0. \A g \in [SUBSET S -> V] :
         /\ Step(g) \in [SUBSET S -> V] /\ Step(g)[{}] = base
         /\ \A s \in SUBSET S : s # {} => Step(g)[s] = F[<<g[s \ {choice[s]}], choice[s]>>]
  <2> SUFFICES ASSUME NEW g \in [SUBSET S -> V]
               PROVE  /\ Step(g) \in [SUBSET S -> V] /\ Step(g)[{}] = base
                      /\ \A s \in SUBSET S : s # {} =>
                            Step(g)[s] = F[<<g[s \ {choice[s]}], choice[s]>>]
    OBVIOUS
  <2>1. ASSUME NEW s \in SUBSET S, s # {} PROVE F[<<g[s \ {choice[s]}], choice[s]>>] \in V
    <3>1. choice[s] \in S
      BY <2>1 DEF Choice
    <3>2. g[s \ {choice[s]}] \in V
      OBVIOUS
    <3>3. <<g[s \ {choice[s]}], choice[s]>> \in V \X S
      BY <3>1, <3>2
    <3>4. QED
      BY <3>3
  <2>2. QED
    BY <2>1 DEF FoldStep
<1>1. 0 \in T
  <2> DEFINE g == [s \in SUBSET S |-> base]
  <2>1. g \in [SUBSET S -> V] /\ \A s \in SUBSET S : g[s] = base
    OBVIOUS
  <2> HIDE DEF g
  <2>2. ASSUME NEW s \in SUBSET S, Cardinality(s) <= 0
        PROVE  g[s] = Step(g)[s]
    <3>1. s = {}
      BY <2>2, Sized
    <3> HIDE DEF Step
    <3>2. QED
      BY <1>0, <2>1, <3>1
  <2>3. g \in Good(0)
    BY <2>1, <2>2 DEF GoodFolds
  <2>4. QED
    BY <2>3
<1>2. ASSUME NEW n \in Nat, n \in T
      PROVE  n + 1 \in T
  <2>1. PICK g \in [SUBSET S -> V] : \A s \in SUBSET S : Cardinality(s) <= n => g[s] = Step(g)[s]
    BY <1>2 DEF GoodFolds
  <2> DEFINE h == Step(g)
  <2>2. /\ h \in [SUBSET S -> V] /\ h[{}] = base
        /\ \A s \in SUBSET S : s # {} => h[s] = F[<<g[s \ {choice[s]}], choice[s]>>]
    <3> HIDE DEF Step
    <3>1. QED
      BY <1>0
  <2>3. \A s \in SUBSET S : Cardinality(s) <= n => g[s] = h[s]
    BY <2>1
  <2> HIDE DEF h
  <2>4. ASSUME NEW s \in SUBSET S, Cardinality(s) <= n + 1
        PROVE  h[s] = Step(h)[s]
    <3>1. CASE s = {}
      <4> HIDE DEF Step
      <4>1. QED
        BY <1>0, <2>2, <3>1
    <3>2. CASE s # {}
      <4> DEFINE x == choice[s]
      <4>1. x \in s
        BY <3>2 DEF Choice
      <4>2. Step(h)[s] = F[<<h[s \ {x}], x>>] /\ h[s] = F[<<g[s \ {x}], x>>]
        <5> HIDE DEF Step
        <5>1. QED
          BY <1>0, <2>2, <3>2
      <4> HIDE DEF x
      <4>3. /\ s \ {x} \in SUBSET S /\ Cardinality(s) \in Nat
            /\ Cardinality(s \ {x}) = Cardinality(s) - 1
        BY <3>2, <4>1, OneLess
      <4>4. Cardinality(s \ {x}) <= n
        BY <2>4, <4>3
      <4>5. g[s \ {x}] = h[s \ {x}]
        BY <2>3, <4>3, <4>4
      <4>6. QED
        BY <4>2, <4>5
    <3>3. QED
      BY <3>1, <3>2
  <2>5. h \in Good(n + 1)
    BY <2>2, <2>4 DEF GoodFolds
  <2>6. QED
    BY <2>5
<1>3. Cardinality(S) \in T
  <2>1. Cardinality(S) \in Nat
    BY FS_CardinalityType
  <2> HIDE DEF T
  <2>2. \A n \in Nat : n \in T
    BY <1>1, <1>2, NatUp
  <2>3. QED
    BY <2>1, <2>2
<1>4. PICK g \in Good(Cardinality(S)) : TRUE
  BY <1>3
<1>5. g \in [SUBSET S -> V] /\ \A s \in SUBSET S : g[s] = Step(g)[s]
  <2>1. \A s \in SUBSET S : Cardinality(s) <= Cardinality(S)
    BY Sized
  <2>2. QED
    BY <2>1 DEF GoodFolds
<1>6. Folds(S, V, F, choice, base, g)
  <2> HIDE DEF Step
  <2>1. QED
    BY <1>0, <1>5 DEF Folds
<1>7. QED
  BY <1>6
-------------------------------------------------------------------------------
(* The replay of buys and sells *)

PositionType == [units : Int, oversold : BOOLEAN]

\* What a trade is worth in units.
Value(t) == IF t.type = "buy" THEN t.quantity ELSE -t.quantity

\* What a trade does to a position that is not oversold.
LEMMA ApplyIs ==
  ASSUME NEW p \in PositionType, NEW t, t.type \in {"buy", "sell"}, t.quantity \in Nat
  PROVE  /\ Apply(p, t) \in PositionType
         /\ p.oversold => Apply(p, t) = p
         /\ ~p.oversold => /\ Apply(p, t).oversold <=> t.type = "sell" /\ t.quantity > p.units
                           /\ ~Apply(p, t).oversold => Apply(p, t).units = p.units + Value(t)
<1>1. p.units \in Int /\ p.oversold \in BOOLEAN /\ p = [units |-> p.units, oversold |-> p.oversold]
  BY DEF PositionType
<1>2. CASE p.oversold
  BY <1>2 DEF Apply
<1>3. CASE ~p.oversold /\ t.type = "buy"
  <2> DEFINE more == p.units + t.quantity
  <2>1. Apply(p, t) = [p EXCEPT !.units = more]
    BY <1>3 DEF Apply
  <2>2. more \in Int /\ more = p.units + Value(t)
    BY <1>1, <1>3 DEF Value
  <2> HIDE DEF more
  <2>3. Apply(p, t) = [units |-> more, oversold |-> FALSE]
    BY <1>1, <1>3, <2>1, <2>2 DEF PositionType
  <2>4. QED
    BY <1>3, <2>2, <2>3 DEF PositionType
<1>4. CASE ~p.oversold /\ t.type = "sell"
  <2> DEFINE less == p.units - t.quantity
  <2>1. Apply(p, t) = IF t.quantity > p.units THEN [p EXCEPT !.oversold = TRUE] ELSE [p EXCEPT !.units = less]
    BY <1>4 DEF Apply
  <2>2. less \in Int /\ less = p.units + Value(t)
    BY <1>1, <1>4 DEF Value
  <2> HIDE DEF less
  <2>3. /\ t.quantity > p.units => Apply(p, t) = [units |-> p.units, oversold |-> TRUE]
        /\ ~(t.quantity > p.units) => Apply(p, t) = [units |-> less, oversold |-> FALSE]
    BY <1>1, <1>4, <2>1, <2>2 DEF PositionType
  <2> DEFINE over == [units |-> p.units, oversold |-> TRUE]
             sold == [units |-> less, oversold |-> FALSE]
  <2>4. /\ over \in PositionType /\ over.oversold = TRUE
        /\ sold \in PositionType /\ sold.oversold = FALSE /\ sold.units = less
    BY <1>1, <2>2 DEF PositionType
  <2> HIDE DEF over, sold
  <2>5. CASE t.quantity > p.units
    <3>1. Apply(p, t) = over
      BY <2>3, <2>5 DEF over
    <3>2. QED
      BY <1>4, <2>4, <2>5, <3>1
  <2>6. CASE ~(t.quantity > p.units)
    <3>1. Apply(p, t) = sold
      BY <2>3, <2>6 DEF sold
    <3>2. QED
      BY <1>4, <2>2, <2>4, <2>6, <3>1
  <2>7. QED
    BY <2>5, <2>6
<1>5. QED
  BY <1>2, <1>3, <1>4

\* The replays of all parts of some rows, by the last of their trades.
PositionStep(rows, g) ==
    [s \in SUBSET rows |-> IF s = {} THEN NoPosition ELSE Apply(g[s \ {Latest(s)}], Latest(s))]

Positions(rows) == CHOOSE g : g = PositionStep(rows, g)

LEMMA PositionBy == \A rows : Position(rows) = Positions(rows)[rows]
BY DEF Position, ReplayTrades, MapThenFoldSet, Positions, PositionStep

LEMMA LatestChoice ==
  ASSUME NEW rows, Traded(rows)
  PROVE  \A s \in SUBSET rows : s # {} => Latest(s) \in s
<1> SUFFICES ASSUME NEW s \in SUBSET rows, s # {} PROVE Latest(s) \in s
  OBVIOUS
<1>1. Traded(s)
  BY TradedPart
<1>2. QED
  BY <1>1, LatestIs

LEMMA PositionsAre ==
  ASSUME NEW rows, Traded(rows)
  PROVE  /\ Positions(rows)[{}] = NoPosition
         /\ \A s \in SUBSET rows : s # {} =>
               Positions(rows)[s] = Apply(Positions(rows)[s \ {Latest(s)}], Latest(s))
<1> DEFINE F == [p \in PositionType \X rows |-> Apply(p[1], p[2])]
           choice == [s \in SUBSET rows |-> Latest(s)]
<1>1. NoPosition \in PositionType
  BY DEF NoPosition, PositionType
<1>2. F \in [PositionType \X rows -> PositionType]
  BY ApplyIs DEF Traded
<1>3. Choice(rows, choice)
  BY LatestChoice DEF Choice
<1>4. \A p \in PositionType, t \in rows : F[<<p, t>>] = Apply(p, t)
  OBVIOUS
<1>5. \A s \in SUBSET rows : choice[s] = Latest(s)
  OBVIOUS
<1> HIDE DEF F, choice
<1>6. PICK g : Folds(rows, PositionType, F, choice, NoPosition, g)
  BY <1>1, <1>2, <1>3, FoldExists DEF Traded
<1>7. g = PositionStep(rows, g)
  <2>1. g \in [SUBSET rows -> PositionType] /\ g[{}] = NoPosition
    BY <1>6 DEF Folds
  <2>2. ASSUME NEW s \in SUBSET rows, s # {} PROVE g[s] = Apply(g[s \ {Latest(s)}], Latest(s))
    <3>1. Latest(s) \in rows /\ g[s \ {Latest(s)}] \in PositionType
      BY <1>3, <1>5, <2>1, <2>2 DEF Choice
    <3>2. g[s] = F[<<g[s \ {Latest(s)}], Latest(s)>>]
      BY <1>5, <1>6, <2>2 DEF Folds
    <3>3. QED
      BY <1>4, <3>1, <3>2
  <2>3. QED
    BY <2>1, <2>2 DEF PositionStep
<1>8. Positions(rows) = PositionStep(rows, Positions(rows))
  BY <1>7 DEF Positions
<1> DEFINE h == Positions(rows)
<1>9. h = PositionStep(rows, h)
  BY <1>8
<1> HIDE DEF h
<1>10. h[{}] = NoPosition /\ \A s \in SUBSET rows : s # {} => h[s] = Apply(h[s \ {Latest(s)}], Latest(s))
  BY <1>9 DEF PositionStep
<1>11. QED
  BY <1>10 DEF h

\* A part is replayed as it is on its own.
LEMMA PositionsAgree ==
  ASSUME NEW rows, Traded(rows), NEW part \in SUBSET rows
  PROVE  \A s \in SUBSET part : Positions(rows)[s] = Positions(part)[s]
<1> DEFINE T == {s \in SUBSET part : Positions(rows)[s] = Positions(part)[s]}
<1>1. IsFiniteSet(part) /\ Traded(part)
  BY TradedPart DEF Traded
<1>2. /\ Positions(rows)[{}] = NoPosition /\ Positions(part)[{}] = NoPosition
      /\ \A s \in SUBSET rows : s # {} =>
            Positions(rows)[s] = Apply(Positions(rows)[s \ {Latest(s)}], Latest(s))
      /\ \A s \in SUBSET part : s # {} =>
            Positions(part)[s] = Apply(Positions(part)[s \ {Latest(s)}], Latest(s))
  BY <1>1, PositionsAre
<1>3. {} \in T
  BY <1>2
<1>4. ASSUME NEW s \in SUBSET part, s # {}, \A x \in s : s \ {x} \in T PROVE s \in T
  <2>1. Latest(s) \in s
    BY <1>1, <1>4, LatestChoice
  <2>2. s \ {Latest(s)} \in T
    BY <1>4, <2>1
  <2>3. QED
    BY <1>2, <1>4, <2>2
<1> HIDE DEF T
<1>5. \A s \in SUBSET part : s \in T
  BY <1>1, <1>3, <1>4, PartsUp
<1>6. QED
  BY <1>5 DEF T

\* The position of a log is that of the log without its last trade, and the last trade applied.
LEMMA PositionIs ==
  ASSUME NEW rows, Traded(rows)
  PROVE  /\ rows = {} => Position(rows) = NoPosition
         /\ rows # {} => /\ Latest(rows) \in rows
                         /\ Position(rows) = Apply(Position(rows \ {Latest(rows)}), Latest(rows))
<1>1. CASE rows = {}
  <2>1. Positions(rows)[{}] = NoPosition
    BY PositionsAre
  <2>2. QED
    BY <1>1, <2>1, PositionBy
<1>2. CASE rows # {}
  <2> DEFINE rest == rows \ {Latest(rows)}
  <2>1. rest \in SUBSET rows /\ rest \in SUBSET rest /\ rows \in SUBSET rows
    OBVIOUS
  <2>2. Positions(rows)[rows] = Apply(Positions(rows)[rest], Latest(rows))
    BY <1>2, PositionsAre
  <2> HIDE DEF rest
  <2>3. Positions(rows)[rest] = Positions(rest)[rest]
    BY <2>1, PositionsAgree
  <2>4. Latest(rows) \in rows
    BY <1>2, LatestChoice
  <2>5. QED
    BY <1>2, <2>2, <2>3, <2>4, PositionBy DEF rest
<1>3. QED
  BY <1>1, <1>2

LEMMA PositionTyped ==
  ASSUME NEW rows, Traded(rows)
  PROVE  Position(rows) \in PositionType
<1> DEFINE T == {s \in SUBSET rows : Position(s) \in PositionType}
<1>1. NoPosition \in PositionType
  BY DEF NoPosition, PositionType
<1>2. IsFiniteSet(rows) /\ \A s \in SUBSET rows : Traded(s)
  BY TradedPart DEF Traded
<1>3. {} \in T
  BY <1>1, <1>2, PositionIs
<1>4. ASSUME NEW s \in SUBSET rows, s # {}, \A x \in s : s \ {x} \in T PROVE s \in T
  <2>1. Latest(s) \in s /\ Position(s) = Apply(Position(s \ {Latest(s)}), Latest(s))
    BY <1>2, <1>4, PositionIs
  <2>2. Position(s \ {Latest(s)}) \in PositionType /\ Latest(s).type \in {"buy", "sell"} /\ Latest(s).quantity \in Nat
    BY <1>4, <2>1 DEF Traded
  <2>3. QED
    BY <2>1, <2>2, ApplyIs
<1> HIDE DEF T
<1>5. \A s \in SUBSET rows : s \in T
  BY <1>2, <1>3, <1>4, PartsUp
<1>6. QED
  BY <1>5 DEF T
-------------------------------------------------------------------------------
(* What rows are worth together *)

\* Rows of a file that buy or sell.
Valued(U) == IsFiniteSet(U) /\ \A x \in U : x.type \in {"buy", "sell"} /\ x.quantity \in Nat

LEMMA ValueType ==
  ASSUME NEW x, x.type \in {"buy", "sell"}, x.quantity \in Nat
  PROVE  /\ Value(x) \in Int
         /\ x.type = "buy" => Value(x) >= 0
         /\ x.type = "sell" => Value(x) <= 0
BY DEF Value

\* The units bought less those sold, of every part of some rows.
Nets(U, g) ==
    /\ g \in [SUBSET U -> Int] /\ g[{}] = 0
    /\ \A s \in SUBSET U : \A x \in s : g[s] = Value(x) + g[s \ {x}]

LEMMA NetExists ==
  ASSUME NEW U, Valued(U)
  PROVE  \E g : Nets(U, g)
<1> DEFINE F == [p \in Int \X U |-> Value(p[2]) + p[1]]
           choice == [s \in SUBSET U |-> CHOOSE x : x \in s]
<1>1. IsFiniteSet(U) /\ \A x \in U : Value(x) \in Int
  BY ValueType DEF Valued
<1>2. F \in [Int \X U -> Int] /\ \A n \in Int, x \in U : F[<<n, x>>] = Value(x) + n
  BY <1>1
<1>3. Choice(U, choice)
  BY DEF Choice
<1> HIDE DEF F, choice
<1>4. PICK g : Folds(U, Int, F, choice, 0, g)
  BY <1>1, <1>2, <1>3, FoldExists
<1>5. g \in [SUBSET U -> Int] /\ g[{}] = 0
  BY <1>4 DEF Folds
<1> DEFINE T == {s \in SUBSET U : \A y \in s : g[s] = Value(y) + g[s \ {y}]}
<1>6. {} \in T
  OBVIOUS
<1>7. ASSUME NEW s \in SUBSET U, s # {}, \A x \in s : s \ {x} \in T PROVE s \in T
  <2> DEFINE x == choice[s]
  <2>1. x \in s /\ x \in U
    BY <1>3, <1>7 DEF Choice
  <2>2. g[s \ {x}] \in Int /\ g[s] = F[<<g[s \ {x}], x>>]
    BY <1>4, <1>5, <1>7 DEF Folds
  <2> HIDE DEF x
  <2>3. g[s] = Value(x) + g[s \ {x}]
    BY <1>2, <2>1, <2>2
  <2>4. ASSUME NEW y \in s PROVE g[s] = Value(y) + g[s \ {y}]
    <3>1. CASE x = y
      BY <2>3, <3>1
    <3>2. CASE x # y
      <4> DEFINE both == (s \ {x}) \ {y}
      <4>1. y \in s \ {x} /\ x \in s \ {y} /\ both = (s \ {y}) \ {x} /\ both \in SUBSET U
        BY <2>1, <3>2
      <4>2. s \ {x} \in T /\ s \ {y} \in T
        BY <1>7, <2>1
      <4>3. g[s \ {x}] = Value(y) + g[both] /\ g[s \ {y}] = Value(x) + g[both]
        BY <4>1, <4>2
      <4>4. Value(x) \in Int /\ Value(y) \in Int /\ g[both] \in Int
        BY <1>1, <1>5, <2>1, <4>1
      <4> HIDE DEF both
      <4>5. Value(x) + (Value(y) + g[both]) = Value(y) + (Value(x) + g[both])
        BY <4>4
      <4>6. QED
        BY <2>3, <4>3, <4>5
    <3>3. QED
      BY <3>1, <3>2
  <2>5. QED
    BY <2>4
<1>8. \A s \in SUBSET U : s \in T
  <2> HIDE DEF T
  <2>1. QED
    BY <1>1, <1>6, <1>7, PartsUp
<1>9. Nets(U, g)
  BY <1>5, <1>8 DEF Nets
<1>10. QED
  BY <1>9

\* More buys are worth more, and more sells less.
LEMMA NetMoves ==
  ASSUME NEW U, Valued(U), NEW g, Nets(U, g), NEW C \in SUBSET U, NEW E \in SUBSET (U \ C)
  PROVE  /\ (\A x \in E : x.type = "buy") => g[C \cup E] >= g[C]
         /\ (\A x \in E : x.type = "sell") => g[C \cup E] <= g[C]
<1> DEFINE T == {e \in SUBSET E : /\ (\A x \in E : x.type = "buy") => g[C \cup e] >= g[C]
                                  /\ (\A x \in E : x.type = "sell") => g[C \cup e] <= g[C]}
<1>1. \A s \in SUBSET U : g[s] \in Int
  BY DEF Nets
<1>2. {} \in T
  <2>1. C \cup {} = C /\ g[C] \in Int
    BY <1>1
  <2>2. QED
    BY <2>1
<1>3. ASSUME NEW e \in SUBSET E, e # {}, \A x \in e : e \ {x} \in T PROVE e \in T
  <2>1. PICK x \in e : TRUE
    BY <1>3
  <2>2. /\ C \cup e \in SUBSET U /\ x \in C \cup e /\ (C \cup e) \ {x} = C \cup (e \ {x})
        /\ C \cup (e \ {x}) \in SUBSET U /\ x \in E /\ x \in U
    OBVIOUS
  <2>3. g[C \cup e] = Value(x) + g[C \cup (e \ {x})]
    BY <2>2 DEF Nets
  <2>4. /\ Value(x) \in Int /\ (x.type = "buy" => Value(x) >= 0) /\ (x.type = "sell" => Value(x) <= 0)
        /\ g[C \cup (e \ {x})] \in Int /\ g[C] \in Int
    BY <1>1, <2>2, ValueType DEF Valued
  <2>5. e \ {x} \in T
    BY <1>3
  <2>6. (\A y \in E : y.type = "buy") => g[C \cup e] >= g[C]
    BY <2>2, <2>3, <2>4, <2>5
  <2>7. (\A y \in E : y.type = "sell") => g[C \cup e] <= g[C]
    BY <2>2, <2>3, <2>4, <2>5
  <2>8. QED
    BY <2>6, <2>7
<1>4. IsFiniteSet(E)
  BY FS_Subset DEF Valued
<1>5. \A e \in SUBSET E : e \in T
  <2> HIDE DEF T
  <2>1. QED
    BY <1>2, <1>3, <1>4, PartsUp
<1>6. QED
  BY <1>5

LEMMA NetMore ==
  ASSUME NEW U, Valued(U), NEW g, Nets(U, g), NEW P \in SUBSET U, NEW Q \in SUBSET U,
         \A x \in P \ Q : x.type = "buy", \A x \in Q \ P : x.type = "sell"
  PROVE  g[P] >= g[Q]
<1> DEFINE C == P \cap Q
<1>1. /\ C \in SUBSET U /\ P \ Q \in SUBSET (U \ C) /\ Q \ P \in SUBSET (U \ C)
      /\ C \cup (P \ Q) = P /\ C \cup (Q \ P) = Q
  OBVIOUS
<1> HIDE DEF C
<1>2. g[C \cup (P \ Q)] >= g[C] /\ g[C \cup (Q \ P)] <= g[C]
  BY <1>1, NetMoves
<1>3. g[P] \in Int /\ g[Q] \in Int /\ g[C] \in Int
  BY <1>1 DEF Nets
<1>4. QED
  BY <1>1, <1>2, <1>3

\* What a replay has seen when it comes to a trade.
Before(rows, t) == {u \in rows : NotAfter(u, t)}

Reads(rows) == {ReadOf(t) : t \in rows}

\* No trade is short of the units it sells, nor any other.
Covered(rows, g) == \A t \in rows : g[Reads(Before(rows, t))] >= 0

\* A row stands in the log once, and each trade has its own id.
Apart(rows) == \A t, u \in rows : t.id[1] = u.id[1] \/ ReadOf(t) = ReadOf(u) => t = u

LEMMA LastIsAfter ==
  ASSUME NEW rows, Traded(rows), Apart(rows), NEW x \in rows, \A u \in rows : NotAfter(u, x)
  PROVE  /\ Before(rows, x) = rows
         /\ \A t \in rows \ {x} : Before(rows, t) = Before(rows \ {x}, t)
<1>1. Before(rows, x) = rows
  BY DEF Before
<1>2. ASSUME NEW t \in rows \ {x} PROVE ~NotAfter(x, t)
  <2>1. /\ t.day \in Int /\ x.day \in Int /\ t.id[1] \in Int /\ x.id[1] \in Int
        /\ t.id[1] # x.id[1] /\ NotAfter(t, x)
    BY DEF Traded, Apart
  <2>2. QED
    BY <2>1 DEF NotAfter
<1>3. QED
  BY <1>1, <1>2 DEF Before

LEMMA ReadsLess ==
  ASSUME NEW rows, Apart(rows), NEW x \in rows
  PROVE  Reads(rows \ {x}) = Reads(rows) \ {ReadOf(x)} /\ ReadOf(x) \in Reads(rows)
<1>1. \A t \in rows : ReadOf(t) = ReadOf(x) => t = x
  BY DEF Apart
<1>2. QED
  BY <1>1 DEF Reads

\* A log replays if its buys have covered its sells whenever a trade was made.
LEMMA ReplayIsCovered ==
  ASSUME NEW rows, Traded(rows), Apart(rows), NEW U, Valued(U), Reads(rows) \in SUBSET U, NEW g, Nets(U, g)
  PROVE  ~Position(rows).oversold <=> Covered(rows, g)
<1> DEFINE Replayed(s) == /\ ~Position(s).oversold <=> Covered(s, g)
                          /\ Covered(s, g) => Position(s).units = g[Reads(s)] /\ g[Reads(s)] >= 0
           T == {s \in SUBSET rows : Replayed(s)}
<1>1. \A s \in SUBSET rows : Traded(s) /\ Apart(s) /\ Reads(s) \in SUBSET U
  <2>1. \A s \in SUBSET rows : Apart(s) /\ Reads(s) \in SUBSET U
    BY DEF Apart, Reads
  <2>2. QED
    BY <2>1, TradedPart
<1>2. {} \in T
  <2>1. Position({}) = NoPosition
    BY <1>1, PositionIs
  <2>2. Reads({}) = {} /\ Covered({}, g)
    BY DEF Reads, Covered
  <2>3. g[{}] = 0
    BY DEF Nets
  <2>4. QED
    BY <2>1, <2>2, <2>3 DEF NoPosition
<1>3. ASSUME NEW s \in SUBSET rows, s # {}, \A x \in s : s \ {x} \in T PROVE s \in T
  <2> DEFINE x == Latest(s)
             r == s \ {x}
  <2>1. Traded(s) /\ Apart(s) /\ Traded(r) /\ Reads(s) \in SUBSET U /\ r \in SUBSET rows
    BY <1>1
  <2>2. x \in s /\ \A u \in s : NotAfter(u, x)
    BY <1>3, <2>1, LatestIs
  <2>3. Position(s) = Apply(Position(r), x)
    BY <1>3, <2>1, PositionIs
  <2>4. r \in T
    BY <1>3, <2>2
  <2> HIDE DEF x
  <2>5. /\ Before(s, x) = s
        /\ \A t \in r : Before(s, t) = Before(r, t)
    BY <2>1, <2>2, LastIsAfter
  <2>6. Reads(r) = Reads(s) \ {ReadOf(x)} /\ ReadOf(x) \in Reads(s)
    BY <2>1, <2>2, ReadsLess
  <2>7. s = r \cup {x}
    BY <2>2
  <2> HIDE DEF r
  <2>8. Covered(s, g) <=> Covered(r, g) /\ g[Reads(s)] >= 0
    BY <2>5, <2>7 DEF Covered
  <2>9. g[Reads(s)] = Value(x) + g[Reads(r)] /\ g[Reads(r)] \in Int
    <3>1. g[Reads(s)] = Value(ReadOf(x)) + g[Reads(r)] /\ g[Reads(r)] \in Int
      BY <2>1, <2>6 DEF Nets
    <3>2. Value(ReadOf(x)) = Value(x)
      BY DEF Value, ReadOf
    <3>3. QED
      BY <3>1, <3>2
  <2>10. /\ Position(r) \in PositionType /\ x.type \in {"buy", "sell"} /\ x.quantity \in Nat
    BY <2>1, <2>2, PositionTyped DEF Traded
  <2>11. /\ Apply(Position(r), x) \in PositionType
         /\ Position(r).oversold => Apply(Position(r), x) = Position(r)
         /\ ~Position(r).oversold =>
              /\ Apply(Position(r), x).oversold <=> x.type = "sell" /\ x.quantity > Position(r).units
              /\ ~Apply(Position(r), x).oversold => Apply(Position(r), x).units = Position(r).units + Value(x)
    BY <2>10, ApplyIs
  <2>12. CASE Position(r).oversold
    <3>1. ~Covered(s, g) /\ Position(s).oversold
      BY <2>3, <2>4, <2>8, <2>11, <2>12
    <3>2. QED
      BY <3>1
  <2>13. CASE ~Position(r).oversold
    <3>1. Covered(r, g) /\ Position(r).units = g[Reads(r)] /\ g[Reads(r)] >= 0
      BY <2>4, <2>13
    <3>2. Position(s).oversold <=> ~(g[Reads(s)] >= 0)
      BY <2>3, <2>9, <2>10, <2>11, <2>13, <3>1 DEF Value
    <3>3. ~Position(s).oversold => Position(s).units = g[Reads(s)]
      <4>1. Value(x) \in Int
        BY <2>10, ValueType
      <4>2. QED
        BY <2>3, <2>9, <2>11, <2>13, <3>1, <4>1
    <3>4. QED
      BY <2>8, <3>1, <3>2, <3>3
  <2>14. QED
    BY <2>12, <2>13
<1>4. IsFiniteSet(rows)
  BY DEF Traded
<1> HIDE DEF T, Replayed
<1>5. \A s \in SUBSET rows : s \in T
  BY <1>2, <1>3, <1>4, PartsUp
<1>6. QED
  BY <1>5 DEF T, Replayed
-------------------------------------------------------------------------------
(* What may be added to a log that replays *)

Of(rows, symbol) == {t \in rows : t.symbol = symbol}

LEMMA ReplaysIs == \A rows : Replays(rows) <=> \A symbol \in Symbols : ~Position(Of(rows, symbol)).oversold
BY DEF Replays, Of

LEMMA NotAfterTakes ==
  ASSUME NEW rows, Traded(rows)
  PROVE  \A t, u, v \in rows : NotAfter(t, u) /\ NotAfter(u, v) => NotAfter(t, v)
<1>1. \A t \in rows : t.day \in Int /\ t.id[1] \in Int
  BY DEF Traded
<1>2. QED
  BY <1>1 DEF NotAfter

LEMMA ReadsValued ==
  ASSUME NEW rows, Traded(rows)
  PROVE  Valued(Reads(rows))
<1>1. IsFiniteSet(Reads(rows))
  <2> DEFINE read == [t \in rows |-> ReadOf(t)]
             image == Reads(rows)
  <2>1. read \in Surjection(rows, image)
    BY DEF Surjection, Reads
  <2>2. IsFiniteSet(rows)
    BY DEF Traded
  <2> HIDE DEF read, image
  <2>3. IsFiniteSet(image)
    BY <2>1, <2>2, FS_Surjection
  <2>4. QED
    BY <2>3 DEF image
<1>2. \A t \in rows : ReadOf(t).type = t.type /\ ReadOf(t).quantity = t.quantity
  BY DEF ReadOf
<1>3. QED
  BY <1>1, <1>2 DEF Valued, Traded, Reads

\* The trades made until a day are those until the last of them.
LEMMA BeforeIsCovered ==
  ASSUME NEW rows, Traded(rows), NEW x, Traded(rows \cup {x}), NEW U, Reads(rows) \in SUBSET U,
         NEW g, Nets(U, g), Covered(rows, g)
  PROVE  g[Reads({u \in rows : NotAfter(u, x)})] >= 0
<1> DEFINE D == {u \in rows : NotAfter(u, x)}
<1>1. CASE D = {}
  <2>1. Reads(D) = {} /\ g[{}] = 0
    BY <1>1 DEF Reads, Nets
  <2>2. QED
    BY <2>1
<1>2. CASE D # {}
  <2>1. Traded(D)
    BY TradedPart
  <2> DEFINE y == Latest(D)
  <2>2. y \in D /\ \A u \in D : NotAfter(u, y)
    BY <1>2, <2>1, LatestIs
  <2> HIDE DEF y
  <2>3. \A u \in rows : NotAfter(u, y) => NotAfter(u, x)
    BY <2>2, NotAfterTakes
  <2>4. Before(rows, y) = D
    BY <2>2, <2>3 DEF Before
  <2>5. QED
    BY <2>2, <2>4 DEF Covered
<1>3. QED
  BY <1>1, <1>2

LEMMA OneBuyMore ==
  ASSUME NEW rows, NEW x, Traded(rows \cup {x}), Apart(rows \cup {x}), x.type = "buy", ~Position(rows).oversold
  PROVE  ~Position(rows \cup {x}).oversold
<1> DEFINE more == rows \cup {x}
           U == Reads(more)
<1>1. Traded(rows) /\ Apart(rows) /\ Valued(U) /\ Reads(rows) \in SUBSET U
  BY TradedPart, ReadsValued DEF Apart, Reads
<1>2. PICK g : Nets(U, g)
  BY <1>1, NetExists
<1>3. Covered(rows, g)
  BY <1>1, <1>2, ReplayIsCovered
<1>4. ReadOf(x).type = "buy"
  BY DEF ReadOf
<1>5. ASSUME NEW t \in more PROVE g[Reads(Before(more, t))] >= 0
  <2> DEFINE D == {u \in rows : NotAfter(u, t)}
             P == Reads(Before(more, t))
  <2>1. g[Reads(D)] >= 0
    <3>1. Traded(rows \cup {t})
      BY TradedPart
    <3>2. QED
      BY <1>1, <1>2, <1>3, <3>1, BeforeIsCovered
  <2>2. P \in SUBSET U /\ Reads(D) \in SUBSET U /\ Reads(D) \ P = {} /\ P \ Reads(D) \subseteq {ReadOf(x)}
    BY DEF Before, Reads
  <2> HIDE DEF D, P, U
  <2>3. g[P] >= g[Reads(D)]
    BY <1>1, <1>2, <1>4, <2>2, NetMore
  <2>4. g[P] \in Int /\ g[Reads(D)] \in Int
    BY <1>2, <2>2 DEF Nets
  <2>5. QED
    BY <2>1, <2>3, <2>4 DEF P
<1> HIDE DEF U
<1>6. Covered(more, g)
  BY <1>5 DEF Covered
<1>7. QED
  BY <1>1, <1>2, <1>6, ReplayIsCovered DEF U

\* A buy never stands in the way.
LEMMA BuyReplays ==
  ASSUME NEW rows, NEW x, Traded(rows \cup {x}), Apart(rows \cup {x}), x.type = "buy", Replays(rows)
  PROVE  Replays(rows \cup {x})
<1>1. ASSUME NEW symbol \in Symbols PROVE ~Position(Of(rows \cup {x}, symbol)).oversold
  <2>1. ~Position(Of(rows, symbol)).oversold
    BY ReplaysIs
  <2>2. CASE x.symbol = symbol
    <3>1. Of(rows \cup {x}, symbol) = Of(rows, symbol) \cup {x}
      BY <2>2 DEF Of
    <3>2. Of(rows, symbol) \cup {x} \in SUBSET (rows \cup {x})
      BY DEF Of
    <3>3. Traded(Of(rows, symbol) \cup {x}) /\ Apart(Of(rows, symbol) \cup {x})
      BY <3>2, TradedPart DEF Apart
    <3>4. QED
      BY <2>1, <3>1, <3>3, OneBuyMore
  <2>3. CASE x.symbol # symbol
    <3>1. Of(rows \cup {x}, symbol) = Of(rows, symbol)
      BY <2>3 DEF Of
    <3>2. QED
      BY <2>1, <3>1
  <2>4. QED
    BY <2>2, <2>3
<1>2. QED
  BY <1>1, ReplaysIs
-------------------------------------------------------------------------------
(* The trades of a file *)

\* The place of a row in its file, the first of several.
FirstAt(file, n) == n \in DOMAIN file /\ \A l \in 1 .. n - 1 : Read(file, l) # Read(file, n)

LEMMA ReadType ==
  ASSUME NEW file \in Seq(FileRow), NEW n \in DOMAIN file
  PROVE  /\ Read(file, n).day \in Int /\ Read(file, n).symbol \in Symbols
         /\ Read(file, n).type \in {"buy", "sell", "unknown"} /\ Read(file, n).quantity \in Nat
<1>1. file[n] \in FileRow
  OBVIOUS
<1>2. /\ file[n].first \in Nat /\ file[n].second \in Nat /\ file[n].symbol \in Symbols
      /\ file[n].type \in {"buy", "sell", "unknown"} /\ file[n].quantity \in Nat
  BY <1>1 DEF FileRow
<1>3. MonthOf(file[n], DayFirst(file)) \in Nat /\ DayOf(file[n], DayFirst(file)) \in Nat
  BY <1>2 DEF MonthOf, DayOf
<1>4. QED
  BY <1>2, <1>3 DEF Read

LEMMA FirstOne ==
  ASSUME NEW file \in Seq(FileRow), NEW m \in DOMAIN file
  PROVE  \E n \in 1 .. m : FirstAt(file, n) /\ Read(file, n) = Read(file, m)
<1> DEFINE T == {n \in 1 .. m : Read(file, n) = Read(file, m)}
<1>1. DOMAIN file = 1 .. Len(file) /\ Len(file) \in Nat /\ m \in T
  OBVIOUS
<1>2. PICK n \in T : \A l \in T : n <= l
  <2>1. T \subseteq Nat /\ T # {}
    BY <1>1
  <2>2. QED
    BY <2>1, NatMin
<1>3. n \in 1 .. m /\ n \in DOMAIN file /\ m \in 1 .. Len(file)
  BY <1>1
<1>4. ASSUME NEW l \in 1 .. n - 1 PROVE Read(file, l) # Read(file, n)
  <2>1. l \in 1 .. m /\ ~(n <= l)
    BY <1>3
  <2>2. l \notin T
    BY <1>2, <2>1
  <2>3. QED
    BY <2>1, <2>2
<1>5. QED
  BY <1>3, <1>4 DEF FirstAt

LEMMA FirstIsOne ==
  ASSUME NEW file \in Seq(FileRow), NEW m, NEW n, FirstAt(file, m), FirstAt(file, n), Read(file, m) = Read(file, n)
  PROVE  m = n
<1>1. m \in 1 .. Len(file) /\ n \in 1 .. Len(file) /\ Len(file) \in Nat
  BY DEF FirstAt
<1>2. m < n => m \in 1 .. n - 1
  BY <1>1
<1>3. n < m => n \in 1 .. m - 1
  BY <1>1
<1>4. QED
  BY <1>1, <1>2, <1>3 DEF FirstAt

\* The trades of a file are its rows in the order they are written.
LEMMA AsLogIs ==
  ASSUME NEW file \in Seq(FileRow)
  PROVE  /\ Traded(AsLog(file)) /\ Apart(AsLog(file)) /\ Reads(AsLog(file)) = Rows(file)
         /\ \A t \in AsLog(file) : FirstAt(file, t.id[1]) /\ ReadOf(t) = Read(file, t.id[1])
<1> DEFINE D == {n \in DOMAIN file : Read(file, n) \in Rows(file) /\ \A l \in 1 .. n - 1 : Read(file, l) # Read(file, n)}
           TradeOf(n) == Trade(n, Read(file, n), 1)
<1>1. AsLog(file) = {TradeOf(n) : n \in D}
  BY DEF AsLog
<1>2. \A n \in D : n \in DOMAIN file /\ FirstAt(file, n) /\ Read(file, n) \in Rows(file)
  BY DEF FirstAt
<1>3. \A n \in DOMAIN file : FirstAt(file, n) /\ Read(file, n) \in Rows(file) => n \in D
  BY DEF FirstAt
<1>4. \A n \in D : /\ TradeOf(n).id[1] = n /\ ReadOf(TradeOf(n)) = Read(file, n)
                   /\ TradeOf(n).day = Read(file, n).day /\ TradeOf(n).type = Read(file, n).type
                   /\ TradeOf(n).quantity = Read(file, n).quantity
  BY DEF Trade, ReadOf, Read
<1>5. IsFiniteSet(AsLog(file))
  <2> DEFINE f == [n \in D |-> TradeOf(n)]
             image == AsLog(file)
  <2>1. f \in Surjection(D, image)
    BY <1>1 DEF Surjection
  <2>2. IsFiniteSet(D)
    <3>1. D \subseteq 1 .. Len(file) /\ Len(file) \in Nat
      OBVIOUS
    <3> HIDE DEF D
    <3>2. IsFiniteSet(1 .. Len(file))
      BY <3>1, FS_Interval
    <3>3. QED
      BY <3>1, <3>2, FS_Subset
  <2> HIDE DEF f, D, image
  <2>3. IsFiniteSet(image)
    BY <2>1, <2>2, FS_Surjection
  <2>4. QED
    BY <2>3 DEF image
<1> HIDE DEF D, TradeOf
<1>6. \A t \in AsLog(file) : FirstAt(file, t.id[1]) /\ ReadOf(t) = Read(file, t.id[1])
  BY <1>1, <1>2, <1>4
<1>7. Traded(AsLog(file))
  <2>1. ASSUME NEW n \in D
        PROVE  /\ TradeOf(n).day \in Int /\ TradeOf(n).id[1] \in Int
               /\ TradeOf(n).type \in {"buy", "sell"} /\ TradeOf(n).quantity \in Nat
    <3>1. n \in DOMAIN file /\ n \in Int /\ Read(file, n).type # "unknown"
      BY <1>2 DEF Rows
    <3>2. QED
      BY <1>4, <3>1, ReadType
  <2>2. QED
    BY <1>1, <1>5, <2>1 DEF Traded
<1>8. Apart(AsLog(file))
  <2>1. ASSUME NEW m \in D, NEW n \in D, Read(file, m) = Read(file, n) PROVE m = n
    BY <1>2, <2>1, FirstIsOne
  <2>2. QED
    BY <1>1, <1>4, <2>1 DEF Apart
<1>9. Reads(AsLog(file)) = Rows(file)
  <2>1. \A t \in AsLog(file) : ReadOf(t) \in Rows(file)
    BY <1>1, <1>2, <1>4
  <2>2. ASSUME NEW row \in Rows(file) PROVE \E t \in AsLog(file) : ReadOf(t) = row
    <3>1. PICK m \in DOMAIN file : Read(file, m) = row
      BY DEF Rows
    <3>2. PICK n \in 1 .. m : FirstAt(file, n) /\ Read(file, n) = row
      BY <3>1, FirstOne
    <3>3. n \in D
      BY <1>3, <3>2 DEF FirstAt
    <3>4. QED
      BY <1>1, <1>4, <3>2, <3>3
  <2>3. QED
    BY <2>1, <2>2 DEF Reads
<1>10. QED
  BY <1>6, <1>7, <1>8, <1>9

\* A buy that is written before a trade is in the log before it.
InFileOrder(file, rows) ==
    \A t \in rows : \A n \in DOMAIN file : FirstAt(file, n) /\ Read(file, n) = ReadOf(t) =>
        \A m \in 1 .. n - 1 : Read(file, m).type = "buy" =>
            \E b \in rows : ReadOf(b) = Read(file, m) /\ b.id[1] < t.id[1]

\* Oldest first.
Sorted(file) == \A m, n \in DOMAIN file : m < n => Read(file, m).day <= Read(file, n).day

\* What the rows before the m-th have left in the log: the buys, or all.
BuysIn(file, m, rows) ==
    \A n \in DOMAIN file : n < m /\ Read(file, n).type = "buy" => Read(file, n) \in Reads(rows)
RowsIn(file, m, rows) ==
    \A n \in DOMAIN file : n < m /\ Read(file, n).type # "unknown" => Read(file, n) \in Reads(rows)

\* A log of trades of a file, each there once.
LogOf(file, rows) == Traded(rows) /\ Apart(rows) /\ Reads(rows) \subseteq Rows(file)

LEMMA BuysComeFirst ==
  ASSUME NEW file \in Seq(FileRow), NEW rows, LogOf(file, rows), InFileOrder(file, rows),
         Sorted(file) \/ BuysIn(file, 1 + Len(file), rows),
         NEW v \in rows, NEW m \in DOMAIN file, NEW n, FirstAt(file, n), Read(file, n) = ReadOf(v),
         Read(file, m).type = "buy",
         Read(file, m).day < Read(file, n).day \/ (Read(file, m).day = Read(file, n).day /\ m < n)
  PROVE  \E b \in rows : ReadOf(b) = Read(file, m) /\ NotAfter(b, v)
<1>1. /\ m \in 1 .. Len(file) /\ n \in 1 .. Len(file) /\ Len(file) \in Nat /\ n \in DOMAIN file
      /\ Read(file, m).day \in Int /\ Read(file, n).day \in Int
  BY ReadType DEF FirstAt
<1>2. \A t \in rows : t.day = ReadOf(t).day /\ t.id[1] \in Int /\ t.day \in Int
  BY DEF ReadOf, LogOf, Traded
<1>3. CASE m < n
  <2>1. m \in 1 .. n - 1
    BY <1>1, <1>3
  <2>2. PICK b \in rows : ReadOf(b) = Read(file, m) /\ b.id[1] < v.id[1]
    BY <1>1, <2>1 DEF InFileOrder
  <2>3. /\ b.day = Read(file, m).day /\ v.day = Read(file, n).day
        /\ b.id[1] \in Int /\ v.id[1] \in Int /\ b.id[1] <= v.id[1]
    BY <1>2, <2>2
  <2>4. NotAfter(b, v)
    BY <1>1, <2>3 DEF NotAfter
  <2>5. QED
    BY <2>2, <2>4
<1>4. CASE ~(m < n)
  <2>1. Read(file, m).day < Read(file, n).day /\ n < m
    <3>1. Read(file, m).day < Read(file, n).day
      BY <1>4
    <3>2. m # n
      BY <1>1, <3>1
    <3>3. QED
      BY <1>1, <1>4, <3>1, <3>2
  <2>2. ~Sorted(file)
    BY <1>1, <2>1 DEF Sorted
  <2>3. Read(file, m) \in Reads(rows)
    <3>1. BuysIn(file, 1 + Len(file), rows) /\ m < 1 + Len(file)
      BY <1>1, <2>2
    <3>2. QED
      BY <3>1 DEF BuysIn
  <2>4. PICK b \in rows : ReadOf(b) = Read(file, m)
    BY <2>3 DEF Reads
  <2>5. NotAfter(b, v)
    BY <1>2, <2>1, <2>4 DEF NotAfter
  <2>6. QED
    BY <2>4, <2>5
<1>5. QED
  BY <1>3, <1>4

\* The same for the trades of one symbol, compared with those of the file.
LEMMA SymbolReplays ==
  ASSUME NEW file \in Seq(FileRow), NEW rows, LogOf(file, rows), InFileOrder(file, rows),
         Sorted(file) \/ BuysIn(file, 1 + Len(file), rows),
         NEW symbol, ~Position(Of(AsLog(file), symbol)).oversold
  PROVE  ~Position(Of(rows, symbol)).oversold
<1> DEFINE all == AsLog(file)
           R == Of(rows, symbol)
           A == Of(all, symbol)
           U == Reads(A)
<1>1. /\ Traded(all) /\ Apart(all) /\ Reads(all) = Rows(file)
      /\ \A t \in all : FirstAt(file, t.id[1]) /\ ReadOf(t) = Read(file, t.id[1])
  BY AsLogIs
<1> HIDE DEF all
<1>2. R \in SUBSET rows /\ A \in SUBSET all
  BY DEF Of
<1>3. Traded(R) /\ Apart(R) /\ Traded(A) /\ Apart(A) /\ Valued(U)
  <2>1. Traded(rows) /\ Apart(rows)
    BY DEF LogOf
  <2>2. Traded(R) /\ Traded(A)
    BY <1>1, <1>2, <2>1, TradedPart
  <2>3. QED
    BY <1>1, <1>2, <2>1, <2>2, ReadsValued DEF Apart
<1>4. \A t \in R : \E a \in A : ReadOf(a) = ReadOf(t)
  <2>1. ASSUME NEW t \in R PROVE \E a \in A : ReadOf(a) = ReadOf(t)
    <3>1. ReadOf(t) \in Reads(all)
      BY <1>1, <1>2, <2>1 DEF LogOf, Reads
    <3>2. PICK a \in all : ReadOf(a) = ReadOf(t)
      BY <3>1 DEF Reads
    <3>3. a.symbol = t.symbol
      BY <3>2 DEF ReadOf
    <3>4. QED
      BY <3>2, <3>3 DEF Of
  <2>2. QED
    BY <2>1
<1>5. Reads(R) \in SUBSET U
  BY <1>4 DEF Reads
<1>6. PICK g : Nets(U, g)
  BY <1>3, NetExists
<1>7. Covered(A, g)
  <2>1. ~Position(A).oversold /\ Reads(A) \in SUBSET U
    BY DEF all
  <2> HIDE DEF A, U
  <2>2. QED
    BY <1>3, <1>6, <2>1, ReplayIsCovered
<1>8. ASSUME NEW t \in R PROVE g[Reads(Before(R, t))] >= 0
  <2> DEFINE P == Reads(Before(R, t))
             S == {a \in A : ReadOf(a) \in P /\ a.type = "sell"}
  <2>1. P \in SUBSET U /\ \A y \in P : \E a \in A : ReadOf(a) = y
    BY <1>4, <1>5 DEF Before, Reads
  <2>2. \A a \in A : ReadOf(a).type = a.type /\ a.type \in {"buy", "sell"} /\ ReadOf(a) \in U
    BY <1>3 DEF ReadOf, Traded, Reads
  <2>3. CASE S = {}
    <3>1. \A y \in P \ {} : y.type = "buy"
      BY <2>1, <2>2, <2>3
    <3>2. {} \in SUBSET U
      OBVIOUS
    <3> HIDE DEF P, U
    <3>3. g[P] >= g[{}]
      BY <1>3, <1>6, <2>1, <3>1, <3>2, NetMore
    <3>4. g[{}] = 0
      BY <1>6 DEF Nets
    <3>5. QED
      BY <3>3, <3>4 DEF P
  <2>4. CASE S # {}
    <3> DEFINE w == Latest(S)
               Q == Reads(Before(A, w))
    <3>1. w \in S /\ \A a \in S : NotAfter(a, w)
      <4>1. Traded(S)
        BY <1>3, TradedPart
      <4>2. QED
        BY <2>4, <4>1, LatestIs
    <3> HIDE DEF w
    <3>2. g[Q] >= 0 /\ Q \in SUBSET U
      BY <1>7, <3>1 DEF Covered, Before, Reads
    <3>3. PICK v \in R : ReadOf(v) = ReadOf(w) /\ NotAfter(v, t)
      BY <3>1 DEF Before, Reads
    <3>4. ASSUME NEW y \in P \ Q PROVE y.type = "buy"
      <4>1. PICK a \in A : ReadOf(a) = y
        BY <2>1, <3>4
      <4>2. ~NotAfter(a, w)
        BY <3>4, <4>1 DEF Before, Reads
      <4>3. a \notin S
        BY <3>1, <4>2
      <4>4. QED
        BY <2>2, <3>4, <4>1, <4>3
    <3>5. ASSUME NEW y \in Q \ P, y.type # "sell" PROVE FALSE
      <4>1. PICK a \in A : ReadOf(a) = y /\ NotAfter(a, w)
        BY <3>5 DEF Before, Reads
      <4>2. a.type = "buy" /\ w.type = "sell" /\ a # w
        BY <2>2, <3>1, <3>5, <4>1
      <4>3. /\ FirstAt(file, a.id[1]) /\ ReadOf(a) = Read(file, a.id[1])
            /\ FirstAt(file, w.id[1]) /\ ReadOf(w) = Read(file, w.id[1])
        BY <1>1, <1>2, <3>1
      <4>4. /\ ReadOf(a).type = "buy" /\ ReadOf(a).day = a.day /\ ReadOf(w).day = w.day
            /\ a.day \in Int /\ w.day \in Int /\ a.id[1] \in Int /\ w.id[1] \in Int /\ a.id[1] # w.id[1]
        BY <1>3, <3>1, <4>2 DEF ReadOf, Traded, Apart
      <4>5. \/ Read(file, a.id[1]).day < Read(file, w.id[1]).day
            \/ Read(file, a.id[1]).day = Read(file, w.id[1]).day /\ a.id[1] < w.id[1]
        BY <4>1, <4>3, <4>4 DEF NotAfter
      <4>6. v \in rows /\ Read(file, w.id[1]) = ReadOf(v) /\ a.id[1] \in DOMAIN file /\ Read(file, a.id[1]).type = "buy"
        BY <1>2, <3>3, <4>3, <4>4 DEF FirstAt
      <4>7. PICK b \in rows : ReadOf(b) = Read(file, a.id[1]) /\ NotAfter(b, v)
        BY <4>3, <4>5, <4>6, BuysComeFirst
      <4>8. b \in R
        <5>1. b.symbol = ReadOf(b).symbol /\ a.symbol = ReadOf(a).symbol /\ a.symbol = symbol
          BY DEF ReadOf, Of
        <5>2. QED
          BY <4>3, <4>7, <5>1 DEF Of
      <4>9. NotAfter(b, t)
        BY <1>3, <3>3, <4>7, <4>8, NotAfterTakes
      <4>10. ReadOf(b) \in P
        BY <4>8, <4>9 DEF Before, Reads
      <4>11. QED
        BY <3>5, <4>1, <4>3, <4>7, <4>10
    <3>6. \A y \in Q \ P : y.type = "sell"
      BY <3>5
    <3> HIDE DEF P, Q, S, U
    <3>7. g[P] >= g[Q]
      BY <1>3, <1>6, <2>1, <3>2, <3>4, <3>6, NetMore
    <3>8. g[P] \in Int /\ g[Q] \in Int
      BY <1>6, <2>1, <3>2 DEF Nets
    <3>9. QED
      BY <3>2, <3>7, <3>8 DEF P
  <2>5. QED
    BY <2>3, <2>4
<1> HIDE DEF R, U
<1>9. Covered(R, g)
  BY <1>8 DEF Covered
<1>10. QED
  BY <1>3, <1>5, <1>6, <1>9, ReplayIsCovered DEF R

\* If the trades of a file replay, so does every part of them that has the buys in their order.
LEMMA FileReplays ==
  ASSUME NEW file \in Seq(FileRow), NEW rows, LogOf(file, rows), InFileOrder(file, rows),
         Sorted(file) \/ BuysIn(file, 1 + Len(file), rows), Replays(AsLog(file))
  PROVE  Replays(rows)
BY SymbolReplays, ReplaysIs
-------------------------------------------------------------------------------
(* A file imported again and again *)

\* All of the file is in the log, or will be at the end of the pass, when its trades replay.
Covering(least) ==
    Replays(AsLog(quiet.file)) /\ (quiet.passes >= least \/ (quiet.passes >= least - 1 /\ Sorted(quiet.file)))

QuietImport(i) ==
    /\ pc[i] = "rows" /\ import[i].file = quiet.file /\ import[i].known = Reads(trades)
    /\ BuysIn(quiet.file, import[i].at, trades)
    /\ Covering(1) => RowsIn(quiet.file, import[i].at, trades)

QuietLog ==
    /\ LogOf(quiet.file, trades) /\ Replays(trades) /\ InFileOrder(quiet.file, trades)
    /\ \A t \in trades : t.by > 0
    /\ quiet.passes >= 1 => BuysIn(quiet.file, 1 + Len(quiet.file), trades)
    /\ Covering(2) => RowsIn(quiet.file, 1 + Len(quiet.file), trades)

\* While nobody else writes, one import at most runs, and the buys of the rows it has read are in.
QuietSound ==
    quiet.file # <<>> =>
        /\ QuietLog
        /\ \A i \in Importers : Running(i) => QuietImport(i) /\ \A u \in Importers \ {i} : ~Running(u)

QuietInvariant ==
    /\ ImportInvariant
    /\ quiet \in [file : Seq(FileRow), passes : Nat]
    /\ QuietSound

LEMMA RowAt ==
  ASSUME ImportInvariant, NEW i \in Importers, Running(i), HasRow(i)
  PROVE  /\ import[i].file \in Seq(FileRow) /\ import[i].at \in DOMAIN import[i].file
         /\ import[i].at \in Nat /\ import[i].number \in Nat \ {0}
<1>1. /\ import[i].file \in Seq(FileRow) /\ import[i].at <= Len(import[i].file)
      /\ import[i].imported \in Nat /\ import[i].skipped \in Nat /\ import[i].errors \in Nat
      /\ import[i].at = 1 + import[i].imported + import[i].skipped + import[i].errors
      /\ import[i].number \in 1 .. imports /\ imports \in Nat
  BY DEF HasRow, ImportInvariant, ImportSound
<1>2. ASSUME NEW a \in Nat, NEW b \in Nat, NEW c \in Nat, NEW at, at = 1 + a + b + c
      PROVE  at \in Nat \ {0}
  BY <1>2
<1>3. import[i].at \in Nat \ {0}
  BY <1>1, <1>2
<1>4. Len(import[i].file) \in Nat /\ DOMAIN import[i].file = 1 .. Len(import[i].file)
  BY <1>1
<1>5. QED
  BY <1>1, <1>3, <1>4

\* What the log is with the row that an import is at.
LEMMA RowAdded ==
  ASSUME QuietInvariant, quiet.file # <<>>, NEW i \in Importers, Running(i), ToCreate(i),
         NEW x, x = Trade(NextId, Row(i), import[i].number)
  PROVE  /\ LogOf(quiet.file, trades \cup {x}) /\ InFileOrder(quiet.file, trades \cup {x})
         /\ x.by > 0 /\ Reads(trades \cup {x}) = Reads(trades) \cup {Row(i)}
         /\ Row(i).type = "buy" \/ Covering(1) => Replays(trades \cup {x})
<1> DEFINE F == quiet.file
           at == import[i].at
           rows == trades \cup {x}
<1>1. /\ ImportInvariant /\ F \in Seq(FileRow) /\ QuietLog /\ QuietImport(i)
      /\ HasRow(i) /\ Row(i).type # "unknown" /\ Row(i) \notin import[i].known
  BY DEF QuietInvariant, QuietSound, ToCreate
<1>2. at \in DOMAIN F /\ at \in Nat /\ Row(i) = Read(F, at) /\ import[i].number \in Nat \ {0}
  BY <1>1, RowAt DEF QuietImport, Row
<1>3. /\ x.id[1] = NextId /\ x.by = import[i].number /\ ReadOf(x) = Row(i)
      /\ x.day = Row(i).day /\ x.type = Row(i).type /\ x.quantity = Row(i).quantity
  BY DEF Trade, ReadOf, Row, Read
<1>4. NextId \in Nat \ {0} /\ \A t \in trades : t.id[1] < NextId
  BY <1>1, NextIdIsNew
<1>5. Row(i) \in Rows(F) /\ Row(i) \notin Reads(trades)
  BY <1>1, <1>2 DEF Rows, QuietImport
<1> HIDE DEF F, at
<1>6. Reads(rows) = Reads(trades) \cup {Row(i)}
  BY <1>3 DEF Reads
<1>7. Traded(rows)
  <2>1. IsFiniteSet(rows)
    BY <1>1, FS_AddElement DEF QuietLog, LogOf, Traded
  <2>2. x.day \in Int /\ x.id[1] \in Int /\ x.type \in {"buy", "sell"} /\ x.quantity \in Nat
    BY <1>1, <1>2, <1>3, <1>4, ReadType
  <2>3. QED
    BY <1>1, <2>1, <2>2 DEF QuietLog, LogOf, Traded
<1>8. Apart(rows)
  <2>1. \A t \in trades : t.id[1] # x.id[1] /\ ReadOf(t) # ReadOf(x)
    <3>1. \A t \in trades : t.id[1] \in Int
      BY <1>1 DEF QuietLog, LogOf, Traded
    <3>2. QED
      BY <1>3, <1>4, <1>5, <3>1 DEF Reads
  <2>2. QED
    BY <1>1, <2>1 DEF QuietLog, LogOf, Apart
<1>9. LogOf(F, rows)
  BY <1>1, <1>5, <1>6, <1>7, <1>8 DEF QuietLog, LogOf, F
<1>10. InFileOrder(F, rows)
  <2>1. ASSUME NEW n \in DOMAIN F, FirstAt(F, n), Read(F, n) = Row(i), NEW m \in 1 .. n - 1, Read(F, m).type = "buy"
        PROVE  \E b \in trades : ReadOf(b) = Read(F, m) /\ b.id[1] < x.id[1]
    <3>1. n \in 1 .. Len(F) /\ at \in 1 .. Len(F) /\ Len(F) \in Nat
      BY <1>1, <1>2
    <3>2. ~(at < n)
      <4>1. SUFFICES ASSUME at < n PROVE FALSE
        OBVIOUS
      <4>2. at \in 1 .. n - 1
        BY <3>1, <4>1
      <4>3. QED
        BY <1>2, <2>1, <4>2 DEF FirstAt
    <3>3. m < at /\ m \in DOMAIN F
      BY <1>1, <3>1, <3>2
    <3>4. BuysIn(F, at, trades)
      BY <1>1 DEF QuietImport, F, at
    <3>5. Read(F, m) \in Reads(trades)
      BY <2>1, <3>3, <3>4 DEF BuysIn
    <3>6. PICK b \in trades : ReadOf(b) = Read(F, m)
      BY <3>5 DEF Reads
    <3>7. QED
      BY <1>3, <1>4, <3>6
  <2>2. InFileOrder(F, trades)
    BY <1>1 DEF QuietLog, F
  <2>3. \A t \in trades : t \in rows
    OBVIOUS
  <2>4. ASSUME NEW t \in rows, NEW n \in DOMAIN F, FirstAt(F, n), Read(F, n) = ReadOf(t),
               NEW m \in 1 .. n - 1, Read(F, m).type = "buy"
        PROVE  \E b \in rows : ReadOf(b) = Read(F, m) /\ b.id[1] < t.id[1]
    <3>1. CASE t \in trades
      BY <2>2, <2>4, <3>1 DEF InFileOrder
    <3>2. CASE t = x
      BY <1>3, <2>1, <2>4, <3>2
    <3>3. QED
      BY <3>1, <3>2
  <2> HIDE DEF rows
  <2>5. QED
    BY <2>4 DEF InFileOrder
<1>11. ASSUME Row(i).type = "buy" PROVE Replays(rows)
  BY <1>1, <1>3, <1>7, <1>8, <1>11, BuyReplays DEF QuietLog
<1>12. ASSUME Covering(1) PROVE Replays(rows)
  <2>1. Replays(AsLog(F)) /\ (quiet.passes >= 1 \/ Sorted(F))
    BY <1>12 DEF Covering, F
  <2>2. quiet.passes >= 1 => BuysIn(F, 1 + Len(F), rows)
    <3>1. quiet.passes >= 1 => BuysIn(F, 1 + Len(F), trades)
      BY <1>1 DEF QuietLog, F
    <3>2. Reads(trades) \subseteq Reads(rows)
      BY <1>6
    <3>3. QED
      BY <3>1, <3>2 DEF BuysIn
  <2> HIDE DEF rows
  <2>3. QED
    BY <1>1, <1>9, <1>10, <2>1, <2>2, FileReplays
<1>13. x.by > 0
  BY <1>2, <1>3
<1>14. QED
  BY <1>6, <1>9, <1>10, <1>11, <1>12, <1>13 DEF F

\* A row that is passed, whether or not it has left a trade.
LEMMA RowPassed ==
  ASSUME QuietInvariant, quiet.file # <<>>, NEW i \in Importers, Running(i), HasRow(i),
         pc'[i] = "rows", \A u \in Importers \ {i} : pc'[u] = pc[u], quiet' = quiet,
         import'[i].file = import[i].file, import'[i].at = import[i].at + 1, import'[i].known = Reads(trades'),
         LogOf(quiet.file, trades'), Replays(trades'), InFileOrder(quiet.file, trades'), \A t \in trades' : t.by > 0,
         Reads(trades) \subseteq Reads(trades'),
         Row(i).type = "buy" \/ (Covering(1) /\ Row(i).type # "unknown") => Row(i) \in Reads(trades')
  PROVE  QuietSound'
<1> DEFINE F == quiet.file
           at == import[i].at
<1>1. /\ F \in Seq(FileRow) /\ QuietLog /\ QuietImport(i) /\ ImportInvariant
      /\ \A u \in Importers \ {i} : ~Running(u)
  BY DEF QuietInvariant, QuietSound
<1>2. /\ at \in DOMAIN F /\ at \in Nat /\ Row(i) = Read(F, at) /\ import[i].file = F
  BY <1>1, RowAt DEF QuietImport, Row
<1>3. BuysIn(F, at, trades) /\ (Covering(1) => RowsIn(F, at, trades))
  BY <1>1 DEF QuietImport
<1>4. /\ quiet.passes >= 1 => BuysIn(F, 1 + Len(F), trades)
      /\ Covering(2) => RowsIn(F, 1 + Len(F), trades)
  BY <1>1 DEF QuietLog
<1>5. \A n \in DOMAIN F : n \in Nat /\ (n < at + 1 => n < at \/ n = at)
  BY <1>1, <1>2
<1> HIDE DEF F, at
<1>6. BuysIn(F, at + 1, trades')
  BY <1>2, <1>3, <1>5 DEF BuysIn
<1>7. ASSUME Covering(1) PROVE RowsIn(F, at + 1, trades')
  <2>1. RowsIn(F, at, trades)
    BY <1>3, <1>7
  <2>2. Row(i).type # "unknown" => Row(i) \in Reads(trades')
    BY <1>7
  <2>3. QED
    BY <1>2, <1>5, <2>1, <2>2 DEF RowsIn
<1>8. /\ quiet.passes >= 1 => BuysIn(F, 1 + Len(F), trades')
      /\ Covering(2) => RowsIn(F, 1 + Len(F), trades')
  BY <1>4 DEF BuysIn, RowsIn
<1>9. \A n : Covering(n)' <=> Covering(n)
  BY DEF Covering
<1>10. QuietLog'
  BY <1>8, <1>9 DEF QuietLog, F
<1>11. QuietImport(i)'
  BY <1>2, <1>6, <1>7, <1>9 DEF QuietImport, F, at
<1>12. \A u \in Importers \ {i} : ~Running(u)'
  BY <1>1 DEF Running
<1>13. QED
  BY <1>10, <1>11, <1>12 DEF QuietSound

LEMMA CountMoves ==
  ASSUME ImportInvariant, NEW i \in Importers, Running(i), NEW what \in Counters, Count(i, what)
  PROVE  /\ import'[i].file = import[i].file /\ import'[i].at = import[i].at + 1
         /\ import'[i].known = import[i].known
<1> DEFINE counted == [import[i] EXCEPT ![what] = @ + 1]
           new == [counted EXCEPT !.at = @ + 1]
<1>1. DOMAIN import[i] = Fields /\ i \in DOMAIN import
  BY DEF ImportInvariant, ImportSound
<1>2. import' = [import EXCEPT ![i] = new]
  <2>1. what # "at" /\ {what, "at"} \subseteq DOMAIN import[i]
    BY <1>1 DEF Fields, Counters
  <2>2. QED
    BY <1>1, <2>1 DEF Count
<1>3. /\ DOMAIN counted = Fields /\ counted.file = import[i].file
      /\ counted.known = import[i].known /\ counted.at = import[i].at
  <2>1. DOMAIN counted = Fields /\ \A field \in Fields \ {what} : counted[field] = import[i][field]
    BY <1>1
  <2> HIDE DEF counted
  <2>2. QED
    BY <2>1 DEF Fields, Counters
<1> HIDE DEF counted
<1>4. new.file = counted.file /\ new.known = counted.known /\ new.at = counted.at + 1
  BY <1>3 DEF Fields
<1> HIDE DEF new
<1>5. import'[i] = new
  BY <1>1, <1>2
<1>6. QED
  BY <1>3, <1>4, <1>5

\* A row that leaves no trade: it says nothing, or is in the log already, or is refused for now.
LEMMA QuietSkips ==
  ASSUME QuietInvariant, quiet.file # <<>>, NEW i \in Importers, Running(i), HasRow(i), NEW what \in Counters, Count(i, what),
         pc' = [pc EXCEPT ![i] = "rows"], UNCHANGED <<trades, quiet>>,
         Row(i).type = "buy" \/ (Covering(1) /\ Row(i).type # "unknown") => Row(i) \in Reads(trades)
  PROVE  QuietSound'
<1>1. ImportInvariant /\ QuietLog /\ QuietImport(i)
  BY DEF QuietInvariant, QuietSound
<1>2. /\ import'[i].file = import[i].file /\ import'[i].at = import[i].at + 1
      /\ import'[i].known = import[i].known
  BY <1>1, CountMoves
<1>3. pc'[i] = "rows" /\ \A u \in Importers \ {i} : pc'[u] = pc[u]
  BY <1>1 DEF ImportInvariant
<1>4. import'[i].known = Reads(trades)
  BY <1>1, <1>2 DEF QuietImport
<1>5. trades' = trades /\ quiet' = quiet
  OBVIOUS
<1>6. LogOf(quiet.file, trades) /\ Replays(trades) /\ InFileOrder(quiet.file, trades) /\ \A t \in trades : t.by > 0
  BY <1>1 DEF QuietLog
<1>7. QED
  BY <1>2, <1>3, <1>4, <1>5, <1>6, RowPassed

LEMMA QuietRows ==
  ASSUME QuietInvariant, quiet.file # <<>>, NEW i \in Importers,
         RowBad(i) \/ RowKnown(i) \/ RowWaits(i) \/ RowFails(i) \/ RowRefused(i)
  PROVE  QuietSound'
<1>1. ImportInvariant /\ (Running(i) => QuietImport(i) /\ \A u \in Importers \ {i} : ~Running(u))
  BY DEF QuietInvariant, QuietSound
<1>2. pc = [pc EXCEPT ![i] = pc[i]] /\ DOMAIN pc = Importers
  BY <1>1 DEF ImportInvariant
<1>3. CASE RowBad(i)
  <2>1. /\ Running(i) /\ HasRow(i) /\ Row(i).type = "unknown" /\ Count(i, "errors") /\ UNCHANGED <<trades, quiet>>
        /\ pc' = [pc EXCEPT ![i] = "rows"]
    BY <1>2, <1>3 DEF RowBad, Running, db
  <2>2. QED
    BY <2>1, QuietSkips DEF Counters
<1>4. CASE RowKnown(i)
  <2>1. /\ Running(i) /\ HasRow(i) /\ Row(i) \in import[i].known /\ Count(i, "skipped") /\ UNCHANGED <<trades, quiet>>
        /\ pc' = [pc EXCEPT ![i] = "rows"]
    BY <1>2, <1>4 DEF RowKnown, Running, db
  <2>2. Row(i) \in Reads(trades)
    BY <1>1, <2>1 DEF QuietImport
  <2>3. QED
    BY <2>1, <2>2, QuietSkips DEF Counters
<1>5. CASE RowWaits(i)
  <2>1. PICK u \in Importers \ {i} : Row(i).symbol \in pending[u]
    BY <1>5 DEF RowWaits, InTheWay
  <2>2. Running(i) /\ Running(u)
    BY <1>1, <1>5, <2>1 DEF RowWaits, Running, ImportInvariant, ImportSound
  <2>3. QED
    BY <1>1, <2>1, <2>2
<1>6. CASE RowFails(i)
  BY <1>1, <1>6 DEF RowFails, Running, QuietImport
<1>7. CASE RowRefused(i)
  <2> DEFINE x == Trade(NextId, Row(i), import[i].number)
  <2>1. /\ Running(i) /\ ToCreate(i) /\ Count(i, "errors") /\ UNCHANGED <<trades, quiet>>
        /\ pc' = [pc EXCEPT ![i] = "rows"] /\ ~Replays(trades \cup {x})
    BY <1>7 DEF RowRefused, Resolved, Running, db
  <2>2. Row(i).type = "buy" \/ Covering(1) => Replays(trades \cup {x})
    BY <2>1, RowAdded
  <2> HIDE DEF x
  <2>3. HasRow(i)
    BY <2>1 DEF ToCreate
  <2>4. QED
    BY <2>1, <2>2, <2>3, QuietSkips DEF Counters
<1>8. QED
  BY <1>3, <1>4, <1>5, <1>6, <1>7

LEMMA QuietImports ==
  ASSUME QuietInvariant, quiet.file # <<>>, NEW i \in Importers, RowImported(i)
  PROVE  QuietSound'
<1> DEFINE x == Trade(NextId, Row(i), import[i].number)
<1>1. /\ Running(i) /\ ToCreate(i) /\ HasRow(i) /\ trades' = trades \cup {x} /\ Replays(trades')
      /\ pc' = [pc EXCEPT ![i] = "rows"] /\ quiet' = quiet
      /\ import' = [import EXCEPT ![i].imported = @ + 1, ![i].at = @ + 1, ![i].known = @ \cup {Row(i)}]
  BY DEF RowImported, Resolved, ToCreate, Running
<1>2. ImportInvariant /\ QuietLog /\ QuietImport(i)
  BY <1>1 DEF QuietInvariant, QuietSound
<1>3. /\ LogOf(quiet.file, trades') /\ InFileOrder(quiet.file, trades')
      /\ x.by > 0 /\ Reads(trades') = Reads(trades) \cup {Row(i)}
  BY <1>1, RowAdded
<1> HIDE DEF x
<1>4. /\ import'[i].file = import[i].file /\ import'[i].at = import[i].at + 1
      /\ import'[i].known = import[i].known \cup {Row(i)}
  <2>1. DOMAIN import[i] = Fields /\ i \in DOMAIN import
    BY <1>2 DEF ImportInvariant, ImportSound
  <2>2. QED
    BY <1>1, <2>1 DEF Fields
<1>5. pc'[i] = "rows" /\ \A u \in Importers \ {i} : pc'[u] = pc[u]
  BY <1>1, <1>2 DEF ImportInvariant
<1>6. import'[i].known = Reads(trades') /\ Row(i) \in Reads(trades') /\ Reads(trades) \subseteq Reads(trades')
  BY <1>2, <1>3, <1>4 DEF QuietImport
<1>7. \A t \in trades' : t.by > 0
  BY <1>1, <1>2, <1>3 DEF QuietLog
<1>8. QED
  BY <1>1, <1>3, <1>4, <1>5, <1>6, <1>7, RowPassed

\* The first import of a file into an empty log, or the next of the same.
LEMMA QuietStarts ==
  ASSUME QuietInvariant, NEW i \in Importers, Start(i)
  PROVE  quiet' \in [file : Seq(FileRow), passes : Nat] /\ QuietSound'
<1>1. PICK file \in Files :
        /\ pc' = [pc EXCEPT ![i] = "rows"]
        /\ import' = [import EXCEPT ![i] = [NoImport EXCEPT !.file = file, !.number = imports + 1, !.known = ExternalIds]]
        /\ quiet' = IF \E u \in Importers \ {i} : pc[u] # "idle" THEN NotQuiet
                    ELSE IF quiet.file = file THEN quiet
                    ELSE IF trades = {} THEN [file |-> file, passes |-> 0]
                    ELSE NotQuiet
  BY DEF Start
<1>2. /\ ImportInvariant /\ quiet \in [file : Seq(FileRow), passes : Nat] /\ file \in Seq(FileRow)
      /\ trades' = trades /\ DOMAIN pc = Importers /\ DOMAIN import = Importers /\ pc[i] = "idle"
  BY FilesAssumption DEF QuietInvariant, Start, db, ImportInvariant
<1>3. /\ NotQuiet \in [file : Seq(FileRow), passes : Nat] /\ NotQuiet.file = <<>>
      /\ [file |-> file, passes |-> 0] \in [file : Seq(FileRow), passes : Nat]
  BY <1>2 DEF NotQuiet
<1>4. /\ import'[i].file = file /\ import'[i].at = 1 /\ import'[i].known = ExternalIds /\ pc'[i] = "rows"
      /\ \A u \in Importers \ {i} : pc'[u] = pc[u]
  BY <1>1, <1>2 DEF NoImport
<1>5. CASE quiet' = NotQuiet
  BY <1>3, <1>5 DEF QuietSound
<1>6. ASSUME \A u \in Importers \ {i} : ~Running(u), quiet'.file = file, QuietLog', \A t \in trades : t.by > 0
      PROVE  QuietSound'
  <2>1. import'[i].known = Reads(trades')
    BY <1>2, <1>4, <1>6 DEF ExternalIds, Reads
  <2>2. \A n \in DOMAIN file : ~(n < 1)
    BY <1>2
  <2>3. QuietImport(i)'
    BY <1>4, <1>6, <2>1, <2>2 DEF QuietImport, BuysIn, RowsIn
  <2>4. \A u \in Importers \ {i} : ~Running(u)'
    BY <1>4, <1>6 DEF Running
  <2>5. QED
    BY <1>6, <2>3, <2>4 DEF QuietSound
<1>7. CASE quiet' # NotQuiet
  <2>1. \A u \in Importers \ {i} : ~Running(u)
    BY <1>1, <1>7 DEF Running
  <2>2. CASE quiet.file = file
    <3>1. quiet' = quiet
      BY <1>1, <1>7, <2>2
    <3>2. CASE file = <<>>
      BY <1>2, <2>2, <3>1, <3>2 DEF QuietSound
    <3>3. CASE file # <<>>
      <4>1. QuietLog
        BY <2>2, <3>3 DEF QuietInvariant, QuietSound
      <4>2. QuietLog'
        BY <1>2, <3>1, <4>1 DEF QuietLog, Covering
      <4>3. \A t \in trades : t.by > 0
        BY <4>1 DEF QuietLog
      <4>4. quiet'.file = file
        BY <2>2, <3>1
      <4>5. QED
        BY <1>2, <1>6, <2>1, <3>1, <4>2, <4>3, <4>4
    <3>4. QED
      BY <3>2, <3>3
  <2>3. CASE quiet.file # file
    <3>1. trades = {} /\ quiet' = [file |-> file, passes |-> 0]
      BY <1>1, <1>7, <2>3
    <3>2. Traded({}) /\ Apart({}) /\ Reads({}) = {}
      BY FS_EmptySet DEF Traded, Apart, Reads
    <3>3. LogOf(file, {}) /\ InFileOrder(file, {})
      BY <3>2 DEF LogOf, InFileOrder
    <3>4. Replays({})
      <4>1. \A symbol : Of({}, symbol) = {}
        BY DEF Of
      <4>2. Position({}) = NoPosition
        BY <3>2, PositionIs
      <4>3. QED
        BY <4>1, <4>2, ReplaysIs DEF NoPosition
    <3>5. quiet'.file = file /\ quiet'.passes = 0 /\ trades' = {}
      BY <1>2, <3>1
    <3>6. QuietLog'
      <4>1. ~Covering(2)'
        BY <3>5 DEF Covering
      <4>2. QED
        BY <3>3, <3>4, <3>5, <4>1 DEF QuietLog
    <3>7. QED
      BY <1>3, <1>6, <2>1, <3>1, <3>5, <3>6
  <2>4. QED
    BY <2>2, <2>3
<1>8. QED
  BY <1>1, <1>2, <1>3, <1>5, <1>7

\* A pass that has read all rows.
LEMMA QuietEnds ==
  ASSUME QuietInvariant, NEW i \in Importers, Finish(i)
  PROVE  quiet' \in [file : Seq(FileRow), passes : Nat] /\ QuietSound'
<1>1. /\ pc[i] = "rows" /\ ~HasRow(i) /\ pc' = [pc EXCEPT ![i] = "idle"] /\ trades' = trades
      /\ quiet' = IF quiet.file = import[i].file THEN [quiet EXCEPT !.passes = @ + 1] ELSE NotQuiet
  BY DEF Finish, db
<1>2. ImportInvariant /\ quiet \in [file : Seq(FileRow), passes : Nat] /\ Running(i)
  BY <1>1 DEF QuietInvariant, Running
<1>3. NotQuiet \in [file : Seq(FileRow), passes : Nat] /\ NotQuiet.file = <<>>
  BY DEF NotQuiet
<1> DEFINE more == [quiet EXCEPT !.passes = @ + 1]
<1>4. more \in [file : Seq(FileRow), passes : Nat] /\ more.file = quiet.file /\ more.passes = quiet.passes + 1
  BY <1>2
<1> HIDE DEF more
<1>5. CASE quiet' = NotQuiet
  BY <1>3, <1>5 DEF QuietSound
<1>6. CASE quiet' = more /\ quiet.file = <<>>
  BY <1>4, <1>6 DEF QuietSound
<1>7. CASE quiet' = more /\ quiet.file # <<>>
  <2> DEFINE F == quiet.file
  <2>1. QuietLog /\ QuietImport(i) /\ \A u \in Importers \ {i} : ~Running(u)
    BY <1>2, <1>7 DEF QuietInvariant, QuietSound
  <2>2. quiet'.file = F /\ quiet'.passes = quiet.passes + 1 /\ quiet.passes \in Nat
    BY <1>2, <1>4, <1>7
  <2>3. F \in Seq(FileRow) /\ import[i].file = F /\ \A n \in DOMAIN F : n < import[i].at
    <3>1. F \in Seq(FileRow) /\ import[i].file = F
      BY <1>2, <2>1 DEF QuietImport
    <3>2. import[i].at \in Nat
      <4>1. /\ import[i].imported \in Nat /\ import[i].skipped \in Nat /\ import[i].errors \in Nat
            /\ import[i].at = 1 + import[i].imported + import[i].skipped + import[i].errors
        BY <1>2 DEF ImportInvariant, ImportSound
      <4>2. ASSUME NEW a \in Nat, NEW b \in Nat, NEW c \in Nat, NEW at, at = 1 + a + b + c
            PROVE  at \in Nat
        BY <4>2
      <4>3. QED
        BY <4>1, <4>2
    <3>3. ~(import[i].at <= Len(F)) /\ Len(F) \in Nat /\ DOMAIN F = 1 .. Len(F)
      BY <1>1, <3>1 DEF HasRow
    <3>4. QED
      BY <3>1, <3>2, <3>3
  <2>4. BuysIn(F, 1 + Len(F), trades)
    BY <2>1, <2>3 DEF BuysIn, QuietImport
  <2>5. Covering(2)' => RowsIn(F, 1 + Len(F), trades)
    <3>1. Covering(2)' => Covering(1)
      BY <2>2 DEF Covering
    <3>2. QED
      BY <2>1, <2>3, <3>1 DEF RowsIn, QuietImport
  <2>6. QuietLog'
    BY <1>1, <2>1, <2>2, <2>4, <2>5 DEF QuietLog
  <2>7. \A u \in Importers : ~Running(u)'
    BY <1>1, <1>2, <2>1 DEF Running, ImportInvariant
  <2>8. QED
    BY <1>4, <1>7, <2>6, <2>7 DEF QuietSound
<1>8. QED
  BY <1>1, <1>2, <1>3, <1>4, <1>5, <1>6, <1>7 DEF more

LEMMA QuietStep == QuietInvariant /\ [Next]_vars => QuietInvariant'
<1> SUFFICES ASSUME QuietInvariant, [Next]_vars PROVE QuietInvariant'
  OBVIOUS
<1>1. ImportInvariant'
  BY StepInvariant DEF QuietInvariant
<1>2. quiet \in [file : Seq(FileRow), passes : Nat]
  BY DEF QuietInvariant
<1>3. ASSUME NEW i \in Importers, Start(i) \/ Finish(i) PROVE QuietInvariant'
  BY <1>1, <1>3, QuietStarts, QuietEnds DEF QuietInvariant
<1>4. ASSUME NEW i \in Importers, RowBad(i) \/ RowKnown(i) \/ RowWaits(i) \/ RowFails(i) \/ RowRefused(i) \/ RowImported(i)
      PROVE  QuietInvariant'
  <2>1. quiet' = quiet
    BY <1>4 DEF RowBad, RowKnown, RowWaits, RowFails, RowRefused, RowImported
  <2>2. CASE quiet.file = <<>>
    BY <1>1, <1>2, <2>1, <2>2 DEF QuietInvariant, QuietSound
  <2>3. CASE quiet.file # <<>>
    BY <1>1, <1>2, <1>4, <2>1, <2>3, QuietRows, QuietImports DEF QuietInvariant
  <2>4. QED
    BY <2>2, <2>3
<1>5. ASSUME NEW t \in trades, Delete(t) PROVE QuietInvariant'
  <2>1. quiet' = NotQuiet
    BY <1>5 DEF Delete
  <2>2. NotQuiet \in [file : Seq(FileRow), passes : Nat] /\ NotQuiet.file = <<>>
    BY DEF NotQuiet
  <2>3. QED
    BY <1>1, <2>1, <2>2 DEF QuietInvariant, QuietSound
<1>6. CASE UNCHANGED vars
  <2>1. UNCHANGED <<trades, pc, import, quiet>>
    BY <1>6 DEF vars, db
  <2>2. \A n : Covering(n)' <=> Covering(n)
    BY <2>1 DEF Covering
  <2>3. QuietSound'
    BY <2>1, <2>2 DEF QuietInvariant, QuietSound, QuietLog, QuietImport, Running
  <2>4. QED
    BY <1>1, <1>2, <2>1, <2>3 DEF QuietInvariant
<1>7. QED
  BY <1>3, <1>4, <1>5, <1>6 DEF Next, ImportStep

LEMMA QuietSuffices == QuietInvariant => WholeAfterTwo
<1> SUFFICES ASSUME QuietInvariant, quiet.file # <<>>, Replays(AsLog(quiet.file)),
                    quiet.passes >= 2 \/ (quiet.passes >= 1 /\ Sorted(quiet.file)),
                    NEW row \in Rows(quiet.file)
             PROVE  \E t \in trades : ReadOf(t) = row
  BY DEF WholeAfterTwo, Sorted
<1>1. Covering(2) /\ QuietLog
  BY DEF Covering, QuietInvariant, QuietSound
<1>2. RowsIn(quiet.file, 1 + Len(quiet.file), trades)
  BY <1>1 DEF QuietLog
<1>3. PICK n \in DOMAIN quiet.file : Read(quiet.file, n) = row
  BY DEF Rows
<1>4. row.type # "unknown" /\ n < 1 + Len(quiet.file)
  <2>1. quiet.file \in Seq(FileRow)
    BY DEF QuietInvariant
  <2>2. QED
    BY <2>1 DEF Rows
<1>5. row \in Reads(trades)
  BY <1>2, <1>3, <1>4 DEF RowsIn
<1>6. QED
  BY <1>5 DEF Reads

\* "One bad row must not block the other few hundred good ones" (trade_import.py, import_csv): for
\* any file whose trades replay, in whatever order it lists them, two imports with no other write
\* between them bring in all of it, and one does if it lists no trade before one it follows.
THEOREM FilesGetIn == Spec => []WholeAfterTwo
<1>1. Init => QuietInvariant
  <2>1. NotQuiet \in [file : Seq(FileRow), passes : Nat] /\ NotQuiet.file = <<>>
    BY DEF NotQuiet
  <2>2. Init => quiet = NotQuiet
    BY DEF Init
  <2>3. QED
    BY <2>1, <2>2, InitInvariant DEF QuietInvariant, QuietSound
<1>2. QuietInvariant /\ [Next]_vars => QuietInvariant'
  BY QuietStep
<1>3. QuietInvariant => WholeAfterTwo
  BY QuietSuffices
<1>4. QED
  BY <1>1, <1>2, <1>3, PTL DEF Spec
===============================================================================
