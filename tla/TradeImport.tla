------------------------------ MODULE TradeImport ------------------------------
(***************************************************************************)
(* The CSV import of the trade log (services/trade_import.py) and the      *)
(* securities it creates on the way (services/securities.py).  The dates   *)
(* of a file are read in one order, the ids of earlier rows are loaded     *)
(* once, and then each row is a transaction of its own: skipped, refused   *)
(* with a note, or committed.  A row that is refused takes back its trade  *)
(* and not the security it has just inserted, which stays with the         *)
(* session, unseen by the others and in the way of their inserts, until    *)
(* the next row commits it or the import ends.                             *)
(*                                                                         *)
(* What happens inside one trades.create is the matter of Trades; here a   *)
(* row's replay and commit are one step.  Prices, fees, splits and the     *)
(* account are left out: a row is of one account that is known.            *)
(***************************************************************************)
EXTENDS TradeReplay, FiniteSets

CONSTANTS
    Symbols,
    Files,     \* sequences of rows as they are written
    Importers, \* sessions that import
    Months,    \* 12 in the code
    MaxImports \* bound: imports started

ASSUME MonthsAssumption == Months \in Nat \ {0}
ASSUME BoundsAssumption == MaxImports \in Nat

VARIABLES
    securities, \* db: the symbols that have a row
    trades,     \* db: the trade log
    pc,         \* how far each importer has come
    import,     \* its file, the row it is at, the ids it has loaded, what it will report
    pending,    \* the securities it has inserted and not committed
    imports,    \* the number of imports started
    overlaps,   \* history: the pairs of imports that ran at once
    quiet       \* history: the file imported again and again since nobody else wrote, and how often

db == <<securities, trades>>
vars == <<db, pc, import, pending, imports, overlaps, quiet>>
-------------------------------------------------------------------------------
(* Reading a file *)

\* A date is written as two numbers; an unknown type has no alias.
FileRow == [first : Nat, second : Nat, symbol : Symbols, type : {"buy", "sell", "unknown"}, quantity : Nat]

ASSUME FilesAssumption == Files \subseteq Seq(FileRow)

MonthOf(row, dayFirst) == IF dayFirst THEN row.second ELSE row.first
DayOf(row, dayFirst) == IF dayFirst THEN row.first ELSE row.second

\* _parse_date raises for a month there is not.
Parses(file, dayFirst) == \A i \in DOMAIN file : MonthOf(file[i], dayFirst) \in 1 .. Months

\* _parse_all_dates: month first for the whole file if it parses, else day first.
DayFirst(file) == ~Parses(file, FALSE)

\* A row once read; its external_id hashes all of it.
Read(file, i) ==
    [day |-> 32 * MonthOf(file[i], DayFirst(file)) + DayOf(file[i], DayFirst(file)),
     symbol |-> file[i].symbol, type |-> file[i].type, quantity |-> file[i].quantity]

\* `by` is history: the number of the import, 0 for a trade typed in.
Trade(id, row, by) ==
    [id |-> <<id>>, day |-> row.day, symbol |-> row.symbol, type |-> row.type,
     quantity |-> row.quantity, by |-> by]

ReadOf(t) == [day |-> t.day, symbol |-> t.symbol, type |-> t.type, quantity |-> t.quantity]
ExternalIds == {ReadOf(t) : t \in {u \in trades : u.by > 0}}

NoImport == [file |-> <<>>, at |-> 1, number |-> 0, known |-> {}, imported |-> 0, skipped |-> 0, errors |-> 0]
NotQuiet == [file |-> <<>>, passes |-> 0]

Init ==
    /\ securities = {}
    /\ trades = {}
    /\ pc = [i \in Importers |-> "idle"]
    /\ import = [i \in Importers |-> NoImport]
    /\ pending = [i \in Importers |-> {}]
    /\ imports = 0
    /\ overlaps = {}
    /\ quiet = NotQuiet

\* import_csv up to its loop; a file that parses in neither order is refused before it.
Start(i) ==
    /\ pc[i] = "idle" /\ imports < MaxImports
    /\ imports' = imports + 1
    /\ overlaps' = overlaps \cup {{imports + 1, import[u].number} : u \in {v \in Importers : pc[v] # "idle"}}
    /\ \E file \in Files :
         /\ Parses(file, FALSE) \/ Parses(file, TRUE)
         /\ pc' = [pc EXCEPT ![i] = "rows"]
         /\ import' = [import EXCEPT ![i] = [NoImport EXCEPT !.file = file, !.number = imports + 1,
                                                             !.known = ExternalIds]]
         /\ quiet' = IF \E u \in Importers \ {i} : pc[u] # "idle" THEN NotQuiet
                     ELSE IF quiet.file = file THEN quiet
                     ELSE IF trades = {} THEN [file |-> file, passes |-> 0]
                     ELSE NotQuiet
    /\ UNCHANGED <<db, pending>>
-------------------------------------------------------------------------------
(* One row *)

Row(i) == Read(import[i].file, import[i].at)
HasRow(i) == import[i].at <= Len(import[i].file)

Count(i, what) ==
    import' = [import EXCEPT ![i][what] = @ + 1, ![i].at = @ + 1]

\* An unknown type raises before anything is read or written.
RowBad(i) ==
    /\ pc[i] = "rows" /\ HasRow(i) /\ Row(i).type = "unknown"
    /\ Count(i, "errors")
    /\ UNCHANGED <<db, pc, pending, imports, overlaps, quiet>>

RowKnown(i) ==
    /\ pc[i] = "rows" /\ HasRow(i) /\ Row(i).type # "unknown"
    /\ Row(i) \in import[i].known
    /\ Count(i, "skipped")
    /\ UNCHANGED <<db, pc, pending, imports, overlaps, quiet>>

\* The importers whose uncommitted security of the symbol an insert has to wait for.
InTheWay(i) == {u \in Importers \ {i} : Row(i).symbol \in pending[u]}

ToCreate(i) ==
    /\ HasRow(i) /\ Row(i).type # "unknown" /\ Row(i) \notin import[i].known

\* get_or_create has not found the symbol and its INSERT waits for another's.
RowWaits(i) ==
    /\ pc[i] = "rows" /\ ToCreate(i)
    /\ Row(i).symbol \notin securities /\ InTheWay(i) # {}
    /\ pc' = [pc EXCEPT ![i] = "inserting"]
    /\ UNCHANGED <<db, import, pending, imports, overlaps, quiet>>

\* A clash on uq_security_symbol, or a deadlock the database breaks, is no ValueError: the request
\* fails, and what the session had not committed is gone.
RowFails(i) ==
    /\ pc[i] = "inserting"
    /\ \/ Row(i).symbol \in securities
       \/ \E u \in InTheWay(i) : pc[u] = "inserting" /\ i \in InTheWay(u)
    /\ pc' = [pc EXCEPT ![i] = "idle"]
    /\ import' = [import EXCEPT ![i] = NoImport]
    /\ pending' = [pending EXCEPT ![i] = {}]
    /\ UNCHANGED <<db, imports, overlaps, quiet>>

\* created_at: rows are ordered by their commits.
NextId == 1 + Max({0} \cup {t.id[1] : t \in trades})

\* The log replays with the row, the whole household's.
Replays(rows) == \A symbol \in Symbols : ~Position({t \in rows : t.symbol = symbol}).oversold

\* get_or_create: the symbol has a row, or gets one nobody is in the way of.
Resolved(i) ==
    IF pc[i] = "inserting" THEN Row(i).symbol \notin securities /\ InTheWay(i) = {}
    ELSE pc[i] = "rows" /\ (Row(i).symbol \in securities \/ InTheWay(i) = {})

Flushed(i) == pending[i] \cup ({Row(i).symbol} \ securities)

\* Mutant of RowRefused: the error ends the import.
RowRefusedEnds(i) ==
    /\ ToCreate(i) /\ Resolved(i)
    /\ ~Replays(trades \cup {Trade(NextId, Row(i), import[i].number)})
    /\ import' = [import EXCEPT ![i].errors = @ + 1, ![i].at = Len(import[i].file) + 1]
    /\ pending' = [pending EXCEPT ![i] = Flushed(i)]
    /\ pc' = [pc EXCEPT ![i] = "rows"]
    /\ UNCHANGED <<db, imports, overlaps, quiet>>

\* InsufficientUnitsError: the savepoint takes back the trade, and the flushed security stays.
RowRefused(i) ==
    /\ ToCreate(i) /\ Resolved(i)
    /\ ~Replays(trades \cup {Trade(NextId, Row(i), import[i].number)})
    /\ Count(i, "errors")
    /\ pending' = [pending EXCEPT ![i] = Flushed(i)]
    /\ pc' = [pc EXCEPT ![i] = "rows"]
    /\ UNCHANGED <<db, imports, overlaps, quiet>>

\* Mutant of RowImported: the id of the row is not added to those loaded.
RowImportedForgotten(i) ==
    /\ ToCreate(i) /\ Resolved(i)
    /\ trades' = trades \cup {Trade(NextId, Row(i), import[i].number)}
    /\ Replays(trades')
    /\ securities' = securities \cup Flushed(i)
    /\ pending' = [pending EXCEPT ![i] = {}]
    /\ Count(i, "imported")
    /\ pc' = [pc EXCEPT ![i] = "rows"]
    /\ UNCHANGED <<imports, overlaps, quiet>>

RowImported(i) ==
    /\ ToCreate(i) /\ Resolved(i)
    /\ trades' = trades \cup {Trade(NextId, Row(i), import[i].number)}
    /\ Replays(trades')
    /\ securities' = securities \cup Flushed(i)
    /\ pending' = [pending EXCEPT ![i] = {}]
    /\ import' = [import EXCEPT ![i].imported = @ + 1, ![i].at = @ + 1, ![i].known = @ \cup {Row(i)}]
    /\ pc' = [pc EXCEPT ![i] = "rows"]
    /\ UNCHANGED <<imports, overlaps, quiet>>

\* Mutant of Finish: the session is left open.
FinishUnclosed(i) ==
    /\ pc[i] = "rows" /\ ~HasRow(i)
    /\ pc' = [pc EXCEPT ![i] = "idle"]
    /\ import' = [import EXCEPT ![i] = NoImport]
    /\ quiet' = IF quiet.file = import[i].file THEN [quiet EXCEPT !.passes = @ + 1] ELSE NotQuiet
    /\ UNCHANGED <<db, pending, imports, overlaps>>

\* The result is returned and the session closed; what it had only flushed is rolled back.
Finish(i) ==
    /\ pc[i] = "rows" /\ ~HasRow(i)
    /\ pc' = [pc EXCEPT ![i] = "idle"]
    /\ import' = [import EXCEPT ![i] = NoImport]
    /\ pending' = [pending EXCEPT ![i] = {}]
    /\ quiet' = IF quiet.file = import[i].file THEN [quiet EXCEPT !.passes = @ + 1] ELSE NotQuiet
    /\ UNCHANGED <<db, imports, overlaps>>

ImportStep(i) ==
    \/ RowBad(i) \/ RowKnown(i) \/ RowWaits(i) \/ RowFails(i) \/ RowRefused(i) \/ RowImported(i) \/ Finish(i)

\* trades.delete of another session.
Delete(t) ==
    /\ Replays(trades \ {t})
    /\ trades' = trades \ {t}
    /\ quiet' = NotQuiet
    /\ UNCHANGED <<securities, pc, import, pending, imports, overlaps>>

Next == (\E i \in Importers : Start(i) \/ ImportStep(i)) \/ (\E t \in trades : Delete(t))

\* The request of an import runs to its end.
Spec == Init /\ [][Next]_vars /\ \A i \in Importers : WF_vars(ImportStep(i))
-------------------------------------------------------------------------------
(* Properties *)

TypeOK ==
    /\ securities \subseteq Symbols
    /\ \A t \in trades : t.id[1] \in Nat \ {0} /\ t.symbol \in securities
    /\ \A t, u \in trades : t.id = u.id => t = u
    /\ pc \in [Importers -> {"idle", "rows", "inserting"}]
    /\ \A i \in Importers :
         /\ import[i].at = 1 + import[i].imported + import[i].skipped + import[i].errors
         /\ pc[i] = "idle" <=> import[i] = NoImport
         /\ pending[i] \subseteq IF pc[i] = "idle" THEN {} ELSE Symbols

Rows(file) == {row \in {Read(file, n) : n \in DOMAIN file} : row.type # "unknown"}

\* The trades of a file, those of the same row once.
AsLog(file) ==
    {Trade(n, Read(file, n), 1) :
        n \in {m \in DOMAIN file : Read(file, m) \in Rows(file) /\ \A l \in 1 .. m - 1 : Read(file, l) # Read(file, m)}}

\* "One bad row must not block the other few hundred good ones": a file whose trades replay, in
\* whatever order it lists them, is in the log as a whole once it was imported twice with no other
\* write in between, and once if it lists no trade before one it follows.
WholeAfterTwo ==
    /\ quiet.file # <<>> /\ Replays(AsLog(quiet.file))
    /\ \A i \in Importers : pc[i] = "idle"
    /\ \/ quiet.passes >= 2
       \/ quiet.passes >= 1 /\ \A m, n \in DOMAIN quiet.file :
                                  m < n => Read(quiet.file, m).day <= Read(quiet.file, n).day
    => \A row \in Rows(quiet.file) : \E t \in trades : ReadOf(t) = row

\* A re-import is idempotent: two trades stand for one row of a file only when two imports that
\* ran at once brought one each; and each row of the file was counted once.
TwinsOverlapped ==
    /\ TypeOK
    /\ \A t, u \in trades :
          t # u /\ t.by > 0 /\ u.by > 0 /\ ReadOf(t) = ReadOf(u) => {t.by, u.by} \in overlaps

\* "Nothing is left committed" of a trade that is refused: a row commits its own security only.
RefusedLeavesNothing ==
    [][\A i \in Importers : RowImported(i) => securities' \ securities \subseteq {Row(i).symbol}]_vars

\* Every import that was started ends, whoever it waits for.
ImportsEnd == \A i \in Importers : pc[i] # "idle" ~> pc[i] = "idle"
===============================================================================
