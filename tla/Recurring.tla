------------------------------- MODULE Recurring -------------------------------
(***************************************************************************)
(* The recurring series of one household (services/recurring.py): what the *)
(* scheduler and POST /recurring/refresh detect, and what the user says of *)
(* a series with PATCH /recurring/{id}.  Each session runs either          *)
(*                                                                         *)
(*   Group -> Load -> Write     detect(): group the transactions, read the *)
(*                              series, write all of them in one commit    *)
(*   Get -> Save                update(): read one series, write it        *)
(*                                                                         *)
(* under READ COMMITTED.  An UPDATE names the row by id and writes only    *)
(* the columns whose value the session changed; one that matches no row    *)
(* raises StaleDataError, and a second row for a merchant key raises       *)
(* IntegrityError.  Either rolls the whole session back.                   *)
(*                                                                         *)
(* Abstractions.  _build_candidate's arithmetic is left out: what it says  *)
(* of a merchant's charges is `detectable`, chosen anew with each charge.  *)
(* Of the derived columns only last_charged_on is kept, a series lapses    *)
(* Grace days after it.  cancel_url and notes are one column, `note`.  A   *)
(* label protects nothing (_is_user_touched) and is left out.              *)
(***************************************************************************)
EXTENDS Integers

CONSTANTS
    Keys,      \* merchant keys
    Sessions,  \* the database sessions: the scheduler's and the requests'
    Scheduler, \* the one of them that detects on every tick of the scheduler
    Grace,     \* days from the last charge to next_expected_on plus _past_grace's grace
    MaxDay,    \* bound: the last day
    MaxEdits   \* bound: how many updates the user makes

ASSUME SchedulerAssumption == Scheduler \in Sessions
ASSUME BoundsAssumption == Grace \in Nat /\ MaxDay \in Nat /\ MaxEdits \in Nat

VARIABLES
    today,
    lastCharge,  \* the day of a merchant's latest charge, or NoDay
    detectable,  \* whether _build_candidate accepts the merchant's charges
    edits,       \* how many updates the user has asked for
    series,      \* db: the row of each merchant key, or NoSeries
    created,     \* db: how many rows each merchant key has had
    task         \* what each session is doing, and what it has read

world == <<today, lastCharge, detectable>>
vars == <<world, edits, series, created, task>>
-------------------------------------------------------------------------------
Day == 0 .. MaxDay
NoDay == -1
Unset == "unset"                       \* a field the PATCH leaves out
Claims == {"cancelled", "ignored"}     \* what only the user says of a series

SeriesRow == [id : Nat, status : {"active", "ended"} \cup Claims, note : {"none", "some"},
              cancelledOn : Day \cup {NoDay}, lastChargedOn : Day \cup {NoDay}]

NoSeries == [id |-> 0, status |-> "ended", note |-> "none",
             cancelledOn |-> NoDay, lastChargedOn |-> NoDay]

Exists(row) == row.id # 0

IdleTask == [pc |-> "idle", candidates |-> [k \in Keys |-> NoDay],
             rows |-> [k \in Keys |-> NoSeries], on |-> 0]

Init ==
    /\ today = 0
    /\ lastCharge = [k \in Keys |-> NoDay]
    /\ detectable = [k \in Keys |-> FALSE]
    /\ edits = 0
    /\ series = [k \in Keys |-> NoSeries]
    /\ created = [k \in Keys |-> 0]
    /\ task = [s \in Sessions |-> IdleTask]
-------------------------------------------------------------------------------
(* The transactions of the household *)

NextDay ==
    /\ today < MaxDay
    /\ today' = today + 1
    /\ UNCHANGED <<lastCharge, detectable, edits, series, created, task>>

Charge(k) ==
    /\ lastCharge[k] # today
    /\ lastCharge' = [lastCharge EXCEPT ![k] = today]
    /\ \E accepted \in BOOLEAN : detectable' = [detectable EXCEPT ![k] = accepted]
    /\ UNCHANGED <<today, edits, series, created, task>>

\* The charges leave the look-back window, or the user ignores or deletes one.
Fade(k) ==
    /\ detectable[k]
    /\ detectable' = [detectable EXCEPT ![k] = FALSE]
    /\ UNCHANGED <<today, lastCharge, edits, series, created, task>>
-------------------------------------------------------------------------------
(* What a flush does to a row *)

\* A column is written only when the session changed it.
Column(stored, old, new) == IF new = old THEN stored ELSE new

Merge(stored, old, new) ==
    [id |-> stored.id,
     status |-> Column(stored.status, old.status, new.status),
     note |-> Column(stored.note, old.note, new.note),
     cancelledOn |-> Column(stored.cancelledOn, old.cancelledOn, new.cancelledOn),
     lastChargedOn |-> Column(stored.lastChargedOn, old.lastChargedOn, new.lastChargedOn)]
-------------------------------------------------------------------------------
(* detect *)

Group(s) ==
    /\ task[s].pc = "idle"
    /\ task' = [task EXCEPT ![s] =
                  [@ EXCEPT !.pc = "grouped",
                            !.candidates = [k \in Keys |-> IF detectable[k] THEN lastCharge[k]
                                                                            ELSE NoDay]]]
    /\ UNCHANGED <<world, edits, series, created>>

Load(s) ==
    /\ task[s].pc = "grouped"
    /\ task' = [task EXCEPT ![s] = [@ EXCEPT !.pc = "loaded", !.rows = series, !.on = today]]
    /\ UNCHANGED <<world, edits, series, created>>

PastGrace(charged, day) == day > charged + Grace

IsUserTouched(row) == row.status \in Claims \/ row.note = "some"

\* Mutant of ApplyCandidate: detection leaves a claimed series alone altogether.
ApplyUnlessClaimed(row, charged, day) ==
    IF row.status \in Claims THEN row
    ELSE [row EXCEPT !.lastChargedOn = charged,
                     !.status = IF PastGrace(charged, day) THEN "ended" ELSE "active"]

\* Mutant of ApplyCandidate: the status is derived like every other column.
ApplyStatusToo(row, charged, day) ==
    [row EXCEPT !.lastChargedOn = charged,
                !.status = IF PastGrace(charged, day) THEN "ended" ELSE "active"]

ApplyCandidate(row, charged, day) ==
    [row EXCEPT !.lastChargedOn = charged,
                !.status = IF row.status \in Claims THEN row.status
                           ELSE IF PastGrace(charged, day) THEN "ended" ELSE "active"]

\* The row the session wants for k, from the row it read.
Wanted(s, k) ==
    LET old == task[s].rows[k]
        charged == task[s].candidates[k]
    IN  CASE charged # NoDay /\ Exists(old)  -> ApplyCandidate(old, charged, task[s].on)
          [] charged # NoDay /\ ~Exists(old) ->
               ApplyCandidate([NoSeries EXCEPT !.id = created[k] + 1], charged, task[s].on)
          [] charged = NoDay /\ Exists(old) /\ IsUserTouched(old) ->
               [old EXCEPT !.status = IF @ = "active" THEN "ended" ELSE @]
          [] OTHER -> NoSeries

\* An INSERT meets another session's row, or an UPDATE the row is no longer there for.
Refused(s, k) ==
    LET old == task[s].rows[k]
    IN  /\ Wanted(s, k) # old /\ Exists(Wanted(s, k))
        /\ series[k].id # old.id

Written(s, k) ==
    LET old == task[s].rows[k]
        new == Wanted(s, k)
    IN  IF new = old \/ series[k].id # old.id THEN series[k]
        ELSE IF Exists(old) /\ Exists(new) THEN Merge(series[k], old, new)
        ELSE new

Write(s) ==
    /\ task[s].pc = "loaded"
    /\ \A k \in Keys : ~Refused(s, k)
    /\ series' = [k \in Keys |-> Written(s, k)]
    /\ created' = [k \in Keys |-> IF ~Exists(series[k]) /\ Exists(Written(s, k))
                                  THEN created[k] + 1 ELSE created[k]]
    /\ task' = [task EXCEPT ![s] = IdleTask]
    /\ UNCHANGED <<world, edits>>

Rollback(s) ==
    /\ task[s].pc = "loaded"
    /\ \E k \in Keys : Refused(s, k)
    /\ task' = [task EXCEPT ![s] = IdleTask]
    /\ UNCHANGED <<world, edits, series, created>>
-------------------------------------------------------------------------------
(* update *)

Get(s, k) ==
    /\ task[s].pc = "idle"
    /\ Exists(series[k])
    /\ edits < MaxEdits /\ edits' = edits + 1
    /\ task' = [task EXCEPT ![s] =
                  [@ EXCEPT !.pc = "editing", !.rows[k] = series[k]]]
    /\ UNCHANGED <<world, series, created>>

\* Mutant of Edited: saving a cancelled series again moves the day it was cancelled.
EditedAnew(row, status, note) ==
    [row EXCEPT !.note = IF note = Unset THEN @ ELSE note,
                !.status = IF status = Unset THEN @ ELSE status,
                !.cancelledOn = IF status = Unset THEN @
                                ELSE IF status = "cancelled" THEN today ELSE NoDay]

\* Mutant of Edited: taking a cancellation back leaves its day.
EditedKeepingDay(row, status, note) ==
    [row EXCEPT !.note = IF note = Unset THEN @ ELSE note,
                !.status = IF status = Unset THEN @ ELSE status,
                !.cancelledOn = IF status = "cancelled" /\ @ = NoDay THEN today ELSE @]

\* Mutant of Edited: a status the PATCH leaves out is written all the same.
EditedBlindly(row, status, note) ==
    [row EXCEPT !.note = IF note = Unset THEN @ ELSE note,
                !.status = status,
                !.cancelledOn = IF status # "cancelled" THEN NoDay
                                ELSE IF @ = NoDay THEN today ELSE @]

\* cancelled_on is set once; any other status clears it.
Edited(row, status, note) ==
    [row EXCEPT !.note = IF note = Unset THEN @ ELSE note,
                !.status = IF status = Unset THEN @ ELSE status,
                !.cancelledOn = IF status = Unset THEN @
                                ELSE IF status # "cancelled" THEN NoDay
                                ELSE IF @ = NoDay THEN today ELSE @]

\* StaleDataError leaves everything as it is.
Save(s) ==
    /\ task[s].pc = "editing"
    /\ \E k \in Keys, status \in Claims \cup {"active", Unset}, note \in {"none", "some", Unset} :
         LET old == task[s].rows[k]
         IN  /\ Exists(old)
             /\ series' = [series EXCEPT ![k] = IF @.id = old.id
                                                THEN Merge(@, old, Edited(old, status, note))
                                                ELSE @]
    /\ task' = [task EXCEPT ![s] = IdleTask]
    /\ UNCHANGED <<world, edits, created>>
-------------------------------------------------------------------------------
TaskStep(s) ==
    \/ Group(s) \/ Load(s) \/ Write(s) \/ Rollback(s)
    \/ \E k \in Keys : Get(s, k)
    \/ Save(s)

Next ==
    \/ NextDay
    \/ \E k \in Keys : Charge(k) \/ Fade(k)
    \/ \E s \in Sessions : TaskStep(s)

Spec == Init /\ [][Next]_vars

\* The scheduler loop detects on every tick; a request, once begun, runs to its end.
FairSpec ==
    /\ Spec
    /\ WF_vars(Group(Scheduler))
    /\ \A s \in Sessions : WF_vars(task[s].pc # "idle" /\ TaskStep(s))
-------------------------------------------------------------------------------
(* Properties *)

TaskType == [pc : {"idle", "grouped", "loaded", "editing"},
             candidates : [Keys -> Day \cup {NoDay}], rows : [Keys -> SeriesRow], on : Day]

\* The type invariant: every variable keeps the shape its comment gives it.
TypeOK ==
    /\ today \in Day
    /\ lastCharge \in [Keys -> Day \cup {NoDay}]
    /\ detectable \in [Keys -> BOOLEAN]
    /\ edits \in Nat
    /\ series \in [Keys -> SeriesRow]
    /\ created \in [Keys -> Nat]
    /\ task \in [Sessions -> TaskType]

\* "Detection never overwrites these": writing a detection leaves every series the user
\* cancelled or ignored where it is, with the status and the day the user gave it.
DetectionKeepsClaims ==
    [][\A s \in Sessions : Write(s) =>
         \A k \in Keys : Exists(series[k]) /\ series[k].status \in Claims =>
            /\ series'[k].id = series[k].id
            /\ series'[k].status = series[k].status
            /\ series'[k].cancelledOn = series[k].cancelledOn]_vars

\* still_billing compares charges with the day the user cancelled: while a series stays
\* cancelled that day does not move past the charge it should catch.
CancelDayStands ==
    [][\A k \in Keys :
         /\ series[k].status = "cancelled" /\ series'[k].status = "cancelled"
         /\ series'[k].id = series[k].id
         => series'[k].cancelledOn = series[k].cancelledOn]_vars

\* A series has a day of cancellation exactly when it is cancelled.
CancelDayTellsStatus ==
    \A k \in Keys : (series[k].cancelledOn # NoDay) <=> (series[k].status = "cancelled")

\* What detection should say of k, apart from the user's claims.
InStep(k) ==
    IF detectable[k]
    THEN /\ Exists(series[k])
         /\ series[k].lastChargedOn = lastCharge[k]
         /\ series[k].status \in Claims
              \cup {IF PastGrace(lastCharge[k], today) THEN "ended" ELSE "active"}
    ELSE Exists(series[k]) => IsUserTouched(series[k]) /\ series[k].status # "active"

\* However detections and updates of several sessions overwrite and refuse one another, once
\* the transactions and the user are quiet the series settle to what the transactions say.
EventuallyInStep == <>[](\A k \in Keys : InStep(k))
===============================================================================
