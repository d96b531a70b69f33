---------------------------- MODULE RecurringProofs ----------------------------
(***************************************************************************)
(* What holds of Recurring for any merchants, days and number of updates.  *)
(* With one session at a time a session's copies are the rows themselves:  *)
(* that is the strengthening CopiesAreCurrent, and with it a flush writes  *)
(* exactly what the session decided.                                       *)
(***************************************************************************)
EXTENDS Recurring, TLAPS

OneAtATime == \A s, u \in Sessions : s = u

\* The copies that a session will decide from are the rows as they are.
CopiesAreCurrent ==
    \A s \in Sessions, k \in Keys :
       \/ task[s].pc \in {"idle", "grouped"}
       \/ task[s].pc = "loaded" /\ task[s].rows[k] = series[k]
       \/ task[s].pc = "editing" /\ (Exists(task[s].rows[k]) => task[s].rows[k] = series[k])

IdleHoldsNothing == \A s \in Sessions : task[s].pc = "idle" => task[s] = IdleTask

ClaimsInvariant == TypeOK /\ CopiesAreCurrent /\ IdleHoldsNothing /\ CancelDayTellsStatus
-------------------------------------------------------------------------------
LEMMA NoSeriesType == NoSeries \in SeriesRow
BY DEF NoSeries, SeriesRow, NoDay

LEMMA IdleTaskType == IdleTask \in TaskType
BY NoSeriesType, BoundsAssumption DEF IdleTask, TaskType, Day

\* A flush of a changed copy writes a row.
LEMMA MergeType ==
  ASSUME NEW stored \in SeriesRow, NEW old \in SeriesRow, NEW new \in SeriesRow
  PROVE  Merge(stored, old, new) \in SeriesRow
BY DEF Merge, Column, SeriesRow

\* A flush of a changed copy of the row as it is writes the changed copy.
LEMMA MergeCurrent ==
  ASSUME NEW old \in SeriesRow, NEW new \in SeriesRow, new.id = old.id
  PROVE  Merge(old, old, new) = new
<1>1. Merge(old, old, new) = [id |-> new.id, status |-> new.status, note |-> new.note,
                              cancelledOn |-> new.cancelledOn,
                              lastChargedOn |-> new.lastChargedOn]
  BY DEF Merge, Column
<1>2. QED
  BY <1>1 DEF SeriesRow

LEMMA AppliedType ==
  ASSUME NEW row \in SeriesRow, NEW charged \in Day, NEW day \in Day
  PROVE  /\ ApplyCandidate(row, charged, day) \in SeriesRow
         /\ ApplyCandidate(row, charged, day).id = row.id
         /\ ApplyCandidate(row, charged, day).cancelledOn = row.cancelledOn
         /\ row.status \in Claims => ApplyCandidate(row, charged, day).status = row.status
         /\ row.status \notin Claims => ApplyCandidate(row, charged, day).status \notin Claims
BY DEF ApplyCandidate, SeriesRow, Claims

\* What a detection wants of a row it read.
LEMMA WantedRow ==
  ASSUME TypeOK, NEW s \in Sessions, NEW k \in Keys
  PROVE  LET old == task[s].rows[k]
             new == Wanted(s, k)
         IN  /\ new \in SeriesRow
             /\ Exists(old) => new = NoSeries \/ new.id = old.id
             /\ Exists(old) /\ Exists(new) => new.cancelledOn = old.cancelledOn
             /\ Exists(old) /\ old.status \in Claims => Exists(new) /\ new.status = old.status
             /\ Exists(old) /\ Exists(new) /\ old.status \notin Claims => new.status \notin Claims
             /\ ~Exists(old) /\ Exists(new) => new.cancelledOn = NoDay /\ new.status \notin Claims
<1> DEFINE old == task[s].rows[k]
           charged == task[s].candidates[k]
           fresh == [NoSeries EXCEPT !.id = created[k] + 1]
<1>1. old \in SeriesRow /\ charged \in Day \cup {NoDay} /\ task[s].on \in Day
  BY DEF TypeOK, TaskType
<1>2. /\ fresh \in SeriesRow /\ fresh.cancelledOn = NoDay /\ fresh.status \notin Claims
      /\ Exists(fresh)
  BY DEF TypeOK, NoSeries, SeriesRow, NoDay, Claims, Exists
<1>3. NoSeries \in SeriesRow /\ ~Exists(NoSeries)
  BY NoSeriesType DEF NoSeries, Exists
<1> HIDE DEF old, charged, fresh
<1>4. CASE charged # NoDay /\ Exists(old)
  <2>1. Wanted(s, k) = ApplyCandidate(old, charged, task[s].on)
    BY <1>4 DEF Wanted, old, charged
  <2>2. charged \in Day
    BY <1>1, <1>4
  <2>3. QED
    BY <1>1, <1>4, <2>1, <2>2, AppliedType DEF old, Exists
<1>5. CASE charged # NoDay /\ ~Exists(old)
  <2>1. Wanted(s, k) = ApplyCandidate(fresh, charged, task[s].on)
    BY <1>5 DEF Wanted, old, charged, fresh
  <2>2. charged \in Day
    BY <1>1, <1>5
  <2>3. /\ Wanted(s, k) \in SeriesRow /\ Wanted(s, k).cancelledOn = NoDay
        /\ Wanted(s, k).status \notin Claims
    BY <1>1, <1>2, <2>1, <2>2, AppliedType
  <2>4. QED
    BY <1>5, <2>3 DEF old
<1>6. CASE charged = NoDay /\ Exists(old) /\ IsUserTouched(old)
  <2>1. Wanted(s, k) = [old EXCEPT !.status = IF @ = "active" THEN "ended" ELSE @]
    BY <1>6 DEF Wanted, old, charged
  <2>2. QED
    BY <1>1, <1>6, <2>1 DEF old, SeriesRow, Claims, Exists
<1>7. CASE charged = NoDay /\ ~(Exists(old) /\ IsUserTouched(old))
  <2>1. Wanted(s, k) = NoSeries
    BY <1>7 DEF Wanted, old, charged
  <2>2. QED
    BY <1>3, <1>7, <2>1 DEF old, IsUserTouched
<1>8. QED
  BY <1>4, <1>5, <1>6, <1>7

\* A detection that wants a row for a merchant without one wants a new row.
LEMMA FreshExists ==
  ASSUME TypeOK, NEW s \in Sessions, NEW k \in Keys, ~Exists(task[s].rows[k]),
         ~Exists(Wanted(s, k))
  PROVE  Wanted(s, k) = NoSeries
<1>1. SUFFICES ASSUME Wanted(s, k) # NoSeries PROVE FALSE
  OBVIOUS
<1>2. task[s].candidates[k] # NoDay
  BY <1>1 DEF Wanted
<1>3. Wanted(s, k) = ApplyCandidate([NoSeries EXCEPT !.id = created[k] + 1],
                                    task[s].candidates[k], task[s].on)
  BY <1>2 DEF Wanted
<1>4. Wanted(s, k).id = created[k] + 1
  BY <1>3 DEF ApplyCandidate, NoSeries
<1>5. QED
  BY <1>4 DEF Exists, TypeOK

LEMMA EditedRow ==
  ASSUME TypeOK, NEW row \in SeriesRow,
         NEW status \in Claims \cup {"active", Unset}, NEW note \in {"none", "some", Unset}
  PROVE  LET new == Edited(row, status, note)
         IN  /\ new \in SeriesRow /\ new.id = row.id
             /\ ((row.cancelledOn # NoDay) <=> (row.status = "cancelled"))
                => ((new.cancelledOn # NoDay) <=> (new.status = "cancelled"))
             /\ row.cancelledOn # NoDay /\ new.status = "cancelled" /\ row.status = "cancelled"
                => new.cancelledOn = row.cancelledOn
<1>1. today \in Day /\ today # NoDay
  BY BoundsAssumption DEF TypeOK, Day, NoDay
<1> DEFINE new == Edited(row, status, note)
<1>2. /\ new.id = row.id /\ new.lastChargedOn = row.lastChargedOn
      /\ new.note = IF note = Unset THEN row.note ELSE note
      /\ new.status = IF status = Unset THEN row.status ELSE status
      /\ new.cancelledOn = IF status = Unset THEN row.cancelledOn
                           ELSE IF status # "cancelled" THEN NoDay
                           ELSE IF row.cancelledOn = NoDay THEN today ELSE row.cancelledOn
  BY DEF Edited, SeriesRow
<1>3. new = [id |-> new.id, status |-> new.status, note |-> new.note,
             cancelledOn |-> new.cancelledOn, lastChargedOn |-> new.lastChargedOn]
  <2>1. /\ new = [f \in DOMAIN row |-> new[f]]
        /\ DOMAIN row = {"id", "status", "note", "cancelledOn", "lastChargedOn"}
    BY DEF Edited, SeriesRow
  <2> HIDE DEF new
  <2>2. QED
    BY <2>1
<1> HIDE DEF new
<1>4. /\ new.id \in Nat /\ new.status \in {"active", "ended"} \cup Claims /\ new.note \in {"none", "some"}
      /\ new.cancelledOn \in Day \cup {NoDay} /\ new.lastChargedOn \in Day \cup {NoDay}
  BY <1>1, <1>2 DEF SeriesRow, Unset
<1>5. new \in SeriesRow
  BY <1>3, <1>4 DEF SeriesRow
<1>6. QED
  BY <1>1, <1>2, <1>5 DEF new, Unset, Claims

\* Whatever the session read, a flush leaves a row.
LEMMA WrittenType ==
  ASSUME TypeOK, NEW s \in Sessions, NEW k \in Keys
  PROVE  Written(s, k) \in SeriesRow
<1>1. task[s].rows[k] \in SeriesRow /\ series[k] \in SeriesRow /\ Wanted(s, k) \in SeriesRow
  BY WantedRow DEF TypeOK, TaskType
<1>2. QED
  BY <1>1, MergeType DEF Written

\* A flush of current copies writes what the session wants.
LEMMA WrittenIsWanted ==
  ASSUME TypeOK, NEW s \in Sessions, NEW k \in Keys, task[s].rows[k] = series[k]
  PROVE  Written(s, k) = Wanted(s, k)
<1> DEFINE new == Wanted(s, k)
<1>1. /\ series[k] \in SeriesRow /\ new \in SeriesRow
      /\ Exists(series[k]) => new = NoSeries \/ new.id = series[k].id
  BY WantedRow DEF TypeOK
<1>2. Exists(series[k]) /\ Exists(new) => new.id = series[k].id
  BY <1>1 DEF Exists, NoSeries
<1> HIDE DEF new
<1>3. Exists(series[k]) /\ Exists(new) => Merge(series[k], series[k], new) = new
  BY <1>1, <1>2, MergeCurrent
<1>4. QED
  BY <1>3 DEF Written, new
-------------------------------------------------------------------------------
LEMMA InitType == Init => TypeOK
BY NoSeriesType, IdleTaskType, BoundsAssumption DEF Init, TypeOK, Day

\* Every step keeps the shapes.
LEMMA StepType == TypeOK /\ [Next]_vars => TypeOK'
<1> SUFFICES ASSUME TypeOK, [Next]_vars PROVE TypeOK'
  OBVIOUS
<1> USE DEF TypeOK
<1>1. CASE NextDay
  BY <1>1, BoundsAssumption DEF NextDay, Day, TaskType
<1>2. ASSUME NEW k \in Keys, Charge(k) PROVE TypeOK'
  BY <1>2 DEF Charge
<1>3. ASSUME NEW k \in Keys, Fade(k) PROVE TypeOK'
  BY <1>3 DEF Fade
<1>4. ASSUME NEW s \in Sessions, Group(s) PROVE TypeOK'
  <2> DEFINE found == [k \in Keys |-> IF detectable[k] THEN lastCharge[k] ELSE NoDay]
  <2>1. found \in [Keys -> Day \cup {NoDay}] /\ task[s] \in TaskType
    OBVIOUS
  <2>2. task' = [task EXCEPT ![s] = [task[s] EXCEPT !.pc = "grouped", !.candidates = found]]
    BY <1>4 DEF Group
  <2> HIDE DEF found
  <2>3. [task[s] EXCEPT !.pc = "grouped", !.candidates = found] \in TaskType
    BY <2>1 DEF TaskType
  <2>4. QED
    BY <1>4, <2>2, <2>3 DEF Group, world
<1>5. ASSUME NEW s \in Sessions, Load(s) PROVE TypeOK'
  <2>1. [task[s] EXCEPT !.pc = "loaded", !.rows = series, !.on = today] \in TaskType
    BY DEF TaskType
  <2>2. task' = [task EXCEPT ![s] = [task[s] EXCEPT !.pc = "loaded", !.rows = series, !.on = today]]
    BY <1>5 DEF Load
  <2>3. QED
    BY <1>5, <2>1, <2>2 DEF Load, world
<1>6. ASSUME NEW s \in Sessions, Write(s) PROVE TypeOK'
  <2>1. task' \in [Sessions -> TaskType]
    BY <1>6, IdleTaskType DEF Write
  <2>2. series' \in [Keys -> SeriesRow]
    BY <1>6, WrittenType DEF Write
  <2>3. created' \in [Keys -> Nat]
    BY <1>6 DEF Write
  <2>4. QED
    BY <1>6, <2>1, <2>2, <2>3 DEF Write, world
<1>7. ASSUME NEW s \in Sessions, Rollback(s) PROVE TypeOK'
  BY <1>7, IdleTaskType DEF Rollback, world
<1>8. ASSUME NEW s \in Sessions, NEW k \in Keys, Get(s, k) PROVE TypeOK'
  <2>1. [task[s] EXCEPT !.pc = "editing", !.rows[k] = series[k]] \in TaskType
    BY DEF TaskType
  <2>2. task' = [task EXCEPT ![s] = [task[s] EXCEPT !.pc = "editing", !.rows[k] = series[k]]]
    BY <1>8 DEF Get
  <2>3. QED
    BY <1>8, <2>1, <2>2 DEF Get, world
<1>9. ASSUME NEW s \in Sessions, Save(s) PROVE TypeOK'
  <2>1. PICK k \in Keys, status \in Claims \cup {"active", Unset},
             note \in {"none", "some", Unset} :
          series' = [series EXCEPT ![k] =
                       IF @.id = task[s].rows[k].id
                       THEN Merge(@, task[s].rows[k], Edited(task[s].rows[k], status, note))
                       ELSE @]
    BY <1>9 DEF Save
  <2>2. task[s].rows[k] \in SeriesRow /\ series[k] \in SeriesRow
    BY DEF TaskType
  <2>3. Edited(task[s].rows[k], status, note) \in SeriesRow
    BY <2>2, EditedRow
  <2>4. series' \in [Keys -> SeriesRow]
    BY <2>1, <2>2, <2>3, MergeType
  <2>5. task' \in [Sessions -> TaskType]
    BY <1>9, IdleTaskType DEF Save
  <2>6. QED
    BY <1>9, <2>4, <2>5 DEF Save, world
<1>10. CASE UNCHANGED vars
  BY <1>10 DEF vars, world
<1>11. QED
  BY <1>1, <1>2, <1>3, <1>4, <1>5, <1>6, <1>7, <1>8, <1>9, <1>10 DEF Next, TaskStep

\* Every variable of the series keeps its shape, whatever the sessions and their interleaving.
THEOREM TypeCorrect == Spec => []TypeOK
<1>1. QED
  BY InitType, StepType, PTL DEF Spec
-------------------------------------------------------------------------------
(* One session at a time *)

\* Writing a detection makes every row what the session wants of it.
LEMMA WriteDecides ==
  ASSUME ClaimsInvariant, NEW s \in Sessions, Write(s), NEW k \in Keys
  PROVE  /\ task[s].rows[k] = series[k]
         /\ series'[k] = Wanted(s, k)
<1>1. task[s].rows[k] = series[k]
  BY DEF ClaimsInvariant, CopiesAreCurrent, Write
<1>2. Written(s, k) = Wanted(s, k)
  BY <1>1, WrittenIsWanted DEF ClaimsInvariant
<1>3. QED
  BY <1>1, <1>2 DEF Write

\* Saving an update makes the row what the user asked for, and leaves the others.
LEMMA SaveDecides ==
  ASSUME ClaimsInvariant, NEW s \in Sessions, Save(s)
  PROVE  \E k \in Keys, status \in Claims \cup {"active", Unset},
            note \in {"none", "some", Unset} :
              /\ series[k] \in SeriesRow
              /\ series' = [series EXCEPT ![k] = Edited(series[k], status, note)]
<1>1. PICK k \in Keys, status \in Claims \cup {"active", Unset},
           note \in {"none", "some", Unset} :
        /\ Exists(task[s].rows[k])
        /\ series' = [series EXCEPT ![k] =
                     IF @.id = task[s].rows[k].id
                     THEN Merge(@, task[s].rows[k], Edited(task[s].rows[k], status, note))
                     ELSE @]
  BY DEF Save
<1>2. task[s].rows[k] = series[k] /\ series[k] \in SeriesRow
  BY <1>1 DEF ClaimsInvariant, CopiesAreCurrent, Save, TypeOK
<1>3. /\ Edited(series[k], status, note) \in SeriesRow
      /\ Edited(series[k], status, note).id = series[k].id
  BY <1>2, EditedRow DEF ClaimsInvariant
<1>4. Merge(series[k], series[k], Edited(series[k], status, note)) = Edited(series[k], status, note)
  BY <1>2, <1>3, MergeCurrent
<1>5. series' = [series EXCEPT ![k] = Edited(series[k], status, note)]
  BY <1>1, <1>2, <1>4
<1>6. QED
  BY <1>2, <1>5

LEMMA CopiesStep ==
  ASSUME OneAtATime, ClaimsInvariant, Next
  PROVE  CopiesAreCurrent' /\ IdleHoldsNothing'
<1> USE DEF ClaimsInvariant, TypeOK
<1>1. ASSUME UNCHANGED <<series, task>> PROVE CopiesAreCurrent' /\ IdleHoldsNothing'
  BY <1>1 DEF CopiesAreCurrent, IdleHoldsNothing
<1>2. ASSUME NEW s \in Sessions, task' = [task EXCEPT ![s] = IdleTask]
      PROVE  CopiesAreCurrent' /\ IdleHoldsNothing'
  <2>1. \A u \in Sessions : task'[u] = IdleTask
    BY <1>2 DEF OneAtATime
  <2>2. QED
    BY <2>1 DEF CopiesAreCurrent, IdleHoldsNothing, IdleTask
<1>3. ASSUME NEW s \in Sessions, Group(s) PROVE CopiesAreCurrent' /\ IdleHoldsNothing'
  <2>1. \A u \in Sessions : task'[u].pc = "grouped"
    BY <1>3 DEF Group, OneAtATime, TaskType
  <2>2. QED
    BY <2>1 DEF CopiesAreCurrent, IdleHoldsNothing
<1>4. ASSUME NEW s \in Sessions, Load(s) PROVE CopiesAreCurrent' /\ IdleHoldsNothing'
  <2>1. \A u \in Sessions : task'[u].pc = "loaded" /\ task'[u].rows = series
    BY <1>4 DEF Load, OneAtATime, TaskType
  <2>2. series' = series
    BY <1>4 DEF Load
  <2>3. QED
    BY <2>1, <2>2 DEF CopiesAreCurrent, IdleHoldsNothing
<1>5. ASSUME NEW s \in Sessions, NEW k \in Keys, Get(s, k)
      PROVE  CopiesAreCurrent' /\ IdleHoldsNothing'
  <2>1. task[s] = IdleTask /\ series' = series
    BY <1>5 DEF Get, IdleHoldsNothing
  <2>2. \A u \in Sessions : /\ task'[u].pc = "editing"
                            /\ task'[u].rows = [IdleTask.rows EXCEPT ![k] = series[k]]
    BY <1>5, <2>1 DEF Get, OneAtATime, TaskType, IdleTask
  <2>3. \A u \in Sessions, j \in Keys :
          task'[u].rows[j] = IF j = k THEN series[k] ELSE NoSeries
    BY <2>2 DEF IdleTask
  <2>4. QED
    BY <2>1, <2>2, <2>3 DEF CopiesAreCurrent, IdleHoldsNothing, Exists, NoSeries
<1>6. QED
  BY <1>1, <1>2, <1>3, <1>4, <1>5
     DEF Next, TaskStep, NextDay, Charge, Fade, Write, Rollback, Save

LEMMA CancelDayStep ==
  ASSUME ClaimsInvariant, Next
  PROVE  CancelDayTellsStatus'
<1> USE DEF ClaimsInvariant, CancelDayTellsStatus
<1>1. ASSUME UNCHANGED series PROVE CancelDayTellsStatus'
  BY <1>1
<1>2. ASSUME NEW s \in Sessions, Write(s) PROVE CancelDayTellsStatus'
  <2> SUFFICES ASSUME NEW k \in Keys
               PROVE (series'[k].cancelledOn # NoDay) <=> (series'[k].status = "cancelled")
    OBVIOUS
  <2> DEFINE old == series[k]
             new == Wanted(s, k)
  <2>1. task[s].rows[k] = old /\ series'[k] = new
    BY <1>2, WriteDecides
  <2>2. /\ Exists(old) => new = NoSeries \/ new.id = old.id
        /\ Exists(old) /\ Exists(new) => new.cancelledOn = old.cancelledOn
        /\ Exists(old) /\ old.status \in Claims => Exists(new) /\ new.status = old.status
        /\ Exists(old) /\ Exists(new) /\ old.status \notin Claims => new.status \notin Claims
        /\ ~Exists(old) /\ Exists(new) => new.cancelledOn = NoDay /\ new.status \notin Claims
    BY <2>1, WantedRow
  <2>3. ~Exists(new) => new = NoSeries
    BY <2>1, <2>2, FreshExists DEF Exists
  <2>4. (old.cancelledOn # NoDay) <=> (old.status = "cancelled")
    OBVIOUS
  <2> HIDE DEF old, new
  <2>5. QED
    BY <2>1, <2>2, <2>3, <2>4 DEF Claims, NoSeries
<1>3. ASSUME NEW s \in Sessions, Save(s) PROVE CancelDayTellsStatus'
  <2>1. PICK k \in Keys, status \in Claims \cup {"active", Unset},
             note \in {"none", "some", Unset} :
          /\ series[k] \in SeriesRow
          /\ series' = [series EXCEPT ![k] = Edited(series[k], status, note)]
    BY <1>3, SaveDecides
  <2>2. (Edited(series[k], status, note).cancelledOn # NoDay)
          <=> (Edited(series[k], status, note).status = "cancelled")
    BY <2>1, EditedRow
  <2>3. \A j \in Keys : series'[j] = IF j = k THEN Edited(series[k], status, note) ELSE series[j]
    BY <2>1 DEF TypeOK
  <2>4. QED
    BY <2>2, <2>3
<1>4. QED
  BY <1>1, <1>2, <1>3 DEF Next, TaskStep, NextDay, Charge, Fade, Group, Load, Rollback, Get

LEMMA ClaimsInvariantHolds ==
  ASSUME OneAtATime
  PROVE  Spec => []ClaimsInvariant
<1>1. Init => ClaimsInvariant
  BY InitType DEF Init, ClaimsInvariant, CopiesAreCurrent, IdleHoldsNothing,
                  CancelDayTellsStatus, IdleTask, NoSeries
<1>2. ASSUME ClaimsInvariant, UNCHANGED vars PROVE CopiesAreCurrent' /\ IdleHoldsNothing'
                                                   /\ CancelDayTellsStatus'
  BY <1>2 DEF vars, world, ClaimsInvariant, CopiesAreCurrent, IdleHoldsNothing,
              CancelDayTellsStatus
<1>3. ClaimsInvariant /\ [Next]_vars => ClaimsInvariant'
  BY <1>2, StepType, CopiesStep, CancelDayStep DEF ClaimsInvariant
<1>4. QED
  BY <1>1, <1>3, PTL DEF Spec

\* With one session at a time a series has a day of cancellation exactly when it is cancelled.
THEOREM CancelDayCorrect == OneAtATime => (Spec => []CancelDayTellsStatus)
<1> SUFFICES ASSUME OneAtATime PROVE Spec => []CancelDayTellsStatus
  OBVIOUS
<1>1. ClaimsInvariant => CancelDayTellsStatus
  BY DEF ClaimsInvariant
<1>2. QED
  BY <1>1, ClaimsInvariantHolds, PTL

\* With one session at a time no detection changes what the user said of a series, whatever
\* the charges say: recurring.py's "Detection never overwrites these".
THEOREM ClaimsAreKept == OneAtATime => (Spec => DetectionKeepsClaims)
<1> SUFFICES ASSUME OneAtATime PROVE Spec => DetectionKeepsClaims
  OBVIOUS
<1> DEFINE Kept == \A s \in Sessions : Write(s) =>
              \A k \in Keys : Exists(series[k]) /\ series[k].status \in Claims =>
                 /\ series'[k].id = series[k].id
                 /\ series'[k].status = series[k].status
                 /\ series'[k].cancelledOn = series[k].cancelledOn
<1>1. ClaimsInvariant => Kept
  <2> SUFFICES ASSUME ClaimsInvariant, NEW s \in Sessions, Write(s), NEW k \in Keys,
                      Exists(series[k]), series[k].status \in Claims
               PROVE  /\ series'[k].id = series[k].id
                      /\ series'[k].status = series[k].status
                      /\ series'[k].cancelledOn = series[k].cancelledOn
    OBVIOUS
  <2>1. task[s].rows[k] = series[k] /\ series'[k] = Wanted(s, k)
    BY WriteDecides
  <2>2. /\ Exists(Wanted(s, k)) /\ Wanted(s, k).status = series[k].status
        /\ Wanted(s, k) = NoSeries \/ Wanted(s, k).id = series[k].id
        /\ Exists(Wanted(s, k)) => Wanted(s, k).cancelledOn = series[k].cancelledOn
    BY <2>1, WantedRow DEF ClaimsInvariant
  <2>3. Wanted(s, k) # NoSeries
    BY <2>2 DEF NoSeries, Exists
  <2>4. QED
    BY <2>1, <2>2, <2>3
<1>2. ClaimsInvariant => [Kept]_vars
  BY <1>1
<1>3. QED
  BY <1>2, ClaimsInvariantHolds, PTL DEF DetectionKeepsClaims

\* With one session at a time the day a series was cancelled stands while it stays cancelled.
THEOREM CancelDayIsFixed == OneAtATime => (Spec => CancelDayStands)
<1> SUFFICES ASSUME OneAtATime PROVE Spec => CancelDayStands
  OBVIOUS
<1> DEFINE Stands == \A k \in Keys :
             /\ series[k].status = "cancelled" /\ series'[k].status = "cancelled"
             /\ series'[k].id = series[k].id
             => series'[k].cancelledOn = series[k].cancelledOn
<1>1. ASSUME ClaimsInvariant, Next PROVE Stands
  <2>1. CASE UNCHANGED series
    BY <2>1
  <2>2. ASSUME NEW s \in Sessions, Write(s) PROVE Stands
    <3> SUFFICES ASSUME NEW k \in Keys, series[k].status = "cancelled",
                        series'[k].status = "cancelled", series'[k].id = series[k].id
                 PROVE  series'[k].cancelledOn = series[k].cancelledOn
      OBVIOUS
    <3>1. task[s].rows[k] = series[k] /\ series'[k] = Wanted(s, k)
      BY <1>1, <2>2, WriteDecides
    <3>2. Exists(series[k]) /\ Exists(Wanted(s, k))
            => Wanted(s, k).cancelledOn = series[k].cancelledOn
      BY <1>1, <3>1, WantedRow DEF ClaimsInvariant
    <3>3. ~Exists(series[k]) /\ Exists(Wanted(s, k)) => Wanted(s, k).status \notin Claims
      BY <1>1, <3>1, WantedRow DEF ClaimsInvariant
    <3>4. CASE Exists(series[k])
      BY <3>1, <3>2, <3>4 DEF Exists
    <3>5. CASE ~Exists(series[k])
      <4>1. ~Exists(Wanted(s, k))
        BY <3>1, <3>3, <3>5 DEF Claims
      <4>2. Wanted(s, k) = NoSeries
        <5>1. TypeOK /\ ~Exists(task[s].rows[k])
          BY <1>1, <3>1, <3>5 DEF ClaimsInvariant
        <5>2. QED
          BY <4>1, <5>1, FreshExists
      <4>3. QED
        BY <3>1, <4>2 DEF NoSeries
    <3>6. QED
      BY <3>4, <3>5
  <2>3. ASSUME NEW s \in Sessions, Save(s) PROVE Stands
    <3>1. PICK k \in Keys, status \in Claims \cup {"active", Unset},
               note \in {"none", "some", Unset} :
            /\ series[k] \in SeriesRow
            /\ series' = [series EXCEPT ![k] = Edited(series[k], status, note)]
      BY <1>1, <2>3, SaveDecides
    <3>2. /\ series[k].cancelledOn # NoDay
          /\ Edited(series[k], status, note).status = "cancelled"
          /\ series[k].status = "cancelled"
          => Edited(series[k], status, note).cancelledOn = series[k].cancelledOn
      BY <1>1, <3>1, EditedRow DEF ClaimsInvariant
    <3>3. \A j \in Keys : series'[j] = IF j = k THEN Edited(series[k], status, note)
                                                ELSE series[j]
      BY <1>1, <3>1 DEF ClaimsInvariant, TypeOK
    <3>4. QED
      BY <1>1, <3>1, <3>2, <3>3 DEF ClaimsInvariant, CancelDayTellsStatus
  <2>4. QED
    BY <1>1, <2>1, <2>2, <2>3
       DEF Next, TaskStep, NextDay, Charge, Fade, Group, Load, Rollback, Get
<1>2. ClaimsInvariant /\ [Next]_vars => [Stands]_vars
  BY <1>1
<1>3. QED
  BY <1>2, ClaimsInvariantHolds, PTL DEF CancelDayStands, Spec
===============================================================================
