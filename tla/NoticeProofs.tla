---------------------------- MODULE NoticeProofs -----------------------------
(***************************************************************************)
(* What people are told, and once: of their week, by mail, and of what is  *)
(* due, by notifications.                                                  *)
(*                                                                         *)
(* SchedulePublication: its types and its foreign keys hold for any number *)
(* of managers and publishers; what employees were told agrees with the    *)
(* week's row while publications do not overlap.                           *)
(*                                                                         *)
(* DueReminders, for every payday, every stretch of days and any number of *)
(* sweeping processes.  First the calendar: a day number grows by one a    *)
(* day (DayNumberOfDate, NextDayFollows), so the month on the table moves  *)
(* in its window and the payday reminded of is the first one on or after   *)
(* the day.  Then the lists: a filter keeps distinct ids distinct          *)
(* (NotAmongIs, by counting the kept places off), so merging pages and     *)
(* polls shows no row twice.  Last the sweep: DueInv says that a sweep     *)
(* that has collected holds in its queue, or has written, every reminder   *)
(* of its day, and that a key names one row of the table.                  *)
(***************************************************************************)
EXTENDS SchedulePublication, DueReminders, DataInduction, TLAPS

-----------------------------------------------------------------------------
\* The publication of a week.

IInv == TypeOK /\ RowsPointAtTemplates

OnePublication == \A p, q \in Publishers : p = q

\* A publication compares with the row it will replace and mails what is on it;
\* whoever it has seen is either gone since or knows what is on it.
IsOfTheWeek(p) ==
  /\ publications[p].at # "emailing" => publications[p].todo = {}
  /\ publications[p].at = "reading" => publications[p].before = week.snapshot
  /\ publications[p].at = "emailing" => publications[p].snapshot = week.snapshot
  /\ publications[p].at = "reading" /\ publications[p].status # None =>
       \A e \in Employees :
         /\ publications[p].status[e] = "GONE" => status[e] = "GONE"
         /\ publications[p].status[e] # "GONE" /\ e \notin missed => told[e] = week.snapshot[e]

SInv ==
  /\ \A p \in Publishers : IsOfTheWeek(p)
  /\ SnapshotIsWhatTheyWereTold
  /\ NobodyIsToldTwice

-----------------------------------------------------------------------------
LEMMA EmptyTyped ==
  /\ Empty \in Grid(DayMark) /\ Empty \in Grid(Assignment)
  /\ \A e \in Employees, d \in Days : Empty[e][d] = "NOTHING"
  BY DEF Empty, Grid, DayMark, Assignment

LEMMA NoPlanTyped == NoPlan \in Plan
  BY DEF NoPlan, Plan, Assignment

LEMMA NoPublicationTyped == NoPublication \in Publication
  BY EmptyTyped DEF NoPublication, Publication

LEMMA NothingIsNoTemplate ==
  "DAY_OFF" \notin Templates /\ "LEAVE" \notin Templates /\ "NOTHING" \notin Templates
  BY ScheduleAssumption

\* A template that is not yet, or no more, has no hours.
LEMMA MarksAreNoHours == "removed" \notin Hours /\ "notYet" \notin Hours
  BY ScheduleAssumption

\* A snapshot of what was read is a grid of marks.
LEMMA SnapshotTyped ==
  ASSUME NEW pub \in Publication, None \notin {pub.status, pub.entries, pub.templates}
  PROVE  snapshotOf(pub) \in Grid(DayMark)
  <1>1. pub.entries \in Grid(Assignment)
    BY DEF Publication
  <1>2. ASSUME NEW e \in Employees, NEW d \in Days
        PROVE  snapshotOf(pub)[e][d] \in DayMark
    <2>1. pub.entries[e][d] \in Assignment
      BY <1>1 DEF Grid
    <2> QED
      BY <2>1 DEF snapshotOf, Assignment, DayMark
  <1> QED
    BY <1>2 DEF snapshotOf, Grid

LEMMA InitEstablishes == Init => IInv
  <1> SUFFICES ASSUME Init PROVE IInv
    OBVIOUS
  <1>1. TypeOK
    <2>1. entries \in Grid(Assignment)
      BY DEF Init, Grid, Assignment
    <2>2. week \in [locked : BOOLEAN, published : BOOLEAN, snapshot : Grid(DayMark)]
      BY EmptyTyped DEF Init
    <2>3. told \in Grid(DayMark)
      BY EmptyTyped DEF Init
    <2> QED
      BY <2>1, <2>2, <2>3, NoPlanTyped, NoPublicationTyped, ScheduleAssumption
      DEF Init, TypeOK, Template, Status
  <1>2. RowsPointAtTemplates
    <2> SUFFICES ASSUME NEW e \in Employees, NEW d \in Days, entries[e][d] \in Templates
                 PROVE  Stored(entries[e][d])
      BY DEF RowsPointAtTemplates
    <2>1. entries[e][d] \in {t \in Templates : Stored(t)} \union {"DAY_OFF", "LEAVE", "NOTHING"}
      BY DEF Init, Grid
    <2> QED
      BY <2>1, NothingIsNoTemplate
  <1> QED
    BY <1>1, <1>2 DEF IInv

-----------------------------------------------------------------------------
(* Types.                                                                  *)

\* A plan put into its slot.
LEMMA PlansTyped ==
  ASSUME TypeOK, NEW m \in Managers, NEW plan \in Plan, Plans(m, plan)
  PROVE  plans' \in [Managers -> Plan]
  BY DEF TypeOK, Plans

LEMMA PlanTypes ==
  ASSUME TypeOK, NEW m \in Managers,
         \/ \E e \in Employees, d \in Days, w \in Assignment : LoadEmployee(m, e, d, w)
         \/ SetEntry(m) \/ Copy(m) \/ PlanDies(m)
  PROVE  TypeOK'
  <1>0. plans[m] \in Plan
    BY DEF TypeOK
  <1>1. ASSUME NEW e \in Employees, NEW d \in Days, NEW w \in Assignment,
               LoadEmployee(m, e, d, w)
        PROVE  TypeOK'
    <2>1. [NoPlan EXCEPT !.at = "opening", !.employee = e, !.day = d, !.wanted = w,
                         !.away = (status[e] # "ACTIVE")] \in Plan
      BY NoPlanTyped DEF Plan
    <2>2. plans' \in [Managers -> Plan]
      BY <1>1, <2>1, PlansTyped DEF LoadEmployee
    <2>3. Edit /\ UNCHANGED <<staff, entries, week, publications, mail, published>>
      BY <1>1 DEF LoadEmployee
    <2> QED
      BY <2>2, <2>3, ScheduleAssumption DEF TypeOK, Edit, staff, mail
  <1>2. ASSUME AssertUnlocked(m) PROVE TypeOK'
    <2>1. [plans[m] EXCEPT !.at = "looking"] \in Plan /\ [plans[m] EXCEPT !.at = "writing"] \in Plan
      BY <1>0 DEF Plan
    <2>2. plans' \in [Managers -> Plan]
      BY <1>2, <2>1, NoPlanTyped, PlansTyped DEF AssertUnlocked
    <2> QED
      BY <1>2, <2>2 DEF TypeOK, AssertUnlocked, staff, mail
  <1>3. ASSUME FindTemplate(m) PROVE TypeOK'
    <2>1. [plans[m] EXCEPT !.at = "writing"] \in Plan
      BY <1>0 DEF Plan
    <2>2. plans' \in [Managers -> Plan]
      BY <1>3, <2>1, NoPlanTyped, PlansTyped DEF FindTemplate
    <2> QED
      BY <1>3, <2>2 DEF TypeOK, FindTemplate, staff, mail
  <1>4. ASSUME UpsertEntry(m) PROVE TypeOK'
    <2>1. plans' \in [Managers -> Plan]
      BY <1>4, NoPlanTyped, PlansTyped DEF UpsertEntry
    <2>2. plans[m].wanted \in Assignment
      BY <1>0 DEF Plan
    <2>3. entries' \in Grid(Assignment)
      BY <1>4, <2>2 DEF TypeOK, UpsertEntry, Grid
    <2> QED
      BY <1>4, <2>1, <2>3 DEF TypeOK, UpsertEntry, staff, mail
  <1>5. ASSUME BeginCopy(m) PROVE TypeOK'
    <2>1. [NoPlan EXCEPT !.at = "copying"] \in Plan
      BY NoPlanTyped DEF Plan
    <2>2. plans' \in [Managers -> Plan]
      BY <1>5, <2>1, PlansTyped DEF BeginCopy
    <2> QED
      BY <1>5, <2>2, ScheduleAssumption DEF TypeOK, BeginCopy, Edit, staff, mail
  <1>6. ASSUME ReadPrevious(m) PROVE TypeOK'
    <2>1. PICK previous \in Grid({t \in Templates : Stored(t)} \union {"DAY_OFF", "NOTHING"}) :
            Plans(m, [plans[m] EXCEPT !.previous = previous])
      BY <1>6 DEF ReadPrevious
    <2>2. previous \in Grid(Assignment)
      BY DEF Grid, Assignment
    <2>3. [plans[m] EXCEPT !.previous = previous] \in Plan
      BY <1>0, <2>2 DEF Plan
    <2>4. plans' \in [Managers -> Plan]
      BY <2>1, <2>3, PlansTyped
    <2> QED
      BY <1>6, <2>4 DEF TypeOK, ReadPrevious, staff, mail
  <1>7. ASSUME ReadLeave(m) PROVE TypeOK'
    <2>1. PICK leave \in SUBSET (Employees \X Days) :
            Plans(m, [plans[m] EXCEPT !.leave = leave])
      BY <1>7 DEF ReadLeave
    <2>2. [plans[m] EXCEPT !.leave = leave] \in Plan
      BY <1>0 DEF Plan
    <2>3. plans' \in [Managers -> Plan]
      BY <2>1, <2>2, PlansTyped
    <2> QED
      BY <1>7, <2>3 DEF TypeOK, ReadLeave, staff, mail
  <1>8. ASSUME WriteCopy(m) PROVE TypeOK'
    <2>1. plans' \in [Managers -> Plan]
      BY <1>8, NoPlanTyped, PlansTyped DEF WriteCopy
    <2>2. plans[m].previous \in Grid(Assignment)
      BY <1>0, <1>8 DEF WriteCopy, Plan
    <2>3. entries' \in Grid(Assignment)
      BY <1>8, <2>2 DEF TypeOK, WriteCopy, Grid
    <2> QED
      BY <1>8, <2>1, <2>3 DEF TypeOK, WriteCopy, staff, mail
  <1>9. ASSUME PlanDies(m) PROVE TypeOK'
    <2>1. plans' \in [Managers -> Plan]
      BY <1>9, NoPlanTyped, PlansTyped DEF PlanDies
    <2> QED
      BY <1>9, <2>1 DEF TypeOK, PlanDies, staff, mail
  <1> QED
    BY <1>1, <1>2, <1>3, <1>4, <1>5, <1>6, <1>7, <1>8, <1>9 DEF SetEntry, Copy

\* A publication put into its slot.
LEMMA PublishesTyped ==
  ASSUME TypeOK, NEW p \in Publishers, NEW pub \in Publication, Publishes(p, pub)
  PROVE  publications' \in [Publishers -> Publication]
  BY DEF TypeOK, Publishes

LEMMA PublishTypes ==
  ASSUME TypeOK, NEW p \in Publishers,
         Publish(p) \/ Die(p) \/ \E e \in Employees : Email(p, e)
  PROVE  TypeOK'
  <1>0. publications[p] \in Publication
    BY DEF TypeOK
  <1>1. ASSUME BeginPublish(p) PROVE TypeOK'
    <2>1. [NoPublication EXCEPT !.at = "reading", !.update = week.published,
                                !.before = week.snapshot] \in Publication
      BY NoPublicationTyped DEF Publication, TypeOK
    <2>2. publications' \in [Publishers -> Publication]
      BY <1>1, <2>1, PublishesTyped DEF BeginPublish
    <2> QED
      BY <1>1, <2>2, ScheduleAssumption DEF TypeOK, BeginPublish, staff, mail
  <1>2. ASSUME ReadEmployees(p) \/ ReadEntries(p) \/ ReadTemplates(p) PROVE TypeOK'
    <2>1. [publications[p] EXCEPT !.status = status] \in Publication
      BY <1>0 DEF Publication, TypeOK
    <2>2. [publications[p] EXCEPT !.entries = entries] \in Publication
      BY <1>0 DEF Publication, TypeOK
    <2>3. [publications[p] EXCEPT !.templates = templates] \in Publication
      BY <1>0 DEF Publication, TypeOK
    <2>4. publications' \in [Publishers -> Publication]
      BY <1>2, <2>1, <2>2, <2>3, PublishesTyped DEF ReadEmployees, ReadEntries, ReadTemplates
    <2> QED
      BY <1>2, <2>4 DEF TypeOK, ReadEmployees, ReadEntries, ReadTemplates, Reads, staff, mail
  <1>3. ASSUME LockWeek(p) PROVE TypeOK'
    <2>1. PICK snapshot \in Grid(DayMark) : snapshot = snapshotOf(publications[p])
      BY <1>0, <1>3, SnapshotTyped DEF LockWeek
    <2>2. PICK todo \in SUBSET Employees : todo = Recipients(publications[p])
      BY DEF Recipients
    <2>3. publications[p].update \in BOOLEAN
      BY <1>0 DEF Publication
    <2>4. [NoPublication EXCEPT !.at = "emailing", !.update = publications[p].update,
             !.snapshot = snapshot, !.todo = todo] \in Publication
      BY <2>3, NoPublicationTyped DEF Publication
    <2>5. publications' \in [Publishers -> Publication]
      BY <1>3, <2>1, <2>2, <2>4, PublishesTyped DEF LockWeek
    <2>6. week' \in [locked : BOOLEAN, published : BOOLEAN, snapshot : Grid(DayMark)]
      BY <1>3, <2>1 DEF LockWeek
    <2> QED
      BY <1>3, <2>5, <2>6 DEF TypeOK, LockWeek, staff, mail
  <1>4. ASSUME NEW e \in Employees, Email(p, e) PROVE TypeOK'
    <2>1. PICK todo \in SUBSET Employees : todo = publications[p].todo \ {e}
      BY <1>0 DEF Publication
    <2>2. [publications[p] EXCEPT !.todo = todo] \in Publication
      BY <1>0 DEF Publication
    <2>3. publications' \in [Publishers -> Publication]
      BY <1>4, <2>1, <2>2, PublishesTyped DEF Email
    <2>4. publications[p].snapshot[e] \in [Days -> DayMark]
      BY <1>0 DEF Publication, Grid
    <2>5. told' \in Grid(DayMark) /\ missed' \subseteq Employees
      BY <1>4, <2>4 DEF TypeOK, Email, Grid
    <2> QED
      BY <1>4, <2>3, <2>5 DEF TypeOK, Email, staff
  <1>5. ASSUME EndPublish(p) PROVE TypeOK'
    <2>1. publications' \in [Publishers -> Publication]
      BY <1>5, NoPublicationTyped, PublishesTyped DEF EndPublish
    <2> QED
      BY <1>5, <2>1 DEF TypeOK, EndPublish, staff, mail
  <1>6. ASSUME Die(p) PROVE TypeOK'
    <2>1. publications' \in [Publishers -> Publication]
      BY <1>6, NoPublicationTyped, PublishesTyped DEF Die
    <2>2. publications[p].todo \subseteq Employees
      BY <1>0 DEF Publication
    <2> QED
      BY <1>6, <2>1, <2>2 DEF TypeOK, Die, staff
  <1> QED
    BY <1>1, <1>2, <1>3, <1>4, <1>5, <1>6 DEF Publish

LEMMA TypeStep == TypeOK /\ [Next]_vars => TypeOK'
  <1> SUFFICES ASSUME TypeOK, [Next]_vars PROVE TypeOK'
    OBVIOUS
  <1>1. ASSUME NEW t \in Templates,
               RemoveTemplate(t) \/ \E h \in Hours : SetTemplate(t, h)
        PROVE  TypeOK'
    <2>1. ASSUME RemoveTemplate(t) PROVE TypeOK'
      <3>1. entries' \in Grid(Assignment)
        BY <2>1 DEF TypeOK, RemoveTemplate, Grid, Assignment
      <3> QED
        BY <2>1, <3>1, ScheduleAssumption DEF TypeOK, RemoveTemplate, Edit, Template, mail
    <2>2. ASSUME NEW h \in Hours, SetTemplate(t, h) PROVE TypeOK'
      BY <2>2, ScheduleAssumption DEF TypeOK, SetTemplate, Edit, Template, mail
    <2> QED
      BY <1>1, <2>1, <2>2
  <1>2. ASSUME NEW e \in Employees,
               RemoveEmployee(e) \/ \E s \in Status : SetStatus(e, s)
        PROVE  TypeOK'
    <2>1. ASSUME RemoveEmployee(e) PROVE TypeOK'
      <3>1. entries' \in Grid(Assignment)
        BY <2>1, EmptyTyped DEF TypeOK, RemoveEmployee, Grid
      <3>2. status' \in [Employees -> Status]
        BY <2>1 DEF TypeOK, RemoveEmployee, Status
      <3> QED
        BY <2>1, <3>1, <3>2, ScheduleAssumption DEF TypeOK, RemoveEmployee, Edit, mail
    <2>2. ASSUME NEW s \in Status, SetStatus(e, s) PROVE TypeOK'
      BY <2>2, ScheduleAssumption DEF TypeOK, SetStatus, Edit, mail
    <2> QED
      BY <1>2, <2>1, <2>2
  <1>3. ASSUME Unlock PROVE TypeOK'
    <2>1. [week EXCEPT !.locked = FALSE]
            \in [locked : BOOLEAN, published : BOOLEAN, snapshot : Grid(DayMark)]
      BY DEF TypeOK
    <2> QED
      BY <1>3, <2>1 DEF TypeOK, Unlock, staff, mail
  <1>4. ASSUME UNCHANGED vars PROVE TypeOK'
    BY <1>4 DEF TypeOK, vars, staff, mail
  <1> QED
    BY <1>1, <1>2, <1>3, <1>4, PlanTypes, PublishTypes DEF Next

-----------------------------------------------------------------------------
(* The foreign keys.                                                       *)

LEMMA RowsStep == IInv /\ [Next]_vars => RowsPointAtTemplates'
  <1> SUFFICES ASSUME IInv, [Next]_vars PROVE RowsPointAtTemplates'
    OBVIOUS
  <1>1. ASSUME NEW t \in Templates, NEW h \in Hours, SetTemplate(t, h)
        PROVE  RowsPointAtTemplates'
    BY <1>1 DEF IInv, TypeOK, RowsPointAtTemplates, Stored, SetTemplate
  <1>2. ASSUME NEW t \in Templates, RemoveTemplate(t) PROVE RowsPointAtTemplates'
    <2> SUFFICES ASSUME NEW e \in Employees, NEW d \in Days, entries'[e][d] \in Templates
                 PROVE  templates'[entries'[e][d]] \in Hours
      BY DEF RowsPointAtTemplates, Stored
    <2>1. entries[e][d] # t /\ entries'[e][d] = entries[e][d]
      BY <1>2, NothingIsNoTemplate DEF RemoveTemplate
    <2> QED
      BY <1>2, <2>1 DEF IInv, TypeOK, RowsPointAtTemplates, Stored, RemoveTemplate
  <1>3. ASSUME NEW e \in Employees, RemoveEmployee(e) PROVE RowsPointAtTemplates'
    <2> SUFFICES ASSUME NEW f \in Employees, NEW d \in Days, entries'[f][d] \in Templates
                 PROVE  templates[entries'[f][d]] \in Hours
      BY <1>3 DEF RowsPointAtTemplates, Stored, RemoveEmployee
    <2>1. entries'[f][d] \in {entries[f][d], "NOTHING"}
      BY <1>3, EmptyTyped DEF IInv, TypeOK, Grid, RemoveEmployee
    <2> QED
      BY <2>1, NothingIsNoTemplate DEF IInv, RowsPointAtTemplates, Stored
  <1>4. ASSUME NEW m \in Managers, UpsertEntry(m) PROVE RowsPointAtTemplates'
    <2> SUFFICES ASSUME NEW e \in Employees, NEW d \in Days, entries'[e][d] \in Templates
                 PROVE  templates[entries'[e][d]] \in Hours
      BY <1>4 DEF RowsPointAtTemplates, Stored, UpsertEntry, staff
    <2>1. \/ entries'[e][d] = entries[e][d]
          \/ /\ entries'[e][d] = plans[m].wanted
             /\ Storable(plans[m].employee, plans[m].wanted)
      BY <1>4 DEF IInv, TypeOK, Grid, UpsertEntry
    <2> QED
      BY <2>1 DEF IInv, RowsPointAtTemplates, Stored, Storable
  <1>5. ASSUME NEW m \in Managers, WriteCopy(m) PROVE RowsPointAtTemplates'
    <2> SUFFICES ASSUME NEW e \in Employees, NEW d \in Days, entries'[e][d] \in Templates
                 PROVE  templates[entries'[e][d]] \in Hours
      BY <1>5 DEF RowsPointAtTemplates, Stored, WriteCopy, staff
    <2>1. \/ entries'[e][d] = entries[e][d]
          \/ /\ entries'[e][d] = plans[m].previous[e][d]
             /\ Storable(e, plans[m].previous[e][d])
      BY <1>5 DEF IInv, TypeOK, Grid, WriteCopy
    <2> QED
      BY <2>1 DEF IInv, RowsPointAtTemplates, Stored, Storable
  <1>6. ASSUME UNCHANGED <<templates, entries>> PROVE RowsPointAtTemplates'
    BY <1>6 DEF IInv, RowsPointAtTemplates, Stored
  <1>7. ASSUME NEW m \in Managers, NEW e \in Employees, NEW d \in Days, NEW w \in Assignment,
               LoadEmployee(m, e, d, w)
        PROVE  RowsPointAtTemplates'
    BY <1>6, <1>7 DEF LoadEmployee, staff
  <1>8. ASSUME NEW m \in Managers,
               SetEntry(m) \/ Copy(m) \/ PlanDies(m), ~UpsertEntry(m), ~WriteCopy(m)
        PROVE  RowsPointAtTemplates'
    <2>1. UNCHANGED <<staff, entries>>
      BY <1>8 DEF SetEntry, AssertUnlocked, FindTemplate, Copy, BeginCopy, ReadPrevious, ReadLeave,
                  PlanDies
    <2> QED
      BY <1>6, <2>1 DEF staff
  <1>9. ASSUME NEW p \in Publishers, Publish(p) \/ Die(p) \/ \E e \in Employees : Email(p, e)
        PROVE  RowsPointAtTemplates'
    <2>1. UNCHANGED <<staff, entries>>
      BY <1>9 DEF Publish, BeginPublish, Reads, ReadEmployees, ReadEntries, ReadTemplates,
                  LockWeek, EndPublish, Die, Email
    <2> QED
      BY <1>6, <2>1 DEF staff
  <1>10. ASSUME NEW e \in Employees, NEW s \in Status, SetStatus(e, s)
         PROVE  RowsPointAtTemplates'
    BY <1>6, <1>10 DEF SetStatus
  <1>11. ASSUME Unlock \/ UNCHANGED vars PROVE RowsPointAtTemplates'
    <2>1. UNCHANGED <<staff, entries>>
      BY <1>11 DEF Unlock, vars
    <2> QED
      BY <1>6, <2>1 DEF staff
  <1> QED
    BY <1>1, <1>2, <1>3, <1>4, <1>5, <1>7, <1>8, <1>9, <1>10, <1>11 DEF Next

LEMMA Invariance == Spec => []IInv
  <1>1. IInv /\ [Next]_vars => IInv'
    BY TypeStep, RowsStep DEF IInv
  <1> QED
    BY <1>1, InitEstablishes, PTL DEF Spec

\* Rows, plans, publications and mailboxes keep their types: what a publication
\* writes into the week and mails is a mark for every day.
THEOREM Typing == Spec => []TypeOK
  <1>1. IInv => TypeOK
    BY DEF IInv
  <1> QED
    BY <1>1, Invariance, PTL

\* No entry ever points at a template that was removed, however many managers
\* set and copy entries while others remove templates (removeTemplate).
THEOREM NoRowDangles == Spec => []RowsPointAtTemplates
  <1>1. IInv => RowsPointAtTemplates
    BY DEF IInv
  <1> QED
    BY <1>1, Invariance, PTL

-----------------------------------------------------------------------------
(* What employees were told.                                               *)

LEMMA SInit == Init => SInv
  <1> SUFFICES ASSUME Init PROVE SInv
    OBVIOUS
  <1>1. \A p \in Publishers : publications[p] = NoPublication
    BY DEF Init
  <1>2. \A p \in Publishers : IsOfTheWeek(p)
    BY <1>1 DEF IsOfTheWeek, NoPublication
  <1>3. SnapshotIsWhatTheyWereTold
    BY DEF Init, SnapshotIsWhatTheyWereTold
  <1>4. NobodyIsToldTwice
    BY <1>1 DEF NobodyIsToldTwice, NoPublication
  <1> QED
    BY <1>2, <1>3, <1>4 DEF SInv

\* Planning and the staff's changes leave all of it alone: who is gone stays so.
LEMMA ElsewhereKeeps ==
  ASSUME SInv, UNCHANGED <<publications, told, missed>>, week'.snapshot = week.snapshot,
         \A e \in Employees : status[e] = "GONE" => status'[e] = "GONE"
  PROVE  SInv'
  <1>1. \A p \in Publishers : IsOfTheWeek(p)'
    BY DEF SInv, IsOfTheWeek
  <1>2. SnapshotIsWhatTheyWereTold'
    BY DEF SInv, SnapshotIsWhatTheyWereTold, Awaited
  <1>3. NobodyIsToldTwice'
    BY DEF SInv, NobodyIsToldTwice
  <1> QED
    BY <1>1, <1>2, <1>3 DEF SInv

\* The only publication is put into its slot and mails to those it has to.
LEMMA TheOnlySlot ==
  ASSUME OnePublication, TypeOK, NEW p \in Publishers, NEW pub, Publishes(p, pub)
  PROVE  /\ publications' = [q \in Publishers |-> pub]
         /\ \A e \in Employees : (Awaited(e) <=> e \in publications[p].todo)
                              /\ (Awaited(e)' <=> e \in pub.todo)
  <1>1. publications'[p] = pub /\ publications' \in [Publishers -> {pub}]
    BY DEF OnePublication, TypeOK, Publishes
  <1> QED
    BY <1>1 DEF OnePublication, Awaited

LEMMA ReadingKeeps ==
  ASSUME OnePublication, IInv, SInv, NEW p \in Publishers,
         BeginPublish(p) \/ ReadEmployees(p) \/ ReadEntries(p) \/ ReadTemplates(p)
  PROVE  SInv'
  <1> DEFINE pub == publications[p]
  <1>0. pub \in Publication /\ UNCHANGED <<status, week, told, missed>>
    BY DEF IInv, TypeOK, BeginPublish, Reads, ReadEmployees, ReadEntries, ReadTemplates, staff, mail
  <1>1. PICK new \in Publication :
          /\ Publishes(p, new)
          /\ new.at = "reading" /\ new.todo = {} /\ pub.todo = {}
          /\ new.before = week.snapshot
          /\ \/ new.status \in {None, status}
             \/ pub.at = "reading" /\ new.status = pub.status
    <2>1. CASE BeginPublish(p)
      <3>1. [NoPublication EXCEPT !.at = "reading", !.update = week.published,
                                  !.before = week.snapshot] \in Publication
        BY NoPublicationTyped DEF Publication, IInv, TypeOK
      <3> QED
        BY <2>1, <3>1 DEF BeginPublish, NoPublication, SInv, IsOfTheWeek
    <2>2. CASE ReadEmployees(p)
      <3>1. [pub EXCEPT !.status = status] \in Publication
        BY <1>0 DEF Publication, IInv, TypeOK
      <3>2. PICK new \in Publication : new = [pub EXCEPT !.status = status]
        BY <3>1
      <3>3. Publishes(p, new) /\ pub.at = "reading"
        BY <2>2, <3>2 DEF ReadEmployees, Reads
      <3>4. pub.todo = {} /\ pub.before = week.snapshot
        BY <3>3 DEF SInv, IsOfTheWeek
      <3>5. /\ new.at = "reading" /\ new.todo = {} /\ new.before = week.snapshot
            /\ new.status = status
        BY <1>0, <3>2, <3>3, <3>4 DEF Publication
      <3> QED
        BY <3>3, <3>4, <3>5
    <2>3. CASE ReadEntries(p)
      <3>1. [pub EXCEPT !.entries = entries] \in Publication
        BY <1>0 DEF Publication, IInv, TypeOK
      <3>2. PICK new \in Publication : new = [pub EXCEPT !.entries = entries]
        BY <3>1
      <3>3. Publishes(p, new) /\ pub.at = "reading"
        BY <2>3, <3>2 DEF ReadEntries, Reads
      <3>4. pub.todo = {} /\ pub.before = week.snapshot
        BY <3>3 DEF SInv, IsOfTheWeek
      <3>5. /\ new.at = "reading" /\ new.todo = {} /\ new.before = week.snapshot
            /\ new.status = pub.status
        BY <1>0, <3>2, <3>3, <3>4 DEF Publication
      <3> QED
        BY <3>3, <3>4, <3>5
    <2>4. CASE ReadTemplates(p)
      <3>1. [pub EXCEPT !.templates = templates] \in Publication
        BY <1>0 DEF Publication, IInv, TypeOK
      <3>2. PICK new \in Publication : new = [pub EXCEPT !.templates = templates]
        BY <3>1
      <3>3. Publishes(p, new) /\ pub.at = "reading"
        BY <2>4, <3>2 DEF ReadTemplates, Reads
      <3>4. pub.todo = {} /\ pub.before = week.snapshot
        BY <3>3 DEF SInv, IsOfTheWeek
      <3>5. /\ new.at = "reading" /\ new.todo = {} /\ new.before = week.snapshot
            /\ new.status = pub.status
        BY <1>0, <3>2, <3>3, <3>4 DEF Publication
      <3> QED
        BY <3>3, <3>4, <3>5
    <2> QED
      BY <2>1, <2>2, <2>3, <2>4
  <1>2. /\ publications' = [q \in Publishers |-> new]
        /\ \A e \in Employees : (Awaited(e) <=> e \in pub.todo) /\ (Awaited(e)' <=> e \in new.todo)
    BY <1>1, TheOnlySlot DEF IInv
  <1>3. \A q \in Publishers : IsOfTheWeek(q)'
    <2> SUFFICES ASSUME NEW q \in Publishers, new.status # None, NEW e \in Employees
                 PROVE  /\ new.status[e] = "GONE" => status[e] = "GONE"
                        /\ new.status[e] # "GONE" /\ e \notin missed => told[e] = week.snapshot[e]
      BY <1>0, <1>1, <1>2 DEF IsOfTheWeek
    <2>1. CASE new.status = status
      BY <1>1, <1>2, <2>1 DEF SInv, SnapshotIsWhatTheyWereTold
    <2>2. CASE pub.at = "reading" /\ new.status = pub.status
      BY <2>2 DEF SInv, IsOfTheWeek
    <2> QED
      BY <1>1, <2>1, <2>2
  <1>4. SnapshotIsWhatTheyWereTold'
    BY <1>0, <1>1, <1>2 DEF SInv, SnapshotIsWhatTheyWereTold
  <1>5. NobodyIsToldTwice'
    BY <1>1, <1>2 DEF NobodyIsToldTwice
  <1> QED
    BY <1>3, <1>4, <1>5 DEF SInv

\* Those the new row says something else to are to be mailed, and only those.
LEMMA LockKeeps ==
  ASSUME OnePublication, IInv, SInv, NEW p \in Publishers, LockWeek(p)
  PROVE  SInv'
  <1> DEFINE pub == publications[p]
  <1>0. pub \in Publication /\ pub.at = "reading" /\ pub.status # None
        /\ UNCHANGED <<status, told, missed>>
    BY DEF IInv, TypeOK, LockWeek, staff, mail
  <1>1. PICK snapshot : snapshot = snapshotOf(pub)
    OBVIOUS
  <1>2. PICK todo \in SUBSET Employees : todo = Recipients(pub)
    BY DEF Recipients
  <1>3. PICK new : new = [NoPublication EXCEPT !.at = "emailing", !.update = pub.update,
                                                !.snapshot = snapshot, !.todo = todo]
    OBVIOUS
  <1>4. new.at = "emailing" /\ new.update = pub.update /\ new.snapshot = snapshot /\ new.todo = todo
    BY <1>3 DEF NoPublication
  <1>5. Publishes(p, new) /\ week'.snapshot = snapshot
    BY <1>1, <1>2, <1>3 DEF LockWeek
  <1>6. /\ publications' = [q \in Publishers |-> new]
        /\ \A e \in Employees : Awaited(e)' <=> e \in todo
    BY <1>4, <1>5, TheOnlySlot DEF IInv
  <1>7. ASSUME NEW e \in Employees
        PROVE  /\ pub.status[e] = "GONE" => status[e] = "GONE"
               /\ pub.status[e] # "GONE" /\ e \notin missed => told[e] = pub.before[e]
               /\ e \in todo => pub.status[e] # "GONE"
               /\ e \in todo /\ pub.update => pub.before[e] # snapshot[e]
               /\ e \notin todo /\ pub.status[e] # "GONE" => pub.before[e] = snapshot[e]
    <2>1. IsOfTheWeek(p)
      BY DEF SInv
    <2>2. pub.update \in BOOLEAN
      BY <1>0 DEF Publication
    <2> QED
      BY <1>0, <1>1, <1>2, <2>1, <2>2 DEF IsOfTheWeek, Recipients, changedEmployees
  <1>8. \A q \in Publishers : IsOfTheWeek(q)'
    BY <1>4, <1>5, <1>6 DEF IsOfTheWeek
  <1>9. SnapshotIsWhatTheyWereTold'
    BY <1>0, <1>5, <1>6, <1>7 DEF SnapshotIsWhatTheyWereTold
  <1>10. NobodyIsToldTwice'
    BY <1>0, <1>4, <1>6, <1>7 DEF NobodyIsToldTwice
  <1> QED
    BY <1>8, <1>9, <1>10 DEF SInv

LEMMA EmailKeeps ==
  ASSUME OnePublication, IInv, SInv, NEW p \in Publishers, NEW e \in Employees, Email(p, e)
  PROVE  SInv'
  <1> DEFINE pub == publications[p]
  <1>0. /\ pub \in Publication /\ pub.at = "emailing" /\ e \in pub.todo
        /\ UNCHANGED <<status, week>>
    BY DEF IInv, TypeOK, Email, staff
  <1>1. PICK new : new = [pub EXCEPT !.todo = @ \ {e}]
    OBVIOUS
  <1>2. /\ new.at = "emailing" /\ new.update = pub.update /\ new.snapshot = pub.snapshot
        /\ new.todo = pub.todo \ {e} /\ Publishes(p, new)
    BY <1>0, <1>1 DEF Publication, Email
  <1>3. /\ publications' = [q \in Publishers |-> new]
        /\ \A f \in Employees : (Awaited(f) <=> f \in pub.todo) /\ (Awaited(f)' <=> f \in new.todo)
    BY <1>2, TheOnlySlot DEF IInv
  <1>4. /\ \A f \in Employees \ {e} : told'[f] = told[f] /\ (f \in missed' <=> f \in missed)
        /\ e \notin missed' => told'[e] = pub.snapshot[e]
    BY DEF IInv, TypeOK, Grid, Email
  <1>5. \A q \in Publishers : IsOfTheWeek(q)'
    BY <1>0, <1>2, <1>3 DEF SInv, IsOfTheWeek
  <1>6. SnapshotIsWhatTheyWereTold'
    BY <1>0, <1>2, <1>3, <1>4 DEF SInv, SnapshotIsWhatTheyWereTold, IsOfTheWeek
  <1>7. NobodyIsToldTwice'
    <2> SUFFICES ASSUME NEW f \in new.todo, f \notin missed', new.update
                 PROVE  told'[f] # new.snapshot[f]
      BY <1>3 DEF NobodyIsToldTwice
    <2>1. f \in Employees \ {e} /\ f \in pub.todo \ missed
      BY <1>0, <1>2, <1>4 DEF Publication
    <2> QED
      BY <1>2, <1>4, <2>1 DEF SInv, NobodyIsToldTwice
  <1> QED
    BY <1>5, <1>6, <1>7 DEF SInv

\* A publication that ends has nobody to mail; one that dies misses the rest.
LEMMA EndingKeeps ==
  ASSUME OnePublication, IInv, SInv, NEW p \in Publishers, EndPublish(p) \/ Die(p)
  PROVE  SInv'
  <1> DEFINE pub == publications[p]
  <1>0. /\ pub \in Publication /\ UNCHANGED <<status, week, told>>
        /\ missed' = missed \union pub.todo
    BY DEF IInv, TypeOK, EndPublish, Die, staff, mail
  <1>1. Publishes(p, NoPublication)
    BY DEF EndPublish, Die
  <1>2. /\ publications' = [q \in Publishers |-> NoPublication]
        /\ \A e \in Employees : (Awaited(e) <=> e \in pub.todo)
                             /\ (Awaited(e)' <=> e \in NoPublication.todo)
    BY <1>1, TheOnlySlot DEF IInv
  <1>3. \A q \in Publishers : IsOfTheWeek(q)'
    BY <1>2 DEF IsOfTheWeek, NoPublication
  <1>4. SnapshotIsWhatTheyWereTold'
    BY <1>0, <1>2 DEF SInv, SnapshotIsWhatTheyWereTold, NoPublication
  <1>5. NobodyIsToldTwice'
    BY <1>2 DEF NobodyIsToldTwice, NoPublication
  <1> QED
    BY <1>3, <1>4, <1>5 DEF SInv

LEMMA SStep == OnePublication /\ IInv /\ SInv /\ [Next]_vars => SInv'
  <1> SUFFICES ASSUME OnePublication, IInv, SInv, [Next]_vars PROVE SInv'
    OBVIOUS
  <1>1. ASSUME NEW t \in Templates, RemoveTemplate(t) \/ \E h \in Hours : SetTemplate(t, h)
        PROVE  SInv'
    <2>1. UNCHANGED <<status, week, publications, told, missed>>
      BY <1>1 DEF RemoveTemplate, SetTemplate, mail
    <2> QED
      BY <2>1, ElsewhereKeeps
  <1>2. ASSUME NEW e \in Employees, RemoveEmployee(e) \/ \E s \in Status : SetStatus(e, s)
        PROVE  SInv'
    <2>1. UNCHANGED <<week, publications, told, missed>>
      BY <1>2 DEF RemoveEmployee, SetStatus, mail
    <2>2. \A f \in Employees : status[f] = "GONE" => status'[f] = "GONE"
      BY <1>2 DEF IInv, TypeOK, RemoveEmployee, SetStatus
    <2> QED
      BY <2>1, <2>2, ElsewhereKeeps
  <1>3. ASSUME NEW m \in Managers,
               \/ \E e \in Employees, d \in Days, w \in Assignment : LoadEmployee(m, e, d, w)
               \/ SetEntry(m) \/ Copy(m) \/ PlanDies(m)
        PROVE  SInv'
    <2>1. UNCHANGED <<staff, week, publications, mail>>
      BY <1>3 DEF LoadEmployee, SetEntry, AssertUnlocked, FindTemplate, UpsertEntry, Copy, BeginCopy,
                  ReadPrevious, ReadLeave, WriteCopy, PlanDies
    <2> QED
      BY <2>1, ElsewhereKeeps DEF staff, mail
  <1>4. ASSUME Unlock PROVE SInv'
    <2>1. UNCHANGED <<staff, publications, mail>> /\ week'.snapshot = week.snapshot
      BY <1>4 DEF Unlock, IInv, TypeOK
    <2> QED
      BY <2>1, ElsewhereKeeps DEF staff, mail
  <1>5. ASSUME UNCHANGED vars PROVE SInv'
    <2>1. UNCHANGED <<staff, week, publications, mail>>
      BY <1>5 DEF vars
    <2> QED
      BY <2>1, ElsewhereKeeps DEF staff, mail
  <1> QED
    BY <1>1, <1>2, <1>3, <1>4, <1>5, ReadingKeeps, LockKeeps, EmailKeeps, EndingKeeps
    DEF Next, Publish

LEMMA SInvariance == OnePublication /\ Spec => []SInv
  <1> SUFFICES ASSUME OnePublication PROVE Spec => []SInv
    OBVIOUS
  <1>1. IInv /\ SInv /\ [Next]_vars => SInv'
    BY SStep
  <1> QED
    BY <1>1, SInit, Invariance, PTL DEF Spec

\* While publications do not overlap, the row of a week is what its people were
\* told, for any team, days and templates, and however plans, statuses and
\* templates change while a publication reads (schema.prisma, ScheduleWeek).
THEOREM TheSnapshotIsWhatWasTold ==
  ASSUME OnePublication
  PROVE  Spec => []SnapshotIsWhatTheyWereTold
  <1>1. SInv => SnapshotIsWhatTheyWereTold
    BY DEF SInv
  <1>2. Spec => []SInv
    BY SInvariance
  <1> QED
    BY <1>1, <1>2, PTL

\* While publications do not overlap, an update mails nobody what they know
\* (publish: "so fixing one person's Thursday does not resend everyone's week").
THEOREM UpdatesSayNews ==
  ASSUME OnePublication
  PROVE  Spec => []NobodyIsToldTwice
  <1>1. SInv => NobodyIsToldTwice
    BY DEF SInv
  <1>2. Spec => []SInv
    BY SInvariance
  <1> QED
    BY <1>1, <1>2, PTL

-----------------------------------------------------------------------------
\* The calendar.

LEMMA NextDayFollows ==
  ASSUME NEW d, IsDate(d)
  PROVE  IsDate(NextDay(d)) /\ DayNumber(NextDay(d)) = DayNumber(d) + 1
  <1>1. /\ d.month \in Nat /\ d.day \in 1..DaysInMonth(d.month)
        /\ DaysInMonth(d.month) \in 28..31
        /\ d = [month |-> d.month, day |-> d.day]
        /\ DayNumber(d) = Offset(d.month) + d.day /\ Offset(d.month) \in Int
    BY DayNumberOfDate
  <1>2. CASE d.day = DaysInMonth(d.month)
    <2>1. NextDay(d) = [month |-> d.month + 1, day |-> 1]
      BY <1>2 DEF NextDay
    <2>2. DaysInMonth(d.month + 1) \in 28..31
      BY <1>1, MonthLength
    <2>3. IsDate(NextDay(d))
      BY <1>1, <2>1, <2>2 DEF IsDate, Months
    <2>4. DayNumber(NextDay(d)) = Offset(d.month + 1) + 1
      BY <1>1, <2>1, DayNumberOfOffset
    <2> QED
      BY <1>1, <1>2, <2>3, <2>4, OffsetStep
  <1>3. CASE d.day # DaysInMonth(d.month)
    <2>1. NextDay(d) = [month |-> d.month, day |-> d.day + 1]
      BY <1>1, <1>3 DEF NextDay
    <2>2. IsDate(NextDay(d))
      BY <1>1, <1>3, <2>1 DEF IsDate, Months
    <2>3. DayNumber(NextDay(d)) = Offset(d.month) + (d.day + 1)
      BY <1>1, <2>1, DayNumberOfOffset
    <2> QED
      BY <1>1, <2>2, <2>3
  <1> QED
    BY <1>2, <1>3

\* A payday is a day of its month.
LEMMA PaydayIsDate ==
  ASSUME NEW m \in Nat, NEW p \in 1..31
  PROVE  /\ IsDate(PaydayIn(m, p))
         /\ PaydayIn(m, p).month = m
         /\ PaydayIn(m, p).day = Lesser(p, DaysInMonth(m))
         /\ DayNumber(PaydayIn(m, p)) = Offset(m) + Lesser(p, DaysInMonth(m))
  <1>1. DaysInMonth(m) \in 28..31
    BY MonthLength
  <1>2. Lesser(p, DaysInMonth(m)) \in 1..DaysInMonth(m)
    BY <1>1 DEF Lesser
  <1>3. Lesser(p, DaysInMonth(m)) \in Int
    BY <1>1, <1>2
  <1> QED
    BY <1>2, <1>3, DayNumberOfOffset DEF PaydayIn, IsDate, Months

\* The month on the table, in terms of the day and the length of its month.
LEMMA PeriodByDay ==
  ASSUME NEW d, IsDate(d), NEW p \in 1..31
  PROVE  PayrollPeriodFor(p, d)
           = IF Lesser(p, DaysInMonth(d.month)) - d.day > PAYROLL_WINDOW_DAYS
             THEN d.month - 1 ELSE d.month
  <1>1. /\ d.month \in Nat /\ d.day \in Int /\ Offset(d.month) \in Int
        /\ DayNumber(d) = Offset(d.month) + d.day
        /\ DaysInMonth(d.month) \in 28..31
    BY DayNumberOfDate
  <1>2. DayNumber(PaydayIn(d.month, p)) = Offset(d.month) + Lesser(p, DaysInMonth(d.month))
    BY <1>1, PaydayIsDate
  <1>3. Lesser(p, DaysInMonth(d.month)) \in Int
    BY <1>1 DEF Lesser
  <1>4. DaysUntil(PaydayIn(d.month, p), d) = Lesser(p, DaysInMonth(d.month)) - d.day
    BY <1>1, <1>2, <1>3 DEF DaysUntil
  <1> QED
    BY <1>4 DEF PayrollPeriodFor, PeriodFrom, NoPayday

-----------------------------------------------------------------------------
\* The month on the table.

\* A setting stays one of the settings considered, and the day a date.
LEMMA SceneTyped ==
  DueInit => scene \in Scenes /\ WindowTypeOK
  BY DueAssumption DEF DueInit, WindowTypeOK

LEMMA ClockSteps ==
  DueNext \/ UNCHANGED allVars =>
    UNCHANGED <<today, payday>> \/ (today' = NextDay(today) /\ UNCHANGED payday)
  BY DEF DueNext, DayPasses, Midnight, Close, Announce, Watch, Sweep, Start, Collect,
     WriteNext, Finish, Abort, allVars

LEMMA ClockTyped ==
  DueSpec => []WindowTypeOK
  <1>1. DueInit => WindowTypeOK
    BY SceneTyped
  <1>2. WindowTypeOK /\ [DueNext]_allVars => WindowTypeOK'
    BY ClockSteps, NextDayFollows DEF WindowTypeOK
  <1> QED
    BY <1>1, <1>2, PTL DEF DueSpec

LEMMA TableMoves ==
  ASSUME NEW d, IsDate(d), NEW p \in PaydaySettings,
         PayrollPeriodFor(p, NextDay(d)) # PayrollPeriodFor(p, d)
  PROVE  /\ PayrollPeriodFor(p, NextDay(d)) = PayrollPeriodFor(p, d) + 1
         /\ p # NoPayday =>
              DaysUntil(PaydayIn(PayrollPeriodFor(p, NextDay(d)), p), NextDay(d))
                \in 0..PAYROLL_WINDOW_DAYS
  <1> DEFINE n == NextDay(d)
             m == d.month
             L(x) == Lesser(p, DaysInMonth(x))
  <1>1. /\ m \in Nat /\ d.day \in 1..DaysInMonth(m) /\ DaysInMonth(m) \in 28..31
        /\ d = [month |-> m, day |-> d.day]
    BY DayNumberOfDate
  <1>2. IsDate(n)
    BY NextDayFollows
  <1>3. /\ n.month \in Nat /\ n.day \in Int /\ Offset(n.month) \in Int
        /\ DayNumber(n) = Offset(n.month) + n.day
    BY <1>2, DayNumberOfDate
  <1>4. CASE d.day = DaysInMonth(m)
    <2>1. n.month = m + 1 /\ n.day = 1
      BY <1>4 DEF NextDay
    <2>2. CASE p = NoPayday
      BY <1>1, <2>1, <2>2 DEF PayrollPeriodFor
    <2>3. CASE p # NoPayday
      <3>1. p \in 1..31
        BY <2>3 DEF PaydaySettings, NoPayday
      <3>2. DaysInMonth(m + 1) \in 28..31 /\ L(m) \in Int /\ L(m + 1) \in Int
            /\ L(m) <= DaysInMonth(m) /\ L(m + 1) >= 1
        BY <1>1, <3>1, MonthLength DEF Lesser
      <3>3. PayrollPeriodFor(p, d) = m
        BY <1>1, <1>4, <3>1, <3>2, PeriodByDay DEF PAYROLL_WINDOW_DAYS
      <3>4. PayrollPeriodFor(p, n) = IF L(m + 1) - 1 > 2 THEN m ELSE m + 1
        BY <1>1, <1>2, <2>1, <3>1, <3>2, PeriodByDay DEF PAYROLL_WINDOW_DAYS
      <3>5. PayrollPeriodFor(p, n) = m + 1 /\ L(m + 1) - 1 \in 0..2
        BY <1>1, <3>2, <3>3, <3>4
      <3>6. DayNumber(PaydayIn(m + 1, p)) = Offset(m + 1) + L(m + 1)
        BY <1>1, <3>1, PaydayIsDate
      <3>7. DaysUntil(PaydayIn(m + 1, p), n) = L(m + 1) - 1
        BY <1>3, <2>1, <3>2, <3>6 DEF DaysUntil
      <3> QED
        BY <3>3, <3>5, <3>7 DEF PAYROLL_WINDOW_DAYS
    <2> QED
      BY <2>2, <2>3
  <1>5. CASE d.day # DaysInMonth(m)
    <2>1. n.month = m /\ n.day = d.day + 1
      BY <1>1, <1>5 DEF NextDay
    <2>2. p # NoPayday
      BY <2>1 DEF PayrollPeriodFor
    <2>3. p \in 1..31
      BY <2>2 DEF PaydaySettings, NoPayday
    <2>4. L(m) \in Int
      BY <1>1, <2>3 DEF Lesser
    <2>5. PayrollPeriodFor(p, d) = IF L(m) - d.day > 2 THEN m - 1 ELSE m
      BY <2>3, PeriodByDay DEF PAYROLL_WINDOW_DAYS
    <2>6. PayrollPeriodFor(p, n) = IF L(m) - (d.day + 1) > 2 THEN m - 1 ELSE m
      BY <1>2, <2>1, <2>3, PeriodByDay DEF PAYROLL_WINDOW_DAYS
    <2>7. /\ PayrollPeriodFor(p, d) = m - 1 /\ PayrollPeriodFor(p, n) = m
          /\ L(m) - (d.day + 1) \in 0..2
      BY <1>1, <2>4, <2>5, <2>6
    <2>8. DayNumber(PaydayIn(m, p)) = Offset(m) + L(m)
      BY <1>1, <2>3, PaydayIsDate
    <2>9. DaysUntil(PaydayIn(m, p), n) = L(m) - (d.day + 1)
      BY <1>1, <1>3, <2>1, <2>4, <2>8 DEF DaysUntil
    <2> QED
      BY <1>1, <2>7, <2>9 DEF PAYROLL_WINDOW_DAYS
  <1> QED
    BY <1>4, <1>5

\* Whatever day of the month payday is, and in every month of every year, the
\* month on the table moves only to the next one, on a day when that month's
\* payday is at most two days ahead and not past (payrollPeriodFor).
THEOREM TableHandsOverInItsWindow ==
  DueSpec => HandsOverInItsWindow
  <1>1. WindowTypeOK /\ [DueNext]_allVars =>
          [ OnTheTable' # OnTheTable =>
              /\ OnTheTable' = OnTheTable + 1
              /\ payday # NoPayday =>
                   DaysUntil(PaydayIn(OnTheTable', payday), today')
                     \in 0..PAYROLL_WINDOW_DAYS ]_windowVars
    <2> SUFFICES ASSUME WindowTypeOK, [DueNext]_allVars, OnTheTable' # OnTheTable
                 PROVE  /\ OnTheTable' = OnTheTable + 1
                        /\ payday # NoPayday =>
                             DaysUntil(PaydayIn(OnTheTable', payday), today')
                               \in 0..PAYROLL_WINDOW_DAYS
      OBVIOUS
    <2>1. today' = NextDay(today) /\ payday' = payday
      BY ClockSteps DEF OnTheTable
    <2>2. IsDate(today) /\ payday \in PaydaySettings
      BY WindowAssumption DEF WindowTypeOK
    <2> QED
      BY <2>1, <2>2, TableMoves DEF OnTheTable
  <1> QED
    BY <1>1, ClockTyped, PTL DEF DueSpec, HandsOverInItsWindow

-----------------------------------------------------------------------------
\* The payday reminded of.

\* One day of a month is a payday, and it is the one paydayIn gives.
LEMMA OnePaydayAMonth ==
  ASSUME NEW e, IsDate(e), payday \in 1..31
  PROVE  IsPayday(e) <=> e = PaydayIn(e.month, payday)
  <1>1. /\ e.month \in Nat /\ e.day \in 1..DaysInMonth(e.month)
        /\ DaysInMonth(e.month) \in 28..31
        /\ e = [month |-> e.month, day |-> e.day]
    BY DayNumberOfDate
  <1>2. IsPayday(e) <=> e.day = Lesser(payday, DaysInMonth(e.month))
    BY <1>1 DEF IsPayday, Lesser
  <1> QED
    BY <1>1, <1>2 DEF PaydayIn

\* The days looked through are dates of this month, from today, and of the next.
LEMMA DaysLookedThrough ==
  ASSUME NEW d, IsDate(d)
  PROVE  \A e : e \in DaysFrom(d) <=>
           /\ IsDate(e)
           /\ \/ e.month = d.month /\ e.day >= d.day
              \/ e.month = d.month + 1
  <1>1. /\ d.month \in Nat /\ d.day \in 1..DaysInMonth(d.month)
        /\ DaysInMonth(d.month) \in 28..31
    BY DayNumberOfDate
  <1>2. DaysInMonth(d.month + 1) \in 28..31
    BY <1>1, MonthLength
  <1> QED
    BY <1>1, <1>2 DEF DaysFrom, IsDate, Months

\* The next payday the code computes is the first one on or after the day.
LEMMA NextPaydayIsFirst ==
  ASSUME NEW d, IsDate(d), payday \in 1..31
  PROVE  NextPayday(payday, d) = PaydayAfter(d)
  <1> DEFINE m == d.month
             L(x) == Lesser(payday, DaysInMonth(x))
             this == PaydayIn(m, payday)
             that == PaydayIn(m + 1, payday)
             next == NextPayday(payday, d)
             First(x) == x \in DaysFrom(d) /\ IsPayday(x)
                           /\ \A e \in DaysFrom(d) : IsPayday(e) => DaysUntil(x, e) <= 0
  <1>1. /\ m \in Nat /\ m + 1 \in Nat /\ d.day \in 1..DaysInMonth(m)
        /\ DaysInMonth(m) \in 28..31 /\ DaysInMonth(m + 1) \in 28..31
        /\ Offset(m) \in Int /\ Offset(m + 1) = Offset(m) + DaysInMonth(m)
        /\ DayNumber(d) = Offset(m) + d.day
    BY DayNumberOfDate, MonthLength, OffsetStep
  <1>2. /\ L(m) \in 1..DaysInMonth(m) /\ L(m + 1) \in 1..DaysInMonth(m + 1)
    BY <1>1 DEF Lesser
  <1>3. /\ IsDate(this) /\ this.month = m /\ this.day = L(m)
        /\ DayNumber(this) = Offset(m) + L(m)
    BY <1>1, PaydayIsDate
  <1>4. /\ IsDate(that) /\ that.month = m + 1 /\ that.day = L(m + 1)
        /\ DayNumber(that) = Offset(m + 1) + L(m + 1)
    BY <1>1, PaydayIsDate
  <1> HIDE DEF this, that, L
  <1>5. \A e : e \in DaysFrom(d) /\ IsPayday(e) <=>
                 e = that \/ (e = this /\ L(m) >= d.day)
    <2>1. \A e : e \in DaysFrom(d) => IsDate(e) /\ e.month \in {m, m + 1}
      BY DaysLookedThrough
    <2>2. \A e : e \in DaysFrom(d) /\ IsPayday(e) => e = that \/ e = this
      BY <2>1, OnePaydayAMonth DEF this, that
    <2>3. IsPayday(this) /\ IsPayday(that)
      BY <1>3, <1>4, OnePaydayAMonth DEF this, that
    <2>4. that \in DaysFrom(d)
      BY <1>4, DaysLookedThrough
    <2>5. this \in DaysFrom(d) <=> L(m) >= d.day
      BY <1>1, <1>3, DaysLookedThrough
    <2> QED
      BY <2>2, <2>3, <2>4, <2>5
  <1>6. DayNumber(this) < DayNumber(that)
    BY <1>1, <1>2, <1>3, <1>4
  <1>7. /\ DaysUntil(this, that) <= 0 /\ ~(DaysUntil(that, this) <= 0)
        /\ DaysUntil(this, this) <= 0 /\ DaysUntil(that, that) <= 0
    BY <1>1, <1>2, <1>3, <1>4, <1>6 DEF DaysUntil
  <1>8. next = IF L(m) >= d.day THEN this ELSE that
    BY <1>1, <1>2, <1>3 DEF NextPayday, DaysUntil, this, that
  <1> HIDE DEF next
  <1>9. First(next) /\ \A x : First(x) => x = next
    <2>1. CASE L(m) >= d.day
      <3>1. \A e : e \in DaysFrom(d) /\ IsPayday(e) <=> e = that \/ e = this
        BY <1>5, <2>1
      <3>2. next = this
        BY <1>8, <2>1
      <3> QED
        BY <1>7, <3>1, <3>2
    <2>2. CASE ~(L(m) >= d.day)
      <3>1. \A e : e \in DaysFrom(d) /\ IsPayday(e) <=> e = that
        BY <1>5, <2>2
      <3>2. next = that
        BY <1>8, <2>2
      <3> QED
        BY <1>7, <3>1, <3>2
    <2> QED
      BY <2>1, <2>2
  <1> QED
    BY <1>9 DEF PaydayAfter, next

\* How many days ahead that is, and whose month is on the table meanwhile.
LEMMA TableAheadOfPayday ==
  ASSUME NEW d, IsDate(d), NEW p \in 3..31,
         DaysUntil(NextPayday(p, d), d) \in 0..3
  PROVE  PayrollPeriodFor(p, d)
           = IF DaysUntil(NextPayday(p, d), d) <= PAYROLL_WINDOW_DAYS
             THEN NextPayday(p, d).month ELSE NextPayday(p, d).month - 1
  <1> DEFINE m == d.month
             L(x) == Lesser(p, DaysInMonth(x))
  <1>1. /\ m \in Nat /\ m + 1 \in Nat /\ d.day \in 1..DaysInMonth(m)
        /\ DaysInMonth(m) \in 28..31 /\ DaysInMonth(m + 1) \in 28..31
        /\ Offset(m) \in Int /\ Offset(m + 1) = Offset(m) + DaysInMonth(m)
        /\ DayNumber(d) = Offset(m) + d.day
    BY DayNumberOfDate, MonthLength, OffsetStep
  <1>2. L(m) \in 3..31 /\ L(m + 1) \in 3..31
    BY <1>1 DEF Lesser
  <1>3. p \in 1..31
    OBVIOUS
  <1>4. /\ PaydayIn(m, p).month = m /\ DaysUntil(PaydayIn(m, p), d) = L(m) - d.day
        /\ PaydayIn(m + 1, p).month = m + 1
        /\ DaysUntil(PaydayIn(m + 1, p), d) = DaysInMonth(m) + L(m + 1) - d.day
    <2>1. /\ PaydayIn(m, p).month = m /\ DayNumber(PaydayIn(m, p)) = Offset(m) + L(m)
          /\ PaydayIn(m + 1, p).month = m + 1
          /\ DayNumber(PaydayIn(m + 1, p)) = Offset(m + 1) + L(m + 1)
      BY <1>1, <1>3, PaydayIsDate
    <2> QED
      BY <1>1, <1>2, <2>1 DEF DaysUntil
  <1>5. PayrollPeriodFor(p, d) = IF L(m) - d.day > 2 THEN m - 1 ELSE m
    BY <1>3, PeriodByDay DEF PAYROLL_WINDOW_DAYS
  <1> HIDE DEF L
  <1>6. CASE L(m) - d.day >= 0
    <2>1. NextPayday(p, d) = PaydayIn(m, p)
      BY <1>4, <1>6 DEF NextPayday
    <2> QED
      BY <1>1, <1>2, <1>4, <1>5, <1>6, <2>1 DEF PAYROLL_WINDOW_DAYS
  <1>7. CASE ~(L(m) - d.day >= 0)
    <2>1. NextPayday(p, d) = PaydayIn(m + 1, p)
      BY <1>4, <1>7 DEF NextPayday
    <2> QED
      BY <1>1, <1>2, <1>4, <1>5, <1>7, <2>1 DEF PAYROLL_WINDOW_DAYS
  <1> QED
    BY <1>6, <1>7

\* With a payday from the third of the month on, every day of every year the
\* reminder is of the nearest payday and the button of the salaries it is for.
\* On the first and the second the window opens in the month before and the two
\* part company (payrollPeriodFor looks at this month's payday only).
THEOREM ReminderAndButtonAgree ==
  ASSUME Settings \subseteq {NoPayday} \union 3..31
  PROVE  DueSpec => []ReminderMatchesTheButton
  <1>1. WindowTypeOK => ReminderMatchesTheButton
    <2> SUFFICES ASSUME WindowTypeOK, payday # NoPayday
                 PROVE  LET next == NextPayday(payday, today)
                            away == DaysUntil(next, today)
                        IN  /\ next = PaydayAfter(today)
                            /\ away \in 0..3 =>
                                 OnTheTable = IF away <= PAYROLL_WINDOW_DAYS
                                              THEN next.month ELSE next.month - 1
      BY DEF ReminderMatchesTheButton
    <2>1. IsDate(today) /\ payday \in 3..31 /\ payday \in 1..31
      BY DEF WindowTypeOK
    <2> QED
      BY <2>1, NextPaydayIsFirst, TableAheadOfPayday DEF OnTheTable
  <1> QED
    BY <1>1, ClockTyped, PTL

-----------------------------------------------------------------------------
\* The lists on the screen.

Distinct(list) == \A i, j \in DOMAIN list : list[i].id = list[j].id => i = j

\* What a filter keeps: the entries at those places, one each, in their order.
LEMMA KeptIs ==
  ASSUME NEW T, NEW list \in Seq(T), NEW places \in SUBSET DOMAIN list
  PROVE  \E at \in [1..Cardinality(places) -> places] :
           /\ Cardinality(places) \in Nat
           /\ \A n, m \in 1..Cardinality(places) : at[n] = at[m] => n = m
           /\ \A i \in places : \E n \in 1..Cardinality(places) : at[n] = i
           /\ Kept(list, places) = [n \in 1..Cardinality(places) |-> list[at[n]]]
  <1> DEFINE N == Cardinality(places)
             U == [i \in places |-> {j \in places : j <= i}]
             upTo(i) == Cardinality(U[i])
             at == [n \in 1..N |->
                      CHOOSE i \in places : Cardinality({j \in places : j <= i}) = n]
  <1>1. DOMAIN list = 1..Len(list) /\ Len(list) \in Nat
    OBVIOUS
  <1>2. IsFiniteSet(1..Len(list))
    BY <1>1, FS_Interval
  <1>3. IsFiniteSet(places) /\ places \in SUBSET Nat
    BY <1>1, <1>2, FS_Subset
  <1>4. /\ N \in Nat /\ \A i \in places : upTo(i) \in 1..N
        /\ \A i, j \in places : upTo(i) = upTo(j) => i = j
        /\ \A n \in 1..N : \E i \in places : upTo(i) = n
    <2>1. \A i \in places : U[i] \in SUBSET places /\ \A j \in places : j \in U[i] <=> j <= i
      OBVIOUS
    <2> HIDE DEF U, at
    <2> QED
      BY <1>3, <2>1, CountedOff
  <1>5. Kept(list, places) = [n \in 1..N |-> list[at[n]]]
    BY DEF Kept
  <1>6. \A n \in 1..N : at[n] \in places /\ upTo(at[n]) = n
    <2> SUFFICES ASSUME NEW n \in 1..N PROVE at[n] \in places /\ upTo(at[n]) = n
      OBVIOUS
    <2>1. PICK i \in places : upTo(i) = n
      BY <1>4
    <2>2. i \in places /\ Cardinality({j \in places : j <= i}) = n
      BY <2>1
    <2>3. at[n] \in places /\ Cardinality({j \in places : j <= at[n]}) = n
      BY <2>2
    <2> QED
      BY <2>3
  <1> HIDE DEF at, upTo
  <1>7. at \in [1..N -> places]
    BY <1>6 DEF at
  <1>8. \A n, m \in 1..N : at[n] = at[m] => n = m
    BY <1>6
  <1>9. \A i \in places : \E n \in 1..N : at[n] = i
    <2>1. \A i \in places : upTo(i) \in 1..N /\ at[upTo(i)] = i
      BY <1>4, <1>6
    <2> QED
      BY <2>1
  <1> WITNESS at \in [1..Cardinality(places) -> places]
  <1> QED
    BY <1>4, <1>5, <1>8, <1>9

LEMMA NotAmongIs ==
  ASSUME NEW list \in Seq(Shown), Distinct(list), NEW ids
  PROVE  /\ NotAmong(list, ids) \in Seq(Shown)
         /\ Distinct(NotAmong(list, ids))
         /\ \A n \in DOMAIN NotAmong(list, ids) :
              /\ NotAmong(list, ids)[n].id \notin ids
              /\ \E i \in DOMAIN list : NotAmong(list, ids)[n] = list[i]
         /\ \A i \in DOMAIN list : list[i].id \notin ids =>
              \E n \in DOMAIN NotAmong(list, ids) : NotAmong(list, ids)[n] = list[i]
  <1> DEFINE places == {i \in DOMAIN list : list[i].id \notin ids}
             N == Cardinality(places)
             kept == NotAmong(list, ids)
  <1>1. PICK at \in [1..N -> places] :
           /\ N \in Nat
           /\ \A n, m \in 1..N : at[n] = at[m] => n = m
           /\ \A i \in places : \E n \in 1..N : at[n] = i
           /\ Kept(list, places) = [n \in 1..N |-> list[at[n]]]
    <2> places \in SUBSET DOMAIN list
      OBVIOUS
    <2> HIDE DEF places
    <2> QED
      BY KeptIs
  <1>2. \A n \in 1..N : at[n] \in places
    OBVIOUS
  <1>3. kept = [n \in 1..N |-> list[at[n]]]
    BY <1>1 DEF NotAmong
  <1>4. /\ DOMAIN kept = 1..N
        /\ \A n \in 1..N : kept[n] = list[at[n]]
    BY <1>3
  <1>5. \A i \in DOMAIN list : list[i] \in Shown
    OBVIOUS
  <1>6. \A n \in 1..N : /\ at[n] \in DOMAIN list /\ list[at[n]].id \notin ids
                        /\ list[at[n]] \in Shown
    BY <1>2, <1>5
  <1>7. kept \in Seq(Shown)
    BY <1>1, <1>3, <1>6
  <1> HIDE DEF N, kept
  <1>8. Distinct(kept)
    BY <1>1, <1>4, <1>6 DEF Distinct
  <1>9. \A i \in DOMAIN list : list[i].id \notin ids => \E n \in DOMAIN kept : kept[n] = list[i]
    <2>1. \A i \in places : \E n \in DOMAIN kept : at[n] = i /\ n \in 1..N
      BY <1>1, <1>4
    <2>2. \A i \in places : \E n \in DOMAIN kept : kept[n] = list[i]
      BY <1>4, <2>1
    <2> QED
      BY <2>2
  <1> QED
    BY <1>4, <1>6, <1>7, <1>8, <1>9 DEF kept

\* Two lists without an id in common, one after the other.
LEMMA JoinDistinct ==
  ASSUME NEW s \in Seq(Shown), NEW t \in Seq(Shown), Distinct(s), Distinct(t),
         \A i \in DOMAIN s, j \in DOMAIN t : s[i].id # t[j].id
  PROVE  /\ s \o t \in Seq(Shown) /\ Distinct(s \o t)
         /\ \A i \in DOMAIN s : \E k \in DOMAIN (s \o t) : (s \o t)[k] = s[i]
         /\ \A j \in DOMAIN t : \E k \in DOMAIN (s \o t) : (s \o t)[k] = t[j]
  <1> DEFINE c == s \o t
  <1>1. /\ Len(s) \in Nat /\ Len(t) \in Nat
        /\ DOMAIN s = 1..Len(s) /\ DOMAIN t = 1..Len(t)
        /\ c \in Seq(Shown) /\ Len(c) = Len(s) + Len(t) /\ DOMAIN c = 1..(Len(s) + Len(t))
    OBVIOUS
  <1>2. /\ \A i \in 1..Len(s) : c[i] = s[i]
        /\ \A i \in 1..Len(t) : c[Len(s) + i] = t[i]
    OBVIOUS
  <1> HIDE DEF c
  <1>3. \A k \in DOMAIN c : k > Len(s) => k - Len(s) \in 1..Len(t) /\ c[k] = t[k - Len(s)]
    <2> SUFFICES ASSUME NEW k \in DOMAIN c, k > Len(s)
                 PROVE  k - Len(s) \in 1..Len(t) /\ c[k] = t[k - Len(s)]
      OBVIOUS
    <2>1. k - Len(s) \in 1..Len(t) /\ k = Len(s) + (k - Len(s))
      BY <1>1
    <2> QED
      BY <1>2, <2>1
  <1>4. \A k \in DOMAIN c : ~(k > Len(s)) => k \in 1..Len(s) /\ c[k] = s[k]
    BY <1>1, <1>2
  <1>5. Distinct(c)
    <2> SUFFICES ASSUME NEW k \in DOMAIN c, NEW m \in DOMAIN c, c[k].id = c[m].id
                 PROVE  k = m
      BY DEF Distinct
    <2>1. CASE k > Len(s) /\ m > Len(s)
      <3>1. k - Len(s) = m - Len(s)
        BY <1>1, <1>3, <2>1 DEF Distinct
      <3>2. k \in Int /\ m \in Int
        BY <1>1
      <3> QED
        BY <1>1, <3>1, <3>2
    <2>2. CASE k > Len(s) /\ ~(m > Len(s))
      BY <1>1, <1>3, <1>4, <2>2
    <2>3. CASE ~(k > Len(s)) /\ m > Len(s)
      BY <1>1, <1>3, <1>4, <2>3
    <2>4. CASE ~(k > Len(s)) /\ ~(m > Len(s))
      BY <1>1, <1>4, <2>4 DEF Distinct
    <2> QED
      BY <2>1, <2>2, <2>3, <2>4
  <1>6. \A i \in DOMAIN s : i \in DOMAIN c /\ c[i] = s[i]
    BY <1>1, <1>2
  <1>7. \A j \in DOMAIN t : Len(s) + j \in DOMAIN c /\ c[Len(s) + j] = t[j]
    BY <1>1, <1>2
  <1> QED
    BY <1>1, <1>5, <1>6, <1>7 DEF c

LEMMA MergeDistinct ==
  ASSUME NEW current \in Seq(Shown), NEW incoming \in Seq(Shown),
         Distinct(current), Distinct(incoming)
  PROVE  /\ MergeById(current, incoming) \in Seq(Shown)
         /\ Distinct(MergeById(current, incoming))
  <1> DEFINE new == NotAmong(incoming, IdsOf(current))
  <1>1. /\ new \in Seq(Shown) /\ Distinct(new)
        /\ \A n \in DOMAIN new : new[n].id \notin IdsOf(current)
    BY NotAmongIs
  <1> HIDE DEF new
  <1>2. \A i \in DOMAIN current, n \in DOMAIN new : current[i].id # new[n].id
    BY <1>1 DEF IdsOf
  <1>3. current \o new \in Seq(Shown) /\ Distinct(current \o new)
    BY <1>1, <1>2, JoinDistinct
  <1> QED
    BY <1>3 DEF MergeById, new

\* Folding a fresh page in: no id twice, and every row of the page shown as it is.
LEMMA LatestDistinct ==
  ASSUME NEW current \in Seq(Shown), NEW latest \in Seq(Shown),
         Distinct(current), Distinct(latest)
  PROVE  /\ WithLatest(current, latest) \in Seq(Shown)
         /\ Distinct(WithLatest(current, latest))
         /\ \A i \in DOMAIN latest :
              \E k \in DOMAIN WithLatest(current, latest) :
                WithLatest(current, latest)[k] = latest[i]
  <1> DEFINE new == NotAmong(latest, IdsOf(current))
             fresh(row) == IF row.id \in IdsOf(latest)
                           THEN latest[CHOOSE i \in DOMAIN latest : latest[i].id = row.id]
                           ELSE row
             old == [i \in DOMAIN current |-> fresh(current[i])]
  <1>1. /\ new \in Seq(Shown) /\ Distinct(new)
        /\ \A n \in DOMAIN new : new[n].id \notin IdsOf(current)
        /\ \A i \in DOMAIN latest : latest[i].id \notin IdsOf(current) =>
             \E n \in DOMAIN new : new[n] = latest[i]
    BY NotAmongIs
  <1>2. /\ \A i \in DOMAIN current : current[i] \in Shown
        /\ \A i \in DOMAIN latest : latest[i] \in Shown
        /\ Len(current) \in Nat /\ DOMAIN current = 1..Len(current)
    OBVIOUS
  <1>3. \A row \in Shown : fresh(row) \in Shown /\ fresh(row).id = row.id
    <2> SUFFICES ASSUME NEW row \in Shown
                 PROVE  fresh(row) \in Shown /\ fresh(row).id = row.id
      OBVIOUS
    <2>1. CASE row.id \in IdsOf(latest)
      <3>1. PICK i \in DOMAIN latest : latest[i].id = row.id
        BY <2>1 DEF IdsOf
      <3> DEFINE j == CHOOSE k \in DOMAIN latest : latest[k].id = row.id
      <3>2. j \in DOMAIN latest /\ latest[j].id = row.id
        BY <3>1
      <3>3. fresh(row) = latest[j]
        BY <2>1
      <3> QED
        BY <1>2, <3>2, <3>3
    <2>2. CASE row.id \notin IdsOf(latest)
      BY <2>2
    <2> QED
      BY <2>1, <2>2
  <1>4. \A i \in DOMAIN latest, row \in Shown : row.id = latest[i].id => fresh(row) = latest[i]
    <2> SUFFICES ASSUME NEW i \in DOMAIN latest, NEW row \in Shown, row.id = latest[i].id
                 PROVE  fresh(row) = latest[i]
      OBVIOUS
    <2> DEFINE j == CHOOSE k \in DOMAIN latest : latest[k].id = row.id
    <2>1. j \in DOMAIN latest /\ latest[j].id = row.id
      OBVIOUS
    <2>2. row.id \in IdsOf(latest)
      BY DEF IdsOf
    <2>3. fresh(row) = latest[j]
      BY <2>2
    <2> HIDE DEF j
    <2>4. j = i
      BY <2>1 DEF Distinct
    <2> QED
      BY <2>3, <2>4
  <1> HIDE DEF fresh, new
  <1>5. /\ old \in Seq(Shown) /\ DOMAIN old = DOMAIN current
        /\ \A i \in DOMAIN current : old[i] = fresh(current[i]) /\ old[i].id = current[i].id
    BY <1>2, <1>3
  <1> HIDE DEF old
  <1>6. Distinct(old)
    BY <1>5 DEF Distinct
  <1>7. \A n \in DOMAIN new, i \in DOMAIN old : new[n].id # old[i].id
    BY <1>1, <1>5 DEF IdsOf
  <1>8. /\ new \o old \in Seq(Shown) /\ Distinct(new \o old)
        /\ \A n \in DOMAIN new : \E k \in DOMAIN (new \o old) : (new \o old)[k] = new[n]
        /\ \A i \in DOMAIN old : \E k \in DOMAIN (new \o old) : (new \o old)[k] = old[i]
    BY <1>1, <1>5, <1>6, <1>7, JoinDistinct
  <1>9. WithLatest(current, latest) = new \o old
    BY DEF WithLatest, new, old, fresh
  <1>10. ASSUME NEW i \in DOMAIN latest
         PROVE  \E k \in DOMAIN (new \o old) : (new \o old)[k] = latest[i]
    <2>1. CASE latest[i].id \in IdsOf(current)
      <3>1. PICK m \in DOMAIN current : current[m].id = latest[i].id
        BY <2>1 DEF IdsOf
      <3>2. old[m] = latest[i] /\ m \in DOMAIN old
        BY <1>2, <1>4, <1>5, <3>1
      <3> QED
        BY <1>8, <3>2
    <2>2. CASE latest[i].id \notin IdsOf(current)
      <3>1. PICK n \in DOMAIN new : new[n] = latest[i]
        BY <1>1, <2>2
      <3> QED
        BY <1>8, <3>1
    <2> QED
      BY <2>1, <2>2
  <1> QED
    BY <1>8, <1>9, <1>10

-----------------------------------------------------------------------------
\* The server's table, whatever keys its rows carry.

TableOf(Keys) == Seq([key : Keys, read : BOOLEAN])

\* A page is a run of ids counted down: no id twice.
LEMMA PageIs ==
  ASSUME NEW Keys, rows \in TableOf(Keys), NEW cursor \in Nat
  PROVE  /\ PageOf(cursor) \in Seq(Shown) /\ Distinct(PageOf(cursor))
         /\ NextCursor(cursor) \in Nat
  <1> DEFINE n == Newest(cursor)
             take == IF n < PAGE_SIZE THEN n ELSE PAGE_SIZE
             page == PageOf(cursor)
  <1>1. /\ Len(rows) \in Nat /\ DOMAIN rows = 1..Len(rows)
        /\ \A i \in DOMAIN rows : rows[i].read \in BOOLEAN
    <2>1. \A Row : rows \in Seq(Row) => \A i \in DOMAIN rows : rows[i] \in Row
      OBVIOUS
    <2>2. \A i \in DOMAIN rows : rows[i] \in [key : Keys, read : BOOLEAN]
      BY <2>1 DEF TableOf
    <2>3. \A i \in DOMAIN rows : rows[i].read \in BOOLEAN
      BY <2>2
    <2> QED
      BY <2>3 DEF TableOf
  <1>2. n \in Nat /\ n <= Len(rows)
    BY <1>1 DEF Newest
  <1>3. take \in Nat /\ take <= n /\ take <= PAGE_SIZE /\ (n > PAGE_SIZE => take = PAGE_SIZE)
    BY <1>2, FeedAssumption
  <1>4. page = [i \in 1..take |-> [id |-> n + 1 - i, read |-> rows[n + 1 - i].read]]
    BY DEF PageOf
  <1> HIDE DEF n, page
  <1>5. \A i \in 1..take : n + 1 - i \in 1..Len(rows) /\ n + 1 - i \in Ids
    BY <1>1, <1>2, <1>3 DEF Ids
  <1>6. \A i \in 1..take : [id |-> n + 1 - i, read |-> rows[n + 1 - i].read] \in Shown
    BY <1>1, <1>5 DEF Shown
  <1>7. page \in Seq(Shown)
    BY <1>3, <1>4, <1>6
  <1>8. DOMAIN page = 1..take /\ \A i \in 1..take : page[i].id = n + 1 - i
    BY <1>4
  <1>9. Distinct(page)
    BY <1>2, <1>3, <1>8 DEF Distinct
  <1>10. NextCursor(cursor) \in Nat
    <2>1. CASE n > PAGE_SIZE
      <3>1. PAGE_SIZE \in 1..take /\ NextCursor(cursor) = page[PAGE_SIZE].id
        BY <1>3, <2>1, FeedAssumption DEF NextCursor, n, page
      <3> QED
        BY <1>5, <1>8, <3>1 DEF Ids
    <2>2. CASE ~(n > PAGE_SIZE)
      BY <2>2 DEF NextCursor, n
    <2> QED
      BY <2>1, <2>2
  <1> QED
    BY <1>7, <1>9, <1>10 DEF page

LEMMA UnreadCounted ==
  ASSUME NEW Keys, rows \in TableOf(Keys)
  PROVE  Cardinality(Unread) \in Nat
  <1>1. Len(rows) \in Nat /\ DOMAIN rows = 1..Len(rows)
    BY DEF TableOf
  <1>2. IsFiniteSet(1..Len(rows)) /\ Unread \subseteq 1..Len(rows)
    BY <1>1, FS_Interval DEF Unread
  <1> QED
    BY <1>2, FS_Subset, FS_CardinalityType

-----------------------------------------------------------------------------
\* The feed's invariant.

Todo == {"page", "count", "mark"}
CallRecords == [kind : Kinds, id : Nat, page : Seq(Shown), next : Nat, count : Nat,
                todo : SUBSET Todo]
Screens == [list : Seq(Shown), count : Nat, cursor : Nat, loadingMore : BOOLEAN]

FeedInv(Keys) ==
  /\ rows \in TableOf(Keys)
  /\ live \in BOOLEAN /\ socket \in {"up", "down"} /\ pushed \in Seq(Ids)
  /\ screen \in Screens /\ calls \in [Calls -> CallRecords]
  /\ clicks \in 0..MaxClicks /\ failed \in 0..MaxFailed
  /\ Distinct(screen.list)
  /\ \A c \in Calls : Distinct(calls[c].page)

LEMMA EmptyList ==
  << >> \in Seq(Shown) /\ Distinct(<< >>)
  BY DEF Distinct

LEMMA CallsStarted ==
  /\ NoCall \in CallRecords /\ Distinct(NoCall.page) /\ NoCall.page = << >>
  /\ \A kind \in Kinds, cursor \in Nat :
       ListCall(kind, cursor) \in CallRecords /\ ListCall(kind, cursor).page = << >>
  /\ \A id \in Nat :
       LET call == [NoCall EXCEPT !.kind = "read", !.id = id, !.todo = {"mark", "count"}]
       IN  call \in CallRecords /\ Distinct(call.page)
  /\ LET call == [NoCall EXCEPT !.kind = "readAll", !.todo = {"mark"}]
     IN  call \in CallRecords /\ Distinct(call.page)
  BY EmptyList DEF NoCall, CallRecords, ListCall, Kinds, Todo

LEMMA FeedStarts ==
  ASSUME NEW Keys, FeedInit
  PROVE  FeedInv(Keys)
  <1>1. rows \in TableOf(Keys) /\ pushed \in Seq(Ids)
    BY DEF FeedInit, TableOf
  <1>2. screen \in Screens /\ Distinct(screen.list)
    BY EmptyList DEF FeedInit, Blank, Screens
  <1>3. /\ calls \in [Calls -> CallRecords]
        /\ \A c \in Calls : Distinct(calls[c].page)
    <2>1. "load" \in Kinds /\ 0 \in Nat
      BY DEF Kinds
    <2> QED
      BY <2>1, CallsStarted, EmptyList DEF FeedInit
  <1> QED
    BY <1>1, <1>2, <1>3, FeedAssumption DEF FeedInit, FeedInv

\* A call's new record, one id once on its page.
LEMMA OneCallMoves ==
  ASSUME NEW c \in Calls, NEW call \in CallRecords, Distinct(call.page),
         calls \in [Calls -> CallRecords], \A d \in Calls : Distinct(calls[d].page),
         calls' = [calls EXCEPT ![c] = call]
  PROVE  /\ calls' \in [Calls -> CallRecords]
         /\ \A d \in Calls : Distinct(calls'[d].page)
  OBVIOUS

\* Greying rows moves no id.
LEMMA GreyedIs ==
  ASSUME NEW list \in Seq(Shown), NEW which
  PROVE  /\ Greyed(list, which) \in Seq(Shown)
         /\ Distinct(list) => Distinct(Greyed(list, which))
  <1>1. /\ Len(list) \in Nat /\ DOMAIN list = 1..Len(list)
        /\ \A i \in DOMAIN list : list[i] \in Shown
    OBVIOUS
  <1> DEFINE grey == Greyed(list, which)
  <1>2. /\ DOMAIN grey = 1..Len(list)
        /\ \A i \in 1..Len(list) : grey[i] \in Shown /\ grey[i].id = list[i].id
    BY <1>1 DEF Greyed, Shown
  <1>3. grey = [i \in 1..Len(list) |-> grey[i]]
    BY <1>1 DEF Greyed
  <1> HIDE DEF grey
  <1>4. grey \in Seq(Shown)
    BY <1>1, <1>2, <1>3
  <1> QED
    BY <1>1, <1>2, <1>4 DEF Distinct, grey

\* A pushed row on top of those shown, unless it is one of them.
LEMMA PushedOnTop ==
  ASSUME NEW list \in Seq(Shown), Distinct(list), NEW row \in Shown,
         row.id \notin IdsOf(list)
  PROVE  <<row>> \o list \in Seq(Shown) /\ Distinct(<<row>> \o list)
  <1>1. <<row>> \in Seq(Shown) /\ DOMAIN <<row>> = {1} /\ <<row>>[1] = row
    OBVIOUS
  <1>2. Distinct(<<row>>)
    BY <1>1 DEF Distinct
  <1>3. \A i \in DOMAIN <<row>>, j \in DOMAIN list : <<row>>[i].id # list[j].id
    BY <1>1 DEF IdsOf
  <1> QED
    BY <1>1, <1>2, <1>3, JoinDistinct

\* What the browser and the server do to the table: rows read, none taken away
\* and none renamed.
LEMMA RowsStay ==
  ASSUME NEW Keys, rows \in TableOf(Keys), FeedNext
  PROVE  /\ rows' \in TableOf(Keys) /\ DOMAIN rows' = DOMAIN rows
         /\ \A i \in DOMAIN rows : rows'[i].key = rows[i].key
  <1>1. CASE UNCHANGED rows
    BY <1>1
  <1>2. ASSUME NEW c \in Calls, Mark(c)
        PROVE  /\ rows' \in TableOf(Keys) /\ DOMAIN rows' = DOMAIN rows
               /\ \A i \in DOMAIN rows : rows'[i].key = rows[i].key
    <2> DEFINE Row == [key : Keys, read : BOOLEAN]
               which == {i \in DOMAIN rows : calls[c].kind = "readAll" \/ i = calls[c].id}
    <2>1. \A S : rows \in Seq(S) => /\ Len(rows) \in Nat /\ DOMAIN rows = 1..Len(rows)
                                    /\ \A i \in DOMAIN rows : rows[i] \in S
      OBVIOUS
    <2>2. /\ Len(rows) \in Nat /\ DOMAIN rows = 1..Len(rows)
          /\ \A i \in DOMAIN rows : rows[i] \in Row
      BY <2>1 DEF TableOf
    <2>3. rows' = [i \in 1..Len(rows) |->
                     IF i \in which THEN [rows[i] EXCEPT !.read = TRUE] ELSE rows[i]]
      BY <1>2, <2>2 DEF Mark
    <2>4. \A i \in DOMAIN rows : [rows[i] EXCEPT !.read = TRUE] \in Row
                                 /\ [rows[i] EXCEPT !.read = TRUE].key = rows[i].key
      BY <2>2
    <2> HIDE DEF Row, which
    <2>5. /\ DOMAIN rows' = 1..Len(rows)
          /\ \A i \in 1..Len(rows) : rows'[i] \in Row /\ rows'[i].key = rows[i].key
      BY <2>2, <2>3, <2>4
    <2>6. rows' \in Seq(Row)
      BY <2>2, <2>3, <2>4
    <2> QED
      BY <2>2, <2>5, <2>6 DEF TableOf, Row
  <1> QED
    BY <1>1, <1>2 DEF FeedNext, FeedStep, ReadPage, ReadCount, LoadMore, Poll, MarkRead,
       MarkAllRead, Answer, Failed, Handshake, Receive, Drop

\* Every step of the feed keeps its invariant.
LEMMA FeedHolds ==
  ASSUME NEW Keys, FeedInv(Keys), FeedNext
  PROVE  FeedInv(Keys)'
  <1>1. rows \in TableOf(Keys) /\ rows' \in TableOf(Keys)
    BY RowsStay DEF FeedInv
  <1>2. /\ live \in BOOLEAN /\ socket \in {"up", "down"} /\ pushed \in Seq(Ids)
        /\ screen \in Screens /\ calls \in [Calls -> CallRecords]
        /\ clicks \in 0..MaxClicks /\ failed \in 0..MaxFailed
        /\ Distinct(screen.list) /\ \A d \in Calls : Distinct(calls[d].page)
    BY DEF FeedInv
  <1>3. MaxClicks \in Nat /\ MaxFailed \in Nat
    BY FeedAssumption
  <1>4. /\ screen.list \in Seq(Shown) /\ screen.count \in Nat /\ screen.cursor \in Nat
        /\ screen.loadingMore \in BOOLEAN
    BY <1>2 DEF Screens
  <1>5. ASSUME NEW c \in Calls
        PROVE  /\ calls[c] \in CallRecords /\ Distinct(calls[c].page)
               /\ calls[c].kind \in Kinds /\ calls[c].id \in Nat /\ calls[c].page \in Seq(Shown)
               /\ calls[c].next \in Nat /\ calls[c].count \in Nat /\ calls[c].todo \in SUBSET Todo
    BY <1>2 DEF CallRecords
  <1> DEFINE CallsOK == /\ calls' \in [Calls -> CallRecords]
                        /\ \A d \in Calls : Distinct(calls'[d].page)
             ScreenOK == screen' \in Screens /\ Distinct(screen'.list)
             LineOK == /\ live' \in BOOLEAN /\ socket' \in {"up", "down"} /\ pushed' \in Seq(Ids)
                       /\ clicks' \in 0..MaxClicks /\ failed' \in 0..MaxFailed
  <1>6. ASSUME NEW c \in Calls, ReadPage(c)
        PROVE  CallsOK /\ ScreenOK /\ LineOK
    <2> DEFINE call == [calls[c] EXCEPT !.page = PageOf(calls[c].id),
                          !.next = NextCursor(calls[c].id), !.todo = @ \ {"page"}]
    <2>1. /\ PageOf(calls[c].id) \in Seq(Shown) /\ Distinct(PageOf(calls[c].id))
          /\ NextCursor(calls[c].id) \in Nat
      BY <1>1, <1>5, PageIs
    <2>2. call \in CallRecords /\ Distinct(call.page)
      BY <1>5, <2>1 DEF CallRecords
    <2>3. calls' = [calls EXCEPT ![c] = call]
      BY <1>2, <1>6 DEF ReadPage
    <2> HIDE DEF call
    <2>4. CallsOK
      BY <1>2, <2>2, <2>3, OneCallMoves
    <2> QED
      BY <1>2, <1>6, <2>4 DEF ReadPage
  <1>7. ASSUME NEW c \in Calls, ReadCount(c)
        PROVE  CallsOK /\ ScreenOK /\ LineOK
    <2> DEFINE call == [calls[c] EXCEPT !.count = Cardinality(Unread), !.todo = @ \ {"count"}]
    <2>1. call \in CallRecords /\ Distinct(call.page)
      BY <1>1, <1>5, UnreadCounted DEF CallRecords
    <2>2. calls' = [calls EXCEPT ![c] = call]
      BY <1>2, <1>7 DEF ReadCount
    <2> HIDE DEF call
    <2>3. CallsOK
      BY <1>2, <2>1, <2>2, OneCallMoves
    <2> QED
      BY <1>2, <1>7, <2>3 DEF ReadCount
  <1>8. ASSUME NEW c \in Calls, Mark(c)
        PROVE  CallsOK /\ ScreenOK /\ LineOK
    <2> DEFINE call == [calls[c] EXCEPT !.todo = @ \ {"mark"}]
    <2>1. call \in CallRecords /\ Distinct(call.page)
      BY <1>5 DEF CallRecords
    <2>2. calls' = [calls EXCEPT ![c] = call]
      BY <1>2, <1>8 DEF Mark
    <2> HIDE DEF call
    <2>3. CallsOK
      BY <1>2, <2>1, <2>2, OneCallMoves
    <2> QED
      BY <1>2, <1>8, <2>3 DEF Mark
  <1>9. ASSUME NEW kind \in Kinds, NEW cursor \in Nat, NEW c \in Calls,
               calls' = [calls EXCEPT ![c] = ListCall(kind, cursor)]
        PROVE  CallsOK
    BY <1>2, <1>9, CallsStarted, EmptyList, OneCallMoves
  <1>10. ASSUME NEW c \in Calls, calls' = [calls EXCEPT ![c] = NoCall]
         PROVE  CallsOK
    BY <1>2, <1>10, CallsStarted, OneCallMoves
  <1>11. "more" \in Kinds /\ "poll" \in Kinds /\ "load" \in Kinds
    BY DEF Kinds
  <1>12. ASSUME NEW c \in Calls, LoadMore(c)
         PROVE  CallsOK /\ ScreenOK /\ LineOK
    <2>1. CallsOK
      BY <1>4, <1>9, <1>11, <1>12 DEF LoadMore
    <2>2. ScreenOK
      BY <1>2, <1>12 DEF LoadMore, Screens
    <2> QED
      BY <1>2, <1>12, <2>1, <2>2 DEF LoadMore
  <1>13. ASSUME NEW c \in Calls, Poll(c)
         PROVE  CallsOK /\ ScreenOK /\ LineOK
    <2>1. CallsOK
      BY <1>9, <1>11, <1>13 DEF Poll
    <2> QED
      BY <1>2, <1>13, <2>1 DEF Poll
  <1>14. ASSUME NEW c \in Calls, MarkRead(c)
         PROVE  CallsOK /\ ScreenOK /\ LineOK
    <2>1. PICK i \in DOMAIN screen.list :
            LET id == screen.list[i].id
                grey == [screen EXCEPT !.list = Greyed(@, {id})]
            IN  \/ /\ screen' = [grey EXCEPT !.count = LessOne(@)]
                   /\ calls' = [calls EXCEPT ![c] =
                        [NoCall EXCEPT !.kind = "read", !.id = id, !.todo = {"mark", "count"}]]
                \/ screen' = grey /\ UNCHANGED calls
      BY <1>14 DEF MarkRead
    <2> DEFINE id == screen.list[i].id
               grey == [screen EXCEPT !.list = Greyed(@, {id})]
               call == [NoCall EXCEPT !.kind = "read", !.id = id, !.todo = {"mark", "count"}]
    <2>2. id \in Nat
      <3>1. screen.list[i] \in Shown
        BY <1>4
      <3> QED
        BY <3>1 DEF Shown, Ids
    <2>3. call \in CallRecords /\ Distinct(call.page)
      BY <2>2, CallsStarted
    <2>4. grey \in Screens /\ Distinct(grey.list) /\ grey.count = screen.count
      BY <1>2, <1>4, GreyedIs DEF Screens
    <2>5. LessOne(screen.count) \in Nat
      BY <1>4 DEF LessOne
    <2>6. \/ screen' = [grey EXCEPT !.count = LessOne(@)] /\ calls' = [calls EXCEPT ![c] = call]
          \/ screen' = grey /\ UNCHANGED calls
      BY <2>1
    <2> HIDE DEF grey, call, id
    <2>7. CallsOK
      BY <1>2, <2>3, <2>6, OneCallMoves
    <2>8. ScreenOK
      BY <2>4, <2>5, <2>6 DEF Screens
    <2>9. LineOK
      BY <1>2, <1>3, <1>14 DEF MarkRead
    <2> QED
      BY <2>7, <2>8, <2>9
  <1>15. ASSUME NEW c \in Calls, MarkAllRead(c)
         PROVE  CallsOK /\ ScreenOK /\ LineOK
    <2> DEFINE call == [NoCall EXCEPT !.kind = "readAll", !.todo = {"mark"}]
    <2>1. call \in CallRecords /\ Distinct(call.page)
      BY CallsStarted
    <2>2. calls' = [calls EXCEPT ![c] = call]
      BY <1>15 DEF MarkAllRead
    <2> HIDE DEF call
    <2>3. CallsOK
      BY <1>2, <2>1, <2>2, OneCallMoves
    <2>4. ScreenOK
      <3>1. screen' = [screen EXCEPT !.list = Greyed(screen.list, IdsOf(screen.list)),
                                     !.count = 0]
        BY <1>15 DEF MarkAllRead
      <3> QED
        BY <1>2, <1>4, <3>1, GreyedIs DEF Screens
    <2>5. LineOK
      BY <1>2, <1>3, <1>15 DEF MarkAllRead
    <2> QED
      BY <2>3, <2>4, <2>5
  <1>16. ASSUME NEW c \in Calls, Answer(c)
         PROVE  CallsOK /\ ScreenOK /\ LineOK
    <2>1. CallsOK
      BY <1>10, <1>16 DEF Answer
    <2>2. ScreenOK
      <3> DEFINE call == calls[c]
      <3>1. CASE /\ call.kind = "load"
                 /\ screen' = [screen EXCEPT !.list = call.page, !.count = call.count,
                                             !.cursor = call.next]
        BY <1>2, <1>5, <3>1 DEF Screens
      <3>2. CASE /\ call.kind = "more"
                 /\ screen' = [list |-> MergeById(screen.list, call.page), count |-> call.count,
                               cursor |-> call.next, loadingMore |-> FALSE]
        BY <1>2, <1>4, <1>5, <3>2, MergeDistinct DEF Screens
      <3>3. CASE /\ call.kind = "poll"
                 /\ screen' = [screen EXCEPT !.list = WithLatest(@, call.page),
                                             !.count = call.count]
        BY <1>2, <1>4, <1>5, <3>3, LatestDistinct DEF Screens
      <3>4. CASE call.kind = "read" /\ screen' = [screen EXCEPT !.count = call.count]
        BY <1>2, <1>5, <3>4 DEF Screens
      <3>5. CASE call.kind = "readAll" /\ UNCHANGED screen
        BY <1>2, <3>5
      <3> QED
        BY <1>16, <3>1, <3>2, <3>3, <3>4, <3>5 DEF Answer
    <2> QED
      BY <1>2, <1>16, <2>1, <2>2 DEF Answer
  <1>17. ASSUME NEW c \in Calls, Failed(c)
         PROVE  CallsOK /\ ScreenOK /\ LineOK
    <2>1. CallsOK
      BY <1>9, <1>10, <1>11, <1>17 DEF Failed
    <2>2. ScreenOK
      <3>1. CASE screen' = [Blank EXCEPT !.loadingMore = screen.loadingMore]
        BY <1>4, <3>1, EmptyList DEF Screens, Blank
      <3>2. CASE screen' = [screen EXCEPT !.loadingMore = FALSE]
        BY <1>2, <3>2 DEF Screens
      <3>3. CASE UNCHANGED screen
        BY <1>2, <3>3
      <3> QED
        BY <1>17, <3>1, <3>2, <3>3 DEF Failed
    <2>3. LineOK
      BY <1>2, <1>3, <1>17 DEF Failed
    <2> QED
      BY <2>1, <2>2, <2>3
  <1>18. ASSUME Receive
         PROVE  CallsOK /\ ScreenOK /\ LineOK
    <2> DEFINE row == [id |-> Head(pushed), read |-> FALSE]
    <2>1. row \in Shown /\ Tail(pushed) \in Seq(Ids)
      BY <1>2, <1>18 DEF Receive, Shown
    <2> DEFINE shown == IF row.id \in IdsOf(screen.list) THEN screen.list
                        ELSE <<row>> \o screen.list
    <2>2. screen' = [screen EXCEPT !.list = shown, !.count = screen.count + 1]
      BY <1>18 DEF Receive
    <2> HIDE DEF row
    <2>3. ScreenOK
      <3>1. shown \in Seq(Shown) /\ Distinct(shown)
        BY <1>2, <1>4, <2>1, PushedOnTop
      <3>2. screen.count + 1 \in Nat
        BY <1>4
      <3> HIDE DEF shown
      <3> DEFINE n == screen.count + 1
      <3>3. n \in Nat /\ screen' = [screen EXCEPT !.list = shown, !.count = n]
        BY <2>2, <3>2
      <3> HIDE DEF n
      <3> QED
        BY <1>2, <3>1, <3>3 DEF Screens
    <2>4. LineOK
      BY <1>2, <1>18, <2>1 DEF Receive
    <2>5. CallsOK
      BY <1>2, <1>18 DEF Receive
    <2> QED
      BY <2>3, <2>4, <2>5
  <1>19. ASSUME Drop
         PROVE  CallsOK /\ ScreenOK /\ LineOK
    BY <1>2, <1>3, <1>19 DEF Drop
  <1>20. ASSUME NEW c \in Calls, Handshake(c)
         PROVE  CallsOK /\ ScreenOK /\ LineOK
    <2>1. CallsOK
      BY <1>9, <1>11, <1>20 DEF Handshake
    <2>2. LineOK
      BY <1>2, <1>3, <1>20 DEF Handshake
    <2> QED
      BY <1>2, <1>20, <2>1, <2>2 DEF Handshake
  <1> HIDE DEF CallsOK, ScreenOK, LineOK
  <1>21. CallsOK /\ ScreenOK /\ LineOK
    BY <1>6, <1>7, <1>8, <1>12, <1>13, <1>14, <1>15, <1>16, <1>17, <1>18, <1>19, <1>20
       DEF FeedNext, FeedStep
  <1> QED
    BY <1>1, <1>21 DEF FeedInv, CallsOK, ScreenOK, LineOK

-----------------------------------------------------------------------------
\* What a sweep collects.

About == {"invoice", "creditLine", "company"}
SomeDate == [month : Nat, day : Int]
Candidate == [of : About, due : SomeDate]
DueKeys == [of : About, due : SomeDate, away : Int]

LEMMA DateIsSome ==
  ASSUME NEW d, IsDate(d)
  PROVE  d \in SomeDate /\ DayNumber(d) \in Int
  BY DayNumberOfDate DEF IsDate, Months, SomeDate

LEMMA NextPaydayIsDate ==
  ASSUME NEW d, IsDate(d), NEW p \in 1..31
  PROVE  IsDate(NextPayday(p, d))
  <1>1. d.month \in Nat /\ d.month + 1 \in Nat
    BY DayNumberOfDate
  <1> QED
    BY <1>1, PaydayIsDate DEF NextPayday

\* One list after the other has what either has.
LEMMA JoinHasBoth ==
  ASSUME NEW s \in Seq(Candidate), NEW t \in Seq(Candidate)
  PROVE  /\ s \o t \in Seq(Candidate)
         /\ \A i \in DOMAIN s : \E k \in DOMAIN (s \o t) : (s \o t)[k] = s[i]
         /\ \A j \in DOMAIN t : \E k \in DOMAIN (s \o t) : (s \o t)[k] = t[j]
  <1> DEFINE c == s \o t
  <1>1. /\ Len(s) \in Nat /\ Len(t) \in Nat
        /\ DOMAIN s = 1..Len(s) /\ DOMAIN t = 1..Len(t)
        /\ c \in Seq(Candidate) /\ DOMAIN c = 1..(Len(s) + Len(t))
    OBVIOUS
  <1>2. /\ \A i \in 1..Len(s) : c[i] = s[i]
        /\ \A i \in 1..Len(t) : c[Len(s) + i] = t[i]
    OBVIOUS
  <1> HIDE DEF c
  <1>3. \A i \in DOMAIN s : i \in DOMAIN c /\ c[i] = s[i]
    BY <1>1, <1>2
  <1>4. \A j \in DOMAIN t : Len(s) + j \in DOMAIN c /\ c[Len(s) + j] = t[j]
    BY <1>1, <1>2
  <1> QED
    BY <1>1, <1>3, <1>4 DEF c

\* Everything that will have to be reminded of is among the candidates, and its
\* reminder day is today.
LEMMA CandidatesCoverOwed ==
  ASSUME NEW now, IsDate(now), NEW saw, payday \in PaydaySettings
  PROVE  /\ Candidates(saw, now) \in Seq(Candidate)
         /\ Owed(now, saw) \subseteq DueKeys
         /\ \A key \in Owed(now, saw) :
              /\ key.away = DaysUntil(key.due, now) /\ key.away \in REMINDER_OFFSET_DAYS
              /\ \E i \in DOMAIN Candidates(saw, now) :
                   Candidates(saw, now)[i] = [of |-> key.of, due |-> key.due]
  <1> DEFINE Falling(of, due) == IF InHorizon(due, now) THEN One(of, due) ELSE << >>
             a == IF "invoice" \in saw THEN Falling("invoice", InvoiceDue) ELSE << >>
             b == Falling("creditLine", InstalmentDue)
             e == IF "team" \in saw /\ payday # NoPayday
                  THEN One("company", NextPayday(payday, now)) ELSE << >>
             all == a \o b \o e
             Has(list, key) == \E i \in DOMAIN list : list[i] = [of |-> key.of, due |-> key.due]
             ToTheDay(key) == key.away = DaysUntil(key.due, now) /\ key.away \in REMINDER_OFFSET_DAYS
  <1>1. /\ IsDate(InvoiceDue) /\ IsDate(InstalmentDue)
        /\ InvoiceDue \in SomeDate /\ InstalmentDue \in SomeDate
    BY DueAssumption, DateIsSome
  <1>2. payday # NoPayday => /\ IsDate(NextPayday(payday, now)) /\ NextPayday(payday, now) \in SomeDate
                             /\ NextPayday(payday, now) = PaydayAfter(now)
    BY NextPaydayIsFirst, NextPaydayIsDate, DateIsSome DEF PaydaySettings
  <1>3. ASSUME NEW of \in About, NEW due \in SomeDate
        PROVE  /\ One(of, due) \in Seq(Candidate) /\ 1 \in DOMAIN One(of, due)
               /\ One(of, due)[1] = [of |-> of, due |-> due]
    BY DEF One, Candidate
  <1>4. << >> \in Seq(Candidate)
    OBVIOUS
  <1>5. a \in Seq(Candidate) /\ b \in Seq(Candidate) /\ e \in Seq(Candidate)
    BY <1>1, <1>2, <1>3, <1>4 DEF About
  <1>6. ASSUME NEW of \in About, NEW due, IsDate(due), NEW key \in Falls(of, due, now)
        PROVE  /\ key \in DueKeys /\ key.of = of /\ key.due = due
               /\ ToTheDay(key) /\ InHorizon(due, now)
    <2>1. PICK n \in REMINDER_OFFSET_DAYS :
            /\ DayNumber(due) = DayNumber(now) + n
            /\ key = [of |-> of, due |-> due, away |-> n]
      BY DEF Falls
    <2>2. DayNumber(now) \in Int /\ n \in 0..3 /\ due \in SomeDate
      BY <1>6, DateIsSome DEF REMINDER_OFFSET_DAYS
    <2>3. DaysUntil(due, now) = n
      BY <2>1, <2>2 DEF DaysUntil
    <2> QED
      BY <2>1, <2>2, <2>3 DEF DueKeys, InHorizon, ReminderHorizonDays
  <1>7. \A key \in Owed(now, saw) : key \in DueKeys /\ ToTheDay(key)
                                      /\ (Has(a, key) \/ Has(b, key) \/ Has(e, key))
    <2> SUFFICES ASSUME NEW key \in Owed(now, saw)
                 PROVE  key \in DueKeys /\ ToTheDay(key)
                          /\ (Has(a, key) \/ Has(b, key) \/ Has(e, key))
      OBVIOUS
    <2>1. CASE "invoice" \in saw /\ key \in Falls("invoice", InvoiceDue, now)
      <3>1. /\ key \in DueKeys /\ ToTheDay(key) /\ InHorizon(InvoiceDue, now)
            /\ key.of = "invoice" /\ key.due = InvoiceDue
        BY <1>1, <1>6, <2>1 DEF About
      <3>2. a = One("invoice", InvoiceDue)
        BY <2>1, <3>1
      <3>3. 1 \in DOMAIN a /\ a[1] = [of |-> "invoice", due |-> InvoiceDue]
        BY <1>1, <1>2, <1>3, <3>2 DEF About
      <3>4. Has(a, key)
        BY <3>1, <3>3
      <3> QED
        BY <3>1, <3>4
    <2>2. CASE key \in Falls("creditLine", InstalmentDue, now)
      <3>1. /\ key \in DueKeys /\ ToTheDay(key) /\ InHorizon(InstalmentDue, now)
            /\ key.of = "creditLine" /\ key.due = InstalmentDue
        BY <1>1, <1>6, <2>2 DEF About
      <3>2. b = One("creditLine", InstalmentDue)
        BY <3>1
      <3>3. 1 \in DOMAIN b /\ b[1] = [of |-> "creditLine", due |-> InstalmentDue]
        BY <1>1, <1>2, <1>3, <3>2 DEF About
      <3>4. Has(b, key)
        BY <3>1, <3>3
      <3> QED
        BY <3>1, <3>4
    <2>3. CASE /\ "team" \in saw /\ payday # NoPayday
               /\ key \in Falls("company", PaydayAfter(now), now)
      <3>1. /\ key \in DueKeys /\ ToTheDay(key)
            /\ key.of = "company" /\ key.due = NextPayday(payday, now)
        BY <1>2, <1>6, <2>3 DEF About
      <3>2. e = One("company", NextPayday(payday, now))
        BY <2>3
      <3>3. 1 \in DOMAIN e /\ e[1] = [of |-> "company", due |-> NextPayday(payday, now)]
        BY <1>1, <1>2, <1>3, <2>3, <3>2 DEF About
      <3>4. Has(e, key)
        BY <3>1, <3>3
      <3> QED
        BY <3>1, <3>4
    <2> QED
      BY <2>1, <2>2, <2>3 DEF Owed
  <1>8. Candidates(saw, now) = all
    BY DEF Candidates
  <1> HIDE DEF a, b, e, ToTheDay
  <1> DEFINE ab == a \o b
  <1>9. /\ a \o b \in Seq(Candidate)
        /\ \A i \in DOMAIN a : \E k \in DOMAIN (a \o b) : (a \o b)[k] = a[i]
        /\ \A i \in DOMAIN b : \E k \in DOMAIN (a \o b) : (a \o b)[k] = b[i]
    BY <1>5, JoinHasBoth
  <1> HIDE DEF ab
  <1>10. /\ ab \o e \in Seq(Candidate)
         /\ \A i \in DOMAIN ab : \E k \in DOMAIN (ab \o e) : (ab \o e)[k] = ab[i]
         /\ \A i \in DOMAIN e : \E k \in DOMAIN (ab \o e) : (ab \o e)[k] = e[i]
    <2>1. ab \in Seq(Candidate)
      BY <1>9 DEF ab
    <2> QED
      BY <1>5, <2>1, JoinHasBoth
  <1> HIDE DEF ab, all
  <1>11. \A key : Has(a, key) \/ Has(b, key) \/ Has(e, key) => Has(all, key)
    <2>1. \A key : Has(a, key) \/ Has(b, key) => Has(ab, key)
      BY <1>9 DEF ab
    <2>2. \A key : Has(ab, key) \/ Has(e, key) => Has(all, key)
      BY <1>10 DEF all, ab
    <2> QED
      BY <2>1, <2>2
  <1>12. all \in Seq(Candidate)
    BY <1>10 DEF all, ab
  <1> QED
    BY <1>7, <1>8, <1>11, <1>12 DEF ToTheDay

\* A sweep's queue: reminders, with every one of the day's among them.
LEMMA SweepCollectsOwed ==
  ASSUME NEW now, IsDate(now), NEW saw, payday \in PaydaySettings
  PROVE  LET queue == CollectDueReminders(Candidates(saw, now), now)
         IN  /\ queue \in Seq(DueKeys)
             /\ \A key \in Owed(now, saw) : \E i \in DOMAIN queue : queue[i] = key
  <1> DEFINE list == Candidates(saw, now)
             places == {i \in DOMAIN list : ReminderDue(list[i].due, now)}
             N == Cardinality(places)
             due == Kept(list, places)
             queue == CollectDueReminders(list, now)
  <1>1. /\ list \in Seq(Candidate) /\ Owed(now, saw) \subseteq DueKeys
        /\ \A key \in Owed(now, saw) :
             /\ key.away = DaysUntil(key.due, now) /\ key.away \in REMINDER_OFFSET_DAYS
             /\ \E i \in DOMAIN list : list[i] = [of |-> key.of, due |-> key.due]
    BY CandidatesCoverOwed
  <1>2. queue = [i \in DOMAIN due |-> Key(due[i], now)]
    BY DEF CollectDueReminders
  <1> HIDE DEF list
  <1>3. PICK at \in [1..N -> places] :
           /\ N \in Nat
           /\ \A i \in places : \E n \in 1..N : at[n] = i
           /\ due = [n \in 1..N |-> list[at[n]]]
    <2> places \in SUBSET DOMAIN list
      OBVIOUS
    <2> HIDE DEF places
    <2> QED
      BY <1>1, KeptIs
  <1> HIDE DEF due, queue, N
  <1>4. DOMAIN queue = 1..N /\ \A n \in 1..N : queue[n] = Key(list[at[n]], now)
    BY <1>2, <1>3
  <1>5. \A i \in DOMAIN list : i \in places =>
          Key(list[i], now) \in DueKeys
    <2> SUFFICES ASSUME NEW i \in DOMAIN list, i \in places
                 PROVE  Key(list[i], now) \in DueKeys
      OBVIOUS
    <2>1. list[i] \in Candidate
      BY <1>1
    <2>2. DaysUntil(list[i].due, now) \in Int
      BY DEF ReminderDue, REMINDER_OFFSET_DAYS
    <2> QED
      BY <2>1, <2>2 DEF Key, DueKeys, Candidate
  <1>6. queue \in Seq(DueKeys)
    <2>1. \A n \in 1..N : at[n] \in places /\ at[n] \in DOMAIN list
      OBVIOUS
    <2>2. \A n \in 1..N : queue[n] \in DueKeys
      BY <1>4, <1>5, <2>1
    <2>3. queue = [n \in 1..N |-> queue[n]]
      BY <1>2, <1>3
    <2> QED
      BY <1>3, <2>2, <2>3
  <1>7. ASSUME NEW key \in Owed(now, saw)
        PROVE  \E n \in DOMAIN queue : queue[n] = key
    <2>1. PICK i \in DOMAIN list : list[i] = [of |-> key.of, due |-> key.due]
      BY <1>1
    <2>2. list[i].due = key.due /\ list[i].of = key.of
      BY <2>1
    <2>3. i \in places
      BY <1>1, <2>2 DEF ReminderDue
    <2>4. PICK n \in 1..N : at[n] = i
      BY <1>3, <2>3
    <2>5. Key(list[i], now) = [of |-> key.of, due |-> key.due, away |-> key.away]
      BY <1>1, <2>2 DEF Key
    <2>6. key \in DueKeys
      BY <1>1
    <2>7. key = [of |-> key.of, due |-> key.due, away |-> key.away]
      BY <2>6 DEF DueKeys
    <2> QED
      BY <1>4, <2>4, <2>5, <2>7
  <1> QED
    BY <1>6, <1>7 DEF queue, list

-----------------------------------------------------------------------------
\* Sweeps, crossing and dying as they may.

RowKeys == {NoKey} \union DueKeys
SweepRecords == [at : {"idle", "rest", "write"}, now : SomeDate,
                 saw : SUBSET {"invoice", "team"}, queue : Seq(DueKeys)]

OneRowAKey ==
  \A i, j \in DOMAIN rows : rows[i].key = rows[j].key /\ rows[i].key # NoKey => i = j

\* What a sweep that has collected still owes is in its queue.
NothingDropped ==
  \A s \in Sweepers : sweeps[s].at = "write" =>
    \A key \in Owed(sweeps[s].now, sweeps[s].saw) :
      Written(key) \/ \E i \in DOMAIN sweeps[s].queue : sweeps[s].queue[i] = key

SweepsTyped ==
  /\ scene \in Scenes /\ open \subseteq {"invoice", "team"}
  /\ sweeps \in [Sweepers -> SweepRecords] /\ \A s \in Sweepers : IsDate(sweeps[s].now)

DueInv ==
  /\ WindowTypeOK /\ FeedInv(RowKeys) /\ SweepsTyped
  /\ OneRowAKey /\ NothingDropped /\ unwritten = {}

LEMMA KeysAreNoNoKey ==
  NoKey \in RowKeys /\ NoKey \notin DueKeys /\ DueKeys \subseteq RowKeys
  <1>1. NoKey.of = "event"
    BY DEF NoKey
  <1>2. \A key \in DueKeys : key.of \in About
    BY DEF DueKeys
  <1> QED
    BY <1>1, <1>2 DEF RowKeys, About

LEMMA SweepsStart ==
  /\ NoSweep \in SweepRecords /\ NoSweep.at = "idle" /\ IsDate(NoSweep.now)
  <1>1. IsDate(FirstDay) /\ FirstDay \in SomeDate
    BY WindowAssumption, DateIsSome
  <1> QED
    BY <1>1 DEF NoSweep, SweepRecords

\* A row added: the feed's invariant and the rows before it stay.
LEMMA RowAdded ==
  ASSUME FeedInv(RowKeys), OneRowAKey, NEW key \in RowKeys, Create(key),
         UNCHANGED <<live, socket, screen, calls, clicks, failed>>
  PROVE  /\ FeedInv(RowKeys)' /\ OneRowAKey'
         /\ DOMAIN rows \subseteq DOMAIN rows'
         /\ \A i \in DOMAIN rows : rows'[i].key = rows[i].key
         /\ key # NoKey => \E i \in DOMAIN rows' : rows'[i].key = key
  <1> DEFINE Row == [key : RowKeys, read : BOOLEAN]
  <1>1. \A S : rows \in Seq(S) => /\ Len(rows) \in Nat /\ DOMAIN rows = 1..Len(rows)
                                  /\ \A i \in DOMAIN rows : rows[i] \in S
    OBVIOUS
  <1>2. /\ rows \in Seq(Row) /\ Len(rows) \in Nat /\ DOMAIN rows = 1..Len(rows)
        /\ pushed \in Seq(Ids)
    BY <1>1 DEF FeedInv, TableOf
  <1>3. CASE Written(key)
    <2>1. UNCHANGED <<rows, pushed>>
      BY <1>3 DEF Create
    <2> QED
      BY <1>3, <2>1 DEF FeedInv, OneRowAKey, Written, Screens
  <1>4. CASE ~Written(key)
    <2> DEFINE row == [key |-> key, read |-> FALSE]
    <2>1. /\ rows' = Append(rows, row)
          /\ pushed' = IF socket = "up" THEN Append(pushed, Len(rows) + 1) ELSE pushed
      BY <1>4 DEF Create, AppendRow
    <2>2. row \in Row /\ row.key = key
      OBVIOUS
    <2> HIDE DEF row, Row
    <2>3. /\ rows' \in Seq(Row) /\ DOMAIN rows' = 1..(Len(rows) + 1)
          /\ \A i \in DOMAIN rows : i \in DOMAIN rows' /\ rows'[i] = rows[i]
          /\ Len(rows) + 1 \in DOMAIN rows' /\ rows'[Len(rows) + 1] = row
      BY <1>2, <2>1, <2>2
    <2>4. pushed' \in Seq(Ids)
      <3>1. Len(rows) + 1 \in Ids
        BY <1>2 DEF Ids
      <3> QED
        BY <1>2, <2>1, <3>1
    <2>5. rows' \in TableOf(RowKeys)
      BY <2>3 DEF TableOf, Row
    <2>6. FeedInv(RowKeys)'
      BY <2>4, <2>5 DEF FeedInv
    <2>7. OneRowAKey'
      <3>1. \A i \in DOMAIN rows' : i \in DOMAIN rows \/ i = Len(rows) + 1
        BY <1>2, <2>3
      <3>2. key # NoKey => \A i \in DOMAIN rows : rows[i].key # key
        BY <1>4 DEF Written
      <3> QED
        BY <2>2, <2>3, <3>1, <3>2 DEF OneRowAKey
    <2> QED
      BY <2>2, <2>3, <2>6, <2>7
  <1> QED
    BY <1>3, <1>4

\* What was written stays written, and what a sweep owes stays owed, while the
\* table only grows and its payday stands.
LEMMA StillNothingDropped ==
  ASSUME NothingDropped, UNCHANGED payday,
         DOMAIN rows \subseteq DOMAIN rows',
         \A i \in DOMAIN rows : rows'[i].key = rows[i].key,
         NEW s \in Sweepers, sweeps'[s] = sweeps[s], sweeps[s].at = "write",
         NEW key \in Owed(sweeps[s].now, sweeps[s].saw)'
  PROVE  Written(key)' \/ \E i \in DOMAIN sweeps'[s].queue : sweeps'[s].queue[i] = key
  <1>1. key \in Owed(sweeps[s].now, sweeps[s].saw)
    BY DEF Owed, PaydayAfter, IsPayday
  <1> QED
    BY <1>1 DEF NothingDropped, Written

\* The feed and the table as they were.
LEMMA TableUntouched ==
  ASSUME FeedInv(RowKeys), OneRowAKey, UNCHANGED feedVars
  PROVE  FeedInv(RowKeys)' /\ OneRowAKey'
  BY DEF FeedInv, OneRowAKey, feedVars, Screens

\* Every step, whoever takes it, keeps the invariant.
LEMMA DueStarts ==
  ASSUME DueInit
  PROVE  DueInv
  <1>1. WindowTypeOK /\ scene \in Scenes
    BY SceneTyped
  <1>2. FeedInv(RowKeys)
    BY FeedStarts DEF DueInit
  <1>3. SweepsTyped /\ NothingDropped
    BY <1>1, SweepsStart DEF DueInit, SweepsTyped, NothingDropped
  <1>4. OneRowAKey /\ unwritten = {}
    BY DEF DueInit, FeedInit, OneRowAKey
  <1> QED
    BY <1>1, <1>2, <1>3, <1>4 DEF DueInv

LEMMA DueHolds ==
  ASSUME DueInv, DueNext \/ UNCHANGED allVars
  PROVE  DueInv'
  <1>1. /\ WindowTypeOK /\ FeedInv(RowKeys) /\ SweepsTyped
        /\ OneRowAKey /\ NothingDropped /\ unwritten = {}
    BY DEF DueInv
  <1>2. WindowTypeOK' /\ UNCHANGED payday /\ IsDate(today) /\ payday \in PaydaySettings
    BY <1>1, ClockSteps, NextDayFollows, WindowAssumption DEF WindowTypeOK
  <1>3. /\ scene \in Scenes /\ open \subseteq {"invoice", "team"}
        /\ sweeps \in [Sweepers -> SweepRecords] /\ \A s \in Sweepers : IsDate(sweeps[s].now)
    BY <1>1 DEF SweepsTyped
  <1> DEFINE Table == FeedInv(RowKeys)' /\ OneRowAKey'
             RowsKept == /\ DOMAIN rows \subseteq DOMAIN rows'
                      /\ \A i \in DOMAIN rows : rows'[i].key = rows[i].key
             Swept == SweepsTyped' /\ NothingDropped' /\ unwritten' = {}
  \* Where no sweep moves.
  <1>4. ASSUME RowsKept, UNCHANGED <<scene, sweeps, unwritten>>, open' \subseteq open
        PROVE  Swept
    <2>1. SweepsTyped' /\ unwritten' = {}
      BY <1>1, <1>3, <1>4 DEF SweepsTyped
    <2>2. NothingDropped'
      <3> SUFFICES ASSUME NEW s \in Sweepers, sweeps'[s].at = "write",
                          NEW key \in Owed(sweeps[s].now, sweeps[s].saw)'
                   PROVE  Written(key)' \/ \E i \in DOMAIN sweeps'[s].queue :
                                              sweeps'[s].queue[i] = key
        BY DEF NothingDropped
      <3> QED
        BY <1>1, <1>2, <1>4, StillNothingDropped
    <2> QED
      BY <2>1, <2>2
  \* Where one sweep moves: it keeps its type, and, once it has collected, has
  \* written or holds what it owes.
  <1>5. ASSUME RowsKept, NEW s \in Sweepers, NEW sweep \in SweepRecords, IsDate(sweep.now),
               sweeps' = [sweeps EXCEPT ![s] = sweep],
               sweep.at = "write" =>
                 \A key \in Owed(sweep.now, sweep.saw) :
                   Written(key)' \/ \E i \in DOMAIN sweep.queue : sweep.queue[i] = key,
               UNCHANGED <<scene, open>>, unwritten' = {}
        PROVE  Swept
    <2>1. SweepsTyped'
      BY <1>3, <1>5 DEF SweepsTyped
    <2>2. NothingDropped'
      <3> SUFFICES ASSUME NEW p \in Sweepers, sweeps'[p].at = "write",
                          NEW key \in Owed(sweeps[p].now, sweeps[p].saw)'
                   PROVE  Written(key)' \/ \E i \in DOMAIN sweeps'[p].queue :
                                              sweeps'[p].queue[i] = key
        BY DEF NothingDropped
      <3>1. CASE p = s
        <4>1. sweeps'[p] = sweep
          BY <1>3, <1>5, <3>1
        <4>2. key \in Owed(sweep.now, sweep.saw)
          BY <1>2, <4>1 DEF Owed, PaydayAfter, IsPayday
        <4> QED
          BY <1>5, <4>1, <4>2
      <3>2. CASE p # s
        <4>1. sweeps'[p] = sweeps[p]
          BY <1>3, <1>5, <3>2
        <4> QED
          BY <1>1, <1>2, <1>5, <4>1, StillNothingDropped
      <3> QED
        BY <3>1, <3>2
    <2> QED
      BY <1>5, <2>1, <2>2
  <1>6. UNCHANGED feedVars => Table /\ RowsKept
    BY <1>1, TableUntouched DEF feedVars
  <1> HIDE DEF Table, RowsKept, Swept
  <1>7. ASSUME UNCHANGED allVars
        PROVE  Table /\ Swept
    BY <1>4, <1>6, <1>7 DEF allVars, feedVars
  <1>8. ASSUME DayPasses
        PROVE  Table /\ Swept
    BY <1>4, <1>6, <1>8 DEF DayPasses, dueVars
  <1>9. ASSUME Close
        PROVE  Table /\ Swept
    <2>1. open' \subseteq open
      BY <1>9 DEF Close
    <2> QED
      BY <1>4, <1>6, <1>9, <2>1 DEF Close
  <1>10. ASSUME Announce
          PROVE  Table /\ Swept
    <2>1. Table /\ RowsKept
      BY <1>1, <1>10, RowAdded, KeysAreNoNoKey DEF Announce, Table, RowsKept
    <2> QED
      BY <1>4, <1>10, <2>1 DEF Announce, dueVars
  <1>11. ASSUME Watch
          PROVE  Table /\ Swept
    <2>1. rows \in TableOf(RowKeys)
      BY <1>1 DEF FeedInv
    <2>2. /\ DOMAIN rows' = DOMAIN rows
          /\ \A i \in DOMAIN rows : rows'[i].key = rows[i].key
      BY <1>11, <2>1, RowsStay DEF Watch
    <2>3. OneRowAKey' /\ RowsKept
      BY <1>1, <2>2 DEF OneRowAKey, RowsKept
    <2>4. FeedInv(RowKeys)'
      BY <1>1, <1>11, FeedHolds DEF Watch
    <2> QED
      BY <1>4, <1>11, <2>3, <2>4 DEF Watch, dueVars, Table
  <1>12. ASSUME NEW s \in Sweepers, Start(s)
         PROVE  Table /\ Swept
    <2> DEFINE sweep == [NoSweep EXCEPT !.at = "rest", !.now = today,
                                        !.saw = open \intersect {"invoice"}]
    <2>1. sweep \in SweepRecords /\ IsDate(sweep.now) /\ sweep.at = "rest"
      BY <1>2, DateIsSome, SweepsStart DEF SweepRecords
    <2>2. sweeps' = [sweeps EXCEPT ![s] = sweep]
      BY <1>12 DEF Start
    <2> HIDE DEF sweep
    <2> QED
      BY <1>1, <1>5, <1>6, <1>12, <2>1, <2>2 DEF Start
  <1>13. ASSUME NEW s \in Sweepers, Collect(s)
         PROVE  Table /\ Swept
    <2> DEFINE now == sweeps[s].now
               saw == sweeps[s].saw \union (open \intersect {"team"})
               queue == CollectDueReminders(Candidates(saw, now), now)
               sweep == [sweeps[s] EXCEPT !.at = "write", !.saw = saw, !.queue = queue]
    <2>1. sweeps[s] \in SweepRecords /\ IsDate(now) /\ saw \in SUBSET {"invoice", "team"}
      BY <1>3 DEF SweepRecords
    <2>2. sweeps' = [sweeps EXCEPT ![s] = sweep]
      BY <1>3, <1>13 DEF Collect
    <2> HIDE DEF now, saw
    <2>3. /\ queue \in Seq(DueKeys)
          /\ \A key \in Owed(now, saw) : \E i \in DOMAIN queue : queue[i] = key
      BY <1>2, <2>1, SweepCollectsOwed
    <2> HIDE DEF queue
    <2>4. /\ sweep \in SweepRecords /\ sweep.now = now /\ sweep.saw = saw
          /\ sweep.queue = queue
      BY <2>1, <2>3 DEF SweepRecords, now
    <2>5. /\ UNCHANGED <<scene, open>> /\ unwritten' = {} /\ Table /\ RowsKept
      BY <1>1, <1>6, <1>13 DEF Collect
    <2>6. \A key \in Owed(sweep.now, sweep.saw) :
            \E i \in DOMAIN sweep.queue : sweep.queue[i] = key
      BY <2>3, <2>4
    <2> HIDE DEF sweep
    <2> QED
      BY <1>5, <2>1, <2>2, <2>4, <2>5, <2>6
  <1>14. ASSUME NEW s \in Sweepers, WriteNext(s)
         PROVE  Table /\ Swept
    <2> DEFINE queue == sweeps[s].queue
               first == Head(queue)
               sweep == [sweeps[s] EXCEPT !.queue = Tail(queue)]
    <2>1. /\ sweeps[s] \in SweepRecords /\ queue \in Seq(DueKeys) /\ queue # << >>
          /\ sweeps[s].at = "write" /\ IsDate(sweeps[s].now)
      BY <1>3, <1>14 DEF WriteNext, SweepRecords
    <2>2. /\ first \in DueKeys /\ Tail(queue) \in Seq(DueKeys)
          /\ \A i \in DOMAIN queue : queue[i] = first \/ \E j \in DOMAIN Tail(queue) :
                                                            Tail(queue)[j] = queue[i]
      <3> HIDE DEF queue
      <3>1. /\ Len(queue) \in Nat \ {0} /\ DOMAIN queue = 1..Len(queue) /\ queue[1] = first
            /\ first \in DueKeys /\ Tail(queue) \in Seq(DueKeys)
            /\ DOMAIN Tail(queue) = 1..(Len(queue) - 1)
            /\ \A j \in 1..(Len(queue) - 1) : Tail(queue)[j] = queue[j + 1]
        BY <2>1
      <3>2. \A i \in DOMAIN queue : i = 1 \/ (i - 1 \in DOMAIN Tail(queue)
                                                /\ Tail(queue)[i - 1] = queue[i])
        BY <3>1
      <3> QED
        BY <3>1, <3>2
    <2>3. Create(first) /\ sweeps' = [sweeps EXCEPT ![s] = sweep]
      BY <1>3, <1>14 DEF WriteNext
    <2>4. /\ sweep \in SweepRecords /\ sweep.now = sweeps[s].now /\ sweep.saw = sweeps[s].saw
          /\ sweep.queue = Tail(queue)
      BY <2>1, <2>2 DEF SweepRecords
    <2> HIDE DEF queue, first, sweep
    <2>5. first \in RowKeys /\ first # NoKey
      BY <2>2, KeysAreNoNoKey
    <2>6. /\ Table /\ RowsKept
          /\ \E i \in DOMAIN rows' : rows'[i].key = first
      BY <1>1, <1>14, <2>3, <2>5, RowAdded DEF WriteNext, Table, RowsKept
    <2>7. \A key \in Owed(sweep.now, sweep.saw) :
            Written(key)' \/ \E j \in DOMAIN sweep.queue : sweep.queue[j] = key
      <3> SUFFICES ASSUME NEW key \in Owed(sweeps[s].now, sweeps[s].saw)
                   PROVE  Written(key)' \/ \E j \in DOMAIN Tail(queue) : Tail(queue)[j] = key
        BY <2>4
      <3>1. Written(key) \/ \E i \in DOMAIN queue : queue[i] = key
        BY <1>1, <2>1 DEF NothingDropped, queue
      <3>2. Written(key) => Written(key)'
        BY <2>6 DEF Written, RowsKept
      <3>3. key = first => Written(key)'
        BY <2>5, <2>6 DEF Written
      <3> QED
        BY <2>2, <3>1, <3>2, <3>3
    <2> QED
      BY <1>1, <1>5, <1>14, <2>1, <2>3, <2>4, <2>6, <2>7 DEF WriteNext
  <1>15. NoSweep \in SweepRecords /\ IsDate(NoSweep.now) /\ NoSweep.at # "write"
    BY SweepsStart
  <1>16. ASSUME NEW s \in Sweepers, Finish(s)
         PROVE  Table /\ Swept
    <2>1. \A key \in Owed(sweeps[s].now, sweeps[s].saw) : Written(key)
      BY <1>1, <1>16 DEF Finish, NothingDropped
    <2>2. unwritten' = {}
      BY <1>1, <1>16, <2>1 DEF Finish
    <2> QED
      BY <1>5, <1>6, <1>15, <1>16, <2>2 DEF Finish
  <1>17. ASSUME NEW s \in Sweepers, Abort(s)
         PROVE  Table /\ Swept
    BY <1>1, <1>5, <1>6, <1>15, <1>17 DEF Abort
  <1>18. Table /\ Swept
    BY <1>7, <1>8, <1>9, <1>10, <1>11, <1>12, <1>13, <1>14, <1>16, <1>17 DEF DueNext, Sweep
  <1> QED
    BY <1>2, <1>18 DEF DueInv, Table, Swept

LEMMA DueKept ==
  DueSpec => []DueInv
  <1>1. DueInit => DueInv
    BY DueStarts
  <1>2. DueInv /\ [DueNext]_allVars => DueInv'
    BY DueHolds
  <1> QED
    BY <1>1, <1>2, PTL DEF DueSpec

\* However many processes sweep, cross, start again or die half-way, on any days
\* and with any payday: a sweep that runs to its end leaves every reminder of its
\* day written, none is written twice, and the browser lists no row twice.
THEOREM EachReminderOnce ==
  DueSpec => []RemindedExactlyOnce
  <1>1. DueInv => RemindedExactlyOnce
    BY DEF DueInv, OneRowAKey, FeedInv, Distinct, RemindedExactlyOnce, NoRowTwice
  <1> QED
    BY <1>1, DueKept, PTL

\* What the calendar, the sweeps, the table and the browser hold is of its type.
THEOREM DueTyped ==
  DueSpec => []DueTypeOK
  <1>1. DueInv => DueTypeOK
    <2> SUFFICES ASSUME DueInv PROVE DueTypeOK
      OBVIOUS
    <2>1. \A S : rows \in Seq(S) => \A i \in DOMAIN rows : rows[i] \in S
      OBVIOUS
    <2>2. \A i \in DOMAIN rows : rows[i] \in [key : RowKeys, read : BOOLEAN]
      BY <2>1 DEF DueInv, FeedInv, TableOf
    <2>3. \A i \in DOMAIN rows : rows[i].read \in BOOLEAN
      BY <2>2
    <2>4. FeedTypeOK
      BY <2>3 DEF DueInv, FeedInv, FeedTypeOK, Screens, CallRecords, Ids
    <2> QED
      BY <2>4 DEF DueInv, DueTypeOK, SweepsTyped, SweepRecords
  <1> QED
    BY <1>1, DueKept, PTL

\* A poll that is over without failing has been answered.
LEMMA PollEnds ==
  ASSUME calls \in [Calls -> CallRecords], failed \in Int, FeedNext,
         NEW c \in Calls, calls[c].kind = "poll", calls'[c].kind = "none", failed' = failed
  PROVE  Answer(c)
  <1>1. ASSUME NEW d \in Calls, NEW call, calls' = [calls EXCEPT ![d] = call],
               IsFree(d) \/ call.kind = calls[d].kind
        PROVE  FALSE
    <2>1. CASE d = c
      BY <1>1, <2>1 DEF IsFree
    <2>2. CASE d # c
      BY <1>1, <2>2
    <2> QED
      BY <2>1, <2>2
  <1>2. calls' # calls
    OBVIOUS
  <1>3. ASSUME NEW d \in Calls, ReadPage(d)
        PROVE  FALSE
    <2> DEFINE call == [calls[d] EXCEPT !.page = PageOf(calls[d].id),
                          !.next = NextCursor(calls[d].id), !.todo = @ \ {"page"}]
    <2>1. calls' = [calls EXCEPT ![d] = call] /\ call.kind = calls[d].kind
      BY <1>3 DEF ReadPage, CallRecords
    <2> HIDE DEF call
    <2> QED
      BY <1>1, <2>1
  <1>4. ASSUME NEW d \in Calls, ReadCount(d)
        PROVE  FALSE
    <2> DEFINE call == [calls[d] EXCEPT !.count = Cardinality(Unread), !.todo = @ \ {"count"}]
    <2>1. calls' = [calls EXCEPT ![d] = call] /\ call.kind = calls[d].kind
      BY <1>4 DEF ReadCount, CallRecords
    <2> HIDE DEF call
    <2> QED
      BY <1>1, <2>1
  <1>5. ASSUME NEW d \in Calls, Mark(d)
        PROVE  FALSE
    <2> DEFINE call == [calls[d] EXCEPT !.todo = @ \ {"mark"}]
    <2>1. calls' = [calls EXCEPT ![d] = call] /\ call.kind = calls[d].kind
      BY <1>5 DEF Mark, CallRecords
    <2> HIDE DEF call
    <2> QED
      BY <1>1, <2>1
  <1>6. ASSUME NEW d \in Calls,
               LoadMore(d) \/ Poll(d) \/ MarkRead(d) \/ MarkAllRead(d) \/ Handshake(d)
        PROVE  FALSE
    <2>1. \/ UNCHANGED calls
          \/ IsFree(d) /\ \E call : calls' = [calls EXCEPT ![d] = call]
      BY <1>6 DEF LoadMore, Poll, MarkRead, MarkAllRead, Handshake
    <2> QED
      BY <1>1, <1>2, <2>1
  <1>7. ASSUME NEW d \in Calls, Answer(d)
        PROVE  Answer(c)
    <2>1. CASE d = c
      BY <1>7, <2>1
    <2>2. CASE d # c
      BY <1>7, <2>2 DEF Answer
    <2> QED
      BY <2>1, <2>2
  <1>8. ASSUME NEW d \in Calls, Failed(d)
        PROVE  FALSE
    BY <1>8 DEF Failed
  <1>9. ~Receive /\ ~Drop
    BY <1>2 DEF Receive, Drop
  <1> QED
    BY <1>3, <1>4, <1>5, <1>6, <1>7, <1>8, <1>9 DEF FeedNext, FeedStep

\* A poll that has read the table as it stands leaves the screen as it stands,
\* whatever the answers and the clicks before it had left there.
THEOREM PollsCatchUp ==
  DueSpec => PollCatchesUp
  <1>1. ASSUME DueInv, DueNext \/ UNCHANGED allVars, NEW c \in Calls,
               calls[c].kind = "poll", IsFree(c)', UNCHANGED failed,
               calls[c].page = PageOf(0), calls[c].count = Cardinality(Unread)
        PROVE  Current'
    <2> DEFINE list == WithLatest(screen.list, PageOf(0))
    <2>1. /\ rows \in TableOf(RowKeys) /\ screen \in Screens
          /\ screen.list \in Seq(Shown) /\ Distinct(screen.list)
          /\ calls \in [Calls -> CallRecords] /\ failed \in Int
      BY <1>1, FeedAssumption DEF DueInv, FeedInv, Screens
    <2>2. calls'[c].kind = "none" /\ calls' # calls
      BY <1>1 DEF IsFree
    <2>3. FeedNext
      BY <1>1, <2>2 DEF DueNext, allVars, DayPasses, Close, Announce, Watch, Sweep, Start,
         Collect, WriteNext, Finish, Abort, feedVars
    <2>4. Answer(c)
      BY <1>1, <2>1, <2>2, <2>3, PollEnds
    <2>5. /\ screen' = [screen EXCEPT !.list = list, !.count = Cardinality(Unread)]
          /\ rows' = rows
      BY <1>1, <2>4 DEF Answer
    <2>6. \A i \in DOMAIN PageOf(0) : \E k \in DOMAIN list : list[k] = PageOf(0)[i]
      <3>1. 0 \in Nat
        OBVIOUS
      <3>2. PageOf(0) \in Seq(Shown) /\ Distinct(PageOf(0))
        BY <2>1, <3>1, PageIs
      <3> QED
        BY <2>1, <3>2, LatestDistinct
    <2> HIDE DEF list
    <2>7. screen'.list = list /\ screen'.count = Cardinality(Unread)
      BY <2>1, <2>5 DEF Screens
    <2>8. PageOf(0)' = PageOf(0) /\ Unread' = Unread
      BY <2>5 DEF PageOf, Newest, Unread
    <2> QED
      BY <2>6, <2>7, <2>8 DEF Current, Range
  <1>2. DueInv /\ [DueNext]_allVars =>
          [ \A c \in Calls :
              /\ calls[c].kind = "poll" /\ IsFree(c)' /\ UNCHANGED failed
              /\ calls[c].page = PageOf(0) /\ calls[c].count = Cardinality(Unread)
              => Current' ]_feedVars
    BY <1>1
  <1> QED
    BY <1>2, DueKept, PTL DEF PollCatchesUp, DueSpec
=============================================================================
