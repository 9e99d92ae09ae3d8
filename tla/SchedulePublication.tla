------------------------- MODULE SchedulePublication -------------------------
(***************************************************************************)
(* One week of one company's schedule: ScheduleService (schedule/schedule. *)
(* service.ts) as managers plan, copy, publish and unlock it at once, on   *)
(* the tables shift_templates, schedule_entries and schedule_weeks, with   *)
(* the employees' emails as they arrive.                                   *)
(*                                                                         *)
(* Each action is the code from one await to the next; reads issued        *)
(* together by Promise.all happen in any order.  A row with no template,   *)
(* no day off and no leave says what no row says, and is not told apart    *)
(* from it.  The label and times of a template are one value, its hours.   *)
(* The days are those from today on, where an employee's status counts.    *)
(* The in-app notifications, sent between the lock and the emails and      *)
(* never failing the request, are left out.                                *)
(***************************************************************************)
EXTENDS Integers

CONSTANTS
  Employees, Days,
  Templates,         \* ids of shift templates
  Hours,             \* what a template may say: label, start and end
  Managers,          \* slots for requests that plan
  Publishers,        \* slots for requests that publish
  MAX_EDITS,         \* bound: planning requests and changes to the staff
  MAX_PUBLICATIONS,  \* bound: requests to publish
  None

ASSUME ScheduleAssumption ==
  /\ MAX_EDITS \in Nat /\ MAX_PUBLICATIONS \in Nat
  /\ Templates \intersect {"DAY_OFF", "LEAVE", "NOTHING"} = {}
  /\ Hours \intersect {"notYet", "removed", "DAY_OFF", "LEAVE", "NOTHING"} = {}

VARIABLES
  templates,    \* templates[t]: its hours, or that it is not yet or no more
  status,       \* status[e]: Employee.status; GONE once the row is deleted
  entries,      \* entries[e][d]: the schedule_entries row
  week,         \* the schedule_weeks row
  plans,        \* plans[m]: the planning request in progress
  publications, \* publications[p]: the publication in progress
  told,         \* told[e]: the days in the last email that reached e
  missed,       \* whom the last email meant for them did not reach
  edits, published  \* how many of the bounds are used

staff == <<templates, status>>
mail == <<told, missed>>
vars == <<staff, entries, week, plans, publications, mail, edits, published>>

-----------------------------------------------------------------------------
Assignment == Templates \union {"DAY_OFF", "LEAVE", "NOTHING"}
DayMark == Hours \union {"DAY_OFF", "LEAVE", "NOTHING"}
Status == {"ACTIVE", "ON_LEAVE", "GONE"}
Template == Hours \union {"notYet", "removed"}

Grid(S) == [Employees -> [Days -> S]]
Empty == [e \in Employees |-> [d \in Days |-> "NOTHING"]]

Stored(t) == templates[t] \in Hours

NoPlan == [at |-> "idle", employee |-> None, day |-> None, wanted |-> "NOTHING",
           away |-> FALSE, previous |-> None, leave |-> None]

Plan == [at : {"idle", "opening", "looking", "writing", "copying"},
         employee : Employees \union {None}, day : Days \union {None},
         wanted : Assignment, away : BOOLEAN,
         previous : Grid(Assignment) \union {None},
         leave : {None} \union SUBSET (Employees \X Days)]

NoPublication == [at |-> "idle", update |-> FALSE, before |-> Empty, status |-> None,
                  entries |-> None, templates |-> None, snapshot |-> Empty, todo |-> {}]

Publication == [at : {"idle", "reading", "emailing"}, update : BOOLEAN, before : Grid(DayMark),
                status : [Employees -> Status] \union {None},
                entries : Grid(Assignment) \union {None},
                templates : [Templates -> Template] \union {None},
                snapshot : Grid(DayMark), todo : SUBSET Employees]

Init ==
  /\ templates \in [Templates -> Hours \union {"notYet"}]
  /\ status \in [Employees -> {"ACTIVE", "ON_LEAVE"}]
  /\ entries \in Grid({t \in Templates : Stored(t)} \union {"DAY_OFF", "LEAVE", "NOTHING"})
  /\ week = [locked |-> FALSE, published |-> FALSE, snapshot |-> Empty]
  /\ plans = [m \in Managers |-> NoPlan]
  /\ publications = [p \in Publishers |-> NoPublication]
  /\ told = Empty /\ missed = {}
  /\ edits = 0 /\ published = 0

Edit == edits < MAX_EDITS /\ edits' = edits + 1

-----------------------------------------------------------------------------
(* Templates and employees.                                                *)

SetTemplate(t, h) ==
  /\ Edit /\ templates[t] \notin {"removed", h}
  /\ templates' = [templates EXCEPT ![t] = h]
  /\ UNCHANGED <<status, entries, week, plans, publications, mail, published>>

\* The foreign key clears the rows of the template in the same statement.
RemoveTemplate(t) ==
  /\ Edit /\ Stored(t)
  /\ templates' = [templates EXCEPT ![t] = "removed"]
  /\ entries' = [e \in Employees |-> [d \in Days |->
       IF entries[e][d] = t THEN "NOTHING" ELSE entries[e][d]]]
  /\ UNCHANGED <<status, week, plans, publications, mail, published>>

SetStatus(e, s) ==
  /\ Edit /\ status[e] \notin {"GONE", s} /\ s # "GONE"
  /\ status' = [status EXCEPT ![e] = s]
  /\ UNCHANGED <<templates, entries, week, plans, publications, mail, published>>

RemoveEmployee(e) ==
  /\ Edit /\ status[e] # "GONE"
  /\ status' = [status EXCEPT ![e] = "GONE"]
  /\ entries' = [entries EXCEPT ![e] = Empty[e]]
  /\ UNCHANGED <<templates, week, plans, publications, mail, published>>

-----------------------------------------------------------------------------
(* setEntry.                                                               *)

Plans(m, plan) == plans' = [plans EXCEPT ![m] = plan]

LoadEmployee(m, e, d, w) ==
  /\ Edit /\ plans[m].at = "idle" /\ status[e] # "GONE"
  /\ Plans(m, [NoPlan EXCEPT !.at = "opening", !.employee = e, !.day = d, !.wanted = w,
                             !.away = (status[e] # "ACTIVE")])
  /\ UNCHANGED <<staff, entries, week, publications, mail, published>>

\* A locked week refuses; so does, for anything but clearing, the status of the
\* employee, which for a shift is looked at after the template.
AssertUnlocked(m) ==
  LET plan == plans[m] IN
  /\ plan.at = "opening"
  /\ Plans(m, IF week.locked THEN NoPlan
              ELSE IF plan.wanted \in Templates THEN [plan EXCEPT !.at = "looking"]
              ELSE IF plan.wanted # "NOTHING" /\ plan.away THEN NoPlan
              ELSE [plan EXCEPT !.at = "writing"])
  /\ UNCHANGED <<staff, entries, week, publications, mail, edits, published>>

FindTemplate(m) ==
  LET plan == plans[m] IN
  /\ plan.at = "looking"
  /\ Plans(m, IF Stored(plan.wanted) /\ ~plan.away
              THEN [plan EXCEPT !.at = "writing"] ELSE NoPlan)
  /\ UNCHANGED <<staff, entries, week, publications, mail, edits, published>>

\* As if schedule_entries referred to templates without a foreign key.
Storable_withoutTemplateKey(e, w) == status[e] # "GONE"

\* The foreign keys: a row needs its employee and its template.
Storable(e, w) == status[e] # "GONE" /\ (w \in Templates => Stored(w))

UpsertEntry(m) ==
  LET plan == plans[m] IN
  /\ plan.at = "writing"
  /\ entries' = IF Storable(plan.employee, plan.wanted)
                THEN [entries EXCEPT ![plan.employee][plan.day] = plan.wanted] ELSE entries
  /\ Plans(m, NoPlan)
  /\ UNCHANGED <<staff, week, publications, mail, edits, published>>

-----------------------------------------------------------------------------
(* copyPreviousWeek: the lock, two reads, one transaction.                 *)

BeginCopy(m) ==
  /\ Edit /\ plans[m].at = "idle" /\ ~week.locked
  /\ Plans(m, [NoPlan EXCEPT !.at = "copying"])
  /\ UNCHANGED <<staff, entries, week, publications, mail, published>>

\* The previous week is left open: any shifts and days off.  Those of someone
\* whose status keeps them away are skipped.
ReadPrevious(m) ==
  /\ plans[m].at = "copying" /\ plans[m].previous = None
  /\ \E previous \in Grid({t \in Templates : Stored(t)} \union {"DAY_OFF", "NOTHING"}) :
       /\ \A e \in Employees : status[e] # "ACTIVE" => previous[e] = Empty[e]
       /\ Plans(m, [plans[m] EXCEPT !.previous = previous])
  /\ UNCHANGED <<staff, entries, week, publications, mail, edits, published>>

ReadLeave(m) ==
  /\ plans[m].at = "copying" /\ plans[m].leave = None
  /\ Plans(m, [plans[m] EXCEPT !.leave =
       {c \in Employees \X Days : entries[c[1]][c[2]] = "LEAVE"}])
  /\ UNCHANGED <<staff, entries, week, publications, mail, edits, published>>

Copies(m, e, d) == plans[m].previous[e][d] # "NOTHING" /\ <<e, d>> \notin plans[m].leave

WriteCopy(m) ==
  LET plan == plans[m] IN
  /\ plan.at = "copying" /\ plan.previous # None /\ plan.leave # None
  /\ entries' =
       IF \A e \in Employees, d \in Days : Copies(m, e, d) => Storable(e, plan.previous[e][d])
       THEN [e \in Employees |-> [d \in Days |->
              IF Copies(m, e, d) THEN plan.previous[e][d] ELSE entries[e][d]]]
       ELSE entries
  /\ Plans(m, NoPlan)
  /\ UNCHANGED <<staff, week, publications, mail, edits, published>>

-----------------------------------------------------------------------------
(* publish and unlock.                                                     *)

Publishes(p, publication) == publications' = [publications EXCEPT ![p] = publication]

BeginPublish(p) ==
  /\ publications[p].at = "idle" /\ ~week.locked
  /\ published < MAX_PUBLICATIONS /\ published' = published + 1
  /\ Publishes(p, [NoPublication EXCEPT !.at = "reading", !.update = week.published,
                                        !.before = week.snapshot])
  /\ UNCHANGED <<staff, entries, week, plans, mail, edits>>

Reads(p) ==
  /\ publications[p].at = "reading"
  /\ UNCHANGED <<staff, entries, week, plans, mail, edits, published>>

ReadEmployees(p) ==
  /\ Reads(p) /\ publications[p].status = None
  /\ Publishes(p, [publications[p] EXCEPT !.status = status])

ReadEntries(p) ==
  /\ Reads(p) /\ publications[p].entries = None
  /\ Publishes(p, [publications[p] EXCEPT !.entries = entries])

ReadTemplates(p) ==
  /\ Reads(p) /\ publications[p].templates = None
  /\ Publishes(p, [publications[p] EXCEPT !.templates = templates])

\* As if the row of a shift were kept instead of what its template says.
snapshotOf_unresolved(pub) == [e \in Employees |-> [d \in Days |->
  IF pub.status[e] # "ACTIVE" THEN "NOTHING" ELSE pub.entries[e][d]]]

\* What an employee is told of a day: the shift's hours, a day off or a leave;
\* nothing of a shift whose template was not read, or of a day away by status.
snapshotOf(pub) == [e \in Employees |-> [d \in Days |->
  LET w == pub.entries[e][d] IN
  IF pub.status[e] # "ACTIVE" THEN "NOTHING"
  ELSE IF w \notin Templates THEN w
  ELSE IF pub.templates[w] \in Hours THEN pub.templates[w]
  ELSE "NOTHING"]]

\* As if only the employees of the new snapshot were compared.
changedEmployees_ofCurrent(before, after) ==
  {e \in Employees : before[e] # after[e] /\ after[e] # Empty[e]}

changedEmployees(before, after) == {e \in Employees : before[e] # after[e]}

\* As if every publication were the first.
Recipients_everybody(pub) == {e \in Employees : pub.status[e] # "GONE"}

\* An update is for those whose days changed, the first publication for all.
Recipients(pub) ==
  {e \in Employees : /\ pub.status[e] # "GONE"
                     /\ pub.update => e \in changedEmployees(pub.before, snapshotOf(pub))}

LockWeek(p) ==
  LET pub == publications[p] IN
  /\ pub.at = "reading" /\ None \notin {pub.status, pub.entries, pub.templates}
  /\ week' = [locked |-> TRUE, published |-> TRUE, snapshot |-> snapshotOf(pub)]
  /\ Publishes(p, [NoPublication EXCEPT !.at = "emailing", !.update = pub.update,
                     !.snapshot = snapshotOf(pub), !.todo = Recipients(pub)])
  /\ UNCHANGED <<staff, entries, plans, mail, edits, published>>

\* Every email is sent on its own: one that fails is reported, and that is all.
Email(p, e) ==
  /\ publications[p].at = "emailing" /\ e \in publications[p].todo
  /\ Publishes(p, [publications[p] EXCEPT !.todo = @ \ {e}])
  /\ \/ told' = [told EXCEPT ![e] = publications[p].snapshot[e]] /\ missed' = missed \ {e}
     \/ missed' = missed \union {e} /\ UNCHANGED told
  /\ UNCHANGED <<staff, entries, week, plans, edits, published>>

EndPublish(p) ==
  /\ publications[p].at = "emailing" /\ publications[p].todo = {}
  /\ Publishes(p, NoPublication)
  /\ UNCHANGED <<staff, entries, week, plans, mail, edits, published>>

Unlock ==
  /\ week' = [week EXCEPT !.locked = FALSE]
  /\ UNCHANGED <<staff, entries, plans, publications, mail, edits, published>>

\* The process stops: the emails still to be sent never are.
Die(p) ==
  /\ publications[p].at # "idle"
  /\ Publishes(p, NoPublication)
  /\ missed' = missed \union publications[p].todo
  /\ UNCHANGED <<staff, entries, week, plans, told, edits, published>>

PlanDies(m) ==
  /\ plans[m].at # "idle" /\ Plans(m, NoPlan)
  /\ UNCHANGED <<staff, entries, week, publications, mail, edits, published>>

-----------------------------------------------------------------------------
SetEntry(m) == AssertUnlocked(m) \/ FindTemplate(m) \/ UpsertEntry(m)
Copy(m) == BeginCopy(m) \/ ReadPrevious(m) \/ ReadLeave(m) \/ WriteCopy(m)
Publish(p) == \/ BeginPublish(p) \/ ReadEmployees(p) \/ ReadEntries(p) \/ ReadTemplates(p)
              \/ LockWeek(p) \/ EndPublish(p)

Next ==
  \/ \E t \in Templates : RemoveTemplate(t) \/ \E h \in Hours : SetTemplate(t, h)
  \/ \E e \in Employees : RemoveEmployee(e) \/ \E s \in Status : SetStatus(e, s)
  \/ \E m \in Managers :
       \/ \E e \in Employees, d \in Days, w \in Assignment : LoadEmployee(m, e, d, w)
       \/ SetEntry(m) \/ Copy(m) \/ PlanDies(m)
  \/ \E p \in Publishers : Publish(p) \/ Die(p) \/ \E e \in Employees : Email(p, e)
  \/ Unlock

Spec == Init /\ [][Next]_vars

-----------------------------------------------------------------------------
\* Every variable keeps its type; what a publication holds is a whole grid.
TypeOK ==
  /\ templates \in [Templates -> Template]
  /\ status \in [Employees -> Status]
  /\ entries \in Grid(Assignment)
  /\ week \in [locked : BOOLEAN, published : BOOLEAN, snapshot : Grid(DayMark)]
  /\ plans \in [Managers -> Plan]
  /\ publications \in [Publishers -> Publication]
  /\ told \in Grid(DayMark) /\ missed \subseteq Employees
  /\ edits \in 0..MAX_EDITS /\ published \in 0..MAX_PUBLICATIONS

Awaited(e) == \E p \in Publishers : e \in publications[p].todo

\* The published snapshot is what each employee was last told (schema.prisma
\* ScheduleWeek): however plans, templates and statuses moved while a
\* publication read them, whoever is not waiting for an email or missed one has
\* in their mailbox the days the week's row holds for them.
SnapshotIsWhatTheyWereTold ==
  \A e \in Employees :
    status[e] # "GONE" /\ e \notin missed /\ ~Awaited(e) => told[e] = week.snapshot[e]

\* Publishing again writes only to those it has something new for: no email of
\* an update repeats the one its reader already has.
NobodyIsToldTwice ==
  \A p \in Publishers : \A e \in publications[p].todo \ missed :
    publications[p].update => told[e] # publications[p].snapshot[e]

\* No row points at a template that does not exist, however its removal falls
\* between the check of an assignment or a copy and its write (removeTemplate).
RowsPointAtTemplates ==
  \A e \in Employees, d \in Days : entries[e][d] \in Templates => Stored(entries[e][d])

\* A published week is locked: its entries do not change until it is unlocked
\* (schema.prisma ScheduleWeek), but for a removed template or employee.
LockedWeekStands ==
  [][week.locked /\ week'.locked =>
       \A e \in Employees, d \in Days :
         entries'[e][d] # entries[e][d] =>
           status'[e] = "GONE" \/ entries[e][d] \in {t \in Templates : templates'[t] = "removed"}]_vars
=============================================================================
