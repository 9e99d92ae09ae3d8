----------------------------- MODULE PayrollTeam -----------------------------
(***************************************************************************)
(* A company's people and the payments one payroll run is made of:         *)
(* PayrollRunService.context, which decides who is on a period's payroll   *)
(* and splits everyone's gross three ways, and paymentsFor, which turns    *)
(* the split into the list the bank executes.                              *)
(*                                                                         *)
(* A hire date is kept as its month: the code compares it with the last    *)
(* day of the period's month, which no day of that month is after.         *)
(***************************************************************************)
EXTENDS NetSalary, Functions

CONSTANTS People,          \* employees the company may have
          StartingSalaries,\* gross salaries someone is hired at
          MaxGross,        \* bound on a salary
          Horizon,         \* bound on the months: 1..Horizon
          TaxYears         \* the parameters considered

ASSUME TeamAssumption ==
  /\ MaxGross \in Nat /\ Horizon \in Nat \ {0}
  /\ StartingSalaries \subseteq 1..MaxGross
  /\ People \intersect {"CONTRIBUTIONS", "INCOME_TAX"} = {}
  /\ TaxYears \subseteq Parameters /\ TaxYears # {}

Absent == [gross |-> 0, hired |-> 0]

VARIABLES team,        \* team[e]: gross salary and hire month, or Absent
          period,      \* the month on the table
          parameters   \* TaxSettings of the period's year

vars == <<team, period, parameters>>

Init ==
  /\ team = [e \in People |-> Absent]
  /\ period = 1
  /\ parameters \in TaxYears

Employed == {e \in People : team[e] # Absent}

\* Employees.create: the hire date may lie in the past or ahead.
Hire(e) ==
  /\ team[e] = Absent
  /\ \E gross \in StartingSalaries, month \in 1..Horizon :
       team' = [team EXCEPT ![e] = [gross |-> gross, hired |-> month]]
  /\ UNCHANGED <<period, parameters>>

\* Employees.update: the salary up or down, the hire date corrected.
Update(e) ==
  /\ e \in Employed
  /\ \E gross \in 1..MaxGross, month \in 1..Horizon :
       team' = [team EXCEPT ![e] = [gross |-> gross, hired |-> month]]
  /\ UNCHANGED <<period, parameters>>

\* The salary cleared, and the hire date left behind.
Remove_keepsTheHireDate(e) ==
  /\ e \in Employed
  /\ team' = [team EXCEPT ![e].gross = 0]
  /\ UNCHANGED <<period, parameters>>

\* Employees.remove.
Remove(e) ==
  /\ e \in Employed
  /\ team' = [team EXCEPT ![e] = Absent]
  /\ UNCHANGED <<period, parameters>>

NextPeriod ==
  /\ period < Horizon
  /\ period' = period + 1
  /\ UNCHANGED <<team, parameters>>

Next ==
  \/ \E e \in People : Hire(e) \/ Update(e) \/ Remove(e)
  \/ NextPeriod

Spec == Init /\ [][Next]_vars

-----------------------------------------------------------------------------
\* Everyone employed by the end of the period's month: "the same rule as the
\* team page's 'this month's payroll' figure" (payroll-run.service.ts:303), which
\* summarize has in the employees' service.
OnPayroll == {e \in Employed : team[e].hired <= period}

NetFor(e) == NetOf(team[e].gross, parameters)

\* The sum over the payroll of what is owed for each.
OverPayroll(owed(_)) == SumFunction([e \in OnPayroll |-> owed(e)])

Contributions == OverPayroll(LAMBDA e : ContributionsOn(team[e].gross, parameters))

\* Charged on the payroll as a whole instead of person by person.
IncomeTax_onTheTotal ==
  PercentOf(OverPayroll(LAMBDA e : TaxableBase(team[e].gross, parameters)),
            parameters.incomeTaxRate)

IncomeTax == OverPayroll(LAMBDA e : IncomeTaxOn(team[e].gross, parameters))

\* Zero charges are left out rather than sent as a payment of nothing.
Statutory ==
  {line \in {[to |-> "CONTRIBUTIONS", amount |-> Contributions],
             [to |-> "INCOME_TAX", amount |-> IncomeTax]} : line.amount > 0}

PaymentsFor == {[to |-> e, amount |-> NetFor(e)] : e \in OnPayroll} \union Statutory

-----------------------------------------------------------------------------
TypeOK ==
  /\ team \in [People -> {Absent} \union [gross : 1..MaxGross, hired : 1..Horizon]]
  /\ period \in 1..Horizon
  /\ parameters \in TaxYears

\* What a run moves is the gross of everyone on the payroll, to the deni,
\* whatever was rounded on the way: "The three add up to gross exactly, which
\* is what the run pays" (payroll-run.service.ts:310).  And every payment moves
\* money: one line of nothing and the bank would refuse the whole run
\* (payroll-run.service.ts:355).
MovesTheGross ==
  SumFunction([p \in PaymentsFor |-> p.amount])
    = OverPayroll(LAMBDA e : team[e].gross)

RunPaysGrossExactly ==
  /\ MovesTheGross
  /\ \A p \in PaymentsFor : p.amount > 0

\* A raise never costs the person who gets it, across every rounding and
\* across the step where the allowance is used up.
RaiseNeverCutsNet ==
  [][ \A e \in People :
        team[e] # Absent /\ team'[e] # Absent /\ team'[e].gross > team[e].gross
          => NetFor(e)' >= NetFor(e) ]_vars
=============================================================================
