----------------------------- MODULE PagesProofs -----------------------------
(***************************************************************************)
(* The team's payroll and the pages.                                       *)
(*                                                                         *)
(* What calculateNetSalary promises for every gross salary and every rate, *)
(* not only for the salaries and the tax years of the model-checking run.  *)
(* What a run pays: its payments, nets and the two statutory ones, add up  *)
(* to the gross of the team's payroll, by sums over any finite team.       *)
(*                                                                         *)
(* That what a page asks for once is done once, for any number of rows,    *)
(* tabs, calls and quotes: RInv for the rows of ShiftTemplatesModal, PInv  *)
(* for PayPayrollModal, BInv for the browser's session.  And that what a   *)
(* page shows at rest is what the server has: SInv for the rows, QInv for  *)
(* the pay dialog, VInv for the figures of the finance pages, which add up *)
(* for every book; ScreensProofs has the other pages.  Nothing is assumed  *)
(* of them but what the pages' modules assume.                             *)
(***************************************************************************)
EXTENDS MCPages, ScreensProofs, DataInduction

\* Rounding half up is monotone, and a numerator larger by at most n
\* denominators rounds at most n units higher.
LEMMA RoundingGap ==
  ASSUME NEW x \in Nat, NEW y \in Nat, NEW n \in Nat, x <= y, y <= x + n * Full
  PROVE  /\ RoundedHalfUp(x, Full) \in Nat
         /\ RoundedHalfUp(y, Full) \in Nat
         /\ RoundedHalfUp(x, Full) <= RoundedHalfUp(y, Full)
         /\ RoundedHalfUp(y, Full) <= RoundedHalfUp(x, Full) + n
  BY DEF RoundedHalfUp, Full

LEMMA PercentGap ==
  ASSUME NEW a \in Nat, NEW b \in Nat, NEW r \in Rates, a <= b
  PROVE  /\ PercentOf(a, r) \in Nat
         /\ PercentOf(b, r) \in Nat
         /\ PercentOf(a, r) <= PercentOf(b, r)
         /\ PercentOf(b, r) <= PercentOf(a, r) + (b - a)
  <1>1. r \in Nat /\ r <= Full
    BY DEF Rates, Full
  <1>2. PICK n \in Nat : b = a + n
    <2>1. b - a \in Nat /\ b = a + (b - a)
      OBVIOUS
    <2>2. QED
      BY <2>1
  <1>3. a * r \in Nat /\ n * r \in Nat /\ n * r <= n * Full
    BY <1>1 DEF Full
  <1>4. b * r = a * r + n * r
    BY <1>1, <1>2
  <1>5. b * r \in Nat /\ a * r <= b * r /\ b * r <= a * r + n * Full
    BY <1>3, <1>4 DEF Full
  <1>6. QED
    BY <1>2, <1>3, <1>5, RoundingGap DEF PercentOf

LEMMA PercentWithin ==
  ASSUME NEW a \in Nat, NEW r \in Rates
  PROVE  PercentOf(a, r) \in 0..a
  <1>1. a * r \in Nat /\ a * r <= a * Full
    BY DEF Rates, Full
  <1>2. QED
    BY <1>1 DEF PercentOf, RoundedHalfUp, Full

\* What is left after the contributions grows with the gross, and by no more.
LEMMA BaseGap ==
  ASSUME NEW g \in Nat, NEW h \in Nat, NEW p \in Parameters, g <= h
  PROVE  /\ BaseAfterContributions(g, p) \in 0..g
         /\ BaseAfterContributions(h, p) \in Nat
         /\ BaseAfterContributions(g, p) <= BaseAfterContributions(h, p)
  <1>1. p.contributionsRate \in Rates
    BY DEF Parameters
  <1>2. /\ ContributionsOn(g, p) \in 0..g
        /\ ContributionsOn(h, p) \in 0..h
        /\ ContributionsOn(h, p) <= ContributionsOn(g, p) + (h - g)
    BY <1>1, PercentGap, PercentWithin DEF ContributionsOn
  <1>3. QED
    BY <1>2 DEF BaseAfterContributions

\* A higher gross never leaves less net: calculateNetSalary is monotone,
\* whatever the rates and the allowance, and never pays more than the gross.
THEOREM NetNeverFalls ==
  ASSUME NEW g \in Nat, NEW h \in Nat, NEW p \in Parameters, g <= h
  PROVE  /\ NetOf(g, p) <= NetOf(h, p)
         /\ NetOf(g, p) \in 0..g
         /\ NetOf(h, p) \in Int
  <1> DEFINE low  == BaseAfterContributions(g, p)
             high == BaseAfterContributions(h, p)
  <1>1. p.incomeTaxRate \in Rates /\ p.personalAllowanceMonthly \in Nat
    BY DEF Parameters
  <1>2. low \in 0..g /\ high \in Nat /\ low <= high
    BY BaseGap
  <1>3. /\ TaxableBase(g, p) \in 0..low /\ TaxableBase(h, p) \in Nat
        /\ TaxableBase(g, p) <= TaxableBase(h, p)
        /\ TaxableBase(h, p) - TaxableBase(g, p) <= high - low
    BY <1>1, <1>2 DEF TaxableBase, Lower
  <1>4. TaxableBase(g, p) \in Nat
    BY <1>2, <1>3
  <1>5. IncomeTaxOn(g, p) \in 0..TaxableBase(g, p)
    BY <1>1, <1>4, PercentWithin DEF IncomeTaxOn
  <1>6. /\ IncomeTaxOn(h, p) \in Nat
        /\ IncomeTaxOn(h, p) <= IncomeTaxOn(g, p) + (TaxableBase(h, p) - TaxableBase(g, p))
    BY <1>1, <1>3, <1>4, PercentGap DEF IncomeTaxOn
  <1>7. QED
    BY <1>2, <1>3, <1>4, <1>5, <1>6 DEF NetOf

-----------------------------------------------------------------------------
LEMMA TeamStarts == Init => TypeOK
  BY TeamAssumption DEF Init, TypeOK

LEMMA Types == TypeOK /\ [Next]_vars => TypeOK'
  <1> SUFFICES ASSUME TypeOK, [Next]_vars PROVE TypeOK'
    OBVIOUS
  <1> USE TeamAssumption DEF TypeOK
  <1>1. ASSUME NEW e \in People, Hire(e) PROVE TypeOK'
    BY <1>1 DEF Hire
  <1>2. ASSUME NEW e \in People, Update(e) PROVE TypeOK'
    BY <1>2 DEF Update
  <1>3. ASSUME NEW e \in People, Remove(e) PROVE TypeOK'
    BY <1>3 DEF Remove
  <1>4. CASE NextPeriod
    BY <1>4 DEF NextPeriod
  <1>5. CASE UNCHANGED vars
    BY <1>5 DEF vars
  <1>6. QED
    BY <1>1, <1>2, <1>3, <1>4, <1>5 DEF Next

\* Type correctness of the team: everyone employed has a positive salary and a
\* hire month, everyone else neither.
THEOREM Typing == Spec => []TypeOK
  BY TeamStarts, Types, PTL DEF Spec

\* A raise never costs the person who gets it, for every team, every salary
\* and every rate.
THEOREM RaisesPay == Spec => RaiseNeverCutsNet
  <1> DEFINE Pays(e) ==
        team[e] # Absent /\ team'[e] # Absent /\ team'[e].gross > team[e].gross
          => NetFor(e)' >= NetFor(e)
  <1>1. ASSUME TypeOK, Next, NEW e \in People PROVE Pays(e)
    <2> SUFFICES ASSUME team[e] # Absent, team'[e] # Absent,
                        team'[e].gross > team[e].gross
                 PROVE  NetFor(e)' >= NetFor(e)
      OBVIOUS
    <2>1. parameters \in Parameters /\ parameters' = parameters
      BY <1>1, TeamAssumption DEF TypeOK, Next, Hire, Update, Remove, NextPeriod
    <2>2. team[e].gross \in Nat
      BY <1>1 DEF TypeOK
    <2>3. team'[e].gross \in Nat
      BY <1>1, Types DEF TypeOK
    <2>4. NetOf(team[e].gross, parameters) <= NetOf(team'[e].gross, parameters)
      BY <2>1, <2>2, <2>3, NetNeverFalls
    <2>5. QED
      BY <2>1, <2>2, <2>3, <2>4, NetNeverFalls DEF NetFor
  <1>2. TypeOK /\ [Next]_vars
          => [\A e \in People : Pays(e)]_vars
    BY <1>1
  <1>3. QED
    BY <1>2, Typing, PTL DEF Spec, RaiseNeverCutsNet

-----------------------------------------------------------------------------
\* What a run moves.

\* The three parts of a gross add up to it.
LEMMA GrossSplits ==
  ASSUME NEW g \in Nat, NEW p \in Parameters
  PROVE  /\ ContributionsOn(g, p) \in Nat /\ IncomeTaxOn(g, p) \in Nat
         /\ NetOf(g, p) \in Nat
         /\ g = NetOf(g, p) + (ContributionsOn(g, p) + IncomeTaxOn(g, p))
  <1>1. p.contributionsRate \in Rates /\ p.incomeTaxRate \in Rates
        /\ p.personalAllowanceMonthly \in Nat
    BY DEF Parameters
  <1>2. ContributionsOn(g, p) \in 0..g
    BY <1>1, PercentWithin DEF ContributionsOn
  <1>3. TaxableBase(g, p) \in Nat
    BY <1>1, <1>2 DEF TaxableBase, BaseAfterContributions, Lower
  <1>4. IncomeTaxOn(g, p) \in 0..TaxableBase(g, p)
    BY <1>1, <1>3, PercentWithin DEF IncomeTaxOn
  <1>5. NetOf(g, p) \in Nat
    BY NetNeverFalls
  <1> QED
    BY <1>2, <1>3, <1>4, <1>5 DEF NetOf, BaseAfterContributions

\* Less than half of an amount, rounded half up, is less than the amount.
LEMMA PercentBelow ==
  ASSUME NEW a \in Nat \ {0}, NEW r \in Rates, 2 * r < Full
  PROVE  PercentOf(a, r) < a
  <1>1. r \in Nat /\ 2 * r <= Full - 1
    BY DEF Rates, Full
  <1>2. a * (2 * r) <= a * (Full - 1)
    BY <1>1 DEF Full
  <1>3. 2 * (a * r) = a * (2 * r) /\ a * r \in Nat
    BY <1>1
  <1>4. 2 * (a * r) + Full < a * (2 * Full)
    BY <1>2, <1>3 DEF Full
  <1> QED
    BY <1>3, <1>4 DEF PercentOf, RoundedHalfUp, Full

\* Where neither rate reaches half, somebody with a salary is paid something.
LEMMA NetIsPositive ==
  ASSUME NEW g \in Nat \ {0}, NEW p \in Parameters,
         2 * p.contributionsRate < Full, 2 * p.incomeTaxRate < Full
  PROVE  NetOf(g, p) > 0
  <1> DEFINE base == BaseAfterContributions(g, p)
             taxed == TaxableBase(g, p)
  <1>1. p.contributionsRate \in Rates /\ p.incomeTaxRate \in Rates
        /\ p.personalAllowanceMonthly \in Nat
    BY DEF Parameters
  <1>2. ContributionsOn(g, p) \in 0..(g - 1)
    BY <1>1, PercentWithin, PercentBelow DEF ContributionsOn
  <1>3. base \in Nat \ {0}
    BY <1>2 DEF BaseAfterContributions
  <1>4. taxed \in 0..base
    BY <1>1, <1>3 DEF TaxableBase, Lower
  <1>5. IncomeTaxOn(g, p) \in 0..taxed /\ (taxed # 0 => IncomeTaxOn(g, p) < taxed)
    BY <1>1, <1>3, <1>4, PercentWithin, PercentBelow DEF IncomeTaxOn
  <1> QED
    BY <1>3, <1>4, <1>5 DEF NetOf

Salaries == {[to |-> e, amount |-> NetFor(e)] : e \in OnPayroll}
Charge(kind, amount) == [to |-> kind, amount |-> amount]

\* What is owed for one person on the payroll.
LEMMA OwedForOne ==
  ASSUME TypeOK, NEW e \in OnPayroll
  PROVE  /\ team[e].gross \in Nat \ {0} /\ parameters \in Parameters
         /\ ContributionsOn(team[e].gross, parameters) \in Nat
         /\ IncomeTaxOn(team[e].gross, parameters) \in Nat
         /\ NetFor(e) \in Nat
         /\ team[e].gross = NetFor(e) + (ContributionsOn(team[e].gross, parameters)
                                           + IncomeTaxOn(team[e].gross, parameters))
  <1>1. team[e].gross \in Nat \ {0} /\ parameters \in Parameters
    BY TeamAssumption DEF TypeOK, OnPayroll, Employed
  <1> QED
    BY <1>1, GrossSplits DEF NetFor

\* The payroll's gross is its net, its contributions and its tax.
LEMMA TotalsSplit ==
  ASSUME TypeOK, IsFiniteSet(People)
  PROVE  /\ IsFiniteSet(OnPayroll)
         /\ Contributions \in Nat /\ IncomeTax \in Nat
         /\ OverPayroll(NetFor) \in Nat
         /\ OverPayroll(LAMBDA e : team[e].gross)
              = OverPayroll(NetFor) + (Contributions + IncomeTax)
  <1> DEFINE n == [e \in OnPayroll |-> NetFor(e)]
             c == [e \in OnPayroll |-> ContributionsOn(team[e].gross, parameters)]
             t == [e \in OnPayroll |-> IncomeTaxOn(team[e].gross, parameters)]
             s == [e \in OnPayroll |-> c[e] + t[e]]
             g == [e \in OnPayroll |-> team[e].gross]
  <1>1. IsFiniteSet(OnPayroll)
    BY FS_Subset DEF OnPayroll, Employed
  <1>2. \A e \in OnPayroll : /\ n[e] \in Nat /\ c[e] \in Nat /\ t[e] \in Nat
                             /\ s[e] = c[e] + t[e] /\ g[e] = n[e] + s[e]
    BY OwedForOne
  <1>3. /\ OverPayroll(NetFor) = SumFunctionOnSet(n, OnPayroll)
        /\ Contributions = SumFunctionOnSet(c, OnPayroll)
        /\ IncomeTax = SumFunctionOnSet(t, OnPayroll)
        /\ OverPayroll(LAMBDA e : team[e].gross) = SumFunctionOnSet(g, OnPayroll)
    BY DEF OverPayroll, Contributions, IncomeTax, SumFunction
  <1> HIDE DEF n, c, t, s, g
  <1>4. /\ SumFunctionOnSet(n, OnPayroll) \in Nat
        /\ SumFunctionOnSet(c, OnPayroll) \in Nat
        /\ SumFunctionOnSet(t, OnPayroll) \in Nat
    BY <1>1, <1>2, SumNat
  <1>5. SumFunctionOnSet(s, OnPayroll)
          = SumFunctionOnSet(c, OnPayroll) + SumFunctionOnSet(t, OnPayroll)
    BY <1>1, <1>2, SumPlus
  <1>6. SumFunctionOnSet(g, OnPayroll)
          = SumFunctionOnSet(n, OnPayroll) + SumFunctionOnSet(s, OnPayroll)
    BY <1>1, <1>2, SumPlus
  <1> QED
    BY <1>1, <1>3, <1>4, <1>5, <1>6

\* The payments for the bank: a salary each, and the charges that are not zero.
LEMMA RunMovesTheGross ==
  ASSUME TypeOK, IsFiniteSet(People)
  PROVE  MovesTheGross
  <1> DEFINE paid == [p \in PaymentsFor |-> p.amount]
             n == [e \in OnPayroll |-> NetFor(e)]
             name == [e \in OnPayroll |-> [to |-> e, amount |-> NetFor(e)]]
             C == Charge("CONTRIBUTIONS", Contributions)
             T == Charge("INCOME_TAX", IncomeTax)
             A == IF Contributions > 0 THEN Salaries \union {C} ELSE Salaries
             B == IF IncomeTax > 0 THEN A \union {T} ELSE A
  <1>1. /\ IsFiniteSet(OnPayroll) /\ Contributions \in Nat /\ IncomeTax \in Nat
        /\ OverPayroll(NetFor) \in Nat
        /\ OverPayroll(LAMBDA e : team[e].gross)
             = OverPayroll(NetFor) + (Contributions + IncomeTax)
    BY TotalsSplit
  <1>2. Salaries = {name[e] : e \in OnPayroll}
    BY DEF Salaries
  <1>3. PaymentsFor = B
    BY DEF PaymentsFor, Statutory, Salaries, Charge
  <1>4. /\ Salaries \subseteq PaymentsFor
        /\ Contributions > 0 => C \in PaymentsFor
        /\ IncomeTax > 0 => T \in PaymentsFor
    BY <1>3
  <1>5. \A e \in OnPayroll : n[e] \in Nat /\ paid[name[e]] = n[e]
    BY <1>2, <1>4, OwedForOne
  <1>6. \A e, f \in OnPayroll : name[e] = name[f] => e = f
    <2>1. \A e \in OnPayroll : name[e].to = e
      OBVIOUS
    <2> QED
      BY <2>1
  <1>7. OverPayroll(NetFor) = SumFunctionOnSet(n, OnPayroll)
    BY DEF OverPayroll, SumFunction
  <1>8. IsFiniteSet(Salaries) /\ SumFunctionOnSet(paid, Salaries) = OverPayroll(NetFor)
    <2>1. \A e \in OnPayroll : n[e] \in Int /\ paid[name[e]] = n[e]
      BY <1>5
    <2>2. /\ \A e \in OnPayroll : name[e] \in Salaries
          /\ \A s \in Salaries : \E e \in OnPayroll : s = name[e]
      BY <1>2
    <2> HIDE DEF n, paid, name
    <2>3. /\ IsFiniteSet(Salaries)
          /\ SumFunctionOnSet(paid, Salaries) = SumFunctionOnSet(n, OnPayroll)
      BY ONLY <1>1, <1>6, <2>1, <2>2, SumRenamed
    <2> QED
      BY <1>7, <2>3
  <1>9. C \notin Salaries /\ T \notin A
    <2>1. \A p \in Salaries : p.to \in People
      BY DEF Salaries, OnPayroll, Employed
    <2>2. C.to = "CONTRIBUTIONS" /\ T.to = "INCOME_TAX"
      BY DEF Charge
    <2> QED
      BY <2>1, <2>2, TeamAssumption
  <1>10. \A p \in Salaries : paid[p] \in Int
    BY <1>2, <1>5
  <1>11. /\ Contributions > 0 => paid[C] = Contributions
         /\ IncomeTax > 0 => paid[T] = IncomeTax
    BY <1>4 DEF Charge
  <1>12. SumFunction(paid) = SumFunctionOnSet(paid, B)
    BY <1>3 DEF SumFunction
  <1> HIDE DEF paid, C, T
  <1>13. /\ IsFiniteSet(A) /\ \A p \in A : paid[p] \in Int
         /\ SumFunctionOnSet(paid, A) = OverPayroll(NetFor) + Contributions
    <2>1. CASE Contributions > 0
      <3>1. A = Salaries \union {C} /\ paid[C] = Contributions
        BY <1>11, <2>1
      <3>2. SumFunctionOnSet(paid, Salaries \union {C})
              = SumFunctionOnSet(paid, Salaries) + paid[C]
        BY <1>1, <1>8, <1>9, <1>10, <3>1, SumGrows
      <3>3. IsFiniteSet(Salaries \union {C})
        BY <1>8, FS_AddElement
      <3> QED
        BY <1>1, <1>8, <1>10, <3>1, <3>2, <3>3
    <2>2. CASE ~(Contributions > 0)
      BY <1>1, <1>8, <1>10, <2>2
    <2> QED
      BY <2>1, <2>2
  <1> HIDE DEF A
  <1>14. SumFunctionOnSet(paid, B) = OverPayroll(NetFor) + Contributions + IncomeTax
    <2>1. CASE IncomeTax > 0
      <3>1. B = A \union {T} /\ paid[T] = IncomeTax
        BY <1>11, <2>1
      <3>2. SumFunctionOnSet(paid, A \union {T}) = SumFunctionOnSet(paid, A) + paid[T]
        BY <1>1, <1>9, <1>13, <3>1, SumGrows
      <3> QED
        BY <1>13, <3>1, <3>2
    <2>2. CASE ~(IncomeTax > 0)
      BY <1>1, <1>13, <2>2
    <2> QED
      BY <2>1, <2>2
  <1>15. SumFunction(paid) = OverPayroll(LAMBDA e : team[e].gross)
    BY <1>1, <1>12, <1>14
  <1> QED
    BY <1>15 DEF MovesTheGross, paid

\* Whatever was rounded and whoever is on the payroll, the payments of a run
\* add up to the gross of everyone on it, whatever the rates are.
THEOREM RunsMoveTheGross ==
  ASSUME IsFiniteSet(People)
  PROVE  Spec => []MovesTheGross
  BY Typing, RunMovesTheGross, PTL

\* And where both rates are under one half, as the statutory ones are, the bank
\* is never sent a payment of nothing.
THEOREM RunsPayExactly ==
  ASSUME IsFiniteSet(People),
         \A p \in TaxYears : 2 * p.contributionsRate < Full /\ 2 * p.incomeTaxRate < Full
  PROVE  Spec => []RunPaysGrossExactly
  <1>1. TypeOK => \A p \in PaymentsFor : p.amount > 0
    <2> SUFFICES ASSUME TypeOK, NEW p \in PaymentsFor PROVE p.amount > 0
      OBVIOUS
    <2>1. CASE p \in Statutory
      BY <2>1 DEF Statutory
    <2>2. CASE p \in Salaries
      <3>1. PICK e \in OnPayroll : p.amount = NetFor(e)
        BY <2>2 DEF Salaries
      <3>2. parameters \in TaxYears
        BY DEF TypeOK
      <3> QED
        BY <3>1, <3>2, OwedForOne, NetIsPositive DEF NetFor
    <2> QED
      BY <2>1, <2>2 DEF PaymentsFor, Salaries
  <1>2. TypeOK => RunPaysGrossExactly
    BY <1>1, RunMovesTheGross DEF RunPaysGrossExactly
  <1> QED
    BY <1>2, Typing, PTL

-----------------------------------------------------------------------------
\* ShiftRows.  A row makes one shift because a create is sent only where no id
\* is known, and saves of a row run one after the other: once a create has been
\* executed, its answer is in the row's slot until the id is kept.

SaveCalls ==
  [at : {"none", "sent", "done", "refused"}, creates : BOOLEAN, body : 0..MaxEdits]

RowsTyped ==
  /\ rows \in [Keys -> Row] /\ drawn \in [Keys -> Row]
  /\ saves \in [Keys -> SaveCalls] /\ savedIds \in [Keys -> BOOLEAN]
  /\ made \in [Keys -> Nat] /\ edits \in 0..MaxEdits

\* React never draws an id the state has not got, and a row the server has made
\* a shift for knows its id, or hears of it next.
RowIsMadeOnce(k) ==
  /\ drawn[k].id => rows[k].id
  /\ k \notin doubts =>
       /\ made[k] <= 1
       /\ made[k] = 1 => KnownId(k) \/ (saves[k].at = "done" /\ saves[k].creates)
       /\ saves[k].at = "sent" /\ saves[k].creates => made[k] = 0

RInv == RowsTyped /\ \A k \in Keys : RowIsMadeOnce(k)

LEMMA RowsStart ==
  ASSUME RowsInit
  PROVE  RInv
  <1>1. PICK known \in SUBSET Keys :
          /\ rows = [k \in Keys |->
               [there |-> TRUE, id |-> k \in known, typed |-> 0, confirming |-> FALSE,
                state |-> IF k \in known THEN "saved" ELSE "incomplete"]]
          /\ made = [k \in Keys |-> IF k \in known THEN 1 ELSE 0]
    BY DEF RowsInit
  <1>2. /\ drawn = rows /\ saves = [k \in Keys |-> NoSave]
        /\ savedIds = [k \in Keys |-> FALSE] /\ edits = 0
    BY DEF RowsInit
  <1>3. 0 \in 0..MaxEdits
    BY RowsAssumption
  <1>4. \A b \in BOOLEAN, word \in {"saved", "incomplete"} :
          [there |-> TRUE, id |-> b, typed |-> 0, confirming |-> FALSE, state |-> word] \in Row
    BY <1>3 DEF Row
  <1>5. \A k \in Keys : (k \in known) \in BOOLEAN
                       /\ (IF k \in known THEN "saved" ELSE "incomplete") \in {"saved", "incomplete"}
    OBVIOUS
  <1>6. \A k \in Keys :
          [there |-> TRUE, id |-> k \in known, typed |-> 0, confirming |-> FALSE,
           state |-> IF k \in known THEN "saved" ELSE "incomplete"] \in Row
    BY <1>4, <1>5
  <1>7. rows \in [Keys -> Row]
    BY <1>1, <1>6
  <1>8. \A k \in Keys : k \in known => rows[k].id
    BY <1>1
  <1>9. saves \in [Keys -> SaveCalls]
    BY <1>2, <1>3 DEF SaveCalls, NoSave
  <1>10. made \in [Keys -> Nat] /\ \A k \in Keys : made[k] = IF k \in known THEN 1 ELSE 0
    BY <1>1
  <1>11. RowsTyped
    BY <1>2, <1>3, <1>7, <1>9, <1>10 DEF RowsTyped
  <1>12. \A k \in Keys : saves[k].at = "none" /\ drawn[k].id = rows[k].id
                        /\ made[k] <= 1 /\ (made[k] = 1 => rows[k].id)
    BY <1>2, <1>8, <1>10 DEF NoSave
  <1>13. \A k \in Keys : RowIsMadeOnce(k)
    BY <1>12 DEF RowIsMadeOnce, KnownId
  <1> QED
    BY <1>11, <1>13 DEF RInv

\* Whatever becomes of a row in the list, it is a row and keeps its id.
KeepsItsId(row, changed) == changed \in Row /\ (row.id => changed.id)

LEMMA RowChanges ==
  ASSUME NEW row \in Row
  PROVE  /\ \A n \in 0..MaxEdits : KeepsItsId(row, [row EXCEPT !.typed = n, !.confirming = FALSE])
         /\ \A word \in {"saved", "saving", "incomplete", "error"} :
              /\ KeepsItsId(row, [row EXCEPT !.state = word])
              /\ KeepsItsId(row, [row EXCEPT !.id = TRUE, !.state = word])
              /\ KeepsItsId(row, [row EXCEPT !.state = word, !.confirming = FALSE])
         /\ KeepsItsId(row, [row EXCEPT !.there = FALSE])
         /\ KeepsItsId(row, [row EXCEPT !.confirming = TRUE])
         /\ KeepsItsId(row, row)
  BY DEF Row, KeepsItsId

LEMMA RowsPatched ==
  ASSUME rows \in [Keys -> Row], NEW k \in Keys, NEW row, KeepsItsId(rows[k], row),
         rows' = [rows EXCEPT ![k] = row]
  PROVE  rows' \in [Keys -> Row] /\ \A j \in Keys : rows[j].id => rows'[j].id
  BY DEF KeepsItsId

LEMMA TypingIsDrawn ==
  ASSUME RInv, NEW k \in Keys, Edit(k)
  PROVE  RInv'
  <1> USE DEF RInv, RowsTyped
  <1>1. edits' \in 0..MaxEdits /\ 0 \in 0..MaxEdits /\ drawn' = rows'
    <2>1. MaxEdits \in Nat
      BY RowsAssumption
    <2> QED
      BY <2>1 DEF Edit
  <1>5. PICK n \in 0..MaxEdits : rows' = [rows EXCEPT ![k].typed = n, ![k].confirming = FALSE]
    BY <1>1 DEF Edit
  <1> DEFINE row == [rows[k] EXCEPT !.typed = n, !.confirming = FALSE]
  <1>4. KeepsItsId(rows[k], row)
    BY RowChanges, Zenon
  <1>6. rows' = [rows EXCEPT ![k] = row]
    BY <1>5
  <1>2. rows' \in [Keys -> Row] /\ \A j \in Keys : rows[j].id => rows'[j].id
    BY <1>4, <1>6, RowsPatched
  <1>3. \A j \in Keys : RowIsMadeOnce(j)'
    BY <1>1, <1>2 DEF Edit, RowIsMadeOnce, KnownId
  <1> QED
    BY <1>1, <1>2, <1>3 DEF Edit

LEMMA SavesKeepIds ==
  ASSUME RInv, NEW k \in Keys, Save(k) \/ SaveEnds(k)
  PROVE  RInv'
  <1> USE DEF RInv, RowsTyped
  <1>1. rows' \in [Keys -> Row] /\ \A j \in Keys : rows[j].id => rows'[j].id
    <2>1. PICK row : KeepsItsId(rows[k], row) /\ rows' = [rows EXCEPT ![k] = row]
      <3>1. rows' \in {rows, [rows EXCEPT ![k] = [rows[k] EXCEPT !.state = "incomplete"]],
                       [rows EXCEPT ![k] = [rows[k] EXCEPT !.state = "saving"]],
                       [rows EXCEPT ![k] = [rows[k] EXCEPT !.id = TRUE, !.state = "saved"]],
                       [rows EXCEPT ![k] = [rows[k] EXCEPT !.state = "error"]]}
        BY DEF Save, SaveEnds, Told, Patched
      <3>2. rows = [rows EXCEPT ![k] = rows[k]]
        OBVIOUS
      <3> QED
        BY <3>1, <3>2, RowChanges, Zenon
    <2> QED
      BY <2>1, RowsPatched, Zenon
  <1>2. saves' \in [Keys -> SaveCalls] /\ savedIds' \in [Keys -> BOOLEAN]
    <2>1. NoSave \in SaveCalls
      BY RowsAssumption DEF NoSave, SaveCalls
    <2>2. (~KnownId(k)) \in BOOLEAN /\ drawn[k].typed \in 0..MaxEdits
      BY DEF Row
    <2>3. \A b \in BOOLEAN, n \in 0..MaxEdits :
            [at |-> "sent", creates |-> b, body |-> n] \in SaveCalls
      BY DEF SaveCalls
    <2>4. [at |-> "sent", creates |-> ~KnownId(k), body |-> drawn[k].typed] \in SaveCalls
      BY <2>2, <2>3
    <2>5. saves' \in {saves, [saves EXCEPT ![k] = NoSave], [saves EXCEPT ![k] =
             [at |-> "sent", creates |-> ~KnownId(k), body |-> drawn[k].typed]]}
      BY DEF Save, SaveEnds
    <2>6. savedIds' \in {savedIds, [savedIds EXCEPT ![k] = TRUE]}
      BY DEF Save, SaveEnds
    <2> QED
      BY <2>1, <2>4, <2>5, <2>6
  <1>3. UNCHANGED <<drawn, made, edits>> /\ doubts \subseteq doubts'
    BY DEF Save, SaveEnds
  <1>4. \A j \in Keys \ {k} : saves'[j] = saves[j] /\ savedIds'[j] = savedIds[j]
    BY DEF Save, SaveEnds
  <1>5. \A j \in Keys \ {k} : RowIsMadeOnce(j)'
    BY <1>1, <1>3, <1>4 DEF RowIsMadeOnce, KnownId
  <1>6. RowIsMadeOnce(k)'
    <2>1. CASE Save(k)
      <3>1. saves[k].at = "none" /\ UNCHANGED <<savedIds, doubts>>
        BY <2>1 DEF Save, Turn
      <3>2. saves'[k].at = "none" \/ (saves'[k].at = "sent" /\ (saves'[k].creates => ~KnownId(k)))
        <4>1. CASE saves' = saves
          BY <3>1, <4>1
        <4>2. CASE saves' # saves
          <5>1. saves'[k] = [at |-> "sent", creates |-> ~KnownId(k), body |-> drawn[k].typed]
            BY <2>1, <4>2 DEF Save
          <5>2. \A n : \A b \in BOOLEAN :
                  LET leaves == [at |-> "sent", creates |-> b, body |-> n] IN
                  leaves.at = "sent" /\ leaves.creates = b
            OBVIOUS
          <5>3. (~KnownId(k)) \in BOOLEAN
            OBVIOUS
          <5>4. saves'[k].at = "sent" /\ saves'[k].creates = ~KnownId(k)
            BY <5>1, <5>2, <5>3
          <5> QED
            BY <5>4
        <4> QED
          BY <4>1, <4>2
      <3>3. CASE k \in doubts
        BY <3>1, <3>3, <1>1, <1>3 DEF RowIsMadeOnce
      <3>4. CASE k \notin doubts
        <4>1. made[k] <= 1 /\ (made[k] = 1 => KnownId(k)) /\ made[k] \in Nat
          BY <3>1, <3>4 DEF RowIsMadeOnce
        <4>2. saves'[k].at = "sent" /\ saves'[k].creates => made[k] = 0
          BY <3>1, <3>2, <4>1
        <4>3. KnownId(k)' = KnownId(k)
          BY <3>1, <1>3 DEF KnownId
        <4> QED
          BY <4>1, <4>2, <4>3, <1>1, <1>3, <3>1 DEF RowIsMadeOnce
      <3> QED
        BY <3>3, <3>4
    <2>2. CASE SaveEnds(k)
      <3>1. saves'[k].at = "none"
        BY <2>2 DEF SaveEnds, NoSave
      <3>2. \/ saves[k].at = "done" /\ savedIds'[k]
            \/ saves[k].at = "refused" /\ savedIds'[k] = savedIds[k]
        BY <2>2 DEF SaveEnds
      <3> QED
        BY <3>1, <3>2, <1>1, <1>3 DEF RowIsMadeOnce, KnownId
    <2> QED
      BY <2>1, <2>2
  <1> QED
    BY <1>1, <1>2, <1>3, <1>5, <1>6

LEMMA CreatesAreCounted ==
  ASSUME RInv, NEW k \in Keys, ServeSave(k) \/ LoseSave(k)
  PROVE  RInv'
  <1> USE DEF RInv, RowsTyped
  <1>1. UNCHANGED <<rows, drawn, savedIds, edits>> /\ doubts \subseteq doubts'
    BY DEF ServeSave, LoseSave
  <1>2. saves' \in [Keys -> SaveCalls] /\ made' \in [Keys -> Nat]
    BY DEF ServeSave, LoseSave, SaveCalls
  <1>3. \A j \in Keys \ {k} : saves'[j] = saves[j] /\ made'[j] = made[j]
    BY DEF ServeSave, LoseSave
  <1>4. \A j \in Keys \ {k} : RowIsMadeOnce(j)'
    BY <1>1, <1>3 DEF RowIsMadeOnce, KnownId
  <1>5. RowIsMadeOnce(k)'
    <2>1. CASE ServeSave(k)
      <3>1. saves[k].at = "sent" /\ saves'[k].creates = saves[k].creates
            /\ saves'[k].at \in {"done", "refused"} /\ (saves[k].creates => saves'[k].at = "done")
            /\ doubts' = doubts
        BY <2>1 DEF ServeSave, SaveCalls
      <3>2. made'[k] = IF saves[k].creates THEN made[k] + 1 ELSE made[k]
        BY <2>1 DEF ServeSave
      <3> QED
        BY <3>1, <3>2, <1>1 DEF RowIsMadeOnce, KnownId
    <2>2. CASE LoseSave(k)
      BY <2>2, <1>1 DEF LoseSave, RowIsMadeOnce, KnownId, SaveCalls
    <2> QED
      BY <2>1, <2>2
  <1> QED
    BY <1>1, <1>2, <1>4, <1>5

LEMMA RemovalsMakeNothing ==
  ASSUME RInv, NEW k \in Keys,
         RemoveRow(k) \/ RemoveGoesOn(k) \/ ServeRemove(k) \/ LoseRemove(k) \/ RemoveEnds(k)
  PROVE  RInv'
  <1> USE DEF RInv, RowsTyped
  <1>1. UNCHANGED <<drawn, saves, savedIds, made, edits>> /\ doubts \subseteq doubts'
    BY DEF RemoveRow, RemoveGoesOn, ServeRemove, LoseRemove, RemoveEnds
  <1>2. rows' \in [Keys -> Row] /\ \A j \in Keys : rows[j].id => rows'[j].id
    <2>1. rows' \in {rows, [rows EXCEPT ![k] = [rows[k] EXCEPT !.there = FALSE]],
                     [rows EXCEPT ![k] = [rows[k] EXCEPT !.confirming = TRUE]],
                     [rows EXCEPT ![k] = [rows[k] EXCEPT !.state = "saving"]],
                     [rows EXCEPT ![k] = [rows[k] EXCEPT !.state = "error", !.confirming = FALSE]]}
      BY DEF RemoveRow, RemoveGoesOn, ServeRemove, LoseRemove, RemoveEnds, Told, Patched
    <2>2. rows = [rows EXCEPT ![k] = rows[k]]
      OBVIOUS
    <2>3. PICK row : KeepsItsId(rows[k], row) /\ rows' = [rows EXCEPT ![k] = row]
      BY <2>1, <2>2, RowChanges, Zenon
    <2> QED
      BY <2>3, RowsPatched
  <1>3. \A j \in Keys : RowIsMadeOnce(j)'
    BY <1>1, <1>2 DEF RowIsMadeOnce, KnownId
  <1> QED
    BY <1>1, <1>2, <1>3

LEMMA DrawnAndTimed ==
  ASSUME RInv, Draw \/ CloseModal \/ (\E k \in Keys : Fire(k)) \/ UNCHANGED rowVars
  PROVE  RInv'
  <1> USE DEF RInv, RowsTyped
  <1>1. UNCHANGED <<rows, saves, savedIds, made, edits, doubts>> /\ drawn' \in {drawn, rows}
    BY DEF Draw, CloseModal, Fire, rowVars
  <1>2. \A j \in Keys : RowIsMadeOnce(j)'
    BY <1>1 DEF RowIsMadeOnce, KnownId
  <1> QED
    BY <1>1, <1>2

LEMMA RowsStep ==
  ASSUME RInv, [RowsNext]_rowVars
  PROVE  RInv'
  BY TypingIsDrawn, SavesKeepIds, CreatesAreCounted, RemovalsMakeNothing, DrawnAndTimed
     DEF RowsNext, RowStep

-----------------------------------------------------------------------------
\* ShiftRows, at rest.  A row that reads "saved" has its last save in the company,
\* and a row out of the list has no shift there.

RemovalCalls ==
  [at : {"none", "waiting", "sent", "done", "refused"}, after : Nat, confirmed : BOOLEAN,
   id : BOOLEAN]
RowChains == [queued : Nat, ended : Nat]

RowsWhollyTyped ==
  /\ timers \subseteq Keys /\ chains \in [Keys -> RowChains] /\ removals \in [Keys -> RemovalCalls]
  /\ shifts \in [Keys -> Int] /\ rowLost \in 0..MaxRowLost

\* What is typed is drawn at once, and every save promised is over or to come.
ChainFits(k) ==
  /\ rows[k].typed = drawn[k].typed /\ (rows[k].there => drawn[k].there)
  /\ chains[k].ended <= chains[k].queued
  /\ saves[k].at # "none" => chains[k].ended < chains[k].queued

\* The id that decides whether a save creates is the one a removal decides by.
IdFits(k) ==
  /\ rows[k].id => KnownId(k)
  /\ saves[k].at # "none" => (saves[k].creates <=> ~KnownId(k))
  /\ shifts[k] # 0 => made[k] > 0
  /\ removals[k].at = "waiting" => (KnownId(k) <=> savedIds[k] \/ removals[k].id)
  /\ removals[k].at \in {"sent", "done", "refused"} => KnownId(k)

IsQuiet(k) == k \notin timers /\ chains[k].queued = chains[k].ended

\* The save in flight is the last one of all that was typed.
SavesTheLast(k) ==
  /\ saves[k].at # "none" /\ k \notin timers /\ k \notin unsaved
  /\ chains[k].queued = chains[k].ended + 1

\* The last save has what the row reads, and the company has what it saved.
SavedFits(k) ==
  k \notin doubts =>
    /\ SavesTheLast(k) => saves[k].body = rows[k].typed
    /\ rows[k].there /\ removals[k].at # "done" =>
         /\ saves[k].at = "done" => shifts[k] = saves[k].body
         /\ rows[k].state = "saved" /\ rows[k].typed # 0 /\ k \notin unsaved /\ IsQuiet(k)
              => shifts[k] = rows[k].typed

\* A row out of the list is gone from the company and is not made again; a row
\* without an id is dropped when nothing more is promised to it.
GoneFits(k) ==
  /\ Ready(k) => saves[k].at = "none"
  /\ k \notin doubts =>
       /\ removals[k].at = "done" => shifts[k] = 0
       /\ ~rows[k].there => shifts[k] = 0 /\ (KnownId(k) \/ IsQuiet(k))
       /\ removals[k].at = "waiting" /\ ~KnownId(k) =>
            IF removals[k].after <= chains[k].ended THEN IsQuiet(k)
            ELSE rows[k].there /\ saves[k].at # "none"

RowFits(k) == ChainFits(k) /\ IdFits(k) /\ SavedFits(k) /\ GoneFits(k)

SInv == RowsWhollyTyped /\ \A k \in Keys : RowFits(k)
-----------------------------------------------------------------------------
\* A row nothing happens to, but that it may be drawn.
SameRow(j) ==
  /\ rows'[j] = rows[j] /\ drawn'[j] \in {drawn[j], rows[j]} /\ chains'[j] = chains[j]
  /\ saves'[j] = saves[j] /\ savedIds'[j] = savedIds[j] /\ removals'[j] = removals[j]
  /\ shifts'[j] = shifts[j] /\ made'[j] = made[j]
  /\ (j \in timers' <=> j \in timers) /\ (j \in unsaved' <=> j \in unsaved)
  /\ j \in doubts => j \in doubts'

LEMMA RowStays ==
  ASSUME RInv, SInv, NEW j \in Keys, SameRow(j)
  PROVE  RowFits(j)'
  <1>0. RowFits(j) /\ (drawn[j].id => rows[j].id) /\ (rows[j].id => KnownId(j))
    BY DEF RInv, SInv, RowIsMadeOnce, RowFits, IdFits
  <1>1. (KnownId(j)' <=> KnownId(j)) /\ (Ready(j)' <=> Ready(j)) /\ (IsQuiet(j)' <=> IsQuiet(j))
        /\ (SavesTheLast(j)' <=> SavesTheLast(j))
    BY <1>0 DEF SameRow, KnownId, Ready, IsQuiet, SavesTheLast
  <1>2. ChainFits(j)' /\ IdFits(j)'
    BY <1>0, <1>1 DEF RowFits, SameRow, ChainFits, IdFits
  <1>3. SavedFits(j)' /\ GoneFits(j)'
    BY <1>0, <1>1 DEF RowFits, SameRow, SavedFits, GoneFits
  <1> QED
    BY <1>2, <1>3 DEF RowFits

\* What the functions of a row hold.
LEMMA RowParts ==
  ASSUME RInv, SInv, NEW k \in Keys
  PROVE  /\ rows[k] \in Row /\ drawn[k] \in Row /\ saves[k] \in SaveCalls /\ made[k] \in Nat
         /\ savedIds[k] \in BOOLEAN /\ chains[k] \in RowChains /\ removals[k] \in RemovalCalls
         /\ shifts[k] \in Int
         /\ RowFits(k) /\ RowIsMadeOnce(k)
  BY DEF RInv, RowsTyped, SInv, RowsWhollyTyped

LEMMA RowsAreListed ==
  ASSUME RowsInit
  PROVE  SInv
  <1>1. PICK known \in SUBSET Keys :
          /\ rows = [k \in Keys |->
               [there |-> TRUE, id |-> k \in known, typed |-> 0, confirming |-> FALSE,
                state |-> IF k \in known THEN "saved" ELSE "incomplete"]]
          /\ shifts = [k \in Keys |-> IF k \in known THEN -1 ELSE 0]
          /\ made = [k \in Keys |-> IF k \in known THEN 1 ELSE 0]
    BY DEF RowsInit
  <1>2. /\ drawn = rows /\ timers = {} /\ chains = [k \in Keys |-> [queued |-> 0, ended |-> 0]]
        /\ saves = [k \in Keys |-> NoSave] /\ savedIds = [k \in Keys |-> FALSE]
        /\ removals = [k \in Keys |-> NoRemoval] /\ rowLost = 0
    BY DEF RowsInit
  <1>3. 0 \in 0..MaxRowLost
    BY RowsAssumption
  <1>4. RowsWhollyTyped
    <2>1. shifts \in [Keys -> Int]
      BY <1>1
    <2>2. removals \in [Keys -> RemovalCalls] /\ chains \in [Keys -> RowChains]
      BY <1>2 DEF RemovalCalls, NoRemoval, RowChains
    <2> QED
      BY <1>2, <1>3, <2>1, <2>2 DEF RowsWhollyTyped
  <1>5. ASSUME NEW k \in Keys PROVE RowFits(k)
    <2>1. /\ rows[k].there /\ rows[k].typed = 0 /\ (rows[k].id => k \in known) /\ drawn[k] = rows[k]
          /\ k \notin timers /\ chains[k].queued = 0 /\ chains[k].ended = 0 /\ saves[k].at = "none"
          /\ removals[k].at = "none" /\ (shifts[k] # 0 => made[k] > 0)
      <3>1. PICK word : rows[k] = [there |-> TRUE, id |-> k \in known, typed |-> 0,
                                   confirming |-> FALSE, state |-> word]
        BY <1>1
      <3>2. rows[k].there /\ rows[k].typed = 0 /\ (rows[k].id => k \in known)
        <4>1. PICK id \in BOOLEAN : id <=> k \in known
          OBVIOUS
        <4>2. rows[k] = [there |-> TRUE, id |-> id, typed |-> 0, confirming |-> FALSE, state |-> word]
          BY <3>1, <4>1
        <4> QED
          BY <4>1, <4>2
      <3>3. shifts[k] # 0 => made[k] > 0
        BY <1>1
      <3>4. /\ drawn[k] = rows[k] /\ k \notin timers /\ chains[k] = [queued |-> 0, ended |-> 0]
            /\ saves[k].at = "none" /\ removals[k].at = "none"
        BY <1>2 DEF NoSave, NoRemoval
      <3> QED
        BY <3>2, <3>3, <3>4
    <2>2. ChainFits(k)
      BY <2>1 DEF ChainFits
    <2>3. IdFits(k)
      BY <2>1 DEF IdFits, KnownId
    <2>4. SavedFits(k)
      BY <2>1 DEF SavedFits, SavesTheLast
    <2>5. GoneFits(k)
      BY <2>1 DEF GoneFits, Ready
    <2> QED
      BY <2>2, <2>3, <2>4, <2>5 DEF RowFits
  <1> QED
    BY <1>4, <1>5 DEF SInv

LEMMA RowIsTyped ==
  ASSUME RInv, RInv', SInv, NEW k \in Keys, ~Ready(k), Edit(k)
  PROVE  SInv'
  <1>1. /\ edits' = edits + 1 /\ drawn' = rows' /\ timers' = timers \union {k}
        /\ unsaved' = unsaved \ {k} /\ drawn[k].there /\ rows[k].there
        /\ UNCHANGED <<chains, saves, savedIds, removals, shifts, made, doubts, rowLost>>
        /\ edits \in Nat
    BY RowsAssumption DEF Edit, RInv, RowsTyped
  <1>2. PICK n \in 0..MaxEdits : rows' = [rows EXCEPT ![k].typed = n, ![k].confirming = FALSE]
    <2>1. edits' \in 0..MaxEdits /\ 0 \in 0..MaxEdits
      BY <1>1, RowsAssumption DEF RInv, RowsTyped
    <2> QED
      BY <2>1 DEF Edit
  <1>3. /\ rows'[k].typed = n /\ rows'[k].there = rows[k].there /\ rows'[k].id = rows[k].id
        /\ rows'[k].state = rows[k].state
        /\ \A j \in Keys : j # k => rows'[j] = rows[j]
    <2>1. rows[k] \in Row /\ rows' = [rows EXCEPT ![k].typed = n, ![k].confirming = FALSE]
          /\ rows \in [Keys -> Row]
      BY <1>2 DEF RInv, RowsTyped
    <2> QED
      BY <2>1 DEF Row
  <1>4. RowsWhollyTyped'
    BY <1>1 DEF SInv, RowsWhollyTyped
  <1>5. ASSUME NEW j \in Keys, j # k PROVE RowFits(j)'
    BY <1>1, <1>3, <1>5, RowStays DEF SameRow
  <1>6. RowFits(k)'
    <2> USE RowParts
    <2>1. drawn'[k] = rows'[k] /\ k \in timers'
      BY <1>1
    <2>2. KnownId(k)' <=> KnownId(k)
      BY <1>1, <1>3, <2>1 DEF RowFits, IdFits, RowIsMadeOnce, KnownId
    <2>3. ChainFits(k)'
      BY <1>1, <1>2, <1>3, <2>1 DEF RowFits, ChainFits
    <2>4. IdFits(k)'
      BY <1>1, <1>3, <2>2 DEF RowFits, IdFits
    <2>5. SavedFits(k)'
      BY <1>1, <1>3, <2>1 DEF RowFits, SavedFits, SavesTheLast, IsQuiet
    <2>6. GoneFits(k)'
      <3>1. Ready(k)' <=> Ready(k)
        BY <1>1 DEF Ready
      <3> QED
        BY <1>1, <1>3, <2>2, <3>1 DEF RowFits, GoneFits, Ready
    <2> QED
      BY <2>3, <2>4, <2>5, <2>6 DEF RowFits
  <1> QED
    BY <1>4, <1>5, <1>6 DEF SInv

LEMMA TimerGoesOff ==
  ASSUME RInv, RInv', SInv, NEW k \in Keys, ~Ready(k), Fire(k)
  PROVE  SInv'
  <1>1. /\ k \in timers /\ timers' = timers \ {k}
        /\ UNCHANGED <<rows, drawn, saves, savedIds, removals, shifts, made, doubts, unsaved, rowLost>>
    BY DEF Fire
  <1>2. /\ chains' \in [Keys -> RowChains] /\ chains'[k].queued = chains[k].queued + 1
        /\ chains'[k].ended = chains[k].ended /\ \A j \in Keys : j # k => chains'[j] = chains[j]
    <2>1. chains[k] \in RowChains
      BY RowParts
    <2>2. PICK n \in Nat : n = chains[k].queued + 1
      BY <2>1 DEF RowChains
    <2>3. chains' = [chains EXCEPT ![k] = [chains[k] EXCEPT !.queued = n]]
      BY <2>2 DEF Fire
    <2>4. PICK c \in RowChains : c = [chains[k] EXCEPT !.queued = n] /\ c.queued = n /\ c.ended = chains[k].ended
      <3> DEFINE c == [chains[k] EXCEPT !.queued = n]
      <3>1. c \in RowChains /\ c.queued = n /\ c.ended = chains[k].ended
        BY <2>1 DEF RowChains
      <3> QED
        BY <3>1
    <2> QED
      BY <2>2, <2>3, <2>4 DEF SInv, RowsWhollyTyped
  <1>3. RowsWhollyTyped'
    BY <1>1, <1>2 DEF SInv, RowsWhollyTyped
  <1>4. ASSUME NEW j \in Keys, j # k PROVE RowFits(j)'
    BY <1>1, <1>2, <1>4, RowStays DEF SameRow
  <1>5. RowFits(k)'
    <2> USE RowParts
    <2>1. chains[k].queued \in Nat /\ chains[k].ended \in Nat /\ chains[k].ended <= chains[k].queued
      BY DEF RowChains, RowFits, ChainFits
    <2>2. (KnownId(k)' <=> KnownId(k)) /\ (Ready(k)' <=> Ready(k))
      BY <1>1, <1>2 DEF KnownId, Ready
    <2>3. ChainFits(k)'
      BY <1>1, <1>2, <2>1 DEF RowFits, ChainFits
    <2>4. IdFits(k)'
      BY <1>1, <2>2 DEF RowFits, IdFits
    <2>5. SavedFits(k)'
      <3>1. ~IsQuiet(k)' /\ (SavesTheLast(k)' => FALSE)
        BY <1>1, <1>2, <2>1 DEF RowFits, ChainFits, IsQuiet, SavesTheLast
      <3> QED
        BY <1>1, <3>1 DEF RowFits, SavedFits
    <2>6. GoneFits(k)'
      <3>1. ~IsQuiet(k)
        BY <1>1 DEF IsQuiet
      <3> QED
        BY <1>1, <1>2, <2>2, <3>1 DEF RowFits, GoneFits
    <2> QED
      BY <2>3, <2>4, <2>5, <2>6 DEF RowFits
  <1> QED
    BY <1>3, <1>4, <1>5 DEF SInv

LEMMA ModalCloses ==
  ASSUME RInv, RInv', SInv, CloseModal
  PROVE  SInv'
  <1>1. /\ timers' = {} /\ unsaved' = unsaved \union timers
        /\ UNCHANGED <<rows, drawn, chains, saves, savedIds, removals, shifts, made, doubts, rowLost>>
    BY DEF CloseModal
  <1>2. RowsWhollyTyped'
    BY <1>1 DEF SInv, RowsWhollyTyped
  <1>3. ASSUME NEW k \in Keys PROVE RowFits(k)'
    <2> USE RowParts
    <2>1. (KnownId(k)' <=> KnownId(k)) /\ (Ready(k)' <=> Ready(k)) /\ (IsQuiet(k) => IsQuiet(k)')
          /\ (k \notin unsaved' => (IsQuiet(k)' => IsQuiet(k)) /\ (SavesTheLast(k)' => SavesTheLast(k)))
      BY <1>1 DEF KnownId, Ready, IsQuiet, SavesTheLast
    <2>2. ChainFits(k)' /\ IdFits(k)'
      BY <1>1, <2>1 DEF RowFits, ChainFits, IdFits
    <2>3. SavedFits(k)'
      <3>1. SavesTheLast(k)' => k \notin unsaved'
        BY DEF SavesTheLast
      <3> QED
        BY <1>1, <2>1, <3>1 DEF RowFits, SavedFits
    <2>4. GoneFits(k)'
      BY <1>1, <2>1 DEF RowFits, GoneFits
    <2> QED
      BY <2>2, <2>3, <2>4 DEF RowFits
  <1> QED
    BY <1>2, <1>3 DEF SInv

LEMMA RowIsDrawn ==
  ASSUME RInv, SInv, Draw \/ UNCHANGED rowVars
  PROVE  SInv'
  <1>1. /\ drawn' \in {drawn, rows}
        /\ UNCHANGED <<rows, timers, chains, saves, savedIds, removals, shifts, made, doubts, unsaved,
                       rowLost>>
    BY DEF Draw, rowVars
  <1>2. RowsWhollyTyped'
    BY <1>1 DEF SInv, RowsWhollyTyped
  <1>3. ASSUME NEW k \in Keys PROVE RowFits(k)'
    BY <1>1, RowStays DEF SameRow
  <1> QED
    BY <1>2, <1>3 DEF SInv

\* A save is over, for the row it was of.
LEMMA ChainMovesOn ==
  ASSUME RInv, SInv, NEW k \in Keys, Ended(k), chains[k].ended < chains[k].queued
  PROVE  /\ chains' \in [Keys -> RowChains] /\ chains'[k].queued = chains[k].queued
         /\ chains'[k].ended = chains[k].ended + 1 /\ chains'[k].ended <= chains'[k].queued
         /\ \A j \in Keys : j # k => chains'[j] = chains[j]
  <1>1. chains[k] \in RowChains
    BY RowParts
  <1>2. PICK n \in Nat : n = chains[k].ended + 1
    BY <1>1 DEF RowChains
  <1>3. chains' = [chains EXCEPT ![k] = [chains[k] EXCEPT !.ended = n]]
    BY <1>2 DEF Ended
  <1>4. PICK c \in RowChains : c = [chains[k] EXCEPT !.ended = n] /\ c.ended = n /\ c.queued = chains[k].queued
    <2> DEFINE c == [chains[k] EXCEPT !.ended = n]
    <2>1. c \in RowChains /\ c.ended = n /\ c.queued = chains[k].queued
      BY <1>1 DEF RowChains
    <2> QED
      BY <2>1
  <1>5. chains' \in [Keys -> RowChains] /\ chains'[k] = c /\ \A j \in Keys : j # k => chains'[j] = chains[j]
    BY <1>3, <1>4 DEF SInv, RowsWhollyTyped
  <1>6. chains[k].ended \in Nat /\ chains[k].queued \in Nat
    BY <1>1 DEF RowChains
  <1> QED
    BY <1>2, <1>4, <1>5, <1>6

LEMMA SaveBegins ==
  ASSUME RInv, RInv', SInv, NEW k \in Keys, ~Ready(k), Save(k)
  PROVE  SInv'
  <1> USE RowParts
  <1>1. /\ saves[k].at = "none" /\ chains[k].ended < chains[k].queued
        /\ UNCHANGED <<drawn, timers, savedIds, removals, shifts, made, doubts, unsaved, rowLost>>
    BY DEF Save, Turn
  <1>2. /\ chains[k].queued \in Nat /\ chains[k].ended \in Nat /\ chains[k].queued > 0
        /\ drawn[k].typed = rows[k].typed
    BY <1>1 DEF RowFits, ChainFits, RowChains
  <1>3. \A j \in Keys : j # k => rows'[j] = rows[j] /\ saves'[j] = saves[j]
    <2>1. /\ \/ rows' = rows \/ rows' = [rows EXCEPT ![k].state = "incomplete"]
             \/ rows' = [rows EXCEPT ![k].state = "saving"]
          /\ \/ saves' = saves
             \/ saves' = [saves EXCEPT ![k] =
                  [at |-> "sent", creates |-> ~KnownId(k), body |-> drawn[k].typed]]
      BY DEF Save
    <2>2. rows \in [Keys -> Row] /\ saves \in [Keys -> SaveCalls]
      BY DEF RInv, RowsTyped
    <2>3. \A j \in Keys : j # k => rows'[j] = rows[j]
      BY <2>1, <2>2
    <2>4. \A j \in Keys : j # k => saves'[j] = saves[j]
      <3> DEFINE sending == [at |-> "sent", creates |-> ~KnownId(k), body |-> drawn[k].typed]
      <3>1. saves' = saves \/ saves' = [saves EXCEPT ![k] = sending]
        BY <2>1
      <3> HIDE DEF sending
      <3> QED
        BY <2>2, <3>1
    <2> QED
      BY <2>3, <2>4
  <1>4. KnownId(k)' <=> KnownId(k)
    BY <1>1 DEF KnownId
  <1>5. CASE ~drawn[k].there \/ drawn[k].typed = 0
    <2>1. /\ Ended(k) /\ saves' = saves
          /\ rows'[k].typed = rows[k].typed /\ rows'[k].there = rows[k].there /\ rows'[k].id = rows[k].id
          /\ rows'[k].there => rows'[k].state = "incomplete"
      <3>1. CASE ~drawn[k].there
        BY <1>1, <3>1 DEF Save, RowFits, ChainFits
      <3>2. CASE drawn[k].there
        <4>1. Ended(k) /\ saves' = saves /\ rows' = [rows EXCEPT ![k].state = "incomplete"]
          BY <1>5, <3>2 DEF Save
        <4> QED
          BY <4>1 DEF RInv, RowsTyped, Row
      <3> QED
        BY <3>1, <3>2
    <2>2. /\ chains' \in [Keys -> RowChains] /\ chains'[k].queued = chains[k].queued
          /\ chains'[k].ended = chains[k].ended + 1 /\ chains'[k].ended <= chains'[k].queued
          /\ \A j \in Keys : j # k => chains'[j] = chains[j]
      BY <1>1, <2>1, ChainMovesOn
    <2>3. RowsWhollyTyped'
      BY <1>1, <2>2 DEF SInv, RowsWhollyTyped
    <2>4. ASSUME NEW j \in Keys, j # k PROVE RowFits(j)'
      BY <1>1, <1>3, <2>1, <2>2, <2>4, RowStays DEF SameRow
    <2>5. RowFits(k)'
      <3>1. ChainFits(k)' /\ IdFits(k)'
        BY <1>1, <1>4, <2>1, <2>2 DEF RowFits, ChainFits, IdFits
      <3>2. SavedFits(k)'
        BY <1>1, <2>1 DEF SavedFits, SavesTheLast
      <3>3. ~IsQuiet(k)
        BY <1>1, <1>2 DEF IsQuiet
      <3>5. k \notin doubts /\ removals[k].at = "waiting" => KnownId(k)
        <4>1. removals[k].at = "waiting" => ~(removals[k].after <= chains[k].ended)
          BY DEF Ready
        <4> QED
          BY <1>1, <4>1 DEF RowFits, GoneFits
      <3>4. GoneFits(k)'
        BY <1>1, <1>4, <2>1, <2>2, <3>3, <3>5 DEF RowFits, GoneFits, Ready
      <3> QED
        BY <3>1, <3>2, <3>4 DEF RowFits
    <2> QED
      BY <2>3, <2>4, <2>5 DEF SInv
  <1>6. CASE drawn[k].there /\ drawn[k].typed # 0
    <2>1. /\ rows' = [rows EXCEPT ![k].state = "saving"] /\ chains' = chains
          /\ saves' = [saves EXCEPT ![k] =
               [at |-> "sent", creates |-> ~KnownId(k), body |-> drawn[k].typed]]
      BY <1>2, <1>6 DEF Save
    <2>2. rows'[k].typed = rows[k].typed /\ rows'[k].there = rows[k].there /\ rows'[k].id = rows[k].id
          /\ rows'[k].state = "saving"
      BY <2>1 DEF RInv, RowsTyped, Row
    <2>3. PICK creates \in BOOLEAN : /\ creates <=> ~KnownId(k)
            /\ saves'[k] = [at |-> "sent", creates |-> creates, body |-> drawn[k].typed]
      <3>1. (~KnownId(k)) \in BOOLEAN
        OBVIOUS
      <3>2. saves'[k] = [at |-> "sent", creates |-> ~KnownId(k), body |-> drawn[k].typed]
        BY <2>1 DEF RInv, RowsTyped
      <3>3. PICK creates \in BOOLEAN : creates = ~KnownId(k)
        BY <3>1
      <3> QED
        BY <3>2, <3>3
    <2>4. saves'[k].at = "sent" /\ (saves'[k].creates <=> ~KnownId(k)) /\ saves'[k].body = rows[k].typed
      BY <1>2, <2>3
    <2>5. RowsWhollyTyped'
      BY <1>1, <2>1 DEF SInv, RowsWhollyTyped
    <2>6. ASSUME NEW j \in Keys, j # k PROVE RowFits(j)'
      BY <1>1, <1>3, <2>1, <2>6, RowStays DEF SameRow
    <2>7. RowFits(k)'
      <3>1. ChainFits(k)' /\ IdFits(k)'
        BY <1>1, <1>4, <2>1, <2>2, <2>4 DEF RowFits, ChainFits, IdFits
      <3>2. SavedFits(k)'
        BY <1>1, <2>1, <2>2, <2>4 DEF SavedFits, SavesTheLast
      <3>3. GoneFits(k)'
        BY <1>1, <1>4, <2>1, <2>2 DEF RowFits, GoneFits, Ready, IsQuiet
      <3> QED
        BY <3>1, <3>2, <3>3 DEF RowFits
    <2> QED
      BY <2>5, <2>6, <2>7 DEF SInv
  <1> QED
    BY <1>5, <1>6

LEMMA SaveIsServed ==
  ASSUME RInv, RInv', SInv, NEW k \in Keys, ~Ready(k), ServeSave(k)
  PROVE  SInv'
  <1> USE RowParts
  <1>1. /\ saves[k].at = "sent"
        /\ UNCHANGED <<rows, drawn, timers, chains, savedIds, removals, doubts, unsaved, rowLost>>
        /\ saves \in [Keys -> SaveCalls] /\ shifts \in [Keys -> Int] /\ made \in [Keys -> Nat]
    BY DEF ServeSave, RInv, RowsTyped, SInv, RowsWhollyTyped
  <1>2. PICK at \in {"done", "refused"} :
          /\ saves' = [saves EXCEPT ![k].at = at]
          /\ at = "done" => shifts' = [shifts EXCEPT ![k] = saves[k].body]
          /\ at = "done" => saves[k].creates \/ shifts[k] # 0
          /\ at = "refused" => shifts' = shifts /\ ~saves[k].creates /\ shifts[k] = 0
    BY DEF ServeSave
  <1>3. /\ saves'[k].at = at /\ saves'[k].creates = saves[k].creates /\ saves'[k].body = saves[k].body
        /\ \A j \in Keys : j # k => saves'[j] = saves[j]
    BY <1>1, <1>2 DEF SaveCalls
  <1>4. /\ shifts' \in [Keys -> Int] /\ \A j \in Keys : j # k => shifts'[j] = shifts[j]
        /\ shifts'[k] = IF at = "done" THEN saves[k].body ELSE 0
    <2>1. saves[k].body \in Int
      BY DEF SaveCalls
    <2> QED
      BY <1>1, <1>2, <2>1
  <1>5. /\ made'[k] = IF saves[k].creates THEN made[k] + 1 ELSE made[k]
        /\ \A j \in Keys : j # k => made'[j] = made[j]
    BY <1>1 DEF ServeSave
  <1>6. RowsWhollyTyped'
    BY <1>1, <1>4 DEF SInv, RowsWhollyTyped
  <1>7. ASSUME NEW j \in Keys, j # k PROVE RowFits(j)'
    BY <1>1, <1>3, <1>4, <1>5, <1>7, RowStays DEF SameRow
  <1>8. (KnownId(k)' <=> KnownId(k)) /\ (Ready(k)' <=> Ready(k)) /\ (IsQuiet(k)' <=> IsQuiet(k)) /\ ~IsQuiet(k)
        /\ (SavesTheLast(k)' => SavesTheLast(k))
    BY <1>1, <1>3 DEF KnownId, Ready, IsQuiet, SavesTheLast, RowFits, ChainFits, RowChains
  <1>9. ChainFits(k)'
    BY <1>1, <1>3 DEF RowFits, ChainFits
  <1>10. IdFits(k)'
    <2>1. shifts'[k] # 0 => made'[k] > 0
      BY <1>2, <1>4, <1>5 DEF RowFits, IdFits
    <2> QED
      BY <1>1, <1>3, <1>8, <2>1 DEF RowFits, IdFits
  <1>11. SavedFits(k)'
    <2>1. k \notin doubts /\ SavesTheLast(k)' => saves'[k].body = rows[k].typed
      BY <1>3, <1>8 DEF RowFits, SavedFits
    <2> QED
      BY <1>1, <1>3, <1>4, <1>8, <2>1 DEF SavedFits
  <1>12. GoneFits(k)'
    <2>1. k \notin doubts /\ (removals[k].at = "done" \/ ~rows[k].there) => shifts'[k] = 0
      <3>1. k \notin doubts /\ (removals[k].at = "done" \/ ~rows[k].there) => shifts[k] = 0 /\ KnownId(k)
        BY <1>8 DEF RowFits, GoneFits, IdFits
      <3>2. KnownId(k) => ~saves[k].creates
        BY <1>1 DEF RowFits, IdFits
      <3> QED
        BY <1>2, <1>4, <3>1, <3>2
    <2>2. ~Ready(k) /\ saves'[k].at # "none"
      BY <1>3
    <2> QED
      BY <1>1, <1>8, <2>1, <2>2 DEF RowFits, GoneFits
  <1> QED
    BY <1>6, <1>7, <1>9, <1>10, <1>11, <1>12 DEF SInv, RowFits

LEMMA SaveIsLost ==
  ASSUME RInv, RInv', SInv, NEW k \in Keys, ~Ready(k), LoseSave(k)
  PROVE  SInv'
  <1> USE RowParts
  <1>1. /\ saves[k].at \in {"sent", "done"} /\ rowLost < MaxRowLost /\ rowLost' = rowLost + 1
        /\ saves' = [saves EXCEPT ![k].at = "refused"] /\ doubts \subseteq doubts'
        /\ UNCHANGED <<rows, drawn, timers, chains, savedIds, removals, shifts, made, unsaved>>
    BY DEF LoseSave
  <1>2. /\ saves'[k].at = "refused" /\ saves'[k].creates = saves[k].creates /\ saves'[k].body = saves[k].body
        /\ \A j \in Keys : j # k => saves'[j] = saves[j]
    BY <1>1 DEF RInv, RowsTyped, SaveCalls
  <1>3. RowsWhollyTyped'
    <2>1. rowLost' \in 0..MaxRowLost
      BY <1>1, RowsAssumption DEF SInv, RowsWhollyTyped
    <2> QED
      BY <1>1, <2>1 DEF SInv, RowsWhollyTyped
  <1>4. ASSUME NEW j \in Keys, j # k PROVE RowFits(j)'
    BY <1>1, <1>2, <1>4, RowStays DEF SameRow
  <1>5. (KnownId(k)' <=> KnownId(k)) /\ (Ready(k)' <=> Ready(k)) /\ (IsQuiet(k)' <=> IsQuiet(k))
        /\ (SavesTheLast(k)' => SavesTheLast(k))
    BY <1>1, <1>2 DEF KnownId, Ready, IsQuiet, SavesTheLast
  <1>6. ChainFits(k)' /\ IdFits(k)'
    BY <1>1, <1>2, <1>5 DEF RowFits, ChainFits, IdFits
  <1>7. SavedFits(k)'
    BY <1>1, <1>2, <1>5 DEF RowFits, SavedFits
  <1>8. GoneFits(k)'
    BY <1>1, <1>5 DEF RowFits, GoneFits
  <1> QED
    BY <1>3, <1>4, <1>6, <1>7, <1>8 DEF SInv, RowFits

\* Telling a row of the list.
LEMMA RowIsTold ==
  ASSUME RInv, SInv, NEW k \in Keys, NEW row \in Row, Told(k, row)
  PROVE  /\ \A j \in Keys : j # k => rows'[j] = rows[j]
         /\ rows'[k] = IF rows[k].there THEN row ELSE rows[k]
  BY DEF Told, Patched, RInv, RowsTyped

LEMMA SaveIsOver ==
  ASSUME RInv, RInv', SInv, NEW k \in Keys, ~Ready(k), SaveEnds(k)
  PROVE  SInv'
  <1> USE RowParts
  <1>1. /\ saves[k].at \in {"done", "refused"} /\ saves' = [saves EXCEPT ![k] = NoSave] /\ Ended(k)
        /\ UNCHANGED <<drawn, timers, removals, shifts, made, unsaved, rowLost>>
        /\ doubts \subseteq doubts'
    BY DEF SaveEnds
  <1>2. /\ saves'[k].at = "none" /\ \A j \in Keys : j # k => saves'[j] = saves[j]
    BY <1>1 DEF RInv, RowsTyped, NoSave
  <1>3. chains[k].ended < chains[k].queued /\ chains[k].ended \in Nat /\ chains[k].queued \in Nat
    BY <1>1 DEF RowFits, ChainFits, RowChains
  <1>4. /\ chains' \in [Keys -> RowChains] /\ chains'[k].queued = chains[k].queued
        /\ chains'[k].ended = chains[k].ended + 1 /\ chains'[k].ended <= chains'[k].queued
        /\ \A j \in Keys : j # k => chains'[j] = chains[j]
    BY <1>1, <1>3, ChainMovesOn
  <1>5. PICK id \in BOOLEAN, word \in {"saved", "error"} :
          /\ Told(k, [rows[k] EXCEPT !.id = id, !.state = word])
          /\ (id => savedIds'[k] \/ rows[k].id) /\ (word = "saved" <=> saves[k].at = "done")
          /\ savedIds'[k] <=> (saves[k].at = "done" \/ savedIds[k])
          /\ \A j \in Keys : j # k => savedIds'[j] = savedIds[j]
    <2>1. savedIds \in [Keys -> BOOLEAN]
      BY DEF RInv, RowsTyped
    <2>2. CASE saves[k].at = "done"
      <3>1. savedIds' = [savedIds EXCEPT ![k] = TRUE] /\ Told(k, [rows[k] EXCEPT !.id = TRUE, !.state = "saved"])
        BY <2>2 DEF SaveEnds
      <3> QED
        BY <2>1, <2>2, <3>1
    <2>3. CASE saves[k].at = "refused"
      <3>1. savedIds' = savedIds /\ Told(k, [rows[k] EXCEPT !.state = "error"])
        BY <2>3 DEF SaveEnds
      <3>2. [rows[k] EXCEPT !.state = "error"] = [rows[k] EXCEPT !.id = rows[k].id, !.state = "error"]
        BY DEF Row
      <3>3. rows[k].id \in BOOLEAN
        BY DEF Row
      <3> QED
        BY <2>3, <3>1, <3>2, <3>3
    <2> QED
      BY <1>1, <2>2, <2>3, Zenon
  <1>6. /\ \A j \in Keys : j # k => rows'[j] = rows[j]
        /\ rows'[k].typed = rows[k].typed /\ rows'[k].there = rows[k].there
        /\ rows'[k].id => savedIds'[k] \/ rows[k].id
        /\ rows'[k].there /\ rows'[k].state = "saved" => saves[k].at = "done"
    <2>1. PICK row \in Row : /\ row = [rows[k] EXCEPT !.id = id, !.state = word]
                             /\ row.typed = rows[k].typed /\ row.there = rows[k].there
                             /\ row.id = id /\ row.state = word
      <3> DEFINE row == [rows[k] EXCEPT !.id = id, !.state = word]
      <3>1. row \in Row /\ row.typed = rows[k].typed /\ row.there = rows[k].there
            /\ row.id = id /\ row.state = word
        BY DEF Row
      <3> QED
        BY <3>1
    <2>2. Told(k, row)
      BY <1>5, <2>1
    <2>3. /\ \A j \in Keys : j # k => rows'[j] = rows[j]
          /\ rows'[k] = IF rows[k].there THEN row ELSE rows[k]
      BY <2>2, RowIsTold
    <2> QED
      BY <1>5, <2>1, <2>3
  <1>7. RowsWhollyTyped'
    BY <1>1, <1>4 DEF SInv, RowsWhollyTyped
  <1>8. ASSUME NEW j \in Keys, j # k PROVE RowFits(j)'
    BY <1>1, <1>2, <1>4, <1>5, <1>6, <1>8, RowStays DEF SameRow
  <1>9. /\ KnownId(k)' <=> (KnownId(k) \/ saves[k].at = "done")
        /\ rows[k].id => KnownId(k)
        /\ saves[k].at = "done" => KnownId(k)'
    BY <1>1, <1>5 DEF KnownId, RowFits, IdFits
  <1>10. ChainFits(k)'
    BY <1>1, <1>2, <1>3, <1>4, <1>6 DEF RowFits, ChainFits
  <1>11. IdFits(k)'
    <2>1. rows'[k].id => KnownId(k)'
      BY <1>1, <1>6, <1>9 DEF KnownId
    <2>2. removals[k].at = "waiting" => (KnownId(k)' <=> savedIds'[k] \/ removals[k].id)
      BY <1>5, <1>9 DEF RowFits, IdFits, KnownId
    <2>3. (shifts[k] # 0 => made[k] > 0) /\ (removals[k].at \in {"sent", "done", "refused"} => KnownId(k)')
      BY <1>9 DEF RowFits, IdFits
    <2> QED
      BY <1>1, <1>2, <2>1, <2>2, <2>3 DEF IdFits
  <1>12. SavedFits(k)'
    <2> SUFFICES ASSUME k \notin doubts', rows[k].there, removals[k].at # "done",
                        rows'[k].state = "saved", k \notin unsaved, IsQuiet(k)'
                 PROVE  shifts[k] = rows[k].typed
      BY <1>1, <1>2, <1>6 DEF SavedFits, SavesTheLast
    <2>1. k \notin doubts /\ saves[k].at = "done"
      BY <1>1, <1>6
    <2>2. SavesTheLast(k)
      BY <1>1, <1>3, <1>4, <2>1 DEF IsQuiet, SavesTheLast
    <2> QED
      BY <2>1, <2>2 DEF RowFits, SavedFits
  <1>13. GoneFits(k)'
    <2>1. k \notin doubts' => k \notin doubts
      BY <1>1
    <2>2. removals[k].at = "waiting" /\ k \notin doubts' => KnownId(k)'
      <3> SUFFICES ASSUME removals[k].at = "waiting", k \notin doubts', saves[k].at = "refused"
                   PROVE  KnownId(k)'
        BY <1>1, <1>9
      <3>1. ~saves[k].creates
        BY DEF SaveEnds
      <3> QED
        BY <1>9, <3>1 DEF RowFits, IdFits
    <2>3. ~IsQuiet(k)
      BY <1>3 DEF IsQuiet
    <2>4. k \notin doubts' /\ ~rows[k].there => shifts[k] = 0 /\ KnownId(k)'
      BY <1>9, <2>1, <2>3 DEF RowFits, GoneFits
    <2>5. k \notin doubts' /\ removals[k].at = "done" => shifts[k] = 0
      BY <2>1 DEF RowFits, GoneFits
    <2> QED
      BY <1>1, <1>2, <1>6, <2>2, <2>4, <2>5 DEF GoneFits
  <1> QED
    BY <1>7, <1>8, <1>10, <1>11, <1>12, <1>13 DEF SInv, RowFits

\* What the removals of the other rows are when one removal moves on.
LEMMA RemovalMoves ==
  ASSUME RInv, SInv, NEW k \in Keys, NEW removal \in RemovalCalls,
         removals' = [removals EXCEPT ![k] = removal]
  PROVE  /\ removals' \in [Keys -> RemovalCalls] /\ removals'[k] = removal
         /\ \A j \in Keys : j # k => removals'[j] = removals[j]
  BY DEF SInv, RowsWhollyTyped

LEMMA RemovalIsAsked ==
  ASSUME RInv, RInv', SInv, NEW k \in Keys, ~Ready(k), ~Turn(k), RemoveRow(k)
  PROVE  SInv'
  <1> USE RowParts
  <1>1. /\ removals[k].at = "none" /\ drawn[k].there
        /\ timers' = timers \ {k} /\ unsaved' = unsaved \union (timers \intersect {k})
        /\ UNCHANGED <<rows, drawn, chains, saves, savedIds, shifts, made, doubts, rowLost>>
    BY DEF RemoveRow
  <1>2. PICK removal \in RemovalCalls :
          /\ removal.at = "waiting" /\ removal.after = chains[k].queued /\ (removal.id <=> drawn[k].id)
          /\ removals' = [removals EXCEPT ![k] = removal]
    <2> DEFINE removal == [at |-> "waiting", after |-> chains[k].queued, confirmed |-> drawn[k].confirming,
                           id |-> drawn[k].id]
    <2>1. removal \in RemovalCalls /\ removal.at = "waiting" /\ removal.after = chains[k].queued
          /\ (removal.id <=> drawn[k].id)
      BY DEF RowChains, Row, RemovalCalls
    <2>2. removals' = [removals EXCEPT ![k] = removal]
      BY DEF RemoveRow
    <2> HIDE DEF removal
    <2> QED
      BY <2>1, <2>2
  <1>3. /\ removals' \in [Keys -> RemovalCalls] /\ removals'[k] = removal
        /\ \A j \in Keys : j # k => removals'[j] = removals[j]
    BY <1>2, RemovalMoves
  <1>4. RowsWhollyTyped'
    BY <1>1, <1>3 DEF SInv, RowsWhollyTyped
  <1>5. ASSUME NEW j \in Keys, j # k PROVE RowFits(j)'
    BY <1>1, <1>3, <1>5, RowStays DEF SameRow
  <1>6. (KnownId(k)' <=> KnownId(k)) /\ (IsQuiet(k) => IsQuiet(k)')
        /\ (k \notin unsaved' => (IsQuiet(k)' => IsQuiet(k)) /\ (SavesTheLast(k)' => SavesTheLast(k)))
    BY <1>1 DEF KnownId, IsQuiet, SavesTheLast
  <1>7. chains[k].queued \in Nat /\ chains[k].ended \in Nat /\ chains[k].ended <= chains[k].queued
    BY DEF RowChains, RowFits, ChainFits
  <1>8. ChainFits(k)'
    BY <1>1 DEF RowFits, ChainFits
  <1>9. IdFits(k)'
    BY <1>1, <1>2, <1>3, <1>6 DEF RowFits, IdFits, KnownId
  <1>10. SavedFits(k)'
    <2>1. SavesTheLast(k)' => k \notin unsaved'
      BY DEF SavesTheLast
    <2> QED
      BY <1>1, <1>2, <1>3, <1>6, <2>1 DEF RowFits, SavedFits
  <1>11. GoneFits(k)'
    <2>1. Ready(k)' => chains[k].queued = chains[k].ended
      BY <1>1, <1>2, <1>3, <1>7 DEF Ready
    <2>2. chains[k].queued = chains[k].ended => saves[k].at = "none" /\ IsQuiet(k)'
      BY <1>1, <1>7 DEF RowFits, ChainFits, IsQuiet
    <2>3. k \notin doubts /\ ~KnownId(k) =>
            IF removals'[k].after <= chains[k].ended THEN IsQuiet(k)'
            ELSE rows[k].there /\ saves[k].at # "none"
      <3>1. k \notin doubts /\ ~KnownId(k) /\ ~rows[k].there => IsQuiet(k)
        BY DEF RowFits, GoneFits
      <3>2. chains[k].ended < chains[k].queued => saves[k].at # "none"
        BY DEF Turn
      <3> QED
        BY <1>1, <1>2, <1>3, <1>7, <2>2, <3>1, <3>2 DEF IsQuiet
    <2> QED
      BY <1>1, <1>2, <1>3, <1>6, <2>1, <2>2, <2>3 DEF RowFits, GoneFits
  <1> QED
    BY <1>4, <1>5, <1>8, <1>9, <1>10, <1>11 DEF SInv, RowFits

LEMMA RemovalGoesOn ==
  ASSUME RInv, RInv', SInv, NEW k \in Keys, RemoveGoesOn(k)
  PROVE  SInv'
  <1> USE RowParts
  <1> DEFINE id == savedIds[k] \/ removals[k].id
  <1>1. /\ Ready(k) /\ removals[k].at = "waiting" /\ saves[k].at = "none"
        /\ removals[k].after <= chains[k].ended
        /\ UNCHANGED <<drawn, timers, chains, saves, savedIds, shifts, made, doubts, unsaved, rowLost>>
    BY DEF RemoveGoesOn, Ready, RowFits, GoneFits
  <1>2. id <=> KnownId(k)
    BY <1>1 DEF RowFits, IdFits
  <1>3. PICK row \in Row, removal \in RemovalCalls :
          /\ rows' = [rows EXCEPT ![k] = row] /\ removals' = [removals EXCEPT ![k] = removal]
          /\ row.typed = rows[k].typed /\ row.id = rows[k].id
          /\ \/ ~id /\ ~row.there /\ removal.at = "none"
             \/ id /\ row.there = rows[k].there /\ row.state = rows[k].state /\ removal.at = "none"
             \/ id /\ row.there = rows[k].there /\ row.state = "saving" /\ removal.at = "sent"
    <2>1. NoRemoval \in RemovalCalls /\ NoRemoval.at = "none"
      BY DEF NoRemoval, RemovalCalls
    <2>2. CASE ~id
      <3> DEFINE row == [rows[k] EXCEPT !.there = FALSE]
      <3>1. row \in Row /\ ~row.there /\ row.typed = rows[k].typed /\ row.id = rows[k].id
        BY DEF Row
      <3>2. rows' = [rows EXCEPT ![k] = row] /\ removals' = [removals EXCEPT ![k] = NoRemoval]
        BY <2>2 DEF RemoveGoesOn
      <3> HIDE DEF row
      <3> QED
        BY <2>1, <2>2, <3>1, <3>2
    <2>3. CASE id /\ ~removals[k].confirmed
      <3> DEFINE row == [rows[k] EXCEPT !.confirming = TRUE]
      <3>1. row \in Row /\ row.there = rows[k].there /\ row.state = rows[k].state
            /\ row.typed = rows[k].typed /\ row.id = rows[k].id
        BY DEF Row
      <3>2. rows' = [rows EXCEPT ![k] = row] /\ removals' = [removals EXCEPT ![k] = NoRemoval]
        BY <2>3 DEF RemoveGoesOn
      <3> HIDE DEF row
      <3> QED
        BY <2>1, <2>3, <3>1, <3>2
    <2>4. CASE id /\ removals[k].confirmed
      <3> DEFINE row == [rows[k] EXCEPT !.state = "saving"]
                 removal == [removals[k] EXCEPT !.at = "sent"]
      <3>1. row \in Row /\ row.there = rows[k].there /\ row.state = "saving"
            /\ row.typed = rows[k].typed /\ row.id = rows[k].id
        BY DEF Row
      <3>2. removal \in RemovalCalls /\ removal.at = "sent"
        BY DEF RemovalCalls
      <3>3. rows' = [rows EXCEPT ![k] = row] /\ removals' = [removals EXCEPT ![k] = removal]
        BY <2>4 DEF RemoveGoesOn
      <3> HIDE DEF row, removal
      <3> QED
        BY <2>4, <3>1, <3>2, <3>3
    <2> QED
      BY <2>2, <2>3, <2>4
  <1>4. /\ removals' \in [Keys -> RemovalCalls] /\ removals'[k] = removal
        /\ \A j \in Keys : j # k => removals'[j] = removals[j]
    BY <1>3, RemovalMoves
  <1>5. rows'[k] = row /\ \A j \in Keys : j # k => rows'[j] = rows[j]
    BY <1>3 DEF RInv, RowsTyped
  <1> HIDE DEF id
  <1>6. RowsWhollyTyped'
    BY <1>1, <1>4 DEF SInv, RowsWhollyTyped
  <1>7. ASSUME NEW j \in Keys, j # k PROVE RowFits(j)'
    BY <1>1, <1>4, <1>5, <1>7, RowStays DEF SameRow
  <1>8. (KnownId(k)' <=> KnownId(k)) /\ (IsQuiet(k)' <=> IsQuiet(k)) /\ ~Ready(k)' /\ ~SavesTheLast(k)'
    BY <1>1, <1>3, <1>4 DEF KnownId, IsQuiet, Ready, SavesTheLast
  <1>9. ChainFits(k)'
    <2>1. row.there => rows[k].there
      BY <1>3
    <2> QED
      BY <1>1, <1>3, <1>5, <2>1 DEF RowFits, ChainFits
  <1>10. IdFits(k)'
    BY <1>1, <1>2, <1>3, <1>4, <1>5, <1>8 DEF RowFits, IdFits
  <1>11. SavedFits(k)'
    <2>1. row.there /\ row.state = "saved" => rows[k].there /\ rows[k].state = "saved"
      BY <1>3
    <2>2. saves[k].at # "done" /\ removals[k].at # "done"
      BY <1>1
    <2> QED
      BY <1>1, <1>3, <1>5, <1>8, <2>1, <2>2 DEF RowFits, SavedFits
  <1>12. GoneFits(k)'
    <2>1. k \notin doubts /\ ~KnownId(k) => shifts[k] = 0 /\ IsQuiet(k)
      BY <1>1 DEF RowFits, IdFits, GoneFits, RowIsMadeOnce
    <2>2. k \notin doubts /\ ~row.there => shifts[k] = 0 /\ (KnownId(k) \/ IsQuiet(k))
      <3>1. CASE ~KnownId(k)
        BY <2>1, <3>1
      <3>2. CASE KnownId(k)
        BY <1>2, <1>3, <3>2 DEF RowFits, GoneFits
      <3> QED
        BY <3>1, <3>2
    <2> QED
      BY <1>1, <1>3, <1>4, <1>5, <1>8, <2>2 DEF GoneFits
  <1> QED
    BY <1>6, <1>7, <1>9, <1>10, <1>11, <1>12 DEF SInv, RowFits

LEMMA RemovalIsAnswered ==
  ASSUME RInv, RInv', SInv, NEW k \in Keys, ~Ready(k), ServeRemove(k) \/ LoseRemove(k)
  PROVE  SInv'
  <1> USE RowParts
  <1>1. /\ UNCHANGED <<rows, drawn, timers, chains, saves, savedIds, made, unsaved>>
        /\ doubts \subseteq doubts' /\ removals[k].at \in {"sent", "done"}
    BY DEF ServeRemove, LoseRemove
  <1>2. PICK at \in {"done", "refused"} :
          /\ removals' = [removals EXCEPT ![k].at = at]
          /\ at = "done" => shifts'[k] = 0
          /\ at = "refused" => shifts'[k] = shifts[k] /\ (removals[k].at = "done" => k \in doubts')
          /\ shifts'[k] \in {0, shifts[k]}
          /\ shifts' \in [Keys -> Int] /\ \A j \in Keys : j # k => shifts'[j] = shifts[j]
    <2>1. shifts \in [Keys -> Int]
      BY DEF SInv, RowsWhollyTyped
    <2>2. CASE ServeRemove(k)
      <3>1. /\ removals[k].at = "sent" /\ shifts'[k] = 0 /\ shifts' \in [Keys -> Int]
            /\ \A j \in Keys : j # k => shifts'[j] = shifts[j]
        BY <2>1, <2>2 DEF ServeRemove
      <3>2. CASE shifts[k] # 0
        BY <2>2, <3>1, <3>2 DEF ServeRemove
      <3>3. CASE shifts[k] = 0
        BY <2>2, <3>1, <3>3 DEF ServeRemove
      <3> QED
        BY <3>2, <3>3
    <2>3. CASE LoseRemove(k)
      BY <2>1, <2>3 DEF LoseRemove
    <2> QED
      BY <2>2, <2>3
  <1>3. PICK removal \in RemovalCalls :
          removal.at = at /\ removals' = [removals EXCEPT ![k] = removal]
    <2> DEFINE removal == [removals[k] EXCEPT !.at = at]
    <2>1. removal \in RemovalCalls /\ removal.at = at
      BY DEF RemovalCalls
    <2>2. removals' = [removals EXCEPT ![k] = removal]
      BY <1>2
    <2> HIDE DEF removal
    <2> QED
      BY <2>1, <2>2
  <1>4. /\ removals' \in [Keys -> RemovalCalls] /\ removals'[k] = removal
        /\ \A j \in Keys : j # k => removals'[j] = removals[j]
    BY <1>3, RemovalMoves
  <1>5. RowsWhollyTyped'
    <2>1. rowLost' \in 0..MaxRowLost
      BY RowsAssumption DEF ServeRemove, LoseRemove, SInv, RowsWhollyTyped
    <2> QED
      BY <1>1, <1>2, <1>4, <2>1 DEF SInv, RowsWhollyTyped
  <1>6. ASSUME NEW j \in Keys, j # k PROVE RowFits(j)'
    BY <1>1, <1>2, <1>4, <1>6, RowStays DEF SameRow
  <1>7. (KnownId(k)' <=> KnownId(k)) /\ (IsQuiet(k)' <=> IsQuiet(k)) /\ ~Ready(k)'
        /\ (SavesTheLast(k)' <=> SavesTheLast(k))
    BY <1>1, <1>3, <1>4 DEF KnownId, IsQuiet, Ready, SavesTheLast
  <1>8. ChainFits(k)'
    BY <1>1 DEF RowFits, ChainFits
  <1>9. IdFits(k)'
    <2>1. KnownId(k)
      BY <1>1 DEF RowFits, IdFits
    <2> QED
      BY <1>1, <1>2, <1>3, <1>4, <1>7, <2>1 DEF RowFits, IdFits
  <1>10. SavedFits(k)'
    BY <1>1, <1>2, <1>3, <1>4, <1>7 DEF RowFits, SavedFits
  <1>11. GoneFits(k)'
    BY <1>1, <1>2, <1>3, <1>4, <1>7 DEF RowFits, GoneFits
  <1> QED
    BY <1>5, <1>6, <1>8, <1>9, <1>10, <1>11 DEF SInv, RowFits

LEMMA RemovalIsOver ==
  ASSUME RInv, RInv', SInv, NEW k \in Keys, ~Ready(k), RemoveEnds(k)
  PROVE  SInv'
  <1> USE RowParts
  <1>1. /\ removals[k].at \in {"done", "refused"} /\ removals' = [removals EXCEPT ![k] = NoRemoval]
        /\ UNCHANGED <<drawn, timers, chains, saves, savedIds, shifts, made, doubts, unsaved, rowLost>>
    BY DEF RemoveEnds
  <1>2. NoRemoval \in RemovalCalls /\ NoRemoval.at = "none"
    BY DEF NoRemoval, RemovalCalls
  <1>3. /\ removals' \in [Keys -> RemovalCalls] /\ removals'[k] = NoRemoval
        /\ \A j \in Keys : j # k => removals'[j] = removals[j]
    BY <1>1, <1>2, RemovalMoves
  <1>4. /\ \A j \in Keys : j # k => rows'[j] = rows[j]
        /\ rows'[k].typed = rows[k].typed /\ (rows'[k].id <=> rows[k].id)
        /\ rows'[k].there => rows[k].there /\ rows'[k].state # "saved" /\ removals[k].at # "done"
        /\ ~rows'[k].there => removals[k].at = "done" \/ ~rows[k].there
    <2>1. CASE removals[k].at = "done"
      <3> DEFINE row == [rows[k] EXCEPT !.there = FALSE]
      <3>1. row \in Row /\ ~row.there /\ row.typed = rows[k].typed /\ row.id = rows[k].id
        BY DEF Row
      <3>2. rows' = [rows EXCEPT ![k] = row]
        BY <2>1 DEF RemoveEnds
      <3> HIDE DEF row
      <3> QED
        BY <2>1, <3>1, <3>2 DEF RInv, RowsTyped
    <2>2. CASE removals[k].at = "refused"
      <3> DEFINE row == [rows[k] EXCEPT !.state = "error", !.confirming = FALSE]
      <3>1. row \in Row /\ row.there = rows[k].there /\ row.typed = rows[k].typed
            /\ row.id = rows[k].id /\ row.state = "error"
        BY DEF Row
      <3>2. Told(k, row)
        BY <2>2 DEF RemoveEnds
      <3> HIDE DEF row
      <3>3. /\ \A j \in Keys : j # k => rows'[j] = rows[j]
            /\ rows'[k] = IF rows[k].there THEN row ELSE rows[k]
        BY <3>1, <3>2, RowIsTold
      <3> QED
        BY <2>2, <3>1, <3>3
    <2> QED
      BY <1>1, <2>1, <2>2
  <1>5. RowsWhollyTyped'
    BY <1>1, <1>3 DEF SInv, RowsWhollyTyped
  <1>6. ASSUME NEW j \in Keys, j # k PROVE RowFits(j)'
    BY <1>1, <1>3, <1>4, <1>6, RowStays DEF SameRow
  <1>7. (KnownId(k)' <=> KnownId(k)) /\ (IsQuiet(k)' <=> IsQuiet(k)) /\ ~Ready(k)' /\ KnownId(k)
        /\ (SavesTheLast(k)' <=> SavesTheLast(k))
    BY <1>1, <1>2, <1>3 DEF KnownId, IsQuiet, Ready, SavesTheLast, RowFits, IdFits
  <1>8. ChainFits(k)'
    BY <1>1, <1>4 DEF RowFits, ChainFits
  <1>9. IdFits(k)'
    BY <1>1, <1>2, <1>3, <1>4, <1>7 DEF RowFits, IdFits
  <1>10. SavedFits(k)'
    BY <1>1, <1>2, <1>3, <1>4, <1>7 DEF RowFits, SavedFits
  <1>11. GoneFits(k)'
    BY <1>1, <1>2, <1>3, <1>4, <1>7 DEF RowFits, GoneFits
  <1> QED
    BY <1>5, <1>6, <1>8, <1>9, <1>10, <1>11 DEF SInv, RowFits

LEMMA RowsGoOn ==
  ASSUME RInv, RInv', SInv, [RowsNext]_rowVars
  PROVE  SInv'
  <1>1. CASE \E k \in Keys : RemoveGoesOn(k)
    BY <1>1, RemovalGoesOn
  <1>2. CASE Draw \/ UNCHANGED rowVars
    BY <1>2, RowIsDrawn
  <1>3. CASE CloseModal
    BY <1>3, ModalCloses
  <1>5. ASSUME NEW k \in Keys, ~Ready(k), Save(k) PROVE SInv'
    BY <1>5, SaveBegins
  <1>4. ASSUME NEW k \in Keys, ~Ready(k), ~Turn(k), RowStep(k) PROVE SInv'
    <2>1. CASE Edit(k)
      BY <1>4, <2>1, RowIsTyped
    <2>2. CASE Fire(k)
      BY <1>4, <2>2, TimerGoesOff
    <2>4. CASE ServeSave(k)
      BY <1>4, <2>4, SaveIsServed
    <2>5. CASE LoseSave(k)
      BY <1>4, <2>5, SaveIsLost
    <2>6. CASE SaveEnds(k)
      BY <1>4, <2>6, SaveIsOver
    <2>7. CASE RemoveRow(k)
      BY <1>4, <2>7, RemovalIsAsked
    <2>8. CASE ServeRemove(k) \/ LoseRemove(k)
      BY <1>4, <2>8, RemovalIsAnswered
    <2>9. CASE RemoveEnds(k)
      BY <1>4, <2>9, RemovalIsOver
    <2> QED
      BY <1>4, <2>1, <2>2, <2>4, <2>5, <2>6, <2>7, <2>8, <2>9 DEF RowStep
  <1> QED
    BY <1>1, <1>2, <1>3, <1>4, <1>5 DEF RowsNext

LEMMA RowsAreRight ==
  ASSUME RInv, SInv
  PROVE  RowsTypeOK /\ RowsSettle
  <1>1. RowsTypeOK
    <2>1. \A k \in Keys : chains[k].ended <= chains[k].queued
      BY DEF SInv, RowFits, ChainFits
    <2> QED
      BY <2>1 DEF RInv, RowsTyped, SInv, RowsWhollyTyped, RowsTypeOK
  <1>2. ASSUME NEW k \in Keys \ doubts, AtRest(k)
        PROVE  /\ rows[k].there /\ rows[k].state = "saved" /\ rows[k].typed # 0 /\ k \notin unsaved
                    => shifts[k] = rows[k].typed
               /\ ~rows[k].there => shifts[k] = 0
    <2>1. RowFits(k) /\ IsQuiet(k) /\ removals[k].at = "none"
      BY <1>2 DEF SInv, AtRest, IsQuiet
    <2> QED
      BY <2>1 DEF RowFits, SavedFits, GoneFits
  <1> QED
    BY <1>1, <1>2 DEF RowsSettle

-----------------------------------------------------------------------------
\* PayDialog.  Each drawing of the dialog asks for one price, which is priced
\* or on its way; while a payment is in flight, its dialog is on screen and no
\* price can come in, so a second run never gets as far as a payment.

PayRecords ==
  [kind : {"preview", "confirm"}, quote : Quotes \union {0}, opening : 1..openings,
   at : {"sent", "answered"}, ok : BOOLEAN, status : {"none", "owed", "paid"}]

PayTyped ==
  /\ runs \in [Quotes -> {"none", "pending", "executed"}]
  /\ openings \in Nat /\ payCalls \subseteq PayRecords /\ IsFiniteSet(payCalls)
  /\ payModal \in [wanted : BOOLEAN, opening : 0..openings, quote : Quotes \union {0},
                   stage : {"pricing", "ready", "paying", "paid"}]

PricesAsked == {c \in payCalls : c.kind = "preview" /\ c.at = "sent"}
RunsPriced == {q \in Quotes : runs[q] # "none"}

PricesAreAskedFor == Cardinality(RunsPriced) + Cardinality(PricesAsked) <= openings

\* One price an opening, and none on its way to a dialog that has it.
PreviewsAreOnce ==
  /\ \A c, d \in payCalls :
       c.kind = "preview" /\ d.kind = "preview" /\ c.opening = d.opening => c = d
  /\ \A c \in payCalls :
       c.kind = "preview" /\ payModal.stage # "pricing" => c.opening # payModal.opening
  /\ \A c \in payCalls :
       c.kind = "confirm" /\ payModal.stage = "pricing" => c.opening # payModal.opening
  /\ payModal.opening = 0 => payModal.stage = "pricing"
  /\ \A c \in payCalls : c.ok => c.at = "answered"

\* A payment in flight is the only one, and of the dialog on screen; once a run
\* is executed, no dialog has or gets the price of another.
PaymentsAreDrawn ==
  /\ \A c \in payCalls : c.kind = "confirm" =>
       payModal.stage = "paying" /\ payModal.opening = c.opening /\ payModal.quote = c.quote
  /\ \A c, d \in payCalls : c.kind = "confirm" /\ d.kind = "confirm" => c = d
OneIsExecuted ==
  /\ \A p, q \in Executed : p = q
  /\ Executed # {} =>
       /\ payModal.stage \in {"ready", "paying"} => payModal.quote \in Executed
       /\ \A c \in payCalls : c.kind = "preview" /\ c.ok => c.opening # payModal.opening

PInv ==
  /\ PayTyped /\ PricesAreAskedFor /\ PreviewsAreOnce
  /\ ~escaped /\ ~elsewhere => PaymentsAreDrawn /\ OneIsExecuted

LEMMA PayStarts ==
  ASSUME PayInit
  PROVE  PInv
  <1> USE DEF PayInit
  <1>1. payCalls = {} /\ openings = 0 /\ IsFiniteSet(payCalls)
    BY FS_EmptySet
  <1>2. runs \in [Quotes -> {"none", "pending", "executed"}] /\ Executed = {} /\ RunsPriced = {}
    BY DEF Executed, RunsPriced
  <1>3. PayTyped
    BY <1>1, <1>2 DEF PayTyped, NoDialogDrawn
  <1>4. PricesAreAskedFor
    <2>1. PricesAsked = {}
      BY <1>1 DEF PricesAsked
    <2> QED
      BY <1>1, <1>2, <2>1, FS_EmptySet DEF PricesAreAskedFor
  <1> QED
    BY <1>1, <1>2, <1>3, <1>4 DEF PInv, PreviewsAreOnce, PaymentsAreDrawn, OneIsExecuted,
                                 NoDialogDrawn

LEMMA PricesAreFinite ==
  ASSUME PayTyped
  PROVE  /\ IsFiniteSet(PricesAsked) /\ Cardinality(PricesAsked) \in Nat
         /\ IsFiniteSet(RunsPriced) /\ Cardinality(RunsPriced) \in Nat
  BY PayAssumption, FS_Subset, FS_CardinalityType DEF PayTyped, PricesAsked, RunsPriced

LEMMA OneMore ==
  ASSUME NEW S, IsFiniteSet(S), NEW x, NEW T \in SUBSET (S \union {x})
  PROVE  /\ Cardinality(S) \in Nat /\ Cardinality(T) \in Nat
         /\ Cardinality(T) <= Cardinality(S) + 1
  <1>1. /\ IsFiniteSet(S \union {x}) /\ Cardinality(S) \in Nat
        /\ Cardinality(S \union {x}) \in {Cardinality(S), Cardinality(S) + 1}
    BY FS_AddElement, FS_CardinalityType
  <1>2. IsFiniteSet(T) /\ Cardinality(T) <= Cardinality(S \union {x})
    BY <1>1, FS_Subset
  <1>3. Cardinality(T) \in Nat
    BY <1>2, FS_CardinalityType
  <1> QED
    BY <1>1, <1>2, <1>3

\* Calls answered or taken off leave the dialog and the count as they were.
LEMMA FewerPrices ==
  ASSUME PInv, PayTyped', RunsPriced' = RunsPriced, PricesAsked' \subseteq PricesAsked,
         openings' = openings
  PROVE  PricesAreAskedFor'
  <1>1. Cardinality(PricesAsked') <= Cardinality(PricesAsked)
    BY PricesAreFinite, FS_Subset DEF PInv
  <1>2. Cardinality(PricesAsked') \in Nat
    BY PricesAreFinite, FS_Subset, FS_CardinalityType DEF PInv
  <1> QED
    BY <1>1, <1>2, PricesAreFinite DEF PInv, PricesAreAskedFor, PayTyped

\* A call is answered: its answer stands in its place.
PayAnswers(c, d) ==
  /\ c \in payCalls /\ payCalls' = (payCalls \ {c}) \union {d}
  /\ d \in PayRecords /\ d.kind = c.kind /\ d.opening = c.opening /\ d.at = "answered"
  /\ c.kind = "confirm" => d.quote = c.quote

LEMMA AnsweredInPlace ==
  ASSUME PInv, NEW c, NEW d, PayAnswers(c, d), UNCHANGED <<payModal, openings, escaped>>
  PROVE  /\ payCalls' \subseteq PayRecords' /\ IsFiniteSet(payCalls')
         /\ PricesAsked' \subseteq PricesAsked \ {c}
         /\ PreviewsAreOnce'
         /\ PaymentsAreDrawn => PaymentsAreDrawn'
  <1> USE DEF PInv, PayTyped, PayAnswers
  <1>1. payCalls' \subseteq PayRecords'
    BY DEF PayRecords
  <1>2. IsFiniteSet(payCalls')
    BY FS_RemoveElement, FS_AddElement
  <1>3. PricesAsked' \subseteq PricesAsked \ {c}
    BY DEF PricesAsked
  <1>4. PreviewsAreOnce'
    BY DEF PreviewsAreOnce
  <1>5. PaymentsAreDrawn => PaymentsAreDrawn'
    BY DEF PaymentsAreDrawn
  <1> QED
    BY <1>1, <1>2, <1>3, <1>4, <1>5

\* The dialog appears, stays or goes.
LEMMA DialogIsDrawn ==
  ASSUME PInv, NEW wanted \in BOOLEAN, NEW status, NEW asking \in SUBSET payCalls,
         Drawn(wanted, status, asking), UNCHANGED <<runs, elsewhere>>
  PROVE  PInv'
  <1> USE DEF PInv
  <1> DEFINE there == wanted /\ status # "none"
             request == ToServer("preview", 0, openings + 1)
  <1>1. RunsPriced' = RunsPriced /\ Executed' = Executed
    BY DEF RunsPriced, Executed
  <1>2. IsFiniteSet(asking)
    BY FS_Subset DEF PayTyped
  <1>3. CASE there /\ payModal.opening = 0
    <2>1. /\ payModal' = [NoDialogDrawn EXCEPT !.wanted = TRUE, !.opening = openings + 1]
          /\ openings' = openings + 1 /\ payCalls' = asking \union {request} /\ escaped' = escaped
      BY <1>3 DEF Drawn
    <2>2. /\ request.kind = "preview" /\ request.opening = openings + 1 /\ request.at = "sent"
          /\ ~request.ok /\ request \in PayRecords'
      BY <2>1 DEF ToServer, PayRecords, PayTyped
    <2>3. payModal'.stage = "pricing" /\ payModal'.opening = openings + 1
      BY <2>1 DEF NoDialogDrawn
    <2>4. PayTyped'
      <3>1. payCalls' \subseteq PayRecords'
        BY <2>1, <2>2 DEF PayTyped, PayRecords
      <3>2. IsFiniteSet(payCalls')
        BY <2>1, <1>2, FS_AddElement
      <3>3. payModal' = [wanted |-> TRUE, opening |-> openings + 1, stage |-> "pricing",
                         quote |-> 0]
        BY <2>1 DEF NoDialogDrawn
      <3>4. openings + 1 \in 0..(openings + 1) /\ openings + 1 \in Nat
        BY DEF PayTyped
      <3> QED
        BY <3>1, <3>2, <3>3, <3>4, <2>1 DEF PayTyped
    <2>5. PricesAreAskedFor'
      <3>1. PricesAsked' \subseteq PricesAsked \union {request}
        BY <2>1 DEF PricesAsked
      <3>2. /\ Cardinality(PricesAsked) \in Nat /\ Cardinality(PricesAsked') \in Nat
            /\ Cardinality(PricesAsked') <= Cardinality(PricesAsked) + 1
        BY <3>1, PricesAreFinite, OneMore
      <3>3. Cardinality(RunsPriced) \in Nat /\ openings \in Nat
        BY PricesAreFinite DEF PayTyped
      <3>4. Cardinality(RunsPriced) + Cardinality(PricesAsked) <= openings
        BY DEF PricesAreAskedFor
      <3>5. Cardinality(RunsPriced) + Cardinality(PricesAsked') <= openings + 1
        BY <3>2, <3>3, <3>4
      <3> QED
        BY <3>5, <2>1, <1>1 DEF PricesAreAskedFor
    <2>6. \A c \in asking : c \in payCalls /\ c.opening \in 1..openings
      BY DEF PayTyped, PayRecords
    <2>7. PreviewsAreOnce'
      BY <2>1, <2>2, <2>3, <2>6 DEF PreviewsAreOnce, PayTyped
    <2>8. ~escaped' /\ ~elsewhere' => PaymentsAreDrawn' /\ OneIsExecuted'
      <3> SUFFICES ASSUME ~escaped', ~elsewhere'
                   PROVE  PaymentsAreDrawn' /\ OneIsExecuted'
        OBVIOUS
      <3>1. PaymentsAreDrawn /\ OneIsExecuted
        BY <2>1
      <3>2. \A c \in payCalls : c.kind # "confirm"
        BY <3>1, <1>3 DEF PaymentsAreDrawn, PreviewsAreOnce
      <3>3. PaymentsAreDrawn'
        BY <2>1, <2>2, <3>2 DEF PaymentsAreDrawn
      <3>4. OneIsExecuted'
        BY <2>1, <2>2, <2>3, <2>6, <1>1, <3>1 DEF OneIsExecuted, PayTyped
      <3> QED
        BY <3>3, <3>4
    <2> QED
      BY <2>4, <2>5, <2>7, <2>8
  <1>4. CASE ~(there /\ payModal.opening = 0)
    <2>1. /\ payModal' = IF there THEN payModal ELSE [NoDialogDrawn EXCEPT !.wanted = wanted]
          /\ payCalls' = asking /\ openings' = openings
          /\ escaped' = (escaped \/ (~there /\ payModal.stage = "paying"))
      BY <1>4 DEF Drawn
    <2>2. PayTyped'
      BY <2>1, <1>2 DEF PayTyped, PayRecords, NoDialogDrawn
    <2>3. PricesAreAskedFor'
      BY <2>1, <2>2, <1>1, FewerPrices DEF PricesAsked
    <2>4. ~there => payModal'.stage = "pricing" /\ payModal'.opening = 0
      BY <2>1 DEF NoDialogDrawn
    <2>5. \A c \in asking : c \in payCalls /\ c.opening # 0
      BY DEF PayTyped, PayRecords
    <2>6. PreviewsAreOnce'
      BY <2>1, <2>4, <2>5 DEF PreviewsAreOnce
    <2>7. ~escaped' /\ ~elsewhere' => PaymentsAreDrawn' /\ OneIsExecuted'
      <3> SUFFICES ASSUME ~escaped', ~elsewhere'
                   PROVE  PaymentsAreDrawn' /\ OneIsExecuted'
        OBVIOUS
      <3>1. PaymentsAreDrawn /\ OneIsExecuted
        BY <2>1
      <3>2. ~there => \A c \in payCalls : c.kind # "confirm"
        BY <3>1, <2>1 DEF PaymentsAreDrawn
      <3>3. PaymentsAreDrawn'
        BY <2>1, <2>5, <3>1, <3>2 DEF PaymentsAreDrawn
      <3>4. OneIsExecuted'
        BY <2>1, <2>4, <2>5, <1>1, <3>1 DEF OneIsExecuted
      <3> QED
        BY <3>3, <3>4
    <2> QED
      BY <2>2, <2>3, <2>6, <2>7
  <1> QED
    BY <1>3, <1>4

LEMMA PayIsPressed ==
  ASSUME PInv, Pay
  PROVE  PInv'
  <1> USE DEF PInv
  <1> DEFINE request == ToServer("confirm", payModal.quote, payModal.opening)
  <1>1. /\ payModal.opening # 0 /\ payModal.stage = "ready"
        /\ payModal' = [payModal EXCEPT !.stage = "paying"]
        /\ payCalls' = payCalls \union {request}
        /\ UNCHANGED <<runs, openings, escaped, elsewhere>>
    BY DEF Pay
  <1>2. /\ request.kind = "confirm" /\ request.opening = payModal.opening /\ request.at = "sent"
        /\ request.quote = payModal.quote /\ ~request.ok /\ request \in PayRecords
    BY <1>1 DEF ToServer, PayRecords, PayTyped
  <1>3. /\ payModal'.stage = "paying" /\ payModal'.opening = payModal.opening
        /\ payModal'.quote = payModal.quote
    BY <1>1 DEF PayTyped
  <1>4. PayTyped'
    <2>1. IsFiniteSet(payCalls') /\ PayRecords' = PayRecords
      BY <1>1, FS_AddElement DEF PayTyped, PayRecords
    <2> QED
      BY <1>1, <1>2, <2>1 DEF PayTyped
  <1>5. RunsPriced' = RunsPriced /\ Executed' = Executed
    BY <1>1 DEF RunsPriced, Executed
  <1>6. PricesAreAskedFor'
    <2>1. PricesAsked' \subseteq PricesAsked
      BY <1>1, <1>2 DEF PricesAsked
    <2> QED
      BY <1>1, <1>4, <1>5, <2>1, FewerPrices
  <1>7. PreviewsAreOnce'
    BY <1>1, <1>2, <1>3 DEF PreviewsAreOnce
  <1>8. ~escaped' /\ ~elsewhere' => PaymentsAreDrawn' /\ OneIsExecuted'
    <2> SUFFICES ASSUME ~escaped', ~elsewhere'
                 PROVE  PaymentsAreDrawn' /\ OneIsExecuted'
      OBVIOUS
    <2>1. PaymentsAreDrawn /\ OneIsExecuted
      BY <1>1
    <2>2. PaymentsAreDrawn'
      BY <1>1, <1>2, <1>3, <2>1 DEF PaymentsAreDrawn
    <2>3. OneIsExecuted'
      BY <1>1, <1>2, <1>3, <1>5, <2>1 DEF OneIsExecuted
    <2> QED
      BY <2>2, <2>3
  <1> QED
    BY <1>4, <1>6, <1>7, <1>8

\* A run is priced only while none is executed, and takes the place of the call
\* that asked for it.
LEMMA RunIsPriced ==
  ASSUME PInv, NEW c, ServePay(c), Preview(c)
  PROVE  PInv'
  <1> USE DEF PInv
  <1>1. c \in payCalls /\ c.at = "sent" /\ c.kind = "preview" /\ c \in PayRecords
        /\ UNCHANGED <<payModal, openings, escaped, elsewhere>> /\ c \in PricesAsked
    BY DEF ServePay, Preview, PayTyped, PricesAsked
  <1>2. CASE Owed = "paid" /\ UNCHANGED runs /\ Replies(c, FALSE)
    <2> DEFINE d == [c EXCEPT !.at = "answered", !.ok = FALSE,
                              !.status = IF Executed' = {} THEN "owed" ELSE "paid"]
    <2>1. PayAnswers(c, d) /\ ~d.ok
      BY <1>1, <1>2 DEF PayAnswers, Replies, PayRecords
    <2>2. RunsPriced' = RunsPriced /\ Executed' = Executed
      BY <1>2 DEF RunsPriced, Executed
    <2>3. PayTyped'
      BY <1>1, <1>2, <2>1, AnsweredInPlace DEF PayTyped
    <2>4. PricesAreAskedFor'
      BY <1>1, <2>1, <2>2, <2>3, AnsweredInPlace, FewerPrices
    <2>5. OneIsExecuted => OneIsExecuted'
      BY <1>1, <2>1, <2>2 DEF OneIsExecuted, PayAnswers
    <2> QED
      BY <1>1, <2>1, <2>3, <2>4, <2>5, AnsweredInPlace
  <1>3. ASSUME NEW q \in Quotes, Owed = "owed", runs[q] = "none",
               runs' = [runs EXCEPT ![q] = "pending"],
               payCalls' = (payCalls \ {c})
                  \union {[c EXCEPT !.at = "answered", !.ok = TRUE, !.quote = q, !.status = "owed"]}
        PROVE  PInv'
    <2> DEFINE d == [c EXCEPT !.at = "answered", !.ok = TRUE, !.quote = q, !.status = "owed"]
    <2>1. PayAnswers(c, d)
      BY <1>1, <1>3 DEF PayAnswers, PayRecords
    <2>2. Executed' = {}
      BY <1>3 DEF Executed, Owed, PayTyped
    <2>3. RunsPriced' \subseteq RunsPriced \union {q}
      BY <1>3 DEF RunsPriced, PayTyped
    <2>4. PayTyped'
      BY <1>1, <1>3, <2>1, AnsweredInPlace DEF PayTyped
    <2>5. PricesAreAskedFor'
      <3>1. /\ Cardinality(RunsPriced) \in Nat /\ Cardinality(RunsPriced') \in Nat
            /\ Cardinality(RunsPriced') <= Cardinality(RunsPriced) + 1
        BY <2>3, PricesAreFinite, OneMore
      <3>2. /\ IsFiniteSet(PricesAsked) /\ Cardinality(PricesAsked) \in Nat
            /\ IsFiniteSet(PricesAsked \ {c})
            /\ Cardinality(PricesAsked \ {c}) = Cardinality(PricesAsked) - 1
        BY <1>1, PricesAreFinite, FS_RemoveElement
      <3>3. PricesAsked' \subseteq PricesAsked \ {c}
        BY <1>1, <2>1, AnsweredInPlace
      <3>4. /\ Cardinality(PricesAsked') \in Nat
            /\ Cardinality(PricesAsked') <= Cardinality(PricesAsked \ {c})
        BY <3>2, <3>3, FS_Subset, FS_CardinalityType
      <3>5. Cardinality(RunsPriced) + Cardinality(PricesAsked) <= openings /\ openings \in Nat
        BY DEF PricesAreAskedFor, PayTyped
      <3>6. Cardinality(RunsPriced') + Cardinality(PricesAsked') <= openings
        BY <3>1, <3>2, <3>4, <3>5
      <3> QED
        BY <3>6, <1>1 DEF PricesAreAskedFor
    <2>6. OneIsExecuted'
      BY <2>2 DEF OneIsExecuted
    <2> QED
      BY <1>1, <2>1, <2>4, <2>5, <2>6, AnsweredInPlace
  <1> QED
    BY <1>2, <1>3 DEF Preview

\* A payment that executes is that of the dialog on screen, and the first.
LEMMA PaymentIsServed ==
  ASSUME PInv, NEW c, ServePay(c), Confirm(c)
  PROVE  PInv'
  <1> USE DEF PInv
  <1>1. c \in payCalls /\ c.at = "sent" /\ c.kind = "confirm" /\ c \in PayRecords
        /\ UNCHANGED <<payModal, openings, escaped, elsewhere>>
    BY DEF ServePay, Confirm, PayTyped
  <1>2. PICK ok \in BOOLEAN :
          /\ Replies(c, ok)
          /\ IF ok THEN runs[c.quote] = "pending" /\ runs' = [runs EXCEPT ![c.quote] = "executed"]
                   ELSE runs' = runs
    BY DEF Confirm
  <1> DEFINE d == [c EXCEPT !.at = "answered", !.ok = ok,
                            !.status = IF Executed' = {} THEN "owed" ELSE "paid"]
  <1>3. PayAnswers(c, d) /\ d.kind = "confirm"
    <2>1. (IF Executed' = {} THEN "owed" ELSE "paid") \in {"none", "owed", "paid"}
      OBVIOUS
    <2>2. d \in PayRecords
      BY <1>1, <2>1 DEF PayRecords
    <2> QED
      BY <1>1, <1>2, <2>2 DEF PayAnswers, Replies, PayRecords
  <1>4. PayTyped'
    <2>1. runs' \in [Quotes -> {"none", "pending", "executed"}]
      BY <1>2 DEF PayTyped
    <2> QED
      BY <1>1, <1>3, <2>1, AnsweredInPlace DEF PayTyped
  <1>5. RunsPriced' = RunsPriced /\ (~ok => Executed' = Executed)
        /\ Executed' \subseteq Executed \union {c.quote}
    BY <1>2 DEF RunsPriced, Executed, PayTyped
  <1>6. PricesAreAskedFor'
    BY <1>1, <1>3, <1>4, <1>5, AnsweredInPlace, FewerPrices
  <1>7. ~escaped' /\ ~elsewhere' => OneIsExecuted'
    <2> SUFFICES ASSUME ~escaped, ~elsewhere
                 PROVE  OneIsExecuted'
      BY <1>1
    <2>1. /\ PaymentsAreDrawn /\ OneIsExecuted
          /\ payModal.stage = "paying" /\ payModal.quote = c.quote
      BY <1>1 DEF PaymentsAreDrawn
    <2>2. \A e \in payCalls' : e.kind = "preview" => e.opening # payModal'.opening
      BY <1>1, <1>3, <2>1 DEF PayAnswers, PreviewsAreOnce
    <2>3. CASE ~ok
      BY <1>1, <1>5, <2>1, <2>2, <2>3 DEF OneIsExecuted
    <2>4. CASE ok
      <3>1. Executed = {}
        BY <1>2, <2>1, <2>4 DEF OneIsExecuted, Executed
      <3> QED
        BY <1>1, <1>5, <2>1, <2>2, <3>1 DEF OneIsExecuted
    <2> QED
      BY <2>3, <2>4
  <1> QED
    BY <1>1, <1>3, <1>4, <1>6, <1>7, AnsweredInPlace

\* A price comes in where nothing is executed yet, a payment's answer where no
\* other is in flight.
LEMMA AnswerIsTaken ==
  ASSUME PInv, NEW c, PayAnswer(c)
  PROVE  PInv'
  <1> USE DEF PInv
  <1>1. c \in payCalls /\ c \in PayRecords /\ UNCHANGED <<runs, elsewhere>>
        /\ payModal.wanted \in BOOLEAN
    BY DEF PayAnswer, PayTyped
  <1>2. CASE \E status : Drawn(payModal.wanted, status, payCalls \ {c})
    BY <1>1, <1>2, DialogIsDrawn
  <1>3. CASE /\ payCalls' = payCalls \ {c} /\ UNCHANGED <<openings, escaped>>
             /\ \/ payModal' = payModal
                \/ /\ c.kind = "preview" /\ c.ok /\ c.opening = payModal.opening
                   /\ payModal' = [payModal EXCEPT !.stage = "ready", !.quote = c.quote]
                \/ /\ c.kind = "confirm" /\ c.opening = payModal.opening
                   /\ \E stage \in {"ready", "paid"} : payModal' = [payModal EXCEPT !.stage = stage]
    <2>1. PayTyped'
      <3>1. IsFiniteSet(payCalls') /\ PayRecords' = PayRecords
        BY <1>3, FS_RemoveElement DEF PayTyped, PayRecords
      <3>2. payModal' \in [wanted : BOOLEAN, opening : 0..openings, quote : Quotes \union {0},
                          stage : {"pricing", "ready", "paying", "paid"}]
        BY <1>1, <1>3 DEF PayTyped, PayRecords
      <3>3. payCalls' \subseteq PayRecords
        BY <1>3 DEF PayTyped
      <3> QED
        BY <1>1, <1>3, <3>1, <3>2, <3>3 DEF PayTyped
    <2>2. RunsPriced' = RunsPriced /\ Executed' = Executed
      BY <1>1 DEF RunsPriced, Executed
    <2>3. PricesAreAskedFor'
      <3>1. PricesAsked' \subseteq PricesAsked
        BY <1>3 DEF PricesAsked
      <3> QED
        BY <1>3, <2>1, <2>2, <3>1, FewerPrices
    <2>4. payModal'.opening = payModal.opening /\ c.opening # 0
      <3>1. payModal'.opening = payModal.opening
        BY <1>3 DEF PayTyped
      <3>2. c.opening \in 1..openings /\ openings \in Nat
        BY <1>1 DEF PayTyped, PayRecords
      <3> QED
        BY <3>1, <3>2
    <2>5. payModal' # payModal => /\ c.opening = payModal.opening
                                 /\ payModal'.stage \in {"ready", "paid"}
      BY <1>3 DEF PayTyped
    <2>6. PreviewsAreOnce'
      BY <1>1, <1>3, <2>4, <2>5 DEF PreviewsAreOnce, PayTyped, PayRecords
    <2>7. ~escaped' /\ ~elsewhere' => PaymentsAreDrawn' /\ OneIsExecuted'
      <3> SUFFICES ASSUME ~escaped, ~elsewhere
                   PROVE  PaymentsAreDrawn' /\ OneIsExecuted'
        BY <1>1, <1>3
      <3>1. PaymentsAreDrawn /\ OneIsExecuted
        OBVIOUS
      <3>2. CASE payModal' = payModal
        BY <1>3, <2>2, <3>1, <3>2 DEF PaymentsAreDrawn, OneIsExecuted
      <3>3. CASE payModal' # payModal
        <4>1. \A e \in payCalls' : e.kind # "confirm"
          BY <1>1, <1>3, <2>5, <3>1, <3>3 DEF PaymentsAreDrawn, PreviewsAreOnce, PayRecords
        <4>2. PaymentsAreDrawn'
          BY <4>1 DEF PaymentsAreDrawn
        <4>3. CASE c.kind = "preview"
          <5>1. Executed = {}
            BY <1>1, <1>3, <3>1, <3>3, <4>3 DEF OneIsExecuted
          <5> QED
            BY <2>2, <4>2, <5>1 DEF OneIsExecuted
        <4>4. CASE c.kind = "confirm"
          <5>1. payModal.stage = "paying" /\ payModal'.quote = payModal.quote
            BY <1>1, <1>3, <3>1, <4>4 DEF PaymentsAreDrawn, PayTyped
          <5> QED
            BY <1>3, <2>2, <2>4, <3>1, <4>2, <5>1 DEF OneIsExecuted
        <4> QED
          BY <1>1, <4>3, <4>4 DEF PayRecords
      <3> QED
        BY <3>2, <3>3
    <2> QED
      BY <2>1, <2>3, <2>6, <2>7
  <1> QED
    BY <1>2, <1>3 DEF PayAnswer, Priced, Paid, IsDrawn

LEMMA CallIsLost ==
  ASSUME PInv, LosePay
  PROVE  PInv'
  <1> USE DEF PInv
  <1>1. UNCHANGED <<runs, payModal, openings, escaped, elsewhere>>
    BY DEF LosePay
  <1>2. RunsPriced' = RunsPriced /\ Executed' = Executed
    BY <1>1 DEF RunsPriced, Executed
  <1>3. CASE UNCHANGED payCalls
    BY <1>1, <1>2, <1>3
       DEF PayTyped, PayRecords, PricesAreAskedFor, PricesAsked, PreviewsAreOnce, PaymentsAreDrawn,
           OneIsExecuted
  <1>4. ASSUME NEW c \in payCalls,
               payCalls' = (payCalls \ {c}) \union {[c EXCEPT !.at = "answered", !.ok = FALSE]}
        PROVE  PInv'
    <2> DEFINE d == [c EXCEPT !.at = "answered", !.ok = FALSE]
    <2>1. PayAnswers(c, d) /\ ~d.ok
      BY <1>4 DEF PayAnswers, PayRecords, PayTyped
    <2>2. PayTyped'
      BY <1>1, <2>1, AnsweredInPlace DEF PayTyped
    <2>3. PricesAreAskedFor'
      BY <1>1, <1>2, <2>1, <2>2, AnsweredInPlace, FewerPrices
    <2>4. OneIsExecuted => OneIsExecuted'
      BY <1>1, <1>2, <2>1 DEF OneIsExecuted, PayAnswers
    <2> QED
      BY <1>1, <2>1, <2>2, <2>3, <2>4, AnsweredInPlace
  <1> QED
    BY <1>3, <1>4 DEF LosePay

LEMMA PaidElsewhere ==
  ASSUME PInv, NEW q \in Quotes, ApproveAtTheBank(q)
  PROVE  PInv'
  <1>1. /\ runs' \in [Quotes -> {"none", "pending", "executed"}] /\ elsewhere'
        /\ RunsPriced' = RunsPriced /\ UNCHANGED <<payCalls, payModal, openings>>
    BY DEF PInv, PayTyped, ApproveAtTheBank, RunsPriced
  <1> QED
    BY <1>1 DEF PInv, PayTyped, PayRecords, PricesAreAskedFor, PricesAsked, PreviewsAreOnce

LEMMA PayStands ==
  ASSUME PInv, UNCHANGED <<runs, payCalls, payModal, openings, escaped, elsewhere>>
  PROVE  PInv'
  BY DEF PInv, PayTyped, PayRecords, PricesAreAskedFor, PricesAsked, RunsPriced, PreviewsAreOnce,
         PaymentsAreDrawn, OneIsExecuted, Executed

LEMMA PayStep ==
  ASSUME PInv, [PayNext]_payVars
  PROVE  PInv'
  <1>1. CASE OpenPay \/ ClosePay
    BY <1>1, DialogIsDrawn DEF OpenPay, ClosePay
  <1>2. CASE \E s \in PayReloads : Reloaded(s)
    <2>1. PICK s \in PayReloads : Reloaded(s)
      BY <1>2
    <2>2. payModal.wanted \in BOOLEAN
      BY DEF PInv, PayTyped
    <2> QED
      BY <2>1, <2>2, DialogIsDrawn DEF Reloaded
  <1>3. CASE SwitchLanguage \/ UNCHANGED payVars \/
            \E s \in PayReloads : ServeReload(s) \/ HearNews(s) \/ ReadAgain(s)
    BY <1>3, PayStands DEF SwitchLanguage, payVars, ServeReload, HearNews, ReadAgain
  <1>4. CASE \E c \in payCalls : ServePay(c)
    BY <1>4, RunIsPriced, PaymentIsServed DEF ServePay
  <1> QED
    BY <1>1, <1>2, <1>3, <1>4, PayIsPressed, AnswerIsTaken, CallIsLost, PaidElsewhere DEF PayNext

LEMMA PayIsPricedOnce ==
  ASSUME PInv
  PROVE  PricedOncePerOpening
  <1>1. Cardinality(RunsPriced) <= openings
    BY PricesAreFinite DEF PInv, PricesAreAskedFor, PayTyped
  <1>2. ASSUME \A p, q \in Executed : p = q
        PROVE  Cardinality(Executed) <= 1
    <2>1. CASE Executed = {}
      <3>1. Cardinality({}) = 0
        BY FS_EmptySet
      <3> QED
        BY <2>1, <3>1
    <2>2. CASE Executed # {}
      <3>1. PICK q : Executed = {q}
        BY <1>2, <2>2
      <3> QED
        <4>1. Cardinality({q}) = 1
          BY FS_Singleton
        <4> QED
          BY <3>1, <4>1
    <2> QED
      BY <2>1, <2>2
  <1> QED
    BY <1>1, <1>2 DEF PInv, OneIsExecuted, PricedOncePerOpening, RunsPriced

-----------------------------------------------------------------------------
\* PayDialog, at rest.  The page says a month is paid once it is, and not before.

ReloadTyped ==
  /\ shownRun \in {"none", "owed", "paid"} /\ news \in Nat /\ payLost \in Nat
  /\ overtaken \in BOOLEAN
  /\ reloads \in [PayReloads -> [at : {"idle", "sent", "answered", "failed"},
                                 status : {"none", "owed", "paid"}]]

\* One notification a run executed.
NewsAreOfRuns == news <= Cardinality(Executed)

\* What says paid is right, and what says a run was priced or executed is too.
PaidIsTrue ==
  /\ shownRun = "paid" \/ payModal.stage = "paid" => Executed # {}
  /\ \A s \in PayReloads : reloads[s].status = "paid" => Executed # {}
  /\ \A s \in PayReloads : reloads[s].at = "answered" => reloads[s].status # "none"
  /\ \A c \in payCalls : c.ok =>
       IF c.kind = "preview" THEN c.status = "owed" ELSE c.status = "paid" /\ Executed # {}

\* What will tell the page that the month is paid.
TellsPaid(s) ==
  reloads[s].at = "sent" \/ (reloads[s].at = "answered" /\ reloads[s].status = "paid")

\* The page shows nothing until a load is in, or after one was lost; and unless an
\* answer was overtaken, the month is shown paid once it is, or a load or a
\* notification is on its way.
PageIsTold ==
  /\ \A s \in PayReloads : reloads[s].at = "failed" => payLost > 0
  /\ shownRun = "none" => payLost > 0 \/ \E s \in PayReloads : reloads[s].at # "idle"
  /\ ~overtaken /\ Executed # {} /\ shownRun # "paid"
       => news > 0 \/ \E s \in PayReloads : TellsPaid(s)

\* What is priced, and paid, is a run of the bank.
QuotesAreReal ==
  /\ payModal.stage # "pricing" => payModal.quote \in Quotes
  /\ \A c \in payCalls : c.kind = "confirm" \/ c.ok => c.quote \in Quotes

QInv == ReloadTyped /\ NewsAreOfRuns /\ PaidIsTrue /\ PageIsTold
-----------------------------------------------------------------------------
LEMMA ExecutedAre ==
  ASSUME PayTyped
  PROVE  /\ IsFiniteSet(Executed) /\ Cardinality(Executed) \in Nat
         /\ Cardinality(Executed) <= Cardinality(Quotes) /\ Cardinality(Quotes) \in Nat
  <1>1. Executed \subseteq Quotes
    BY DEF Executed
  <1> QED
    BY <1>1, PayAssumption, FS_Subset, FS_CardinalityType

LEMMA PageOpens ==
  ASSUME PayInit
  PROVE  QInv
  <1>1. /\ shownRun = "none" /\ payModal.stage = "pricing" /\ payCalls = {} /\ news = 0
        /\ overtaken = FALSE /\ payLost = 0
    BY DEF PayInit, NoDialogDrawn
  <1>2. PICK first \in PayReloads :
          reloads = [s \in PayReloads |-> [NoReload EXCEPT !.at = IF s = first THEN "sent" ELSE "idle"]]
    BY PayAssumption DEF PayInit
  <1>3. \A s \in PayReloads : /\ reloads[s] = [at |-> IF s = first THEN "sent" ELSE "idle", status |-> "none"]
    BY <1>2 DEF NoReload
  <1>4. ReloadTyped
    <2>1. reloads = [s \in PayReloads |-> [at |-> IF s = first THEN "sent" ELSE "idle", status |-> "none"]]
      BY <1>2 DEF NoReload
    <2> QED
      BY <1>1, <2>1 DEF ReloadTyped
  <1>5. runs \in [Quotes -> {"none", "pending", "executed"}] /\ Executed = {}
    BY DEF PayInit, Executed
  <1>6. NewsAreOfRuns
    BY <1>1, <1>5, FS_EmptySet DEF NewsAreOfRuns
  <1>7. PaidIsTrue
    <2>1. \A s \in PayReloads : reloads[s].at # "answered" /\ reloads[s].status = "none"
      <3>1. ASSUME NEW s \in PayReloads PROVE reloads[s].at # "answered" /\ reloads[s].status = "none"
        <4>1. PICK at \in {"sent", "idle"} : reloads[s] = [at |-> at, status |-> "none"]
          BY <1>3
        <4> QED
          BY <4>1
      <3> QED
        BY <3>1
    <2> QED
      BY <1>1, <2>1 DEF PaidIsTrue
  <1>8. PageIsTold
    BY <1>1, <1>2, <1>3, <1>5 DEF PageIsTold
  <1> QED
    BY <1>4, <1>6, <1>7, <1>8 DEF QInv

\* What leaves the month, the loads and the notifications alone.
LEMMA PageStands ==
  ASSUME QInv, runs' = runs, UNCHANGED <<shownRun, reloads, news, overtaken>>,
         payLost' \in {payLost, payLost + 1},
         payModal'.stage = "paid" => payModal.stage = "paid",
         \A c \in payCalls' : c.ok => c \in payCalls
  PROVE  QInv'
  <1>1. Executed' = Executed
    BY DEF Executed
  <1>2. ReloadTyped' /\ NewsAreOfRuns'
    BY <1>1 DEF QInv, ReloadTyped, NewsAreOfRuns
  <1>3. PaidIsTrue'
    BY <1>1 DEF QInv, PaidIsTrue
  <1>4. payLost > 0 => payLost' > 0
    BY DEF QInv, ReloadTyped
  <1>5. PageIsTold'
    BY <1>1, <1>4 DEF QInv, PageIsTold, TellsPaid
  <1> QED
    BY <1>2, <1>3, <1>5 DEF QInv

\* The dialog appears or goes as a new status is shown.
LEMMA DrawnIsNotPaid ==
  ASSUME PayTyped, NEW wanted, NEW status, NEW asking, asking \subseteq payCalls,
         Drawn(wanted, status, asking)
  PROVE  /\ payModal'.stage = "paid" => payModal.stage = "paid"
         /\ \A c \in payCalls' : c.ok => c \in asking
  <1>1. CASE wanted /\ status # "none" /\ payModal.opening = 0
    <2>1. /\ payModal' = [NoDialogDrawn EXCEPT !.wanted = TRUE, !.opening = openings + 1]
          /\ payCalls' = asking \union {ToServer("preview", 0, openings + 1)}
      BY <1>1 DEF Drawn
    <2>2. payModal'.stage = "pricing" /\ ~ToServer("preview", 0, openings + 1).ok
      BY <2>1 DEF NoDialogDrawn, ToServer
    <2> QED
      BY <2>1, <2>2
  <1>2. CASE ~(wanted /\ status # "none" /\ payModal.opening = 0)
    <2>1. /\ payCalls' = asking
          /\ payModal' = payModal \/ payModal' = [NoDialogDrawn EXCEPT !.wanted = wanted]
      BY <1>2 DEF Drawn
    <2>2. [NoDialogDrawn EXCEPT !.wanted = wanted].stage = "pricing"
      BY DEF NoDialogDrawn
    <2> QED
      BY <2>1, <2>2
  <1> QED
    BY <1>1, <1>2

LEMMA RunIsExecuted ==
  ASSUME PayTyped, NEW q \in Quotes, runs[q] = "pending", runs' = [runs EXCEPT ![q] = "executed"]
  PROVE  /\ Executed \subseteq Executed' /\ Executed' # {}
         /\ Cardinality(Executed') = Cardinality(Executed) + 1
  <1>1. Executed' = Executed \union {q} /\ q \notin Executed
    BY DEF PayTyped, Executed
  <1> QED
    BY <1>1, ExecutedAre, FS_AddElement

\* A run executed is notified.
LEMMA PageHasNews ==
  ASSUME PInv, QInv, NEW q \in Quotes, runs[q] = "pending",
         runs' = [runs EXCEPT ![q] = "executed"], news' = news + 1,
         UNCHANGED <<shownRun, payModal, reloads, overtaken, payLost>>,
         \A c \in payCalls' : c.ok => c \in payCalls \/ (c.kind # "preview" /\ c.status = "paid")
  PROVE  QInv'
  <1>1. /\ Executed' # {} /\ Cardinality(Executed') = Cardinality(Executed) + 1
        /\ Cardinality(Executed) \in Nat /\ news \in Nat
    BY RunIsExecuted, ExecutedAre DEF PInv, QInv, ReloadTyped
  <1>2. ReloadTyped'
    BY <1>1 DEF QInv, ReloadTyped
  <1>3. NewsAreOfRuns'
    BY <1>1 DEF QInv, NewsAreOfRuns
  <1>4. PaidIsTrue'
    BY <1>1 DEF QInv, PaidIsTrue
  <1>5. news' > 0
    BY <1>1
  <1>6. PageIsTold'
    BY <1>5 DEF QInv, PageIsTold
  <1> QED
    BY <1>2, <1>3, <1>4, <1>6 DEF QInv

LEMMA PageIsServed ==
  ASSUME PInv, QInv, QuotesAreReal, NEW c, ServePay(c)
  PROVE  QInv'
  <1>1. c \in payCalls /\ c \in PayRecords
        /\ UNCHANGED <<shownRun, payModal, reloads, overtaken, payLost>>
    BY DEF ServePay, PInv, PayTyped
  <1>2. CASE Preview(c)
    <2>1. CASE Owed = "paid" /\ UNCHANGED runs /\ Replies(c, FALSE)
      <3> DEFINE d == [c EXCEPT !.at = "answered", !.ok = FALSE,
                                !.status = IF Executed' = {} THEN "owed" ELSE "paid"]
      <3>1. ~d.ok
        BY <1>1 DEF PayRecords
      <3>2. payCalls' = (payCalls \ {c}) \union {d}
        BY <2>1 DEF Replies
      <3> HIDE DEF d
      <3> QED
        BY <1>1, <1>2, <2>1, <3>1, <3>2, PageStands DEF Preview
    <2>2. ASSUME NEW q \in Quotes, runs[q] = "none", runs' = [runs EXCEPT ![q] = "pending"],
                 payCalls' = (payCalls \ {c})
                   \union {[c EXCEPT !.at = "answered", !.ok = TRUE, !.quote = q, !.status = "owed"]}
          PROVE  QInv'
      <3>1. Executed' = Executed /\ news' = news
        BY <1>2, <2>2 DEF Executed, PInv, PayTyped, Preview
      <3> DEFINE d == [c EXCEPT !.at = "answered", !.ok = TRUE, !.quote = q, !.status = "owed"]
      <3>2. payCalls' = (payCalls \ {c}) \union {d}
        BY <2>2
      <3>3. d.kind = "preview" /\ d.status = "owed"
        BY <1>1, <1>2 DEF PayRecords, Preview
      <3> HIDE DEF d
      <3>4. ReloadTyped' /\ NewsAreOfRuns'
        BY <1>1, <3>1 DEF QInv, ReloadTyped, NewsAreOfRuns
      <3>5. PaidIsTrue'
        BY <1>1, <3>1, <3>2, <3>3 DEF QInv, PaidIsTrue
      <3>6. PageIsTold'
        BY <1>1, <3>1 DEF QInv, PageIsTold, TellsPaid
      <3> QED
        BY <3>4, <3>5, <3>6 DEF QInv
    <2> QED
      BY <1>2, <2>1, <2>2 DEF Preview
  <1>3. CASE Confirm(c)
    <2>1. PICK ok \in BOOLEAN :
            /\ Replies(c, ok) /\ c.kind = "confirm"
            /\ IF ok THEN /\ runs[c.quote] = "pending" /\ news' = news + 1
                          /\ runs' = [runs EXCEPT ![c.quote] = "executed"]
                     ELSE UNCHANGED <<runs, news>>
      BY <1>3 DEF Confirm
    <2>2. PICK status : status = IF Executed' = {} THEN "owed" ELSE "paid"
      OBVIOUS
    <2> DEFINE d == [c EXCEPT !.at = "answered", !.ok = ok, !.status = status]
    <2>3. payCalls' = (payCalls \ {c}) \union {d}
      BY <2>1, <2>2 DEF Replies
    <2>4. d.ok = ok /\ d.status = status /\ d.kind = "confirm"
      BY <1>1, <2>1 DEF PayRecords
    <2> HIDE DEF d
    <2>5. CASE ~ok
      BY <1>1, <2>1, <2>3, <2>4, <2>5, PageStands
    <2>6. CASE ok
      <3>1. c.quote \in Quotes
        BY <1>1, <2>1 DEF QuotesAreReal
      <3>2. status = "paid"
        BY <2>1, <2>2, <2>6, <3>1, RunIsExecuted DEF PInv
      <3> QED
        BY <1>1, <2>1, <2>3, <2>4, <2>6, <3>1, <3>2, PageHasNews
    <2> QED
      BY <2>5, <2>6
  <1> QED
    BY <1>2, <1>3 DEF ServePay

LEMMA QuotesStart ==
  ASSUME PayInit
  PROVE  QuotesAreReal
  BY DEF PayInit, QuotesAreReal, NoDialogDrawn

LEMMA QuotesStay ==
  ASSUME PInv, QuotesAreReal, [PayNext]_payVars
  PROVE  QuotesAreReal'
  <1>1. ASSUME NEW wanted, NEW status, NEW asking, asking \subseteq payCalls,
               Drawn(wanted, status, asking)
        PROVE  QuotesAreReal'
    <2>1. CASE wanted /\ status # "none" /\ payModal.opening = 0
      <3>1. /\ payModal' = [NoDialogDrawn EXCEPT !.wanted = TRUE, !.opening = openings + 1]
            /\ payCalls' = asking \union {ToServer("preview", 0, openings + 1)}
        BY <1>1, <2>1 DEF Drawn
      <3>2. /\ payModal'.stage = "pricing" /\ ~ToServer("preview", 0, openings + 1).ok
            /\ ToServer("preview", 0, openings + 1).kind = "preview"
        BY <3>1 DEF NoDialogDrawn, ToServer
      <3> QED
        BY <1>1, <3>1, <3>2 DEF QuotesAreReal
    <2>2. CASE ~(wanted /\ status # "none" /\ payModal.opening = 0)
      <3>1. /\ payCalls' = asking
            /\ payModal' = payModal \/ payModal' = [NoDialogDrawn EXCEPT !.wanted = wanted]
        BY <1>1, <2>2 DEF Drawn
      <3>2. [NoDialogDrawn EXCEPT !.wanted = wanted].stage = "pricing"
        BY DEF NoDialogDrawn
      <3> QED
        BY <1>1, <3>1, <3>2 DEF QuotesAreReal
    <2> QED
      BY <2>1, <2>2
  <1>2. CASE UNCHANGED <<payModal, payCalls>>
    BY <1>2 DEF QuotesAreReal
  <1>3. CASE OpenPay \/ ClosePay
    BY <1>1, <1>3 DEF OpenPay, ClosePay
  <1>4. CASE Pay
    <2> DEFINE request == ToServer("confirm", payModal.quote, payModal.opening)
    <2>1. /\ payModal.stage = "ready" /\ payCalls' = payCalls \union {request}
          /\ payModal' = [payModal EXCEPT !.stage = "paying"]
      BY <1>4 DEF Pay
    <2>2. request.quote = payModal.quote
      BY DEF ToServer
    <2>3. payModal'.quote = payModal.quote
      BY <2>1 DEF PInv, PayTyped
    <2> HIDE DEF request
    <2> QED
      BY <2>1, <2>2, <2>3 DEF QuotesAreReal
  <1>5. CASE LosePay
    <2>1. ASSUME NEW c \in payCalls,
                 payCalls' = (payCalls \ {c}) \union {[c EXCEPT !.at = "answered", !.ok = FALSE]}
          PROVE  QuotesAreReal'
      <3> DEFINE d == [c EXCEPT !.at = "answered", !.ok = FALSE]
      <3>1. d.kind = c.kind /\ ~d.ok /\ d.quote = c.quote
        BY DEF PInv, PayTyped, PayRecords
      <3>2. payCalls' = (payCalls \ {c}) \union {d} /\ payModal' = payModal
        BY <1>5, <2>1 DEF LosePay
      <3> HIDE DEF d
      <3> QED
        BY <3>1, <3>2 DEF QuotesAreReal
    <2> QED
      BY <1>2, <1>5, <2>1 DEF LosePay
  <1>6. ASSUME NEW q \in Quotes, ApproveAtTheBank(q) PROVE QuotesAreReal'
    BY <1>2, <1>6 DEF ApproveAtTheBank
  <1>7. ASSUME NEW c \in payCalls, ServePay(c) PROVE QuotesAreReal'
    <2>1. c \in PayRecords /\ payModal' = payModal
      BY <1>7 DEF PInv, PayTyped, ServePay
    <2>2. ASSUME NEW ok \in BOOLEAN, NEW status,
                 payCalls' = (payCalls \ {c}) \union {[c EXCEPT !.at = "answered", !.ok = ok, !.status = status]},
                 c.kind = "confirm" \/ ~ok
          PROVE  QuotesAreReal'
      <3> DEFINE d == [c EXCEPT !.at = "answered", !.ok = ok, !.status = status]
      <3>1. d.kind = c.kind /\ d.ok = ok /\ d.quote = c.quote
        BY <2>1 DEF PayRecords
      <3>2. payCalls' = (payCalls \ {c}) \union {d}
        BY <2>2
      <3> HIDE DEF d
      <3> QED
        BY <2>1, <2>2, <3>1, <3>2 DEF QuotesAreReal
    <2>3. ASSUME NEW q \in Quotes, c.kind = "preview",
                 payCalls' = (payCalls \ {c})
                   \union {[c EXCEPT !.at = "answered", !.ok = TRUE, !.quote = q, !.status = "owed"]}
          PROVE  QuotesAreReal'
      <3> DEFINE d == [c EXCEPT !.at = "answered", !.ok = TRUE, !.quote = q, !.status = "owed"]
      <3>1. d.quote = q
        BY <2>1 DEF PayRecords
      <3>2. payCalls' = (payCalls \ {c}) \union {d}
        BY <2>3
      <3> HIDE DEF d
      <3> QED
        BY <2>1, <3>1, <3>2 DEF QuotesAreReal
    <2>4. CASE Preview(c)
      <3>1. CASE Replies(c, FALSE)
        BY <2>2, <3>1 DEF Replies
      <3> QED
        BY <2>3, <2>4, <3>1 DEF Preview
    <2>5. CASE Confirm(c)
      <3>1. PICK ok \in BOOLEAN : Replies(c, ok) /\ c.kind = "confirm"
        BY <2>5 DEF Confirm
      <3> QED
        BY <2>2, <3>1 DEF Replies
    <2> QED
      BY <1>7, <2>4, <2>5 DEF ServePay
  <1>8. ASSUME NEW c \in payCalls, PayAnswer(c) PROVE QuotesAreReal'
    <2>1. CASE Drawn(payModal.wanted, shownRun', payCalls \ {c})
      BY <1>1, <2>1
    <2>2. CASE payModal' = payModal /\ payCalls' = payCalls \ {c}
      BY <2>2 DEF QuotesAreReal
    <2>3. CASE /\ c.ok /\ payModal' = [payModal EXCEPT !.stage = "ready", !.quote = c.quote]
               /\ payCalls' = payCalls \ {c}
      <3>1. payModal'.quote = c.quote
        BY <2>3 DEF PInv, PayTyped
      <3> QED
        BY <2>3, <3>1 DEF QuotesAreReal
    <2>4. ASSUME c.kind = "confirm", payModal.opening = c.opening, payCalls' = payCalls \ {c},
                 NEW stage \in {"ready", "paid"}, payModal' = [payModal EXCEPT !.stage = stage]
          PROVE  QuotesAreReal'
      <3>1. payModal.stage # "pricing"
        BY <2>4 DEF PInv, PreviewsAreOnce
      <3>2. payModal'.quote = payModal.quote
        BY <2>4 DEF PInv, PayTyped
      <3> QED
        BY <2>4, <3>1, <3>2 DEF QuotesAreReal
    <2>5. CASE Priced(c)
      BY <2>1, <2>2, <2>3, <2>5 DEF Priced
    <2>6. CASE Paid(c)
      BY <2>1, <2>2, <2>4, <2>6 DEF Paid, IsDrawn
    <2> QED
      BY <1>8, <2>5, <2>6 DEF PayAnswer
  <1>9. ASSUME NEW s \in PayReloads,
               ServeReload(s) \/ Reloaded(s) \/ HearNews(s) \/ ReadAgain(s)
        PROVE  QuotesAreReal'
    <2>1. CASE Reloaded(s)
      BY <1>1, <2>1 DEF Reloaded
    <2> QED
      BY <1>2, <1>9, <2>1 DEF ServeReload, HearNews, ReadAgain
  <1> QED
    BY <1>2, <1>3, <1>4, <1>5, <1>6, <1>7, <1>8, <1>9 DEF PayNext, payVars, SwitchLanguage

\* A load begins, and is served.
LEMMA LoadChanges ==
  ASSUME ReloadTyped, NEW s \in PayReloads, NEW l,
         l \in [at : {"idle", "sent", "answered", "failed"}, status : {"none", "owed", "paid"}],
         reloads' = [reloads EXCEPT ![s] = l]
  PROVE  /\ reloads' \in [PayReloads -> [at : {"idle", "sent", "answered", "failed"},
                                         status : {"none", "owed", "paid"}]]
         /\ reloads'[s] = l /\ \A x \in PayReloads : x # s => reloads'[x] = reloads[x]
  BY DEF ReloadTyped

LEMMA LoadBegins ==
  ASSUME ReloadTyped, NEW s \in PayReloads, StartsReload(s)
  PROVE  /\ reloads' \in [PayReloads -> [at : {"idle", "sent", "answered", "failed"},
                                         status : {"none", "owed", "paid"}]]
         /\ reloads'[s].at = "sent" /\ reloads'[s].status = "none"
         /\ \A x \in PayReloads : x # s => reloads'[x] = reloads[x]
  <1>1. [NoReload EXCEPT !.at = "sent"] = [at |-> "sent", status |-> "none"]
    BY DEF NoReload
  <1>2. reloads' = [reloads EXCEPT ![s] = [at |-> "sent", status |-> "none"]]
    BY <1>1 DEF StartsReload
  <1> QED
    BY <1>2, LoadChanges

LEMMA NewsIsHeard ==
  ASSUME QInv, NEW s \in PayReloads, HearNews(s)
  PROVE  QInv'
  <1>1. /\ news > 0 /\ news' = news - 1 /\ reloads[s].at = "idle" /\ StartsReload(s)
        /\ UNCHANGED <<runs, shownRun, payModal, payCalls, overtaken, payLost>>
    BY DEF HearNews
  <1>2. news \in Nat /\ news' \in Nat /\ Executed' = Executed
    BY <1>1 DEF QInv, ReloadTyped, Executed
  <1>3. ReloadTyped'
    BY <1>1, <1>2, LoadBegins DEF QInv, ReloadTyped
  <1>4. NewsAreOfRuns'
    <2>1. IsFiniteSet(Quotes) /\ Executed \subseteq Quotes
      BY PayAssumption DEF Executed
    <2>2. Cardinality(Executed) \in Nat
      BY <2>1, FS_Subset, FS_CardinalityType
    <2> QED
      BY <1>1, <1>2, <2>2 DEF QInv, NewsAreOfRuns
  <1>5. PaidIsTrue'
    BY <1>1, <1>2, LoadBegins DEF QInv, PaidIsTrue
  <1>6. PageIsTold'
    BY <1>1, <1>2, LoadBegins DEF QInv, PageIsTold, TellsPaid
  <1> QED
    BY <1>3, <1>4, <1>5, <1>6 DEF QInv

LEMMA LoadIsAsked ==
  ASSUME QInv, NEW s \in PayReloads, ReadAgain(s)
  PROVE  QInv'
  <1>1. /\ reloads[s].at = "idle" /\ StartsReload(s)
        /\ UNCHANGED <<runs, shownRun, payModal, payCalls, news, overtaken, payLost>>
    BY DEF ReadAgain
  <1>2. Executed' = Executed
    BY <1>1 DEF Executed
  <1>3. ReloadTyped' /\ NewsAreOfRuns'
    BY <1>1, <1>2, LoadBegins DEF QInv, ReloadTyped, NewsAreOfRuns
  <1>4. PaidIsTrue'
    BY <1>1, <1>2, LoadBegins DEF QInv, PaidIsTrue
  <1>5. PageIsTold'
    BY <1>1, <1>2, LoadBegins DEF QInv, PageIsTold, TellsPaid
  <1> QED
    BY <1>3, <1>4, <1>5 DEF QInv

LEMMA LoadIsServed ==
  ASSUME QInv, NEW s \in PayReloads, ServeReload(s)
  PROVE  QInv'
  <1>1. /\ reloads[s].at = "sent" /\ reloads' = [reloads EXCEPT ![s] = [at |-> "answered", status |-> Owed]]
        /\ UNCHANGED <<runs, shownRun, payModal, payCalls, news, overtaken, payLost>>
    BY DEF ServeReload
  <1>2. Executed' = Executed /\ Owed \in {"owed", "paid"} /\ (Owed = "paid" <=> Executed # {})
    BY <1>1 DEF Executed, Owed
  <1>3. /\ reloads' \in [PayReloads -> [at : {"idle", "sent", "answered", "failed"},
                                         status : {"none", "owed", "paid"}]]
        /\ reloads'[s] = [at |-> "answered", status |-> Owed]
        /\ \A x \in PayReloads : x # s => reloads'[x] = reloads[x]
    BY <1>1, <1>2, LoadChanges DEF QInv
  <1>4. ReloadTyped' /\ NewsAreOfRuns'
    BY <1>1, <1>2, <1>3 DEF QInv, ReloadTyped, NewsAreOfRuns
  <1>5. PaidIsTrue'
    BY <1>1, <1>2, <1>3 DEF QInv, PaidIsTrue
  <1>6. PageIsTold'
    BY <1>1, <1>2, <1>3 DEF QInv, PageIsTold, TellsPaid
  <1> QED
    BY <1>4, <1>5, <1>6 DEF QInv

LEMMA LoadIsShown ==
  ASSUME PInv, QInv, NEW s \in PayReloads, Reloaded(s)
  PROVE  QInv'
  <1>1. /\ reloads[s].at \in {"answered", "failed"} /\ shownRun' = reloads[s].status
        /\ reloads' = [reloads EXCEPT ![s] = NoReload] /\ UNCHANGED <<runs, news, payLost>>
        /\ overtaken' = (shownRun' # "paid" /\ (overtaken \/ shownRun = "paid"))
        /\ Drawn(payModal.wanted, shownRun', payCalls)
    BY DEF Reloaded, Overtakes
  <1>2. Executed' = Executed
    BY <1>1 DEF Executed
  <1>3. /\ reloads' \in [PayReloads -> [at : {"idle", "sent", "answered", "failed"},
                                         status : {"none", "owed", "paid"}]]
        /\ reloads'[s].at = "idle" /\ reloads'[s].status = "none"
        /\ \A x \in PayReloads : x # s => reloads'[x] = reloads[x]
    BY <1>1, LoadChanges DEF QInv, NoReload
  <1>4. /\ payModal'.stage = "paid" => payModal.stage = "paid"
        /\ \A c \in payCalls' : c.ok => c \in payCalls
    BY <1>1, DrawnIsNotPaid DEF PInv
  <1>5. ReloadTyped' /\ NewsAreOfRuns'
    BY <1>1, <1>2, <1>3 DEF QInv, ReloadTyped, NewsAreOfRuns
  <1>6. PaidIsTrue'
    BY <1>1, <1>2, <1>3, <1>4 DEF QInv, PaidIsTrue
  <1>7. PageIsTold'
    <2>1. shownRun' = "none" => reloads[s].at = "failed" /\ payLost > 0
      BY <1>1 DEF QInv, PageIsTold, PaidIsTrue
    <2>2. ASSUME ~overtaken', Executed # {}, shownRun' # "paid"
          PROVE  news > 0 \/ \E x \in PayReloads : x # s /\ TellsPaid(x)
      <3>1. ~overtaken /\ shownRun # "paid" /\ reloads[s].status # "paid"
        BY <1>1, <2>2
      <3>2. ~TellsPaid(s)
        BY <1>1, <3>1 DEF TellsPaid
      <3> QED
        BY <2>2, <3>1, <3>2 DEF QInv, PageIsTold
    <2>3. \A x \in PayReloads : x # s /\ TellsPaid(x) => TellsPaid(x)'
      BY <1>3 DEF TellsPaid
    <2>4. \A x \in PayReloads : reloads'[x].at = "failed" => payLost' > 0
      BY <1>1, <1>3 DEF QInv, PageIsTold
    <2> QED
      BY <1>1, <1>2, <2>1, <2>2, <2>3, <2>4 DEF PageIsTold
  <1> QED
    BY <1>5, <1>6, <1>7 DEF QInv

LEMMA ReloadIsShown ==
  ASSUME PInv, QInv, NEW c \in payCalls, PayAnswer(c)
  PROVE  QInv'
  <1>1. UNCHANGED <<runs, news, payLost>> /\ Executed' = Executed /\ c \in PayRecords
    BY DEF PayAnswer, Executed, PInv, PayTyped
  <1>2. CASE ~c.ok
    <2>1. payCalls' = payCalls \ {c} /\ UNCHANGED <<shownRun, reloads, overtaken>>
      BY <1>2 DEF PayAnswer, Priced, Paid
    <2>2. payModal'.stage = "paid" => payModal.stage = "paid"
      BY <1>2 DEF PayAnswer, Priced, Paid, PInv, PayTyped
    <2> QED
      BY <1>1, <2>1, <2>2, PageStands
  <1>3. CASE c.ok /\ c.kind = "preview"
    <2>1. /\ shownRun' = c.status /\ c.status = "owed" /\ UNCHANGED reloads
          /\ overtaken' = (overtaken \/ shownRun = "paid")
      BY <1>3 DEF PayAnswer, Priced, Paid, Overtakes, QInv, PaidIsTrue
    <2>2. /\ payModal'.stage = "paid" => payModal.stage = "paid"
          /\ \A d \in payCalls' : d.ok => d \in payCalls
      <3>1. CASE Drawn(payModal.wanted, shownRun', payCalls \ {c})
        BY <3>1, DrawnIsNotPaid DEF PInv
      <3>2. CASE /\ payModal' = [payModal EXCEPT !.stage = "ready", !.quote = c.quote]
                 /\ payCalls' = payCalls \ {c}
        BY <3>2 DEF PInv, PayTyped
      <3> QED
        BY <1>3, <3>1, <3>2 DEF PayAnswer, Priced, Paid
    <2>3. ReloadTyped' /\ NewsAreOfRuns'
      BY <1>1, <2>1 DEF QInv, ReloadTyped, NewsAreOfRuns
    <2>4. PaidIsTrue'
      BY <1>1, <2>1, <2>2 DEF QInv, PaidIsTrue
    <2>5. PageIsTold'
      BY <1>1, <2>1 DEF QInv, PageIsTold, TellsPaid
    <2> QED
      BY <2>3, <2>4, <2>5 DEF QInv
  <1>4. CASE c.ok /\ c.kind = "confirm"
    <2>1. shownRun' = c.status /\ c.status = "paid" /\ Executed # {} /\ overtaken' = FALSE
      BY <1>4 DEF PayAnswer, Priced, Paid, Overtakes, QInv, PaidIsTrue
    <2>2. PICK s \in PayReloads : reloads[s].at = "idle" /\ StartsReload(s)
      BY <1>4 DEF PayAnswer, Priced, Paid
    <2>3. \A d \in payCalls' : d.ok => d \in payCalls
      <3>1. CASE Drawn(payModal.wanted, shownRun', payCalls \ {c})
        BY <3>1, DrawnIsNotPaid DEF PInv
      <3> QED
        BY <1>4, <3>1 DEF PayAnswer, Priced, Paid
    <2>4. ReloadTyped' /\ NewsAreOfRuns'
      BY <1>1, <2>1, <2>2, LoadBegins DEF QInv, ReloadTyped, NewsAreOfRuns
    <2>5. PaidIsTrue'
      BY <1>1, <2>1, <2>2, <2>3, LoadBegins DEF QInv, PaidIsTrue
    <2>6. PageIsTold'
      BY <1>1, <2>1, <2>2, LoadBegins DEF QInv, PageIsTold, TellsPaid
    <2> QED
      BY <2>4, <2>5, <2>6 DEF QInv
  <1> QED
    BY <1>1, <1>2, <1>3, <1>4 DEF PayRecords

LEMMA PageLosesOne ==
  ASSUME PInv, QInv, LosePay
  PROVE  QInv'
  <1>1. /\ UNCHANGED <<runs, shownRun, payModal, news>> /\ Executed' = Executed
        /\ payLost' = payLost + 1 /\ payLost \in Nat
    BY DEF LosePay, Executed, QInv, ReloadTyped
  <1>2. ASSUME NEW c \in payCalls, UNCHANGED <<reloads, overtaken>>,
               payCalls' = (payCalls \ {c}) \union {[c EXCEPT !.at = "answered", !.ok = FALSE]}
        PROVE  QInv'
    <2> DEFINE d == [c EXCEPT !.at = "answered", !.ok = FALSE]
    <2>1. ~d.ok
      BY DEF PInv, PayTyped, PayRecords
    <2>2. payCalls' = (payCalls \ {c}) \union {d}
      BY <1>2
    <2> HIDE DEF d
    <2> QED
      BY <1>1, <1>2, <2>1, <2>2, PageStands
  <1>3. ASSUME NEW s \in PayReloads, overtaken' = (overtaken \/ Owed = "paid"), UNCHANGED payCalls,
               reloads' = [reloads EXCEPT ![s] = [at |-> "failed", status |-> "none"]]
        PROVE  QInv'
    <2>1. /\ reloads' \in [PayReloads -> [at : {"idle", "sent", "answered", "failed"},
                                           status : {"none", "owed", "paid"}]]
          /\ reloads'[s] = [at |-> "failed", status |-> "none"]
          /\ \A x \in PayReloads : x # s => reloads'[x] = reloads[x]
      BY <1>3, LoadChanges DEF QInv
    <2>2. ReloadTyped' /\ NewsAreOfRuns'
      BY <1>1, <1>3, <2>1 DEF QInv, ReloadTyped, NewsAreOfRuns
    <2>3. PaidIsTrue'
      BY <1>1, <1>3, <2>1 DEF QInv, PaidIsTrue
    <2>4. Executed # {} => overtaken'
      BY <1>3 DEF Owed
    <2>5. payLost' > 0
      BY <1>1
    <2>6. PageIsTold'
      BY <1>1, <2>4, <2>5 DEF PageIsTold
    <2> QED
      BY <2>2, <2>3, <2>6 DEF QInv
  <1> QED
    BY <1>2, <1>3 DEF LosePay

LEMMA PageGoesOn ==
  ASSUME PInv, QInv, QuotesAreReal, [PayNext]_payVars
  PROVE  QInv'
  <1>1. CASE UNCHANGED payVars \/ SwitchLanguage
    BY <1>1, PageStands DEF payVars, SwitchLanguage
  <1>2. CASE OpenPay \/ ClosePay
    BY <1>2, DrawnIsNotPaid, PageStands DEF OpenPay, ClosePay, PInv
  <1>3. CASE Pay
    <2> DEFINE request == ToServer("confirm", payModal.quote, payModal.opening)
    <2>1. payCalls' = payCalls \union {request} /\ payModal' = [payModal EXCEPT !.stage = "paying"]
          /\ runs' = runs /\ UNCHANGED <<shownRun, reloads, news, overtaken, payLost>>
      BY <1>3 DEF Pay
    <2>2. ~request.ok
      BY DEF ToServer
    <2>3. payModal'.stage = "paying"
      BY <2>1 DEF PInv, PayTyped
    <2> HIDE DEF request
    <2> QED
      BY <2>1, <2>2, <2>3, PageStands
  <1>4. ASSUME NEW q \in Quotes, ApproveAtTheBank(q) PROVE QInv'
    BY <1>4, PageHasNews DEF ApproveAtTheBank
  <1>5. ASSUME NEW c \in payCalls, ServePay(c) \/ PayAnswer(c) PROVE QInv'
    BY <1>5, PageIsServed, ReloadIsShown
  <1>6. ASSUME NEW s \in PayReloads,
                   ServeReload(s) \/ Reloaded(s) \/ HearNews(s) \/ ReadAgain(s)
        PROVE  QInv'
    BY <1>6, LoadIsServed, LoadIsShown, NewsIsHeard, LoadIsAsked
  <1> QED
    BY <1>1, <1>2, <1>3, <1>4, <1>5, <1>6, PageLosesOne DEF PayNext

LEMMA PageIsRight ==
  ASSUME PInv, QInv
  PROVE  PayTypeOK /\ PaySettles
  <1>1. news \in 0..Cardinality(Quotes)
    BY ExecutedAre DEF PInv, QInv, ReloadTyped, NewsAreOfRuns
  <1>2. PayTypeOK
    BY <1>1 DEF PayTypeOK, PInv, PayTyped, QInv, ReloadTyped
  <1>3. PaySettles
    <2>1. ASSUME payCalls = {}, news = 0, \A s \in PayReloads : reloads[s].at = "idle"
          PROVE  IF shownRun = "none" THEN payLost > 0 ELSE shownRun = Owed \/ overtaken
      <3>1. shownRun = "none" => payLost > 0
        BY <2>1 DEF QInv, PageIsTold
      <3>2. \A s \in PayReloads : ~TellsPaid(s)
        BY <2>1 DEF TellsPaid
      <3> QED
        BY <2>1, <3>1, <3>2 DEF QInv, PageIsTold, ReloadTyped, PaidIsTrue, Owed
    <2>2. payModal.stage = "paid" => Owed = "paid"
      BY DEF QInv, PaidIsTrue, Owed
    <2> QED
      BY <2>1, <2>2 DEF PaySettles
  <1> QED
    BY <1>2, <1>3

-----------------------------------------------------------------------------
\* BrowserSession.  As long as no refresh crosses another tab's, a login or a
\* logout, there is one at a time, it carries the token in the jar, and the jar
\* holds a token the server takes, or the answer that replaces it is on its way.

TabRecords ==
  [tab : Tabs \union {"none"}, path : {"none", "page", "me", "login", "logout"},
   at : {"idle", "sent", "answered", "waiting"}, access : BOOLEAN, token : 0..issued,
   retried : BOOLEAN, ok : BOOLEAN, grants : 0..issued]
RenewalRecords ==
  [by : TabCalls, tab : Tabs, at : {"sent", "answered"}, token : 0..issued, ok : BOOLEAN,
   grants : 0..issued]

BrowserTyped ==
  /\ issued \in Nat /\ live \subseteq 1..issued
  /\ jar \in [access : BOOLEAN, token : 0..issued]
  /\ calls \in [TabCalls -> TabRecords] /\ renewals \subseteq RenewalRecords
  /\ \A c \in TabCalls : calls[c].at # "idle" => calls[c].tab \in Tabs /\ calls[c].path # "none"
  /\ screen \in [Tabs -> {"loading", "in", "out"}]

\* A call sent again after a rotation is not refused again.
RetriesAreRenewed ==
  \A c \in TabCalls : calls[c].path \in {"page", "me"} /\ calls[c].retried =>
    CASE calls[c].at = "sent" -> calls[c].access
      [] calls[c].at = "answered" -> calls[c].ok
      [] OTHER -> TRUE

Logouts == {c \in TabCalls : calls[c].path = "logout"}
Logins == {c \in TabCalls : calls[c].path = "login" /\ calls[c].at = "answered"}

OneRenewal ==
  /\ renewals # {} => Entering = {}
  /\ \A r, s \in renewals : r = s
  /\ \A r \in renewals :
       /\ r.token = jar.token
       /\ r.at = "answered" => IF r.ok THEN r.grants \in live /\ jar.token # 0 ELSE jar.token = 0
       /\ r.at = "sent" => r.token \in live \union {0}

\* A token granted by a login is nobody else's until the answer is in.
GrantsAreNew ==
  \A c \in Logins :
    /\ calls[c].ok /\ calls[c].grants \in live /\ calls[c].grants # jar.token
    /\ \A d \in Logouts : calls[d].token # calls[c].grants
    /\ \A d \in Logins : calls[d].grants = calls[c].grants => c = d

JarIsLive ==
  \/ jar.token \in live \union {0}
  \/ \E r \in renewals : r.at = "answered" /\ r.ok
  \/ \E c \in Logouts : calls[c].at = "answered" /\ calls[c].ok

\* With a session in the jar some tab shows it, or is asking who is signed in.
SomeTabKnows ==
  jar.token # 0 =>
    \E t \in Tabs : screen[t] # "out" \/ \E c \in TabCalls : calls[c].path = "me" /\ calls[c].tab = t

BInv ==
  /\ BrowserTyped /\ RetriesAreRenewed
  /\ ~crossed => ~alarmed /\ ~denied /\ OneRenewal /\ GrantsAreNew /\ JarIsLive
  /\ ~crossed /\ ~unheard => SomeTabKnows

LEMMA RenewalHoldsThen ==
  ASSUME BInv
  PROVE  RenewalHolds
  <1> SUFFICES ASSUME ~crossed
               PROVE  RenewalHolds
    BY DEF RenewalHolds
  <1>1. ~alarmed /\ ~denied
    BY DEF BInv
  <1>2. ASSUME \A c \in TabCalls : Free(c), renewals = {}, ~unheard, \A t \in Tabs : screen[t] = "out"
        PROVE  jar.token \notin live
    <2>1. \A c \in TabCalls : calls[c].path = "none"
      BY <1>2 DEF Free, NoTabCall
    <2>2. jar.token = 0
      BY <1>2, <2>1 DEF BInv, SomeTabKnows
    <2> QED
      BY <2>2 DEF BInv, BrowserTyped
  <1> QED
    BY <1>1, <1>2 DEF RenewalHolds

LEMMA FreeSlots ==
  ASSUME issued \in Nat
  PROVE  NoTabCall \in TabRecords /\ NoTabCall.at = "idle" /\ NoTabCall.path = "none"
  BY DEF NoTabCall, TabRecords

\* A call as it leaves the tab, with the cookies of the moment.
LEMMA SentWithTheCookies ==
  ASSUME issued \in Nat, jar \in [access : BOOLEAN, token : 0..issued],
         NEW t \in Tabs, NEW path \in {"page", "me", "login", "logout"}
  PROVE  /\ Sent(t, path) \in TabRecords
         /\ Sent(t, path).tab = t /\ Sent(t, path).path = path /\ Sent(t, path).at = "sent"
         /\ Sent(t, path).token = jar.token /\ ~Sent(t, path).retried
  <1> DEFINE leaving(b, n) == [NoTabCall EXCEPT !.tab = t, !.path = path, !.at = "sent",
                                                !.access = b, !.token = n]
  <1>1. NoTabCall \in TabRecords /\ ~NoTabCall.retried
    BY FreeSlots DEF NoTabCall
  <1>2. ASSUME NEW b \in BOOLEAN, NEW n \in 0..issued
        PROVE  /\ leaving(b, n) \in TabRecords
               /\ leaving(b, n).tab = t /\ leaving(b, n).path = path /\ leaving(b, n).at = "sent"
               /\ leaving(b, n).token = n /\ ~leaving(b, n).retried
    BY <1>1 DEF TabRecords
  <1>3. jar.access \in BOOLEAN /\ jar.token \in 0..issued
    OBVIOUS
  <1>4. Sent(t, path) = leaving(jar.access, jar.token)
    BY DEF Sent
  <1> HIDE DEF leaving
  <1> QED
    BY <1>2, <1>3, <1>4

LEMMA BrowserStarts ==
  ASSUME BrowserInit
  PROVE  BInv
  <1>1. /\ jar \in {[access |-> FALSE, token |-> 0], [access |-> TRUE, token |-> 1],
                    [access |-> FALSE, token |-> 1]}
        /\ issued = 1 /\ live = {1} \intersect {jar.token} /\ renewals = {}
        /\ screen = [t \in Tabs |-> "loading"]
        /\ ~alarmed /\ ~crossed /\ ~unheard /\ ~denied
    BY DEF BrowserInit
  <1>2. jar \in [access : BOOLEAN, token : 0..issued] /\ jar.token \in {0, 1}
    <2>1. \A b \in BOOLEAN, n \in 0..issued :
            [access |-> b, token |-> n] \in [access : BOOLEAN, token : 0..issued]
      OBVIOUS
    <2>2. 0 \in 0..issued /\ 1 \in 0..issued /\ TRUE \in BOOLEAN /\ FALSE \in BOOLEAN
      BY <1>1
    <2>3. {[access |-> FALSE, token |-> 0], [access |-> TRUE, token |-> 1],
           [access |-> FALSE, token |-> 1]} \subseteq [access : BOOLEAN, token : 0..issued]
      BY <2>1, <2>2
    <2>4. jar.token \in {0, 1}
      BY <1>1
    <2> QED
      BY <1>1, <2>3, <2>4
  <1>3. PICK first \in [Tabs -> TabCalls] :
          calls = [c \in TabCalls |->
            IF \E t \in Tabs : first[t] = c
            THEN Sent(CHOOSE t \in Tabs : first[t] = c, "me") ELSE NoTabCall]
    BY DEF BrowserInit
  <1>4. NoTabCall \in TabRecords /\ NoTabCall.at = "idle" /\ NoTabCall.path = "none"
    BY <1>1, FreeSlots
  <1>5. \A t \in Tabs : /\ Sent(t, "me") \in TabRecords /\ Sent(t, "me").tab = t
                        /\ Sent(t, "me").path = "me" /\ ~Sent(t, "me").retried
    BY <1>1, <1>2, SentWithTheCookies
  <1>6. \A c \in TabCalls : calls[c] = NoTabCall \/ \E t \in Tabs : calls[c] = Sent(t, "me")
    BY <1>3
  <1>7. calls \in [TabCalls -> TabRecords]
    <2>1. \A c \in TabCalls : calls[c] \in TabRecords
      BY <1>4, <1>5, <1>6
    <2> QED
      BY <1>3, <2>1
  <1>8. \A c \in TabCalls : /\ calls[c].at # "idle" => calls[c].tab \in Tabs /\ calls[c].path # "none"
                            /\ calls[c].path \in {"none", "me"}
                            /\ calls[c].path = "me" => ~calls[c].retried
    BY <1>4, <1>5, <1>6
  <1>9. BrowserTyped
    BY <1>1, <1>2, <1>7, <1>8 DEF BrowserTyped
  <1>10. RetriesAreRenewed
    BY <1>8 DEF RetriesAreRenewed
  <1>11. OneRenewal /\ GrantsAreNew /\ JarIsLive
    BY <1>1, <1>2, <1>8 DEF OneRenewal, GrantsAreNew, JarIsLive, Entering, Logins
  <1>12. SomeTabKnows
    BY <1>1, BrowserAssumption DEF SomeTabKnows
  <1> QED
    BY <1>1, <1>9, <1>10, <1>11, <1>12 DEF BInv

LEMMA RecordsGrow ==
  ASSUME issued \in Nat, issued' \in Nat, issued <= issued'
  PROVE  TabRecords \subseteq TabRecords' /\ RenewalRecords \subseteq RenewalRecords'
  BY DEF TabRecords, RenewalRecords

InUse(call) == call.at # "idle" => call.tab \in Tabs /\ call.path # "none"

\* A slot takes another call, and the others stay.
SlotIs(c, call) ==
  /\ calls' \in [TabCalls -> TabRecords'] /\ \A d \in TabCalls : InUse(calls'[d])
  /\ calls'[c] = call /\ \A d \in TabCalls \ {c} : calls'[d] = calls[d]
  /\ Entering' \ {c} = Entering \ {c} /\ (c \in Entering' <=> call.path \in {"login", "logout"})
  /\ Logouts' \ {c} = Logouts \ {c} /\ (c \in Logouts' <=> call.path = "logout")
  /\ Logins' \ {c} = Logins \ {c}
  /\ (c \in Logins' <=> call.path = "login" /\ call.at = "answered")

LEMMA SlotTaken ==
  ASSUME BrowserTyped, issued' \in Nat, issued <= issued', NEW c \in TabCalls,
         NEW call \in TabRecords', InUse(call), calls' = [calls EXCEPT ![c] = call]
  PROVE  SlotIs(c, call)
  <1>1. TabRecords \subseteq TabRecords'
    BY RecordsGrow DEF BrowserTyped
  <1>2. calls'[c] = call /\ \A d \in TabCalls \ {c} : calls'[d] = calls[d]
    BY DEF BrowserTyped
  <1>3. calls' \in [TabCalls -> TabRecords'] /\ \A d \in TabCalls : InUse(calls'[d])
    BY <1>1, <1>2 DEF BrowserTyped, InUse
  <1> QED
    BY <1>2, <1>3 DEF SlotIs, Entering, Logouts, Logins

LEMMA RequestLeaves ==
  ASSUME BInv, NEW c \in TabCalls, NEW t \in Tabs,
         UsePage(c, t) \/ Enter(c, t, "login") \/ Enter(c, t, "logout")
  PROVE  BInv'
  <1> USE DEF BInv
  <1>1. PICK path \in {"page", "login", "logout"} :
          /\ calls' = [calls EXCEPT ![c] = Sent(t, path)] /\ calls[c] = NoTabCall
          /\ path # "page" /\ renewals # {} => crossed'
    <2>1. CASE UsePage(c, t)
      BY <2>1 DEF UsePage, Free
    <2>2. ASSUME NEW path \in {"login", "logout"}, Enter(c, t, path)
          PROVE  /\ calls' = [calls EXCEPT ![c] = Sent(t, path)] /\ calls[c] = NoTabCall
                 /\ renewals # {} => crossed'
      BY <2>2 DEF Enter, Free
    <2> QED
      BY <2>1, <2>2
  <1>2. UNCHANGED <<live, issued, jar, renewals, screen, alarmed, unheard, denied>>
        /\ (crossed => crossed')
    <2>1. CASE UsePage(c, t)
      BY <2>1 DEF UsePage
    <2>2. ASSUME NEW kind, Enter(c, t, kind)
          PROVE  UNCHANGED <<live, issued, jar, renewals, screen, alarmed, unheard, denied>>
                 /\ (crossed => crossed')
      BY <2>2 DEF Enter
    <2> QED
      BY <2>1, <2>2
  <1>3. PICK call \in TabRecords :
          /\ calls' = [calls EXCEPT ![c] = call]
          /\ call.tab = t /\ call.path = path
          /\ call.at = "sent" /\ call.token = jar.token /\ ~call.retried
    <2>1. issued \in Nat /\ jar \in [access : BOOLEAN, token : 0..issued]
          /\ path \in {"page", "me", "login", "logout"}
      BY DEF BrowserTyped
    <2>2. /\ Sent(t, path) \in TabRecords
          /\ Sent(t, path).tab = t /\ Sent(t, path).path = path /\ Sent(t, path).at = "sent"
          /\ Sent(t, path).token = jar.token /\ ~Sent(t, path).retried
      BY <2>1, SentWithTheCookies
    <2> QED
      BY <1>1, <2>2
  <1>4. TabRecords' = TabRecords /\ RenewalRecords' = RenewalRecords
    BY <1>2 DEF TabRecords, RenewalRecords
  <1>5. issued \in Nat /\ issued' \in Nat /\ issued <= issued' /\ InUse(call)
    BY <1>2, <1>3 DEF BrowserTyped, InUse
  <1>6. SlotIs(c, call)
    BY <1>3, <1>4, <1>5, SlotTaken
  <1>7. c \notin Entering /\ c \notin Logouts /\ c \notin Logins /\ calls[c].path = "none"
    BY <1>1 DEF Entering, Logouts, Logins, NoTabCall
  <1>8. BrowserTyped'
    BY <1>2, <1>4, <1>6 DEF BrowserTyped, InUse, SlotIs
  <1>9. RetriesAreRenewed'
    BY <1>3, <1>6 DEF RetriesAreRenewed, SlotIs
  <1>10. ASSUME ~crossed'
         PROVE  ~alarmed' /\ ~denied' /\ OneRenewal' /\ GrantsAreNew' /\ JarIsLive'
    <2>1. ~crossed /\ ~alarmed' /\ ~denied' /\ OneRenewal /\ GrantsAreNew /\ JarIsLive
      BY <1>2, <1>10
    <2>2. renewals' # {} => Entering' = {}
      BY <1>1, <1>2, <1>3, <1>6, <1>7, <1>10, <2>1 DEF OneRenewal, SlotIs
    <2>3. OneRenewal'
      BY <1>2, <2>1, <2>2 DEF OneRenewal
    <2>4. Logins' = Logins /\ Logouts' \subseteq Logouts \union {c} /\ Logouts \subseteq Logouts'
      BY <1>3, <1>6, <1>7 DEF SlotIs
    <2>5. \A d \in Logins : d \in TabCalls /\ calls'[d] = calls[d]
      BY <1>6, <1>7 DEF Logins, SlotIs
    <2>6. \A d \in Logouts : d \in TabCalls /\ calls'[d] = calls[d]
      BY <1>6, <1>7 DEF Logouts, SlotIs
    <2>7. GrantsAreNew'
      BY <1>2, <1>3, <1>6, <2>1, <2>4, <2>5, <2>6 DEF GrantsAreNew, SlotIs
    <2>8. JarIsLive'
      BY <1>2, <2>1, <2>4, <2>6 DEF JarIsLive
    <2> QED
      BY <2>1, <2>3, <2>7, <2>8
  <1>11. ~crossed' /\ ~unheard' => SomeTabKnows'
    BY <1>2, <1>6, <1>7 DEF SomeTabKnows, SlotIs
  <1> QED
    BY <1>8, <1>9, <1>10, <1>11

LEMMA CookieExpires ==
  ASSUME BInv, AccessExpires
  PROVE  BInv'
  <1>1. /\ jar' = [jar EXCEPT !.access = FALSE]
        /\ UNCHANGED <<live, issued, calls, renewals, screen, alarmed, crossed, unheard, denied>>
    BY DEF AccessExpires
  <1>2. jar' \in [access : BOOLEAN, token : 0..issued] /\ jar'.token = jar.token
    BY <1>1 DEF BInv, BrowserTyped
  <1> QED
    BY <1>1, <1>2
       DEF BInv, BrowserTyped, TabRecords, RenewalRecords, RetriesAreRenewed, OneRenewal, Entering,
           GrantsAreNew, Logins, Logouts, JarIsLive, SomeTabKnows

LEMMA BrowserStands ==
  ASSUME BInv, UNCHANGED browserVars
  PROVE  BInv'
  BY DEF browserVars, BInv, BrowserTyped, TabRecords, RenewalRecords, RetriesAreRenewed, OneRenewal,
         Entering, GrantsAreNew, Logins, Logouts, JarIsLive, SomeTabKnows

LEMMA InSlots ==
  /\ \A c \in Entering : c \in TabCalls /\ calls[c].path \in {"login", "logout"}
  /\ \A c \in Logouts : c \in TabCalls /\ calls[c].path = "logout" /\ c \in Entering
  /\ \A c \in Logins : /\ c \in TabCalls /\ calls[c].path = "login" /\ calls[c].at = "answered"
                        /\ c \in Entering
  BY DEF Entering, Logouts, Logins

LEMMA CallIsServed ==
  ASSUME BInv, NEW c \in TabCalls, ServeCall(c)
  PROVE  BInv'
  <1> USE DEF BInv
  <1>1. /\ calls[c].at = "sent" /\ calls[c] \in TabRecords /\ InUse(calls[c])
        /\ UNCHANGED <<jar, renewals, screen, alarmed, crossed, unheard, denied>>
    BY DEF ServeCall, BrowserTyped, InUse
  <1>2. PICK ok \in BOOLEAN, grants \in {0, issued + 1} :
          /\ calls' = [calls EXCEPT ![c].at = "answered", ![c].ok = ok, ![c].grants = grants]
          /\ \/ /\ calls[c].path \in {"page", "me"} /\ grants = 0 /\ (ok <=> calls[c].access)
                /\ UNCHANGED <<live, issued>>
             \/ /\ calls[c].path = "logout" /\ grants = 0 /\ (ok <=> calls[c].access)
                /\ live' = (IF ok THEN live \ {calls[c].token} ELSE live) /\ issued' = issued
             \/ /\ calls[c].path = "login" /\ ok /\ grants = issued + 1
                /\ live' = live \union {issued + 1} /\ issued' = issued + 1
    <2>1. calls[c].access \in BOOLEAN
      BY <1>1 DEF TabRecords
    <2>2. CASE calls[c].path \in {"page", "me"}
      BY <2>1, <2>2 DEF ServeCall
    <2>3. CASE calls[c].path = "logout"
      BY <2>1, <2>3 DEF ServeCall
    <2>4. CASE calls[c].path = "login"
      BY <2>4 DEF ServeCall, NewToken
    <2> QED
      BY <2>2, <2>3, <2>4, Zenon DEF ServeCall
  <1>3. issued \in Nat /\ issued' \in Nat /\ issued <= issued' /\ grants \in 0..issued'
    BY <1>2 DEF BrowserTyped
  <1>4. TabRecords \subseteq TabRecords' /\ RenewalRecords \subseteq RenewalRecords'
    BY <1>3, RecordsGrow
  <1>5. PICK call \in TabRecords' :
          /\ calls' = [calls EXCEPT ![c] = call] /\ InUse(call)
          /\ call.at = "answered" /\ call.ok = ok /\ call.grants = grants
          /\ call.tab = calls[c].tab /\ call.path = calls[c].path
          /\ call.token = calls[c].token /\ call.retried = calls[c].retried
    <2> DEFINE call == [calls[c] EXCEPT !.at = "answered", !.ok = ok, !.grants = grants]
    <2>1. calls[c] \in TabRecords'
      BY <1>1, <1>4
    <2>2. /\ call \in TabRecords' /\ call.at = "answered" /\ call.ok = ok /\ call.grants = grants
          /\ call.tab = calls[c].tab /\ call.path = calls[c].path
          /\ call.token = calls[c].token /\ call.retried = calls[c].retried
      BY <1>3, <2>1 DEF TabRecords
    <2>3. calls' = [calls EXCEPT ![c] = call]
      BY <1>2
    <2>4. InUse(call)
      BY <1>1, <2>2 DEF InUse
    <2> QED
      BY <2>2, <2>3, <2>4
  <1>6. SlotIs(c, call)
    BY <1>3, <1>5, SlotTaken
  <1>7. BrowserTyped'
    BY <1>1, <1>2, <1>3, <1>4, <1>6 DEF BrowserTyped, InUse, SlotIs
  <1>8. RetriesAreRenewed'
    <2>1. call.path \in {"page", "me"} /\ call.retried => call.ok
      BY <1>1, <1>2, <1>5 DEF RetriesAreRenewed
    <2> QED
      BY <1>5, <1>6, <2>1 DEF RetriesAreRenewed, SlotIs
  <1>9. ~crossed' /\ ~unheard' => SomeTabKnows'
    BY <1>1, <1>5, <1>6 DEF SomeTabKnows, SlotIs
  <1>10. ASSUME ~crossed'
         PROVE  ~alarmed' /\ ~denied' /\ OneRenewal' /\ GrantsAreNew' /\ JarIsLive'
    <2>1. /\ ~alarmed' /\ ~denied' /\ OneRenewal /\ GrantsAreNew /\ JarIsLive
          /\ renewals' = renewals /\ jar' = jar
      BY <1>1, <1>10
    <2>2. Entering' = Entering /\ Logouts' = Logouts
      BY <1>5, <1>6 DEF SlotIs, Entering, Logouts
    <2>3. c \notin Logins
      BY <1>1 DEF Logins
    <2>4. CASE calls[c].path \in {"page", "me"}
      <3>1. Logins' = Logins /\ live' = live
        BY <1>2, <1>5, <1>6, <2>3, <2>4 DEF SlotIs
      <3>2. \A d \in Logins \union Logouts : d \in TabCalls /\ calls'[d] = calls[d]
        BY <1>6, <2>4, InSlots DEF SlotIs
      <3>3. OneRenewal'
        BY <2>1, <2>2, <3>1 DEF OneRenewal
      <3>4. GrantsAreNew' /\ JarIsLive'
        BY <2>1, <2>2, <3>1, <3>2 DEF GrantsAreNew, JarIsLive
      <3> QED
        BY <2>1, <3>3, <3>4
    <2>5. CASE calls[c].path = "logout"
      <3>1. Logins' = Logins /\ c \in Logouts /\ renewals = {} /\ renewals' = {}
        BY <1>5, <1>6, <2>1, <2>3, <2>5 DEF SlotIs, OneRenewal, Logouts, Entering
      <3>2. /\ \A d \in Logins : d \in TabCalls /\ calls'[d] = calls[d] /\ calls[d].grants \in live'
            /\ \A d \in Logouts : calls'[d].token = calls[d].token
        BY <1>2, <1>5, <1>6, <2>1, <2>5, <3>1, InSlots DEF SlotIs, GrantsAreNew
      <3>3. GrantsAreNew'
        BY <2>1, <2>2, <3>1, <3>2 DEF GrantsAreNew
      <3>4. JarIsLive'
        <4>1. CASE ok
          BY <1>5, <1>6, <2>2, <3>1, <4>1 DEF JarIsLive, SlotIs
        <4>2. CASE ~ok
          <5>1. live' = live
            BY <1>2, <2>5, <4>2
          <5>2. \A d \in Logouts : calls[d].at = "answered" => calls'[d] = calls[d]
            BY <1>1, <1>6, InSlots DEF SlotIs
          <5> QED
            BY <2>1, <2>2, <3>1, <5>1, <5>2 DEF JarIsLive
        <4> QED
          BY <4>1, <4>2
      <3>5. OneRenewal'
        BY <3>1 DEF OneRenewal
      <3> QED
        BY <2>1, <3>3, <3>4, <3>5
    <2>6. CASE calls[c].path = "login"
      <3>1. Logins' = Logins \union {c} /\ renewals = {} /\ renewals' = {} /\ c \notin Logouts
        BY <1>5, <1>6, <2>1, <2>3, <2>6 DEF SlotIs, OneRenewal, Logouts, Entering
      <3>2. /\ \A d \in Logins \union Logouts : d \in TabCalls /\ calls'[d] = calls[d]
            /\ calls'[c].ok /\ calls'[c].grants = issued + 1 /\ issued + 1 \in live'
            /\ live \subseteq live'
        BY <1>2, <1>5, <1>6, <2>3, <2>6, <3>1, InSlots DEF SlotIs
      <3>3. /\ \A d \in TabCalls : calls[d].token <= issued /\ calls[d].token \in Nat
            /\ \A d \in TabCalls : calls[d].grants <= issued /\ calls[d].grants \in Nat
            /\ jar.token <= issued /\ jar.token \in Nat
        BY <1>3 DEF BrowserTyped, TabRecords
      <3>4. /\ \A d \in TabCalls : calls[d].token # issued + 1 /\ calls[d].grants # issued + 1
            /\ jar.token # issued + 1
        BY <1>3, <3>3
      <3>5. GrantsAreNew'
        BY <2>1, <2>2, <3>1, <3>2, <3>4 DEF GrantsAreNew
      <3>6. JarIsLive'
        BY <2>1, <2>2, <3>1, <3>2 DEF JarIsLive
      <3>7. OneRenewal'
        BY <3>1 DEF OneRenewal
      <3> QED
        BY <2>1, <3>5, <3>6, <3>7
    <2> QED
      BY <1>2, <2>4, <2>5, <2>6
  <1> QED
    BY <1>7, <1>8, <1>9, <1>10

\* A call that is over leaves its slot; only a logout's answer was needed.
LEMMA SlotIsFreed ==
  ASSUME BInv, NEW c \in TabCalls, calls' = [calls EXCEPT ![c] = NoTabCall],
         UNCHANGED <<live, issued, jar, renewals>>, screen' \in [Tabs -> {"loading", "in", "out"}]
  PROVE  /\ BrowserTyped' /\ RetriesAreRenewed' /\ SlotIs(c, NoTabCall)
         /\ OneRenewal => OneRenewal'
         /\ GrantsAreNew => GrantsAreNew'
         /\ JarIsLive /\ ~(calls[c].path = "logout" /\ calls[c].at = "answered" /\ calls[c].ok)
              => JarIsLive'
  <1> USE DEF BInv
  <1>1. TabRecords' = TabRecords /\ RenewalRecords' = RenewalRecords /\ issued \in Nat
        /\ issued' \in Nat /\ issued <= issued'
    BY DEF TabRecords, RenewalRecords, BrowserTyped
  <1>2. NoTabCall \in TabRecords' /\ NoTabCall.at = "idle" /\ NoTabCall.path = "none"
        /\ InUse(NoTabCall)
    BY <1>1, FreeSlots DEF InUse
  <1>3. SlotIs(c, NoTabCall)
    BY <1>1, <1>2, SlotTaken
  <1>4. BrowserTyped'
    BY <1>1, <1>3 DEF BrowserTyped, InUse, SlotIs
  <1>5. RetriesAreRenewed'
    BY <1>2, <1>3 DEF RetriesAreRenewed, SlotIs
  <1>6. Entering' = Entering \ {c} /\ Logins' = Logins \ {c} /\ Logouts' = Logouts \ {c}
    BY <1>2, <1>3 DEF SlotIs
  <1>7. OneRenewal => OneRenewal'
    BY <1>6 DEF OneRenewal
  <1>8. \A d \in (Logins \union Logouts) \ {c} : d \in TabCalls /\ calls'[d] = calls[d]
    BY <1>3, InSlots DEF SlotIs
  <1>9. GrantsAreNew => GrantsAreNew'
    BY <1>6, <1>8 DEF GrantsAreNew
  <1>10. JarIsLive /\ ~(calls[c].path = "logout" /\ calls[c].at = "answered" /\ calls[c].ok)
           => JarIsLive'
    BY <1>6, <1>8, InSlots DEF JarIsLive
  <1> QED
    BY <1>3, <1>4, <1>5, <1>7, <1>9, <1>10

\* Screens and questions only grow less where nobody is signed in.
LEMMA CallSucceeds ==
  ASSUME BInv, NEW c \in TabCalls, CallReturns(c), Succeeds(c)
  PROVE  BInv'
  <1> USE DEF BInv
  <1>1. /\ calls[c].at = "answered" /\ calls[c].ok /\ calls[c] \in TabRecords
        /\ calls[c].tab \in Tabs
        /\ UNCHANGED <<live, issued, alarmed, renewals, crossed, unheard, denied>>
    BY DEF CallReturns, Succeeds, BrowserTyped
  <1>2. NoTabCall.path = "none" /\ NoTabCall.at = "idle"
    BY FreeSlots DEF BrowserTyped
  <1>3. CASE calls[c].path = "page" \/ calls[c].path = "me"
    <2>1. /\ calls' = [calls EXCEPT ![c] = NoTabCall] /\ UNCHANGED jar
          /\ IF calls[c].path = "me" THEN screen' = [screen EXCEPT ![calls[c].tab] = "in"]
                                     ELSE screen' = screen
      BY <1>3 DEF Succeeds
    <2>2. screen' \in [Tabs -> {"loading", "in", "out"}]
          /\ \A t \in Tabs : screen[t] # "out" => screen'[t] # "out"
      BY <2>1 DEF BrowserTyped
    <2>3. /\ BrowserTyped' /\ RetriesAreRenewed' /\ SlotIs(c, NoTabCall)
          /\ OneRenewal => OneRenewal'
          /\ GrantsAreNew => GrantsAreNew'
          /\ JarIsLive => JarIsLive'
      BY <1>1, <1>3, <2>1, <2>2, SlotIsFreed
    <2>4. SomeTabKnows => SomeTabKnows'
      <3> SUFFICES ASSUME SomeTabKnows, jar.token # 0
                   PROVE  SomeTabKnows'
        BY <2>1 DEF SomeTabKnows
      <3>1. PICK t \in Tabs : screen[t] # "out"
                             \/ \E d \in TabCalls : calls[d].path = "me" /\ calls[d].tab = t
        BY DEF SomeTabKnows
      <3>2. CASE calls[c].path = "me"
        <4>1. screen'[calls[c].tab] = "in"
          BY <1>1, <2>1, <3>2 DEF BrowserTyped
        <4> QED
          BY <1>1, <4>1 DEF SomeTabKnows
      <3>3. CASE calls[c].path # "me"
        BY <2>2, <2>3, <3>1, <3>3 DEF SomeTabKnows, SlotIs
      <3> QED
        BY <3>2, <3>3
    <2> QED
      BY <1>1, <2>3, <2>4
  <1>4. CASE calls[c].path = "logout"
    <2>1. /\ calls' = [calls EXCEPT ![c] = NoTabCall] /\ jar' = [access |-> FALSE, token |-> 0]
          /\ screen' = [screen EXCEPT ![calls[c].tab] = "out"]
      BY <1>4 DEF Succeeds
    <2>2. TabRecords' = TabRecords /\ RenewalRecords' = RenewalRecords /\ issued \in Nat
          /\ issued' \in Nat /\ issued <= issued' /\ InUse(NoTabCall) /\ NoTabCall \in TabRecords'
      BY <1>1, <1>2, FreeSlots DEF TabRecords, RenewalRecords, BrowserTyped, InUse
    <2>3. SlotIs(c, NoTabCall)
      BY <2>1, <2>2, SlotTaken
    <2>4. jar'.token = 0 /\ jar' \in [access : BOOLEAN, token : 0..issued']
      BY <2>1, <2>2
    <2>5. BrowserTyped'
      BY <1>1, <2>1, <2>2, <2>3, <2>4 DEF BrowserTyped, InUse, SlotIs
    <2>6. RetriesAreRenewed'
      BY <1>2, <2>3 DEF RetriesAreRenewed, SlotIs
    <2>7. ASSUME ~crossed'
          PROVE  ~alarmed' /\ ~denied' /\ OneRenewal' /\ GrantsAreNew' /\ JarIsLive'
      <3>1. ~alarmed' /\ ~denied' /\ OneRenewal /\ GrantsAreNew
        BY <1>1, <2>7
      <3>2. renewals' = {}
        BY <1>1, <1>4, <3>1 DEF OneRenewal, Entering
      <3>3. Logins' \subseteq Logins \ {c} /\ Logouts' \subseteq Logouts \ {c}
        BY <1>2, <2>3 DEF SlotIs
      <3>4. \A d \in (Logins \union Logouts) \ {c} : d \in TabCalls /\ calls'[d] = calls[d]
        BY <2>3, InSlots DEF SlotIs
      <3>5. 0 \notin live
        BY DEF BrowserTyped
      <3>6. GrantsAreNew'
        BY <1>1, <2>4, <3>1, <3>3, <3>4, <3>5 DEF GrantsAreNew
      <3> QED
        BY <2>4, <3>1, <3>2, <3>6 DEF OneRenewal, JarIsLive
    <2>8. SomeTabKnows'
      BY <2>4 DEF SomeTabKnows
    <2> QED
      BY <2>5, <2>6, <2>7, <2>8
  <1>5. CASE calls[c].path = "login"
    <2> DEFINE call == [Sent(calls[c].tab, "me") EXCEPT !.access = TRUE, !.token = calls[c].grants]
    <2>1. /\ jar' = [access |-> TRUE, token |-> calls[c].grants] /\ screen' = screen
          /\ calls' = [calls EXCEPT ![c] = call]
      BY <1>5 DEF Succeeds
    <2>2. /\ Sent(calls[c].tab, "me") \in TabRecords /\ Sent(calls[c].tab, "me").tab = calls[c].tab
          /\ Sent(calls[c].tab, "me").path = "me" /\ ~Sent(calls[c].tab, "me").retried
      BY <1>1, SentWithTheCookies DEF BrowserTyped
    <2>3. /\ call \in TabRecords /\ call.tab = calls[c].tab /\ call.path = "me" /\ ~call.retried
      BY <1>1, <2>2 DEF TabRecords
    <2>4. TabRecords' = TabRecords /\ RenewalRecords' = RenewalRecords /\ issued \in Nat
          /\ issued' \in Nat /\ issued <= issued' /\ InUse(call) /\ call \in TabRecords'
      BY <1>1, <2>3 DEF TabRecords, RenewalRecords, BrowserTyped, InUse
    <2> HIDE DEF call
    <2>5. SlotIs(c, call)
      BY <2>1, <2>4, SlotTaken
    <2>6. jar'.token = calls[c].grants /\ jar' \in [access : BOOLEAN, token : 0..issued']
      BY <1>1, <2>1 DEF TabRecords
    <2>7. BrowserTyped'
      BY <1>1, <2>1, <2>4, <2>5, <2>6 DEF BrowserTyped, InUse, SlotIs
    <2>8. RetriesAreRenewed'
      BY <2>3, <2>5 DEF RetriesAreRenewed, SlotIs
    <2>9. ASSUME ~crossed'
          PROVE  ~alarmed' /\ ~denied' /\ OneRenewal' /\ GrantsAreNew' /\ JarIsLive'
      <3>1. ~alarmed' /\ ~denied' /\ OneRenewal /\ GrantsAreNew
        BY <1>1, <2>9
      <3>2. renewals' = {} /\ c \in Logins
        BY <1>1, <1>5, <3>1 DEF OneRenewal, Entering, Logins
      <3>3. Logins' = Logins \ {c} /\ Logouts' \subseteq Logouts \ {c}
        BY <2>3, <2>5 DEF SlotIs
      <3>4. \A d \in (Logins \union Logouts) \ {c} : d \in TabCalls /\ calls'[d] = calls[d]
        BY <2>5, InSlots DEF SlotIs
      <3>5. GrantsAreNew'
        BY <1>1, <2>6, <3>1, <3>2, <3>3, <3>4 DEF GrantsAreNew
      <3>6. jar'.token \in live'
        BY <1>1, <2>6, <3>1, <3>2 DEF GrantsAreNew
      <3> QED
        BY <3>1, <3>2, <3>5, <3>6 DEF OneRenewal, JarIsLive
    <2>10. SomeTabKnows'
      BY <1>1, <2>3, <2>5 DEF SomeTabKnows, SlotIs
    <2> QED
      BY <2>7, <2>8, <2>9, <2>10
  <1> QED
    BY <1>3, <1>4, <1>5 DEF Succeeds

\* A first 401 starts a rotation or joins the one there is; a second one does
\* not come.
LEMMA CallIsRefused ==
  ASSUME BInv, NEW c \in TabCalls, CallReturns(c), Refused401(c)
  PROVE  BInv'
  <1> USE DEF BInv
  <1>1. /\ calls[c].at = "answered" /\ ~calls[c].ok /\ calls[c] \in TabRecords
        /\ calls[c].tab \in Tabs /\ UNCHANGED <<live, issued, jar, alarmed>>
    BY DEF CallReturns, Refused401, BrowserTyped
  <1>2. NoTabCall.path = "none" /\ NoTabCall.at = "idle"
    BY FreeSlots DEF BrowserTyped
  <1>3. CASE calls[c].path \in {"page", "me"}
    <2>1. ~calls[c].retried
      BY <1>1, <1>3 DEF RetriesAreRenewed
    <2> DEFINE call == [calls[c] EXCEPT !.at = "waiting", !.retried = TRUE]
    <2>2. /\ calls' = [calls EXCEPT ![c].at = "waiting", ![c].retried = TRUE] /\ Renew(c)
          /\ crossed' = (crossed \/ Entering # {} \/ \E r \in renewals : r.tab # calls[c].tab)
          /\ UNCHANGED <<screen, unheard, denied>>
      BY <1>3, <2>1 DEF Refused401
    <2>3. TabRecords' = TabRecords /\ RenewalRecords' = RenewalRecords /\ issued \in Nat
          /\ issued' \in Nat /\ issued <= issued' /\ jar.token \in 0..issued
      BY <1>1 DEF TabRecords, RenewalRecords, BrowserTyped
    <2>4. /\ call \in TabRecords' /\ call.at = "waiting" /\ call.path = calls[c].path
          /\ call.tab = calls[c].tab
      BY <1>1, <2>3 DEF TabRecords
    <2>5. calls' = [calls EXCEPT ![c] = call] /\ InUse(call)
      BY <1>1, <1>3, <2>2, <2>4 DEF InUse
    <2> HIDE DEF call
    <2>6. SlotIs(c, call)
      BY <2>3, <2>4, <2>5, SlotTaken
    <2> DEFINE renewal == [by |-> c, tab |-> calls[c].tab, at |-> "sent", token |-> jar.token,
                           ok |-> FALSE, grants |-> 0]
    <2>7. renewal \in RenewalRecords /\ renewal.at = "sent" /\ renewal.token = jar.token
      BY <1>1, <2>3 DEF RenewalRecords
    <2>8. \/ renewals' = renewals /\ Renewing(calls[c].tab) # {}
          \/ renewals' = renewals \union {renewal} /\ Renewing(calls[c].tab) = {}
      BY <2>2 DEF Renew
    <2> HIDE DEF renewal
    <2>9. BrowserTyped'
      BY <1>1, <2>2, <2>3, <2>6, <2>7, <2>8 DEF BrowserTyped, InUse, SlotIs
    <2>10. RetriesAreRenewed'
      BY <2>4, <2>6 DEF RetriesAreRenewed, SlotIs
    <2>11. ASSUME ~crossed', ~unheard'
           PROVE  SomeTabKnows'
      <3>1. SomeTabKnows /\ jar'.token = jar.token /\ screen' = screen
        BY <1>1, <2>2, <2>11
      <3>2. \A d \in TabCalls : calls'[d].path = calls[d].path /\ calls'[d].tab = calls[d].tab
        BY <2>4, <2>6 DEF SlotIs
      <3> QED
        BY <3>1, <3>2 DEF SomeTabKnows
    <2>12. ASSUME ~crossed'
           PROVE  ~alarmed' /\ ~denied' /\ OneRenewal' /\ GrantsAreNew' /\ JarIsLive'
      <3>1. /\ ~alarmed' /\ ~denied' /\ OneRenewal /\ JarIsLive /\ Entering = {}
            /\ \A r \in renewals : r.tab = calls[c].tab
        BY <1>1, <2>2, <2>12
      <3>2. Entering' = {} /\ Logins = {} /\ Logouts = {} /\ Logins' = {} /\ Logouts' = {}
        BY <1>3, <2>4, <2>6, <3>1, InSlots DEF SlotIs, Entering, Logins, Logouts
      <3>3. GrantsAreNew'
        BY <3>2 DEF GrantsAreNew
      <3>4. CASE renewals' = renewals
        BY <1>1, <3>1, <3>2, <3>3, <3>4 DEF OneRenewal, JarIsLive
      <3>5. CASE renewals' = renewals \union {renewal} /\ Renewing(calls[c].tab) = {}
        <4>1. renewals = {} /\ renewals' = {renewal}
          BY <3>1, <3>5 DEF Renewing
        <4>2. jar.token \in live \union {0}
          BY <3>1, <3>2, <4>1 DEF JarIsLive
        <4> QED
          BY <1>1, <2>7, <3>1, <3>2, <3>3, <4>1, <4>2 DEF OneRenewal, JarIsLive
      <3> QED
        BY <2>8, <3>4, <3>5
    <2> QED
      BY <2>9, <2>10, <2>11, <2>12
  <1>4. CASE calls[c].path = "logout"
    <2>1. /\ screen' = [screen EXCEPT ![calls[c].tab] = "out"]
          /\ calls' = [calls EXCEPT ![c] = NoTabCall] /\ unheard'
          /\ UNCHANGED <<renewals, crossed, denied>>
      BY <1>4 DEF Refused401
    <2>2. screen' \in [Tabs -> {"loading", "in", "out"}]
      BY <2>1 DEF BrowserTyped
    <2>3. /\ BrowserTyped' /\ RetriesAreRenewed'
          /\ OneRenewal => OneRenewal'
          /\ GrantsAreNew => GrantsAreNew'
          /\ JarIsLive => JarIsLive'
      BY <1>1, <2>1, <2>2, SlotIsFreed
    <2> QED
      BY <1>1, <2>1, <2>3
  <1> QED
    BY <1>3, <1>4 DEF Refused401

LEMMA TabCallIsLost ==
  ASSUME BInv, NEW c \in TabCalls, LoseTabCall(c)
  PROVE  BInv'
  <1> USE DEF BInv
  <1>1. /\ calls[c].at \in {"sent", "answered"} /\ calls[c].tab \in Tabs
        /\ calls' = [calls EXCEPT ![c] = NoTabCall]
        /\ UNCHANGED <<live, issued, jar, renewals, alarmed, denied>>
        /\ unheard' = (unheard \/ calls[c].path # "page")
        /\ crossed' = (crossed \/ (c \in Entering /\ calls[c].at = "answered"))
        /\ screen' = IF calls[c].path \in {"me", "logout"}
                     THEN [screen EXCEPT ![calls[c].tab] = "out"] ELSE screen
    BY DEF LoseTabCall, BrowserTyped
  <1>2. screen' \in [Tabs -> {"loading", "in", "out"}]
    BY <1>1 DEF BrowserTyped
  <1>3. /\ BrowserTyped' /\ RetriesAreRenewed' /\ SlotIs(c, NoTabCall)
        /\ OneRenewal => OneRenewal'
        /\ GrantsAreNew => GrantsAreNew'
        /\ JarIsLive /\ ~(calls[c].path = "logout" /\ calls[c].at = "answered" /\ calls[c].ok)
             => JarIsLive'
    BY <1>1, <1>2, SlotIsFreed
  <1>4. ASSUME ~crossed'
        PROVE  ~alarmed' /\ ~denied' /\ OneRenewal' /\ GrantsAreNew' /\ JarIsLive'
    <2>1. ~crossed /\ ~(c \in Entering /\ calls[c].at = "answered")
      BY <1>1, <1>4
    <2>2. ~(calls[c].path = "logout" /\ calls[c].at = "answered")
      BY <2>1 DEF Entering
    <2> QED
      BY <1>1, <1>3, <2>1, <2>2
  <1>5. ASSUME ~crossed', ~unheard'
        PROVE  SomeTabKnows'
    <2>1. ~crossed /\ ~unheard /\ calls[c].path = "page"
      BY <1>1, <1>5
    <2> QED
      BY <1>1, <1>3, <2>1 DEF SomeTabKnows, SlotIs
  <1> QED
    BY <1>3, <1>4, <1>5

\* The server takes the only rotation's token, which is the jar's.
LEMMA RenewalIsServed ==
  ASSUME BInv, NEW r \in renewals, ServeRenewal(r)
  PROVE  BInv'
  <1> USE DEF BInv
  <1>1. /\ r.at = "sent" /\ r \in RenewalRecords
        /\ UNCHANGED <<jar, calls, screen, crossed, unheard, denied>>
    BY DEF ServeRenewal, BrowserTyped
  <1>2. PICK ok \in BOOLEAN, grants \in {0, issued + 1} :
          /\ renewals' = (renewals \ {r})
               \union {[r EXCEPT !.at = "answered", !.ok = ok, !.grants = grants]}
          /\ \/ r.token = 0 /\ ~ok /\ grants = 0 /\ UNCHANGED <<live, issued, alarmed>>
             \/ /\ r.token \in live /\ ok /\ grants = issued + 1 /\ issued' = issued + 1
                /\ live' = (live \ {r.token}) \union {issued + 1} /\ UNCHANGED alarmed
             \/ r.token \notin live \union {0} /\ ~ok /\ grants = 0 /\ live' = {} /\ issued' = issued
    BY Zenon DEF ServeRenewal, NewToken
  <1>3. issued \in Nat /\ issued' \in Nat /\ issued <= issued' /\ grants \in 0..issued'
    BY <1>2 DEF BrowserTyped
  <1>4. TabRecords \subseteq TabRecords' /\ RenewalRecords \subseteq RenewalRecords'
    BY <1>3, RecordsGrow
  <1>5. PICK answer \in RenewalRecords' :
          /\ renewals' = (renewals \ {r}) \union {answer}
          /\ answer.at = "answered" /\ answer.token = r.token /\ answer.ok = ok
          /\ answer.grants = grants
    <2>1. r \in RenewalRecords'
      BY <1>1, <1>4
    <2> DEFINE answer == [r EXCEPT !.at = "answered", !.ok = ok, !.grants = grants]
    <2>2. /\ answer \in RenewalRecords' /\ answer.at = "answered" /\ answer.token = r.token
          /\ answer.ok = ok /\ answer.grants = grants
      BY <1>3, <2>1 DEF RenewalRecords
    <2> QED
      BY <1>2, <2>2
  <1>6. BrowserTyped'
    <2>1. live' \subseteq 1..issued'
      BY <1>2, <1>3 DEF BrowserTyped
    <2>2. jar' \in [access : BOOLEAN, token : 0..issued']
      BY <1>1, <1>3 DEF BrowserTyped
    <2>3. calls' \in [TabCalls -> TabRecords'] /\ renewals' \subseteq RenewalRecords'
      BY <1>1, <1>4, <1>5 DEF BrowserTyped
    <2> QED
      BY <1>1, <1>3, <2>1, <2>2, <2>3 DEF BrowserTyped
  <1>7. RetriesAreRenewed' /\ (~crossed' /\ ~unheard' => SomeTabKnows')
    BY <1>1 DEF RetriesAreRenewed, SomeTabKnows
  <1>8. ASSUME ~crossed'
        PROVE  ~alarmed' /\ ~denied' /\ OneRenewal' /\ GrantsAreNew' /\ JarIsLive'
    <2>1. ~crossed /\ ~alarmed /\ ~denied' /\ OneRenewal
      BY <1>1, <1>8
    <2>2. r.token \in live \union {0} /\ r.token = jar.token /\ Entering = {} /\ renewals' = {answer}
      BY <1>1, <1>5, <2>1 DEF OneRenewal
    <2>3. Entering' = {} /\ Logins' = {}
      BY <1>1, <2>2, InSlots DEF Entering, Logins
    <2>4. GrantsAreNew'
      BY <2>3 DEF GrantsAreNew
    <2>5. 0 \notin live
      BY DEF BrowserTyped
    <2>6. ~alarmed'
      BY <1>2, <2>1, <2>2
    <2>7. IF ok THEN grants \in live' /\ jar.token # 0 ELSE jar.token = 0
      BY <1>2, <2>2, <2>5
    <2>8. OneRenewal'
      BY <1>1, <1>5, <2>2, <2>3, <2>7 DEF OneRenewal
    <2>9. JarIsLive'
      BY <1>1, <1>5, <2>2, <2>7 DEF JarIsLive
    <2> QED
      BY <2>1, <2>4, <2>6, <2>8, <2>9
  <1> QED
    BY <1>6, <1>7, <1>8

\* The calls that waited go out again, or end; the jar holds the new token, or
\* had none to renew.
LEMMA RenewalIsOver ==
  ASSUME BInv, NEW r \in renewals, RenewalReturns(r) \/ LoseRenewal(r)
  PROVE  BInv'
  <1> USE DEF BInv
  <1>1. PICK ok \in BOOLEAN : RenewalEnds(r, ok) /\ (ok => RenewalReturns(r) /\ r.ok)
                             /\ (~ok => LoseRenewal(r) \/ (RenewalReturns(r) /\ ~r.ok))
    <2>1. r.ok \in BOOLEAN
      BY DEF BrowserTyped, RenewalRecords
    <2>2. CASE RenewalReturns(r)
      BY <2>1, <2>2 DEF RenewalReturns
    <2>3. CASE LoseRenewal(r)
      BY <2>3, Zenon DEF LoseRenewal
    <2> QED
      BY <2>2, <2>3
  <1>2. /\ r \in RenewalRecords /\ renewals' = renewals \ {r} /\ UNCHANGED <<live, issued, alarmed>>
        /\ jar' = IF ok THEN [access |-> TRUE, token |-> r.grants] ELSE jar
    BY <1>1, Zenon DEF RenewalEnds, RenewalReturns, LoseRenewal, BrowserTyped
  <1>3. TabRecords' = TabRecords /\ RenewalRecords' = RenewalRecords /\ issued \in Nat
    BY <1>2 DEF TabRecords, RenewalRecords, BrowserTyped
  <1>4. NoTabCall \in TabRecords /\ NoTabCall.at = "idle" /\ NoTabCall.path = "none"
    BY <1>3, FreeSlots
  <1> DEFINE leaving(call) == [call EXCEPT !.at = "sent", !.ok = FALSE, !.access = TRUE,
                                           !.token = r.grants]
  <1>5. \A call \in TabRecords :
          /\ leaving(call) \in TabRecords /\ leaving(call).at = "sent" /\ leaving(call).access
          /\ leaving(call).tab = call.tab /\ leaving(call).path = call.path
    <2>1. r.grants \in 0..issued
      BY <1>2 DEF RenewalRecords
    <2> QED
      BY <2>1 DEF TabRecords
  <1>6. calls' = [c \in TabCalls |->
           IF ~(calls[c].at = "waiting" /\ calls[c].tab = r.tab) THEN calls[c]
           ELSE IF ok THEN leaving(calls[c]) ELSE NoTabCall]
    BY <1>1 DEF RenewalEnds
  <1> HIDE DEF leaving
  <1>7. \A c \in TabCalls :
          \/ calls'[c] = calls[c]
          \/ calls[c].at = "waiting" /\ ok /\ calls'[c] = leaving(calls[c])
          \/ calls[c].at = "waiting" /\ ~ok /\ calls'[c] = NoTabCall
    BY <1>6
  <1>8. \A c \in TabCalls : calls[c] \in TabRecords /\ InUse(calls[c])
    BY DEF BrowserTyped, InUse
  <1>9. \A c \in TabCalls : /\ calls'[c] \in TabRecords' /\ InUse(calls'[c])
                            /\ calls'[c].path = calls[c].path \/ calls'[c].path = "none"
    BY <1>3, <1>4, <1>5, <1>7, <1>8 DEF InUse
  <1>10. jar' \in [access : BOOLEAN, token : 0..issued]
    BY <1>2 DEF BrowserTyped, RenewalRecords
  <1>11. screen' \in [Tabs -> {"loading", "in", "out"}] /\ (ok => screen' = screen)
    BY <1>1 DEF RenewalEnds, BrowserTyped
  <1>12. BrowserTyped'
    <2>1. calls' \in [TabCalls -> TabRecords']
      BY <1>6, <1>9
    <2> QED
      BY <1>2, <1>3, <1>9, <1>10, <1>11, <2>1 DEF BrowserTyped, InUse
  <1>13. RetriesAreRenewed'
    BY <1>4, <1>5, <1>7, <1>8 DEF RetriesAreRenewed
  <1>14. crossed => crossed'
    BY DEF RenewalReturns, LoseRenewal
  <1>15. ASSUME ~crossed'
         PROVE  ~alarmed' /\ ~denied' /\ OneRenewal' /\ GrantsAreNew' /\ JarIsLive'
    <2>1. ~crossed /\ ~alarmed' /\ ~denied /\ OneRenewal /\ JarIsLive
      BY <1>2, <1>14, <1>15
    <2>2. renewals = {r} /\ renewals' = {} /\ Entering = {}
      BY <1>2, <2>1 DEF OneRenewal
    <2>3. Entering' = {} /\ Logins' = {} /\ Logouts = {}
      BY <1>9, <2>2, InSlots DEF Entering, Logins, Logouts
    <2>4. OneRenewal' /\ GrantsAreNew'
      BY <2>2, <2>3 DEF OneRenewal, GrantsAreNew
    <2>5. CASE ok
      <3>1. r.at = "answered" /\ r.ok /\ ~denied'
        BY <1>1, <2>1, <2>5 DEF RenewalReturns
      <3>2. r.grants \in live /\ jar'.token = r.grants
        BY <1>2, <2>1, <2>5, <3>1 DEF OneRenewal
      <3> QED
        BY <1>2, <2>1, <2>4, <3>1, <3>2 DEF JarIsLive
    <2>6. CASE ~ok
      <3>1. jar' = jar
        BY <1>2, <2>6
      <3>2. CASE LoseRenewal(r)
        <4>1. r.at = "sent" /\ denied' = denied
          BY <1>15, <2>1, <3>2 DEF LoseRenewal, BrowserTyped, RenewalRecords
        <4>2. jar.token \in live \union {0}
          BY <2>1, <4>1 DEF OneRenewal
        <4> QED
          BY <1>2, <2>1, <2>4, <3>1, <4>1, <4>2 DEF JarIsLive
      <3>3. CASE RenewalReturns(r) /\ ~r.ok
        <4>1. jar.token = 0
          BY <2>1, <3>3 DEF OneRenewal, RenewalReturns
        <4>2. 0 \notin live
          BY DEF BrowserTyped
        <4>3. ~denied'
          BY <2>1, <3>3, <4>1, <4>2 DEF RenewalReturns
        <4> QED
          BY <1>2, <2>1, <2>4, <3>1, <4>1, <4>3 DEF JarIsLive
      <3> QED
        BY <1>1, <2>6, <3>2, <3>3
    <2> QED
      BY <2>5, <2>6
  <1>16. ASSUME ~crossed', ~unheard'
         PROVE  SomeTabKnows'
    <2>1. RenewalReturns(r)
      BY <1>1, <1>16 DEF LoseRenewal
    <2>2. ~crossed /\ ~unheard /\ OneRenewal /\ SomeTabKnows /\ r.at = "answered"
      BY <1>14, <1>16, <2>1 DEF RenewalReturns
    <2>3. CASE ok
      <3>1. jar.token # 0
        BY <1>1, <2>2, <2>3 DEF OneRenewal
      <3>2. \A c \in TabCalls : calls'[c].path = calls[c].path /\ calls'[c].tab = calls[c].tab
        BY <1>5, <1>7, <1>8, <2>3
      <3> QED
        BY <1>11, <2>2, <2>3, <3>1, <3>2 DEF SomeTabKnows
    <2>4. CASE ~ok
      <3>1. jar'.token = 0
        BY <1>1, <1>2, <2>2, <2>4, <1>16 DEF OneRenewal, LoseRenewal
      <3> QED
        BY <3>1 DEF SomeTabKnows
    <2> QED
      BY <2>3, <2>4
  <1> QED
    BY <1>12, <1>13, <1>15, <1>16

LEMMA BrowserStep ==
  ASSUME BInv, [BrowserNext]_browserVars
  PROVE  BInv'
  BY RequestLeaves, CookieExpires, CallIsServed, CallSucceeds, CallIsRefused, TabCallIsLost,
     RenewalIsServed, RenewalIsOver, BrowserStands DEF BrowserNext, CallReturns

-----------------------------------------------------------------------------
\* BrowserSession's types.

\* A rotation is its caller's, who waits for it, and a tab has one at a time.
CallersWait ==
  /\ \A r \in renewals : calls[r.by].at = "waiting" /\ calls[r.by].tab = r.tab
  /\ \A r, s \in renewals : r.tab = s.tab => r = s

LEMMA CallersStart ==
  ASSUME BrowserInit
  PROVE  CallersWait
  BY DEF BrowserInit, CallersWait

\* A call that waits is nobody else's step.
LEMMA CallersStay ==
  ASSUME CallersWait, BrowserTyped, renewals' \subseteq renewals,
         \A r \in renewals' : calls'[r.by] = calls[r.by]
  PROVE  CallersWait'
  BY DEF CallersWait

LEMMA SlotOfNoRenewal ==
  ASSUME CallersWait, BrowserTyped, UNCHANGED renewals, NEW c \in TabCalls, calls[c].at # "waiting",
         \A d \in TabCalls : d # c => calls'[d] = calls[d]
  PROVE  CallersWait'
  <1>1. \A r \in renewals : r.by \in TabCalls
    BY DEF BrowserTyped, RenewalRecords
  <1> QED
    BY <1>1 DEF CallersWait

\* What a rotation that is over leaves of the others.
LEMMA RotationIsOver ==
  ASSUME CallersWait, BrowserTyped, NEW r \in renewals, NEW ok, RenewalEnds(r, ok)
  PROVE  CallersWait'
  <1>1. renewals' = renewals \ {r}
    BY DEF RenewalEnds
  <1>2. ASSUME NEW s \in renewals' PROVE calls'[s.by] = calls[s.by]
    <2>1. s \in renewals /\ s # r /\ s.tab # r.tab /\ calls[s.by].tab = s.tab /\ s.by \in TabCalls
      BY <1>1 DEF CallersWait, BrowserTyped, RenewalRecords
    <2>2. s.by \notin {c \in TabCalls : calls[c].at = "waiting" /\ calls[c].tab = r.tab}
      BY <2>1
    <2> QED
      BY <2>1, <2>2 DEF RenewalEnds
  <1> QED
    BY <1>1, <1>2, CallersStay

LEMMA CallersGoOn ==
  ASSUME BInv, CallersWait, [BrowserNext]_browserVars
  PROVE  CallersWait'
  <1>0. BrowserTyped
    BY DEF BInv
  <1>1. CASE UNCHANGED browserVars
    BY <1>1 DEF browserVars, CallersWait
  <1>2. ASSUME NEW c \in TabCalls, NEW t \in Tabs,
               UsePage(c, t) \/ Enter(c, t, "login") \/ Enter(c, t, "logout")
        PROVE  CallersWait'
    <2>1. UNCHANGED renewals /\ calls[c].at # "waiting" /\ \A d \in TabCalls : d # c => calls'[d] = calls[d]
      BY <1>0, <1>2 DEF UsePage, Enter, Free, NoTabCall, BrowserTyped
    <2> QED
      BY <1>0, <2>1, SlotOfNoRenewal
  <1>3. CASE AccessExpires
    BY <1>3 DEF AccessExpires, CallersWait
  <1>4. ASSUME NEW c \in TabCalls, ServeCall(c) \/ LoseTabCall(c)
        PROVE  CallersWait'
    <2>1. UNCHANGED renewals /\ calls[c].at # "waiting"
      BY <1>4 DEF ServeCall, LoseTabCall
    <2>2. \A d \in TabCalls : d # c => calls'[d] = calls[d]
      BY <1>0, <1>4 DEF ServeCall, LoseTabCall, BrowserTyped
    <2> QED
      BY <1>0, <2>1, <2>2, SlotOfNoRenewal
  <1>5. ASSUME NEW c \in TabCalls, CallReturns(c)
        PROVE  CallersWait'
    <2>1. calls[c].at = "answered" /\ calls[c] \in TabRecords /\ calls[c].tab \in Tabs
      BY <1>0, <1>5 DEF CallReturns, BrowserTyped
    <2>2. CASE UNCHANGED renewals
      <3>1. \A d \in TabCalls : d # c => calls'[d] = calls[d]
        BY <1>0, <1>5 DEF CallReturns, Succeeds, Refused401, BrowserTyped
      <3> QED
        BY <1>0, <2>1, <2>2, <3>1, SlotOfNoRenewal
    <2>3. CASE renewals' # renewals
      <3>1. /\ calls' = [calls EXCEPT ![c].at = "waiting", ![c].retried = TRUE] /\ Renew(c)
        BY <1>5, <2>3 DEF CallReturns, Succeeds, Refused401
      <3>2. /\ calls'[c].at = "waiting" /\ calls'[c].tab = calls[c].tab
            /\ \A d \in TabCalls : d # c => calls'[d] = calls[d]
        BY <1>0, <2>1, <3>1 DEF BrowserTyped, TabRecords
      <3>3. PICK new : /\ new.by = c /\ new.tab = calls[c].tab /\ renewals' = renewals \union {new}
                       /\ \A r \in renewals : r.tab # calls[c].tab
        BY <2>3, <3>1 DEF Renew, Renewing
      <3>4. \A r \in renewals : r.by \in TabCalls /\ r.by # c
        BY <1>0, <2>1 DEF CallersWait, BrowserTyped, RenewalRecords
      <3> QED
        BY <3>2, <3>3, <3>4 DEF CallersWait
    <2> QED
      BY <2>2, <2>3
  <1>6. ASSUME NEW r \in renewals, ServeRenewal(r)
        PROVE  CallersWait'
    <2>1. PICK ok, grants : renewals' = (renewals \ {r})
             \union {[r EXCEPT !.at = "answered", !.ok = ok, !.grants = grants]}
      BY <1>6 DEF ServeRenewal
    <2>2. PICK new : new.by = r.by /\ new.tab = r.tab /\ renewals' = (renewals \ {r}) \union {new}
      <3> DEFINE new == [r EXCEPT !.at = "answered", !.ok = ok, !.grants = grants]
      <3>1. new.by = r.by /\ new.tab = r.tab
        BY <1>0 DEF BrowserTyped, RenewalRecords
      <3>2. renewals' = (renewals \ {r}) \union {new}
        BY <2>1
      <3> HIDE DEF new
      <3> QED
        BY <3>1, <3>2
    <2>3. UNCHANGED calls
      BY <1>6 DEF ServeRenewal
    <2> QED
      BY <2>2, <2>3 DEF CallersWait
  <1>7. ASSUME NEW r \in renewals, RenewalReturns(r) \/ LoseRenewal(r)
        PROVE  CallersWait'
    BY <1>0, <1>7, RotationIsOver DEF RenewalReturns, LoseRenewal
  <1> QED
    BY <1>1, <1>2, <1>3, <1>4, <1>5, <1>6, <1>7 DEF BrowserNext

LEMMA BrowserIsTyped ==
  ASSUME BInv, CallersWait
  PROVE  BrowserTypeOK
  <1>1. BrowserTyped
    BY DEF BInv
  <1>2. Cardinality(renewals) <= Cardinality(TabCalls)
    <2> DEFINE caller == [r \in renewals |-> r.by]
    <2>1. \A r \in renewals : r.by \in TabCalls
      BY <1>1 DEF BrowserTyped, RenewalRecords
    <2>2. \A r, s \in renewals : r.by = s.by => r = s
      BY DEF CallersWait
    <2>3. caller \in Injection(renewals, TabCalls)
      BY <2>1, <2>2 DEF Injection, IsInjective
    <2> QED
      BY <2>3, BrowserAssumption, FS_Injection
  <1> QED
    BY <1>1, <1>2 DEF BrowserTyped, TabRecords, BrowserTypeOK

-----------------------------------------------------------------------------
\* FinancePages.  The figures on screen are those of the newest question, whatever
\* else is on its way.

\* What can be asked for.
FinanceQueries ==
  [period : Periods \union {"custom"}, range : CustomRanges \union {NoRange},
   granularity : Granularities]

FinanceTyped ==
  /\ today \in FinanceDays /\ booked \in Books
  /\ asked \in FinanceQueries /\ requestId \in Nat \ {0} /\ choices \in 0..MaxChoices
  /\ loads \subseteq [id : 1..requestId, query : FinanceQueries]

NewestIsOut == \E load \in loads : load.id = requestId

\* The newest request is for what is chosen, and its answer is waited for.
FinanceFits ==
  /\ \A load, other \in loads : load.id = other.id => load = other
  /\ \A load \in loads : load.id = requestId => load.query = asked
  /\ NewestIsOut <=> isLoading \/ isTrendLoading
  /\ ~failedSince =>
       /\ ~NewestIsOut => figures = asked
       /\ ~isLoading => figures.period = asked.period /\ figures.range = asked.range

VInv == FinanceTyped /\ FinanceFits

LEMMA FiguresAreAsked ==
  ASSUME FinanceInit
  PROVE  VInv
  <1>1. /\ today \in FinanceDays /\ booked \in Books
        /\ asked = [period |-> "month", range |-> NoRange, granularity |-> "30d"]
        /\ requestId = 1 /\ loads = {[id |-> 1, query |-> asked]} /\ isLoading
        /\ choices \in 0..MaxChoices
    BY FinanceAssumption DEF FinanceInit
  <1>2. asked \in FinanceQueries
    BY <1>1 DEF FinanceQueries, Periods, Granularities
  <1>3. [id |-> 1, query |-> asked].id = 1 /\ [id |-> 1, query |-> asked].query = asked
        /\ [id |-> 1, query |-> asked] \in [id : 1..1, query : FinanceQueries]
    BY <1>2
  <1>4. NewestIsOut
    BY <1>1, <1>3 DEF NewestIsOut
  <1>5. FinanceTyped
    BY <1>1, <1>2, <1>3 DEF FinanceTyped
  <1> QED
    BY <1>1, <1>3, <1>4, <1>5 DEF VInv, FinanceFits

LEMMA LoadStarts ==
  ASSUME VInv, NEW query \in FinanceQueries, asked' = query, LoadFigures(query),
         UNCHANGED <<today, booked, figures, failedSince>>, choices' \in 0..MaxChoices,
         trendOnly' => query.period = asked.period /\ query.range = asked.range
  PROVE  VInv'
  <1>1. requestId \in Nat \ {0} /\ requestId' = requestId + 1
    BY DEF VInv, FinanceTyped, LoadFigures
  <1>2. FinanceQueries' = FinanceQueries
    BY DEF FinanceQueries, NoRange
  <1>3. PICK n \in Nat \ {0} : n = requestId'
    BY <1>1
  <1>4. PICK new \in [id : 1..n, query : FinanceQueries] :
          new.id = n /\ new.query = query /\ loads' = loads \union {new}
    <2> DEFINE new == [id |-> n, query |-> query]
    <2>1. new \in [id : 1..n, query : FinanceQueries] /\ new.id = n /\ new.query = query
      BY <1>3
    <2>2. loads' = loads \union {new}
      BY <1>3 DEF LoadFigures
    <2> HIDE DEF new
    <2> QED
      BY <2>1, <2>2
  <1>5. \A load \in loads : load \in [id : 1..n, query : FinanceQueries] /\ load.id # n
    BY <1>1, <1>3 DEF VInv, FinanceTyped
  <1>6. FinanceTyped'
    BY <1>2, <1>3, <1>4, <1>5 DEF VInv, FinanceTyped
  <1>7. NewestIsOut'
    BY <1>3, <1>4 DEF NewestIsOut
  <1>8. (isLoading' \/ isTrendLoading') /\ (~isLoading' => trendOnly' /\ ~isLoading)
    BY DEF LoadFigures
  <1>9. \A load, other \in loads' : load.id = other.id => load = other
    BY <1>4, <1>5 DEF VInv, FinanceFits
  <1>10. \A load \in loads' : load.id = requestId' => load.query = asked'
    BY <1>3, <1>4, <1>5
  <1>11. ~failedSince' /\ ~isLoading' => figures'.period = asked'.period /\ figures'.range = asked'.range
    BY <1>8 DEF VInv, FinanceFits
  <1> QED
    BY <1>6, <1>7, <1>8, <1>9, <1>10, <1>11 DEF VInv, FinanceFits

LEMMA FiguresStay ==
  ASSUME VInv, UNCHANGED <<today, booked, asked, figures, failedSince>>, Settled,
         choices' \in 0..MaxChoices
  PROVE  VInv'
  <1>1. FinanceQueries' = FinanceQueries
    BY DEF FinanceQueries, NoRange
  <1> QED
    BY <1>1 DEF Settled, VInv, FinanceTyped, FinanceFits, NewestIsOut

LEMMA ChoicesCounted ==
  ASSUME VInv, Choose
  PROVE  choices' \in 0..MaxChoices
  BY FinanceAssumption DEF VInv, FinanceTyped, Choose

LEMMA QueryIsAsked ==
  ASSUME VInv, Choose, NEW query \in FinanceQueries, Ask(query),
         trendOnly' => query.period = asked.period /\ query.range = asked.range
  PROVE  VInv'
  <1>1. CASE query # asked
    BY <1>1, ChoicesCounted, LoadStarts DEF Ask
  <1>2. CASE query = asked
    BY <1>2, ChoicesCounted, FiguresStay DEF Ask
  <1> QED
    BY <1>1, <1>2

LEMMA PeriodIsChosen ==
  ASSUME VInv, NEW p \in Periods \union {"custom"}, NEW range \in CustomRanges \union {NoRange},
         Choose, ~trendOnly', Ask([asked EXCEPT !.period = p, !.range = range])
  PROVE  VInv'
  <1>1. PICK query \in FinanceQueries : query = [asked EXCEPT !.period = p, !.range = range]
    BY DEF VInv, FinanceTyped, FinanceQueries
  <1> QED
    BY <1>1, QueryIsAsked

LEMMA FinanceGoesOn ==
  ASSUME VInv, [FinanceNext]_financeVars
  PROVE  VInv'
  <1>1. CASE UNCHANGED financeVars
    <2>1. choices \in 0..MaxChoices
      BY DEF VInv, FinanceTyped
    <2> QED
      BY <1>1, <2>1, FiguresStay DEF financeVars, Settled
  <1>2. ASSUME NEW p \in Periods, SetPeriod(p) PROVE VInv'
    <2>1. p \in Periods \union {"custom"} /\ NoRange \in CustomRanges \union {NoRange}
      OBVIOUS
    <2> QED
      BY <1>2, <2>1, PeriodIsChosen DEF SetPeriod
  <1>3. ASSUME NEW range \in CustomRanges, SetCustomRange(range) PROVE VInv'
    <2>1. "custom" \in Periods \union {"custom"} /\ range \in CustomRanges \union {NoRange}
      OBVIOUS
    <2> QED
      BY <1>3, <2>1, PeriodIsChosen DEF SetCustomRange
  <1>4. ASSUME NEW g \in Granularities, SetGranularity(g) PROVE VInv'
    <2>1. PICK query \in FinanceQueries : /\ query = [asked EXCEPT !.granularity = g]
                                          /\ query.period = asked.period /\ query.range = asked.range
      <3> DEFINE query == [asked EXCEPT !.granularity = g]
      <3>1. query \in FinanceQueries /\ query.period = asked.period /\ query.range = asked.range
        BY DEF VInv, FinanceTyped, FinanceQueries
      <3> QED
        BY <3>1
    <2> QED
      BY <1>4, <2>1, QueryIsAsked DEF SetGranularity
  <1>5. ASSUME Retry PROVE VInv'
    <2>1. asked \in FinanceQueries
      BY DEF VInv, FinanceTyped
    <2> QED
      BY <1>5, <2>1, ChoicesCounted, LoadStarts DEF Retry
  <1>6. ASSUME NEW load \in loads, NEW ok \in BOOLEAN, FiguresArrive(load, ok) PROVE VInv'
    <2>1. /\ loads' = loads \ {load} /\ UNCHANGED <<today, booked, asked, requestId, choices>>
          /\ FinanceQueries' = FinanceQueries
      BY <1>6 DEF FiguresArrive, FinanceQueries, NoRange
    <2>2. FinanceTyped'
      BY <2>1 DEF VInv, FinanceTyped
    <2>3. CASE load.id # requestId
      <3>1. UNCHANGED <<figures, isLoading, isTrendLoading, failedSince>>
        BY <1>6, <2>3 DEF FiguresArrive
      <3>2. NewestIsOut' <=> NewestIsOut
        BY <2>1, <2>3 DEF NewestIsOut
      <3> QED
        BY <2>1, <2>2, <3>1, <3>2 DEF VInv, FinanceFits
    <2>4. CASE load.id = requestId
      <3>1. /\ ok => figures' = load.query
            /\ ~isLoading' /\ ~isTrendLoading' /\ (failedSince' <=> ~ok)
        BY <1>6, <2>4 DEF FiguresArrive
      <3>2. ~NewestIsOut' /\ load.query = asked
        BY <2>1, <2>4 DEF NewestIsOut, VInv, FinanceFits
      <3> QED
        BY <2>1, <2>2, <3>1, <3>2 DEF VInv, FinanceFits
    <2> QED
      BY <2>3, <2>4
  <1> QED
    BY <1>1, <1>2, <1>3, <1>4, <1>5, <1>6 DEF FinanceNext

LEMMA FiguresAreRight ==
  ASSUME VInv
  PROVE  FinanceTypeOK /\ FiguresSettle
  <1>1. FinanceTypeOK
    BY DEF VInv, FinanceTyped, FinanceQueries, FinanceTypeOK
  <1>2. ~failedSince => (~isLoading => figures.period = asked.period /\ figures.range = asked.range)
    BY DEF VInv, FinanceFits
  <1>3. ~failedSince => (~NewestIsOut => figures = asked)
    BY DEF VInv, FinanceFits
  <1>4. (loads = {} => ~NewestIsOut) /\ (~isLoading /\ ~isTrendLoading => ~NewestIsOut)
    BY DEF NewestIsOut, VInv, FinanceFits
  <1> QED
    BY <1>1, <1>2, <1>3, <1>4 DEF FiguresSettle, TilesShown, ChartShown

-----------------------------------------------------------------------------
\* FinancePages adds up.  Over every book: the chart's buckets hold each movement of
\* their window once, and the tiles, the donut and the arrows agree with them.

\* Where a day of the books stands among the months.
LEMMA MovementsAreDated ==
  ASSUME NEW x, IsMovement(x)
  PROVE  /\ x.month \in Nat /\ x.amount \in Nat /\ DayNumber(x) \in Int
         /\ Offset(x.month) \in Int
         /\ Offset(x.month) + 1 <= DayNumber(x)
         /\ DayNumber(x) <= Offset(x.month) + DaysInMonth(x.month)
  <1> DEFINE d == [month |-> x.month, day |-> x.day]
  <1>1. IsDate(d) /\ x.amount \in Nat
    BY DEF IsMovement
  <1>2. d.month = x.month /\ d.day = x.day
    OBVIOUS
  <1>3. DayNumber(x) = DayNumber(d)
    BY <1>2 DEF DayNumber
  <1> HIDE DEF d
  <1>4. /\ d.month \in Nat /\ d.day \in 1..DaysInMonth(d.month) /\ DaysInMonth(d.month) \in 28..31
        /\ Offset(d.month) \in Int /\ DayNumber(d) = Offset(d.month) + d.day /\ DayNumber(d) \in Int
    BY <1>1, DayNumberOfDate
  <1> QED
    BY <1>1, <1>2, <1>3, <1>4

LEMMA MonthsStart ==
  ASSUME NEW k \in Nat
  PROVE  StartOfMonth(k) = Offset(k) + 1 /\ Offset(k) \in Int
  <1>1. 1 \in Int
    OBVIOUS
  <1> QED
    BY <1>1, DayNumberOfOffset DEF StartOfMonth

\* A day is in a month or a later one when the month has begun.
LEMMA MonthsHoldTheirDays ==
  ASSUME NEW x, IsMovement(x), NEW k \in Nat
  PROVE  StartOfMonth(k) <= DayNumber(x) <=> k <= x.month
  <1>1. /\ x.month \in Nat /\ DayNumber(x) \in Int /\ Offset(x.month) \in Int
        /\ Offset(x.month) + 1 <= DayNumber(x)
        /\ DayNumber(x) <= Offset(x.month) + DaysInMonth(x.month)
        /\ StartOfMonth(k) = Offset(k) + 1 /\ Offset(k) \in Int
    BY MovementsAreDated, MonthsStart
  <1>2. DaysInMonth(k) \in 28..31 /\ DaysInMonth(x.month) \in 28..31
    BY <1>1, MonthLength
  <1>3. CASE x.month < k
    <2>1. Offset(x.month) + DaysInMonth(x.month) <= Offset(k)
      BY <1>1, <1>3, MonthsInOrder
    <2> QED
      BY <1>1, <1>2, <1>3, <2>1
  <1>4. CASE k = x.month
    BY <1>1, <1>4
  <1>5. CASE k < x.month
    <2>1. Offset(k) + DaysInMonth(k) <= Offset(x.month)
      BY <1>1, <1>5, MonthsInOrder
    <2> QED
      BY <1>1, <1>2, <1>5, <2>1
  <1> QED
    BY <1>1, <1>3, <1>4, <1>5

LEMMA MonthsStartApart ==
  ASSUME NEW j \in Nat, NEW k \in Nat, StartOfMonth(j) = StartOfMonth(k)
  PROVE  j = k
  <1>1. /\ StartOfMonth(j) = Offset(j) + 1 /\ StartOfMonth(k) = Offset(k) + 1
        /\ Offset(j) \in Int /\ Offset(k) \in Int
        /\ DaysInMonth(j) \in 28..31 /\ DaysInMonth(k) \in 28..31
    BY MonthsStart, MonthLength
  <1>2. (j < k => Offset(j) + DaysInMonth(j) <= Offset(k)) /\ (k < j => Offset(k) + DaysInMonth(k) <= Offset(j))
    BY MonthsInOrder
  <1>3. Offset(j) = Offset(k)
    <2>1. PICK a \in Int, b \in Int : a = Offset(j) /\ b = Offset(k)
      BY <1>1
    <2>2. StartOfMonth(j) = a + 1 /\ StartOfMonth(k) = b + 1
      BY <1>1, <2>1
    <2>3. a + 1 = b + 1
      BY <2>2
    <2> QED
      BY <2>1, <2>3
  <1>4. ~(j < k) /\ ~(k < j)
    BY <1>1, <1>2, <1>3
  <1> QED
    BY <1>3, <1>4

-----------------------------------------------------------------------------
\* What is read off a set of movements.
Entries(s) == IsFiniteSet(s) /\ \A x \in s : IsMovement(x)

LEMMA EntriesOfABook ==
  ASSUME FinanceTyped, NEW s \in SUBSET booked
  PROVE  Entries(s)
  <1>1. IsFiniteSet(booked) /\ \A x \in booked : IsMovement(x)
    BY FinanceAssumption DEF FinanceTyped
  <1>2. IsFiniteSet(s)
    BY <1>1, FS_Subset
  <1> QED
    BY <1>1, <1>2 DEF Entries

EarnedBy(s) == [x \in s |-> IF x.in THEN x.amount ELSE 0]
SpentBy(s) == [x \in s |-> IF x.in THEN 0 ELSE x.amount]

LEMMA SumsOfMovements ==
  ASSUME NEW s, Entries(s)
  PROVE  /\ Income(s) = SumFunctionOnSet(EarnedBy(s), s) /\ Expenses(s) = SumFunctionOnSet(SpentBy(s), s)
         /\ \A x \in s : EarnedBy(s)[x] \in Nat /\ SpentBy(s)[x] \in Nat
         /\ Income(s) \in Nat /\ Expenses(s) \in Nat
  <1>1. Income(s) = SumFunctionOnSet(EarnedBy(s), s) /\ Expenses(s) = SumFunctionOnSet(SpentBy(s), s)
    BY DEF Income, Expenses, SumFunction, EarnedBy, SpentBy
  <1>2. \A x \in s : EarnedBy(s)[x] \in Nat /\ SpentBy(s)[x] \in Nat
    BY MovementsAreDated DEF Entries, EarnedBy, SpentBy
  <1>3. SumFunctionOnSet(EarnedBy(s), s) \in Nat /\ SumFunctionOnSet(SpentBy(s), s) \in Nat
    BY <1>2, SumNat DEF Entries
  <1> QED
    BY <1>1, <1>2, <1>3

\* Movements told apart by a key are counted once each.
LEMMA IncomeByKey ==
  ASSUME NEW s, Entries(s), NEW K, IsFiniteSet(K), NEW key, \A x \in s : key[x] \in K,
         NEW g, \A k \in K : g[k] = Income({x \in s : key[x] = k})
  PROVE  SumFunctionOnSet(g, K) = Income(s)
  <1>1. ASSUME NEW k \in K
        PROVE  g[k] = SumFunctionOnSet(EarnedBy(s), {x \in s : key[x] = k})
    <2> DEFINE part == {x \in s : key[x] = k}
    <2>1. IsFiniteSet(part) /\ Entries(part)
      BY FS_Subset DEF Entries
    <2>2. \A x \in part : EarnedBy(part)[x] = EarnedBy(s)[x]
      BY DEF EarnedBy
    <2>3. g[k] = Income(part)
      OBVIOUS
    <2> HIDE DEF part
    <2>4. Income(part) = SumFunctionOnSet(EarnedBy(part), part)
      BY <2>1, SumsOfMovements
    <2>5. SumFunctionOnSet(EarnedBy(part), part) = SumFunctionOnSet(EarnedBy(s), part)
      BY <2>1, <2>2, SumSame
    <2> QED
      BY <2>3, <2>4, <2>5 DEF part
  <1>2. IsFiniteSet(s) /\ \A x \in s : EarnedBy(s)[x] \in Int
    BY SumsOfMovements DEF Entries
  <1>3. SumFunctionOnSet(g, K) = SumFunctionOnSet(EarnedBy(s), s)
    <2>1. PICK f, part : f = EarnedBy(s) /\ part = [k \in K |-> {x \in s : key[x] = k}]
      OBVIOUS
    <2>2. \A k \in K : /\ g[k] = SumFunctionOnSet(f, part[k]) /\ part[k] \subseteq s
                        /\ \A x \in s : x \in part[k] <=> key[x] = k
      BY <1>1, <2>1
    <2>3. IsFiniteSet(s) /\ \A x \in s : f[x] \in Int
      BY <1>2, <2>1
    <2>4. SumFunctionOnSet(g, K) = SumFunctionOnSet(f, s)
      BY <2>2, <2>3, SumByKey
    <2> QED
      BY <2>1, <2>4
  <1> QED
    BY <1>3, SumsOfMovements

LEMMA ExpensesByKey ==
  ASSUME NEW s, Entries(s), NEW K, IsFiniteSet(K), NEW key, \A x \in s : key[x] \in K,
         NEW g, \A k \in K : g[k] = Expenses({x \in s : key[x] = k})
  PROVE  SumFunctionOnSet(g, K) = Expenses(s)
  <1>1. ASSUME NEW k \in K
        PROVE  g[k] = SumFunctionOnSet(SpentBy(s), {x \in s : key[x] = k})
    <2> DEFINE part == {x \in s : key[x] = k}
    <2>1. IsFiniteSet(part) /\ Entries(part)
      BY FS_Subset DEF Entries
    <2>2. \A x \in part : SpentBy(part)[x] = SpentBy(s)[x]
      BY DEF SpentBy
    <2>3. g[k] = Expenses(part)
      OBVIOUS
    <2> HIDE DEF part
    <2>4. Expenses(part) = SumFunctionOnSet(SpentBy(part), part)
      BY <2>1, SumsOfMovements
    <2>5. SumFunctionOnSet(SpentBy(part), part) = SumFunctionOnSet(SpentBy(s), part)
      BY <2>1, <2>2, SumSame
    <2> QED
      BY <2>3, <2>4, <2>5 DEF part
  <1>2. IsFiniteSet(s) /\ \A x \in s : SpentBy(s)[x] \in Int
    BY SumsOfMovements DEF Entries
  <1>3. SumFunctionOnSet(g, K) = SumFunctionOnSet(SpentBy(s), s)
    <2>1. PICK f, part : f = SpentBy(s) /\ part = [k \in K |-> {x \in s : key[x] = k}]
      OBVIOUS
    <2>2. \A k \in K : /\ g[k] = SumFunctionOnSet(f, part[k]) /\ part[k] \subseteq s
                        /\ \A x \in s : x \in part[k] <=> key[x] = k
      BY <1>1, <2>1
    <2>3. IsFiniteSet(s) /\ \A x \in s : f[x] \in Int
      BY <1>2, <2>1
    <2>4. SumFunctionOnSet(g, K) = SumFunctionOnSet(f, s)
      BY <2>2, <2>3, SumByKey
    <2> QED
      BY <2>1, <2>4
  <1> QED
    BY <1>3, SumsOfMovements

\* Only what went out is spent.
LEMMA ExpensesOfWhatWentOut ==
  ASSUME NEW s, Entries(s)
  PROVE  Expenses({x \in s : ~x.in}) = Expenses(s)
  <1> DEFINE out == {x \in s : ~x.in}
             came == s \ out
  <1>1. IsFiniteSet(out) /\ IsFiniteSet(came) /\ Entries(out)
    BY FS_Subset DEF Entries
  <1>2. /\ \A x \in out : SpentBy(out)[x] = SpentBy(s)[x]
        /\ \A x \in came : SpentBy(s)[x] = 0
    BY DEF SpentBy
  <1>3. out \union came = s /\ out \intersect came = {} /\ \A x \in s : SpentBy(s)[x] \in Int
    BY SumsOfMovements
  <1> HIDE DEF out, came
  <1>4. SumFunctionOnSet(SpentBy(s), out \union came)
          = SumFunctionOnSet(SpentBy(s), out) + SumFunctionOnSet(SpentBy(s), came)
    BY <1>1, <1>3, SumSplits
  <1>5. SumFunctionOnSet(SpentBy(s), came) = 0
    BY <1>1, <1>2, SumOfZeros
  <1>6. SumFunctionOnSet(SpentBy(out), out) = SumFunctionOnSet(SpentBy(s), out)
    BY <1>1, <1>2, SumSame
  <1>7. Expenses(out) = SumFunctionOnSet(SpentBy(out), out) /\ Expenses(out) \in Nat
    BY <1>1, SumsOfMovements
  <1>8. Expenses(s) = SumFunctionOnSet(SpentBy(s), out \union came)
    BY <1>3, SumsOfMovements
  <1>9. Expenses(out) = Expenses(s)
    BY <1>4, <1>5, <1>6, <1>7, <1>8
  <1> QED
    BY <1>9 DEF out

-----------------------------------------------------------------------------
\* The windows of the chart.
LEMMA LeastOfAll ==
  ASSUME NEW S \in SUBSET Int, NEW a \in S, \A y \in S : a <= y
  PROVE  Min(S) = a
  <1>1. Min(S) \in S /\ \A y \in S : Min(S) <= y
    BY DEF Min
  <1>2. Min(S) <= a /\ a <= Min(S) /\ Min(S) \in Int /\ a \in Int
    BY <1>1
  <1> QED
    BY <1>2

\* Days, weeks and months counted back from the last one.
LEMMA CountedBack ==
  ASSUME NEW back, NEW count \in Nat, \A i \in 0..count : back[i] \in Int,
         \A i \in 0..count : back[count] <= back[i], NEW S, S = {back[i] : i \in 0..count}
  PROVE  IsFiniteSet(S) /\ S \subseteq Int /\ Min(S) = back[count]
  <1>1. IsFiniteSet(0..count)
    <2>1. 0 \in Int /\ count \in Int
      OBVIOUS
    <2> QED
      BY <2>1, FS_Interval
  <1>2. IsFiniteSet(S)
    <2> DEFINE f == [i \in 0..count |-> back[i]]
    <2>1. f \in Surjection(0..count, S)
      BY DEF Surjection
    <2> HIDE DEF f
    <2> QED
      BY <1>1, <2>1, FS_Surjection
  <1>3. S \subseteq Int /\ back[count] \in S /\ \A y \in S : back[count] <= y
    OBVIOUS
  <1>4. Min(S) = back[count]
    BY <1>3, LeastOfAll
  <1> QED
    BY <1>2, <1>3, <1>4

\* What the lemmas below say of each granularity.
BucketsHold(g, starts, end) ==
  /\ IsFiniteSet(starts) /\ starts \subseteq Int /\ end \in Int /\ Min(starts) \in Int
  /\ \A x \in booked : Min(starts) <= DayNumber(x) /\ DayNumber(x) < end => BucketOf(x, g) \in starts

LEMMA TodayIsADate ==
  ASSUME FinanceTyped
  PROVE  /\ today.month \in Nat /\ today.month >= 12 /\ DayNumber(today) \in Int
         /\ \A x \in booked : IsMovement(x) /\ DayNumber(x) \in Int /\ x.month \in Nat
  <1>1. IsDate(today) /\ today.month >= 12 /\ \A x \in booked : IsMovement(x)
    BY FinanceAssumption DEF FinanceTyped
  <1> QED
    BY <1>1, DayNumberOfDate, MovementsAreDated

LEMMA DaysHold ==
  ASSUME FinanceTyped, NEW g \in {"7d", "30d"}
  PROVE  BucketsHold(g, TrendWindow(g).starts, TrendWindow(g).end)
  <1>1. PICK n \in Int : n = DayNumber(today)
    BY TodayIsADate
  <1>2. PICK count \in {6, 29} : /\ TrendWindow(g).starts = {n - i : i \in 0..count}
                                 /\ TrendWindow(g).end = n + 1
    <2>1. 7 - 1 = 6 /\ 30 - 1 = 29
      OBVIOUS
    <2>2. CASE g = "7d"
      BY <1>1, <2>1, <2>2 DEF TrendWindow
    <2>3. CASE g = "30d"
      BY <1>1, <2>1, <2>3 DEF TrendWindow
    <2> QED
      BY <2>2, <2>3
  <1> DEFINE back == [i \in 0..count |-> n - i]
             S == {n - i : i \in 0..count}
  <1>3. /\ count \in Nat /\ (\A i \in 0..count : back[i] \in Int /\ back[count] <= back[i])
        /\ back[count] = n - count /\ S = {back[i] : i \in 0..count}
    OBVIOUS
  <1>4. \A d \in Int : n - count <= d /\ d < n + 1 => d \in S
    <2>1. ASSUME NEW d \in Int, n - count <= d, d < n + 1
          PROVE  d \in S
      <3>1. n - d \in 0..count /\ n - (n - d) = d
        BY <2>1
      <3> QED
        BY <3>1
    <2> QED
      BY <2>1
  <1> HIDE DEF back, S
  <1>5. IsFiniteSet(S) /\ S \subseteq Int /\ Min(S) = n - count
    BY <1>3, CountedBack
  <1>6. \A x \in booked : DayNumber(x) \in Int /\ BucketOf(x, g) = DayNumber(x)
    BY TodayIsADate DEF BucketOf
  <1>7. BucketsHold(g, S, n + 1)
    <2>1. n + 1 \in Int /\ n - count \in Int
      BY <1>3
    <2> QED
      BY <1>4, <1>5, <1>6, <2>1 DEF BucketsHold
  <1> QED
    BY <1>2, <1>7 DEF S

LEMMA WeekDays ==
  ASSUME NEW d \in Int
  PROVE  \E q \in Int, r \in 0..6 : d + 4 = 7 * q + r /\ (d + 4) % 7 = r
  <1>1. d + 4 = 7 * ((d + 4) \div 7) + ((d + 4) % 7) /\ (d + 4) % 7 \in 0..6
        /\ (d + 4) \div 7 \in Int
    OBVIOUS
  <1> QED
    BY <1>1

LEMMA WeeksHold ==
  ASSUME FinanceTyped
  PROVE  BucketsHold("3m", TrendWindow("3m").starts, TrendWindow("3m").end)
  <1>1. PICK n \in Int : n = DayNumber(today)
    BY TodayIsADate
  <1>2. PICK monday \in Int, w \in Int : monday = StartOfWeek(n) /\ monday + 4 = 7 * w
    <2>1. PICK q \in Int, r \in 0..6 : n + 4 = 7 * q + r /\ (n + 4) % 7 = r
      BY WeekDays
    <2>2. n - r \in Int /\ n - r + 4 = 7 * q /\ StartOfWeek(n) = n - r
      BY <2>1 DEF StartOfWeek
    <2> QED
      BY <2>2
  <1>3. /\ TrendWindow("3m").starts = {monday - 7 * i : i \in 0..12}
        /\ TrendWindow("3m").end = monday + 7
    BY <1>1, <1>2 DEF TrendWindow
  <1> DEFINE back == [i \in 0..12 |-> monday - 7 * i]
             S == {monday - 7 * i : i \in 0..12}
  <1>4. /\ (\A i \in 0..12 : back[i] \in Int /\ back[12] <= back[i])
        /\ back[12] = monday - 84 /\ S = {back[i] : i \in 0..12}
    OBVIOUS
  <1>5. \A d \in Int : monday - 84 <= d /\ d < monday + 7 => StartOfWeek(d) \in S
    <2>1. ASSUME NEW d \in Int, monday - 84 <= d, d < monday + 7
          PROVE  StartOfWeek(d) \in S
      <3>1. PICK q \in Int, r \in 0..6 : d + 4 = 7 * q + r /\ (d + 4) % 7 = r
        BY WeekDays
      <3>2. StartOfWeek(d) = d - r /\ d - r = 7 * q - 4
        BY <3>1 DEF StartOfWeek
      <3>3. w - q \in 0..12
        BY <1>2, <2>1, <3>1
      <3>4. monday - 7 * (w - q) = 7 * q - 4
        BY <1>2
      <3>5. PICK i \in 0..12 : i = w - q
        BY <3>3
      <3> QED
        BY <3>2, <3>4, <3>5
    <2> QED
      BY <2>1
  <1> HIDE DEF back, S
  <1>6. IsFiniteSet(S) /\ S \subseteq Int /\ Min(S) = monday - 84
    BY <1>4, CountedBack
  <1>7. \A x \in booked : DayNumber(x) \in Int /\ BucketOf(x, "3m") = StartOfWeek(DayNumber(x))
    BY TodayIsADate DEF BucketOf
  <1>8. BucketsHold("3m", S, monday + 7)
    <2>1. monday + 7 \in Int /\ monday - 84 \in Int
      BY <1>2
    <2> QED
      BY <1>5, <1>6, <1>7, <2>1 DEF BucketsHold
  <1> QED
    BY <1>3, <1>8 DEF S

\* The months of the yearly chart.
LEMMA MonthsBack ==
  ASSUME FinanceTyped
  PROVE  /\ TrendWindow("1y").starts = {StartOfMonth(today.month - i) : i \in 0..11}
         /\ TrendWindow("1y").end = StartOfMonth(today.month + 1)
         /\ Min(TrendWindow("1y").starts) = StartOfMonth(today.month - 11)
         /\ IsFiniteSet(TrendWindow("1y").starts) /\ TrendWindow("1y").starts \subseteq Int
         /\ StartOfMonth(today.month - 11) \in Int /\ StartOfMonth(today.month + 1) \in Int
  <1>1. PICK m \in Nat : m = today.month /\ m >= 12
    BY TodayIsADate
  <1>2. /\ TrendWindow("1y").starts = {StartOfMonth(m - i) : i \in 0..11}
        /\ TrendWindow("1y").end = StartOfMonth(m + 1)
    BY <1>1 DEF TrendWindow
  <1>3. \A k \in Nat : StartOfMonth(k) = Offset(k) + 1 /\ Offset(k) \in Int
    BY MonthsStart
  <1>4. ASSUME NEW i \in 0..11
        PROVE  StartOfMonth(m - i) \in Int /\ StartOfMonth(m - 11) <= StartOfMonth(m - i)
    <2>1. PICK j \in Nat, k \in Nat : j = m - 11 /\ k = m - i /\ j <= k
      BY <1>1
    <2>2. j < k => Offset(j) + DaysInMonth(j) <= Offset(k)
      BY <2>1, MonthsInOrder
    <2>3. DaysInMonth(j) \in 28..31
      BY MonthLength
    <2>4. Offset(j) <= Offset(k)
      BY <1>3, <2>1, <2>2, <2>3
    <2>5. StartOfMonth(k) \in Int /\ StartOfMonth(j) <= StartOfMonth(k)
      BY <1>3, <2>4
    <2> QED
      BY <2>1, <2>5
  <1> DEFINE back == [i \in 0..11 |-> StartOfMonth(m - i)]
             S == {StartOfMonth(m - i) : i \in 0..11}
  <1>5. /\ (\A i \in 0..11 : back[i] \in Int /\ back[11] <= back[i])
        /\ back[11] = StartOfMonth(m - 11) /\ S = {back[i] : i \in 0..11}
    BY <1>4
  <1> HIDE DEF back, S
  <1>6. IsFiniteSet(S) /\ S \subseteq Int /\ Min(S) = StartOfMonth(m - 11)
    BY <1>5, CountedBack
  <1>7. StartOfMonth(m - 11) \in Int /\ StartOfMonth(m + 1) \in Int
    BY <1>1, <1>3
  <1> QED
    BY <1>1, <1>2, <1>6, <1>7 DEF S

LEMMA MonthsHold ==
  ASSUME FinanceTyped
  PROVE  BucketsHold("1y", TrendWindow("1y").starts, TrendWindow("1y").end)
  <1>1. PICK m \in Nat : m = today.month /\ m >= 12
    BY TodayIsADate
  <1>2. ASSUME NEW x \in booked, StartOfMonth(m - 11) <= DayNumber(x), DayNumber(x) < StartOfMonth(m + 1)
        PROVE  StartOfMonth(x.month) \in {StartOfMonth(m - i) : i \in 0..11}
    <2>1. PICK j \in Nat, k \in Nat : j = m - 11 /\ k = m + 1
      BY <1>1
    <2>2. (StartOfMonth(j) <= DayNumber(x) <=> j <= x.month) /\ (StartOfMonth(k) <= DayNumber(x) <=> k <= x.month)
      BY TodayIsADate, MonthsHoldTheirDays
    <2>3. StartOfMonth(k) \in Int /\ DayNumber(x) \in Int /\ x.month \in Nat
      BY <2>1, <1>1, MonthsBack, TodayIsADate
    <2>4. j <= x.month /\ x.month < k
      BY <1>2, <2>1, <2>2, <2>3
    <2>5. m - x.month \in 0..11 /\ m - (m - x.month) = x.month
      BY <2>1, <2>3, <2>4
    <2>6. PICK i \in 0..11 : m - i = x.month
      BY <2>5
    <2> QED
      BY <2>6
  <1>3. \A x \in booked : BucketOf(x, "1y") = StartOfMonth(x.month)
    BY DEF BucketOf
  <1> QED
    BY <1>1, <1>2, <1>3, MonthsBack DEF BucketsHold

LEMMA WindowsHold ==
  ASSUME FinanceTyped, NEW g \in Granularities
  PROVE  BucketsHold(g, TrendWindow(g).starts, TrendWindow(g).end)
  BY DaysHold, WeeksHold, MonthsHold DEF Granularities

-----------------------------------------------------------------------------
\* What the chart draws.
InTheChart(g) ==
  {x \in booked : Min(TrendWindow(g).starts) <= DayNumber(x) /\ DayNumber(x) < TrendWindow(g).end}
Bucket(g, start) == {x \in InTheChart(g) : BucketOf(x, g) = start}

\* A day's movements are between two midnights when the day is.
LEMMA DaysBetween ==
  ASSUME FinanceTyped, NEW from \in Int, NEW to \in Int
  PROVE  Between(Midnight(from), Midnight(to)) = {x \in booked : from <= DayNumber(x) /\ DayNumber(x) < to}
  <1>1. ASSUME NEW x \in booked
        PROVE  /\ Midnight(from) <= BookedAt(x) <=> from <= DayNumber(x)
               /\ BookedAt(x) < Midnight(to) <=> DayNumber(x) < to
    <2>1. PICK n \in Int : n = DayNumber(x)
      BY TodayIsADate
    <2>2. BookedAt(x) \in {2 * n, 2 * n + 1}
      BY <2>1 DEF BookedAt, Midnight
    <2>3. Midnight(from) = 2 * from /\ Midnight(to) = 2 * to
      BY DEF Midnight
    <2> QED
      BY <2>1, <2>2, <2>3
  <1> QED
    BY <1>1 DEF Between

LEMMA TrendPoints ==
  ASSUME FinanceTyped, NEW g \in Granularities
  PROVE  Trend(g).points = [start \in TrendWindow(g).starts |->
           [income |-> Income(Bucket(g, start)), expense |-> Expenses(Bucket(g, start))]]
  <1>1. Min(TrendWindow(g).starts) \in Int /\ TrendWindow(g).end \in Int
    BY WindowsHold DEF BucketsHold
  <1>2. Between(Midnight(Min(TrendWindow(g).starts)), Midnight(TrendWindow(g).end)) = InTheChart(g)
    BY <1>1, DaysBetween DEF InTheChart
  <1> QED
    BY <1>2 DEF Trend, Bucket

LEMMA ChartAddsUp ==
  ASSUME FinanceTyped, NEW g \in Granularities, NEW points, points = Trend(g).points
  PROVE  /\ SumFunction([k \in DOMAIN points |-> points[k].income]) = Income(InTheChart(g))
         /\ SumFunction([k \in DOMAIN points |-> points[k].expense]) = Expenses(InTheChart(g))
  <1> DEFINE K == TrendWindow(g).starts
             E == InTheChart(g)
             key == [x \in E |-> BucketOf(x, g)]
             in == [k \in K |-> points[k].income]
             out == [k \in K |-> points[k].expense]
  <1>1. /\ DOMAIN points = K
        /\ \A k \in K : /\ points[k].income = Income(Bucket(g, k))
                        /\ points[k].expense = Expenses(Bucket(g, k))
    <2>1. points = [start \in K |->
             [income |-> Income(Bucket(g, start)), expense |-> Expenses(Bucket(g, start))]]
      BY TrendPoints
    <2> HIDE DEF K
    <2> QED
      BY <2>1
  <1>2. Entries(E)
    BY EntriesOfABook DEF InTheChart
  <1>3. IsFiniteSet(K) /\ \A x \in E : key[x] \in K
    BY WindowsHold DEF BucketsHold, InTheChart
  <1>4. \A k \in K : Bucket(g, k) = {x \in E : key[x] = k}
    BY DEF Bucket
  <1>5. \A k \in K : in[k] = Income({x \in E : key[x] = k}) /\ out[k] = Expenses({x \in E : key[x] = k})
    BY <1>1, <1>4
  <1>6. SumFunction(in) = SumFunctionOnSet(in, K) /\ SumFunction(out) = SumFunctionOnSet(out, K)
    BY DEF SumFunction
  <1>7. /\ in = [k \in DOMAIN points |-> points[k].income]
        /\ out = [k \in DOMAIN points |-> points[k].expense]
    BY <1>1
  <1> HIDE DEF K, E, key, in, out
  <1>8. SumFunctionOnSet(in, K) = Income(E) /\ SumFunctionOnSet(out, K) = Expenses(E)
    <2>1. SumFunctionOnSet(in, K) = Income(E)
      BY <1>2, <1>3, <1>5, IncomeByKey
    <2>2. SumFunctionOnSet(out, K) = Expenses(E)
      BY <1>2, <1>3, <1>5, ExpensesByKey
    <2> QED
      BY <2>1, <2>2
  <1> QED
    BY <1>6, <1>7, <1>8 DEF E

\* The overview's months.
LEMMA CashFlowIsTheYear ==
  ASSUME FinanceTyped, NEW month \in DOMAIN CashFlow
  PROVE  CashFlow[month] = Trend("1y").points[StartOfMonth(month)]
  <1>1. PICK m \in Nat : m = today.month /\ m >= 12
    BY TodayIsADate
  <1>2. PICK i \in 0..11 : month = m - i
    BY <1>1 DEF CashFlow
  <1>3. PICK j \in Nat, k \in Nat, n \in Nat : j = m - 11 /\ k = m + 1 /\ n = month /\ j <= n /\ n < k
    BY <1>1, <1>2
  <1> DEFINE entries == {x \in booked : BookedAt(x) >= Midnight(StartOfMonth(j))}
             of == {x \in entries : x.month = n}
  <1>4. CashFlow[month] = [income |-> Income(of), expense |-> Expenses(of)]
    BY <1>1, <1>2, <1>3 DEF CashFlow
  <1>5. StartOfMonth(n) \in TrendWindow("1y").starts
    BY <1>1, <1>2, <1>3, MonthsBack
  <1>6. of = Bucket("1y", StartOfMonth(n))
    <2>1. /\ Min(TrendWindow("1y").starts) = StartOfMonth(j) /\ TrendWindow("1y").end = StartOfMonth(k)
          /\ StartOfMonth(j) \in Int /\ StartOfMonth(k) \in Int
      BY <1>1, <1>3, MonthsBack
    <2>2. ASSUME NEW x \in booked
          PROVE  x \in of <=> x \in Bucket("1y", StartOfMonth(n))
      <3>1. IsMovement(x) /\ DayNumber(x) \in Int /\ x.month \in Nat
        BY TodayIsADate
      <3>2. /\ StartOfMonth(j) <= DayNumber(x) <=> j <= x.month
            /\ StartOfMonth(k) <= DayNumber(x) <=> k <= x.month
        BY <3>1, MonthsHoldTheirDays
      <3>3. BucketOf(x, "1y") = StartOfMonth(x.month)
        BY DEF BucketOf
      <3>4. BucketOf(x, "1y") = StartOfMonth(n) <=> x.month = n
        BY <3>1, <3>3, MonthsStartApart
      <3>5. PICK d \in Int, s \in Int : d = DayNumber(x) /\ s = StartOfMonth(j)
        BY <2>1, <3>1
      <3>6. BookedAt(x) \in {2 * d, 2 * d + 1} /\ Midnight(StartOfMonth(j)) = 2 * s
        BY <3>5 DEF BookedAt, Midnight
      <3>7. BookedAt(x) >= Midnight(StartOfMonth(j)) <=> StartOfMonth(j) <= DayNumber(x)
        BY <3>5, <3>6
      <3>8. x \in of <=> StartOfMonth(j) <= DayNumber(x) /\ x.month = n
        BY <3>7
      <3>9. x \in Bucket("1y", StartOfMonth(n)) <=>
              StartOfMonth(j) <= DayNumber(x) /\ DayNumber(x) < StartOfMonth(k) /\ x.month = n
        BY <2>1, <3>4 DEF Bucket, InTheChart
      <3>10. x.month = n => DayNumber(x) < StartOfMonth(k)
        BY <1>3, <2>1, <3>1, <3>2
      <3> QED
        BY <3>8, <3>9, <3>10
    <2> QED
      BY <2>2 DEF Bucket, InTheChart
  <1> HIDE DEF of
  <1>7. Trend("1y").points[StartOfMonth(n)]
          = [income |-> Income(Bucket("1y", StartOfMonth(n))),
             expense |-> Expenses(Bucket("1y", StartOfMonth(n)))]
    BY <1>5, TrendPoints DEF Granularities
  <1> QED
    BY <1>3, <1>4, <1>6, <1>7

-----------------------------------------------------------------------------
\* The tiles and the donut.
LEMMA SummaryParts ==
  ASSUME FinanceTyped, NEW query,
         NEW current, current = Between(ResolvePeriod(query).from, ResolvePeriod(query).to),
         NEW previous, previous = Between(ResolvePeriod(query).before, ResolvePeriod(query).from)
  PROVE  /\ Summary(query).income = Income(current) /\ Summary(query).expenses = Expenses(current)
         /\ Summary(query).categories = SpendingByCategory(current)
         /\ Summary(query).deltas.income = PercentChange(Income(current), Income(previous))
         /\ Entries(current) /\ Entries(previous)
  <1>1. current \subseteq booked /\ previous \subseteq booked
    BY DEF Between
  <1>2. Entries(current) /\ Entries(previous)
    BY <1>1, EntriesOfABook
  <1>3. /\ Summary(query).income = Income(current) /\ Summary(query).expenses = Expenses(current)
        /\ Summary(query).categories = SpendingByCategory(current)
        /\ Summary(query).deltas.income = PercentChange(Income(current), Income(previous))
    BY DEF Summary
  <1> QED
    BY <1>2, <1>3

LEMMA CategoriesAddUp ==
  ASSUME NEW s, Entries(s)
  PROVE  CategoryTotal(SpendingByCategory(s)) = Expenses(s)
  <1> DEFINE out == {x \in s : ~x.in}
             C == {x.category : x \in out}
             spent(c) == Expenses({x \in s : x.category = c})
             slice(c) == [category |-> c, amount |-> spent(c),
                          percent |-> Rounded(spent(c), Expenses(s), 100)]
             f == [c \in C |-> spent(c)]
             name == [c \in C |-> slice(c)]
             T == {slice(c) : c \in C}
             g == [t \in T |-> t.amount]
             key == [x \in out |-> x.category]
  <1>1. SpendingByCategory(s) = T
    BY DEF SpendingByCategory
  <1>2. CategoryTotal(T) = SumFunctionOnSet(g, T)
    BY DEF CategoryTotal, SumFunction
  <1>3. Entries(out) /\ \A x \in out : key[x] \in C
    BY FS_Subset DEF Entries
  <1>4. IsFiniteSet(C)
    <2>1. key \in Surjection(out, C)
      BY DEF Surjection
    <2> HIDE DEF key, C
    <2> QED
      BY <1>3, <2>1, FS_Surjection DEF Entries
  <1>5. ASSUME NEW c \in C
        PROVE  f[c] \in Nat /\ f[c] = Expenses({x \in out : key[x] = c})
    <2> DEFINE part == {x \in s : x.category = c}
    <2>1. Entries(part)
      BY FS_Subset DEF Entries
    <2>2. {x \in part : ~x.in} = {x \in out : key[x] = c}
      OBVIOUS
    <2>3. f[c] = Expenses(part)
      OBVIOUS
    <2> HIDE DEF part
    <2>4. Expenses({x \in part : ~x.in}) = Expenses(part) /\ Expenses(part) \in Nat
      BY <2>1, ExpensesOfWhatWentOut, SumsOfMovements
    <2> QED
      BY <2>2, <2>3, <2>4
  <1>6. /\ \A c \in C : f[c] \in Int /\ g[name[c]] = f[c] /\ name[c] \in T
        /\ \A c, b \in C : name[c] = name[b] => c = b
        /\ \A t \in T : \E c \in C : t = name[c]
    <2>1. \A c \in C : name[c] = slice(c) /\ slice(c).category = c /\ slice(c).amount = f[c]
      OBVIOUS
    <2> HIDE DEF slice
    <2>2. \A c \in C : name[c] \in T /\ g[name[c]] = f[c]
      BY <2>1
    <2>3. \A c, b \in C : name[c] = name[b] => c = b
      BY <2>1
    <2>4. \A t \in T : \E c \in C : t = name[c]
      OBVIOUS
    <2> HIDE DEF C, f
    <2>5. ASSUME NEW c \in C PROVE f[c] \in Int
      <3>1. f[c] \in Nat
        BY <1>5
      <3> QED
        BY <3>1
    <2> QED
      BY <2>2, <2>3, <2>4, <2>5
  <1>7. Expenses(out) = Expenses(s)
    BY ExpensesOfWhatWentOut
  <1> HIDE DEF out, C, f, name, T, g, key
  <1>8. SumFunctionOnSet(g, T) = SumFunctionOnSet(f, C)
    BY <1>4, <1>6, SumRenamed
  <1>9. SumFunctionOnSet(f, C) = Expenses(out)
    BY <1>3, <1>4, <1>5, ExpensesByKey
  <1> QED
    BY <1>1, <1>2, <1>7, <1>8, <1>9

\* An arrow points the way its figure went.
LEMMA ArrowsPointTheirWay ==
  ASSUME NEW now \in Nat, NEW before \in Nat, NEW change \in PercentChange(now, before)
  PROVE  (now > before => change >= 0) /\ (now < before => change <= 0)
  <1>1. before # 0
    BY DEF PercentChange, Rounded
  <1>2. PICK a \in Int, u \in Nat : a = now - before /\ u = 2 * 1000 * Abs(a) + Abs(before)
    <2>1. Abs(now - before) \in Nat /\ Abs(before) \in Nat
      BY DEF Abs
    <2> QED
      BY <2>1
  <1>3. PICK v \in Nat \ {0} : v = 2 * Abs(before)
    BY <1>1 DEF Abs
  <1>4. u \div v \in Nat
    BY <1>2, <1>3
  <1>5. change = IF a < 0 <=> before < 0 THEN u \div v ELSE -(u \div v)
    BY <1>1, <1>2, <1>3 DEF PercentChange, Rounded
  <1> QED
    BY <1>2, <1>4, <1>5

LEMMA FiguresDoAddUp ==
  ASSUME FinanceTyped
  PROVE  FiguresAddUp
  <1>1. ASSUME NEW g \in Granularities
        PROVE  LET window == TrendWindow(g)
                   points == Trend(g).points
                   inWindow == {x \in booked : Min(window.starts) <= DayNumber(x)
                                                /\ DayNumber(x) < window.end}
               IN  /\ SumFunction([k \in DOMAIN points |-> points[k].income]) = Income(inWindow)
                   /\ SumFunction([k \in DOMAIN points |-> points[k].expense]) = Expenses(inWindow)
    BY ChartAddsUp DEF InTheChart
  <1>2. \A m \in DOMAIN CashFlow : CashFlow[m] = Trend("1y").points[StartOfMonth(m)]
    BY CashFlowIsTheYear
  <1>3. ASSUME NEW query \in PeriodChoices
        PROVE  LET s == Summary(query)
                   p == ResolvePeriod(query)
                   before == Income(Between(p.before, p.from))
               IN  /\ CategoryTotal(s.categories) = s.expenses
                   /\ \A change \in s.deltas.income :
                        /\ s.income > before => change >= 0
                        /\ s.income < before => change <= 0
    <2>1. PICK current, previous :
            /\ current = Between(ResolvePeriod(query).from, ResolvePeriod(query).to)
            /\ previous = Between(ResolvePeriod(query).before, ResolvePeriod(query).from)
      OBVIOUS
    <2>2. /\ Summary(query).income = Income(current) /\ Summary(query).expenses = Expenses(current)
          /\ Summary(query).categories = SpendingByCategory(current)
          /\ Summary(query).deltas.income = PercentChange(Income(current), Income(previous))
          /\ Entries(current) /\ Entries(previous)
      BY <2>1, SummaryParts
    <2>3. CategoryTotal(Summary(query).categories) = Summary(query).expenses
      BY <2>2, CategoriesAddUp
    <2>4. Income(current) \in Nat /\ Income(previous) \in Nat
      BY <2>2, SumsOfMovements
    <2>5. ASSUME NEW change \in Summary(query).deltas.income
          PROVE  /\ Summary(query).income > Income(previous) => change >= 0
                 /\ Summary(query).income < Income(previous) => change <= 0
      BY <2>2, <2>4, <2>5, ArrowsPointTheirWay
    <2> QED
      BY <2>1, <2>3, <2>5
  <1> QED
    BY <1>1, <1>2, <1>3 DEF FiguresAddUp

-----------------------------------------------------------------------------
\* The pages, one scene a behaviour.

SceneInv ==
  /\ TypeOK
  /\ scene = "grid" => GInv
  /\ scene = "rows" => RInv /\ SInv
  /\ scene = "finance" => VInv
  /\ scene = "browser" => BInv /\ CallersWait
  /\ scene = "code" => CInv
  /\ scene = "security" => SecInv
  /\ scene = "pay" => PInv /\ QuotesAreReal /\ QInv
  /\ scene = "forms" => FInv
  /\ scene = "detail" => DInv

LEMMA ScenesStart ==
  ASSUME MCInit
  PROVE  SceneInv
  <1>1. TypeOK
    <2>1. CASE scene = "team"
      BY <2>1, TeamStarts DEF MCInit
    <2>2. CASE scene # "team"
      BY <2>2, TeamAssumption DEF MCInit, NoTeam, TypeOK
    <2> QED
      BY <2>1, <2>2
  <1>2. scene = "grid" => GInv
    BY GridStarts DEF MCInit
  <1>3. scene = "rows" => RInv /\ SInv
    BY RowsStart, RowsAreListed DEF MCInit
  <1>4. scene = "finance" => VInv
    BY FiguresAreAsked DEF MCInit, FinanceScene
  <1>5. scene = "browser" => BInv /\ CallersWait
    BY BrowserStarts, CallersStart DEF MCInit
  <1>6. scene = "code" => CInv
    BY CodeStarts DEF MCInit
  <1>7. scene = "security" => SecInv
    BY SecurityStarts DEF MCInit
  <1>8. scene = "pay" => PInv /\ QuotesAreReal /\ QInv
    BY PayStarts, QuotesStart, PageOpens DEF MCInit
  <1>9. scene = "forms" => FInv
    BY FormsStart DEF MCInit
  <1>10. scene = "detail" => DInv
    BY DetailStarts DEF MCInit, DetailScene
  <1> QED
    BY <1>1, <1>2, <1>3, <1>4, <1>5, <1>6, <1>7, <1>8, <1>9, <1>10 DEF SceneInv

LEMMA ScenesGoOn ==
  ASSUME SceneInv,
         [MCNext]_<<scene, vars, gridVars, rowVars, financeVars, browserVars, codeVars,
                    securityVars, payVars, formVars, detailVars>>
  PROVE  SceneInv'
  <1>1. /\ scene' = scene /\ [Next]_vars
        /\ scene = "grid" => [GridNext]_gridVars
        /\ scene = "rows" => [RowsNext]_rowVars
        /\ scene = "finance" => [FinanceNext]_financeVars
        /\ scene = "browser" => [BrowserNext]_browserVars
        /\ scene = "code" => [CodeNext]_codeVars
        /\ scene = "security" => [SecurityNext]_securityVars
        /\ scene = "pay" => [PayNext]_payVars
        /\ scene = "forms" => [FormsNext]_formVars
        /\ scene = "detail" => [DetailNext]_detailVars
    BY DEF MCNext, TeamOnly, GridOnly, RowsOnly, FinanceOnly, BrowserOnly, CodeOnly,
           SecurityOnly, PayOnly, FormsOnly, DetailOnly
  <1>2. TypeOK'
    BY <1>1, Types DEF SceneInv
  <1>3. scene = "grid" => GInv'
    BY <1>1, GridGoesOn DEF SceneInv
  <1>4. scene = "rows" => RInv' /\ SInv'
    BY <1>1, RowsStep, RowsGoOn DEF SceneInv
  <1>5. scene = "finance" => VInv'
    BY <1>1, FinanceGoesOn DEF SceneInv
  <1>6. scene = "browser" => BInv' /\ CallersWait'
    BY <1>1, BrowserStep, CallersGoOn DEF SceneInv
  <1>7. scene = "code" => CInv'
    BY <1>1, CodeGoesOn DEF SceneInv
  <1>8. scene = "security" => SecInv'
    BY <1>1, SecurityGoesOn DEF SceneInv
  <1>9. scene = "pay" => PInv' /\ QuotesAreReal' /\ QInv'
    BY <1>1, PayStep, QuotesStay, PageGoesOn DEF SceneInv
  <1>10. scene = "forms" => FInv'
    BY <1>1, FormsGoOn DEF SceneInv
  <1>11. scene = "detail" => DInv'
    BY <1>1, DetailGoesOn DEF SceneInv
  <1> QED
    BY <1>1, <1>2, <1>3, <1>4, <1>5, <1>6, <1>7, <1>8, <1>9, <1>10, <1>11 DEF SceneInv

LEMMA ScenesGoOnForever == MCSpec => []SceneInv
  BY ScenesStart, ScenesGoOn, PTL DEF MCSpec

LEMMA NothingIsDoneTwice ==
  ASSUME SceneInv
  PROVE  NothingTwice
  <1>1. ASSUME RInv
        PROVE  OneShiftPerRow
    BY <1>1 DEF RInv, RowIsMadeOnce, OneShiftPerRow
  <1> QED
    BY <1>1, RenewalHoldsThen, PayIsPricedOnce DEF SceneInv, NothingTwice

\* What a page asks for once is done once: a row edited in place makes one shift
\* however its saves follow each other (ShiftTemplatesModal.tsx), calls that find
\* the access cookie over share one rotation (lib/api.ts), and a dialog opened
\* prices its month once and pays it once (PayPayrollModal.tsx).
THEOREM PagesDoNothingTwice == MCSpec => []NothingTwice
  BY ScenesGoOnForever, NothingIsDoneTwice, PTL

LEMMA ScenesAreRight ==
  ASSUME SceneInv
  PROVE  PagesTypeOK /\ ScreensSettle
  <1>1. scene = "grid" => GridTypeOK /\ GridSettles
    BY GridIsRight DEF SceneInv
  <1>2. scene = "rows" => RowsTypeOK /\ RowsSettle
    BY RowsAreRight DEF SceneInv
  <1>3. scene = "finance" => FinanceTypeOK /\ FiguresSettle /\ FiguresAddUp
    BY FiguresAreRight, FiguresDoAddUp DEF SceneInv, VInv
  <1>4. scene = "browser" => BrowserTypeOK
    BY BrowserIsTyped DEF SceneInv
  <1>5. scene = "code" => CodeTypeOK /\ CodeStepHolds
    BY CodeStepIsRight DEF SceneInv
  <1>6. scene = "security" => SecurityTypeOK /\ SecuritySettles
    BY SecurityIsRight DEF SceneInv
  <1>7. scene = "pay" => PayTypeOK /\ PaySettles
    BY PageIsRight DEF SceneInv
  <1>8. scene = "forms" => FormsTypeOK /\ FormsSettle
    BY FormsAreRight DEF SceneInv
  <1>9. scene = "detail" => DetailTypeOK /\ DetailSettles
    BY DetailIsRight DEF SceneInv
  <1> QED
    BY <1>1, <1>2, <1>3, <1>4, <1>5, <1>6, <1>7, <1>8, <1>9 DEF SceneInv, PagesTypeOK, ScreensSettle

\* Type correctness of the team and of every page, for any number of employees,
\* weeks, rows, tabs, calls, boxes, devices, figures and documents.
THEOREM PagesTyped == MCSpec => []PagesTypeOK
  BY ScenesGoOnForever, ScenesAreRight, PTL

\* A page at rest, but for the lost answers and the older answers drawn last that
\* each part names, shows what the server has: the week named (SchedulePage.tsx),
\* the shifts of the rows (ShiftTemplatesModal.tsx), the figures asked for and
\* their sums over any book (FinancePage.tsx, OverviewPage.tsx, finance-period.ts),
\* the step of signing in (LoginModal.tsx), two-factor and its devices
\* (SecuritySettings.tsx), a month paid (PayPayrollModal.tsx), what a form stored
\* (the *FormModal.tsx), the invoice or account of the URL (InvoiceDetailPage.tsx,
\* BankAccountDetailPage.tsx).
THEOREM PagesSettle == MCSpec => []ScreensSettle
  BY ScenesGoOnForever, ScenesAreRight, PTL
=============================================================================
