------------------------------ MODULE NetSalary ------------------------------
(***************************************************************************)
(* Gross to net (payroll/net-salary.ts) and the payroll run built from it  *)
(* (context and paymentsFor in payroll/payroll-run.service.ts), in         *)
(* integers: an amount is a number of deni, a rate a number of hundredths  *)
(* of a percent, so 28.00 % is 2800.  The code's decimals carry at least   *)
(* 20 significant digits, more than any amount here needs.                 *)
(***************************************************************************)
EXTENDS Integers, FiniteSets

Full == 10000

Rates == 0..Full

\* a.dividedBy(b), rounded half up to a whole deni.
RoundedHalfUp(a, b) == (2 * a + b) \div (2 * b)

PercentOf(amount, rate) == RoundedHalfUp(amount * rate, Full)

Lower(a, b) == IF a < b THEN a ELSE b

\* The statutory figures of one tax year.
Parameters ==
  [personalAllowanceMonthly : Nat, incomeTaxRate : Rates, contributionsRate : Rates]

ContributionsOn(gross, p) == PercentOf(gross, p.contributionsRate)

BaseAfterContributions(gross, p) == gross - ContributionsOn(gross, p)

\* The allowance lost altogether above it, instead of deducted.
TaxableBase_cliff(gross, p) ==
  IF BaseAfterContributions(gross, p) > p.personalAllowanceMonthly
  THEN BaseAfterContributions(gross, p)
  ELSE 0

TaxableBase(gross, p) ==
  BaseAfterContributions(gross, p)
    - Lower(p.personalAllowanceMonthly, BaseAfterContributions(gross, p))

IncomeTaxOn(gross, p) == PercentOf(TaxableBase(gross, p), p.incomeTaxRate)

NetOf(gross, p) == BaseAfterContributions(gross, p) - IncomeTaxOn(gross, p)
=============================================================================
