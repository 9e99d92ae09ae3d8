------------------------------ MODULE EntryForms ------------------------------
(***************************************************************************)
(* The forms a company is filled in with: registering (RegisterModal),     *)
(* another company (AddCompanyModal), an employee hired or edited          *)
(* (EmployeeFormModal), a bank account (AddBankAccountModal), an invoice   *)
(* or a supplier's bill (CreateInvoiceModal); and the list behind the form *)
(* (useEmployees, useBankAccounts).  What is typed, key and amount, is one *)
(* figure.  The server's handlers are one step each.                       *)
(***************************************************************************)
EXTENDS Naturals, FiniteSets

CONSTANTS Figures,     \* what a form may hold when it is complete
          MaxOpenings, \* bound: times a form is opened
          MaxTypings,  \* bound: times something is typed
          MaxFormLost  \* bound: requests or answers lost

ASSUME FormsAssumption ==
  /\ Figures \subseteq Nat \ {0} /\ Figures # {}
  /\ {MaxOpenings, MaxTypings, MaxFormLost} \subseteq Nat

VARIABLES
  formKind,  \* the form the page has
  member,    \* the account registered is there
  stored,    \* at the server: how many things of a figure
  form,      \* the form on screen
  formsOpened, \* forms opened so far
  typings,   \* times something was typed
  pricer,    \* the timer that asks for a price is running
  asks,      \* requests in flight
  listed,    \* the list on screen
  listLoads, \* loads of the list so far
  listNewest,\* the newest load heard of
  pageLeft,  \* the page has been left for what was created
  created,   \* history: things created by the form opened n-th
  verified,  \* history: accounts the bank said yes to
  behind,    \* history: the list on screen is an older load's, or a load failed
  uncertain, \* history: something was stored and not heard of
  formLost

formVars == <<formKind, member, stored, form, formsOpened, typings, pricer, asks, listed,
              listLoads, listNewest, pageLeft, created, verified, behind, uncertain, formLost>>

FormKinds == {"register", "company", "employee", "edit", "account", "invoice", "bill"}
PricedKinds == {"employee", "edit", "invoice", "bill"}
Invoices == {"invoice", "bill"}
ListedKinds == {"employee", "edit", "account"}

\* Two things with one key: ЕМБС, e-mail, IBAN, the supplier's number.
Keyed == FormKinds \ {"edit", "invoice"}

\* typed: 0 while something is missing; quote: the figure whose price is shown.
NoForm == [opening |-> 0, busy |-> FALSE, typed |-> 0, quote |-> 0, hasAccount |-> FALSE]

NothingThere == [f \in Figures |-> 0]

ToForm(to, figure, opening) ==
  [to |-> to, figure |-> figure, opening |-> opening, typing |-> 0, load |-> 0,
   at |-> "sent", ok |-> FALSE, shows |-> NothingThere]

\* The price asked for what is typed now; an earlier one has been cancelled.
IsLive(r) == r.to = "price" /\ r.opening = form.opening /\ r.typing = typings

IsAsking(r) == form.opening = r.opening

-----------------------------------------------------------------------------
\* What the person does.

\* Blank, or with the values of the one edited.
OpenForm ==
  /\ ~pageLeft /\ form = NoForm /\ formsOpened < MaxOpenings
  /\ formsOpened' = formsOpened + 1
  /\ \/ formKind # "edit" /\ form' = [NoForm EXCEPT !.opening = formsOpened']
     \/ /\ formKind = "edit"
        /\ \E f \in Figures :
             /\ listed[f] > 0
             /\ form' = [NoForm EXCEPT !.opening = formsOpened', !.typed = f, !.quote = f]
  /\ UNCHANGED <<formKind, member, stored, typings, pricer, asks, listed, listLoads,
                 listNewest, pageLeft, created, verified, behind, uncertain,
                 formLost>>

\* Cancel waits for what is in flight; Escape, the cross and a click outside do not.
CloseForm ==
  /\ form # NoForm
  /\ form' = NoForm /\ pricer' = FALSE
  /\ UNCHANGED <<formKind, member, stored, formsOpened, typings, asks, listed,
                 listLoads, listNewest, pageLeft, created, verified, behind,
                 uncertain, formLost>>

\* A field, while saving too.  A price asked for before is cancelled, and an
\* invoice without one priceable line shows none.
TypeFigure(f) ==
  /\ form # NoForm /\ f # form.typed
  /\ typings < MaxTypings /\ typings' = typings + 1
  /\ form' = [form EXCEPT !.typed = f,
                          !.quote = IF formKind \in Invoices /\ f = 0 THEN 0 ELSE @]
  /\ pricer' = (formKind \in PricedKinds /\ f # 0)
  /\ UNCHANGED <<formKind, member, stored, formsOpened, asks, listed, listLoads,
                 listNewest, pageLeft, created, verified, behind, uncertain,
                 formLost>>

\* A moment after typing stops.
AskPrice ==
  /\ pricer /\ pricer' = FALSE
  /\ asks' = asks \union {[ToForm("price", form.typed, form.opening) EXCEPT !.typing = typings]}
  /\ UNCHANGED <<formKind, member, stored, form, formsOpened, typings, listed,
                 listLoads, listNewest, pageLeft, created, verified, behind,
                 uncertain, formLost>>

\* The request a submission starts with: an account not registered yet, a bank
\* account not checked yet.
FirstStep ==
  CASE formKind = "register" /\ ~form.hasAccount -> "account"
    [] formKind = "account" -> "check"
    [] OTHER -> "store"

SubmitForm ==
  /\ form # NoForm /\ ~form.busy /\ form.typed # 0
  /\ form' = [form EXCEPT !.busy = TRUE]
  /\ asks' = asks \union {ToForm(FirstStep, form.typed, form.opening)}
  /\ UNCHANGED <<formKind, member, stored, formsOpened, typings, pricer, listed,
                 listLoads, listNewest, pageLeft, created, verified, behind,
                 uncertain, formLost>>

-----------------------------------------------------------------------------
\* The server.

AnswerForm(r, ok) ==
  asks' = (asks \ {r}) \union {[r EXCEPT !.at = "answered", !.ok = ok,
                                         !.shows = IF r.to = "list" THEN stored ELSE @]}

\* register: an address is taken once.
ServeAccount(r) ==
  /\ r.to = "account" /\ member' = TRUE
  /\ AnswerForm(r, ~member)
  /\ UNCHANGED <<stored, created, verified>>

\* checkAccount: verified and funded, or not.
ServeCheck(r) ==
  /\ r.to = "check"
  /\ \E ok \in BOOLEAN :
       /\ AnswerForm(r, ok)
       /\ verified' = IF ok THEN verified \union {r.figure} ELSE verified
  /\ UNCHANGED <<member, stored, created>>

\* create and update.
ServeStore(r) ==
  LET refused == formKind \in Keyed /\ stored[r.figure] > 0 IN
  /\ r.to = "store"
  /\ AnswerForm(r, ~refused)
  /\ \/ refused /\ UNCHANGED <<stored, created>>
     \/ /\ ~refused
        /\ stored' = IF formKind = "edit" THEN [NothingThere EXCEPT ![r.figure] = 1]
                     ELSE [stored EXCEPT ![r.figure] = @ + 1]
        /\ created' = [created EXCEPT ![r.opening] = @ + 1]
  /\ UNCHANGED <<member, verified>>

ServeForm(r) ==
  /\ r \in asks /\ r.at = "sent"
  /\ \/ ServeAccount(r) \/ ServeCheck(r) \/ ServeStore(r)
     \/ /\ r.to \in {"price", "list"} /\ AnswerForm(r, TRUE)
        /\ UNCHANGED <<member, stored, created, verified>>
  /\ UNCHANGED <<formKind, form, formsOpened, typings, pricer, listed, listLoads,
                 listNewest, pageLeft, behind, uncertain, formLost>>

-----------------------------------------------------------------------------
\* What comes back.  A handler goes on with the values it was submitted with,
\* whatever became of the form.

FormRefused(r) ==
  /\ asks' = asks \ {r}
  /\ form' = IF IsAsking(r) THEN [form EXCEPT !.busy = FALSE] ELSE form
  /\ UNCHANGED <<pricer, pageLeft, listLoads>>

\* The account is there or the bank said yes: the thing itself is next.
GoesOn(r) ==
  /\ r.to \in {"account", "check"}
  /\ \/ ~r.ok /\ FormRefused(r)
     \/ /\ r.ok
        /\ asks' = (asks \ {r}) \union {ToForm("store", r.figure, r.opening)}
        /\ form' = IF IsAsking(r) /\ r.to = "account"
                   THEN [form EXCEPT !.hasAccount = TRUE] ELSE form
        /\ UNCHANGED <<pricer, pageLeft, listLoads>>

\* The list is read again, or the page left for what was created; whatever form is
\* open by then closes.
HasStored(r) ==
  /\ r.to = "store"
  /\ \/ ~r.ok /\ FormRefused(r)
     \/ /\ r.ok /\ form' = NoForm /\ pricer' = FALSE
        /\ IF formKind \in ListedKinds
           THEN /\ listLoads' = listLoads + 1 /\ UNCHANGED pageLeft
                /\ asks' = (asks \ {r}) \union {[ToForm("list", 0, 0) EXCEPT !.load = listLoads']}
           ELSE pageLeft' = TRUE /\ asks' = asks \ {r} /\ UNCHANGED listLoads

\* A cancelled price taken too.
PriceArrives_whenever(r) ==
  /\ r.to = "price" /\ asks' = asks \ {r}
  /\ form' = IF ~IsAsking(r) \/ (~r.ok /\ formKind \notin Invoices) THEN form
             ELSE [form EXCEPT !.quote = IF r.ok THEN r.figure ELSE 0]
  /\ UNCHANGED <<pricer, pageLeft, listLoads>>

\* An invoice that could not be priced shows no totals; a salary leaves the last
\* breakdown up, marked as out of date.
PriceArrives(r) ==
  /\ r.to = "price" /\ asks' = asks \ {r}
  /\ form' = IF ~IsLive(r) \/ (~r.ok /\ formKind \notin Invoices) THEN form
             ELSE [form EXCEPT !.quote = IF r.ok THEN r.figure ELSE 0]
  /\ UNCHANGED <<pricer, pageLeft, listLoads>>

FormAnswer(r) ==
  /\ r \in asks /\ r.at = "answered"
  /\ GoesOn(r) \/ HasStored(r) \/ PriceArrives(r)
  /\ UNCHANGED <<formKind, member, stored, formsOpened, typings, listed, listNewest,
                 created, verified, behind, uncertain, formLost>>

\* Whatever load answers is shown; a failed one keeps the list.
ListArrives(r) ==
  /\ r \in asks /\ r.to = "list" /\ r.at = "answered"
  /\ asks' = asks \ {r}
  /\ listed' = IF r.ok THEN r.shows ELSE listed
  /\ listNewest' = IF r.load > listNewest THEN r.load ELSE listNewest
  /\ behind' = (~r.ok \/ r.load < listNewest)
  /\ UNCHANGED <<formKind, member, stored, form, formsOpened, typings, pricer,
                 listLoads, pageLeft, created, verified, uncertain, formLost>>

\* A request that never arrives, or whose answer does not come back.
LoseForm(r) ==
  /\ formLost < MaxFormLost /\ formLost' = formLost + 1
  /\ r \in asks /\ (r.at = "sent" \/ r.ok)
  /\ asks' = (asks \ {r}) \union {[r EXCEPT !.at = "answered", !.ok = FALSE]}
  /\ uncertain' = (uncertain \/ (r.at = "answered" /\ r.to \in {"account", "store"}))
  /\ UNCHANGED <<formKind, member, stored, form, formsOpened, typings, pricer,
                 listed, listLoads, listNewest, pageLeft, created, verified,
                 behind>>

\* A page with nothing on its list, or the one person to edit.
FormsInit ==
  /\ formKind \in FormKinds /\ member = (formKind # "register")
  /\ \E f \in Figures : listed = [NothingThere EXCEPT ![f] = IF formKind = "edit" THEN 1 ELSE 0]
  /\ stored = listed
  /\ form = NoForm /\ formsOpened = 0 /\ typings = 0 /\ pricer = FALSE /\ asks = {}
  /\ listLoads = 0 /\ listNewest = 0 /\ pageLeft = FALSE
  /\ created = [n \in 1..MaxOpenings |-> 0] /\ verified = {}
  /\ behind = FALSE /\ uncertain = FALSE /\ formLost = 0

FormsNext ==
  \/ OpenForm \/ CloseForm \/ AskPrice \/ SubmitForm
  \/ \E f \in Figures \union {0} : TypeFigure(f)
  \/ \E r \in asks : ServeForm(r) \/ FormAnswer(r) \/ ListArrives(r) \/ LoseForm(r)

-----------------------------------------------------------------------------
FormsTypeOK ==
  /\ formKind \in FormKinds /\ form.typed \in Figures \union {0}
  /\ form.opening \in 0..formsOpened /\ formsOpened \in 0..MaxOpenings /\ typings \in 0..MaxTypings
  /\ stored \in [Figures -> Nat] /\ listed \in [Figures -> Nat]
  /\ formLost \in 0..MaxFormLost

\* However answers come back to forms typed into, closed and opened again: the
\* totals of an invoice are of the lines typed, once the price of those has come;
\* "a retry after a refused company ... sends only the company rather than
\* registering the address twice" (RegisterModal.tsx:29); an account on file is
\* one the bank said yes to; one form makes one thing; and with nothing in flight
\* the list shows what is stored.  Not so where something was stored and not
\* heard of, or an older load took a newer one's place: see the README.
FormsSettle ==
  /\ formKind \in Invoices /\ form # NoForm /\ ~pricer /\ (\A r \in asks : ~IsLive(r))
       => form.quote \in {0, form.typed}
  /\ formKind = "account" => \A f \in Figures : stored[f] > 0 => f \in verified
  /\ ~uncertain =>
       /\ formKind = "register" /\ formsOpened = 1 /\ form # NoForm /\ ~form.busy /\ member
            => form.hasAccount
       /\ \A n \in 1..MaxOpenings : formKind # "edit" => created[n] <= 1
       /\ asks = {} /\ ~behind /\ formKind \in ListedKinds => listed = stored
=============================================================================
