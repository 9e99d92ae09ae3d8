----------------------------- MODULE SecurityPage -----------------------------
(***************************************************************************)
(* The security settings: SecuritySettings and its list of trusted         *)
(* devices, and the two dialogs of TwoFactorModals.  The server's handlers *)
(* are one step each; TwoFactor takes them apart.                          *)
(***************************************************************************)
EXTENDS Naturals, FiniteSets

CONSTANTS Devices,
          MaxTries,         \* MAX_ATTEMPTS
          MaxClicks,        \* bound: things the person does
          MaxSecurityLost   \* bound: requests or answers lost

ASSUME SecurityAssumption ==
  /\ MaxTries \in Nat \ {0} /\ {MaxClicks, MaxSecurityLost} \subseteq Nat
  /\ {"none", "all"} \intersect Devices = {}

VARIABLES
  account,  \* at the server: [on, devices, codes]
  settings,     \* SecuritySettings
  dialog,   \* the dialog that is open
  inFlight,
  outpaced,  \* history: turning off was heard of while the devices were being
             \* read, or an answer was lost
  clicks, securityLost

securityVars == <<account, settings, dialog, inFlight, outpaced, clicks, securityLost>>

Purposes == {"enable", "disable"}
StartOf == [enable |-> "startEnable", disable |-> "startDisable"]

\* The newest challenge of a purpose; number: how many there have been.
NoCode == [open |-> FALSE, tries |-> 0, cooling |-> FALSE, number |-> 0]

\* at: what the page draws; busy: the device being forgotten, or "all".
PageShown == [at : {"loading", "failed", "ready"}, on : BOOLEAN, devices : SUBSET Devices,
              busy : Devices \union {"none", "all"}]

NoDialog == [purpose |-> "none", opened |-> 0, busy |-> FALSE, coded |-> FALSE, done |-> FALSE]

Click == clicks < MaxClicks /\ clicks' = clicks + 1

\* to: what is asked; about: a device, or whether a code comes with the password;
\* code: the challenge it was mailed for, 0 for none; opened: the dialog that
\* asked; on, devices: what it is told.
Call(to, about, opened) ==
  [to |-> to, about |-> about, code |-> 0, opened |-> opened, at |-> "sent", ok |-> FALSE,
   on |-> FALSE, devices |-> {}]

Calls(c) == inFlight' = inFlight \union {c}

-----------------------------------------------------------------------------
\* What the person does.

\* "Try again", of a page that could not load.
RetryLoad ==
  /\ Click /\ settings.at = "failed"
  /\ settings' = [settings EXCEPT !.at = "loading"]
  /\ inFlight' = inFlight \union {Call("status", "none", 0), Call("list", "none", 0)}
  /\ UNCHANGED <<account, dialog, outpaced, securityLost>>

OpenDialog ==
  /\ Click /\ settings.at = "ready" /\ dialog.purpose = "none"
  /\ dialog' = [NoDialog EXCEPT !.purpose = IF settings.on THEN "disable" ELSE "enable",
                                !.opened = dialog.opened + 1]
  /\ UNCHANGED <<account, settings, inFlight, outpaced, securityLost>>

\* Cancel waits for what is in flight; Escape, the cross and a click outside
\* do not.
CloseDialog ==
  /\ Click /\ dialog.purpose # "none"
  /\ dialog' = [NoDialog EXCEPT !.opened = dialog.opened]
  /\ UNCHANGED <<account, settings, inFlight, outpaced, securityLost>>

\* "Send the code" and "send again".
SendCode ==
  /\ Click /\ dialog.purpose # "none" /\ ~dialog.busy /\ ~dialog.done
  /\ dialog' = [dialog EXCEPT !.busy = TRUE]
  /\ Calls(Call(StartOf[dialog.purpose], "none", dialog.opened))
  /\ UNCHANGED <<account, settings, outpaced, securityLost>>

\* The code of the last mail, or a wrong one; turning off takes the password
\* with it, which may be wrong as well.
GiveCode(about) ==
  /\ Click /\ dialog.coded /\ ~dialog.busy /\ ~dialog.done
  /\ dialog' = [dialog EXCEPT !.busy = TRUE]
  /\ Calls([Call(dialog.purpose, about, dialog.opened) EXCEPT !.code =
              IF about = "right" THEN account.codes[dialog.purpose].number ELSE 0])
  /\ UNCHANGED <<account, settings, outpaced, securityLost>>

Revoke(target) ==
  /\ Click /\ settings.at = "ready" /\ settings.busy = "none"
  /\ target \in settings.devices \/ (target = "all" /\ Cardinality(settings.devices) > 1)
  /\ settings' = [settings EXCEPT !.busy = target]
  /\ Calls(Call("revoke", target, 0))
  /\ UNCHANGED <<account, dialog, outpaced, securityLost>>

-----------------------------------------------------------------------------
\* The server, the minute between two codes, and the ten minutes of one.

Heard(c, answer) == inFlight' = (inFlight \ {c}) \union {answer}
Yes(c) == Heard(c, [c EXCEPT !.at = "answered", !.ok = TRUE, !.on = account'.on,
                            !.devices = account'.devices])
No(c) == Heard(c, [c EXCEPT !.at = "answered"]) /\ UNCHANGED account

\* startEnable and startDisable.
Start(c, purpose) ==
  LET code == account.codes[purpose]
      wanted == account.on = (purpose = "disable") /\ ~(code.open /\ code.cooling)
  IN  \/ /\ wanted
         /\ account' = [account EXCEPT !.codes[purpose] =
                          [open |-> TRUE, tries |-> 0, cooling |-> TRUE, number |-> code.number + 1]]
         /\ Yes(c)
      \/ ~wanted /\ No(c)

\* confirmEnable and disable: a wrong code, or one of an earlier mail, is counted,
\* a right one is used up; off, every device is forgotten.
Check(c, purpose) ==
  LET code == account.codes[purpose]
      heard == account.on = (purpose = "disable") /\ code.open /\ code.tries < MaxTries
  IN  \/ ~heard /\ No(c)
      \/ /\ heard /\ c.about # "password" /\ c.code # code.number
         /\ account' = [account EXCEPT !.codes[purpose].tries = @ + 1]
         /\ Heard(c, [c EXCEPT !.at = "answered"])
      \/ /\ heard /\ c.about = "password" /\ No(c)
      \/ /\ heard /\ c.about # "password" /\ c.code = code.number
         /\ account' = [account EXCEPT !.codes[purpose].open = FALSE,
                                       !.on = purpose = "enable",
                                       !.devices = IF purpose = "enable" THEN @ ELSE {}]
         /\ Yes(c)

\* revoke: a device that is gone is not found; revokeAll finds what there is.
Forget(c) ==
  LET gone == IF c.about = "all" THEN account.devices ELSE {c.about} IN
  \/ /\ c.about = "all" \/ c.about \in account.devices
     /\ account' = [account EXCEPT !.devices = @ \ gone]
     /\ Yes(c)
  \/ c.about # "all" /\ c.about \notin account.devices /\ No(c)

ServeSecurity(c) ==
  /\ c \in inFlight /\ c.at = "sent"
  /\ \/ c.to \in {"status", "list", "reload"} /\ UNCHANGED account /\ Yes(c)
     \/ \E p \in Purposes : c.to = StartOf[p] /\ Start(c, p)
     \/ \E p \in Purposes : c.to = p /\ Check(c, p)
     \/ c.to = "revoke" /\ Forget(c)
  /\ UNCHANGED <<settings, dialog, outpaced, clicks, securityLost>>

CoolsDown(p) ==
  /\ \/ account.codes[p].cooling
        /\ account' = [account EXCEPT !.codes[p].cooling = FALSE]
     \/ account.codes[p].open /\ ~account.codes[p].cooling
        /\ account' = [account EXCEPT !.codes[p].open = FALSE]
  /\ UNCHANGED <<settings, dialog, inFlight, outpaced, clicks, securityLost>>

-----------------------------------------------------------------------------
\* What comes back.

\* Promise.all: both answers, or the first that fails.
Loads == {c \in inFlight : c.to \in {"status", "list"}}
HasLoaded ==
  /\ Loads # {}
  /\ \/ /\ \A c \in Loads : c.at = "answered" /\ c.ok
        /\ \E s, l \in Loads :
             /\ s.to = "status" /\ l.to = "list"
             /\ settings' = [settings EXCEPT !.at = "ready", !.on = s.on, !.devices = l.devices]
     \/ /\ \E c \in Loads : c.at = "answered" /\ ~c.ok
        /\ settings' = [settings EXCEPT !.at = "failed"]
  /\ inFlight' = inFlight \ Loads
  /\ UNCHANGED <<account, dialog, outpaced, clicks, securityLost>>

Asked(c) == dialog.purpose # "none" /\ dialog.opened = c.opened

\* The dialog that asked, if it is still open, is told; the page always is.
DialogAnswered(c) ==
  /\ c.to \in {"startEnable", "startDisable", "enable"}
  /\ dialog' = IF Asked(c)
               THEN [dialog EXCEPT !.busy = FALSE,
                                   !.coded = @ \/ (c.ok /\ c.to # "enable"),
                                   !.done = c.ok /\ c.to = "enable"]
               ELSE dialog
  /\ settings' = IF c.ok /\ c.to = "enable" THEN [settings EXCEPT !.on = TRUE] ELSE settings
  /\ inFlight' = inFlight \ {c} /\ UNCHANGED outpaced

\* The list left as it is.
TurnedOff_keepsTheList(c) ==
  /\ c.to = "disable"
  /\ IF c.ok
     THEN /\ settings' = [settings EXCEPT !.on = FALSE]
          /\ dialog' = [NoDialog EXCEPT !.opened = dialog.opened]
     ELSE /\ dialog' = IF Asked(c) THEN [dialog EXCEPT !.busy = FALSE] ELSE dialog
          /\ UNCHANGED settings
  /\ inFlight' = inFlight \ {c} /\ UNCHANGED outpaced

\* "Turning it off forgets every remembered device."  Whatever dialog is open by
\* then closes.
TurnedOff(c) ==
  /\ c.to = "disable"
  /\ IF c.ok
     THEN /\ settings' = [settings EXCEPT !.on = FALSE, !.devices = {}]
          /\ dialog' = [NoDialog EXCEPT !.opened = dialog.opened]
          /\ outpaced' = (outpaced \/ \E r \in inFlight : r.to = "reload")
     ELSE /\ dialog' = IF Asked(c) THEN [dialog EXCEPT !.busy = FALSE] ELSE dialog
          /\ UNCHANGED <<settings, outpaced>>
  /\ inFlight' = inFlight \ {c}

\* run: the list is read again after a device is forgotten, not after a refusal.
Revoked(c) ==
  /\ c.to = "revoke"
  /\ inFlight' = (inFlight \ {c}) \union (IF c.ok THEN {Call("reload", "none", 0)} ELSE {})
  /\ settings' = IF c.ok THEN settings ELSE [settings EXCEPT !.busy = "none"]
  /\ UNCHANGED <<dialog, outpaced>>

DevicesRead(c) ==
  /\ c.to = "reload"
  /\ settings' = [settings EXCEPT !.busy = "none", !.devices = IF c.ok THEN c.devices ELSE @]
  /\ outpaced' = (outpaced \/ ~c.ok)
  /\ inFlight' = inFlight \ {c} /\ UNCHANGED dialog

SecurityAnswer(c) ==
  /\ c \in inFlight /\ c.at = "answered"
  /\ DialogAnswered(c) \/ TurnedOff(c) \/ Revoked(c) \/ DevicesRead(c)
  /\ UNCHANGED <<account, clicks, securityLost>>

\* A request that never arrives, or whose answer does not come back.
LoseSecurity(c) ==
  /\ securityLost < MaxSecurityLost /\ securityLost' = securityLost + 1
  /\ c \in inFlight /\ (c.at = "sent" \/ c.ok)
  /\ Heard(c, [c EXCEPT !.at = "answered", !.ok = FALSE])
  /\ outpaced' = (outpaced \/ (c.at = "answered" /\ c.to \in {"enable", "disable", "revoke"}))
  /\ UNCHANGED <<account, settings, dialog, clicks>>

\* The page opened, with two-factor on or off.
SecurityInit ==
  /\ \E on \in BOOLEAN :
       account = [on |-> on, devices |-> IF on THEN Devices ELSE {},
                  codes |-> [p \in Purposes |-> NoCode]]
  /\ settings = [at |-> "loading", on |-> FALSE, devices |-> {}, busy |-> "none"]
  /\ dialog = NoDialog /\ outpaced = FALSE
  /\ inFlight = {Call("status", "none", 0), Call("list", "none", 0)}
  /\ clicks = 0 /\ securityLost = 0

SecurityNext ==
  \/ RetryLoad \/ OpenDialog \/ CloseDialog \/ SendCode \/ HasLoaded
  \/ \E about \in {"right", "wrong", "password"} : GiveCode(about)
  \/ \E target \in Devices \union {"all"} : Revoke(target)
  \/ \E c \in inFlight : ServeSecurity(c) \/ SecurityAnswer(c) \/ LoseSecurity(c)
  \/ \E p \in Purposes : CoolsDown(p)

-----------------------------------------------------------------------------
SecurityTypeOK ==
  /\ settings \in PageShown /\ account.devices \subseteq Devices
  /\ dialog.purpose \in Purposes \union {"none"} /\ clicks \in 0..MaxClicks
  /\ \A p \in Purposes : account.codes[p].tries \in 0..MaxTries

\* Once nothing is in flight the page shows whether two-factor is on and which
\* browsers are remembered as the server has it, whatever dialogs were closed
\* under their requests; and a dialog that says it is on says so truly.  Not so
\* once turning off was heard of while the devices were being read, or an answer
\* was lost: see the README.
SecuritySettles ==
  /\ inFlight = {} /\ settings.at = "ready" /\ ~outpaced =>
       settings.on = account.on /\ settings.devices = account.devices
  /\ dialog.done => account.on
=============================================================================
