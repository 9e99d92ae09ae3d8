------------------------------- MODULE CodeStep -------------------------------
(***************************************************************************)
(* Signing in where the password is not enough: LoginModal with its second *)
(* step, ConfirmSignIn, and the boxes the emailed code goes in, CodeInput. *)
(* The server's handlers are one step each; TwoFactor takes them apart.    *)
(***************************************************************************)
EXTENDS Naturals, Sequences

CONSTANTS CodeLength,    \* digits of a code: CODE_LENGTH
          Digits,        \* digits
          Challenges,    \* 1..n: times the password is given
          MaxWrong,      \* MAX_ATTEMPTS
          MaxMails,      \* bound: codes mailed for a challenge
          MaxCodeMoves,  \* bound: things the person does
          MaxCodeLost    \* bound: requests or answers lost

ASSUME CodeStepAssumption ==
  /\ {CodeLength, MaxWrong, MaxMails} \subseteq Nat \ {0}
  /\ {MaxCodeMoves, MaxCodeLost} \subseteq Nat
  /\ (Challenges \union Digits) \subseteq Nat \ {0} /\ 1..MaxMails \subseteq Digits

VARIABLES
  challenge, \* at the server
  modal,     \* LoginModal and ConfirmSignIn
  boxes,     \* digits of CodeInput, 0 where there is none
  sent,      \* requests in flight
  swapped,   \* history: the step on screen took a challenge from a resend that an
             \* earlier step had asked for
  missed,    \* history: what the server said of a code, lost on the way back
  codeMoves, codeLost

codeVars == <<challenge, modal, boxes, sent, swapped, missed, codeMoves, codeLost>>

Boxes == 1..CodeLength
NoDigits == [i \in Boxes |-> 0]
IsFull(b) == \A i \in Boxes : b[i] # 0

\* The code in a challenge's k-th mail.
MailedCode(k) == [i \in Boxes |-> IF i = 1 THEN k ELSE 1]

NotMade == [made |-> FALSE, open |-> FALSE, wrong |-> 0, fresh |-> FALSE, cooling |-> FALSE,
            mails |-> 0, right |-> FALSE]

\* step: "password", "code" or "in"; id: the challenge it is about; mails: the
\* mail whose countdown it shows; mounted: how often the code step was drawn.
Opened == [step |-> "password", submitting |-> FALSE, id |-> 0, mails |-> 0, verifying |-> FALSE,
           resending |-> FALSE, dead |-> FALSE, mounted |-> 0]

-----------------------------------------------------------------------------
\* What the person does.

CodeMove == codeMoves < MaxCodeMoves /\ codeMoves' = codeMoves + 1

Post(kind, code) ==
  sent' = sent \union {[kind |-> kind, id |-> modal.id, code |-> code, mounted |-> modal.mounted,
                        at |-> "sent", answer |-> "none", mails |-> 0]}

\* The password, right.
SubmitPassword ==
  /\ CodeMove /\ modal.step = "password" /\ ~modal.submitting
  /\ \E c \in Challenges : ~challenge[c].made
  /\ modal' = [modal EXCEPT !.submitting = TRUE]
  /\ Post("login", NoDigits)
  /\ UNCHANGED <<challenge, boxes, swapped, missed, codeLost>>

\* fill: the digits from one box on, as many as there is room for.
Fill(start, incoming) ==
  [i \in Boxes |-> IF i \in start..(start + Len(incoming) - 1) THEN incoming[i - start + 1]
                   ELSE boxes[i]]

\* Typing, pasting, or the browser filling in the code it found in the mail: a
\* whole code starts at the first box wherever it is put.  The last box sends it.
Enters(i, incoming) ==
  LET next == Fill(IF Len(incoming) >= CodeLength THEN 1 ELSE i, incoming) IN
  /\ CodeMove /\ modal.step = "code" /\ ~modal.verifying /\ ~modal.dead
  /\ boxes' = next
  /\ IF IsFull(next)
     THEN modal' = [modal EXCEPT !.verifying = TRUE] /\ Post("verify", next)
     ELSE UNCHANGED <<modal, sent>>
  /\ UNCHANGED <<challenge, swapped, missed, codeLost>>

\* Backspace empties a box, or the one before an empty one.
Erase(i) ==
  /\ CodeMove /\ modal.step = "code" /\ ~modal.verifying /\ ~modal.dead
  /\ \/ boxes[i] # 0 /\ boxes' = [boxes EXCEPT ![i] = 0]
     \/ boxes[i] = 0 /\ i > 1 /\ boxes' = [boxes EXCEPT ![i - 1] = 0]
  /\ UNCHANGED <<challenge, modal, sent, swapped, missed, codeLost>>

\* "Send again", once the countdown of the last code it knows of is over; a
\* code being checked does not hold it up.
AskAgain ==
  /\ CodeMove /\ modal.step = "code" /\ ~modal.dead /\ ~modal.resending
  /\ challenge[modal.id].cooling => modal.mails # challenge[modal.id].mails
  /\ modal' = [modal EXCEPT !.resending = TRUE]
  /\ Post("resend", NoDigits)
  /\ UNCHANGED <<challenge, boxes, swapped, missed, codeLost>>

\* "Back to sign in", under the code at any time.
GoBack ==
  /\ CodeMove /\ modal.step = "code"
  /\ modal' = [Opened EXCEPT !.mounted = modal.mounted, !.submitting = modal.submitting]
  /\ boxes' = NoDigits
  /\ UNCHANGED <<challenge, sent, swapped, missed, codeLost>>

-----------------------------------------------------------------------------
\* The server, and the clock.

Answers(r, answer, id) ==
  sent' = (sent \ {r}) \union {[r EXCEPT !.at = "answered", !.answer = answer, !.id = id,
                                         !.mails = challenge'[id].mails]}

\* login: the challenges before are closed and a new one made.
ServeLogin(r) ==
  \E c \in Challenges :
    /\ ~challenge[c].made /\ \A d \in Challenges : d < c => challenge[d].made
    /\ challenge' = [d \in Challenges |->
         IF d = c THEN [NotMade EXCEPT !.made = TRUE, !.open = TRUE, !.fresh = TRUE,
                                       !.cooling = TRUE, !.mails = 1]
         ELSE [challenge[d] EXCEPT !.open = FALSE]]
    /\ Answers(r, "ok", c)

\* check, and resendLogin.
ServeCode(r) ==
  LET c == challenge[r.id]
      exhausted == c.wrong >= MaxWrong
      right == r.code = MailedCode(c.mails)
      wrong == c.wrong + 1
      stands(answer) == UNCHANGED challenge /\ Answers(r, answer, r.id)
  IN  \/ exhausted /\ stands("dead")
      \/ ~exhausted /\ ~c.open /\ stands("expired")
      \/ /\ ~exhausted /\ c.open /\ r.kind = "verify"
         /\ \/ ~c.fresh /\ stands("expired")
            \/ /\ c.fresh /\ right
               /\ challenge' = [challenge EXCEPT ![r.id].open = FALSE, ![r.id].right = TRUE]
               /\ Answers(r, "ok", r.id)
            \/ /\ c.fresh /\ ~right
               /\ challenge' = [challenge EXCEPT ![r.id].wrong = wrong]
               /\ Answers(r, IF wrong >= MaxWrong THEN "dead" ELSE "wrong", r.id)
      \/ /\ ~exhausted /\ c.open /\ r.kind = "resend"
         /\ \/ c.cooling /\ stands("soon")
            \/ /\ ~c.cooling
               /\ challenge' = [challenge EXCEPT ![r.id].fresh = TRUE, ![r.id].cooling = TRUE,
                                                 ![r.id].mails = @ + 1]
               /\ Answers(r, "ok", r.id)

Serve(r) ==
  /\ r \in sent /\ r.at = "sent"
  /\ IF r.kind = "login" THEN ServeLogin(r) ELSE ServeCode(r)
  /\ UNCHANGED <<modal, boxes, swapped, missed, codeMoves, codeLost>>

\* The minute between two codes, and the ten minutes of one.
Passes(c) ==
  /\ \/ challenge[c].cooling /\ challenge[c].mails < MaxMails
        /\ challenge' = [challenge EXCEPT ![c].cooling = FALSE]
     \/ challenge[c].fresh /\ ~challenge[c].cooling
        /\ challenge' = [challenge EXCEPT ![c].fresh = FALSE]
  /\ UNCHANGED <<modal, boxes, sent, swapped, missed, codeMoves, codeLost>>

-----------------------------------------------------------------------------
\* What comes back.  An answer finds the code step that asked, another one, or
\* none: what it says is then told to nobody, except that LoginModal takes the
\* challenge of a resend, and a right code signs in, wherever the person is.

Asking(r) == modal.step = "code" /\ modal.mounted = r.mounted

\* handleSubmit, which goes on wherever the dialog has come to meanwhile: a code
\* step that a resend has opened again stays, and is about the new challenge.
PasswordTaken(r) ==
  /\ r.kind = "login" /\ modal.step # "in"
  /\ \/ /\ r.answer = "ok" /\ modal.step = "password"
        /\ modal' = [Opened EXCEPT !.step = "code", !.id = r.id, !.mails = r.mails,
                                   !.mounted = modal.mounted + 1]
        /\ swapped' = FALSE
     \/ /\ r.answer = "ok" /\ modal.step = "code"
        /\ modal' = [modal EXCEPT !.submitting = FALSE, !.id = r.id, !.mails = r.mails]
        /\ UNCHANGED swapped
     \/ /\ r.answer # "ok" /\ modal' = [modal EXCEPT !.submitting = FALSE]
        /\ UNCHANGED swapped
  /\ UNCHANGED boxes

\* The boxes left as they were.
CodeRefused_keepsDigits(r) ==
  /\ r.kind = "verify" /\ r.answer # "ok"
  /\ IF Asking(r)
     THEN modal' = [modal EXCEPT !.verifying = FALSE, !.dead = @ \/ r.answer = "dead"]
     ELSE UNCHANGED modal
  /\ UNCHANGED <<boxes, swapped>>

\* "a wrong one clears the boxes for another go"
CodeRefused(r) ==
  /\ r.kind = "verify" /\ r.answer # "ok"
  /\ IF Asking(r)
     THEN /\ modal' = [modal EXCEPT !.verifying = FALSE, !.dead = @ \/ r.answer = "dead"]
          /\ boxes' = NoDigits
     ELSE UNCHANGED <<modal, boxes>>
  /\ UNCHANGED swapped

\* enter
CodeTaken(r) ==
  /\ r.kind = "verify" /\ r.answer = "ok"
  /\ modal' = [modal EXCEPT !.step = "in", !.verifying = FALSE]
  /\ UNCHANGED <<boxes, swapped>>

\* onResent is LoginModal's own setChallenge.
Resent(r) ==
  /\ r.kind = "resend" /\ r.answer = "ok" /\ modal.step # "in"
  /\ IF Asking(r)
     THEN /\ modal' = [modal EXCEPT !.resending = FALSE, !.mails = r.mails, !.id = r.id]
          /\ boxes' = NoDigits /\ UNCHANGED swapped
     ELSE /\ modal' = [modal EXCEPT !.step = "code", !.id = r.id, !.mails = r.mails,
                        !.mounted = IF modal.step = "code" THEN @ ELSE @ + 1]
          /\ swapped' = TRUE /\ UNCHANGED boxes

ResendRefused(r) ==
  /\ r.kind = "resend" /\ r.answer # "ok"
  /\ IF Asking(r)
     THEN modal' = [modal EXCEPT !.resending = FALSE, !.dead = @ \/ r.answer = "dead"]
     ELSE UNCHANGED modal
  /\ UNCHANGED <<boxes, swapped>>

\* The dialog is gone: nothing is left to tell.
Unheard(r) ==
  /\ modal.step = "in" /\ (r.kind = "login" \/ (r.kind = "resend" /\ r.answer = "ok"))
  /\ UNCHANGED <<modal, boxes, swapped>>

CodeAnswer(r) ==
  /\ r \in sent /\ r.at = "answered" /\ sent' = sent \ {r}
  /\ \/ PasswordTaken(r) \/ CodeRefused(r) \/ CodeTaken(r)
     \/ Resent(r) \/ ResendRefused(r) \/ Unheard(r)
  /\ UNCHANGED <<challenge, missed, codeMoves, codeLost>>

\* A request that never arrives, or whose answer does not come back.
LoseCode(r) ==
  /\ codeLost < MaxCodeLost /\ codeLost' = codeLost + 1
  /\ r \in sent /\ r.answer # "lost"
  /\ sent' = (sent \ {r}) \union {[r EXCEPT !.at = "answered", !.answer = "lost"]}
  /\ missed' = IF r.kind = "verify" /\ r.answer \in {"ok", "dead"} THEN missed \union {r.answer}
               ELSE missed
  /\ UNCHANGED <<challenge, modal, boxes, swapped, codeMoves>>

CodeInit ==
  /\ challenge = [c \in Challenges |-> NotMade]
  /\ modal = Opened /\ boxes = NoDigits /\ sent = {}
  /\ swapped = FALSE /\ missed = {}
  /\ codeMoves = 0 /\ codeLost = 0

Incoming == UNION {[1..n -> Digits] : n \in 1..CodeLength}

CodeNext ==
  \/ SubmitPassword \/ AskAgain \/ GoBack
  \/ \E i \in Boxes : Erase(i) \/ \E incoming \in Incoming : Enters(i, incoming)
  \/ \E r \in sent : Serve(r) \/ CodeAnswer(r) \/ LoseCode(r)
  \/ \E c \in Challenges : Passes(c)

-----------------------------------------------------------------------------
CodeTypeOK ==
  /\ boxes \in [Boxes -> Digits \union {0}]
  /\ modal.step \in {"password", "code", "in"} /\ modal.id \in Challenges \union {0}
  /\ missed \subseteq {"ok", "dead"}
  /\ \A c \in Challenges : challenge[c].wrong \in 0..MaxWrong /\ challenge[c].mails \in 0..MaxMails
  /\ codeMoves \in 0..MaxCodeMoves /\ codeLost \in 0..MaxCodeLost

\* "The code submits itself once the sixth digit is in; a wrong one clears the
\* boxes for another go, and a challenge that has died - expired past resending, or
\* out of tries - sends the person back to sign in" (LoginModal.tsx:127-129).  Full
\* boxes are being checked.  Only one out of tries is dead to the code (162, 177;
\* the README has the other): who is sent back is out of tries, and, with nothing
\* in flight, who is out of tries is sent back, unless that answer was lost.  The
\* step is about the challenge whose code was mailed last.  Not so while a resend
\* that an earlier step had asked for has put its own challenge under the step on
\* screen.  And with nothing in flight the person is in where a code was right,
\* unless that answer was lost, and nowhere else.
CodeStepHolds ==
  /\ modal.step = "code" /\ IsFull(boxes) => modal.verifying
  /\ modal.step = "code" /\ ~swapped =>
       /\ modal.dead => challenge[modal.id].wrong >= MaxWrong
       /\ \A c \in Challenges : challenge[c].made => c <= modal.id
       /\ sent = {} /\ "dead" \notin missed /\ challenge[modal.id].wrong >= MaxWrong => modal.dead
  /\ modal.step = "in" => \E c \in Challenges : challenge[c].right
  /\ sent = {} /\ "ok" \notin missed /\ (\E c \in Challenges : challenge[c].right) =>
       modal.step = "in"
=============================================================================
