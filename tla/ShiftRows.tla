------------------------------ MODULE ShiftRows ------------------------------
(***************************************************************************)
(* The company's shifts edited in place (ShiftTemplatesModal.tsx): no save *)
(* button, each row is written a moment after typing stops.  A row has a   *)
(* timer, a chain of saves run one after the other, and a server id known  *)
(* the moment a create answers, before React has drawn it; deleting waits  *)
(* for the chain.  Edits draw at once, everything else when React gets to  *)
(* it.                                                                     *)
(***************************************************************************)
EXTENDS Integers

CONSTANTS Keys,       \* rows of the modal
          MaxEdits,   \* bound: edits of all rows together
          MaxRowLost  \* bound: requests or answers lost

ASSUME RowsAssumption == {MaxEdits, MaxRowLost} \subseteq Nat

VARIABLES
  rows,     \* the modal's state, with every update asked for so far
  drawn,    \* rowsRef.current: the state as last drawn
  timers,   \* rows whose timer is running
  chains,   \* [queued, ended]: saves promised to a row, and over
  saves,    \* the save of a row that is in flight
  savedIds,
  removals, \* a removal in progress
  shifts,   \* at the server: the shift made for a row, 0 where there is none
  made,     \* history: shifts ever made for a row
  doubts,   \* history: rows with a create or a delete executed and not heard
            \* of, or a create that failed while the row was being removed
  unsaved,  \* history: rows whose timer a click on delete or "done" stopped
  shut,     \* the modal has been closed
  edits, rowLost

rowVars == <<rows, drawn, timers, chains, saves, savedIds, removals, shifts, made, doubts,
             unsaved, shut, edits, rowLost>>

\* What is typed: 0 not complete yet, later values complete.
Row == [there : BOOLEAN, id : BOOLEAN, typed : 0..MaxEdits,
        state : {"saved", "saving", "incomplete", "error"}, confirming : BOOLEAN]

NoSave == [at |-> "none", creates |-> FALSE, body |-> 0]
NoRemoval == [at |-> "none", after |-> 0, confirmed |-> FALSE, id |-> FALSE]

Patched(k, row) == [rows EXCEPT ![k] = row]

-----------------------------------------------------------------------------
\* Typing. It stops the timer of the row and starts it again, and may leave the
\* row without a name or without two different times.
Edit(k) ==
  /\ ~shut /\ edits < MaxEdits /\ edits' = edits + 1
  /\ drawn[k].there /\ rows[k].there
  /\ \E typed \in {0, edits'} :
       rows' = [rows EXCEPT ![k].typed = typed, ![k].confirming = FALSE]
  /\ drawn' = rows'
  /\ timers' = timers \union {k} /\ unsaved' = unsaved \ {k}
  /\ UNCHANGED <<chains, saves, savedIds, removals, shifts, made, doubts, shut,
                 rowLost>>

\* rowsRef.current = rows, after a render.
Draw ==
  /\ drawn # rows /\ drawn' = rows
  /\ UNCHANGED <<rows, timers, chains, saves, savedIds, removals, shifts, made,
                 doubts, unsaved, shut, edits, rowLost>>

\* The timer: one more save at the end of the row's chain.
Fire(k) ==
  /\ k \in timers /\ timers' = timers \ {k}
  /\ chains' = [chains EXCEPT ![k].queued = @ + 1]
  /\ UNCHANGED <<rows, drawn, saves, savedIds, removals, shifts, made, doubts,
                 unsaved, shut, edits, rowLost>>

\* "Done" stops every timer; saves already promised go on.
CloseModal ==
  /\ ~shut /\ shut' = TRUE
  /\ timers' = {} /\ unsaved' = unsaved \union timers
  /\ UNCHANGED <<rows, drawn, chains, saves, savedIds, removals, shifts, made,
                 doubts, edits, rowLost>>

\* The next save of the chain starts as soon as the one before is over.
Turn(k) == saves[k].at = "none" /\ chains[k].ended < chains[k].queued

Ended(k) == chains' = [chains EXCEPT ![k].ended = @ + 1]

\* The id as last drawn.
KnownId_asDrawn(k) == drawn[k].id

\* savedIds.current.get(key) ?? row.id
KnownId(k) == savedIds[k] \/ drawn[k].id

\* save: nothing for a row that is gone, a remark on one that is not complete,
\* a create or an update otherwise.
Save(k) ==
  /\ Turn(k)
  /\ \/ ~drawn[k].there /\ Ended(k) /\ UNCHANGED <<rows, saves>>
     \/ /\ drawn[k].there /\ drawn[k].typed = 0
        /\ rows' = [rows EXCEPT ![k].state = "incomplete"]
        /\ Ended(k) /\ UNCHANGED saves
     \/ /\ drawn[k].there /\ drawn[k].typed # 0
        /\ rows' = [rows EXCEPT ![k].state = "saving"]
        /\ saves' = [saves EXCEPT ![k] =
             [at |-> "sent", creates |-> ~KnownId(k), body |-> drawn[k].typed]]
        /\ UNCHANGED chains
  /\ UNCHANGED <<drawn, timers, savedIds, removals, shifts, made, doubts, unsaved,
                 shut, edits, rowLost>>

\* createTemplate, or updateTemplate, which refuses a shift that is gone.
ServeSave(k) ==
  LET save == saves[k] IN
  /\ save.at = "sent"
  /\ IF save.creates \/ shifts[k] # 0
     THEN /\ shifts' = [shifts EXCEPT ![k] = save.body]
          /\ saves' = [saves EXCEPT ![k].at = "done"]
     ELSE saves' = [saves EXCEPT ![k].at = "refused"] /\ UNCHANGED shifts
  /\ made' = [made EXCEPT ![k] = IF save.creates THEN @ + 1 ELSE @]
  /\ UNCHANGED <<rows, drawn, timers, chains, savedIds, removals, doubts, unsaved,
                 shut, edits, rowLost>>

LoseSave(k) ==
  /\ rowLost < MaxRowLost /\ rowLost' = rowLost + 1
  /\ saves[k].at \in {"sent", "done"}
  /\ saves' = [saves EXCEPT ![k].at = "refused"]
  /\ doubts' = IF saves[k].creates /\ saves[k].at = "done" THEN doubts \union {k} ELSE doubts
  /\ UNCHANGED <<rows, drawn, timers, chains, savedIds, removals, shifts, made,
                 unsaved, shut, edits>>

\* The id is kept first, then the row told.  Telling a row that has been taken
\* out of the list changes nothing.
Told(k, row) == rows' = IF rows[k].there THEN Patched(k, row) ELSE rows

SaveEnds(k) ==
  /\ \/ /\ saves[k].at = "done"
        /\ savedIds' = [savedIds EXCEPT ![k] = TRUE]
        /\ Told(k, [rows[k] EXCEPT !.id = TRUE, !.state = "saved"])
        /\ UNCHANGED doubts
     \/ /\ saves[k].at = "refused"
        /\ Told(k, [rows[k] EXCEPT !.state = "error"])
        /\ doubts' = IF saves[k].creates /\ removals[k].at = "waiting"
                     THEN doubts \union {k} ELSE doubts
        /\ UNCHANGED savedIds
  /\ saves' = [saves EXCEPT ![k] = NoSave]
  /\ Ended(k)
  /\ UNCHANGED <<drawn, timers, removals, shifts, made, unsaved, shut, edits,
                 rowLost>>

-----------------------------------------------------------------------------
\* remove: clears the timer and waits for the saves promised so far.
Remove_atOnce(k) ==
  /\ ~shut /\ removals[k].at = "none" /\ drawn[k].there
  /\ removals' = [removals EXCEPT ![k] =
       [at |-> "waiting", after |-> 0, confirmed |-> drawn[k].confirming, id |-> drawn[k].id]]
  /\ timers' = timers \ {k} /\ unsaved' = unsaved \union (timers \intersect {k})
  /\ UNCHANGED <<rows, drawn, chains, saves, savedIds, shifts, made, doubts, shut,
                 edits, rowLost>>

RemoveRow(k) ==
  /\ ~shut /\ removals[k].at = "none" /\ drawn[k].there
  /\ removals' = [removals EXCEPT ![k] =
       [at |-> "waiting", after |-> chains[k].queued, confirmed |-> drawn[k].confirming,
        id |-> drawn[k].id]]
  /\ timers' = timers \ {k} /\ unsaved' = unsaved \union (timers \intersect {k})
  /\ UNCHANGED <<rows, drawn, chains, saves, savedIds, shifts, made, doubts, shut,
                 edits, rowLost>>

\* The saves it waited for are over.
Ready(k) == removals[k].at = "waiting" /\ removals[k].after <= chains[k].ended

\* A row never saved is dropped, the first click asks for a second one, and
\* the second one deletes.
RemoveGoesOn(k) ==
  LET removal == removals[k]
      id == savedIds[k] \/ removal.id
  IN  /\ Ready(k)
      /\ \/ /\ ~id
            /\ rows' = [rows EXCEPT ![k].there = FALSE]
            /\ removals' = [removals EXCEPT ![k] = NoRemoval]
         \/ /\ id /\ ~removal.confirmed
            /\ rows' = [rows EXCEPT ![k].confirming = TRUE]
            /\ removals' = [removals EXCEPT ![k] = NoRemoval]
         \/ /\ id /\ removal.confirmed
            /\ rows' = [rows EXCEPT ![k].state = "saving"]
            /\ removals' = [removals EXCEPT ![k].at = "sent"]
      /\ UNCHANGED <<drawn, timers, chains, saves, savedIds, shifts, made, doubts,
                     unsaved, shut, edits, rowLost>>

\* removeTemplate.
ServeRemove(k) ==
  /\ removals[k].at = "sent"
  /\ removals' = [removals EXCEPT ![k].at = IF shifts[k] # 0 THEN "done" ELSE "refused"]
  /\ shifts' = [shifts EXCEPT ![k] = 0]
  /\ UNCHANGED <<rows, drawn, timers, chains, saves, savedIds, made, doubts,
                 unsaved, shut, edits, rowLost>>

LoseRemove(k) ==
  /\ rowLost < MaxRowLost /\ rowLost' = rowLost + 1
  /\ removals[k].at \in {"sent", "done"}
  /\ doubts' = IF removals[k].at = "done" THEN doubts \union {k} ELSE doubts
  /\ removals' = [removals EXCEPT ![k].at = "refused"]
  /\ UNCHANGED <<rows, drawn, timers, chains, saves, savedIds, shifts, made,
                 unsaved, shut, edits>>

RemoveEnds(k) ==
  /\ \/ removals[k].at = "done" /\ rows' = [rows EXCEPT ![k].there = FALSE]
     \/ /\ removals[k].at = "refused"
        /\ Told(k, [rows[k] EXCEPT !.state = "error", !.confirming = FALSE])
  /\ removals' = [removals EXCEPT ![k] = NoRemoval]
  /\ UNCHANGED <<drawn, timers, chains, saves, savedIds, shifts, made, doubts,
                 unsaved, shut, edits, rowLost>>

-----------------------------------------------------------------------------
\* A row the company had, or one just added.
RowsInit ==
  /\ \E known \in SUBSET Keys :
       /\ rows = [k \in Keys |->
            [there |-> TRUE, id |-> k \in known, typed |-> 0, confirming |-> FALSE,
             state |-> IF k \in known THEN "saved" ELSE "incomplete"]]
       /\ shifts = [k \in Keys |-> IF k \in known THEN -1 ELSE 0]
       /\ made = [k \in Keys |-> IF k \in known THEN 1 ELSE 0]
  /\ drawn = rows
  /\ timers = {} /\ chains = [k \in Keys |-> [queued |-> 0, ended |-> 0]]
  /\ saves = [k \in Keys |-> NoSave] /\ savedIds = [k \in Keys |-> FALSE]
  /\ removals = [k \in Keys |-> NoRemoval] /\ doubts = {} /\ unsaved = {}
  /\ shut = FALSE /\ edits = 0 /\ rowLost = 0

RowStep(k) ==
  \/ Edit(k) \/ Fire(k) \/ ServeSave(k) \/ LoseSave(k) \/ SaveEnds(k)
  \/ RemoveRow(k) \/ ServeRemove(k) \/ LoseRemove(k) \/ RemoveEnds(k)

\* What waits for a promise goes on before the tab does anything else: a removal,
\* then the save promised after it, then clicks, timers, answers and drawing.
RowsNext ==
  \/ \E k \in Keys : RemoveGoesOn(k)
  \/ (\A k \in Keys : ~Ready(k)) /\ \E k \in Keys : Save(k)
  \/ (\A k \in Keys : ~Ready(k) /\ ~Turn(k)) /\ (Draw \/ CloseModal \/ \E k \in Keys : RowStep(k))

-----------------------------------------------------------------------------
RowsTypeOK ==
  /\ rows \in [Keys -> Row] /\ drawn \in [Keys -> Row]
  /\ timers \subseteq Keys /\ \A k \in Keys : chains[k].ended <= chains[k].queued
  /\ edits \in 0..MaxEdits /\ rowLost \in 0..MaxRowLost

\* However slowly creates answer and React draws, a row makes one shift, "a
\* slow create is never raced by the edit typed right after it"
\* (ShiftTemplatesModal.tsx:60), unless the answer to a create was lost.
OneShiftPerRow == \A k \in Keys \ doubts : made[k] <= 1

\* A row at rest tells the truth: "saved" is saved as it reads, and a row taken
\* out of the list is gone from the company.
AtRest(k) ==
  /\ k \notin timers /\ chains[k].queued = chains[k].ended
  /\ removals[k].at = "none" /\ drawn = rows

RowsSettle ==
  \A k \in Keys \ doubts : AtRest(k) =>
    /\ rows[k].there /\ rows[k].state = "saved" /\ rows[k].typed # 0 /\ k \notin unsaved
         => shifts[k] = rows[k].typed
    /\ ~rows[k].there => shifts[k] = 0
=============================================================================
