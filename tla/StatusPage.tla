----------------------------- MODULE StatusPage -----------------------------
(***************************************************************************)
(* The status page (src/src/index.html) in front of the inventory.  It     *)
(* asks for /status when it is opened, every five seconds, and after each  *)
(* submission of its form, and never waits for one answer before it asks   *)
(* again: answers come in any order, late, or not at all.                  *)
(***************************************************************************)
EXTENDS Inventory

CONSTANTS
  Mine,    \* the payloads that are typed into this page; others come from elsewhere
  Timers,  \* bound: refreshes of the timer that are under way at once
  Limit    \* summaries in an answer of /status: 25 in the code

ASSUME PageAssumption ==
  /\ Mine \subseteq Payloads /\ Limit \in Nat \ {0}
  /\ "open" \notin Timers /\ "submit" \notin Timers

VARIABLES
  fetches,  \* of each refresh: "idle", "asked", "failed", or the answer on its way
  shown,    \* the rows of the table
  message,  \* what the page says: "none", "ok" or "err"
  form,     \* "ready", or with the button disabled "posting" or "refreshing"
  mine      \* the payload that was submitted last

page == <<fetches, shown, message, form, mine>>
vars == <<inventory_vars, page>>

(* The refreshes of the timer, the one on opening the page, and the one    *)
(* that submitPayload awaits.                                              *)
Fetches == Timers \cup {"open", "submit"}
fetch(f, state, rows) == fetches' = [fetches EXCEPT ![f] = [at |-> state, latest |-> rows]]

Init ==
  /\ InventoryInit
  /\ fetches =
       [f \in Fetches |-> [at |-> IF f = "open" THEN "asked" ELSE "idle", latest |-> << >>]]
  /\ shown = << >> /\ message = "none" /\ form = "ready" /\ mine = None
-----------------------------------------------------------------------------
(* setInterval                                                             *)
Timer(t) ==
  /\ fetches[t].at = "idle" /\ fetch(t, "asked", << >>)
  /\ UNCHANGED <<inventory_vars, shown, message, form, mine>>

(* Mutant of Answer: without cache: "no-store", from the browser's cache.  *)
AnswerCached(f) ==
  /\ fetches[f].at = "asked" /\ \E rows \in {snapshot(Limit), shown} : fetch(f, "answered", rows)
  /\ UNCHANGED <<inventory_vars, shown, message, form, mine>>

(* status_handler answers with what is listed now.                         *)
Answer(f) ==
  /\ fetches[f].at = "asked" /\ fetch(f, "answered", snapshot(Limit))
  /\ UNCHANGED <<inventory_vars, shown, message, form, mine>>

(* The connection or the server fails.                                     *)
Lose(f) ==
  /\ fetches[f].at = "asked" /\ fetch(f, "failed", << >>)
  /\ UNCHANGED <<inventory_vars, shown, message, form, mine>>

(* finally                                                                 *)
ends(f) == form' = IF f = "submit" THEN "ready" ELSE form

(* refresh writes the table.                                               *)
Show(f) ==
  /\ fetches[f].at = "answered"
  /\ shown' = fetches[f].latest /\ fetch(f, "idle", << >>) /\ ends(f)
  /\ UNCHANGED <<inventory_vars, message, mine>>

(* Mutant of ShowFailure: the timer is set again by a success only.        *)
ShowFailureStops(f) ==
  /\ fetches[f].at = "failed"
  /\ fetch(f, IF f \in Timers THEN "stopped" ELSE "idle", << >>) /\ ends(f)
  /\ message' = (IF f \in Timers THEN message ELSE "err")
  /\ UNCHANGED <<inventory_vars, shown, mine>>

(* The timer's catch ignores a failure, the others show it, over what the  *)
(* page said of the submission before.                                     *)
ShowFailure(f) ==
  /\ fetches[f].at = "failed"
  /\ fetch(f, "idle", << >>) /\ ends(f)
  /\ message' = (IF f \in Timers THEN message ELSE "err")
  /\ UNCHANGED <<inventory_vars, shown, mine>>

(* submitPayload, up to its fetch; the button keeps a second one out.      *)
Submit(p) ==
  /\ form = "ready"
  /\ form' = "posting" /\ mine' = p
  /\ UNCHANGED <<inventory_vars, fetches, shown, message>>

(* An answer 200 or 201.                                                   *)
Accepted ==
  /\ form = "posting" /\ mine \in stored
  /\ message' = "ok" /\ form' = "refreshing" /\ fetch("submit", "asked", << >>)
  /\ UNCHANGED <<inventory_vars, shown, mine>>

(* A refusal, an error, or no answer: whether it was stored is not known.  *)
Refused ==
  /\ form = "posting"
  /\ message' = "err" /\ form' = "ready"
  /\ UNCHANGED <<inventory_vars, fetches, shown, mine>>

Clear ==
  /\ message # "none" /\ message' = "none"
  /\ UNCHANGED <<inventory_vars, fetches, shown, form, mine>>

(* The service; it gets the payloads of this page from its form.           *)
Service ==
  /\ \/ \E s \in Submissions :
          \/ \E p \in Payloads : (p \in Mine => form = "posting" /\ mine = p) /\ Date(s, p)
          \/ Commit(s) \/ Drop(s)
     \/ Restart \/ Tick
  /\ UNCHANGED page

Next ==
  \/ Service \/ Accepted \/ Refused \/ Clear
  \/ \E p \in Mine : Submit(p)
  \/ \E t \in Timers : Timer(t)
  \/ \E f \in Fetches : Answer(f) \/ Lose(f) \/ Show(f) \/ ShowFailure(f)

(* The timer goes on, every request ends one way or the other and its end  *)
(* is handled, and not all refreshes fail for ever.                        *)
Spec ==
  /\ Init /\ [][Next]_vars
  /\ \A t \in Timers : WF_vars(Timer(t)) /\ SF_vars(Answer(t))
  /\ \A f \in Fetches : WF_vars(Answer(f) \/ Lose(f)) /\ WF_vars(Show(f)) /\ WF_vars(ShowFailure(f))
  /\ WF_vars(Accepted \/ Refused)
-----------------------------------------------------------------------------
(* Types; while its refresh is under way the button is disabled.           *)
PageTypeOK ==
  /\ InventoryTypeOK
  /\ form \in {"ready", "posting", "refreshing"} /\ message \in {"none", "ok", "err"}
  /\ mine \in Mine \cup {None}
  /\ \A f \in Fetches : fetches[f].at \in {"idle", "asked", "failed", "answered"}
  /\ fetches["submit"].at # "idle" <=> form = "refreshing"

(* The refresh that follows a submission shows it, or a full table of      *)
(* payloads none of which was there in an earlier second when it was       *)
(* dated, however many older answers are still on their way.               *)
SubmissionIsShown ==
  [][form = "refreshing" /\ form' = "ready" /\ fetches["submit"].at = "answered" =>
        \/ mine \in ToSet(shown')
        \/ Len(shown') = Limit /\ \A p \in ToSet(shown') : ~later(mine, p)]_vars

(* However many answers are lost or overtaken, the table is the current    *)
(* one again and again, and the button comes back after every submission.  *)
PageRecovers == []<>(shown = snapshot(Limit)) /\ (form # "ready" ~> form = "ready")
=============================================================================
