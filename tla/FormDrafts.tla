------------------------------ MODULE FormDrafts ------------------------------
(***************************************************************************)
(* The draft of one form of one person: a row on the server                *)
(* (draft_routes.py) and the windows that show it (draft-store.ts,         *)
(* use-server-draft.ts).  Requests of one tenant are served one at a time, *)
(* but may be served after the window has given up on them, and answers    *)
(* may be lost.                                                            *)
(***************************************************************************)
EXTENDS Naturals, FiniteSets

CONSTANTS
  Window,                \* browser windows of the person
  Text,                  \* what may be typed
  Blank,                 \* the form before anything is typed
  MaxEdits,              \* bound: edits of all windows
  MaxLosses,             \* bound: answers lost
  None

VARIABLES
  row,                   \* the row on the server
  rows,                  \* rows created so far, which number them
  window,                \* windows to what they show
  asked,                 \* windows to the request they wait for
  late,                  \* requests given up on that the server may still receive
  edits, losses
vars == <<row, rows, window, asked, late, edits, losses>>

NoRow == [id |-> 0, version |-> 0, text |-> Blank, live |-> FALSE]
NoRequest == [kind |-> None, record |-> NoRow, text |-> Blank, answer |-> None]

Dirty(w) == window[w].text # window[w].record.text
Settled(w) == asked[w] = NoRequest
\* load, save and clear do nothing while another save or clear is pending.
Ask(w, kind) ==
  /\ Settled(w)
  /\ asked' = [asked EXCEPT ![w] = [NoRequest EXCEPT !.kind = kind, !.record = window[w].record,
                                                     !.text = window[w].text]]

-----------------------------------------------------------------------------
\* A window.  `error' stops only the autosave, `conflict' everything but loading.

\* Offered before anything was loaded and after a conflict.
Load(w) ==
  /\ ~window[w].initialized \/ window[w].conflict
  /\ Ask(w, "get")
  /\ window' = [window EXCEPT ![w].error = FALSE]
  /\ UNCHANGED <<row, rows, late, edits, losses>>

Ready(w) == window[w].initialized /\ ~window[w].conflict

Edit(w, text) ==
  /\ Ready(w) /\ asked[w].kind # "get" /\ text # window[w].text /\ edits < MaxEdits
  /\ window' = [window EXCEPT ![w].text = text]
  /\ edits' = edits + 1
  /\ UNCHANGED <<row, rows, asked, late, losses>>

Save(w) ==
  /\ Ready(w) /\ Dirty(w)
  /\ Ask(w, "put")
  /\ window' = [window EXCEPT ![w].error = FALSE]
  /\ UNCHANGED <<row, rows, late, edits, losses>>
Autosave(w) == ~window[w].error /\ Save(w)

\* Without a record nothing is sent and the form is emptied at once.
Clear(w) ==
  /\ Ready(w) /\ Settled(w)
  /\ IF window[w].record.version > 0
     THEN Ask(w, "delete") /\ window' = [window EXCEPT ![w].error = FALSE]
     ELSE /\ window' = [window EXCEPT ![w].text = Blank, ![w].error = FALSE]
          /\ UNCHANGED asked
  /\ UNCHANGED <<row, rows, late, edits, losses>>

-----------------------------------------------------------------------------
\* The server.

Version == IF row.live THEN row.version ELSE 0
\* Mutant: an expired row starts its versions again.
NextVersionAnew == IF row.live THEN row.version + 1 ELSE 1
NextVersion == row.version + 1
NewRow(text) ==
  IF row = NoRow THEN [id |-> rows + 1, version |-> 1, text |-> text, live |-> TRUE]
  ELSE [row EXCEPT !.version = NextVersion, !.text = text, !.live = TRUE]

\* The repetition of a save whose answer was lost.
Repeated(request) ==
  row.live /\ row.version = request.record.version + 1 /\ row.text = request.text

\* What a request does to the row, and what is answered.
GetDraft(request) ==
  /\ request.kind = "get" /\ UNCHANGED <<row, rows>>
SaveDraft(request) ==
  /\ request.kind = "put"
  /\ IF request.record.version = Version
     THEN row' = NewRow(request.text) /\ rows' = IF row = NoRow THEN rows + 1 ELSE rows
     ELSE UNCHANGED <<row, rows>>
DeleteDraft(request) ==
  /\ request.kind = "delete"
  /\ row' = IF row.version = request.record.version THEN NoRow ELSE row
  /\ UNCHANGED rows
Serve(request) == GetDraft(request) \/ SaveDraft(request) \/ DeleteDraft(request)

Answer(request) ==
  CASE request.kind = "get" -> IF row.live THEN "found" ELSE "missing"
    [] request.kind = "put" ->
         IF request.record.version = Version \/ Repeated(request) THEN "saved" ELSE "conflict"
    [] request.kind = "delete" ->
         IF row = NoRow \/ row.version = request.record.version THEN "deleted" ELSE "conflict"

Receive(w) ==
  /\ asked[w].kind # None /\ asked[w].answer = None
  /\ Serve(asked[w])
  /\ asked' = [asked EXCEPT ![w].answer = Answer(asked[w]),
                            ![w].record = IF Answer(asked[w]) \in {"found", "saved"}
                                          THEN row' ELSE @]
  /\ UNCHANGED <<window, late, edits, losses>>
ReceiveLate(request) ==
  /\ Serve(request)
  /\ late' = late \ {request}
  /\ UNCHANGED <<window, asked, edits, losses>>

\* Twenty-four hours pass, and the worker's sweep.
Expire ==
  /\ row.live /\ row' = [row EXCEPT !.live = FALSE]
  /\ UNCHANGED <<rows, window, asked, late, edits, losses>>
Purge ==
  /\ row # NoRow /\ ~row.live /\ row' = NoRow
  /\ UNCHANGED <<rows, window, asked, late, edits, losses>>

-----------------------------------------------------------------------------
\* The answer reaches the window, or does not.

Untouched(w) == window[w].text = asked[w].text
TextAfterSave(w) == IF Untouched(w) THEN asked[w].record.text ELSE window[w].text
\* Mutant: a refused save is an error like any other.
ConflictShown(w) == FALSE
Conflicting(w) == asked[w].answer = "conflict"

Finish(w) ==
  /\ asked[w].answer # None
  /\ LET a == asked[w].answer
     IN window' = [window EXCEPT
          ![w].initialized = TRUE,
          ![w].conflict = IF a \in {"found", "missing"} THEN FALSE ELSE Conflicting(w),
          ![w].record = CASE a \in {"found", "saved"} -> asked[w].record
                          [] a \in {"missing", "deleted"} -> NoRow
                          [] OTHER -> @,
          ![w].text = CASE a = "found" -> asked[w].record.text
                        [] a = "missing" -> Blank
                        [] a = "saved" -> TextAfterSave(w)
                        [] a = "deleted" -> IF Untouched(w) THEN Blank ELSE @
                        [] OTHER -> @]
  /\ asked' = [asked EXCEPT ![w] = NoRequest]
  /\ UNCHANGED <<row, rows, late, edits, losses>>

\* The connection breaks; a request not yet received may still be.
Lose(w) ==
  /\ ~Settled(w) /\ losses < MaxLosses /\ losses' = losses + 1
  /\ window' = [window EXCEPT ![w].error = TRUE]
  /\ late' = IF asked[w].answer = None /\ asked[w].kind # "get" THEN late \cup {asked[w]} ELSE late
  /\ asked' = [asked EXCEPT ![w] = NoRequest]
  /\ UNCHANGED <<row, rows, edits>>

-----------------------------------------------------------------------------

Init ==
  /\ row = NoRow /\ rows = 0 /\ late = {} /\ edits = 0 /\ losses = 0
  /\ window = [w \in Window |-> [text |-> Blank, record |-> NoRow, initialized |-> FALSE,
                                 conflict |-> FALSE, error |-> FALSE]]
  /\ asked = [w \in Window |-> NoRequest]

OfWindow(w) ==
  Load(w) \/ (\E text \in Text : Edit(w, text)) \/ Save(w) \/ Clear(w)
  \/ Receive(w) \/ Finish(w) \/ Lose(w)
Next ==
  \/ \E w \in Window : OfWindow(w)
  \/ \E request \in late : ReceiveLate(request)
  \/ Expire \/ Purge

\* The timer of the autosave, the server and the event loop of the browser.
Fairness == \A w \in Window : WF_vars(Autosave(w)) /\ WF_vars(Receive(w)) /\ WF_vars(Finish(w))
Spec == Init /\ [][Next]_vars /\ Fairness

-----------------------------------------------------------------------------
\* A window changes or removes a row only in the state it last showed: neither a late
\* request, nor a repeated one, nor one sent after the draft expired destroys what another
\* window saved in the same row since (draft_routes.py:69).
OverwritesWhatWasSeen ==
  [][\A call \in late \cup {asked[w] : w \in Window} :
       Serve(call) /\ row' # row /\ row.live /\ call.record.id = row.id
         => call.record.text = row.text]_vars

\* What was typed survives: the answer to a save never replaces it, and it is saved in the
\* end unless the window reports a conflict or an error or the form is emptied
\* (draft-store.ts:43).
TypedIsSaved ==
  /\ [][\A w \in Window : asked[w].kind = "put" /\ asked'[w].kind = None
          => window'[w].text = window[w].text]_vars
  /\ \A w \in Window : \A text \in Text :
       [](window[w].text = text /\ Dirty(w)
          => <>(~Dirty(w) \/ window[w].text # text \/ window[w].conflict \/ window[w].error))
===============================================================================
