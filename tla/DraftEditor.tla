---------------------------- MODULE DraftEditor ----------------------------
(***************************************************************************)
(* The editor of the web application: a draft that is edited while it is   *)
(* saved, and what happens when it was saved elsewhere                     *)
(* (apps/web/src/lib/use-draft-editor.ts, draft-reapply.ts,                *)
(* components/editor/draft-conflict.tsx).                                  *)
(*                                                                         *)
(* A draft is the set of the edits it holds, each made to one object; what *)
(* it holds of an object is the object's value.  The registry keeps a      *)
(* version of it and takes a save that names that version (Drafts.tla).    *)
(* Answers get lost, and a request the editor gave up may still arrive.    *)
(***************************************************************************)
EXTENDS Naturals, Sequences, FiniteSets

CONSTANTS Edits,        \* what the user of this editor writes
          Elsewhere,    \* what is written in other editors
          ObjectOf,     \* the object that an edit changes
          MaxLost,      \* bound: requests given up
          Nothing

Working == SUBSET (Edits \cup Elsewhere)

Objects == {ObjectOf[e] : e \in Edits \cup Elsewhere}

\* The value that draft w has for object o.
On(o, w) == {e \in w : ObjectOf[e] = o}

ASSUME EditorAssumption ==
    /\ Edits \cap Elsewhere = {}
    /\ MaxLost \in Nat
    /\ \A w \in Working : w # Nothing

VARIABLES drafts,       \* the versions the registry has had, the last one is the draft
          editor,       \* the refs of useDraftEditor
          flight,       \* the save the editor waits for
          stray,        \* saves it gave up that may still arrive
          reload,       \* reload() while it waits
          review,       \* reviewConflict() while it waits
          lost,         \* saves given up so far
          replaced      \* history: what the user chose to replace after a conflict

editorVars == <<drafts, editor, flight, stray, reload, review, lost, replaced>>

Version == Len(drafts)

NoFlight == [answer |-> "none"]
Flight == [answer: {"sent", "saved", "conflict", "denied", "invalid"},
           expected: Nat, working: Working]
Save == [expected: Nat, working: Working]
Off == [pc |-> "off"]
Read == [working: Working, version: Nat]
\* A recovery that was overtaken by another one is not live (recoveryEpoch).
Recovery == [pc: {"waiting", "asked"}, live: BOOLEAN]
            \cup [pc: {"answered"}, live: BOOLEAN, draft: Read]
Reviewed == [base: Working, local: Working, latest: Working, version: Nat]
Editor == [current: Working, saved: Working, version: Nat, pending: Working \cup {Nothing},
           conflict: BOOLEAN, ok: BOOLEAN, live: BOOLEAN,
           state: {"saved", "dirty", "saving", "conflict", "denied", "invalid", "error"},
           reviewed: Reviewed \cup {Nothing}]

EditorTypeOK ==
    /\ drafts \in Seq(Working)
    /\ editor \in Editor
    /\ flight \in Flight \cup {NoFlight}
    /\ stray \in SUBSET Save
    /\ reload \in Recovery \cup {Off}
    /\ review \in Recovery \cup {Off}
    /\ lost \in Nat
    /\ replaced \in Working

EditorInit ==
    /\ drafts = <<{}>>
    /\ editor = [current |-> {}, saved |-> {}, version |-> 1, pending |-> Nothing,
                 conflict |-> FALSE, ok |-> TRUE, live |-> TRUE, state |-> "saved",
                 reviewed |-> Nothing]
    /\ flight = NoFlight
    /\ stray = {}
    /\ reload = Off
    /\ review = Off
    /\ lost = 0
    /\ replaced = {}

(***************************************************************************)
(* Editing and saving.                                                     *)
(***************************************************************************)
Update(e) ==
    /\ editor.live /\ ~editor.conflict /\ e \notin editor.current
    /\ editor' = [editor EXCEPT !.current = @ \cup {e}, !.pending = editor.current \cup {e},
                                !.state = "dirty"]
    /\ UNCHANGED <<drafts, flight, stray, reload, review, lost, replaced>>

Sending(ed) == flight' = [answer |-> "sent", expected |-> ed.version, working |-> ed.pending]
Sent(ed) == [ed EXCEPT !.pending = Nothing, !.state = "saving"]

\* The timer, or flush(): one save at a time, of all that is pending.
SaveNow ==
    /\ flight = NoFlight /\ editor.live /\ ~editor.conflict /\ editor.pending # Nothing
    /\ Sending(editor)
    /\ editor' = Sent(editor)
    /\ UNCHANGED <<drafts, stray, reload, review, lost, replaced>>

\* Mutant of Drain: what was written during the save is left to the timer, and not looked at.
DrainQuiet(ed) == flight' = NoFlight /\ editor' = [ed EXCEPT !.state = "saved"]

\* The end of a save that succeeded: what was written meanwhile is sent next.
Drain(ed) ==
    IF ed.pending # Nothing
    THEN Sending(ed) /\ editor' = Sent(ed)
    ELSE flight' = NoFlight /\ editor' = [ed EXCEPT !.state = "saved"]

\* Mutant of SaveDone: what is shown counts as saved.
SaveDoneShown ==
    /\ flight.answer = "saved"
    /\ IF editor.live
       THEN Drain([editor EXCEPT !.version = flight.expected + 1, !.saved = editor.current,
                                 !.ok = TRUE])
       ELSE flight' = NoFlight /\ UNCHANGED editor
    /\ UNCHANGED <<drafts, stray, reload, review, lost, replaced>>

SaveDone ==
    /\ flight.answer = "saved"
    /\ IF editor.live
       THEN Drain([editor EXCEPT !.version = flight.expected + 1, !.saved = flight.working,
                                 !.ok = TRUE])
       ELSE flight' = NoFlight /\ UNCHANGED editor
    /\ UNCHANGED <<drafts, stray, reload, review, lost, replaced>>

\* What is not saved stays pending, unless something newer is.
Keep(ed) == IF ed.pending = Nothing THEN flight.working ELSE ed.pending

\* Another version, no access, or a draft the checks reject; only the first two stop saving.
SaveRefused ==
    /\ flight.answer \in {"conflict", "denied", "invalid"}
    /\ editor' = IF ~editor.live THEN editor
                 ELSE [editor EXCEPT
                          !.ok = FALSE, !.state = flight.answer,
                          !.conflict = flight.answer # "invalid",
                          !.pending = IF flight.answer = "denied" THEN Keep(editor) ELSE @]
    /\ flight' = NoFlight
    /\ UNCHANGED <<drafts, stray, reload, review, lost, replaced>>

\* No answer: the request did not arrive yet, or the answer is lost.
GiveUp ==
    /\ flight # NoFlight /\ lost < MaxLost
    /\ lost' = lost + 1
    /\ stray' = IF flight.answer = "sent"
                THEN stray \cup {[expected |-> flight.expected, working |-> flight.working]}
                ELSE stray
    /\ editor' = IF ~editor.live THEN editor
                 ELSE [editor EXCEPT !.ok = FALSE, !.state = "error", !.pending = Keep(editor)]
    /\ flight' = NoFlight
    /\ UNCHANGED <<drafts, reload, review, replaced>>

(***************************************************************************)
(* The registry and the other editors.                                     *)
(***************************************************************************)
Answer(a) == flight' = [flight EXCEPT !.answer = a]

\* PUT draft: 409 for another version, 422 for what the checks reject.
Registry ==
    /\ flight.answer = "sent"
    /\ \/ /\ flight.expected = Version
          /\ drafts' = Append(drafts, flight.working)
          /\ Answer("saved")
       \/ flight.expected = Version /\ Answer("invalid") /\ UNCHANGED drafts
       \/ flight.expected # Version /\ Answer("conflict") /\ UNCHANGED drafts
       \/ Answer("denied") /\ UNCHANGED drafts
    /\ UNCHANGED <<editor, stray, reload, review, lost, replaced>>

\* A save the editor no longer waits for arrives, or never does.
Arrive(s) ==
    /\ s \in stray
    /\ stray' = stray \ {s}
    /\ \/ UNCHANGED drafts
       \/ s.expected = Version /\ drafts' = Append(drafts, s.working)
    /\ UNCHANGED <<editor, flight, reload, review, lost, replaced>>

\* Another editor saves what it added to the draft it had.  What it replaces after a conflict
\* of its own is for its user what Reapply is for the user of this one.
SaveElsewhere(x) ==
    /\ \A v \in 1..Version : x \notin drafts[v]
    /\ drafts' = Append(drafts, drafts[Version] \cup {x})
    /\ UNCHANGED <<editor, flight, stray, reload, review, lost, replaced>>

(***************************************************************************)
(* After a conflict.                                                       *)
(***************************************************************************)
Overtaken(op) == IF op = Off THEN Off ELSE [op EXCEPT !.live = FALSE]

\* The notice of the conflict offers to discard, or to compare; either overtakes the other.
ReloadStart ==
    /\ editor.live /\ editor.state = "conflict" /\ reload = Off
    /\ reload' = [pc |-> "waiting", live |-> TRUE]
    /\ review' = Overtaken(review)
    /\ editor' = [editor EXCEPT !.reviewed = Nothing]
    /\ UNCHANGED <<drafts, flight, stray, lost, replaced>>

ReviewStart ==
    /\ editor.live /\ editor.state = "conflict" /\ review = Off
    /\ review' = [pc |-> "waiting", live |-> TRUE]
    /\ reload' = Overtaken(reload)
    /\ editor' = [editor EXCEPT !.reviewed = Nothing]
    /\ UNCHANGED <<drafts, flight, stray, lost, replaced>>

\* The save that is under way ends first; then the draft is asked for.
AskFor(op) == IF op.live /\ editor.live THEN [op EXCEPT !.pc = "asked"] ELSE Off
Answered(op) == [pc |-> "answered", live |-> op.live,
                 draft |-> [working |-> drafts[Version], version |-> Version]]

ReloadReads ==
    /\ \/ reload.pc = "waiting" /\ flight = NoFlight /\ reload' = AskFor(reload)
       \/ reload.pc = "asked" /\ reload' \in {Answered(reload), Off}
    /\ UNCHANGED <<drafts, editor, flight, stray, review, lost, replaced>>

ReviewReads ==
    /\ \/ review.pc = "waiting" /\ flight = NoFlight /\ review' = AskFor(review)
       \/ review.pc = "asked" /\ review' \in {Answered(review), Off}
    /\ UNCHANGED <<drafts, editor, flight, stray, reload, lost, replaced>>

\* The comparison fails because access was lost.
ReviewDenied ==
    /\ review.pc = "asked" /\ review' = Off
    /\ editor' = IF review.live /\ editor.live THEN [editor EXCEPT !.state = "denied"] ELSE editor
    /\ UNCHANGED <<drafts, flight, stray, reload, lost, replaced>>

ReloadDone ==
    /\ reload.pc = "answered" /\ reload' = Off
    /\ editor' = IF ~(reload.live /\ editor.live) THEN editor
                 ELSE [editor EXCEPT !.current = reload.draft.working,
                                     !.saved = reload.draft.working,
                                     !.version = reload.draft.version,
                                     !.pending = Nothing, !.conflict = FALSE, !.ok = TRUE,
                                     !.state = "saved"]
    /\ UNCHANGED <<drafts, flight, stray, review, lost, replaced>>

ReviewDone ==
    /\ review.pc = "answered" /\ review' = Off
    /\ editor' = IF ~(review.live /\ editor.live /\ editor.conflict) THEN editor
                 ELSE [editor EXCEPT !.reviewed =
                          [base |-> editor.saved, local |-> editor.current,
                           latest |-> review.draft.working, version |-> review.draft.version]]
    /\ UNCHANGED <<drafts, flight, stray, reload, lost, replaced>>

\* createDraftReapply: the objects that the user changed and the latest draft has otherwise,
\* and those of them that were changed elsewhere too.
Differs(o, v, w) == On(o, v) # On(o, w)
Entries(r) == {o \in Objects : Differs(o, r.base, r.local) /\ Differs(o, r.local, r.latest)}
Contested(r) == {o \in Entries(r) : Differs(o, r.base, r.latest)}

\* Mutant of Reapplied: the user's draft replaces the latest one.
ReappliedWhole(r, chosen) == r.local

\* applyDraftReapply: the latest draft, with the user's value of every object that the user
\* keeps, including what was changed of it elsewhere (draft-conflict.tsx:121-122).
Reapplied(r, chosen) ==
    {e \in r.latest : ObjectOf[e] \notin chosen} \cup {e \in r.local : ObjectOf[e] \in chosen}

\* What it takes back of the latest draft where the notice says that both changed.
TakenBack(r, chosen) ==
    {e \in r.latest \ r.local : ObjectOf[e] \in chosen \cap Contested(r)}

\* The result is saved at once, as the successor of the version compared with.
Reapply(chosen) ==
    /\ editor.live /\ editor.conflict /\ editor.state = "conflict"
    /\ editor.reviewed # Nothing /\ flight = NoFlight
    /\ LET r == editor.reviewed
           next == Reapplied(r, chosen)
       IN /\ editor.current = r.local /\ editor.saved = r.base
          /\ chosen \subseteq Entries(r)
          /\ LET ed == [editor EXCEPT !.reviewed = Nothing, !.pending = next, !.current = next,
                                      !.saved = r.latest, !.version = r.version,
                                      !.conflict = FALSE, !.ok = FALSE]
             IN Sending(ed) /\ editor' = Sent(ed)
          /\ replaced' = replaced \cup TakenBack(r, chosen)
    /\ reload' = Overtaken(reload) /\ review' = Overtaken(review)
    /\ UNCHANGED <<drafts, stray, lost>>

\* The page is left: nothing that comes later is looked at.
Dispose ==
    /\ editor.live
    /\ editor' = [editor EXCEPT !.live = FALSE, !.pending = Nothing, !.reviewed = Nothing]
    /\ reload' = Overtaken(reload) /\ review' = Overtaken(review)
    /\ UNCHANGED <<drafts, flight, stray, lost, replaced>>

EditorNext ==
    \/ \E e \in Edits : Update(e)
    \/ SaveNow \/ SaveDone \/ SaveRefused \/ GiveUp
    \/ Registry \/ \E s \in stray : Arrive(s)
    \/ \E x \in Elsewhere : SaveElsewhere(x)
    \/ ReloadStart \/ ReloadReads \/ ReloadDone
    \/ ReviewStart \/ ReviewReads \/ ReviewDenied \/ ReviewDone
    \/ \E chosen \in SUBSET Objects : Reapply(chosen)
    \/ Dispose

EditorSpec == EditorInit /\ [][EditorNext]_editorVars

(***************************************************************************)
(* Properties.                                                             *)
(***************************************************************************)
\* What the editor takes for saved is what the registry had as that version, also after
\* lost answers and recoveries that overtook each other: flushSnapshot hands out that pair.
SavedIsTrue ==
    /\ editor.version <= Version
    /\ editor.saved = drafts[editor.version]

\* When the editor says that everything is saved, what it shows is (use-draft-editor.ts:93-143).
SaidIsSaved ==
    editor.live /\ editor.state = "saved" => editor.current = drafts[editor.version]

\* What a version of the draft holds is in every later one, whoever wrote it, unless the user
\* was told that the object had been changed elsewhere too and chose to replace it
\* (draft-conflict.tsx:121-122): retries, saves that arrive after they were given up,
\* comparisons with a version that is no longer the latest and the objects that a reapplied
\* conflict is not about included.
NothingSavedIsLost ==
    \A i, j \in 1..Version : i <= j => drafts[i] \ drafts[j] \subseteq replaced
=============================================================================
