---------------------------- MODULE EditorProofs ----------------------------
(***************************************************************************)
(* Theorems about DraftEditor, for any edits, here and elsewhere, and any  *)
(* number of requests given up.                                            *)
(***************************************************************************)
EXTENDS DraftEditor, TLAPS
-----------------------------------------------------------------------------
(***************************************************************************)
(* The inductive invariant.  Whatever stands for a version of the draft    *)
(* (what the editor takes for saved, what a recovery read) is one the      *)
(* registry had; whatever will be sent lacks nothing of the version it     *)
(* names but what the user chose to replace; and what the editor shows is  *)
(* either saved, pending or under way, unless it says otherwise.           *)
(***************************************************************************)
\* The registry has had w as version v; w lacks of version v only what the user replaced.
Holds(v, w) == v \in 1..Version /\ drafts[v] = w
Follows(v, w) == v \in 1..Version /\ drafts[v] \ w \subseteq replaced

Live(op) == op # Off /\ op.live

\* An editor that may save, and has something to.
Sendable ==
    {ed \in Editor : ed.live /\ ~ed.conflict /\ ed.pending # Nothing}

\* The sets of records are expanded everywhere.
USE DEF Editor, Flight, Sendable

SavedHolds == Holds(editor.version, editor.saved)

SavesFollow ==
    /\ flight # NoFlight => Follows(flight.expected, flight.working)
    /\ \A s \in stray : Follows(s.expected, s.working)

AnswerHolds == flight.answer = "saved" => Holds(flight.expected + 1, flight.working)

ReadHolds(op) == op.pc = "answered" => Holds(op.draft.version, op.draft.working)

ReviewedHolds ==
    editor.reviewed # Nothing => Holds(editor.reviewed.version, editor.reviewed.latest)

EditsKept ==
    editor.live =>
        /\ editor.saved \ editor.current \subseteq replaced
        /\ editor.pending # Nothing => editor.pending = editor.current
        /\ flight # NoFlight =>
              /\ flight.working \subseteq editor.current
              /\ editor.pending = Nothing => flight.working = editor.current
        /\ editor.state = "saved" => editor.current = editor.saved

ConflictStops ==
    editor.live =>
        /\ editor.conflict => flight = NoFlight
        /\ editor.state = "conflict" => editor.conflict
        /\ Live(reload) \/ Live(review) => editor.conflict

OneRecovery == ~(Live(reload) /\ Live(review))

EditorInv ==
    /\ EditorTypeOK
    /\ NothingSavedIsLost
    /\ SavedHolds
    /\ SavesFollow
    /\ AnswerHolds
    /\ ReadHolds(reload) /\ ReadHolds(review)
    /\ ReviewedHolds
    /\ EditsKept
    /\ ConflictStops
    /\ OneRecovery
-----------------------------------------------------------------------------
(***************************************************************************)
(* The registry takes a save: versions stay what they were.                *)
(***************************************************************************)
LEMMA Taken ==
    ASSUME EditorTypeOK, NEW w \in Working, drafts' = Append(drafts, w)
    PROVE  /\ drafts' \in Seq(Working)
           /\ Version' = Version + 1
           /\ drafts'[Version + 1] = w
           /\ \A v \in 1..Version : drafts'[v] = drafts[v]
BY DEF EditorTypeOK, Version

LEMMA TakenStands ==
    ASSUME EditorTypeOK, replaced \subseteq replaced',
           drafts' = drafts \/ \E w \in Working : drafts' = Append(drafts, w)
    PROVE  \A v, x : /\ Holds(v, x) => Holds(v, x)'
                     /\ Follows(v, x) => Follows(v, x)'
<1>1. CASE drafts' = drafts
  BY <1>1 DEF Holds, Follows, Version
<1>2. ASSUME NEW w \in Working, drafts' = Append(drafts, w)
      PROVE  \A v, x : /\ Holds(v, x) => Holds(v, x)'
                       /\ Follows(v, x) => Follows(v, x)'
  <2>1. Version \in Nat
    BY DEF EditorTypeOK, Version
  <2>2. 1..Version \subseteq 1..(Version')
    BY <1>2, <2>1, Taken
  <2> QED
    BY <1>2, <2>2, Taken DEF Holds, Follows
<1> QED
  BY <1>1, <1>2

LEMMA TakenGrows ==
    ASSUME EditorTypeOK, NothingSavedIsLost, NEW w \in Working, Follows(Version, w),
           drafts' = Append(drafts, w), replaced' = replaced
    PROVE  NothingSavedIsLost'
<1>1. Version \in Nat
  BY DEF EditorTypeOK, Version
<1>2. \A v \in 1..Version : drafts[v] \ w \subseteq replaced
  BY DEF NothingSavedIsLost, Follows
<1>3. SUFFICES ASSUME NEW i \in 1..(Version + 1), NEW j \in 1..(Version + 1), i <= j
               PROVE  drafts'[i] \ drafts'[j] \subseteq replaced
  BY Taken DEF NothingSavedIsLost
<1>4. CASE j = Version + 1
  <2>1. drafts'[j] = w
    BY <1>4, Taken
  <2>2. i = j \/ i \in 1..Version
    BY <1>1, <1>4
  <2>3. CASE i \in 1..Version
    BY <1>2, <2>1, <2>3, Taken
  <2> QED
    BY <2>2, <2>3
<1>5. CASE j # Version + 1
  <2>1. i \in 1..Version /\ j \in 1..Version
    BY <1>1, <1>3, <1>5
  <2> QED
    BY <1>3, <2>1, Taken DEF NothingSavedIsLost
<1> QED
  BY <1>4, <1>5
-----------------------------------------------------------------------------
(***************************************************************************)
(* The records.                                                            *)
(***************************************************************************)
LEMMA FlightByKind ==
    ASSUME EditorTypeOK
    PROVE  /\ flight # NoFlight =>
                  flight \in Flight
           /\ flight.answer # "none" => flight # NoFlight
BY DEF EditorTypeOK, NoFlight

LEMMA FlightIsSent ==
    ASSUME NEW a \in {"sent", "saved", "conflict", "denied", "invalid"},
           NEW v \in Nat, NEW w \in Working,
           flight' = [answer |-> a, expected |-> v, working |-> w]
    PROVE  flight' # NoFlight
<1>1. flight'.answer # NoFlight.answer
  BY DEF NoFlight
<1> QED
  BY <1>1

LEMMA RecoveryByKind ==
    ASSUME NEW op \in Recovery \cup {Off}
    PROVE  /\ op = Off => op.pc = "off"
           /\ op.pc # "off" => op # Off /\ op \in Recovery
           /\ op.pc = "answered" =>
                  op \in [pc: {"answered"}, live: BOOLEAN, draft: Read]
           /\ Overtaken(op) \in Recovery \cup {Off}
           /\ ~Live(Overtaken(op))
           /\ ReadHolds(op) => ReadHolds(Overtaken(op))
<1>1. CASE op = Off
  BY <1>1 DEF Off, Overtaken, Live, ReadHolds
<1>2. CASE op \in [pc: {"waiting", "asked"}, live: BOOLEAN]
  <2>1. op.pc \in {"waiting", "asked"}
    BY <1>2
  <2>2. op # Off
    BY <2>1 DEF Off
  <2>3. /\ [op EXCEPT !.live = FALSE] \in [pc: {"waiting", "asked"}, live: BOOLEAN]
        /\ [op EXCEPT !.live = FALSE].live = FALSE
        /\ [op EXCEPT !.live = FALSE].pc = op.pc
    BY <1>2
  <2> QED
    BY <1>2, <2>1, <2>2, <2>3 DEF Overtaken, Live, ReadHolds, Recovery
<1>3. CASE op \in [pc: {"answered"}, live: BOOLEAN, draft: Read]
  <2>1. op.pc = "answered"
    BY <1>3
  <2>2. op # Off
    BY <2>1 DEF Off
  <2>3. /\ [op EXCEPT !.live = FALSE] \in [pc: {"answered"}, live: BOOLEAN, draft: Read]
        /\ [op EXCEPT !.live = FALSE].live = FALSE
        /\ [op EXCEPT !.live = FALSE].pc = op.pc
        /\ [op EXCEPT !.live = FALSE].draft = op.draft
    BY <1>3
  <2> QED
    BY <1>3, <2>1, <2>2, <2>3 DEF Overtaken, Live, ReadHolds, Recovery
<1> QED
  BY <1>1, <1>2, <1>3 DEF Recovery
-----------------------------------------------------------------------------
LEMMA InitHolds == EditorInit => EditorInv
<1> SUFFICES ASSUME EditorInit PROVE EditorInv
  OBVIOUS
<1> USE EditorAssumption DEF EditorInit
<1>1. drafts \in Seq(Working) /\ Version = 1 /\ drafts[1] = {}
  BY DEF Working, Version
<1>2. EditorTypeOK
  BY <1>1 DEF EditorTypeOK, Working
<1>3. NothingSavedIsLost
  BY <1>1 DEF NothingSavedIsLost
<1>4. SavedHolds /\ SavesFollow /\ AnswerHolds /\ ReviewedHolds
  BY <1>1 DEF SavedHolds, SavesFollow, AnswerHolds, ReviewedHolds, Holds, NoFlight
<1>5. ReadHolds(reload) /\ ReadHolds(review) /\ OneRecovery /\ ~Live(reload) /\ ~Live(review)
  BY DEF ReadHolds, OneRecovery, Live, Off
<1>6. EditsKept /\ ConflictStops
  BY <1>5 DEF EditsKept, ConflictStops
<1> QED
  BY <1>2, <1>3, <1>4, <1>5, <1>6 DEF EditorInv
-----------------------------------------------------------------------------
(***************************************************************************)
(* Steps of the user and of the save.                                      *)
(***************************************************************************)
\* What stands for a version stands for it after a step that adds one, or none.
LEMMA RecoveriesKept ==
    ASSUME EditorInv, UNCHANGED <<reload, review, replaced>>,
           drafts' = drafts \/ \E w \in Working : drafts' = Append(drafts, w)
    PROVE  ReadHolds(reload)' /\ ReadHolds(review)' /\ OneRecovery'
BY TakenStands DEF EditorInv, ReadHolds, OneRecovery, Live

LEMMA UpdateKeeps ==
    ASSUME EditorInv, NEW e \in Edits, Update(e)
    PROVE  EditorInv'
<1> USE DEF EditorInv, Update
<1>1. editor.current \cup {e} \in Working /\ editor.current \cup {e} # Nothing
  BY EditorAssumption DEF EditorTypeOK, Working
<1>2. EditorTypeOK'
  BY <1>1 DEF EditorTypeOK
<1>3. /\ editor'.current = editor.current \cup {e} /\ editor'.pending = editor.current \cup {e}
      /\ editor'.state = "dirty" /\ editor'.saved = editor.saved
      /\ editor'.version = editor.version /\ editor'.reviewed = editor.reviewed
      /\ editor'.conflict = editor.conflict /\ editor'.live = editor.live
  BY DEF EditorTypeOK
<1>4. NothingSavedIsLost' /\ SavedHolds' /\ SavesFollow' /\ AnswerHolds' /\ ReviewedHolds'
  BY <1>3, TakenStands DEF NothingSavedIsLost, Version, SavedHolds, SavesFollow, AnswerHolds,
        ReviewedHolds, Holds, Follows
<1>5. EditsKept'
  BY <1>1, <1>3 DEF EditsKept
<1>6. ConflictStops'
  BY <1>3 DEF ConflictStops, Live
<1> QED
  BY <1>2, <1>4, <1>5, <1>6, RecoveriesKept

\* What is sent lacks nothing of the version it names but what was replaced, and is all that
\* is shown.
LEMMA SendingKeeps ==
    ASSUME EditorTypeOK, NothingSavedIsLost, SavesFollow, UNCHANGED <<drafts, stray, lost>>,
           replaced' \in Working, replaced \subseteq replaced',
           reload' \in Recovery \cup {Off}, ReadHolds(reload'), ~Live(reload'),
           review' \in Recovery \cup {Off}, ReadHolds(review'), ~Live(review'),
           NEW ed \in Sendable,
           Holds(ed.version, ed.saved), ed.saved \ ed.pending \subseteq replaced',
           ed.pending = ed.current,
           ed.reviewed # Nothing => Holds(ed.reviewed.version, ed.reviewed.latest),
           Sending(ed), editor' = Sent(ed)
    PROVE  EditorInv'
<1> USE DEF Sending, Sent
<1>1. /\ editor'.current = ed.current /\ editor'.pending = Nothing
      /\ editor'.state = "saving" /\ editor'.saved = ed.saved
      /\ editor'.version = ed.version /\ editor'.reviewed = ed.reviewed
      /\ editor'.conflict = FALSE /\ editor'.live = TRUE
  OBVIOUS
<1>2. EditorTypeOK'
  BY DEF EditorTypeOK
<1>3. /\ flight' # NoFlight /\ flight'.answer = "sent"
      /\ flight'.expected = ed.version /\ flight'.working = ed.current
  BY FlightIsSent
<1>4. NothingSavedIsLost' /\ SavedHolds' /\ ReviewedHolds'
  BY <1>1 DEF NothingSavedIsLost, Version, SavedHolds, ReviewedHolds, Holds
<1>5. SavesFollow' /\ AnswerHolds'
  BY <1>3 DEF SavesFollow, AnswerHolds, Follows, Holds, Version
<1>6. ReadHolds(reload)' /\ ReadHolds(review)' /\ OneRecovery'
  BY DEF ReadHolds, OneRecovery, Holds, Live, Version
<1>7. EditsKept'
  BY <1>1, <1>3 DEF EditsKept
<1>8. ConflictStops'
  BY <1>1 DEF ConflictStops, Live
<1> QED
  BY <1>2, <1>4, <1>5, <1>6, <1>7, <1>8 DEF EditorInv

LEMMA SaveNowKeeps ==
    ASSUME EditorInv, SaveNow
    PROVE  EditorInv'
<1> USE DEF EditorInv, SaveNow
<1>1. editor \in Sendable
  BY DEF EditorTypeOK
<1>2. /\ editor.saved \ editor.pending \subseteq replaced' /\ editor.pending = editor.current
      /\ replaced' \in Working /\ replaced \subseteq replaced'
  BY DEF EditsKept, EditorTypeOK
<1>3. /\ reload' \in Recovery \cup {Off} /\ ReadHolds(reload') /\ ~Live(reload')
      /\ review' \in Recovery \cup {Off} /\ ReadHolds(review') /\ ~Live(review')
  BY DEF ConflictStops, EditorTypeOK
<1> QED
  BY <1>1, <1>2, <1>3, SendingKeeps DEF SavedHolds, ReviewedHolds

\* The answer is taken, unless the page was left before it came.
LEMMA SaveDoneKeeps ==
    ASSUME EditorInv, SaveDone
    PROVE  EditorInv'
<1> USE DEF EditorInv, SaveDone
<1>1. /\ flight # NoFlight
      /\ flight \in Flight
  BY FlightByKind
<1>2. Holds(flight.expected + 1, flight.working)
  BY DEF AnswerHolds
<1>3. CASE ~editor.live
  <2>1. flight' = NoFlight /\ UNCHANGED <<drafts, editor, stray, reload, review, lost, replaced>>
    BY <1>3
  <2>2. EditorTypeOK' /\ SavesFollow' /\ AnswerHolds'
    BY <2>1 DEF EditorTypeOK, SavesFollow, AnswerHolds, NoFlight, Follows, Version
  <2>3. NothingSavedIsLost' /\ SavedHolds' /\ ReviewedHolds'
    BY <2>1 DEF NothingSavedIsLost, Version, SavedHolds, ReviewedHolds, Holds
  <2>4. EditsKept' /\ ConflictStops'
    BY <1>3, <2>1 DEF EditsKept, ConflictStops
  <2> QED
    BY <2>1, <2>2, <2>3, <2>4, RecoveriesKept
<1>4. CASE editor.live
  <2> DEFINE ed == [editor EXCEPT !.version = flight.expected + 1, !.saved = flight.working,
                                  !.ok = TRUE]
  <2>1. /\ ed.current = editor.current /\ ed.saved = flight.working
        /\ ed.version = flight.expected + 1 /\ ed.pending = editor.pending
        /\ ed.conflict = editor.conflict /\ ed.live = editor.live
        /\ ed.state = editor.state /\ ed.reviewed = editor.reviewed
    BY DEF EditorTypeOK
  <2>2. ed \in Editor
    <3>1. flight.expected + 1 \in Nat /\ flight.working \in Working
      BY <1>1
    <3> QED
      BY <3>1 DEF EditorTypeOK
  <2>3. Drain(ed)
    BY <1>4
  <2>4. ed.saved \ ed.current \subseteq replaced /\ replaced \in Working
    BY <1>1, <1>4, <2>1 DEF EditsKept, EditorTypeOK
  <2>5. ~ed.conflict /\ ~Live(reload) /\ ~Live(review)
    BY <1>1, <1>4, <2>1 DEF ConflictStops
  <2>6. Holds(ed.version, ed.saved)
    BY <1>2, <2>1
  <2>7. ed.reviewed # Nothing => Holds(ed.reviewed.version, ed.reviewed.latest)
    BY <2>1 DEF ReviewedHolds
  <2>8. /\ ed.pending # Nothing => ed.pending = ed.current
        /\ ed.pending = Nothing => ed.saved = ed.current
    BY <1>1, <1>4, <2>1 DEF EditsKept
  <2>9. ed.live
    BY <1>4, <2>1
  <2> HIDE DEF ed
  <2>10. CASE ed.pending # Nothing
    <3>1. Sending(ed) /\ editor' = Sent(ed)
      BY <2>3, <2>10 DEF Drain
    <3>2. ed \in Sendable
      BY <2>2, <2>5, <2>9, <2>10
    <3>3. /\ reload' \in Recovery \cup {Off} /\ ReadHolds(reload') /\ ~Live(reload')
          /\ review' \in Recovery \cup {Off} /\ ReadHolds(review') /\ ~Live(review')
      BY <2>5 DEF EditorTypeOK
    <3> QED
      BY <2>4, <2>6, <2>7, <2>8, <2>10, <3>1, <3>2, <3>3, SendingKeeps
  <2>11. CASE ed.pending = Nothing
    <3>1. /\ flight' = NoFlight /\ editor' = [ed EXCEPT !.state = "saved"]
          /\ UNCHANGED <<drafts, stray, reload, review, lost, replaced>>
      BY <2>3, <2>11 DEF Drain
    <3>2. /\ editor'.current = ed.current /\ editor'.saved = ed.saved
          /\ editor'.version = ed.version /\ editor'.pending = ed.pending
          /\ editor'.conflict = ed.conflict /\ editor'.live = ed.live
          /\ editor'.state = "saved" /\ editor'.reviewed = ed.reviewed
      BY <2>2, <3>1
    <3>3. EditorTypeOK'
      BY <2>2, <3>1 DEF EditorTypeOK
    <3>4. SavesFollow' /\ AnswerHolds'
      BY <3>1 DEF SavesFollow, AnswerHolds, NoFlight, Follows, Version
    <3>5. NothingSavedIsLost' /\ SavedHolds' /\ ReviewedHolds'
      BY <2>6, <2>7, <3>1, <3>2 DEF NothingSavedIsLost, Version, SavedHolds, ReviewedHolds, Holds
    <3>6. EditsKept'
      BY <2>4, <2>8, <2>11, <3>1, <3>2 DEF EditsKept
    <3>7. ConflictStops'
      BY <2>5, <3>1, <3>2 DEF ConflictStops, Live
    <3> QED
      BY <3>1, <3>3, <3>4, <3>5, <3>6, <3>7, RecoveriesKept
  <2> QED
    BY <2>10, <2>11
<1> QED
  BY <1>3, <1>4
\* What is not saved stays pending.
LEMMA KeepIsPending ==
    ASSUME EditorInv, flight # NoFlight, editor.live
    PROVE  /\ Keep(editor) \in Working /\ Keep(editor) # Nothing
           /\ Keep(editor) = editor.current
<1>1. flight.working \in Working
  BY FlightByKind DEF EditorInv
<1> QED
  BY <1>1, EditorAssumption DEF EditorInv, Keep, EditsKept, EditorTypeOK

\* A save that ends without a version leaves what is shown and what is saved.
LEMMA UnsavedKeeps ==
    ASSUME EditorInv, EditorTypeOK', flight # NoFlight, flight' = NoFlight,
           UNCHANGED <<drafts, reload, review, replaced>>,
           \A s \in stray' : Follows(s.expected, s.working),
           editor'.saved = editor.saved, editor'.version = editor.version,
           editor'.reviewed = editor.reviewed, editor'.current = editor.current,
           editor'.live = editor.live,
           editor.live => /\ editor'.pending # Nothing => editor'.pending = editor.current
                          /\ editor'.state # "saved"
                          /\ editor'.state = "conflict" => editor'.conflict
    PROVE  EditorInv'
<1> USE DEF EditorInv
<1>1. NothingSavedIsLost' /\ SavedHolds' /\ ReviewedHolds'
  BY DEF NothingSavedIsLost, Version, SavedHolds, ReviewedHolds, Holds
<1>2. SavesFollow' /\ AnswerHolds'
  BY DEF SavesFollow, AnswerHolds, NoFlight, Follows, Version
<1>3. EditsKept'
  BY DEF EditsKept
<1>4. ConflictStops'
  BY DEF ConflictStops, Live
<1> QED
  BY <1>1, <1>2, <1>3, <1>4, RecoveriesKept

LEMMA SaveRefusedKeeps ==
    ASSUME EditorInv, SaveRefused
    PROVE  EditorInv'
<1> USE DEF SaveRefused
<1>1. flight # NoFlight
  BY FlightByKind DEF EditorInv
<1>2. \A s \in stray' : Follows(s.expected, s.working)
  BY DEF EditorInv, SavesFollow
<1>3. CASE ~editor.live
  <2>1. EditorTypeOK'
    BY <1>3 DEF EditorInv, EditorTypeOK
  <2> QED
    BY <1>1, <1>2, <1>3, <2>1, UnsavedKeeps
<1>4. CASE editor.live
  <2>1. /\ Keep(editor) \in Working /\ Keep(editor) # Nothing
        /\ Keep(editor) = editor.current
    BY <1>1, <1>4, KeepIsPending
  <2> DEFINE pending == IF flight.answer = "denied" THEN Keep(editor) ELSE editor.pending
  <2>2. /\ pending \in Working \cup {Nothing}
        /\ pending # Nothing => pending = editor.current
    BY <1>4, <2>1 DEF EditorInv, EditorTypeOK, EditsKept
  <2>3. editor' = [editor EXCEPT !.ok = FALSE, !.state = flight.answer,
                                 !.conflict = flight.answer # "invalid", !.pending = pending]
    BY <1>4
  <2> HIDE DEF pending
  <2>4. /\ editor'.saved = editor.saved /\ editor'.version = editor.version
        /\ editor'.reviewed = editor.reviewed /\ editor'.current = editor.current
        /\ editor'.live = editor.live /\ editor'.pending = pending
        /\ editor'.state = flight.answer /\ editor'.conflict = (flight.answer # "invalid")
    BY <2>3 DEF EditorInv, EditorTypeOK
  <2>5. EditorTypeOK'
    BY <2>2, <2>3 DEF EditorInv, EditorTypeOK
  <2> QED
    BY <1>1, <1>2, <2>2, <2>4, <2>5, UnsavedKeeps
<1> QED
  BY <1>3, <1>4

LEMMA GiveUpKeeps ==
    ASSUME EditorInv, GiveUp
    PROVE  EditorInv'
<1> USE DEF GiveUp
<1>1. /\ flight # NoFlight
      /\ flight.expected \in Nat /\ flight.working \in Working
  BY FlightByKind DEF EditorInv
<1> DEFINE s0 == [expected |-> flight.expected, working |-> flight.working]
<1>2. s0 \in Save /\ Follows(s0.expected, s0.working)
  BY <1>1 DEF Save, EditorInv, SavesFollow
<1>3. stray' \subseteq stray \cup {s0}
  OBVIOUS
<1> HIDE DEF s0
<1>4. \A s \in stray' : Follows(s.expected, s.working)
  BY <1>2, <1>3 DEF EditorInv, SavesFollow
<1>5. stray' \in SUBSET Save /\ lost' \in Nat
  BY <1>2, <1>3 DEF EditorInv, EditorTypeOK
<1>6. CASE ~editor.live
  <2>1. EditorTypeOK'
    BY <1>5, <1>6 DEF EditorInv, EditorTypeOK
  <2> QED
    BY <1>1, <1>4, <1>6, <2>1, UnsavedKeeps
<1>7. CASE editor.live
  <2>1. /\ Keep(editor) \in Working /\ Keep(editor) # Nothing
        /\ Keep(editor) = editor.current
    BY <1>1, <1>7, KeepIsPending
  <2>2. editor' = [editor EXCEPT !.ok = FALSE, !.state = "error", !.pending = Keep(editor)]
    BY <1>7
  <2>3. /\ editor'.saved = editor.saved /\ editor'.version = editor.version
        /\ editor'.reviewed = editor.reviewed /\ editor'.current = editor.current
        /\ editor'.live = editor.live /\ editor'.pending = Keep(editor)
        /\ editor'.state = "error" /\ editor'.conflict = editor.conflict
    BY <2>2 DEF EditorInv, EditorTypeOK
  <2>4. EditorTypeOK'
    BY <1>5, <2>1, <2>2 DEF EditorInv, EditorTypeOK
  <2> QED
    BY <1>1, <1>4, <2>1, <2>3, <2>4, UnsavedKeeps
<1> QED
  BY <1>6, <1>7
-----------------------------------------------------------------------------
(***************************************************************************)
(* Steps of the registry and of other editors.                             *)
(***************************************************************************)
\* A version may be added; no record of the editor changes but the answer of its save.
LEMMA RegistryGrows ==
    ASSUME EditorInv, EditorTypeOK', NothingSavedIsLost',
           drafts' = drafts \/ \E w \in Working : drafts' = Append(drafts, w),
           UNCHANGED <<editor, reload, review, replaced>>, stray' \subseteq stray,
           flight # NoFlight <=> flight' # NoFlight,
           flight' # NoFlight => /\ flight'.expected = flight.expected
                                 /\ flight'.working = flight.working,
           flight' = flight \/ AnswerHolds'
    PROVE  EditorInv'
<1> USE DEF EditorInv
<1>1. SavedHolds' /\ ReviewedHolds'
  BY TakenStands DEF SavedHolds, ReviewedHolds
<1>2. SavesFollow'
  BY TakenStands DEF SavesFollow
<1>3. AnswerHolds'
  BY TakenStands DEF AnswerHolds
<1>4. EditsKept'
  BY DEF EditsKept
<1>5. ConflictStops'
  BY DEF ConflictStops, Live
<1> QED
  BY <1>1, <1>2, <1>3, <1>4, <1>5, RecoveriesKept

LEMMA RegistryKeeps ==
    ASSUME EditorInv, Registry
    PROVE  EditorInv'
<1> USE DEF Registry
<1>1. /\ flight # NoFlight
      /\ flight \in Flight
      /\ Follows(flight.expected, flight.working)
  BY FlightByKind DEF EditorInv, SavesFollow
<1>2. ASSUME NEW a \in {"saved", "conflict", "denied", "invalid"}, Answer(a)
      PROVE  /\ flight' # NoFlight
             /\ flight' \in Flight
             /\ flight'.answer = a /\ flight'.expected = flight.expected
             /\ flight'.working = flight.working
  <2>1. /\ flight' \in Flight
        /\ flight'.answer = a /\ flight'.expected = flight.expected
        /\ flight'.working = flight.working
    BY <1>1, <1>2 DEF Answer
  <2>2. NoFlight.answer = "none"
    BY DEF NoFlight
  <2> QED
    BY <2>1, <2>2
<1>3. CASE flight.expected = Version /\ drafts' = Append(drafts, flight.working) /\ Answer("saved")
  <2>1. EditorTypeOK'
    BY <1>1, <1>2, <1>3, Taken DEF EditorInv, EditorTypeOK
  <2>2. NothingSavedIsLost'
    BY <1>1, <1>3, TakenGrows DEF EditorInv
  <2>3. AnswerHolds'
    <3>1. Version \in Nat /\ Version' = Version + 1 /\ drafts'[Version + 1] = flight.working
      BY <1>1, <1>3, Taken DEF EditorInv, EditorTypeOK, Version
    <3>2. flight'.expected + 1 = Version + 1 /\ flight'.working = flight.working
      BY <1>2, <1>3
    <3>3. Version + 1 \in 1..(Version')
      BY <3>1
    <3> QED
      BY <3>1, <3>2, <3>3 DEF AnswerHolds, Holds
  <2> QED
    BY <1>1, <1>2, <1>3, <2>1, <2>2, <2>3, RegistryGrows
<1>4. CASE \E a \in {"conflict", "denied", "invalid"} : Answer(a) /\ UNCHANGED drafts
  <2>1. PICK a \in {"conflict", "denied", "invalid"} : Answer(a) /\ UNCHANGED drafts
    BY <1>4
  <2>2. EditorTypeOK'
    BY <1>2, <2>1 DEF EditorInv, EditorTypeOK
  <2>3. NothingSavedIsLost'
    BY <2>1 DEF EditorInv, NothingSavedIsLost, Version
  <2>4. AnswerHolds'
    BY <1>2, <2>1 DEF AnswerHolds
  <2> QED
    BY <1>1, <1>2, <2>1, <2>2, <2>3, <2>4, RegistryGrows
<1> QED
  BY <1>3, <1>4

LEMMA ElsewhereKeeps ==
    ASSUME EditorInv,
           (\E s \in stray : Arrive(s)) \/ (\E x \in Elsewhere : SaveElsewhere(x))
    PROVE  EditorInv'
<1> USE DEF EditorInv
<1>1. stray' \subseteq stray /\ UNCHANGED <<editor, flight, reload, review, lost, replaced>>
  BY DEF Arrive, SaveElsewhere
<1>2. \/ drafts' = drafts
      \/ \E w \in Working : drafts' = Append(drafts, w) /\ Follows(Version, w)
  <2>1. ASSUME NEW s \in stray, Arrive(s)
        PROVE  \/ drafts' = drafts
               \/ \E w \in Working : drafts' = Append(drafts, w) /\ Follows(Version, w)
    <3>1. s.working \in Working /\ Follows(s.expected, s.working)
      BY DEF EditorTypeOK, Save, SavesFollow
    <3>2. \/ drafts' = drafts
          \/ s.expected = Version /\ drafts' = Append(drafts, s.working)
      BY <2>1 DEF Arrive
    <3> QED
      BY <3>1, <3>2
  <2>2. ASSUME NEW x \in Elsewhere, SaveElsewhere(x)
        PROVE  \E w \in Working : drafts' = Append(drafts, w) /\ Follows(Version, w)
    <3>1. Version \in 1..Version
      BY DEF SavedHolds, Holds, EditorTypeOK, Version
    <3>2. drafts[Version] \in Working
      BY <3>1 DEF EditorTypeOK, Version
    <3>3. drafts[Version] \cup {x} \in Working
      BY <3>2 DEF Working
    <3> QED
      BY <2>2, <3>1, <3>3 DEF SaveElsewhere, Follows
  <2> QED
    BY <2>1, <2>2
<1>3. EditorTypeOK'
  <2>1. drafts' \in Seq(Working)
    BY <1>2, Taken DEF EditorTypeOK
  <2> QED
    BY <1>1, <2>1 DEF EditorTypeOK
<1>4. NothingSavedIsLost'
  <2>1. CASE drafts' = drafts
    BY <1>1, <2>1 DEF NothingSavedIsLost, Version
  <2> QED
    BY <1>1, <1>2, <2>1, TakenGrows
<1> QED
  BY <1>1, <1>2, <1>3, <1>4, RegistryGrows
-----------------------------------------------------------------------------
(***************************************************************************)
(* Steps of the recoveries.                                                *)
(***************************************************************************)
\* What a step that leaves the drafts and the saves has to keep.
LEMMA SavesAlone ==
    ASSUME EditorInv, UNCHANGED <<drafts, flight, stray, lost, replaced>>,
           reload' \in Recovery \cup {Off}, review' \in Recovery \cup {Off},
           ReadHolds(reload)', ReadHolds(review)', OneRecovery',
           editor' \in Editor,
           Holds(editor'.version, editor'.saved),
           editor'.reviewed # Nothing =>
               Holds(editor'.reviewed.version, editor'.reviewed.latest),
           EditsKept', ConflictStops'
    PROVE  EditorInv'
<1> USE DEF EditorInv
<1>1. EditorTypeOK'
  BY DEF EditorTypeOK
<1>2. NothingSavedIsLost'
  BY DEF NothingSavedIsLost, Version
<1>3. SavedHolds' /\ ReviewedHolds'
  BY DEF SavedHolds, ReviewedHolds, Holds, Version
<1>4. SavesFollow' /\ AnswerHolds'
  BY DEF SavesFollow, AnswerHolds, Follows, Holds, Version
<1> QED
  BY <1>1, <1>2, <1>3, <1>4

\* A recovery begins in a conflict, and overtakes the other one.
LEMMA StartKeeps ==
    ASSUME EditorInv, ReloadStart \/ ReviewStart
    PROVE  EditorInv'
<1> USE DEF EditorInv
<1> DEFINE op == [pc |-> "waiting", live |-> TRUE]
<1>1. op \in Recovery /\ op.pc = "waiting" /\ op # Off
  <2>1. op.pc # Off.pc
    BY DEF Off
  <2> QED
    BY <2>1 DEF Recovery
<1>2. \/ reload' = op /\ review' = Overtaken(review)
      \/ review' = op /\ reload' = Overtaken(reload)
  BY DEF ReloadStart, ReviewStart
<1> HIDE DEF op
<1>3. /\ Overtaken(reload) \in Recovery \cup {Off} /\ Overtaken(review) \in Recovery \cup {Off}
      /\ ~Live(Overtaken(reload)) /\ ~Live(Overtaken(review))
      /\ ReadHolds(Overtaken(reload)) /\ ReadHolds(Overtaken(review))
  BY RecoveryByKind DEF EditorTypeOK
<1>4. /\ reload' \in Recovery \cup {Off} /\ review' \in Recovery \cup {Off}
      /\ OneRecovery'
  BY <1>1, <1>2, <1>3 DEF OneRecovery, Live
<1>5. /\ UNCHANGED <<drafts, flight, stray, lost, replaced>>
      /\ editor.live /\ editor.state = "conflict"
  BY DEF ReloadStart, ReviewStart
<1>6. ReadHolds(reload)' /\ ReadHolds(review)'
  BY <1>1, <1>2, <1>3, <1>5 DEF ReadHolds, Holds, Version
<1>7. editor' = [editor EXCEPT !.reviewed = Nothing]
  BY DEF ReloadStart, ReviewStart
<1>8. /\ editor'.saved = editor.saved /\ editor'.version = editor.version
      /\ editor'.reviewed = Nothing /\ editor'.current = editor.current
      /\ editor'.live = editor.live /\ editor'.pending = editor.pending
      /\ editor'.state = editor.state /\ editor'.conflict = editor.conflict
  BY <1>7 DEF EditorTypeOK
<1>9. EditsKept' /\ ConflictStops'
  BY <1>5, <1>8 DEF EditsKept, ConflictStops
<1>10. Holds(editor'.version, editor'.saved)
  BY <1>8 DEF SavedHolds
<1>11. editor' \in Editor
  BY <1>7 DEF EditorTypeOK
<1> QED
  BY <1>4, <1>5, <1>6, <1>8, <1>9, <1>10, <1>11, SavesAlone

\* The draft that a recovery is given is the one the registry has then.
LEMMA ReadingIsTrue ==
    ASSUME EditorInv, NEW op \in Recovery \cup {Off}, op.pc \in {"waiting", "asked"},
           NEW next \in {AskFor(op), Answered(op), Off}
    PROVE  /\ next \in Recovery \cup {Off}
           /\ ReadHolds(next)
           /\ Live(next) => Live(op)
<1> USE DEF EditorInv
<1>1. op # Off /\ op \in [pc: {"waiting", "asked"}, live: BOOLEAN]
  BY RecoveryByKind DEF Recovery
<1>2. CASE next = Off
  BY <1>2 DEF ReadHolds, Live, Off
<1>3. CASE next = [op EXCEPT !.pc = "asked"]
  BY <1>1, <1>3 DEF ReadHolds, Live, Recovery
<1>4. CASE next = Answered(op)
  <2>1. Version \in 1..Version
    BY DEF SavedHolds, Holds, EditorTypeOK, Version
  <2>2. drafts[Version] \in Working /\ Version \in Nat
    BY <2>1 DEF EditorTypeOK, Version
  <2>3. [working |-> drafts[Version], version |-> Version] \in Read
    BY <2>2 DEF Read
  <2>4. next \in Recovery
    BY <1>1, <1>4, <2>3 DEF Answered, Recovery
  <2>5. /\ next.draft.version = Version /\ next.draft.working = drafts[Version]
        /\ next.live = op.live
    BY <1>4 DEF Answered
  <2> QED
    BY <1>1, <2>1, <2>4, <2>5 DEF ReadHolds, Holds, Live
<1> QED
  BY <1>2, <1>3, <1>4 DEF AskFor

LEMMA ReadsKeep ==
    ASSUME EditorInv, ReloadReads \/ ReviewReads
    PROVE  EditorInv'
<1> USE DEF EditorInv
<1>1. UNCHANGED <<drafts, editor, flight, stray, lost, replaced>>
  BY DEF ReloadReads, ReviewReads
<1>2. /\ reload' \in Recovery \cup {Off} /\ ReadHolds(reload') /\ (Live(reload') => Live(reload))
      /\ review' \in Recovery \cup {Off} /\ ReadHolds(review') /\ (Live(review') => Live(review))
  <2>1. CASE ReloadReads
    <3>1. reload.pc \in {"waiting", "asked"} /\ reload' \in {AskFor(reload), Answered(reload), Off}
      BY <2>1 DEF ReloadReads
    <3> QED
      BY <2>1, <3>1, ReadingIsTrue DEF ReloadReads, EditorTypeOK
  <2>2. CASE ReviewReads
    <3>1. review.pc \in {"waiting", "asked"} /\ review' \in {AskFor(review), Answered(review), Off}
      BY <2>2 DEF ReviewReads
    <3> QED
      BY <2>2, <3>1, ReadingIsTrue DEF ReviewReads, EditorTypeOK
  <2> QED
    BY <2>1, <2>2
<1>3. ReadHolds(reload)' /\ ReadHolds(review)' /\ OneRecovery'
  BY <1>1, <1>2 DEF ReadHolds, Holds, Version, OneRecovery, Live
<1>4. EditsKept' /\ ConflictStops'
  BY <1>1, <1>2 DEF EditsKept, ConflictStops, Live
<1> QED
  BY <1>1, <1>2, <1>3, <1>4, SavesAlone DEF SavedHolds, ReviewedHolds, EditorTypeOK
LEMMA ReviewDeniedKeeps ==
    ASSUME EditorInv, ReviewDenied
    PROVE  EditorInv'
<1> USE DEF EditorInv
<1>1. /\ UNCHANGED <<drafts, flight, stray, reload, lost, replaced>> /\ review' = Off
      /\ editor' \in {editor, [editor EXCEPT !.state = "denied"]}
  BY DEF ReviewDenied
<1>2. /\ editor'.saved = editor.saved /\ editor'.version = editor.version
      /\ editor'.reviewed = editor.reviewed /\ editor'.current = editor.current
      /\ editor'.live = editor.live /\ editor'.pending = editor.pending
      /\ editor'.conflict = editor.conflict
      /\ editor'.state \in {editor.state, "denied"}
  BY <1>1 DEF EditorTypeOK
<1>3. ReadHolds(reload)' /\ ReadHolds(review)' /\ OneRecovery' /\ ~Live(review)'
  BY <1>1 DEF ReadHolds, Holds, Version, OneRecovery, Live, Off
<1>4. EditsKept' /\ ConflictStops'
  BY <1>1, <1>2, <1>3 DEF EditsKept, ConflictStops, Live
<1>5. editor' \in Editor
  BY <1>1 DEF EditorTypeOK
<1>6. review' \in Recovery \cup {Off} /\ reload' \in Recovery \cup {Off}
  BY <1>1 DEF EditorTypeOK
<1>7. /\ Holds(editor'.version, editor'.saved)
      /\ editor'.reviewed # Nothing =>
             Holds(editor'.reviewed.version, editor'.reviewed.latest)
  BY <1>2 DEF SavedHolds, ReviewedHolds
<1> QED
  BY <1>1, <1>3, <1>4, <1>5, <1>6, <1>7, SavesAlone

LEMMA ReloadDoneKeeps ==
    ASSUME EditorInv, ReloadDone
    PROVE  EditorInv'
<1> USE DEF EditorInv
<1>1. /\ UNCHANGED <<drafts, flight, stray, review, lost, replaced>> /\ reload' = Off
      /\ review' \in Recovery \cup {Off} /\ reload' \in Recovery \cup {Off}
  BY DEF ReloadDone, EditorTypeOK
<1>2. ReadHolds(reload)' /\ ReadHolds(review)' /\ OneRecovery' /\ ~Live(reload)'
  BY <1>1 DEF ReadHolds, Holds, Version, OneRecovery, Live, Off
<1>3. CASE ~(reload.live /\ editor.live)
  <2>1. editor' = editor
    BY <1>3 DEF ReloadDone
  <2>2. EditsKept' /\ ConflictStops'
    BY <1>1, <1>2, <2>1 DEF EditsKept, ConflictStops, Live
  <2> QED
    BY <1>1, <1>2, <2>1, <2>2, SavesAlone DEF SavedHolds, ReviewedHolds, EditorTypeOK
<1>4. CASE reload.live /\ editor.live
  <2>1. /\ reload # Off /\ reload.draft \in Read
        /\ Holds(reload.draft.version, reload.draft.working)
    BY RecoveryByKind DEF ReloadDone, EditorTypeOK, ReadHolds
  <2>2. reload.draft.working \in Working /\ reload.draft.version \in Nat
    BY <2>1 DEF Read
  <2>3. editor' = [editor EXCEPT !.current = reload.draft.working,
                                 !.saved = reload.draft.working,
                                 !.version = reload.draft.version,
                                 !.pending = Nothing, !.conflict = FALSE, !.ok = TRUE,
                                 !.state = "saved"]
    BY <1>4 DEF ReloadDone
  <2>4. /\ editor'.saved = reload.draft.working /\ editor'.version = reload.draft.version
        /\ editor'.current = reload.draft.working /\ editor'.reviewed = editor.reviewed
        /\ editor'.live = editor.live /\ editor'.pending = Nothing
        /\ editor'.conflict = FALSE /\ editor'.state = "saved"
    BY <2>3 DEF EditorTypeOK
  <2>5. editor' \in Editor
    BY <2>2, <2>3 DEF EditorTypeOK
  <2>6. Live(reload) /\ ~Live(review) /\ editor.conflict /\ flight = NoFlight
    BY <1>4, <2>1 DEF Live, OneRecovery, ConflictStops
  <2>7. EditsKept' /\ ConflictStops'
    BY <1>1, <1>2, <2>4, <2>6 DEF EditsKept, ConflictStops, Live
  <2> QED
    BY <1>1, <1>2, <2>1, <2>4, <2>5, <2>7, SavesAlone DEF ReviewedHolds
<1> QED
  BY <1>3, <1>4

LEMMA ReviewDoneKeeps ==
    ASSUME EditorInv, ReviewDone
    PROVE  EditorInv'
<1> USE DEF EditorInv
<1>1. /\ UNCHANGED <<drafts, flight, stray, reload, lost, replaced>> /\ review' = Off
      /\ review' \in Recovery \cup {Off} /\ reload' \in Recovery \cup {Off}
  BY DEF ReviewDone, EditorTypeOK
<1>2. ReadHolds(reload)' /\ ReadHolds(review)' /\ OneRecovery' /\ ~Live(review)'
  BY <1>1 DEF ReadHolds, Holds, Version, OneRecovery, Live, Off
<1>3. CASE ~(review.live /\ editor.live /\ editor.conflict)
  <2>1. editor' = editor
    BY <1>3 DEF ReviewDone
  <2>2. EditsKept' /\ ConflictStops'
    BY <1>1, <1>2, <2>1 DEF EditsKept, ConflictStops, Live
  <2> QED
    BY <1>1, <1>2, <2>1, <2>2, SavesAlone DEF SavedHolds, ReviewedHolds, EditorTypeOK
<1>4. CASE review.live /\ editor.live /\ editor.conflict
  <2> DEFINE r == [base |-> editor.saved, local |-> editor.current,
                   latest |-> review.draft.working, version |-> review.draft.version]
  <2>1. /\ review.draft \in Read
        /\ Holds(review.draft.version, review.draft.working)
    BY RecoveryByKind DEF ReviewDone, EditorTypeOK, ReadHolds
  <2>2. r \in Reviewed /\ Holds(r.version, r.latest)
    BY <2>1 DEF Read, Reviewed, EditorTypeOK
  <2>3. editor' = [editor EXCEPT !.reviewed = r]
    BY <1>4 DEF ReviewDone
  <2> HIDE DEF r
  <2>4. /\ editor'.saved = editor.saved /\ editor'.version = editor.version
        /\ editor'.current = editor.current /\ editor'.reviewed = r
        /\ editor'.live = editor.live /\ editor'.pending = editor.pending
        /\ editor'.conflict = editor.conflict /\ editor'.state = editor.state
    BY <2>3 DEF EditorTypeOK
  <2>5. editor' \in Editor
    BY <2>2, <2>3 DEF EditorTypeOK
  <2>6. EditsKept' /\ ConflictStops'
    BY <1>1, <1>2, <2>4 DEF EditsKept, ConflictStops, Live
  <2> QED
    BY <1>1, <1>2, <2>2, <2>4, <2>5, <2>6, SavesAlone DEF SavedHolds
<1> QED
  BY <1>3, <1>4

\* What a reapplied draft lacks of the latest one was replaced now, or before.
LEMMA ReapplyTakesBack ==
    ASSUME EditorInv, NEW chosen \in SUBSET Objects, Reapply(chosen),
           NEW r \in Reviewed, r = editor.reviewed
    PROVE  r.latest \ Reapplied(r, chosen) \subseteq replaced'
<1>1. SUFFICES ASSUME NEW e \in r.latest, e \notin Reapplied(r, chosen) PROVE e \in replaced'
  OBVIOUS
<1>2. ObjectOf[e] \in chosen /\ e \notin r.local
  BY <1>1 DEF Reapplied
<1>3. /\ chosen \subseteq Entries(r) /\ replaced' = replaced \cup TakenBack(r, chosen)
      /\ editor.current = r.local /\ editor.saved = r.base /\ editor.live
  BY DEF Reapply
<1>4. CASE ObjectOf[e] \in Contested(r)
  BY <1>1, <1>2, <1>3, <1>4 DEF TakenBack
<1>5. CASE ObjectOf[e] \notin Contested(r)
  <2>1. On(ObjectOf[e], r.base) = On(ObjectOf[e], r.latest)
    BY <1>2, <1>3, <1>5 DEF Contested, Differs
  <2>2. e \in r.base
    BY <1>1, <2>1 DEF On
  <2> QED
    BY <1>2, <1>3, <2>2 DEF EditorInv, EditsKept
<1> QED
  BY <1>4, <1>5

LEMMA ReapplyKeeps ==
    ASSUME EditorInv, NEW chosen \in SUBSET Objects, Reapply(chosen)
    PROVE  EditorInv'
<1> DEFINE r == editor.reviewed
           next == Reapplied(r, chosen)
           ed == [editor EXCEPT !.reviewed = Nothing, !.pending = next, !.current = next,
                                !.saved = r.latest, !.version = r.version,
                                !.conflict = FALSE, !.ok = FALSE]
<1>1. /\ UNCHANGED <<drafts, stray, lost>> /\ flight = NoFlight /\ editor.live
      /\ reload' = Overtaken(reload) /\ review' = Overtaken(review)
      /\ Sending(ed) /\ editor' = Sent(ed)
      /\ replaced' = replaced \cup TakenBack(r, chosen)
  BY DEF Reapply
<1>2. r \in Reviewed /\ Holds(r.version, r.latest)
  BY DEF Reapply, EditorInv, EditorTypeOK, ReviewedHolds
<1>3. /\ next \in Working /\ r.latest \ next \subseteq replaced'
      /\ r.latest \in Working /\ r.version \in Nat
  BY <1>2, ReapplyTakesBack DEF Reviewed, Reapplied, Working
<1>4. replaced' \in Working /\ replaced \subseteq replaced'
  BY <1>1, <1>2 DEF TakenBack, Reviewed, Working, EditorInv, EditorTypeOK
<1>5. ed \in Sendable
  <2>1. next # Nothing
    BY <1>3, EditorAssumption
  <2>2. editor \in Editor
    BY DEF EditorInv, EditorTypeOK
  <2> HIDE DEF r, next
  <2>3. ed \in Editor /\ ed.live /\ ~ed.conflict /\ ed.pending = next
    BY <1>1, <1>3, <2>2
  <2> QED
    BY <2>1, <2>3
<1>6. /\ ed.saved = r.latest /\ ed.version = r.version /\ ed.pending = next
      /\ ed.current = next /\ ed.reviewed = Nothing
  BY DEF EditorInv, EditorTypeOK
<1> HIDE DEF r, next, ed
<1>7. /\ reload' \in Recovery \cup {Off} /\ ReadHolds(reload') /\ ~Live(reload')
      /\ review' \in Recovery \cup {Off} /\ ReadHolds(review') /\ ~Live(review')
  BY <1>1, RecoveryByKind DEF EditorInv, EditorTypeOK
<1>8. EditorTypeOK /\ NothingSavedIsLost /\ SavesFollow
  BY DEF EditorInv
<1> QED
  BY <1>1, <1>2, <1>3, <1>4, <1>5, <1>6, <1>7, <1>8, SendingKeeps

LEMMA DisposeKeeps ==
    ASSUME EditorInv, Dispose
    PROVE  EditorInv'
<1> USE DEF EditorInv
<1>1. UNCHANGED <<drafts, flight, stray, lost, replaced>>
  BY DEF Dispose
<1>2. /\ reload' \in Recovery \cup {Off} /\ ReadHolds(reload') /\ ~Live(reload')
      /\ review' \in Recovery \cup {Off} /\ ReadHolds(review') /\ ~Live(review')
  BY RecoveryByKind DEF EditorTypeOK, Dispose
<1>3. ReadHolds(reload)' /\ ReadHolds(review)' /\ OneRecovery'
  BY <1>1, <1>2 DEF ReadHolds, Holds, Version, OneRecovery, Live
<1>4. editor' = [editor EXCEPT !.live = FALSE, !.pending = Nothing, !.reviewed = Nothing]
  BY DEF Dispose
<1>5. /\ editor'.saved = editor.saved /\ editor'.version = editor.version
      /\ editor'.reviewed = Nothing /\ editor'.live = FALSE
  BY <1>4 DEF EditorTypeOK
<1>6. editor' \in Editor
  BY <1>4 DEF EditorTypeOK
<1>7. EditsKept' /\ ConflictStops'
  BY <1>5 DEF EditsKept, ConflictStops
<1> QED
  BY <1>1, <1>2, <1>3, <1>5, <1>6, <1>7, SavesAlone DEF SavedHolds
-----------------------------------------------------------------------------
(***************************************************************************)
(* The theorems.                                                           *)
(***************************************************************************)
LEMMA StepKeeps == EditorInv /\ [EditorNext]_editorVars => EditorInv'
<1> SUFFICES ASSUME EditorInv, [EditorNext]_editorVars PROVE EditorInv'
  OBVIOUS
<1>1. ASSUME NEW e \in Edits, Update(e) PROVE EditorInv'
  BY <1>1, UpdateKeeps
<1>2. CASE SaveNow \/ SaveDone \/ SaveRefused \/ GiveUp
  BY <1>2, SaveNowKeeps, SaveDoneKeeps, SaveRefusedKeeps, GiveUpKeeps
<1>3. CASE Registry
  BY <1>3, RegistryKeeps
<1>4. CASE (\E s \in stray : Arrive(s)) \/ (\E x \in Elsewhere : SaveElsewhere(x))
  BY <1>4, ElsewhereKeeps
<1>5. CASE ReloadStart \/ ReviewStart
  BY <1>5, StartKeeps
<1>6. CASE ReloadReads \/ ReviewReads
  BY <1>6, ReadsKeep
<1>7. CASE ReloadDone \/ ReviewDone \/ ReviewDenied
  BY <1>7, ReloadDoneKeeps, ReviewDoneKeeps, ReviewDeniedKeeps
<1>8. ASSUME NEW chosen \in SUBSET Objects, Reapply(chosen) PROVE EditorInv'
  BY <1>8, ReapplyKeeps
<1>9. CASE Dispose
  BY <1>9, DisposeKeeps
<1>10. CASE UNCHANGED editorVars
  BY <1>10 DEF editorVars, EditorInv, EditorTypeOK, NothingSavedIsLost, Version, SavedHolds,
        SavesFollow, AnswerHolds, ReadHolds, ReviewedHolds, EditsKept, ConflictStops,
        OneRecovery, Holds, Follows, Live
<1> QED
  BY <1>1, <1>2, <1>3, <1>4, <1>5, <1>6, <1>7, <1>8, <1>9, <1>10 DEF EditorNext

\* The invariant holds in every state of every behaviour of the editor.
THEOREM EditorInvariant == EditorSpec => []EditorInv
<1> QED
  BY InitHolds, StepKeeps, PTL DEF EditorSpec

\* Every record of the editor, the registry and the requests keeps its type.
THEOREM EditorTypes == EditorSpec => []EditorTypeOK
<1>1. EditorInv => EditorTypeOK
  BY DEF EditorInv
<1> QED
  BY <1>1, EditorInvariant, PTL

\* What the editor takes for saved is the version of the registry it names: saves that
\* nobody waits for any more, recoveries that overtook each other and reapplied conflicts
\* (use-draft-editor.ts) do not come between the two.
THEOREM SnapshotsAreTrue == EditorSpec => []SavedIsTrue
<1>1. EditorInv => SavedIsTrue
  BY DEF EditorInv, EditorTypeOK, SavedHolds, Holds, SavedIsTrue, Version
<1> QED
  BY <1>1, EditorInvariant, PTL

\* An editor that says that everything is saved shows what the registry has as its version.
THEOREM SaidSavedIsSaved == EditorSpec => []SaidIsSaved
<1>1. EditorInv => SaidIsSaved
  BY DEF EditorInv, SavedHolds, Holds, EditsKept, SaidIsSaved
<1> QED
  BY <1>1, EditorInvariant, PTL

\* No save takes back what an earlier version of the draft holds, whoever wrote it, but what
\* the user chose to replace where the notice of a conflict said that both had changed it.
THEOREM SavesLoseNothing == EditorSpec => []NothingSavedIsLost
<1>1. EditorInv => NothingSavedIsLost
  BY DEF EditorInv
<1> QED
  BY <1>1, EditorInvariant, PTL
=============================================================================
