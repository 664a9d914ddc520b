---------------------------- MODULE DraftsProofs ----------------------------
(***************************************************************************)
(* Theorems about Drafts, for any sessions, users, contributions, pushes   *)
(* and licenses.                                                           *)
(***************************************************************************)
EXTENDS Drafts, TLAPS
-----------------------------------------------------------------------------
(***************************************************************************)
(* The inductive invariant: types, what a session and a merge know of the  *)
(* draft whose version they hold, and what the acceptances of the          *)
(* collaborators are worth.                                                *)
(***************************************************************************)

\* A version is a name of its content: who holds the present version holds the present
\* draft, and what it is about to write keeps all of it.
ViewsAreTrue ==
    \A s \in Sessions :
        /\ seen[s].version <= draft.version
        /\ seen[s].version = draft.version => seen[s].working = draft.working
        /\ request[s].op = "save" =>
              /\ seen[s].version = request[s].expected
              /\ seen[s].working.text \subseteq request[s].working.text
        /\ request[s].op \in {"merge", "accept"} =>
              /\ request[s].expected <= draft.version
              /\ request[s].expected = draft.version
                 => draft.working.text \subseteq request[s].working.text

\* Who is about to write the present version may.
WritersMayWrite ==
    \A s \in Sessions :
        /\ lock = s
        /\ request[s].op \in {"save", "accept"}
        /\ request[s].expected = draft.version
        => MayEdit(UserOf[s])

\* Until the import is confirmed every row names the draft's license; afterwards the
\* license changes only together with the rows.
RowsFollowTheLicense ==
    ~confirmed => \A u \in Users : collab[u] # NoRow => collab[u].license = License

\* Who is joining has just seen the terms.
JoinersKnowTheTerms ==
    \A s \in Sessions :
        Doing(s, "join") =>
            /\ collab[UserOf[s]] # NoRow
            /\ collab[UserOf[s]].license = License => consent[UserOf[s]] = terms

IndInv ==
    /\ TypeOK
    /\ ViewsAreTrue
    /\ WritersMayWrite
    /\ RowsFollowTheLicense
    /\ JoinersKnowTheTerms
    /\ ConsentIsFresh
-----------------------------------------------------------------------------
(***************************************************************************)
(* The records a session's request can be.                                 *)
(***************************************************************************)
SaveRequest == [op: {"save"}, expected: 1..(MaxVersion - 1), working: Working]
MergeRequest == [op: {"merge", "accept"}, contribution: Contributions,
                 expected: 1..(MaxVersion - 1), working: Working]
ReviseRequest == [op: {"revise"}, working: Working, parent: Contents]
JoinRequest == [op: {"join"}]

LEMMA RequestsByKind ==
    ASSUME TypeOK, NEW s \in Sessions
    PROVE  /\ request[s].op = "save" => request[s] \in SaveRequest
           /\ request[s].op \in {"merge", "accept"} => request[s] \in MergeRequest
           /\ request[s].op = "revise" => request[s] \in ReviseRequest
           /\ request[s].op \in {"save", "merge", "accept", "revise", "join"}
              => request[s] # Quiet
<1>1. request[s] \in Request \cup {Quiet}
  BY DEF TypeOK
<1>2. CASE request[s] \in SaveRequest
  BY <1>2 DEF SaveRequest, Quiet
<1>3. CASE request[s] \in MergeRequest
  BY <1>3 DEF MergeRequest, Quiet
<1>4. CASE request[s] \in ReviseRequest
  BY <1>4 DEF ReviseRequest, Quiet
<1>5. CASE request[s] \in JoinRequest
  BY <1>5 DEF JoinRequest, Quiet
<1>6. CASE request[s] = Quiet
  BY <1>6 DEF Quiet
<1> QED
  BY <1>1, <1>2, <1>3, <1>4, <1>5, <1>6
     DEF Request, SaveRequest, MergeRequest, ReviseRequest, JoinRequest

\* What a session has seen has a version of the draft, or none.
LEMMA ViewsByKind ==
    ASSUME TypeOK, NEW s \in Sessions
    PROVE  /\ seen[s] = Unseen => seen[s].version = 0
           /\ seen[s] # Unseen => seen[s] \in View
           /\ seen[s].version \in Nat
           /\ draft.version \in 1..MaxVersion /\ draft.working \in Working
BY DraftsAssumption DEF TypeOK, View, Unseen
-----------------------------------------------------------------------------
LEMMA InitHolds == Init => IndInv
<1> SUFFICES ASSUME Init PROVE IndInv
  OBVIOUS
<1> USE DraftsAssumption DEF Init
<1>1. PICK l \in Licenses : draft = [version |-> 1, working |-> [text |-> {}, license |-> l]]
  OBVIOUS
<1>2. draft \in View
  BY <1>1 DEF View, Working
<1>3. TypeOK
  BY <1>2 DEF TypeOK, Contents
<1>4. ViewsAreTrue
  BY <1>1 DEF ViewsAreTrue, Unseen, Quiet
<1>5. WritersMayWrite /\ JoinersKnowTheTerms
  BY DEF WritersMayWrite, JoinersKnowTheTerms, Doing, Quiet
<1>6. RowsFollowTheLicense /\ ConsentIsFresh
  BY DEF RowsFollowTheLicense, ConsentIsFresh, Active
<1> QED
  BY <1>3, <1>4, <1>5, <1>6 DEF IndInv
-----------------------------------------------------------------------------
(***************************************************************************)
(* Steps that leave the draft alone.                                       *)
(***************************************************************************)
LEMMA LoadKeeps ==
    ASSUME IndInv, NEW s \in Sessions, Load(s)
    PROVE  IndInv'
<1> USE DEF IndInv, Load, server, history
<1>1. TypeOK'
  BY DEF TypeOK
<1>2. ViewsAreTrue'
  BY ViewsByKind DEF TypeOK, ViewsAreTrue, Quiet
<1>3. WritersMayWrite'
  BY DEF WritersMayWrite, MayEdit, Active, License
<1>4. RowsFollowTheLicense' /\ JoinersKnowTheTerms' /\ ConsentIsFresh'
  BY DEF RowsFollowTheLicense, JoinersKnowTheTerms, ConsentIsFresh, Active, License, Doing
<1> QED
  BY <1>1, <1>2, <1>3, <1>4

LEMMA RefuseKeeps ==
    ASSUME IndInv, NEW s \in Sessions, Refuse(s)
    PROVE  IndInv'
<1> USE DEF IndInv, Refuse, End, server, history
<1>1. TypeOK'
  BY DEF TypeOK
<1>2. ViewsAreTrue'
  BY DEF TypeOK, ViewsAreTrue, Quiet
<1>3. WritersMayWrite'
  BY DraftsAssumption DEF WritersMayWrite, TypeOK
<1>4. RowsFollowTheLicense' /\ ConsentIsFresh'
  BY DEF RowsFollowTheLicense, ConsentIsFresh, Active, License
<1>5. JoinersKnowTheTerms'
  BY DraftsAssumption DEF JoinersKnowTheTerms, Doing
<1> QED
  BY <1>1, <1>2, <1>3, <1>4, <1>5

LEMMA SaveBeginKeeps ==
    ASSUME IndInv, NEW s \in Sessions, SaveBegin(s)
    PROVE  IndInv'
<1> USE DEF IndInv, Begin, server, history
<1>1. PICK l \in Licenses :
         Begin(s, [op |-> "save", expected |-> seen[s].version,
                   working |-> [text |-> seen[s].working.text \cup {s}, license |-> l]])
  BY DEF SaveBegin
<1> DEFINE r == [op |-> "save", expected |-> seen[s].version,
                 working |-> [text |-> seen[s].working.text \cup {s}, license |-> l]]
<1>2. r \in SaveRequest
  BY ViewsByKind, DraftsAssumption DEF SaveBegin, SaveRequest, View, Working
<1>3. request' = [request EXCEPT ![s] = r]
  BY <1>1
<1>4. r.op = "save" /\ r.expected = seen[s].version
      /\ r.working.text = seen[s].working.text \cup {s}
  OBVIOUS
<1> HIDE DEF r
<1>5. TypeOK'
  BY <1>1, <1>2, <1>3 DEF TypeOK, Request, SaveRequest
<1>6. ViewsAreTrue'
  BY <1>1, <1>3, <1>4 DEF TypeOK, ViewsAreTrue
<1>7. WritersMayWrite'
  BY <1>1, <1>3, <1>4, DraftsAssumption DEF SaveBegin, WritersMayWrite, TypeOK, MayEdit, Active, License
<1>8. RowsFollowTheLicense' /\ ConsentIsFresh'
  BY <1>1 DEF RowsFollowTheLicense, ConsentIsFresh, Active, License
<1>9. JoinersKnowTheTerms'
  BY <1>1, <1>3, <1>4, DraftsAssumption DEF JoinersKnowTheTerms, Doing, TypeOK
<1> QED
  BY <1>5, <1>6, <1>7, <1>8, <1>9

LEMMA ReviseKeeps ==
    ASSUME IndInv, NEW s \in Sessions, Revise(s)
    PROVE  IndInv'
<1> USE DEF IndInv, Revise, Begin, server, history
<1> DEFINE r == [op |-> "revise", working |-> draft.working, parent |-> base]
<1>1. r \in ReviseRequest
  BY DEF TypeOK, View, ReviseRequest
<1>2. request' = [request EXCEPT ![s] = r]
  OBVIOUS
<1>3. r.op = "revise"
  OBVIOUS
<1> HIDE DEF r
<1>4. TypeOK'
  BY <1>1, <1>2 DEF TypeOK, Request, ReviseRequest
<1>5. ViewsAreTrue'
  BY <1>2, <1>3 DEF TypeOK, ViewsAreTrue
<1>6. WritersMayWrite'
  BY <1>2, <1>3, DraftsAssumption DEF WritersMayWrite, TypeOK
<1>7. RowsFollowTheLicense' /\ ConsentIsFresh'
  BY DEF RowsFollowTheLicense, ConsentIsFresh, Active, License
<1>8. JoinersKnowTheTerms'
  BY <1>2, <1>3, DraftsAssumption DEF JoinersKnowTheTerms, Doing, TypeOK
<1> QED
  BY <1>4, <1>5, <1>6, <1>7, <1>8

LEMMA NewRevisionIsTyped ==
    ASSUME TypeOK, NEW w \in Working, NEW by \in {"user", "contribution", "source"},
           NEW parent \in Contents, NEW credits \in SUBSET Users,
           NewRevision(w, by, parent, credits)
    PROVE  /\ DOMAIN revisions' \subseteq Working
           /\ \A v \in DOMAIN revisions' : revisions'[v] \in Row
BY DEF TypeOK, NewRevision, Row

LEMMA ReviseInsertKeeps ==
    ASSUME IndInv, NEW s \in Sessions, ReviseInsert(s)
    PROVE  IndInv'
<1>1. CASE Refuse(s)
  BY <1>1, RefuseKeeps
<1>2. CASE ~Refuse(s)
  <2> USE DEF IndInv, server, history, End
  <2>1. request[s] \in ReviseRequest
    BY RequestsByKind DEF ReviseInsert, Doing
  <2>2. request[s].working \in Working /\ request[s].parent \in Contents
    BY <2>1 DEF ReviseRequest
  <2>3. /\ NewRevision(request[s].working, "user", request[s].parent, credited)
        /\ head' = request[s].working /\ base' = request[s].working
        /\ End(s)
        /\ UNCHANGED <<draft, contribution, collab, credited, confirmed, seen, push, history>>
    BY <1>2 DEF ReviseInsert
  <2>4. TypeOK'
    <3>1. /\ DOMAIN revisions' \subseteq Working
          /\ \A v \in DOMAIN revisions' : revisions'[v] \in Row
      BY <2>2, <2>3, NewRevisionIsTyped DEF TypeOK
    <3> QED
      BY <2>2, <2>3, <3>1 DEF TypeOK, Contents
  <2>5. ViewsAreTrue'
    BY <2>3 DEF TypeOK, ViewsAreTrue, Quiet
  <2>6. WritersMayWrite'
    BY <2>3, DraftsAssumption DEF WritersMayWrite, TypeOK
  <2>7. RowsFollowTheLicense' /\ ConsentIsFresh'
    BY <2>3 DEF RowsFollowTheLicense, ConsentIsFresh, Active, License
  <2>8. JoinersKnowTheTerms'
    BY <2>3, DraftsAssumption DEF JoinersKnowTheTerms, Doing
  <2> QED
    BY <2>4, <2>5, <2>6, <2>7, <2>8
<1> QED
  BY <1>1, <1>2

LEMMA PushesKeep ==
    ASSUME IndInv, NEW p \in Pushes, PushRead(p) \/ PushInsert(p)
    PROVE  IndInv'
<1> USE DEF IndInv, server, history
<1>1. UNCHANGED <<draft, contribution, collab, credited, confirmed, base, lock, seen, request,
                  terms, consent>>
  BY DEF PushRead, PushInsert
<1>2. push' \in [Pushes -> [state: {"new", "read", "done"}, head: Contents]]
  BY DEF PushRead, PushInsert, TypeOK
<1>3. /\ DOMAIN revisions' \subseteq Working
      /\ \A v \in DOMAIN revisions' : revisions'[v] \in Row
      /\ head' \in Contents
  <2>1. CASE UNCHANGED <<revisions, head>>
    BY <2>1 DEF TypeOK
  <2>2. CASE /\ NewRevision(Pushed[p], "source", push[p].head, {})
             /\ head' = Pushed[p]
    <3>1. Pushed[p] \in Working /\ push[p].head \in Contents
      BY DraftsAssumption DEF TypeOK
    <3> QED
      BY <2>2, <3>1, NewRevisionIsTyped DEF Contents
  <2> QED
    BY <2>1, <2>2 DEF PushRead, PushInsert
<1>4. TypeOK'
  BY <1>1, <1>2, <1>3 DEF TypeOK
<1>5. ViewsAreTrue' /\ WritersMayWrite' /\ RowsFollowTheLicense'
      /\ JoinersKnowTheTerms' /\ ConsentIsFresh'
  BY <1>1 DEF ViewsAreTrue, WritersMayWrite, RowsFollowTheLicense, JoinersKnowTheTerms,
              ConsentIsFresh, MayEdit, Active, License, Doing
<1> QED
  BY <1>4, <1>5

LEMMA ContributionsKeep ==
    ASSUME IndInv, NEW c \in Contributions, Submit(c) \/ Decide(c)
    PROVE  IndInv'
<1> USE DEF IndInv, server, history
<1>1. UNCHANGED <<draft, base, head, revisions, collab, credited, confirmed, lock, seen,
                  request, push, terms, consent>>
  BY DEF Submit, Decide
<1>2. contribution' \in [Contributions -> Contribution \cup {NoRow}]
  <2>1. CASE Submit(c)
    BY <2>1 DEF Submit, TypeOK, Contribution
  <2>2. CASE Decide(c)
    BY <2>2 DEF Decide, TypeOK, Contribution, NoRow
  <2> QED
    BY <2>1, <2>2
<1>3. TypeOK'
  BY <1>1, <1>2 DEF TypeOK
<1>4. ViewsAreTrue' /\ WritersMayWrite' /\ RowsFollowTheLicense'
      /\ JoinersKnowTheTerms' /\ ConsentIsFresh'
  BY <1>1 DEF ViewsAreTrue, WritersMayWrite, RowsFollowTheLicense, JoinersKnowTheTerms,
              ConsentIsFresh, MayEdit, Active, License, Doing
<1> QED
  BY <1>3, <1>4

LEMMA InvitationsKeep ==
    ASSUME IndInv, NEW u \in Users, Invite(u) \/ Revoke(u)
    PROVE  IndInv'
<1> USE DEF IndInv, server, history
<1>1. UNCHANGED <<draft, base, head, revisions, contribution, credited, confirmed, lock, seen,
                  request, push, terms, consent>> /\ lock = None
  BY DEF Invite, Revoke
<1>2. \/ collab' = [collab EXCEPT ![u] = [row |-> "row", accepted |-> FALSE, license |-> License]]
      \/ collab' = [collab EXCEPT ![u] = NoRow]
  BY DEF Invite, Revoke
<1>3. License \in Licenses
  BY DEF TypeOK, View, Working, License
<1>4. TypeOK'
  <2>1. [row |-> "row", accepted |-> FALSE, license |-> License] \in Collaborator
    BY <1>3 DEF Collaborator
  <2>2. collab' \in [Users -> Collaborator \cup {NoRow}]
    BY <1>2, <2>1 DEF TypeOK
  <2> QED
    BY <1>1, <2>2 DEF TypeOK
<1>5. ViewsAreTrue'
  BY <1>1 DEF ViewsAreTrue
<1>6. WritersMayWrite' /\ JoinersKnowTheTerms'
  BY <1>1, DraftsAssumption DEF WritersMayWrite, JoinersKnowTheTerms, Doing
<1>7. RowsFollowTheLicense'
  BY <1>1, <1>2 DEF RowsFollowTheLicense, License, TypeOK
<1>8. ConsentIsFresh'
  BY <1>1, <1>2 DEF ConsentIsFresh, Active, License, TypeOK, NoRow
<1> QED
  BY <1>4, <1>5, <1>6, <1>7, <1>8

LEMMA JoinBeginKeeps ==
    ASSUME IndInv, NEW s \in Sessions, JoinBegin(s)
    PROVE  IndInv'
<1> USE DEF IndInv, JoinBegin, server, history
<1> DEFINE r == [op |-> "join"]
<1>1. UserOf[s] \in Users
  BY DraftsAssumption
<1>2. request' = [request EXCEPT ![s] = r] /\ r.op = "join" /\ r \in JoinRequest
  BY DEF JoinRequest
<1> HIDE DEF r
<1>3. TypeOK'
  BY <1>1, <1>2 DEF TypeOK, Request, JoinRequest
<1>4. ViewsAreTrue'
  BY <1>2 DEF TypeOK, ViewsAreTrue
<1>5. WritersMayWrite'
  BY <1>2, DraftsAssumption DEF WritersMayWrite, TypeOK
<1>6. RowsFollowTheLicense' /\ ConsentIsFresh'
  BY <1>1 DEF RowsFollowTheLicense, ConsentIsFresh, Active, License, TypeOK
<1>7. JoinersKnowTheTerms'
  BY <1>1, <1>2, DraftsAssumption DEF JoinersKnowTheTerms, Doing, TypeOK, License
<1> QED
  BY <1>3, <1>4, <1>5, <1>6, <1>7

LEMMA JoinWriteKeeps ==
    ASSUME IndInv, NEW s \in Sessions, JoinWrite(s)
    PROVE  IndInv'
<1> USE DEF IndInv, JoinWrite, server, history, End
<1>1. UserOf[s] \in Users
  BY DraftsAssumption
<1>2. collab[UserOf[s]] \in Collaborator
  BY <1>1 DEF JoinersKnowTheTerms, TypeOK
<1>3. [collab[UserOf[s]] EXCEPT !.accepted = TRUE] \in Collaborator
  BY <1>2 DEF Collaborator
<1>4. collab' = [collab EXCEPT ![UserOf[s]] = [collab[UserOf[s]] EXCEPT !.accepted = TRUE]]
  OBVIOUS
<1>5. TypeOK'
  BY <1>1, <1>3, <1>4 DEF TypeOK
<1>6. ViewsAreTrue'
  BY DEF TypeOK, ViewsAreTrue, Quiet
<1>7. WritersMayWrite' /\ JoinersKnowTheTerms'
  BY DraftsAssumption DEF WritersMayWrite, JoinersKnowTheTerms, Doing
<1>8. [collab[UserOf[s]] EXCEPT !.accepted = TRUE].license = collab[UserOf[s]].license
  BY <1>2 DEF Collaborator
<1>9. RowsFollowTheLicense'
  BY <1>1, <1>4, <1>8 DEF RowsFollowTheLicense, License, TypeOK, JoinersKnowTheTerms
<1>10. ConsentIsFresh'
  BY <1>1, <1>4, <1>8 DEF ConsentIsFresh, Active, License, TypeOK, JoinersKnowTheTerms
<1> QED
  BY <1>5, <1>6, <1>7, <1>9, <1>10

LEMMA AcceptReadKeeps ==
    ASSUME IndInv, NEW s \in Sessions, NEW c \in Contributions, AcceptRead(s, c)
    PROVE  IndInv'
<1> USE DEF IndInv, AcceptRead, server, history
<1> DEFINE r == [op |-> "merge", contribution |-> c, expected |-> draft.version,
                 working |-> Merged(c)]
<1>1. contribution[c] \in Contribution
  BY DEF TypeOK
<1>2. MergedLicense(c) \in Licenses
  BY <1>1, DraftsAssumption
     DEF MergedLicense, Contribution, License, TypeOK, View, Working
<1>3. Merged(c) \in Working /\ draft.working.text \subseteq Merged(c).text
  BY <1>2 DEF Merged, Working, TypeOK, View
<1>4. r \in MergeRequest
  BY <1>3, DraftsAssumption DEF MergeRequest, TypeOK, View
<1>5. /\ request' = [request EXCEPT ![s] = r] /\ r.op = "merge"
      /\ r.expected = draft.version /\ r.working = Merged(c)
  OBVIOUS
<1> HIDE DEF r
<1>6. TypeOK'
  BY <1>4, <1>5 DEF TypeOK, Request, MergeRequest
<1>7. ViewsAreTrue'
  BY <1>3, <1>5, ViewsByKind DEF TypeOK, ViewsAreTrue
<1>8. WritersMayWrite'
  BY <1>5 DEF WritersMayWrite, TypeOK, MayEdit, Active, License
<1>9. RowsFollowTheLicense' /\ ConsentIsFresh'
  BY DEF RowsFollowTheLicense, ConsentIsFresh, Active, License
<1>10. JoinersKnowTheTerms'
  BY <1>5 DEF JoinersKnowTheTerms, Doing, TypeOK, License
<1> QED
  BY <1>6, <1>7, <1>8, <1>9, <1>10

LEMMA AcceptBeginKeeps ==
    ASSUME IndInv, NEW s \in Sessions, AcceptBegin(s)
    PROVE  IndInv'
<1>1. CASE Refuse(s)
  BY <1>1, RefuseKeeps
<1>2. CASE ~Refuse(s)
  <2> USE DEF IndInv, server, history
  <2>1. /\ request[s].op = "merge" /\ MayEdit(UserOf[s])
        /\ lock = None /\ lock' = s
        /\ request' = [request EXCEPT ![s].op = "accept"]
        /\ UNCHANGED <<server, seen, push, history>>
    BY <1>2 DEF AcceptBegin
  <2>2. request[s] \in MergeRequest
    BY <2>1, RequestsByKind
  <2>3. /\ [request[s] EXCEPT !.op = "accept"] \in MergeRequest
        /\ [request[s] EXCEPT !.op = "accept"].op = "accept"
        /\ [request[s] EXCEPT !.op = "accept"].expected = request[s].expected
        /\ [request[s] EXCEPT !.op = "accept"].working = request[s].working
    BY <2>2 DEF MergeRequest
  <2>4. request' = [request EXCEPT ![s] = [request[s] EXCEPT !.op = "accept"]]
    BY <2>1
  <2>5. TypeOK'
    BY <2>1, <2>3, <2>4 DEF TypeOK, Request, MergeRequest
  <2>6. ViewsAreTrue'
    BY <2>1, <2>3, <2>4 DEF TypeOK, ViewsAreTrue
  <2>7. WritersMayWrite'
    BY <2>1, <2>3, <2>4, DraftsAssumption DEF WritersMayWrite, TypeOK, MayEdit, Active, License
  <2>8. RowsFollowTheLicense' /\ ConsentIsFresh'
    BY <2>1 DEF RowsFollowTheLicense, ConsentIsFresh, Active, License
  <2>9. JoinersKnowTheTerms'
    BY <2>1, <2>3, <2>4, DraftsAssumption DEF JoinersKnowTheTerms, Doing, TypeOK
  <2> QED
    BY <2>5, <2>6, <2>7, <2>8, <2>9
<1> QED
  BY <1>1, <1>2
-----------------------------------------------------------------------------
(***************************************************************************)
(* Steps that change the draft.                                            *)
(***************************************************************************)
\* A new version of the draft: its type, and the rows that follow its license.
LEMMA WriteIsTyped ==
    ASSUME TypeOK, NEW w \in Working, draft.version < MaxVersion, Write(w)
    PROVE  /\ draft' \in View
           /\ draft'.version = draft.version + 1 /\ draft'.working = w
           /\ License' = w.license
BY DraftsAssumption DEF TypeOK, Write, View, License

LEMMA ResetFollows ==
    ASSUME IndInv, NEW w \in Working, draft.version < MaxVersion,
           Write(w), Reset(w.license), NewTerms(w.license), UNCHANGED <<consent, confirmed>>
    PROVE  /\ collab' \in [Users -> Collaborator \cup {NoRow}]
           /\ terms' \in Nat
           /\ RowsFollowTheLicense' /\ ConsentIsFresh'
<1> USE DEF IndInv
<1>1. License' = w.license /\ w.license \in Licenses
  BY WriteIsTyped DEF Working
<1>2. terms' \in Nat
  BY DEF NewTerms, TypeOK
<1>3. CASE w.license = License
  <2>1. collab' = collab /\ terms' = terms /\ License' = License
    BY <1>1, <1>3 DEF Reset, NewTerms
  <2> QED
    BY <1>2, <2>1 DEF TypeOK, RowsFollowTheLicense, ConsentIsFresh, Active
<1>4. CASE w.license # License
  <2> DEFINE r == [row |-> "row", accepted |-> FALSE, license |-> w.license]
  <2>1. r \in Collaborator /\ r.accepted = FALSE /\ r.license = w.license
    BY <1>1 DEF Collaborator
  <2>2. collab' = [u \in Users |-> IF collab[u] = NoRow THEN NoRow ELSE r]
    BY <1>4 DEF Reset
  <2> HIDE DEF r
  <2>3. \A u \in Users : collab'[u] = NoRow \/ collab'[u] = r
    BY <2>2
  <2>4. RowsFollowTheLicense'
    BY <1>1, <2>1, <2>3 DEF RowsFollowTheLicense
  <2>5. ConsentIsFresh'
    BY <2>1, <2>3 DEF ConsentIsFresh, Active
  <2> QED
    BY <1>2, <2>1, <2>2, <2>4, <2>5
<1> QED
  BY <1>3, <1>4

\* What a write does to the others: they hold an older version now.
LEMMA WriteAgesViews ==
    ASSUME IndInv, NEW s \in Sessions, NEW w \in Working, draft.version < MaxVersion,
           lock = s, Write(w), End(s),
           \/ UNCHANGED seen
           \/ seen' = [seen EXCEPT ![s] = draft']
    PROVE  /\ seen' \in [Sessions -> View \cup {Unseen}]
           /\ request' \in [Sessions -> Request \cup {Quiet}]
           /\ lock' \in Sessions \cup {None}
           /\ ViewsAreTrue' /\ WritersMayWrite' /\ JoinersKnowTheTerms'
<1> USE DEF IndInv, End
<1>1. /\ draft' \in View
      /\ draft'.version = draft.version + 1 /\ draft'.working = w
  BY WriteIsTyped
<1>2. draft.version \in Nat
  BY ViewsByKind
<1>3. ViewsAreTrue'
  <2> SUFFICES ASSUME NEW t \in Sessions
               PROVE  /\ seen'[t].version <= draft'.version
                      /\ seen'[t].version = draft'.version => seen'[t].working = draft'.working
                      /\ request'[t].op = "save" =>
                            /\ seen'[t].version = request'[t].expected
                            /\ seen'[t].working.text \subseteq request'[t].working.text
                      /\ request'[t].op \in {"merge", "accept"} =>
                            /\ request'[t].expected <= draft'.version
                            /\ request'[t].expected = draft'.version
                               => draft'.working.text \subseteq request'[t].working.text
    BY DEF ViewsAreTrue
  <2>1. seen[t].version \in Nat /\ seen[t].version <= draft.version
    BY ViewsByKind DEF ViewsAreTrue
  <2>2. CASE t = s
    BY <1>1, <1>2, <2>1, <2>2 DEF TypeOK, Quiet
  <2>3. CASE t # s
    <3>1. seen'[t] = seen[t] /\ request'[t] = request[t]
      BY <2>3 DEF TypeOK
    <3>2. request[t].op \in {"merge", "accept"}
          => request[t].expected \in Nat /\ request[t].expected <= draft.version
      BY RequestsByKind DEF MergeRequest, ViewsAreTrue
    <3> QED
      BY <1>1, <1>2, <2>1, <3>1, <3>2 DEF ViewsAreTrue
  <2> QED
    BY <2>2, <2>3
<1>4. WritersMayWrite' /\ JoinersKnowTheTerms'
  BY DraftsAssumption DEF WritersMayWrite, JoinersKnowTheTerms, Doing
<1> QED
  BY <1>1, <1>3, <1>4 DEF TypeOK

LEMMA SaveWriteKeeps ==
    ASSUME IndInv, NEW s \in Sessions, SaveWrite(s)
    PROVE  IndInv'
<1>1. CASE Refuse(s)
  BY <1>1, RefuseKeeps
<1>2. CASE ~Refuse(s)
  <2> DEFINE w == request[s].working
  <2>1. request[s] \in SaveRequest
    BY RequestsByKind DEF IndInv, SaveWrite, Doing
  <2>2. w \in Working /\ request[s].expected \in 1..(MaxVersion - 1) /\ w.license \in Licenses
    BY <2>1 DEF SaveRequest, Working
  <2>3. /\ request[s].expected = draft.version
        /\ Write(w) /\ Reset(w.license) /\ NewTerms(w.license)
        /\ Credit(UserOf[s], w)
        /\ UNCHANGED seen \/ seen' = [seen EXCEPT ![s] = draft']
        /\ End(s) /\ lock = s
        /\ UNCHANGED <<base, head, revisions, contribution, confirmed, push, consent>>
    BY <1>2 DEF SaveWrite, Doing
  <2> HIDE DEF w
  <2>4. draft.version < MaxVersion
    BY <2>2, <2>3, DraftsAssumption
  <2>5. draft' \in View
    BY <2>2, <2>3, <2>4, WriteIsTyped DEF IndInv
  <2>6. credited' \subseteq Users
    BY <2>3, DraftsAssumption DEF Credit, IndInv, TypeOK
  <2>7. /\ collab' \in [Users -> Collaborator \cup {NoRow}]
        /\ terms' \in Nat
        /\ RowsFollowTheLicense' /\ ConsentIsFresh'
    BY <2>2, <2>3, <2>4, ResetFollows
  <2>8. /\ seen' \in [Sessions -> View \cup {Unseen}]
        /\ request' \in [Sessions -> Request \cup {Quiet}]
        /\ lock' \in Sessions \cup {None}
        /\ ViewsAreTrue' /\ WritersMayWrite' /\ JoinersKnowTheTerms'
    BY <2>2, <2>3, <2>4, WriteAgesViews
  <2>9. TypeOK'
    BY <2>3, <2>5, <2>6, <2>7, <2>8 DEF IndInv, TypeOK
  <2> QED
    BY <2>7, <2>8, <2>9 DEF IndInv
<1> QED
  BY <1>1, <1>2

LEMMA AcceptWriteKeeps ==
    ASSUME IndInv, NEW s \in Sessions, AcceptWrite(s)
    PROVE  IndInv'
<1>1. CASE Refuse(s)
  BY <1>1, RefuseKeeps
<1>2. CASE ~Refuse(s)
  <2> DEFINE w == request[s].working
             c == request[s].contribution
  <2>1. request[s] \in MergeRequest
    BY RequestsByKind DEF IndInv, AcceptWrite, Doing
  <2>2. w \in Working /\ request[s].expected \in 1..(MaxVersion - 1) /\ c \in Contributions
    BY <2>1 DEF MergeRequest
  <2>3. /\ request[s].expected = draft.version
        /\ contribution[c].status = "open"
        /\ Write(w) /\ Reset(w.license) /\ NewTerms(w.license)
        /\ credited' = IF UserOf[s] = Owner THEN credited ELSE credited \cup {UserOf[s]}
        /\ IF Known(w) THEN UNCHANGED revisions
           ELSE NewRevision(w, "contribution", base, credited')
        /\ base' = w /\ head' = w
        /\ contribution' = [contribution EXCEPT ![c].status = "accepted"]
        /\ End(s) /\ lock = s
        /\ UNCHANGED <<confirmed, seen, push, consent>>
    BY <1>2 DEF AcceptWrite, Doing
  <2> HIDE DEF w, c
  <2>4. draft.version < MaxVersion
    BY <2>2, <2>3, DraftsAssumption
  <2>5. draft' \in View
    BY <2>2, <2>3, <2>4, WriteIsTyped DEF IndInv
  <2>6. credited' \subseteq Users
    BY <2>3, DraftsAssumption DEF IndInv, TypeOK
  <2>7. /\ collab' \in [Users -> Collaborator \cup {NoRow}]
        /\ terms' \in Nat
        /\ RowsFollowTheLicense' /\ ConsentIsFresh'
    BY <2>2, <2>3, <2>4, ResetFollows
  <2>8. /\ seen' \in [Sessions -> View \cup {Unseen}]
        /\ request' \in [Sessions -> Request \cup {Quiet}]
        /\ lock' \in Sessions \cup {None}
        /\ ViewsAreTrue' /\ WritersMayWrite' /\ JoinersKnowTheTerms'
    BY <2>2, <2>3, <2>4, WriteAgesViews
  <2>9. /\ DOMAIN revisions' \subseteq Working
        /\ \A v \in DOMAIN revisions' : revisions'[v] \in Row
    BY <2>2, <2>3, <2>6, NewRevisionIsTyped DEF IndInv, TypeOK
  <2>10. contribution' \in [Contributions -> Contribution \cup {NoRow}]
    BY <2>2, <2>3 DEF IndInv, TypeOK, Contribution, NoRow
  <2>11. TypeOK'
    BY <2>2, <2>3, <2>5, <2>6, <2>7, <2>8, <2>9, <2>10 DEF IndInv, TypeOK, Contents
  <2> QED
    BY <2>7, <2>8, <2>11 DEF IndInv
<1> QED
  BY <1>1, <1>2

\* The confirmed terms name a new version, so whoever was let in under the old ones finds
\* that version gone; the rows of the old license stay behind, inactive.
LEMMA ConfirmImportKeeps ==
    ASSUME IndInv, ConfirmImport
    PROVE  IndInv'
<1> USE DEF IndInv, server, history
<1>1. PICK l \in Licenses : Write([draft.working EXCEPT !.license = l]) /\ NewTerms(l)
  BY DEF ConfirmImport
<1> DEFINE w == [draft.working EXCEPT !.license = l]
<1>2. w \in Working /\ w.license = l /\ w.text = draft.working.text
  BY DEF TypeOK, View, Working
<1>3. Write(w) /\ draft.version < MaxVersion
  BY <1>1 DEF ConfirmImport
<1> HIDE DEF w
<1>4. /\ draft' \in View
      /\ draft'.version = draft.version + 1 /\ draft'.working = w
      /\ License' = w.license
  BY <1>2, <1>3, WriteIsTyped
<1>5. /\ ~confirmed /\ confirmed'
      /\ UNCHANGED <<base, head, revisions, contribution, collab, credited, lock, seen,
                     request, push, consent>>
  BY DEF ConfirmImport
<1>6. TypeOK'
  BY <1>1, <1>4, <1>5 DEF TypeOK, NewTerms
<1>7. draft.version \in Nat
  BY DEF TypeOK, View
<1>8. ViewsAreTrue' /\ WritersMayWrite'
  <2> SUFFICES ASSUME NEW t \in Sessions
               PROVE  /\ seen[t].version <= draft'.version
                      /\ seen[t].version # draft'.version
                      /\ request[t].op \in {"save", "merge", "accept"}
                         => /\ request[t].expected <= draft'.version
                            /\ request[t].expected # draft'.version
    BY <1>4, <1>5 DEF ViewsAreTrue, WritersMayWrite
  <2>1. seen[t].version \in Nat /\ seen[t].version <= draft.version
    BY ViewsByKind DEF ViewsAreTrue
  <2>2. request[t].op \in {"merge", "accept"}
        => request[t].expected \in Nat /\ request[t].expected <= draft.version
    BY RequestsByKind DEF MergeRequest, ViewsAreTrue
  <2>3. request[t].op = "save" => request[t].expected = seen[t].version
    BY DEF ViewsAreTrue
  <2> QED
    BY <1>4, <1>7, <2>1, <2>2, <2>3
<1>9. RowsFollowTheLicense'
  BY <1>5 DEF RowsFollowTheLicense
<1>10. \A u \in Users : collab[u] # NoRow => collab[u].license = License
  BY <1>5 DEF RowsFollowTheLicense
<1>11. JoinersKnowTheTerms' /\ ConsentIsFresh'
  <2>1. CASE l = License
    <3>1. terms' = terms /\ License' = License
      BY <1>1, <1>2, <1>4, <2>1 DEF NewTerms
    <3> QED
      BY <1>5, <3>1 DEF JoinersKnowTheTerms, ConsentIsFresh, Active, Doing
  <2>2. CASE l # License
    <3>1. \A u \in Users : collab'[u] # NoRow => collab'[u].license # License'
      BY <1>2, <1>4, <1>5, <1>10, <2>2
    <3> QED
      BY <1>5, <3>1, DraftsAssumption DEF JoinersKnowTheTerms, ConsentIsFresh, Active, Doing
  <2> QED
    BY <2>1, <2>2
<1> QED
  BY <1>6, <1>8, <1>9, <1>11

LEMMA NextKeeps == IndInv /\ [Next]_vars => IndInv'
<1> SUFFICES ASSUME IndInv, [Next]_vars PROVE IndInv'
  OBVIOUS
<1>1. CASE \E s \in Sessions : \/ Load(s) \/ SaveBegin(s) \/ SaveWrite(s)
                               \/ Revise(s) \/ ReviseInsert(s)
  BY <1>1, LoadKeeps, SaveBeginKeeps, SaveWriteKeeps, ReviseKeeps, ReviseInsertKeeps
<1>2. CASE \E s \in Sessions : \/ \E c \in Contributions : AcceptRead(s, c)
                               \/ AcceptBegin(s) \/ AcceptWrite(s)
                               \/ JoinBegin(s) \/ JoinWrite(s)
  BY <1>2, AcceptReadKeeps, AcceptBeginKeeps, AcceptWriteKeeps, JoinBeginKeeps, JoinWriteKeeps
<1>3. CASE ConfirmImport
  BY <1>3, ConfirmImportKeeps
<1>4. CASE \E p \in Pushes : PushRead(p) \/ PushInsert(p)
  BY <1>4, PushesKeep
<1>5. CASE \E c \in Contributions : Submit(c) \/ Decide(c)
  BY <1>5, ContributionsKeep
<1>6. CASE \E u \in Users : Invite(u) \/ Revoke(u)
  BY <1>6, InvitationsKeep
<1>7. CASE UNCHANGED vars
  BY <1>7 DEF vars, server, history, IndInv, TypeOK, ViewsAreTrue, WritersMayWrite,
              RowsFollowTheLicense, JoinersKnowTheTerms, ConsentIsFresh, MayEdit, Active,
              License, Doing
<1> QED
  BY <1>1, <1>2, <1>3, <1>4, <1>5, <1>6, <1>7 DEF Next

\* The inductive invariant holds for any number of sessions, users and contributions.
THEOREM DraftInvariant == Spec => []IndInv
<1> QED
  BY InitHolds, NextKeeps, PTL DEF Spec

\* Every reachable state of a creation's draft is well typed.
THEOREM DraftTypes == Spec => []TypeOK
<1>1. IndInv => TypeOK
  BY DEF IndInv
<1> QED
  BY <1>1, DraftInvariant, PTL

\* A collaborator is active under the terms they accepted and no others, whoever changes
\* the license how often, the confirmation of an import included.
THEOREM ConsentStaysFresh == Spec => []ConsentIsFresh
<1>1. IndInv => ConsentIsFresh
  BY DEF IndInv
<1> QED
  BY <1>1, DraftInvariant, PTL
-----------------------------------------------------------------------------
(***************************************************************************)
(* What a step does to the draft.                                          *)
(***************************************************************************)
\* A save writes what its session holds, which is the present draft, with its mark.
LEMMA SaveKeepsText ==
    ASSUME IndInv, NEW s \in Sessions, SaveWrite(s)
    PROVE  draft.working.text \subseteq draft'.working.text
<1>1. CASE Refuse(s)
  BY <1>1 DEF Refuse, server
<1>2. CASE ~Refuse(s)
  <2>1. /\ request[s].op = "save" /\ request[s].expected = draft.version
        /\ Write(request[s].working)
    BY <1>2 DEF SaveWrite, Doing
  <2>2. draft'.working = request[s].working
    BY <2>1 DEF Write
  <2> QED
    BY <2>1, <2>2 DEF IndInv, ViewsAreTrue
<1> QED
  BY <1>1, <1>2

LEMMA AcceptKeepsText ==
    ASSUME IndInv, NEW s \in Sessions, AcceptWrite(s)
    PROVE  draft.working.text \subseteq draft'.working.text
<1>1. CASE Refuse(s)
  BY <1>1 DEF Refuse, server
<1>2. CASE ~Refuse(s)
  <2>1. /\ request[s].op = "accept" /\ request[s].expected = draft.version
        /\ Write(request[s].working)
    BY <1>2 DEF AcceptWrite, Doing
  <2>2. draft'.working = request[s].working
    BY <2>1 DEF Write
  <2> QED
    BY <2>1, <2>2 DEF IndInv, ViewsAreTrue
<1> QED
  BY <1>1, <1>2

LEMMA ConfirmKeepsText ==
    ASSUME IndInv, ConfirmImport
    PROVE  draft.working.text \subseteq draft'.working.text
<1>1. PICK l \in Licenses : Write([draft.working EXCEPT !.license = l])
  BY DEF ConfirmImport
<1> QED
  BY <1>1 DEF Write, IndInv, TypeOK, View, Working

\* The other steps leave the draft alone.
LEMMA OnlyWritesWrite ==
    ASSUME Next, ~ConfirmImport, \A s \in Sessions : ~SaveWrite(s) /\ ~AcceptWrite(s)
    PROVE  draft' = draft
BY DEF Next, Load, SaveBegin, Revise, ReviseInsert, AcceptRead, AcceptBegin, JoinBegin,
       JoinWrite, PushRead, PushInsert, Submit, Decide, Invite, Revoke, Begin, Refuse, server

\* Whatever interleaves, no save and no merge throws away what another one wrote.
THEOREM NothingWrittenIsLost == Spec => NothingIsLost
<1>1. IndInv /\ [Next]_vars => [draft.working.text \subseteq draft'.working.text]_vars
  BY SaveKeepsText, AcceptKeepsText, ConfirmKeepsText, OnlyWritesWrite
<1> QED
  BY <1>1, DraftInvariant, PTL DEF Spec, NothingIsLost

\* Everyone who writes has accepted the terms the draft has at that moment.
THEOREM EveryWriterConsented == Spec => WritersConsented
<1> DEFINE Consented == \A s \in Sessions :
               request[s].op \in {"save", "accept"} /\ draft' # draft /\ request'[s] = Quiet
               => \/ UserOf[s] = Owner
                  \/ Active(UserOf[s]) /\ consent[UserOf[s]] = terms
<1>1. ASSUME IndInv, Next PROVE Consented
  <2> SUFFICES ASSUME NEW s \in Sessions, request[s].op \in {"save", "accept"},
                      draft' # draft, request'[s] = Quiet
               PROVE  \/ UserOf[s] = Owner
                      \/ Active(UserOf[s]) /\ consent[UserOf[s]] = terms
    OBVIOUS
  <2>1. request[s] # Quiet
    BY <1>1, RequestsByKind DEF IndInv
  <2>2. ~ConfirmImport
    BY <2>1 DEF ConfirmImport
  <2>3. PICK t \in Sessions : SaveWrite(t) \/ AcceptWrite(t)
    BY <1>1, <2>2, OnlyWritesWrite
  <2>4. ~Refuse(t)
    BY DEF Refuse, server
  <2>5. /\ lock = t /\ End(t)
        /\ request[t].op \in {"save", "accept"}
        /\ request[t].expected = draft.version
    BY <2>3, <2>4 DEF SaveWrite, AcceptWrite, Doing
  <2>6. t = s
    BY <1>1, <2>1, <2>5 DEF End, IndInv, TypeOK
  <2>7. MayEdit(UserOf[s])
    BY <1>1, <2>5, <2>6 DEF IndInv, WritersMayWrite
  <2> QED
    BY <1>1, <2>7, DraftsAssumption DEF MayEdit, IndInv, ConsentIsFresh
<1>2. IndInv /\ [Next]_vars => [Consented]_vars
  BY <1>1
<1> QED
  BY <1>2, DraftInvariant, PTL DEF Spec, WritersConsented
-----------------------------------------------------------------------------
(***************************************************************************)
(* The refinement: the sights of the present draft are the links of the    *)
(* register.                                                               *)
(***************************************************************************)
\* The register names a sight by the session and what it is for.
EditSight(s) == seen[s].version = draft.version
MergeSight(s) == request[s].op \in {"merge", "accept"} /\ request[s].expected = draft.version

LEMMA SightsAre ==
    Sights = {<<s, "edit">> : s \in {t \in Sessions : EditSight(t)}}
             \cup {<<s, "merge">> : s \in {t \in Sessions : MergeSight(t)}}
BY DEF Sights, EditSight, MergeSight

\* After a write of s only s may have a sight of the draft.
LEMMA WriteEndsSights ==
    ASSUME IndInv, NEW s \in Sessions, SaveWrite(s) \/ AcceptWrite(s), ~Refuse(s)
    PROVE  /\ request[s].op = "save" => Sights' \subseteq {<<s, "edit">>}
           /\ request[s].op = "accept" => Sights' = {}
           /\ draft'.working \in Working
<1> USE DEF IndInv
<1>1. /\ request[s].op \in {"save", "accept"}
      /\ request[s].expected = draft.version
      /\ Write(request[s].working) /\ End(s)
      /\ UNCHANGED seen \/ (request[s].op = "save" /\ seen' = [seen EXCEPT ![s] = draft'])
  BY DEF SaveWrite, AcceptWrite, Doing
<1>2. draft.version \in Nat /\ draft'.version = draft.version + 1
      /\ draft'.working = request[s].working
  BY <1>1, ViewsByKind DEF Write
<1>3. \A t \in Sessions : ~MergeSight(t)'
  <2> SUFFICES ASSUME NEW t \in Sessions PROVE ~MergeSight(t)'
    OBVIOUS
  <2>1. CASE t = s
    BY <1>1, <2>1 DEF End, TypeOK, Quiet, MergeSight
  <2>2. CASE t # s
    <3>1. request'[t] = request[t]
      BY <1>1, <2>2 DEF End, TypeOK
    <3>2. request[t].op \in {"merge", "accept"}
          => request[t].expected \in Nat /\ request[t].expected <= draft.version
      BY RequestsByKind DEF MergeRequest, ViewsAreTrue
    <3> QED
      BY <1>2, <3>1, <3>2 DEF MergeSight
  <2> QED
    BY <2>1, <2>2
<1>4. \A t \in Sessions : EditSight(t)' => t = s /\ request[s].op = "save"
  <2> SUFFICES ASSUME NEW t \in Sessions, seen'[t] = seen[t] PROVE ~EditSight(t)'
    BY <1>1 DEF TypeOK
  <2>1. seen[t].version \in Nat /\ seen[t].version <= draft.version
    BY ViewsByKind DEF ViewsAreTrue
  <2> QED
    BY <1>2, <2>1 DEF EditSight
<1>5. Sights' = {<<t, "edit">> : t \in {t \in Sessions : EditSight(t)'}}
                \cup {<<t, "merge">> : t \in {t \in Sessions : MergeSight(t)'}}
  BY DEF Sights, EditSight, MergeSight
<1>6. request[s].working \in Working
  BY <1>1, RequestsByKind DEF SaveRequest, MergeRequest
<1> QED
  BY <1>1, <1>2, <1>3, <1>4, <1>5, <1>6

\* A step that changes the request of one session only.
LEMMA RequestSights ==
    ASSUME IndInv, NEW s \in Sessions, UNCHANGED <<draft, seen>>,
           \A t \in Sessions \ {s} : request'[t] = request[t]
    PROVE  /\ MergeSight(s)' => Sights' = Sights \cup {<<s, "merge">>}
           /\ ~MergeSight(s)' => Sights' = Sights \ {<<s, "merge">>}
<1>1. \A t \in Sessions : EditSight(t)' <=> EditSight(t)
  BY DEF EditSight
<1>2. \A t \in Sessions \ {s} : MergeSight(t)' <=> MergeSight(t)
  BY DEF MergeSight
<1>3. Sights' = {<<t, "edit">> : t \in {t \in Sessions : EditSight(t)'}}
                \cup {<<t, "merge">> : t \in {t \in Sessions : MergeSight(t)'}}
  BY DEF Sights, EditSight, MergeSight
<1>4. "edit" # "merge"
  OBVIOUS
<1> QED
  BY <1>1, <1>2, <1>3, <1>4, SightsAre

LEMMA LoadLooks ==
    ASSUME IndInv, NEW s \in Sessions, Load(s)
    PROVE  Register!Look(<<s, "edit">>)
<1>1. /\ draft' = draft /\ request' = request
      /\ seen' = [seen EXCEPT ![s] = draft]
  BY DEF Load, server
<1>2. \A t \in Sessions : EditSight(t)' <=> t = s \/ EditSight(t)
  BY <1>1 DEF EditSight, IndInv, TypeOK
<1>3. \A t \in Sessions : MergeSight(t)' <=> MergeSight(t)
  BY <1>1 DEF MergeSight
<1>4. Sights' = {<<t, "edit">> : t \in {t \in Sessions : EditSight(t)'}}
                \cup {<<t, "merge">> : t \in {t \in Sessions : MergeSight(t)'}}
  BY DEF Sights, EditSight, MergeSight
<1>5. Sights' = Sights \cup {<<s, "edit">>}
  BY <1>2, <1>3, <1>4, SightsAre
<1> QED
  BY <1>1, <1>5 DEF Register!Look

LEMMA AcceptReadLooks ==
    ASSUME IndInv, NEW s \in Sessions, NEW c \in Contributions, AcceptRead(s, c)
    PROVE  Register!Look(<<s, "merge">>)
<1>1. UNCHANGED <<draft, seen>> /\ \A t \in Sessions \ {s} : request'[t] = request[t]
  BY DEF AcceptRead, server, IndInv, TypeOK
<1>2. MergeSight(s)'
  BY DEF AcceptRead, server, MergeSight, IndInv, TypeOK
<1> QED
  BY <1>1, <1>2, RequestSights DEF Register!Look

\* A request that ends without effect forgets what its merge was computed from.
LEMMA RefuseForgets ==
    ASSUME IndInv, NEW s \in Sessions, Refuse(s)
    PROVE  Register!Forget(<<s, "merge">>)
<1>1. UNCHANGED <<draft, seen>> /\ \A t \in Sessions \ {s} : request'[t] = request[t]
  BY DEF Refuse, End, server, IndInv, TypeOK
<1>2. ~MergeSight(s)'
  BY DEF Refuse, End, MergeSight, IndInv, TypeOK, Quiet
<1> QED
  BY <1>1, <1>2, RequestSights DEF Register!Forget

\* Requests that have nothing to do with merging leave the sights alone.
LEMMA OthersStutter ==
    ASSUME IndInv, NEW s \in Sessions,
           \/ SaveBegin(s) \/ Revise(s) \/ ReviseInsert(s) \/ JoinBegin(s) \/ JoinWrite(s)
    PROVE  UNCHANGED <<draft.working, Sights>>
<1>1. UNCHANGED <<draft, seen>>
  BY DEF SaveBegin, Revise, ReviseInsert, JoinBegin, JoinWrite, Begin, Refuse, server
<1>2. /\ \A t \in Sessions \ {s} : request'[t] = request[t]
      /\ request'[s].op \in {"none", "save", "revise", "join"}
      /\ request[s].op \notin {"merge", "accept"}
  BY DEF SaveBegin, Revise, ReviseInsert, JoinBegin, JoinWrite, Begin, Refuse, End, Doing,
         IndInv, TypeOK, Quiet
<1>3. ~MergeSight(s)' /\ ~MergeSight(s)
  BY <1>2 DEF MergeSight
<1>4. <<s, "merge">> \notin Sights
  BY <1>3, SightsAre
<1> QED
  BY <1>1, <1>2, <1>3, <1>4, RequestSights

LEMMA AcceptBeginMaps ==
    ASSUME IndInv, NEW s \in Sessions, AcceptBegin(s)
    PROVE  Register!Forget(<<s, "merge">>) \/ UNCHANGED <<draft.working, Sights>>
<1>1. CASE Refuse(s)
  BY <1>1, RefuseForgets
<1>2. CASE ~Refuse(s)
  <2>1. /\ request[s].op = "merge"
        /\ request' = [request EXCEPT ![s].op = "accept"]
        /\ UNCHANGED <<draft, seen>>
    BY <1>2 DEF AcceptBegin, server
  <2>2. request[s] \in MergeRequest
    BY <2>1, RequestsByKind DEF IndInv
  <2>3. /\ \A t \in Sessions \ {s} : request'[t] = request[t]
        /\ request'[s].op = "accept" /\ request'[s].expected = request[s].expected
    BY <2>1, <2>2 DEF IndInv, TypeOK, MergeRequest
  <2>4. MergeSight(s)' <=> MergeSight(s)
    BY <2>1, <2>3 DEF MergeSight
  <2>5. <<s, "merge">> \in Sights <=> MergeSight(s)
    BY SightsAre
  <2> QED
    BY <2>1, <2>3, <2>4, <2>5, RequestSights
<1> QED
  BY <1>1, <1>2

\* A write is made by who sees the present draft.
LEMMA WriteStores ==
    ASSUME IndInv, NEW s \in Sessions, SaveWrite(s) \/ AcceptWrite(s), ~Refuse(s)
    PROVE  \E v \in Sessions \X {"edit", "merge"} : Register!Store(v)
<1>1. /\ request[s].op \in {"save", "accept"}
      /\ request[s].expected = draft.version
  BY DEF SaveWrite, AcceptWrite, Doing
<1>2. CASE request[s].op = "save"
  <2>1. EditSight(s)
    BY <1>1, <1>2 DEF EditSight, IndInv, ViewsAreTrue
  <2>2. <<s, "edit">> \in Sights
    BY <2>1, SightsAre
  <2>3. Register!Store(<<s, "edit">>)
    BY <1>2, <2>2, WriteEndsSights DEF Register!Store
  <2> QED
    BY <2>3
<1>3. CASE request[s].op = "accept"
  <2>1. MergeSight(s)
    BY <1>1, <1>3 DEF MergeSight
  <2>2. <<s, "merge">> \in Sights
    BY <2>1, SightsAre
  <2>3. Register!Store(<<s, "merge">>)
    BY <1>3, <2>2, WriteEndsSights DEF Register!Store
  <2> QED
    BY <2>3
<1> QED
  BY <1>1, <1>2, <1>3

LEMMA ConfirmAmends ==
    ASSUME IndInv, ConfirmImport
    PROVE  Register!Amend
<1> USE DEF IndInv
<1>1. PICK l \in Licenses : Write([draft.working EXCEPT !.license = l])
  BY DEF ConfirmImport
<1>2. /\ draft'.version = draft.version + 1 /\ draft.version \in Nat
      /\ draft'.working \in Working
      /\ UNCHANGED <<seen, request>>
  BY <1>1 DEF Write, ConfirmImport, TypeOK, View, Working
<1>3. \A t \in Sessions : ~EditSight(t)' /\ ~MergeSight(t)'
  <2> SUFFICES ASSUME NEW t \in Sessions PROVE ~EditSight(t)' /\ ~MergeSight(t)'
    OBVIOUS
  <2>1. seen[t].version \in Nat /\ seen[t].version <= draft.version
    BY ViewsByKind DEF ViewsAreTrue
  <2>2. request[t].op \in {"merge", "accept"}
        => request[t].expected \in Nat /\ request[t].expected <= draft.version
    BY RequestsByKind DEF MergeRequest, ViewsAreTrue
  <2> QED
    BY <1>2, <2>1, <2>2 DEF EditSight, MergeSight
<1>4. Sights' = {<<t, "edit">> : t \in {t \in Sessions : EditSight(t)'}}
                \cup {<<t, "merge">> : t \in {t \in Sessions : MergeSight(t)'}}
  BY DEF Sights, EditSight, MergeSight
<1> QED
  BY <1>2, <1>3, <1>4 DEF Register!Amend

LEMMA StepMaps ==
    ASSUME IndInv, [Next]_vars
    PROVE  [Register!Next]_(Register!vars)
<1> USE DEF Register!vars, Register!Next
<1>1. CASE \E s \in Sessions : Load(s)
  BY <1>1, LoadLooks
<1>2. CASE \E s \in Sessions, c \in Contributions : AcceptRead(s, c)
  BY <1>2, AcceptReadLooks
<1>3. CASE \E s \in Sessions : \/ SaveBegin(s) \/ Revise(s) \/ ReviseInsert(s)
                               \/ JoinBegin(s) \/ JoinWrite(s)
  BY <1>3, OthersStutter
<1>4. CASE \E s \in Sessions : AcceptBegin(s)
  BY <1>4, AcceptBeginMaps
<1>5. CASE \E s \in Sessions : SaveWrite(s) \/ AcceptWrite(s)
  BY <1>5, RefuseForgets, WriteStores
<1>6. CASE ConfirmImport
  BY <1>6, ConfirmAmends
<1>7. CASE \/ \E p \in Pushes : PushRead(p) \/ PushInsert(p)
           \/ \E c \in Contributions : Submit(c) \/ Decide(c)
           \/ \E u \in Users : Invite(u) \/ Revoke(u)
           \/ UNCHANGED vars
  <2>1. UNCHANGED <<draft, seen, request>>
    BY <1>7 DEF PushRead, PushInsert, Submit, Decide, Invite, Revoke, vars, server
  <2> QED
    BY <2>1 DEF Sights
<1> QED
  BY <1>1, <1>2, <1>3, <1>4, <1>5, <1>6, <1>7 DEF Next

\* The draft, with its versions, its locks and its races, is a register that is written
\* only by who has seen its present value.
THEOREM DraftsImplementRegister == Spec => ImplementsRegister
<1>1. Init => Register!Init
  <2> SUFFICES ASSUME Init PROVE Register!Init
    OBVIOUS
  <2>1. IndInv /\ draft.version = 1
    <3>1. PICK l \in Licenses : draft = [version |-> 1, working |-> [text |-> {}, license |-> l]]
      BY DEF Init
    <3> QED
      BY <3>1, InitHolds
  <2>2. \A t \in Sessions : ~EditSight(t) /\ ~MergeSight(t)
    BY <2>1 DEF Init, EditSight, MergeSight, Unseen, Quiet
  <2> QED
    BY <2>1, <2>2, SightsAre, ViewsByKind DEF Register!Init, IndInv, TypeOK, View
<1>2. IndInv /\ [Next]_vars => [Register!Next]_(Register!vars)
  BY StepMaps
<1> QED
  BY <1>1, <1>2, DraftInvariant, PTL DEF Spec, ImplementsRegister, Register!Spec
-----------------------------------------------------------------------------
(***************************************************************************)
(* Revisions, their parents and their credits: the invariant on top of     *)
(* IndInv.  What a request is about to write is the present draft and      *)
(* nothing else but its own mark or its contribution, and the base of the  *)
(* draft holds every contribution the draft holds.                         *)
(***************************************************************************)
Exact(s) ==
    /\ request[s].op = "save" =>
          request[s].working.text = seen[s].working.text \cup {s}
    /\ request[s].op \in {"merge", "accept"} =>
          LET c == request[s].contribution IN
          /\ contribution[c] # NoRow
          /\ request[s].working.license \in contribution[c].says.covers
          /\ request[s].expected = draft.version
             => request[s].working.text = draft.working.text \cup {c}
    /\ request[s].op = "revise" =>
          /\ lock = s
          /\ request[s].working.text = draft.working.text
          /\ request[s].parent = base

RequestsAreExact == \A s \in Sessions : Exact(s)

Editors(text) == {UserOf[s] : s \in text \cap Sessions} \ {Owner}

DraftIsCredited == Editors(draft.working.text) \subseteq credited

\* What the draft holds of contributions is in its base.
BaseHolds ==
    /\ base # None => base.text \subseteq draft.working.text
    /\ \A c \in draft.working.text \cap Contributions : base # None /\ c \in base.text

\* A revision made by a merge brings only contributions that exist, and whose authors
\* acknowledged its license.
Brings(w, c) ==
    /\ w \in DOMAIN revisions /\ c \in w.text \cap Contributions
    /\ revisions[w].by = "contribution"
    /\ revisions[w].parent # None => c \notin revisions[w].parent.text

RightsAreKnown ==
    \A w \in Working, c \in Contributions : Brings(w, c) =>
        contribution[c] # NoRow /\ w.license \in contribution[c].says.covers

LineageInv ==
    /\ RequestsAreExact
    /\ DraftIsCredited
    /\ BaseHolds
    /\ RightsAreKnown
    /\ MergedIsAccepted
    /\ LineageGrows
    /\ WritersAreCredited
-----------------------------------------------------------------------------
LEMMA LineageBegins == Init => LineageInv
<1> SUFFICES ASSUME Init PROVE LineageInv
  OBVIOUS
<1> USE DEF Init
<1>1. draft.working.text = {} /\ DOMAIN revisions = {}
  OBVIOUS
<1>2. RequestsAreExact
  BY DEF RequestsAreExact, Exact, Quiet
<1>3. DraftIsCredited /\ BaseHolds
  BY <1>1 DEF DraftIsCredited, BaseHolds, Editors
<1>4. RightsAreKnown /\ LineageGrows /\ WritersAreCredited
  BY <1>1 DEF RightsAreKnown, LineageGrows, WritersAreCredited, Brings
<1>5. MergedIsAccepted
  BY <1>1 DEF MergedIsAccepted
<1> QED
  BY <1>2, <1>3, <1>4, <1>5 DEF LineageInv

\* A step that leaves the tables alone has only to keep the requests exact.
LEMMA TablesAlone ==
    ASSUME LineageInv, RequestsAreExact',
           UNCHANGED <<draft, base, revisions, contribution, credited>>
    PROVE  LineageInv'
BY DEF LineageInv, DraftIsCredited, BaseHolds, RightsAreKnown, Brings, MergedIsAccepted,
       LineageGrows, WritersAreCredited

\* One session's request changes, which held the creation row or took it, or did not.
LEMMA OneRequest ==
    ASSUME IndInv, LineageInv, NEW s \in Sessions,
           UNCHANGED <<draft, base, revisions, contribution, credited>>,
           \A t \in Sessions \ {s} : request'[t] = request[t] /\ seen'[t] = seen[t],
           lock' = lock \/ lock \in {s, None},
           Exact(s)'
    PROVE  LineageInv'
<1>1. ASSUME NEW t \in Sessions, t # s PROVE Exact(t)'
  <2>1. request[t].op = "revise" => lock = t
    BY DEF LineageInv, RequestsAreExact, Exact
  <2>2. request[t].op = "revise" => lock' = t
    BY <1>1, <2>1, DraftsAssumption
  <2> QED
    BY <1>1, <2>2 DEF LineageInv, RequestsAreExact, Exact
<1>2. RequestsAreExact'
  BY <1>1 DEF RequestsAreExact
<1> QED
  BY <1>2, TablesAlone

LEMMA RefuseKeepsLineage ==
    ASSUME IndInv, LineageInv, NEW s \in Sessions, Refuse(s), lock \in {s, None}
    PROVE  LineageInv'
<1>1. request' = [request EXCEPT ![s] = Quiet]
  BY DEF Refuse, End
<1>2. request'[s].op = "none"
  BY <1>1 DEF IndInv, TypeOK, Quiet
<1>3. Exact(s)'
  BY <1>2 DEF Exact
<1> QED
  BY <1>1, <1>3, OneRequest DEF Refuse, server, IndInv, TypeOK

LEMMA LoadKeepsLineage ==
    ASSUME IndInv, LineageInv, NEW s \in Sessions, Load(s)
    PROVE  LineageInv'
<1>1. Exact(s)'
  BY DEF Load, Exact, Quiet
<1> QED
  BY <1>1, OneRequest DEF Load, server, IndInv, TypeOK

LEMMA SaveBeginKeepsLineage ==
    ASSUME IndInv, LineageInv, NEW s \in Sessions, SaveBegin(s)
    PROVE  LineageInv'
<1>1. PICK l \in Licenses :
         Begin(s, [op |-> "save", expected |-> seen[s].version,
                   working |-> [text |-> seen[s].working.text \cup {s}, license |-> l]])
  BY DEF SaveBegin
<1>2. request'[s].op = "save" /\ request'[s].working.text = seen[s].working.text \cup {s}
  BY <1>1 DEF Begin, IndInv, TypeOK
<1>3. Exact(s)'
  BY <1>1, <1>2 DEF Exact, Begin
<1> QED
  BY <1>1, <1>3, OneRequest DEF Begin, server, IndInv, TypeOK

LEMMA ReviseKeepsLineage ==
    ASSUME IndInv, LineageInv, NEW s \in Sessions, Revise(s)
    PROVE  LineageInv'
<1>1. /\ request'[s].op = "revise" /\ request'[s].working = draft.working
      /\ request'[s].parent = base
  BY DEF Revise, Begin, IndInv, TypeOK
<1>2. Exact(s)'
  BY <1>1 DEF Exact, Revise, Begin, server
<1> QED
  BY <1>2, OneRequest DEF Revise, Begin, server, IndInv, TypeOK

LEMMA AcceptReadKeepsLineage ==
    ASSUME IndInv, LineageInv, NEW s \in Sessions, NEW c \in Contributions, AcceptRead(s, c)
    PROVE  LineageInv'
<1>1. /\ request'[s].op = "merge" /\ request'[s].contribution = c
      /\ request'[s].working = Merged(c)
  BY DEF AcceptRead, IndInv, TypeOK
<1>2. Exact(s)'
  BY <1>1 DEF Exact, AcceptRead, Merged, server
<1> QED
  BY <1>2, OneRequest DEF AcceptRead, server, IndInv, TypeOK

LEMMA AcceptBeginKeepsLineage ==
    ASSUME IndInv, LineageInv, NEW s \in Sessions, AcceptBegin(s)
    PROVE  LineageInv'
<1>1. lock = None /\ request[s].op = "merge"
  BY DEF AcceptBegin
<1>2. CASE Refuse(s)
  BY <1>1, <1>2, RefuseKeepsLineage
<1>3. CASE ~Refuse(s)
  <2>1. request' = [request EXCEPT ![s].op = "accept"] /\ UNCHANGED <<server, seen>>
    BY <1>3 DEF AcceptBegin
  <2>2. request[s] \in MergeRequest
    BY <1>1, RequestsByKind DEF IndInv
  <2>3. /\ request'[s].op = "accept" /\ request'[s].working = request[s].working
        /\ request'[s].contribution = request[s].contribution
        /\ request'[s].expected = request[s].expected
    BY <2>1, <2>2 DEF MergeRequest, IndInv, TypeOK
  <2>4. Exact(s)'
    BY <1>1, <2>1, <2>3 DEF LineageInv, RequestsAreExact, Exact, server
  <2> QED
    BY <1>1, <2>1, <2>4, OneRequest DEF server, IndInv, TypeOK
<1> QED
  BY <1>2, <1>3

LEMMA JoinKeepsLineage ==
    ASSUME IndInv, LineageInv, NEW s \in Sessions, JoinBegin(s) \/ JoinWrite(s)
    PROVE  LineageInv'
<1>1. request'[s].op \in {"join", "none"}
  BY DEF JoinBegin, JoinWrite, End, Quiet, IndInv, TypeOK
<1>2. Exact(s)'
  BY <1>1 DEF Exact
<1>3. /\ UNCHANGED <<draft, base, revisions, contribution, credited, seen>>
      /\ lock \in {s, None}
      /\ \A t \in Sessions \ {s} : request'[t] = request[t]
  BY DEF JoinBegin, JoinWrite, End, Doing, server, IndInv, TypeOK
<1> QED
  BY <1>2, <1>3, OneRequest

LEMMA InvitationsKeepLineage ==
    ASSUME LineageInv, NEW u \in Users, Invite(u) \/ Revoke(u)
    PROVE  LineageInv'
<1>1. UNCHANGED <<draft, base, revisions, contribution, credited, lock, seen, request>>
  BY DEF Invite, Revoke
<1>2. RequestsAreExact'
  BY <1>1 DEF LineageInv, RequestsAreExact, Exact
<1> QED
  BY <1>1, <1>2, TablesAlone
-----------------------------------------------------------------------------
(***************************************************************************)
(* Steps that change a table.                                              *)
(***************************************************************************)
LEMMA ContributionsByKind ==
    ASSUME TypeOK, NEW c \in Contributions, contribution[c] # NoRow
    PROVE  contribution[c] \in Contribution
BY DEF TypeOK

\* What a contribution proposes stands from its submission on.
LEMMA ContributionsKeepLineage ==
    ASSUME IndInv, LineageInv, NEW c \in Contributions, Submit(c) \/ Decide(c)
    PROVE  LineageInv'
<1> USE DEF LineageInv
<1>1. /\ UNCHANGED <<draft, base, revisions, credited, lock, seen, request>>
      /\ \A d \in Contributions \ {c} : contribution'[d] = contribution[d]
      /\ contribution'[c] # NoRow
      /\ contribution[c] # NoRow => contribution'[c].says = contribution[c].says
      /\ contribution'[c].status # "accepted"
      /\ contribution[c] # NoRow => contribution[c].status # "accepted"
  <2>1. CASE Submit(c)
    <3>1. PICK w \in DOMAIN revisions, p \in Proposals :
              contribution' = [contribution EXCEPT ![c] =
                  [status |-> "open", base |-> w, says |-> p]]
      BY <2>1 DEF Submit
    <3>2. contribution'[c] = [status |-> "open", base |-> w, says |-> p]
      BY <3>1 DEF IndInv, TypeOK
    <3>3. contribution'[c].status = "open" /\ contribution'[c] # NoRow
      BY <3>2 DEF NoRow
    <3> QED
      BY <2>1, <3>1, <3>3 DEF Submit, IndInv, TypeOK
  <2>2. CASE Decide(c)
    <3>1. contribution[c] \in Contribution /\ contribution[c].status = "open"
      BY <2>2, ContributionsByKind DEF Decide, IndInv
    <3>2. /\ contribution'[c] = [contribution[c] EXCEPT !.status = "rejected"]
          /\ \A d \in Contributions \ {c} : contribution'[d] = contribution[d]
      BY <2>2 DEF Decide, IndInv, TypeOK
    <3>3. /\ contribution'[c].status = "rejected"
          /\ contribution'[c].says = contribution[c].says
          /\ contribution'[c] \in Contribution
      BY <3>1, <3>2 DEF Contribution
    <3>4. contribution'[c] # NoRow
      BY <3>3 DEF Contribution, NoRow
    <3> QED
      BY <2>2, <3>1, <3>2, <3>3, <3>4 DEF Decide
  <2> QED
    BY <2>1, <2>2
<1>2. \A d \in Contributions : contribution[d] # NoRow =>
          contribution'[d] # NoRow /\ contribution'[d].says = contribution[d].says
  BY <1>1
<1>3. RequestsAreExact'
  <2> SUFFICES ASSUME NEW s \in Sessions PROVE Exact(s)'
    BY DEF RequestsAreExact
  <2>1. request[s].op \in {"merge", "accept"} => request[s].contribution \in Contributions
    BY RequestsByKind DEF IndInv, MergeRequest
  <2> QED
    BY <1>1, <1>2, <2>1 DEF RequestsAreExact, Exact
<1>4. RightsAreKnown'
  BY <1>1, <1>2 DEF RightsAreKnown, Brings
<1>5. MergedIsAccepted'
  BY <1>1 DEF MergedIsAccepted
<1>6. DraftIsCredited' /\ BaseHolds' /\ LineageGrows' /\ WritersAreCredited'
  BY <1>1 DEF DraftIsCredited, BaseHolds, LineageGrows, WritersAreCredited
<1> QED
  BY <1>3, <1>4, <1>5, <1>6

\* A new revision is one more; those there are stay.
LEMMA RevisionAdded ==
    ASSUME NEW w, NEW by, NEW parent, NEW credits, ~Known(w), NewRevision(w, by, parent, credits)
    PROVE  /\ DOMAIN revisions' = DOMAIN revisions \cup {w}
           /\ w \notin DOMAIN revisions
           /\ \A v \in DOMAIN revisions : revisions'[v] = revisions[v]
           /\ revisions'[w].by = by /\ revisions'[w].parent = parent
           /\ revisions'[w].credits = credits
BY DEF Known, NewRevision

\* What is in the repository says nothing about parents, credits and rights.
LEMMA PushesKeepLineage ==
    ASSUME IndInv, LineageInv, NEW p \in Pushes, PushRead(p) \/ PushInsert(p)
    PROVE  LineageInv'
<1> USE DEF LineageInv
<1>1. UNCHANGED <<draft, base, contribution, credited, lock, seen, request>>
  BY DEF PushRead, PushInsert, server
<1>2. RequestsAreExact' /\ DraftIsCredited' /\ BaseHolds' /\ MergedIsAccepted'
  BY <1>1 DEF RequestsAreExact, Exact, DraftIsCredited, BaseHolds, MergedIsAccepted
<1>3. CASE UNCHANGED revisions
  BY <1>1, <1>2, <1>3 DEF RightsAreKnown, Brings, LineageGrows, WritersAreCredited
<1>4. CASE ~Known(Pushed[p]) /\ NewRevision(Pushed[p], "source", push[p].head, {})
  <2>1. /\ DOMAIN revisions' = DOMAIN revisions \cup {Pushed[p]}
        /\ Pushed[p] \notin DOMAIN revisions
        /\ \A v \in DOMAIN revisions : revisions'[v] = revisions[v]
        /\ revisions'[Pushed[p]].by = "source"
    BY <1>4, RevisionAdded
  <2>2. \A w \in Working, c \in Contributions : Brings(w, c)' => Brings(w, c)
    BY <2>1 DEF Brings
  <2>3. RightsAreKnown'
    BY <1>1, <2>2 DEF RightsAreKnown
  <2>4. LineageGrows' /\ WritersAreCredited'
    BY <1>1, <2>1 DEF LineageGrows, WritersAreCredited
  <2> QED
    BY <1>2, <2>3, <2>4
<1> QED
  BY <1>3, <1>4 DEF PushRead, PushInsert, server

\* The terms of an import change the license, not the text.
LEMMA ConfirmKeepsLineage ==
    ASSUME IndInv, LineageInv, ConfirmImport
    PROVE  LineageInv'
<1> USE DEF LineageInv
<1>1. PICK l \in Licenses : Write([draft.working EXCEPT !.license = l])
  BY DEF ConfirmImport
<1>2. /\ draft'.working.text = draft.working.text
      /\ draft'.version = draft.version + 1
  BY <1>1 DEF Write, IndInv, TypeOK, View, Working
<1>3. UNCHANGED <<base, revisions, contribution, credited, lock, seen, request>>
  BY DEF ConfirmImport
<1>4. RequestsAreExact'
  <2> SUFFICES ASSUME NEW s \in Sessions PROVE Exact(s)'
    BY DEF RequestsAreExact
  <2>1. request[s].op \in {"merge", "accept"} =>
            /\ request[s].expected \in Nat /\ request[s].expected <= draft.version
    BY RequestsByKind DEF IndInv, MergeRequest, ViewsAreTrue
  <2>2. draft.version \in Nat
    BY ViewsByKind DEF IndInv
  <2>3. request[s].op \in {"merge", "accept"} => request[s].expected # draft'.version
    BY <1>2, <2>1, <2>2
  <2> QED
    BY <1>2, <1>3, <2>3 DEF RequestsAreExact, Exact
<1>5. DraftIsCredited' /\ BaseHolds' /\ MergedIsAccepted' /\ LineageGrows'
  BY <1>2, <1>3 DEF DraftIsCredited, BaseHolds, MergedIsAccepted, LineageGrows
<1>6. RightsAreKnown' /\ WritersAreCredited'
  BY <1>3 DEF RightsAreKnown, Brings, WritersAreCredited
<1> QED
  BY <1>4, <1>5, <1>6

\* After a write of s what the others are about to write is for an older version.
LEMMA WriteLeavesRequests ==
    ASSUME IndInv, LineageInv, NEW s \in Sessions, lock = s, End(s),
           UNCHANGED seen \/ seen' = [seen EXCEPT ![s] = draft'],
           draft'.version = draft.version + 1,
           \A d \in Contributions : contribution[d] # NoRow =>
               contribution'[d] # NoRow /\ contribution'[d].says = contribution[d].says
    PROVE  RequestsAreExact'
<1> SUFFICES ASSUME NEW t \in Sessions PROVE Exact(t)'
  BY DEF RequestsAreExact
<1>1. CASE t = s
  BY <1>1 DEF End, IndInv, TypeOK, Quiet, Exact
<1>2. CASE t # s
  <2>1. request'[t] = request[t] /\ seen'[t] = seen[t]
    BY <1>2 DEF End, IndInv, TypeOK
  <2>2. request[t].op # "revise"
    BY <1>2 DEF LineageInv, RequestsAreExact, Exact
  <2>3. request[t].op \in {"merge", "accept"} =>
            /\ request[t].expected \in Nat /\ request[t].expected <= draft.version
            /\ request[t].contribution \in Contributions
    BY RequestsByKind DEF IndInv, MergeRequest, ViewsAreTrue
  <2>4. draft.version \in Nat
    BY ViewsByKind DEF IndInv
  <2>5. request[t].op \in {"merge", "accept"} => request[t].expected # draft'.version
    BY <2>3, <2>4
  <2> QED
    BY <2>1, <2>2, <2>3, <2>5 DEF LineageInv, RequestsAreExact, Exact
<1> QED
  BY <1>1, <1>2

LEMMA SaveWriteKeepsLineage ==
    ASSUME IndInv, LineageInv, NEW s \in Sessions, SaveWrite(s)
    PROVE  LineageInv'
<1>1. CASE Refuse(s)
  BY <1>1, RefuseKeepsLineage DEF SaveWrite, Doing
<1>2. CASE ~Refuse(s)
  <2> DEFINE w == request[s].working
  <2>1. /\ request[s].op = "save" /\ lock = s /\ request[s].expected = draft.version
        /\ Write(w) /\ Credit(UserOf[s], w) /\ End(s)
        /\ UNCHANGED seen \/ seen' = [seen EXCEPT ![s] = draft']
        /\ UNCHANGED <<base, revisions, contribution>>
    BY <1>2 DEF SaveWrite, Doing
  <2>2. draft'.working = w /\ draft'.version = draft.version + 1
    BY <2>1 DEF Write
  <2>3. seen[s].working = draft.working
    BY <2>1 DEF IndInv, ViewsAreTrue
  <2>4. w.text = draft.working.text \cup {s}
    BY <2>1, <2>3 DEF LineageInv, RequestsAreExact, Exact
  <2> HIDE DEF w
  <2>5. RequestsAreExact'
    BY <2>1, <2>2, WriteLeavesRequests
  <2>6. s \notin Contributions
    BY DraftsAssumption
  <2>7. DraftIsCredited'
    <3>1. credited \subseteq credited'
      BY <2>1 DEF Credit
    <3>2. UserOf[s] # Owner => UserOf[s] \in credited'
      <4>1. CASE w # draft.working
        BY <2>1, <4>1 DEF Credit
      <4>2. CASE w = draft.working
        <5>1. s \in draft.working.text
          BY <2>4, <4>2
        <5> QED
          BY <3>1, <5>1 DEF LineageInv, DraftIsCredited, Editors
      <4> QED
        BY <4>1, <4>2
    <3>3. Editors(draft.working.text) \subseteq credited'
      BY <3>1 DEF LineageInv, DraftIsCredited
    <3>4. \A t \in w.text \cap Sessions : UserOf[t] # Owner => UserOf[t] \in credited'
      BY <2>4, <3>2, <3>3 DEF Editors
    <3> QED
      BY <2>2, <3>4 DEF DraftIsCredited, Editors
  <2>8. BaseHolds' /\ MergedIsAccepted'
    BY <2>1, <2>2, <2>4, <2>6 DEF LineageInv, BaseHolds, MergedIsAccepted
  <2>9. RightsAreKnown' /\ WritersAreCredited'
    BY <2>1 DEF LineageInv, RightsAreKnown, Brings, WritersAreCredited
  <2>10. LineageGrows'
    BY <2>1, <2>2, <2>4 DEF LineageInv, LineageGrows
  <2> QED
    BY <2>5, <2>7, <2>8, <2>9, <2>10 DEF LineageInv
<1> QED
  BY <1>1, <1>2

\* A revision is made of the draft: it holds its parent, and credits who wrote it.
LEMMA RevisionsKept ==
    ASSUME IndInv, LineageInv, NEW w \in Working, NEW by, NEW credits, ~Known(w),
           NewRevision(w, by, base, credits), Editors(w.text) \subseteq credits,
           base # None => base.text \subseteq w.text,
           base' = w, draft'.working.text = w.text
    PROVE  LineageGrows' /\ WritersAreCredited'
<1>1. /\ DOMAIN revisions' = DOMAIN revisions \cup {w}
      /\ w \notin DOMAIN revisions
      /\ \A v \in DOMAIN revisions : revisions'[v] = revisions[v]
      /\ revisions'[w].parent = base /\ revisions'[w].credits = credits
  BY RevisionAdded
<1>2. LineageGrows'
  BY <1>1 DEF LineageInv, LineageGrows
<1>3. WritersAreCredited'
  BY <1>1 DEF LineageInv, WritersAreCredited, Editors
<1> QED
  BY <1>2, <1>3

LEMMA ReviseInsertKeepsLineage ==
    ASSUME IndInv, LineageInv, NEW s \in Sessions, ReviseInsert(s)
    PROVE  LineageInv'
<1>1. CASE Refuse(s)
  BY <1>1, RefuseKeepsLineage DEF ReviseInsert, Doing
<1>2. CASE ~Refuse(s)
  <2> DEFINE w == request[s].working
  <2>1. /\ request[s].op = "revise" /\ lock = s
        /\ ~Known(w) /\ NewRevision(w, "user", request[s].parent, credited)
        /\ base' = w /\ End(s)
        /\ UNCHANGED <<draft, contribution, credited, seen>>
    BY <1>2 DEF ReviseInsert, Doing
  <2>2. w.text = draft.working.text /\ request[s].parent = base
    BY <2>1 DEF LineageInv, RequestsAreExact, Exact
  <2>3. w \in Working /\ w # None
    BY <2>1, RequestsByKind, DraftsAssumption DEF IndInv, ReviseRequest
  <2> HIDE DEF w
  <2>4. RequestsAreExact'
    <3> SUFFICES ASSUME NEW t \in Sessions PROVE Exact(t)'
      BY DEF RequestsAreExact
    <3>1. CASE t = s
      BY <2>1, <3>1 DEF End, IndInv, TypeOK, Quiet, Exact
    <3>2. CASE t # s
      <4>1. request'[t] = request[t] /\ request[t].op # "revise"
        BY <2>1, <3>2 DEF End, IndInv, TypeOK, LineageInv, RequestsAreExact, Exact
      <4> QED
        BY <2>1, <4>1 DEF LineageInv, RequestsAreExact, Exact
    <3> QED
      BY <3>1, <3>2
  <2>5. LineageGrows' /\ WritersAreCredited'
    <3>1. Editors(w.text) \subseteq credited
      BY <2>2 DEF LineageInv, DraftIsCredited
    <3>2. base # None => base.text \subseteq w.text
      BY <2>2 DEF LineageInv, BaseHolds
    <3> QED
      BY <2>1, <2>2, <2>3, <3>1, <3>2, RevisionsKept
  <2>6. BaseHolds' /\ DraftIsCredited' /\ MergedIsAccepted'
    BY <2>1, <2>2, <2>3 DEF LineageInv, BaseHolds, DraftIsCredited, MergedIsAccepted
  <2>7. RightsAreKnown'
    <3>1. /\ DOMAIN revisions' = DOMAIN revisions \cup {w}
          /\ \A v \in DOMAIN revisions : revisions'[v] = revisions[v]
          /\ revisions'[w].by = "user"
      BY <2>1, RevisionAdded
    <3>2. \A v \in Working, c \in Contributions : Brings(v, c)' => Brings(v, c)
      BY <3>1 DEF Brings
    <3> QED
      BY <2>1, <3>2 DEF LineageInv, RightsAreKnown
  <2> QED
    BY <2>4, <2>5, <2>6, <2>7 DEF LineageInv
<1> QED
  BY <1>1, <1>2

LEMMA AcceptWriteKeepsLineage ==
    ASSUME IndInv, LineageInv, NEW s \in Sessions, AcceptWrite(s)
    PROVE  LineageInv'
<1>1. CASE Refuse(s)
  BY <1>1, RefuseKeepsLineage DEF AcceptWrite, Doing
<1>2. CASE ~Refuse(s)
  <2> DEFINE w == request[s].working
             c == request[s].contribution
             u == UserOf[s]
  <2>1. /\ request[s].op = "accept" /\ lock = s /\ request[s].expected = draft.version
        /\ contribution[c].status = "open"
        /\ Write(w) /\ End(s)
        /\ credited' = IF u = Owner THEN credited ELSE credited \cup {u}
        /\ IF Known(w) THEN UNCHANGED revisions
           ELSE NewRevision(w, "contribution", base, credited')
        /\ base' = w
        /\ contribution' = [contribution EXCEPT ![c].status = "accepted"]
        /\ UNCHANGED seen
    BY <1>2 DEF AcceptWrite, Doing
  <2>2. w \in Working /\ w # None /\ c \in Contributions
    BY <2>1, RequestsByKind, DraftsAssumption DEF IndInv, MergeRequest
  <2>3. /\ w.text = draft.working.text \cup {c}
        /\ contribution[c] # NoRow /\ w.license \in contribution[c].says.covers
    BY <2>1 DEF LineageInv, RequestsAreExact, Exact
  <2>4. /\ contribution'[c] # NoRow /\ contribution'[c].status = "accepted"
        /\ contribution'[c].says = contribution[c].says
        /\ \A d \in Contributions \ {c} : contribution'[d] = contribution[d]
    <3>1. contribution[c] \in Contribution
      BY <2>2, <2>3, ContributionsByKind DEF IndInv
    <3>2. /\ contribution'[c] = [contribution[c] EXCEPT !.status = "accepted"]
          /\ \A d \in Contributions \ {c} : contribution'[d] = contribution[d]
      BY <2>1, <2>2 DEF IndInv, TypeOK
    <3>3. /\ contribution'[c].status = "accepted"
          /\ contribution'[c].says = contribution[c].says
          /\ contribution'[c] \in Contribution
      BY <3>1, <3>2 DEF Contribution
    <3>4. contribution'[c] # NoRow
      BY <3>3 DEF Contribution, NoRow
    <3> QED
      BY <3>2, <3>3, <3>4
  <2>5. draft'.working = w /\ draft'.version = draft.version + 1
    BY <2>1 DEF Write
  <2> HIDE DEF w, c, u
  <2>6. \A d \in Contributions : contribution[d] # NoRow =>
            contribution'[d] # NoRow /\ contribution'[d].says = contribution[d].says
    BY <2>4
  <2>7. RequestsAreExact'
    BY <2>1, <2>5, <2>6, WriteLeavesRequests
  <2>8. c \notin Sessions
    BY <2>2, DraftsAssumption
  <2>9. Editors(w.text) \subseteq credited'
    BY <2>1, <2>3, <2>8 DEF LineageInv, DraftIsCredited, Editors
  <2>10. DraftIsCredited' /\ BaseHolds'
    BY <2>1, <2>2, <2>5, <2>9 DEF DraftIsCredited, BaseHolds
  <2>11. MergedIsAccepted'
    BY <2>3, <2>4, <2>5 DEF LineageInv, MergedIsAccepted
  <2>12. base # None => base.text \subseteq w.text
    BY <2>3 DEF LineageInv, BaseHolds
  <2>13. CASE Known(w)
    <3>1. UNCHANGED revisions
      BY <2>1, <2>13
    <3>2. LineageGrows' /\ WritersAreCredited'
      BY <2>1, <2>5, <3>1 DEF LineageInv, LineageGrows, WritersAreCredited
    <3>3. RightsAreKnown'
      BY <2>6, <3>1 DEF LineageInv, RightsAreKnown, Brings
    <3> QED
      BY <2>7, <2>10, <2>11, <3>2, <3>3 DEF LineageInv
  <2>14. CASE ~Known(w)
    <3>1. NewRevision(w, "contribution", base, credited')
      BY <2>1, <2>14
    <3>2. LineageGrows' /\ WritersAreCredited'
      BY <2>1, <2>2, <2>5, <2>9, <2>12, <2>14, <3>1, RevisionsKept
    <3>3. RightsAreKnown'
      <4>1. /\ DOMAIN revisions' = DOMAIN revisions \cup {w}
            /\ w \notin DOMAIN revisions
            /\ \A v \in DOMAIN revisions : revisions'[v] = revisions[v]
            /\ revisions'[w].parent = base
        BY <2>14, <3>1, RevisionAdded
      <4> SUFFICES ASSUME NEW v \in Working, NEW d \in Contributions, Brings(v, d)'
                   PROVE  contribution'[d] # NoRow /\ v.license \in contribution'[d].says.covers
        BY DEF RightsAreKnown
      <4>2. CASE v # w
        <5>1. Brings(v, d)
          BY <4>1, <4>2 DEF Brings
        <5> QED
          BY <2>6, <5>1 DEF LineageInv, RightsAreKnown
      <4>3. CASE v = w
        <5>1. d \in w.text /\ (base # None => d \notin base.text)
          BY <4>1, <4>3 DEF Brings
        <5>2. d = c
          BY <2>3, <5>1 DEF LineageInv, BaseHolds
        <5> QED
          BY <2>3, <2>4, <4>3, <5>2
      <4> QED
        BY <4>2, <4>3
    <3> QED
      BY <2>7, <2>10, <2>11, <3>2, <3>3 DEF LineageInv
  <2> QED
    BY <2>13, <2>14
<1> QED
  BY <1>1, <1>2

LEMMA LineageIsKept == IndInv /\ LineageInv /\ [Next]_vars => LineageInv'
<1> SUFFICES ASSUME IndInv, LineageInv, [Next]_vars PROVE LineageInv'
  OBVIOUS
<1>1. ASSUME NEW s \in Sessions,
             \/ Load(s) \/ SaveBegin(s) \/ SaveWrite(s)
             \/ Revise(s) \/ ReviseInsert(s)
             \/ AcceptBegin(s) \/ AcceptWrite(s)
             \/ JoinBegin(s) \/ JoinWrite(s)
      PROVE  LineageInv'
  BY <1>1, LoadKeepsLineage, SaveBeginKeepsLineage, SaveWriteKeepsLineage,
     ReviseKeepsLineage, ReviseInsertKeepsLineage, AcceptBeginKeepsLineage,
     AcceptWriteKeepsLineage, JoinKeepsLineage
<1>2. ASSUME NEW s \in Sessions, NEW c \in Contributions, AcceptRead(s, c)
      PROVE  LineageInv'
  BY <1>2, AcceptReadKeepsLineage
<1>3. CASE ConfirmImport
  BY <1>3, ConfirmKeepsLineage
<1>4. ASSUME NEW p \in Pushes, PushRead(p) \/ PushInsert(p) PROVE LineageInv'
  BY <1>4, PushesKeepLineage
<1>5. ASSUME NEW c \in Contributions, Submit(c) \/ Decide(c) PROVE LineageInv'
  BY <1>5, ContributionsKeepLineage
<1>6. ASSUME NEW u \in Users, Invite(u) \/ Revoke(u) PROVE LineageInv'
  BY <1>6, InvitationsKeepLineage
<1>7. CASE UNCHANGED vars
  <2>1. UNCHANGED <<draft, base, revisions, contribution, credited, lock, seen, request>>
    BY <1>7 DEF vars, server
  <2>2. RequestsAreExact'
    BY <2>1 DEF LineageInv, RequestsAreExact, Exact
  <2> QED
    BY <2>1, <2>2, TablesAlone
<1> QED
  BY <1>1, <1>2, <1>3, <1>4, <1>5, <1>6, <1>7 DEF Next

\* What a request is about to write, what the base holds and what is credited stay what
\* the lineage of revisions rests on.
THEOREM LineageInvariant == Spec => []LineageInv
<1> QED
  BY LineageBegins, LineageIsKept, DraftInvariant, PTL DEF Spec

\* What is in the draft of a contribution was accepted, and what was accepted is there.
THEOREM MergesAreAccepted == Spec => []MergedIsAccepted
<1>1. LineageInv => MergedIsAccepted
  BY DEF LineageInv
<1> QED
  BY <1>1, LineageInvariant, PTL

\* A revision written here holds all of its parent, and the draft all of its base.
THEOREM LineagesGrow == Spec => []LineageGrows
<1>1. LineageInv => LineageGrows
  BY DEF LineageInv
<1> QED
  BY <1>1, LineageInvariant, PTL

\* A revision written here credits every editor whose marks it carries.
THEOREM EveryWriterIsCredited == Spec => []WritersAreCredited
<1>1. LineageInv => WritersAreCredited
  BY DEF LineageInv
<1> QED
  BY <1>1, LineageInvariant, PTL

\* A contribution enters a revision under a license its author acknowledged.
THEOREM RightsAreAcknowledged == Spec => []RightsAcknowledged
<1>1. IndInv /\ LineageInv => RightsAcknowledged
  BY DEF IndInv, TypeOK, LineageInv, RightsAreKnown, Brings, RightsAcknowledged
<1> QED
  BY <1>1, LineageInvariant, DraftInvariant, PTL
=============================================================================
