------------------------------- MODULE Drafts -------------------------------
(***************************************************************************)
(* One creation while it is written: the draft and its versions            *)
(* (api/routes/drafts.ts), the revisions made of it (registry/publish.ts), *)
(* the contributions merged into it (registry/contributions.ts), the       *)
(* collaborators who may edit it (api/routes/collaborators.ts), the        *)
(* revisions a bound repository pushes (api/routes/oidc-publish.ts) and    *)
(* the terms confirmed after an import (api/routes/imports.ts).            *)
(*                                                                         *)
(* A working copy is the set of marks left in it, one of each session and  *)
(* contribution, and its license: what an edit lost is a mark that is      *)
(* gone.  A revision is known by its content, as it is by its digest.      *)
(***************************************************************************)
EXTENDS Naturals, FiniteSets

CONSTANTS Sessions,      \* editors and their tabs: one request at a time each
          Owner,
          Users,         \* the users the sessions belong to
          UserOf,        \* session -> user
          Contributions,
          Proposals,     \* what a contribution may say of licenses: the one it proposes,
                         \* or "same", and those its author's acknowledgement covers
          Pushes,        \* publish requests of the bound repository
          Pushed,        \* push -> the content at its commit
          Licenses,
          MaxVersion,    \* bound: versions of the draft
          None

Working == [text: SUBSET (Sessions \cup Contributions), license: Licenses]

ASSUME DraftsAssumption ==
    /\ Owner \in Users /\ UserOf \in [Sessions -> Users]
    /\ Proposals \subseteq [license: Licenses \cup {"same"}, covers: SUBSET Licenses]
    /\ "same" \notin Licenses
    /\ Pushed \in [Pushes -> Working]
    /\ MaxVersion \in Nat \ {0}
    /\ None \notin Sessions /\ \A w \in Working : w # None
    /\ Sessions \cap Contributions = {}

VARIABLES
    draft,          \* creation_drafts: version and working
    base,           \* creation_drafts.base_revision_id
    head,           \* creations.head_revision_id
    revisions,      \* content -> its row, of the contents that have one
    contribution,   \* contributions, or NoRow: status, base revision and proposal
    collab,         \* creation_collaborators: a row of each user, or NoRow
    credited,       \* creation_contributors
    confirmed,      \* the terms of the import this creation comes from are confirmed
    lock,           \* the session that holds the creation row FOR UPDATE, or None
    seen,           \* what each session has loaded, or Unseen
    request,        \* the request of each session
    push,           \* the head each push has read
    terms,          \* history: changes of the draft's license
    consent         \* history: the terms each user accepted last

server == <<draft, base, head, revisions, contribution, collab, credited, confirmed>>
history == <<terms, consent>>
vars == <<server, lock, seen, request, push, history>>

NoRow == [row |-> "none"]
Unseen == [version |-> 0]
Quiet == [op |-> "none"]
Contents == Working \cup {None}

Row == [by: {"user", "contribution", "source"}, parent: Contents, credits: SUBSET Users]
Contribution == [status: {"open", "accepted", "rejected"}, base: Working, says: Proposals]
Collaborator == [row: {"row"}, accepted: BOOLEAN, license: Licenses]
View == [version: 1..MaxVersion, working: Working]

Request ==
    [op: {"save"}, expected: 1..(MaxVersion - 1), working: Working]
    \cup [op: {"merge", "accept"}, contribution: Contributions, expected: 1..(MaxVersion - 1),
          working: Working]
    \cup [op: {"revise"}, working: Working, parent: Contents]
    \cup [op: {"join"}]

TypeOK ==
    /\ draft \in View
    /\ base \in Contents /\ head \in Contents
    /\ DOMAIN revisions \subseteq Working
    /\ \A w \in DOMAIN revisions : revisions[w] \in Row
    /\ contribution \in [Contributions -> Contribution \cup {NoRow}]
    /\ collab \in [Users -> Collaborator \cup {NoRow}]
    /\ credited \subseteq Users
    /\ confirmed \in BOOLEAN
    /\ lock \in Sessions \cup {None}
    /\ seen \in [Sessions -> View \cup {Unseen}]
    /\ request \in [Sessions -> Request \cup {Quiet}]
    /\ push \in [Pushes -> [state: {"new", "read", "done"}, head: Contents]]
    /\ terms \in Nat
    /\ consent \in [Users -> Nat]

Init ==
    /\ \E l \in Licenses : draft = [version |-> 1, working |-> [text |-> {}, license |-> l]]
    /\ confirmed = FALSE
    /\ base = None /\ head = None
    /\ revisions = [w \in {} |-> NoRow]
    /\ contribution = [c \in Contributions |-> NoRow]
    /\ collab = [u \in Users |-> NoRow]
    /\ credited = {}
    /\ lock = None
    /\ seen = [s \in Sessions |-> Unseen]
    /\ request = [s \in Sessions |-> Quiet]
    /\ push = [p \in Pushes |-> [state |-> "new", head |-> None]]
    /\ terms = 0
    /\ consent = [u \in Users |-> 0]

(***************************************************************************)
(* Who may edit.                                                           *)
(***************************************************************************)
License == draft.working.license

\* A collaborator counts while what they accepted is the license of the draft.
Active(u) == /\ collab[u] # NoRow
             /\ collab[u].accepted
             /\ collab[u].license = License

MayEdit(u) == u = Owner \/ Active(u)

\* Owner fields are not for a collaborator to change.
MayWrite(u, w) == u = Owner \/ w.license = License

(***************************************************************************)
(* Requests that hold the creation row: they start by waiting for it.      *)
(***************************************************************************)
Begin(s, r) ==
    /\ request[s] = Quiet /\ lock = None
    /\ lock' = s
    /\ request' = [request EXCEPT ![s] = r]
    /\ UNCHANGED <<server, seen, push, history>>

End(s) == /\ lock' = None
          /\ request' = [request EXCEPT ![s] = Quiet]

Doing(s, op) == lock = s /\ request[s].op = op

\* The request ends without an effect: a 4xx, or a transaction rolled back.
Refuse(s) == End(s) /\ UNCHANGED <<server, seen, push, history>>

(***************************************************************************)
(* The draft.                                                              *)
(***************************************************************************)
\* A session loads the draft.
Load(s) ==
    /\ request[s] = Quiet
    /\ MayEdit(UserOf[s])
    /\ seen' = [seen EXCEPT ![s] = draft]
    /\ UNCHANGED <<server, lock, request, push, history>>

\* A session saves what it has seen with its own mark, and maybe another license.
SaveBegin(s) ==
    /\ seen[s] # Unseen
    /\ seen[s].version < MaxVersion
    /\ MayEdit(UserOf[s])
    /\ \E l \in Licenses :
           Begin(s, [op |-> "save", expected |-> seen[s].version,
                     working |-> [text |-> seen[s].working.text \cup {s}, license |-> l]])

\* Another license ends what every collaborator accepted.
Reset(l) ==
    collab' = IF l = License THEN collab
              ELSE [u \in Users |->
                       IF collab[u] = NoRow THEN NoRow
                       ELSE [row |-> "row", accepted |-> FALSE, license |-> l]]

NewTerms(l) == terms' = IF l = License THEN terms ELSE terms + 1

\* Mutant of Write: the version stays.
WriteInPlace(w) == draft' = [draft EXCEPT !.working = w]

Write(w) == draft' = [version |-> draft.version + 1, working |-> w]

\* Mutant of Credit: nobody is.
CreditNobody(u, w) == credited' = credited

\* An editor who is not the owner, and changed something, is credited.
Credit(u, w) ==
    credited' = IF u # Owner /\ w # draft.working THEN credited \cup {u} ELSE credited

\* The response carries the new version, unless it is lost.
SaveWrite(s) ==
    /\ Doing(s, "save")
    /\ LET r == request[s] IN
       IF r.expected = draft.version /\ MayWrite(UserOf[s], r.working)
       THEN /\ Write(r.working)
            /\ Reset(r.working.license) /\ NewTerms(r.working.license)
            /\ Credit(UserOf[s], r.working)
            /\ \/ UNCHANGED seen
               \/ seen' = [seen EXCEPT ![s] = draft']
            /\ End(s)
            /\ UNCHANGED <<base, head, revisions, contribution, confirmed, push, consent>>
       ELSE Refuse(s)

\* The importer's owner states the terms of an imported draft: no creation lock,
\* no version to match, and nobody's acceptance is reset.
ConfirmImport ==
    /\ ~confirmed
    /\ draft.version < MaxVersion
    /\ confirmed' = TRUE
    /\ \E l \in Licenses : /\ Write([draft.working EXCEPT !.license = l])
                           /\ NewTerms(l)
    /\ UNCHANGED <<base, head, revisions, contribution, collab, credited, lock, seen,
                   request, push, consent>>

(***************************************************************************)
(* Revisions.                                                              *)
(***************************************************************************)
Known(w) == w \in DOMAIN revisions

NewRevision(w, by, parent, credits) ==
    revisions' = [v \in DOMAIN revisions \cup {w} |->
        IF v = w THEN [by |-> by, parent |-> parent, credits |-> credits] ELSE revisions[v]]

\* Mutant of Revise: the parent is the creation's head.
ReviseHead(s) ==
    /\ MayEdit(UserOf[s])
    /\ Begin(s, [op |-> "revise", working |-> draft.working, parent |-> head])

\* The draft is read under the creation lock, without its own row being locked.
Revise(s) ==
    /\ MayEdit(UserOf[s])
    /\ Begin(s, [op |-> "revise", working |-> draft.working, parent |-> base])

\* Content that has a revision already gets no other, and moves nothing.
ReviseInsert(s) ==
    /\ Doing(s, "revise")
    /\ LET r == request[s] IN
       IF Known(r.working) THEN Refuse(s)
       ELSE /\ NewRevision(r.working, "user", r.parent, credited)
            /\ head' = r.working /\ base' = r.working
            /\ End(s)
            /\ UNCHANGED <<draft, contribution, collab, credited, confirmed, seen, push, history>>

\* A push of the repository reads the head, and later inserts its content after it.
PushRead(p) ==
    /\ push[p].state = "new"
    /\ push' = [push EXCEPT ![p] = [state |-> "read", head |-> head]]
    /\ UNCHANGED <<server, lock, seen, request, history>>

\* The insert touches the creation row, so it waits for who holds it.
PushInsert(p) ==
    /\ push[p].state = "read" /\ lock = None
    /\ push' = [push EXCEPT ![p].state = "done"]
    /\ IF Known(Pushed[p]) THEN UNCHANGED <<revisions, head>>
       ELSE /\ NewRevision(Pushed[p], "source", push[p].head, {})
            /\ head' = Pushed[p]
    /\ UNCHANGED <<draft, base, contribution, collab, credited, confirmed, lock, seen,
                   request, history>>

(***************************************************************************)
(* Contributions.                                                          *)
(***************************************************************************)
\* Anyone proposes changes to a revision; the draft's license must be acknowledged.
Submit(c) ==
    /\ lock = None
    /\ contribution[c] = NoRow
    /\ \E w \in DOMAIN revisions, p \in Proposals :
           /\ License \in p.covers
           /\ contribution' = [contribution EXCEPT ![c] =
                  [status |-> "open", base |-> w, says |-> p]]
    /\ UNCHANGED <<draft, base, head, revisions, collab, credited, confirmed, lock, seen,
                   request, push, history>>

\* The license a contribution leads to: a change of it conflicts with another change.
MergedLicense(c) == LET l == contribution[c].says.license IN IF l = "same" THEN License ELSE l
Conflicts(c) == License \notin {MergedLicense(c), contribution[c].base.license}
Merged(c) == [text |-> draft.working.text \cup {c}, license |-> MergedLicense(c)]

\* Mutant of AcceptRead: what was acknowledged when it was submitted is not compared again.
AcceptReadUnasked(s, c) ==
    /\ request[s] = Quiet
    /\ contribution[c] # NoRow
    /\ draft.version < MaxVersion
    /\ MayEdit(UserOf[s])
    /\ ~Conflicts(c)
    /\ request' = [request EXCEPT ![s] =
           [op |-> "merge", contribution |-> c, expected |-> draft.version, working |-> Merged(c)]]
    /\ UNCHANGED <<server, lock, seen, push, history>>

\* The merge is computed from a draft read without any lock.
AcceptRead(s, c) ==
    /\ request[s] = Quiet
    /\ contribution[c] # NoRow
    /\ draft.version < MaxVersion
    /\ MayEdit(UserOf[s])
    /\ ~Conflicts(c)
    /\ MergedLicense(c) \in contribution[c].says.covers
    /\ request' = [request EXCEPT ![s] =
           [op |-> "merge", contribution |-> c, expected |-> draft.version, working |-> Merged(c)]]
    /\ UNCHANGED <<server, lock, seen, push, history>>

\* Mutant of AcceptBegin: who could edit when the request came in still may.
AcceptBeginUnasked(s) ==
    /\ request[s].op = "merge" /\ lock = None
    /\ lock' = s
    /\ request' = [request EXCEPT ![s].op = "accept"]
    /\ UNCHANGED <<server, seen, push, history>>

\* The transaction takes the creation row and looks up the editor again.
AcceptBegin(s) ==
    /\ request[s].op = "merge" /\ lock = None
    /\ IF MayEdit(UserOf[s])
       THEN /\ lock' = s
            /\ request' = [request EXCEPT ![s].op = "accept"]
            /\ UNCHANGED <<server, seen, push, history>>
       ELSE Refuse(s)

\* Mutant of AcceptWrite: the update that finds the contribution decided is not an error.
AcceptWriteDecided(s) ==
    /\ Doing(s, "accept")
    /\ LET r == request[s]
           w == r.working
           u == UserOf[s]
       IN IF r.expected = draft.version /\ MayWrite(u, w)
          THEN /\ Write(w) /\ Reset(w.license) /\ NewTerms(w.license)
               /\ credited' = IF u = Owner THEN credited ELSE credited \cup {u}
               /\ IF Known(w) THEN UNCHANGED revisions
                  ELSE NewRevision(w, "contribution", base, credited')
               /\ base' = w /\ head' = w
               /\ contribution' = [contribution EXCEPT ![r.contribution].status =
                      IF @ = "open" THEN "accepted" ELSE @]
               /\ End(s)
               /\ UNCHANGED <<confirmed, seen, push, consent>>
          ELSE Refuse(s)

AcceptWrite(s) ==
    /\ Doing(s, "accept")
    /\ LET r == request[s]
           w == r.working
           u == UserOf[s]
       IN IF /\ r.expected = draft.version
             /\ MayWrite(u, w)
             /\ contribution[r.contribution].status = "open"
          THEN /\ Write(w) /\ Reset(w.license) /\ NewTerms(w.license)
               /\ credited' = IF u = Owner THEN credited ELSE credited \cup {u}
               /\ IF Known(w) THEN UNCHANGED revisions
                  ELSE NewRevision(w, "contribution", base, credited')
               /\ base' = w /\ head' = w
               /\ contribution' = [contribution EXCEPT ![r.contribution].status = "accepted"]
               /\ End(s)
               /\ UNCHANGED <<confirmed, seen, push, consent>>
          ELSE Refuse(s)

\* An editor rejects a contribution, or its author withdraws it.
Decide(c) ==
    /\ lock = None
    /\ contribution[c] # NoRow /\ contribution[c].status = "open"
    /\ contribution' = [contribution EXCEPT ![c].status = "rejected"]
    /\ UNCHANGED <<draft, base, head, revisions, collab, credited, confirmed, lock, seen,
                   request, push, history>>

(***************************************************************************)
(* Collaborators.                                                          *)
(***************************************************************************)
\* An invitation of someone who has a row for this license changes nothing.
Invite(u) ==
    /\ lock = None /\ u # Owner
    /\ collab[u] # NoRow => collab[u].license # License
    /\ collab' = [collab EXCEPT ![u] =
           [row |-> "row", accepted |-> FALSE, license |-> License]]
    /\ UNCHANGED <<draft, base, head, revisions, contribution, credited, confirmed, lock,
                   seen, request, push, history>>

Revoke(u) ==
    /\ lock = None
    /\ collab[u] # NoRow
    /\ collab' = [collab EXCEPT ![u] = NoRow]
    /\ UNCHANGED <<draft, base, head, revisions, contribution, credited, confirmed, lock,
                   seen, request, push, history>>

\* The user accepts the license of the draft, read under the creation lock only.
JoinBegin(s) ==
    /\ request[s] = Quiet /\ lock = None
    /\ collab[UserOf[s]] # NoRow
    /\ collab[UserOf[s]].license = License
    /\ lock' = s
    /\ request' = [request EXCEPT ![s] = [op |-> "join"]]
    /\ consent' = [consent EXCEPT ![UserOf[s]] = terms]
    /\ UNCHANGED <<server, seen, push, terms>>

JoinWrite(s) ==
    /\ Doing(s, "join")
    /\ collab' = [collab EXCEPT ![UserOf[s]].accepted = TRUE]
    /\ End(s)
    /\ UNCHANGED <<draft, base, head, revisions, contribution, credited, confirmed, seen,
                   push, history>>

Next ==
    \/ \E s \in Sessions :
          \/ Load(s) \/ SaveBegin(s) \/ SaveWrite(s)
          \/ Revise(s) \/ ReviseInsert(s)
          \/ \E c \in Contributions : AcceptRead(s, c)
          \/ AcceptBegin(s) \/ AcceptWrite(s)
          \/ JoinBegin(s) \/ JoinWrite(s)
    \/ ConfirmImport
    \/ \E p \in Pushes : PushRead(p) \/ PushInsert(p)
    \/ \E c \in Contributions : Submit(c) \/ Decide(c)
    \/ \E u \in Users : Invite(u) \/ Revoke(u)

Spec == Init /\ [][Next]_vars

(***************************************************************************)
(* Properties.                                                             *)
(***************************************************************************)
\* No save and no merge throws away what another one wrote: the version a client sends
\* and the version a merge read stand for the whole draft they were made from.
NothingIsLost == [][draft.working.text \subseteq draft'.working.text]_vars

\* Who writes, other than the owner, is a collaborator who accepted the very terms the
\* draft has at that moment, however long ago the request was let in.
WritersConsented ==
    [][\A s \in Sessions :
          request[s].op \in {"save", "accept"} /\ draft' # draft /\ request'[s] = Quiet
          => \/ UserOf[s] = Owner
             \/ Active(UserOf[s]) /\ consent[UserOf[s]] = terms]_vars

\* An acceptance counts for the terms it was given to: when the draft's license has gone
\* to another and come back, no collaborator is active without having accepted again.
ConsentIsFresh == \A u \in Users : Active(u) => consent[u] = terms

\* What is in the draft of a contribution is there because it was accepted, and an
\* accepted one is there: rejecting, withdrawing and accepting race for one answer.
MergedIsAccepted ==
    \A c \in Contributions :
        c \in draft.working.text
        <=> contribution[c] # NoRow /\ contribution[c].status = "accepted"

\* The draft holds all of its base, and a revision written here holds all of its parent,
\* whatever the repository pushed in between.
LineageGrows ==
    /\ base # None => base.text \subseteq draft.working.text
    /\ \A w \in DOMAIN revisions :
          revisions[w].by # "source" /\ revisions[w].parent # None
          => revisions[w].parent.text \subseteq w.text

\* A revision written here credits every editor whose marks it carries.
WritersAreCredited ==
    \A w \in DOMAIN revisions :
        revisions[w].by # "source"
        => {UserOf[s] : s \in w.text \cap Sessions} \ {Owner} \subseteq revisions[w].credits

\* A contribution becomes part of a revision under a license its author acknowledged,
\* though the draft's license may change after it was submitted.
RightsAcknowledged ==
    \A w \in DOMAIN revisions : \A c \in w.text \cap Contributions :
        (/\ revisions[w].by = "contribution"
         /\ revisions[w].parent # None => c \notin revisions[w].parent.text)
        => w.license \in contribution[c].says.covers

\* The sights of the present draft: what a session holds, and what a merge was computed from.
Sights ==
    {<<s, "edit">> : s \in {t \in Sessions : seen[t].version = draft.version}}
    \cup {<<s, "merge">> : s \in {t \in Sessions :
               /\ request[t].op \in {"merge", "accept"}
               /\ request[t].expected = draft.version}}

Register == INSTANCE DraftRegister
            WITH Values <- Working, Viewers <- Sessions \X {"edit", "merge"},
                 value <- draft.working, links <- Sights

\* The draft is a register written only by who has seen its present value.
ImplementsRegister == Register!Spec
=============================================================================
