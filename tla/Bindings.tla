------------------------------ MODULE Bindings ------------------------------
(***************************************************************************)
(* The binding of a creation to a GitHub repository, and the two ways      *)
(* GitHub reaches the registry: webhooks, which arrive late, twice, in any *)
(* order or never, and the request to publish that a workflow makes with a *)
(* token (github/events.ts, github/bindings.ts, api/routes/github-*.ts,    *)
(* oidc-publish.ts, worker/github.ts, worker/cleanup.ts, oidc/github.ts,   *)
(* github/jti.ts).                                                         *)
(*                                                                         *)
(* One creation: it has one row in source_bindings, which is used again    *)
(* when another repository is bound.  What GitHub answers was true when it *)
(* answered, one step before the registry writes.                          *)
(***************************************************************************)
EXTENDS Naturals, FiniteSets

CONSTANTS Repos,        \* repositories
          Owners,       \* GitHub accounts that own them
          FirstOwner,   \* [Repos -> Owners]
          Deliveries,   \* webhook deliveries, one for each transfer
          Authors,      \* concurrent requests of the creation's owner
          Runs,         \* workflow runs: each has one token
          Posts         \* requests to publish, of the runs and their retries

ASSUME BindingsAssumption ==
    FirstOwner \in [Repos -> Owners]

VARIABLES ownerOf,      \* GitHub: repository -> owner
          listed,       \* GitHub: the repositories the App can read
          hook,         \* delivery -> the repository.transferred event it carries
          binding,      \* source_bindings of the creation
          author,       \* a request of the owner between what GitHub said and its transaction
          scan,         \* github.reconcile: the owner it read of the bound repository
          token,        \* run -> the claims of its token
          jti,          \* oidc_jti: the tokens that are spent
          post,         \* request to publish -> where it is
          published     \* history: post -> the source of the release it asked for

github == <<ownerOf, listed, hook>>
workflow == <<token, jti, post, published>>
bindingsVars == <<github, binding, author, scan, workflow>>

None == [status |-> "none"]
Idle == [pc |-> "idle"]
Row == [status: {"active", "frozen", "unbound"}, repo: Repos, owner: Owners]

BindingsTypeOK ==
    /\ ownerOf \in [Repos -> Owners]
    /\ listed \in SUBSET Repos
    /\ hook \in [Deliveries -> [state: {"sent", "handled"}, repo: Repos] \cup {None}]
    /\ binding \in Row \cup {None}
    /\ author \in [Authors -> [pc: {"bind", "rebind", "unbind"}, repo: Repos, owner: Owners] \cup {Idle}]
    /\ scan \in [pc: {"rows", "listed"}, repo: Repos, owner: Owners] \cup {Idle}
    /\ token \in [Runs -> [state: {"valid", "expired"}, repo: Repos, owner: Owners] \cup {None}]
    /\ jti \in SUBSET Runs
    /\ post \in [Posts -> [pc: {"read", "claimed"}, run: Runs, row: Row] \cup {Idle, [pc |-> "done"]}]
    /\ published \in [Posts -> [run: Runs, repo: Repos, owner: Owners] \cup {None}]

BindingsInit ==
    /\ ownerOf = FirstOwner
    /\ listed = Repos
    /\ hook = [d \in Deliveries |-> None]
    /\ binding = None
    /\ author = [a \in Authors |-> Idle]
    /\ scan = Idle
    /\ token = [w \in Runs |-> None]
    /\ jti = {}
    /\ post = [p \in Posts |-> Idle]
    /\ published = [p \in Posts |-> None]

(***************************************************************************)
(* GitHub.                                                                 *)
(***************************************************************************)
\* A repository changes hands, and the App may lose sight of it.
Transfer(d, r, o) ==
    /\ hook[d] = None /\ ownerOf[r] # o
    /\ ownerOf' = [ownerOf EXCEPT ![r] = o]
    /\ listed' \in {listed, listed \ {r}}
    /\ hook' = [hook EXCEPT ![d] = [state |-> "sent", repo |-> r]]
    /\ UNCHANGED <<binding, author, scan, workflow>>

\* A workflow runs, and has a token that says of which repository and owner.
StartRun(w, r) ==
    /\ token[w] = None
    /\ token' = [token EXCEPT ![w] = [state |-> "valid", repo |-> r, owner |-> ownerOf[r]]]
    /\ UNCHANGED <<github, binding, author, scan, jti, post, published>>

\* It expires, the tolerance for clocks included.
Expire(w) ==
    /\ token[w] # None /\ token[w].state = "valid"
    /\ token' = [token EXCEPT ![w].state = "expired"]
    /\ UNCHANGED <<github, binding, author, scan, jti, post, published>>

(***************************************************************************)
(* Webhooks and reconciliation.                                            *)
(***************************************************************************)
Bound(r) == binding # None /\ binding.status # "unbound" /\ binding.repo = r
Freeze == binding' = [binding EXCEPT !.status = "frozen"]

\* INSERT of the delivery id ON CONFLICT DO NOTHING.
RecordDelivery(d) == hook[d].state = "sent"

\* applyWebhookEvent; GitHub may deliver again what was delivered.
Deliver(d) ==
    /\ hook[d] # None
    /\ hook' = [hook EXCEPT ![d].state = "handled"]
    /\ IF RecordDelivery(d) /\ Bound(hook[d].repo) THEN Freeze ELSE UNCHANGED binding
    /\ UNCHANGED <<ownerOf, listed, author, scan, workflow>>

\* github.reconcile reads the active bindings and then what the App can read now.
ScanRows ==
    /\ scan = Idle
    /\ binding # None /\ binding.status = "active"
    /\ scan' = [pc |-> "rows", repo |-> binding.repo, owner |-> binding.owner]
    /\ UNCHANGED <<github, binding, author, workflow>>

\* Mutant of ScanList: the comparison is the wrong way round.
ScanListSame ==
    /\ scan.pc = "rows"
    /\ scan' = IF scan.repo \in listed /\ ownerOf[scan.repo] = scan.owner
               THEN [pc |-> "listed", repo |-> scan.repo, owner |-> ownerOf[scan.repo]]
               ELSE Idle
    /\ UNCHANGED <<github, binding, author, workflow>>

\* What the App cannot read is left to be noted on the binding.
ScanList ==
    /\ scan.pc = "rows"
    /\ scan' = IF scan.repo \in listed /\ ownerOf[scan.repo] # scan.owner
               THEN [pc |-> "listed", repo |-> scan.repo, owner |-> ownerOf[scan.repo]]
               ELSE Idle
    /\ UNCHANGED <<github, binding, author, workflow>>

\* Mutant of ScanFreeze: what was read with the list decides.
ScanFreezeAnyway ==
    /\ scan.pc = "listed"
    /\ IF binding.status = "active" /\ binding.repo = scan.repo THEN Freeze ELSE UNCHANGED binding
    /\ scan' = Idle
    /\ UNCHANGED <<github, author, workflow>>

\* freezeOnOwnerMismatch looks at the row again.
ScanFreeze ==
    /\ scan.pc = "listed"
    /\ IF binding.status = "active" /\ binding.repo = scan.repo /\ binding.owner # scan.owner
       THEN Freeze ELSE UNCHANGED binding
    /\ scan' = Idle
    /\ UNCHANGED <<github, author, workflow>>

(***************************************************************************)
(* The creation's owner.                                                   *)
(***************************************************************************)
\* The repository to bind, or that of a frozen binding, is looked up at GitHub.
BindRead(a, r) ==
    /\ author[a] = Idle /\ r \in listed
    /\ author' = [author EXCEPT ![a] = [pc |-> "bind", repo |-> r, owner |-> ownerOf[r]]]
    /\ UNCHANGED <<github, binding, scan, workflow>>

RebindRead(a) ==
    /\ author[a] = Idle
    /\ binding # None /\ binding.status # "unbound" /\ binding.repo \in listed
    /\ author' = [author EXCEPT ![a] =
           [pc |-> "rebind", repo |-> binding.repo, owner |-> ownerOf[binding.repo]]]
    /\ UNCHANGED <<github, binding, scan, workflow>>

\* bindRepository: refused while the creation has another binding.
BindWrite(a) ==
    /\ author[a].pc = "bind"
    /\ binding' = IF binding = None \/ binding.status = "unbound"
                  THEN [status |-> "active", repo |-> author[a].repo, owner |-> author[a].owner]
                  ELSE binding
    /\ author' = [author EXCEPT ![a] = Idle]
    /\ UNCHANGED <<github, scan, workflow>>

\* resolveFrozenBinding: only of a frozen one; the row's repository is not looked at again.
RebindWrite(a) ==
    /\ author[a].pc = "rebind"
    /\ binding' = IF binding.status = "frozen"
                  THEN [binding EXCEPT !.status = "active", !.owner = author[a].owner]
                  ELSE binding
    /\ author' = [author EXCEPT ![a] = Idle]
    /\ UNCHANGED <<github, scan, workflow>>

\* DELETE writes what it decided to, whatever the row has become.  The resolution of a frozen
\* binding that gives it up does the same of a row that is still frozen.
UnbindRead(a) ==
    /\ author[a] = Idle
    /\ binding # None /\ binding.status # "unbound"
    /\ author' = [author EXCEPT ![a] =
           [pc |-> "unbind", repo |-> binding.repo, owner |-> binding.owner]]
    /\ UNCHANGED <<github, binding, scan, workflow>>

UnbindWrite(a) ==
    /\ author[a].pc = "unbind"
    /\ binding' = [binding EXCEPT !.status = "unbound"]
    /\ author' = [author EXCEPT ![a] = Idle]
    /\ UNCHANGED <<github, scan, workflow>>

(***************************************************************************)
(* Publishing with a token.                                                *)
(***************************************************************************)
\* The token is verified and the binding of its repository read.
PostRead(p, w) ==
    /\ post[p] = Idle
    /\ token[w] # None /\ token[w].state = "valid" /\ Bound(token[w].repo)
    /\ post' = [post EXCEPT ![p] = [pc |-> "read", run |-> w, row |-> binding]]
    /\ UNCHANGED <<github, binding, author, scan, token, jti, published>>

Finish(p) == post' = [post EXCEPT ![p] = [pc |-> "done"]]

\* Mutant of MatchBinding: a transferred repository is still the repository.
MatchRepository(claims, row) == row.status = "active" /\ row.repo = claims.repo

MatchBinding(claims, row) ==
    row.status = "active" /\ row.repo = claims.repo /\ row.owner = claims.owner

\* authenticateOidcPublish: the token again, the row that was read, and last the jti, with
\* INSERT ON CONFLICT DO NOTHING.
PostClaim(p) ==
    /\ post[p].pc = "read"
    /\ LET w == post[p].run
       IN /\ IF token[w].state = "valid" /\ MatchBinding(token[w], post[p].row) /\ w \notin jti
             THEN /\ jti' = jti \cup {w}
                  /\ post' = [post EXCEPT ![p].pc = "claimed"]
             ELSE Finish(p) /\ UNCHANGED jti
    /\ UNCHANGED <<github, binding, author, scan, token, published>>

\* The content of the commit is loaded with the App, a revision made and the release asked
\* for, with the row that was read; or one of these is refused.
PostPublish(p) ==
    /\ post[p].pc = "claimed"
    /\ \/ /\ post[p].row.repo \in listed
          /\ published' = [published EXCEPT ![p] =
                 [run |-> post[p].run, repo |-> post[p].row.repo, owner |-> post[p].row.owner]]
       \/ UNCHANGED published
    /\ Finish(p)
    /\ UNCHANGED <<github, binding, author, scan, token, jti>>

\* Mutant of Cleanup: the record of a token may go as soon as it is spent.
CleanupEarly(w) ==
    /\ w \in jti
    /\ jti' = jti \ {w}
    /\ UNCHANGED <<github, binding, author, scan, token, post, published>>

\* maintenance.cleanup forgets a token that can no longer be used.
Cleanup(w) ==
    /\ w \in jti /\ token[w].state = "expired"
    /\ jti' = jti \ {w}
    /\ UNCHANGED <<github, binding, author, scan, token, post, published>>

BindingsNext ==
    \/ \E d \in Deliveries : Deliver(d) \/ \E r \in Repos, o \in Owners : Transfer(d, r, o)
    \/ ScanRows \/ ScanList \/ ScanFreeze
    \/ \E a \in Authors : \/ RebindRead(a) \/ UnbindRead(a)
                          \/ BindWrite(a) \/ RebindWrite(a) \/ UnbindWrite(a)
                          \/ \E r \in Repos : BindRead(a, r)
    \/ \E w \in Runs : Expire(w) \/ Cleanup(w) \/ \E r \in Repos : StartRun(w, r)
    \/ \E p \in Posts : PostClaim(p) \/ PostPublish(p) \/ \E w \in Runs : PostRead(p, w)

BindingsSpec == BindingsInit /\ [][BindingsNext]_bindingsVars

\* The reconciliation is scheduled every six hours, and runs to its end.
BindingsFairness == WF_bindingsVars(ScanRows \/ ScanList \/ ScanFreeze)

BindingsLiveSpec == BindingsSpec /\ BindingsFairness

(***************************************************************************)
(* Properties.                                                             *)
(***************************************************************************)
Outdated == /\ binding # None /\ binding.status = "active" /\ binding.repo \in listed
            /\ binding.owner # ownerOf[binding.repo]

\* A binding does not stay active for an owner the repository no longer has, although the
\* webhook was lost, the author bound or confirmed with an answer GitHub gave before the
\* transfer, or a reconciliation compared an old list (events.ts:188-232, worker/github.ts).
TransferIsNoticed == Outdated ~> ~Outdated

\* A binding with the present owner is frozen in this step.
FrozenAgain ==
    /\ binding # None /\ binding'.status = "frozen"
    /\ binding.status = "active" /\ binding.owner = ownerOf[binding.repo]

\* A delivery that was not handled before, or a list from before another transfer.
NewsOfTransfer ==
    \/ \E d \in Deliveries : /\ hook[d] # None /\ hook[d].repo = binding.repo
                            /\ hook[d].state = "sent" /\ hook'[d].state = "handled"
    \/ scan.pc = "listed" /\ scan.owner # ownerOf[binding.repo]

\* What the author confirmed stands: a binding with the present owner is frozen again only
\* by news of a transfer, not by what was handled or decided before (events.ts:28-41, 188-222).
ConfirmedStands == [][FrozenAgain => NewsOfTransfer]_bindingsVars

\* A token is exchanged once, by whichever of its requests comes first, and also after the
\* record that it was is cleaned up (oidc/github.ts:340-355, worker/cleanup.ts:92-96).
TokenUsedOnce ==
    \A p, q \in Posts :
       /\ p # q
       /\ published[p] # None
       /\ published[q] # None
       => published[p].run # published[q].run

\* The source a release records, read from the binding, is the repository and the owner
\* GitHub attests in the token, although the binding changes while the request runs.
SourceIsAttested ==
    \A p \in Posts : published[p] # None =>
        /\ published[p].repo = token[published[p].run].repo
        /\ published[p].owner = token[published[p].run].owner
=============================================================================
