------------------------------- MODULE Staff -------------------------------
(***************************************************************************)
(* The staff of the registry: who is an owner, who may lift a ban, and the *)
(* operations that take two of them (admin/approvals.ts, admin/roles.ts,   *)
(* admin/routes/staff.ts, users.ts and tombstone.ts).                      *)
(*                                                                         *)
(* A request of the admin API works with the roles its middleware read     *)
(* when it came in.  A transaction locks the row it changes, and reads the *)
(* other rows as they were committed at that moment.  Roles are reduced to *)
(* `owner`, who can do everything, and `safety`, who can ban and unban.    *)
(***************************************************************************)
EXTENDS Naturals, FiniteSets

CONSTANTS People,       \* the accounts that have been staff
          Roles,        \* sets of roles a change of roles may give
          Founders,     \* the owners at the start
          Users,        \* the accounts that are ever banned, of staff or not
          Requests,     \* concurrent requests of the admin API
          Approvals,    \* bound: approvals ever asked for
          NoOne

ASSUME StaffAssumption ==
    /\ Founders \subseteq People
    /\ Roles \subseteq SUBSET {"owner", "safety"}
    /\ {{"owner"}, {}} \subseteq Roles
    /\ NoOne \notin Requests

VARIABLES roles,        \* auth_user.role of the staff
          account,      \* auth_user.banned and its reason
          approval,     \* staff_approvals
          rowLock,      \* person -> the request whose transaction holds the row
          session       \* the requests that are being handled

staffVars == <<roles, account, approval, rowLock, session>>

Absent == [state |-> "absent"]
Done == [pc |-> "idle"]

Kinds == {"staff.remove_owner", "unban.csam"}
Subject == People \cup Users

Approval == [state: {"pending", "confirmed", "cancelled"}, kind: Kinds, subject: Subject,
             gives: Roles \cup {{}}, by: People, others: BOOLEAN, cooled: BOOLEAN,
             decider: People \cup {NoOne}]

\* A request: who makes it, the roles they came in with, and what it has read.
Session ==
    [pc: {"in"}, who: People, as: Roles \ {{}}]
    \cup [pc: {"change", "write"}, who: People, as: Roles \ {{}}, target: People, gives: Roles,
          approval: Approvals \cup {NoOne}]

StaffTypeOK ==
    /\ roles \in [People -> Roles]
    /\ account \in [Users -> {"free", "banned", "csam"}]
    /\ approval \in [Approvals -> Approval \cup {Absent}]
    /\ rowLock \in [People -> Requests \cup {NoOne}]
    /\ session \in [Requests -> Session \cup {Done}]

StaffInit ==
    /\ roles = [p \in People |-> IF p \in Founders THEN {"owner"} ELSE {}]
    /\ account = [u \in Users |-> "free"]
    /\ approval = [a \in Approvals |-> Absent]
    /\ rowLock = [p \in People |-> NoOne]
    /\ session = [r \in Requests |-> Done]

Free(p) == p \in Users => account[p] = "free"

CanManage(rs) == "owner" \in rs
CanBan(rs) == rs \cap {"owner", "safety"} # {}
Confirms(kind, rs) == IF kind = "unban.csam" THEN CanBan(rs) ELSE CanManage(rs)

\* The middleware: anyone with a role who is not banned, and with the roles of that moment.
Enter(r, p) ==
    /\ session[r] = Done
    /\ Free(p)
    /\ roles[p] # {}
    /\ session' = [session EXCEPT ![r] = [pc |-> "in", who |-> p, as |-> roles[p]]]
    /\ UNCHANGED <<roles, account, approval, rowLock>>

In(r) == session[r].pc = "in"
Leave(r) == session' = [session EXCEPT ![r] = Done]

\* Is there someone else who could confirm, at the moment of the request.
OtherEligible(kind, p) ==
    \E q \in People \ {p} : Free(q) /\ Confirms(kind, roles[q])

Ask(a, kind, p, subject, gives) ==
    /\ approval[a] = Absent
    /\ approval' = [approval EXCEPT ![a] =
           [state |-> "pending", kind |-> kind, subject |-> subject, gives |-> gives, by |-> p,
            others |-> OtherEligible(kind, p), cooled |-> FALSE, decider |-> NoOne]]

(***************************************************************************)
(* Roles.                                                                  *)
(***************************************************************************)
\* PUT staff: the row is read without a lock to see whether an owner is being removed.
SetRoles(r, q, gives) ==
    /\ In(r) /\ CanManage(session[r].as)
    /\ IF "owner" \in roles[q] /\ "owner" \notin gives
       THEN /\ \E a \in Approvals : Ask(a, "staff.remove_owner", session[r].who, q, gives)
            /\ Leave(r)
       ELSE /\ session' = [session EXCEPT ![r] =
                   [pc |-> "change", who |-> @.who, as |-> @.as, target |-> q, gives |-> gives,
                    approval |-> NoOne]]
            /\ UNCHANGED approval
    /\ UNCHANGED <<roles, account, rowLock>>

\* executeRoleChange locks the row of the target and counts the other owners as they
\* are committed now; without one, the whole transaction is rolled back.
ChangeRoles(r) ==
    /\ session[r].pc = "change"
    /\ LET q == session[r].target
       IN /\ rowLock[q] = NoOne
          /\ IF /\ "owner" \in roles[q] /\ "owner" \notin session[r].gives
                /\ \A p \in People \ {q} : "owner" \notin roles[p]
             THEN Leave(r) /\ UNCHANGED rowLock
             ELSE /\ rowLock' = [rowLock EXCEPT ![q] = r]
                  /\ session' = [session EXCEPT ![r].pc = "write"]
    /\ UNCHANGED <<roles, account, approval>>

Decide(a, state, p) ==
    approval' = [approval EXCEPT ![a].state = state, ![a].decider = p]

\* The transaction commits: the roles, and with them the approval they were waiting for.
WriteRoles(r) ==
    /\ session[r].pc = "write"
    /\ LET s == session[r]
       IN /\ roles' = [roles EXCEPT ![s.target] = s.gives]
          /\ rowLock' = [rowLock EXCEPT ![s.target] = NoOne]
          /\ IF s.approval = NoOne THEN UNCHANGED approval
             ELSE Decide(s.approval, "confirmed", s.who)
    /\ Leave(r)
    /\ UNCHANGED account

(***************************************************************************)
(* Approvals.                                                              *)
(***************************************************************************)
\* Mutant of Confirming: the row is read without a lock.
ConfirmingUnlocked(a) == FALSE

\* The confirming transaction holds the approval's row.
Confirming(a) == \E r \in Requests : session[r].pc \in {"change", "write"} /\ session[r].approval = a

\* Someone else confirms; alone, the initiator after the cooling-off period.
MayConfirm(a, p) == p # approval[a].by \/ (~approval[a].others /\ approval[a].cooled)

Open(r, a) == In(r) /\ approval[a].state = "pending" /\ ~Confirming(a)

Confirm(r, a) ==
    /\ Open(r, a)
    /\ LET p == session[r].who
           q == approval[a].subject
       IN /\ Confirms(approval[a].kind, session[r].as)
          /\ MayConfirm(a, p)
          /\ IF approval[a].kind = "unban.csam"
             THEN /\ account' = [account EXCEPT ![q] = "free"]
                  /\ Decide(a, "confirmed", p)
                  /\ Leave(r)
             ELSE /\ session' = [session EXCEPT ![r] =
                         [pc |-> "change", who |-> p, as |-> @.as, target |-> q,
                          gives |-> approval[a].gives, approval |-> a]]
                  /\ UNCHANGED <<account, approval>>
    /\ UNCHANGED <<roles, rowLock>>

Cancel(r, a) ==
    /\ Open(r, a)
    /\ \/ approval[a].by = session[r].who
       \/ Confirms(approval[a].kind, session[r].as)
    /\ Decide(a, "cancelled", session[r].who)
    /\ Leave(r)
    /\ UNCHANGED <<roles, account, rowLock>>

\* Twenty-four hours pass.
CoolOff(a) ==
    /\ approval[a].state = "pending" /\ ~approval[a].cooled
    /\ approval' = [approval EXCEPT ![a].cooled = TRUE]
    /\ UNCHANGED <<roles, account, rowLock, session>>

(***************************************************************************)
(* Bans.                                                                   *)
(***************************************************************************)
\* Mutant of Ban: an ordinary ban replaces the lock.
BanAnyone(r, u) ==
    /\ In(r) /\ CanBan(session[r].as)
    /\ u # session[r].who
    /\ account' = [account EXCEPT ![u] = "banned"]
    /\ Leave(r)
    /\ UNCHANGED <<roles, approval, rowLock>>

\* An ordinary ban does not replace the lock of a match.
Ban(r, u) ==
    /\ In(r) /\ CanBan(session[r].as)
    /\ u # session[r].who /\ account[u] # "csam"
    /\ account' = [account EXCEPT ![u] = "banned"]
    /\ Leave(r)
    /\ UNCHANGED <<roles, approval, rowLock>>

\* The ban is lifted, or, of a match, its lifting is asked for.
Unban(r, u) ==
    /\ In(r) /\ CanBan(session[r].as)
    /\ \/ /\ account[u] = "banned"
          /\ account' = [account EXCEPT ![u] = "free"]
          /\ UNCHANGED approval
       \/ /\ account[u] = "csam"
          /\ \E a \in Approvals : Ask(a, "unban.csam", session[r].who, u, {})
          /\ UNCHANGED account
    /\ Leave(r)
    /\ UNCHANGED <<roles, rowLock>>

\* handleCsamHit bans the owner of a matched upload.
Match(u) ==
    /\ account[u] # "csam"
    /\ account' = [account EXCEPT ![u] = "csam"]
    /\ UNCHANGED <<roles, approval, rowLock, session>>

StaffNext ==
    \/ \E r \in Requests :
          \/ \E p \in People : Enter(r, p)
          \/ \E q \in People, gives \in Roles : SetRoles(r, q, gives)
          \/ ChangeRoles(r) \/ WriteRoles(r)
          \/ \E a \in Approvals : Confirm(r, a) \/ Cancel(r, a)
          \/ \E u \in Users : Ban(r, u) \/ Unban(r, u)
    \/ \E a \in Approvals : CoolOff(a)
    \/ \E u \in Users : Match(u)

StaffSpec == StaffInit /\ [][StaffNext]_staffVars

(***************************************************************************)
(* Properties.                                                             *)
(***************************************************************************)
\* Signed(a): in this step somebody else confirmed it, or the one who asked did, when
\* nobody else could have and the cooling-off period was over.
Signed(a) ==
    /\ approval[a].state = "pending" /\ approval'[a].state = "confirmed"
    /\ \/ approval'[a].decider # approval[a].by
       \/ ~approval[a].others /\ approval[a].cooled

\* The lock a match puts on an account is lifted, or turned into an ordinary ban, only with
\* an approval of it that two people signed, whatever ban, unban, match and confirmation
\* come in whatever order (users.ts ban and unban, approvals.ts lockForConfirm).
LockIsLiftedByTwo ==
    [][\A u \in Users : account[u] = "csam" /\ account'[u] # "csam" =>
          \E a \in Approvals : /\ Signed(a)
                             /\ approval[a].kind = "unban.csam"
                             /\ approval[a].subject = u]_staffVars

\* An approval is decided once: a cancellation that arrives while a confirmation is
\* executing does not leave it both cancelled and carried out (lockForConfirm, cancel).
DecidedOnce ==
    [][\A a \in Approvals :
          /\ approval[a].state \in {"confirmed", "cancelled"} => approval'[a] = approval[a]
          /\ approval[a].state = "pending" /\ approval'[a].state = "confirmed" => Signed(a)]_staffVars

\* staff.ts:5-6: removing an owner takes two of them, and at least one owner remains.
OwnerRemains == Founders # {} => \E p \in People : "owner" \in roles[p]
=============================================================================
