----------------------------- MODULE StaffProofs -----------------------------
(***************************************************************************)
(* Theorems about Staff, for any staff, users, requests and approvals.     *)
(***************************************************************************)
EXTENDS Staff, TLAPS
-----------------------------------------------------------------------------
(***************************************************************************)
(* The inductive invariant: a request that executes an approval is the     *)
(* only one, the approval is still pending, and it may confirm it.         *)
(***************************************************************************)

Executes(r, a) == session[r].pc \in {"change", "write"} /\ session[r].approval = a

ExecutorsMay ==
    \A r \in Requests, a \in Approvals \ {NoOne} :
        Executes(r, a) => approval[a].state = "pending" /\ MayConfirm(a, session[r].who)

ExecutorsAreAlone ==
    \A q, r \in Requests, a \in Approvals \ {NoOne} : Executes(q, a) /\ Executes(r, a) => q = r

RolesAreOfStaff ==
    \A a \in Approvals :
        approval[a] # Absent /\ approval[a].kind = "staff.remove_owner" => approval[a].subject \in People

StaffInv ==
    /\ StaffTypeOK
    /\ ExecutorsMay
    /\ ExecutorsAreAlone
    /\ RolesAreOfStaff
-----------------------------------------------------------------------------
(***************************************************************************)
(* The records of requests and approvals.                                  *)
(***************************************************************************)
Visitor == [pc: {"in"}, who: People, as: Roles \ {{}}]
Changer == [pc: {"change", "write"}, who: People, as: Roles \ {{}}, target: People, gives: Roles,
            approval: Approvals \cup {NoOne}]

LEMMA SessionsByKind ==
    ASSUME StaffTypeOK, NEW r \in Requests
    PROVE  /\ session[r] \in Visitor \/ session[r] \in Changer \/ session[r] = Done
           /\ session[r].pc = "in" => session[r] \in Visitor
           /\ session[r].pc \in {"change", "write"} => session[r] \in Changer
           /\ session \in [Requests -> Session \cup {Done}]
BY DEF StaffTypeOK, Session, Visitor, Changer, Done

LEMMA ApprovalsByKind ==
    ASSUME StaffTypeOK, NEW a \in Approvals
    PROVE  /\ approval[a] \in Approval \/ approval[a] = Absent
           /\ approval[a].state \in {"pending", "confirmed", "cancelled"} => approval[a] \in Approval
           /\ approval[a] \in Approval => approval[a] # Absent
           /\ approval \in [Approvals -> Approval \cup {Absent}]
BY DEF StaffTypeOK, Approval, Absent
-----------------------------------------------------------------------------
LEMMA InitHolds == StaffInit => StaffInv
<1> SUFFICES ASSUME StaffInit PROVE StaffInv
  OBVIOUS
<1> USE StaffAssumption DEF StaffInit
<1>1. StaffTypeOK
  BY DEF StaffTypeOK
<1> QED
  BY <1>1 DEF StaffInv, ExecutorsMay, ExecutorsAreAlone, RolesAreOfStaff, Executes, Done
-----------------------------------------------------------------------------
(***************************************************************************)
(* A request goes on without an approval, and a table of approvals changes *)
(* where nobody executes.                                                  *)
(***************************************************************************)
LEMMA SessionMoves ==
    ASSUME StaffInv, NEW r \in Requests, NEW x \in Session \cup {Done},
           session' = [session EXCEPT ![r] = x],
           UNCHANGED <<roles, account, approval>>,
           rowLock' \in [People -> Requests \cup {NoOne}],
           x.pc \in {"change", "write"} =>
               \A a \in Approvals \ {NoOne} : x.approval = a =>
                  /\ approval[a].state = "pending" /\ MayConfirm(a, x.who)
                  /\ \A q \in Requests \ {r} : ~Executes(q, a)
    PROVE  StaffInv'
<1> USE DEF StaffInv
<1>1. StaffTypeOK'
  BY DEF StaffTypeOK
<1>2. session'[r] = x /\ \A q \in Requests \ {r} : session'[q] = session[q]
  BY SessionsByKind
<1>3. /\ \A q \in Requests \ {r}, a \in Approvals : Executes(q, a)' <=> Executes(q, a)
      /\ \A a \in Approvals \ {NoOne} : Executes(r, a)' =>
            /\ approval[a].state = "pending" /\ MayConfirm(a, x.who)
            /\ \A q \in Requests \ {r} : ~Executes(q, a)
  BY <1>2 DEF Executes
<1>4. ExecutorsMay'
  BY <1>2, <1>3 DEF ExecutorsMay, MayConfirm
<1>5. ExecutorsAreAlone'
  BY <1>3 DEF ExecutorsAreAlone
<1>6. RolesAreOfStaff'
  BY DEF RolesAreOfStaff
<1> QED
  BY <1>1, <1>4, <1>5, <1>6

LEMMA Leaving ==
    ASSUME NEW r
    PROVE  Done \in Session \cup {Done} /\ Done.pc \notin {"change", "write", "in"}
BY DEF Done

LEMMA EnterKeeps ==
    ASSUME StaffInv, NEW r \in Requests, NEW p \in People, Enter(r, p)
    PROVE  StaffInv'
<1> DEFINE x == [pc |-> "in", who |-> p, as |-> roles[p]]
<1>1. x \in Session /\ x.pc = "in" /\ session' = [session EXCEPT ![r] = x]
  BY DEF Enter, StaffInv, StaffTypeOK, Session
<1> HIDE DEF x
<1>2. rowLock' \in [People -> Requests \cup {NoOne}]
  BY DEF Enter, StaffInv, StaffTypeOK
<1> QED
  BY <1>1, <1>2, SessionMoves DEF Enter

LEMMA ChangeRolesKeeps ==
    ASSUME StaffInv, NEW r \in Requests, ChangeRoles(r)
    PROVE  StaffInv'
<1>1. session[r] \in Changer
  BY SessionsByKind DEF ChangeRoles, StaffInv
<1>2. rowLock' \in [People -> Requests \cup {NoOne}]
  BY <1>1 DEF ChangeRoles, StaffInv, StaffTypeOK, Leave
<1>3. CASE Leave(r)
  BY <1>2, <1>3, Leaving, SessionMoves DEF ChangeRoles, Leave
<1>4. CASE session' = [session EXCEPT ![r].pc = "write"]
  <2> DEFINE x == [session[r] EXCEPT !.pc = "write"]
  <2>1. /\ x \in Session /\ x.who = session[r].who /\ x.approval = session[r].approval
    BY <1>1 DEF Session, Changer
  <2>2. session' = [session EXCEPT ![r] = x]
    BY <1>4
  <2> HIDE DEF x
  <2>3. \A a \in Approvals \ {NoOne} : x.approval = a =>
           /\ approval[a].state = "pending" /\ MayConfirm(a, x.who)
           /\ \A q \in Requests \ {r} : ~Executes(q, a)
    BY <2>1 DEF StaffInv, ExecutorsMay, ExecutorsAreAlone, Executes, ChangeRoles
  <2> QED
    BY <1>2, <2>1, <2>2, <2>3, SessionMoves DEF ChangeRoles
<1> QED
  BY <1>3, <1>4 DEF ChangeRoles
-----------------------------------------------------------------------------
(***************************************************************************)
(* Whoever still executes an approval after the step did so before, and    *)
(* the approval is as it was, or has cooled off.                           *)
(***************************************************************************)
Steady(a) ==
    /\ approval'[a].state = approval[a].state
    /\ approval'[a].by = approval[a].by
    /\ approval'[a].others = approval[a].others
    /\ approval[a].cooled => approval'[a].cooled

LEMMA TablesMove ==
    ASSUME StaffInv, StaffTypeOK', RolesAreOfStaff',
           \A q \in Requests, a \in Approvals : Executes(q, a)' =>
              /\ Executes(q, a) /\ session'[q].who = session[q].who
              /\ a # NoOne => Steady(a)
    PROVE  StaffInv'
<1>1. ExecutorsMay'
  BY DEF StaffInv, ExecutorsMay, Steady, MayConfirm
<1>2. ExecutorsAreAlone'
  BY DEF StaffInv, ExecutorsAreAlone
<1> QED
  BY <1>1, <1>2 DEF StaffInv

\* A request leaves: the others execute what they executed.
LEMMA LeaversExecuteNothing ==
    ASSUME StaffInv, NEW r \in Requests, Leave(r)
    PROVE  /\ \A q \in Requests, a \in Approvals : Executes(q, a)' =>
                  /\ q # r /\ Executes(q, a) /\ session'[q] = session[q]
           /\ session' \in [Requests -> Session \cup {Done}]
<1>1. session'[r] = Done /\ \A q \in Requests \ {r} : session'[q] = session[q]
  BY SessionsByKind DEF Leave, StaffInv
<1>2. session' \in [Requests -> Session \cup {Done}]
  BY SessionsByKind DEF Leave, StaffInv
<1> QED
  BY <1>1, <1>2, Leaving DEF Executes

\* An approval is asked for: nobody executes it yet.
LEMMA AskKeeps ==
    ASSUME StaffInv, NEW r \in Requests, Leave(r), In(r), UNCHANGED <<roles, rowLock>>,
           account' \in [Users -> {"free", "banned", "csam"}],
           NEW a \in Approvals, NEW kind \in Kinds, NEW subject \in Subject,
           NEW gives \in Roles \cup {{}}, Ask(a, kind, session[r].who, subject, gives),
           kind = "staff.remove_owner" => subject \in People
    PROVE  StaffInv'
<1> DEFINE y == [state |-> "pending", kind |-> kind, subject |-> subject, gives |-> gives,
                 by |-> session[r].who, others |-> OtherEligible(kind, session[r].who),
                 cooled |-> FALSE, decider |-> NoOne]
<1>1. session[r].who \in People
  BY SessionsByKind DEF In, Visitor, StaffInv
<1>2. OtherEligible(kind, session[r].who) \in BOOLEAN
  BY DEF OtherEligible
<1>3. /\ y \in Approval /\ y.kind = kind /\ y.subject = subject
      /\ approval' = [approval EXCEPT ![a] = y] /\ approval[a] = Absent
  BY <1>1, <1>2 DEF Approval, Ask
<1> HIDE DEF y
<1>4. /\ approval'[a] = y /\ \A b \in Approvals \ {a} : approval'[b] = approval[b]
      /\ approval' \in [Approvals -> Approval \cup {Absent}]
  BY <1>3, ApprovalsByKind DEF StaffInv
<1>5. StaffTypeOK'
  BY <1>4, LeaversExecuteNothing DEF StaffInv, StaffTypeOK
<1>6. RolesAreOfStaff'
  BY <1>3, <1>4 DEF StaffInv, RolesAreOfStaff
<1>7. \A q \in Requests : a # NoOne => ~Executes(q, a)
  BY <1>3 DEF StaffInv, ExecutorsMay, Absent
<1>8. \A b \in Approvals \ {a} : Steady(b)
  BY <1>4 DEF Steady
<1> QED
  BY <1>5, <1>6, <1>7, <1>8, LeaversExecuteNothing, TablesMove

\* An approval is decided by a request that leaves: no other one executes it.
LEMMA DecideKeeps ==
    ASSUME StaffInv, NEW r \in Requests, Leave(r),
           NEW a \in Approvals, NEW state \in {"confirmed", "cancelled"}, NEW p \in People,
           approval[a].state = "pending", Decide(a, state, p),
           \A q \in Requests \ {r} : ~Executes(q, a),
           roles' \in [People -> Roles], account' \in [Users -> {"free", "banned", "csam"}],
           rowLock' \in [People -> Requests \cup {NoOne}]
    PROVE  StaffInv'
<1> DEFINE y == [approval[a] EXCEPT !.state = state, !.decider = p]
<1>1. approval[a] \in Approval
  BY ApprovalsByKind DEF StaffInv
<1>2. /\ y \in Approval /\ y.kind = approval[a].kind /\ y.subject = approval[a].subject
      /\ approval' = [approval EXCEPT ![a] = y]
  BY <1>1 DEF Approval, Decide
<1> HIDE DEF y
<1>3. /\ approval'[a] = y /\ \A b \in Approvals \ {a} : approval'[b] = approval[b]
      /\ approval' \in [Approvals -> Approval \cup {Absent}]
  BY <1>2, ApprovalsByKind DEF StaffInv
<1>4. StaffTypeOK'
  BY <1>3, LeaversExecuteNothing DEF StaffInv, StaffTypeOK
<1>5. approval[a] # Absent
  BY DEF Absent
<1>6. RolesAreOfStaff'
  BY <1>2, <1>3, <1>5 DEF StaffInv, RolesAreOfStaff
<1>7. \A b \in Approvals \ {a} : Steady(b)
  BY <1>3 DEF Steady
<1> QED
  BY <1>4, <1>6, <1>7, LeaversExecuteNothing, TablesMove

\* A request leaves, and the approvals are as they were.
LEMMA LeaveKeeps ==
    ASSUME StaffInv, NEW r \in Requests, Leave(r), UNCHANGED approval,
           roles' \in [People -> Roles], account' \in [Users -> {"free", "banned", "csam"}],
           rowLock' \in [People -> Requests \cup {NoOne}]
    PROVE  StaffInv'
<1>1. StaffTypeOK'
  BY LeaversExecuteNothing DEF StaffInv, StaffTypeOK
<1>2. RolesAreOfStaff' /\ \A a \in Approvals : Steady(a)
  BY DEF StaffInv, RolesAreOfStaff, Steady
<1> QED
  BY <1>1, <1>2, LeaversExecuteNothing, TablesMove
-----------------------------------------------------------------------------
(***************************************************************************)
(* The steps of the requests.                                              *)
(***************************************************************************)
LEMMA SetRolesKeeps ==
    ASSUME StaffInv, NEW r \in Requests, NEW q \in People, NEW gives \in Roles,
           SetRoles(r, q, gives)
    PROVE  StaffInv'
<1>1. CASE "owner" \in roles[q] /\ "owner" \notin gives
  <2>1. PICK a \in Approvals : Ask(a, "staff.remove_owner", session[r].who, q, gives)
    BY <1>1 DEF SetRoles
  <2>2. q \in Subject /\ "staff.remove_owner" \in Kinds /\ Leave(r) /\ In(r)
    BY <1>1 DEF SetRoles, Subject, Kinds
  <2>3. account' \in [Users -> {"free", "banned", "csam"}] /\ UNCHANGED <<roles, rowLock>>
    BY DEF SetRoles, StaffInv, StaffTypeOK
  <2> QED
    BY <2>1, <2>2, <2>3, AskKeeps
<1>2. CASE ~("owner" \in roles[q] /\ "owner" \notin gives)
  <2> DEFINE x == [pc |-> "change", who |-> session[r].who, as |-> session[r].as, target |-> q,
                   gives |-> gives, approval |-> NoOne]
  <2>1. session[r] \in Visitor
    BY SessionsByKind DEF SetRoles, In, StaffInv
  <2>2. x \in Session /\ x.approval = NoOne
    BY <2>1 DEF Session, Visitor
  <2>3. session' = [session EXCEPT ![r] = x] /\ UNCHANGED <<roles, account, approval>>
    BY <1>2 DEF SetRoles
  <2> HIDE DEF x
  <2>4. rowLock' \in [People -> Requests \cup {NoOne}]
    BY DEF SetRoles, StaffInv, StaffTypeOK
  <2> QED
    BY <2>2, <2>3, <2>4, SessionMoves
<1> QED
  BY <1>1, <1>2

LEMMA WriteRolesKeeps ==
    ASSUME StaffInv, NEW r \in Requests, WriteRoles(r)
    PROVE  StaffInv'
<1> DEFINE s == session[r]
<1>1. s \in Changer
  BY SessionsByKind DEF WriteRoles, StaffInv
<1>2. /\ roles' \in [People -> Roles] /\ rowLock' \in [People -> Requests \cup {NoOne}]
      /\ account' \in [Users -> {"free", "banned", "csam"}] /\ Leave(r)
  BY <1>1 DEF WriteRoles, StaffInv, StaffTypeOK, Changer
<1>3. CASE s.approval = NoOne
  BY <1>2, <1>3, LeaveKeeps DEF WriteRoles
<1>4. CASE s.approval # NoOne
  <2>1. s.approval \in Approvals /\ s.who \in People
    BY <1>1, <1>4 DEF Changer
  <2>2. Executes(r, s.approval)
    BY DEF Executes, WriteRoles
  <2>3. /\ approval[s.approval].state = "pending"
        /\ \A q \in Requests \ {r} : ~Executes(q, s.approval)
    BY <1>4, <2>1, <2>2 DEF StaffInv, ExecutorsMay, ExecutorsAreAlone
  <2>4. Decide(s.approval, "confirmed", s.who)
    BY <1>4 DEF WriteRoles
  <2> QED
    BY <1>2, <2>1, <2>3, <2>4, DecideKeeps
<1> QED
  BY <1>3, <1>4

LEMMA ConfirmKeeps ==
    ASSUME StaffInv, NEW r \in Requests, NEW a \in Approvals, Confirm(r, a)
    PROVE  StaffInv'
<1> DEFINE p == session[r].who
           q == approval[a].subject
<1>1. session[r] \in Visitor /\ approval[a] \in Approval /\ approval[a] # Absent
  BY SessionsByKind, ApprovalsByKind DEF Confirm, Open, In, StaffInv
<1>2. \A o \in Requests : ~Executes(o, a)
  BY DEF Confirm, Open, Confirming, Executes
<1>3. UNCHANGED <<roles, rowLock>> /\ approval[a].state = "pending" /\ MayConfirm(a, p)
  BY DEF Confirm, Open
<1>4. roles' \in [People -> Roles] /\ rowLock' \in [People -> Requests \cup {NoOne}]
  BY <1>3 DEF StaffInv, StaffTypeOK
<1>5. CASE approval[a].kind = "unban.csam"
  <2>1. /\ account' = [account EXCEPT ![q] = "free"]
        /\ Decide(a, "confirmed", p) /\ Leave(r)
    BY <1>5 DEF Confirm
  <2>2. account' \in [Users -> {"free", "banned", "csam"}]
    BY <2>1 DEF StaffInv, StaffTypeOK
  <2>3. p \in People
    BY <1>1 DEF Visitor
  <2> QED
    BY <1>2, <1>3, <1>4, <2>1, <2>2, <2>3, DecideKeeps
<1>6. CASE approval[a].kind # "unban.csam"
  <2> DEFINE x == [pc |-> "change", who |-> p, as |-> session[r].as, target |-> q,
                   gives |-> approval[a].gives, approval |-> a]
  <2>1. q \in People
    BY <1>1, <1>6 DEF StaffInv, RolesAreOfStaff, Approval, Kinds
  <2>2. approval[a].gives \in Roles
    BY <1>1, StaffAssumption DEF Approval
  <2>3. x \in Session /\ x.approval = a /\ x.who = p
    BY <1>1, <2>1, <2>2 DEF Session, Visitor
  <2>4. session' = [session EXCEPT ![r] = x] /\ UNCHANGED <<roles, account, approval>>
    BY <1>6 DEF Confirm
  <2> HIDE DEF x
  <2> QED
    BY <1>2, <1>3, <1>4, <2>3, <2>4, SessionMoves
<1> QED
  BY <1>5, <1>6

LEMMA CancelKeeps ==
    ASSUME StaffInv, NEW r \in Requests, NEW a \in Approvals, Cancel(r, a)
    PROVE  StaffInv'
<1>1. session[r].who \in People
  BY SessionsByKind DEF Cancel, Open, In, Visitor, StaffInv
<1>2. \A q \in Requests : ~Executes(q, a)
  BY DEF Cancel, Open, Confirming, Executes
<1> QED
  BY <1>1, <1>2, DecideKeeps DEF Cancel, Open, StaffInv, StaffTypeOK

LEMMA CoolOffKeeps ==
    ASSUME StaffInv, NEW a \in Approvals, CoolOff(a)
    PROVE  StaffInv'
<1> DEFINE y == [approval[a] EXCEPT !.cooled = TRUE]
<1>1. approval[a] \in Approval
  BY ApprovalsByKind DEF StaffInv, CoolOff
<1>2. /\ y \in Approval /\ y.kind = approval[a].kind /\ y.subject = approval[a].subject
      /\ y.state = approval[a].state /\ y.by = approval[a].by
      /\ y.others = approval[a].others /\ y.cooled
      /\ approval' = [approval EXCEPT ![a] = y]
  BY <1>1 DEF Approval, CoolOff
<1> HIDE DEF y
<1>3. /\ approval'[a] = y /\ \A b \in Approvals \ {a} : approval'[b] = approval[b]
      /\ approval' \in [Approvals -> Approval \cup {Absent}]
  BY <1>2, ApprovalsByKind DEF StaffInv
<1>4. StaffTypeOK'
  BY <1>3 DEF StaffInv, StaffTypeOK, CoolOff
<1>5. approval[a] # Absent
  BY <1>1, ApprovalsByKind DEF StaffInv
<1>6. RolesAreOfStaff'
  BY <1>2, <1>3, <1>5 DEF StaffInv, RolesAreOfStaff
<1>7. \A b \in Approvals : Steady(b)
  BY <1>2, <1>3 DEF Steady
<1> QED
  BY <1>4, <1>6, <1>7, TablesMove DEF CoolOff, Executes

LEMMA BanKeeps ==
    ASSUME StaffInv, NEW r \in Requests, NEW u \in Users, Ban(r, u)
    PROVE  StaffInv'
BY LeaveKeeps DEF Ban, StaffInv, StaffTypeOK

LEMMA UnbanKeeps ==
    ASSUME StaffInv, NEW r \in Requests, NEW u \in Users, Unban(r, u)
    PROVE  StaffInv'
<1>1. /\ Leave(r) /\ In(r) /\ UNCHANGED <<roles, rowLock>>
      /\ account' \in [Users -> {"free", "banned", "csam"}]
      /\ roles' \in [People -> Roles] /\ rowLock' \in [People -> Requests \cup {NoOne}]
  BY DEF Unban, StaffInv, StaffTypeOK
<1>2. CASE UNCHANGED approval
  BY <1>1, <1>2, LeaveKeeps
<1>3. ASSUME NEW a \in Approvals, Ask(a, "unban.csam", session[r].who, u, {})
      PROVE  StaffInv'
  <2>1. u \in Subject /\ "unban.csam" \in Kinds /\ {} \in Roles \cup {{}}
    BY DEF Subject, Kinds
  <2> QED
    BY <1>1, <1>3, <2>1, AskKeeps
<1> QED
  BY <1>2, <1>3 DEF Unban

LEMMA MatchKeeps ==
    ASSUME StaffInv, NEW u \in Users, Match(u)
    PROVE  StaffInv'
<1>1. StaffTypeOK' /\ RolesAreOfStaff' /\ \A a \in Approvals : Steady(a)
  BY DEF Match, StaffInv, StaffTypeOK, RolesAreOfStaff, Steady
<1> QED
  BY <1>1, TablesMove DEF Match, Executes
-----------------------------------------------------------------------------
LEMMA StaffSteps == StaffInv /\ [StaffNext]_staffVars => StaffInv'
<1> SUFFICES ASSUME StaffInv, [StaffNext]_staffVars PROVE StaffInv'
  OBVIOUS
<1>1. CASE UNCHANGED staffVars
  <2>1. StaffTypeOK' /\ RolesAreOfStaff' /\ \A a \in Approvals : Steady(a)
    BY <1>1 DEF staffVars, StaffInv, StaffTypeOK, RolesAreOfStaff, Steady
  <2> QED
    BY <1>1, <2>1, TablesMove DEF staffVars, Executes
<1>2. CASE StaffNext
  BY <1>2, EnterKeeps, SetRolesKeeps, ChangeRolesKeeps, WriteRolesKeeps, ConfirmKeeps, CancelKeeps,
     BanKeeps, UnbanKeeps, CoolOffKeeps, MatchKeeps DEF StaffNext
<1> QED
  BY <1>1, <1>2

\* The invariant holds in every reachable state.
THEOREM StaffInvariant == StaffSpec => []StaffInv
BY InitHolds, StaffSteps, PTL DEF StaffSpec

\* Roles, accounts, approvals, locks and requests are what their types say (admin/approvals.ts).
THEOREM StaffTypes == StaffSpec => []StaffTypeOK
BY StaffInvariant, PTL DEF StaffInv
-----------------------------------------------------------------------------
\* What happens to an approval in a step: it is asked for, cools off, is cancelled, or is
\* confirmed by who may.
LEMMA ApprovalSteps ==
    ASSUME StaffInv, StaffNext, NEW a \in Approvals, approval'[a] # approval[a]
    PROVE  \/ approval[a] = Absent /\ approval'[a].state = "pending"
           \/ approval[a].state = "pending" /\ approval'[a].state \in {"pending", "cancelled"}
           \/ Signed(a)
<1>1. ASSUME NEW b \in Approvals, NEW kind, NEW p, NEW subject, NEW gives,
             Ask(b, kind, p, subject, gives)
      PROVE  approval[a] = Absent /\ approval'[a].state = "pending"
  BY <1>1, ApprovalsByKind DEF Ask, StaffInv
<1>2. ASSUME NEW b \in Approvals, NEW state, NEW p, approval[b].state = "pending",
             Decide(b, state, p)
      PROVE  /\ a = b /\ approval[a].state = "pending"
             /\ approval'[a].state = state /\ approval'[a].decider = p
  <2>1. approval[b] \in Approval /\ a = b
    BY <1>2, ApprovalsByKind DEF Decide, StaffInv
  <2> QED
    BY <1>2, <2>1, ApprovalsByKind DEF Decide, StaffInv, Approval
<1>3. ASSUME NEW r \in Requests, NEW q \in People, NEW gives \in Roles, SetRoles(r, q, gives)
      PROVE  approval[a] = Absent /\ approval'[a].state = "pending"
  BY <1>1, <1>3 DEF SetRoles
<1>4. ASSUME NEW r \in Requests, WriteRoles(r)
      PROVE  Signed(a)
  <2> DEFINE s == session[r]
  <2>1. s.approval # NoOne /\ Decide(s.approval, "confirmed", s.who) /\ s \in Changer
    BY <1>4, SessionsByKind DEF WriteRoles, StaffInv
  <2>2. s.approval \in Approvals /\ Executes(r, s.approval)
    BY <1>4, <2>1 DEF Changer, WriteRoles, Executes
  <2>3. approval[s.approval].state = "pending" /\ MayConfirm(s.approval, s.who)
    BY <2>1, <2>2 DEF StaffInv, ExecutorsMay
  <2> QED
    BY <1>2, <2>1, <2>2, <2>3 DEF Signed, MayConfirm
<1>5. ASSUME NEW r \in Requests, NEW b \in Approvals, Confirm(r, b)
      PROVE  Signed(a)
  <2> DEFINE p == session[r].who
  <2>1. Decide(b, "confirmed", p) /\ approval[b].state = "pending" /\ MayConfirm(b, p)
    BY <1>5 DEF Confirm, Open
  <2> QED
    BY <1>2, <2>1 DEF Signed, MayConfirm
<1>6. ASSUME NEW r \in Requests, NEW b \in Approvals, Cancel(r, b)
      PROVE  approval[a].state = "pending" /\ approval'[a].state = "cancelled"
  BY <1>2, <1>6 DEF Cancel, Open
<1>7. ASSUME NEW r \in Requests, NEW u \in Users, Unban(r, u)
      PROVE  approval[a] = Absent /\ approval'[a].state = "pending"
  BY <1>1, <1>7 DEF Unban
<1>8. ASSUME NEW b \in Approvals, CoolOff(b)
      PROVE  approval[a].state = "pending" /\ approval'[a].state = "pending"
  <2>1. approval[b] \in Approval /\ a = b
    BY <1>8, ApprovalsByKind DEF CoolOff, StaffInv
  <2> QED
    BY <1>8, <2>1, ApprovalsByKind DEF CoolOff, StaffInv, Approval
<1> QED
  BY <1>3, <1>4, <1>5, <1>6, <1>7, <1>8 DEF StaffNext, Enter, ChangeRoles, Ban, Match

\* An approval is decided once, and confirmed by somebody else or, alone, after the
\* cooling-off period (approvals.ts lockForConfirm, markDecided).
THEOREM ApprovalsAreDecidedOnce == StaffSpec => DecidedOnce
<1> DEFINE Once == \A a \in Approvals :
          /\ approval[a].state \in {"confirmed", "cancelled"} => approval'[a] = approval[a]
          /\ approval[a].state = "pending" /\ approval'[a].state = "confirmed" => Signed(a)
<1>1. ASSUME StaffInv, StaffNext PROVE Once
  <2> SUFFICES ASSUME NEW a \in Approvals
               PROVE  /\ approval[a].state \in {"confirmed", "cancelled"}
                         => approval'[a] = approval[a]
                      /\ approval[a].state = "pending" /\ approval'[a].state = "confirmed"
                         => Signed(a)
    OBVIOUS
  <2>1. CASE approval'[a] = approval[a]
    BY <2>1
  <2>2. CASE approval'[a] # approval[a]
    BY <1>1, <2>2, ApprovalSteps DEF Absent, Signed
  <2> QED
    BY <2>1, <2>2
<1>2. StaffInv /\ [StaffNext]_staffVars => [Once]_staffVars
  BY <1>1
<1> QED
  BY <1>2, StaffInvariant, PTL DEF StaffSpec, DecidedOnce

\* The lock of a match is lifted only with an approval of it that two people signed
\* (users.ts ban and unban, csam.ts handleCsamHit).
THEOREM LocksAreLiftedByTwo == StaffSpec => LockIsLiftedByTwo
<1> DEFINE Lifted == \A u \in Users : account[u] = "csam" /\ account'[u] # "csam" =>
          \E a \in Approvals : /\ Signed(a)
                             /\ approval[a].kind = "unban.csam"
                             /\ approval[a].subject = u
<1>1. ASSUME StaffInv, StaffNext PROVE Lifted
  <2> SUFFICES ASSUME NEW u \in Users, account[u] = "csam", account'[u] # "csam"
               PROVE  \E a \in Approvals : /\ Signed(a)
                                           /\ approval[a].kind = "unban.csam"
                                           /\ approval[a].subject = u
    OBVIOUS
  <2>1. account \in [Users -> {"free", "banned", "csam"}]
    BY <1>1 DEF StaffInv, StaffTypeOK
  <2>2. \A r \in Requests, v \in Users : ~Ban(r, v) /\ ~Unban(r, v)
    BY <2>1 DEF Ban, Unban
  <2>3. \A v \in Users : ~Match(v)
    BY <2>1 DEF Match
  <2>4. account' # account
    OBVIOUS
  <2>5. \A r \in Requests, q \in People : ~Enter(r, q)
    BY <2>4 DEF Enter
  <2>6. \A r \in Requests, q \in People, gives \in Roles : ~SetRoles(r, q, gives)
    BY <2>4 DEF SetRoles
  <2>7. \A r \in Requests : ~ChangeRoles(r) /\ ~WriteRoles(r)
    BY <2>4 DEF ChangeRoles, WriteRoles
  <2>8. \A r \in Requests, a \in Approvals : ~Cancel(r, a)
    BY <2>4 DEF Cancel
  <2>9. \A a \in Approvals : ~CoolOff(a)
    BY <2>4 DEF CoolOff
  <2>10. PICK r \in Requests, a \in Approvals : Confirm(r, a)
    BY <1>1, <2>2, <2>3, <2>5, <2>6, <2>7, <2>8, <2>9 DEF StaffNext
  <2> DEFINE p == session[r].who
  <2>11. /\ approval[a].kind = "unban.csam"
        /\ account' = [account EXCEPT ![approval[a].subject] = "free"]
        /\ Decide(a, "confirmed", p) /\ approval[a].state = "pending" /\ MayConfirm(a, p)
    BY <2>10 DEF Confirm, Open
  <2>12. approval[a].subject = u
    BY <2>1, <2>11
  <2>13. approval[a] \in Approval
    BY <1>1, <2>11, ApprovalsByKind DEF StaffInv
  <2>14. approval'[a].state = "confirmed" /\ approval'[a].decider = p
    BY <1>1, <2>11, <2>13, ApprovalsByKind DEF Decide, StaffInv, Approval
  <2>15. Signed(a)
    BY <2>11, <2>14 DEF Signed, MayConfirm
  <2> QED
    BY <2>11, <2>12, <2>15
<1>2. StaffInv /\ [StaffNext]_staffVars => [Lifted]_staffVars
  BY <1>1
<1> QED
  BY <1>2, StaffInvariant, PTL DEF StaffSpec, LockIsLiftedByTwo
=============================================================================
