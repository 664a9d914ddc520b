----------------------------- MODULE AuditChain -----------------------------
(***************************************************************************)
(* The audit log (audit/audit.ts): records appended by transactions that   *)
(* change other rows too, each with the hash of the record before it, and  *)
(* the verification that reads the log in batches while it grows.          *)
(*                                                                         *)
(* A hash is the sequence of the entries it covers: equal for equal        *)
(* contents and for no others.  Ids come from a sequence of the database,  *)
(* which a rolled back transaction does not give back.                     *)
(***************************************************************************)
EXTENDS Naturals, Sequences, FiniteSets

CONSTANTS Txs,          \* transactions, and the entries they append
          Rows,         \* the other rows that transactions lock
          Plans,        \* what a transaction does: rows to lock, and Log to append a record
          Log,
          MaxVerify,    \* bound: verifications started
          NoTx

ASSUME AuditAssumption ==
    /\ Log \notin Rows /\ NoTx \notin Txs
    /\ Plans \subseteq Seq(Rows \cup {Log})
    /\ MaxVerify \in Nat

VARIABLES records,      \* audit_log, as committed
          nextId,       \* its identity sequence
          lockedBy,     \* the advisory lock and the row locks -> the transaction that has it
          tx,           \* transactions in progress: what is left to do and what was appended
          check,        \* verifyAuditChain: cursor, prev, and what it found
          checks        \* verifications started

auditVars == <<records, nextId, lockedBy, tx, check, checks>>

Genesis == [id |-> 0, hash |-> <<>>]
Record == [id: Nat \ {0}, entry: Txs, prev: Seq(Txs), hash: Seq(Txs)]

NotBegun == [pc |-> "idle", todo |-> <<>>, wrote |-> {}]

AuditTypeOK ==
    /\ records \in SUBSET Record
    /\ nextId \in Nat \ {0}
    /\ lockedBy \in [Rows \cup {Log} -> Txs \cup {NoTx}]
    /\ tx \in [Txs -> [pc: {"idle", "open", "appending", "ended"}, todo: Seq(Rows \cup {Log}),
                       wrote: SUBSET Record]]
    /\ check \in [state: {"idle", "reading", "whole", "broken"}, cursor: Nat, prev: Seq(Txs)]
    /\ checks \in Nat

AuditInit ==
    /\ records = {}
    /\ nextId = 1
    /\ lockedBy = [l \in Rows \cup {Log} |-> NoTx]
    /\ tx = [t \in Txs |-> NotBegun]
    /\ check = [state |-> "idle", cursor |-> 0, prev |-> <<>>]
    /\ checks = 0

(***************************************************************************)
(* Transactions.                                                           *)
(***************************************************************************)
Begin(t, plan) ==
    /\ tx[t].pc = "idle"
    /\ tx' = [tx EXCEPT ![t] = [pc |-> "open", todo |-> plan, wrote |-> {}]]
    /\ UNCHANGED <<records, nextId, lockedBy, check, checks>>

Wants(t) == IF tx[t].pc = "open" /\ tx[t].todo # <<>> THEN Head(tx[t].todo) ELSE NoTx

\* A lock is held until the transaction ends; pg_advisory_xact_lock and a row's lock can be
\* taken again by who has them.
Obtainable(t, l) == lockedBy[l] \in {t, NoTx}

\* Mutant of Lock: the lock of the log does not exclude others.
LockShared(t) ==
    /\ Wants(t) # NoTx
    /\ LET l == Wants(t)
       IN /\ l # Log => Obtainable(t, l)
          /\ lockedBy' = [lockedBy EXCEPT ![l] = t]
          /\ tx' = [tx EXCEPT ![t].todo = Tail(@),
                              ![t].pc = IF l = Log THEN "appending" ELSE @]
    /\ UNCHANGED <<records, nextId, check, checks>>

Lock(t) ==
    /\ Wants(t) # NoTx
    /\ LET l == Wants(t)
       IN /\ Obtainable(t, l)
          /\ lockedBy' = [lockedBy EXCEPT ![l] = t]
          /\ tx' = [tx EXCEPT ![t].todo = Tail(@),
                              ![t].pc = IF l = Log THEN "appending" ELSE @]
    /\ UNCHANGED <<records, nextId, check, checks>>

IsLast(r, R) == r \in R \cup {Genesis} /\ \A q \in R : q.id <= r.id

Write(t, seen) ==
    /\ tx[t].pc = "appending"
    /\ \E last \in seen \cup {Genesis} :
          /\ IsLast(last, seen)
          /\ tx' = [tx EXCEPT ![t].pc = "open",
                              ![t].wrote = @ \cup {[id |-> nextId, entry |-> t, prev |-> last.hash,
                                                    hash |-> Append(last.hash, t)]}]
    /\ nextId' = nextId + 1
    /\ UNCHANGED <<records, lockedBy, check, checks>>

\* The last record is what is committed now and what this transaction appended before.
AppendAudit(t) == Write(t, records \cup tx[t].wrote)

\* Mutant of Released: a lock of the session, not of the transaction.
ReleasedRows(t) == [l \in Rows \cup {Log} |-> IF lockedBy[l] = t /\ l # Log THEN NoTx ELSE lockedBy[l]]

Released(t) == [l \in Rows \cup {Log} |-> IF lockedBy[l] = t THEN NoTx ELSE lockedBy[l]]

Commit(t) ==
    /\ tx[t].pc = "open" /\ tx[t].todo = <<>>
    /\ records' = records \cup tx[t].wrote
    /\ lockedBy' = Released(t)
    /\ tx' = [tx EXCEPT ![t] = [pc |-> "ended", todo |-> <<>>, wrote |-> {}]]
    /\ UNCHANGED <<nextId, check, checks>>

\* A handler that throws, a crash, or the victim of a deadlock.
Rollback(t) ==
    /\ tx[t].pc \in {"open", "appending"}
    /\ lockedBy' = Released(t)
    /\ tx' = [tx EXCEPT ![t] = [pc |-> "ended", todo |-> <<>>, wrote |-> {}]]
    /\ UNCHANGED <<records, nextId, check, checks>>

\* Each of two transactions waits for what the other has.
Deadlocked(t) ==
    \E u \in Txs \ {t} :
       /\ Wants(t) # NoTx /\ lockedBy[Wants(t)] = u
       /\ Wants(u) # NoTx /\ lockedBy[Wants(u)] = t

\* The database ends one of them.
Victim(t) == Deadlocked(t) /\ Rollback(t)

(***************************************************************************)
(* verifyAuditChain.                                                       *)
(***************************************************************************)
VerifyStart ==
    /\ check.state # "reading" /\ checks < MaxVerify
    /\ check' = [state |-> "reading", cursor |-> 0, prev |-> <<>>]
    /\ checks' = checks + 1
    /\ UNCHANGED <<records, nextId, lockedBy, tx>>

\* Mutant of After: the next records are looked for by the number of records read.
AfterCount == {r \in records : r.id > Len(check.prev)}

\* The records behind the cursor.
After == {r \in records : r.id > check.cursor}

\* The next record, as one query after the other finds it.  A query of a whole batch reads
\* several of them at one moment, which is to read them one by one while nothing happens.
VerifyNext ==
    /\ check.state = "reading"
    /\ \E r \in After :
          /\ \A q \in After : r.id <= q.id
          /\ check' = IF r.prev = check.prev /\ r.hash = Append(check.prev, r.entry)
                      THEN [check EXCEPT !.cursor = r.id, !.prev = r.hash]
                      ELSE [check EXCEPT !.state = "broken"]
    /\ UNCHANGED <<records, nextId, lockedBy, tx, checks>>

VerifyEnd ==
    /\ check.state = "reading" /\ After = {}
    /\ check' = [check EXCEPT !.state = "whole"]
    /\ UNCHANGED <<records, nextId, lockedBy, tx, checks>>

AuditNext ==
    \/ \E t \in Txs :
          \/ \E plan \in Plans : Begin(t, plan)
          \/ Lock(t) \/ AppendAudit(t) \/ Commit(t) \/ Rollback(t)
    \/ VerifyStart \/ VerifyNext \/ VerifyEnd

AuditSpec == AuditInit /\ [][AuditNext]_auditVars

\* A statement that can run does, and the database ends a deadlock.
AuditFairness ==
    \A t \in Txs : WF_auditVars(Lock(t) \/ AppendAudit(t) \/ Commit(t) \/ Victim(t))

AuditLiveSpec == AuditSpec /\ AuditFairness

(***************************************************************************)
(* Properties.                                                             *)
(***************************************************************************)
\* The log is one chain in the order of its ids, whatever was appended, rolled back and
\* appended twice in one transaction, and in whatever order they committed (audit.ts:1-11).
ChainIsWhole ==
    \A r \in records :
       /\ \E p \in records \cup {Genesis} :
             /\ p.id < r.id /\ r.prev = p.hash
             /\ \A q \in records : q.id < r.id => q.id <= p.id
       /\ r.hash = Append(r.prev, r.entry)

\* A verification that reads while others append never reports a break (audit.ts:104-139).
NoFalseAlarm == check.state # "broken"

\* A transaction that locks rows and the log in another order than its rivals still ends:
\* it commits, or the database rolls it back (handleCsamHit appends before it locks the
\* user, the ban of users.ts locks the user first).
TransactionsEnd == \A t \in Txs : tx[t].pc # "idle" ~> tx[t].pc = "ended"
=============================================================================
