--------------------------- MODULE ServicesProofs ---------------------------
(***************************************************************************)
(* Theorems about two of the components MCServices runs: AuditChain, for   *)
(* any transactions, rows and plans, and Bindings, for any repositories,   *)
(* deliveries, requests of authors, workflow runs and requests to publish. *)
(***************************************************************************)
EXTENDS AuditChain, Bindings, TLAPS
-----------------------------------------------------------------------------
(***************************************************************************)
(* AuditChain.  The inductive invariant: what is committed together with   *)
(* what any one transaction has appended is a chain with ids of its own,   *)
(* only who holds the lock of the log has appended anything, and the       *)
(* verification stands at a record.                                        *)
(***************************************************************************)

\* ChainIsWhole of the records R.
Chain(R) ==
    \A r \in R :
       /\ \E p \in R \cup {Genesis} :
             /\ p.id < r.id /\ r.prev = p.hash
             /\ \A q \in R : q.id < r.id => q.id <= p.id
       /\ r.hash = Append(r.prev, r.entry)

Numbered(R) ==
    /\ \A r, q \in R : r.id = q.id => r = q
    /\ \A r \in R : r.id < nextId

Visible(t) == records \cup tx[t].wrote

ChainsAreWhole == \A t \in Txs : Chain(Visible(t)) /\ Numbered(Visible(t))

AppendersHoldTheLog ==
    \A t \in Txs : tx[t].wrote # {} \/ tx[t].pc = "appending" => lockedBy[Log] = t

\* Who has not begun, or has ended, has appended nothing.
OutsideNothingIsWritten == \A t \in Txs : tx[t].pc \in {"idle", "ended"} => tx[t].wrote = {}

CheckStandsAtARecord ==
    /\ check.state # "broken"
    /\ \E p \in records \cup {Genesis} : p.id = check.cursor /\ p.hash = check.prev

AuditInv ==
    /\ AuditTypeOK
    /\ Chain(records) /\ Numbered(records)
    /\ ChainsAreWhole
    /\ AppendersHoldTheLog
    /\ OutsideNothingIsWritten
    /\ CheckStandsAtARecord
-----------------------------------------------------------------------------
Locks == Rows \cup {Log}
Running == [pc: {"idle", "open", "appending", "ended"}, todo: Seq(Locks), wrote: SUBSET Record]

LEMMA AuditInitHolds == AuditInit => AuditInv
<1> SUFFICES ASSUME AuditInit PROVE AuditInv
  OBVIOUS
<1> USE AuditAssumption DEF AuditInit
<1>1. NotBegun \in Running
  BY DEF NotBegun, Running
<1>2. AuditTypeOK
  BY <1>1 DEF AuditTypeOK, Running, Locks
<1>3. \A t \in Txs : tx[t].wrote = {} /\ tx[t].pc = "idle"
  BY DEF NotBegun
<1>4. Chain({}) /\ Numbered({})
  BY DEF Chain, Numbered
<1>5. CheckStandsAtARecord
  BY DEF CheckStandsAtARecord, Genesis
<1> QED
  BY <1>2, <1>3, <1>4, <1>5
     DEF AuditInv, ChainsAreWhole, Visible, AppendersHoldTheLog, OutsideNothingIsWritten

LEMMA TxByKind ==
    ASSUME AuditTypeOK, NEW t \in Txs
    PROVE  tx[t] \in Running
BY DEF AuditTypeOK, Running, Locks

LEMMA PlansAreSequences ==
    ASSUME NEW plan \in Plans
    PROVE  plan \in Seq(Locks)
BY AuditAssumption DEF Locks
-----------------------------------------------------------------------------
(***************************************************************************)
(* A record appended behind the last one.                                  *)
(***************************************************************************)
Appended(last, t) == [id |-> nextId, entry |-> t, prev |-> last.hash,
                      hash |-> Append(last.hash, t)]

LEMMA AppendedChain ==
    ASSUME NEW R \in SUBSET Record, NEW t \in Txs, Chain(R), Numbered(R), nextId \in Nat \ {0},
           NEW last \in R \cup {Genesis}, IsLast(last, R)
    PROVE  /\ Appended(last, t) \in Record
           /\ Chain(R \cup {Appended(last, t)})
           /\ \A r, q \in R \cup {Appended(last, t)} : r.id = q.id => r = q
           /\ \A r \in R \cup {Appended(last, t)} : r.id < nextId + 1
<1> DEFINE new == Appended(last, t)
<1>1. last.hash \in Seq(Txs) /\ last.id \in Nat /\ last.id < nextId
  <2>1. CASE last = Genesis
    BY <2>1 DEF Genesis
  <2>2. CASE last \in R
    BY <2>2 DEF Record, Numbered
  <2> QED
    BY <2>1, <2>2
<1>2. /\ new.id = nextId /\ new.entry = t /\ new.prev = last.hash
      /\ new.hash = Append(last.hash, t)
  BY DEF Appended
<1>3. Append(last.hash, t) \in Seq(Txs)
  BY <1>1
<1>4. new \in Record
  BY <1>1, <1>3 DEF Record, Appended
<1> HIDE DEF new
<1>5. \A r \in R : r.id \in Nat /\ r.id < nextId
  BY DEF Numbered, Record
<1>6. Chain(R \cup {new})
  <2> SUFFICES ASSUME NEW r \in R \cup {new}
               PROVE  /\ \E p \in R \cup {new} \cup {Genesis} :
                             /\ p.id < r.id /\ r.prev = p.hash
                             /\ \A q \in R \cup {new} : q.id < r.id => q.id <= p.id
                      /\ r.hash = Append(r.prev, r.entry)
    BY DEF Chain
  <2>1. CASE r = new
    <3>1. \A q \in R \cup {new} : q.id < nextId => q.id <= last.id
      BY <1>2, <1>5 DEF IsLast
    <3> QED
      BY <2>1, <1>1, <1>2, <3>1
  <2>2. CASE r \in R
    <3>1. PICK p \in R \cup {Genesis} :
             /\ p.id < r.id /\ r.prev = p.hash
             /\ \A q \in R : q.id < r.id => q.id <= p.id
      BY <2>2 DEF Chain
    <3>2. \A q \in R \cup {new} : q.id < r.id => q.id <= p.id
      BY <1>2, <1>5, <2>2, <3>1
    <3> QED
      BY <2>2, <3>1, <3>2 DEF Chain
  <2> QED
    BY <2>1, <2>2
<1>7. ASSUME NEW r \in R \cup {new}, NEW q \in R \cup {new}, r.id = q.id
      PROVE  r = q
  <2>1. CASE r \in R /\ q \in R
    BY <1>7, <2>1 DEF Numbered
  <2>2. \A x \in R : x.id # new.id
    BY <1>2, <1>5
  <2> QED
    BY <1>7, <2>1, <2>2
<1>8. \A r \in R \cup {new} : r.id < nextId + 1
  BY <1>2, <1>5
<1> QED
  BY <1>4, <1>6, <1>7, <1>8 DEF new

LEMMA AppendAuditKeeps ==
    ASSUME AuditInv, NEW t \in Txs, AppendAudit(t)
    PROVE  AuditInv'
<1> USE DEF AuditInv
<1> DEFINE R == Visible(t)
<1>1. PICK last \in R \cup {Genesis} :
         /\ IsLast(last, R)
         /\ tx' = [tx EXCEPT ![t].pc = "open",
                             ![t].wrote = @ \cup {Appended(last, t)}]
  BY DEF AppendAudit, Write, Visible, Appended
<1> DEFINE n == Appended(last, t)
<1>2. /\ tx[t].pc = "appending" /\ nextId' = nextId + 1
      /\ UNCHANGED <<records, lockedBy, check, checks>>
  BY DEF AppendAudit, Write
<1>3. R \in SUBSET Record /\ nextId \in Nat \ {0} /\ tx[t] \in Running
  BY TxByKind DEF AuditTypeOK, Visible, Running
<1>4. Chain(R) /\ Numbered(R)
  BY DEF ChainsAreWhole
<1>5. /\ n \in Record
      /\ Chain(R \cup {n})
      /\ \A r, q \in R \cup {n} : r.id = q.id => r = q
      /\ \A r \in R \cup {n} : r.id < nextId + 1
  <2> HIDE DEF R
  <2> QED
    BY <1>1, <1>3, <1>4, AppendedChain
<1>6. /\ n \in Record /\ Chain(R \cup {n})
      /\ \A r, q \in R \cup {n} : r.id = q.id => r = q
      /\ \A r \in R \cup {n} : r.id < nextId + 1
      /\ tx' = [tx EXCEPT ![t].pc = "open", ![t].wrote = @ \cup {n}]
  BY <1>1, <1>5
<1> HIDE DEF n
<1>7. /\ \A u \in Txs : u # t => tx'[u] = tx[u]
      /\ tx'[t].wrote = tx[t].wrote \cup {n} /\ tx'[t].pc = "open"
      /\ tx'[t] \in Running
  BY <1>3, <1>6 DEF AuditTypeOK, Running
<1>8. AuditTypeOK'
  <2>1. tx' \in [Txs -> Running]
    BY <1>6, <1>7, TxByKind DEF AuditTypeOK
  <2> QED
    BY <1>2, <2>1 DEF AuditTypeOK, Running, Locks
<1>9. lockedBy[Log] = t
  BY <1>2 DEF AppendersHoldTheLog
<1>10. AppendersHoldTheLog'
  BY <1>2, <1>7, <1>9 DEF AppendersHoldTheLog
<1>11. Visible(t)' = R \cup {n}
  BY <1>2, <1>7 DEF Visible
<1>12. \A u \in Txs \ {t} : Visible(u)' = Visible(u)
  BY <1>2, <1>7 DEF Visible
<1>13. \A S \in SUBSET Record : Numbered(S) => Numbered(S)'
  BY <1>2, <1>3 DEF Numbered, Record
<1>14. ChainsAreWhole'
  <2> SUFFICES ASSUME NEW u \in Txs PROVE Chain(Visible(u)') /\ Numbered(Visible(u))'
    BY DEF ChainsAreWhole, Chain
  <2>1. CASE u = t
    BY <2>1, <1>2, <1>6, <1>11 DEF Numbered
  <2>2. CASE u # t
    <3>1. Visible(u) \in SUBSET Record
      BY TxByKind DEF AuditTypeOK, Visible, Running
    <3> QED
      BY <2>2, <3>1, <1>12, <1>13 DEF ChainsAreWhole, Numbered
  <2> QED
    BY <2>1, <2>2
<1>15. Chain(records)' /\ Numbered(records)'
  <2>1. records \in SUBSET Record
    BY DEF AuditTypeOK
  <2>2. Numbered(records)'
    BY <2>1, <1>2, <1>3 DEF Numbered, Record
  <2>3. Chain(records)'
    BY <1>2 DEF Chain
  <2> QED
    BY <2>2, <2>3
<1>16. CheckStandsAtARecord' /\ OutsideNothingIsWritten'
  BY <1>2, <1>7 DEF CheckStandsAtARecord, OutsideNothingIsWritten
<1> QED
  BY <1>8, <1>10, <1>14, <1>15, <1>16
-----------------------------------------------------------------------------
(***************************************************************************)
(* The other steps of a transaction.                                       *)
(***************************************************************************)
\* Nothing is appended or committed, and nobody loses the lock of the log.
LEMMA NothingWrittenKeeps ==
    ASSUME AuditInv, AuditTypeOK', UNCHANGED <<records, nextId, check>>,
           \A t \in Txs : tx'[t].wrote = tx[t].wrote,
           AppendersHoldTheLog', OutsideNothingIsWritten'
    PROVE  AuditInv'
<1> USE DEF AuditInv
<1>1. \A t \in Txs : Visible(t)' = Visible(t)
  BY DEF Visible
<1>2. \A R : Numbered(R) => Numbered(R)'
  BY DEF Numbered
<1>3. ChainsAreWhole'
  BY <1>1, <1>2 DEF ChainsAreWhole, Numbered
<1>4. Chain(records)' /\ Numbered(records)'
  BY <1>2 DEF Chain, Numbered
<1> QED
  BY <1>3, <1>4 DEF CheckStandsAtARecord

LEMMA BeginKeeps ==
    ASSUME AuditInv, NEW t \in Txs, NEW plan \in Plans, Begin(t, plan)
    PROVE  AuditInv'
<1> USE DEF AuditInv, Begin
<1> DEFINE x == [pc |-> "open", todo |-> plan, wrote |-> {}]
<1>1. x \in Running /\ x.wrote = {} /\ x.pc = "open" /\ tx' = [tx EXCEPT ![t] = x]
  BY PlansAreSequences DEF Running
<1> HIDE DEF x
<1>2. tx \in [Txs -> Running]
  BY DEF AuditTypeOK, Running, Locks
<1>3. tx' \in [Txs -> Running] /\ tx'[t] = x /\ \A u \in Txs \ {t} : tx'[u] = tx[u]
  BY <1>1, <1>2
<1>4. AuditTypeOK'
  BY <1>3 DEF AuditTypeOK, Running, Locks
<1>5. AppendersHoldTheLog' /\ OutsideNothingIsWritten'
  BY <1>1, <1>3 DEF AppendersHoldTheLog, OutsideNothingIsWritten
<1>6. \A u \in Txs : tx'[u].wrote = tx[u].wrote
  BY <1>1, <1>3 DEF OutsideNothingIsWritten
<1> QED
  BY <1>4, <1>5, <1>6, NothingWrittenKeeps

LEMMA LockKeeps ==
    ASSUME AuditInv, NEW t \in Txs, Lock(t)
    PROVE  AuditInv'
<1> USE DEF AuditInv
<1> DEFINE l == Wants(t)
<1>1. /\ l # NoTx /\ Obtainable(t, l)
      /\ lockedBy' = [lockedBy EXCEPT ![l] = t]
      /\ tx' = [tx EXCEPT ![t].todo = Tail(@), ![t].pc = IF l = Log THEN "appending" ELSE @]
      /\ UNCHANGED <<records, nextId, check, checks>>
  BY DEF Lock
<1>2. tx[t] \in Running /\ tx \in [Txs -> Running]
  BY TxByKind DEF AuditTypeOK, Running, Locks
<1>3. tx[t].todo # <<>> /\ l = Head(tx[t].todo)
  BY <1>1 DEF Wants
<1>4. l \in Locks /\ Tail(tx[t].todo) \in Seq(Locks)
  BY <1>2, <1>3 DEF Running
<1> HIDE DEF l
<1>5. /\ \A u \in Txs \ {t} : tx'[u] = tx[u]
      /\ tx'[t].wrote = tx[t].wrote
      /\ tx'[t].pc = IF l = Log THEN "appending" ELSE tx[t].pc
      /\ tx'[t] \in Running
  BY <1>1, <1>2, <1>4 DEF Running
<1>6. tx' \in [Txs -> Running]
  BY <1>1, <1>2, <1>5
<1>7. AuditTypeOK'
  BY <1>1, <1>4, <1>6 DEF AuditTypeOK, Running, Locks
<1>8. AppendersHoldTheLog'
  BY <1>1, <1>4, <1>5 DEF AppendersHoldTheLog, Obtainable, AuditTypeOK, Locks
<1>9. OutsideNothingIsWritten'
  BY <1>5 DEF OutsideNothingIsWritten
<1> QED
  BY <1>1, <1>5, <1>7, <1>8, <1>9, NothingWrittenKeeps

\* What the end of a transaction does, committed or not.
LEMMA EndedTypes ==
    ASSUME AuditTypeOK, NEW t \in Txs,
           lockedBy' = Released(t),
           tx' = [tx EXCEPT ![t] = [pc |-> "ended", todo |-> <<>>, wrote |-> {}]]
    PROVE  /\ tx' \in [Txs -> Running]
           /\ lockedBy' \in [Locks -> Txs \cup {NoTx}]
           /\ tx'[t].wrote = {} /\ tx'[t].pc = "ended"
           /\ \A u \in Txs \ {t} : tx'[u] = tx[u]
           /\ \A u \in Txs \ {t} : lockedBy[Log] = u => lockedBy'[Log] = u
<1>1. tx \in [Txs -> Running]
  BY DEF AuditTypeOK, Running, Locks
<1> DEFINE x == [pc |-> "ended", todo |-> <<>>, wrote |-> {}]
<1>2. x \in Running /\ x.wrote = {} /\ x.pc = "ended" /\ tx' = [tx EXCEPT ![t] = x]
  BY DEF Running
<1> HIDE DEF x
<1> QED
  BY <1>1, <1>2 DEF AuditTypeOK, Released, Locks

LEMMA RollbackKeeps ==
    ASSUME AuditInv, NEW t \in Txs, Rollback(t)
    PROVE  AuditInv'
<1> USE DEF AuditInv
<1>1. /\ tx' \in [Txs -> Running]
      /\ lockedBy' \in [Locks -> Txs \cup {NoTx}]
      /\ tx'[t].wrote = {} /\ tx'[t].pc = "ended"
      /\ \A u \in Txs \ {t} : tx'[u] = tx[u]
      /\ \A u \in Txs \ {t} : lockedBy[Log] = u => lockedBy'[Log] = u
      /\ UNCHANGED <<records, nextId, check, checks>>
  BY EndedTypes DEF Rollback
<1>2. AuditTypeOK'
  BY <1>1 DEF AuditTypeOK, Running, Locks
<1>3. AppendersHoldTheLog'
  BY <1>1 DEF AppendersHoldTheLog
<1>4. \A u \in Txs : Visible(u)' = IF u = t THEN records ELSE Visible(u)
  BY <1>1 DEF Visible
<1>5. \A R : Numbered(R) => Numbered(R)'
  BY <1>1 DEF Numbered
<1>6. ChainsAreWhole'
  BY <1>4, <1>5 DEF ChainsAreWhole, Numbered
<1>7. Chain(records)' /\ Numbered(records)'
  BY <1>1, <1>5 DEF Chain, Numbered
<1> QED
  BY <1>1, <1>2, <1>3, <1>6, <1>7 DEF CheckStandsAtARecord, OutsideNothingIsWritten

LEMMA CommitKeeps ==
    ASSUME AuditInv, NEW t \in Txs, Commit(t)
    PROVE  AuditInv'
<1> USE DEF AuditInv
<1>1. /\ tx' \in [Txs -> Running]
      /\ lockedBy' \in [Locks -> Txs \cup {NoTx}]
      /\ tx'[t].wrote = {} /\ tx'[t].pc = "ended"
      /\ \A u \in Txs \ {t} : tx'[u] = tx[u]
      /\ \A u \in Txs \ {t} : lockedBy[Log] = u => lockedBy'[Log] = u
      /\ records' = Visible(t) /\ UNCHANGED <<nextId, check, checks>>
  BY EndedTypes DEF Commit, Visible
<1>2. Visible(t) \in SUBSET Record
  BY TxByKind DEF AuditTypeOK, Visible, Running
<1>3. AuditTypeOK'
  BY <1>1, <1>2 DEF AuditTypeOK, Running, Locks
<1>4. AppendersHoldTheLog'
  BY <1>1 DEF AppendersHoldTheLog
<1>5. \A R : Numbered(R) => Numbered(R)'
  BY <1>1 DEF Numbered
<1>6. \A u \in Txs : Visible(u)' \in {Visible(t), Visible(u)}
  <2> SUFFICES ASSUME NEW u \in Txs PROVE Visible(u)' \in {Visible(t), Visible(u)}
    OBVIOUS
  <2>1. CASE u = t \/ tx[u].wrote = {}
    BY <1>1, <2>1 DEF Visible
  <2>2. CASE u # t /\ tx[u].wrote # {}
    <3>1. tx[t].wrote = {}
      BY <2>2 DEF AppendersHoldTheLog
    <3> QED
      BY <1>1, <2>2, <3>1 DEF Visible
  <2> QED
    BY <2>1, <2>2
<1>7. ChainsAreWhole'
  BY <1>5, <1>6 DEF ChainsAreWhole, Numbered
<1>8. Chain(records)' /\ Numbered(records)'
  BY <1>1, <1>5 DEF ChainsAreWhole, Numbered
<1>9. CheckStandsAtARecord' /\ OutsideNothingIsWritten'
  BY <1>1 DEF CheckStandsAtARecord, Visible, OutsideNothingIsWritten
<1> QED
  BY <1>3, <1>4, <1>7, <1>8, <1>9
-----------------------------------------------------------------------------
(***************************************************************************)
(* The verification.                                                       *)
(***************************************************************************)
\* The record behind the one the verification stands at follows it in the chain.
LEMMA NextRecordFollows ==
    ASSUME AuditInv, NEW r \in After, \A q \in After : r.id <= q.id
    PROVE  r.prev = check.prev /\ r.hash = Append(check.prev, r.entry)
<1> USE DEF AuditInv
<1>1. r \in records /\ r.id > check.cursor /\ check.cursor \in Nat
  BY DEF After, AuditTypeOK
<1>2. \A q \in records : q \in Record /\ q.id \in Nat \ {0}
  BY DEF AuditTypeOK, Record
<1>3. PICK p \in records \cup {Genesis} :
         /\ p.id < r.id /\ r.prev = p.hash
         /\ \A q \in records : q.id < r.id => q.id <= p.id
  BY <1>1 DEF Chain
<1>4. PICK c \in records \cup {Genesis} : c.id = check.cursor /\ c.hash = check.prev
  BY DEF CheckStandsAtARecord
<1>5. p.id <= check.cursor
  <2>1. CASE p \in records
    <3>1. p \notin After
      BY <1>1, <1>2, <1>3, <2>1
    <3> QED
      BY <1>1, <1>2, <2>1, <3>1 DEF After
  <2>2. CASE p = Genesis
    BY <1>1, <2>2 DEF Genesis
  <2> QED
    BY <2>1, <2>2
<1>6. CASE c \in records
  <2>1. c.id <= p.id
    BY <1>1, <1>3, <1>4, <1>6
  <2>2. p.id = c.id /\ p \in records
    BY <1>2, <1>4, <1>5, <1>6, <2>1 DEF Genesis
  <2>3. p = c
    BY <1>6, <2>2 DEF Numbered
  <2> QED
    BY <1>1, <1>3, <1>4, <2>3 DEF Chain
<1>7. CASE c = Genesis
  <2>1. p = Genesis
    BY <1>2, <1>4, <1>5, <1>7 DEF Genesis
  <2> QED
    BY <1>1, <1>3, <1>4, <1>7, <2>1 DEF Chain
<1> QED
  BY <1>6, <1>7

LEMMA VerifyKeeps ==
    ASSUME AuditInv, VerifyStart \/ VerifyNext \/ VerifyEnd
    PROVE  AuditInv'
<1> USE DEF AuditInv
<1>1. UNCHANGED <<records, nextId, lockedBy, tx>>
  BY DEF VerifyStart, VerifyNext, VerifyEnd
<1>2. /\ check' \in [state: {"idle", "reading", "whole", "broken"}, cursor: Nat, prev: Seq(Txs)]
      /\ checks' \in Nat
      /\ CheckStandsAtARecord'
  <2>1. CASE VerifyStart
    <3>1. check' = [state |-> "reading", cursor |-> 0, prev |-> <<>>] /\ checks' \in Nat
      BY <2>1 DEF VerifyStart, AuditTypeOK
    <3>2. Genesis.id = 0 /\ Genesis.hash = <<>>
      BY DEF Genesis
    <3>3. CheckStandsAtARecord'
      BY <3>1, <3>2 DEF CheckStandsAtARecord
    <3> QED
      BY <3>1, <3>3
  <2>2. CASE VerifyNext
    <3>1. PICK r \in After :
             /\ \A q \in After : r.id <= q.id
             /\ check' = IF r.prev = check.prev /\ r.hash = Append(check.prev, r.entry)
                         THEN [check EXCEPT !.cursor = r.id, !.prev = r.hash]
                         ELSE [check EXCEPT !.state = "broken"]
      BY <2>2 DEF VerifyNext
    <3>2. check' = [check EXCEPT !.cursor = r.id, !.prev = r.hash]
      BY <3>1, NextRecordFollows
    <3>3. r \in records /\ r.id \in Nat /\ r.hash \in Seq(Txs)
      BY DEF After, AuditTypeOK, Record
    <3> QED
      BY <2>2, <3>2, <3>3 DEF VerifyNext, AuditTypeOK, CheckStandsAtARecord
  <2>3. CASE VerifyEnd
    BY <2>3 DEF VerifyEnd, AuditTypeOK, CheckStandsAtARecord
  <2> QED
    BY <2>1, <2>2, <2>3
<1>3. AuditTypeOK'
  BY <1>1, <1>2 DEF AuditTypeOK
<1>4. \A t \in Txs : Visible(t)' = Visible(t)
  BY <1>1 DEF Visible
<1>5. \A R : Numbered(R) => Numbered(R)'
  BY <1>1 DEF Numbered
<1>6. ChainsAreWhole' /\ Numbered(records)'
  BY <1>1, <1>4, <1>5 DEF ChainsAreWhole, Numbered
<1>7. Chain(records)' /\ AppendersHoldTheLog' /\ OutsideNothingIsWritten'
  BY <1>1 DEF Chain, AppendersHoldTheLog, OutsideNothingIsWritten
<1> QED
  BY <1>2, <1>3, <1>6, <1>7
-----------------------------------------------------------------------------
\* The invariant holds in every reachable state.
THEOREM AuditInvariant == AuditSpec => []AuditInv
<1>1. ASSUME AuditInv, [AuditNext]_auditVars
      PROVE  AuditInv'
  <2>1. CASE UNCHANGED auditVars
    <3>1. AuditTypeOK' /\ AppendersHoldTheLog' /\ OutsideNothingIsWritten'
      BY <1>1, <2>1 DEF AuditInv, auditVars, AuditTypeOK, AppendersHoldTheLog, OutsideNothingIsWritten
    <3> QED
      BY <1>1, <2>1, <3>1, NothingWrittenKeeps DEF auditVars
  <2>2. CASE AuditNext
    BY <1>1, <2>2, BeginKeeps, LockKeeps, AppendAuditKeeps, CommitKeeps, RollbackKeeps,
       VerifyKeeps DEF AuditNext
  <2> QED
    BY <1>1, <2>1, <2>2
<1> QED
  BY <1>1, AuditInitHolds, PTL DEF AuditSpec

\* The log, its sequence, the locks and the verification are what their types say.
THEOREM AuditTypes == AuditSpec => []AuditTypeOK
BY AuditInvariant, PTL DEF AuditInv

\* The log is one chain in the order of its ids (audit.ts appendAudit).
THEOREM AuditLogIsWhole == AuditSpec => []ChainIsWhole
<1>1. AuditInv => ChainIsWhole
  BY DEF AuditInv, Chain, ChainIsWhole
<1> QED
  BY <1>1, AuditInvariant, PTL

\* A verification never reports a break of a log nobody tampered with (verifyAuditChain).
THEOREM VerificationIsSound == AuditSpec => []NoFalseAlarm
<1>1. AuditInv => NoFalseAlarm
  BY DEF AuditInv, CheckStandsAtARecord, NoFalseAlarm
<1> QED
  BY <1>1, AuditInvariant, PTL
-----------------------------------------------------------------------------
(***************************************************************************)
(* Bindings.  The inductive invariant: a token that a request has claimed  *)
(* is spent, or so old that nobody can claim it again, and what a request  *)
(* will publish is what its token attests.                                 *)
(***************************************************************************)

Spent(w) == w \in jti \/ token[w].state = "expired"

\* What a request has claimed, or published.
Claims(p) == post[p].pc = "claimed" \/ published[p] # None
RunOf(p) == IF published[p] # None THEN published[p].run ELSE post[p].run

RequestsHaveTokens ==
    \A p \in Posts :
        /\ post[p].pc \in {"read", "claimed"} => token[post[p].run] # None
        /\ published[p] # None => post[p].pc = "done" /\ token[published[p].run] # None

ClaimsAreSpent == \A p \in Posts : Claims(p) => Spent(RunOf(p))

ClaimsDiffer == \A p, q \in Posts : p # q /\ Claims(p) /\ Claims(q) => RunOf(p) # RunOf(q)

ClaimsMatch ==
    \A p \in Posts : post[p].pc = "claimed" =>
        /\ post[p].row.repo = token[post[p].run].repo
        /\ post[p].row.owner = token[post[p].run].owner

\* A binding that is being given up is there.
UnbindersHaveRows == \A a \in Authors : author[a].pc = "unbind" => binding # None

BindingsInv ==
    /\ BindingsTypeOK
    /\ UnbindersHaveRows
    /\ RequestsHaveTokens
    /\ ClaimsAreSpent
    /\ ClaimsDiffer
    /\ ClaimsMatch
    /\ SourceIsAttested
-----------------------------------------------------------------------------
(***************************************************************************)
(* The records of the tables.                                              *)
(***************************************************************************)
LiveToken == [state: {"valid", "expired"}, repo: Repos, owner: Owners]
PostRow == [pc: {"read", "claimed"}, run: Runs, row: Row]
Source == [run: Runs, repo: Repos, owner: Owners]

LEMMA TokensByKind ==
    ASSUME BindingsTypeOK, NEW w \in Runs, token[w] # None
    PROVE  token[w] \in LiveToken
BY DEF BindingsTypeOK, LiveToken

LEMMA PostsByKind ==
    ASSUME BindingsTypeOK, NEW p \in Posts
    PROVE  /\ post[p] \in PostRow \/ post[p] = Idle \/ post[p] = [pc |-> "done"]
           /\ post[p].pc \in {"read", "claimed"} => post[p] \in PostRow
           /\ post[p] = Idle => post[p].pc = "idle"
BY DEF BindingsTypeOK, PostRow, Idle

LEMMA SourcesByKind ==
    ASSUME BindingsTypeOK, NEW p \in Posts, published[p] # None
    PROVE  published[p] \in Source
BY DEF BindingsTypeOK, Source

LEMMA BindingByKind ==
    ASSUME BindingsTypeOK, binding # None
    PROVE  binding \in Row
BY DEF BindingsTypeOK
-----------------------------------------------------------------------------
LEMMA BindingsInitHolds == BindingsInit => BindingsInv
<1> SUFFICES ASSUME BindingsInit PROVE BindingsInv
  OBVIOUS
<1> USE BindingsAssumption DEF BindingsInit
<1>1. BindingsTypeOK
  BY DEF BindingsTypeOK
<1>2. UnbindersHaveRows /\ RequestsHaveTokens /\ ClaimsMatch /\ SourceIsAttested
  BY DEF UnbindersHaveRows, RequestsHaveTokens, ClaimsMatch, SourceIsAttested, Idle
<1>3. ClaimsAreSpent /\ ClaimsDiffer
  BY DEF ClaimsAreSpent, ClaimsDiffer, Claims, Idle
<1> QED
  BY <1>1, <1>2, <1>3 DEF BindingsInv
-----------------------------------------------------------------------------
(***************************************************************************)
(* Steps of the binding, its author and the deliveries do not touch what a *)
(* workflow has.                                                           *)
(***************************************************************************)
LEMMA WorkflowAlone ==
    ASSUME BindingsInv, BindingsTypeOK', UnbindersHaveRows', UNCHANGED workflow
    PROVE  BindingsInv'
BY DEF BindingsInv, workflow, RequestsHaveTokens, ClaimsAreSpent, ClaimsDiffer, ClaimsMatch,
       SourceIsAttested, Claims, RunOf, Spent

LEMMA TransferKeeps ==
    ASSUME BindingsInv, NEW d \in Deliveries, NEW r \in Repos, NEW o \in Owners,
           Transfer(d, r, o)
    PROVE  BindingsInv'
<1> USE DEF BindingsInv, Transfer, workflow
<1>1. BindingsTypeOK'
  BY DEF BindingsTypeOK
<1> QED
  BY <1>1, WorkflowAlone DEF UnbindersHaveRows

LEMMA FreezeTypes ==
    ASSUME BindingsTypeOK, binding # None, Freeze
    PROVE  binding' \in Row /\ binding' # None
<1>1. binding \in Row
  BY BindingByKind
<1>2. binding' \in Row
  BY <1>1 DEF Freeze, Row
<1>3. binding'.status = "frozen"
  BY <1>1 DEF Freeze, Row
<1> QED
  BY <1>2, <1>3 DEF None

LEMMA DeliverKeeps ==
    ASSUME BindingsInv, NEW d \in Deliveries, Deliver(d)
    PROVE  BindingsInv'
<1> USE DEF BindingsInv
<1>1. hook[d] \in [state: {"sent", "handled"}, repo: Repos]
  BY DEF BindingsTypeOK, Deliver
<1>2. hook' = [hook EXCEPT ![d] = [hook[d] EXCEPT !.state = "handled"]]
  BY DEF Deliver
<1>3. [hook[d] EXCEPT !.state = "handled"] \in [state: {"sent", "handled"}, repo: Repos]
  BY <1>1
<1>4. binding' \in Row \cup {None} /\ (binding # None => binding' # None)
  BY FreezeTypes DEF Deliver, Bound, BindingsTypeOK
<1>5. BindingsTypeOK'
  BY <1>2, <1>3, <1>4 DEF BindingsTypeOK, Deliver, workflow
<1> QED
  BY <1>4, <1>5, WorkflowAlone DEF UnbindersHaveRows, Deliver

LEMMA ScanKeeps ==
    ASSUME BindingsInv, ScanRows \/ ScanList \/ ScanFreeze
    PROVE  BindingsInv'
<1> USE DEF BindingsInv, workflow, github
<1>1. CASE ScanRows
  <2>1. BindingsTypeOK'
    BY <1>1, BindingByKind DEF ScanRows, BindingsTypeOK, Row
  <2> QED
    BY <1>1, <2>1, WorkflowAlone DEF UnbindersHaveRows, ScanRows
<1>2. CASE ScanList
  <2>1. BindingsTypeOK'
    BY <1>2 DEF ScanList, BindingsTypeOK, Idle
  <2> QED
    BY <1>2, <2>1, WorkflowAlone DEF UnbindersHaveRows, ScanList
<1>3. CASE ScanFreeze
  <2>1. binding' \in Row \cup {None} /\ (binding # None => binding' # None)
    BY <1>3, FreezeTypes DEF ScanFreeze, BindingsTypeOK, None
  <2>2. BindingsTypeOK'
    BY <1>3, <2>1 DEF ScanFreeze, BindingsTypeOK
  <2> QED
    BY <1>3, <2>1, <2>2, WorkflowAlone DEF UnbindersHaveRows, ScanFreeze
<1> QED
  BY <1>1, <1>2, <1>3

LEMMA AuthorsByKind ==
    ASSUME BindingsTypeOK, NEW a \in Authors, author[a].pc # "idle"
    PROVE  author[a] \in [pc: {"bind", "rebind", "unbind"}, repo: Repos, owner: Owners]
BY DEF BindingsTypeOK, Idle

LEMMA AuthorReadKeeps ==
    ASSUME BindingsInv, NEW a \in Authors,
           RebindRead(a) \/ UnbindRead(a) \/ \E r \in Repos : BindRead(a, r)
    PROVE  BindingsInv'
<1> USE DEF BindingsInv, workflow, github
<1>1. CASE RebindRead(a) \/ UnbindRead(a)
  <2>1. BindingsTypeOK'
    BY <1>1, BindingByKind DEF RebindRead, UnbindRead, BindingsTypeOK, Row
  <2>2. UnbindersHaveRows'
    BY <1>1 DEF RebindRead, UnbindRead, BindingsTypeOK, UnbindersHaveRows
  <2> QED
    BY <1>1, <2>1, <2>2, WorkflowAlone DEF RebindRead, UnbindRead
<1>2. ASSUME NEW r \in Repos, BindRead(a, r)
      PROVE  BindingsInv'
  <2>1. BindingsTypeOK'
    BY <1>2 DEF BindRead, BindingsTypeOK
  <2>2. UnbindersHaveRows'
    BY <1>2 DEF BindRead, BindingsTypeOK, UnbindersHaveRows
  <2> QED
    BY <1>2, <2>1, <2>2, WorkflowAlone DEF BindRead
<1> QED
  BY <1>1, <1>2

LEMMA AuthorWriteKeeps ==
    ASSUME BindingsInv, NEW a \in Authors, BindWrite(a) \/ RebindWrite(a) \/ UnbindWrite(a)
    PROVE  BindingsInv'
<1> USE DEF BindingsInv, workflow, github
<1>1. author[a] \in [pc: {"bind", "rebind", "unbind"}, repo: Repos, owner: Owners]
  BY AuthorsByKind DEF BindWrite, RebindWrite, UnbindWrite
<1>2. author' = [author EXCEPT ![a] = Idle] /\ UNCHANGED <<github, scan, workflow>>
  BY DEF BindWrite, RebindWrite, UnbindWrite
<1>3. binding' \in Row \cup {None} /\ (binding # None => binding' # None)
  <2>1. CASE BindWrite(a)
    <3> DEFINE row == [status |-> "active", repo |-> author[a].repo, owner |-> author[a].owner]
    <3>1. row \in Row
      BY <1>1 DEF Row
    <3>2. row # None
      <4>1. CASE row = None
        <5>1. row.status = "active" /\ None.status = "none"
          BY DEF None
        <5> QED
          BY <4>1, <5>1
      <4> QED
        BY <4>1
    <3>3. binding' \in {row, binding}
      BY <2>1 DEF BindWrite
    <3> QED
      BY <3>1, <3>2, <3>3 DEF BindingsTypeOK
  <2>2. CASE RebindWrite(a) /\ binding.status # "frozen"
    BY <2>2 DEF RebindWrite, BindingsTypeOK
  <2>3. CASE RebindWrite(a) /\ binding.status = "frozen"
    <3>1. binding \in Row
      BY <2>3, BindingByKind DEF None
    <3>2. binding' = [binding EXCEPT !.status = "active", !.owner = author[a].owner]
      BY <2>3 DEF RebindWrite
    <3>3. binding' \in Row /\ binding'.status = "active"
      BY <1>1, <3>1, <3>2 DEF Row
    <3> QED
      BY <3>3 DEF None
  <2>4. CASE UnbindWrite(a)
    <3>1. binding # None
      BY <2>4 DEF UnbindWrite, UnbindersHaveRows
    <3>2. binding \in Row
      BY <3>1, BindingByKind
    <3>3. binding' \in Row /\ binding'.status = "unbound"
      BY <2>4, <3>2 DEF UnbindWrite, Row
    <3> QED
      BY <3>3 DEF None
  <2> QED
    BY <2>1, <2>2, <2>3, <2>4
<1>4. BindingsTypeOK'
  BY <1>2, <1>3 DEF BindingsTypeOK
<1>5. UnbindersHaveRows'
  BY <1>2, <1>3 DEF UnbindersHaveRows, BindingsTypeOK, Idle
<1> QED
  BY <1>2, <1>4, <1>5, WorkflowAlone
-----------------------------------------------------------------------------
(***************************************************************************)
(* Steps of the tokens and of the requests to publish.                     *)
(***************************************************************************)
LEMMA StartRunKeeps ==
    ASSUME BindingsInv, NEW w \in Runs, NEW r \in Repos, StartRun(w, r)
    PROVE  BindingsInv'
<1> USE DEF BindingsInv, StartRun, github
<1> DEFINE t == [state |-> "valid", repo |-> r, owner |-> ownerOf[r]]
<1>1. t \in LiveToken /\ token' = [token EXCEPT ![w] = t]
  BY DEF BindingsTypeOK, LiveToken
<1>2. \A v \in Runs : token[v] # None => token'[v] = token[v]
  BY <1>1 DEF BindingsTypeOK
<1> HIDE DEF t
<1>3. BindingsTypeOK'
  BY <1>1 DEF BindingsTypeOK, LiveToken
<1>4. \A p \in Posts : /\ post[p].pc \in {"read", "claimed"} => post[p].run \in Runs
                       /\ published[p] # None => published[p].run \in Runs
  BY PostsByKind, SourcesByKind DEF PostRow, Source
<1>5. UnbindersHaveRows' /\ RequestsHaveTokens'
  BY <1>2, <1>4 DEF UnbindersHaveRows, RequestsHaveTokens
<1>6. ClaimsAreSpent'
  BY <1>2, <1>4 DEF ClaimsAreSpent, RequestsHaveTokens, Claims, RunOf, Spent
<1>7. ClaimsDiffer'
  BY DEF ClaimsDiffer, Claims, RunOf
<1>8. ClaimsMatch' /\ SourceIsAttested'
  BY <1>2, <1>4 DEF ClaimsMatch, SourceIsAttested, RequestsHaveTokens
<1> QED
  BY <1>3, <1>5, <1>6, <1>7, <1>8

LEMMA ExpireKeeps ==
    ASSUME BindingsInv, NEW w \in Runs, Expire(w)
    PROVE  BindingsInv'
<1> USE DEF BindingsInv, Expire, github
<1>1. token[w] \in LiveToken
  BY TokensByKind
<1> DEFINE t == [token[w] EXCEPT !.state = "expired"]
<1>2. /\ t \in LiveToken /\ token' = [token EXCEPT ![w] = t]
      /\ t.state = "expired" /\ t.repo = token[w].repo /\ t.owner = token[w].owner
  BY <1>1 DEF LiveToken
<1> HIDE DEF t
<1>3. t # None
  <2>1. "state" \in DOMAIN t
    BY <1>2 DEF LiveToken
  <2>2. "state" \notin DOMAIN None
    BY DEF None
  <2> QED
    BY <2>1, <2>2
<1>4. \A v \in Runs : /\ token[v] # None => token'[v] # None
                      /\ token'[v].repo = token[v].repo /\ token'[v].owner = token[v].owner
                      /\ token[v].state = "expired" => token'[v].state = "expired"
  BY <1>2, <1>3 DEF BindingsTypeOK
<1>5. BindingsTypeOK'
  BY <1>2 DEF BindingsTypeOK, LiveToken
<1>6. \A p \in Posts : /\ post[p].pc \in {"read", "claimed"} => post[p].run \in Runs
                       /\ published[p] # None => published[p].run \in Runs
  BY PostsByKind, SourcesByKind DEF PostRow, Source
<1>7. UnbindersHaveRows' /\ RequestsHaveTokens'
  BY <1>4, <1>6 DEF UnbindersHaveRows, RequestsHaveTokens
<1>8. ClaimsAreSpent'
  BY <1>4, <1>6 DEF ClaimsAreSpent, Claims, RunOf, Spent
<1>9. ClaimsDiffer'
  BY DEF ClaimsDiffer, Claims, RunOf
<1>10. ClaimsMatch' /\ SourceIsAttested'
  BY <1>4, <1>6 DEF ClaimsMatch, SourceIsAttested
<1> QED
  BY <1>5, <1>7, <1>8, <1>9, <1>10

LEMMA PostReadKeeps ==
    ASSUME BindingsInv, NEW p \in Posts, NEW w \in Runs, PostRead(p, w)
    PROVE  BindingsInv'
<1> USE DEF BindingsInv, PostRead, github
<1>1. binding \in Row
  BY BindingByKind DEF Bound
<1> DEFINE x == [pc |-> "read", run |-> w, row |-> binding]
<1>2. /\ x \in PostRow /\ x.pc = "read" /\ x.run = w
      /\ post' = [post EXCEPT ![p] = x]
  BY <1>1 DEF PostRow
<1> HIDE DEF x
<1>3. BindingsTypeOK'
  BY <1>2 DEF BindingsTypeOK, PostRow
<1>4. published[p] = None /\ post[p].pc = "idle"
  BY DEF RequestsHaveTokens, Idle
<1>5. \A q \in Posts : q # p => post'[q] = post[q]
  BY <1>2 DEF BindingsTypeOK
<1>6. post'[p] = x
  BY <1>2 DEF BindingsTypeOK
<1>7. UnbindersHaveRows' /\ RequestsHaveTokens'
  BY <1>2, <1>4, <1>5, <1>6 DEF UnbindersHaveRows, RequestsHaveTokens
<1>8. \A q \in Posts : Claims(q)' => Claims(q) /\ RunOf(q)' = RunOf(q)
  BY <1>2, <1>4, <1>5, <1>6 DEF Claims, RunOf
<1>9. ClaimsAreSpent' /\ ClaimsDiffer'
  BY <1>8 DEF ClaimsAreSpent, ClaimsDiffer, Spent
<1>10. ClaimsMatch' /\ SourceIsAttested'
  BY <1>2, <1>5, <1>6 DEF ClaimsMatch, SourceIsAttested
<1> QED
  BY <1>3, <1>7, <1>9, <1>10

\* A request that ends takes no token with it.
LEMMA EndKeeps ==
    ASSUME BindingsInv, NEW p \in Posts, Finish(p),
           UNCHANGED <<github, binding, author, scan, token, jti, published>>,
           post[p].pc \in {"read", "claimed"}
    PROVE  BindingsInv'
<1> USE DEF BindingsInv, github, Finish
<1>1. BindingsTypeOK'
  BY DEF BindingsTypeOK
<1>2. published[p] = None
  BY DEF RequestsHaveTokens
<1>3. \A q \in Posts : q # p => post'[q] = post[q]
  BY DEF BindingsTypeOK
<1>4. post'[p].pc = "done"
  BY DEF BindingsTypeOK
<1>5. UnbindersHaveRows' /\ RequestsHaveTokens'
  BY <1>2, <1>3, <1>4 DEF UnbindersHaveRows, RequestsHaveTokens
<1>6. \A q \in Posts : Claims(q)' => Claims(q) /\ RunOf(q)' = RunOf(q)
  BY <1>2, <1>3, <1>4 DEF Claims, RunOf
<1>7. ClaimsAreSpent' /\ ClaimsDiffer'
  BY <1>6 DEF ClaimsAreSpent, ClaimsDiffer, Spent
<1>8. ClaimsMatch' /\ SourceIsAttested'
  BY <1>3, <1>4 DEF ClaimsMatch, SourceIsAttested
<1> QED
  BY <1>1, <1>5, <1>7, <1>8

LEMMA PostClaimKeeps ==
    ASSUME BindingsInv, NEW p \in Posts, PostClaim(p)
    PROVE  BindingsInv'
<1> USE DEF BindingsInv, PostClaim, github
<1> DEFINE w == post[p].run
           x == [post[p] EXCEPT !.pc = "claimed"]
           claim == token[w].state = "valid" /\ MatchBinding(token[w], post[p].row) /\ w \notin jti
<1>1. CASE ~claim
  BY <1>1, EndKeeps
<1>2. CASE claim
  <2>1. post[p] \in PostRow
    BY PostsByKind
  <2>2. /\ x \in PostRow /\ x.pc = "claimed" /\ x.run = w /\ x.row = post[p].row
        /\ w \in Runs
    BY <2>1 DEF PostRow
  <2>3. post' = [post EXCEPT ![p] = x] /\ jti' = jti \cup {w}
    BY <1>2
  <2>4. token[w].state = "valid" /\ MatchBinding(token[w], post[p].row) /\ w \notin jti
    BY <1>2
  <2> HIDE DEF x, claim
  <2>5. BindingsTypeOK'
    BY <2>2, <2>3 DEF BindingsTypeOK, PostRow
  <2>6. published[p] = None /\ token[w] # None
    BY DEF RequestsHaveTokens
  <2>7. (\A q \in Posts : q # p => post'[q] = post[q]) /\ post'[p] = x
    BY <2>3 DEF BindingsTypeOK
  <2>8. UnbindersHaveRows' /\ RequestsHaveTokens'
    BY <2>2, <2>6, <2>7 DEF UnbindersHaveRows, RequestsHaveTokens
  <2>9. /\ \A q \in Posts \ {p} : Claims(q)' => Claims(q) /\ RunOf(q)' = RunOf(q)
        /\ RunOf(p)' = w
    BY <2>2, <2>6, <2>7 DEF Claims, RunOf
  <2>10. ~Spent(w)
    BY <2>4 DEF Spent
  <2>11. \A q \in Posts \ {p} : Claims(q) => RunOf(q) # w
    BY <2>10 DEF ClaimsAreSpent
  <2>12. ClaimsAreSpent'
    BY <2>3, <2>9 DEF ClaimsAreSpent, Spent
  <2>13. ClaimsDiffer'
    BY <2>9, <2>11 DEF ClaimsDiffer
  <2>14. ClaimsMatch' /\ SourceIsAttested'
    BY <2>2, <2>4, <2>7 DEF ClaimsMatch, SourceIsAttested, MatchBinding
  <2> QED
    BY <2>5, <2>8, <2>12, <2>13, <2>14
<1> QED
  BY <1>1, <1>2

LEMMA PostPublishKeeps ==
    ASSUME BindingsInv, NEW p \in Posts, PostPublish(p)
    PROVE  BindingsInv'
<1> USE DEF BindingsInv, PostPublish, github
<1>1. CASE UNCHANGED published
  BY <1>1, EndKeeps
<1>2. CASE published' # published
  <2> DEFINE x == [run |-> post[p].run, repo |-> post[p].row.repo, owner |-> post[p].row.owner]
  <2>1. post[p] \in PostRow
    BY PostsByKind
  <2>2. /\ x \in Source /\ x.run = post[p].run
        /\ x.repo = post[p].row.repo /\ x.owner = post[p].row.owner
    BY <2>1 DEF PostRow, Source, Row
  <2>3. published' = [published EXCEPT ![p] = x]
    BY <1>2
  <2> HIDE DEF x
  <2>4. BindingsTypeOK'
    BY <2>2, <2>3 DEF BindingsTypeOK, Source, Finish
  <2>5. published[p] = None /\ token[post[p].run] # None
    BY DEF RequestsHaveTokens
  <2>6. /\ \A q \in Posts : q # p => post'[q] = post[q] /\ published'[q] = published[q]
        /\ published'[p] = x /\ post'[p].pc = "done"
    BY <2>3 DEF BindingsTypeOK, Finish
  <2>7. UnbindersHaveRows' /\ RequestsHaveTokens'
    BY <2>2, <2>5, <2>6 DEF UnbindersHaveRows, RequestsHaveTokens
  <2>8. Claims(p) /\ RunOf(p) = post[p].run
    BY <2>5 DEF Claims, RunOf
  <2>9. x # None
    <3>1. published'[p] # published[p]
      BY <1>2, <2>3 DEF BindingsTypeOK
    <3> QED
      BY <2>5, <2>6, <3>1
  <2>10. \A q \in Posts : Claims(q)' => Claims(q) /\ RunOf(q)' = RunOf(q)
    BY <2>2, <2>6, <2>8, <2>9 DEF Claims, RunOf
  <2>11. ClaimsAreSpent' /\ ClaimsDiffer'
    BY <2>10 DEF ClaimsAreSpent, ClaimsDiffer, Spent
  <2>12. ClaimsMatch' /\ SourceIsAttested'
    BY <2>2, <2>6 DEF ClaimsMatch, SourceIsAttested
  <2> QED
    BY <2>4, <2>7, <2>11, <2>12
<1> QED
  BY <1>1, <1>2

LEMMA CleanupKeeps ==
    ASSUME BindingsInv, NEW w \in Runs, Cleanup(w)
    PROVE  BindingsInv'
<1> USE DEF BindingsInv, Cleanup, github
<1>1. BindingsTypeOK'
  BY DEF BindingsTypeOK
<1>2. \A v : Spent(v) => Spent(v)'
  BY DEF Spent
<1>3. ClaimsAreSpent'
  BY <1>2 DEF ClaimsAreSpent, Claims, RunOf
<1>4. UnbindersHaveRows' /\ RequestsHaveTokens' /\ ClaimsDiffer' /\ ClaimsMatch'
      /\ SourceIsAttested'
  BY DEF UnbindersHaveRows, RequestsHaveTokens, ClaimsDiffer, Claims, RunOf, ClaimsMatch,
         SourceIsAttested
<1> QED
  BY <1>1, <1>3, <1>4
-----------------------------------------------------------------------------
\* The invariant holds in every reachable state.
THEOREM BindingsInvariant == BindingsSpec => []BindingsInv
<1>1. ASSUME BindingsInv, [BindingsNext]_bindingsVars
      PROVE  BindingsInv'
  <2>1. CASE UNCHANGED bindingsVars
    BY <1>1, <2>1, WorkflowAlone
       DEF BindingsInv, bindingsVars, workflow, github, BindingsTypeOK, UnbindersHaveRows
  <2>2. CASE BindingsNext
    BY <1>1, <2>2, TransferKeeps, DeliverKeeps, ScanKeeps, AuthorReadKeeps, AuthorWriteKeeps,
       StartRunKeeps, ExpireKeeps, PostReadKeeps, PostClaimKeeps, PostPublishKeeps, CleanupKeeps
       DEF BindingsNext
  <2> QED
    BY <1>1, <2>1, <2>2
<1> QED
  BY <1>1, BindingsInitHolds, PTL DEF BindingsSpec

\* The tables hold rows of the types their schemas say (github/bindings.ts, github/jti.ts).
THEOREM BindingsTypes == BindingsSpec => []BindingsTypeOK
BY BindingsInvariant, PTL DEF BindingsInv

\* A token is exchanged once, whichever of its requests comes first and although its record
\* is cleaned up (oidc/github.ts, github/jti.ts, worker/cleanup.ts).
THEOREM TokensAreUsedOnce == BindingsSpec => []TokenUsedOnce
<1>1. BindingsInv => TokenUsedOnce
  BY DEF BindingsInv, ClaimsDiffer, Claims, RunOf, TokenUsedOnce
<1> QED
  BY <1>1, BindingsInvariant, PTL

\* The source a release records is the one GitHub attests (oidc/github.ts, oidc-publish.ts).
THEOREM SourcesAreAttested == BindingsSpec => []SourceIsAttested
BY BindingsInvariant, PTL DEF BindingsInv

\* What the author confirmed is frozen again only by a delivery not handled before or by a
\* list from before a transfer (events.ts recordDelivery, freezeOnOwnerMismatch).
THEOREM ConfirmationsStand == BindingsSpec => ConfirmedStands
<1> USE DEF FrozenAgain, NewsOfTransfer
<1>1. ASSUME BindingsInv, [BindingsNext]_bindingsVars, FrozenAgain
      PROVE  NewsOfTransfer
  <2>1. BindingsTypeOK /\ binding \in Row
    BY <1>1, BindingByKind DEF BindingsInv
  <2>2. binding' # binding
    BY <1>1
  <2>3. BindingsNext
    BY <1>1, <2>2 DEF bindingsVars
  <2>4. ASSUME NEW d \in Deliveries, Deliver(d)
        PROVE  NewsOfTransfer
    <3>1. RecordDelivery(d) /\ Bound(hook[d].repo) /\ hook[d] # None
      BY <2>2, <2>4 DEF Deliver
    <3>2. hook[d] \in [state: {"sent", "handled"}, repo: Repos]
      BY <2>1, <3>1 DEF BindingsTypeOK
    <3>3. hook'[d].state = "handled"
      BY <2>1, <2>4, <3>2 DEF Deliver, BindingsTypeOK
    <3> QED
      BY <3>1, <3>3 DEF RecordDelivery, Bound
  <2>5. CASE ScanFreeze
    BY <1>1, <2>2, <2>5 DEF ScanFreeze
  <2>6. ASSUME NEW a \in Authors, BindWrite(a) \/ RebindWrite(a) \/ UnbindWrite(a)
        PROVE  FALSE
    <3>1. CASE BindWrite(a)
      BY <1>1, <2>2, <3>1 DEF BindWrite
    <3>2. CASE RebindWrite(a)
      BY <1>1, <2>2, <3>2 DEF RebindWrite
    <3>3. CASE UnbindWrite(a)
      BY <1>1, <2>1, <3>3 DEF UnbindWrite, Row
    <3> QED
      BY <2>6, <3>1, <3>2, <3>3
  <2> QED
    BY <2>2, <2>3, <2>4, <2>5, <2>6
       DEF BindingsNext, Transfer, ScanRows, ScanList, RebindRead, UnbindRead, BindRead, StartRun,
           Expire, PostRead, PostClaim, PostPublish, Cleanup
<1> HIDE DEF FrozenAgain, NewsOfTransfer
<1>2. BindingsInv /\ [BindingsNext]_bindingsVars => [FrozenAgain => NewsOfTransfer]_bindingsVars
  BY <1>1
<1> QED
  BY <1>2, BindingsInvariant, PTL DEF BindingsSpec, ConfirmedStands
=============================================================================
