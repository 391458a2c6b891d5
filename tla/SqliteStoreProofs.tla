------------------------- MODULE SqliteStoreProofs -------------------------
(***************************************************************************)
(* The safety of SqliteStore for every set of requests, processes and      *)
(* legacy ledgers.                                                         *)
(*                                                                         *)
(* The argument: while a transaction runs it holds the write lock          *)
(* (LockHeld), so the table cannot move under the snapshot it reads        *)
(* (SnapshotCurrent); hence the lookup's miss, the position it read and    *)
(* the row it staged still say the truth about the table when it commits   *)
(* (WorkCurrent).                                                          *)
(***************************************************************************)
EXTENDS SqliteStore, FiniteSetTheorems, TLAPS

LockHeld == \A r \in Requests : pc[r] \in InTransaction => writer = r

SnapshotCurrent == \A r \in Requests : pc[r] \in InTransaction => seen[r] = rows

WorkCurrent ==
  \A r \in Requests :
    /\ pc[r] \in InTransaction \cup {"begin"} => ask[r].op = "append"
    /\ pc[r] = "read" => ask[r].op \in {"list", "get"}
    /\ pc[r] \in {"position", "insert", "commit"} => Prior(rows, ask[r]) = {}
    /\ pc[r] \in {"insert", "commit"} => ask[r].legal
    /\ pc[r] = "insert" => position[r] = Cardinality(rows) + 1
    /\ pc[r] = "commit" => staged[r] = {Mint(ask[r], Cardinality(rows) + 1)}

AnswersTrue ==
  /\ DOMAIN answer = Requests
  /\ \A r \in Requests : pc[r] = "idle" => answer[r] = Unanswered
  /\ AnswersAreOnTheRegister
  /\ FailuresAreExternal

IInv ==
  /\ TypeOK
  /\ RegisterContinuous
  /\ OnePourPerStart
  /\ LockHeld
  /\ SnapshotCurrent
  /\ WorkCurrent
  /\ AnswersTrue

(***************************************************************************)
(* An append among the allowed calls is an Append in every field.          *)
(***************************************************************************)
LEMMA AppendAsk ==
  ASSUME NEW a \in Allowed, a.op = "append"
  PROVE  a \in Appends
  BY AllowedAssumption DEF Asks, Appends, Lists, Gets

(***************************************************************************)
(* Every call is an append or a read.                                      *)
(***************************************************************************)
LEMMA AskOp ==
  ASSUME NEW a \in Allowed, a.op # "append"
  PROVE  a.op \in {"list", "get"}
  BY AllowedAssumption DEF Asks, Appends, Lists, Gets

(***************************************************************************)
(* A minted row is a Row.                                                  *)
(***************************************************************************)
LEMMA MintIsRow ==
  ASSUME NEW a \in Allowed, a.op = "append", NEW p \in Nat \ {0}
  PROVE  Mint(a, p) \in Row
<1>1. a \in Appends  BY AppendAsk
<1>2. Seed[a.tier, a.start, a.claim] \in Nat
  BY <1>1, SeedAssumption DEF Appends
<1> QED  BY <1>1, <1>2 DEF Mint, Row, Appends

(***************************************************************************)
(* MAX(ledger_position) + 1 is the count plus one on a continuous table.   *)
(***************************************************************************)
LEMMA NextPositionIsCount ==
  ASSUME NEW table, IsFiniteSet(table), Continuous(table)
  PROVE  NextPosition(table) = Cardinality(table) + 1
<1> DEFINE n == Cardinality(table)
<1>1. n \in Nat  BY FS_CardinalityType
<1>2. Positions(table) = 1..n  BY DEF Continuous
<1>3. n \in (1..n) \cup {0} /\ \A p \in 1..n : p <= n  BY <1>1
<1>4. \A m \in (1..n) \cup {0} : (\A p \in 1..n : p <= m) => m = n  BY <1>1
<1> QED  BY <1>2, <1>3, <1>4 DEF NextPosition

(***************************************************************************)
(* A row at the next position keeps the table finite and continuous.       *)
(***************************************************************************)
LEMMA NextRowKeepsContinuous ==
  ASSUME NEW table, IsFiniteSet(table), Continuous(table),
         NEW row, row.position = Cardinality(table) + 1
  PROVE  /\ row \notin table
         /\ IsFiniteSet(table \cup {row})
         /\ Cardinality(table \cup {row}) = Cardinality(table) + 1
         /\ Continuous(table \cup {row})
<1> DEFINE n == Cardinality(table)
<1>1. n \in Nat  BY FS_CardinalityType
<1>2. Positions(table) = 1..n  BY DEF Continuous
<1>3. \A other \in table : other.position # row.position
  BY <1>1, <1>2 DEF Positions
<1>4. row \notin table  BY <1>3
<1>5. IsFiniteSet(table \cup {row}) /\ Cardinality(table \cup {row}) = n + 1
  BY <1>4, FS_AddElement
<1>6. Positions(table \cup {row}) = 1..(n + 1)
  <2>1. Positions(table \cup {row}) = Positions(table) \cup {row.position}
    BY DEF Positions
  <2>2. Positions(table \cup {row}) = (1..n) \cup {n + 1}
    BY <2>1, <1>2
  <2>3. \A k \in Nat : (1..k) \cup {k + 1} = 1..(k + 1)
    OBVIOUS
  <2> QED  BY <2>2, <2>3, <1>1
<1> QED  BY <1>3, <1>4, <1>5, <1>6 DEF Continuous

(***************************************************************************)
(* No row of a continuous table holds the next position.                   *)
(***************************************************************************)
LEMMA FreshPosition ==
  ASSUME NEW table, IsFiniteSet(table), Continuous(table)
  PROVE  \A other \in table : other.position # Cardinality(table) + 1
<1>1. Cardinality(table) \in Nat  BY FS_CardinalityType
<1>2. Positions(table) = 1..Cardinality(table)  BY DEF Continuous
<1>3. \A other \in table : other.position \in 1..Cardinality(table)
  BY <1>2 DEF Positions
<1>4. Cardinality(table) + 1 \notin 1..Cardinality(table)  BY <1>1
<1> QED  BY <1>3, <1>4

(***************************************************************************)
(* The store starts in the invariant.                                      *)
(***************************************************************************)
LEMMA InitIInv == Init => IInv
<1> SUFFICES ASSUME Init PROVE IInv
  OBVIOUS
<1> USE DEF Init
<1>1. TypeOK
  <2>1. (CHOOSE a \in Allowed : TRUE) \in Allowed  BY AllowedAssumption
  <2> QED  BY <2>1, LegacyAssumption DEF TypeOK, PCs
<1>2. RegisterContinuous  BY LegacyAssumption DEF RegisterContinuous
<1>3. OnePourPerStart  BY DEF OnePourPerStart
<1>4. LockHeld /\ SnapshotCurrent /\ WorkCurrent
  BY DEF LockHeld, SnapshotCurrent, WorkCurrent, InTransaction
<1>5. AnswersTrue
  BY DEF AnswersTrue, AnswersAreOnTheRegister, FailuresAreExternal, Unanswered
<1> QED  BY <1>1, <1>2, <1>3, <1>4, <1>5 DEF IInv

(***************************************************************************)
(* Giving up, for a cause outside the store, keeps the invariant.          *)
(***************************************************************************)
LEMMA GiveUpIInv ==
  ASSUME IInv, NEW r \in Requests,
         NEW why \in {"cancelled", "busy", "disk"}, GiveUp(r, why)
  PROVE  IInv'
<1> USE DEF IInv, GiveUp
<1>1. TypeOK'  BY DEF TypeOK, PCs
<1>2. RegisterContinuous' /\ OnePourPerStart'
  BY DEF RegisterContinuous, OnePourPerStart
<1>3. LockHeld' /\ SnapshotCurrent' /\ WorkCurrent'
  BY DEF LockHeld, SnapshotCurrent, WorkCurrent, InTransaction, TypeOK
<1>4. AnswersTrue'
  BY DEF AnswersTrue, AnswersAreOnTheRegister, FailuresAreExternal, Failed,
     TypeOK
<1> QED  BY <1>1, <1>2, <1>3, <1>4

(***************************************************************************)
(* Every step of the store keeps the invariant: the steps of the process   *)
(* and of the pool first, then the statements of the transaction.          *)
(***************************************************************************)
LEMMA NextIInv == IInv /\ [Next]_vars => IInv'
<1> SUFFICES ASSUME IInv, [Next]_vars PROVE IInv'
  OBVIOUS
<1> USE DEF IInv
<1>1. ASSUME NEW s \in Servers, Open(s) PROVE IInv'
  BY <1>1 DEF Open, TypeOK, RegisterContinuous, OnePourPerStart, LockHeld,
     SnapshotCurrent, WorkCurrent, AnswersTrue, AnswersAreOnTheRegister,
     FailuresAreExternal
<1>2. ASSUME NEW s \in Servers, Crash(s) PROVE IInv'
  <2> USE <1>2 DEF Crash, InFlight
  <2>1. TypeOK'  BY DEF TypeOK, PCs
  <2>2. RegisterContinuous' /\ OnePourPerStart'
    BY DEF RegisterContinuous, OnePourPerStart
  <2>3. LockHeld' /\ SnapshotCurrent' /\ WorkCurrent'
    BY DEF LockHeld, SnapshotCurrent, WorkCurrent, InTransaction, TypeOK
  <2>4. AnswersTrue'
    BY DEF AnswersTrue, AnswersAreOnTheRegister, FailuresAreExternal
  <2> QED  BY <2>1, <2>2, <2>3, <2>4
<1>3. ASSUME NEW r \in Requests, NEW a \in Allowed, Call(r, a) PROVE IInv'
  <2> USE <1>3 DEF Call
  <2>1. TypeOK'  BY DEF TypeOK, PCs, Working
  <2>2. RegisterContinuous' /\ OnePourPerStart'
    BY DEF RegisterContinuous, OnePourPerStart
  <2>3. LockHeld' /\ SnapshotCurrent' /\ WorkCurrent'
    BY DEF LockHeld, SnapshotCurrent, WorkCurrent, InTransaction, TypeOK
  <2>4. AnswersTrue'
    BY DEF AnswersTrue, AnswersAreOnTheRegister, FailuresAreExternal, TypeOK,
       Unanswered
  <2> QED  BY <2>1, <2>2, <2>3, <2>4
<1>4. ASSUME NEW r \in Requests, TakeConn(r) PROVE IInv'
  <2> USE <1>4 DEF TakeConn
  <2>1. TypeOK'  BY DEF TypeOK, PCs, Working
  <2>5. ask[r].op # "append" => ask[r].op \in {"list", "get"}  BY AskOp DEF TypeOK
  <2>2. RegisterContinuous' /\ OnePourPerStart'
    BY DEF RegisterContinuous, OnePourPerStart
  <2>3. LockHeld' /\ SnapshotCurrent' /\ WorkCurrent'
    BY <2>5 DEF LockHeld, SnapshotCurrent, WorkCurrent, InTransaction, TypeOK
  <2>4. AnswersTrue'
    BY DEF AnswersTrue, AnswersAreOnTheRegister, FailuresAreExternal, TypeOK
  <2> QED  BY <2>1, <2>2, <2>3, <2>4
<1>5. ASSUME NEW r \in Requests, Read(r) PROVE IInv'
  <2> USE <1>5 DEF Read
  <2>1. TypeOK'  BY DEF TypeOK, PCs
  <2>2. RegisterContinuous' /\ OnePourPerStart'
    BY DEF RegisterContinuous, OnePourPerStart
  <2>3. LockHeld' /\ SnapshotCurrent' /\ WorkCurrent'
    BY DEF LockHeld, SnapshotCurrent, WorkCurrent, InTransaction, TypeOK
  <2>4. ReadAnswer(rows, ask[r]).result \in {"listed", "found", "notfound"}
    BY DEF ReadAnswer
  <2>5. AnswersTrue'
    BY <2>4 DEF AnswersTrue, AnswersAreOnTheRegister, FailuresAreExternal, TypeOK
  <2> QED  BY <2>1, <2>2, <2>3, <2>5
<1>6. ASSUME NEW r \in Requests, Begin(r) PROVE IInv'
  <2> USE <1>6 DEF Begin
  <2>1. TypeOK'  BY DEF TypeOK, PCs, Working, InTransaction
  <2>2. RegisterContinuous' /\ OnePourPerStart'
    BY DEF RegisterContinuous, OnePourPerStart
  <2>3. \A q \in Requests : pc[q] \notin InTransaction
    BY NobodyAssumption DEF LockHeld
  <2>4. LockHeld' /\ SnapshotCurrent' /\ WorkCurrent'
    BY <2>3 DEF LockHeld, SnapshotCurrent, WorkCurrent, InTransaction, TypeOK
  <2>5. AnswersTrue'
    BY DEF AnswersTrue, AnswersAreOnTheRegister, FailuresAreExternal, TypeOK
  <2> QED  BY <2>1, <2>2, <2>4, <2>5
<1>7. ASSUME NEW r \in Requests, LookupMiss(r) PROVE IInv'
  <2> USE <1>7 DEF LookupMiss
  <2>1. TypeOK'  BY DEF TypeOK, PCs, Working, InTransaction
  <2>2. RegisterContinuous' /\ OnePourPerStart'
    BY DEF RegisterContinuous, OnePourPerStart
  <2>3. LockHeld' /\ SnapshotCurrent' /\ WorkCurrent'
    BY DEF LockHeld, SnapshotCurrent, WorkCurrent, InTransaction, TypeOK
  <2>4. AnswersTrue'
    BY DEF AnswersTrue, AnswersAreOnTheRegister, FailuresAreExternal, TypeOK
  <2> QED  BY <2>1, <2>2, <2>3, <2>4
<1>8. ASSUME NEW r \in Requests, LookupHit(r) PROVE IInv'
  <2> USE <1>8 DEF LookupHit
  <2>1. PICK row \in Prior(seen[r], ask[r]) :
          answer' = [answer EXCEPT ![r] =
                       IF row.tier = ask[r].tier THEN Replayed(row) ELSE Conflict]
    OBVIOUS
  <2>2. row \in Prior(rows, ask[r]) /\ row \in rows
    BY <2>1 DEF SnapshotCurrent, InTransaction, Prior
  <2>3. TypeOK'  BY DEF TypeOK, PCs
  <2>4. RegisterContinuous' /\ OnePourPerStart'
    BY DEF RegisterContinuous, OnePourPerStart
  <2>5. LockHeld' /\ SnapshotCurrent' /\ WorkCurrent'
    BY DEF LockHeld, SnapshotCurrent, WorkCurrent, InTransaction, TypeOK
  <2>6. AnswersTrue'
    BY <2>1, <2>2 DEF AnswersTrue, AnswersAreOnTheRegister, FailuresAreExternal,
       TypeOK, Replayed, Conflict
  <2> QED  BY <2>3, <2>4, <2>5, <2>6
<1>9. ASSUME NEW r \in Requests, ReadPosition(r) PROVE IInv'
  <2> USE <1>9 DEF ReadPosition
  <2>1. seen[r] = rows  BY DEF SnapshotCurrent, InTransaction
  <2>2. NextPosition(rows) = Cardinality(rows) + 1 /\ Cardinality(rows) \in Nat
    BY NextPositionIsCount, FS_CardinalityType DEF RegisterContinuous, TypeOK
  <2>3. TypeOK'  BY <2>1, <2>2 DEF TypeOK, PCs, Working, InTransaction
  <2>4. RegisterContinuous' /\ OnePourPerStart'
    BY DEF RegisterContinuous, OnePourPerStart
  <2>5. LockHeld' /\ SnapshotCurrent' /\ WorkCurrent'
    BY <2>1, <2>2 DEF LockHeld, SnapshotCurrent, WorkCurrent, InTransaction, TypeOK
  <2>6. AnswersTrue'
    BY DEF AnswersTrue, AnswersAreOnTheRegister, FailuresAreExternal, TypeOK
  <2> QED  BY <2>3, <2>4, <2>5, <2>6
<1>10. ASSUME NEW r \in Requests, MintRefuses(r) PROVE IInv'
  <2> USE <1>10 DEF MintRefuses
  <2>1. TypeOK'  BY DEF TypeOK, PCs
  <2>2. RegisterContinuous' /\ OnePourPerStart'
    BY DEF RegisterContinuous, OnePourPerStart
  <2>3. LockHeld' /\ SnapshotCurrent' /\ WorkCurrent'
    BY DEF LockHeld, SnapshotCurrent, WorkCurrent, InTransaction, TypeOK
  <2>4. AnswersTrue'
    BY DEF AnswersTrue, AnswersAreOnTheRegister, FailuresAreExternal, TypeOK, Rejected
  <2> QED  BY <2>1, <2>2, <2>3, <2>4
<1>11. ASSUME NEW r \in Requests, Insert(r) PROVE IInv'
  <2> DEFINE row == Mint(ask[r], position[r])
  <2>1. pc[r] = "insert"  BY <1>11 DEF Insert
  <2>2. /\ writer = r /\ seen[r] = rows /\ ask[r].op = "append"
        /\ Prior(rows, ask[r]) = {}
        /\ position[r] = Cardinality(rows) + 1
    BY <2>1 DEF LockHeld, SnapshotCurrent, WorkCurrent, InTransaction
  <2>3. Cardinality(rows) \in Nat  BY FS_CardinalityType DEF TypeOK
  <2>4. row \in Row /\ row.position = Cardinality(rows) + 1
    <3>1. row \in Row  BY <2>2, <2>3, MintIsRow DEF TypeOK
    <3>2. row.position = position[r]  BY DEF Mint
    <3> QED  BY <3>1, <3>2, <2>2
  <2>5. Constraints(rows, row)
    <3>1. \A other \in rows : other.position # row.position
      BY <2>3, <2>4, FreshPosition DEF RegisterContinuous, TypeOK
    <3>2. \A other \in rows : IdOf(other) # IdOf(row) /\ SerialOf(other) # SerialOf(row)
      BY <3>1 DEF IdOf, SerialOf
    <3>3. \A other \in rows : <<other.owner, other.start>> # <<row.owner, row.start>>
      BY <2>2 DEF Prior, Mint
    <3> QED  BY <3>1, <3>2, <3>3 DEF Constraints
  <2>6. /\ staged' = [staged EXCEPT ![r] = {row}]
        /\ writer' = r
        /\ pc' = [pc EXCEPT ![r] = "commit"]
        /\ UNCHANGED <<rows, indexed, up, conn, ask, seen, position, answer>>
    BY <1>11, <2>2, <2>5 DEF Insert
  <2>7. TypeOK'
    BY <2>4, <2>6 DEF TypeOK, PCs, Working, InTransaction
  <2>8. RegisterContinuous' /\ OnePourPerStart'
    BY <2>6 DEF RegisterContinuous, OnePourPerStart
  <2>9. LockHeld' /\ SnapshotCurrent' /\ WorkCurrent'
    BY <2>1, <2>2, <2>6 DEF LockHeld, SnapshotCurrent, WorkCurrent, InTransaction, TypeOK
  <2>10. AnswersTrue'
    BY <2>6 DEF AnswersTrue, AnswersAreOnTheRegister, FailuresAreExternal, TypeOK
  <2> QED  BY <2>7, <2>8, <2>9, <2>10
<1>12. ASSUME NEW r \in Requests, Commit(r) PROVE IInv'
  <2> DEFINE row == Mint(ask[r], Cardinality(rows) + 1)
  <2> USE <1>12 DEF Commit
  <2>1. /\ writer = r /\ ask[r].op = "append" /\ Prior(rows, ask[r]) = {}
        /\ staged[r] = {row}
    BY DEF LockHeld, WorkCurrent, InTransaction
  <2>2. Cardinality(rows) \in Nat  BY FS_CardinalityType DEF TypeOK
  <2>3. row \in Row  BY <2>1, <2>2, MintIsRow DEF TypeOK
  <2>4. /\ row.position = Cardinality(rows) + 1
        /\ row.owner = ask[r].owner /\ row.start = ask[r].start /\ row.tier = ask[r].tier
    BY DEF Mint
  <2>5. rows' = rows \cup {row} /\ answer' = [answer EXCEPT ![r] = Minted(row)]
    BY <2>1
  <2> HIDE DEF row
  <2>6. IsFiniteSet(rows') /\ RegisterContinuous'
    BY <2>4, <2>5, NextRowKeepsContinuous DEF RegisterContinuous, TypeOK
  <2>7. TypeOK'
    BY <2>3, <2>5, <2>6 DEF TypeOK, PCs
  <2>8. OnePourPerStart'
    BY <2>1, <2>4, <2>5 DEF OnePourPerStart, StartsUnique, Prior
  <2>9. \A q \in Requests : q # r => pc'[q] = pc[q] /\ pc[q] \notin InTransaction
    BY <2>1 DEF LockHeld, TypeOK
  <2>10. pc'[r] = "return"  BY DEF TypeOK
  <2>11. LockHeld' /\ SnapshotCurrent' /\ WorkCurrent'
    BY <2>9, <2>10 DEF LockHeld, SnapshotCurrent, WorkCurrent, InTransaction
  <2>12. AnswersTrue'
    BY <2>3, <2>4, <2>5, <2>10 DEF AnswersTrue, AnswersAreOnTheRegister,
       FailuresAreExternal, TypeOK, Minted, Prior
  <2> QED  BY <2>6, <2>7, <2>8, <2>11, <2>12
<1>13. ASSUME NEW r \in Requests, Rollback(r) PROVE IInv'
  <2> USE <1>13 DEF Rollback, Leave
  <2>1. TypeOK'  BY DEF TypeOK, PCs
  <2>2. RegisterContinuous' /\ OnePourPerStart'
    BY DEF RegisterContinuous, OnePourPerStart
  <2>3. LockHeld' /\ SnapshotCurrent' /\ WorkCurrent'
    BY DEF LockHeld, SnapshotCurrent, WorkCurrent, InTransaction, TypeOK
  <2>4. AnswersTrue'
    BY DEF AnswersTrue, AnswersAreOnTheRegister, FailuresAreExternal, TypeOK
  <2> QED  BY <2>1, <2>2, <2>3, <2>4
<1>14. ASSUME NEW r \in Requests, Return(r) PROVE IInv'
  <2> USE <1>14 DEF Return, Leave
  <2>1. TypeOK'  BY DEF TypeOK, PCs
  <2>2. RegisterContinuous' /\ OnePourPerStart'
    BY DEF RegisterContinuous, OnePourPerStart
  <2>3. LockHeld' /\ SnapshotCurrent' /\ WorkCurrent'
    BY DEF LockHeld, SnapshotCurrent, WorkCurrent, InTransaction, TypeOK
  <2>4. AnswersTrue'
    BY DEF AnswersTrue, AnswersAreOnTheRegister, FailuresAreExternal, TypeOK
  <2> QED  BY <2>1, <2>2, <2>3, <2>4
<1>15. ASSUME NEW r \in Requests,
              BusyTimeout(r) \/ StatementFails(r) \/ Cancel(r)
       PROVE  IInv'
  BY <1>15, GiveUpIInv DEF BusyTimeout, StatementFails, Cancel
<1>16. ASSUME UNCHANGED vars PROVE IInv'
  BY <1>16 DEF vars, TypeOK, RegisterContinuous, OnePourPerStart, LockHeld,
     SnapshotCurrent, WorkCurrent, AnswersTrue, AnswersAreOnTheRegister,
     FailuresAreExternal
<1> QED
  BY <1>1, <1>2, <1>3, <1>4, <1>5, <1>6, <1>7, <1>8, <1>9, <1>10, <1>11, <1>12,
     <1>13, <1>14, <1>15, <1>16 DEF Next, Step

(***************************************************************************)
(* The store never leaves the invariant.                                   *)
(***************************************************************************)
THEOREM Invariance == Spec => []IInv
<1> QED  BY InitIInv, NextIInv, PTL DEF Spec

(***************************************************************************)
(* TypeOK holds for any number of requests and server processes.           *)
(***************************************************************************)
THEOREM TypeCorrect == Spec => []TypeOK
<1>1. IInv => TypeOK  BY DEF IInv
<1> QED  BY <1>1, Invariance, PTL

(***************************************************************************)
(* The register stays continuous, whatever runs at once, fails or dies.    *)
(***************************************************************************)
THEOREM RegisterStaysContinuous == Spec => []RegisterContinuous
<1>1. IInv => RegisterContinuous  BY DEF IInv
<1> QED  BY <1>1, Invariance, PTL

(***************************************************************************)
(* Minting is idempotent on (owner, start) once the store has opened.      *)
(***************************************************************************)
THEOREM MintIsIdempotent == Spec => []OnePourPerStart
<1>1. IInv => OnePourPerStart  BY DEF IInv
<1> QED  BY <1>1, Invariance, PTL

(***************************************************************************)
(* A row a visitor was told of is in the file and stays there.             *)
(***************************************************************************)
THEOREM AnswersAreDurable == Spec => []AnswersAreOnTheRegister
<1>1. IInv => AnswersAreOnTheRegister  BY DEF IInv, AnswersTrue
<1> QED  BY <1>1, Invariance, PTL

(***************************************************************************)
(* No append ever fails on a UNIQUE column or on a refused lock upgrade.   *)
(***************************************************************************)
THEOREM ContentionNeverFails == Spec => []FailuresAreExternal
<1>1. IInv => FailuresAreExternal  BY DEF IInv, AnswersTrue
<1> QED  BY <1>1, Invariance, PTL

(***************************************************************************)
(* The register only gains the next row, one at a time.                    *)
(***************************************************************************)
THEOREM RegisterExtends == Spec => RegisterOnlyExtends
<1>1. IInv /\ [Next]_vars =>
        (rows' # rows =>
           \E row \in rows' : /\ rows' = rows \cup {row}
                              /\ row.position = Cardinality(rows) + 1)
  <2> SUFFICES ASSUME IInv, [Next]_vars, rows' # rows
               PROVE  \E row \in rows' : /\ rows' = rows \cup {row}
                                         /\ row.position = Cardinality(rows) + 1
    OBVIOUS
  <2>1. PICK r \in Requests : Commit(r)
    BY DEF Next, vars, Step, Open, Crash, Call, TakeConn, Read, Begin, LookupMiss,
       LookupHit, ReadPosition, MintRefuses, Insert, GiveUp, Rollback, Return, Leave,
       BusyTimeout, StatementFails, Cancel
  <2>2. staged[r] = {Mint(ask[r], Cardinality(rows) + 1)}
    BY <2>1 DEF Commit, IInv, WorkCurrent
  <2>3. Mint(ask[r], Cardinality(rows) + 1).position = Cardinality(rows) + 1
    BY DEF Mint
  <2>4. rows' = rows \cup {Mint(ask[r], Cardinality(rows) + 1)}
    BY <2>1, <2>2 DEF Commit
  <2> QED  BY <2>3, <2>4
<1> QED  BY <1>1, Invariance, PTL DEF Spec, RegisterOnlyExtends

-----------------------------------------------------------------------------
(***************************************************************************)
(* The refinement: the ledger's phase of a request, read off its pc.       *)
(***************************************************************************)
AbstractPhase == [q \in Requests |-> Phase(q)]

PhaseOf(x) ==
  IF x = "idle" THEN "idle"
  ELSE IF x \in Working THEN "asked"
  ELSE IF x \in {"rollback", "return"} THEN "decided"
  ELSE IF x = "done" THEN "answered" ELSE "lost"

(***************************************************************************)
(* The refinement mapping's CASE, as a function of the statement.          *)
(***************************************************************************)
LEMMA PhaseIs ==
  ASSUME TypeOK, NEW q \in Requests
  PROVE  Phase(q) = PhaseOf(pc[q])
  BY DEF TypeOK, PCs, Phase, PhaseOf, Working, InTransaction

(***************************************************************************)
(* A step of one request moves its abstract phase and no other.            *)
(***************************************************************************)
LEMMA PhaseMoves ==
  ASSUME TypeOK, TypeOK', NEW r \in Requests, NEW x \in PCs,
         pc' = [pc EXCEPT ![r] = x]
  PROVE  AbstractPhase' = [AbstractPhase EXCEPT ![r] = PhaseOf(x)]
<1>1. \A q \in Requests : Phase(q) = PhaseOf(pc[q])  BY PhaseIs
<1>2. \A q \in Requests : Phase(q)' = PhaseOf(pc[q])'
  BY DEF TypeOK, PCs, Phase, PhaseOf, Working, InTransaction
<1>3. \A q \in Requests : pc'[q] = IF q = r THEN x ELSE pc[q]  BY DEF TypeOK
<1>4. \A q \in Requests : Phase(q)' = IF q = r THEN PhaseOf(x) ELSE Phase(q)
  BY <1>1, <1>2, <1>3 DEF PhaseOf
<1> QED  BY <1>4 DEF AbstractPhase

Simulated == Promise!Next \/ UNCHANGED Promise!vars

(***************************************************************************)
(* The instance counts sets as this module does.                           *)
(***************************************************************************)
LEMMA SameCount == \A S : Promise!Cardinality(S) = Cardinality(S)
  BY DEF Promise!Cardinality, Cardinality

(***************************************************************************)
(* The instance chooses as this module does.                               *)
(***************************************************************************)
LEMMA SameChoice == \A S : Promise!AnyOf(S) = AnyOf(S)
  BY DEF Promise!AnyOf, AnyOf

(***************************************************************************)
(* The store starts where the ledger starts.                               *)
(***************************************************************************)
LEMMA InitRefines == Init => Promise!Init
<1> SUFFICES ASSUME Init PROVE Promise!Init
  OBVIOUS
<1>1. \A q \in Requests : Phase(q) = "idle"
  BY InitIInv, PhaseIs DEF Init, PhaseOf, IInv
<1> QED  BY <1>1 DEF Init, Promise!Init, Promise!Unanswered, Unanswered

(***************************************************************************)
(* Waiting, beginning, looking and reading the position change nothing     *)
(* the ledger shows.                                                       *)
(***************************************************************************)
LEMMA QuietStep ==
  ASSUME TypeOK, TypeOK', NEW r \in Requests, NEW x \in Working, pc[r] \in Working,
         pc' = [pc EXCEPT ![r] = x], UNCHANGED <<rows, ask, answer>>
  PROVE  Simulated
<1>1. x \in PCs  BY DEF PCs
<1>2. PhaseOf(x) = "asked" /\ AbstractPhase[r] = "asked"
  BY PhaseIs DEF PhaseOf, AbstractPhase, Working, InTransaction
<1>3. AbstractPhase' = [AbstractPhase EXCEPT ![r] = "asked"]  BY <1>1, <1>2, PhaseMoves
<1>4. AbstractPhase' = AbstractPhase  BY <1>2, <1>3 DEF AbstractPhase
<1> QED  BY <1>4 DEF Simulated, Promise!vars, AbstractPhase

(***************************************************************************)
(* A step that fixes the answer is the ledger's deciding instant.          *)
(***************************************************************************)
LEMMA DecidingStep ==
  ASSUME TypeOK, TypeOK', NEW r \in Requests, NEW x \in {"rollback", "return"},
         pc[r] \in Working, pc' = [pc EXCEPT ![r] = x], UNCHANGED ask,
         NEW told, answer' = [answer EXCEPT ![r] = told]
  PROVE  Promise!Decide(r, told)
<1>1. x \in PCs  BY DEF PCs
<1>2. PhaseOf(x) = "decided" /\ AbstractPhase[r] = "asked"
  BY PhaseIs DEF PhaseOf, AbstractPhase, Working, InTransaction
<1>3. AbstractPhase' = [AbstractPhase EXCEPT ![r] = "decided"]  BY <1>1, <1>2, PhaseMoves
<1> QED  BY <1>2, <1>3 DEF Promise!Decide, AbstractPhase

(***************************************************************************)
(* Giving up is a failure the ledger allows, and records nothing.          *)
(***************************************************************************)
LEMMA GiveUpRefines ==
  ASSUME TypeOK, TypeOK', NEW r \in Requests, pc[r] \in Working,
         NEW why \in Causes, GiveUp(r, why)
  PROVE  Simulated
<1>1. Promise!Decide(r, Failed(why))  BY DecidingStep DEF GiveUp
<1>2. Promise!Fail(r)  BY <1>1 DEF Promise!Fail, GiveUp, Promise!Causes, Promise!Failed, Causes, Failed
<1> QED  BY <1>2 DEF Simulated, Promise!Next

(***************************************************************************)
(* Rolling back and returning only hand over what was decided.             *)
(***************************************************************************)
LEMMA AnsweringStep ==
  ASSUME TypeOK, TypeOK', NEW r \in Requests, pc[r] \in {"rollback", "return"},
         pc' = [pc EXCEPT ![r] = "done"], UNCHANGED <<rows, ask, answer>>
  PROVE  Simulated
<1>1. AbstractPhase[r] = "decided"
  BY PhaseIs DEF PhaseOf, AbstractPhase, Working, InTransaction
<1>2. AbstractPhase' = [AbstractPhase EXCEPT ![r] = "answered"]
  BY PhaseMoves DEF PCs, PhaseOf, Working, InTransaction
<1>3. Promise!Answer(r)  BY <1>1, <1>2 DEF Promise!Answer, AbstractPhase
<1> QED  BY <1>3 DEF Simulated, Promise!Next

(***************************************************************************)
(* Every step of the store is a step of the ledger or a stutter.           *)
(***************************************************************************)
LEMMA NextRefines == IInv /\ IInv' /\ [Next]_vars => Simulated
<1> SUFFICES ASSUME IInv, IInv', [Next]_vars PROVE Simulated
  OBVIOUS
<1> USE DEF IInv
<1>1. ASSUME NEW s \in Servers, Open(s) PROVE Simulated
  BY <1>1 DEF Open, Simulated, Promise!vars, Phase
<1>2. ASSUME NEW s \in Servers, Crash(s) PROVE Simulated
  <2> DEFINE dying == {r \in Requests : Home[r] = s /\ InFlight(r)}
  <2>1. pc' = [r \in Requests |-> IF r \in dying THEN "lost" ELSE pc[r]]
        /\ UNCHANGED <<rows, ask, answer>>
    BY <1>2 DEF Crash
  <2>2. \A r \in dying : Phase(r) \in {"asked", "decided"}
    BY PhaseIs DEF PhaseOf, InFlight, TypeOK, PCs
  <2>3. \A r \in Requests : Phase(r)' = IF r \in dying THEN "lost" ELSE Phase(r)
    <3>1. \A r \in Requests : Phase(r)' = PhaseOf(pc'[r])
      BY DEF TypeOK, PCs, Phase, PhaseOf, Working, InTransaction
    <3>2. PhaseOf("lost") = "lost"  BY DEF PhaseOf, Working, InTransaction
    <3> QED  BY <2>1, <3>1, <3>2, PhaseIs
  <2>4. Promise!Lose(dying)
    BY <2>1, <2>2, <2>3 DEF Promise!Lose
  <2> QED  BY <2>4 DEF Simulated, Promise!Next
<1>3. ASSUME NEW r \in Requests, NEW a \in Allowed, Call(r, a) PROVE Simulated
  <2>1. AbstractPhase[r] = "idle"
    BY <1>3, PhaseIs DEF Call, AbstractPhase, PhaseOf
  <2>2. AbstractPhase' = [AbstractPhase EXCEPT ![r] = "asked"]
    BY <1>3, PhaseMoves DEF Call, PCs, PhaseOf, Working, InTransaction
  <2>3. Promise!Ask(r, a)
    BY <1>3, <2>1, <2>2 DEF Call, Promise!Ask, AbstractPhase
  <2> QED  BY <2>3 DEF Simulated, Promise!Next
<1>4. ASSUME NEW r \in Requests,
             TakeConn(r) \/ Begin(r) \/ LookupMiss(r) \/ ReadPosition(r)
      PROVE  Simulated
  BY <1>4, QuietStep DEF TakeConn, Begin, LookupMiss, ReadPosition, Working, InTransaction
<1>5. ASSUME NEW r \in Requests, Read(r) PROVE Simulated
  <2>1. Promise!Decide(r, ReadAnswer(rows, ask[r]))
    BY <1>5, DecidingStep DEF Read, Working
  <2>2. Promise!ReadAnswer(rows, ask[r]) = ReadAnswer(rows, ask[r])
    <3>1. \A o : Promise!Owned(rows, o) = Owned(rows, o)
      BY DEF Promise!Owned, Owned
    <3>2. \A S : Promise!NewestFirst(S) = NewestFirst(S)
      <4>1. \A S, i : Promise!Ranked(S, i) = Ranked(S, i)
        BY SameCount DEF Promise!Ranked, Ranked
      <4> QED  BY <4>1, SameCount, SameChoice DEF Promise!NewestFirst, NewestFirst
    <3>3. \A a : Promise!Hits(rows, a) = Hits(rows, a)
      BY <3>1 DEF Promise!Hits, Hits, Promise!IdOf, IdOf
    <3>4. CASE ask[r].op = "list"
      BY <3>4, <3>1, <3>2 DEF Promise!ReadAnswer, ReadAnswer
    <3>5. CASE ask[r].op # "list"
      BY <3>5, <3>3, SameChoice DEF Promise!ReadAnswer, ReadAnswer
    <3> QED  BY <3>4, <3>5
  <2>3. Promise!Read(r)
    BY <1>5, <2>1, <2>2 DEF Promise!Read, Read, WorkCurrent
  <2> QED  BY <2>3 DEF Simulated, Promise!Next
<1>6. ASSUME NEW r \in Requests, LookupHit(r) PROVE Simulated
  <2>1. PICK row \in Prior(seen[r], ask[r]) :
          answer' = [answer EXCEPT ![r] =
                       IF row.tier = ask[r].tier THEN Replayed(row) ELSE Conflict]
    BY <1>6 DEF LookupHit
  <2>2. row \in Prior(rows, ask[r]) /\ ask[r].op = "append"
    BY <1>6, <2>1 DEF LookupHit, SnapshotCurrent, WorkCurrent, InTransaction
  <2>3. Promise!Decide(r, IF row.tier = ask[r].tier THEN Replayed(row) ELSE Conflict)
    BY <1>6, <2>1, DecidingStep DEF LookupHit, Working, InTransaction
  <2>4. Promise!Replay(r)
    BY <1>6, <2>2, <2>3 DEF Promise!Replay, LookupHit, Promise!Prior, Prior,
       Promise!Replayed, Replayed, Promise!Conflict, Conflict
  <2> QED  BY <2>4 DEF Simulated, Promise!Next
<1>7. ASSUME NEW r \in Requests, MintRefuses(r) PROVE Simulated
  <2>1. Promise!Decide(r, Rejected)
    BY <1>7, DecidingStep DEF MintRefuses, Working, InTransaction
  <2>2. ask[r].op = "append" /\ Prior(rows, ask[r]) = {} /\ ~ask[r].legal
    BY <1>7 DEF MintRefuses, WorkCurrent, InTransaction
  <2>3. Promise!Reject(r)
    BY <1>7, <2>1, <2>2 DEF Promise!Reject, MintRefuses, Promise!Prior, Prior,
       Promise!Rejected, Rejected
  <2> QED  BY <2>3 DEF Simulated, Promise!Next
<1>8. ASSUME NEW r \in Requests, Insert(r) PROVE Simulated
  <2>1. CASE GiveUp(r, "upgrade") \/ GiveUp(r, "constraint")
    BY <1>8, <2>1, GiveUpRefines DEF Insert, Working, InTransaction, Causes
  <2>2. CASE pc' = [pc EXCEPT ![r] = "commit"] /\ UNCHANGED <<rows, ask, answer>>
    BY <1>8, <2>2, QuietStep DEF Insert, Working, InTransaction
  <2> QED  BY <1>8, <2>1, <2>2 DEF Insert
<1>9. ASSUME NEW r \in Requests, Commit(r) PROVE Simulated
  <2> DEFINE row == Mint(ask[r], Cardinality(rows) + 1)
  <2>1. /\ ask[r].op = "append" /\ Prior(rows, ask[r]) = {} /\ ask[r].legal
        /\ staged[r] = {row}
    BY <1>9 DEF Commit, WorkCurrent, InTransaction
  <2>2. rows' = rows \cup {row} /\ answer' = [answer EXCEPT ![r] = Minted(row)]
    BY <1>9, <2>1 DEF Commit
  <2>3. Promise!Decide(r, Minted(row))
    BY <1>9, <2>2, DecidingStep DEF Commit, Working, InTransaction
  <2>4. Promise!MintNew(r)
    BY <2>1, <2>2, <2>3, SameCount DEF Promise!MintNew, Promise!Prior, Prior,
       Promise!Minted, Minted, Promise!Mint, Mint
  <2> QED  BY <2>4 DEF Simulated, Promise!Next
<1>10. ASSUME NEW r \in Requests, Rollback(r) \/ Return(r) PROVE Simulated
  BY <1>10, AnsweringStep DEF Rollback, Return, Leave
<1>11. ASSUME NEW r \in Requests,
              BusyTimeout(r) \/ StatementFails(r) \/ Cancel(r)
       PROVE  Simulated
  BY <1>11, GiveUpRefines
     DEF BusyTimeout, StatementFails, Cancel, Working, InTransaction, Causes
<1>12. ASSUME UNCHANGED vars PROVE Simulated
  BY <1>12 DEF vars, Simulated, Promise!vars, Phase
<1> QED
  BY <1>1, <1>2, <1>3, <1>4, <1>5, <1>6, <1>7, <1>8, <1>9, <1>10, <1>11, <1>12
     DEF Next, Step

(***************************************************************************)
(* The SQLite store implements the Store interface's atomic ledger.        *)
(***************************************************************************)
THEOREM StoreKeepsPromise == Spec => KeepsPromise
<1>1. IInv /\ IInv' /\ [Next]_vars => [Promise!Next]_(Promise!vars)
  BY NextRefines DEF Simulated
<1> QED  BY <1>1, InitRefines, Invariance, PTL DEF Spec, KeepsPromise, Promise!Spec
=============================================================================
