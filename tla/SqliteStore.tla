---------------------------- MODULE SqliteStore ----------------------------
(***************************************************************************)
(* api/pour/sqlite.go: the ledger on a SQLite file, statement by           *)
(* statement.  Each server process owns a pool of one connection           *)
(* (SetMaxOpenConns(1)); several processes may open the same file.  A      *)
(* request is a goroutine inside Append, List or Get; its context may be   *)
(* cancelled while it waits or works, and its process may be killed.       *)
(*                                                                         *)
(* The file (rows, indexed) outlives processes; everything else does not.  *)
(* SQLite itself is modelled by its documented behaviour under WAL: a      *)
(* transaction reads one snapshot, BEGIN IMMEDIATE takes the write lock,   *)
(* busy_timeout turns a contended lock into a wait that may give up.       *)
(***************************************************************************)
EXTENDS Pours

CONSTANTS
  Servers,
  Home,       \* Home[r]: the server process that runs request r
  Nobody

ASSUME HomeAssumption == Home \in [Requests -> Servers]
ASSUME NobodyAssumption == Nobody \notin Requests

VARIABLES
  rows,       \* the committed table
  indexed,    \* pours_owner_start exists
  up,         \* up[s]: process s has opened the store
  conn,       \* conn[s]: the request holding s's only connection
  writer,     \* the request whose transaction holds SQLite's write lock
  pc,         \* pc[r]: the statement request r is at
  ask,
  seen,       \* seen[r]: the rows its transaction reads
  position,   \* position[r]: the ledger position it read
  staged,     \* staged[r]: what it inserted and has not committed
  answer

durable == <<rows, indexed>>
vars == <<rows, indexed, up, conn, writer, pc, ask, seen, position, staged, answer>>

InTransaction == {"lookup", "position", "insert", "commit"}
Working == {"conn", "begin", "read"} \cup InTransaction
PCs == {"idle", "rollback", "return", "done", "lost"} \cup Working

Init ==
  /\ rows \in Legacies
  /\ indexed  = FALSE
  /\ up       = [s \in Servers |-> FALSE]
  /\ conn     = [s \in Servers |-> Nobody]
  /\ writer   = Nobody
  /\ pc       = [r \in Requests |-> "idle"]
  /\ ask      = [r \in Requests |-> CHOOSE a \in Allowed : TRUE]
  /\ seen     = [r \in Requests |-> {}]
  /\ position = [r \in Requests |-> 0]
  /\ staged   = [r \in Requests |-> {}]
  /\ answer   = [r \in Requests |-> Unanswered]

\* Mutant: a failure to build the index is ignored, and the store comes up.
OpenAnyway(s) ==
  /\ ~up[s]
  /\ indexed' = (indexed \/ StartsUnique(rows))
  /\ up' = [up EXCEPT ![s] = TRUE]
  /\ UNCHANGED <<rows, conn, writer, pc, ask, seen, position, staged, answer>>

\* Mutant: the schema is created afresh on every open.
OpenFresh(s) ==
  /\ ~up[s]
  /\ rows' = {}
  /\ indexed' = TRUE
  /\ up' = [up EXCEPT ![s] = TRUE]
  /\ UNCHANGED <<conn, writer, pc, ask, seen, position, staged, answer>>

(***************************************************************************)
(* NewSQLiteStore.  The schema is created if missing; the unique index     *)
(* will not build over duplicate starts, and then the store does not open. *)
(***************************************************************************)
Open(s) ==
  /\ ~up[s]
  /\ indexed \/ StartsUnique(rows)
  /\ indexed' = TRUE
  /\ up' = [up EXCEPT ![s] = TRUE]
  /\ UNCHANGED <<rows, conn, writer, pc, ask, seen, position, staged, answer>>

(***************************************************************************)
(* A handler calls the store and waits for the pool's connection.          *)
(***************************************************************************)
Call(r, a) ==
  /\ pc[r] = "idle"
  /\ up[Home[r]]
  /\ pc' = [pc EXCEPT ![r] = "conn"]
  /\ ask' = [ask EXCEPT ![r] = a]
  /\ UNCHANGED <<rows, indexed, up, conn, writer, seen, position, staged, answer>>

TakeConn(r) ==
  /\ pc[r] = "conn"
  /\ conn[Home[r]] = Nobody
  /\ conn' = [conn EXCEPT ![Home[r]] = r]
  /\ pc' = [pc EXCEPT ![r] = IF ask[r].op = "append" THEN "begin" ELSE "read"]
  /\ UNCHANGED <<rows, indexed, up, writer, ask, seen, position, staged, answer>>

(***************************************************************************)
(* List and Get: one statement over the committed table.                   *)
(***************************************************************************)
Read(r) ==
  /\ pc[r] = "read"
  /\ pc' = [pc EXCEPT ![r] = "return"]
  /\ answer' = [answer EXCEPT ![r] = ReadAnswer(rows, ask[r])]
  /\ UNCHANGED <<rows, indexed, up, conn, writer, ask, seen, position, staged>>

\* Mutant: BEGIN without _txlock=immediate.
BeginDeferred(r) ==
  /\ pc[r] = "begin"
  /\ seen' = [seen EXCEPT ![r] = rows]
  /\ pc' = [pc EXCEPT ![r] = "lookup"]
  /\ UNCHANGED <<rows, indexed, up, conn, writer, ask, position, staged, answer>>

(***************************************************************************)
(* BEGIN IMMEDIATE: the write lock and a snapshot, or a wait of up to      *)
(* busy_timeout, after which the call fails.                               *)
(***************************************************************************)
Begin(r) ==
  /\ pc[r] = "begin"
  /\ writer = Nobody
  /\ writer' = r
  /\ seen' = [seen EXCEPT ![r] = rows]
  /\ pc' = [pc EXCEPT ![r] = "lookup"]
  /\ UNCHANGED <<rows, indexed, up, conn, ask, position, staged, answer>>

GiveUp(r, why) ==
  /\ pc' = [pc EXCEPT ![r] = "rollback"]
  /\ answer' = [answer EXCEPT ![r] = Failed(why)]
  /\ UNCHANGED <<rows, indexed, up, conn, writer, ask, seen, position, staged>>

BusyTimeout(r) ==
  /\ pc[r] = "begin"
  /\ writer # Nobody
  /\ GiveUp(r, "busy")

(***************************************************************************)
(* The replay lookup, inside the transaction.                              *)
(***************************************************************************)
LookupMiss(r) ==
  /\ pc[r] = "lookup"
  /\ Prior(seen[r], ask[r]) = {}
  /\ pc' = [pc EXCEPT ![r] = "position"]
  /\ UNCHANGED <<rows, indexed, up, conn, writer, ask, seen, position, staged, answer>>

\* Mutant: a replay is answered whatever tier it names.
LookupHitAnyTier(r) ==
  /\ pc[r] = "lookup"
  /\ \E row \in Prior(seen[r], ask[r]) :
       answer' = [answer EXCEPT ![r] = Replayed(row)]
  /\ pc' = [pc EXCEPT ![r] = "rollback"]
  /\ UNCHANGED <<rows, indexed, up, conn, writer, ask, seen, position, staged>>

LookupHit(r) ==
  /\ pc[r] = "lookup"
  /\ \E row \in Prior(seen[r], ask[r]) :
       answer' = [answer EXCEPT ![r] =
                    IF row.tier = ask[r].tier THEN Replayed(row) ELSE Conflict]
  /\ pc' = [pc EXCEPT ![r] = "rollback"]
  /\ UNCHANGED <<rows, indexed, up, conn, writer, ask, seen, position, staged>>

\* Mutant: COALESCE(MAX(...), 0), without the + 1.
NextPositionTaken(table) ==
  CHOOSE m \in Positions(table) \cup {0} : \A p \in Positions(table) : p <= m

\* Mutant: COALESCE(MAX(...), 1) + 1.
NextPositionFromOne(table) ==
  1 + CHOOSE m \in Positions(table) \cup {1} :
        \A p \in Positions(table) \cup {1} : p <= m

(***************************************************************************)
(* SELECT COALESCE(MAX(ledger_position), 0) + 1, then mint(position).      *)
(***************************************************************************)
NextPosition(table) ==
  1 + CHOOSE m \in Positions(table) \cup {0} :
        \A p \in Positions(table) : p <= m

ReadPosition(r) ==
  /\ pc[r] = "position"
  /\ ask[r].legal
  /\ position' = [position EXCEPT ![r] = NextPosition(seen[r])]
  /\ pc' = [pc EXCEPT ![r] = "insert"]
  /\ UNCHANGED <<rows, indexed, up, conn, writer, ask, seen, staged, answer>>

MintRefuses(r) ==
  /\ pc[r] = "position"
  /\ ~ask[r].legal
  /\ pc' = [pc EXCEPT ![r] = "rollback"]
  /\ answer' = [answer EXCEPT ![r] = Rejected]
  /\ UNCHANGED <<rows, indexed, up, conn, writer, ask, seen, position, staged>>

(***************************************************************************)
(* INSERT: every UNIQUE column, and the start index where there is one,    *)
(* are checked against the table as it is.  The statement needs the write  *)
(* lock; a transaction that must still take it, and finds it held or its   *)
(* snapshot old, fails at once.                                            *)
(***************************************************************************)
Constraints(table, row) ==
  \A other \in table : /\ IdOf(other) # IdOf(row)
                       /\ other.position # row.position
                       /\ SerialOf(other) # SerialOf(row)
                       /\ indexed => <<other.owner, other.start>> # <<row.owner, row.start>>

Insert(r) ==
  /\ pc[r] = "insert"
  /\ LET row == Mint(ask[r], position[r])
     IN IF writer \notin {Nobody, r} \/ seen[r] # rows THEN GiveUp(r, "upgrade")
        ELSE IF ~Constraints(rows, row) THEN GiveUp(r, "constraint")
        ELSE /\ staged' = [staged EXCEPT ![r] = {row}]
             /\ writer' = r
             /\ pc' = [pc EXCEPT ![r] = "commit"]
             /\ UNCHANGED <<rows, indexed, up, conn, ask, seen, position, answer>>

Commit(r) ==
  /\ pc[r] = "commit"
  /\ rows' = rows \cup staged[r]
  /\ writer' = Nobody
  /\ \E row \in staged[r] : answer' = [answer EXCEPT ![r] = Minted(row)]
  /\ staged' = [staged EXCEPT ![r] = {}]
  /\ pc' = [pc EXCEPT ![r] = "return"]
  /\ UNCHANGED <<indexed, up, conn, ask, seen, position>>

(***************************************************************************)
(* A statement fails below SQLite, or the request's context ends: waiting  *)
(* or in the transaction, never once COMMIT has been sent.                 *)
(***************************************************************************)
StatementFails(r) ==
  /\ pc[r] \in {"begin", "read"} \cup InTransaction
  /\ GiveUp(r, "disk")

\* Mutant: the context is checked once more after COMMIT.
CancelLate(r) ==
  /\ pc[r] \in Working \cup {"return"}
  /\ GiveUp(r, "cancelled")

Cancel(r) ==
  /\ pc[r] \in Working
  /\ GiveUp(r, "cancelled")

(***************************************************************************)
(* The deferred Rollback, and the connection back to the pool.             *)
(***************************************************************************)
Leave(r) ==
  /\ conn' = [conn EXCEPT ![Home[r]] = IF conn[Home[r]] = r THEN Nobody ELSE @]
  /\ pc' = [pc EXCEPT ![r] = "done"]
  /\ seen' = [seen EXCEPT ![r] = {}]
  /\ position' = [position EXCEPT ![r] = 0]
  /\ UNCHANGED <<rows, indexed, up, ask, answer>>

Rollback(r) ==
  /\ pc[r] = "rollback"
  /\ staged' = [staged EXCEPT ![r] = {}]
  /\ writer' = IF writer = r THEN Nobody ELSE writer
  /\ Leave(r)

\* Mutant: the connection is not given back (no rows.Close).
ReturnLeaking(r) ==
  /\ pc[r] = "return"
  /\ pc' = [pc EXCEPT ![r] = "done"]
  /\ UNCHANGED <<rows, indexed, up, conn, writer, ask, seen, position, staged, answer>>

Return(r) ==
  /\ pc[r] = "return"
  /\ Leave(r)
  /\ UNCHANGED <<writer, staged>>

(***************************************************************************)
(* The process is killed.  SQLite recovers the WAL on the next open:       *)
(* what was committed is there, what was not is gone.                      *)
(***************************************************************************)
InFlight(r) == pc[r] \notin {"idle", "done", "lost"}

Crash(s) ==
  LET dying == {r \in Requests : Home[r] = s /\ InFlight(r)}
  IN /\ up[s]
     /\ up' = [up EXCEPT ![s] = FALSE]
     /\ conn' = [conn EXCEPT ![s] = Nobody]
     /\ writer' = IF writer \in dying THEN Nobody ELSE writer
     /\ pc' = [r \in Requests |-> IF r \in dying THEN "lost" ELSE pc[r]]
     /\ staged' = [r \in Requests |-> IF r \in dying THEN {} ELSE staged[r]]
     /\ seen' = [r \in Requests |-> IF r \in dying THEN {} ELSE seen[r]]
     /\ position' = [r \in Requests |-> IF r \in dying THEN 0 ELSE position[r]]
     /\ UNCHANGED <<rows, indexed, ask, answer>>

Step(r) ==
  \/ TakeConn(r) \/ Read(r) \/ Begin(r)
  \/ LookupMiss(r) \/ LookupHit(r)
  \/ ReadPosition(r) \/ MintRefuses(r)
  \/ Insert(r) \/ Commit(r) \/ Rollback(r) \/ Return(r)

Next ==
  \/ \E s \in Servers : Open(s) \/ Crash(s)
  \/ \E r \in Requests :
       \/ \E a \in Allowed : Call(r, a)
       \/ Step(r)
       \/ BusyTimeout(r) \/ StatementFails(r) \/ Cancel(r)

Spec == Init /\ [][Next]_vars

(***************************************************************************)
(* A runnable goroutine runs, and SQLite's busy handler keeps retrying the *)
(* lock until it is free or the timeout ends the wait.                     *)
(***************************************************************************)
Fairness == \A r \in Requests : WF_vars(Step(r)) /\ WF_vars(BusyTimeout(r))
FairSpec == Spec /\ Fairness

-----------------------------------------------------------------------------
(***************************************************************************)
(* Type correctness: what each variable of the store may hold.             *)
(***************************************************************************)
TypeOK ==
  /\ rows \in SUBSET Row /\ IsFiniteSet(rows)
  /\ indexed \in BOOLEAN
  /\ up \in [Servers -> BOOLEAN]
  /\ conn \in [Servers -> Requests \cup {Nobody}]
  /\ writer \in Requests \cup {Nobody}
  /\ pc \in [Requests -> PCs]
  /\ ask \in [Requests -> Allowed]
  /\ seen \in [Requests -> SUBSET Row]
  /\ position \in [Requests -> Nat]
  /\ staged \in [Requests -> SUBSET Row]

(***************************************************************************)
(* "No. 1,284" is one continuous sequence (schema comment, sqlite.go): the *)
(* positions are 1..n with no gap and no row shares one, whatever was      *)
(* refused, cancelled, killed or run by another process meanwhile.         *)
(***************************************************************************)
RegisterContinuous == Continuous(rows)

(***************************************************************************)
(* One (owner, start) has one row in a store that is open, though any      *)
(* number of retries of it ran at once, on several processes, or against   *)
(* an earlier release's file: no process comes up without the index, and   *)
(* the index outlives the process.                                         *)
(***************************************************************************)
OnePourPerStart ==
  /\ \A s \in Servers : up[s] => indexed
  /\ indexed => StartsUnique(rows)

(***************************************************************************)
(* A visitor told of a certificate, or about to be, has it: the row is in  *)
(* the file, is the one this request asked for, and outlives every crash.  *)
(***************************************************************************)
AnswersAreOnTheRegister ==
  \A r \in Requests :
    answer[r].result \in {"minted", "replayed"} =>
      /\ answer[r].row \in rows
      /\ answer[r].row \in Prior(rows, ask[r])
      /\ answer[r].row.tier = ask[r].tier

(***************************************************************************)
(* Contention is waited out, never reported: reading before writing inside *)
(* BEGIN IMMEDIATE leaves no way for the upgrade to be refused or for a    *)
(* UNIQUE column to trip (the two comments in NewSQLiteStore and Append).  *)
(***************************************************************************)
FailuresAreExternal ==
  \A r \in Requests : answer[r].result \notin {"upgrade", "constraint"}

(***************************************************************************)
(* The register only ever gains the next row: no step, a crash included,   *)
(* removes or rewrites one or takes a position out of turn.                *)
(***************************************************************************)
RegisterOnlyExtends ==
  [][rows' # rows =>
       \E row \in rows' : /\ rows' = rows \cup {row}
                          /\ row.position = Cardinality(rows) + 1]_vars

(***************************************************************************)
(* Locks are taken in one order, connection then write lock, and the       *)
(* holder of the write lock never waits: so every call the process         *)
(* survives is answered.                                                   *)
(***************************************************************************)
CallsSettle == \A r \in Requests : InFlight(r) ~> ~InFlight(r)

(***************************************************************************)
(* The store keeps the promise of the Store interface: each call is atomic *)
(* at its deciding statement, and a call that failed recorded nothing.     *)
(***************************************************************************)
Phase(r) ==
  CASE pc[r] = "idle" -> "idle"
    [] pc[r] \in Working -> "asked"
    [] pc[r] \in {"rollback", "return"} -> "decided"
    [] pc[r] = "done" -> "answered"
    [] pc[r] = "lost" -> "lost"

Promise == INSTANCE Ledger WITH register <- rows,
                                phase <- [r \in Requests |-> Phase(r)]
KeepsPromise == Promise!Spec
=============================================================================
