------------------------------- MODULE Ledger -------------------------------
(***************************************************************************)
(* What a pour.Store promises (the Store interface, api/pour/store.go):    *)
(* every call takes effect at one instant between being asked and being    *)
(* answered, and that instant decides both what the register gains and     *)
(* what the caller is told.  A request is one HTTP request; it asks once.  *)
(***************************************************************************)
EXTENDS Pours

VARIABLES
  register,   \* the set of rows minted
  phase,      \* phase[r]: where request r is
  ask,        \* ask[r]: what it asked
  answer      \* answer[r]: what it was, or will be, told

vars == <<register, phase, ask, answer>>

Phases == {"idle", "asked", "decided", "answered", "lost"}

Init ==
  /\ register \in Legacies
  /\ phase  = [r \in Requests |-> "idle"]
  /\ ask    = [r \in Requests |-> CHOOSE a \in Allowed : TRUE]
  /\ answer = [r \in Requests |-> Unanswered]

Ask(r, a) ==
  /\ phase[r] = "idle"
  /\ phase' = [phase EXCEPT ![r] = "asked"]
  /\ ask' = [ask EXCEPT ![r] = a]
  /\ UNCHANGED <<register, answer>>

Decide(r, told) ==
  /\ phase[r] = "asked"
  /\ phase' = [phase EXCEPT ![r] = "decided"]
  /\ answer' = [answer EXCEPT ![r] = told]
  /\ UNCHANGED ask

(***************************************************************************)
(* Append, when nothing was minted at this start: the next position.       *)
(***************************************************************************)
MintNew(r) ==
  /\ ask[r].op = "append"
  /\ Prior(register, ask[r]) = {}
  /\ ask[r].legal
  /\ LET row == Mint(ask[r], Cardinality(register) + 1)
     IN /\ register' = register \cup {row}
        /\ Decide(r, Minted(row))

(***************************************************************************)
(* Append, when something was: the same tier is answered with that row,    *)
(* even if the request would no longer be legal, another tier is refused.  *)
(***************************************************************************)
Replay(r) ==
  /\ ask[r].op = "append"
  /\ \E row \in Prior(register, ask[r]) :
       Decide(r, IF row.tier = ask[r].tier THEN Replayed(row) ELSE Conflict)
  /\ UNCHANGED register

Reject(r) ==
  /\ ask[r].op = "append"
  /\ Prior(register, ask[r]) = {}
  /\ ~ask[r].legal
  /\ Decide(r, Rejected)
  /\ UNCHANGED register

Read(r) ==
  /\ ask[r].op \in {"list", "get"}
  /\ Decide(r, ReadAnswer(register, ask[r]))
  /\ UNCHANGED register

(***************************************************************************)
(* A store failure: told so, and nothing was recorded.                     *)
(***************************************************************************)
Fail(r) ==
  /\ \E why \in Causes : Decide(r, Failed(why))
  /\ UNCHANGED register

Answer(r) ==
  /\ phase[r] = "decided"
  /\ phase' = [phase EXCEPT ![r] = "answered"]
  /\ UNCHANGED <<register, ask, answer>>

(***************************************************************************)
(* The process died: each request in R is never answered, whether or not   *)
(* it had been decided.                                                    *)
(***************************************************************************)
Lose(R) ==
  /\ \A r \in R : phase[r] \in {"asked", "decided"}
  /\ phase' = [r \in Requests |-> IF r \in R THEN "lost" ELSE phase[r]]
  /\ UNCHANGED <<register, ask, answer>>

Next ==
  \/ \E r \in Requests :
       \/ \E a \in Allowed : Ask(r, a)
       \/ MintNew(r) \/ Replay(r) \/ Reject(r) \/ Read(r) \/ Fail(r)
       \/ Answer(r)
  \/ \E R \in SUBSET Requests : Lose(R)

Spec == Init /\ [][Next]_vars
=============================================================================
