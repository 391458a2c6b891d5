-------------------------------- MODULE Shell --------------------------------
(***************************************************************************)
(* The shell (app/App.tsx) over the stage: the three views, the seal with  *)
(* its beat and its mint, the certificate in hand, and the collection,     *)
(* listed on load and after every mint by calls that may overlap           *)
(* (app/pour/api.ts, app/collection/Gallery.tsx).                          *)
(*                                                                         *)
(* A record is its position among the visitor's own, so a listing is how   *)
(* many there were when the ledger was read.                               *)
(***************************************************************************)
EXTENDS Stage

CONSTANTS
  Reads,        \* names of listings under way
  MaxRecords    \* bound: the visitor's records

ASSUME ShellAssumption == Reads # {} /\ MaxRecords \in Nat \ {0}

VARIABLES
  ledger,       \* the visitor's records on the register
  pours,        \* the collection, as last listed
  current,      \* the certificate's record; 0 is none
  beat,         \* the seal's pause: "none", "running", "over"
  answer,       \* of the mint: "none", "out", "record", "failure"
  reads,        \* the listings under way, and what was read for each
  overlapped,   \* history: a listing under way was sent while another was
  listed        \* history: the last listing to arrive was taken

data == <<ledger, pours, current, beat, answer, reads, overlapped, listed>>
vars == <<stageVars, data>>

Idle == [at |-> "idle", rows |-> 0]
Sent == [at |-> "sent", rows |-> 0]
Broken == [at |-> "broken", rows |-> 0]
Answered(n) == [at |-> "answered", rows |-> n]

Outstanding == {r \in Reads : reads[r] # Idle}

Init ==
  /\ StageInit
  /\ ledger = 0 /\ pours = 0 /\ current = 0
  /\ beat = "none" /\ answer = "none"
  /\ reads = [[r \in Reads |-> Idle] EXCEPT ![CHOOSE r \in Reads : TRUE] = Sent]
  /\ overlapped = FALSE /\ listed = FALSE

-----------------------------------------------------------------------------
(***************************************************************************)
(* refresh.  apiFetch retries a read until it is answered, refused or      *)
(* given up; an answer that is not a list of whole records is refused by   *)
(* the client (assertPourRecord).                                          *)
(***************************************************************************)
Refresh ==
  /\ Outstanding # Reads
  /\ reads' = [reads EXCEPT ![CHOOSE r \in Reads \ Outstanding : TRUE] = Sent]
  /\ overlapped' = (Outstanding # {})

ReadLedger(r) ==
  /\ reads[r] = Sent
  /\ reads' = [reads EXCEPT ![r] = Answered(ledger)]
  /\ UNCHANGED <<stageVars, ledger, pours, current, beat, answer, overlapped, listed>>

BreakRead(r) ==
  /\ reads[r].at \in {"sent", "answered"}
  /\ reads' = [reads EXCEPT ![r] = Broken]
  /\ UNCHANGED <<stageVars, ledger, pours, current, beat, answer, overlapped, listed>>

Listed(r) ==
  /\ reads[r].at = "answered"
  /\ pours' = reads[r].rows /\ listed' = TRUE
  /\ reads' = [reads EXCEPT ![r] = Idle]
  /\ UNCHANGED <<stageVars, ledger, current, beat, answer, overlapped>>

NotListed(r) ==    \* readNotice
  /\ reads[r] = Broken
  /\ notice' = TRUE /\ listed' = FALSE
  /\ reads' = [reads EXCEPT ![r] = Idle]
  /\ UNCHANGED <<vessel, view, phase, sealing, backdrop, still>>
  /\ UNCHANGED <<ledger, pours, current, beat, answer, overlapped>>

-----------------------------------------------------------------------------
(***************************************************************************)
(* The tabs, of which the certificate's is there once there is one, and    *)
(* the tiles.                                                              *)
(***************************************************************************)
Tab(there) ==
  /\ there = "certificate" => current # 0
  /\ Show(there)

\* Mutant: the pause belongs to the screen, and its timer is cleared when the screen goes.
OpenTabOwned(there) ==
  /\ Tab(there)
  /\ beat' = "none"
  /\ UNCHANGED <<ledger, pours, current, answer, reads, overlapped, listed>>
OpenTab(there) ==
  /\ Tab(there)
  /\ UNCHANGED data

Select(pour) ==
  /\ view = "collection" /\ pour \in 1..pours
  /\ Show("certificate") /\ current' = pour
  /\ UNCHANGED <<ledger, pours, beat, answer, reads, overlapped, listed>>

-----------------------------------------------------------------------------
(***************************************************************************)
(* mint: the pause and the call run together, and whichever way the call   *)
(* went the pause is waited for.  Sealing again, opening another view and  *)
(* discarding are all possible meanwhile, the first only once this one has *)
(* ended.                                                                  *)
(***************************************************************************)
Press ==
  /\ Seal
  /\ beat' = "running" /\ answer' = "out"
  /\ UNCHANGED <<ledger, pours, current, reads, overlapped, listed>>

EndBeat ==
  /\ beat = "running" /\ beat' = "over"
  /\ UNCHANGED <<stageVars, ledger, pours, current, answer, reads, overlapped, listed>>

Grant ==
  /\ answer = "out" /\ ledger < MaxRecords
  /\ answer' = "record" /\ ledger' = ledger + 1
  /\ UNCHANGED <<stageVars, pours, current, beat, reads, overlapped, listed>>

Refuse ==
  /\ answer = "out" /\ answer' = "failure"
  /\ UNCHANGED <<stageVars, ledger, pours, current, beat, reads, overlapped, listed>>

Fail ==
  /\ answer = "failure" /\ beat = "over"
  /\ SealFails
  /\ answer' = "none" /\ beat' = "none"
  /\ UNCHANGED <<ledger, pours, current, reads, overlapped, listed>>

\* Mutant: the collection is listed on load and left at that.
SucceedUnlisted ==
  /\ answer = "record" /\ beat = "over"
  /\ SealSucceeds
  /\ current' = ledger /\ answer' = "none" /\ beat' = "none"
  /\ UNCHANGED <<ledger, pours, reads, overlapped, listed>>
Succeed ==
  /\ answer = "record" /\ beat = "over"
  /\ SealSucceeds
  /\ current' = ledger /\ answer' = "none" /\ beat' = "none"
  /\ Refresh
  /\ UNCHANGED <<ledger, pours, listed>>

-----------------------------------------------------------------------------
AtTheVessel == (OpenStream \/ CloseStream \/ Discard \/ Frame) /\ UNCHANGED data

Browser ==
  /\ Effects \/ BackdropFrame \/ Resize \/ LoseContext \/ RestoreContext \/ ChangeMotion
  /\ UNCHANGED data

Next ==
  \/ \E there \in Views : OpenTab(there)
  \/ \E pour \in 1..MaxRecords : Select(pour)
  \/ Press \/ EndBeat \/ Grant \/ Refuse \/ Fail \/ Succeed
  \/ \E r \in Reads : ReadLedger(r) \/ BreakRead(r) \/ Listed(r) \/ NotListed(r)
  \/ AtTheVessel \/ Browser

Spec == Init /\ [][Next]_vars

(***************************************************************************)
(* Timers run, calls end (apiFetch gives each attempt a timeout and makes  *)
(* three), promises are settled, and a page that is shown gets its effects *)
(* and its frames.                                                         *)
(***************************************************************************)
Fairness ==
  /\ WF_vars(Effects /\ UNCHANGED data) /\ WF_vars(BackdropFrame /\ UNCHANGED data)
  /\ WF_vars(EndBeat) /\ WF_vars(Grant \/ Refuse) /\ WF_vars(Fail) /\ WF_vars(Succeed)
  /\ \A r \in Reads : WF_vars(ReadLedger(r) \/ BreakRead(r) \/ Listed(r) \/ NotListed(r))

FairSpec == Spec /\ Fairness

-----------------------------------------------------------------------------
(***************************************************************************)
(* Type correctness, and that what is shown or listed is on the register.  *)
(***************************************************************************)
TypeOK ==
  /\ StageTypeOK
  /\ ledger \in 0..MaxRecords /\ pours \in 0..ledger /\ current \in 0..ledger
  /\ view = "certificate" => current # 0
  /\ beat \in {"none", "running", "over"} /\ answer \in {"none", "out", "record", "failure"}
  /\ sealing <=> answer # "none"
  /\ reads \in [Reads -> {Idle, Sent, Broken} \cup {Answered(n) : n \in 0..ledger}]
  /\ overlapped \in BOOLEAN /\ listed \in BOOLEAN

(***************************************************************************)
(* "A collection nobody has spent anything on ... is empty" and one that   *)
(* somebody has is not: once every listing is in, the last one taken, and  *)
(* none was sent while another was out, the collection is the register.    *)
(* (Two that overlap may be taken in either order.)                        *)
(***************************************************************************)
MintedIsListed ==
  Outstanding = {} /\ listed /\ ~overlapped /\ answer # "record" => pours = ledger

(***************************************************************************)
(* "The seal is a fixed beat of the ceremony" (App.tsx): wherever the      *)
(* visitor goes meanwhile, its overlay is lifted.                          *)
(***************************************************************************)
SealLifts == sealing ~> ~sealing
=============================================================================
