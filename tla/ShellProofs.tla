---------------------------- MODULE ShellProofs ----------------------------
(***************************************************************************)
(* What the shell and its stage keep, for any pool of WebGL contexts, any  *)
(* number of listings under way and any number of records: contexts live   *)
(* and die with their canvas, a dark vessel says so, a screen that is gone *)
(* is mute, and a collection listed without overlap is the register.       *)
(*                                                                         *)
(* The stage's half and the shell's half are invariant by themselves; the  *)
(* first is disturbed by what mounts and unmounts, the second by what      *)
(* asks, grants and lists.                                                 *)
(***************************************************************************)
EXTENDS Shell, TLAPS

\* unlit is said of the canvas that is attached.
Dark == unlit <=> Mounted /\ renderer = None

SInv == StageTypeOK /\ NothingOutlivesTheCanvas /\ Dark


LEMMA TargetType == Target \in 0..FullAmount /\ FullAmount \in 0..FullAmount
BY StageAssumption DEF Target

Backdrops == [lost : BOOLEAN, dirty : BOOLEAN, blank : BOOLEAN, amount : 0..FullAmount]

LEMMA LitType == \A a \in 0..FullAmount : Lit(a) \in Backdrops
BY DEF Lit, Backdrops

LEMMA StageInitInv == Init => SInv
<1> SUFFICES ASSUME Init PROVE SInv
  OBVIOUS
<1>1. StageInit
  BY DEF Init
<1>2. renderer \in Contexts \cup {None} /\ lit = {renderer} \ {None} /\ view = "ceremony"
  BY <1>1, StageAssumption DEF StageInit
<1>3. backdrop \in Backdrops \cup {None}
  BY <1>1, LitType, TargetType DEF StageInit
<1>4. StageTypeOK
  BY <1>1, <1>2, <1>3 DEF StageInit, StageTypeOK, Views, Phases, EmptyRig, Backdrops
<1>5. NothingOutlivesTheCanvas /\ Dark
  BY <1>1, <1>2 DEF StageInit, NothingOutlivesTheCanvas, Dark, Mounted
<1> QED BY <1>4, <1>5 DEF SInv

(***************************************************************************)
(* Mounting and unmounting the canvas.                                     *)
(***************************************************************************)
LEMMA AttachStep ==
  ASSUME SInv, ~Mounted, Attach
  PROVE  /\ renderer' \in Contexts \cup {None} /\ lit' = {renderer'} \ {None}
         /\ unlit' <=> renderer' = None
         /\ unlit' \in BOOLEAN
<1>1. lit = {}
  BY DEF SInv, NothingOutlivesTheCanvas
<1>2. (CHOOSE c \in Contexts \ lit : TRUE) \in Contexts
  BY <1>1, StageAssumption
<1>3. CASE renderer' = (CHOOSE c \in Contexts \ lit : TRUE) /\ lit' = lit \cup {renderer'} /\ unlit' = FALSE
  BY <1>1, <1>2, <1>3, StageAssumption
<1>4. CASE renderer' = None /\ lit' = lit /\ unlit' = TRUE
  BY <1>1, <1>4
<1> QED BY <1>3, <1>4 DEF Attach

LEMMA DetachStep ==
  ASSUME SInv, Mounted, Detach
  PROVE  renderer' = None /\ lit' = {} /\ unlit' = FALSE
BY DEF SInv, NothingOutlivesTheCanvas, Detach

LEMMA ShowInv ==
  ASSUME SInv, NEW there \in Views, Show(there)
  PROVE  SInv' /\ UNCHANGED <<phase, sealing>> /\ view' = there
<1>1. /\ there # view /\ view' = there /\ ~due /\ due' = due
      /\ loop' = (there = "ceremony") /\ rig' = EmptyRig
      /\ UNCHANGED <<phase, notice, sealing, still>>
  BY DEF Show
<1>2. /\ renderer' \in Contexts \cup {None} /\ lit' = {renderer'} \ {None}
      /\ renderer' # None => Mounted'
      /\ unlit' <=> Mounted' /\ renderer' = None
      /\ unlit' \in BOOLEAN
  <2>1. CASE there = "ceremony"
    <3>1. Attach /\ ~Mounted /\ Mounted'
      BY <1>1, <2>1 DEF Show, Mounted
    <3> QED BY <3>1, AttachStep
  <2>2. CASE there # "ceremony" /\ Mounted
    <3>1. Detach /\ ~Mounted'
      BY <1>1, <2>2 DEF Show, Mounted
    <3> QED BY <2>2, <3>1, DetachStep
  <2>3. CASE there # "ceremony" /\ ~Mounted
    BY <1>1, <2>3 DEF Show, Mounted, SInv, StageTypeOK, NothingOutlivesTheCanvas, Dark
  <2> QED BY <2>1, <2>2, <2>3
<1>3. backdrop' \in Backdrops \cup {None}
  BY LitType, TargetType DEF Show, ShowBackdrop, AttachBackdrop, SInv, StageTypeOK, Backdrops
<1>4. StageTypeOK'
  BY <1>1, <1>2, <1>3 DEF SInv, StageTypeOK, EmptyRig, Phases, Backdrops
<1>5. NothingOutlivesTheCanvas' /\ Dark'
  BY <1>1, <1>2 DEF NothingOutlivesTheCanvas, Dark, Mounted
<1> QED BY <1>1, <1>4, <1>5 DEF SInv

LEMMA SealSucceedsInv ==
  ASSUME SInv, SealSucceeds
  PROVE  SInv' /\ sealing' = FALSE /\ view' = "certificate" /\ sealing
<1>1. /\ sealing /\ ~due /\ sealing' = FALSE
      /\ view' = "certificate" /\ phase' = "idle"
      /\ due' = Mounted /\ rig' = [rig EXCEPT !.saw = phase] /\ backdrop' = None
      /\ UNCHANGED <<loop, notice, still>>
  BY DEF SealSucceeds
<1>2. renderer' = None /\ lit' = {} /\ unlit' = FALSE /\ ~Mounted'
  <2>1. CASE Mounted
    BY <1>1, <2>1, DetachStep DEF SealSucceeds, Mounted
  <2>2. CASE ~Mounted
    BY <1>1, <2>2 DEF SealSucceeds, Mounted, SInv, NothingOutlivesTheCanvas, Dark
  <2> QED BY <2>1, <2>2
<1>3. StageTypeOK'
  BY <1>1, <1>2 DEF SInv, StageTypeOK, Phases, Views, Mounted
<1>4. ~due' => loop' = FALSE /\ Mounted' = FALSE
  BY <1>1, <1>2 DEF SInv, NothingOutlivesTheCanvas, Mounted
<1>5. NothingOutlivesTheCanvas'
  BY <1>2, <1>4 DEF NothingOutlivesTheCanvas
<1>6. Dark'
  BY <1>2 DEF Dark
<1> QED BY <1>1, <1>3, <1>5, <1>6 DEF SInv

LEMMA EffectsInv == SInv /\ Effects => SInv'
<1> SUFFICES ASSUME SInv, Effects PROVE SInv'
  OBVIOUS
<1>1. /\ due' = FALSE /\ loop' = Mounted /\ rig' = EmptyRig
      /\ UNCHANGED <<renderer, lit, unlit, view, phase, notice, sealing, backdrop, still>>
  BY DEF Effects, shell
<1>2. StageTypeOK'
  BY <1>1 DEF SInv, StageTypeOK, Phases, EmptyRig, Mounted
<1> QED BY <1>1, <1>2 DEF SInv, NothingOutlivesTheCanvas, Dark, Mounted

(***************************************************************************)
(* Everything else leaves the canvas where it is.                          *)
(***************************************************************************)
AtCanvas == UNCHANGED <<view, due, loop, renderer, lit, unlit>>

LEMMA CanvasInv ==
  ASSUME SInv, AtCanvas, StageTypeOK' PROVE SInv'
BY DEF SInv, AtCanvas, NothingOutlivesTheCanvas, Dark, Mounted

LEMMA HandsInv ==
  SInv /\ (OpenStream \/ CloseStream \/ Discard \/ Frame \/ Seal \/ SealFails) => SInv'
<1> SUFFICES ASSUME SInv, OpenStream \/ CloseStream \/ Discard \/ Frame \/ Seal \/ SealFails
             PROVE  SInv'
  OBVIOUS
<1>1. AtCanvas /\ UNCHANGED <<backdrop, still>>
  BY DEF AtCanvas, OpenStream, CloseStream, Discard, Frame, Stepped, Seal, SealFails, screen, vessel
<1>2. notice' \in BOOLEAN /\ sealing' \in BOOLEAN /\ phase' \in Phases
  <2> USE DEF SInv, StageTypeOK, Phases
  <2>1. CASE OpenStream \/ CloseStream \/ Discard
    BY <2>1 DEF OpenStream, CloseStream, Discard, screen
  <2>2. CASE Frame
    BY <2>2 DEF Frame, Stepped, screen
  <2>3. CASE Seal \/ SealFails
    BY <2>3 DEF Seal, SealFails
  <2> QED BY <2>1, <2>2, <2>3
<1>3. rig' \in [held : BOOLEAN, pouring : BOOLEAN, finished : BOOLEAN, saw : Phases]
  <2> USE DEF SInv, StageTypeOK
  <2>1. CASE OpenStream \/ CloseStream
    BY <2>1 DEF OpenStream, CloseStream
  <2>2. CASE Discard
    BY <2>2 DEF Discard, EmptyRig, Phases
  <2>3. CASE Frame
    <3>1. PICK stops \in {FALSE, rig.pouring} :
            rig' = [rig EXCEPT !.held = @ \/ rig.pouring, !.pouring = @ /\ ~stops, !.finished = @ \/ stops]
      BY <2>3 DEF Frame, Stepped
    <3>2. stops \in BOOLEAN
      OBVIOUS
    <3> QED BY <3>1, <3>2
  <2>4. CASE Seal \/ SealFails
    BY <2>4 DEF Seal, SealFails, vessel
  <2> QED BY <2>1, <2>2, <2>3, <2>4
<1>4. StageTypeOK'
  BY <1>1, <1>2, <1>3 DEF AtCanvas, SInv, StageTypeOK
<1> QED BY <1>1, <1>4, CanvasInv

Backdrop == BackdropFrame \/ Resize \/ LoseContext \/ RestoreContext \/ ChangeMotion

LEMMA BackdropInv == SInv /\ Backdrop => SInv'
<1> SUFFICES ASSUME SInv, Backdrop PROVE SInv'
  OBVIOUS
<1>1. AtCanvas /\ UNCHANGED <<notice, phase, sealing, rig>> /\ still' \in BOOLEAN
  BY DEF Backdrop, AtCanvas, BackdropFrame, Resize, LoseContext, RestoreContext, ChangeMotion,
         vessel, shell, SInv, StageTypeOK
<1>2. backdrop' \in Backdrops \cup {None}
  <2>1. backdrop \in Backdrops \cup {None} /\ FullAmount \in Nat
    BY StageAssumption DEF SInv, StageTypeOK, Backdrops
  <2>2. CASE BackdropFrame
    <3>1. backdrop.amount \in 0..FullAmount => Eased(backdrop.amount) \in 0..FullAmount
      BY <2>1, TargetType DEF Eased
    <3>2. backdrop \in Backdrops
      BY <2>1, <2>2 DEF BackdropFrame
    <3> QED BY <2>2, <3>1, <3>2 DEF BackdropFrame, Backdrops
  <2>3. CASE Resize \/ LoseContext \/ RestoreContext \/ ChangeMotion
    BY <2>1, <2>3 DEF Resize, LoseContext, RestoreContext, ChangeMotion, Backdrops
  <2> QED BY <2>2, <2>3 DEF Backdrop
<1>3. StageTypeOK'
  BY <1>1, <1>2 DEF AtCanvas, SInv, StageTypeOK, Backdrops
<1> QED BY <1>1, <1>3, CanvasInv

-----------------------------------------------------------------------------
(***************************************************************************)
(* The shell's half.  While no record is on its way to be shown and no     *)
(* listing was sent over another, what a listing has read is the register. *)
(***************************************************************************)
States == {Idle, Sent, Broken} \cup {Answered(n) : n \in 0..ledger}

DataTypeOK ==
  /\ ledger \in 0..MaxRecords /\ pours \in 0..ledger /\ current \in 0..ledger
  /\ view = "certificate" => current # 0
  /\ beat \in {"none", "running", "over"} /\ answer \in {"none", "out", "record", "failure"}
  /\ sealing <=> answer # "none"
  /\ reads \in [Reads -> States]
  /\ overlapped \in BOOLEAN /\ listed \in BOOLEAN

Granted == answer = "record" => ledger # 0

OneAtATime == ~overlapped => \A r, s \in Outstanding : r = s

UpToDate ==
  ~overlapped /\ answer # "record" =>
    /\ \A r \in Reads : reads[r].at = "answered" => reads[r].rows = ledger
    /\ Outstanding = {} /\ listed => pours = ledger

DInv == DataTypeOK /\ Granted /\ OneAtATime /\ UpToDate

IInv == SInv /\ DInv

LEMMA ReadStates ==
  /\ Idle # Sent /\ Idle # Broken /\ Sent # Broken
  /\ Idle.at = "idle" /\ Sent.at = "sent" /\ Broken.at = "broken"
  /\ \A n \in Nat : Answered(n).at = "answered" /\ Answered(n).rows = n /\ Answered(n) # Idle
                    /\ Answered(n) # Sent /\ Answered(n) # Broken
BY DEF Idle, Sent, Broken, Answered

LEMMA DataInitInv == Init => DInv
<1> SUFFICES ASSUME Init PROVE DInv
  OBVIOUS
<1> DEFINE first == CHOOSE r \in Reads : TRUE
<1>1. first \in Reads /\ reads = [[r \in Reads |-> Idle] EXCEPT ![first] = Sent]
  BY ShellAssumption DEF Init
<1>2. reads \in [Reads -> {Idle, Sent}] /\ Outstanding = {first}
  BY <1>1, ReadStates DEF Outstanding
<1> HIDE DEF first
<1>3. /\ ledger = 0 /\ pours = 0 /\ current = 0 /\ beat = "none" /\ answer = "none"
      /\ overlapped = FALSE /\ listed = FALSE /\ view = "ceremony" /\ sealing = FALSE
  BY DEF Init, StageInit
<1>4. DataTypeOK
  <2>1. reads \in [Reads -> States]
    BY <1>2 DEF States
  <2>2. MaxRecords \in Nat
    BY ShellAssumption
  <2>3. ledger \in 0..MaxRecords /\ pours \in 0..ledger /\ current \in 0..ledger
    BY <1>3, <2>2
  <2>4. /\ view = "certificate" => current # 0
        /\ beat \in {"none", "running", "over"} /\ answer \in {"none", "out", "record", "failure"}
        /\ overlapped \in BOOLEAN /\ listed \in BOOLEAN
    BY <1>3
  <2>5. sealing <=> answer # "none"
    BY <1>3
  <2> QED BY <2>1, <2>3, <2>4, <2>5 DEF DataTypeOK
<1>5. Granted /\ OneAtATime /\ UpToDate
  BY <1>2, <1>3, ReadStates DEF Granted, OneAtATime, UpToDate
<1> QED BY <1>4, <1>5 DEF DInv

(***************************************************************************)
(* One listing changes: it is read, it breaks, it is taken or given up.    *)
(***************************************************************************)
LEMMA ReadStep ==
  ASSUME DInv, NEW r \in Reads, ReadLedger(r) \/ BreakRead(r) \/ Listed(r) \/ NotListed(r)
  PROVE  DInv'
<1>1. /\ UNCHANGED <<ledger, current, beat, answer, overlapped, view, sealing>>
      /\ ledger \in Nat /\ MaxRecords \in Nat
  BY ShellAssumption DEF ReadLedger, BreakRead, Listed, NotListed, stageVars, DInv, DataTypeOK
<1>2. reads[r] \in States /\ reads \in [Reads -> States] /\ States' = States
  BY <1>1 DEF DInv, DataTypeOK, States
<1>3. r \in Outstanding
  BY <1>2, ReadStates DEF ReadLedger, BreakRead, Listed, NotListed, Outstanding
<1>4. /\ reads' = [reads EXCEPT ![r] = reads'[r]] /\ reads'[r] \in States
      /\ reads'[r].at = "answered" => reads'[r].rows = ledger
  BY <1>1, <1>2, ReadStates DEF ReadLedger, BreakRead, Listed, NotListed, States
<1>5. Outstanding' \subseteq Outstanding
  BY <1>2, <1>3, <1>4 DEF Outstanding
<1>6. /\ pours' \in 0..ledger /\ listed' \in BOOLEAN
      /\ \/ UNCHANGED <<pours, listed>> /\ reads'[r] # Idle
         \/ reads[r].at = "answered" /\ pours' = reads[r].rows /\ listed' = TRUE
         \/ listed' = FALSE
  <2> USE DEF DInv, DataTypeOK
  <2>1. CASE ReadLedger(r) \/ BreakRead(r)
    BY <1>1, <1>2, <2>1, ReadStates DEF ReadLedger, BreakRead
  <2>2. CASE Listed(r)
    <3>1. reads[r].rows \in 0..ledger
      BY <1>1, <1>2, <2>2, ReadStates DEF Listed, States
    <3> QED BY <2>2, <3>1 DEF Listed
  <2>3. CASE NotListed(r)
    BY <2>3 DEF NotListed
  <2> QED BY <2>1, <2>2, <2>3
<1>7. DataTypeOK'
  BY <1>1, <1>2, <1>4, <1>6 DEF DInv, DataTypeOK
<1>8. Granted' /\ OneAtATime'
  BY <1>1, <1>5 DEF DInv, Granted, OneAtATime
<1>9. UpToDate'
  <2> SUFFICES ASSUME ~overlapped, answer # "record"
               PROVE  /\ \A s \in Reads : reads'[s].at = "answered" => reads'[s].rows = ledger
                      /\ Outstanding' = {} /\ listed' => pours' = ledger
    BY <1>1 DEF UpToDate
  <2>1. \A s \in Reads : reads[s].at = "answered" => reads[s].rows = ledger
    BY DEF DInv, UpToDate
  <2>2. \A s \in Reads : reads'[s].at = "answered" => reads'[s].rows = ledger
    BY <2>1, <1>2, <1>4
  <2>3. reads'[r] # Idle => Outstanding' # {}
    BY DEF Outstanding
  <2> QED BY <2>1, <2>2, <2>3, <1>6
<1> QED BY <1>7, <1>8, <1>9 DEF DInv

(***************************************************************************)
(* A step that asks for no listing and leaves the register alone.          *)
(***************************************************************************)
LEMMA ShellStep ==
  ASSUME DInv, UNCHANGED <<ledger, pours, reads, overlapped, listed>>,
         current' \in 0..ledger, view' = "certificate" => current' # 0,
         beat' \in {"none", "running", "over"},
         answer' \in {"none", "out", "record", "failure"},
         sealing' <=> answer' # "none",
         answer' = "record" <=> answer = "record"
  PROVE  DInv'
BY DEF DInv, DataTypeOK, Granted, OneAtATime, UpToDate, Outstanding, States

LEMMA GrantInv == DInv /\ Grant => DInv'
<1> SUFFICES ASSUME DInv, Grant PROVE DInv'
  OBVIOUS
<1>1. /\ answer = "out" /\ answer' = "record" /\ ledger' = ledger + 1 /\ ledger < MaxRecords
      /\ UNCHANGED <<view, sealing, pours, current, beat, reads, overlapped, listed>>
  BY DEF Grant, stageVars
<1>2. ledger \in Nat /\ MaxRecords \in Nat /\ pours \in 0..ledger /\ current \in 0..ledger
  BY ShellAssumption DEF DInv, DataTypeOK
<1>3. ledger' \in 0..MaxRecords /\ 0..ledger \subseteq 0..ledger' /\ ledger' # 0
  BY <1>1, <1>2
<1>4. States \subseteq States'
  BY <1>3 DEF States
<1>5. DataTypeOK'
  BY <1>1, <1>2, <1>3, <1>4 DEF DInv, DataTypeOK
<1> QED BY <1>1, <1>3, <1>5 DEF DInv, Granted, OneAtATime, UpToDate, Outstanding

LEMMA SucceedInv == SInv /\ DInv /\ Succeed => DInv'
<1> SUFFICES ASSUME SInv, DInv, Succeed PROVE DInv'
  OBVIOUS
<1>1. sealing' = FALSE /\ view' = "certificate"
  BY SealSucceedsInv DEF Succeed
<1>2. /\ answer = "record" /\ current' = ledger /\ answer' = "none" /\ beat' = "none"
      /\ UNCHANGED <<ledger, pours, listed>> /\ Refresh
  BY DEF Succeed
<1> DEFINE next == CHOOSE r \in Reads \ Outstanding : TRUE
<1>3. next \in Reads /\ next \notin Outstanding /\ reads' = [reads EXCEPT ![next] = Sent]
      /\ overlapped' = (Outstanding # {})
  BY <1>2 DEF Refresh, Outstanding
<1> HIDE DEF next
<1>4. reads \in [Reads -> States] /\ States' = States /\ Sent \in States
  BY <1>2 DEF DInv, DataTypeOK, States
<1>5. reads' \in [Reads -> States] /\ Outstanding' = Outstanding \cup {next}
  BY <1>3, <1>4, ReadStates DEF Outstanding
<1>6. ledger \in Nat /\ ledger # 0
  BY <1>2, ShellAssumption DEF DInv, DataTypeOK, Granted
<1>7. DataTypeOK'
  BY <1>1, <1>2, <1>3, <1>4, <1>5, <1>6 DEF DInv, DataTypeOK
<1>8. Granted' /\ OneAtATime'
  BY <1>2, <1>3, <1>5 DEF Granted, OneAtATime
<1>9. UpToDate'
  <2> SUFFICES ASSUME Outstanding = {} PROVE UpToDate'
    BY <1>3 DEF UpToDate
  <2>1. \A r \in Reads : reads'[r].at # "answered"
    BY <1>3, <1>4, ReadStates DEF Outstanding
  <2> QED BY <2>1, <1>5 DEF UpToDate
<1> QED BY <1>7, <1>8, <1>9 DEF DInv

-----------------------------------------------------------------------------
LEMMA InitInv == Init => IInv
BY StageInitInv, DataInitInv DEF IInv

LEMMA ViewsInv ==
  IInv /\ ((\E there \in Views : OpenTab(there)) \/ \E pour \in 1..MaxRecords : Select(pour)) => IInv'
<1> SUFFICES ASSUME IInv,
                    (\E there \in Views : OpenTab(there)) \/ \E pour \in 1..MaxRecords : Select(pour)
             PROVE  IInv'
  OBVIOUS
<1>1. ASSUME NEW there \in Views, OpenTab(there) PROVE IInv'
  <2>1. Show(there) /\ UNCHANGED data /\ (there = "certificate" => current # 0)
    BY <1>1 DEF OpenTab, Tab
  <2>2. SInv' /\ sealing' = sealing /\ view' = there
    BY <2>1, ShowInv DEF IInv
  <2>3. DInv'
    BY <2>1, <2>2, ShellStep DEF data, IInv, DInv, DataTypeOK
  <2> QED BY <2>2, <2>3 DEF IInv
<1>2. ASSUME NEW pour \in 1..MaxRecords, Select(pour) PROVE IInv'
  <2>1. /\ Show("certificate") /\ pour \in 1..pours /\ current' = pour
        /\ UNCHANGED <<ledger, pours, beat, answer, reads, overlapped, listed>>
    BY <1>2 DEF Select
  <2>2. SInv' /\ sealing' = sealing /\ view' = "certificate"
    BY <2>1, ShowInv DEF IInv, Views
  <2>3. current' \in 0..ledger /\ current' # 0
    BY <2>1, ShellAssumption DEF IInv, DInv, DataTypeOK
  <2>4. DInv'
    BY <2>1, <2>2, <2>3, ShellStep DEF IInv, DInv, DataTypeOK
  <2> QED BY <2>2, <2>4 DEF IInv
<1> QED BY <1>1, <1>2

LEMMA MintInv ==
  IInv /\ (Press \/ EndBeat \/ Grant \/ Refuse \/ Fail \/ Succeed) => IInv'
<1> SUFFICES ASSUME IInv, Press \/ EndBeat \/ Grant \/ Refuse \/ Fail \/ Succeed PROVE IInv'
  OBVIOUS
<1>1. CASE Press
  <2>1. SInv'
    BY <1>1, HandsInv DEF Press, IInv
  <2>2. DInv'
    BY <1>1, ShellStep DEF Press, Seal, IInv, DInv, DataTypeOK
  <2> QED BY <2>1, <2>2 DEF IInv
<1>2. CASE Fail
  <2>1. SInv'
    BY <1>2, HandsInv DEF Fail, IInv
  <2>2. DInv'
    BY <1>2, ShellStep DEF Fail, SealFails, IInv, DInv, DataTypeOK
  <2> QED BY <2>1, <2>2 DEF IInv
<1>3. CASE EndBeat \/ Grant \/ Refuse
  <2>1. UNCHANGED stageVars
    BY <1>3 DEF EndBeat, Grant, Refuse
  <2>2. SInv'
    BY <2>1 DEF stageVars, IInv, SInv, StageTypeOK, NothingOutlivesTheCanvas, Dark, Mounted
  <2>3. DInv'
    <3>1. CASE EndBeat \/ Refuse
      BY <2>1, <3>1, ShellStep DEF EndBeat, Refuse, stageVars, IInv, DInv, DataTypeOK
    <3> QED BY <1>3, <3>1, GrantInv DEF IInv
  <2> QED BY <2>2, <2>3 DEF IInv
<1>4. CASE Succeed
  BY <1>4, SealSucceedsInv, SucceedInv DEF Succeed, IInv
<1> QED BY <1>1, <1>2, <1>3, <1>4

LEMMA ListingInv ==
  ASSUME IInv, NEW r \in Reads, ReadLedger(r) \/ BreakRead(r) \/ Listed(r) \/ NotListed(r)
  PROVE  IInv'
<1>1. DInv'
  BY ReadStep DEF IInv
<1>2. UNCHANGED <<view, due, loop, renderer, lit, unlit, phase, sealing, rig, backdrop, still>>
      /\ notice' \in BOOLEAN
  BY DEF ReadLedger, BreakRead, Listed, NotListed, stageVars, vessel, IInv, SInv, StageTypeOK
<1>3. SInv'
  BY <1>2 DEF IInv, SInv, StageTypeOK, NothingOutlivesTheCanvas, Dark, Mounted
<1> QED BY <1>1, <1>3 DEF IInv

LEMMA PageInv == IInv /\ (AtTheVessel \/ Browser) => IInv'
<1> SUFFICES ASSUME IInv, AtTheVessel \/ Browser PROVE IInv'
  OBVIOUS
<1>1. SInv'
  BY HandsInv, EffectsInv, BackdropInv DEF AtTheVessel, Browser, Backdrop, IInv
<1>2. UNCHANGED <<view, sealing, data>>
  BY DEF AtTheVessel, Browser, OpenStream, CloseStream, Discard, Frame, Stepped, screen, Effects,
         BackdropFrame, Resize, LoseContext, RestoreContext, ChangeMotion, shell
<1>3. DInv'
  BY <1>2, ShellStep DEF data, IInv, DInv, DataTypeOK
<1> QED BY <1>1, <1>3 DEF IInv

LEMMA NextInv == IInv /\ [Next]_vars => IInv'
<1> SUFFICES ASSUME IInv, [Next]_vars PROVE IInv'
  OBVIOUS
<1>1. CASE UNCHANGED vars
  BY <1>1 DEF vars, stageVars, data, IInv, SInv, StageTypeOK, NothingOutlivesTheCanvas, Dark, Mounted,
              DInv, DataTypeOK, Granted, OneAtATime, UpToDate, Outstanding, States
<1>2. ASSUME NEW r \in Reads, ReadLedger(r) \/ BreakRead(r) \/ Listed(r) \/ NotListed(r) PROVE IInv'
  BY <1>2, ListingInv
<1> QED BY <1>1, <1>2, ViewsInv, MintInv, PageInv DEF Next

(***************************************************************************)
(* The inductive invariant: a context is the attached canvas's, and what a *)
(* listing without overlap has read is the register.                       *)
(***************************************************************************)
THEOREM Invariance == Spec => []IInv
BY InitInv, NextInv, PTL DEF Spec

(***************************************************************************)
(* Types, and that what is shown or listed is on the register.             *)
(***************************************************************************)
THEOREM TypeCorrect == Spec => []TypeOK
<1>1. IInv => TypeOK
  BY DEF IInv, SInv, DInv, DataTypeOK, States, TypeOK
<1> QED BY Invariance, <1>1, PTL

(***************************************************************************)
(* No context and no loop outlives the canvas it was made for.             *)
(***************************************************************************)
THEOREM DiesWithTheCanvas == Spec => []NothingOutlivesTheCanvas
<1>1. IInv => NothingOutlivesTheCanvas
  BY DEF IInv, SInv
<1> QED BY Invariance, <1>1, PTL

(***************************************************************************)
(* A vessel without a picture says so whenever nothing else is said.       *)
(***************************************************************************)
THEOREM DarknessIsSaid == Spec => []DarkVesselSaysSo
<1>1. IInv => DarkVesselSaysSo
  BY DEF IInv, SInv, Dark, DarkVesselSaysSo, Band
<1> QED BY Invariance, <1>1, PTL

(***************************************************************************)
(* A collection that was listed without overlap is the register.           *)
(***************************************************************************)
THEOREM ListsTheRegister == Spec => []MintedIsListed
<1>1. IInv => MintedIsListed
  BY DEF IInv, DInv, UpToDate, MintedIsListed
<1> QED BY Invariance, <1>1, PTL

(***************************************************************************)
(* A screen that is gone cannot move the ceremony.                         *)
(***************************************************************************)
THEOREM GoneIsMute == Spec => GoneScreenIsMute
<1>1. [Next]_vars => [~Mounted /\ ~sealing => phase' = phase]_stageVars
  <2> SUFFICES ASSUME [Next]_vars, ~Mounted, ~sealing PROVE phase' = phase
    OBVIOUS
  <2> USE DEF stageVars, shell
  <2>1. CASE UNCHANGED vars
    BY <2>1 DEF vars
  <2>2. ASSUME NEW there, Show(there) PROVE phase' = phase
    BY <2>2 DEF Show
  <2>3. CASE Press \/ EndBeat \/ Grant \/ Refuse \/ Fail \/ Succeed
    BY <2>3 DEF Press, EndBeat, Grant, Refuse, Fail, Succeed, Seal, SealFails, SealSucceeds
  <2>4. ASSUME NEW r \in Reads, ReadLedger(r) \/ BreakRead(r) \/ Listed(r) \/ NotListed(r)
        PROVE  phase' = phase
    BY <2>4 DEF ReadLedger, BreakRead, Listed, NotListed
  <2>5. CASE AtTheVessel
    BY <2>5 DEF AtTheVessel, OpenStream, CloseStream, Discard, Frame
  <2>6. CASE Browser
    BY <2>6 DEF Browser, Effects, BackdropFrame, Resize, LoseContext, RestoreContext, ChangeMotion
  <2> QED BY <2>1, <2>2, <2>3, <2>4, <2>5, <2>6 DEF Next, OpenTab, Tab, Select
<1> QED BY <1>1, PTL DEF Spec, GoneScreenIsMute
=============================================================================
