------------------------------ MODULE Ceremony ------------------------------
(***************************************************************************)
(* One visitor at the vessel: the shell's state (app/App.tsx), the screen  *)
(* and its refs (app/ceremony/PourScreen.tsx), and what of the rig decides *)
(* when a pour is over (app/ceremony/rig.ts).                              *)
(*                                                                         *)
(* Two lifetimes meet here.  The phase, the tier and the seal belong to    *)
(* the shell; the rig, the open stream and the start belong to the screen, *)
(* which is unmounted whenever another view is shown.  And the phase has   *)
(* two values: what was last set, and what was last rendered, which is all *)
(* that the handlers and the frame loop can read.                          *)
(***************************************************************************)
EXTENDS Integers, FiniteSets

CONSTANTS
  TopTier,      \* TIERS.length - 1
  Default,      \* the tier selected on load
  Ceiling,      \* the deployment's maxTierIndex
  MaxHold,      \* SIM.maxPourMs, in frames
  None,         \* no request
  MaxReads,     \* bound: pours begun (readings of the clock)
  MaxSeals,     \* bound: presses of "Complete disbursement"
  MaxSwitches   \* bound: times another view is opened

ASSUME CeremonyAssumption ==
  /\ TopTier \in Nat /\ Default \in 0..TopTier /\ Ceiling \in 0..TopTier
  /\ MaxHold \in Nat \ {0}
  /\ MaxReads \in Nat /\ MaxSeals \in Nat /\ MaxSwitches \in Nat

VARIABLES
  view,       \* the ceremony, or any other
  phase,      \* the phase last set
  seen,       \* the phase last rendered: liveRef.current.phase, and the buttons'
  tier,
  max,        \* maxTierIndex, optimistic until config is known
  config,
  vessel,     \* the screen's refs and its rig
  clock,      \* Date.now(), one tick per reading
  request,    \* the mint in flight
  asked,      \* history: every request made
  switches

vars == <<view, phase, seen, tier, max, config, vessel, clock, request, asked, switches>>

NoStart == 0

Empty == [pouring |-> FALSE, started |-> NoStart, hold |-> 0,
          aloft |-> 0,       \* blobs not yet landed
          airborne |-> 0,    \* as rig.airborne counts them, before the frame's landings
          landed |-> 0]

Init ==
  /\ view = "ceremony" /\ phase = "idle" /\ seen = "idle"
  /\ tier = Default /\ max = TopTier /\ config = "pending"
  /\ vessel = Empty /\ clock = 1
  /\ request = None /\ asked = {} /\ switches = 0

here == view = "ceremony"

Shell == <<view, tier, max, config, request, asked, switches>>

-----------------------------------------------------------------------------
(***************************************************************************)
(* The stream.  A discrete event (pointer down or up, a key, a click) is   *)
(* rendered before the next one; a pointer leaving, and a frame, set the   *)
(* phase and leave the render for later.                                   *)
(***************************************************************************)
\* Mutant: handlers and loop close over the phase of the first render.
LivePhaseOnMount == "idle"
LivePhase == seen

Finished == vessel.hold >= MaxHold

\* Mutant: a settled pour can be opened again.
OpenStreamAnyPhase ==
  /\ here /\ ~Finished /\ ~vessel.pouring
  /\ vessel.started # NoStart \/ clock <= MaxReads
  /\ vessel' = [vessel EXCEPT !.pouring = TRUE,
                  !.started = IF @ = NoStart THEN clock ELSE @]
  /\ clock' = IF vessel.started = NoStart THEN clock + 1 ELSE clock
  /\ phase' = "pouring" /\ seen' = "pouring"
  /\ UNCHANGED Shell
OpenStream ==
  /\ here /\ LivePhase # "settled" /\ ~Finished /\ ~vessel.pouring
  /\ vessel.started # NoStart \/ clock <= MaxReads
  /\ vessel' = [vessel EXCEPT !.pouring = TRUE,
                  !.started = IF @ = NoStart THEN clock ELSE @]
  /\ clock' = IF vessel.started = NoStart THEN clock + 1 ELSE clock
  /\ IF LivePhase # "pouring"
     THEN phase' = "pouring" /\ seen' = "pouring"
     ELSE UNCHANGED <<phase, seen>>
  /\ UNCHANGED Shell

CloseStream ==
  /\ here /\ vessel.pouring
  /\ vessel' = [vessel EXCEPT !.pouring = FALSE]
  /\ phase' = "settling"
  /\ \/ seen' = "settling"      \* pointerup, pointercancel, keyup
     \/ UNCHANGED seen          \* pointerleave
  /\ UNCHANGED <<clock, Shell>>

Discard ==
  /\ here /\ seen # "idle"
  /\ vessel' = Empty
  /\ phase' = "idle" /\ seen' = "idle"
  /\ UNCHANGED <<clock, Shell>>

Render ==
  /\ seen # phase
  /\ seen' = phase
  /\ UNCHANGED <<phase, vessel, clock, Shell>>

(***************************************************************************)
(* One frame: the rig takes up to one more droplet and lets some land and  *)
(* some leave the stage, the hard stop closes the stream, and a settling   *)
(* pour with nothing in the air is settled.  dt is the time the frame took.*)
(***************************************************************************)
LongestFrame == 2

\* Mutant: blobs in the air are not waited for.
IsSettledEager(rig) == ~rig.pouring /\ rig.hold > 0
IsSettled(rig) == ~rig.pouring /\ rig.hold > 0 /\ rig.airborne = 0

Capped(hold) == IF hold > MaxHold THEN MaxHold ELSE hold

\* Mutant: the hold is not capped at the hard stop.
StepRigUncapped(rig, dt, spawned, lands, leaves) ==
  LET flowing == rig.pouring /\ rig.hold < MaxHold
      air == rig.aloft + IF flowing THEN spawned ELSE 0
  IN [rig EXCEPT !.hold = IF flowing THEN rig.hold + dt ELSE @,
                 !.airborne = air, !.landed = @ + lands,
                 !.aloft = air - lands - leaves]
StepRig(rig, dt, spawned, lands, leaves) ==
  LET flowing == rig.pouring /\ rig.hold < MaxHold
      air == rig.aloft + IF flowing THEN spawned ELSE 0
  IN [rig EXCEPT !.hold = IF flowing THEN Capped(rig.hold + dt) ELSE @,
                 !.airborne = air, !.landed = @ + lands,
                 !.aloft = air - lands - leaves]

Frame(dt, spawned, lands, leaves) ==
  LET rig == StepRig(vessel, dt, spawned, lands, leaves)
      stops == rig.hold >= MaxHold /\ ~Finished
      after == [rig EXCEPT !.pouring = @ /\ ~stops]
  IN /\ here /\ rig.aloft >= 0
     /\ vessel' = after
     /\ phase' = IF LivePhase = "settling" /\ IsSettled(after) THEN "settled"
                 ELSE IF stops THEN "settling" ELSE phase
     /\ UNCHANGED <<seen, clock, Shell>>

Frames ==
  \E dt \in 1..LongestFrame, spawned \in 0..1, lands, leaves \in 0..MaxHold :
    Frame(dt, spawned, lands, leaves)

-----------------------------------------------------------------------------
(***************************************************************************)
(* The tier: chosen while the vessel is idle from the rows on offer, and   *)
(* lowered to the deployment's ceiling when the configuration arrives,     *)
(* whatever is in the vessel then.                                         *)
(***************************************************************************)
SelectTier(t) ==
  /\ here /\ seen = "idle" /\ t <= max
  /\ tier' = t
  /\ UNCHANGED <<view, phase, seen, max, config, vessel, clock, request, asked, switches>>

Lowered(t) == IF t > Ceiling THEN Ceiling ELSE t

ConfigArrives ==
  /\ config = "pending"
  /\ config' = "known" /\ max' = Ceiling
  /\ tier' = Lowered(tier)
  /\ UNCHANGED <<view, phase, seen, vessel, clock, request, asked, switches>>

ConfigFails ==
  /\ config = "pending"
  /\ config' = "failed"
  /\ UNCHANGED <<view, phase, seen, tier, max, vessel, clock, request, asked, switches>>

(***************************************************************************)
(* The seal.  A success shows the certificate, and the screen goes with    *)
(* its vessel; a failure leaves everything as it is.                       *)
(***************************************************************************)
Telemetry == [hold |-> vessel.hold, landed |-> vessel.landed]

Seal ==
  /\ here /\ seen = "settled" /\ request = None
  /\ Cardinality(asked) < MaxSeals
  /\ vessel.started # NoStart \/ clock <= MaxReads
  /\ LET start == IF vessel.started # NoStart THEN vessel.started ELSE clock
     IN request' = [start |-> start, tier |-> tier, telemetry |-> Telemetry]
  /\ clock' = IF vessel.started = NoStart THEN clock + 1 ELSE clock
  /\ asked' = asked \cup {request'}
  /\ UNCHANGED <<view, phase, seen, tier, max, config, vessel, switches>>

SealSucceeds ==
  /\ request # None
  /\ request' = None
  /\ view' = "other" /\ phase' = "idle" /\ seen' = "idle"
  /\ vessel' = Empty
  /\ UNCHANGED <<tier, max, config, clock, asked, switches>>

SealFails ==
  /\ request # None
  /\ request' = None
  /\ UNCHANGED <<view, phase, seen, tier, max, config, vessel, clock, asked, switches>>

(***************************************************************************)
(* The tabs.  Leaving unmounts the screen; returning mounts a new one over *)
(* the phase the shell still holds.                                        *)
(***************************************************************************)
Leave ==
  /\ here /\ switches < MaxSwitches
  /\ view' = "other" /\ switches' = switches + 1
  /\ vessel' = Empty
  /\ seen' = phase
  /\ UNCHANGED <<phase, tier, max, config, clock, request, asked>>

Return ==
  /\ ~here
  /\ view' = "ceremony"
  /\ UNCHANGED <<phase, seen, tier, max, config, vessel, clock, request, asked, switches>>

Next ==
  \/ OpenStream \/ CloseStream \/ Discard \/ Render \/ Frames
  \/ \E t \in 0..TopTier : SelectTier(t)
  \/ ConfigArrives \/ ConfigFails
  \/ Seal \/ SealSucceeds \/ SealFails
  \/ Leave \/ Return

Spec == Init /\ [][Next]_vars

(***************************************************************************)
(* React renders what was set, the browser keeps drawing frames, and in    *)
(* them gravity lands whatever is in the air once the stream is closed.    *)
(***************************************************************************)
Falls ==
  /\ ~vessel.pouring
  /\ Frame(1, 0, vessel.aloft, 0)

FairSpec == Spec /\ WF_vars(Render) /\ WF_vars(Frames) /\ WF_vars(Falls)

-----------------------------------------------------------------------------
(***************************************************************************)
(* Type correctness.                                                       *)
(***************************************************************************)
Phases == {"idle", "pouring", "settling", "settled"}
MintRequests == [start : 1..MaxReads, tier : 0..TopTier,
                 telemetry : [hold : 0..MaxHold, landed : 0..MaxHold]]

TypeOK ==
  /\ view \in {"ceremony", "other"} /\ phase \in Phases /\ seen \in Phases
  /\ tier \in 0..TopTier /\ max \in 0..TopTier
  /\ config \in {"pending", "known", "failed"}
  /\ vessel \in [pouring : BOOLEAN, started : 0..MaxReads, hold : 0..MaxHold,
                 aloft : 0..MaxHold, airborne : 0..MaxHold, landed : 0..MaxHold]
  /\ clock \in 1..(MaxReads + 1)
  /\ request \in MintRequests \cup {None} /\ asked \subseteq MintRequests
  /\ switches \in 0..MaxSwitches

(***************************************************************************)
(* "Nothing may be minted before this is true" (isSettled, rig.ts): where  *)
(* the seal can be pressed the pour has a start, its stream is closed and  *)
(* nothing is left in the air.                                             *)
(***************************************************************************)
SealsOnlySettled ==
  here /\ seen = "settled" /\ request = None =>
    /\ vessel.started # NoStart /\ ~vessel.pouring
    /\ vessel.hold > 0 /\ vessel.aloft = 0

(***************************************************************************)
(* That holds of a visitor who stays at the vessel: the frame loop, the    *)
(* hard stop and the handlers read phases that lag behind what was set,    *)
(* and none of it lets an unfinished pour pass for a settled one.          *)
(***************************************************************************)
SettledIsFinal ==
  switches = 0 /\ here /\ seen = "settled" =>
    /\ vessel.started # NoStart /\ ~vessel.pouring
    /\ vessel.hold > 0 /\ vessel.aloft = 0

(***************************************************************************)
(* A pour sealed again after a failure has the telemetry it was sealed     *)
(* with, and the tier but for the ceiling: the ledger's replay looks up    *)
(* the start, ignores the second telemetry and refuses another tier.       *)
(***************************************************************************)
SameStartSamePour ==
  \A r1, r2 \in asked : r1.start = r2.start =>
    r1.telemetry = r2.telemetry /\ Lowered(r1.tier) = Lowered(r2.tier)

(***************************************************************************)
(* "The tier is fixed the moment the stream opens" (PourScreen.tsx): while *)
(* a pour is in the vessel, nothing changes the tier it is poured at.  The *)
(* configuration does, when it arrives late.                               *)
(***************************************************************************)
TierIsFixed == [][vessel.started # NoStart /\ vessel'.started = vessel.started
                    => tier' = tier]_vars

(***************************************************************************)
(* A pour that held the stream for a frame leaves the settling phase: it   *)
(* is settled, or opened again, or given up.                               *)
(***************************************************************************)
SettlesOnceHeld ==
  phase = "settling" /\ here /\ vessel.hold > 0
    ~> phase # "settling" \/ ~here \/ vessel.hold = 0

(***************************************************************************)
(* "Release to settle" (App.tsx): so does every pour that was released.    *)
(***************************************************************************)
ReleaseSettles == phase = "settling" /\ here ~> phase # "settling" \/ ~here
=============================================================================
