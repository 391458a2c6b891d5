--------------------------- MODULE CeremonyProofs ---------------------------
(***************************************************************************)
(* What the ceremony keeps in any order of frames, renders, tabs, seals    *)
(* and configurations, for any hard stop, any tiers and any number of      *)
(* pours.                                                                  *)
(*                                                                         *)
(* What is rendered may lag behind what was set, and the argument is about *)
(* which lags there are: a settled phase is rendered from a settling one   *)
(* and from nothing else, so whoever sees it settled sees the last word.   *)
(***************************************************************************)
EXTENDS Ceremony, TLAPS

\* One frame of an open stream lets one droplet out and holds a frame.
Counted ==
  vessel.aloft + vessel.landed <= vessel.hold /\ vessel.airborne <= vessel.hold

\* A vessel without a start is empty.
Begun == vessel.started = NoStart => ~vessel.pouring /\ vessel.hold = 0

\* What is rendered is what was set, or the settling before it.
Rendered ==
  /\ seen = "settled" => phase = "settled"
  /\ phase = "settled" => seen \in {"settling", "settled"}

Quiet == phase = "settled" => ~vessel.pouring /\ vessel.aloft = 0

\* Who never opened another view finds at the vessel what was left there.
Stayed ==
  switches = 0 =>
    /\ ~here => phase = "idle"
    /\ here /\ phase = "settled" => vessel.hold > 0

\* What was asked for is the past, or the settled pour as it is.
Past ==
  /\ vessel.started < clock
  /\ \A r \in asked :
       /\ r.start < clock
       /\ r.start = vessel.started =>
            /\ phase = "settled" /\ seen = "settled" /\ r.telemetry = Telemetry
            /\ Lowered(r.tier) = Lowered(tier)

IInv ==
  /\ TypeOK /\ Counted /\ Begun /\ Rendered /\ Quiet /\ Stayed
  /\ Past /\ SameStartSamePour

Vessels == [pouring : BOOLEAN, started : 0..MaxReads, hold : 0..MaxHold,
            aloft : 0..MaxHold, airborne : 0..MaxHold, landed : 0..MaxHold]

LEMMA EmptyVessel ==
  /\ Empty \in Vessels /\ Empty.started = 0 /\ ~Empty.pouring /\ Empty.hold = 0
  /\ Empty.aloft = 0 /\ Empty.airborne = 0 /\ Empty.landed = 0
BY CeremonyAssumption DEF Empty, Vessels, NoStart

LEMMA InitInv == Init => IInv
<1> SUFFICES ASSUME Init PROVE IInv
  OBVIOUS
<1>1. vessel \in Vessels
  BY EmptyVessel DEF Init
<1>2. TypeOK
  BY <1>1, CeremonyAssumption DEF Init, TypeOK, Phases, Vessels
<1>3. Counted /\ Begun /\ Rendered /\ Quiet /\ Stayed
  BY EmptyVessel DEF Init, Counted, Begun, Rendered, Quiet, Stayed, here, NoStart
<1>4. Past /\ SameStartSamePour
  BY EmptyVessel DEF Init, Past, SameStartSamePour
<1> QED BY <1>2, <1>3, <1>4 DEF IInv

(***************************************************************************)
(* A frame, in arithmetic.                                                 *)
(***************************************************************************)
LEMMA FrameStep ==
  ASSUME IInv, NEW dt \in 1..LongestFrame, NEW spawned \in 0..1,
         NEW lands \in 0..MaxHold, NEW leaves \in 0..MaxHold,
         Frame(dt, spawned, lands, leaves)
  PROVE  /\ vessel' \in Vessels
         /\ Counted'
         /\ vessel'.started = vessel.started
         /\ vessel'.pouring => vessel.pouring
         /\ ~vessel.pouring => vessel'.hold = vessel.hold
         /\ vessel'.hold >= vessel.hold
         /\ ~vessel.pouring /\ vessel.aloft = 0 =>
              vessel'.aloft = 0 /\ vessel'.landed = vessel.landed
         /\ phase' # phase =>
              \/ phase' = "settling" /\ vessel.pouring
              \/ /\ phase' = "settled" /\ seen = "settling"
                 /\ ~vessel'.pouring /\ vessel'.hold > 0 /\ vessel'.aloft = 0
<1> DEFINE flowing == vessel.pouring /\ vessel.hold < MaxHold
           air == vessel.aloft + (IF flowing THEN spawned ELSE 0)
           hold == IF flowing THEN Capped(vessel.hold + dt) ELSE vessel.hold
           rig == StepRig(vessel, dt, spawned, lands, leaves)
           stops == rig.hold >= MaxHold /\ ~Finished
<1>1. vessel \in Vessels /\ MaxHold \in Nat \ {0}
  BY CeremonyAssumption DEF IInv, TypeOK, Vessels
<1>2. /\ rig.pouring = vessel.pouring /\ rig.started = vessel.started
      /\ rig.hold = hold /\ rig.airborne = air
      /\ rig.landed = vessel.landed + lands /\ rig.aloft = air - lands - leaves
  BY <1>1 DEF StepRig, Vessels
<1>3. rig = [pouring |-> rig.pouring, started |-> rig.started, hold |-> rig.hold,
             aloft |-> rig.aloft, airborne |-> rig.airborne, landed |-> rig.landed]
  <2>1. rig = [vessel EXCEPT !.hold = hold, !.airborne = air, !.landed = @ + lands,
                             !.aloft = air - lands - leaves]
    BY DEF StepRig
  <2> HIDE DEF rig, hold, air
  <2> QED BY <1>1, <2>1 DEF Vessels
<1>4. /\ hold \in 0..MaxHold /\ hold >= vessel.hold
      /\ flowing => hold >= vessel.hold + 1
      /\ ~flowing => hold = vessel.hold
  BY <1>1 DEF Capped, Vessels, LongestFrame
<1>5. rig.aloft >= 0
  BY DEF Frame
<1>6. vessel.aloft + vessel.landed <= vessel.hold
  BY DEF IInv, Counted
<1>7. /\ air \in Nat /\ air + vessel.landed <= hold
      /\ rig.aloft \in 0..MaxHold /\ air \in 0..MaxHold /\ rig.landed \in 0..MaxHold
      /\ rig.aloft + rig.landed <= hold
      /\ air = 0 => rig.aloft = 0 /\ lands = 0
  <2> HIDE DEF flowing, hold
  <2> QED BY <1>1, <1>2, <1>4, <1>5, <1>6 DEF Vessels
<1>8. vessel' = [rig EXCEPT !.pouring = @ /\ ~stops]
  BY DEF Frame
<1>9. /\ vessel'.pouring = (vessel.pouring /\ ~stops)
      /\ vessel'.started = vessel.started /\ vessel'.hold = hold
      /\ vessel'.airborne = air /\ vessel'.landed = rig.landed /\ vessel'.aloft = rig.aloft
  BY <1>2, <1>3, <1>8
<1>10. vessel' \in Vessels
  <2> HIDE DEF rig, hold, air, stops
  <2>1. vessel' = [pouring |-> rig.pouring /\ ~stops, started |-> rig.started, hold |-> rig.hold,
             aloft |-> rig.aloft, airborne |-> rig.airborne, landed |-> rig.landed]
    BY <1>3, <1>8
  <2> QED BY <2>1, <1>1, <1>2, <1>4, <1>7 DEF Vessels
<1>11. stops => vessel.pouring
  BY <1>1, <1>2, <1>4 DEF Finished, Vessels
<1>12. phase' = IF seen = "settling" /\ IsSettled(vessel') THEN "settled"
                ELSE IF stops THEN "settling" ELSE phase
  BY <1>8 DEF Frame, LivePhase
<1>13. IsSettled(vessel') => ~vessel'.pouring /\ vessel'.hold > 0 /\ vessel'.aloft = 0
  BY <1>7, <1>9 DEF IsSettled
<1>14. Counted'
  <2>1. vessel.landed \in Nat /\ hold \in Nat /\ rig.aloft \in Nat
    BY <1>1, <1>4, <1>7 DEF Vessels
  <2> HIDE DEF rig, hold, air
  <2> QED BY <2>1, <1>7, <1>9 DEF Counted
<1>15. ~vessel.pouring /\ vessel.aloft = 0 => air = 0
  BY DEF Vessels
<1>16. ~vessel.pouring => hold = vessel.hold
  BY <1>4
<1> HIDE DEF flowing, air, hold, rig, stops
<1>17. ~vessel.pouring /\ vessel.aloft = 0 =>
         vessel'.aloft = 0 /\ vessel'.landed = vessel.landed
  BY <1>1, <1>2, <1>7, <1>9, <1>15 DEF Vessels
<1>18. phase' # phase =>
         \/ phase' = "settling" /\ vessel.pouring
         \/ /\ phase' = "settled" /\ seen = "settling"
            /\ ~vessel'.pouring /\ vessel'.hold > 0 /\ vessel'.aloft = 0
  BY <1>11, <1>12, <1>13
<1>19. /\ vessel'.started = vessel.started
       /\ vessel'.pouring => vessel.pouring
       /\ ~vessel.pouring => vessel'.hold = vessel.hold
       /\ vessel'.hold >= vessel.hold
  BY <1>4, <1>9, <1>16
<1> QED BY <1>10, <1>14, <1>17, <1>18, <1>19

LEMMA FramesInv == IInv /\ Frames => IInv'
<1> SUFFICES ASSUME IInv, NEW dt \in 1..LongestFrame, NEW spawned \in 0..1,
                    NEW lands \in 0..MaxHold, NEW leaves \in 0..MaxHold,
                    Frame(dt, spawned, lands, leaves)
             PROVE  IInv'
  BY DEF Frames
<1>0. UNCHANGED <<view, tier, max, config, request, asked, switches, seen, clock>>
  BY DEF Frame, Shell
<1>1. vessel' \in Vessels /\ Counted'
  BY FrameStep
<1>2. /\ vessel'.started = vessel.started
      /\ vessel'.pouring => vessel.pouring
      /\ ~vessel.pouring => vessel'.hold = vessel.hold
      /\ vessel'.hold >= vessel.hold
      /\ ~vessel.pouring /\ vessel.aloft = 0 =>
           vessel'.aloft = 0 /\ vessel'.landed = vessel.landed
  BY FrameStep
<1>3. phase' # phase =>
        \/ phase' = "settling" /\ vessel.pouring
        \/ /\ phase' = "settled" /\ seen = "settling"
           /\ ~vessel'.pouring /\ vessel'.hold > 0 /\ vessel'.aloft = 0
  BY FrameStep
<1>4. vessel \in Vessels
  BY DEF IInv, TypeOK, Vessels
<1>5. TypeOK'
  BY <1>0, <1>1, <1>3 DEF IInv, TypeOK, Phases, Vessels
<1>6. Begun'
  BY <1>2, <1>4, <1>1 DEF IInv, Begun, Vessels
<1>7. Rendered' /\ Quiet'
  BY <1>0, <1>2, <1>3 DEF IInv, Rendered, Quiet
<1>8. Stayed'
  BY <1>0, <1>1, <1>2, <1>3, <1>4 DEF IInv, Stayed, here, Frame, Vessels
<1>9. Past'
  <2> SUFFICES ASSUME NEW r \in asked, r.start = vessel.started
               PROVE  phase' = "settled" /\ seen = "settled" /\ r.telemetry = Telemetry'
    BY <1>0, <1>2 DEF IInv, Past
  <2>1. phase = "settled" /\ seen = "settled" /\ r.telemetry = Telemetry
    BY DEF IInv, Past
  <2>2. ~vessel.pouring /\ vessel.aloft = 0
    BY <2>1 DEF IInv, Quiet
  <2> QED BY <2>1, <2>2, <1>2, <1>3 DEF Telemetry
<1>10. SameStartSamePour'
  BY <1>0 DEF IInv, SameStartSamePour
<1> QED BY <1>1, <1>5, <1>6, <1>7, <1>8, <1>9, <1>10 DEF IInv

LEMMA StreamInv == IInv /\ (OpenStream \/ CloseStream) => IInv'
<1> SUFFICES ASSUME IInv, OpenStream \/ CloseStream PROVE IInv'
  OBVIOUS
<1>0. UNCHANGED <<view, tier, max, config, request, asked, switches>> /\ here
  BY DEF OpenStream, CloseStream, Shell
<1>1. vessel \in Vessels /\ clock \in 1..(MaxReads + 1) /\ MaxReads \in Nat
  BY CeremonyAssumption DEF IInv, TypeOK, Vessels
<1>2. CASE OpenStream
  <2>1. /\ vessel' \in Vessels /\ clock' \in 1..(MaxReads + 1) /\ clock' >= clock
        /\ vessel'.pouring /\ vessel'.hold = vessel.hold /\ vessel'.aloft = vessel.aloft
        /\ vessel'.airborne = vessel.airborne /\ vessel'.landed = vessel.landed
        /\ vessel'.started # NoStart /\ vessel'.started < clock'
        /\ \/ vessel'.started = vessel.started
           \/ vessel'.started = clock
    <3>1. /\ vessel' = [vessel EXCEPT !.pouring = TRUE,
                         !.started = IF @ = NoStart THEN clock ELSE @]
          /\ clock' = IF vessel.started = NoStart THEN clock + 1 ELSE clock
          /\ vessel.started # NoStart \/ clock <= MaxReads
      BY <1>2 DEF OpenStream
    <3>2. vessel.started < clock
      BY DEF IInv, Past
    <3> DEFINE started == IF vessel.started = NoStart THEN clock ELSE vessel.started
    <3>3. /\ started \in 0..MaxReads /\ started # NoStart /\ started < clock'
          /\ clock' \in 1..(MaxReads + 1) /\ clock' >= clock
          /\ started = vessel.started \/ started = clock
      BY <1>1, <3>1, <3>2 DEF Vessels, NoStart
    <3>4. vessel' = [vessel EXCEPT !.pouring = TRUE, !.started = started]
      BY <3>1
    <3> HIDE DEF started
    <3>5. /\ vessel' \in Vessels /\ vessel'.pouring /\ vessel'.started = started
          /\ vessel'.hold = vessel.hold /\ vessel'.aloft = vessel.aloft
          /\ vessel'.airborne = vessel.airborne /\ vessel'.landed = vessel.landed
      BY <1>1, <3>3, <3>4 DEF Vessels
    <3> QED BY <3>3, <3>5
  <2>2. seen # "settled" /\ phase' # "settled" /\ phase' \in Phases /\ seen' = "pouring"
    BY <1>2 DEF OpenStream, LivePhase, IInv, TypeOK, Phases, Rendered, Quiet
  <2>3. TypeOK'
    BY <1>0, <2>1, <2>2 DEF IInv, TypeOK, Phases, Vessels
  <2>4. Counted' /\ Begun' /\ Rendered' /\ Quiet' /\ Stayed'
    BY <1>0, <2>1, <2>2 DEF IInv, Counted, Begun, Rendered, Quiet, Stayed, here
  <2>5. Past'
    <3> SUFFICES ASSUME NEW r \in asked PROVE r.start < clock' /\ r.start # vessel'.started
      BY <1>0, <2>1 DEF Past
    <3>1. r.start < clock /\ r.start # vessel.started /\ r.start \in Int
      BY <2>2 DEF IInv, Past, TypeOK, MintRequests
    <3> QED BY <3>1, <2>1, <1>1
  <2> QED BY <1>0, <2>3, <2>4, <2>5 DEF IInv, SameStartSamePour
<1>3. CASE CloseStream
  <2>1. /\ vessel' \in Vessels /\ ~vessel'.pouring /\ vessel'.hold = vessel.hold
        /\ vessel'.aloft = vessel.aloft /\ vessel'.airborne = vessel.airborne
        /\ vessel'.landed = vessel.landed /\ vessel'.started = vessel.started
        /\ clock' = clock
    BY <1>1, <1>3 DEF CloseStream, Vessels
  <2>2. phase # "settled" /\ seen # "settled" /\ vessel.started # NoStart
    BY <1>3 DEF CloseStream, IInv, Quiet, Rendered, Begun
  <2>3. phase' = "settling" /\ seen' # "settled" /\ seen' \in Phases
    BY <1>3, <2>2 DEF CloseStream, IInv, TypeOK, Phases
  <2>4. TypeOK'
    BY <1>0, <2>1, <2>3 DEF IInv, TypeOK, Phases, Vessels
  <2>5. Counted' /\ Begun' /\ Rendered' /\ Quiet' /\ Stayed'
    BY <1>0, <2>1, <2>2, <2>3 DEF IInv, Counted, Begun, Rendered, Quiet, Stayed, here
  <2>6. Past'
    BY <1>0, <2>1, <2>2 DEF IInv, Past
  <2> QED BY <1>0, <2>4, <2>5, <2>6 DEF IInv, SameStartSamePour
<1> QED BY <1>2, <1>3

(***************************************************************************)
(* Whatever empties the vessel, and leaves what was rendered behind what   *)
(* was set in no way that it was not.                                      *)
(***************************************************************************)
LEMMA EmptiedInv ==
  ASSUME IInv, vessel' = Empty, seen' = phase', phase' \in Phases,
         view' \in {"ceremony", "other"},
         request' \in {request, None},
         switches' \in 0..MaxSwitches,
         switches' = 0 => phase' = "idle",
         UNCHANGED <<tier, max, config, clock, asked>>
  PROVE  IInv'
<1>1. vessel' \in Vessels
  BY EmptyVessel
<1>2. TypeOK'
  BY <1>1 DEF IInv, TypeOK, Vessels
<1>3. Counted' /\ Begun' /\ Rendered' /\ Quiet' /\ Stayed'
  BY EmptyVessel DEF Counted, Begun, Rendered, Quiet, Stayed, here
<1>4. Past'
  <2>1. \A r \in asked : r.start < clock /\ r.start \in 1..MaxReads
    BY DEF IInv, Past, TypeOK, MintRequests
  <2>2. clock \in 1..(MaxReads + 1)
    BY DEF IInv, TypeOK
  <2> QED BY <2>1, <2>2, EmptyVessel DEF Past
<1> QED BY <1>2, <1>3, <1>4 DEF IInv, SameStartSamePour

LEMMA EmptyingInv == IInv /\ (Discard \/ SealSucceeds \/ Leave) => IInv'
<1> SUFFICES ASSUME IInv, Discard \/ SealSucceeds \/ Leave PROVE IInv'
  OBVIOUS
<1>0. view \in {"ceremony", "other"} /\ phase \in Phases /\ switches \in 0..MaxSwitches
  BY DEF IInv, TypeOK
<1>1. CASE Discard
  BY <1>0, <1>1, EmptiedInv DEF Discard, Shell, Phases
<1>2. CASE SealSucceeds
  BY <1>0, <1>2, EmptiedInv DEF SealSucceeds, Phases
<1>3. CASE Leave
  <2>1. switches' \in 0..MaxSwitches /\ switches' # 0
    BY <1>0, <1>3, CeremonyAssumption DEF Leave
  <2> QED BY <1>0, <1>3, <2>1, EmptiedInv DEF Leave
<1> QED BY <1>1, <1>2, <1>3

LEMMA RenderInv == IInv /\ Render => IInv'
<1> SUFFICES ASSUME IInv, Render PROVE IInv'
  OBVIOUS
<1>1. seen' = phase /\ UNCHANGED <<phase, vessel, clock, view, tier, max, config, request, asked, switches>>
  BY DEF Render, Shell
<1>2. TypeOK'
  BY <1>1 DEF IInv, TypeOK, Phases
<1>3. Counted' /\ Begun' /\ Rendered' /\ Quiet' /\ Stayed'
  BY <1>1 DEF IInv, Counted, Begun, Rendered, Quiet, Stayed, here
<1>4. Past'
  BY <1>1 DEF IInv, Past, Telemetry
<1> QED BY <1>1, <1>2, <1>3, <1>4 DEF IInv, SameStartSamePour

LEMMA ShellInv ==
  IInv /\ ((\E t \in 0..TopTier : SelectTier(t)) \/ ConfigArrives \/ ConfigFails
             \/ SealFails \/ Return)
    => IInv'
<1> SUFFICES ASSUME IInv,
                    (\E t \in 0..TopTier : SelectTier(t)) \/ ConfigArrives \/ ConfigFails
                      \/ SealFails \/ Return
             PROVE  IInv'
  OBVIOUS
<1>1. UNCHANGED <<phase, seen, vessel, clock, asked, switches>>
  BY DEF SelectTier, ConfigArrives, ConfigFails, SealFails, Return
<1>2. TypeOK'
  BY <1>1, CeremonyAssumption
  DEF SelectTier, ConfigArrives, ConfigFails, SealFails, Return, IInv, TypeOK, Lowered
<1>3. Counted' /\ Begun' /\ Rendered' /\ Quiet'
  BY <1>1 DEF IInv, Counted, Begun, Rendered, Quiet
<1>4. Stayed'
  BY <1>1 DEF SelectTier, ConfigArrives, ConfigFails, SealFails, Return, IInv, Stayed, here
<1>5. SameStartSamePour' /\ Telemetry' = Telemetry
  BY <1>1 DEF IInv, SameStartSamePour, Telemetry
<1>6. seen = "settled" => Lowered(tier') = Lowered(tier)
  BY CeremonyAssumption
  DEF SelectTier, ConfigArrives, ConfigFails, SealFails, Return, IInv, TypeOK, Lowered
<1>7. Past'
  BY <1>1, <1>5, <1>6 DEF IInv, Past
<1> QED BY <1>2, <1>3, <1>4, <1>5, <1>7 DEF IInv

LEMMA SealInv == IInv /\ Seal => IInv'
<1> SUFFICES ASSUME IInv, Seal PROVE IInv'
  OBVIOUS
<1> DEFINE start == IF vessel.started # NoStart THEN vessel.started ELSE clock
           new == [start |-> start, tier |-> tier, telemetry |-> Telemetry]
<1>1. /\ request' = new /\ asked' = asked \cup {new}
      /\ clock' = IF vessel.started = NoStart THEN clock + 1 ELSE clock
      /\ UNCHANGED <<view, phase, seen, tier, max, config, vessel, switches>>
      /\ seen = "settled"
      /\ vessel.started # NoStart \/ clock <= MaxReads
  BY DEF Seal
<1>2. /\ vessel \in Vessels /\ clock \in 1..(MaxReads + 1) /\ MaxReads \in Nat
      /\ vessel.started < clock /\ phase = "settled" /\ tier \in 0..TopTier
  BY <1>1, CeremonyAssumption DEF IInv, TypeOK, Vessels, Past, Rendered
<1>3. /\ start \in 1..MaxReads /\ clock' \in 1..(MaxReads + 1) /\ clock' >= clock
      /\ start < clock' /\ vessel.started < clock'
      /\ start = vessel.started \/ (vessel.started = 0 /\ start = clock)
  BY <1>1, <1>2 DEF Vessels, NoStart
<1>4. new \in MintRequests
  BY <1>2, <1>3 DEF MintRequests, Telemetry, Vessels
<1>5. TypeOK'
  BY <1>1, <1>3, <1>4 DEF IInv, TypeOK
<1>6. Counted' /\ Begun' /\ Rendered' /\ Quiet' /\ Stayed'
  BY <1>1 DEF IInv, Counted, Begun, Rendered, Quiet, Stayed, here
<1>7. \A r \in asked : r.start < clock /\ r.start \in Int
                         /\ (r.start = vessel.started =>
                               r.telemetry = Telemetry /\ Lowered(r.tier) = Lowered(tier))
  BY DEF IInv, Past, TypeOK, MintRequests
<1>8. new.start = start /\ new.telemetry = Telemetry /\ new.tier = tier
  OBVIOUS
<1>9. Telemetry' = Telemetry
  BY <1>1 DEF Telemetry
<1> HIDE DEF start, new
<1>10. Past'
  BY <1>1, <1>2, <1>3, <1>7, <1>8, <1>9 DEF Past
<1>11. \A r \in asked : r.start = start => r.telemetry = Telemetry /\ Lowered(r.tier) = Lowered(tier)
  BY <1>2, <1>3, <1>7
<1>12. SameStartSamePour'
  BY <1>1, <1>8, <1>11 DEF IInv, SameStartSamePour
<1> QED BY <1>5, <1>6, <1>10, <1>12 DEF IInv

LEMMA NextInv == IInv /\ [Next]_vars => IInv'
<1> SUFFICES ASSUME IInv, [Next]_vars PROVE IInv'
  OBVIOUS
<1>1. CASE UNCHANGED vars
  BY <1>1 DEF vars, IInv, TypeOK, Counted, Begun, Rendered, Quiet, Stayed, here, Past,
              SameStartSamePour, Telemetry
<1> QED BY <1>1, FramesInv, StreamInv, EmptyingInv, RenderInv, ShellInv, SealInv DEF Next

(***************************************************************************)
(* The inductive invariant: which lags there are between what was set and  *)
(* what is rendered, and what they leave of the vessel.                    *)
(***************************************************************************)
THEOREM Invariance == Spec => []IInv
BY InitInv, NextInv, PTL DEF Spec

(***************************************************************************)
(* The screen, the shell and the rig keep their types; in particular a     *)
(* frame that overshoots the hard stop leaves the hold at it, and no more  *)
(* lands than was let out.                                                 *)
(***************************************************************************)
THEOREM TypeCorrect == Spec => []TypeOK
<1>1. IInv => TypeOK
  BY DEF IInv
<1> QED BY Invariance, <1>1, PTL

(***************************************************************************)
(* "Nothing may be minted before this is true" (isSettled, rig.ts), of a   *)
(* visitor who stays at the vessel.                                        *)
(***************************************************************************)
THEOREM SettledStaysFinal == Spec => []SettledIsFinal
<1>1. IInv => SettledIsFinal
  <2> SUFFICES ASSUME IInv, switches = 0, here, seen = "settled"
               PROVE  vessel.started # NoStart /\ ~vessel.pouring /\ vessel.hold > 0 /\ vessel.aloft = 0
    BY DEF SettledIsFinal
  <2>1. phase = "settled"
    BY DEF IInv, Rendered
  <2>2. ~vessel.pouring /\ vessel.aloft = 0 /\ vessel.hold > 0
    BY <2>1 DEF IInv, Quiet, Stayed
  <2> QED BY <2>2 DEF IInv, Begun
<1> QED BY Invariance, <1>1, PTL

(***************************************************************************)
(* A pour sealed again after a failure is the same pour, whatever happened *)
(* in between: other tabs, discards, other pours.                          *)
(***************************************************************************)
THEOREM RetriesAreTheSamePour == Spec => []SameStartSamePour
<1>1. IInv => SameStartSamePour
  BY DEF IInv
<1> QED BY Invariance, <1>1, PTL
=============================================================================
