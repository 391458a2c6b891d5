-------------------------------- MODULE Stage --------------------------------
(***************************************************************************)
(* The page's two pictures and the loops that draw them: the vessel, whose *)
(* canvas comes and goes with the ceremony (app/ceremony/PourScreen.tsx,   *)
(* app/ceremony/metaball.ts), and the backdrop, which leaves only for the  *)
(* certificate (app/design/MoltenBackground.tsx).                          *)
(*                                                                         *)
(* A ref callback runs in the commit that mounts or unmounts its node.  An *)
(* effect, or its cleanup, runs with it after a click, and later after a   *)
(* promise: the pour loop of a screen that a seal has unmounted can have   *)
(* frames left.                                                            *)
(***************************************************************************)
EXTENDS Naturals, FiniteSets

CONSTANTS
  Contexts,       \* names of WebGL contexts
  None,           \* no renderer, no backdrop
  FullAmount      \* steps between the dimmed backdrop and the full one

ASSUME StageAssumption == Contexts # {} /\ None \notin Contexts /\ FullAmount \in Nat \ {0}

VARIABLES
  view,
  due,          \* the effects of the last commit have not run
  loop,         \* the pour loop has a frame requested
  renderer,     \* rendererRef: a context or None
  lit,          \* contexts with a program, not yet lost
  unlit,
  notice,       \* the shell has a transient notice
  phase,        \* the shell's
  sealing,
  rig,          \* what of the rig and its screen's refs the loop decides by
  backdrop,     \* None, or its state between two frames
  still         \* prefers-reduced-motion

stageVars == <<view, due, loop, renderer, lit, unlit, notice, phase, sealing, rig, backdrop, still>>

vessel == <<due, loop, renderer, lit, unlit, rig>>
shell == <<view, phase, notice, sealing>>

Phases == {"idle", "pouring", "settling", "settled"}
Views == {"ceremony", "collection", "certificate"}
Mounted == view = "ceremony"    \* the canvas is attached

EmptyRig == [held |-> FALSE, pouring |-> FALSE, finished |-> FALSE, saw |-> "idle"]

\* liveRef.current.phase: the last the screen was rendered with.
Seen == IF Mounted THEN phase ELSE rig.saw

-----------------------------------------------------------------------------
(***************************************************************************)
(* createRenderer and attachCanvas.  The browser may refuse a context, or  *)
(* grant one that no program can be compiled or linked for: that one is    *)
(* not kept, and is left to the collector.                                 *)
(***************************************************************************)
Attach ==
  \/ /\ renderer' = CHOOSE c \in Contexts \ lit : TRUE
     /\ lit' = lit \cup {renderer'} /\ unlit' = FALSE
  \/ renderer' = None /\ lit' = lit /\ unlit' = TRUE

\* Mutant: the renderer goes out of scope with its canvas and is left to the collector.
DetachQuietly == renderer' = None /\ unlit' = FALSE /\ UNCHANGED lit
Detach == lit' = lit \ {renderer} /\ renderer' = None /\ unlit' = FALSE

-----------------------------------------------------------------------------
(***************************************************************************)
(* The backdrop: attached with its host, or not at all where there is no   *)
(* WebGL.  blank is the canvas, whatever the component believes of it.     *)
(***************************************************************************)
Target == IF phase = "pouring" THEN 0 ELSE FullAmount    \* targetAmount

Lit(amount) == [lost |-> FALSE, dirty |-> TRUE, blank |-> TRUE, amount |-> amount]

AttachBackdrop == backdrop' \in {None, Lit(Target)}

ShowBackdrop(there) ==
  IF there = "certificate" THEN backdrop' = None
  ELSE IF view = "certificate" THEN AttachBackdrop
  ELSE UNCHANGED backdrop

\* Mutant: a late frame eases past the target.
EasedPast(amount) == IF amount <= Target THEN amount + 1 ELSE amount - 1
Eased(amount) == IF amount < Target THEN amount + 1 ELSE IF amount > Target THEN amount - 1 ELSE amount

BackdropFrame ==
  /\ backdrop # None /\ ~backdrop.lost
  /\ backdrop' = [backdrop EXCEPT
       !.amount = Eased(@),
       !.dirty = FALSE,
       !.blank = @ /\ still /\ ~backdrop.dirty /\ backdrop.amount = Target]
  /\ UNCHANGED <<vessel, shell, still>>

\* Mutant: the field is redrawn by its own motion, and by nothing else.
ResizeQuiet ==
  /\ backdrop # None
  /\ backdrop' = [backdrop EXCEPT !.blank = TRUE]
  /\ UNCHANGED <<vessel, shell, still>>
Resize ==    \* setSize clears the canvas
  /\ backdrop # None
  /\ backdrop' = [backdrop EXCEPT !.blank = TRUE, !.dirty = TRUE]
  /\ UNCHANGED <<vessel, shell, still>>

LoseContext ==
  /\ backdrop # None /\ ~backdrop.lost
  /\ backdrop' = [backdrop EXCEPT !.lost = TRUE, !.blank = TRUE]
  /\ UNCHANGED <<vessel, shell, still>>

RestoreContext ==
  /\ backdrop # None /\ backdrop.lost
  /\ backdrop' = [backdrop EXCEPT !.lost = FALSE, !.dirty = TRUE]
  /\ UNCHANGED <<vessel, shell, still>>

ChangeMotion ==
  /\ still' = ~still
  /\ backdrop' = IF backdrop = None THEN None ELSE [backdrop EXCEPT !.dirty = TRUE]
  /\ UNCHANGED <<vessel, shell>>

-----------------------------------------------------------------------------
StageInit ==
  /\ view = "ceremony" /\ due = TRUE /\ loop = FALSE
  /\ renderer \in {CHOOSE c \in Contexts : TRUE, None}
  /\ lit = {renderer} \ {None} /\ unlit = (renderer = None)
  /\ notice = FALSE /\ phase = "idle" /\ sealing = FALSE /\ rig = EmptyRig
  /\ still \in BOOLEAN /\ backdrop \in {None, Lit(FullAmount)}

(***************************************************************************)
(* A tab or a tile shows another view, and the effects run with the click. *)
(***************************************************************************)
Show(there) ==
  /\ ~due /\ there # view
  /\ view' = there
  /\ IF there = "ceremony" THEN Attach
     ELSE IF Mounted THEN Detach
     ELSE UNCHANGED <<renderer, lit, unlit>>
  /\ loop' = (there = "ceremony") /\ rig' = EmptyRig
  /\ ShowBackdrop(there)
  /\ UNCHANGED <<due, phase, notice, sealing, still>>

(***************************************************************************)
(* The seal: a record shows itself wherever the visitor is by then, and    *)
(* empties the shell's half of the vessel; a failure only says so.         *)
(***************************************************************************)
\* Mutant: there is one source of notices, the shell's.
BandTransient == notice
Band == notice \/ unlit

Seal ==
  /\ Mounted /\ ~due /\ phase = "settled" /\ ~sealing
  /\ sealing' = TRUE /\ notice' = FALSE
  /\ UNCHANGED <<vessel, view, phase, backdrop, still>>

SealFails ==
  /\ sealing /\ sealing' = FALSE /\ notice' = TRUE
  /\ UNCHANGED <<vessel, view, phase, backdrop, still>>

SealSucceeds ==
  /\ sealing /\ ~due /\ sealing' = FALSE
  /\ view' = "certificate" /\ phase' = "idle"
  /\ IF Mounted THEN Detach ELSE UNCHANGED <<renderer, lit, unlit>>
  /\ due' = Mounted
  /\ rig' = [rig EXCEPT !.saw = phase]
  /\ backdrop' = None
  /\ UNCHANGED <<loop, notice, still>>

(***************************************************************************)
(* The effects run: a mounted screen starts its loop over a rig of its     *)
(* own, and one that is gone cancels the frame it last requested.          *)
(***************************************************************************)
Effects ==
  /\ due /\ due' = FALSE
  /\ loop' = Mounted /\ rig' = EmptyRig
  /\ UNCHANGED <<renderer, lit, unlit, shell, backdrop, still>>

-----------------------------------------------------------------------------
screen == <<view, sealing, due, loop, renderer, lit, unlit, backdrop, still>>

OpenStream ==
  /\ Mounted /\ ~due /\ phase # "settled" /\ ~rig.finished /\ ~rig.pouring
  /\ rig' = [rig EXCEPT !.pouring = TRUE]
  /\ phase' = "pouring" /\ notice' = (notice /\ phase = "pouring")
  /\ UNCHANGED screen

CloseStream ==
  /\ Mounted /\ ~due /\ rig.pouring
  /\ rig' = [rig EXCEPT !.pouring = FALSE] /\ phase' = "settling"
  /\ UNCHANGED <<notice, screen>>

Discard ==
  /\ Mounted /\ ~due /\ phase # "idle"
  /\ rig' = EmptyRig /\ phase' = "idle" /\ notice' = FALSE
  /\ UNCHANGED screen

(***************************************************************************)
(* One frame of the pour loop, which steps and draws only over a canvas.   *)
(***************************************************************************)
Stepped ==
  /\ \E stops \in {FALSE, rig.pouring} :
       /\ rig' = [rig EXCEPT !.held = @ \/ rig.pouring, !.pouring = @ /\ ~stops, !.finished = @ \/ stops]
       /\ notice' = (notice \/ stops)
       /\ \/ phase' = IF stops THEN "settling" ELSE phase
          \/ /\ Seen = "settling" /\ ~rig.pouring /\ rig.held    \* and nothing is in the air
             /\ phase' = "settled"
  /\ UNCHANGED screen

\* Mutant: the loop trusts that it is cancelled when the screen goes.
FrameUnguarded == loop /\ Stepped
Frame == loop /\ Mounted /\ Stepped

-----------------------------------------------------------------------------
StageTypeOK ==
  /\ view \in Views /\ due \in BOOLEAN /\ loop \in BOOLEAN
  /\ renderer \in Contexts \cup {None} /\ lit \subseteq Contexts
  /\ unlit \in BOOLEAN /\ notice \in BOOLEAN /\ sealing \in BOOLEAN /\ still \in BOOLEAN
  /\ phase \in Phases
  /\ rig \in [held : BOOLEAN, pouring : BOOLEAN, finished : BOOLEAN, saw : Phases]
  /\ backdrop \in [lost : BOOLEAN, dirty : BOOLEAN, blank : BOOLEAN, amount : 0..FullAmount] \cup {None}

(***************************************************************************)
(* "The canvas unmounts every time the user changes view, and an effect    *)
(* that sets GL up on mount leaves a live context attached to a detached   *)
(* canvas -- measured as a leaked frame loop drawing into nothing"         *)
(* (PourScreen.tsx): a lit context is the mounted canvas's and the one it  *)
(* draws with, and once the effects have run a loop has its screen.        *)
(***************************************************************************)
NothingOutlivesTheCanvas ==
  /\ lit = {renderer} \ {None}
  /\ renderer # None => Mounted
  /\ ~due => loop = Mounted

(***************************************************************************)
(* A screen that is gone cannot move the ceremony: while no canvas is      *)
(* attached and no seal is out, nothing moves the phase, so that the seal  *)
(* that emptied the vessel leaves it empty.                                *)
(***************************************************************************)
GoneScreenIsMute ==
  [][~Mounted /\ ~sealing => phase' = phase]_stageVars

(***************************************************************************)
(* "The shell's notice is cleared every time the stream opens, and routing *)
(* this through it meant the warning vanished": a vessel without a picture *)
(* says so in the band whenever nothing else is said there.                *)
(***************************************************************************)
DarkVesselSaysSo == Mounted /\ renderer = None => Band

(***************************************************************************)
(* A backdrop whose context is not lost is drawn, at the amount the phase  *)
(* asks for, unless something disturbs it again; and this also for a       *)
(* visitor who asked for no motion, for whom nothing else redraws it.      *)
(***************************************************************************)
Undisturbed == backdrop # None /\ ~backdrop.lost
BackdropSettles ==
  \A drawn \in 0..FullAmount :
    Undisturbed /\ Target = drawn
      ~> (~Undisturbed \/ Target # drawn \/ (~backdrop.blank /\ backdrop.amount = drawn))
=============================================================================
