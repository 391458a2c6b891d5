----------------------------- MODULE MCScripts -----------------------------
(***************************************************************************)
(* Two verifications and one export at once, over sheets that are as they  *)
(* should be or carry one fault each on one rarity, or print on two pages. *)
(***************************************************************************)
EXTENDS Scripts

CONSTANTS v1, v2, p1

Sound ==
  [w |-> 794, h |-> 1123, stack |-> 1090, ground |-> TRUE,
   serialLines |-> 1, officeLines |-> 1, sigil |-> 300, vpUnits |-> 0,
   dt |-> 8, dd |-> 8, sigilHidden |-> TRUE, footerGap |-> 0,
   disclaimer |-> [left |-> 62, right |-> 530, top |-> 1030, bottom |-> 1061],
   tick |-> [left |-> 40, right |-> 54, top |-> 1069, bottom |-> 1083]]

Snug == [Sound EXCEPT !.stack = 1123, !.disclaimer.left = 54]

Faulty ==
  [clipped |-> [Sound EXCEPT !.stack = 1124],
   wrapped |-> [Sound EXCEPT !.serialLines = 2],
   unpaired |-> [Sound EXCEPT !.dd = 7],
   ticked  |-> [Sound EXCEPT !.disclaimer.left = 48, !.disclaimer.bottom = 1076],
   low     |-> [Sound EXCEPT !.footerGap = 0 - 1]]

\* A fault on the first sheet, on the last, none, all snug; a sheet that prints
\* on two pages; and a machine without a Chrome.
MCCheckouts ==
  ((DOMAIN Faulty) \X {"Common"}) \cup ({"clipped", "ticked"} \X {"Singular"})
    \cup ({"sound", "snug", "bare"} \X {"none"}) \cup ({"long"} \X {"Common", "Singular", "record"})

MCSheet(c, r) ==
  IF c[1] \in DOMAIN Faulty /\ c[2] = r THEN Faulty[c[1]] ELSE IF c[1] = "snug" THEN Snug ELSE Sound

MCPages(c, s) == IF c = <<"long", s>> THEN 2 ELSE 1

MCChromes(c) == IF c[1] = "bare" THEN {} ELSE {"cache", "chromium"}
=============================================================================
