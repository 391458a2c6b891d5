------------------------------ MODULE Scripts ------------------------------
(***************************************************************************)
(* The two scripts that drive the certificate in a headless Chrome:        *)
(* scripts/verify-certificate.ts measures the proof sheets against the A4  *)
(* page, scripts/certificate-pdf.ts exports one pour.  Each is a process   *)
(* of its own: it starts a dev server and a browser, works inside a try    *)
(* whose every step can throw, and closes both in the finally.             *)
(*                                                                         *)
(* The dev server, Chrome and the page they serve are external.  A dev     *)
(* server whose port is taken listens on the next free one; the scripts    *)
(* ask for the port they named all the same.                               *)
(***************************************************************************)
EXTENDS Integers, Sequences, FiniteSets

CONSTANTS
  Verifiers,   \* runs of verify-certificate
  Exporters,   \* runs of certificate-pdf
  Checkouts,   \* the states of the repository the scripts may run in
  Sheet(_, _), \* Sheet(c, r): what the proof sheet of rarity r measures in c
  Pages(_, _), \* Pages(c, s): how many pages the sheet of s prints on in c, s a rarity
               \* or the record that is exported
  Chromes(_)   \* Chromes(c): where on this machine a Chrome is to be found

VARIABLES
  pc,          \* pc[i]: the next step of run i
  thrown,      \* thrown[i]: an exception is on its way out of the try
  listening,   \* listening[p]: who serves port p, or Nobody
  browser,     \* browser[i]: i's Chrome is up
  problems,    \* problems[i]: what verify-certificate has found
  artifacts,   \* the PDFs written: who wrote one, and its pages
  exit,        \* exit[i]: i's exit code, or Running
  checkout     \* the repository as it is

vars == <<pc, thrown, listening, browser, problems, artifacts, exit, checkout>>

Runs == Verifiers \cup Exporters
Running == 0 - 1
Nobody == "nobody"

\* No process is a run of both scripts.
ASSUME ScriptsAssumption == Verifiers \cap Exporters = {} /\ Nobody \notin Runs

Ports == 5195..5202

Port(i) == IF i \in Verifiers THEN 5199 ELSE 5195

Rarities == <<"Common", "Uncommon", "Rare", "Singular">>

PageW == 794
PageH == 1123

\* The steps of each script, in the order of its lines; the try runs from
\* "listen" to before "finally".
VerifyScript == <<"prepare", "listen", "launch", "goto", "Common", "Uncommon", "Rare", "Singular",
                  "print", "finally", "end">>
ExportScript == <<"prepare", "listen", "launch", "goto", "export", "finally", "end">>

Script(i) == IF i \in Verifiers THEN VerifyScript ELSE ExportScript

At(i, step) == exit[i] = Running /\ Script(i)[pc[i]] = step
Then(i) == pc' = [pc EXCEPT ![i] = @ + 1]
Closed(i) == [p \in Ports |-> IF listening[p] = i THEN Nobody ELSE listening[p]]

Init ==
  /\ pc = [i \in Runs |-> 1]
  /\ thrown = [i \in Runs |-> FALSE]
  /\ listening = [p \in Ports |-> Nobody]
  /\ browser = [i \in Runs |-> FALSE]
  /\ problems = [i \in Runs |-> {}]
  /\ artifacts = {}
  /\ exit = [i \in Runs |-> Running]
  /\ checkout \in Checkouts

(***************************************************************************)
(* The process ends: its ports and, by Puppeteer's exit hook, its Chrome   *)
(* go with it.                                                             *)
(***************************************************************************)
Exit(i, code) ==
  /\ exit' = [exit EXCEPT ![i] = code]
  /\ listening' = Closed(i)
  /\ browser' = [browser EXCEPT ![i] = FALSE]
  /\ UNCHANGED <<pc, thrown>>

(***************************************************************************)
(* Before the try: the arguments, the record from the ledger, the          *)
(* directory, a dev server not yet listening.  A missing argument, a pour  *)
(* this session cannot see, a step that fails: nothing is open, and the    *)
(* process ends.                                                           *)
(***************************************************************************)
Prepare(i) ==
  /\ At(i, "prepare")
  /\ \/ /\ Then(i)
        /\ UNCHANGED <<thrown, listening, browser, exit>>
     \/ \E code \in IF i \in Exporters THEN {1, 2} ELSE {1} : Exit(i, code)
  /\ UNCHANGED <<problems, artifacts, checkout>>

Listen(i) ==
  /\ At(i, "listen")
  /\ LET free == {p \in Ports : p >= Port(i) /\ listening[p] = Nobody}
         port == CHOOSE p \in free : \A q \in free : p <= q
     IN listening' = [listening EXCEPT ![port] = i]
  /\ Then(i)
  /\ UNCHANGED <<thrown, browser, problems, artifacts, exit, checkout>>

(***************************************************************************)
(* findChrome: the path CI sets, Puppeteer's own download, a system        *)
(* install, in that order; without any it throws.                          *)
(***************************************************************************)
FindChrome ==
  LET places == <<"CHROME_PATH", "cache", "google-chrome", "chromium">>
  IN SelectSeq(places, LAMBDA p : p \in Chromes(checkout))

Launch(i) ==
  /\ At(i, "launch")
  /\ FindChrome # <<>>
  /\ browser' = [browser EXCEPT ![i] = TRUE]
  /\ Then(i)
  /\ UNCHANGED <<thrown, listening, problems, artifacts, exit, checkout>>

(***************************************************************************)
(* What /proof.html shows: the one record of the query string, or a        *)
(* specimen of every rarity side by side.                                  *)
(***************************************************************************)
Shown(i) == IF i \in Exporters THEN {"record"} ELSE {Rarities[n] : n \in DOMAIN Rarities}

(***************************************************************************)
(* The verifier keeps one sheet of the four before it prints, and none of  *)
(* the other three is ever printed.                                        *)
(***************************************************************************)
Isolated(shown) == shown \cap {"Common"}

(***************************************************************************)
(* A sheet alone prints on the pages it takes; sheets side by side, on one *)
(* page each at the least.                                                 *)
(***************************************************************************)
Printed(shown) ==
  IF Cardinality(shown) = 1 THEN Pages(checkout, CHOOSE s \in shown : TRUE) ELSE Cardinality(shown)

Goto(i) ==
  /\ At(i, "goto")
  /\ listening[Port(i)] # Nobody
  /\ Then(i)
  /\ UNCHANGED <<thrown, listening, browser, problems, artifacts, exit, checkout>>

(***************************************************************************)
(* What verify-certificate makes of one sheet's measurements.  The         *)
(* disclaimer and the corner tick are rectangles: they share a height by   *)
(* design and only a real intersection is a fault.                         *)
(***************************************************************************)
Overlaps(box, tick) ==
  /\ box.left < tick.right /\ box.right > tick.left
  /\ box.top < tick.bottom /\ box.bottom > tick.top

Verdicts(m) ==
  [page   |-> m.w = PageW /\ m.h = PageH,
   stack  |-> m.stack <= PageH,
   ground |-> m.ground,
   serial |-> m.serialLines = 1,
   office |-> m.officeLines = 1,
   sigil  |-> m.sigil <= 300,
   units  |-> m.vpUnits = 0,
   ledger |-> m.dt = 8 /\ m.dd = 8,
   hidden |-> m.sigilHidden,
   tick   |-> ~ Overlaps(m.disclaimer, m.tick),
   footer |-> m.footerGap >= 0]

Faults(r, m) == {<<r, check>> : check \in {c \in DOMAIN Verdicts(m) : ~ Verdicts(m)[c]}}

\* A fault SuccessIsDeserved must catch: each sheet starts the list afresh.
FoundLast(i, faults) == faults

Found(i, faults) == problems[i] \cup faults

Measure(i) ==
  \E n \in DOMAIN Rarities :
    /\ At(i, Rarities[n])
    /\ problems' = [problems EXCEPT ![i] = Found(i, Faults(Rarities[n], Sheet(checkout, Rarities[n])))]
    /\ Then(i)
    /\ UNCHANGED <<thrown, listening, browser, artifacts, exit, checkout>>

(***************************************************************************)
(* The real print path, on a second page load, of the sheet that was kept. *)
(***************************************************************************)
PrintPages(i) ==
  /\ At(i, "print")
  /\ listening[Port(i)] # Nobody
  /\ LET count == Printed(Isolated(Shown(i)))
     IN /\ artifacts' = artifacts \cup {[by |-> i, pages |-> count]}
        /\ problems' = [problems EXCEPT ![i] = IF count = 1 THEN @ ELSE @ \cup {<<"pdf", "pages">>}]
  /\ Then(i)
  /\ UNCHANGED <<thrown, listening, browser, exit, checkout>>

(***************************************************************************)
(* The export writes a single sheet, or leaves the try, finally and all,   *)
(* through process.exit.                                                   *)
(***************************************************************************)
Export(i) ==
  /\ At(i, "export")
  /\ LET count == Printed(Shown(i))
     IN \/ /\ count = 1
           /\ artifacts' = artifacts \cup {[by |-> i, pages |-> count]}
           /\ Then(i)
           /\ UNCHANGED <<thrown, listening, browser, exit>>
        \/ /\ count # 1
           /\ Exit(i, 1)
           /\ UNCHANGED artifacts
  /\ UNCHANGED <<problems, checkout>>

(***************************************************************************)
(* Any step of the try may throw, a page that nobody serves any more       *)
(* always; the finally comes next.                                         *)
(***************************************************************************)
Throw(i) ==
  /\ exit[i] = Running
  /\ 1 < pc[i] /\ pc[i] < Len(Script(i)) - 1
  /\ pc' = [pc EXCEPT ![i] = Len(Script(i)) - 1]
  /\ thrown' = [thrown EXCEPT ![i] = TRUE]
  /\ UNCHANGED <<listening, browser, problems, artifacts, exit, checkout>>

\* A fault ScriptsEnd must catch: the finally closes the browser only.
FinallyLeaking(i) ==
  /\ At(i, "finally")
  /\ browser' = [browser EXCEPT ![i] = FALSE]
  /\ Then(i)
  /\ UNCHANGED <<thrown, listening, problems, artifacts, exit, checkout>>

Finally(i) ==
  /\ At(i, "finally")
  /\ browser' = [browser EXCEPT ![i] = FALSE]
  /\ listening' = Closed(i)
  /\ Then(i)
  /\ UNCHANGED <<thrown, problems, artifacts, exit, checkout>>

(***************************************************************************)
(* browser.close() or server.close() may itself throw, and then nothing    *)
(* catches it.                                                             *)
(***************************************************************************)
CloseThrows(i) ==
  /\ At(i, "finally")
  /\ Exit(i, 1)
  /\ UNCHANGED <<problems, artifacts, checkout>>

(***************************************************************************)
(* The last line: an exception goes uncaught, verify-certificate exits     *)
(* with its verdict, certificate-pdf runs off its end, which ends a        *)
(* process only once nothing is open.                                      *)
(***************************************************************************)
End(i) ==
  /\ At(i, "end")
  /\ \/ thrown[i] /\ Exit(i, 1)
     \/ /\ ~ thrown[i] /\ i \in Verifiers
        /\ Exit(i, IF problems[i] = {} THEN 0 ELSE 1)
     \/ /\ ~ thrown[i] /\ i \in Exporters
        /\ ~ browser[i] /\ \A p \in Ports : listening[p] # i
        /\ Exit(i, 0)
  /\ UNCHANGED <<problems, artifacts, checkout>>

Step(i) ==
  \/ Prepare(i) \/ Listen(i) \/ Launch(i) \/ Goto(i)
  \/ Measure(i) \/ PrintPages(i) \/ Export(i) \/ Throw(i)
  \/ Finally(i) \/ CloseThrows(i) \/ End(i)

Next == \E i \in Runs : Step(i)

(***************************************************************************)
(* Each run is a process that keeps going: every wait in it has a timeout  *)
(* (Puppeteer's thirty seconds, the scripts' own) and then throws.         *)
(***************************************************************************)
Spec == Init /\ [][Next]_vars /\ \A i \in Runs : WF_vars(Step(i))
-----------------------------------------------------------------------------
(***************************************************************************)
(* What the header of verify-certificate.ts lists of a sheet (lines 10 to  *)
(* 15), but for the sigil being the only element that flexed, of which     *)
(* nothing is measured.                                                    *)
(***************************************************************************)
AsListed(m) ==
  /\ m.w = 794 /\ m.h = 1123 /\ m.stack <= m.h /\ m.ground
  /\ m.serialLines = 1 /\ m.officeLines = 1 /\ m.vpUnits = 0

(***************************************************************************)
(* Success is deserved: verify-certificate exits with 0 only if all four   *)
(* sheets are as its header lists and the one it prints, the Common one,   *)
(* takes a single page; certificate-pdf only over a record's sheet of a    *)
(* single page.  Either has written that page.  A second run that borrows  *)
(* the first one's server, and loses it half-way, does not change that.    *)
(***************************************************************************)
SuccessIsDeserved ==
  \A i \in Runs : exit[i] = 0 =>
    /\ [by |-> i, pages |-> 1] \in artifacts
    /\ i \in Exporters => Pages(checkout, "record") = 1
    /\ i \in Verifiers => /\ Pages(checkout, "Common") = 1
                          /\ \A n \in DOMAIN Rarities : AsListed(Sheet(checkout, Rarities[n]))

(***************************************************************************)
(* "Checks, per rarity: [...] a PDF prints to exactly one page"            *)
(* (verify-certificate.ts, lines 9 and 16): success means that the sheet   *)
(* of every rarity prints on one page.                                     *)
(***************************************************************************)
EveryRarityPrintsOnOnePage ==
  \A i \in Verifiers : exit[i] = 0 => \A n \in DOMAIN Rarities : Pages(checkout, Rarities[n]) = 1

(***************************************************************************)
(* Every run ends: a run that throws is ended by its exception, and one    *)
(* that succeeds, which certificate-pdf does by running off its end, is    *)
(* not kept alive by a server or a browser it left open.                   *)
(***************************************************************************)
ScriptsEnd == \A i \in Runs : <>(exit[i] # Running)
=============================================================================
