---------------------------- MODULE ScriptsProofs ----------------------------
(***************************************************************************)
(* What the exit codes of the two scripts are worth, for any number of     *)
(* runs at once over any checkout.                                         *)
(*                                                                         *)
(* A run that no exception has left has done every step before the one it  *)
(* is at, and what a step found stays found: that is the invariant, and    *)
(* the last line of each script reads it.                                  *)
(***************************************************************************)
EXTENDS Scripts, FiniteSetTheorems, TLAPS

\* The last step of each script.
Last(i) == IF i \in Verifiers THEN 11 ELSE 7

Typed ==
  /\ pc \in [Runs -> Nat] /\ \A i \in Runs : pc[i] \in 1..Last(i)
  /\ thrown \in [Runs -> BOOLEAN]
  /\ exit \in [Runs -> {Running, 0, 1, 2}]
  /\ problems = [i \in Runs |-> problems[i]]
  /\ checkout \in Checkouts

\* The faults of the n-th sheet, as verify-certificate.ts lists them.
FaultsOf(n) == Faults(Rarities[n], Sheet(checkout, Rarities[n]))

\* The sheets are measured at the steps 5 to 8.
Measured(i) ==
  i \in Verifiers /\ ~ thrown[i] =>
    \A n \in 1..4 : pc[i] > n + 4 => FaultsOf(n) \subseteq problems[i]

\* The sheet each script prints alone.
Alone(i) == IF i \in Verifiers THEN "Common" ELSE "record"

\* The verifier prints at its step 9, the exporter exports at its step 5.
Written(i) ==
  ~ thrown[i] /\ pc[i] > (IF i \in Verifiers THEN 9 ELSE 5) =>
    \/ Pages(checkout, Alone(i)) = 1 /\ [by |-> i, pages |-> 1] \in artifacts
    \/ i \in Verifiers /\ <<"pdf", "pages">> \in problems[i]

Earned(i) ==
  exit[i] = 0 =>
    /\ Pages(checkout, Alone(i)) = 1
    /\ [by |-> i, pages |-> 1] \in artifacts
    /\ i \in Verifiers => \A n \in 1..4 : FaultsOf(n) = {}

IInv == Typed /\ \A i \in Runs : Measured(i) /\ Written(i) /\ Earned(i)

-----------------------------------------------------------------------------
(***************************************************************************)
(* The scripts, step by step.                                              *)
(***************************************************************************)
LEMMA VerifySteps ==
  /\ Len(VerifyScript) = 11
  /\ \A k \in 1..11 :
       /\ VerifyScript[k] = "prepare" => k = 1
       /\ VerifyScript[k] = "listen" => k = 2
       /\ VerifyScript[k] = "launch" => k = 3
       /\ VerifyScript[k] = "goto" => k = 4
       /\ \A n \in 1..4 : VerifyScript[k] = Rarities[n] => k = n + 4
       /\ VerifyScript[k] = "print" => k = 9
       /\ VerifyScript[k] # "export"
       /\ VerifyScript[k] = "finally" => k = 10
       /\ VerifyScript[k] = "end" => k = 11
<1>1. Rarities = <<"Common", "Uncommon", "Rare", "Singular">>
  BY DEF Rarities
<1> QED BY <1>1 DEF VerifyScript

LEMMA ExportSteps ==
  /\ Len(ExportScript) = 7
  /\ \A k \in 1..7 :
       /\ ExportScript[k] = "prepare" => k = 1
       /\ ExportScript[k] = "listen" => k = 2
       /\ ExportScript[k] = "launch" => k = 3
       /\ ExportScript[k] = "goto" => k = 4
       /\ \A n \in 1..4 : ExportScript[k] # Rarities[n]
       /\ ExportScript[k] # "print"
       /\ ExportScript[k] = "export" => k = 5
       /\ ExportScript[k] = "finally" => k = 6
       /\ ExportScript[k] = "end" => k = 7
<1>1. Rarities = <<"Common", "Uncommon", "Rare", "Singular">>
  BY DEF Rarities
<1> QED BY <1>1 DEF ExportScript

\* Where a run is when it is about to take a step.
LEMMA StepAt ==
  ASSUME Typed, NEW i \in Runs, NEW step, At(i, step)
  PROVE  /\ pc[i] \in Nat /\ exit[i] = Running
         /\ i \in Verifiers => pc[i] \in 1..11 /\ VerifyScript[pc[i]] = step
         /\ i \notin Verifiers => pc[i] \in 1..7 /\ ExportScript[pc[i]] = step
BY DEF Typed, At, Script, Last

LEMMA ScriptLength == \A i : Len(Script(i)) = Last(i)
BY VerifySteps, ExportSteps DEF Script, Last

\* A step that moves one run and keeps to its script.
LEMMA TypedOn ==
  ASSUME Typed, NEW j \in Runs, NEW v \in 1..Last(j), pc' = [pc EXCEPT ![j] = v],
         thrown' \in [Runs -> BOOLEAN], exit' = exit,
         problems' = [i \in Runs |-> problems'[i]], checkout' = checkout
  PROVE  Typed'
<1>1. v \in Nat
  BY DEF Last
<1>2. pc' \in [Runs -> Nat]
  BY <1>1 DEF Typed
<1>3. \A i \in Runs : pc'[i] \in 1..Last(i)
  BY DEF Typed
<1> QED BY <1>2, <1>3 DEF Typed, Last

\* Only the finally comes before the last step.
LEMMA BeforeFinally ==
  ASSUME Typed, NEW i \in Runs, NEW step, At(i, step), step \notin {"finally", "end"}
  PROVE  pc[i] + 1 # Last(i)
<1>1. VerifyScript[10] = "finally" /\ ExportScript[6] = "finally"
  BY DEF VerifyScript, ExportScript
<1>2. CASE i \in Verifiers
  BY <1>1, <1>2, StepAt DEF Last
<1>3. CASE i \notin Verifiers
  BY <1>1, <1>3, StepAt DEF Last
<1> QED BY <1>2, <1>3

\* A step that is neither a measurement nor a page written, and ends nothing.
Plain(step) == step \in {"prepare", "listen", "launch", "goto", "finally"}

LEMMA Unmeasured ==
  ASSUME Typed, NEW j \in Runs, NEW step, At(j, step), Plain(step)
  PROVE  /\ j \in Verifiers => pc[j] \notin 5..9 /\ pc[j] < 11
         /\ j \notin Verifiers => pc[j] # 5 /\ pc[j] < 7
<1>1. CASE j \in Verifiers
  <2>1. pc[j] \in 1..11 /\ VerifyScript[pc[j]] = step
    BY <1>1, StepAt
  <2> QED BY <1>1, <2>1, VerifySteps DEF Plain
<1>2. CASE j \notin Verifiers
  <2>1. pc[j] \in 1..7 /\ ExportScript[pc[j]] = step
    BY <1>2, StepAt
  <2> QED BY <1>2, <2>1, ExportSteps DEF Plain
<1> QED BY <1>1, <1>2

-----------------------------------------------------------------------------
(***************************************************************************)
(* What a step of one run does to the others: their pages stay written and *)
(* their faults stay found.                                                *)
(***************************************************************************)
Kept(i) ==
  /\ pc'[i] = pc[i] /\ thrown'[i] = thrown[i] /\ exit'[i] = exit[i]
  /\ problems[i] \subseteq problems'[i]

LEMMA OthersKeep ==
  ASSUME NEW i \in Runs, Measured(i), Written(i), Earned(i), Kept(i),
         artifacts \subseteq artifacts', checkout' = checkout
  PROVE  Measured(i)' /\ Written(i)' /\ Earned(i)'
<1>1. \A n : FaultsOf(n)' = FaultsOf(n)
  BY DEF FaultsOf
<1>2. Measured(i)'
  BY <1>1 DEF Measured, Kept
<1>3. Written(i)'
  BY DEF Written, Kept
<1>4. Earned(i)'
  BY <1>1 DEF Earned, Kept
<1> QED BY <1>2, <1>3, <1>4

\* A step that ends the process with an error earns nothing and owes nothing.
LEMMA ExitKeeps ==
  ASSUME IInv, NEW j \in Runs, NEW code \in {1, 2}, Exit(j, code),
         UNCHANGED <<problems, artifacts, checkout>>
  PROVE  IInv'
<1>1. /\ pc' = pc /\ thrown' = thrown /\ problems' = problems /\ artifacts' = artifacts
      /\ checkout' = checkout /\ exit' = [exit EXCEPT ![j] = code]
  BY DEF Exit
<1>2. Typed'
  BY <1>1 DEF IInv, Typed
<1>3. ASSUME NEW i \in Runs PROVE Measured(i)' /\ Written(i)' /\ Earned(i)'
  <2>1. Measured(i) /\ Written(i) /\ Earned(i)
    BY DEF IInv
  <2>2. CASE i = j
    <3>1. exit'[i] # 0
      BY <1>1, <2>2 DEF IInv, Typed
    <3>2. \A n : FaultsOf(n)' = FaultsOf(n)
      BY <1>1 DEF FaultsOf
    <3> QED BY <1>1, <2>1, <3>1, <3>2 DEF Measured, Written, Earned
  <2>3. CASE i # j
    <3>1. Kept(i)
      BY <1>1, <2>3 DEF Kept, IInv, Typed
    <3> QED BY <1>1, <2>1, <3>1, OthersKeep
  <2> QED BY <2>2, <2>3
<1> QED BY <1>2, <1>3 DEF IInv

\* A step that only goes on to the next.
LEMMA PlainKeeps ==
  ASSUME IInv, NEW j \in Runs, NEW step, At(j, step), Plain(step), Then(j),
         UNCHANGED <<thrown, exit, problems, artifacts, checkout>>
  PROVE  IInv'
<1>1. pc' = [pc EXCEPT ![j] = pc[j] + 1]
  BY DEF Then
<1>2. /\ j \in Verifiers => pc[j] \notin 5..9 /\ pc[j] < 11
      /\ j \notin Verifiers => pc[j] # 5 /\ pc[j] < 7
  BY Unmeasured DEF IInv
<1>3. pc[j] \in Nat /\ exit[j] = Running /\ pc \in [Runs -> Nat] /\ pc[j] >= 1
  BY StepAt DEF IInv, Typed
<1>4. Typed'
  <2>1. pc[j] + 1 \in 1..Last(j)
    BY <1>2, <1>3 DEF Last
  <2> QED BY <1>1, <2>1, TypedOn DEF IInv, Typed
<1>5. ASSUME NEW i \in Runs PROVE Measured(i)' /\ Written(i)' /\ Earned(i)'
  <2>1. Measured(i) /\ Written(i) /\ Earned(i)
    BY DEF IInv
  <2>2. CASE i = j
    <3>1. pc'[i] = pc[i] + 1 /\ exit'[i] # 0
      BY <1>1, <1>3, <2>2 DEF Running
    <3>2. \A n : FaultsOf(n)' = FaultsOf(n)
      BY DEF FaultsOf
    <3>3. Measured(i)'
      <4>1. i \in Verifiers => \A n \in 1..4 : pc'[i] > n + 4 => pc[i] > n + 4
        BY <1>2, <1>3, <2>2, <3>1
      <4> QED BY <2>1, <3>2, <4>1 DEF Measured
    <3>4. Written(i)'
      <4>1. pc'[i] > (IF i \in Verifiers THEN 9 ELSE 5) => pc[i] > (IF i \in Verifiers THEN 9 ELSE 5)
        BY <1>2, <1>3, <2>2, <3>1
      <4> QED BY <2>1, <4>1 DEF Written
    <3> QED BY <3>1, <3>3, <3>4 DEF Earned
  <2>3. CASE i # j
    <3>1. Kept(i)
      BY <1>1, <1>3, <2>3 DEF Kept
    <3> QED BY <2>1, <3>1, OthersKeep
  <2> QED BY <2>2, <2>3
<1> QED BY <1>4, <1>5 DEF IInv

LEMMA MeasureKeeps ==
  ASSUME IInv, NEW j \in Runs, Measure(j)
  PROVE  IInv'
<1>1. PICK n \in DOMAIN Rarities :
        /\ At(j, Rarities[n])
        /\ problems' = [problems EXCEPT ![j] = problems[j] \cup FaultsOf(n)]
        /\ pc' = [pc EXCEPT ![j] = pc[j] + 1]
        /\ UNCHANGED <<thrown, exit, artifacts, checkout>>
  BY DEF Measure, Found, FaultsOf, Then
<1>2. n \in 1..4
  BY DEF Rarities
<1>3. j \in Verifiers /\ pc[j] = n + 4 /\ exit[j] = Running
  <2>1. j \in Verifiers
    <3> SUFFICES ASSUME j \notin Verifiers PROVE FALSE
      OBVIOUS
    <3>1. pc[j] \in 1..7 /\ ExportScript[pc[j]] = Rarities[n]
      BY <1>1, StepAt DEF IInv
    <3> QED BY <1>2, <3>1, ExportSteps
  <2>2. pc[j] \in 1..11 /\ VerifyScript[pc[j]] = Rarities[n] /\ exit[j] = Running
    BY <1>1, <2>1, StepAt DEF IInv
  <2> QED BY <1>2, <2>1, <2>2, VerifySteps
<1>5. pc \in [Runs -> Nat] /\ problems = [i \in Runs |-> problems[i]]
  BY DEF IInv, Typed
<1>6. Typed'
  <2>1. pc[j] + 1 \in 1..Last(j)
    BY <1>2, <1>3 DEF Last
  <2>2. problems' = [i \in Runs |-> problems'[i]]
    BY <1>1, <1>5
  <2> QED BY <1>1, <2>1, <2>2, TypedOn DEF IInv, Typed
<1>7. ASSUME NEW i \in Runs PROVE Measured(i)' /\ Written(i)' /\ Earned(i)'
  <2>1. Measured(i) /\ Written(i) /\ Earned(i)
    BY DEF IInv
  <2>2. CASE i = j
    <3>1. pc'[i] = n + 5 /\ exit'[i] # 0 /\ problems'[i] = problems[i] \cup FaultsOf(n)
      BY <1>1, <1>2, <1>3, <1>5, <2>2 DEF Running
    <3>2. \A k : FaultsOf(k)' = FaultsOf(k)
      BY <1>1 DEF FaultsOf
    <3>3. Measured(i)'
      <4> SUFFICES ASSUME ~ thrown'[i], NEW k \in 1..4, pc'[i] > k + 4
                   PROVE  FaultsOf(k) \subseteq problems'[i]
        BY <3>2 DEF Measured
      <4>1. k = n \/ pc[i] > k + 4
        BY <1>2, <1>3, <2>2, <3>1
      <4>2. pc[i] > k + 4 => FaultsOf(k) \subseteq problems[i]
        BY <1>1, <1>3, <2>1, <2>2 DEF Measured
      <4> QED BY <3>1, <4>1, <4>2
    <3>4. Written(i)'
      BY <1>2, <1>3, <2>2, <3>1 DEF Written
    <3> QED BY <3>1, <3>3, <3>4 DEF Earned
  <2>3. CASE i # j
    <3>1. Kept(i)
      BY <1>1, <1>5, <2>3 DEF Kept
    <3> QED BY <1>1, <2>1, <3>1, OthersKeep
  <2> QED BY <2>2, <2>3
<1> QED BY <1>6, <1>7 DEF IInv

\* The verifier's second page load shows the one sheet it kept.
LEMMA OneSheet ==
  ASSUME NEW j \in Verifiers
  PROVE  Printed(Isolated(Shown(j))) = Pages(checkout, Alone(j)) /\ Alone(j) = "Common"
<1>1. Shown(j) = {Rarities[n] : n \in DOMAIN Rarities}
  BY ScriptsAssumption DEF Shown
<1>2. Isolated(Shown(j)) = {"Common"}
  <2>1. 1 \in DOMAIN Rarities /\ Rarities[1] = "Common"
    BY DEF Rarities
  <2> QED BY <1>1, <2>1 DEF Isolated
<1>3. Cardinality({"Common"}) = 1
  BY FS_Singleton
<1>4. (CHOOSE s \in {"Common"} : TRUE) = "Common"
  OBVIOUS
<1> QED BY <1>2, <1>3, <1>4 DEF Printed, Alone

LEMMA PrintKeeps ==
  ASSUME IInv, NEW j \in Runs, PrintPages(j)
  PROVE  IInv'
<1>1. j \in Verifiers /\ pc[j] = 9 /\ exit[j] = Running
  <2>1. At(j, "print")
    BY DEF PrintPages
  <2>2. j \in Verifiers
    <3> SUFFICES ASSUME j \notin Verifiers PROVE FALSE
      OBVIOUS
    <3>1. pc[j] \in 1..7 /\ ExportScript[pc[j]] = "print"
      BY <2>1, StepAt DEF IInv
    <3> QED BY <3>1, ExportSteps
  <2>3. pc[j] \in 1..11 /\ VerifyScript[pc[j]] = "print" /\ exit[j] = Running
    BY <2>1, <2>2, StepAt DEF IInv
  <2> QED BY <2>2, <2>3, VerifySteps
<1>2. /\ artifacts' = artifacts \cup {[by |-> j, pages |-> Pages(checkout, Alone(j))]}
      /\ problems' = [problems EXCEPT ![j] = IF Pages(checkout, Alone(j)) = 1 THEN problems[j]
                                             ELSE problems[j] \cup {<<"pdf", "pages">>}]
      /\ pc' = [pc EXCEPT ![j] = pc[j] + 1]
      /\ UNCHANGED <<thrown, exit, checkout>>
  BY <1>1, OneSheet DEF PrintPages, Then
<1>3. pc \in [Runs -> Nat] /\ problems = [i \in Runs |-> problems[i]]
  BY DEF IInv, Typed
<1>4. Typed'
  <2>1. pc[j] + 1 \in 1..Last(j)
    BY <1>1 DEF Last
  <2>2. problems' = [i \in Runs |-> problems'[i]]
    BY <1>2, <1>3
  <2> QED BY <1>2, <2>1, <2>2, TypedOn DEF IInv, Typed
<1>5. ASSUME NEW i \in Runs PROVE Measured(i)' /\ Written(i)' /\ Earned(i)'
  <2>1. Measured(i) /\ Written(i) /\ Earned(i)
    BY DEF IInv
  <2>2. CASE i = j
    <3>1. /\ pc'[i] = 10 /\ exit'[i] # 0 /\ problems[i] \subseteq problems'[i]
          /\ Pages(checkout, Alone(i)) # 1 => <<"pdf", "pages">> \in problems'[i]
      BY <1>1, <1>2, <1>3, <2>2 DEF Running
    <3>2. \A k : FaultsOf(k)' = FaultsOf(k)
      BY <1>2 DEF FaultsOf
    <3>3. Measured(i)'
      <4> SUFFICES ASSUME ~ thrown'[i], NEW k \in 1..4
                   PROVE  FaultsOf(k) \subseteq problems'[i]
        BY <3>2 DEF Measured
      <4>1. FaultsOf(k) \subseteq problems[i]
        BY <1>1, <1>2, <2>1, <2>2 DEF Measured
      <4> QED BY <3>1, <4>1
    <3>4. Written(i)'
      BY <1>1, <1>2, <2>2, <3>1 DEF Written
    <3> QED BY <3>1, <3>3, <3>4 DEF Earned
  <2>3. CASE i # j
    <3>1. Kept(i)
      BY <1>2, <1>3, <2>3 DEF Kept
    <3> QED BY <1>2, <2>1, <3>1, OthersKeep
  <2> QED BY <2>2, <2>3
<1> QED BY <1>4, <1>5 DEF IInv

LEMMA ExportKeeps ==
  ASSUME IInv, NEW j \in Runs, Export(j)
  PROVE  IInv'
<1>1. j \notin Verifiers /\ j \in Exporters /\ pc[j] = 5 /\ exit[j] = Running
  <2>1. At(j, "export")
    BY DEF Export
  <2>2. j \notin Verifiers
    <3> SUFFICES ASSUME j \in Verifiers PROVE FALSE
      OBVIOUS
    <3>1. pc[j] \in 1..11 /\ VerifyScript[pc[j]] = "export"
      BY <2>1, StepAt DEF IInv
    <3> QED BY <3>1, VerifySteps
  <2>3. pc[j] \in 1..7 /\ ExportScript[pc[j]] = "export" /\ exit[j] = Running
    BY <2>1, <2>2, StepAt DEF IInv
  <2> QED BY <2>2, <2>3, ExportSteps DEF Runs
<1>2. Printed(Shown(j)) = Pages(checkout, Alone(j))
  <2>1. Cardinality({"record"}) = 1
    BY FS_Singleton
  <2>2. (CHOOSE s \in {"record"} : TRUE) = "record"
    OBVIOUS
  <2> QED BY <1>1, <2>1, <2>2 DEF Printed, Shown, Alone
<1>3. CASE Pages(checkout, Alone(j)) # 1
  <2>1. Exit(j, 1) /\ UNCHANGED <<problems, artifacts, checkout>>
    BY <1>2, <1>3 DEF Export
  <2> QED BY <2>1, ExitKeeps
<1>4. CASE Pages(checkout, Alone(j)) = 1
  <2>1. /\ artifacts' = artifacts \cup {[by |-> j, pages |-> 1]}
        /\ pc' = [pc EXCEPT ![j] = pc[j] + 1]
        /\ UNCHANGED <<thrown, exit, problems, checkout>>
    BY <1>2, <1>4 DEF Export, Then
  <2>2. pc \in [Runs -> Nat]
    BY DEF IInv, Typed
  <2>3. Typed'
    <3>1. pc[j] + 1 \in 1..Last(j)
      BY <1>1 DEF Last
    <3> QED BY <2>1, <3>1, TypedOn DEF IInv, Typed
  <2>4. ASSUME NEW i \in Runs PROVE Measured(i)' /\ Written(i)' /\ Earned(i)'
    <3>1. Measured(i) /\ Written(i) /\ Earned(i)
      BY DEF IInv
    <3>2. CASE i = j
      <4>1. exit'[i] # 0
        BY <1>1, <2>1, <3>2 DEF Running
      <4> QED BY <1>1, <1>4, <2>1, <3>2, <4>1 DEF Measured, Written, Earned
    <3>3. CASE i # j
      <4>1. Kept(i)
        BY <2>1, <2>2, <3>3 DEF Kept
      <4> QED BY <2>1, <3>1, <4>1, OthersKeep
    <3> QED BY <3>2, <3>3
  <2> QED BY <2>3, <2>4 DEF IInv
<1> QED BY <1>3, <1>4

LEMMA ThrowKeeps ==
  ASSUME IInv, NEW j \in Runs, Throw(j)
  PROVE  IInv'
<1>1. /\ exit[j] = Running
      /\ pc' = [pc EXCEPT ![j] = Last(j) - 1] /\ thrown' = [thrown EXCEPT ![j] = TRUE]
      /\ UNCHANGED <<exit, problems, artifacts, checkout>>
  BY ScriptLength DEF Throw
<1>2. Last(j) - 1 \in 1..Last(j)
  BY DEF Last
<1>3. Typed'
  BY <1>1, <1>2, TypedOn DEF IInv, Typed
<1>4. ASSUME NEW i \in Runs PROVE Measured(i)' /\ Written(i)' /\ Earned(i)'
  <2>1. Measured(i) /\ Written(i) /\ Earned(i)
    BY DEF IInv
  <2>2. CASE i = j
    <3>1. thrown'[i] /\ exit'[i] # 0
      BY <1>1, <2>2 DEF IInv, Typed, Running
    <3> QED BY <3>1 DEF Measured, Written, Earned
  <2>3. CASE i # j
    <3>1. Kept(i)
      BY <1>1, <2>3 DEF Kept, IInv, Typed
    <3> QED BY <1>1, <2>1, <3>1, OthersKeep
  <2> QED BY <2>2, <2>3
<1> QED BY <1>3, <1>4 DEF IInv

\* The last line: what the invariant says of a run that comes to it unthrown.
LEMMA EndKeeps ==
  ASSUME IInv, NEW j \in Runs, End(j)
  PROVE  IInv'
<1>1. At(j, "end") /\ UNCHANGED <<problems, artifacts, checkout>>
  BY DEF End
<1>2. PICK code \in {0, 1} : /\ Exit(j, code)
                             /\ code = 0 => ~ thrown[j] /\ (j \in Verifiers => problems[j] = {})
  <2>1. CASE thrown[j] /\ Exit(j, 1)
    BY <2>1
  <2>2. CASE ~ thrown[j] /\ j \in Verifiers /\ Exit(j, IF problems[j] = {} THEN 0 ELSE 1)
    BY <2>2
  <2>3. CASE ~ thrown[j] /\ j \in Exporters /\ Exit(j, 0)
    BY <2>3, ScriptsAssumption
  <2> QED BY <2>1, <2>2, <2>3 DEF End
<1>3. CASE code = 1
  BY <1>1, <1>2, <1>3, ExitKeeps
<1>4. CASE code = 0
  <2>1. /\ ~ thrown[j] /\ (j \in Verifiers => problems[j] = {})
        /\ pc' = pc /\ thrown' = thrown /\ problems' = problems /\ artifacts' = artifacts
        /\ checkout' = checkout /\ exit' = [exit EXCEPT ![j] = 0]
    BY <1>1, <1>2, <1>4 DEF Exit
  <2>2. Typed'
    BY <2>1 DEF IInv, Typed
  <2>3. \A n : FaultsOf(n)' = FaultsOf(n)
    BY <2>1 DEF FaultsOf
  <2>4. ASSUME NEW i \in Runs PROVE Measured(i)' /\ Written(i)' /\ Earned(i)'
    <3>1. Measured(i) /\ Written(i) /\ Earned(i)
      BY DEF IInv
    <3>2. Measured(i)' /\ Written(i)'
      BY <2>1, <2>3, <3>1 DEF Measured, Written
    <3>3. CASE i = j
      <4>1. CASE i \in Verifiers
        <5>1. pc[i] = 11
          <6>1. pc[i] \in 1..11 /\ VerifyScript[pc[i]] = "end"
            BY <1>1, <3>3, <4>1, StepAt DEF IInv
          <6> QED BY <6>1, VerifySteps
        <5>2. \A n \in 1..4 : FaultsOf(n) = {}
          <6>1. \A n \in 1..4 : pc[i] > n + 4
            BY <5>1
          <6> QED BY <2>1, <3>1, <3>3, <4>1, <6>1 DEF Measured
        <5>3. Pages(checkout, Alone(i)) = 1 /\ [by |-> i, pages |-> 1] \in artifacts
          BY <2>1, <3>1, <3>3, <4>1, <5>1 DEF Written
        <5> QED BY <2>1, <2>3, <3>2, <5>2, <5>3 DEF Earned
      <4>2. CASE i \notin Verifiers
        <5>1. pc[i] = 7
          <6>1. pc[i] \in 1..7 /\ ExportScript[pc[i]] = "end"
            BY <1>1, <3>3, <4>2, StepAt DEF IInv
          <6> QED BY <6>1, ExportSteps
        <5>2. Pages(checkout, Alone(i)) = 1 /\ [by |-> i, pages |-> 1] \in artifacts
          BY <2>1, <3>1, <3>3, <4>2, <5>1 DEF Written
        <5> QED BY <2>1, <3>2, <4>2, <5>2 DEF Earned
      <4> QED BY <4>1, <4>2
    <3>4. CASE i # j
      <4>1. Kept(i)
        BY <2>1, <3>4 DEF Kept, IInv, Typed
      <4> QED BY <2>1, <3>1, <4>1, OthersKeep
    <3> QED BY <3>3, <3>4
  <2> QED BY <2>2, <2>4 DEF IInv
<1> QED BY <1>2, <1>3, <1>4

-----------------------------------------------------------------------------
(***************************************************************************)
(* The inductive invariant holds in every behaviour of the runs, whichever *)
(* steps throw and whoever takes a port from whom.                         *)
(***************************************************************************)
THEOREM Invariance == Spec => []IInv
<1>1. Init => IInv
  <2> SUFFICES ASSUME Init PROVE IInv
    OBVIOUS
  <2>1. Typed
    BY DEF Init, Typed, Last
  <2>2. \A i \in Runs : Measured(i) /\ Written(i) /\ Earned(i)
    BY DEF Init, Measured, Written, Earned, Running
  <2> QED BY <2>1, <2>2 DEF IInv
<1>2. IInv /\ [Next]_vars => IInv'
  <2> SUFFICES ASSUME IInv, [Next]_vars PROVE IInv'
    OBVIOUS
  <2>1. ASSUME NEW j \in Runs, Step(j) PROVE IInv'
    <3>1. CASE Prepare(j)
      <4>1. CASE Then(j) /\ UNCHANGED <<thrown, listening, browser, exit>>
        BY <3>1, <4>1, PlainKeeps DEF Prepare, Plain
      <4>2. CASE \E code \in IF j \in Exporters THEN {1, 2} ELSE {1} : Exit(j, code)
        <5>1. PICK code \in {1, 2} : Exit(j, code)
          BY <4>2
        <5>2. UNCHANGED <<problems, artifacts, checkout>>
          BY <3>1 DEF Prepare
        <5> QED BY <5>1, <5>2, ExitKeeps
      <4> QED BY <3>1, <4>1, <4>2 DEF Prepare
    <3>2. CASE Listen(j)
      BY <3>2, PlainKeeps DEF Listen, Plain
    <3>3. CASE Launch(j)
      BY <3>3, PlainKeeps DEF Launch, Plain
    <3>4. CASE Goto(j)
      BY <3>4, PlainKeeps DEF Goto, Plain
    <3>5. CASE Finally(j)
      BY <3>5, PlainKeeps DEF Finally, Plain
    <3>6. CASE CloseThrows(j)
      BY <3>6, ExitKeeps DEF CloseThrows
    <3> QED BY <2>1, <3>1, <3>2, <3>3, <3>4, <3>5, <3>6, MeasureKeeps, PrintKeeps, ExportKeeps,
               ThrowKeeps, EndKeeps DEF Step
  <2>2. CASE UNCHANGED vars
    <3>1. Typed'
      BY <2>2 DEF vars, IInv, Typed
    <3>2. ASSUME NEW i \in Runs PROVE Measured(i)' /\ Written(i)' /\ Earned(i)'
      <4>1. Kept(i) /\ artifacts' = artifacts /\ checkout' = checkout
        BY <2>2 DEF vars, Kept
      <4> QED BY <4>1, OthersKeep DEF IInv
    <3> QED BY <3>1, <3>2 DEF IInv
  <2> QED BY <2>1, <2>2 DEF Next
<1> QED BY <1>1, <1>2, PTL DEF Spec

(***************************************************************************)
(* A run that ends with 0 has found every check of every sheet to hold, of *)
(* the checkout as it is, and has written its single page: no exception,   *)
(* no borrowed server and no order of the runs turns a fault into success. *)
(***************************************************************************)
THEOREM SuccessIsEarned == Spec => [](\A i \in Runs : Earned(i))
<1>1. IInv => \A i \in Runs : Earned(i)
  BY DEF IInv
<1> QED BY Invariance, <1>1, PTL

(***************************************************************************)
(* Success is deserved, over every checkout: the checks, as the script     *)
(* words them, see every departure from what its header lists but the two  *)
(* it does not look for, a sheet other than Common that prints on two      *)
(* pages and an element other than the sigil that flexed.                  *)
(***************************************************************************)
THEOREM SuccessDeserved == Spec => []SuccessIsDeserved
<1>1. IInv => SuccessIsDeserved
  <2> SUFFICES ASSUME IInv, NEW i \in Runs, exit[i] = 0
               PROVE  /\ [by |-> i, pages |-> 1] \in artifacts
                      /\ i \in Exporters => Pages(checkout, "record") = 1
                      /\ i \in Verifiers =>
                           /\ Pages(checkout, "Common") = 1
                           /\ \A n \in DOMAIN Rarities : AsListed(Sheet(checkout, Rarities[n]))
    BY DEF SuccessIsDeserved
  <2>1. Earned(i)
    BY DEF IInv
  <2>2. ASSUME i \in Verifiers, NEW n \in DOMAIN Rarities PROVE AsListed(Sheet(checkout, Rarities[n]))
    <3> DEFINE m == Sheet(checkout, Rarities[n])
    <3>1. n \in 1..4
      BY DEF Rarities
    <3>2. Faults(Rarities[n], m) = {}
      BY <2>1, <2>2, <3>1 DEF Earned, FaultsOf
    <3>3. \A check \in DOMAIN Verdicts(m) : Verdicts(m)[check]
      BY <3>2 DEF Faults
    <3> HIDE DEF m
    <3>4. /\ Verdicts(m).page /\ Verdicts(m).stack /\ Verdicts(m).ground
          /\ Verdicts(m).serial /\ Verdicts(m).office /\ Verdicts(m).units
      BY <3>3 DEF Verdicts
    <3>5. /\ m.w = PageW /\ m.h = PageH /\ m.stack <= PageH /\ m.ground
          /\ m.serialLines = 1 /\ m.officeLines = 1 /\ m.vpUnits = 0
      BY Zenon, <3>4 DEF Verdicts
    <3>6. m.stack <= m.h
      BY Zenon, <3>5
    <3>7. AsListed(m)
      BY Zenon, <3>5, <3>6 DEF AsListed, PageW, PageH
    <3> QED BY <3>7 DEF m
  <2> QED BY <2>1, <2>2, ScriptsAssumption DEF Earned, Alone
<1> QED BY Invariance, <1>1, PTL

-----------------------------------------------------------------------------
(***************************************************************************)
(* What ScriptsEnd rests on: a script at its last line holds no port and   *)
(* no browser, so that certificate-pdf, which only runs off its end, is    *)
(* not kept alive by either.                                               *)
(***************************************************************************)
NothingOpen(i) == ~ browser[i] /\ \A p \in Ports : listening[p] # i

OpenInv ==
  /\ browser = [i \in Runs |-> browser[i]] /\ listening = [p \in Ports |-> listening[p]]
  /\ \A i \in Runs : pc[i] = Last(i) => NothingOpen(i)

\* A step of j that is not its last opens nothing for the others.
LEMMA OthersClosed ==
  ASSUME Typed, OpenInv, NEW j \in Runs,
         browser' = [i \in Runs |-> browser'[i]], listening' = [p \in Ports |-> listening'[p]],
         \A i \in Runs \ {j} : pc'[i] = pc[i] /\ browser'[i] = browser[i],
         \A p \in Ports : listening'[p] = listening[p] \/ listening'[p] \in {j, Nobody},
         pc'[j] = Last(j) => NothingOpen(j)'
  PROVE  OpenInv'
<1>1. ASSUME NEW i \in Runs, i # j, pc'[i] = Last(i) PROVE NothingOpen(i)'
  <2>1. NothingOpen(i)
    BY <1>1 DEF OpenInv
  <2> QED BY <1>1, <2>1, ScriptsAssumption DEF NothingOpen
<1>2. \A i \in Runs : pc'[i] = Last(i) => NothingOpen(i)'
  BY <1>1
<1> QED BY <1>2 DEF OpenInv

LEMMA ExitCloses ==
  ASSUME Typed, OpenInv, NEW j \in Runs, NEW code, Exit(j, code)
  PROVE  OpenInv'
<1>1. /\ pc' = pc /\ browser' = [browser EXCEPT ![j] = FALSE]
      /\ listening' = [p \in Ports |-> IF listening[p] = j THEN Nobody ELSE listening[p]]
  BY DEF Exit, Closed
<1>2. /\ browser' = [i \in Runs |-> browser'[i]] /\ listening' = [p \in Ports |-> listening'[p]]
      /\ ~ browser'[j] /\ \A i \in Runs \ {j} : browser'[i] = browser[i]
  BY <1>1 DEF OpenInv
<1>3. \A p \in Ports : listening'[p] # j
                       /\ (listening'[p] = listening[p] \/ listening'[p] \in {j, Nobody})
  BY <1>1, ScriptsAssumption
<1>4. NothingOpen(j)'
  BY <1>2, <1>3 DEF NothingOpen
<1> QED BY <1>1, <1>2, <1>3, <1>4, OthersClosed

\* A step that touches neither ports nor browsers and goes on, but not to the end.
LEMMA OnwardCloses ==
  ASSUME Typed, OpenInv, NEW j \in Runs, NEW v, v # Last(j), pc' = [pc EXCEPT ![j] = v],
         UNCHANGED <<listening, browser>>
  PROVE  OpenInv'
<1>1. \A i \in Runs : pc'[i] = Last(i) => pc[i] = Last(i) /\ NothingOpen(i)'
  BY DEF Typed, OpenInv, NothingOpen
<1> QED BY <1>1 DEF OpenInv

(***************************************************************************)
(* No script comes to its last line with a dev server or a browser of its  *)
(* own still open, whichever step of the try has thrown (the leak that     *)
(* verify-certificate.ts:39-42 tells of).                                  *)
(***************************************************************************)
THEOREM NothingKeepsThemAlive ==
  Spec => [](\A i \in Runs : pc[i] = Last(i) => NothingOpen(i))
<1>1. Init => OpenInv
  <2> SUFFICES ASSUME Init PROVE OpenInv
    OBVIOUS
  <2>1. \A i \in Runs : pc[i] = 1 /\ Last(i) # 1
    BY DEF Init, Last
  <2> QED BY <2>1 DEF Init, OpenInv
<1>2. IInv /\ OpenInv /\ [Next]_vars => OpenInv'
  <2> SUFFICES ASSUME IInv, OpenInv, [Next]_vars PROVE OpenInv'
    OBVIOUS
  <2> USE DEF IInv
  <2>1. ASSUME NEW j \in Runs, NEW step, At(j, step), Then(j), step \notin {"finally", "end"},
               UNCHANGED <<listening, browser>>
        PROVE  OpenInv'
    <3>1. pc[j] + 1 # Last(j)
      BY <2>1, BeforeFinally
    <3>2. pc' = [pc EXCEPT ![j] = pc[j] + 1]
      BY <2>1 DEF Then
    <3> QED BY <2>1, <3>1, <3>2, OnwardCloses
  <2>2. ASSUME NEW j \in Runs, Step(j) PROVE OpenInv'
    <3>1. CASE Prepare(j)
      BY <2>1, <3>1, ExitCloses DEF Prepare
    <3>2. CASE Listen(j)
      <4>1. PICK port : listening' = [listening EXCEPT ![port] = j]
        BY <3>2 DEF Listen
      <4>2. /\ At(j, "listen") /\ pc' = [pc EXCEPT ![j] = pc[j] + 1] /\ browser' = browser
        BY <3>2 DEF Listen, Then
      <4>3. pc[j] + 1 # Last(j) /\ pc'[j] = pc[j] + 1
        BY <4>2, BeforeFinally DEF Typed
      <4>4. /\ listening' = [p \in Ports |-> listening'[p]]
            /\ \A p \in Ports : listening'[p] = listening[p] \/ listening'[p] = j
        BY <4>1 DEF OpenInv
      <4>5. /\ browser' = [i \in Runs |-> browser'[i]]
            /\ \A i \in Runs \ {j} : pc'[i] = pc[i] /\ browser'[i] = browser[i]
        BY <4>2 DEF OpenInv, Typed
      <4> QED BY <4>3, <4>4, <4>5, OthersClosed
    <3>3. CASE Launch(j)
      <4>1. /\ At(j, "launch") /\ pc' = [pc EXCEPT ![j] = pc[j] + 1] /\ listening' = listening
            /\ browser' = [browser EXCEPT ![j] = TRUE]
        BY <3>3 DEF Launch, Then
      <4>2. pc[j] + 1 # Last(j) /\ pc'[j] = pc[j] + 1
        BY <4>1, BeforeFinally DEF Typed
      <4>3. /\ browser' = [i \in Runs |-> browser'[i]] /\ listening' = [p \in Ports |-> listening'[p]]
            /\ \A i \in Runs \ {j} : pc'[i] = pc[i] /\ browser'[i] = browser[i]
        BY <4>1 DEF OpenInv, Typed
      <4> QED BY <4>1, <4>2, <4>3, OthersClosed
    <3>4. CASE Goto(j)
      BY <2>1, <3>4 DEF Goto
    <3>5. CASE Measure(j)
      <4>1. PICK n \in 1..4 : At(j, Rarities[n]) /\ Then(j) /\ UNCHANGED <<listening, browser>>
        BY <3>5 DEF Measure, Rarities
      <4>2. Rarities[n] \notin {"finally", "end"}
        BY DEF Rarities
      <4> QED BY <2>1, <4>1, <4>2
    <3>6. CASE PrintPages(j)
      BY <2>1, <3>6 DEF PrintPages
    <3>7. CASE Export(j)
      BY <2>1, <3>7, ExitCloses DEF Export
    <3>8. CASE Throw(j)
      <4>1. pc' = [pc EXCEPT ![j] = Last(j) - 1]
        BY <3>8, ScriptLength DEF Throw
      <4>2. Last(j) - 1 # Last(j)
        BY DEF Last
      <4> QED BY <3>8, <4>1, <4>2, OnwardCloses DEF Throw
    <3>9. CASE Finally(j)
      <4>1. /\ pc' = [pc EXCEPT ![j] = pc[j] + 1] /\ browser' = [browser EXCEPT ![j] = FALSE]
            /\ listening' = [p \in Ports |-> IF listening[p] = j THEN Nobody ELSE listening[p]]
        BY <3>9 DEF Finally, Then, Closed
      <4>2. /\ browser' = [i \in Runs |-> browser'[i]] /\ listening' = [p \in Ports |-> listening'[p]]
            /\ \A i \in Runs \ {j} : pc'[i] = pc[i] /\ browser'[i] = browser[i]
            /\ \A p \in Ports : listening'[p] = listening[p] \/ listening'[p] \in {j, Nobody}
        BY <4>1 DEF OpenInv, Typed
      <4>3. NothingOpen(j)'
        BY <4>1, ScriptsAssumption DEF NothingOpen, OpenInv
      <4> QED BY <4>2, <4>3, OthersClosed
    <3>10. CASE CloseThrows(j)
      BY <3>10, ExitCloses DEF CloseThrows
    <3>11. CASE End(j)
      BY <3>11, ExitCloses DEF End
    <3> QED BY <2>2, <3>1, <3>2, <3>3, <3>4, <3>5, <3>6, <3>7, <3>8, <3>9, <3>10, <3>11 DEF Step
  <2>3. CASE UNCHANGED vars
    BY <2>3 DEF vars, OpenInv, NothingOpen
  <2> QED BY <2>2, <2>3 DEF Next
<1>3. OpenInv => \A i \in Runs : pc[i] = Last(i) => NothingOpen(i)
  BY DEF OpenInv
<1> QED BY <1>1, <1>2, <1>3, Invariance, PTL DEF Spec
==============================================================================
