------------------------- MODULE MintProtocolProofs -------------------------
(***************************************************************************)
(* What a visitor's seals keep over any number of presses, retries, losses *)
(* and restarts.                                                           *)
(*                                                                         *)
(* The argument: a start is not read twice, so two requests with one start *)
(* are of one tier, or of the one the configuration lowered and the one it *)
(* lowered it to (Tiered); the ledger is only asked for tiers the ceiling  *)
(* allows (SentOK), so every row is of some request and below it (Rows),   *)
(* and of two such tiers at most one can mint or replay.  A visitor who    *)
(* came with a cookie never sends another, so that all of it happens under *)
(* one owner (Theirs).  The attempts of a first press that the limiter has *)
(* seen, and the tokens left, make up the burst (Bucket).                  *)
(***************************************************************************)
EXTENDS MintProtocol, FiniteSetTheorems, TLAPS

\* What a call may have been told.
Answers == AppendAnswers \cup [result : {"limited", "unavailable"}]

Jars == Owners \cup {NoOwner}

Calls == [st : {"unsent", "sent", "admitted", "answered", "dropped"}, open : BOOLEAN,
          cookie : Jars, owner : Jars, start : Starts, tier : Nat, at : Nat, answer : Answers]

\* The visitor has sent this attempt.
Sent(id) == req[id].st # "unsent"

CallsOK == req \in [Attempts -> Calls]

\* Presses and attempts are sent in order.
Ordered ==
  \A s \in 1..MaxSeals : \A n \in 0..Retries :
    Sent(<<s, n>>) => s <= seal /\ (s = seal => n <= attempt)

\* A call sent is of a tier, one admitted of a tier that is minted here.
SentOK == \A id \in Attempts :
  /\ Sent(id) => req[id].tier \in Tiers
  /\ req[id].st = "admitted" => req[id].owner \in Owners /\ req[id].tier <= Ceiling

\* Two calls of one start are of one tier, once lowered.
Tiered == \A i, j \in Attempts : Sent(i) /\ Sent(j) /\ req[i].start = req[j].start
                                   => Lowered(req[i].tier) = Lowered(req[j].tier)

\* So are the pour in the vessel and every call of its start.
PourOK == pour # NoPour => \A i \in Attempts : Sent(i) /\ req[i].start = pour.start
                                                 => Lowered(req[i].tier) = Lowered(pour.tier)

\* The latest attempt carries what is being sealed.
RequestOK ==
  sealing => /\ Current \in Attempts /\ Sent(Current)
             /\ req[Current].start = request.start /\ req[Current].tier = request.tier

\* Every row is of some call, and of a tier that is minted here.
Rows == \A row \in register :
  /\ row.tier <= Ceiling
  /\ \E i \in Attempts : Sent(i) /\ row.start = req[i].start /\ row.tier = req[i].tier

\* What a call was told is on the register, and of the pour it carried.
Told ==
  \A id \in Attempts :
    /\ req[id].st # "answered" => req[id].answer = Unanswered
    /\ req[id].answer.result # "conflict"
    /\ req[id].answer.result \in {"minted", "replayed"} =>
         /\ req[id].answer.row \in register
         /\ req[id].answer.row.start = req[id].start
         /\ req[id].answer.row.tier = req[id].tier

\* A visitor who came with a cookie keeps it.
Theirs ==
  StartJar # NoOwner =>
    /\ jar = StartJar
    /\ \A id \in Attempts : /\ Sent(id) => req[id].cookie = StartJar
                            /\ req[id].st = "admitted" => req[id].owner = StartJar
    /\ \A row \in register : row.owner = StartJar
    /\ \A n \in 0..MaxSeals : listing[n].st # "none" => listing[n].cookie = StartJar

\* What the first press has taken from the bucket, and what is left in it.
Spent == {n \in 0..Retries : <<1, n>> \in Attempts /\ req[<<1, n>>].st \notin {"unsent", "sent"}}

Bucket ==
  Burst > Retries /\ seal <= 1 =>
    /\ tokens + Cardinality(Spent) >= Burst
    /\ \A n \in 0..Retries : <<1, n>> \in Attempts => req[<<1, n>>].answer.result # "limited"

IInv ==
  /\ TypeOK /\ CallsOK /\ IsFiniteSet(register) /\ StartsUnique(register)
  /\ Ordered /\ SentOK /\ Tiered /\ PourOK /\ RequestOK /\ Rows /\ Told
  /\ shown \subseteq register /\ Theirs /\ Bucket

-----------------------------------------------------------------------------
(***************************************************************************)
(* Answers, attempts and the bucket.                                       *)
(***************************************************************************)
LEMMA AnswerTypes ==
  /\ Unanswered \in Answers /\ Conflict \in Answers /\ Rejected \in Answers
  /\ Failed("disk") \in Answers
  /\ [result |-> "limited"] \in Answers /\ [result |-> "unavailable"] \in Answers
  /\ \A row \in Row : Minted(row) \in Answers /\ Replayed(row) \in Answers
BY DEF Answers, AppendAnswers, Unanswered, Conflict, Rejected, Failed, Causes, Minted, Replayed

\* A call not yet sent.
LEMMA BlankType ==
  /\ Blank \in Calls /\ Blank.st = "unsent" /\ Blank.answer = Unanswered
  /\ 0 \in Starts /\ Starts \subseteq Nat
<1>1. 0 \in Starts /\ Starts \subseteq Nat
  BY ProtocolAssumption
<1> QED BY <1>1, AnswerTypes DEF Blank, Calls, Jars

\* A press that has not spent every attempt has spent at most Retries.
LEMMA SpentFinite ==
  /\ IsFiniteSet(Spent) /\ Cardinality(Spent) \in Nat
  /\ \A n \in (0..Retries) \ Spent : Cardinality(Spent) <= Retries
<1>1. Retries \in Nat /\ 0 \in Int /\ Retries \in Int
  BY ProtocolAssumption
<1>2. IsFiniteSet(0..Retries) /\ Cardinality(0..Retries) = Retries + 1
  <2>1. IsFiniteSet(0..Retries)
        /\ Cardinality(0..Retries) = IF 0 > Retries THEN 0 ELSE Retries - 0 + 1
    BY <1>1, FS_Interval
  <2> QED BY <1>1, <2>1
<1>3. Spent \subseteq 0..Retries
  BY DEF Spent
<1>4. IsFiniteSet(Spent) /\ Cardinality(Spent) \in Nat
  BY <1>2, <1>3, FS_Subset, FS_CardinalityType
<1>5. ASSUME NEW n \in (0..Retries) \ Spent PROVE Cardinality(Spent) <= Retries
  <2>1. Spent \subseteq (0..Retries) \ {n}
    BY <1>3, <1>5
  <2>2. IsFiniteSet((0..Retries) \ {n}) /\ Cardinality((0..Retries) \ {n}) = Retries
    <3>1. n \in 0..Retries
      BY <1>5
    <3>2. IsFiniteSet((0..Retries) \ {n})
          /\ Cardinality((0..Retries) \ {n}) = IF n \in 0..Retries THEN Cardinality(0..Retries) - 1
                                                ELSE Cardinality(0..Retries)
      BY <1>2, FS_RemoveElement
    <3> QED BY <1>1, <1>2, <3>1, <3>2
  <2>3. Cardinality(Spent) <= Cardinality((0..Retries) \ {n})
    BY <2>1, <2>2, FS_Subset
  <2> QED BY <2>2, <2>3
<1> QED BY <1>4, <1>5

(***************************************************************************)
(* A step that leaves every call as it was but for its connection.         *)
(***************************************************************************)
SameCalls ==
  /\ CallsOK'
  /\ \A id \in Attempts :
       /\ req'[id].st = req[id].st /\ req'[id].cookie = req[id].cookie
       /\ req'[id].owner = req[id].owner /\ req'[id].start = req[id].start
       /\ req'[id].tier = req[id].tier /\ req'[id].at = req[id].at
       /\ req'[id].answer = req[id].answer

\* Closing the connection changes nothing else of a call.
LEMMA OpenTypes ==
  ASSUME NEW q \in Calls, NEW o \in BOOLEAN
  PROVE  LET r == [q EXCEPT !.open = o]
         IN /\ r \in Calls /\ r.st = q.st /\ r.cookie = q.cookie /\ r.owner = q.owner
            /\ r.start = q.start /\ r.tier = q.tier /\ r.at = q.at /\ r.answer = q.answer
BY SMT DEF Calls

\* The client takes an answer or gives up: SameCalls.
LEMMA ClosedStep ==
  ASSUME CallsOK, NEW id \in Attempts, req' = [req EXCEPT ![id].open = FALSE]
  PROVE  SameCalls
<1>1. /\ req'[id] = [req[id] EXCEPT !.open = FALSE]
      /\ \A j \in Attempts \ {id} : req'[j] = req[j]
      /\ req' = [j \in Attempts |-> req'[j]]
  BY DEF CallsOK
<1>2. req[id] \in Calls /\ FALSE \in BOOLEAN
  BY DEF CallsOK
<1>3. req'[id] \in Calls /\ req'[id].st = req[id].st /\ req'[id].cookie = req[id].cookie
      /\ req'[id].owner = req[id].owner /\ req'[id].start = req[id].start
      /\ req'[id].tier = req[id].tier /\ req'[id].at = req[id].at
      /\ req'[id].answer = req[id].answer
  BY <1>1, <1>2, OpenTypes, Zenon
<1>4. CallsOK'
  BY <1>1, <1>3 DEF CallsOK
<1> QED BY <1>1, <1>3, <1>4, Zenon DEF SameCalls

\* The server answers one call.
LEMMA AnsweredStep ==
  ASSUME CallsOK, NEW id \in Attempts, NEW told \in Answers, Answered(id, told)
  PROVE  /\ CallsOK'
         /\ req'[id].st = "answered" /\ req'[id].answer = told
         /\ req'[id].cookie = req[id].cookie /\ req'[id].owner = req[id].owner
         /\ req'[id].start = req[id].start /\ req'[id].tier = req[id].tier
         /\ req'[id].at = req[id].at
         /\ \A j \in Attempts \ {id} : req'[j] = req[j]
<1>1. req'[id] = [req[id] EXCEPT !.st = "answered", !.answer = told]
      /\ \A j \in Attempts \ {id} : req'[j] = req[j]
  BY DEF CallsOK, Answered
<1>2. req[id] \in Calls
  BY DEF CallsOK
<1>3. req'[id] \in Calls
  BY <1>1, <1>2 DEF Calls
<1>4. CallsOK'
  BY <1>1, <1>3 DEF CallsOK, Answered
<1> QED BY <1>1, <1>2, <1>4 DEF Calls

\* Code says "ok" of a minted or a replayed row only.
LEMMA OkIsARow ==
  ASSUME NEW told \in Answers, Code(told) = "ok"
  PROVE  told.result \in {"minted", "replayed"}
BY DEF Code

(***************************************************************************)
(* While every call stays as it was, what is said of the calls does.       *)
(***************************************************************************)
LEMMA SameCallsStep ==
  ASSUME IInv, SameCalls, UNCHANGED <<register, seal, attempt>>,
         tokens' \in Nat, tokens' >= tokens
  PROVE  /\ CallsOK' /\ IsFiniteSet(register)' /\ StartsUnique(register)'
         /\ Ordered' /\ SentOK' /\ Tiered' /\ Rows' /\ Told' /\ Bucket'
<1> USE DEF SameCalls
<1>1. CallsOK' /\ IsFiniteSet(register)' /\ StartsUnique(register)'
  BY DEF IInv
<1>2. \A s \in 1..MaxSeals, n \in 0..Retries : <<s, n>> \in Attempts
  BY DEF Attempts
<1>3. Ordered'
  BY <1>2 DEF IInv, Ordered, Sent
<1>4. SentOK' /\ Tiered'
  BY DEF IInv, SentOK, Tiered, Sent
<1>5. Rows'
  BY DEF IInv, Rows, Sent
<1>6. Told'
  BY DEF IInv, Told
<1>7. Spent' = Spent
  BY DEF Spent
<1>8. Bucket'
  <2>1. Cardinality(Spent) \in Nat /\ tokens \in Nat /\ Burst \in Nat
    BY SpentFinite, ProtocolAssumption DEF IInv, TypeOK
  <2>2. Cardinality(Spent') = Cardinality(Spent)
    BY <1>7
  <2> QED BY <2>1, <2>2 DEF IInv, Bucket
<1> QED BY <1>1, <1>3, <1>4, <1>5, <1>6, <1>8

(***************************************************************************)
(* A step that moves one call which the server has, and tells nobody else. *)
(***************************************************************************)
LEMMA HandledStep ==
  ASSUME IInv, CallsOK', NEW id \in Attempts, Sent(id), req'[id].st # "unsent",
         req'[id].cookie = req[id].cookie, req'[id].start = req[id].start,
         req'[id].tier = req[id].tier, \A j \in Attempts \ {id} : req'[j] = req[j],
         UNCHANGED client
  PROVE  /\ Ordered' /\ Tiered' /\ PourOK' /\ RequestOK'
         /\ \A row \in register : \E i \in Attempts :
              Sent(i)' /\ row.start = req'[i].start /\ row.tier = req'[i].tier
<1>1. \A i \in Attempts : /\ Sent(i)' <=> Sent(i)
                          /\ req'[i].start = req[i].start /\ req'[i].tier = req[i].tier
  BY DEF Sent
<1>2. \A s \in 1..MaxSeals, n \in 0..Retries : <<s, n>> \in Attempts
  BY DEF Attempts
<1>3. Ordered'
  BY <1>1, <1>2 DEF IInv, Ordered, client
<1>4. Tiered'
  BY <1>1 DEF IInv, Tiered
<1>5. PourOK'
  BY <1>1 DEF IInv, PourOK, client
<1>6. RequestOK'
  <2>1. sealing' <=> sealing
    BY DEF sealing, client
  <2>2. Current' = Current /\ request' = request
    BY DEF Current, client
  <2> QED BY <1>1, <2>1, <2>2 DEF IInv, RequestOK
<1>7. \A row \in register : \E i \in Attempts :
        Sent(i)' /\ row.start = req'[i].start /\ row.tier = req'[i].tier
  BY <1>1 DEF IInv, Rows
<1> QED BY <1>3, <1>4, <1>5, <1>6, <1>7

\* Every call of the pour's start is of its tier, once lowered.
Agree(body) == \A i \in Attempts : Sent(i) /\ req[i].start = body.start
                                      => Lowered(req[i].tier) = Lowered(body.tier)

\* The call that Send leaves.
SentAs(o, cookie, body) ==
  [Blank EXCEPT !.st = "sent", !.open = o, !.cookie = cookie,
     !.start = body.start, !.tier = body.tier]

\* A call just sent carries the jar's cookie and the pour.
LEMMA SentTypes ==
  ASSUME NEW o \in BOOLEAN, NEW cookie \in Jars, NEW body \in Pour
  PROVE  /\ SentAs(o, cookie, body) \in Calls
         /\ SentAs(o, cookie, body).st = "sent"
         /\ SentAs(o, cookie, body).cookie = cookie
         /\ SentAs(o, cookie, body).start = body.start
         /\ SentAs(o, cookie, body).tier = body.tier
         /\ SentAs(o, cookie, body).answer = Unanswered
<1> DEFINE r1 == [Blank EXCEPT !.st = "sent"]
           r2 == [r1 EXCEPT !.open = o]
           r3 == [r2 EXCEPT !.cookie = cookie]
           r4 == [r3 EXCEPT !.start = body.start]
           r5 == [r4 EXCEPT !.tier = body.tier]
<1>1. r1 \in Calls /\ r1.st = "sent" /\ r1.answer = Unanswered
  BY BlankType, SMT DEF Calls
<1> HIDE DEF r1
<1>2. r2 \in Calls /\ r2.st = "sent" /\ r2.answer = Unanswered
  BY <1>1, SMT DEF Calls
<1> HIDE DEF r2
<1>3. r3 \in Calls /\ r3.st = "sent" /\ r3.cookie = cookie /\ r3.answer = Unanswered
  BY <1>2, SMT DEF Calls
<1> HIDE DEF r3
<1>4. body.start \in Starts /\ body.tier \in Nat
  BY ProtocolAssumption DEF Pour
<1>5. r4 \in Calls /\ r4.st = "sent" /\ r4.cookie = cookie /\ r4.start = body.start
      /\ r4.answer = Unanswered
  BY <1>3, <1>4, SMT DEF Calls
<1> HIDE DEF r4
<1>6. r5 \in Calls /\ r5.st = "sent" /\ r5.cookie = cookie /\ r5.start = body.start
      /\ r5.tier = body.tier /\ r5.answer = Unanswered
  BY <1>4, <1>5, SMT DEF Calls
<1>7. SentAs(o, cookie, body) = r5
  BY DEF SentAs, r1, r2, r3, r4
<1> QED BY <1>6, <1>7

(***************************************************************************)
(* A step that sends one attempt, not sent before, of a pour whose tier,   *)
(* once lowered, is that of every call of its start.                       *)
(***************************************************************************)
LEMMA SentStep ==
  ASSUME IInv, NEW id \in Attempts, ~Sent(id), NEW body \in Pour, Send(id, body),
         Agree(body)
  PROVE  /\ CallsOK' /\ SentOK' /\ Tiered'
         /\ req'[id].st = "sent" /\ req'[id].start = body.start /\ req'[id].tier = body.tier
         /\ req'[id].cookie = jar /\ req'[id].answer = Unanswered
         /\ \A j \in Attempts \ {id} : req'[j] = req[j]
<1> DEFINE new == SentAs(TRUE, jar, body)
<1>1. /\ req'[id] = new
      /\ \A j \in Attempts \ {id} : req'[j] = req[j]
      /\ req' = [j \in Attempts |-> req'[j]]
  BY DEF IInv, CallsOK, Send, SentAs
<1>2. body.tier \in Tiers /\ jar \in Jars /\ TRUE \in BOOLEAN
  BY DEF Pour, IInv, TypeOK, Jars
<1>4. /\ new \in Calls /\ new.st = "sent" /\ new.cookie = jar
      /\ new.start = body.start /\ new.tier = body.tier /\ new.answer = Unanswered
  BY <1>2, SentTypes, Zenon
<1>5. /\ req'[id].st = "sent" /\ req'[id].start = body.start /\ req'[id].tier = body.tier
      /\ req'[id].cookie = jar /\ req'[id].answer = Unanswered
  BY <1>1, <1>4, Zenon
<1>6. CallsOK'
  BY <1>1, <1>4 DEF CallsOK, IInv
<1>7. SentOK'
  BY <1>1, <1>2, <1>5 DEF SentOK, Sent, IInv
<1>8. Tiered'
  <2> SUFFICES ASSUME NEW i \in Attempts, NEW j \in Attempts, Sent(i)', Sent(j)',
                      req'[i].start = req'[j].start
               PROVE  Lowered(req'[i].tier) = Lowered(req'[j].tier)
    BY DEF Tiered
  <2>1. CASE i = id /\ j = id
    BY <2>1
  <2>2. CASE i = id /\ j # id
    <3>1. Sent(j) /\ req[j].start = body.start
      BY <1>1, <1>5, <2>2 DEF Sent
    <3> QED BY <1>1, <1>5, <2>2, <3>1 DEF Agree
  <2>3. CASE i # id /\ j = id
    <3>1. Sent(i) /\ req[i].start = body.start
      BY <1>1, <1>5, <2>3 DEF Sent
    <3> QED BY <1>1, <1>5, <2>3, <3>1 DEF Agree
  <2>4. CASE i # id /\ j # id
    <3>1. req'[i] = req[i] /\ req'[j] = req[j] /\ Sent(i) /\ Sent(j)
      BY <1>1, <2>4 DEF Sent
    <3> QED BY <3>1 DEF Tiered, IInv
  <2> QED BY <2>1, <2>2, <2>3, <2>4
<1> QED BY <1>1, <1>5, <1>6, <1>7, <1>8

(***************************************************************************)
(* The types that follow from CallsOK, and those of the listings.          *)
(***************************************************************************)
LEMMA CallTypes ==
  ASSUME NEW f \in [Attempts -> Calls]
  PROVE  /\ DOMAIN f = Attempts
         /\ \A id \in Attempts :
              /\ f[id].st \in {"unsent", "sent", "admitted", "answered", "dropped"}
              /\ f[id].cookie \in Owners \cup {NoOwner}
              /\ f[id].owner \in Owners \cup {NoOwner}
BY DEF Calls, Jars

Refresh == [st : {"none", "sent", "answered"}, cookie : Jars, owner : Jars]

\* A refresh carries the cookie it was sent with.
LEMMA ListTypes ==
  /\ NoList \in Refresh /\ NoList.st = "none"
  /\ \A c \in Jars : List(c) \in Refresh /\ List(c).cookie = c
BY DEF Refresh, NoList, List, Jars

(***************************************************************************)
(* The load of the page.                                                   *)
(***************************************************************************)
LEMMA InitInv == Init => IInv
<1> SUFFICES ASSUME Init PROVE IInv
  OBVIOUS
<1>1. CallsOK /\ \A id \in Attempts : ~Sent(id) /\ req[id] = Blank
  BY BlankType DEF Init, CallsOK, Sent
<1>2. TypeOK
  <2>1. issued \in Nat /\ jar \in Jars
    BY ProtocolAssumption DEF Init, Jars
  <2>2. listing \in [0..MaxSeals -> Refresh]
    BY <2>1, ListTypes DEF Init
  <2>3. now \in 0..MaxNow /\ register \in SUBSET Row /\ tokens \in 0..Burst
        /\ {pour, request} \subseteq Pour \cup {NoPour}
        /\ seal \in 0..MaxSeals /\ attempt \in 0..Retries
        /\ shown \in SUBSET Row /\ kept \in SUBSET Starts /\ config \in {"pending", "known"}
    BY ProtocolAssumption DEF Init
  <2>4. /\ DOMAIN req = Attempts
        /\ \A id \in Attempts :
              /\ req[id].st \in {"unsent", "sent", "admitted", "answered", "dropped"}
              /\ req[id].cookie \in Owners \cup {NoOwner}
              /\ req[id].owner \in Owners \cup {NoOwner}
    BY <1>1, CallTypes DEF CallsOK
  <2> QED BY <2>1, <2>2, <2>3, <2>4 DEF TypeOK, Jars, Refresh
<1>3. IsFiniteSet(register) /\ StartsUnique(register) /\ shown \subseteq register /\ Rows
  BY FS_EmptySet DEF Init, StartsUnique, Rows
<1>4. Ordered /\ SentOK /\ Tiered /\ PourOK /\ RequestOK
  <2>1. \A s \in 1..MaxSeals, n \in 0..Retries : <<s, n>> \in Attempts
    BY DEF Attempts
  <2> QED BY <1>1, <2>1, BlankType DEF Ordered, SentOK, Tiered, PourOK, RequestOK, Init, sealing
<1>5. Told
  BY <1>1, BlankType DEF Told, Unanswered
<1>6. Theirs
  <2>1. \A n \in 0..MaxSeals : listing[n].st # "none" => listing[n].cookie = StartJar
    BY ListTypes, ProtocolAssumption DEF Init, Jars
  <2> QED BY <1>1, <2>1, BlankType DEF Theirs, Init
<1>7. Bucket
  <2>1. Cardinality(Spent) \in Nat /\ tokens = Burst /\ Burst \in Nat
    BY SpentFinite, ProtocolAssumption DEF Init
  <2>2. \A id \in Attempts : req[id].answer.result # "limited"
    BY <1>1, BlankType DEF Unanswered
  <2> QED BY <2>1, <2>2 DEF Bucket
<1> QED BY <1>1, <1>2, <1>3, <1>4, <1>5, <1>6, <1>7 DEF IInv

(***************************************************************************)
(* Steps that touch no call: the clock, the vessel and the listings.       *)
(***************************************************************************)
LEMMA QuietStep ==
  ASSUME IInv, UNCHANGED <<register, seal, attempt, request, shown, kept, req>>,
         now' \in 0..MaxNow, issued' \in Nat, tokens' \in 0..Burst, tokens' >= tokens,
         config' \in {"pending", "known"}, jar' \in Jars, pour' \in Pour \cup {NoPour}, listing' \in [0..MaxSeals -> Refresh],
         PourOK',
         StartJar # NoOwner =>
           /\ jar' = jar
           /\ \A n \in 0..MaxSeals : listing'[n].st # "none" => listing'[n].cookie = StartJar
  PROVE  IInv'
<1>1. SameCalls
  BY DEF SameCalls, CallsOK, IInv
<1>2. tokens' \in Nat
  BY ProtocolAssumption
<1>3. /\ CallsOK' /\ IsFiniteSet(register)' /\ StartsUnique(register)'
      /\ Ordered' /\ SentOK' /\ Tiered' /\ Rows' /\ Told' /\ Bucket'
  BY <1>1, <1>2, SameCallsStep
<1>4. TypeOK'
  BY DEF TypeOK, IInv, Jars, Refresh
<1>5. RequestOK'
  <2>1. (sealing' <=> sealing) /\ Current' = Current
    BY DEF sealing, Current
  <2> QED BY <2>1 DEF IInv, RequestOK, Sent
<1>6. Theirs'
  BY DEF IInv, Theirs, Sent
<1> QED BY <1>3, <1>4, <1>5, <1>6 DEF IInv

\* The clock.
LEMMA TickStep == ASSUME IInv, Tick PROVE IInv'
<1>1. /\ tokens' \in 0..Burst /\ tokens' >= tokens /\ now' \in 0..MaxNow
  BY ProtocolAssumption DEF Tick, IInv, TypeOK
<1>2. PourOK'
  BY DEF Tick, client, IInv, PourOK, Sent
<1> QED BY <1>1, <1>2, QuietStep DEF Tick, client, IInv, TypeOK, Theirs, Jars, Refresh

\* A pour settles at a start no call has used, or is discarded.
LEMMA VesselStep ==
  ASSUME IInv, Discard \/ \E tier \in Tiers : Settle(tier) PROVE IInv'
<1>1. PourOK'
  <2>1. CASE Discard
    BY <2>1 DEF Discard, PourOK
  <2>2. CASE \E tier \in Tiers : Settle(tier)
    <3>1. PICK tier \in Tiers : Settle(tier)
      BY <2>2
    <3>2. \A i \in Attempts : ~(Sent(i) /\ req[i].start = now)
      <4>1. \A i \in Attempts : Sent(i) => req[i].start < now
        BY <3>1 DEF Settle, FreshStart, Sent
      <4>2. now \in Int
        BY ProtocolAssumption DEF IInv, TypeOK
      <4> QED BY <4>1, <4>2
    <3> QED BY <3>1, <3>2 DEF Settle, PourOK, Sent
  <2> QED BY <2>1, <2>2
<1>2. pour' \in Pour \cup {NoPour}
  BY ProtocolAssumption DEF Discard, Settle, IInv, TypeOK, Pour
<1>3. UNCHANGED <<now, server, jar, config, request, seal, attempt, shown, kept, req, listing>>
  BY DEF Discard, Settle
<1>4. tokens' \in 0..Burst /\ tokens' >= tokens
  BY <1>3, ProtocolAssumption DEF IInv, TypeOK, server
<1> QED BY <1>1, <1>2, <1>3, <1>4, QuietStep DEF server, IInv, TypeOK, Theirs, Jars, Refresh

\* The configuration lowers the pour in the vessel, and nothing already sent.
LEMMA ConfigStep == ASSUME IInv, ConfigArrives PROVE IInv'
<1>1. UNCHANGED <<now, server, jar, request, seal, attempt, shown, kept, req, listing>>
      /\ config' = "known"
  BY DEF ConfigArrives
<1>2. pour = NoPour => pour' = NoPour
  BY DEF ConfigArrives
<1>3. pour # NoPour => /\ pour' \in Pour /\ pour'.start = pour.start
                       /\ Lowered(pour'.tier) = Lowered(pour.tier)
  <2> SUFFICES ASSUME pour # NoPour
               PROVE  /\ pour' \in Pour /\ pour'.start = pour.start
                      /\ Lowered(pour'.tier) = Lowered(pour.tier)
    OBVIOUS
  <2>1. pour \in Pour /\ pour' = [pour EXCEPT !.tier = Lowered(@)]
    BY DEF ConfigArrives, IInv, TypeOK
  <2>2. pour.tier \in Tiers /\ Lowered(pour.tier) \in Tiers
        /\ Lowered(Lowered(pour.tier)) = Lowered(pour.tier)
    BY <2>1, ProtocolAssumption DEF Pour, Lowered
  <2> QED BY <2>1, <2>2 DEF Pour
<1>4. PourOK'
  <2> SUFFICES ASSUME pour' # NoPour, NEW i \in Attempts, Sent(i), req[i].start = pour'.start
               PROVE  Lowered(req[i].tier) = Lowered(pour'.tier)
    BY <1>1 DEF PourOK, Sent
  <2> QED BY <1>2, <1>3 DEF IInv, PourOK
<1>5. pour' \in Pour \cup {NoPour}
  BY <1>2, <1>3
<1>6. tokens' \in 0..Burst /\ tokens' >= tokens
  BY <1>1, ProtocolAssumption DEF IInv, TypeOK, server
<1> QED BY <1>1, <1>4, <1>5, <1>6, QuietStep DEF server, IInv, TypeOK, Theirs, Jars, Refresh

\* A refresh hands a cookie to a visitor who had none.
LEMMA ListingStep ==
  ASSUME IInv, NEW n \in 0..MaxSeals, AnswerList(n) \/ ReceiveList(n) \/ LoseList(n)
  PROVE  IInv'
<1>1. UNCHANGED <<now, register, tokens, client, req>>
  BY DEF AnswerList, ReceiveList, LoseList, server
<1>2. PourOK'
  BY <1>1 DEF client, IInv, PourOK, Sent
<1>3. tokens' \in 0..Burst /\ tokens' >= tokens
  BY <1>1, ProtocolAssumption DEF IInv, TypeOK
<1>4. listing \in [0..MaxSeals -> Refresh] /\ listing[n] \in Refresh /\ jar \in Jars
  BY DEF IInv, TypeOK, Jars, Refresh
<1>5. /\ jar' \in Jars /\ issued' \in Nat /\ listing' \in [0..MaxSeals -> Refresh]
      /\ StartJar # NoOwner =>
           /\ jar' = jar
           /\ listing[n].st # "none"
           /\ listing'[n].st # "none" => listing'[n].cookie = StartJar
      /\ \A m \in (0..MaxSeals) \ {n} : listing'[m] = listing[m]
  <2>1. CASE AnswerList(n)
    <3> DEFINE owner == OwnerOf(listing[n].cookie)
    <3>1. /\ owner \in Jars
          /\ listing' = [listing EXCEPT ![n] =
                           [listing[n] EXCEPT !.st = "answered", !.owner = owner]]
          /\ jar' = jar /\ listing[n].st = "sent"
      BY <2>1, <1>4 DEF AnswerList, Jars
    <3>2. issued' \in Nat
      BY <2>1 DEF AnswerList, IInv, TypeOK
    <3> HIDE DEF owner
    <3> DEFINE new == [listing[n] EXCEPT !.st = "answered", !.owner = owner]
    <3>3. new \in Refresh /\ new.cookie = listing[n].cookie
      BY <3>1, <1>4 DEF Refresh
    <3> HIDE DEF new
    <3>4. listing' = [listing EXCEPT ![n] = new]
      BY <3>1 DEF new
    <3> QED BY <3>1, <3>2, <3>3, <3>4, <1>4 DEF IInv, Theirs
  <2>2. CASE ReceiveList(n) \/ LoseList(n)
    <3>1. jar' \in Jars /\ issued' \in Nat /\ listing[n].st # "none"
      BY <2>2, <1>4 DEF ReceiveList, LoseList, IInv, TypeOK, Refresh, server
    <3>2. StartJar # NoOwner => jar' = jar /\ jar = StartJar
      BY <2>2, <3>1 DEF ReceiveList, LoseList, IInv, Theirs
    <3>3. PICK new \in {NoList, List(jar')} : listing' = [listing EXCEPT ![n] = new]
      BY <2>2 DEF ReceiveList, LoseList
    <3>4. new \in Refresh /\ (new.st # "none" => new.cookie = jar')
      BY <3>1, ListTypes
    <3> QED BY <3>1, <3>2, <3>3, <3>4, <1>4
  <2> QED BY <2>1, <2>2
<1>6. UNCHANGED <<config, pour, request, seal, attempt, shown, kept>>
  BY <1>1 DEF client
<1>7. now \in 0..MaxNow /\ pour \in Pour \cup {NoPour} /\ config \in {"pending", "known"}
  BY DEF IInv, TypeOK
<1>8. StartJar # NoOwner =>
           /\ jar' = jar
           /\ \A m \in 0..MaxSeals : listing'[m].st # "none" => listing'[m].cookie = StartJar
  BY <1>5 DEF IInv, Theirs
<1> QED BY <1>1, <1>2, <1>3, <1>5, <1>6, <1>7, <1>8, QuietStep

(***************************************************************************)
(* A press, and a retry of it.                                             *)
(***************************************************************************)
LEMMA SendingSends ==
  ASSUME IInv, Seal \/ Resend, NEW id, id = Current', NEW body, body = request'
  PROVE  /\ id \in Attempts /\ ~Sent(id) /\ Send(id, body) /\ body \in Pour /\ body # NoPour
         /\ Agree(body)
         /\ seal' \in 0..MaxSeals /\ attempt' \in 0..Retries /\ id = <<seal', attempt'>>
         /\ \/ seal' = seal + 1 /\ attempt' = 0
            \/ seal' = seal /\ attempt' = attempt + 1
         /\ pour # NoPour /\ body.start = pour.start => Lowered(body.tier) = Lowered(pour.tier)
<1>1. Retries \in Nat /\ MaxSeals \in Nat /\ seal \in 0..MaxSeals /\ attempt \in 0..Retries
      /\ {pour, request} \subseteq Pour \cup {NoPour}
  BY ProtocolAssumption DEF IInv, TypeOK
<1>2. CASE Seal
  <2>1. id = <<seal + 1, 0>> /\ body = pour /\ pour # NoPour /\ Send(id, body)
        /\ seal' = seal + 1 /\ attempt' = 0 /\ seal < MaxSeals
    BY <1>2 DEF Seal, Current
  <2>2. seal + 1 \in 1..MaxSeals /\ 0 \in 0..Retries /\ ~(seal + 1 <= seal)
    BY <1>1, <2>1
  <2>3. id \in Attempts /\ ~Sent(id)
    BY <2>1, <2>2 DEF Attempts, IInv, Ordered
  <2>4. Agree(body)
    BY <2>1 DEF IInv, PourOK, Agree
  <2> QED BY <1>1, <2>1, <2>2, <2>3, <2>4
<1>3. CASE Resend
  <2>1. id = <<seal, attempt + 1>> /\ body = request /\ request # NoPour /\ Send(id, body)
        /\ seal' = seal /\ attempt' = attempt + 1 /\ attempt < Retries
    BY <1>3 DEF Resend, Current, sealing
  <2>2. /\ Current \in Attempts /\ Sent(Current)
        /\ req[Current].start = request.start /\ req[Current].tier = request.tier
    BY <2>1 DEF IInv, RequestOK, sealing
  <2>3. seal \in 1..MaxSeals
    BY <2>2 DEF Current, Attempts
  <2>4. attempt + 1 \in 0..Retries /\ ~(attempt + 1 <= attempt)
    BY <1>1, <2>1
  <2>5. id \in Attempts /\ ~Sent(id)
    BY <2>1, <2>3, <2>4 DEF Attempts, IInv, Ordered
  <2>6. Agree(body)
    BY <2>1, <2>2 DEF IInv, Tiered, Agree
  <2>7. pour # NoPour /\ body.start = pour.start => Lowered(body.tier) = Lowered(pour.tier)
    BY <2>1, <2>2 DEF IInv, PourOK
  <2> QED BY <1>1, <2>1, <2>4, <2>5, <2>6, <2>7
<1> QED BY <1>2, <1>3

\* Sending keeps IInv.
LEMMA SendingStep == ASSUME IInv, Seal \/ Resend PROVE IInv'
<1> DEFINE id == Current'
           body == request'
<1>1. /\ id \in Attempts /\ ~Sent(id) /\ Send(id, body) /\ body \in Pour /\ body # NoPour
      /\ Agree(body)
      /\ seal' \in 0..MaxSeals /\ attempt' \in 0..Retries /\ id = <<seal', attempt'>>
      /\ \/ seal' = seal + 1 /\ attempt' = 0
         \/ seal' = seal /\ attempt' = attempt + 1
      /\ pour # NoPour /\ body.start = pour.start => Lowered(body.tier) = Lowered(pour.tier)
  BY SendingSends DEF Current
<1>2. UNCHANGED <<now, server, jar, config, pour, shown, kept, listing>>
  BY DEF Seal, Resend
<1> HIDE DEF id, body
<1>3. /\ CallsOK' /\ SentOK' /\ Tiered'
      /\ req'[id].st = "sent" /\ req'[id].start = body.start /\ req'[id].tier = body.tier
      /\ req'[id].cookie = jar /\ req'[id].answer = Unanswered
      /\ \A j \in Attempts \ {id} : req'[j] = req[j]
  BY <1>1, SentStep
<1>4. TypeOK'
  <2>1. /\ now' \in 0..MaxNow /\ register' \in SUBSET Row
        /\ issued' \in Nat /\ tokens' \in 0..Burst /\ config' \in {"pending", "known"}
        /\ jar' \in Owners \cup {NoOwner} /\ {pour', request'} \subseteq Pour \cup {NoPour}
        /\ seal' \in 0..MaxSeals /\ attempt' \in 0..Retries
        /\ shown' \in SUBSET Row /\ kept' \in SUBSET Starts
        /\ listing' \in [0..MaxSeals -> [st : {"none", "sent", "answered"},
                                  cookie : Owners \cup {NoOwner},
                                  owner : Owners \cup {NoOwner}]]
    BY <1>1, <1>2 DEF IInv, TypeOK, server, body
  <2>2. /\ DOMAIN req' = Attempts
        /\ \A k \in Attempts :
              /\ req'[k].st \in {"unsent", "sent", "admitted", "answered", "dropped"}
              /\ req'[k].cookie \in Owners \cup {NoOwner}
              /\ req'[k].owner \in Owners \cup {NoOwner}
    <3>1. req' \in [Attempts -> Calls]
      BY <1>3 DEF CallsOK
    <3> QED BY <3>1, CallTypes
  <2> QED BY <2>1, <2>2 DEF TypeOK
<1>5. Ordered'
  <2> SUFFICES ASSUME NEW s \in 1..MaxSeals, NEW n \in 0..Retries, Sent(<<s, n>>)'
               PROVE  s <= seal' /\ (s = seal' => n <= attempt')
    BY DEF Ordered
  <2>1. <<s, n>> \in Attempts /\ seal \in Int /\ attempt \in Int
        /\ seal' \in Int /\ attempt' \in Int
    BY <1>1, ProtocolAssumption DEF Attempts, IInv, TypeOK
  <2>2. CASE <<s, n>> = id
    BY <1>1, <2>1, <2>2
  <2>3. CASE <<s, n>> # id
    <3>1. Sent(<<s, n>>)
      BY <1>3, <2>1, <2>3 DEF Sent
    <3>2. s <= seal /\ (s = seal => n <= attempt)
      BY <3>1 DEF IInv, Ordered
    <3> QED BY <1>1, <2>1, <3>2
  <2> QED BY <2>2, <2>3
<1>6. PourOK'
  <2> SUFFICES ASSUME pour # NoPour, NEW i \in Attempts, Sent(i)', req'[i].start = pour.start
               PROVE  Lowered(req'[i].tier) = Lowered(pour.tier)
    BY <1>2 DEF PourOK
  <2>1. CASE i = id
    BY <1>1, <1>3, <2>1
  <2>2. CASE i # id
    <3>1. req'[i] = req[i] /\ Sent(i)
      BY <1>3, <2>2 DEF Sent
    <3> QED BY <3>1 DEF IInv, PourOK
  <2> QED BY <2>1, <2>2
<1>7. RequestOK'
  BY <1>1, <1>3 DEF RequestOK, Sent, id, body
<1>8. Rows'
  <2> SUFFICES ASSUME NEW row \in register
               PROVE  row.tier <= Ceiling /\ \E i \in Attempts : Sent(i)' /\ row.start = req'[i].start
                                                   /\ row.tier = req'[i].tier
    BY <1>2 DEF Rows, server
  <2>1. row.tier <= Ceiling
    BY DEF IInv, Rows
  <2>2. PICK i \in Attempts : Sent(i) /\ row.start = req[i].start /\ row.tier = req[i].tier
    BY DEF IInv, Rows
  <2>3. req'[i] = req[i]
    BY <1>1, <1>3, <2>2
  <2> QED BY <2>1, <2>2, <2>3 DEF Sent
<1>9. Told'
  <2>1. req'[id].answer.result = "none"
    BY <1>3 DEF Unanswered
  <2> QED BY <1>2, <1>3, <2>1 DEF Told, IInv, server
<1>10. Theirs'
  BY <1>2, <1>3 DEF Theirs, IInv, Sent, server
<1>11. Bucket'
  <2> SUFFICES ASSUME Burst > Retries, seal' <= 1
               PROVE  /\ tokens' + Cardinality(Spent') >= Burst
                      /\ \A n \in 0..Retries :
                           <<1, n>> \in Attempts => req'[<<1, n>>].answer.result # "limited"
    BY DEF Bucket
  <2>1. seal <= 1
    BY <1>1 DEF IInv, TypeOK
  <2>2. Spent' = Spent
    BY <1>1, <1>3 DEF Spent, Sent
  <2>3. req'[id].answer.result # "limited"
    BY <1>3 DEF Unanswered
  <2>4. tokens' + Cardinality(Spent') >= Burst
    BY <1>2, <2>1, <2>2 DEF server, IInv, Bucket
  <2> QED BY <1>3, <2>1, <2>3, <2>4 DEF IInv, Bucket
<1>12. IsFiniteSet(register)' /\ StartsUnique(register)' /\ shown' \subseteq register'
  BY <1>2 DEF IInv, server
<1> QED BY <1>3, <1>4, <1>5, <1>6, <1>7, <1>8, <1>9, <1>10, <1>11, <1>12 DEF IInv

(***************************************************************************)
(* An attempt ends for the client.                                         *)
(***************************************************************************)
LEMMA EndingStep == ASSUME IInv, Receive \/ BodyLost \/ GiveUp PROVE IInv'
<1> DEFINE q == req[Current]
<1>1. /\ Current \in Attempts /\ Sent(Current) /\ q \in Calls /\ request # NoPour /\ request \in Pour
      /\ q.start = request.start /\ q.tier = request.tier
  BY DEF Receive, BodyLost, GiveUp, InFlight, IInv, RequestOK, TypeOK, CallsOK, sealing
<1>2. /\ UNCHANGED <<now, server, config, seal, attempt>>
      /\ req' = [req EXCEPT ![Current].open = FALSE]
  BY DEF Receive, BodyLost, GiveUp
<1>3. SameCalls
  BY <1>1, <1>2, ClosedStep DEF IInv
<1>4. UNCHANGED <<register, issued, tokens>> /\ tokens \in Nat /\ tokens \in Int
  BY <1>2, ProtocolAssumption DEF server, IInv, TypeOK
<1>5. /\ CallsOK' /\ IsFiniteSet(register)' /\ StartsUnique(register)'
      /\ Ordered' /\ SentOK' /\ Tiered' /\ Rows' /\ Told' /\ Bucket'
  <2>1. tokens' \in Nat /\ tokens' >= tokens
    BY <1>4
  <2> QED BY <1>2, <1>3, <1>4, <2>1, SameCallsStep
<1>6. /\ jar' \in Jars
      /\ StartJar # NoOwner => jar' = StartJar
  <2>1. jar \in Jars /\ q.owner \in Jars
    BY <1>1 DEF IInv, TypeOK, Jars, Calls
  <2>2. StartJar # NoOwner => q.cookie = StartJar /\ jar = StartJar
    BY <1>1 DEF IInv, Theirs
  <2>3. jar' = jar \/ TakesCookie(q)
    BY DEF Receive, BodyLost, GiveUp
  <2> QED BY <2>1, <2>2, <2>3 DEF TakesCookie
<1>7. /\ pour' \in {pour, NoPour} /\ request' \in {request, NoPour}
      /\ kept' \in {kept, kept \cup {request.start}}
      /\ shown' = shown \/ \E row \in register : shown' = {row}
      /\ listing' \in {listing, [listing EXCEPT ![seal] = List(jar')]}
  <2>1. CASE Receive /\ Code(q.answer) = "ok"
    <3>1. Succeeds(q.answer.row)
      BY <2>1 DEF Receive
    <3>2. q.answer \in Answers
      BY <1>1 DEF Calls
    <3>3. q.answer.result \in {"minted", "replayed"}
      BY <2>1, <3>2, OkIsARow
    <3>4. q.answer.row \in register
      BY <1>1, <3>3 DEF IInv, Told
    <3> QED BY <3>1, <3>4 DEF Succeeds
  <2>2. CASE Receive /\ Code(q.answer) # "ok"
    BY <2>2 DEF Receive, Fails
  <2>3. CASE BodyLost
    BY <2>3 DEF BodyLost
  <2>4. CASE GiveUp
    BY <2>4 DEF GiveUp, Fails
  <2> QED BY <2>1, <2>2, <2>3, <2>4
<1>8. listing' \in [0..MaxSeals -> Refresh]
      /\ (StartJar # NoOwner =>
            \A n \in 0..MaxSeals : listing'[n].st # "none" => listing'[n].cookie = StartJar)
  <2>1. listing \in [0..MaxSeals -> Refresh] /\ List(jar') \in Refresh /\ List(jar').cookie = jar'
    BY <1>6, ListTypes DEF IInv, TypeOK, Refresh, Jars
  <2>2. StartJar # NoOwner =>
          \A n \in 0..MaxSeals : listing[n].st # "none" => listing[n].cookie = StartJar
    BY DEF IInv, Theirs
  <2> QED BY <1>6, <1>7, <2>1, <2>2
<1>9. TypeOK'
  <2>1. /\ now' \in 0..MaxNow /\ register' \in SUBSET Row
        /\ issued' \in Nat /\ tokens' \in 0..Burst /\ jar' \in Owners \cup {NoOwner}
        /\ seal' \in 0..MaxSeals /\ attempt' \in 0..Retries /\ config' \in {"pending", "known"}
    BY <1>2, <1>4, <1>6 DEF IInv, TypeOK, Jars
  <2>2. /\ {pour', request'} \subseteq Pour \cup {NoPour}
        /\ shown' \in SUBSET Row /\ kept' \in SUBSET Starts
    BY <1>1, <1>7 DEF IInv, TypeOK, Pour
  <2>3. listing' \in [0..MaxSeals -> [st : {"none", "sent", "answered"},
                                  cookie : Owners \cup {NoOwner},
                                  owner : Owners \cup {NoOwner}]]
    BY <1>8 DEF Refresh, Jars
  <2>4. /\ DOMAIN req' = Attempts
        /\ \A k \in Attempts :
              /\ req'[k].st \in {"unsent", "sent", "admitted", "answered", "dropped"}
              /\ req'[k].cookie \in Owners \cup {NoOwner}
              /\ req'[k].owner \in Owners \cup {NoOwner}
    <3>1. req' \in [Attempts -> Calls]
      BY <1>5 DEF CallsOK
    <3> QED BY <3>1, CallTypes
  <2> QED BY <2>1, <2>2, <2>3, <2>4 DEF TypeOK
<1>10. PourOK'
  BY <1>3, <1>7 DEF IInv, PourOK, Sent, SameCalls
<1>11. RequestOK'
  <2>1. Current' = Current
    BY <1>2 DEF Current
  <2> QED BY <1>1, <1>3, <1>7, <2>1 DEF RequestOK, sealing, Sent, SameCalls
<1>12. shown' \subseteq register'
  BY <1>4, <1>7 DEF IInv
<1>13. Theirs'
  BY <1>3, <1>4, <1>6, <1>8 DEF IInv, Theirs, Sent, SameCalls
<1> QED BY <1>5, <1>9, <1>10, <1>11, <1>12, <1>13 DEF IInv

(***************************************************************************)
(* The server's steps: their types, and one request answered.              *)
(***************************************************************************)
LEMMA HandlingTypes ==
  ASSUME IInv, CallsOK', UNCHANGED <<now, jar, client, listing>>,
         register' \in SUBSET Row, issued' \in Nat, tokens' \in 0..Burst
  PROVE  TypeOK'
<1>1. UNCHANGED <<config, pour, request, seal, attempt, shown, kept>>
  BY DEF client
<1>2. /\ DOMAIN req' = Attempts
      /\ \A k \in Attempts :
            /\ req'[k].st \in {"unsent", "sent", "admitted", "answered", "dropped"}
            /\ req'[k].cookie \in Owners \cup {NoOwner}
            /\ req'[k].owner \in Owners \cup {NoOwner}
  <2>1. req' \in [Attempts -> Calls]
    BY DEF CallsOK
  <2> QED BY <2>1, CallTypes
<1> QED BY <1>1, <1>2 DEF IInv, TypeOK

\* With a burst above the retries, the first press never finds no token.
LEMMA RateLimitStep ==
  ASSUME IInv, NEW id \in Attempts, RateLimit(id) PROVE IInv'
<1> DEFINE told == [result |-> "limited"]
<1>1. /\ Sent(id) /\ req[id].st = "sent" /\ tokens = 0 /\ Answered(id, told) /\ told \in Answers
      /\ UNCHANGED <<now, register, issued, tokens, jar, client, listing>>
  BY AnswerTypes DEF RateLimit, Sent, server
<1>2. told.result = "limited"
  OBVIOUS
<1> HIDE DEF told
<1>3. /\ CallsOK'
      /\ req'[id].st = "answered" /\ req'[id].answer = told
      /\ req'[id].cookie = req[id].cookie /\ req'[id].owner = req[id].owner
      /\ req'[id].start = req[id].start /\ req'[id].tier = req[id].tier
      /\ \A j \in Attempts \ {id} : req'[j] = req[j]
  BY <1>1, AnsweredStep DEF IInv
<1>4. /\ Ordered' /\ Tiered' /\ PourOK' /\ RequestOK'
      /\ \A row \in register : \E i \in Attempts :
              Sent(i)' /\ row.start = req'[i].start /\ row.tier = req'[i].tier
  BY <1>1, <1>3, HandledStep
<1>5. TypeOK'
  BY <1>1, <1>3, HandlingTypes DEF IInv, TypeOK
<1>6. IsFiniteSet(register)' /\ StartsUnique(register)' /\ Rows' /\ shown' \subseteq register'
  BY <1>1, <1>4 DEF IInv, Rows, client
<1>7. SentOK' /\ Told' /\ Theirs'
  BY <1>1, <1>2, <1>3 DEF IInv, SentOK, Told, Theirs, Sent
<1>8. Bucket'
  <2> SUFFICES ASSUME Burst > Retries, seal <= 1 PROVE FALSE
    BY <1>1 DEF Bucket, client
  <2>1. PICK s \in 1..MaxSeals, n \in 0..Retries : id = <<s, n>>
    BY DEF Attempts
  <2>2. s = 1
    <3>1. s <= seal
      BY <1>1, <2>1 DEF IInv, Ordered
    <3>2. s \in Int /\ s >= 1 /\ seal \in Int
      BY ProtocolAssumption DEF IInv, TypeOK
    <3> QED BY <3>1, <3>2
  <2>3. n \in (0..Retries) \ Spent
    BY <1>1, <2>1, <2>2 DEF Spent
  <2>4. Cardinality(Spent) <= Retries /\ Cardinality(Spent) \in Nat /\ Retries \in Nat /\ Burst \in Nat
    BY <2>3, SpentFinite, ProtocolAssumption
  <2>5. tokens + Cardinality(Spent) >= Burst
    BY DEF IInv, Bucket
  <2> QED BY <1>1, <2>4, <2>5
<1> QED BY <1>3, <1>4, <1>5, <1>6, <1>7, <1>8 DEF IInv

(***************************************************************************)
(* A token, and a cookie, or the one the server hands out: the two records *)
(* Admit may leave.                                                        *)
(***************************************************************************)
TurnedAway(q, owner, told) == [q EXCEPT !.st = "answered", !.owner = owner, !.answer = told]
AdmittedAs(q, owner, at)   == [q EXCEPT !.st = "admitted", !.owner = owner, !.at = at]

\* The types of the two records.
LEMMA TurnedAwayType ==
  ASSUME NEW q \in Calls, NEW owner \in Owners, NEW told \in Answers
  PROVE  LET u == TurnedAway(q, owner, told)
         IN /\ u \in Calls /\ u.st = "answered" /\ u.owner = owner /\ u.answer = told
            /\ u.cookie = q.cookie /\ u.start = q.start /\ u.tier = q.tier
BY DEF Calls, Jars, TurnedAway

LEMMA AdmittedType ==
  ASSUME NEW q \in Calls, NEW owner \in Owners, NEW at \in Nat
  PROVE  LET v == AdmittedAs(q, owner, at)
         IN /\ v \in Calls /\ v.st = "admitted" /\ v.owner = owner /\ v.answer = q.answer
            /\ v.cookie = q.cookie /\ v.start = q.start /\ v.tier = q.tier
BY DEF Calls, Jars, AdmittedAs

\* Admission keeps IInv: the bucket pays for it.
LEMMA AdmitStep ==
  ASSUME IInv, NEW id \in Attempts, Admit(id) PROVE IInv'
<1> DEFINE q == req[id]
           owner == OwnerOf(q.cookie)
<1>1. /\ q \in Calls /\ q.st = "sent" /\ Sent(id) /\ tokens > 0 /\ tokens \in Nat /\ tokens <= Burst
      /\ owner \in Owners /\ tokens' = tokens - 1 /\ issued' \in Nat /\ now \in Nat
      /\ UNCHANGED <<now, register, jar, client, listing>>
  BY ProtocolAssumption DEF Admit, Sent, IInv, CallsOK, TypeOK
<1>2. /\ req'[id] \in Calls /\ req'[id].st \in {"answered", "admitted"}
      /\ req'[id].answer \in {q.answer, [result |-> "unavailable"]}
      /\ req'[id].st = "admitted" => req'[id].answer = q.answer /\ q.tier <= Ceiling
      /\ req'[id].owner = owner /\ req'[id].cookie = q.cookie
      /\ req'[id].start = q.start /\ req'[id].tier = q.tier
      /\ \A j \in Attempts \ {id} : req'[j] = req[j]
      /\ req' = [j \in Attempts |-> req'[j]]
  <2> DEFINE u == TurnedAway(q, owner, [result |-> "unavailable"])
             v == AdmittedAs(q, owner, now)
  <2>1. /\ u \in Calls /\ u.st = "answered" /\ u.owner = owner
        /\ u.answer = [result |-> "unavailable"]
        /\ u.cookie = q.cookie /\ u.start = q.start /\ u.tier = q.tier
        /\ v \in Calls /\ v.st = "admitted" /\ v.owner = owner /\ v.answer = q.answer
        /\ v.cookie = q.cookie /\ v.start = q.start /\ v.tier = q.tier
    <3>1. [result |-> "unavailable"] \in Answers
      BY AnswerTypes
    <3>2. q \in Calls /\ owner \in Owners /\ now \in Nat
      BY <1>1
    <3> HIDE DEF q, owner
    <3>3. /\ u \in Calls /\ u.st = "answered" /\ u.owner = owner
          /\ u.answer = [result |-> "unavailable"]
          /\ u.cookie = q.cookie /\ u.start = q.start /\ u.tier = q.tier
      BY <3>1, <3>2, TurnedAwayType
    <3>4. /\ v \in Calls /\ v.st = "admitted" /\ v.owner = owner /\ v.answer = q.answer
          /\ v.cookie = q.cookie /\ v.start = q.start /\ v.tier = q.tier
      BY <3>2, AdmittedType
    <3> QED BY <3>3, <3>4
  <2>2. /\ req' = [req EXCEPT ![id] = IF q.tier > Ceiling THEN u ELSE v]
        /\ req \in [Attempts -> Calls]
    BY DEF Admit, IInv, CallsOK, TurnedAway, AdmittedAs
  <2>3. q.tier \in Nat /\ Ceiling \in Nat
    BY <1>1, ProtocolAssumption DEF Calls
  <2> HIDE DEF u, v, q, owner
  <2>4. CASE q.tier > Ceiling
    BY <2>1, <2>2, <2>4
  <2>5. CASE ~(q.tier > Ceiling)
    <3>1. q.tier <= Ceiling
      BY <2>3, <2>5
    <3> QED BY <2>1, <2>2, <2>5, <3>1
  <2> QED BY <2>4, <2>5
<1> HIDE DEF owner
<1>3. CallsOK'
  BY <1>2 DEF CallsOK, IInv
<1>4. /\ Ordered' /\ Tiered' /\ PourOK' /\ RequestOK'
      /\ \A row \in register : \E i \in Attempts :
              Sent(i)' /\ row.start = req'[i].start /\ row.tier = req'[i].tier
  BY <1>1, <1>2, <1>3, HandledStep
<1>5. TypeOK'
  <2>1. tokens' \in 0..Burst /\ register' \in SUBSET Row
    BY <1>1, ProtocolAssumption DEF IInv, TypeOK
  <2> QED BY <1>1, <1>3, <2>1, HandlingTypes
<1>6. IsFiniteSet(register)' /\ StartsUnique(register)' /\ Rows' /\ shown' \subseteq register'
  BY <1>1, <1>4 DEF IInv, Rows, client
<1>7. SentOK' /\ Told'
  BY <1>1, <1>2 DEF IInv, SentOK, Told, Sent
<1>8. Theirs'
  <2>1. StartJar # NoOwner => owner = StartJar
    BY <1>1 DEF IInv, Theirs, owner, OwnerOf
  <2> QED BY <1>1, <1>2, <2>1 DEF IInv, Theirs, Sent
<1>9. Bucket'
  <2> SUFFICES ASSUME Burst > Retries, seal <= 1
               PROVE  /\ tokens' + Cardinality(Spent') >= Burst
                      /\ \A n \in 0..Retries :
                           <<1, n>> \in Attempts => req'[<<1, n>>].answer.result # "limited"
    BY <1>1 DEF Bucket, client
  <2>1. PICK s \in 1..MaxSeals, n \in 0..Retries : id = <<s, n>>
    BY DEF Attempts
  <2>2. s = 1
    <3>1. s <= seal
      BY <1>1, <2>1 DEF IInv, Ordered
    <3>2. s \in Int /\ s >= 1 /\ seal \in Int
      BY ProtocolAssumption DEF IInv, TypeOK
    <3> QED BY <3>1, <3>2
  <2>3. n \notin Spent /\ Spent' = Spent \cup {n}
    BY <1>1, <1>2, <2>1, <2>2 DEF Spent
  <2>4. Cardinality(Spent') = Cardinality(Spent) + 1
    BY <2>3, SpentFinite, FS_AddElement
  <2>5. tokens + Cardinality(Spent) >= Burst /\ Cardinality(Spent) \in Nat /\ Burst \in Nat
    BY SpentFinite, ProtocolAssumption DEF IInv, Bucket
  <2>6. req'[id].answer.result # "limited"
    BY <1>2, <2>1, <2>2 DEF IInv, Bucket
  <2> QED BY <1>1, <1>2, <2>4, <2>5, <2>6 DEF IInv, Bucket
<1> QED BY <1>3, <1>4, <1>5, <1>6, <1>7, <1>8, <1>9 DEF IInv

(***************************************************************************)
(* The store's answers.                                                    *)
(***************************************************************************)
LEMMA NewRow ==
  ASSUME IInv, NEW id \in Attempts, req[id].st = "admitted",
         NEW row, row = Mint(AskOf(req[id]), Cardinality(register) + 1)
  PROVE  /\ row \in Row
         /\ row.owner = req[id].owner /\ row.start = req[id].start /\ row.tier = req[id].tier
<1>1. req[id] \in Calls /\ Sent(id) /\ req[id].owner \in Owners /\ req[id].tier \in Tiers
  BY DEF IInv, CallsOK, SentOK, Sent
<1>2. Cardinality(register) + 1 \in Nat \ {0}
  <2>1. Cardinality(register) \in Nat
    BY FS_CardinalityType DEF IInv
  <2> QED BY <2>1
<1>3. req[id].start \in Starts /\ Telemetry \in Claims
  BY <1>1, ProtocolAssumption DEF Calls
<1>4. Seed[req[id].tier, req[id].start, Telemetry] \in Nat
  BY <1>1, <1>3, SeedAssumption
<1>5. row = [position |-> Cardinality(register) + 1, owner |-> req[id].owner,
             start |-> req[id].start, tier |-> req[id].tier, claim |-> Telemetry,
             seed |-> Seed[req[id].tier, req[id].start, Telemetry]]
  BY DEF Mint, AskOf
<1>6. row \in Row /\ row.owner = req[id].owner /\ row.start = req[id].start
      /\ row.tier = req[id].tier
  <2> DEFINE p == Cardinality(register) + 1
             s == Seed[req[id].tier, req[id].start, Telemetry]
             o == req[id].owner
             d == req[id].start
             n == req[id].tier
  <2>1. /\ row = [position |-> p, owner |-> o, start |-> d, tier |-> n,
                   claim |-> Telemetry, seed |-> s]
        /\ p \in Nat \ {0} /\ s \in Nat /\ o \in Owners /\ d \in Starts /\ n \in Tiers
        /\ Telemetry \in Claims
    BY <1>1, <1>2, <1>3, <1>4, <1>5
  <2> HIDE DEF p, s, o, d, n
  <2>2. row \in Row /\ row.owner = o /\ row.start = d /\ row.tier = n
    BY <2>1 DEF Row
  <2> QED BY <2>2 DEF o, d, n
<1> QED BY <1>6

\* The store's answer is of the pour that was asked about.
LEMMA AppendStep ==
  ASSUME IInv, NEW id \in Attempts,
         AppendMints(id) \/ AppendReplays(id) \/ AppendRejects(id) \/ AppendFails(id)
  PROVE  IInv'
<1> DEFINE q == req[id]
           a == AskOf(q)
           row == Mint(a, Cardinality(register) + 1)
<1>1. /\ q.st = "admitted" /\ Sent(id) /\ q \in Calls
      /\ UNCHANGED <<now, issued, tokens, jar, client, listing>>
      /\ a.owner = q.owner /\ a.start = q.start /\ a.tier = q.tier
  BY DEF AppendMints, AppendReplays, AppendRejects, AppendFails, Sent, IInv, CallsOK, server, AskOf
<1>2. row \in Row /\ row.owner = q.owner /\ row.start = q.start /\ row.tier = q.tier
  BY <1>1, NewRow
<1> HIDE DEF row
<1>3. \/ register' = register
      \/ register' = register \cup {row} /\ Prior(register, a) = {}
  BY DEF AppendMints, AppendReplays, AppendRejects, AppendFails, server, row
<1>4. PICK told \in Answers :
        /\ Answered(id, told)
        /\ told.result \notin {"conflict", "limited", "unavailable"}
        /\ told.result \in {"minted", "replayed"} =>
             told.row \in register' /\ told.row.start = q.start /\ told.row.tier = q.tier
  <2>1. CASE AppendMints(id)
    <3>1. Answered(id, Minted(row)) /\ row \in register'
      BY <2>1 DEF AppendMints, row
    <3>2. Minted(row) \in Answers /\ Minted(row).result = "minted" /\ Minted(row).row = row
      BY <1>2, AnswerTypes DEF Minted
    <3> QED BY <1>2, <3>1, <3>2
  <2>2. CASE AppendReplays(id)
    <3>1. PICK old \in Prior(register, a) :
            Answered(id, IF old.tier = a.tier THEN Replayed(old) ELSE Conflict)
      BY <2>2 DEF AppendReplays
    <3>2. old \in register /\ old.start = q.start /\ old \in Row /\ register' = register
      BY <1>1, <2>2, <3>1 DEF Prior, IInv, TypeOK, AppendReplays, server
    <3>3. old.tier = q.tier
      <4>1. PICK i \in Attempts : Sent(i) /\ old.start = req[i].start /\ old.tier = req[i].tier
        BY <3>2 DEF IInv, Rows
      <4>2. Lowered(old.tier) = Lowered(q.tier)
        BY <1>1, <3>2, <4>1 DEF IInv, Tiered
      <4>3. old.tier <= Ceiling /\ q.tier <= Ceiling
        BY <1>1, <3>2 DEF IInv, Rows, SentOK
      <4>4. old.tier \in Nat /\ q.tier \in Nat /\ Ceiling \in Nat
        BY <1>1, <3>2, ProtocolAssumption DEF Row, Calls
      <4> QED BY <4>2, <4>3, <4>4 DEF Lowered
    <3>4. Replayed(old) \in Answers /\ Replayed(old).result = "replayed" /\ Replayed(old).row = old
      BY <3>2, AnswerTypes DEF Replayed
    <3>5. Answered(id, Replayed(old))
      BY <1>1, <3>1, <3>3
    <3> QED BY <3>2, <3>3, <3>4, <3>5
  <2>3. CASE AppendRejects(id)
    BY <2>3, AnswerTypes DEF AppendRejects, Rejected
  <2>4. CASE AppendFails(id)
    BY <2>4, AnswerTypes DEF AppendFails, Failed
  <2> QED BY <2>1, <2>2, <2>3, <2>4
<1>5. /\ CallsOK'
      /\ req'[id].st = "answered" /\ req'[id].answer = told
      /\ req'[id].cookie = q.cookie /\ req'[id].owner = q.owner
      /\ req'[id].start = q.start /\ req'[id].tier = q.tier
      /\ \A j \in Attempts \ {id} : req'[j] = req[j]
  BY <1>4, AnsweredStep DEF IInv
<1>6. /\ Ordered' /\ Tiered' /\ PourOK' /\ RequestOK'
      /\ \A old \in register : \E i \in Attempts :
              Sent(i)' /\ old.start = req'[i].start /\ old.tier = req'[i].tier
  BY <1>1, <1>5, HandledStep
<1>7. TypeOK'
  <2>1. register' \in SUBSET Row /\ issued' \in Nat /\ tokens' \in 0..Burst
    BY <1>1, <1>2, <1>3 DEF IInv, TypeOK
  <2> QED BY <1>1, <1>5, <2>1, HandlingTypes
<1>8. IsFiniteSet(register)'
  BY <1>3, FS_AddElement DEF IInv
<1>9. StartsUnique(register)'
  BY <1>1, <1>2, <1>3 DEF IInv, StartsUnique, Prior
<1>10. Rows'
  <2>1. q.tier <= Ceiling
    BY <1>1 DEF IInv, SentOK
  <2> QED BY <1>2, <1>3, <1>5, <1>6, <2>1 DEF IInv, Rows, Sent
<1>11. shown' \subseteq register' /\ SentOK'
  BY <1>1, <1>3, <1>5 DEF IInv, client, SentOK, Sent
<1>12. Told'
  <2> SUFFICES ASSUME NEW i \in Attempts
               PROVE  /\ req'[i].st # "answered" => req'[i].answer = Unanswered
                      /\ req'[i].answer.result # "conflict"
                      /\ req'[i].answer.result \in {"minted", "replayed"} =>
                           /\ req'[i].answer.row \in register'
                           /\ req'[i].answer.row.start = req'[i].start
                           /\ req'[i].answer.row.tier = req'[i].tier
    BY DEF Told
  <2>1. CASE i = id
    BY <1>4, <1>5, <2>1
  <2>2. CASE i # id
    BY <1>3, <1>5, <2>2 DEF IInv, Told
  <2> QED BY <2>1, <2>2
<1>13. Theirs'
  BY <1>1, <1>2, <1>3, <1>5 DEF IInv, Theirs, Sent
<1>14. Bucket'
  <2>1. Spent' = Spent
    BY <1>1, <1>5 DEF Spent
  <2>2. \A i \in Attempts : req'[i].answer.result = "limited" => req[i].answer.result = "limited"
    BY <1>4, <1>5
  <2> QED BY <1>1, <2>1, <2>2 DEF IInv, Bucket, client
<1> QED BY <1>5, <1>6, <1>7, <1>8, <1>9, <1>10, <1>11, <1>12, <1>13, <1>14 DEF IInv

(***************************************************************************)
(* A restart: a full bucket, and what was in hand is gone.                 *)
(***************************************************************************)
LEMMA RestartStep == ASSUME IInv, Restart PROVE IInv'
<1>1. UNCHANGED <<now, register, issued, jar, client, listing>> /\ tokens' = Burst
  BY DEF Restart
<1>2. \A i \in Attempts :
        /\ req'[i] \in Calls
        /\ req'[i].st = IF req[i].st = "admitted" THEN "dropped" ELSE req[i].st
        /\ req'[i].cookie = req[i].cookie /\ req'[i].owner = req[i].owner
        /\ req'[i].start = req[i].start /\ req'[i].tier = req[i].tier
        /\ req'[i].answer = req[i].answer
  <2> SUFFICES ASSUME NEW i \in Attempts
               PROVE  /\ req'[i] \in Calls
                      /\ req'[i].st = IF req[i].st = "admitted" THEN "dropped" ELSE req[i].st
                      /\ req'[i].cookie = req[i].cookie /\ req'[i].owner = req[i].owner
                      /\ req'[i].start = req[i].start /\ req'[i].tier = req[i].tier
                      /\ req'[i].answer = req[i].answer
    OBVIOUS
  <2>1. req[i] \in Calls
    BY DEF IInv, CallsOK
  <2>2. req'[i] = IF req[i].st = "admitted" THEN [req[i] EXCEPT !.st = "dropped"] ELSE req[i]
    BY DEF Restart
  <2> QED BY <2>1, <2>2 DEF Calls
<1>3. CallsOK'
  BY <1>2 DEF CallsOK, Restart
<1>4. /\ \A i \in Attempts : Sent(i)' <=> Sent(i)
      /\ \A s \in 1..MaxSeals, n \in 0..Retries : <<s, n>> \in Attempts
  BY <1>2 DEF Sent, Attempts
<1>5. TypeOK'
  BY <1>1, <1>3, HandlingTypes, ProtocolAssumption DEF IInv, TypeOK
<1>6. IsFiniteSet(register)' /\ StartsUnique(register)' /\ shown' \subseteq register'
  BY <1>1 DEF IInv, client
<1>7. Ordered'
  BY <1>1, <1>4 DEF IInv, Ordered, client
<1>8. SentOK' /\ Tiered' /\ PourOK'
  BY <1>1, <1>2, <1>4 DEF IInv, SentOK, Tiered, PourOK, client
<1>9. RequestOK'
  BY <1>1, <1>2, <1>4 DEF IInv, RequestOK, client, sealing, Current
<1>10. Rows' /\ Told'
  BY <1>1, <1>2, <1>4 DEF IInv, Rows, Told
<1>11. Theirs'
  BY <1>1, <1>2, <1>4 DEF IInv, Theirs
<1>12. Bucket'
  <2>1. Spent' = Spent
    BY <1>2 DEF Spent
  <2>2. Cardinality(Spent) \in Nat /\ Burst \in Nat
    BY SpentFinite, ProtocolAssumption
  <2>3. tokens' + Cardinality(Spent') >= Burst
    BY <1>1, <2>1, <2>2
  <2> QED BY <1>1, <1>2, <2>3 DEF IInv, Bucket, client
<1> QED BY <1>3, <1>5, <1>6, <1>7, <1>8, <1>9, <1>10, <1>11, <1>12 DEF IInv

(***************************************************************************)
(* Every step keeps IInv.                                                  *)
(***************************************************************************)
LEMMA NextInv == IInv /\ [Next]_vars => IInv'
<1> SUFFICES ASSUME IInv, [Next]_vars PROVE IInv'
  OBVIOUS
<1>1. CASE Tick
  BY <1>1, TickStep
<1>2. CASE Discard \/ \E tier \in Tiers : Settle(tier)
  BY <1>2, VesselStep
<1>9. CASE ConfigArrives
  BY <1>9, ConfigStep
<1>3. CASE Seal \/ Resend
  BY <1>3, SendingStep
<1>4. CASE Receive \/ BodyLost \/ GiveUp
  BY <1>4, EndingStep
<1>5. CASE Restart
  BY <1>5, RestartStep
<1>6. ASSUME NEW id \in Attempts, Handle(id) PROVE IInv'
  BY <1>6, RateLimitStep, AdmitStep, AppendStep DEF Handle
<1>7. ASSUME NEW n \in 0..MaxSeals, AnswerList(n) \/ ReceiveList(n) \/ LoseList(n) PROVE IInv'
  BY <1>7, ListingStep
<1>8. CASE UNCHANGED vars
  <2>1. UNCHANGED <<now, register, issued, tokens, jar, config, pour, request, seal, attempt,
                    shown, kept, req, listing>>
    BY <1>8 DEF vars, server, client
  <2>2. /\ now' \in 0..MaxNow /\ issued' \in Nat /\ tokens' \in 0..Burst /\ tokens' >= tokens
        /\ config' \in {"pending", "known"}
        /\ jar' \in Jars /\ pour' \in Pour \cup {NoPour} /\ listing' \in [0..MaxSeals -> Refresh]
        /\ PourOK'
        /\ StartJar # NoOwner =>
             /\ jar' = jar
             /\ \A n \in 0..MaxSeals : listing'[n].st # "none" => listing'[n].cookie = StartJar
    BY <2>1, ProtocolAssumption DEF IInv, TypeOK, Theirs, Jars, Refresh, PourOK, Sent
  <2> QED BY <2>1, <2>2, QuietStep
<1> QED BY <1>1, <1>2, <1>3, <1>4, <1>5, <1>6, <1>7, <1>8, <1>9 DEF Next

(***************************************************************************)
(* IInv is an invariant, whatever is lost, late, retried or restarted.     *)
(***************************************************************************)
THEOREM Invariance == Spec => []IInv
BY InitInv, NextInv, PTL DEF Spec

(***************************************************************************)
(* TypeOK, for any number of presses, retries and owners.                  *)
(***************************************************************************)
THEOREM TypeCorrect == Spec => []TypeOK
<1>1. IInv => TypeOK
  BY DEF IInv
<1> QED BY <1>1, Invariance, PTL

(***************************************************************************)
(* A returning visitor's pour takes one ledger position however often it   *)
(* is sent, and whichever of its answers are lost.                         *)
(***************************************************************************)
THEOREM ReturningMintsOnce ==
  ASSUME StartJar # NoOwner PROVE Spec => []MintedOnce
<1>1. IInv => MintedOnce
  BY DEF IInv, Theirs, StartsUnique, MintedOnce
<1> QED BY <1>1, Invariance, PTL

(***************************************************************************)
(* The record a returning visitor is shown is on the register and theirs.  *)
(***************************************************************************)
THEOREM ReturningOwnsWhatIsShown ==
  ASSUME StartJar # NoOwner PROVE Spec => []ShownIsTheirs
<1>1. IInv => ShownIsTheirs
  BY DEF IInv, Theirs, ShownIsTheirs
<1> QED BY <1>1, Invariance, PTL

(***************************************************************************)
(* No retry is ever refused as a different pour, though the configuration  *)
(* may lower the tier of a pour between two presses: for first visits too. *)
(***************************************************************************)
THEOREM RetriesNeverConflict == Spec => []NeverConflicts
<1>1. IInv => NeverConflicts
  BY DEF IInv, Told, NeverConflicts, Conflict
<1> QED BY <1>1, Invariance, PTL

(***************************************************************************)
(* A burst larger than the retries covers every attempt of a first press,  *)
(* whatever order they arrive in.                                          *)
(***************************************************************************)
THEOREM BurstIsEnough ==
  ASSUME Burst > Retries PROVE Spec => []BurstCoversRetries
<1>1. IInv => BurstCoversRetries
  <2> SUFFICES ASSUME IInv, seal = 1, NEW n \in 0..Retries
               PROVE  req[<<1, n>>].answer.result # "limited"
    BY DEF BurstCoversRetries
  <2>1. <<1, n>> \in Attempts
    BY ProtocolAssumption DEF IInv, TypeOK, Attempts
  <2> QED BY <2>1 DEF IInv, Bucket
<1> QED BY <1>1, Invariance, PTL

(***************************************************************************)
(* Whatever press or attempt minted it, the record shown is of the pour    *)
(* that was being sealed.                                                  *)
(***************************************************************************)
THEOREM TheSealedIsShown == Spec => ShownIsTheSealed
<1>1. IInv /\ [Next]_vars =>
        (shown' # shown => \A row \in shown' : /\ row \in register
                                               /\ row.start = request.start
                                               /\ row.tier = request.tier)
  <2> SUFFICES ASSUME IInv, [Next]_vars, shown' # shown
               PROVE  \A row \in shown' : /\ row \in register
                                          /\ row.start = request.start
                                          /\ row.tier = request.tier
    OBVIOUS
  <2> DEFINE q == req[Current]
  <2>1. Receive
    BY DEF Next, vars, client, Tick, Discard, ConfigArrives, Settle, Seal, Resend, BodyLost, GiveUp, Fails,
       Restart, Handle, RateLimit, Admit, AppendMints, AppendReplays, AppendRejects,
       AppendFails, AnswerList, ReceiveList, LoseList
  <2>2. Code(q.answer) = "ok" /\ shown' = {q.answer.row} /\ sealing
    BY <2>1 DEF Receive, Fails, Succeeds, InFlight
  <2>3. /\ Current \in Attempts /\ q.answer \in Answers
        /\ q.start = request.start /\ q.tier = request.tier
    BY <2>2 DEF IInv, RequestOK, CallsOK, Calls
  <2>4. q.answer.result \in {"minted", "replayed"}
    BY <2>2, <2>3, OkIsARow
  <2> QED BY <2>2, <2>3, <2>4 DEF IInv, Told
<1> QED BY <1>1, Invariance, PTL DEF Spec, ShownIsTheSealed

-----------------------------------------------------------------------------
(***************************************************************************)
(* The handler as the ledger sees it: each call's phase, what it asks and  *)
(* what it is told.                                                        *)
(***************************************************************************)
SeenPhase  == [id \in Attempts |-> Phase(req[id])]
AnAsk      == CHOOSE a \in Allowed : TRUE
SeenAsk    == [id \in Attempts |-> IF Phase(req[id]) = "idle" THEN AnAsk ELSE AskOf(req[id])]
SeenAnswer == [id \in Attempts |-> IF Phase(req[id]) = "idle"
                                   THEN Unanswered ELSE req[id].answer]

Simulated == Store!Next \/ UNCHANGED Store!vars

\* What the ledger sees is these four.
LEMMA StoreVars ==
  ASSUME register' = register, SeenPhase' = SeenPhase, SeenAsk' = SeenAsk,
         SeenAnswer' = SeenAnswer
  PROVE  Simulated
BY DEF Simulated, Store!vars, SeenPhase, SeenAsk, SeenAnswer, AnAsk

\* The refinement mapping, state by state.
LEMMA PhaseIs ==
  ASSUME NEW q
  PROVE  /\ q.st = "admitted" => Phase(q) = "asked"
         /\ q.st = "dropped" => Phase(q) = "lost"
         /\ q.st \in {"unsent", "sent"} => Phase(q) = "idle"
         /\ q.st = "answered" =>
              Phase(q) = IF q.answer.result \in {"limited", "unavailable"}
                         THEN "idle" ELSE "decided"
BY DEF Phase

(***************************************************************************)
(* A step the ledger does not see.                                         *)
(***************************************************************************)
LEMMA UnseenStep ==
  ASSUME register' = register,
         \A id \in Attempts :
           /\ Phase(req'[id]) = Phase(req[id])
           /\ Phase(req[id]) # "idle" => /\ AskOf(req'[id]) = AskOf(req[id])
                                         /\ req'[id].answer = req[id].answer
  PROVE  Simulated
<1>1. SeenPhase' = SeenPhase
  BY DEF SeenPhase
<1>2. SeenAsk' = SeenAsk
  BY DEF SeenAsk
<1>3. SeenAnswer' = SeenAnswer
  BY DEF SeenAnswer
<1> QED BY <1>1, <1>2, <1>3, StoreVars

\* The client's side of an attempt ending.
LEMMA UnseenCalls ==
  ASSUME IInv, SameCalls, register' = register PROVE Simulated
<1>1. \A id \in Attempts : req[id] \in Calls /\ req'[id] \in Calls
  BY DEF IInv, CallsOK, SameCalls
<1>2. \A id \in Attempts : Phase(req'[id]) = Phase(req[id])
  <2> SUFFICES ASSUME NEW id \in Attempts PROVE Phase(req'[id]) = Phase(req[id])
    OBVIOUS
  <2>1. req'[id].st = req[id].st /\ req'[id].answer = req[id].answer
    BY DEF SameCalls
  <2> QED BY <2>1 DEF Phase
<1>3. \A id \in Attempts : /\ AskOf(req'[id]) = AskOf(req[id])
                           /\ req'[id].answer = req[id].answer
  BY DEF SameCalls, AskOf
<1> QED BY <1>2, <1>3, UnseenStep

(***************************************************************************)
(* A step that decides one request.                                        *)
(***************************************************************************)
LEMMA DecidingStep ==
  ASSUME IInv, NEW id \in Attempts, req[id].st = "admitted", NEW told \in Answers,
         told.result \notin {"limited", "unavailable"}, Answered(id, told)
  PROVE  Store!Decide(id, told) /\ SeenAsk[id] = AskOf(req[id])
<1>1. /\ req'[id].st = "answered" /\ req'[id].answer = told
      /\ req'[id].owner = req[id].owner /\ req'[id].start = req[id].start
      /\ req'[id].tier = req[id].tier /\ req'[id].at = req[id].at
      /\ \A j \in Attempts \ {id} : req'[j] = req[j]
  BY AnsweredStep DEF IInv
<1>2. Phase(req[id]) = "asked" /\ Phase(req'[id]) = "decided"
  BY <1>1, PhaseIs
<1>3. AskOf(req'[id]) = AskOf(req[id])
  BY <1>1 DEF AskOf
<1>4. SeenPhase[id] = "asked" /\ SeenPhase' = [SeenPhase EXCEPT ![id] = "decided"]
  BY <1>1, <1>2 DEF SeenPhase
<1>5. SeenAnswer' = [SeenAnswer EXCEPT ![id] = told]
  BY <1>1, <1>2 DEF SeenAnswer
<1>6. SeenAsk' = SeenAsk /\ SeenAsk[id] = AskOf(req[id])
  BY <1>1, <1>2, <1>3 DEF SeenAsk
<1> QED BY <1>4, <1>5, <1>6 DEF Store!Decide, SeenPhase, SeenAsk, SeenAnswer, AnAsk

\* What is asked is an append.
LEMMA AskTypes ==
  ASSUME NEW o \in Owners, NEW d \in Starts, NEW n \in Tiers, NEW b \in BOOLEAN
  PROVE  [op |-> "append", owner |-> o, start |-> d, tier |-> n, claim |-> Telemetry,
          legal |-> b] \in Appends
BY ProtocolAssumption DEF Appends

(***************************************************************************)
(* The handler starts as a ledger nobody has asked, and each of its steps  *)
(* is one of the ledger's or none.                                         *)
(***************************************************************************)
LEMMA InitRefines == Init => Store!Init
<1> SUFFICES ASSUME Init PROVE Store!Init
  OBVIOUS
<1>1. \A id \in Attempts : Phase(req[id]) = "idle"
  BY BlankType, PhaseIs DEF Init
<1>2. Requests = Attempts /\ register \in Legacies
  BY ProtocolAssumption DEF Init
<1> QED BY <1>1, <1>2 DEF Store!Init, Store!Unanswered, Unanswered

\* Admission asks the ledger, or turns the request away unseen.
LEMMA AdmitRefines ==
  ASSUME Appends \subseteq Allowed, IInv, IInv', NEW id \in Attempts, Admit(id)
  PROVE  Simulated
<1> DEFINE q == req[id]
           r == req'[id]
<1>1. /\ q.st = "sent" /\ q \in Calls /\ register' = register
      /\ \A j \in Attempts \ {id} : req'[j] = req[j]
  BY DEF Admit, IInv, CallsOK
<1>2. /\ r \in Calls
      /\ \/ r.st = "answered" /\ r.answer.result = "unavailable"
         \/ r.st = "admitted"
  <2> DEFINE owner == OwnerOf(q.cookie)
             u == TurnedAway(q, owner, [result |-> "unavailable"])
             v == AdmittedAs(q, owner, now)
  <2>1. owner \in Owners /\ now \in Nat
    BY ProtocolAssumption DEF Admit, IInv, TypeOK
  <2>2. r = (IF q.tier > Ceiling THEN u ELSE v)
    BY DEF Admit, IInv, CallsOK, TurnedAway, AdmittedAs
  <2>3. /\ u \in Calls /\ u.st = "answered" /\ u.answer = [result |-> "unavailable"]
        /\ v \in Calls /\ v.st = "admitted"
    <3>1. [result |-> "unavailable"] \in Answers /\ q \in Calls
      BY <1>1, AnswerTypes
    <3> HIDE DEF q, owner
    <3>2. u \in Calls /\ u.st = "answered" /\ u.answer = [result |-> "unavailable"]
      BY <2>1, <3>1, TurnedAwayType
    <3>3. v \in Calls /\ v.st = "admitted"
      BY <2>1, <3>1, AdmittedType
    <3> QED BY <3>2, <3>3
  <2> HIDE DEF u, v
  <2> QED BY <2>2, <2>3
<1>3. Phase(q) = "idle"
  BY <1>1, PhaseIs
<1>4. CASE r.st = "answered" /\ r.answer.result = "unavailable"
  <2>1. Phase(r) = "idle"
    BY <1>4, PhaseIs
  <2> QED BY <1>1, <1>3, <2>1, UnseenStep
<1>5. CASE r.st = "admitted"
  <2>1. Phase(r) = "asked" /\ r.answer = Unanswered
    BY <1>5, PhaseIs DEF IInv, Told
  <2>2. AskOf(r) \in Allowed
    <3> DEFINE legal == r.at - Window <= r.start /\ r.start <= r.at + Window
    <3>1. /\ r.owner \in Owners /\ r.start \in Starts /\ r.tier \in Tiers
      BY <1>2, <1>5 DEF IInv, SentOK, Sent, Calls
    <3>2. legal \in BOOLEAN
      OBVIOUS
    <3>3. AskOf(r) = [op |-> "append", owner |-> r.owner, start |-> r.start, tier |-> r.tier,
                      claim |-> Telemetry, legal |-> legal]
      BY DEF AskOf
    <3> HIDE DEF legal
    <3> QED BY <3>1, <3>2, <3>3, AskTypes
  <2>3. SeenPhase[id] = "idle" /\ SeenPhase' = [SeenPhase EXCEPT ![id] = "asked"]
    BY <1>1, <1>3, <2>1 DEF SeenPhase
  <2>4. SeenAsk' = [SeenAsk EXCEPT ![id] = AskOf(r)]
    BY <1>1, <1>3, <2>1 DEF SeenAsk
  <2>5. SeenAnswer' = SeenAnswer
    BY <1>1, <1>3, <2>1 DEF SeenAnswer
  <2>6. Store!Ask(id, AskOf(r))
    BY <1>1, <2>3, <2>4, <2>5 DEF Store!Ask, SeenPhase, SeenAsk, SeenAnswer, AnAsk
  <2> QED BY <2>2, <2>6, ProtocolAssumption DEF Simulated, Store!Next
<1> QED BY <1>2, <1>4, <1>5

\* Each answer of the store is the ledger's, at one instant.
LEMMA AppendRefines ==
  ASSUME IInv, NEW id \in Attempts,
         AppendMints(id) \/ AppendReplays(id) \/ AppendRejects(id) \/ AppendFails(id)
  PROVE  Simulated
<1> DEFINE a == AskOf(req[id])
<1>1. req[id].st = "admitted" /\ a.op = "append" /\ id \in Requests
  BY ProtocolAssumption DEF AppendMints, AppendReplays, AppendRejects, AppendFails, AskOf
<1>2. \A rows, b : Store!Prior(rows, b) = Prior(rows, b)
  BY DEF Store!Prior, Prior
<1>3. CASE AppendMints(id)
  <2> DEFINE row == Mint(a, Cardinality(register) + 1)
  <2>1. /\ Answered(id, Minted(row)) /\ register' = register \cup {row}
        /\ Prior(register, a) = {} /\ a.legal
    BY <1>3 DEF AppendMints
  <2>2. row \in Row
    BY <1>1, NewRow
  <2>3. Store!Mint(a, Store!Cardinality(register) + 1) = row
    BY DEF Store!Mint, Mint, Store!Cardinality, Cardinality
  <2> HIDE DEF row
  <2>4. Minted(row) \in Answers /\ Minted(row).result = "minted" /\ Store!Minted(row) = Minted(row)
    BY <2>2, AnswerTypes DEF Minted, Store!Minted
  <2>5. PICK told \in Answers : told = Minted(row) /\ Answered(id, told)
    BY <2>1, <2>4 DEF Answered
  <2>6. Store!Decide(id, told) /\ SeenAsk[id] = a
    BY <1>1, <2>4, <2>5, DecidingStep
  <2>7. Store!Decide(id, Store!Minted(row))
    BY <2>4, <2>5, <2>6 DEF Store!Decide
  <2>8. Store!MintNew(id)
    BY <1>1, <1>2, <2>1, <2>3, <2>6, <2>7 DEF Store!MintNew, Store!Decide, SeenAsk, AnAsk
  <2> QED BY <1>1, <2>8 DEF Simulated, Store!Next
<1>4. CASE AppendReplays(id)
  <2>1. PICK old \in Prior(register, a) :
          Answered(id, IF old.tier = a.tier THEN Replayed(old) ELSE Conflict)
    BY <1>4 DEF AppendReplays
  <2>2. /\ (IF old.tier = a.tier THEN Replayed(old) ELSE Conflict) \in Answers
        /\ (IF old.tier = a.tier THEN Replayed(old) ELSE Conflict).result
             \notin {"limited", "unavailable"}
        /\ register' = register
    BY <1>4, <2>1, AnswerTypes DEF Prior, IInv, TypeOK, Replayed, Conflict, AppendReplays, server
  <2>3. PICK told \in Answers :
          /\ told = IF old.tier = a.tier THEN Replayed(old) ELSE Conflict
          /\ Answered(id, told)
    BY <2>1, <2>2 DEF Answered
  <2>4. told = IF old.tier = a.tier THEN Store!Replayed(old) ELSE Store!Conflict
    BY <2>3 DEF Replayed, Conflict, Store!Replayed, Store!Conflict
  <2>5. Store!Decide(id, told) /\ SeenAsk[id] = a
    BY <1>1, <2>2, <2>3, DecidingStep
  <2>6. \E row \in Store!Prior(register, SeenAsk[id]) :
          Store!Decide(id, IF row.tier = SeenAsk[id].tier THEN Store!Replayed(row)
                           ELSE Store!Conflict)
    <3>1. old \in Store!Prior(register, SeenAsk[id])
      BY <1>2, <2>1, <2>5
    <3>2. Store!Decide(id, IF old.tier = SeenAsk[id].tier THEN Store!Replayed(old)
                           ELSE Store!Conflict)
      BY <2>4, <2>5 DEF Store!Decide
    <3> QED BY <3>1, <3>2 DEF Store!Decide
  <2>7. Store!Replay(id)
    BY <1>1, <2>2, <2>5, <2>6 DEF Store!Replay, SeenAsk, AnAsk
  <2> QED BY <1>1, <2>7 DEF Simulated, Store!Next
<1>5. CASE AppendRejects(id)
  <2>1. /\ Answered(id, Rejected) /\ register' = register
        /\ Prior(register, a) = {} /\ ~a.legal
    BY <1>5 DEF AppendRejects, server
  <2>2. Rejected \in Answers /\ Rejected.result = "rejected" /\ Store!Rejected = Rejected
    BY AnswerTypes DEF Rejected, Store!Rejected
  <2>3. Store!Decide(id, Rejected) /\ SeenAsk[id] = a
    BY <1>1, <2>1, <2>2, DecidingStep
  <2>4. Store!Reject(id)
    BY <1>1, <1>2, <2>1, <2>2, <2>3 DEF Store!Reject, SeenAsk, AnAsk
  <2> QED BY <1>1, <2>4 DEF Simulated, Store!Next
<1>6. CASE AppendFails(id)
  <2>1. Answered(id, Failed("disk")) /\ register' = register
    BY <1>6 DEF AppendFails, server
  <2>2. Failed("disk") \in Answers /\ Failed("disk").result = "disk"
        /\ Store!Failed("disk") = Failed("disk") /\ "disk" \in Store!Causes
    BY AnswerTypes DEF Failed, Store!Failed, Store!Causes
  <2>3. Store!Decide(id, Failed("disk"))
    BY <1>1, <2>1, <2>2, DecidingStep
  <2>4. Store!Fail(id)
    BY <2>1, <2>2, <2>3 DEF Store!Fail
  <2> QED BY <1>1, <2>4 DEF Simulated, Store!Next
<1> QED BY <1>3, <1>4, <1>5, <1>6

\* A restart loses what was asked and not decided.
LEMMA RestartRefines ==
  ASSUME IInv, Restart PROVE Simulated
<1> DEFINE lost == {id \in Attempts : req[id].st = "admitted"}
<1>1. /\ register' = register
      /\ \A id \in Attempts \ lost : req'[id] = req[id]
  BY DEF Restart
<1>2. \A id \in lost : req'[id] = [req[id] EXCEPT !.st = "dropped"] /\ req[id] \in Calls
  BY DEF Restart, IInv, CallsOK
<1>3. \A id \in lost : /\ Phase(req[id]) = "asked" /\ Phase(req'[id]) = "lost"
                       /\ AskOf(req'[id]) = AskOf(req[id]) /\ req'[id].answer = req[id].answer
  <2> SUFFICES ASSUME NEW id \in lost
               PROVE  /\ Phase(req[id]) = "asked" /\ Phase(req'[id]) = "lost"
                      /\ AskOf(req'[id]) = AskOf(req[id]) /\ req'[id].answer = req[id].answer
    OBVIOUS
  <2>1. /\ req'[id].st = "dropped" /\ req[id].st = "admitted"
        /\ req'[id].owner = req[id].owner /\ req'[id].start = req[id].start
        /\ req'[id].tier = req[id].tier /\ req'[id].at = req[id].at
        /\ req'[id].answer = req[id].answer
    BY <1>2 DEF Calls
  <2> QED BY <2>1, PhaseIs DEF AskOf
<1>4. \A id \in lost : SeenPhase[id] \in {"asked", "decided"}
  BY <1>3 DEF SeenPhase
<1>5. SeenPhase' = [id \in Attempts |-> IF id \in lost THEN "lost" ELSE SeenPhase[id]]
  BY <1>1, <1>3 DEF SeenPhase
<1>6. SeenAsk' = SeenAsk /\ SeenAnswer' = SeenAnswer
  BY <1>1, <1>3 DEF SeenAsk, SeenAnswer
<1>7. lost \in SUBSET Requests /\ Requests = Attempts
  BY ProtocolAssumption
<1> HIDE DEF lost
<1>8. Store!Lose(lost)
  BY <1>1, <1>4, <1>5, <1>6, <1>7 DEF Store!Lose, SeenPhase, SeenAsk, SeenAnswer, AnAsk
<1> QED BY <1>7, <1>8 DEF Simulated, Store!Next

\* Every step is one of the ledger's, or unseen.
LEMMA NextRefines ==
  ASSUME Appends \subseteq Allowed, IInv, IInv', [Next]_vars
  PROVE  Simulated
<1>1. ASSUME UNCHANGED <<register, req>> PROVE Simulated
  BY <1>1, UnseenStep
<1>2. CASE \/ Tick \/ Discard \/ ConfigArrives \/ UNCHANGED vars
           \/ \E tier \in Tiers : Settle(tier)
           \/ \E n \in 0..MaxSeals : AnswerList(n) \/ ReceiveList(n) \/ LoseList(n)
  BY <1>1, <1>2 DEF Tick, Discard, ConfigArrives, Settle, AnswerList, ReceiveList, LoseList, vars, server
<1>3. CASE Seal \/ Resend
  <2> DEFINE id == Current'
  <2>1. /\ id \in Attempts /\ ~Sent(id) /\ req'[id].st = "sent"
        /\ \A j \in Attempts \ {id} : req'[j] = req[j]
        /\ register' = register
    <3> DEFINE body == request'
    <3>1. id \in Attempts /\ ~Sent(id) /\ Send(id, body) /\ body \in Pour
          /\ Agree(body)
      BY <1>3, SendingSends
    <3> HIDE DEF id, body
    <3>2. req'[id].st = "sent" /\ \A j \in Attempts \ {id} : req'[j] = req[j]
      BY <3>1, SentStep
    <3>3. register' = register
      BY <1>3 DEF Seal, Resend, server
    <3> QED BY <3>1, <3>2, <3>3
  <2> HIDE DEF id
  <2>2. Phase(req[id]) = "idle" /\ Phase(req'[id]) = "idle"
    BY <2>1, PhaseIs DEF Sent
  <2> QED BY <2>1, <2>2, UnseenStep
<1>4. CASE Receive \/ BodyLost \/ GiveUp
  <2>1. Current \in Attempts /\ req' = [req EXCEPT ![Current].open = FALSE]
    BY <1>4 DEF Receive, BodyLost, GiveUp, InFlight, IInv, RequestOK
  <2>2. SameCalls
    BY <2>1, ClosedStep DEF IInv
  <2>3. register' = register
    BY <1>4 DEF Receive, BodyLost, GiveUp, server
  <2> QED BY <2>2, <2>3, UnseenCalls
<1>5. CASE Restart
  BY <1>5, RestartRefines
<1>6. ASSUME NEW id \in Attempts, RateLimit(id) PROVE Simulated
  <2>1. PICK told \in Answers : Answered(id, told) /\ told.result = "limited"
    BY <1>6, AnswerTypes DEF RateLimit
  <2>2. /\ req'[id].st = "answered" /\ req'[id].answer = told
        /\ \A j \in Attempts \ {id} : req'[j] = req[j]
        /\ req[id].st = "sent" /\ register' = register
    BY <1>6, <2>1, AnsweredStep DEF IInv, RateLimit, server
  <2>3. Phase(req[id]) = "idle" /\ Phase(req'[id]) = "idle"
    BY <2>1, <2>2, PhaseIs
  <2> QED BY <2>2, <2>3, UnseenStep
<1>7. ASSUME NEW id \in Attempts, Handle(id) PROVE Simulated
  BY <1>6, <1>7, AdmitRefines, AppendRefines DEF Handle
<1> QED BY <1>2, <1>3, <1>4, <1>5, <1>7 DEF Next

(***************************************************************************)
(* handleMint uses the ledger as its interface allows: over any number of  *)
(* presses, retries and restarts, one call per admitted request, and none  *)
(* for a request that was limited or of a tier not offered.                *)
(***************************************************************************)
THEOREM HandlerUsesLedger ==
  ASSUME Appends \subseteq Allowed PROVE Spec => UsesLedger
<1>1. IInv /\ IInv' /\ [Next]_vars => [Store!Next]_(Store!vars)
  BY NextRefines DEF Simulated
<1> QED BY <1>1, InitRefines, Invariance, PTL DEF Spec, UsesLedger, Store!Spec
=============================================================================
