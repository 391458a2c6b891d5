---------------------------- MODULE MintProtocol ----------------------------
(***************************************************************************)
(* One visitor seals pours over an unreliable network: the shell's mint    *)
(* (app/App.tsx), apiFetch with its timeout and bounded retry              *)
(* (app/pour/api.ts), the owner cookie (api/session) and handleMint        *)
(* (api/httpapi/server.go), over a ledger that appends atomically, as      *)
(* Ledger promises.                                                        *)
(*                                                                         *)
(* A request the client has given up on may still arrive, be handled and   *)
(* commit; its response is then thrown away, Set-Cookie and all.           *)
(***************************************************************************)
EXTENDS Pours

CONSTANTS
  Retries,     \* DEFAULT_RETRIES
  MaxSeals,    \* bound: presses of "Complete disbursement"
  MaxNow,      \* bound: the clock
  Window,      \* maxClockSkew, in ticks
  Burst,       \* MintBurst; one tick is MintEvery
  Ceiling,     \* cfg.MaxTierIndex
  NoOwner,     \* no cookie
  StartJar,    \* the visitor's cookie when the page loads
  NoPour,
  Telemetry    \* what the rig reports: it no longer matters here

Attempts == (1..MaxSeals) \X (0..Retries)

ASSUME ProtocolAssumption ==
  /\ Retries \in Nat /\ MaxSeals \in Nat /\ MaxNow \in Nat /\ Window \in Nat
  /\ Burst \in Nat
  /\ Starts = 0..MaxNow /\ Tiers \subseteq Nat /\ Ceiling \in Tiers /\ Telemetry \in Claims
  /\ Owners \subseteq Nat /\ NoOwner \notin Owners
  /\ StartJar \in Owners \cup {NoOwner}
  /\ Requests = Attempts /\ Legacies = {{}}

VARIABLES
  now,
  register,
  issued,     \* owner ids the server has handed out
  tokens,     \* the visitor's bucket in the limiter
  jar,        \* the browser's owner cookie
  config,     \* whether the deployment's ceiling is known to the page
  pour,       \* the settled pour in the vessel, with the tier selected over it
  request,    \* what mint was called with; NoPour when nothing is sealing
  seal,       \* which press this is, or the last one was
  attempt,    \* apiFetch's loop counter
  shown,      \* {} or the record the certificate view shows
  kept,       \* starts whose pour the visitor was told is kept
  req,        \* req[id]: one HTTP request and its response
  listing     \* listing[n]: the refresh on load (0), and after seal n

server == <<register, issued, tokens>>
client == <<config, pour, request, seal, attempt, shown, kept>>
vars == <<now, server, jar, client, req, listing>>

Blank == [st |-> "unsent", open |-> FALSE, cookie |-> NoOwner, owner |-> NoOwner,
          start |-> 0, tier |-> 0, at |-> 0, answer |-> Unanswered]
NoList == [st |-> "none", cookie |-> NoOwner, owner |-> NoOwner]
List(cookie) == [st |-> "sent", cookie |-> cookie, owner |-> NoOwner]

Init ==
  /\ now = 0 /\ register = {} /\ tokens = Burst
  /\ issued = IF StartJar = NoOwner THEN 0 ELSE StartJar
  /\ jar = StartJar /\ config = "pending"
  /\ pour = NoPour /\ request = NoPour /\ seal = 0 /\ attempt = 0
  /\ shown = {} /\ kept = {}
  /\ req = [id \in Attempts |-> Blank]
  /\ listing = [n \in 0..MaxSeals |-> IF n = 0 THEN List(StartJar) ELSE NoList]

-----------------------------------------------------------------------------
(***************************************************************************)
(* Time: the limiter regains a token per tick, up to the burst.            *)
(***************************************************************************)
\* Mutant: the refill is not capped at the burst.
TickUncapped ==
  /\ now < MaxNow
  /\ now' = now + 1 /\ tokens' = tokens + 1
  /\ UNCHANGED <<register, issued, jar, client, req, listing>>
Tick ==
  /\ now < MaxNow
  /\ now' = now + 1
  /\ tokens' = IF tokens < Burst THEN tokens + 1 ELSE tokens
  /\ UNCHANGED <<register, issued, jar, client, req, listing>>

(***************************************************************************)
(* A pour starts and settles, of a tier on offer; it keeps its start until *)
(* it is sealed or discarded, and no two pours begin in one millisecond.   *)
(* The vessel in detail is another matter; discarding is possible while    *)
(* the seal is out, and does not recall it.                                *)
(***************************************************************************)
Offered == IF config = "known" THEN {t \in Tiers : t <= Ceiling} ELSE Tiers

FreshStart == \A id \in Attempts : req[id].st # "unsent" => req[id].start < now
Settle(tier) ==
  /\ pour = NoPour /\ FreshStart /\ tier \in Offered
  /\ pour' = [start |-> now, tier |-> tier]
  /\ UNCHANGED <<now, server, jar, config, request, seal, attempt, shown, kept, req, listing>>

Discard ==
  /\ pour # NoPour
  /\ pour' = NoPour
  /\ UNCHANGED <<now, server, jar, config, request, seal, attempt, shown, kept, req, listing>>

(***************************************************************************)
(* The configuration arrives, once or never, and the selection is lowered  *)
(* to it: also over a settled pour, which a press already made may have    *)
(* sent at the tier it had.                                                *)
(***************************************************************************)
Lowered(tier) == IF tier > Ceiling THEN Ceiling ELSE tier

ConfigArrives ==
  /\ config = "pending"
  /\ config' = "known"
  /\ pour' = IF pour = NoPour THEN NoPour ELSE [pour EXCEPT !.tier = Lowered(@)]
  /\ UNCHANGED <<now, server, jar, request, seal, attempt, shown, kept, req, listing>>

(***************************************************************************)
(* apiFetch.  Each attempt carries the cookie the jar holds when it leaves.*)
(***************************************************************************)
Send(id, body) ==
  req' = [req EXCEPT ![id] = [Blank EXCEPT !.st = "sent", !.open = TRUE,
                                !.cookie = jar, !.start = body.start, !.tier = body.tier]]

sealing == request # NoPour

Seal ==
  /\ pour # NoPour /\ ~sealing /\ seal < MaxSeals
  /\ request' = pour /\ seal' = seal + 1 /\ attempt' = 0
  /\ Send(<<seal + 1, 0>>, pour)
  /\ UNCHANGED <<now, server, jar, config, pour, shown, kept, listing>>

Current == <<seal, attempt>>
InFlight == sealing /\ req[Current].open

Resend ==
  /\ sealing /\ ~InFlight /\ attempt < Retries
  /\ attempt' = attempt + 1
  /\ Send(<<seal, attempt + 1>>, request)
  /\ UNCHANGED <<now, server, jar, config, pour, request, seal, shown, kept, listing>>

(***************************************************************************)
(* What apiFetch makes of an answer (failureFor, ApiError.retryable), and  *)
(* what the shell then does: show the record and empty the vessel, or keep *)
(* the pour and say so.                                                    *)
(***************************************************************************)
Code(answer) ==
  CASE answer.result \in {"minted", "replayed"} -> "ok"
    [] answer.result = "conflict" -> "conflict"
    [] answer.result \in {"limited", "unavailable", "rejected"} -> "client"
    [] OTHER -> "server"

Retryable(code) == code \in {"network", "server"}

\* Mutant: the seal is never taken down after the last attempt.
FailsUnended(code) ==
  /\ kept' = IF Retryable(code) /\ attempt = Retries THEN kept \cup {request.start} ELSE kept
  /\ request' = IF Retryable(code) THEN request ELSE NoPour
  /\ UNCHANGED <<pour, shown, listing>>
Fails(code) ==
  LET again == Retryable(code) /\ attempt < Retries
  IN /\ request' = IF again THEN request ELSE NoPour
     /\ kept' = IF Retryable(code) /\ ~again THEN kept \cup {request.start} ELSE kept
     /\ UNCHANGED <<pour, shown, listing>>

Succeeds(row) ==
  /\ request' = NoPour /\ pour' = NoPour /\ shown' = {row}
  /\ listing' = [listing EXCEPT ![seal] = List(jar')]
  /\ UNCHANGED kept

TakesCookie(q) ==
  jar' = IF q.cookie = NoOwner /\ q.owner # NoOwner THEN q.owner ELSE jar

Receive ==
  LET q == req[Current]
  IN /\ InFlight /\ q.st = "answered"
     /\ TakesCookie(q)
     /\ IF Code(q.answer) = "ok" THEN Succeeds(q.answer.row) ELSE Fails(Code(q.answer))
     /\ req' = [req EXCEPT ![Current].open = FALSE]
     /\ UNCHANGED <<now, server, config, seal, attempt>>

(***************************************************************************)
(* The head of a success arrives, cookie and all, and its body does not:   *)
(* mintPour throws a retryable error from outside the retry loop.          *)
(***************************************************************************)
BodyLost ==
  LET q == req[Current]
  IN /\ InFlight /\ q.st = "answered" /\ Code(q.answer) = "ok"
     /\ TakesCookie(q)
     /\ request' = NoPour /\ kept' = kept \cup {request.start}
     /\ req' = [req EXCEPT ![Current].open = FALSE]
     /\ UNCHANGED <<now, server, config, pour, seal, attempt, shown, listing>>

(***************************************************************************)
(* The attempt times out, or its connection breaks; the request may still  *)
(* be on its way, or its answer on the way back.                           *)
(***************************************************************************)
GiveUp ==
  /\ InFlight
  /\ Fails("network")
  /\ req' = [req EXCEPT ![Current].open = FALSE]
  /\ UNCHANGED <<now, server, jar, config, seal, attempt>>

-----------------------------------------------------------------------------
(***************************************************************************)
(* handleMint, up to Append: the limiter, the session, the tier ceiling.   *)
(***************************************************************************)
Answered(id, told) == req' = [req EXCEPT ![id].st = "answered", ![id].answer = told]

RateLimit(id) ==
  /\ req[id].st = "sent" /\ tokens = 0
  /\ Answered(id, [result |-> "limited"])
  /\ UNCHANGED <<now, server, jar, client, listing>>

\* Mutant: the cookie is not read.
OwnerOfFresh(cookie) == issued + 1
OwnerOf(cookie) == IF cookie = NoOwner THEN issued + 1 ELSE cookie

\* Mutant: the tier is not held against the deployment's ceiling.
AdmitAnyTier(id) ==
  LET q == req[id]
      owner == OwnerOf(q.cookie)
  IN /\ q.st = "sent" /\ tokens > 0 /\ owner \in Owners
     /\ tokens' = tokens - 1
     /\ issued' = IF q.cookie = NoOwner THEN issued + 1 ELSE issued
     /\ req' = [req EXCEPT ![id].st = "admitted", ![id].owner = owner, ![id].at = now]
     /\ UNCHANGED <<now, register, jar, client, listing>>
Admit(id) ==
  LET q == req[id]
      owner == OwnerOf(q.cookie)
  IN /\ q.st = "sent" /\ tokens > 0 /\ owner \in Owners
     /\ tokens' = tokens - 1
     /\ issued' = IF q.cookie = NoOwner THEN issued + 1 ELSE issued
     /\ req' = [req EXCEPT ![id] =
                  IF q.tier > Ceiling
                  THEN [q EXCEPT !.st = "answered", !.owner = owner,
                          !.answer = [result |-> "unavailable"]]
                  ELSE [q EXCEPT !.st = "admitted", !.owner = owner, !.at = now]]
     /\ UNCHANGED <<now, register, jar, client, listing>>

(***************************************************************************)
(* Append, with the clock as it was read before the store was called.      *)
(***************************************************************************)
AskOf(q) ==
  [op |-> "append", owner |-> q.owner, start |-> q.start, tier |-> q.tier,
   claim |-> Telemetry,
   legal |-> q.at - Window <= q.start /\ q.start <= q.at + Window]

\* Mutant: nothing looks for a row at this start.
AppendMintsBlind(id) ==
  LET a == AskOf(req[id])
      row == Mint(a, Cardinality(register) + 1)
  IN /\ req[id].st = "admitted" /\ a.legal
     /\ register' = register \cup {row}
     /\ Answered(id, Minted(row))
     /\ UNCHANGED <<now, issued, tokens, jar, client, listing>>
AppendMints(id) ==
  LET a == AskOf(req[id])
      row == Mint(a, Cardinality(register) + 1)
  IN /\ req[id].st = "admitted" /\ Prior(register, a) = {} /\ a.legal
     /\ register' = register \cup {row}
     /\ Answered(id, Minted(row))
     /\ UNCHANGED <<now, issued, tokens, jar, client, listing>>

\* Mutant: the lookup is by owner, without the start.
AppendReplaysAny(id) ==
  /\ req[id].st = "admitted"
  /\ \E row \in Owned(register, req[id].owner) : Answered(id, Replayed(row))
  /\ UNCHANGED <<now, server, jar, client, listing>>
AppendReplays(id) ==
  LET a == AskOf(req[id])
  IN /\ req[id].st = "admitted"
     /\ \E row \in Prior(register, a) :
          Answered(id, IF row.tier = a.tier THEN Replayed(row) ELSE Conflict)
     /\ UNCHANGED <<now, server, jar, client, listing>>

AppendRejects(id) ==
  LET a == AskOf(req[id])
  IN /\ req[id].st = "admitted" /\ Prior(register, a) = {} /\ ~a.legal
     /\ Answered(id, Rejected)
     /\ UNCHANGED <<now, server, jar, client, listing>>

AppendFails(id) ==
  /\ req[id].st = "admitted"
  /\ Answered(id, Failed("disk"))
  /\ UNCHANGED <<now, server, jar, client, listing>>

(***************************************************************************)
(* The server restarts: what it was handling is gone, and so are its       *)
(* buckets; the register is on disk.                                       *)
(***************************************************************************)
\* Mutant: an address not seen before starts with an empty bucket.
RestartEmpty ==
  /\ tokens' = 0
  /\ req' = [id \in Attempts |-> IF req[id].st = "admitted"
                                 THEN [req[id] EXCEPT !.st = "dropped"] ELSE req[id]]
  /\ UNCHANGED <<now, register, issued, jar, client, listing>>
Restart ==
  /\ tokens' = Burst
  /\ req' = [id \in Attempts |-> IF req[id].st = "admitted"
                                 THEN [req[id] EXCEPT !.st = "dropped"] ELSE req[id]]
  /\ UNCHANGED <<now, register, issued, jar, client, listing>>

-----------------------------------------------------------------------------
(***************************************************************************)
(* The collection's refresh: a request like any other as far as the cookie *)
(* goes.  One that fails is sent again, or was the last attempt.           *)
(***************************************************************************)
AnswerList(n) ==
  LET cookie == listing[n].cookie
  IN /\ listing[n].st = "sent" /\ OwnerOf(cookie) \in Owners
     /\ listing' = [listing EXCEPT ![n].st = "answered", ![n].owner = OwnerOf(cookie)]
     /\ issued' = IF cookie = NoOwner THEN issued + 1 ELSE issued
     /\ UNCHANGED <<now, register, tokens, jar, client, req>>

ReceiveList(n) ==
  /\ listing[n].st = "answered"
  /\ jar' = IF listing[n].cookie = NoOwner THEN listing[n].owner ELSE jar
  /\ \E next \in {NoList, List(jar')} : listing' = [listing EXCEPT ![n] = next]
  /\ UNCHANGED <<now, server, client, req>>

LoseList(n) ==
  /\ listing[n].st # "none"
  /\ \E next \in {NoList, List(jar)} : listing' = [listing EXCEPT ![n] = next]
  /\ UNCHANGED <<now, server, jar, client, req>>

Handle(id) ==
  \/ RateLimit(id) \/ Admit(id)
  \/ AppendMints(id) \/ AppendReplays(id) \/ AppendRejects(id) \/ AppendFails(id)

Next ==
  \/ Tick \/ Discard \/ ConfigArrives \/ Seal \/ Resend \/ Receive \/ BodyLost \/ GiveUp \/ Restart
  \/ \E tier \in Tiers : Settle(tier)
  \/ \E id \in Attempts : Handle(id)
  \/ \E n \in 0..MaxSeals : AnswerList(n) \/ ReceiveList(n) \/ LoseList(n)

Spec == Init /\ [][Next]_vars

(***************************************************************************)
(* AbortSignal.timeout and the backoff timer always fire.                  *)
(***************************************************************************)
FairSpec == Spec /\ WF_vars(GiveUp) /\ WF_vars(Resend)

-----------------------------------------------------------------------------
(***************************************************************************)
(* Type correctness.                                                       *)
(***************************************************************************)
Pour == [start : Starts, tier : Tiers]

TypeOK ==
  /\ now \in 0..MaxNow /\ register \in SUBSET Row
  /\ issued \in Nat /\ tokens \in 0..Burst
  /\ config \in {"pending", "known"}
  /\ jar \in Owners \cup {NoOwner} /\ {pour, request} \subseteq Pour \cup {NoPour}
  /\ seal \in 0..MaxSeals /\ attempt \in 0..Retries
  /\ shown \in SUBSET Row /\ kept \in SUBSET Starts
  /\ DOMAIN req = Attempts
  /\ \A id \in Attempts :
       /\ req[id].st \in {"unsent", "sent", "admitted", "answered", "dropped"}
       /\ req[id].cookie \in Owners \cup {NoOwner}
       /\ req[id].owner \in Owners \cup {NoOwner}
  /\ listing \in [0..MaxSeals -> [st : {"none", "sent", "answered"},
                                  cookie : Owners \cup {NoOwner},
                                  owner : Owners \cup {NoOwner}]]

(***************************************************************************)
(* "Retrying is safe for every call here, including the mint" (api.ts): a  *)
(* pour takes one ledger position however often it is sent.                *)
(***************************************************************************)
MintedOnce == \A r1, r2 \in register : r1.start = r2.start => r1 = r2

(***************************************************************************)
(* "A pour belongs to whoever poured it" (README.md): the record on screen *)
(* is one the visitor's cookie will list again.                            *)
(***************************************************************************)
ShownIsTheirs == \A row \in shown : row \in register /\ row.owner = jar

(***************************************************************************)
(* The certificate shown is on the register and is of the pour that was    *)
(* sealed, though an earlier press or a lost attempt minted it.            *)
(***************************************************************************)
ShownIsTheSealed ==
  [][shown' # shown =>
       \A row \in shown' : /\ row \in register
                           /\ row.start = request.start
                           /\ row.tier = request.tier]_vars

(***************************************************************************)
(* No honest retry is refused as a different pour (409), though one start  *)
(* may be sent under two tiers, before and after the configuration: the    *)
(* tier it was lowered from is refused before the ledger sees it, even by  *)
(* a handler that runs after the lower one was minted.                     *)
(***************************************************************************)
NeverConflicts == \A id \in Attempts : req[id].answer # Conflict

(***************************************************************************)
(* "The pour has been kept; seal it again": a pour the visitor was told is *)
(* kept is not afterwards refused for its age.                             *)
(***************************************************************************)
KeptCanBeSealed ==
  InFlight /\ req[Current].answer = Rejected => request.start \notin kept

(***************************************************************************)
(* "The burst must cover the client's retries" (server.go): every attempt  *)
(* of a first press is admitted or lost, and none is told to slow down     *)
(* while that press lasts.                                                 *)
(***************************************************************************)
BurstCoversRetries ==
  seal = 1 => \A n \in 0..Retries : req[<<1, n>>].answer.result # "limited"

(***************************************************************************)
(* The seal always ends: in a certificate, or in a notice that says so.    *)
(***************************************************************************)
SealEnds == sealing ~> ~sealing

(***************************************************************************)
(* The handler uses the ledger as its interface allows: one call per       *)
(* admitted request, and no effect for a limited or unavailable one.       *)
(* MintProtocolProofs proves it.                                           *)
(***************************************************************************)
Phase(q) ==
  CASE q.st = "admitted" -> "asked"
    [] q.st = "dropped" -> "lost"
    [] q.st = "answered" /\ q.answer.result \notin {"limited", "unavailable"} -> "decided"
    [] OTHER -> "idle"

Store == INSTANCE Ledger WITH
  phase  <- [id \in Attempts |-> Phase(req[id])],
  ask    <- [id \in Attempts |-> IF Phase(req[id]) = "idle"
                                 THEN CHOOSE a \in Allowed : TRUE ELSE AskOf(req[id])],
  answer <- [id \in Attempts |-> IF Phase(req[id]) = "idle"
                                 THEN Unanswered ELSE req[id].answer]
UsesLedger == Store!Spec
=============================================================================
