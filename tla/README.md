# The Molten Pour in TLA+

A verification project for this repository: a web app in which a visitor holds
a vessel, pours, and seals the pour into a numbered record on a public ledger.
The specifications follow `src/`; every definition that models code is listed
with its lines under `map` in `PROJECT.json`.

## Inventory

| part | state it keeps | operations | what is hard |
| --- | --- | --- | --- |
| Ledger store (`api/pour/store.go`) | the register of minted pours | Append, Get, List, Ping, Close | one position per pour, no gap, no duplicate, a retry is a replay |
| SQLite store (`api/pour/sqlite.go`) | one file, a pool of one connection per process | the same, as transactions | concurrent processes, cancellation, busy timeout, crash between statements, files of earlier releases |
| Memory store (`store.go`) | slice and two maps under a mutex | the same | nothing beyond the lock |
| Minting (`api/pour/pour.go`) | none | Mint | skew window, wall clock against hold, clamp |
| HTTP handlers (`api/httpapi/server.go`) | none of their own | handleMint, handleList, handleGet, handleConfig, health, ready | order of limiter, session, ceiling, append |
| Limiter (`limiter.go`) | a bucket per address, the last sweep | allow, sweep | clocks read before the lock; a bucket dropped and made again must not be worth more |
| Session (`api/session`) | the signed cookie, held by the browser | OwnerID, ClientIP | requests that leave before the cookie arrives |
| Server process (`api/cmd/server`) | lifetime | start, drain, stop | restart forgets buckets and requests |
| API client (`app/pour/api.ts`) | the attempt counter | apiFetch, mintPour, listPours | timeouts race late answers; which failures are retried |
| App shell (`app/App.tsx`) | view, phase, tier, ceiling, sealing, current, notice, pours | mint with its beat, refresh, tabs, tiles, configuration | outlives the screens it steers; listings overlap |
| Ceremony screen (`PourScreen.tsx`) | refs: stream open, start, rig, renderer, live props | openStream, closeStream, discard, frame, seal, canvas attachment | refs against rendered state, unmounting under a running loop |
| Renderers (`metaball.ts`, `MoltenBackground.tsx`) | a WebGL context, a loop | create, draw, dispose, resize, lose and restore | a context outliving its canvas, a loop that never rests |
| Rig (`rig.ts`) | a ring of blobs, hold, tilt, peak, landings | stepRig, isSettled, telemetryOf | over only when nothing is in the air; what it reports against what the clamp allows |
| Clamp and rarity (`sigil/telemetry.ts`, `rarity.ts`, Go twins) | none | telemetryCeilings, clampTelemetry, classify | the band previewed is the band minted |
| Sigil hash and generator (`sigil/sigil.ts`, `gencorpus.ts`, Go twin) | none | seedHash, generateSigil, the corpus | 32-bit wrapping in two languages, marks that leave the view box |
| Collection and certificate (`Gallery.tsx`, `Certificate.tsx`) | none beyond the shell's | select a tile; lay the sheet out | which list is shown; a clipped sheet |
| Certificate scripts (`scripts/*.ts`) | a dev server, a browser, the problems found | verify, export | cleanup on every failing step; a success nobody earned |
| Design system, middleware, static files, deployment | presentation, operations | | |

The parts meet at five places: the shell calls the client (`onMint`), the
client calls the handlers over HTTP with the cookie of the moment, the handlers
call the store once per request, the shell and the screen share the phase
through props and callbacks, and the rig's report passes the clamp twice, in
the browser for the preview and on the server for the record. `hazards` in
`PROJECT.json` lists what can go wrong at each, at its line, with the property
that would show it.

## Modules

| module | models |
| --- | --- |
| `Pours` | the data of the ledger: requests, rows, keys, answers, what a read returns |
| `Ledger` | **abstract**: what a `Store` promises. Every call takes effect at one instant, which decides both what the register gains and what the caller hears. The memory store, whose calls each run under one mutex, is this module without failure and loss |
| `SqliteStore` | `sqlite.go` statement by statement: take the connection, BEGIN IMMEDIATE, look the start up, read the position, mint, insert, commit, roll back, give the connection back; with cancellation and failure at every statement, busy timeouts, crashes of either process, and opening a file another release left |
| `MintProtocol` | one visitor's presses of the seal, end to end: the shell's `mint`, `apiFetch`'s attempts, the browser's cookie jar, the limiter, `OwnerID`, `handleMint`, over an atomic ledger |
| `Limiter` | `limiter.go` for every address and any number of handlers at once, with the sweep and the refill |
| `Ceremony` | the screen and the shell around one vessel: stream, frames, hard stop, settling, tier, configuration, seal, discard, tabs |
| `Stage` | the two WebGL pictures and their loops: canvases attached and detached, contexts lost and given back, reduced motion, resizing |
| `Shell` | the shell over `Stage` (EXTENDS): views, the seal with its beat and mint, the certificate in hand, overlapping listings |
| `Telemetry` | what a pour may claim (the clamp), what it earns (score and bands), the best band of each tier |
| `Rig` | over `Telemetry` (EXTENDS): the rig frame by frame with its ring, and the screen's readout |
| `Sigil` | over `Telemetry`: the 32-bit hash, the generator, what it draws, and the corpus's rows. Uses `Bitwise`, so nothing is proved about it |
| `Scripts` | the two certificate scripts as processes, with ports, browsers, exceptions and exit codes |
| `…Proofs` | `SqliteStore`, `MintProtocol`, `Limiter`, `Ceremony`, `Shell`, `Telemetry`, `Rig`, `Scripts`: their theorems |
| `MC…` | instances for TLC; `MCRig` also holds the corpus |

`SqliteStore` is shown to implement `Ledger`; `MintProtocol` is proved to use
`Ledger` as its interface allows (`HandlerUsesLedger`). So what `MintProtocol` says of
an atomic ledger is said of the SQLite one.

How the state corresponds to the code:

* `SqliteStore`: `rows` and `indexed` are the file; `conn[s]` is the one pooled
  connection of process `s`; `writer` is SQLite's write lock; `pc[r]` is the
  statement the goroutine of request `r` is at; `seen[r]` is the snapshot its
  transaction reads; `staged[r]` is what it inserted and has not committed. Row
  contents are the fields the ledger decides on; telemetry is a model value, and
  the sigil hash is a constant function `Seed` of tier, start and telemetry.
* `MintProtocol`: `request`, `seal`, `attempt` are `mint`'s closure and
  `apiFetch`'s loop; `req[id]` is one HTTP request with the cookie it left with,
  the owner it was given and the clock the handler read; it stays on its way
  after the client has given it up (`open = FALSE`), and may still commit.
  `listing[n]` are the refreshes of the collection, of which only the cookie
  matters. `pour` is what the vessel holds, its tier the live `tierIndex` that a
  press reads: `ConfigArrives` may lower it between two presses, as `App.tsx:122`
  does. `kept` are the starts whose pour the visitor was told is kept.
  `BodyLost` is the success whose head arrives, cookie and all, and whose body
  does not: `mintPour` throws from outside the retry loop, so the pour is kept
  and not sent again by itself.
* `Limiter`: `buckets` is the map, `swept` its `lastSweep`; `stamp[h]` is the
  `now` handler `h` passed to `allow` while it waits for the mutex, so handlers
  enter with their clocks in either order. Tokens are counted in ticks, a token
  being `Every` of them, which is exact where the code divides floats.
* `Ceremony`: `tier` is the shell's `tierIndex`, which the keys select while
  nothing pours and a late configuration lowers at any moment. `phase` is what
  `setPhase` was last called with, `seen` is what was last rendered, that is
  `liveRef.current.phase` and the buttons'. Discrete events render before the
  next event, a frame's or a leaving pointer's do not. `vessel` holds the refs
  and the rig, and dies with the screen. `aloft` is the blobs not landed;
  `airborne` is the rig's own count, taken before the frame's landings, so it
  lags one frame behind.
* `Stage`: `renderer` is `rendererRef`, `lit` the contexts that hold a program;
  `due` says the last commit's effects have not run: after a click React
  flushes them at once, after a promise later, so a loop can have a frame left
  on a screen that is gone. `backdrop` is `MoltenBackground`'s closure between
  two frames. `Shell`: a record is its position among the visitor's own, so a
  listing is how many there were when it was read.
* `Rig`: `rig` is `Rig` of `rig.ts`, with a blob's position abstracted to how
  long it has fallen (`fallen`): the speed is a function of it, and the floor is
  reached between `FallMin` and `FallMax`. `tier` is read anew by every frame,
  as the code does, and lowered by `ConfigArrives` whatever the stream is doing;
  `opened` remembers the tier of the stream's first opening. `rarity` and
  `readoutAcc` are the readout's. Floats are integers in units that are exact:
  ticks of a third of a millisecond, tilt in thousandths, the peak velocity as
  its square. The spawn's jitter is taken at its largest and the drag at its
  thinnest, so a speed here is the most it can be. How a landed blob dissolves
  is left out, except that its slot is not free before the ring comes round.
* `Sigil`: a 32-bit word is four bytes; products and sums wrap because nothing
  is carried out of the fourth. Of a mark it has the draws it consumes and how
  far it reaches; angles and opacities, which decide neither, are left out.
* `Scripts`: `pc[i]` indexes the script's steps, `thrown[i]` is an exception on
  its way to the `finally`, `listening` is the machine's ports. `Pages(c, s)` is
  how many pages the sheet of `s` takes in checkout `c`, for each rarity and for
  the exported record, so that printing one sheet says nothing of the others.

## Runs

| run | question | answer |
| --- | --- | --- |
| `sqlite` | three calls on two processes sharing a file, with every failure: is the register continuous, idempotent and durable, does contention ever surface as an error other than a busy timeout, is a store ever up over a start minted twice, do the calls implement the atomic ledger, and does every call end? | holds |
| `mint_returning` | with a cookie, over two presses with retries, losses, late arrivals, restarts and a configuration that lowers the tier between the presses: is a pour minted once, is the record shown the visitor's own and of the pour sealed, is there never a 409, nor a 429 within a first press, and does every press end? | holds |
| `mint_twice` | is a retry safe without a cookie? | **no** |
| `limiter` | two addresses, two handlers whose clocks cross, several sweeps: does any window of time admit more than a burst and its refill, is a promised wait honoured, does the map forget who may be forgotten? | holds |
| `ceremony` | in any order of events: is only a finished pour sealed by who stays, is a pour sealed twice the same but for a tier above the ceiling, does what held the stream settle? | holds |
| `ceremony_return` | is only a finished pour sealed after visiting another tab? | **no** |
| `ceremony_tier` | is the tier fixed the moment the stream opens? | **no** |
| `pour` | frame by frame, with a tier that may be lowered at any of them: does every droplet land once, what can an honest pour report against the clamp, and is the band painted the band minted? And does the pipeline give the corpus's rows? | holds |
| `pour_flagged` | is an honest pour with a true clock never flagged? | **no** |
| `shell` | views, seals, lost contexts and overlapping listings: does anything outlive its canvas, does a screen that is gone move anything, does the overlay lift, does the backdrop come to rest, is a collection listed without overlap the register? | holds |
| `scripts` | two verifications and an export at once, failing anywhere: does a success mean that every sheet measures as the header lists and that the one printed takes a page, does every script end? | holds |
| `scripts_header` | does it mean that the sheet of every rarity prints on one page? | **no** |

What the five refutations show; each quotes the line it contradicts under
`findings`:

1. *mint_twice.* On a first visit the mint may leave before any cookie has been
   set (the listing on load has failed or is slow). Its answer is lost; the
   retry has no cookie either, so the server gives it a new owner and the
   idempotency key, which starts with the owner, does not match: two positions
   for one pour. `api.ts` says retrying is safe for every call.
2. *ceremony_return.* The tabs unmount the screen, and with it the rig and the
   start, but not the shell's phase: on return a "settled" vessel is empty, its
   seal is enabled, and what it mints started when it was sealed.
3. *ceremony_tier.* `PourScreen.tsx:695` says that the tier is fixed the moment
   the stream opens. A configuration that arrives after that lowers the shell's
   `tierIndex` (`App.tsx:122`), which the next frame hands to `stepRig`
   (`PourScreen.tsx:260`) and the seal sends (`PourScreen.tsx:1061`).
4. *pour_flagged.* The rig's header promises that an honest pour is never
   clamped. Four things break it even under one tier: the hold is reported
   floored and the tilt is not (`rig.ts:303`); at the hard stop the hold is cut
   to fifteen seconds and the last frame's tilt is integrated whole
   (`rig.ts:206`); a droplet that fell while the stream was closed is sampled for
   the peak after reopening, faster than the hold explains (`rig.ts:254`); and a
   lateral spawn can reach twice `spawnVxMax` (`rig.ts:219`). `TiltWithinAFrame`
   bounds the first two: the tilt is over by one integrated frame at most. The
   run's own configuration never lowers a tier. Where one does, there is a fifth
   (refutation 3): droplets let go at the higher flow are judged by the lower
   tier's ceiling, and flagged, contrary to `rig.ts:24-25`. `DropletsWithin`
   therefore says what does hold: the landings are within the ceiling of the tier
   the stream was *opened* at. It is false of the tier at the seal.
5. *scripts_header.* `verify-certificate.ts` lists "a PDF prints to exactly one
   page" among its checks per rarity. It keeps the Common sheet and prints that
   one only, so another sheet of two pages passes. The sigil being the only
   element that flexed, in the same list, is not measured at all.

Four more statements are written or noted and are false of the code; no run is
spent on them:

* `KeptCanBeSealed`: the notice says "The pour has been kept; seal it again"
  (`App.tsx:66`), and it can be for five minutes from its start only; then it is
  refused as too old.
* `ReleaseSettles`: a press and release between two frames leaves the hold at
  zero, and "Settling…" lasts until the next pour. `SettlesOnceHeld` therefore
  asks for a hold.
* `ShownIsTheirs` on a first visit: the listing and the mint leave without a
  cookie and are given different owners; if the listing answers last, the record
  just shown is nobody's. For a visitor with a cookie it is checked and proved.
* A listing that overlaps another may land last with the older list;
  `MintedIsListed` is about the others.

### Bounds

* `sqlite`: three requests, two processes. Positions, starts and the index can
  only be disturbed by two writers and observed by a third call; two requests
  share a process, so the pool is contended, and one is on the other, so the
  file lock is. The calls are a pour, the same start after the skew window under
  another tier and with other telemetry, another visitor's pour, and a reading of
  the pour that comes second. Legacy files: empty, and the duplicate the index
  refuses, over which no store may come up. Listings and a late retry under the
  same tier are in the proofs only. No symmetry is used, as the run has liveness.
* `mint_*`: one visitor. `mint_returning` has two presses of one retry each
  (`MaxSeals`, `Retries`), which is what it takes for an attempt of one press to
  arrive during the next, a burst of two, one more than the retries as
  `server.go` asks, a tick that leaves a skew window of zero, and a ceiling of 0
  under tiers 0 and 1, so that a configuration has something to lower and the
  handler something to refuse. `mint_twice` has no cookie and the code's two
  retries. Owner ids are three; a request past the last stays unanswered. That
  the ledger is called as it allows (`UsesLedger`) is proved and not run.
* `limiter`: two addresses, two handlers, a burst of two tokens of two ticks, a
  sweep every two ticks and a horizon of seven, so that a bucket is emptied,
  refilled, swept and made again more than once. `Lag`, one tick, is how long a
  handler may wait between reading the clock and taking the lock. One window of
  counting is opened per behaviour, at any instant. Addresses and handlers are
  symmetric; the run has no liveness.
* `ceremony*`: two pours (`MaxReads`), two seals (`MaxSeals`), one excursion to
  another tab (`MaxSwitches`), three tiers with the default above the ceiling,
  and a hold of two frames (`MaxHold`), so that a frame can overshoot the hard
  stop, two blobs can be in the air and land in different frames, and a stream
  can be closed and opened again before the stop.
* `pour*`: a hard stop of 150 ms in place of 15 s. It cannot be much shorter:
  the frame that runs past it adds up to 50 ms of flow, which the 15 % that the
  clamp allows must cover; `DropletsNeverFlagged` is proved from 143 ms on. The
  fall is cut from 891 ms to 97 and the ring from 32 slots to 5, which stand to
  each other as the code's do: `FallIsShortEnough` in `MCRig` has TLC evaluate
  what `NoDropletIsLost` and `SpeedNeverFlagged` assume, of the run's values and
  of the code's. Frames are 33⅓ ms and the 100 ms the screen caps at, clocks
  true or 100 ms ahead. In `pour` the tiers are the first, the fourth and the
  last, and the configuration's ceiling is the first, so that a pour opened at
  any of them can be lowered as far as there is, at any frame. The clamp, the
  score and the bands are evaluated at 15 s by the corpus rows and proved for
  every value.
* `shell`: two contexts, so a lost one can be replaced by another, two listings,
  so that one overlaps another, one record to list and one to be without, and
  one step between the backdrop's dimmed and full amounts.
* `scripts`: two verifiers and an exporter, which take each other's ports; each
  checkout carries one measured fault, on the first sheet or the last, or one
  sheet of two pages: the Common, the Singular or the exported record's.
  `scripts_header` needs one verifier and the exporter.

Deadlock is not checked in the SQLite and mint runs, where a bounded number of
requests or presses comes to an end, in the rig's, which follows a pour for a
bounded time, and in the scripts', which end. It is in the others.

### Fairness

* `SqliteStore`: a runnable goroutine takes its next statement, and SQLite's busy
  handler either gets the lock or times out. Nothing is assumed of crashes,
  cancellations or new calls.
* `MintProtocol`: only the client's own timers, `AbortSignal.timeout` and the
  backoff. The network and the server owe nothing, so `SealEnds` holds over a
  server that never answers.
* `Ceremony`: React renders what was set; the browser draws frames while the
  screen is mounted; and in the frames after a stream has closed gravity lands
  what is in the air.
* `Shell`: React runs the effects that are due, the backdrop is given frames,
  the beat's timer rings, the mint ends (`MintProtocol` shows it does) and so
  do the listings. Nothing is assumed of the visitor or of the contexts.
* `Scripts`: a process takes its next step, since every wait in the scripts has
  a timeout of its own; whether the step succeeds or throws is left open.
* `Limiter` and `Rig` have no liveness and no fairness.

## Proofs

All theorems hold for every value of the constants, from the assumptions named
in the modules and those stated here.

**`SqliteStoreProofs`**, from: the hash is a function into the naturals,
allowed calls are well formed, legacy registers are finite and continuous,
every request runs on one process. Type correctness, and that the register is
`1..n` without gap or duplicate; a store that came up has the unique index, and
a file that has it holds one row per owner and start; an answer with a row
tells one that is on the register, and the one asked for; no call fails by
contention other than the busy timeout; every step leaves the register alone or
adds the next row; the store implements `Ledger`.

None of these is inductive by itself. That the row a transaction commits extends
the register depends on the position it read two statements before, so `IInv`
adds what makes the reading still true: a request inside a transaction holds the
write lock (`LockHeld`), therefore its snapshot is the table
(`SnapshotCurrent`), therefore the miss it found, the position it read and the
row it staged are right about the table as it is now (`WorkCurrent`). Only the
holder of the lock changes the table, and it leaves the transaction in that
step. The refinement maps each statement that decides (a hit, a refusal, the
commit, a failure) to the ledger's deciding action, `Return` to its answer, a
crash to the loss of the requests of that process, and every other step to a
stutter.

**`MintProtocolProofs`**, for any number of presses, retries, owners, ticks and
any burst: no retry is refused as a different pour, although the tier over a
pour may be lowered between two presses; the record shown is of the pour that
was sealed, and the protocol refines `Ledger`. For a visitor who has a cookie
to begin with (`StartJar # NoOwner`): a pour takes one position whatever is
lost, late, retried or restarted, and the record shown is on the register under
that cookie. With a burst larger than the retries, no attempt of a first press
is refused a token. `IInv` says that a start is sealed under one tier once
lowered to the ceiling (`Tiered`): the handler refuses what is above the
ceiling before it asks the ledger (`server.go:151`), so of two tiers asked for
one start only the lowered one can reach it. It says too that every row is of
some call that was made (`Rows`), that every request of a returning visitor
carries their owner (`Theirs`), and what the first press has taken from the
bucket (`Bucket`). The refinement maps the phases of a request to those of a
call, and a restart to the loss of the calls that were admitted. `mint_twice`
is why the cookie must be assumed.

**`LimiterProofs`**: from any instant on, an address is admitted a burst, what
time has given back, and a slack of `Lag` for each clock and sweep; the map
holds only addresses heard of lately; a wait that was promised is honoured. The
invariant is an account: what has been admitted since the window was opened
never exceeds what the bucket's balance can explain, where the balance of an
address that is not on the map is a full bucket. A sweep drops a bucket only
when it is full by the sweeping handler's clock, so making it again later gains
at most the lag.

**`CeremonyProofs`**: who stays at the vessel finds a sealed pour unmoved, and a
pour sealed again has the telemetry it had and, once lowered to the ceiling, the
tier. The invariant lists which differences there can be between the phase
that was set and the one that is rendered, and what holds of the rig in each:
the buttons a stale render leaves enabled are harmless for that reason.

**`ShellProofs`**: no context and no loop outlives its canvas, a vessel without
a picture says so, a screen that is gone cannot move the ceremony, and a
collection listed without overlap is the register. The invariant falls into two
halves that each action keeps separately: the canvas's (a context is that of the
attached canvas) and the data's (a listing that no other overlapped was read
after the last mint it can miss).

**`TelemetryProofs`**, of the clamp and the score as functions, for every claim:
clamping twice is clamping once, and flags nothing the second time; for a hold
that is allowed, the band of a claim is that of what the clamp leaves of it; no
claim of a tier scores above the band the tier's row in `tiers.ts` names.

**`RigProofs`**, for any ring, fall, frames, tiers and ceiling, and a
configuration that arrives at any moment: the tilt is over its ceiling by one
integrated frame at most; landings never exceed the ceiling of the tier the
stream was opened at, if the hard stop is at least 143 ms; the band painted on
a settled pour is the band minted, however wrong the client's clock within its
bounds, from one readout after it settled and after its tier was last lowered;
no pour is minted above its tier's best band. The first two rest on meters kept
beside the hold: the spout has let out no more than the flow of the opening
times the hold and the part of the last frame that was cut (`Above`: the live
tier's flow is never more than that one), and the tilt is at most twice the
hold and that frame. The third rests on a settled rig being at rest until the
readout, which runs at most once in 100 ms, has overtaken it, and on
`ClampKeepsTheBand`.

Two more have an invariant of their own over the first. *No droplet is
overwritten in the air and none lands twice* (`NoDropletIsLost`): the ring's
cursor comes back to a droplet's slot after as many spawns as there are slots,
and the spout cannot have let that many go since, because the meter has grown
by at most the fullest flow times what the droplet has fallen (`RingInv`). The
hypothesis `RingHolds` asks that a fall and a frame at the fullest flow fill
the ring at most: 95 948 against 96 000 for the code's 32 slots and the 891 ms
that a fall lasts at frames of 4 ms and more. That is 0.05 % of room; a display
whose frames are shorter than 4 ms, one of them followed by one of 50 ms, could
spend it. *The speed reported is within its ceiling* (`SpeedNeverFlagged`): the
ceiling grows with the pour's age and a droplet is older than its fall, by the
30 ms the meter needs before the first one leaves. A droplet let go in the same
long frame is not, and is saved by that frame's drag (`Older`). `SpeedHolds`
asks that a fall ends within the 1200 ms the ceiling counts, and that no frame
is of 27 to 33 ms: there the statement is false in this model, as TLC finds at
92 ticks. A first droplet of the largest jitter at full lean is then as old as
the fraction of a millisecond that the clamp's whole ones leave out, and its
peak is a hair over. `HonestNeverFlagged` has that and the other ways an honest
peak is over.

**`ScriptsProofs`**, for any number of runs at once over any checkout: a script
that exits with 0 found no fault by any check on any sheet and wrote a single
page, whoever's server it borrowed and whoever threw. `IInv` says that a run no
exception has left has kept every fault of the sheets behind it, and, past its
printing, has its page on the disk or a problem noted. So *success is deserved*,
of every checkout: the verifier's checks imply what its header lists of a sheet
(`AsListed`), and the page it has counted is the Common sheet's, as an export's
is the record's. What the header says beyond that, `scripts_header` refutes or
nothing measures. And no script comes to its last line with a server or a
browser of its own still open (`NothingKeepsThemAlive`), which is the part of
`ScriptsEnd` that is not about fairness: `certificate-pdf`, which runs off its
end, is then free to end.

Type correctness is proved of every state machine among them.

Only model-checked: liveness (`CallsSettle`, `SealEnds`, `SettlesOnceHeld`,
`BackdropSettles`, `SealLifts`, `ScriptsEnd`), which is beyond the prover, and
the sigil, whose 48 corpus rows and drawings are assumptions that TLC evaluates
in `MCRig`. Every safety property that a passing run checks is also proved.

## Assumptions and what is not modelled

* SQLite is modelled by its documented behaviour in WAL mode; the browser's
  cookie jar and React's batching likewise. A signature cannot be forged.
* `MintProtocol` has one clock for client and server, and one visitor per
  address; `Limiter` has the other addresses. Two pours do not start in the same
  millisecond.
* In `Ceremony` a fetched configuration is rendered in the step in which it
  arrives, and a mint's success in the step in which it is received; `Shell` has
  the renders in between.
* `Rig` renders a phase and a lowered tier at once; `Ceremony` has the phase's
  lags. The configuration's ceiling is one of the tiers. Leaning, by pointer or
  by device, is a clamped value.
* In `Scripts` Vite, Chrome and Node are external. Vite takes the next port when
  the one named is taken, and the scripts open the one they named, so they may
  be shown another script's page: both are taken to be of one checkout, without
  which a success could be about other sources, and no process is a run of both
  (`ScriptsAssumption`). Closing a browser or a
  server may itself throw, and ends the process with an error.
* Floats: the clamp, score and rig are exact here. Where rounding could decide,
  the corpus compares 48 rows, as the Go tests do with all of them.
* Not modelled: client addresses and middleware (one request, no state), static
  files, the shell scripts and images. The server's drain on shutdown
  (`main.go`: fifteen seconds, then the store is closed under what is left) is
  seen as a crash. The backup of a live file (`backup-ledger.sh`) is listed as a
  hazard.
* The certificate's layout is not modelled. One thing was met there: the sheet's
  width follows the column's and its height its width, the height decides
  whether the page has a scrollbar, and the scrollbar the column's width;
  nothing in the styles reserves the gutter, so at a window of some 420 by 965
  the observer may swing between two widths.

## Plan

Done: the register with its proofs; a pour's way to the register with its
proofs; the ceremony, the rig, the clamp, the limiter, the shell and its
pictures, the scripts, all with proofs; the sigil pipeline. Left, in order:

1. Composition: `Ceremony`'s pour, with what `Rig` reports, as the one that
   `MintProtocol` seals, as a refinement.
2. `Backup`: the file and its write-ahead log copied one after the other.
3. The server's drain, as a process that stops admitting and closes the store.
4. The certificate view's observer against the page's scrollbar.
