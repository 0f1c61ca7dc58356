# Shellin core: a formal model

TLA+ modules, TLC configurations and TLAPS proofs for the Go program in `src/`
(`shellin-core`: a terminal-sharing agent, its control plane and its signaling
relay). Every definition that stands for code names its source lines in
`PROJECT.json` under `map`.

## 1. Inventory

### The system

An *agent* (`cmd/shellin`) runs a shell in a PTY and offers it over WebRTC. It
authenticates to the *control plane* (`cmd/shellin-control-plane`), claims a
session slot, and gets a one-time signaling token. With it the agent opens a
WebSocket to the *signaling hub*; a *viewer* attaches to the same session with a
token of its own, and the hub relays their SDP and ICE messages.

    user key ──limiter──exchange──► access + refresh token     CredentialExchange, AuthTokens
                               │                                  over UserKeyStore, AuthFailureLimiter
    access token ──/connect──► session slot in the registry    AgentHandlers
                               │    + TURN credentials            over AgentRegistry
                               │    + signaling token
    signaling token ──WebSocket──► validate, consume, look up  ViewerAdmission over GrantReplay
                                     └► hub: register, relay   SignalHub → SessionSeats
    agent's end of it: reconnect, offer, answer                AgentBridge
    agent's tokens: refresh, reload, save, log out             AuthRecovery
    agent's life: start, heartbeat, termination, exit          AgentLifecycle over AgentHandlers
    agent's executable: check, prompt, replace, re-exec        SelfUpdate over ReleaseVersions

| Component | State | Operations | What is hard | What makes it correct |
|---|---|---|---|---|
| Agent registry (`controlplane/agent_registry*.go`) | listed sessions with their last-seen time, tombstones | Upsert, UpsertLimited, Touch, Terminate, Remove, TerminateAll, Cleanup, queries | every time stamp is read before the lock | terminated and listed exclude each other; live sessions survive the sweep; terminated ids stay out; dead ones are swept |
| Agent endpoints (`agent_*_handlers.go`) | requests in flight | connect, attach, register, heartbeat, unregister, terminate-all | connect holds a claimed slot across a remote call that may fail | session limit; no leaked slot; a terminated session admits no viewer |
| Signal hub (`controlplane/signal_hub.go`), WebSocket handler (`signaling/websocket.go`) | one agent and one viewer per session; per connection a handler and a writer goroutine, a channel, a closed flag | Register, Unregister, Forward, Send, Close | decisions under the lock, calls to peers after it; drops; writer and reader end separately | one seat per role; nobody displaced is forgotten; every departure is announced or accounted for; everything ends |
| Replay guard, validator (`grantauth/`) | used token IDs until their expiry | Validate, Consume | validate, consume and lookup are apart; sweep on every consume | one use per token; nobody loses a token to a live agent's lookup |
| User key store (`controlplane/userkey_store.go`) | entitlements and two indexes | Add, Upsert, UpsertByOriginalTransactionID, lookups | up to two index entries move per write | indexes agree with the items |
| Refresh tokens, login keys, credential endpoints | two token stores, requests in flight | exchange, refresh, login-keys, device-login, sweep | four critical sections per refresh | a login is one chain of tokens; a login key is good for one attempt |
| Auth failure limiter (`auth_rate_limiter.go`) | failures per address | Allow, RecordFailure, Reset | check and record are apart | bounded excess over the limit; a lock-out ends |
| CLI bridge and negotiator (`cmd/shellin/webrtc_*.go`) | live session, pending offer and candidates, reconnect signals | connect loop, offer, answer, detach | two goroutines per connection that end on their own, full queues, late signals, closing at any point | a loss is charged to the right connection; nothing is left open; no offer is believed made that was dropped; candidates go to pion with the answer they were received for; closing returns |
| CLI auth recovery (`agent_auth_recovery.go`, `webrtc_connect.go`, `auth_profile.go`) | tokens in memory, shared profile file | refresh, reload, exchange | several processes rotate one token; a retry fails after the rotation | the one good token is not lost silently, no late save brings back an old one, everyone recovers from an expiry |
| CLI session and heartbeat (`interactive_session.go`, `agent_registry_heartbeat.go`) | session life cycle, one listing written by three goroutines | start-up, heartbeat, re-registration, shutdown, crash | termination between start-up steps, lost requests, a `/connect` that outlives its client, the order of deferred calls | a terminated session ends, a running one is listed, a dead one is forgotten |
| Self-update (`internal/selfupdate`, `cmd/shellin/update_*.go`) | the executable file, shared by invocations | check, prompt, perform, re-exec | two fetches of the manifest, neither known to be current, one URL for all archives, death in the middle | the file is a whole published binary; no downgrade unless the host goes back between the fetches; no loop |
| TURN, HTTP origins, protocol types, build info, display | none worth a model | | | |

Interaction is by HTTP and WebSocket between processes, by mutex-protected maps
inside the control plane, and by channels and callbacks between goroutines. The
full list of what is hard to test, with source lines, is under `hazards` in
`PROJECT.json`.

## 2. Modules

| Module | Stands for | Extends / instantiates |
|---|---|---|
| `AgentRegistry` | `controlplane.AgentRegistry` | |
| `AgentHandlers` | the agent endpoints and the sweep | extends `AgentRegistry` |
| `AgentLifecycle` | one `shellin` process as a client of these endpoints | extends `AgentHandlers` |
| `SessionSeats` | what the hub promises (abstract) | |
| `SignalHub` | `SignalHub` and the goroutines of `HandleWebSocket` | instantiates `SessionSeats` |
| `GrantReplay` | the time window of `Validator` and the replay store | |
| `ViewerAdmission` | `/attach` and `HandleWebSocket` up to the registration with the hub | extends `GrantReplay`, instantiates `AgentRegistry` |
| `UserKeyStore` | `controlplane.UserKeyStore` | |
| `AuthFailureLimiter` | `authFailureLimiter` | |
| `CredentialExchange` | the two endpoints that take a credential | extends `UserKeyStore`, `AuthFailureLimiter` |
| `AuthTokens` | the credential endpoints, refresh tokens, login keys | extends `UserKeyStore` |
| `AgentBridge` | the CLI's reconnect loop, signal pump and negotiator | |
| `AuthRecovery` | the CLI's heartbeats, bridges and commands as users of one auth profile | |
| `ReleaseVersions` | parsing and comparing release versions | |
| `SelfUpdate` | the update of the CLI, with the release host | extends `ReleaseVersions` |
| `…Proofs` | theorems about the module of that name and the modules it extends (eight of them) | extend it and `TLAPS` |
| `MC…` | small instances for TLC (`AgentBridge` needs none, its cfgs name the module) | extend the module |

The modules also hold a few operators marked *Mutant of X*: plausible bugs of the
definition that follows. `PROJECT.json` pairs each with the property that must
notice it when it takes X's place; nothing else refers to them.

### How state and actions correspond to the code

*AgentRegistry.* `items` and `terminated` are the two maps, with an entry reduced
to the time the code compares. Each method is one critical section and one
action; its `now` is any time at most `LockDelay` ticks old, because the code
calls `time.Now` before `r.mu.Lock`. `wroteAt` and `killedAt` record the real time
of the last write of what is listed and of the last termination, so that properties can speak of what really happened
and not of stamps.

*AgentHandlers.* `connect` is what each `/connect` goroutine is doing. Claiming
the slot and the answer are two steps with anything in between; the roll-back is
the code's: delete by id, only if this request created the entry. A roll-back can
remove an entry that another request was answered for meanwhile; the agent's next
heartbeat gets 404 and registers again, which is what `RunningAgentIsListed` of the
life cycle asks for.

*AgentLifecycle.* `shell` is how far `runInteractiveSession` is, `heartbeat` and
`bridge` the two goroutines, `serving` the `/connect` handler the bridge waits for. The
bridge's look at `closeCh` and the arrival of the request it then sends are two steps, so
a close or a termination can come between them.
All requests are the actions of `AgentHandlers`, conjoined with the client's step.
A request takes effect while its client waits for it or never, and its answer can be
lost afterwards; only a `/connect` handler outlives its client, because only it waits
for another service. `Exit` is `os.Exit` or a crash, where no deferred call runs;
otherwise `Stop` (which waits for the heartbeat and unregisters) precedes `Close` of
the bridge, the reverse order of the `defer`s. Between the two the bridge can still
connect and list the session again: `UnregisterIsFinal` is about the heartbeat,
`ExitedShellIsForgotten` about what becomes of such a ghost. Other sessions of the
account call the same endpoints at will. Tokens are either good or beyond recovery;
how they are renewed is `AuthRecovery`.

*SignalHub.* `agent` and `viewer` are the entry of one session. `pc` is the
handler's place in `HandleWebSocket`; `calls` is the list of `Send` and `Close`
calls that a critical section decided on and the handler makes afterwards, each a
step. `outbound`, `closed`, `conn` and `writer` are the channel, the closed
channel, the socket and the writer goroutine. Closing is two steps (closed
channel, then socket), and a second closer waits for the first, as `sync.Once`
makes it. Where `select` has two ready cases both are possible. `owed` (detaches an
agent has still to be told or spared) and `lateForwards` are history.

*GrantReplay.* `request` holds a validated token until it is consumed. The store
is swept at the start of each consume, as in the code, and reads the time under
its lock.

*ViewerAdmission.* `attaching` are the tokens of `/attach` requests that have found the
agent and wait for the TURN service, `issued` those that were handed out, `door` is where a request is after its token was consumed: `lookup`, `upgrade`, then `open`,
`refused` or `failed`. Each call of `HandleWebSocket` is a step, and the registry, an
instance of `AgentRegistry` on the same clock, changes between any two. Which token
was issued when is given by its `nbf`, which the issuer sets to the present.

*UserKeyStore.* The three maps and the three writes; `upsertLocked` keeps the
order of the code (checks against the indexes, removal of old entries, new ones).

*AuthTokens.* One critical section per step. `family` records from which login a
refresh token descends, `ended` the logins that expired or were cut off by a 500.

*CredentialExchange.* A request is `lookup`, then `record` or `reset`: one step for
each critical section of the limiter and one for the lookup. `records` is the
limiter's map; the code's slices of times are sets of numbered failures, since only
their times and how many there are ever count. Every method prunes all of it by a time
read before the lock. `guesses` is history: the failed lookups since the last reset, at
their real times. Store
writes happen at any time, as the package allows its embedders (the server itself
only seeds the store).

*AgentBridge.* `run` is where the goroutine of `webrtcAgentBridge.run` is, one
label per blocking call or `select`; `session` is its peer connection, `live` whether
it is published as `liveSession`, `pump` the signal pump: the socket, the reader and
the writer goroutine and the flags `suppressLost` and `lostOnce`. The reader's
handlers (`handleAnswer`, `handleCandidate`, `handleViewerReady`,
`handleViewerDetach`) are a step each, making an offer and queueing it two.
`signalingLost` and `reconnectNow` are the two channels of capacity one, `signalOut`
counts what waits in that queue, `main` is the goroutine that waits for the first
connection and closes the bridge. `pending` is
`pendingCandidates`; `received` and `given` are history: the candidates received since the
round's offer was begun, and those of them that pion was given. Signals of the
viewer come in any order and number, late ones of an earlier offer included; the connection drops at any time; pion may
refuse to make an offer or to roll one back. Data channels, PTY traffic and the
P2P half of the status line are left out.

*AuthRecovery.* A session (access and refresh token) is a number, `profile` the
one in the file, `auth` what a heartbeat or bridge has in memory. An attempt is
`call`, `refresh`, `retry`, `reload`, `recall`, `rerefresh`, then `apply`, `share`,
`save`, each a step, because the code holds no lock across any two of them;
`webrtc_connect.go` and the two functions of `request_auth_recovery.go` are the
same walk with a different last resort. The heartbeat adds the user key
(`exchange`, `rejoin`) and the two ways to stop. `AccessExpires` assumes that the
one request between a refresh and the save (15 seconds at most) does not outlast
an access token (10 minutes). `dropped`, `faults` and `raced` are history.

*ReleaseVersions, SelfUpdate.* A version is a record of its dotted parts and the rank
of its prerelease. An invocation is at one label per request and file operation.
`exe` is the file all of them share, `archive` and `latest` what the publisher put up
last; both grow between any two steps. A GET brings the manifest or the archive of any
release up to that (a mirror that lags behind, a publisher who goes back: a manifest has
no expiry, and the client remembers none) or something `Forged`. A checksum is the
release it was computed from; a signature verifies for what the publisher made.
`Torn` is a file that was being overwritten: no action of the code produces it, the
mutant that writes in place does. `Fails` is every error return, `Killed` a process
that dies without one.

## 3. What is checked

| Run | Instance | Shows |
|---|---|---|
| `lifecycle` | a process and another session, limit 1, 2 connects in flight, timeout 1, retention 3, clock to 2 | `SessionLimit`, `NoLeakedSlot`, `UnregisterIsFinal`, `TerminatedShellEnds`, `RunningAgentIsListed`, `ExitedShellIsForgotten` |
| `registry` | 1 account, 2 sessions, timeout 2, retention 4, lock delay 1, clock to 8 | `RegistryInv` (the inductive invariant of the proofs, with `TombstoneExcludesSession`), `SweepKeepsLiveSessions`, `TerminateAllHitsLiveSessions`, `TerminatedStaysOut` |
| `hub` | 2 agents, 2 viewers, any 3 of them connect, channel of 1, 2 messages | `ClosedPeerForwardsOnce`, `DetachesAccounted`, `ImplementsSeats`, `LostConnectionIsReleased` |
| `admission` | 1 session, 2 viewer tokens and an agent's, 2 requests, skew 1, timeout and retention 2, lock delay 1 | `OneUseBeforeExpiry`, `TerminatedAdmitsNoViewer`, `LiveAgentIsReachable` |
| `replay_once` | 2 tokens, 3 requests, skew 1 | violated: `AcceptedOnce` |
| `exchange` | 2 keys, 2 subjects, 1 transaction id, 1 address, 2 requests, limit 2, window 2, lock delay 1 | `IndexesMatchItems`, `NoSubjectTakeover`, `GuessesBounded`, `LockoutEnds` |
| `auth` | 1 key, 2 subjects, 3 refresh tokens, 1 login key, 2 requests | `LoginIsOneChain`, `LoginKeyGoodForOneAttempt` |
| `bridge` | queue of 2, 2 candidates, every signal, drop and refusal | `LossIsOfTheCurrentPump`, `NothingLeftBehind`, `OfferAskedOrReplaced`, `CandidatesMeetTheirAnswer`, `CloseCompletes`, `LostPumpGoes` |
| `bridge_answer` | queue of 1, 1 candidate | violated: `OfferIsGivenUp` |
| `auth_recovery` | a shell of the profile and one of a user key, each with its bridge, 4 sessions, failures | `LoginIsKept`, `StopsForAReason`, `KeyStaysOutOfProfile`, `ProfileNeverGoesBack` |
| `auth_recovery_live` | a shell of the profile with its bridge, one of a user key without, 1 command, 4 sessions, no failures | `AuthRecovers` |
| `selfupdate` | 2 invocations, 3 releases (1.2, 1.10-rc, 1.10.0) of which one does not know its version and one has an old one; all versions of up to 3 parts from 0 to 2 and prereleases to 2 (`MaxParts`, `MaxPart`, `MaxPrerelease`) | `ExecutableIsWhole`, `ReplacesOnce`, `DowngradeNeedsTheHost`, `UpdateSettles`, `VersionsAreOrdered` |

*Bounds.* Accounts, session keys and token IDs share nothing but a mutex, so one
account or session per instance loses no interaction. Two connections of a role
are what replacing needs (both roles at once, 2 and 2, is eight million states and
was checked once, without a difference); two requests in flight are what a race
needs, in the limiter too, where the bound of `GuessesBounded` depends on their
number; three tokens give a login, a rotation and a rival. The clock bounds exceed
the longest duration of the instance, so that every expiry happens, except in
`lifecycle`: there a tombstone outlives the horizon, because that a heartbeat comes
(30 seconds) before a tombstone expires (10 minutes) is a relation of two durations
that fairness cannot express. `LockDelay` 1 makes two stamps arrive out of order (0 in
`lifecycle`: every endpoint is a method of the registry, whose own run and proofs have
the delayed stamps). A
limit of one makes the slot contended. A channel of one makes the full channel
reachable. Four sessions, two of them there at the start, allow two rotations in a
row, which is what a late save or a second refused token needs. Three releases let
one appear between decision and installation and one after it. Constants marked BOUND
in the modules exist for TLC only. Symmetry is used in safety runs only.

*Deadlock* is checked except for `SignalHub`, `GrantReplay`, `ViewerAdmission`,
`AuthRecovery` and `SelfUpdate`: there every connection, request or process ends and
nothing is left to do. `LostConnectionIsReleased` and `UpdateSettles` say what such an
end must look like.

*Fairness.* `LifecycleFairSpec`: the clock, the sweep (`startCleanupLoop` is driven by
a ticker and needs no request) and the connect handlers (the TURN client has a
ten-second timeout) are weakly fair; so are the heartbeat's 404 (a ticker drives it),
the end of a killed shell, unregistering and the client's timeout. Re-registration
and the 410 are strongly fair: a request sent again and again gets through in the
end. So is a `select` that is offered a closed channel again and again. The user
never has to end the shell, no other session owes anything.
`CredentialExchange!FairSpec`: the clock and the requests in flight.
`SignalHub!FairSpec`: a goroutine that can run does, and closing takes two seconds
at most; clients and the network owe nothing. `AgentBridge!FairSpec`: goroutines
run, dials and requests time out, a `select` that is offered a channel again and
again takes it at some time. `AuthRecovery!FairSpec`: tickers tick, requests end, a
stopped heartbeat's process exits; that a bridge attempts again is assumed, since
one that never has to needs no token. `SelfUpdate!FairSpec`: requests have a timeout,
files answer, the user answers the prompt or ends its input. No other action is fair:
no client has to connect, retry or hang up, no release has to appear.

*Assumptions on others.* `PublishedInOrder` of `SelfUpdate`: releases carry versions
that parse and grow. `DowngradeNeedsTheHost` needs it, because the manifest that is
installed from is not compared again. That the host serves the newest of them is not
assumed, nor that it serves them in order. The version a binary believes to have
(`BuiltVersion`) is not assumed to be right.

### Findings

`bridge_answer`: `interactive_config.go:23` says of `-answer-timeout` "How long to
wait for a viewer answer before returning to local-only mode"; the value is read
nowhere. TLC shows an offer that stays pending for ever on a healthy connection.

`replay_once`: `docs/architecture.md:59-60` says "A signaling token ID must be
accepted once globally, not once per process". The validator accepts a token for
the clock skew (30 seconds) beyond its expiry; the store keeps the ID until the
expiry only. TLC shows one ID accepted twice. `OneUseBeforeExpiry` and
`SecondUseIsLate`, proved in general, say exactly what does hold.

A few behaviours are worth knowing although no line of the repository says otherwise.
A session that is terminated after its `/connect` and before its first registration
gets a 410 that is only a warning (`interactive_session.go:99`): it has no heartbeat
and runs on, unlisted. `TerminatedShellEnds` therefore speaks of shells with a
heartbeat. A bridge that reconnects between unregistering and `Close` leaves a listing
behind until the sweep. What the second fetch of an update
brings is installed without a look at its version, and the message names what the first
brought: a release that appeared in between, or, from a host that went back, an earlier
one than the invocation runs. That is the one way it is downgraded
(`DowngradeNeedsTheHost`); an overlapping invocation can also put what it decided on over
something newer that another has just installed. A shell that runs on after `shellin logout` writes the
profile again at its next refresh, because a save does not look at what it replaces.
And the bridge of a shell started with `-user-key` falls back on the default profile:
it can take over the stored login and rotate its refresh token, while the empty
profile path of its heartbeat keeps the successor from being saved. `LoginIsKept`
names both among the known ways a session is given up.

## 4. What is proved

All theorems hold for every value of the constants that satisfies the named
assumptions of the modules: durations are naturals, the markers for "no entry" are not
values, an account's limit and a channel's capacity are at least 1, the publisher
publishes in order (`PublishedInOrder`), a shell has one heartbeat and one bridge
(`ActorsAssumption`), only finitely many requests are in flight at once
(`HandlerAssumption`). The bounds marked BOUND may be any other number or finite set.

The pattern is the same everywhere: the property is not inductive, a stronger one is,
and the theorem on the stronger one (`…Invariant`) comes first.

*AgentRegistry* (`AgentLifecycleProofs`). `TombstoneExcludesSession` is inductive
with the type invariant. The three action properties are not consequences of it:
they speak of real time, the code of stamps. `StampsBounded` relates a stamp to
the real time of its write, `TombstonesKept` a tombstone to the real time of the
termination; together they are `RegistryInv`. From it follow `SweepIsSafe`,
`TerminateAllIsComplete` and `TerminationHolds`.

*AgentHandlers, AgentLifecycle* (`AgentLifecycleProofs`). `RegistryStep`: each step of
the endpoints is a registry step or leaves the registry alone; hence
the lemma `HandlersImplementRegistry`, by which the registry's theorems carry over.
`SessionLimitHolds` is a counting argument over the finite set of listed
sessions. `NoSlotLeaks` follows the claim of a `/connect` through every other
request. Each step of the process and of the other session is a step of the endpoints
(`LifecycleImplementsHandlers`), so all of it holds with them as clients:
`LifecycleSafety` says that no slot is exceeded or leaked, that a cleanup hits every live
session and what it hit stays out, and that the sweep drops no live session. `UnregisteringIsFinal` needs to know what heartbeat, bridge and
`/connect` handlers of a stopping shell can still do to its entry.

*GrantReplay, ViewerAdmission* (`ViewerAdmissionProofs`). `OneUseBeforeExpiry` needs
`RecordsMatchUses`: a used token that has not expired is recorded until its
expiry. The lemma `SweepForgetsNoLiveUse` is the point: the sweep inside another
token's consume keeps that record. The admission implements the replay guard
(`AdmissionImplementsReplay`), so this holds at the door. `AdmissionInv` has the
registry's invariant and `DoorOK`: for a viewer that is past the lookup, its session was
not terminated between its token and the lookup. That a live agent is found follows from
what `StampsBounded` says of the stamp the lookup compares. The provers cannot use a theorem of an instantiated module, so the registry's
invariant is proved once more under the names of the instance.

*UserKeyStore, AuthTokens* (`AuthTokensProofs`). `IndexesMatchItems` is inductive with
the type invariant; the uniqueness checks read the indexes only, so each half of the
proof uses the equivalence for the written key and for any other one. `LoginIsOneChain`
counts holders of a login; `ChainInv` says without counting who they are (a stored
token, a rotation between `Consume` and `Issue`, an end) and that no two hold the same
family, and carries along what a request learned from `Peek`. `KeysInv` is
the account of a login key's issues: spent, at an attempt, or stored.

*AuthFailureLimiter, CredentialExchange* (`CredentialExchangeProofs`). `GuessesAreBounded`
says, for any limit, window and lock delay, that the wrong guesses of an address within
one window never exceed the limit by more than the requests that were in flight at once.
It is not inductive: the limiter counts records, which it makes later than the guesses
and prunes by stamps that may be old. `GuessesCovered` relates the two: from any time on, there are
no more guesses than records and requests that have still to record one. It is preserved
because a record's stamp is never older than its guess, and because a pruning loses only
what is out of the window in real time too. `AttemptsBounded` is what `Allow` counted:
the records of an address and the requests it let in. Both need that sets of failures
are finite and that an append adds exactly one (`WithFailure`). `LockOutHolds`: as long as
an address has its failures within the window, nobody of it is let in under any stamp, and
only a request let in before adds to them. `ExchangeImplementsStore`: each step is a
step of `UserKeyStore` or leaves it alone, so `IndexesConsistent` and
`SubjectsAreNotTakenOver` hold of it as well.

*SignalHub* (`SignalHubProofs`). `HubInv`: seats are held by connections between the
critical sections of `Register` and `Unregister`, calls are pending only at the labels
that make them, and a peer that forwarded after its close is on the way out. From it
follow `ClosedPeersFallSilent` and the refinement `HubImplementsSeats`: `Register`
and `Unregister` are the steps of `SessionSeats`, all others stutter. For
`DetachesAreAccounted` each step must balance three quantities, what is owed, what is in the
channel and what a handler has still to send (`Balances`); `DetachInv` adds the
types and the finite sets the cardinalities need.

*AgentBridge* (`AgentBridgeProofs`). `BridgeInv`, for a queue of any capacity, adds what
the loop holds at each of its labels (`Holdings`: where it has a pump, a peer connection,
a published session, and that nothing is left to close where it finds none), whose token is in `signalingLost` (`Losses`: none while the loop
recovers or dials, else one its own pump reported), and what the status line may say of
a pump that has not failed (`StatusInv`), and that an offer on its way into the queue is
the one pion has pending (`Offers`), which `CandidatesMeetTheirAnswer` needs. The four safety properties, and
`StatusIsTrue`, are parts or consequences of it.

*AuthRecovery* (`AuthRecoveryProofs`). Two facts carry `RecoveryInv`: the sessions of one
login form a chain of which only the newest has an unused refresh token, and what an
actor has just refreshed is the newest of its login when it is stored. So
`ProfileGoesForward`, `ProfileIsTheUsersOwn` and `ShellsStopForAReason`. `NoLoginIsLost`
strengthens again (`KeptInv`): a session that an attempt reloaded, or a shell of the
stored login has, is used up, given up, in the profile or about to be stored there; a
bridge's own session changes only when it stores one; and the heartbeat of a user key
has the stored login's sessions only from its bridge.

*ReleaseVersions, SelfUpdate* (`SelfUpdateProofs`). `ComparisonIsAnOrder` is about
versions of any length. The loop is a recursive function; that its equation has a
solution, and what it is, is shown with the least number principle, which the library
has in a form for sets. In the same way `ComparisonFollowsTheLine` finds out what the
reference `Rank` computes: after the first part that differs, whatever digits follow leave
the greater version ahead. `VersionsAreOrdered` is this for the bounded versions, of any
bound. The order is what bounds the harm of the second fetch: `UpdateInv` says that what
was decided on is newer than what runs (`Decided`) and that what was fetched the second
time was published (`FetchedAgain`), though perhaps long ago; so an installation goes down
only if the second answer was behind the first (`OnlyTheHostDowngrades`).
`InvocationsReplaceOnce` needs `UpdatesOnce`: the mark in the environment outlives the
re-exec, so whoever has replaced the executable does not come to a check again.

*Model-checked only.* Liveness and its fairness (the liveness part of `ImplementsSeats`,
`LostConnectionIsReleased`, `TerminatedShellEnds`, `RunningAgentIsListed`,
`ExitedShellIsForgotten`, `LockoutEnds`, `CloseCompletes`, `LostPumpGoes`, `AuthRecovers`,
`UpdateSettles`), which is out of this prover's reach. Every safety invariant and action
property of the passing runs is stated by a theorem.

## 5. Not modelled

Left out for good: parsing (the user key specification, flags), formatting, terminal
rendering and PTY traffic, HTTP header rules, signature arithmetic, TURN URL
filtering, error classification that only chooses a text. They keep no state and
interact with nothing. `SignalHub` and `AgentBridge` are not composed: the bridge
takes viewer signals in any order and number, which includes every order the hub
allows, and messages carry nothing by which either could tell a late one. The session
limit of an account is fixed for a behaviour; a limit lowered under running sessions
only makes `SessionLimit` a statement about admissions.
