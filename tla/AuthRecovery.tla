---------------------------- MODULE AuthRecovery ----------------------------
(***************************************************************************)
(* How the CLI keeps its authorization: the heartbeat and the bridge of each *)
(* running shell, and the short commands (status, cleanup, the preflight of  *)
(* a new shell), all of which share one profile file and the one refresh     *)
(* token in it, which the control plane accepts once.                        *)
(*                                                                           *)
(* A session is an access token and the refresh token issued with it, here a *)
(* number; AuthTokens has how the control plane issues them.  Each request   *)
(* is a step, so other processes run between any two of them.                *)
(*                                                                           *)
(* Left out: sessions without a refresh token (every function that makes one *)
(* refuses it), profiles of another control plane, and the requests' own     *)
(* effects, which are in AgentHandlers.                                      *)
(***************************************************************************)
EXTENDS Integers, FiniteSets

CONSTANTS
    Heartbeats,   \* one heartbeat goroutine per running shell
    Bridges,      \* the bridge goroutines
    Commands,     \* one-shot requests: status, cleanup, preflight
    HeartbeatOf,  \* the heartbeat of a bridge's shell, which has one bridge
    UserKeyed,    \* the heartbeats of shells started with -user-key
    MaxSession,   \* bound on the sessions issued
    Unreliable    \* whether requests and writes of the profile may fail

Shells == Heartbeats \cup Bridges
Actors == Shells \cup Commands
Session == 1..MaxSession
None == 0         \* no profile file, or no session in hand

ASSUME ActorsAssumption ==
    /\ Heartbeats \cap Bridges = {}
    /\ Shells \cap Commands = {}
    /\ HeartbeatOf \in [Bridges -> Heartbeats]
    /\ \A b, c \in Bridges : HeartbeatOf[b] = HeartbeatOf[c] => b = c
    /\ UserKeyed \subseteq Heartbeats
    /\ MaxSession \in Nat \ {0, 1}
    /\ Unreliable \in BOOLEAN

VARIABLES
    issued,     \* how many sessions the control plane has issued
    login,      \* the login a session descends from, named by its first session:
                \* n for a login with the CLI, -n for an exchange of a user key
    expired,    \* the sessions whose access token is past its time
    consumed,   \* the sessions whose refresh token was used
    profile,    \* the session in the profile file, or None
    auth,       \* the session a shell's heartbeat or bridge has in memory
    pc,         \* where an actor's attempt is
    using,      \* the session the attempt started with
    got,        \* the session it has refreshed, exchanged or reloaded
    mode,       \* "reloaded" or "refreshed": how it came by got
    dropped,    \* history: sessions given up for a reason the code knows of
    faults,     \* history: something failed, or the user changed the profile
    raced       \* history: a heartbeat was refused the token it had just read
                \* from the profile as well as its own

serverVars == <<issued, login, expired, consumed>>
historyVars == <<dropped, faults, raced>>
authVars == <<serverVars, profile, auth, pc, using, got, mode, historyVars>>

\* The shell of the actor was started with a user key.
WithUserKey(a) == a \in UserKeyed \/ (a \in Bridges /\ HeartbeatOf[a] \in UserKeyed)

InitialSession(a) == IF WithUserKey(a) THEN 2 ELSE 1

\* Shells are running with the session of the profile, or of their user key.
Init ==
    /\ issued = IF UserKeyed = {} THEN 1 ELSE 2
    /\ login = [n \in Session |-> IF n > issued THEN None ELSE IF n = 1 THEN 1 ELSE -n]
    /\ expired = {}
    /\ consumed = {}
    /\ profile = 1
    /\ auth = [a \in Shells |-> InitialSession(a)]
    /\ pc = [a \in Actors |-> "idle"]
    /\ using = [a \in Actors |-> None]
    /\ got = [a \in Actors |-> None]
    /\ mode = [a \in Actors |-> "unchanged"]
    /\ dropped = {}
    /\ faults = FALSE
    /\ raced = [h \in Heartbeats |-> FALSE]

-----------------------------------------------------------------------------
(* The control plane *)

\* Enough numbers remain for the refreshes that are already due.
Room == issued + Cardinality(expired \ consumed) < MaxSession

Issued(n, from) ==
    /\ issued' = n
    /\ login' = [login EXCEPT ![n] = from]

\* An access token lives for minutes (-access-ttl); between the refresh that obtained
\* it and the write of the profile lies one request of 15 seconds at most.  A command
\* lasts a few of them, so what it finds in the profile, newer than what it began
\* with, is as young.  Only what a shell reloads may expire in its hands.
AccessExpires(n) ==
    /\ n \in 1..issued \ expired
    /\ \A a \in Actors : got[a] = n => a \in Shells /\ mode[a] = "reloaded"
    /\ n \in consumed \/ Room
    /\ expired' = expired \cup {n}
    /\ UNCHANGED <<issued, login, consumed, profile, auth, pc, using, got, mode, historyVars>>

-----------------------------------------------------------------------------
(* The first request of an attempt *)

At(a, label) == pc[a] = label
Goto(a, label) == pc' = [pc EXCEPT ![a] = label]

\* The attempt is over; what it had in hand is kept only where it was stored.
Finish(a, label) ==
    /\ Goto(a, label)
    /\ using' = [using EXCEPT ![a] = None]
    /\ got' = [got EXCEPT ![a] = None]
    /\ mode' = [mode EXCEPT ![a] = "unchanged"]

\* currentAuth and getAuthSession copy what the shell has; a command loads the
\* profile, and ends at once when there is none.
Begin(a) ==
    /\ At(a, "idle")
    /\ a \in Commands => profile # None
    /\ using' = [using EXCEPT ![a] = IF a \in Commands THEN profile ELSE auth[a]]
    /\ Goto(a, "call")
    /\ UNCHANGED <<serverVars, profile, auth, got, mode, historyVars>>

CallAccepted(a) ==
    /\ At(a, "call")
    /\ using[a] \notin expired
    /\ Finish(a, "idle")
    /\ UNCHANGED <<serverVars, profile, auth, historyVars>>

CallUnauthorized(a) ==
    /\ At(a, "call")
    /\ using[a] \in expired
    /\ Goto(a, "refresh")
    /\ UNCHANGED <<serverVars, profile, auth, using, got, mode, historyVars>>

\* Any other error of this request, or of the one after a reload, ends the attempt.
CallFails(a) ==
    /\ Unreliable
    /\ At(a, "call") \/ At(a, "recall")
    /\ Finish(a, "idle")
    /\ faults' = TRUE
    /\ UNCHANGED <<serverVars, profile, auth, dropped, raced>>

-----------------------------------------------------------------------------
(* Refreshing *)

\* refreshControlPlaneAuth is called with the attempt's own token, and by the
\* heartbeat and the commands once more with the one they reloaded.
Refreshing(a) == At(a, "refresh") \/ At(a, "rerefresh")
Presented(a) == IF At(a, "refresh") THEN using[a] ELSE got[a]

\* tryUserKeyFallback: without a user key the heartbeat stops for good.
GiveUp(h) == IF h \in UserKeyed THEN "exchange" ELSE "stopped"

RefreshGranted(a) ==
    /\ Refreshing(a)
    /\ Presented(a) \notin consumed
    /\ issued < MaxSession
    /\ consumed' = consumed \cup {Presented(a)}
    /\ Issued(issued + 1, login[Presented(a)])
    /\ got' = [got EXCEPT ![a] = issued + 1]
    /\ mode' = [mode EXCEPT ![a] = "refreshed"]
    /\ Goto(a, "retry")
    /\ UNCHANGED <<expired, profile, auth, using, historyVars>>

\* After an error: reload the profile, or, the second time, give up.
RefreshError(a) ==
    IF At(a, "refresh")
    THEN Goto(a, "reload") /\ UNCHANGED <<using, got, mode>>
    ELSE Finish(a, IF a \in Heartbeats THEN GiveUp(a) ELSE "idle")

RefreshRefused(a) ==
    /\ Refreshing(a)
    /\ Presented(a) \in consumed
    /\ RefreshError(a)
    /\ raced' = [h \in Heartbeats |-> raced[h] \/ (h = a /\ At(a, "rerefresh"))]
    /\ UNCHANGED <<serverVars, profile, auth, dropped, faults>>

\* The request does not arrive, or its answer is lost on the way back.
RefreshFails(a) ==
    /\ Unreliable
    /\ Refreshing(a)
    /\ \/ UNCHANGED <<serverVars, dropped>>
       \/ /\ Presented(a) \notin consumed
          /\ issued < MaxSession
          /\ consumed' = consumed \cup {Presented(a)}
          /\ Issued(issued + 1, login[Presented(a)])
          /\ dropped' = dropped \cup {issued + 1}
          /\ UNCHANGED expired
    /\ RefreshError(a)
    /\ faults' = TRUE
    /\ UNCHANGED <<profile, auth, raced>>

\* The request is made again with the refreshed session; if it fails, the session
\* is not returned and nobody has it.
RetryAccepted(a) ==
    /\ At(a, "retry") \/ At(a, "rejoin")
    /\ Goto(a, IF a \in Commands THEN "save" ELSE "apply")
    /\ UNCHANGED <<serverVars, profile, auth, using, got, mode, historyVars>>

RetryFails(a) ==
    /\ Unreliable
    /\ At(a, "retry") \/ At(a, "rejoin")
    /\ Finish(a, IF At(a, "rejoin") THEN "stopped" ELSE "idle")
    /\ dropped' = dropped \cup {got[a]}
    /\ faults' = TRUE
    /\ UNCHANGED <<serverVars, profile, auth, raced>>

-----------------------------------------------------------------------------
(* Reloading the shared profile *)

\* Mutant of Reload: a heartbeat whose token was refused does not look at the profile.
ReloadNever(a) ==
    /\ At(a, "reload")
    /\ Finish(a, IF a \in Heartbeats THEN GiveUp(a) ELSE "idle")
    /\ UNCHANGED <<serverVars, profile, auth, historyVars>>

\* loadUpdatedControlPlaneAuthFromProfile: whether it has a session other than the
\* current one.  A heartbeat does not remember when its tokens expire, so whatever
\* it reads differs; one with a user key has no profile path.  (The bridge of such
\* a shell reads the default profile nevertheless.)
Changed(a) ==
    /\ profile # None
    /\ a \notin UserKeyed
    /\ a \in Heartbeats \/ profile # using[a]

Reload(a) ==
    /\ At(a, "reload")
    /\ IF Changed(a)
       THEN /\ got' = [got EXCEPT ![a] = profile]
            /\ mode' = [mode EXCEPT ![a] = "reloaded"]
            /\ Goto(a, "recall")
            /\ UNCHANGED using
       ELSE Finish(a, IF a \in Heartbeats THEN GiveUp(a) ELSE "idle")
    /\ UNCHANGED <<serverVars, profile, auth, historyVars>>

RecallAccepted(a) ==
    /\ At(a, "recall")
    /\ got[a] \notin expired
    /\ Goto(a, IF a \in Commands THEN "save" ELSE "apply")
    /\ UNCHANGED <<serverVars, profile, auth, using, got, mode, historyVars>>

\* The bridge leaves it at that until its next attempt.
RecallUnauthorized(a) ==
    /\ At(a, "recall")
    /\ got[a] \in expired
    /\ IF a \in Bridges
       THEN Finish(a, "idle")
       ELSE Goto(a, "rerefresh") /\ UNCHANGED <<using, got, mode>>
    /\ UNCHANGED <<serverVars, profile, auth, historyVars>>

-----------------------------------------------------------------------------
(* The heartbeat's last resort: its user key *)

ExchangeGranted(h) ==
    /\ At(h, "exchange")
    /\ Room
    /\ Issued(issued + 1, -(issued + 1))
    /\ got' = [got EXCEPT ![h] = issued + 1]
    /\ mode' = [mode EXCEPT ![h] = "refreshed"]
    /\ Goto(h, "rejoin")
    /\ UNCHANGED <<expired, consumed, profile, auth, using, historyVars>>

ExchangeFails(h) ==
    /\ Unreliable
    /\ At(h, "exchange")
    /\ Finish(h, "stopped")
    /\ faults' = TRUE
    /\ UNCHANGED <<serverVars, profile, auth, dropped, raced>>

\* 410 to a heartbeat: its session was terminated.
Terminated(h) ==
    /\ \/ At(h, "call") /\ using[h] \notin expired
       \/ At(h, "recall") /\ got[h] \notin expired
       \/ At(h, "retry") \/ At(h, "rejoin")
    /\ Finish(h, "terminated")
    /\ dropped' = IF At(h, "retry") \/ At(h, "rejoin") THEN dropped \cup {got[h]} ELSE dropped
    /\ UNCHANGED <<serverVars, profile, auth, faults, raced>>

-----------------------------------------------------------------------------
(* Storing what the attempt obtained *)

\* A session that gives way to one of another login is dropped.
Replaces(new, old) ==
    dropped' = IF old # None /\ login[old] # login[new] THEN dropped \cup {old} ELSE dropped

\* Mutant of Stored: the shell of a user key has the path of the profile as well.
StoredAnyway(a, h) ==
    IF mode[a] = "refreshed"
    THEN Goto(a, "save") /\ UNCHANGED <<using, got, mode>>
    ELSE Finish(a, "idle")

\* Mutant of Stored: a bridge's refresh is kept in memory only.
StoredUnlessBridge(a, h) ==
    IF mode[a] = "refreshed" /\ h \notin UserKeyed /\ a \notin Bridges
    THEN Goto(a, "save") /\ UNCHANGED <<using, got, mode>>
    ELSE Finish(a, "idle")

\* Mutant of Stored: what was reloaded is written back.
StoredAfterReload(a, h) ==
    IF h \notin UserKeyed
    THEN Goto(a, "save") /\ UNCHANGED <<using, got, mode>>
    ELSE Finish(a, "idle")

\* ApplyAuthUpdate writes the profile after a refresh, not after a reload.
Stored(a, h) ==
    IF mode[a] = "refreshed" /\ h \notin UserKeyed
    THEN Goto(a, "save") /\ UNCHANGED <<using, got, mode>>
    ELSE Finish(a, "idle")

\* setAuth of a heartbeat, setAuthSession of a bridge ...
Apply(a) ==
    /\ At(a, "apply")
    /\ auth' = [auth EXCEPT ![a] = got[a]]
    /\ Replaces(got[a], auth[a])
    /\ IF a \in Bridges
       THEN Goto(a, "share") /\ UNCHANGED <<using, got, mode>>
       ELSE Stored(a, a)
    /\ UNCHANGED <<serverVars, profile, faults, raced>>

\* ... which then tells its heartbeat.  The heartbeat never tells the bridge.
Share(b) ==
    LET h == HeartbeatOf[b]
    IN  /\ At(b, "share")
        /\ auth' = [auth EXCEPT ![h] = got[b]]
        /\ Replaces(got[b], auth[h])
        /\ Stored(b, h)
        /\ UNCHANGED <<serverVars, profile, faults, raced>>

\* saveAuthProfile replaces the file in one step (rename), whatever is in it.
SaveSucceeds(a) ==
    /\ At(a, "save")
    /\ profile' = got[a]
    /\ Replaces(got[a], profile)
    /\ Finish(a, "idle")
    /\ UNCHANGED <<serverVars, auth, faults, raced>>

SaveFails(a) ==
    /\ Unreliable
    /\ At(a, "save")
    /\ dropped' = dropped \cup {got[a]}
    /\ faults' = TRUE
    /\ Finish(a, "idle")
    /\ UNCHANGED <<serverVars, profile, auth, raced>>

-----------------------------------------------------------------------------
(* Login, logout and the end of a shell *)

Login ==
    /\ Room
    /\ Issued(issued + 1, issued + 1)
    /\ profile' = issued + 1
    /\ dropped' = IF profile = None THEN dropped ELSE dropped \cup {profile}
    /\ faults' = TRUE
    /\ UNCHANGED <<expired, consumed, auth, pc, using, got, mode, raced>>

Logout ==
    /\ profile # None
    /\ profile' = None
    /\ dropped' = dropped \cup {profile}
    /\ faults' = TRUE
    /\ UNCHANGED <<serverVars, auth, pc, using, got, mode, raced>>

\* A shell that ends waits for its heartbeat's and its bridge's attempts.  A shell of
\* a user key saves nothing, so what it has goes with it: also the profile's login,
\* if its bridge took that over and refreshed it.
ShellEnds(a) ==
    /\ At(a, "idle")
    /\ a \in Bridges => At(HeartbeatOf[a], "exited")
    /\ Goto(a, "exited")
    /\ dropped' = IF WithUserKey(a) THEN dropped \cup {auth[a]} ELSE dropped
    /\ UNCHANGED <<serverVars, profile, auth, using, got, mode, faults, raced>>

\* onFatal: a heartbeat that stopped ends its process, and a bridge that is in the
\* middle of an attempt loses what it has not saved.
ProcessEnds(h) ==
    LET bridges == {b \in Bridges : HeartbeatOf[b] = h}
        ended == bridges \cup {h}
    IN  /\ At(h, "stopped") \/ At(h, "terminated")
        /\ pc' = [a \in Actors |-> IF a \in ended THEN "exited" ELSE pc[a]]
        /\ using' = [a \in Actors |-> IF a \in ended THEN None ELSE using[a]]
        /\ got' = [a \in Actors |-> IF a \in ended THEN None ELSE got[a]]
        /\ mode' = [a \in Actors |-> IF a \in ended THEN "unchanged" ELSE mode[a]]
        /\ dropped' = dropped \cup {got[b] : b \in {c \in bridges : mode[c] = "refreshed"}}
                             \cup (IF h \in UserKeyed THEN {auth[a] : a \in ended} ELSE {})
        /\ UNCHANGED <<serverVars, profile, auth, faults, raced>>

-----------------------------------------------------------------------------
Attempt(a) ==
    \/ CallAccepted(a) \/ CallUnauthorized(a)
    \/ RefreshGranted(a) \/ RefreshRefused(a) \/ RetryAccepted(a)
    \/ Reload(a) \/ RecallAccepted(a) \/ RecallUnauthorized(a)
    \/ SaveSucceeds(a)
    \/ a \in Shells /\ Apply(a)
    \/ a \in Bridges /\ Share(a)
    \/ a \in Heartbeats /\ ExchangeGranted(a)

Failure(a) ==
    \/ CallFails(a) \/ RefreshFails(a) \/ RetryFails(a) \/ SaveFails(a)
    \/ a \in Heartbeats /\ ExchangeFails(a)

Next ==
    \/ \E a \in Actors : Begin(a) \/ Attempt(a) \/ Failure(a)
    \/ \E a \in Shells : ShellEnds(a)
    \/ \E h \in Heartbeats : Terminated(h) \/ ProcessEnds(h)
    \/ \E n \in Session : AccessExpires(n)
    \/ Login \/ Logout

Spec == Init /\ [][Next]_authVars

\* Tickers tick; a bridge is asked to reconnect again and again (one that never is
\* needs no token); every request ends, for the HTTP client times out.  A heartbeat that stopped has killed the
\* shell, so its process exits, and a bridge whose shell is ending sees closeCh
\* between two attempts.
FairSpec ==
    /\ Spec
    /\ \A a \in Shells : WF_authVars(Begin(a)) /\ WF_authVars(Attempt(a))
    /\ \A h \in Heartbeats : WF_authVars(ProcessEnds(h))
    /\ \A b \in Bridges : SF_authVars(ShellEnds(b))

-----------------------------------------------------------------------------
(* Properties *)

Label == {"idle", "call", "refresh", "retry", "reload", "recall", "rerefresh", "exchange",
          "rejoin", "apply", "share", "save", "stopped", "terminated", "exited"}

\* The types, and that an attempt has a session in hand where it presents one.
AuthTypeOK ==
    /\ issued \in Session
    /\ login \in [Session -> -MaxSession..MaxSession]
    /\ expired \subseteq 1..issued
    /\ consumed \subseteq 1..issued
    /\ profile \in 0..issued
    /\ auth \in [Shells -> 1..issued]
    /\ pc \in [Actors -> Label]
    /\ using \in [Actors -> 0..issued]
    /\ got \in [Actors -> 0..issued]
    /\ mode \in [Actors -> {"unchanged", "reloaded", "refreshed"}]
    /\ dropped \subseteq 1..issued
    /\ faults \in BOOLEAN
    /\ raced \in [Heartbeats -> BOOLEAN]
    /\ \A a \in Actors : pc[a] \in {"retry", "recall", "rerefresh", "rejoin", "apply", "share",
                                   "save"} => got[a] # None

\* Every refresh token the control plane would still accept is in the profile or
\* with a running attempt or shell, unless it was given up where the code gives one
\* up: an answer lost, a retried request or a save that failed, the process stopped
\* in between, another login's session written over it, a user key's shell ended
\* (with all it had, see ShellEnds).
LoginIsKept ==
    \A n \in 1..issued \ consumed :
        \/ n \in dropped
        \/ profile = n
        \/ \E a \in Actors : pc[a] # "exited" /\ (got[a] = n \/ (a \in Shells /\ auth[a] = n))

\* No save puts an earlier session of the same login back into the profile, however
\* late it comes: its refresh token would be used up.
ProfileNeverGoesBack ==
    [][profile # None /\ profile' # None /\ login'[profile] = login'[profile']
           => profile <= profile']_authVars

\* A shell started with a user key has its sessions for itself: none of them gets into
\* the profile, which is the user's own login, by whichever of its goroutines or the
\* other shells' (the empty profile path of resolveControlPlaneAuth).
KeyStaysOutOfProfile == profile # None => login[profile] > 0

\* A heartbeat ends its shell for want of authorization only after a request or a
\* save failed, the user logged in or out, or another actor was faster with both
\* tokens it tried: its own and the one the profile had when it looked.
StopsForAReason ==
    \A h \in Heartbeats : pc[h] = "stopped" => faults \/ raced[h]

\* With a network that works and a profile nobody removes, heartbeat and bridge of a
\* shell of the stored login get back to a valid access token after every expiry,
\* whichever of them or of the other processes refreshes it, unless their shell ends.
\* (The bridge of a user key's shell may not: it never learns of its heartbeat's
\* exchange and looks for its successor in a profile that will not have it.)
AuthRecovers ==
    \A a \in Shells : ~WithUserKey(a) =>
        (auth[a] \in expired ~> (auth[a] \notin expired \/ faults
                                 \/ pc[a] \in {"stopped", "terminated", "exited"}))
=============================================================================
