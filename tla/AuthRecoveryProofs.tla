------------------------- MODULE AuthRecoveryProofs -------------------------
(***************************************************************************)
(* Proofs about AuthRecovery, for any number of shells and commands, any    *)
(* number of sessions, and requests that fail or work.                      *)
(*                                                                          *)
(* Two facts carry the argument.  Sessions of one login form a chain: of    *)
(* those only the newest has a refresh token that was not used.  And what   *)
(* an actor has just refreshed cannot have expired before it is stored, so  *)
(* it is the newest of its login when it is.                                *)
(***************************************************************************)
EXTENDS AuthRecovery, FiniteSetTheorems, TLAPS

\* Where an actor has nothing in hand ...
Resting == {"idle", "exchange", "stopped", "terminated", "exited"}
\* ... only what it started with ...
Asking == {"call", "refresh", "reload"}
\* ... or what it obtained as well.
Renewed == {"retry", "rejoin"}
Reloaded == {"recall", "rerefresh"}
Storing == {"apply", "share", "save"}

Holder(a) == ~WithUserKey(a)     \* an actor of the stored login

\* The state of a's attempt, by where it is.
AttemptOK(a) ==
    /\ pc[a] \in Resting => using[a] = None /\ got[a] = None /\ mode[a] = "unchanged"
    /\ pc[a] \in Asking => using[a] # None /\ got[a] = None /\ mode[a] = "unchanged"
    /\ pc[a] \in Renewed => got[a] # None /\ mode[a] = "refreshed"
    /\ pc[a] \in Reloaded => got[a] # None /\ mode[a] = "reloaded"
    /\ pc[a] \in Storing => got[a] # None /\ mode[a] \in {"reloaded", "refreshed"}
    /\ pc[a] \in {"exchange", "rejoin"} => a \in UserKeyed
    /\ mode[a] = "reloaded" => a \notin UserKeyed

\* What was refreshed is still valid, what is presented again is not.
Freshness(a) ==
    /\ pc[a] # "call" => using[a] \in expired \cup {None}
    /\ pc[a] = "rerefresh" => got[a] \in expired
    /\ mode[a] = "refreshed" => got[a] \notin expired
    /\ pc[a] = "save" => /\ got[a] \notin expired
                         /\ a \in Commands \/ mode[a] = "refreshed"
                         /\ Holder(a)

\* The control plane's side: a chain of sessions for each login, of which all but the
\* newest have been refreshed, each when its access token had expired.
ServerOK ==
    /\ issued \in Session
    /\ login \in [Session -> -MaxSession..MaxSession]
    /\ expired \subseteq 1..issued
    /\ consumed \subseteq expired
    /\ \A n \in 1..issued : login[n] \in -n..n /\ login[n] # 0
    /\ \A m, n \in 1..issued : m < n /\ login[m] = login[n] => m \in consumed

\* A session of a login with the CLI, or none.
Own(n) == n # None => login[n] > 0

\* Whoever may write the profile has sessions of logins with the CLI only.
StoreOK ==
    /\ profile \in 0..issued
    /\ auth \in [Shells -> 1..issued]
    /\ Own(profile)
    /\ \A a \in Shells : Holder(a) => Own(auth[a])
    /\ profile = None => faults

AttemptsOK ==
    /\ pc \in [Actors -> Label]
    /\ using \in [Actors -> 0..issued]
    /\ got \in [Actors -> 0..issued]
    /\ mode \in [Actors -> {"unchanged", "reloaded", "refreshed"}]
    /\ \A a \in Actors :
        /\ AttemptOK(a)
        /\ Freshness(a)
        /\ Holder(a) => Own(using[a]) /\ Own(got[a])

HistoryOK ==
    /\ dropped \subseteq 1..issued
    /\ faults \in BOOLEAN
    /\ raced \in [Heartbeats -> BOOLEAN]
    /\ StopsForAReason

RecoveryInv == ServerOK /\ StoreOK /\ AttemptsOK /\ HistoryOK

-----------------------------------------------------------------------------
\* Session n needs nobody to keep it: it is used up, given up, or in the profile.
Safe(n) == n \in consumed \cup dropped \cup {profile}

\* What was read from the profile.
ReloadedIsSafe == \A a \in Actors : mode[a] = "reloaded" => Safe(got[a]) /\ login[got[a]] > 0

\* What a shell of the stored login has is safe or about to be stored.
AuthIsSafe ==
    \A a \in Shells : Holder(a) =>
        \/ Safe(auth[a])
        \/ \E c \in Actors : Holder(c) /\ mode[c] = "refreshed" /\ got[c] = auth[a]

\* A bridge's own session changes only when the bridge stores one, and not to an
\* earlier one of the same login.
BridgeGoesForward ==
    \A b \in Bridges :
        /\ pc[b] \notin Resting \cup {"share", "save"} => using[b] = auth[b]
        /\ pc[b] = "share" => auth[b] = got[b]
        /\ pc[b] = "apply" /\ login[auth[b]] = login[got[b]] => auth[b] <= got[b]

\* Session n is not in the profile, was not read from there, and is not on its way there.
Private(n) ==
    /\ profile # n
    /\ \A c \in Actors : Holder(c) \/ mode[c] = "reloaded" => got[c] # n

Has(h) == {auth[h], using[h], got[h]} \ {None}

\* The heartbeat of a user key has sessions of the stored login only from its bridge.
KeyedFromBridge ==
    \A b \in Bridges : HeartbeatOf[b] \in UserKeyed =>
        \A s \in Has(HeartbeatOf[b]) :
            /\ login[s] > 0 => s \in expired \/ s = auth[b] \/ Private(s)
            /\ /\ pc[b] \in {"apply", "share"} /\ mode[b] = "reloaded"
               /\ login[s] = login[got[b]]
               => s < got[b]

KeptInv == ReloadedIsSafe /\ AuthIsSafe /\ BridgeGoesForward /\ KeyedFromBridge /\ LoginIsKept

-----------------------------------------------------------------------------
(* The control plane *)

\* What every step leaves to the actors that do not take it.
Onward ==
    /\ issued <= issued'
    /\ \A n \in 1..issued : login'[n] = login[n]
    /\ expired \subseteq expired'
    /\ \A a \in Actors : got[a] \in expired' \ expired => a \in Shells /\ mode[a] = "reloaded"
    /\ faults => faults'

\* A step that asks nothing new of the control plane.
LEMMA ServerSame ==
  ASSUME ServerOK, UNCHANGED serverVars
  PROVE  ServerOK'
  BY DEF ServerOK, serverVars

\* A refresh token is accepted once, and the chain of its login grows by one.
LEMMA ServerRefreshes ==
  ASSUME ServerOK, NEW s \in 1..issued, s \in expired, s \notin consumed,
         issued < MaxSession, Issued(issued + 1, login[s]),
         consumed' = consumed \cup {s}, expired' = expired
  PROVE  /\ ServerOK'
         /\ issued' = issued + 1
         /\ \A n \in 1..issued : login'[n] = login[n]
         /\ login'[issued + 1] = login[s]
<1> USE ActorsAssumption DEF Session
<1>1. /\ issued' = issued + 1
      /\ issued + 1 \in Session
      /\ \A n \in 1..issued : n \in Session /\ n # issued + 1
  BY DEF Issued, ServerOK
<1>2. /\ \A n \in 1..issued : login'[n] = login[n]
      /\ login'[issued + 1] = login[s]
      /\ login' \in [Session -> -MaxSession..MaxSession]
  BY <1>1 DEF Issued, ServerOK
<1>3. \A n \in 1..issued' : n \in 1..issued \/ n = issued + 1
  BY <1>1 DEF ServerOK
<1>4. \A n \in 1..issued' : login'[n] \in -n..n /\ login'[n] # 0
  BY <1>1, <1>2, <1>3 DEF ServerOK
<1>5. ASSUME NEW m \in 1..issued', NEW n \in 1..issued', m < n, login'[m] = login'[n]
      PROVE  m \in consumed'
  <2>1. m \in 1..issued
    BY <1>1, <1>3, <1>5 DEF ServerOK
  <2>2. CASE n \in 1..issued
    BY <1>2, <1>5, <2>1, <2>2 DEF ServerOK
  <2>3. CASE n = issued + 1
    <3>1. login[m] = login[s]
      BY <1>2, <1>5, <2>1, <2>3
    <3>2. m = s \/ m < s \/ s < m
      BY <2>1
    <3>3. QED
      BY <2>1, <3>1, <3>2 DEF ServerOK
  <2>4. QED
    BY <1>3, <2>2, <2>3
<1>6. expired' \subseteq 1..issued' /\ consumed' \subseteq expired'
  BY <1>1 DEF ServerOK
<1>7. QED
  BY <1>1, <1>2, <1>4, <1>5, <1>6 DEF ServerOK

\* A login and an exchange of a user key begin a chain of their own.
LEMMA ServerLogsIn ==
  ASSUME ServerOK, NEW l \in {issued + 1, -(issued + 1)},
         issued < MaxSession, Issued(issued + 1, l), UNCHANGED <<expired, consumed>>
  PROVE  /\ ServerOK'
         /\ issued' = issued + 1
         /\ \A n \in 1..issued : login'[n] = login[n]
         /\ login'[issued + 1] = l
<1> USE ActorsAssumption DEF Session
<1>1. /\ issued' = issued + 1
      /\ issued + 1 \in Session
      /\ \A n \in 1..issued : n \in Session /\ n # issued + 1
  BY DEF Issued, ServerOK
<1>2. /\ \A n \in 1..issued : login'[n] = login[n]
      /\ login'[issued + 1] = l
      /\ login' \in [Session -> -MaxSession..MaxSession]
  BY <1>1 DEF Issued, ServerOK
<1>3. \A n \in 1..issued' : n \in 1..issued \/ n = issued + 1
  BY <1>1 DEF ServerOK
<1>4. \A n \in 1..issued' : login'[n] \in -n..n /\ login'[n] # 0
  <2>1. \A n \in 1..issued : login'[n] \in -n..n /\ login'[n] # 0
    BY <1>2 DEF ServerOK
  <2>2. l \in -(issued + 1)..(issued + 1) /\ l # 0
    BY DEF ServerOK
  <2>3. QED
    BY <1>2, <1>3, <2>1, <2>2
<1>5. ASSUME NEW m \in 1..issued', NEW n \in 1..issued', m < n, login'[m] = login'[n]
      PROVE  m \in consumed'
  <2>1. m \in 1..issued
    BY <1>1, <1>3, <1>5 DEF ServerOK
  <2>2. CASE n \in 1..issued
    BY <1>2, <1>5, <2>1, <2>2 DEF ServerOK
  <2>3. CASE n = issued + 1
    <3>1. login[m] = l /\ login[m] \in -m..m
      BY <1>2, <1>5, <2>1, <2>3 DEF ServerOK
    <3>2. QED
      BY <1>1, <2>1, <3>1 DEF ServerOK
  <2>4. QED
    BY <1>3, <2>2, <2>3
<1>6. expired' \subseteq 1..issued' /\ consumed' \subseteq expired'
  BY <1>1 DEF ServerOK
<1>7. QED
  BY <1>1, <1>2, <1>4, <1>5, <1>6 DEF ServerOK

\* Room leaves a number for the session.
LEMMA RoomForOne == ServerOK /\ Room => issued < MaxSession
<1> SUFFICES ASSUME ServerOK, Room
             PROVE  issued < MaxSession
  OBVIOUS
<1>1. issued \in Nat
  BY ActorsAssumption DEF ServerOK, Session
<1>2. IsFiniteSet(1..issued)
  BY <1>1, FS_Interval
<1>3. IsFiniteSet(expired \ consumed)
  BY <1>2, FS_Subset DEF ServerOK
<1>4. Cardinality(expired \ consumed) \in Nat
  BY <1>3, FS_CardinalityType
<1>5. QED
  BY <1>1, <1>4, ActorsAssumption DEF Room

-----------------------------------------------------------------------------
(* The actors *)

\* The actors that do not take a step keep what they have.
LEMMA Undisturbed ==
  ASSUME RecoveryInv, ServerOK', Onward, NEW c \in Actors,
         pc'[c] = pc[c], using'[c] = using[c], got'[c] = got[c], mode'[c] = mode[c]
  PROVE  /\ AttemptOK(c)' /\ Freshness(c)'
         /\ Holder(c) => Own(using[c])' /\ Own(got[c])'
<1>1. using[c] \in 0..issued /\ got[c] \in 0..issued
  BY DEF RecoveryInv, AttemptsOK
<1>2. \A n \in 0..issued : n # None => n \in 1..issued
  BY ActorsAssumption DEF RecoveryInv, ServerOK, Session, None
<1>3. AttemptOK(c)'
  BY DEF RecoveryInv, AttemptsOK, AttemptOK
<1>4. Freshness(c)'
  <2>1. AttemptOK(c) /\ Freshness(c)
    BY DEF RecoveryInv, AttemptsOK
  <2>2. c \in Shells => c \notin Commands
    BY ActorsAssumption
  <2>3. QED
    BY <2>1, <2>2 DEF Freshness, Onward, Holder, WithUserKey
<1>5. Holder(c) => Own(using[c])' /\ Own(got[c])'
  BY <1>1, <1>2 DEF RecoveryInv, AttemptsOK, Own, Onward
<1>6. QED
  BY <1>3, <1>4, <1>5

\* Actor a moves: its attempt is at l then, began with u and has g in hand, by way of m.
Takes(a, l, u, g, m) ==
    /\ pc' = [pc EXCEPT ![a] = l]
    /\ using' = [using EXCEPT ![a] = u]
    /\ got' = [got EXCEPT ![a] = g]
    /\ mode' = [mode EXCEPT ![a] = m]

\* Faults and races are remembered; what is dropped was issued.
HistoryKept ==
    /\ dropped' \subseteq 1..issued'
    /\ faults' \in BOOLEAN
    /\ raced' \in [Heartbeats -> BOOLEAN]
    /\ \A h \in Heartbeats : raced[h] => raced'[h]

\* It is enough to look at the actor that moves.
LEMMA OneActs ==
  ASSUME RecoveryInv, ServerOK', StoreOK', Onward, HistoryKept,
         NEW a \in Actors, NEW l \in Label, NEW u \in 0..issued', NEW g \in 0..issued',
         NEW m \in {"unchanged", "reloaded", "refreshed"},
         Takes(a, l, u, g, m), AttemptOK(a)', Freshness(a)',
         Holder(a) => Own(u)' /\ Own(g)',
         a \in Heartbeats /\ l = "stopped" => faults' \/ raced'[a]
  PROVE  RecoveryInv'
<1>1. /\ pc'[a] = l /\ using'[a] = u /\ got'[a] = g /\ mode'[a] = m
      /\ \A c \in Actors : c # a =>
            pc'[c] = pc[c] /\ using'[c] = using[c] /\ got'[c] = got[c] /\ mode'[c] = mode[c]
  BY DEF Takes, RecoveryInv, AttemptsOK
<1>2. \A n \in 0..issued : n \in 0..issued'
  BY ActorsAssumption DEF Onward, RecoveryInv, ServerOK, Session
<1>3. /\ pc' \in [Actors -> Label]
      /\ using' \in [Actors -> 0..issued']
      /\ got' \in [Actors -> 0..issued']
      /\ mode' \in [Actors -> {"unchanged", "reloaded", "refreshed"}]
  BY <1>2 DEF Takes, RecoveryInv, AttemptsOK
<1>4. \A c \in Actors : c # a =>
         AttemptOK(c)' /\ Freshness(c)' /\ (Holder(c) => Own(using[c])' /\ Own(got[c])')
  BY <1>1, Undisturbed
<1>5. Holder(a) => Own(using[a])' /\ Own(got[a])'
  BY <1>1 DEF Own
<1>6. AttemptsOK'
  BY <1>3, <1>4, <1>5 DEF AttemptsOK, Holder, WithUserKey
<1>7. HistoryOK'
  <2>1. \A h \in Heartbeats : h \in Actors
    BY DEF Actors, Shells
  <2>2. StopsForAReason'
    BY <1>1, <2>1 DEF StopsForAReason, RecoveryInv, HistoryOK, HistoryKept, Onward
  <2>3. QED
    BY <2>2 DEF HistoryOK, HistoryKept
<1>8. QED
  BY <1>6, <1>7 DEF RecoveryInv

\* A step that reaches neither the control plane nor the profile nor a shell's memory.
Quiet ==
    /\ UNCHANGED <<serverVars, profile, auth>>
    /\ faults => faults'

LEMMA QuietStep ==
  ASSUME RecoveryInv, Quiet
  PROVE  ServerOK' /\ StoreOK' /\ Onward /\ issued' = issued
<1>1. ServerOK' /\ issued' = issued
  BY ServerSame DEF RecoveryInv, Quiet, serverVars
<1>2. Onward
  BY ActorsAssumption DEF RecoveryInv, ServerOK, Session, Quiet, Onward, serverVars
<1>3. StoreOK'
  BY DEF RecoveryInv, StoreOK, Quiet, Own, serverVars
<1>4. QED
  BY <1>1, <1>2, <1>3

\* Profile and memory stay while the control plane goes on.
LEMMA StoreSame ==
  ASSUME RecoveryInv, Onward, UNCHANGED <<profile, auth>>, issued' \in Nat
  PROVE  StoreOK'
<1>1. /\ \A n \in 0..issued : n \in 0..issued'
      /\ \A n \in 1..issued : n \in 1..issued'
      /\ \A n \in 0..issued : n # None => n \in 1..issued
  BY ActorsAssumption DEF Onward, RecoveryInv, ServerOK, Session, None
<1>2. QED
  BY <1>1 DEF RecoveryInv, StoreOK, Own, Onward

\* The end of an attempt, at any label where nothing is in hand.
LEMMA Finishes ==
  ASSUME RecoveryInv, ServerOK', StoreOK', Onward, HistoryKept,
         NEW a \in Actors, NEW l \in {"idle", "exchange", "stopped", "terminated"}, Finish(a, l),
         l = "exchange" => a \in UserKeyed,
         a \in Heartbeats /\ l = "stopped" => faults' \/ raced'[a]
  PROVE  RecoveryInv'
<1>1. Takes(a, l, None, None, "unchanged") /\ l \in Label
  BY DEF Finish, Goto, Takes, Label
<1>2. pc'[a] = l /\ using'[a] = None /\ got'[a] = None /\ mode'[a] = "unchanged"
  BY <1>1 DEF Takes, RecoveryInv, AttemptsOK
<1>3. AttemptOK(a)' /\ Freshness(a)' /\ Own(None)'
  BY <1>2 DEF AttemptOK, Freshness, Own, Resting, Asking, Renewed, Reloaded, Storing
<1>4. None \in 0..issued'
  BY ActorsAssumption DEF ServerOK, Session, None
<1>5. QED
  BY <1>1, <1>3, <1>4, OneActs

\* An attempt goes on with what it has.
LEMMA GoesOn ==
  ASSUME RecoveryInv, ServerOK', StoreOK', Onward, HistoryKept,
         NEW a \in Actors, NEW l \in Label \ {"stopped"}, Goto(a, l), UNCHANGED <<using, got, mode>>,
         AttemptOK(a)', Freshness(a)'
  PROVE  RecoveryInv'
<1>1. /\ using[a] \in 0..issued /\ got[a] \in 0..issued
      /\ mode[a] \in {"unchanged", "reloaded", "refreshed"}
  BY DEF RecoveryInv, AttemptsOK
<1>2. Takes(a, l, using[a], got[a], mode[a])
  BY DEF Goto, Takes, RecoveryInv, AttemptsOK
<1>3. \A n \in 0..issued : n \in 0..issued' /\ (n # None => n \in 1..issued)
  BY ActorsAssumption DEF Onward, RecoveryInv, ServerOK, Session, None
<1>4. using[a] \in 0..issued' /\ got[a] \in 0..issued'
  BY <1>1, <1>3
<1>5. Holder(a) => /\ using[a] # None => login'[using[a]] > 0
                   /\ got[a] # None => login'[got[a]] > 0
  BY <1>1, <1>3 DEF RecoveryInv, AttemptsOK, Own, Onward
<1> DEFINE u == using[a]
           g == got[a]
           m == mode[a]
<1>6. Holder(a) => (u # None => login'[u] > 0) /\ (g # None => login'[g] > 0)
  BY <1>5
<1>7. Takes(a, l, u, g, m) /\ u \in 0..issued' /\ g \in 0..issued'
      /\ m \in {"unchanged", "reloaded", "refreshed"}
  BY <1>1, <1>2, <1>4
<1> HIDE DEF u, g, m
<1>8. QED
  BY <1>6, <1>7, OneActs DEF Own

-----------------------------------------------------------------------------
(* Every step keeps RecoveryInv *)

\* The states the model begins with.
LEMMA RecoveryInit == Init => RecoveryInv
<1> SUFFICES ASSUME Init
             PROVE  RecoveryInv
  OBVIOUS
<1> USE ActorsAssumption DEF Init, None
<1>1. /\ issued \in {1, 2} /\ issued \in Session
      /\ UserKeyed # {} => issued = 2
  BY DEF Session
<1>2. \A n \in Session : login[n] = IF n > issued THEN 0 ELSE IF n = 1 THEN 1 ELSE -n
  OBVIOUS
<1>3. ServerOK
  <2>1. login \in [Session -> -MaxSession..MaxSession]
    BY DEF Session
  <2>2. \A n \in 1..issued : n \in Session /\ login[n] = IF n = 1 THEN 1 ELSE -n
    BY <1>1, <1>2 DEF Session
  <2>3. \A n \in 1..issued : n \in {1, 2}
    BY <1>1
  <2>4. /\ \A n \in 1..issued : login[n] \in -n..n /\ login[n] # 0
        /\ \A m, n \in 1..issued : m < n => login[m] # login[n]
    BY <2>2, <2>3
  <2>5. QED
    BY <1>1, <2>1, <2>4 DEF ServerOK
<1>4. 1 \in 1..issued /\ 1 \in Session /\ login[1] = 1
  BY <1>1, <1>2 DEF Session
<1>5. StoreOK
  <2>1. auth \in [Shells -> 1..issued]
    BY <1>1 DEF InitialSession, WithUserKey
  <2>2. \A a \in Shells : Holder(a) => auth[a] = 1
    BY DEF InitialSession, Holder
  <2>3. QED
    BY <1>1, <1>4, <2>1, <2>2 DEF StoreOK, Own
<1>6. AttemptsOK
  BY <1>1 DEF AttemptsOK, AttemptOK, Freshness, Own, Label, Resting, Asking, Renewed, Reloaded,
              Storing
<1>7. HistoryOK
  <2>1. \A h \in Heartbeats : h \in Actors
    BY DEF Actors, Shells
  <2>2. QED
    BY <2>1 DEF HistoryOK, StopsForAReason
<1>8. QED
  BY <1>3, <1>5, <1>6, <1>7 DEF RecoveryInv

\* What an actor presents to refreshControlPlaneAuth is a session that has expired.
LEMMA PresentedIsExpired ==
  ASSUME RecoveryInv, NEW a \in Actors, Refreshing(a)
  PROVE  /\ Presented(a) \in 1..issued
         /\ Presented(a) \in expired
         /\ Holder(a) => login[Presented(a)] > 0
<1>1. AttemptOK(a) /\ Freshness(a)
  BY DEF RecoveryInv, AttemptsOK
<1>2. Presented(a) \in expired /\ Presented(a) # None
  BY <1>1 DEF Refreshing, Presented, At, AttemptOK, Freshness, Asking, Reloaded
<1>3. QED
  BY <1>2 DEF RecoveryInv, AttemptsOK, ServerOK, Own, Presented, Refreshing, At

\* After an error the profile is read, or the attempt is over: a heartbeat stops or
\* turns to its user key.
LEMMA ErrorInv ==
  ASSUME RecoveryInv, ServerOK', StoreOK', Onward, HistoryKept,
         NEW a \in Actors, Refreshing(a), RefreshError(a),
         a \in Heartbeats /\ At(a, "rerefresh") => faults' \/ raced'[a]
  PROVE  RecoveryInv'
<1>1. AttemptOK(a) /\ Freshness(a)
  BY DEF RecoveryInv, AttemptsOK
<1>2. CASE At(a, "refresh")
  <2>1. Goto(a, "reload") /\ UNCHANGED <<using, got, mode>>
    BY <1>2 DEF RefreshError
  <2>2. pc'[a] = "reload"
    BY <2>1 DEF Goto, RecoveryInv, AttemptsOK
  <2>3. AttemptOK(a)' /\ Freshness(a)'
    BY <1>1, <1>2, <2>1, <2>2
    DEF AttemptOK, Freshness, At, Onward, Resting, Asking, Renewed, Reloaded, Storing
  <2>4. QED
    BY <2>1, <2>3, GoesOn DEF Label
<1>3. CASE ~At(a, "refresh")
  <2>1. At(a, "rerefresh")
    BY <1>3 DEF Refreshing
  <2> DEFINE l == IF a \in Heartbeats THEN GiveUp(a) ELSE "idle"
  <2>2. Finish(a, l)
    BY <1>3 DEF RefreshError
  <2>3. /\ l \in {"idle", "exchange", "stopped", "terminated"}
        /\ l = "exchange" => a \in UserKeyed
    BY DEF GiveUp
  <2> HIDE DEF l
  <2>4. QED
    BY <2>1, <2>2, <2>3, Finishes
<1>4. QED
  BY <1>2, <1>3

\* The first request of an attempt.
LEMMA FirstRequestInv ==
  ASSUME RecoveryInv, NEW a \in Actors,
         Begin(a) \/ CallAccepted(a) \/ CallUnauthorized(a) \/ CallFails(a)
  PROVE  RecoveryInv'
<1>1. Quiet /\ HistoryKept /\ issued' = issued
  BY DEF Begin, CallAccepted, CallUnauthorized, CallFails, Quiet, HistoryKept, historyVars,
         serverVars, RecoveryInv, HistoryOK
<1>2. ServerOK' /\ StoreOK' /\ Onward
  BY <1>1, QuietStep
<1>3. AttemptOK(a) /\ Freshness(a)
  BY DEF RecoveryInv, AttemptsOK
<1>4. CASE Begin(a)
  <2>0. PICK u : u = IF a \in Commands THEN profile ELSE auth[a]
    OBVIOUS
  <2>1. a \notin Commands => a \in Shells
    BY DEF Actors
  <2>2. /\ u \in 0..issued /\ u # None
        /\ Holder(a) => Own(u)
    BY <1>4, <2>0, <2>1, ActorsAssumption
    DEF Begin, RecoveryInv, StoreOK, ServerOK, Session, Own, None
  <2>3. /\ pc' = [pc EXCEPT ![a] = "call"] /\ using' = [using EXCEPT ![a] = u]
        /\ UNCHANGED <<got, mode>>
    BY <1>4, <2>0 DEF Begin, Goto
  <2>4. got[a] = None /\ mode[a] = "unchanged"
    BY <1>3, <1>4 DEF AttemptOK, Begin, At, Resting
  <2>5. Takes(a, "call", u, None, "unchanged")
    BY <2>3, <2>4 DEF Takes, RecoveryInv, AttemptsOK
  <2>6. pc'[a] = "call" /\ using'[a] = u /\ got'[a] = None /\ mode'[a] = "unchanged"
    BY <2>5 DEF Takes, RecoveryInv, AttemptsOK
  <2>7. AttemptOK(a)' /\ Freshness(a)'
    BY <2>2, <2>6 DEF AttemptOK, Freshness, Resting, Asking, Renewed, Reloaded, Storing
  <2>8. u \in 0..issued' /\ None \in 0..issued' /\ (Holder(a) => Own(u)' /\ Own(None)')
    BY <1>1, <2>2, ActorsAssumption
    DEF Own, Quiet, serverVars, RecoveryInv, ServerOK, Session, None
  <2>9. QED
    BY <1>1, <1>2, <2>5, <2>7, <2>8, OneActs DEF Label
<1>5. CASE CallAccepted(a) \/ CallFails(a)
  BY <1>1, <1>2, <1>5, Finishes DEF CallAccepted, CallFails
<1>6. CASE CallUnauthorized(a)
  <2>1. Goto(a, "refresh") /\ UNCHANGED <<using, got, mode>>
    BY <1>6 DEF CallUnauthorized
  <2>2. pc'[a] = "refresh"
    BY <2>1 DEF Goto, RecoveryInv, AttemptsOK
  <2>3. AttemptOK(a)' /\ Freshness(a)'
    BY <1>2, <1>3, <1>6, <2>1, <2>2
    DEF AttemptOK, Freshness, CallUnauthorized, At, Onward, Resting, Asking, Renewed, Reloaded,
        Storing
  <2>4. QED
    BY <1>1, <1>2, <2>1, <2>3, GoesOn DEF Label
<1>7. QED
  BY <1>4, <1>5, <1>6

\* The refresh is granted: the newest session of the login is in a's hand, and valid.
LEMMA RefreshGrantedInv ==
  ASSUME RecoveryInv, NEW a \in Actors, RefreshGranted(a)
  PROVE  RecoveryInv' /\ Onward /\ issued' = issued + 1
<1>1. PICK s \in 1..issued : s = Presented(a)
  BY PresentedIsExpired DEF RefreshGranted
<1>2. s \in expired /\ s \notin consumed /\ (Holder(a) => login[s] > 0)
  BY <1>1, PresentedIsExpired DEF RefreshGranted
<1>3. /\ ServerOK' /\ issued' = issued + 1
      /\ \A n \in 1..issued : login'[n] = login[n]
      /\ login'[issued + 1] = login[s]
  BY <1>1, <1>2, ServerRefreshes DEF RefreshGranted, RecoveryInv
<1>4. issued \in Nat /\ expired \subseteq 1..issued
  BY ActorsAssumption DEF RecoveryInv, ServerOK, Session
<1>5. Onward
  BY <1>3, <1>4 DEF Onward, RefreshGranted, historyVars
<1>6. StoreOK' /\ HistoryKept
  <2>1. StoreOK'
    BY <1>3, <1>4, <1>5, StoreSame DEF RefreshGranted
  <2>2. \A n \in 1..issued : n \in 1..issued'
    BY <1>3, <1>4
  <2>3. HistoryKept
    BY <2>2 DEF HistoryKept, RecoveryInv, HistoryOK, RefreshGranted, historyVars
  <2>4. QED
    BY <2>1, <2>3
<1>7. PICK g : g = issued + 1
  OBVIOUS
<1>8. PICK u : u = using[a]
  OBVIOUS
<1>9. Takes(a, "retry", u, g, "refreshed") /\ "retry" \in Label
  BY <1>7, <1>8 DEF RefreshGranted, Goto, Takes, Label, RecoveryInv, AttemptsOK
<1>10. /\ g \in 0..issued' /\ u \in 0..issued' /\ g # None /\ g \notin expired'
       /\ u \in expired \cup {None}
       /\ u \in 0..issued
  <2>1. Freshness(a) /\ u \in 0..issued /\ pc[a] # "call"
    BY <1>8 DEF RecoveryInv, AttemptsOK, RefreshGranted, Refreshing, At
  <2>2. QED
    BY <1>3, <1>4, <1>7, <1>8, <2>1 DEF RefreshGranted, Freshness, None
<1>11. /\ pc'[a] = "retry" /\ using'[a] = u /\ got'[a] = g /\ mode'[a] = "refreshed"
  BY <1>9 DEF Takes, RecoveryInv, AttemptsOK
<1>12. AttemptOK(a)' /\ Freshness(a)'
  BY <1>5, <1>10, <1>11
  DEF AttemptOK, Freshness, Onward, Resting, Asking, Renewed, Reloaded, Storing
<1>13. Holder(a) => Own(u)' /\ Own(g)'
  <2>1. Holder(a) => (u # None => login'[u] > 0)
    BY <1>3, <1>4, <1>8, <1>10 DEF RecoveryInv, AttemptsOK, Own, None
  <2>2. Holder(a) => login'[g] > 0
    BY <1>2, <1>3, <1>7
  <2>3. QED
    BY <2>1, <2>2 DEF Own
<1>14. QED
  BY <1>3, <1>5, <1>6, <1>9, <1>10, <1>12, <1>13, OneActs

\* The refresh is refused, or lost on the way there or back.
LEMMA RefreshNotGrantedInv ==
  ASSUME RecoveryInv, NEW a \in Actors, RefreshRefused(a) \/ RefreshFails(a)
  PROVE  RecoveryInv' /\ Onward
<1>1. CASE RefreshRefused(a)
  <2>1. Quiet /\ HistoryKept
    BY <1>1 DEF RefreshRefused, Quiet, HistoryKept, serverVars, RecoveryInv, HistoryOK
  <2>2. ServerOK' /\ StoreOK' /\ Onward
    BY <2>1, QuietStep
  <2>3. a \in Heartbeats /\ At(a, "rerefresh") => raced'[a]
    BY <1>1 DEF RefreshRefused
  <2>4. QED
    BY <1>1, <2>1, <2>2, <2>3, ErrorInv DEF RefreshRefused
<1>2. CASE RefreshFails(a) /\ UNCHANGED <<serverVars, dropped>>
  <2>1. Quiet /\ HistoryKept /\ faults'
    BY <1>2 DEF RefreshFails, Quiet, HistoryKept, serverVars, RecoveryInv, HistoryOK
  <2>2. ServerOK' /\ StoreOK' /\ Onward
    BY <2>1, QuietStep
  <2>3. QED
    BY <1>2, <2>1, <2>2, ErrorInv DEF RefreshFails
<1>3. CASE /\ RefreshFails(a)
           /\ Presented(a) \notin consumed
           /\ issued < MaxSession
           /\ consumed' = consumed \cup {Presented(a)}
           /\ Issued(issued + 1, login[Presented(a)])
           /\ dropped' = dropped \cup {issued + 1}
           /\ UNCHANGED expired
  <2>1. PICK s \in 1..issued : s = Presented(a) /\ s \in expired
    BY <1>3, PresentedIsExpired DEF RefreshFails
  <2>2. /\ ServerOK' /\ issued' = issued + 1
        /\ \A n \in 1..issued : login'[n] = login[n]
    BY <1>3, <2>1, ServerRefreshes DEF RecoveryInv
  <2>3. issued \in Nat
    BY ActorsAssumption DEF RecoveryInv, ServerOK, Session
  <2>4. Onward
    BY <1>3, <2>2, <2>3 DEF Onward, RefreshFails
  <2>5. StoreOK'
    BY <1>3, <2>2, <2>3, <2>4, StoreSame DEF RefreshFails
  <2>6. HistoryKept
    <3>1. \A n \in 1..issued : n \in 1..issued'
      BY <2>2, <2>3
    <3>2. issued + 1 \in 1..issued'
      BY <2>2, <2>3
    <3>3. QED
      BY <1>3, <3>1, <3>2 DEF HistoryKept, RecoveryInv, HistoryOK, RefreshFails
  <2>7. QED
    BY <1>3, <2>2, <2>4, <2>5, <2>6, ErrorInv DEF RefreshFails
<1>4. QED
  BY <1>1, <1>2, <1>3 DEF RefreshFails

\* The request is made again with the session that was refreshed.
LEMMA RetryInv ==
  ASSUME RecoveryInv, NEW a \in Actors, RetryAccepted(a) \/ RetryFails(a)
  PROVE  RecoveryInv'
<1>1. AttemptOK(a) /\ Freshness(a) /\ got[a] \in 0..issued
  BY DEF RecoveryInv, AttemptsOK
<1>2. got[a] \in 1..issued /\ mode[a] = "refreshed"
  BY <1>1, ActorsAssumption
  DEF RetryAccepted, RetryFails, At, AttemptOK, Renewed, RecoveryInv, ServerOK, Session, None
<1>3. Quiet /\ HistoryKept
  BY <1>2 DEF RetryAccepted, RetryFails, Quiet, HistoryKept, historyVars, serverVars, RecoveryInv,
              HistoryOK
<1>4. ServerOK' /\ StoreOK' /\ Onward
  BY <1>3, QuietStep
<1>5. CASE RetryAccepted(a)
  <2> DEFINE l == IF a \in Commands THEN "save" ELSE "apply"
  <2>1. Goto(a, l) /\ UNCHANGED <<using, got, mode>>
    BY <1>5 DEF RetryAccepted
  <2>2. pc'[a] = l
    BY <2>1 DEF Goto, RecoveryInv, AttemptsOK
  <2>3. a \in Commands => Holder(a)
    BY ActorsAssumption DEF Holder, WithUserKey, Shells
  <2>4. AttemptOK(a)' /\ Freshness(a)'
    BY <1>1, <1>2, <1>4, <1>5, <2>1, <2>2, <2>3
    DEF AttemptOK, Freshness, RetryAccepted, At, Quiet, serverVars, Resting, Asking, Renewed,
        Reloaded, Storing, Holder, WithUserKey
  <2>5. l \in Label \ {"stopped"}
    BY DEF Label
  <2> HIDE DEF l
  <2>6. QED
    BY <1>3, <1>4, <2>1, <2>4, <2>5, GoesOn
<1>6. CASE RetryFails(a)
  <2>1. faults'
    BY <1>6 DEF RetryFails
  <2>2. Finish(a, "stopped") \/ Finish(a, "idle")
    BY <1>6 DEF RetryFails
  <2>3. QED
    BY <1>3, <1>4, <2>1, <2>2, Finishes
<1>7. QED
  BY <1>5, <1>6

\* What the profile has is read, and tried in the place of the attempt's own session.
LEMMA ReloadInv ==
  ASSUME RecoveryInv, NEW a \in Actors,
         Reload(a) \/ RecallAccepted(a) \/ RecallUnauthorized(a)
  PROVE  RecoveryInv'
<1>1. Quiet /\ HistoryKept /\ issued' = issued
  BY DEF Reload, RecallAccepted, RecallUnauthorized, Quiet, HistoryKept, historyVars, serverVars,
         RecoveryInv, HistoryOK
<1>2. ServerOK' /\ StoreOK' /\ Onward
  BY <1>1, QuietStep
<1>3. AttemptOK(a) /\ Freshness(a) /\ using[a] \in 0..issued /\ got[a] \in 0..issued
  BY DEF RecoveryInv, AttemptsOK
<1>4. CASE Reload(a) /\ Changed(a)
  <2>1. PICK g : g = profile
    OBVIOUS
  <2>2. PICK u : u = using[a]
    OBVIOUS
  <2>3. Takes(a, "recall", u, g, "reloaded")
    BY <1>4, <2>1, <2>2 DEF Reload, Goto, Takes, RecoveryInv, AttemptsOK
  <2>4. /\ g # None /\ a \notin UserKeyed
        /\ u \in expired \cup {None}
        /\ g \in 0..issued' /\ u \in 0..issued'
        /\ Holder(a) => Own(u)' /\ Own(g)'
    BY <1>1, <1>3, <1>4, <2>1, <2>2
    DEF Reload, Changed, At, Freshness, RecoveryInv, StoreOK, AttemptsOK, Own, Quiet, serverVars
  <2>5. pc'[a] = "recall" /\ using'[a] = u /\ got'[a] = g /\ mode'[a] = "reloaded"
    BY <2>3 DEF Takes, RecoveryInv, AttemptsOK
  <2>6. AttemptOK(a)' /\ Freshness(a)'
    BY <1>2, <2>4, <2>5
    DEF AttemptOK, Freshness, Onward, Resting, Asking, Renewed, Reloaded, Storing
  <2>7. QED
    BY <1>1, <1>2, <2>3, <2>4, <2>6, OneActs DEF Label
<1>5. CASE Reload(a) /\ ~Changed(a)
  <2> DEFINE l == IF a \in Heartbeats THEN GiveUp(a) ELSE "idle"
  <2>1. Finish(a, l)
    BY <1>5 DEF Reload
  <2>2. /\ l \in {"idle", "exchange", "stopped", "terminated"}
        /\ l = "exchange" => a \in UserKeyed
    BY DEF GiveUp
  <2>3. a \in Heartbeats /\ l = "stopped" => faults'
    BY <1>1, <1>5 DEF GiveUp, Changed, RecoveryInv, StoreOK, Quiet
  <2> HIDE DEF l
  <2>4. QED
    BY <1>1, <1>2, <2>1, <2>2, <2>3, Finishes
<1>6. CASE RecallAccepted(a)
  <2> DEFINE l == IF a \in Commands THEN "save" ELSE "apply"
  <2>1. Goto(a, l) /\ UNCHANGED <<using, got, mode>>
    BY <1>6 DEF RecallAccepted
  <2>2. pc'[a] = l
    BY <2>1 DEF Goto, RecoveryInv, AttemptsOK
  <2>3. a \in Commands => Holder(a)
    BY ActorsAssumption DEF Holder, WithUserKey, Shells
  <2>4. AttemptOK(a)' /\ Freshness(a)'
    BY <1>1, <1>3, <1>6, <2>1, <2>2, <2>3
    DEF AttemptOK, Freshness, RecallAccepted, At, Quiet, serverVars, Resting, Asking, Renewed,
        Reloaded, Storing, Holder, WithUserKey
  <2>5. l \in Label \ {"stopped"}
    BY DEF Label
  <2> HIDE DEF l
  <2>6. QED
    BY <1>1, <1>2, <2>1, <2>4, <2>5, GoesOn
<1>7. CASE RecallUnauthorized(a) /\ a \in Bridges
  BY <1>1, <1>2, <1>7, Finishes DEF RecallUnauthorized
<1>8. CASE RecallUnauthorized(a) /\ a \notin Bridges
  <2>1. Goto(a, "rerefresh") /\ UNCHANGED <<using, got, mode>>
    BY <1>8 DEF RecallUnauthorized
  <2>2. pc'[a] = "rerefresh"
    BY <2>1 DEF Goto, RecoveryInv, AttemptsOK
  <2>3. AttemptOK(a)' /\ Freshness(a)'
    BY <1>1, <1>3, <1>8, <2>1, <2>2
    DEF AttemptOK, Freshness, RecallUnauthorized, At, Quiet, serverVars, Resting, Asking, Renewed,
        Reloaded, Storing
  <2>4. QED
    BY <1>1, <1>2, <2>1, <2>3, GoesOn DEF Label
<1>9. QED
  BY <1>4, <1>5, <1>6, <1>7, <1>8

\* The heartbeat of a user key exchanges it, or cannot.
LEMMA ExchangeInv ==
  ASSUME RecoveryInv, NEW h \in Heartbeats, ExchangeGranted(h) \/ ExchangeFails(h)
  PROVE  RecoveryInv'
<1>1. h \in Actors /\ AttemptOK(h) /\ Freshness(h) /\ issued \in Nat
  BY ActorsAssumption DEF RecoveryInv, AttemptsOK, ServerOK, Session, Actors, Shells
<1>2. CASE ExchangeFails(h)
  <2>1. Quiet /\ HistoryKept /\ faults'
    BY <1>2 DEF ExchangeFails, Quiet, HistoryKept, serverVars, RecoveryInv, HistoryOK
  <2>2. ServerOK' /\ StoreOK' /\ Onward
    BY <2>1, QuietStep
  <2>3. QED
    BY <1>1, <1>2, <2>1, <2>2, Finishes DEF ExchangeFails
<1>3. CASE ExchangeGranted(h)
  <2>1. PICK l \in {issued + 1, -(issued + 1)} : l = -(issued + 1)
    OBVIOUS
  <2>2. /\ ServerOK' /\ issued' = issued + 1
        /\ \A n \in 1..issued : login'[n] = login[n]
    BY <1>3, <2>1, RoomForOne, ServerLogsIn DEF ExchangeGranted, RecoveryInv
  <2>3. Onward
    BY <1>1, <1>3, <2>2 DEF Onward, ExchangeGranted, historyVars
  <2>4. StoreOK'
    BY <1>1, <1>3, <2>2, <2>3, StoreSame DEF ExchangeGranted
  <2>5. HistoryKept
    <3>1. \A n \in 1..issued : n \in 1..issued'
      BY <1>1, <2>2
    <3>2. QED
      BY <1>3, <3>1 DEF HistoryKept, RecoveryInv, HistoryOK, ExchangeGranted, historyVars
  <2>6. PICK g : g = issued + 1
    OBVIOUS
  <2>7. using[h] = None /\ h \in UserKeyed
    BY <1>1, <1>3 DEF ExchangeGranted, At, AttemptOK, Resting
  <2>8. Takes(h, "rejoin", None, g, "refreshed")
    BY <1>3, <2>6, <2>7 DEF ExchangeGranted, Goto, Takes, RecoveryInv, AttemptsOK
  <2>9. pc'[h] = "rejoin" /\ using'[h] = None /\ got'[h] = g /\ mode'[h] = "refreshed"
    BY <1>1, <2>8 DEF Takes, RecoveryInv, AttemptsOK
  <2>10. g \in 0..issued' /\ None \in 0..issued' /\ g # None /\ g \notin expired'
    BY <1>1, <1>3, <2>2, <2>6 DEF RecoveryInv, ServerOK, ExchangeGranted, None
  <2>11. AttemptOK(h)' /\ Freshness(h)'
    BY <2>7, <2>9, <2>10 DEF AttemptOK, Freshness, Resting, Asking, Renewed, Reloaded, Storing
  <2>12. ~Holder(h)
    BY <2>7 DEF Holder, WithUserKey
  <2>13. QED
    BY <1>1, <2>2, <2>3, <2>4, <2>5, <2>8, <2>10, <2>11, <2>12, OneActs DEF Label
<1>4. QED
  BY <1>2, <1>3

\* The heartbeat learns that its session was terminated.
LEMMA TerminatedInv ==
  ASSUME RecoveryInv, NEW h \in Heartbeats, Terminated(h)
  PROVE  RecoveryInv'
<1>1. h \in Actors
  BY DEF Actors, Shells
<1>2. At(h, "retry") \/ At(h, "rejoin") => got[h] \in 1..issued
  BY <1>1, ActorsAssumption
  DEF RecoveryInv, AttemptsOK, AttemptOK, At, Renewed, ServerOK, Session, None
<1>3. Quiet /\ HistoryKept
  BY <1>2 DEF Terminated, Quiet, HistoryKept, serverVars, RecoveryInv, HistoryOK
<1>4. ServerOK' /\ StoreOK' /\ Onward
  BY <1>3, QuietStep
<1>5. QED
  BY <1>1, <1>3, <1>4, Finishes DEF Terminated

\* Heartbeat and bridge of a shell have its user key, or neither has one.
LEMMA OneKeyPerShell ==
  ASSUME NEW b \in Bridges
  PROVE  /\ HeartbeatOf[b] \in Heartbeats /\ HeartbeatOf[b] \in Shells
         /\ b \in Actors /\ b \in Shells /\ b \notin Heartbeats
         /\ Holder(b) <=> HeartbeatOf[b] \notin UserKeyed
         /\ Holder(HeartbeatOf[b]) <=> HeartbeatOf[b] \notin UserKeyed
  BY ActorsAssumption DEF Holder, WithUserKey, Actors, Shells

\* What the attempt obtained is in the shell's memory: it is saved, or the attempt is over.
LEMMA StoredInv ==
  ASSUME RecoveryInv, ServerOK', StoreOK', Onward, HistoryKept, expired' = expired,
         NEW a \in Actors, NEW h, pc[a] \in {"apply", "share"}, Stored(a, h),
         h \notin UserKeyed => Holder(a)
  PROVE  RecoveryInv'
<1>1. AttemptOK(a) /\ Freshness(a)
  BY DEF RecoveryInv, AttemptsOK
<1>2. CASE mode[a] = "refreshed" /\ h \notin UserKeyed
  <2>1. Goto(a, "save") /\ UNCHANGED <<using, got, mode>>
    BY <1>2 DEF Stored
  <2>2. pc'[a] = "save"
    BY <2>1 DEF Goto, RecoveryInv, AttemptsOK
  <2>3. AttemptOK(a)' /\ Freshness(a)'
    BY <1>1, <1>2, <2>1, <2>2
    DEF AttemptOK, Freshness, Resting, Asking, Renewed, Reloaded, Storing, Holder, WithUserKey
  <2>4. QED
    BY <2>1, <2>3, GoesOn DEF Label
<1>3. CASE ~(mode[a] = "refreshed" /\ h \notin UserKeyed)
  BY <1>3, Finishes DEF Stored
<1>4. QED
  BY <1>2, <1>3

\* A shell takes over what the attempt obtained, a bridge first, then its heartbeat.
LEMMA ApplyInv ==
  ASSUME RecoveryInv, NEW a \in Shells, Apply(a) \/ (a \in Bridges /\ Share(a))
  PROVE  RecoveryInv'
<1>1. a \in Actors /\ AttemptOK(a) /\ Freshness(a)
  BY DEF RecoveryInv, AttemptsOK, Actors
<1>2. PICK s : s = IF At(a, "apply") THEN a ELSE HeartbeatOf[a]
  OBVIOUS
<1>3. /\ auth' = [auth EXCEPT ![s] = got[a]]
      /\ Replaces(got[a], auth[s])
      /\ UNCHANGED <<serverVars, profile, faults, raced>>
      /\ s \in Shells /\ (Holder(s) => Holder(a))
      /\ pc[a] \in {"apply", "share"}
  <2>1. CASE Apply(a)
    BY <1>2, <2>1 DEF Apply, At
  <2>2. CASE a \in Bridges /\ Share(a)
    BY <1>2, <2>2, OneKeyPerShell DEF Share, At
  <2>3. QED
    BY <2>1, <2>2
<1>4. got[a] \in 1..issued /\ auth[s] \in 1..issued
  BY <1>1, <1>3, ActorsAssumption
  DEF AttemptOK, Storing, RecoveryInv, AttemptsOK, StoreOK, ServerOK, Session, None
<1>5. ServerOK' /\ issued' = issued /\ expired' = expired
  BY <1>3, ServerSame DEF RecoveryInv, serverVars
<1>6. Onward
  BY <1>3, ActorsAssumption DEF RecoveryInv, ServerOK, Session, Onward, serverVars
<1>7. StoreOK'
  BY <1>1, <1>3, <1>4 DEF RecoveryInv, StoreOK, AttemptsOK, Own, serverVars, Holder, WithUserKey
<1>8. HistoryKept
  BY <1>3, <1>4 DEF HistoryKept, Replaces, RecoveryInv, HistoryOK, serverVars
<1>9. CASE Apply(a) /\ a \in Bridges
  <2>1. Goto(a, "share") /\ UNCHANGED <<using, got, mode>>
    BY <1>9 DEF Apply
  <2>2. pc'[a] = "share"
    BY <1>1, <2>1 DEF Goto, RecoveryInv, AttemptsOK
  <2>3. AttemptOK(a)' /\ Freshness(a)'
    BY <1>1, <1>5, <1>9, <2>1, <2>2
    DEF AttemptOK, Freshness, Apply, At, Resting, Asking, Renewed, Reloaded, Storing
  <2>4. QED
    BY <1>1, <1>5, <1>6, <1>7, <1>8, <2>1, <2>3, GoesOn DEF Label
<1>10. CASE Apply(a) /\ a \notin Bridges
  BY <1>1, <1>3, <1>5, <1>6, <1>7, <1>8, <1>10, StoredInv DEF Apply, Holder, WithUserKey
<1>11. CASE a \in Bridges /\ Share(a)
  BY <1>1, <1>3, <1>5, <1>6, <1>7, <1>8, <1>11, StoredInv, OneKeyPerShell DEF Share
<1>12. QED
  BY <1>9, <1>10, <1>11

\* The profile is replaced, or the write fails.
LEMMA SaveInv ==
  ASSUME RecoveryInv, NEW a \in Actors, SaveSucceeds(a) \/ SaveFails(a)
  PROVE  RecoveryInv'
<1>1. AttemptOK(a) /\ Freshness(a) /\ pc[a] = "save" /\ Finish(a, "idle")
  BY DEF RecoveryInv, AttemptsOK, SaveSucceeds, SaveFails, At
<1>2. got[a] \in 1..issued /\ Own(got[a])
  BY <1>1, ActorsAssumption
  DEF AttemptOK, Freshness, Storing, RecoveryInv, AttemptsOK, ServerOK, Session, None
<1>3. CASE SaveFails(a)
  <2>1. Quiet /\ HistoryKept
    BY <1>2, <1>3 DEF SaveFails, Quiet, HistoryKept, serverVars, RecoveryInv, HistoryOK
  <2>2. ServerOK' /\ StoreOK' /\ Onward
    BY <2>1, QuietStep
  <2>3. QED
    BY <1>1, <2>1, <2>2, Finishes
<1>4. CASE SaveSucceeds(a)
  <2>1. ServerOK' /\ issued' = issued
    BY <1>4, ServerSame DEF SaveSucceeds, RecoveryInv, serverVars
  <2>2. Onward
    BY <1>4, ActorsAssumption DEF SaveSucceeds, RecoveryInv, ServerOK, Session, Onward, serverVars
  <2>3. profile' \in 1..issued' /\ Own(profile)' /\ profile' # None
    BY <1>1, <1>2, <1>4 DEF SaveSucceeds, Own, serverVars, AttemptOK, Storing
  <2>4. StoreOK'
    BY <1>4, <2>3 DEF SaveSucceeds, RecoveryInv, StoreOK, Own, serverVars
  <2>5. HistoryKept
    <3>1. profile # None => profile \in 1..issued
      BY ActorsAssumption DEF RecoveryInv, StoreOK, ServerOK, Session, None
    <3>2. QED
      BY <1>4, <3>1
      DEF SaveSucceeds, HistoryKept, Replaces, RecoveryInv, HistoryOK, serverVars
  <2>6. QED
    BY <1>1, <2>1, <2>2, <2>4, <2>5, Finishes
<1>5. QED
  BY <1>3, <1>4

\* Nobody's attempt moves.
LEMMA NobodyActs ==
  ASSUME RecoveryInv, ServerOK', StoreOK', Onward, HistoryKept, UNCHANGED <<pc, using, got, mode>>
  PROVE  RecoveryInv'
<1>1. \A n \in 0..issued : n \in 0..issued'
  BY ActorsAssumption DEF Onward, RecoveryInv, ServerOK, Session
<1>2. \A c \in Actors :
         AttemptOK(c)' /\ Freshness(c)' /\ (Holder(c) => Own(using[c])' /\ Own(got[c])')
  BY Undisturbed
<1>3. AttemptsOK'
  BY <1>1, <1>2 DEF RecoveryInv, AttemptsOK, Holder, WithUserKey
<1>4. HistoryOK'
  BY DEF RecoveryInv, HistoryOK, HistoryKept, StopsForAReason, Onward
<1>5. QED
  BY <1>3, <1>4 DEF RecoveryInv

\* The user logs in or out, and access tokens expire.
LEMMA OutsideInv ==
  ASSUME RecoveryInv, Login \/ Logout \/ \E n \in Session : AccessExpires(n)
  PROVE  RecoveryInv' /\ Onward
<1>1. issued \in Nat /\ (profile # None => profile \in 1..issued)
  BY ActorsAssumption DEF RecoveryInv, ServerOK, StoreOK, Session, None
<1>2. CASE Login
  <2>1. PICK l \in {issued + 1, -(issued + 1)} : l = issued + 1
    OBVIOUS
  <2>2. /\ ServerOK' /\ issued' = issued + 1
        /\ \A n \in 1..issued : login'[n] = login[n]
        /\ login'[issued + 1] = l
    BY <1>2, <2>1, RoomForOne, ServerLogsIn DEF Login, RecoveryInv
  <2>3. Onward
    BY <1>1, <1>2, <2>2 DEF Onward, Login
  <2>4. StoreOK'
    <3>1. \A n \in 1..issued : n \in 1..issued'
      BY <1>1, <2>2
    <3>2. profile' \in 0..issued' /\ profile' # None /\ login'[profile'] > 0
      BY <1>1, <1>2, <2>1, <2>2 DEF Login, None
    <3>3. auth' \in [Shells -> 1..issued'] /\ \A a \in Shells : Holder(a) => login'[auth'[a]] > 0
      BY <1>1, <1>2, <2>2, <3>1 DEF Login, RecoveryInv, StoreOK, Own, None
    <3>4. QED
      BY <3>2, <3>3 DEF StoreOK, Own, Holder, WithUserKey
  <2>5. HistoryKept
    <3>1. \A n \in 1..issued : n \in 1..issued'
      BY <1>1, <2>2
    <3>2. QED
      BY <1>1, <1>2, <3>1 DEF Login, HistoryKept, RecoveryInv, HistoryOK
  <2>6. QED
    BY <1>2, <2>2, <2>3, <2>4, <2>5, NobodyActs DEF Login
<1>3. CASE Logout
  <2>1. ServerOK' /\ issued' = issued
    BY <1>3, ServerSame DEF Logout, RecoveryInv, serverVars
  <2>2. Onward
    BY <1>1, <1>3 DEF Onward, Logout, serverVars
  <2>3. StoreOK'
    BY <1>1, <1>3 DEF Logout, RecoveryInv, StoreOK, Own, serverVars, None
  <2>4. HistoryKept
    BY <1>1, <1>3 DEF Logout, HistoryKept, RecoveryInv, HistoryOK, serverVars
  <2>5. QED
    BY <1>3, <2>1, <2>2, <2>3, <2>4, NobodyActs DEF Logout
<1>4. ASSUME NEW n \in Session, AccessExpires(n)
      PROVE  RecoveryInv' /\ Onward
  <2>1. ServerOK' /\ issued' = issued
    BY <1>4 DEF AccessExpires, RecoveryInv, ServerOK
  <2>2. Onward
    BY <1>1, <1>4 DEF Onward, AccessExpires, historyVars
  <2>3. StoreOK' /\ HistoryKept
    BY <1>4
    DEF AccessExpires, RecoveryInv, StoreOK, Own, HistoryOK, HistoryKept, historyVars
  <2>4. QED
    BY <1>4, <2>1, <2>2, <2>3, NobodyActs DEF AccessExpires
<1>5. QED
  BY <1>2, <1>3, <1>4

\* A goroutine of a shell ends between two attempts, or with the whole process.
LEMMA EndInv ==
  ASSUME RecoveryInv,
         (\E a \in Shells : ShellEnds(a)) \/ (\E h \in Heartbeats : ProcessEnds(h))
  PROVE  RecoveryInv' /\ Quiet
<1>1. CASE \E a \in Shells : ShellEnds(a)
  <2>1. PICK a \in Shells : ShellEnds(a)
    BY <1>1
  <2>2. a \in Actors /\ AttemptOK(a) /\ Freshness(a) /\ auth[a] \in 1..issued
    BY DEF RecoveryInv, AttemptsOK, StoreOK, Actors
  <2>3. Quiet /\ HistoryKept
    BY <2>1, <2>2 DEF ShellEnds, Quiet, HistoryKept, RecoveryInv, HistoryOK, serverVars
  <2>4. ServerOK' /\ StoreOK' /\ Onward
    BY <2>3, QuietStep
  <2>5. Goto(a, "exited") /\ UNCHANGED <<using, got, mode>>
    BY <2>1 DEF ShellEnds
  <2>6. pc'[a] = "exited"
    BY <2>2, <2>5 DEF Goto, RecoveryInv, AttemptsOK
  <2>7. AttemptOK(a)' /\ Freshness(a)'
    BY <2>1, <2>2, <2>4, <2>5, <2>6
    DEF AttemptOK, Freshness, ShellEnds, At, Onward, Resting, Asking, Renewed, Reloaded, Storing
  <2>8. QED
    BY <2>2, <2>3, <2>4, <2>5, <2>7, GoesOn DEF Label
<1>2. CASE \E h \in Heartbeats : ProcessEnds(h)
  <2>1. PICK h \in Heartbeats : ProcessEnds(h)
    BY <1>2
  <2> DEFINE bridges == {b \in Bridges : HeartbeatOf[b] = h}
             ended == bridges \cup {h}
  <2>2. /\ pc' = [a \in Actors |-> IF a \in ended THEN "exited" ELSE pc[a]]
        /\ using' = [a \in Actors |-> IF a \in ended THEN None ELSE using[a]]
        /\ got' = [a \in Actors |-> IF a \in ended THEN None ELSE got[a]]
        /\ mode' = [a \in Actors |-> IF a \in ended THEN "unchanged" ELSE mode[a]]
        /\ dropped' = dropped \cup {got[b] : b \in {c \in bridges : mode[c] = "refreshed"}}
                              \cup (IF h \in UserKeyed THEN {auth[a] : a \in ended} ELSE {})
        /\ UNCHANGED <<serverVars, profile, auth, faults, raced>>
    BY <2>1 DEF ProcessEnds
  <2>3. ended \subseteq Shells /\ ended \subseteq Actors
    BY DEF Shells, Actors
  <2>4. \A c \in Actors : mode[c] = "refreshed" => got[c] \in 1..issued
    <3> SUFFICES ASSUME NEW c \in Actors, mode[c] = "refreshed"
                 PROVE  got[c] \in 1..issued
      OBVIOUS
    <3>1. AttemptOK(c) /\ got[c] \in 0..issued /\ pc[c] \in Label
      BY DEF RecoveryInv, AttemptsOK
    <3>2. got[c] # None
      BY <3>1 DEF AttemptOK, Label, Resting, Asking, Renewed, Reloaded, Storing
    <3>3. QED
      BY <3>1, <3>2, ActorsAssumption DEF RecoveryInv, ServerOK, Session, None
  <2>5. dropped' \subseteq 1..issued
    <3>1. \A b \in bridges : b \in Actors
      BY <2>3
    <3>2. \A a \in ended : auth[a] \in 1..issued
      BY <2>3 DEF RecoveryInv, StoreOK
    <3> HIDE DEF bridges, ended
    <3>3. QED
      BY <2>2, <2>4, <3>1, <3>2 DEF RecoveryInv, HistoryOK
  <2> HIDE DEF bridges, ended
  <2>6. Quiet /\ HistoryKept /\ issued' = issued
    BY <2>2, <2>5 DEF Quiet, HistoryKept, RecoveryInv, HistoryOK, serverVars
  <2>7. ServerOK' /\ StoreOK' /\ Onward
    BY <2>6, QuietStep
  <2>8. \A c \in Actors : /\ AttemptOK(c)' /\ Freshness(c)'
                          /\ Holder(c) => Own(using[c])' /\ Own(got[c])'
    <3> SUFFICES ASSUME NEW c \in Actors
                 PROVE  /\ AttemptOK(c)' /\ Freshness(c)'
                        /\ Holder(c) => Own(using[c])' /\ Own(got[c])'
      OBVIOUS
    <3>1. CASE c \in ended
      <4>1. pc'[c] = "exited" /\ using'[c] = None /\ got'[c] = None /\ mode'[c] = "unchanged"
        BY <2>2, <3>1
      <4>2. QED
        BY <4>1 DEF AttemptOK, Freshness, Own, Resting, Asking, Renewed, Reloaded, Storing
    <3>2. CASE c \notin ended
      BY <2>2, <2>7, <3>2, Undisturbed
    <3>3. QED
      BY <3>1, <3>2
  <2>9. /\ pc' \in [Actors -> Label]
        /\ using' \in [Actors -> 0..issued']
        /\ got' \in [Actors -> 0..issued']
        /\ mode' \in [Actors -> {"unchanged", "reloaded", "refreshed"}]
    <3>1. None \in 0..issued
      BY ActorsAssumption DEF RecoveryInv, ServerOK, Session, None
    <3>2. QED
      BY <2>2, <2>6, <3>1 DEF RecoveryInv, AttemptsOK, Label
  <2>10. AttemptsOK'
    BY <2>8, <2>9 DEF AttemptsOK, Holder, WithUserKey
  <2>11. HistoryOK'
    <3>1. \A k \in Heartbeats : k \in Actors
      BY DEF Actors, Shells
    <3>2. StopsForAReason'
      BY <2>2, <3>1 DEF StopsForAReason, RecoveryInv, HistoryOK
    <3>3. QED
      BY <2>6, <3>2 DEF HistoryOK, HistoryKept
  <2>12. QED
    BY <2>6, <2>7, <2>10, <2>11 DEF RecoveryInv
<1>3. QED
  BY <1>1, <1>2

\* Every step of an actor, of the control plane and of the user.
LEMMA RecoveryStep == RecoveryInv /\ [Next]_authVars => RecoveryInv'
<1> SUFFICES ASSUME RecoveryInv, [Next]_authVars
             PROVE  RecoveryInv'
  OBVIOUS
<1>1. CASE UNCHANGED authVars
  <2>1. UNCHANGED <<issued, login, expired, consumed, profile, auth, pc, using, got, mode, dropped,
                    faults, raced>>
    BY <1>1 DEF authVars, serverVars, historyVars
  <2>2. QED
    BY <2>1, QuietStep, NobodyActs DEF Quiet, serverVars, HistoryKept, RecoveryInv, HistoryOK
<1>2. ASSUME NEW a \in Actors, Begin(a) \/ Attempt(a) \/ Failure(a)
      PROVE  RecoveryInv'
  BY <1>2, FirstRequestInv, RefreshGrantedInv, RefreshNotGrantedInv, RetryInv, ReloadInv,
     ExchangeInv, ApplyInv, SaveInv
  DEF Attempt, Failure, Shells
<1>3. ASSUME NEW h \in Heartbeats, Terminated(h)
      PROVE  RecoveryInv'
  BY <1>3, TerminatedInv
<1>4. QED
  BY <1>1, <1>2, <1>3, OutsideInv, EndInv DEF Next

\* The control plane's chains, what the stores and the actors hold, and why a heartbeat
\* stops, are as RecoveryInv says in every state.
THEOREM RecoveryInvariant == Spec => []RecoveryInv
  BY RecoveryInit, RecoveryStep, PTL DEF Spec

\* A session that came of a user key gets into the profile by no path: not through the
\* bridge of the key's shell, which reads the profile, nor through another shell.
THEOREM ProfileIsTheUsersOwn == Spec => []KeyStaysOutOfProfile
<1>1. RecoveryInv => KeyStaysOutOfProfile
  BY DEF RecoveryInv, StoreOK, Own, KeyStaysOutOfProfile
<1>2. QED
  BY <1>1, RecoveryInvariant, PTL

\* A heartbeat ends its shell for want of authorization only with a fault, a login or
\* logout, or a lost race behind it, however many processes share the profile.
THEOREM ShellsStopForAReason == Spec => []StopsForAReason
<1>1. RecoveryInv => StopsForAReason
  BY DEF RecoveryInv, HistoryOK
<1>2. QED
  BY <1>1, RecoveryInvariant, PTL

\* What is saved is the newest session of its login.
LEMMA SavesTheNewest ==
  ASSUME RecoveryInv, NEW a \in Actors, pc[a] = "save" \/ mode[a] = "refreshed"
  PROVE  /\ got[a] \in 1..issued
         /\ got[a] \notin consumed
         /\ \A n \in 1..issued : login[n] = login[got[a]] => n <= got[a]
<1>1. AttemptOK(a) /\ Freshness(a) /\ got[a] \in 0..issued /\ pc[a] \in Label
  BY DEF RecoveryInv, AttemptsOK
<1>2. got[a] \in 1..issued /\ got[a] \notin consumed
  BY <1>1, ActorsAssumption
  DEF AttemptOK, Freshness, Label, Resting, Asking, Renewed, Reloaded, Storing, RecoveryInv,
      ServerOK, Session, None
<1>3. \A n \in 1..issued : login[n] = login[got[a]] => n <= got[a]
  BY <1>2 DEF RecoveryInv, ServerOK
<1>4. QED
  BY <1>2, <1>3

\* However late a save comes, it does not put an earlier session of a login over a
\* later one: the refresh token in the profile would be used up.
THEOREM ProfileGoesForward == Spec => ProfileNeverGoesBack
<1> DEFINE Forward ==
        profile # None /\ profile' # None /\ login'[profile] = login'[profile']
            => profile <= profile'
<1>1. RecoveryInv /\ [Next]_authVars => [Forward]_authVars
  <2> SUFFICES ASSUME RecoveryInv, Next, profile # None, profile' # None,
                      login'[profile] = login'[profile'], profile' # profile
               PROVE  profile <= profile'
    BY DEF RecoveryInv, StoreOK, ServerOK, Session
  <2>1. profile \in 1..issued /\ issued \in Nat
    BY ActorsAssumption DEF RecoveryInv, StoreOK, ServerOK, Session, None
  <2>2. CASE Login
    BY <2>1, <2>2 DEF Login
  <2>3. ASSUME NEW a \in Actors, SaveSucceeds(a)
        PROVE  profile <= profile'
    <3>1. /\ pc[a] = "save"
          /\ profile' = got[a]
          /\ login[profile] = login[got[a]]
      BY <2>3 DEF SaveSucceeds, At, serverVars
    <3>2. QED
      BY <2>1, <3>1, SavesTheNewest
  <2>4. CASE Logout
    BY <2>4 DEF Logout
  <2>5. QED
    BY <2>2, <2>3, <2>4
    DEF Next, Begin, Attempt, Failure, ShellEnds, Terminated, ProcessEnds, AccessExpires,
        CallAccepted, CallUnauthorized, RefreshGranted, RefreshRefused, RetryAccepted, Reload,
        RecallAccepted, RecallUnauthorized, Apply, Share, ExchangeGranted, CallFails, RefreshFails,
        RetryFails, SaveFails, ExchangeFails
<1>2. QED
  BY <1>1, RecoveryInvariant, PTL DEF Spec, ProfileNeverGoesBack

-----------------------------------------------------------------------------
(***************************************************************************)
(* No login is lost.  First, what one step may do: to the control plane and *)
(* the profile, to an actor's attempt, and to a shell's memory.             *)
(***************************************************************************)

\* Session n needs nobody to keep it after the step.
SafeNext(n) == n \in consumed' \cup dropped' \cup {profile'}

ServerMoves ==
    /\ Onward
    /\ consumed \subseteq consumed'
    /\ dropped \subseteq dropped'
    /\ profile # None => SafeNext(profile)
    /\ profile' \in {profile, None, issued + 1} \/ \E c \in Actors : Holder(c) /\ profile' = got[c]
    /\ \/ issued' = issued
       \/ /\ issued' = issued + 1
          /\ SafeNext(issued + 1) \/ \E c \in Actors : got'[c] = issued + 1 /\ pc'[c] # "exited"

Unmoved(c) == pc'[c] = pc[c] /\ using'[c] = using[c] /\ got'[c] = got[c] /\ mode'[c] = mode[c]

\* An actor obtains the profile's session or a new one; what it lets go of is safe, or
\* in the memory of its shell.
Moves(c) ==
    /\ \/ got'[c] = got[c] /\ mode'[c] = mode[c] /\ (got[c] # None => pc'[c] # "exited")
       \/ got'[c] = None /\ mode'[c] = "unchanged"
       \/ got'[c] = profile /\ mode'[c] = "reloaded" /\ profile' = profile /\ profile # None
       \/ /\ got'[c] = issued + 1 /\ mode'[c] = "refreshed"
          /\ issued' = issued + 1 /\ profile' = profile
          /\ \A d \in Actors : d # c => Unmoved(d)
          /\ \/ login'[issued + 1] = -(issued + 1)
             \/ \E p \in {using[c], got[c]} \ {None} :
                   p \notin consumed /\ login'[issued + 1] = login[p]
    /\ got'[c] # got[c] =>
          \/ got[c] = None
          \/ mode[c] = "reloaded"
          \/ SafeNext(got[c])
          \/ ~Holder(c) /\ c \in Shells /\ auth'[c] = got[c] /\ pc'[c] # "exited"
    /\ using'[c] \in {using[c], None} \/ (c \in Shells => using'[c] = auth[c])

\* A bridge works with its own session until it stores one.
BridgeMoves(b) ==
    /\ pc'[b] \notin Resting \cup {"share", "save"} =>
          /\ auth'[b] = auth[b]
          /\ \/ using'[b] = auth[b]
             \/ using'[b] = using[b] /\ pc[b] \notin Resting \cup {"share", "save"}
    /\ pc'[b] \in {"apply", "share"} => got'[b] = got[b] /\ mode'[b] = mode[b]
    /\ pc'[b] = "share" => pc[b] \in {"apply", "share"} /\ auth'[b] = got[b]
    /\ pc'[b] = "apply" => \/ pc[b] = "apply"
                           \/ got[b] \notin expired /\ pc[b] \in {"retry", "rejoin", "recall"}

\* A shell's memory changes when one of its goroutines stores what it obtained.
AuthMoves(a) ==
    \/ auth'[a] = auth[a]
    \/ \E c \in Shells :
          /\ auth'[a] = got[c]
          /\ Replaces(got[c], auth[a])
          /\ Holder(a) => Holder(c)
          /\ mode[c] = "refreshed" /\ Holder(c) => got'[c] = got[c] /\ mode'[c] = mode[c]
          /\ pc'[a] = "exited" => pc[a] = "exited"
          /\ \/ c = a /\ pc[c] = "apply"
             \/ /\ c \in Bridges /\ a = HeartbeatOf[c] /\ pc[c] = "share"
                /\ a \in UserKeyed => pc'[c] = "idle"

\* A shell of a user key gives up what it has when it ends.
Leaves(a) == pc'[a] = "exited" /\ pc[a] # "exited" /\ ~Holder(a) => auth[a] \in dropped'

StepMoves ==
    /\ ServerMoves
    /\ \A c \in Actors : Moves(c)
    /\ \A b \in Bridges : BridgeMoves(b)
    /\ \A a \in Shells : AuthMoves(a) /\ Leaves(a)

\* The actors that do not take the step.
LEMMA UnmovedMoves ==
  ASSUME RecoveryInv, BridgeGoesForward, NEW c \in Actors, Unmoved(c)
  PROVE  /\ Moves(c)
         /\ c \in Bridges /\ auth'[c] = auth[c] => BridgeMoves(c)
         /\ c \in Shells => Leaves(c)
<1>1. AttemptOK(c)
  BY DEF RecoveryInv, AttemptsOK
<1>2. Moves(c)
  BY <1>1 DEF Unmoved, Moves, AttemptOK, Resting
<1>3. c \in Bridges /\ auth'[c] = auth[c] => BridgeMoves(c)
  BY DEF Unmoved, BridgeMoves, BridgeGoesForward
<1>4. Leaves(c)
  BY DEF Unmoved, Leaves
<1>5. QED
  BY <1>2, <1>3, <1>4

\* A step of one actor that stores nothing.
LEMMA LocalMoves ==
  ASSUME RecoveryInv, BridgeGoesForward, NEW a \in Actors,
         \A c \in Actors : c # a => Unmoved(c),
         auth' = auth, ServerMoves, Moves(a),
         a \in Bridges => BridgeMoves(a),
         a \in Shells => Leaves(a)
  PROVE  StepMoves
<1>1. \A c \in Shells : c \in Actors
  BY DEF Actors
<1>2. \A b \in Bridges : b \in Shells
  BY DEF Shells
<1>3. \A c \in Actors : Moves(c)
  BY UnmovedMoves
<1>4. \A b \in Bridges : BridgeMoves(b)
  BY <1>1, <1>2, UnmovedMoves
<1>5. \A c \in Shells : AuthMoves(c) /\ Leaves(c)
  BY <1>1, UnmovedMoves DEF AuthMoves
<1>6. QED
  BY <1>3, <1>4, <1>5 DEF StepMoves

\* A step that asks nothing new of the control plane and leaves the profile.
LEMMA QuietMoves ==
  ASSUME RecoveryInv, Quiet, dropped \subseteq dropped'
  PROVE  ServerMoves
<1>1. Onward /\ issued' = issued
  BY QuietStep
<1>2. QED
  BY <1>1 DEF ServerMoves, Quiet, serverVars, SafeNext

\* The end of an attempt that has nothing in hand, or what is safe.
LEMMA FinishMoves ==
  ASSUME RecoveryInv, NEW a \in Actors, NEW l \in {"idle", "exchange", "stopped", "terminated"},
         Finish(a, l), got[a] = None \/ mode[a] = "reloaded" \/ SafeNext(got[a])
  PROVE  /\ \A c \in Actors : c # a => Unmoved(c)
         /\ Moves(a)
         /\ a \in Bridges => BridgeMoves(a)
         /\ a \in Shells => Leaves(a)
<1>1. /\ pc'[a] = l /\ using'[a] = None /\ got'[a] = None /\ mode'[a] = "unchanged"
      /\ \A c \in Actors : c # a => Unmoved(c)
  BY DEF Finish, Goto, RecoveryInv, AttemptsOK, Unmoved
<1>2. Moves(a)
  BY <1>1 DEF Moves
<1>3. BridgeMoves(a) /\ Leaves(a)
  BY <1>1 DEF BridgeMoves, Resting, Leaves
<1>4. QED
  BY <1>1, <1>2, <1>3

\* An attempt that goes on with what it has.
LEMMA GotoMoves ==
  ASSUME RecoveryInv, NEW a \in Actors, NEW l \in Label \ {"exited"},
         Goto(a, l), UNCHANGED <<using, got, mode, auth>>,
         a \in Bridges /\ l \notin Resting \cup {"share", "save"} =>
             pc[a] \notin Resting \cup {"share", "save"},
         l = "share" => pc[a] \in {"apply", "share"} /\ auth[a] = got[a],
         l = "apply" => pc[a] = "apply" \/ (got[a] \notin expired
                                            /\ pc[a] \in {"retry", "rejoin", "recall"})
  PROVE  /\ \A c \in Actors : c # a => Unmoved(c)
         /\ Moves(a)
         /\ a \in Bridges => BridgeMoves(a)
         /\ a \in Shells => Leaves(a)
<1>1. pc'[a] = l /\ \A c \in Actors : c # a => Unmoved(c)
  BY DEF Goto, RecoveryInv, AttemptsOK, Unmoved
<1>2. Moves(a)
  BY <1>1 DEF Moves
<1>3. a \in Bridges => BridgeMoves(a)
  BY <1>1 DEF BridgeMoves
<1>4. Leaves(a)
  BY <1>1 DEF Leaves
<1>5. QED
  BY <1>1, <1>2, <1>3, <1>4

\* The steps of an attempt up to the refresh, and after a reload.
LEMMA AskingMoves ==
  ASSUME RecoveryInv, BridgeGoesForward, NEW a \in Actors,
         \/ Begin(a) \/ CallAccepted(a) \/ CallUnauthorized(a) \/ CallFails(a)
         \/ Reload(a) \/ RecallAccepted(a) \/ RecallUnauthorized(a)
  PROVE  StepMoves
<1>1. Quiet /\ dropped' = dropped /\ auth' = auth
  BY DEF Begin, CallAccepted, CallUnauthorized, CallFails, Reload, RecallAccepted,
         RecallUnauthorized, Quiet, historyVars, serverVars
<1>2. ServerMoves
  BY <1>1, QuietMoves
<1>3. AttemptOK(a) /\ Freshness(a)
  BY DEF RecoveryInv, AttemptsOK
<1>4. CASE Begin(a)
  <2>1. /\ pc'[a] = "call" /\ got' = got /\ mode' = mode
        /\ a \notin Commands => using'[a] = auth[a]
        /\ \A c \in Actors : c # a => Unmoved(c)
    BY <1>4 DEF Begin, Goto, Unmoved, RecoveryInv, AttemptsOK
  <2>2. a \in Shells => a \notin Commands
    BY ActorsAssumption
  <2>3. Moves(a) /\ Leaves(a)
    BY <2>1, <2>2 DEF Moves, Leaves
  <2>4. a \in Bridges => BridgeMoves(a)
    BY <1>1, <2>1, <2>2 DEF BridgeMoves, Shells
  <2>5. QED
    BY <1>1, <1>2, <2>1, <2>3, <2>4, LocalMoves
<1>5. CASE CallAccepted(a) \/ CallFails(a)
  <2>1. Finish(a, "idle") /\ (got[a] = None \/ mode[a] = "reloaded")
    BY <1>3, <1>5 DEF CallAccepted, CallFails, At, AttemptOK, Asking, Reloaded
  <2>2. QED
    BY <1>1, <1>2, <2>1, FinishMoves, LocalMoves
<1>6. CASE CallUnauthorized(a)
  <2>1. Goto(a, "refresh") /\ UNCHANGED <<using, got, mode, auth>> /\ pc[a] = "call"
    BY <1>1, <1>6 DEF CallUnauthorized, At
  <2>2. pc[a] \notin Resting \cup {"share", "save"} /\ "refresh" \in Label \ {"exited"}
    BY <2>1 DEF Resting, Label
  <2>3. QED
    BY <1>1, <1>2, <2>1, <2>2, GotoMoves, LocalMoves
<1>7. CASE Reload(a) /\ Changed(a)
  <2>1. /\ pc'[a] = "recall" /\ got'[a] = profile /\ mode'[a] = "reloaded" /\ using' = using
        /\ profile # None /\ profile' = profile /\ got[a] = None /\ pc[a] = "reload"
        /\ \A c \in Actors : c # a => Unmoved(c)
    BY <1>3, <1>7
    DEF Reload, Changed, At, Goto, Unmoved, RecoveryInv, AttemptsOK, AttemptOK, Asking
  <2>2. Moves(a) /\ Leaves(a)
    BY <2>1 DEF Moves, Leaves
  <2>3. a \in Bridges => BridgeMoves(a)
    BY <1>1, <2>1 DEF BridgeMoves, Resting
  <2>4. QED
    BY <1>1, <1>2, <2>1, <2>2, <2>3, LocalMoves
<1>8. CASE Reload(a) /\ ~Changed(a)
  <2> DEFINE l == IF a \in Heartbeats THEN GiveUp(a) ELSE "idle"
  <2>1. Finish(a, l) /\ got[a] = None
    BY <1>3, <1>8 DEF Reload, At, AttemptOK, Asking
  <2>2. l \in {"idle", "exchange", "stopped", "terminated"}
    BY DEF GiveUp
  <2> HIDE DEF l
  <2>3. QED
    BY <1>1, <1>2, <2>1, <2>2, FinishMoves, LocalMoves
<1>9. CASE RecallAccepted(a)
  <2>1. \E l \in {"save", "apply"} : Goto(a, l)
    BY <1>9 DEF RecallAccepted
  <2>2. UNCHANGED <<using, got, mode, auth>> /\ pc[a] = "recall" /\ got[a] \notin expired
    BY <1>1, <1>9 DEF RecallAccepted, At
  <2>3. pc[a] \notin Resting \cup {"share", "save"} /\ {"save", "apply"} \subseteq Label \ {"exited"}
    BY <2>2 DEF Resting, Label
  <2>4. QED
    BY <1>1, <1>2, <2>1, <2>2, <2>3, GotoMoves, LocalMoves
<1>10. CASE RecallUnauthorized(a) /\ a \in Bridges
  <2>1. Finish(a, "idle") /\ mode[a] = "reloaded"
    BY <1>3, <1>10 DEF RecallUnauthorized, At, AttemptOK, Reloaded
  <2>2. QED
    BY <1>1, <1>2, <2>1, FinishMoves, LocalMoves
<1>11. CASE RecallUnauthorized(a) /\ a \notin Bridges
  <2>1. Goto(a, "rerefresh") /\ UNCHANGED <<using, got, mode, auth>>
    BY <1>1, <1>11 DEF RecallUnauthorized
  <2>2. "rerefresh" \in Label \ {"exited"}
    BY DEF Label
  <2>3. QED
    BY <1>1, <1>2, <1>11, <2>1, <2>2, GotoMoves, LocalMoves
<1>12. QED
  BY <1>4, <1>5, <1>6, <1>7, <1>8, <1>9, <1>10, <1>11

\* After an error, the attempt lets go at most of what it had reloaded.
LEMMA ErrorMoves ==
  ASSUME RecoveryInv, NEW a \in Actors, Refreshing(a), RefreshError(a), auth' = auth
  PROVE  /\ \A c \in Actors : c # a => Unmoved(c)
         /\ Moves(a)
         /\ a \in Bridges => BridgeMoves(a)
         /\ a \in Shells => Leaves(a)
<1>1. CASE At(a, "refresh")
  <2>1. Goto(a, "reload") /\ UNCHANGED <<using, got, mode, auth>> /\ pc[a] = "refresh"
    BY <1>1 DEF RefreshError, At
  <2>2. pc[a] \notin Resting \cup {"share", "save"} /\ "reload" \in Label \ {"exited"}
    BY <2>1 DEF Resting, Label
  <2>3. QED
    BY <2>1, <2>2, GotoMoves
<1>2. CASE ~At(a, "refresh")
  <2> DEFINE l == IF a \in Heartbeats THEN GiveUp(a) ELSE "idle"
  <2>1. Finish(a, l)
    BY <1>2 DEF RefreshError
  <2>2. mode[a] = "reloaded"
    BY <1>2 DEF Refreshing, At, RecoveryInv, AttemptsOK, AttemptOK, Reloaded
  <2>3. l \in {"idle", "exchange", "stopped", "terminated"}
    BY DEF GiveUp
  <2> HIDE DEF l
  <2>4. QED
    BY <2>1, <2>2, <2>3, FinishMoves
<1>3. QED
  BY <1>1, <1>2

\* The refresh itself, granted or not.
LEMMA RefreshMoves ==
  ASSUME RecoveryInv, BridgeGoesForward, NEW a \in Actors,
         RefreshGranted(a) \/ RefreshRefused(a) \/ RefreshFails(a)
  PROVE  StepMoves
<1>1. AttemptOK(a) /\ Freshness(a) /\ pc[a] \in Label
  BY DEF RecoveryInv, AttemptsOK
<1>2. CASE RefreshGranted(a)
  <2>1. Onward /\ issued' = issued + 1 /\ login'[issued + 1] = login[Presented(a)]
    <3>1. Onward /\ issued' = issued + 1
      BY <1>2, RefreshGrantedInv
    <3>2. issued + 1 \in Session
      BY <1>2, ActorsAssumption DEF RefreshGranted, RecoveryInv, ServerOK, Session
    <3>3. QED
      BY <1>2, <3>1, <3>2 DEF RefreshGranted, Issued, RecoveryInv, ServerOK
  <2>2. /\ pc'[a] = "retry" /\ got'[a] = issued + 1 /\ mode'[a] = "refreshed"
        /\ UNCHANGED <<using, auth, profile, dropped>> /\ consumed \subseteq consumed'
        /\ \A c \in Actors : c # a => Unmoved(c)
    BY <1>2 DEF RefreshGranted, Goto, Unmoved, historyVars, RecoveryInv, AttemptsOK
  <2>3. /\ Presented(a) \in {using[a], got[a]} \ {None}
        /\ Presented(a) \notin consumed
        /\ got[a] = None \/ mode[a] = "reloaded"
        /\ pc[a] \in {"refresh", "rerefresh"}
    BY <1>1, <1>2
    DEF RefreshGranted, Refreshing, Presented, At, AttemptOK, Asking, Reloaded
  <2>4. ServerMoves
    BY <2>1, <2>2 DEF ServerMoves, SafeNext
  <2>5. Moves(a) /\ Leaves(a)
    BY <2>1, <2>2, <2>3 DEF Moves, Leaves
  <2>6. BridgeMoves(a)
    BY <2>2, <2>3 DEF BridgeMoves, Resting
  <2>7. QED
    BY <2>2, <2>4, <2>5, <2>6, LocalMoves
<1>3. CASE RefreshRefused(a)
  <2>1. Quiet /\ dropped' = dropped /\ auth' = auth
    BY <1>3 DEF RefreshRefused, Quiet, serverVars
  <2>2. QED
    BY <1>3, <2>1, QuietMoves, ErrorMoves, LocalMoves DEF RefreshRefused
<1>4. CASE RefreshFails(a)
  <2>1. /\ Onward /\ UNCHANGED <<profile, auth>>
        /\ consumed \subseteq consumed' /\ dropped \subseteq dropped'
        /\ issued' = issued \/ (issued' = issued + 1 /\ issued + 1 \in dropped')
    BY <1>4, RefreshNotGrantedInv DEF RefreshFails, serverVars, Issued
  <2>2. ServerMoves
    BY <2>1 DEF ServerMoves, SafeNext
  <2>3. QED
    BY <1>4, <2>1, <2>2, ErrorMoves, LocalMoves DEF RefreshFails
<1>5. QED
  BY <1>2, <1>3, <1>4

\* The request that follows a refresh.
LEMMA RetryMoves ==
  ASSUME RecoveryInv, BridgeGoesForward, NEW a \in Actors, RetryAccepted(a) \/ RetryFails(a)
  PROVE  StepMoves
<1>1. AttemptOK(a) /\ Freshness(a)
  BY DEF RecoveryInv, AttemptsOK
<1>2. Quiet /\ dropped \subseteq dropped' /\ auth' = auth
  BY DEF RetryAccepted, RetryFails, Quiet, serverVars, historyVars
<1>3. ServerMoves
  BY <1>2, QuietMoves
<1>4. CASE RetryAccepted(a)
  <2>1. \E l \in {"save", "apply"} : Goto(a, l)
    BY <1>4 DEF RetryAccepted
  <2>2. /\ UNCHANGED <<using, got, mode, auth>> /\ pc[a] \in {"retry", "rejoin"}
        /\ got[a] \notin expired
    BY <1>1, <1>4 DEF RetryAccepted, At, AttemptOK, Freshness, Renewed
  <2>3. pc[a] \notin Resting \cup {"share", "save"} /\ {"save", "apply"} \subseteq Label \ {"exited"}
    BY <2>2 DEF Resting, Label
  <2>4. QED
    BY <1>2, <1>3, <2>1, <2>2, <2>3, GotoMoves, LocalMoves
<1>5. CASE RetryFails(a)
  <2>1. /\ Finish(a, "stopped") \/ Finish(a, "idle")
        /\ SafeNext(got[a])
    BY <1>5 DEF RetryFails, SafeNext
  <2>2. QED
    BY <1>2, <1>3, <2>1, FinishMoves, LocalMoves
<1>6. QED
  BY <1>4, <1>5

\* The heartbeat's exchange of its user key, and the end of its session.
LEMMA HeartbeatMoves ==
  ASSUME RecoveryInv, BridgeGoesForward, NEW h \in Heartbeats,
         ExchangeGranted(h) \/ ExchangeFails(h) \/ Terminated(h)
  PROVE  StepMoves
<1>1. h \in Actors /\ h \notin Bridges /\ AttemptOK(h) /\ Freshness(h) /\ issued \in Nat
  BY ActorsAssumption DEF RecoveryInv, AttemptsOK, ServerOK, Session, Actors, Shells
<1>2. CASE ExchangeGranted(h)
  <2>1. issued < MaxSession
    BY <1>2, RoomForOne DEF ExchangeGranted, RecoveryInv
  <2>2. issued' = issued + 1 /\ issued + 1 \in Session /\ login'[issued + 1] = -(issued + 1)
    BY <1>1, <1>2, <2>1, ActorsAssumption
    DEF ExchangeGranted, Issued, RecoveryInv, ServerOK, Session
  <2>3. \A n \in 1..issued : login'[n] = login[n]
    BY <1>1, <1>2, <2>1 DEF ExchangeGranted, Issued, RecoveryInv, ServerOK, Session
  <2>4. /\ pc'[h] = "rejoin" /\ got'[h] = issued + 1 /\ mode'[h] = "refreshed"
        /\ UNCHANGED <<using, auth, profile, dropped, consumed, expired, faults>>
        /\ \A c \in Actors : c # h => Unmoved(c)
    BY <1>1, <1>2 DEF ExchangeGranted, Goto, Unmoved, historyVars, RecoveryInv, AttemptsOK
  <2>5. got[h] = None
    BY <1>1, <1>2 DEF ExchangeGranted, At, AttemptOK, Resting
  <2>6. ServerMoves
    BY <1>1, <2>2, <2>3, <2>4 DEF ServerMoves, Onward, SafeNext
  <2>7. Moves(h) /\ Leaves(h)
    BY <2>2, <2>4, <2>5 DEF Moves, Leaves
  <2>8. QED
    BY <1>1, <2>4, <2>6, <2>7, LocalMoves
<1>3. CASE ExchangeFails(h) \/ Terminated(h)
  <2>1. Quiet /\ dropped \subseteq dropped' /\ auth' = auth
    BY <1>3 DEF ExchangeFails, Terminated, Quiet, serverVars
  <2>2. Finish(h, "stopped") \/ Finish(h, "terminated")
    BY <1>3 DEF ExchangeFails, Terminated
  <2>3. got[h] = None \/ mode[h] = "reloaded" \/ SafeNext(got[h])
    BY <1>1, <1>3
    DEF ExchangeFails, Terminated, At, AttemptOK, Resting, Asking, Reloaded, SafeNext
  <2>4. QED
    BY <1>1, <2>1, <2>2, <2>3, QuietMoves, FinishMoves, LocalMoves
<1>4. QED
  BY <1>2, <1>3

\* The write of the profile: what it had is used up, or given up for another login.
LEMMA SaveMoves ==
  ASSUME RecoveryInv, BridgeGoesForward, NEW a \in Actors, SaveSucceeds(a) \/ SaveFails(a)
  PROVE  StepMoves
<1>1. AttemptOK(a) /\ Freshness(a) /\ pc[a] = "save" /\ Finish(a, "idle") /\ auth' = auth
  BY DEF RecoveryInv, AttemptsOK, SaveSucceeds, SaveFails, At
<1>2. CASE SaveFails(a)
  <2>1. Quiet /\ dropped \subseteq dropped' /\ SafeNext(got[a])
    BY <1>2 DEF SaveFails, Quiet, serverVars, SafeNext
  <2>2. QED
    BY <1>1, <2>1, QuietMoves, FinishMoves, LocalMoves
<1>3. CASE SaveSucceeds(a)
  <2>1. /\ UNCHANGED <<issued, login, expired, consumed, faults>>
        /\ profile' = got[a] /\ dropped \subseteq dropped'
        /\ Replaces(got[a], profile)
    BY <1>3 DEF SaveSucceeds, serverVars, Replaces
  <2>2. Holder(a)
    BY <1>1 DEF Freshness
  <2>3. Onward
    BY <2>1, ActorsAssumption DEF RecoveryInv, ServerOK, Session, Onward
  <2>4. profile # None => SafeNext(profile)
    <3> SUFFICES ASSUME profile # None
                 PROVE  SafeNext(profile)
      OBVIOUS
    <3>1. profile \in 1..issued
      BY ActorsAssumption DEF RecoveryInv, StoreOK, ServerOK, Session, None
    <3>2. CASE login[profile] # login[got[a]]
      BY <2>1, <3>2 DEF Replaces, SafeNext
    <3>3. CASE login[profile] = login[got[a]]
      <4>1. got[a] \in 1..issued /\ profile <= got[a]
        BY <1>1, <3>1, <3>3, SavesTheNewest
      <4>2. profile = got[a] \/ profile \in consumed
        BY <3>1, <3>3, <4>1 DEF RecoveryInv, ServerOK
      <4>3. QED
        BY <2>1, <4>2 DEF SafeNext
    <3>4. QED
      BY <3>2, <3>3
  <2>5. ServerMoves
    BY <2>1, <2>2, <2>3, <2>4 DEF ServerMoves
  <2>6. SafeNext(got[a])
    BY <2>1 DEF SafeNext
  <2>7. QED
    BY <1>1, <2>5, <2>6, FinishMoves, LocalMoves
<1>4. QED
  BY <1>2, <1>3

\* A shell stores what its attempt obtained.
LEMMA ApplyMoves ==
  ASSUME RecoveryInv, BridgeGoesForward, NEW a \in Shells, Apply(a) \/ (a \in Bridges /\ Share(a))
  PROVE  StepMoves
<1>1. a \in Actors /\ AttemptOK(a) /\ Freshness(a)
  BY DEF RecoveryInv, AttemptsOK, Actors
<1>2. PICK s : s = IF At(a, "apply") THEN a ELSE HeartbeatOf[a]
  OBVIOUS
<1>3. /\ auth' = [auth EXCEPT ![s] = got[a]]
      /\ Replaces(got[a], auth[s])
      /\ UNCHANGED <<serverVars, profile, faults, raced>>
      /\ s \in Shells
      /\ \/ s = a /\ pc[a] = "apply" /\ Apply(a)
         \/ a \in Bridges /\ s = HeartbeatOf[a] /\ pc[a] = "share" /\ Share(a)
  <2>1. CASE Apply(a)
    BY <1>2, <2>1 DEF Apply, At
  <2>2. CASE a \in Bridges /\ Share(a)
    BY <1>2, <2>2, OneKeyPerShell DEF Share, At
  <2>3. QED
    BY <2>1, <2>2
<1>4. Holder(s) => Holder(a)
  BY <1>3, OneKeyPerShell
<1>6. ServerMoves
  <2>1. UNCHANGED <<issued, login, expired, consumed, profile, faults>> /\ dropped \subseteq dropped'
    BY <1>3 DEF serverVars, Replaces
  <2>2. Onward
    BY <2>1, ActorsAssumption DEF RecoveryInv, ServerOK, Session, Onward
  <2>3. QED
    BY <2>1, <2>2 DEF ServerMoves, SafeNext
<1>7. \/ /\ pc' = [pc EXCEPT ![a] = "share"] /\ UNCHANGED <<using, got, mode>>
         /\ a \in Bridges /\ pc[a] = "apply"
      \/ /\ pc' = [pc EXCEPT ![a] = "save"] /\ UNCHANGED <<using, got, mode>>
         /\ s \notin UserKeyed
      \/ /\ Finish(a, "idle")
         /\ mode[a] = "reloaded" \/ s \in UserKeyed
  BY <1>1, <1>3 DEF Apply, Share, Stored, Goto, AttemptOK, Storing
<1>8. /\ \A c \in Actors : c # a => Unmoved(c)
      /\ pc'[a] \in {"share", "save", "idle"}
      /\ pc'[a] = "share" => pc[a] = "apply" /\ a \in Bridges
      /\ a \in Bridges /\ pc[a] = "apply" => pc'[a] = "share"
      /\ pc'[a] # "idle" => got'[a] = got[a] /\ mode'[a] = mode[a] /\ using'[a] = using[a]
      /\ pc'[a] = "idle" => /\ got'[a] = None /\ mode'[a] = "unchanged" /\ using'[a] = None
                            /\ mode[a] = "reloaded" \/ s \in UserKeyed
      /\ pc'[a] # "idle" => pc'[a] = "share" \/ s \notin UserKeyed
  <2>1. \A c \in Actors : c # a => Unmoved(c)
    BY <1>7 DEF Finish, Goto, Unmoved, RecoveryInv, AttemptsOK
  <2>2. a \in Bridges /\ pc[a] = "apply" => pc'[a] = "share"
    BY <1>1, <1>3 DEF Apply, Goto, RecoveryInv, AttemptsOK
  <2>3. QED
    BY <1>1, <1>7, <2>1, <2>2 DEF Finish, Goto, RecoveryInv, AttemptsOK
<1>9. s \in UserKeyed => ~Holder(a) /\ ~Holder(s)
  BY <1>3, OneKeyPerShell DEF Holder, WithUserKey
<1>10. auth'[a] = got[a]
  BY <1>1, <1>3 DEF RecoveryInv, StoreOK, BridgeGoesForward
<1>11. Moves(a) /\ Leaves(a)
  BY <1>8, <1>9, <1>10 DEF Moves, Leaves
<1>12. a \in Bridges => BridgeMoves(a)
  BY <1>8, <1>10 DEF BridgeMoves, Resting
<1>13. \A c \in Actors : Moves(c)
  BY <1>8, <1>11, UnmovedMoves
<1>14. ASSUME NEW b \in Bridges
       PROVE  BridgeMoves(b)
  <2>1. b \in Actors /\ b \in Shells /\ (b # a => s # b)
    BY <1>3, OneKeyPerShell
  <2>2. b # a => auth'[b] = auth[b]
    BY <1>3, <2>1 DEF RecoveryInv, StoreOK
  <2>3. QED
    BY <1>8, <1>12, <2>1, <2>2, UnmovedMoves
<1>15. ASSUME NEW c \in Shells
       PROVE  AuthMoves(c) /\ Leaves(c)
  <2>1. c \in Actors
    BY DEF Actors
  <2>2. Leaves(c)
    BY <1>8, <1>11, <2>1, UnmovedMoves
  <2>3. CASE c # s
    BY <1>3, <2>2, <2>3 DEF AuthMoves, RecoveryInv, StoreOK
  <2>4. CASE c = s
    <3>1. auth'[c] = got[a] /\ Replaces(got[a], auth[c])
      BY <1>3, <2>4 DEF RecoveryInv, StoreOK
    <3>2. Holder(c) => Holder(a)
      BY <1>4, <2>4
    <3>3. mode[a] = "refreshed" /\ Holder(a) => got'[a] = got[a] /\ mode'[a] = mode[a]
      BY <1>8, <1>9
    <3>4. pc'[c] = "exited" => pc[c] = "exited"
      BY <1>8, <2>1 DEF Unmoved
    <3>5. \/ a = c /\ pc[a] = "apply"
          \/ /\ a \in Bridges /\ c = HeartbeatOf[a] /\ pc[a] = "share"
             /\ c \in UserKeyed => pc'[a] = "idle"
      BY <1>3, <1>8, <2>4
    <3>6. QED
      BY <2>2, <3>1, <3>2, <3>3, <3>4, <3>5 DEF AuthMoves
  <2>5. QED
    BY <2>3, <2>4
<1>16. QED
  BY <1>6, <1>13, <1>14, <1>15 DEF StepMoves

\* Logins, logouts and expiries move no attempt.
LEMMA OutsideMoves ==
  ASSUME RecoveryInv, BridgeGoesForward, Login \/ Logout \/ \E n \in Session : AccessExpires(n)
  PROVE  StepMoves
<1>1. Onward
  BY OutsideInv
<1>2. UNCHANGED <<pc, using, got, mode, auth>>
  BY DEF Login, Logout, AccessExpires
<1>3. ServerMoves
  BY <1>1
  DEF ServerMoves, SafeNext, Login, Logout, AccessExpires, Issued, historyVars, serverVars
<1>4. \A c \in Actors : Unmoved(c)
  BY <1>2 DEF Unmoved
<1>5. \A c \in Shells : c \in Actors
  BY DEF Actors
<1>6. \A b \in Bridges : b \in Shells
  BY DEF Shells
<1>7. \A b \in Bridges : BridgeMoves(b)
  BY <1>2, <1>4, <1>5, <1>6, UnmovedMoves
<1>8. QED
  BY <1>2, <1>3, <1>4, <1>5, <1>7, UnmovedMoves DEF StepMoves, AuthMoves

\* The end of a goroutine, or of a shell's process.
LEMMA EndMoves ==
  ASSUME RecoveryInv, BridgeGoesForward,
         (\E a \in Shells : ShellEnds(a)) \/ (\E h \in Heartbeats : ProcessEnds(h))
  PROVE  StepMoves
<1>1. Quiet /\ dropped \subseteq dropped' /\ auth' = auth
  <2>1. Quiet
    BY EndInv
  <2>2. QED
    BY <2>1 DEF ShellEnds, ProcessEnds, Quiet
<1>2. ServerMoves
  BY <1>1, QuietMoves
<1>3. CASE \E a \in Shells : ShellEnds(a)
  <2>1. PICK a \in Shells : ShellEnds(a)
    BY <1>3
  <2>2. a \in Actors /\ AttemptOK(a)
    BY DEF RecoveryInv, AttemptsOK, Actors
  <2>3. /\ pc'[a] = "exited" /\ UNCHANGED <<using, got, mode>> /\ got[a] = None
        /\ \A c \in Actors : c # a => Unmoved(c)
    BY <2>1, <2>2 DEF ShellEnds, At, Goto, AttemptOK, Resting, Unmoved, RecoveryInv, AttemptsOK
  <2>4. Moves(a)
    BY <2>3 DEF Moves
  <2>5. BridgeMoves(a)
    BY <2>3 DEF BridgeMoves, Resting
  <2>6. Leaves(a)
    BY <2>1 DEF ShellEnds, Leaves, Holder
  <2>7. QED
    BY <1>1, <1>2, <2>2, <2>3, <2>4, <2>5, <2>6, LocalMoves
<1>4. CASE \E h \in Heartbeats : ProcessEnds(h)
  <2>1. PICK h \in Heartbeats : ProcessEnds(h)
    BY <1>4
  <2> DEFINE bridges == {b \in Bridges : HeartbeatOf[b] = h}
             ended == bridges \cup {h}
  <2>2. /\ pc' = [a \in Actors |-> IF a \in ended THEN "exited" ELSE pc[a]]
        /\ using' = [a \in Actors |-> IF a \in ended THEN None ELSE using[a]]
        /\ got' = [a \in Actors |-> IF a \in ended THEN None ELSE got[a]]
        /\ mode' = [a \in Actors |-> IF a \in ended THEN "unchanged" ELSE mode[a]]
        /\ dropped' = dropped \cup {got[b] : b \in {c \in bridges : mode[c] = "refreshed"}}
                              \cup (IF h \in UserKeyed THEN {auth[a] : a \in ended} ELSE {})
        /\ pc[h] \in {"stopped", "terminated"}
    BY <2>1 DEF ProcessEnds, At
  <2>3. h \in Actors /\ h \notin Bridges
    BY ActorsAssumption DEF Actors, Shells
  <2>4. ASSUME NEW c \in Actors, c \in ended
        PROVE  /\ Moves(c)
               /\ c \in Bridges => BridgeMoves(c)
               /\ c \in Shells => Leaves(c)
    <3>1. pc'[c] = "exited" /\ using'[c] = None /\ got'[c] = None /\ mode'[c] = "unchanged"
      BY <2>2, <2>4
    <3>2. AttemptOK(c) /\ pc[c] \in Label
      BY DEF RecoveryInv, AttemptsOK
    <3>3. got[c] = None \/ mode[c] = "reloaded" \/ SafeNext(got[c])
      <4>1. CASE c = h
        BY <2>2, <3>2, <4>1 DEF AttemptOK, Resting
      <4>2. CASE c \in bridges
        <5>1. mode[c] = "refreshed" => got[c] \in dropped'
          BY <2>2, <4>2
        <5>2. got[c] = None \/ mode[c] \in {"reloaded", "refreshed"}
          BY <3>2 DEF AttemptOK, Label, Resting, Asking, Renewed, Reloaded, Storing
        <5>3. QED
          BY <5>1, <5>2 DEF SafeNext
      <4>3. QED
        BY <2>4, <4>1, <4>2
    <3>4. Moves(c)
      BY <3>1, <3>3 DEF Moves
    <3>5. BridgeMoves(c)
      BY <3>1 DEF BridgeMoves, Resting
    <3>6. Leaves(c)
      <4>1. ~Holder(c) => h \in UserKeyed
        BY <2>3, <2>4, ActorsAssumption DEF Holder, WithUserKey
      <4>2. h \in UserKeyed => auth[c] \in dropped'
        BY <2>2, <2>4
      <4>3. QED
        BY <4>1, <4>2 DEF Leaves
    <3>7. QED
      BY <3>4, <3>5, <3>6
  <2>5. ASSUME NEW c \in Actors, c \notin ended
        PROVE  /\ Moves(c)
               /\ c \in Bridges => BridgeMoves(c)
               /\ c \in Shells => Leaves(c)
    <3>1. Unmoved(c)
      BY <2>2, <2>5 DEF Unmoved
    <3>2. QED
      BY <1>1, <3>1, UnmovedMoves
  <2>6. \A c \in Actors : /\ Moves(c)
                          /\ c \in Bridges => BridgeMoves(c)
                          /\ c \in Shells => Leaves(c)
    BY <2>4, <2>5
  <2>7. Bridges \subseteq Actors /\ Shells \subseteq Actors
    BY DEF Actors, Shells
  <2>8. QED
    BY <1>1, <1>2, <2>6, <2>7 DEF StepMoves, AuthMoves
<1>5. QED
  BY <1>3, <1>4

\* Every step moves as StepMoves says.
LEMMA NextMoves ==
  ASSUME RecoveryInv, BridgeGoesForward, Next
  PROVE  StepMoves
<1>1. ASSUME NEW a \in Actors, Begin(a) \/ Attempt(a) \/ Failure(a)
      PROVE  StepMoves
  BY <1>1, AskingMoves, RefreshMoves, RetryMoves, HeartbeatMoves, SaveMoves, ApplyMoves
  DEF Attempt, Failure, Shells
<1>2. ASSUME NEW h \in Heartbeats, Terminated(h)
      PROVE  StepMoves
  BY <1>2, HeartbeatMoves
<1>3. QED
  BY <1>1, <1>2, OutsideMoves, EndMoves DEF Next
-----------------------------------------------------------------------------
(***************************************************************************)
(* Then, what every session has after such a step: each conjunct of KeptInv. *)
(***************************************************************************)

\* The sessions an actor has.
LEMMA InHand ==
  ASSUME RecoveryInv, NEW c \in Actors
  PROVE  /\ issued \in Nat
         /\ profile \in 0..issued
         /\ using[c] \in 0..issued
         /\ got[c] \in 0..issued
         /\ mode[c] = "unchanged" <=> got[c] = None
         /\ mode[c] # "unchanged" => pc[c] # "exited" /\ got[c] \in 1..issued
         /\ c \in Shells => auth[c] \in 1..issued
<1>1. AttemptOK(c) /\ pc[c] \in Label /\ got[c] \in 0..issued /\ using[c] \in 0..issued
  BY DEF RecoveryInv, AttemptsOK
<1>2. issued \in Nat
  BY ActorsAssumption DEF RecoveryInv, ServerOK, Session
<1>3. mode[c] = "unchanged" <=> got[c] = None
  BY <1>1 DEF AttemptOK, Label, Resting, Asking, Renewed, Reloaded, Storing
<1>4. mode[c] # "unchanged" => pc[c] # "exited"
  BY <1>1 DEF AttemptOK, Resting
<1>5. mode[c] # "unchanged" => got[c] \in 1..issued
  BY <1>1, <1>2, <1>3 DEF None
<1>6. QED
  BY <1>1, <1>2, <1>3, <1>4, <1>5 DEF RecoveryInv, StoreOK

\* What is safe stays safe.
LEMMA SafeStays ==
  ASSUME ServerMoves, NEW n \in 1..issued, Safe(n)
  PROVE  SafeNext(n)
  BY DEF ServerMoves, Safe, SafeNext, None

\* Of a login's sessions all but the newest are used up.
LEMMA Chain ==
  ASSUME RecoveryInv, NEW m \in 1..issued, NEW n \in 1..issued,
         login[m] = login[n], m \notin consumed
  PROVE  n <= m
  BY ActorsAssumption DEF RecoveryInv, ServerOK, Session

\* What was obtained is kept, or it is safe, or in the shell's memory.
LEMMA StaysInHand ==
  ASSUME RecoveryInv, ReloadedIsSafe, StepMoves, NEW c \in Actors, got[c] # None
  PROVE  \/ SafeNext(got[c])
         \/ got'[c] = got[c] /\ mode'[c] = mode[c] /\ pc'[c] # "exited"
         \/ ~Holder(c) /\ c \in Shells /\ auth'[c] = got[c] /\ pc'[c] # "exited"
<1>1. Moves(c) /\ ServerMoves
  BY DEF StepMoves
<1>2. got[c] \in 1..issued /\ issued \in Nat
  BY InHand DEF None
<1>3. mode[c] = "reloaded" => SafeNext(got[c])
  BY <1>1, <1>2, SafeStays DEF ReloadedIsSafe
<1>4. CASE got'[c] # got[c]
  BY <1>1, <1>3, <1>4 DEF Moves
<1>5. CASE got'[c] = got[c]
  BY <1>1, <1>2, <1>5 DEF Moves, SafeNext
<1>6. QED
  BY <1>4, <1>5

LEMMA ReloadedStaysSafe ==
  ASSUME RecoveryInv, RecoveryInv', ReloadedIsSafe, StepMoves
  PROVE  ReloadedIsSafe'
<1> SUFFICES ASSUME NEW c \in Actors, mode'[c] = "reloaded"
             PROVE  SafeNext(got'[c]) /\ login'[got'[c]] > 0
  BY DEF ReloadedIsSafe, Safe, SafeNext
<1>1. Moves(c) /\ ServerMoves /\ Onward
  BY DEF StepMoves, ServerMoves
<1>2. CASE got'[c] = got[c] /\ mode'[c] = mode[c]
  <2>1. got[c] \in 1..issued /\ Safe(got[c]) /\ login[got[c]] > 0
    BY <1>2, InHand DEF ReloadedIsSafe
  <2>2. QED
    BY <1>1, <1>2, <2>1, SafeStays DEF Onward
<1>3. CASE got'[c] = profile /\ profile' = profile /\ profile # None
  <2>1. profile \in 1..issued
    BY <1>3, InHand DEF None
  <2>2. login[profile] > 0
    BY <1>3 DEF RecoveryInv, StoreOK, Own
  <2>3. QED
    BY <1>1, <1>3, <2>1, <2>2 DEF Onward, SafeNext
<1>4. QED
  BY <1>1, <1>2, <1>3 DEF Moves

\* A shell's memory after a step: what it had, or what one of its goroutines had in hand.
LEMMA AuthStaysSafe ==
  ASSUME RecoveryInv, ReloadedIsSafe, AuthIsSafe, StepMoves
  PROVE  AuthIsSafe'
<1> SUFFICES ASSUME NEW a \in Shells, Holder(a)
             PROVE  \/ SafeNext(auth'[a])
                    \/ \E c \in Actors : Holder(c) /\ mode'[c] = "refreshed" /\ got'[c] = auth'[a]
  BY DEF AuthIsSafe, Safe, SafeNext, Holder, WithUserKey
<1>1. ServerMoves /\ AuthMoves(a) /\ a \in Actors /\ auth[a] \in 1..issued
  BY InHand DEF StepMoves, Actors
<1>2. CASE auth'[a] = auth[a]
  <2>1. CASE Safe(auth[a])
    BY <1>1, <1>2, <2>1, SafeStays
  <2>2. ASSUME NEW c \in Actors, Holder(c), mode[c] = "refreshed", got[c] = auth[a]
        PROVE  SafeNext(auth[a]) \/ (mode'[c] = "refreshed" /\ got'[c] = auth[a])
    BY <1>1, <2>2, StaysInHand DEF None
  <2>3. QED
    BY <1>2, <2>1, <2>2 DEF AuthIsSafe
<1>3. ASSUME NEW c \in Shells, auth'[a] = got[c], Holder(c), pc[c] \in Storing,
             mode[c] = "refreshed" => got'[c] = got[c] /\ mode'[c] = mode[c]
      PROVE  \/ SafeNext(auth'[a])
             \/ mode'[c] = "refreshed" /\ got'[c] = auth'[a]
  <2>1. c \in Actors /\ mode[c] \in {"reloaded", "refreshed"}
    BY <1>3 DEF Actors, RecoveryInv, AttemptsOK, AttemptOK
  <2>2. mode[c] = "reloaded" => Safe(got[c]) /\ got[c] \in 1..issued
    BY <2>1, InHand DEF ReloadedIsSafe
  <2>3. QED
    BY <1>1, <1>3, <2>1, <2>2, SafeStays
<1>4. QED
  <2>1. CASE auth'[a] # auth[a]
    <3>1. PICK c \in Shells :
             /\ auth'[a] = got[c] /\ Holder(c) /\ pc[c] \in Storing
             /\ mode[c] = "refreshed" => got'[c] = got[c] /\ mode'[c] = mode[c]
      BY <1>1, <2>1 DEF AuthMoves, Storing
    <3>2. c \in Actors
      BY DEF Actors
    <3>3. QED
      BY <1>3, <3>1, <3>2
  <2>2. QED
    BY <1>2, <2>1

\* A bridge works with its own session, and stores no earlier one of its login.
LEMMA BridgeStaysForward ==
  ASSUME RecoveryInv, RecoveryInv', BridgeGoesForward, StepMoves
  PROVE  BridgeGoesForward'
<1> SUFFICES ASSUME NEW b \in Bridges
             PROVE  /\ pc'[b] \notin Resting \cup {"share", "save"} => using'[b] = auth'[b]
                    /\ pc'[b] = "share" => auth'[b] = got'[b]
                    /\ pc'[b] = "apply" /\ login'[auth'[b]] = login'[got'[b]] => auth'[b] <= got'[b]
  BY DEF BridgeGoesForward
<1>1. BridgeMoves(b) /\ Onward /\ b \in Actors /\ b \in Shells
  BY OneKeyPerShell DEF StepMoves, ServerMoves
<1>2. pc'[b] \notin Resting \cup {"share", "save"} => using'[b] = auth'[b]
  BY <1>1 DEF BridgeMoves, BridgeGoesForward
<1>3. pc'[b] = "share" => auth'[b] = got'[b]
  BY <1>1 DEF BridgeMoves
<1>4. ASSUME pc'[b] = "apply", login'[auth'[b]] = login'[got'[b]]
      PROVE  auth'[b] <= got'[b]
  <2>1. auth'[b] = auth[b] /\ got'[b] = got[b] /\ mode'[b] = mode[b]
    BY <1>1, <1>4 DEF BridgeMoves, Resting
  <2>2. mode'[b] # "unchanged"
    BY <1>1, <1>4 DEF RecoveryInv, AttemptsOK, AttemptOK, Storing
  <2>3. auth[b] \in 1..issued /\ got[b] \in 1..issued /\ issued \in Nat
    BY <1>1, <2>1, <2>2, InHand
  <2>4. login[auth[b]] = login[got[b]]
    BY <1>1, <1>4, <2>1, <2>3 DEF Onward
  <2>5. CASE pc[b] = "apply"
    BY <2>1, <2>4, <2>5 DEF BridgeGoesForward
  <2>6. CASE got[b] \notin expired
    <3>1. got[b] \notin consumed
      BY <2>6 DEF RecoveryInv, ServerOK
    <3>2. QED
      BY <2>1, <2>3, <2>4, <3>1, Chain
  <2>7. QED
    BY <1>1, <1>4, <2>5, <2>6 DEF BridgeMoves
<1>5. QED
  BY <1>2, <1>3, <1>4

\* What a bridge gives up when it stores another session had expired.
LEMMA BridgeReplacesExpired ==
  ASSUME RecoveryInv, BridgeGoesForward, StepMoves, NEW b \in Bridges, auth'[b] # auth[b]
  PROVE  pc[b] = "apply" /\ auth[b] \in expired
<1>1. b \in Actors /\ b \in Shells /\ b \notin Heartbeats /\ AuthMoves(b) /\ auth[b] \in 1..issued
  BY OneKeyPerShell, InHand DEF StepMoves
<1>2. \A c \in Bridges : HeartbeatOf[c] # b
  BY <1>1, OneKeyPerShell
<1>3. pc[b] = "apply"
  BY <1>1, <1>2 DEF AuthMoves
<1>4. using[b] = auth[b]
  BY <1>3 DEF BridgeGoesForward, Resting
<1>5. QED
  BY <1>1, <1>3, <1>4, InHand DEF RecoveryInv, AttemptsOK, Freshness, None

\* A session that is on no way to the profile does not get on one.
LEMMA PrivateStays ==
  ASSUME RecoveryInv, StepMoves, NEW n \in 1..issued, Private(n)
  PROVE  Private(n)'
<1>1. n # None /\ n # issued + 1
  BY ActorsAssumption DEF RecoveryInv, ServerOK, Session, None
<1>2. profile' # n
  BY <1>1 DEF StepMoves, ServerMoves, Private
<1>3. ASSUME NEW c \in Actors, Holder(c) \/ mode'[c] = "reloaded"
      PROVE  got'[c] # n
  BY <1>1, <1>3 DEF StepMoves, Moves, Private
<1>4. QED
  BY <1>2, <1>3 DEF Private, Holder, WithUserKey

\* The heartbeat of a user key adds to what it has the session its bridge tells it,
\* or one that has just been issued to it.
LEMMA KeyedObtains ==
  ASSUME RecoveryInv, RecoveryInv', BridgeGoesForward, StepMoves,
         NEW b \in Bridges, NEW h \in UserKeyed, h = HeartbeatOf[b], NEW s \in Has(h)'
  PROVE  \/ s \in Has(h)
         \/ s = auth'[b] /\ pc'[b] = "idle"
         \/ /\ s = issued + 1 /\ got'[h] = s /\ mode'[h] = "refreshed" /\ profile' = profile
            /\ \A d \in Actors : d # h => Unmoved(d)
            /\ \/ login'[s] = -s
               \/ \E p \in Has(h) : p \notin consumed /\ login'[s] = login[p]
<1>1. /\ h \in Shells /\ h \in Actors /\ b \in Shells /\ b \in Actors
      /\ b \notin Heartbeats /\ h \in Heartbeats /\ h \notin Bridges
  BY OneKeyPerShell, ActorsAssumption DEF Actors, Shells
<1>2. AuthMoves(h) /\ Moves(h) /\ s \in {auth'[h], using'[h], got'[h]} /\ s # None
  BY <1>1 DEF StepMoves, Has
<1>3. CASE s = auth'[h]
  <2>1. CASE auth'[h] = auth[h] \/ auth'[h] = got[h]
    BY <1>2, <1>3, <2>1 DEF Has
  <2>2. ASSUME NEW c \in Bridges, h = HeartbeatOf[c], pc[c] = "share", auth'[h] = got[c],
               pc'[c] = "idle"
        PROVE  s = auth'[b] /\ pc'[b] = "idle"
    <3>1. c = b
      BY <2>2, ActorsAssumption
    <3>2. auth[b] = got[b]
      BY <2>2, <3>1 DEF BridgeGoesForward
    <3>3. auth'[b] = auth[b]
      BY <2>2, <3>1, BridgeReplacesExpired
    <3>4. QED
      BY <1>3, <2>2, <3>1, <3>2, <3>3
  <2>3. QED
    BY <1>2, <2>1, <2>2 DEF AuthMoves
<1>4. CASE s = using'[h]
  BY <1>1, <1>2, <1>4 DEF Moves, Has
<1>5. CASE s = got'[h]
  <2>1. mode'[h] # "reloaded"
    BY <1>1 DEF RecoveryInv, AttemptsOK, AttemptOK
  <2>2. CASE got'[h] = got[h]
    BY <1>2, <1>5, <2>2 DEF Has
  <2>3. CASE got'[h] # got[h]
    <3>1. /\ got'[h] = issued + 1 /\ mode'[h] = "refreshed" /\ profile' = profile
          /\ \A d \in Actors : d # h => Unmoved(d)
          /\ \/ login'[issued + 1] = -(issued + 1)
             \/ \E p \in {using[h], got[h]} \ {None} :
                   p \notin consumed /\ login'[issued + 1] = login[p]
      BY <1>2, <1>5, <2>1, <2>3 DEF Moves
    <3>2. {using[h], got[h]} \ {None} \subseteq Has(h)
      BY DEF Has
    <3>3. QED
      BY <1>5, <3>1, <3>2
  <2>4. QED
    BY <2>2, <2>3
<1>6. QED
  BY <1>2, <1>3, <1>4, <1>5

\* What the heartbeat of a user key has of the stored login, its bridge had first.
LEMMA KeyedStaysFromBridge ==
  ASSUME RecoveryInv, RecoveryInv', ReloadedIsSafe, BridgeGoesForward, KeyedFromBridge, StepMoves
  PROVE  KeyedFromBridge'
<1> SUFFICES ASSUME NEW b \in Bridges, HeartbeatOf[b] \in UserKeyed, NEW s \in Has(HeartbeatOf[b])'
             PROVE  /\ login'[s] > 0 => s \in expired' \/ s = auth'[b] \/ Private(s)'
                    /\ /\ pc'[b] \in {"apply", "share"} /\ mode'[b] = "reloaded"
                       /\ login'[s] = login'[got'[b]]
                       => s < got'[b]
  BY DEF KeyedFromBridge
<1>1. PICK h \in UserKeyed : h = HeartbeatOf[b]
  OBVIOUS
<1>2. /\ h \in Shells /\ h \in Actors /\ b \in Shells /\ b \in Actors /\ h # b
      /\ ~Holder(h) /\ ServerMoves /\ Onward /\ BridgeMoves(b)
  BY <1>1, OneKeyPerShell DEF Actors, StepMoves, ServerMoves
<1>3. auth[b] \in 1..issued /\ issued \in Nat
  BY <1>2, InHand
\* What the bridge is about to store was in its hand before.
<1>4. ASSUME pc'[b] \in {"apply", "share"}, mode'[b] = "reloaded"
      PROVE  /\ got'[b] = got[b] /\ mode[b] = "reloaded"
             /\ got[b] \in 1..issued /\ login[got[b]] > 0 /\ login'[got[b]] = login[got[b]]
             /\ pc[b] \in {"apply", "share"} \/ (got[b] \notin expired /\ auth[b] \in expired)
  <2>1. got'[b] = got[b] /\ mode[b] = "reloaded"
    BY <1>2, <1>4 DEF BridgeMoves
  <2>2. got[b] \in 1..issued /\ login[got[b]] > 0 /\ login'[got[b]] = login[got[b]]
    BY <1>2, <2>1, InHand DEF ReloadedIsSafe, Onward
  <2>3. CASE pc[b] \notin {"apply", "share"}
    <3>1. got[b] \notin expired /\ pc[b] \in {"retry", "rejoin", "recall"}
      BY <1>2, <1>4, <2>3 DEF BridgeMoves
    <3>2. using[b] = auth[b]
      BY <3>1 DEF BridgeGoesForward, Resting
    <3>3. auth[b] \in expired
      BY <1>2, <1>3, <3>1, <3>2 DEF RecoveryInv, AttemptsOK, Freshness, None
    <3>4. QED
      BY <2>1, <2>2, <3>1, <3>3
  <2>4. QED
    BY <2>1, <2>2, <2>3
<1>5. CASE s \in Has(h)
  <2>1. s \in 1..issued /\ login'[s] = login[s]
    BY <1>2, <1>3, <1>5, InHand DEF Has, None, Onward
  <2>2. /\ login[s] > 0 => s \in expired \/ s = auth[b] \/ Private(s)
        /\ /\ pc[b] \in {"apply", "share"} /\ mode[b] = "reloaded"
           /\ login[s] = login[got[b]]
           => s < got[b]
    BY <1>1, <1>5 DEF KeyedFromBridge
  <2>3. login'[s] > 0 => s \in expired' \/ s = auth'[b] \/ Private(s)'
    BY <1>2, <2>1, <2>2, PrivateStays, BridgeReplacesExpired DEF Onward
  <2>4. ASSUME pc'[b] \in {"apply", "share"}, mode'[b] = "reloaded", login'[s] = login'[got'[b]]
        PROVE  s < got'[b]
    <3>1. login[s] = login[got[b]] /\ login[s] > 0
      BY <1>4, <2>1, <2>4
    <3>2. CASE got[b] \notin expired /\ auth[b] \in expired
      <4>1. s # got[b]
        BY <1>2, <1>4, <2>2, <2>4, <3>1, <3>2 DEF Private
      <4>2. got[b] \notin consumed
        BY <3>2 DEF RecoveryInv, ServerOK
      <4>3. s <= got[b]
        BY <1>4, <2>1, <2>4, <3>1, <4>2, Chain
      <4>4. QED
        BY <1>4, <2>1, <2>4, <4>1, <4>3
    <3>3. QED
      BY <1>4, <2>2, <2>4, <3>1, <3>2
  <2>5. QED
    BY <2>3, <2>4
<1>6. CASE s = auth'[b] /\ pc'[b] = "idle"
  BY <1>6
<1>7. ASSUME s = issued + 1, got'[h] = s, mode'[h] = "refreshed", profile' = profile,
             \A d \in Actors : d # h => Unmoved(d),
             \/ login'[s] = -s
             \/ \E p \in Has(h) : p \notin consumed /\ login'[s] = login[p]
      PROVE  /\ Private(s)'
             /\ pc'[b] \in {"apply", "share"} /\ mode'[b] = "reloaded" => login'[s] # login'[got'[b]]
  <2>1. \A c \in Actors : Holder(c) \/ mode'[c] = "reloaded" => got'[c] # s
    <3> SUFFICES ASSUME NEW c \in Actors, Holder(c) \/ mode'[c] = "reloaded"
                 PROVE  got'[c] # s
      OBVIOUS
    <3>1. c # h
      BY <1>2, <1>7
    <3>2. got'[c] = got[c] /\ got[c] \in 0..issued
      BY <1>7, <3>1, InHand DEF Unmoved
    <3>3. QED
      BY <1>3, <1>7, <3>2
  <2>2. profile' # s
    BY <1>2, <1>3, <1>7, InHand
  <2>3. Private(s)'
    BY <2>1, <2>2 DEF Private, Holder, WithUserKey
  <2>4. ASSUME pc'[b] \in {"apply", "share"}, mode'[b] = "reloaded", login'[s] = login'[got'[b]]
        PROVE  FALSE
    <3>1. /\ got'[b] = got[b] /\ mode[b] = "reloaded" /\ pc[b] \in {"apply", "share"}
          /\ got[b] \in 1..issued /\ login[got[b]] > 0 /\ login'[got[b]] = login[got[b]]
      BY <1>2, <1>4, <1>7, <2>4 DEF Unmoved
    <3>2. PICK p \in Has(h) : p \notin consumed /\ login'[s] = login[p]
      BY <1>3, <1>7, <2>4, <3>1
    <3>3. p \in 1..issued /\ login[p] = login[got[b]]
      BY <1>2, <1>3, <2>4, <3>1, <3>2, InHand DEF Has, None
    <3>4. p < got[b]
      BY <1>1, <3>1, <3>3 DEF KeyedFromBridge
    <3>5. got[b] <= p
      BY <3>1, <3>2, <3>3, Chain
    <3>6. QED
      BY <3>1, <3>3, <3>4, <3>5
  <2>5. QED
    BY <2>3, <2>4
<1>8. QED
  <2>1. s \in Has(h)'
    BY <1>1
  <2>2. \/ s \in Has(h)
        \/ s = auth'[b] /\ pc'[b] = "idle"
        \/ /\ s = issued + 1 /\ got'[h] = s /\ mode'[h] = "refreshed" /\ profile' = profile
           /\ \A d \in Actors : d # h => Unmoved(d)
           /\ \/ login'[s] = -s
              \/ \E p \in Has(h) : p \notin consumed /\ login'[s] = login[p]
    BY <1>1, <2>1, KeyedObtains
  <2>3. QED
    BY <1>5, <1>6, <1>7, <2>2

\* What a shell of a user key gives up for another session of the same login is older.
LEMMA KeyedReplacesOlder ==
  ASSUME RecoveryInv, BridgeGoesForward, KeyedFromBridge,
         NEW a \in Shells, ~Holder(a), NEW c \in Shells, login[auth[a]] = login[got[c]],
         \/ c = a /\ pc[c] = "apply"
         \/ c \in Bridges /\ a = HeartbeatOf[c] /\ pc[c] = "share"
  PROVE  got[c] \in 1..issued /\ auth[a] <= got[c]
<1>1. /\ a \in Actors /\ c \in Actors
      /\ issued \in Nat /\ auth[a] \in 1..issued
  BY InHand DEF Actors
<1>2. mode[c] \in {"reloaded", "refreshed"} /\ got[c] \in 1..issued
  BY <1>1, InHand DEF RecoveryInv, AttemptsOK, AttemptOK, Storing
<1>3. CASE mode[c] = "refreshed"
  BY <1>1, <1>2, <1>3, SavesTheNewest
<1>4. CASE mode[c] = "reloaded" /\ c = a /\ pc[c] = "apply"
  <2>1. a \notin UserKeyed
    BY <1>1, <1>4 DEF RecoveryInv, AttemptsOK, AttemptOK
  <2>2. a \in Bridges
    BY <2>1 DEF Holder, WithUserKey
  <2>3. QED
    BY <1>2, <1>4, <2>2 DEF BridgeGoesForward
<1>5. CASE mode[c] = "reloaded" /\ c \in Bridges /\ a = HeartbeatOf[c] /\ pc[c] = "share"
  <2>1. a \in UserKeyed /\ auth[a] \in Has(a)
    BY <1>1, <1>5, OneKeyPerShell DEF Has, None
  <2>2. auth[a] < got[c]
    BY <1>5, <2>1 DEF KeyedFromBridge
  <2>3. QED
    BY <1>1, <1>2, <2>2
<1>6. QED
  BY <1>2, <1>3, <1>4, <1>5

\* Session n is in the profile, used up or given up after a step, or somebody has it.
KeptNext(n) ==
    \/ SafeNext(n)
    \/ \E a \in Actors : pc'[a] # "exited" /\ (got'[a] = n \/ (a \in Shells /\ auth'[a] = n))

\* What an actor has in hand is kept.
LEMMA HandIsKept ==
  ASSUME RecoveryInv, ReloadedIsSafe, StepMoves, NEW c \in Actors, got[c] # None
  PROVE  KeptNext(got[c])
  BY StaysInHand DEF KeptNext

\* What a shell has in memory is kept.
LEMMA MemoryIsKept ==
  ASSUME RecoveryInv, RecoveryInv', ReloadedIsSafe, AuthIsSafe, AuthIsSafe', BridgeGoesForward,
         KeyedFromBridge, StepMoves, NEW a \in Shells, pc[a] # "exited"
  PROVE  KeptNext(auth[a])
<1>1. /\ a \in Actors /\ auth[a] \in 1..issued /\ issued \in Nat
      /\ ServerMoves /\ AuthMoves(a) /\ Leaves(a)
  BY InHand DEF Actors, StepMoves
<1>2. CASE auth'[a] = auth[a] /\ pc'[a] # "exited"
  BY <1>1, <1>2 DEF KeptNext
<1>3. CASE auth'[a] = auth[a] /\ pc'[a] = "exited" /\ ~Holder(a)
  BY <1>1, <1>3 DEF Leaves, KeptNext, SafeNext
<1>4. CASE auth'[a] = auth[a] /\ pc'[a] = "exited" /\ Holder(a)
  <2>1. \/ SafeNext(auth'[a])
        \/ \E c \in Actors : mode'[c] = "refreshed" /\ got'[c] = auth'[a]
    BY <1>4 DEF AuthIsSafe, Safe, SafeNext, Holder, WithUserKey
  <2>2. \A c \in Actors : mode'[c] = "refreshed" => pc'[c] # "exited"
    BY DEF RecoveryInv, AttemptsOK, AttemptOK, Resting
  <2>3. QED
    BY <1>4, <2>1, <2>2 DEF KeptNext
<1>5. CASE auth'[a] # auth[a] /\ Holder(a)
  <2>1. CASE Safe(auth[a])
    BY <1>1, <2>1, SafeStays DEF KeptNext
  <2>2. ASSUME NEW c \in Actors, got[c] = auth[a]
        PROVE  KeptNext(auth[a])
    BY <1>1, <2>2, HandIsKept DEF None
  <2>3. QED
    BY <1>5, <2>1, <2>2 DEF AuthIsSafe
<1>6. CASE auth'[a] # auth[a] /\ ~Holder(a)
  <2>1. PICK c \in Shells :
           /\ auth'[a] = got[c] /\ Replaces(got[c], auth[a])
           /\ \/ c = a /\ pc[c] = "apply"
              \/ c \in Bridges /\ a = HeartbeatOf[c] /\ pc[c] = "share"
    BY <1>1, <1>6 DEF AuthMoves
  <2>2. CASE login[auth[a]] # login[got[c]]
    BY <1>1, <2>1, <2>2 DEF Replaces, KeptNext, SafeNext, None
  <2>3. CASE login[auth[a]] = login[got[c]]
    <3>1. got[c] \in 1..issued /\ auth[a] <= got[c] /\ got[c] # auth[a]
      BY <1>6, <2>1, <2>3, KeyedReplacesOlder
    <3>2. auth[a] \in consumed
      BY <1>1, <2>3, <3>1, Chain
    <3>3. QED
      BY <1>1, <3>2 DEF ServerMoves, KeptNext, SafeNext
  <2>4. QED
    BY <2>2, <2>3
<1>7. QED
  BY <1>2, <1>3, <1>4, <1>5, <1>6

LEMMA LoginStaysKept ==
  ASSUME RecoveryInv, RecoveryInv', KeptInv, AuthIsSafe', StepMoves
  PROVE  LoginIsKept'
<1> USE DEF KeptInv
<1> SUFFICES ASSUME NEW n \in 1..issued', n \notin consumed'
             PROVE  KeptNext(n)
  BY DEF LoginIsKept, KeptNext, SafeNext
<1>1. ServerMoves /\ issued \in Nat
  BY ActorsAssumption DEF StepMoves, RecoveryInv, ServerOK, Session
<1>2. CASE n \in 1..issued
  <2>1. n \notin consumed
    BY <1>1 DEF ServerMoves
  <2>2. CASE Safe(n)
    BY <1>1, <1>2, <2>2, SafeStays DEF KeptNext
  <2>3. ASSUME NEW a \in Actors, got[a] = n
        PROVE  KeptNext(n)
    BY <1>2, <2>3, HandIsKept DEF None
  <2>4. ASSUME NEW a \in Shells, auth[a] = n, pc[a] # "exited"
        PROVE  KeptNext(n)
    BY <2>4, MemoryIsKept
  <2>5. QED
    BY <1>2, <2>1, <2>2, <2>3, <2>4 DEF LoginIsKept, Safe
<1>3. CASE n \notin 1..issued
  <2>1. n = issued + 1 /\ issued' = issued + 1
    BY <1>1, <1>3 DEF ServerMoves
  <2>2. QED
    BY <1>1, <2>1 DEF ServerMoves, KeptNext
<1>4. QED
  BY <1>2, <1>3

LEMMA KeptInit == Init => KeptInv
<1> SUFFICES ASSUME Init
             PROVE  KeptInv
  OBVIOUS
<1> USE ActorsAssumption DEF Session, None
<1>1. \A a \in Actors : pc[a] = "idle" /\ using[a] = 0 /\ got[a] = 0 /\ mode[a] = "unchanged"
  BY DEF Init
<1>2. ReloadedIsSafe
  BY <1>1 DEF ReloadedIsSafe
<1>3. AuthIsSafe
  BY DEF Init, AuthIsSafe, InitialSession, Holder, Safe
<1>4. \A b \in Bridges : b \in Actors /\ pc[b] = "idle"
  BY <1>1, OneKeyPerShell
<1>5. BridgeGoesForward
  BY <1>4 DEF BridgeGoesForward, Resting
<1>6. \A h \in UserKeyed : h \in Shells /\ h \in Actors /\ ~Holder(h) /\ auth[h] = 2
  BY DEF Init, InitialSession, Holder, WithUserKey, Shells, Actors
<1>7. KeyedFromBridge
  <2> SUFFICES ASSUME NEW b \in Bridges, HeartbeatOf[b] \in UserKeyed,
                      NEW s \in Has(HeartbeatOf[b])
               PROVE  ~(login[s] > 0) /\ pc[b] = "idle"
    BY DEF KeyedFromBridge
  <2>1. s = 2
    BY <1>1, <1>6 DEF Has
  <2>2. login[2] = -2
    BY DEF Init
  <2>3. QED
    BY <1>4, <2>1, <2>2
<1>8. LoginIsKept
  <2> SUFFICES ASSUME NEW n \in 1..issued
               PROVE  profile = n \/ \E a \in Actors : pc[a] # "exited" /\ a \in Shells /\ auth[a] = n
    BY DEF LoginIsKept
  <2>1. CASE UserKeyed = {}
    BY <2>1 DEF Init
  <2>2. CASE UserKeyed # {}
    <3>1. PICK h \in UserKeyed : TRUE
      BY <2>2
    <3>2. n = 1 \/ n = 2
      BY <2>2 DEF Init
    <3>3. QED
      BY <1>1, <1>6, <3>1, <3>2 DEF Init
  <2>3. QED
    BY <2>1, <2>2
<1>9. QED
  BY <1>2, <1>3, <1>5, <1>7, <1>8 DEF KeptInv

\* Nothing changes.
LEMMA KeptStutters == KeptInv /\ UNCHANGED authVars => KeptInv'
  BY DEF KeptInv, ReloadedIsSafe, AuthIsSafe, BridgeGoesForward, KeyedFromBridge, LoginIsKept, Safe,
     Private, Has, Holder, WithUserKey, authVars, serverVars, historyVars

\* A refresh token that the control plane would still accept is in the profile, or with
\* a running shell or attempt, unless the code gave it up where it knowingly does.
THEOREM NoLoginIsLost == Spec => []LoginIsKept
<1>1. Init => KeptInv
  BY KeptInit
<1>2. RecoveryInv /\ RecoveryInv' /\ KeptInv /\ [Next]_authVars => KeptInv'
  <2> SUFFICES ASSUME RecoveryInv, RecoveryInv', KeptInv, Next
               PROVE  KeptInv'
    BY KeptStutters
  <2>1. StepMoves
    BY NextMoves DEF KeptInv
  <2>2. ReloadedIsSafe'
    BY <2>1, ReloadedStaysSafe DEF KeptInv
  <2>3. AuthIsSafe'
    BY <2>1, AuthStaysSafe DEF KeptInv
  <2>4. BridgeGoesForward'
    BY <2>1, BridgeStaysForward DEF KeptInv
  <2>5. KeyedFromBridge'
    BY <2>1, KeyedStaysFromBridge DEF KeptInv
  <2>6. LoginIsKept'
    BY <2>1, <2>3, LoginStaysKept
  <2>7. QED
    BY <2>2, <2>3, <2>4, <2>5, <2>6 DEF KeptInv
<1>3. KeptInv => LoginIsKept
  BY DEF KeptInv
<1>4. QED
  BY <1>1, <1>2, <1>3, RecoveryInvariant, PTL DEF Spec
=============================================================================
