----------------------------- MODULE SelfUpdate -----------------------------
(***************************************************************************)
(* How the CLI replaces itself: internal/selfupdate, and the prompt and the  *)
(* update command of cmd/shellin that call it.                               *)
(*                                                                           *)
(* Several invocations share one executable file and read one release host.  *)
(* Every request and every file operation is a step, so releases appear and  *)
(* other invocations install between any two of them; a process can die      *)
(* after any of them.                                                        *)
(*                                                                           *)
(* A release stands for its archive, the binary in it and the content of its *)
(* manifest; a checksum is the release it was computed from, a signature a   *)
(* flag of the manifest, which no one else than the publisher can set.       *)
(* Nothing ties an answer to the present: a mirror that lags behind, or a    *)
(* publisher who goes back, serves a manifest or an archive of any release   *)
(* up to now, and other hands may serve Forged.  Archives of all releases    *)
(* have the same URL.  Left out: the other platforms, and the text of the    *)
(* menu.                                                                     *)
(***************************************************************************)
EXTENDS ReleaseVersions

CONSTANTS
    Process,       \* the invocations of the CLI
    MaxRelease,    \* BOUND: how many releases there are
    Forged,        \* content that the publisher did not make
    Torn,          \* an executable that was not written to its end
    VersionOf,     \* the version in the manifest of a release
    BuiltVersion   \* defaultCLIVersion of its binary, set by the build

Release == 1..MaxRelease
Content == Release \cup {Forged}

ASSUME ReleaseAssumption ==
    /\ MaxRelease \in Nat \ {0}
    /\ Forged \notin Release /\ Torn \notin Content
    /\ DOMAIN VersionOf = Content /\ DOMAIN BuiltVersion = Content
    /\ \A c \in Content : VersionOf[c] \in Version /\ BuiltVersion[c] \in Version

\* The publisher's part: releases carry versions that parse and come in their order.
ASSUME PublishedInOrder ==
    \A r, s \in Release : /\ Parses(VersionOf[r])
                          /\ r < s => CompareReleaseVersions(VersionOf[r], VersionOf[s]) < 0

VARIABLES
    latest,     \* the release whose manifest is latest.json
    archive,    \* the release whose archive is at the download URL
    exe,        \* what the executable file is, a Content or Torn
    tmp,        \* the temporary file of an invocation: "none", "partial", "whole"
    pc,         \* where an invocation is; "over" is past the update, whatever came of it
    command,    \* "session" or "update"
    running,    \* the binary an invocation executes
    applied,    \* SHELLIN_AUTO_UPDATE_APPLIED is set in its environment
    reported,   \* result.LatestVersion, as the release it is of
    manifest,   \* the manifest to install from, as its content
    updated     \* result.Updated

fileVars == <<exe, tmp>>
hostVars == <<latest, archive>>
updateVars == <<hostVars, fileVars, pc, command, running, applied, reported, manifest, updated>>

\* Any build may be installed, one newer than the latest release included.
Init ==
    /\ latest = 1
    /\ archive = 1
    /\ exe \in Release
    /\ tmp = [p \in Process |-> "none"]
    /\ pc = [p \in Process |-> "off"]
    /\ command = [p \in Process |-> "session"]
    /\ running = [p \in Process |-> exe]
    /\ applied = [p \in Process |-> FALSE]
    /\ reported = [p \in Process |-> Forged]
    /\ manifest = [p \in Process |-> Forged]
    /\ updated = [p \in Process |-> FALSE]

-----------------------------------------------------------------------------
(* The release host *)

\* sign-release-manifest signs the archives it finds; archive and manifest reach the
\* host one after the other, in either order.
PublishArchive ==
    /\ archive < MaxRelease /\ archive <= latest
    /\ archive' = archive + 1
    /\ UNCHANGED <<latest, fileVars, pc, command, running, applied, reported, manifest, updated>>

PublishManifest ==
    /\ latest < MaxRelease /\ latest <= archive
    /\ latest' = latest + 1
    /\ UNCHANGED <<archive, fileVars, pc, command, running, applied, reported, manifest, updated>>

\* What a GET of latest.json may bring: whatever the publisher has signed so far, or
\* anything.  A manifest has no expiry, and the client keeps none to compare it with.
ServedManifests ==
    [content : 1..latest, signed : {TRUE}] \cup {[content |-> Forged, signed |-> FALSE]}

ServedArchives == 1..archive \cup {Forged}

\* Forged content has no signature that verifies.
VerifyReleaseManifestSignature(m) == m.signed

\* fetchLatestReleaseManifest: what it can return.
FetchLatestReleaseManifest ==
    {m.content : m \in {n \in ServedManifests : VerifyReleaseManifestSignature(n)}}

-----------------------------------------------------------------------------
(* An invocation of the CLI *)

At(p, label) == pc[p] = label
Goto(p, label) == pc' = [pc EXCEPT ![p] = label]

CurrentVersion(p) == BuiltVersion[running[p]]

\* A user starts a session, or the update command, which begins with Perform.
Start(p, c) ==
    /\ At(p, "off")
    /\ exe # Torn
    /\ running' = [running EXCEPT ![p] = exe]
    /\ command' = [command EXCEPT ![p] = c]
    /\ Goto(p, IF c = "update" THEN "recheck" ELSE "startup")
    /\ UNCHANGED <<hostVars, fileVars, applied, reported, manifest, updated>>

\* maybePromptForCLIUpdate up to its Check: no question where the user turned it
\* off or no terminal is there (`asks`), after a re-exec, or in a build without version.
MaybePrompt(p, asks) ==
    /\ At(p, "startup")
    /\ Goto(p, IF asks /\ ~applied[p] /\ Parses(CurrentVersion(p)) THEN "check" ELSE "over")
    /\ UNCHANGED <<hostVars, fileVars, command, running, applied, reported, manifest, updated>>

\* Check, called for the prompt and again by Perform.
Check(p) ==
    /\ At(p, "check") \/ At(p, "recheck")
    /\ \E m \in FetchLatestReleaseManifest :
        /\ reported' = [reported EXCEPT ![p] = m]
        /\ Goto(p, IF ~ShouldInstallLatestRelease(CurrentVersion(p), VersionOf[m],
                                                  command[p] = "update") THEN "over"
                   ELSE IF pc[p] = "check" THEN "prompt" ELSE "refetch")
    /\ UNCHANGED <<hostVars, fileVars, command, running, applied, manifest, updated>>

\* promptForAvailableUpdate: update now, or continue, cancel or end of input.
Answer(p, updateNow) ==
    /\ At(p, "prompt")
    /\ Goto(p, IF updateNow THEN "recheck" ELSE "over")
    /\ UNCHANGED <<hostVars, fileVars, command, running, applied, reported, manifest, updated>>

\* Perform fetches the manifest once more, to install from.  It is not compared again.
Refetch(p) ==
    /\ At(p, "refetch")
    /\ \E m \in FetchLatestReleaseManifest : manifest' = [manifest EXCEPT ![p] = m]
    /\ Goto(p, "download")
    /\ UNCHANGED <<hostVars, fileVars, command, running, applied, reported, updated>>

\* downloadAndExtractReleaseBinary: only the archive with the manifest's checksum.
Download(p) ==
    /\ At(p, "download")
    /\ manifest[p] \in ServedArchives
    /\ Goto(p, "create")
    /\ UNCHANGED <<hostVars, fileVars, command, running, applied, reported, manifest, updated>>

\* installReplacementBinary: the temporary file is created ...
CreateTemp(p) ==
    /\ At(p, "create")
    /\ tmp' = [tmp EXCEPT ![p] = "partial"]
    /\ Goto(p, "write")
    /\ UNCHANGED <<hostVars, exe, command, running, applied, reported, manifest, updated>>

\* Mutant of WriteTemp: the executable itself is opened and overwritten.
WriteInPlace(p) ==
    /\ At(p, "write")
    /\ exe' = Torn
    /\ Goto(p, "rename")
    /\ UNCHANGED <<hostVars, tmp, command, running, applied, reported, manifest, updated>>

\* ... written and closed ...
WriteTemp(p) ==
    /\ At(p, "write")
    /\ tmp' = [tmp EXCEPT ![p] = "whole"]
    /\ Goto(p, "rename")
    /\ UNCHANGED <<hostVars, exe, command, running, applied, reported, manifest, updated>>

\* ... and put in the place of the executable.
Rename(p) ==
    /\ At(p, "rename")
    /\ exe' = manifest[p]
    /\ tmp' = [tmp EXCEPT ![p] = "none"]
    /\ updated' = [updated EXCEPT ![p] = TRUE]
    /\ Goto(p, IF command[p] = "update" THEN "over" ELSE "reexec")
    /\ UNCHANGED <<hostVars, command, running, applied, reported, manifest>>

\* Mutant of Reexec: the environment is passed on as it is.
ReexecUnmarked(p) ==
    /\ At(p, "reexec")
    /\ exe # Torn
    /\ running' = [running EXCEPT ![p] = exe]
    /\ Goto(p, "startup")
    /\ UNCHANGED <<hostVars, fileVars, command, applied, reported, manifest, updated>>

\* execSelf: the process becomes whatever the file is by now.
Reexec(p) ==
    /\ At(p, "reexec")
    /\ exe # Torn
    /\ running' = [running EXCEPT ![p] = exe]
    /\ applied' = [applied EXCEPT ![p] = TRUE]
    /\ Goto(p, "startup")
    /\ UNCHANGED <<hostVars, fileVars, command, reported, manifest, updated>>

\* Any step fails: no answer, a refused manifest or archive, no file, no room.  The
\* deferred os.Remove runs; a session goes on with the binary it has.
Fails(p) ==
    /\ pc[p] \in {"check", "prompt", "recheck", "refetch", "download", "create", "write",
                  "rename", "reexec"}
    /\ tmp' = [tmp EXCEPT ![p] = "none"]
    /\ Goto(p, "over")
    /\ UNCHANGED <<hostVars, exe, command, running, applied, reported, manifest, updated>>

\* The process is killed; what it had written stays.
Killed(p) ==
    /\ pc[p] \notin {"off", "over"}
    /\ Goto(p, "over")
    /\ UNCHANGED <<hostVars, fileVars, command, running, applied, reported, manifest, updated>>

Step(p) ==
    \/ \E asks \in BOOLEAN : MaybePrompt(p, asks)
    \/ Check(p)
    \/ \E updateNow \in BOOLEAN : Answer(p, updateNow)
    \/ Refetch(p)
    \/ Download(p)
    \/ CreateTemp(p)
    \/ WriteTemp(p)
    \/ Rename(p)
    \/ Reexec(p)
    \/ Fails(p)

Next ==
    \/ PublishArchive
    \/ PublishManifest
    \/ \E p \in Process :
        \/ \E c \in {"session", "update"} : Start(p, c)
        \/ Step(p)
        \/ Killed(p)

Spec == Init /\ [][Next]_updateVars

\* Requests have a timeout of 15 seconds, files answer, and the user answers the
\* prompt or ends its input.  No release has to appear.
FairSpec == Spec /\ \A p \in Process : WF_updateVars(Step(p))

-----------------------------------------------------------------------------
\* The shape of the state.
UpdateTypeOK ==
    /\ latest \in Release /\ archive \in Release
    /\ exe \in Content \cup {Torn}
    /\ tmp \in [Process -> {"none", "partial", "whole"}]
    /\ pc \in [Process -> {"off", "startup", "check", "prompt", "recheck", "refetch", "download",
                           "create", "write", "rename", "reexec", "over"}]
    /\ command \in [Process -> {"session", "update"}]
    /\ running \in [Process -> Content]
    /\ applied \in [Process -> BOOLEAN]
    /\ reported \in [Process -> Content]
    /\ manifest \in [Process -> Content]
    /\ updated \in [Process -> BOOLEAN]

\* Whatever is served, fails or is killed in the middle of an installation, and
\* however installations of several invocations overlap, the executable is a whole
\* binary that the publisher made, and so is every process that runs.
ExecutableIsWhole == exe \in Release /\ \A p \in Process : running[p] \in Release

\* The host answered the second fetch of p with an earlier release than the first.
HostWentBack(p) == manifest[p] < reported[p]

InstallStep ==
    \A p \in Process :
        updated'[p] /\ ~updated[p] /\ Comparable(CurrentVersion(p), VersionOf[exe'])
            => \/ CompareReleaseVersions(CurrentVersion(p), VersionOf[exe']) < 0
               \/ HostWentBack(p)

\* The manifest an invocation installs from is not the one it compared.  It installs
\* nothing that is not newer than what it runs all the same, whatever is released or
\* installed in between, unless the host went back between its two answers.
DowngradeNeedsTheHost == [][InstallStep]_updateVars

\* An invocation that has replaced the executable asks for no update again: not after
\* the re-exec either, into a binary that takes itself for an older version, nor when
\* the host has something else to offer by then.
ReplacesOnce == \A p \in Process : updated[p] => pc[p] \in {"reexec", "startup", "over"}

\* The update never keeps the user from the session: every invocation gets past it,
\* even when a release's binary does not know its own version.
UpdateSettles == \A p \in Process : pc[p] # "off" ~> pc[p] = "over"

\* Versions with any number of parts, with and without a prerelease, compare as they lie
\* on a line: zero-padded parts first, then prereleases before their release.  That is
\* the same in every state; it is evaluated before anybody starts.
VersionsAreOrdered ==
    (latest = 1 /\ archive = 1 /\ \A p \in Process : pc[p] = "off")
        => OrderedAsRanked(BoundedVersion, MaxPart + 1, MaxPrerelease + 1, MaxParts)
=============================================================================
