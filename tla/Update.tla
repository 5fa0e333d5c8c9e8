------------------------------- MODULE Update -------------------------------
(***************************************************************************)
(* The updater (update/): the stable release, the latest commit built in a *)
(* retained checkout, and the latest commit built in a private clone.      *)
(* Every call to git, cargo, the network or the file system is one action  *)
(* that may fail; the process may be killed between any two and started    *)
(* again; the remote and the user's checkout change meanwhile.             *)
(* A revision is a number; a binary is named by the revision it was built  *)
(* from, the first one installed being Installed.                          *)
(***************************************************************************)
EXTENDS Naturals, Sequences, SequencesExt

CONSTANTS
  Installed,   \* the revision that is running at first
  MaxRev,      \* the remote goes no further
  MaxLives,    \* how often the updater is started
  MaxNudges    \* what the user does to the checkout meanwhile

ASSUME UpdateAssumption ==
  /\ Installed \in 1..MaxRev
  /\ {MaxRev, MaxNudges} \subseteq Nat /\ MaxLives \in Nat \ {0}

Routes == {"stable", "standalone", "checkout"}
Flaws  == {"none", "corrupt", "rejects", "stranger"}
Lives  == 1..MaxLives
NoStash == [by |-> 0, changes |-> {}]
OwnCommit == 0     \* a commit of the user: no ancestor of any official one
Partial == 0       \* a file that was only partly written
NoRev == MaxRev + 1

VARIABLES
  at, route, life, \* where the run of the updater is, which one, which run
  outcome, said,    \* how it ended, and what the error names
  master, pinned,  \* the revision of the remote, and the one asked for first
  candidate,       \* what was downloaded or built
  exe, rollback, beside, phase, \* the installed binary and install::replace
  head, discovered,      \* HEAD of the checkout, and what discover() read
  work, stashes,   \* uncommitted changes, and the stash list, newest first
  mine, position,  \* the updater's stash and where the list had it
  roots, registered, \* temporary workspaces, and those git knows
  nudges,
  start, accepted, written, committed, raced \* history: see the properties

binary   == <<exe, rollback, beside, phase>>
checkout == <<head, discovered, work, stashes, mine, position, written, committed, raced>>
dirs     == <<roots, registered>>
run      == <<route, life, start>>
updateVars == <<at, run, outcome, said, master, pinned, candidate, binary, checkout, dirs, nudges, accepted>>

UpdateInit ==
  /\ at = "start" /\ route = "stable" /\ life = 1
  /\ outcome = "none" /\ said = {}
  /\ master \in Installed - 1 .. MaxRev /\ pinned = NoRev
  /\ candidate = [rev |-> NoRev, flaw |-> "none"]
  /\ exe = Installed /\ rollback = [l \in Lives |-> NoRev]
  /\ beside = NoRev /\ phase = "install"
  /\ head \in {OwnCommit, Installed} /\ discovered = OwnCommit
  /\ work \in {{}, {1}} /\ stashes \in {<<>>, <<[by |-> 0, changes |-> {2}]>>}
  /\ mine = NoStash /\ position = 0
  /\ roots = {} /\ registered = {} /\ nudges = 0
  /\ start = Installed /\ accepted = {Installed} /\ committed = {} /\ raced = FALSE
  /\ written = work \cup UNION {stashes[i].changes : i \in DOMAIN stashes}

-----------------------------------------------------------------------------
\* with_workspace and run(): an error unwinds through the removal of the
\* workspace and the return of the stashed changes.
Unwound == CASE life \in roots -> "cleanup"
             [] life \notin roots /\ mine # NoStash -> "apply"
             [] OTHER -> "ended"

Then(p) == at' = p /\ UNCHANGED <<outcome, said>>

Report(what, p) == at' = p /\ outcome' = "error" /\ said' = said \cup {what}

Abort(what) == Report(what, Unwound)

Succeed == /\ at' = Unwound /\ outcome' = "ok" /\ UNCHANGED said

-----------------------------------------------------------------------------
\* resolve_target, discover and confirm
Choose ==
  /\ at = "start"
  /\ route' \in Routes /\ discovered' = head
  /\ \/ Then("query")
     \/ /\ at' = "ended" /\ outcome' = "ok" /\ UNCHANGED said
  /\ UNCHANGED <<life, start, master, pinned, candidate, binary, head, work, stashes, mine,
                 position, written, committed, raced, dirs, nudges, accepted>>

\* HttpClient::latest, or remote_head with the manifest of that commit.  A commit that
\* is older than the one running may still have its package version.
Query ==
  /\ at = "query"
  /\ \/ /\ pinned' = master
        /\ \/ master = exe /\ at' = "ended" /\ outcome' = "ok" /\ UNCHANGED said
           \/ master # exe /\ (route = "stable" => master > exe) /\ Then("backup")
           \/ master < exe /\ Report("older", "ended")
     \/ Report("network", "ended") /\ UNCHANGED pinned
  /\ UNCHANGED <<run, master, candidate, binary, checkout, dirs, nudges, accepted>>

\* maybe_backup: copies the user's state into a directory of its own
Backup ==
  /\ at = "backup"
  /\ \/ Then(CASE route = "stable" -> "download" [] route = "checkout" -> "status"
               [] OTHER -> "workspace")
     \/ Report("backup", "ended")
  /\ UNCHANGED <<run, master, pinned, candidate, binary, checkout, dirs, nudges, accepted>>

\* download_release: the assets of the version found by Query
Download ==
  /\ at = "download"
  /\ \/ \E f \in Flaws : candidate' = [rev |-> pinned, flaw |-> f] /\ Then("verify")
     \/ Report("network", "ended") /\ UNCHANGED candidate
  /\ UNCHANGED <<run, master, pinned, binary, checkout, dirs, nudges, accepted>>

Verify ==
  /\ at = "verify"
  /\ IF candidate.flaw = "corrupt" THEN Abort("checksum") ELSE Then("config")
  /\ UNCHANGED <<run, master, pinned, candidate, binary, checkout, dirs, nudges, accepted>>

\* The candidate is run against the existing configuration.
ValidateConfig ==
  /\ at = "config"
  /\ \/ candidate.flaw # "rejects" /\ Then("identity")
     \/ Abort("config")
  /\ UNCHANGED <<run, master, pinned, candidate, binary, checkout, dirs, nudges, accepted>>

\* The candidate is asked for its version.
RequireIdentity ==
  /\ at = "identity"
  /\ \/ /\ candidate.flaw # "stranger"
        /\ Then(IF route = "checkout" THEN "unchanged" ELSE "copy")
        /\ accepted' = IF candidate.flaw = "none" THEN accepted \cup {candidate.rev} ELSE accepted
     \/ Abort("identity") /\ UNCHANGED accepted
  /\ UNCHANGED <<run, master, pinned, candidate, binary, checkout, dirs, nudges>>

-----------------------------------------------------------------------------
\* stash_changes: is there anything, stash it, and ask what the stash is called
Status ==
  /\ at = "status"
  /\ \/ Then(IF work = {} THEN "fetch" ELSE "push")
     \/ Abort("git")
  /\ UNCHANGED <<run, master, pinned, candidate, binary, checkout, dirs, nudges, accepted>>

\* A git that is killed at its time limit may have done its work.
PushStash ==
  /\ at = "push"
  /\ \/ /\ work # {}
        /\ stashes' = <<[by |-> life, changes |-> work]>> \o stashes /\ work' = {}
     \/ UNCHANGED <<stashes, work>>
  /\ \/ work' = {} /\ Then("name")
     \/ Abort("push")
  /\ UNCHANGED <<run, master, pinned, candidate, binary, head, discovered, mine, position, written,
                 committed, raced, dirs, nudges, accepted>>

NameStash ==
  /\ at = "name"
  /\ \/ stashes # <<>> /\ mine' = Head(stashes) /\ Then("fetch")
     \/ Abort("push") /\ UNCHANGED mine
  /\ UNCHANGED <<run, master, pinned, candidate, binary, head, discovered, work, stashes, position,
                 written, committed, raced, dirs, nudges, accepted>>

\* fetch and require_fast_forward
Fetch ==
  /\ at = "fetch"
  /\ IF master = pinned /\ discovered \in 1..pinned
     THEN Then("workspace") \/ Abort("network")
     ELSE Abort("moved_or_diverged")
  /\ UNCHANGED <<run, master, pinned, candidate, binary, checkout, dirs, nudges, accepted>>

\* create_worktree_in and clone_revision_in: both begin with what runs that were
\* killed left behind, and remove the directory they made when they fail.
CreateWorkspace ==
  /\ at = "workspace"
  /\ \/ Abort("network") /\ UNCHANGED dirs
     \/ /\ roots' = {life} /\ Then("build")
        /\ route = "standalone" => master = pinned
        /\ registered' = IF route = "checkout" THEN {life} ELSE registered
     \/ /\ roots' = {} /\ registered' = registered \cap roots'
        /\ Report("network", IF mine # NoStash THEN "apply" ELSE "ended")
     \/ /\ roots' = {life} /\ UNCHANGED registered
        /\ Report("workspace", IF mine # NoStash THEN "apply" ELSE "ended")
  /\ UNCHANGED <<run, master, pinned, candidate, binary, checkout, nudges, accepted>>

\* cargo build, with the commit it is told to report
Build ==
  /\ at = "build"
  /\ \/ \E f \in Flaws \ {"corrupt"} : candidate' = [rev |-> pinned, flaw |-> f] /\ Then("config")
     \/ Abort("build") /\ UNCHANGED candidate
  /\ UNCHANGED <<run, master, pinned, binary, checkout, dirs, nudges, accepted>>

EnsureUnchanged ==
  /\ at = "unchanged"
  /\ \/ head = discovered /\ work = {} /\ Then("copy")
     \/ Abort("changed")
  /\ UNCHANGED <<run, master, pinned, candidate, binary, checkout, dirs, nudges, accepted>>

-----------------------------------------------------------------------------
\* replace: the copy of the old bytes comes first.
CopyRollback ==
  /\ at = "copy"
  /\ \/ rollback' = [rollback EXCEPT ![life] = exe] /\ Then("stage")
     \/ rollback' = [rollback EXCEPT ![life] = Partial] /\ Abort("install")
     \/ UNCHANGED rollback /\ Abort("install")
  /\ phase' = "install"
  /\ UNCHANGED <<run, master, pinned, candidate, exe, beside, checkout, dirs, nudges, accepted>>

\* replace_without_backup runs up to twice: to install, and to put the old bytes
\* back because that failed ("undo") or because the merge did ("revert").
ReplaceFailed ==
  CASE phase = "install" -> phase' = "undo" /\ Then("stage")
    [] phase = "undo"    -> UNCHANGED phase /\ Abort("not_restored")
    [] phase = "revert"  -> UNCHANGED phase /\ Abort("not_restored")

Stage ==
  /\ at = "stage"
  /\ \/ beside' = (IF phase = "install" THEN candidate.rev ELSE rollback[life])
        /\ Then("rename") /\ UNCHANGED phase
     \/ ReplaceFailed /\ UNCHANGED beside
  /\ UNCHANGED <<run, master, pinned, candidate, exe, rollback, checkout, dirs, nudges, accepted>>

Rename ==
  /\ at = "rename" /\ beside' = NoRev
  /\ \/ exe' = beside /\ Then("sync") /\ UNCHANGED phase
     \/ ReplaceFailed /\ UNCHANGED exe
  /\ UNCHANGED <<run, master, pinned, candidate, rollback, checkout, dirs, nudges, accepted>>

SyncDirectory ==
  /\ at = "sync"
  /\ \/ CASE phase = "install" /\ route = "checkout" -> Then("merge") /\ UNCHANGED phase
          [] phase = "install" /\ route # "checkout" -> Succeed /\ UNCHANGED phase
          [] OTHER -> Abort("restored") /\ UNCHANGED phase
     \/ ReplaceFailed
  /\ UNCHANGED <<run, master, pinned, candidate, exe, rollback, beside, checkout, dirs, nudges,
                 accepted>>

FastForwardFailsForward ==
  /\ at = "merge"
  /\ \/ /\ head \in 1..pinned /\ head' = pinned
        /\ Succeed /\ UNCHANGED phase
     \/ /\ Abort("restored") /\ UNCHANGED phase
        /\ head' = head \/ (head \in 1..pinned /\ head' = pinned)
  /\ UNCHANGED <<run, master, pinned, candidate, exe, rollback, beside, discovered, work, stashes, mine,
                 position, written, committed, raced, dirs, nudges, accepted>>

\* git merge --ff-only, after the new binary is in place
FastForward ==
  /\ at = "merge"
  /\ \/ /\ head \in 1..pinned /\ head' = pinned
        /\ Succeed /\ UNCHANGED phase
     \/ /\ phase' = "revert" /\ Then("stage")
        /\ head' = head \/ (head \in 1..pinned /\ head' = pinned)
  /\ UNCHANGED <<run, master, pinned, candidate, exe, rollback, beside, discovered, work, stashes, mine,
                 position, written, committed, raced, dirs, nudges, accepted>>

-----------------------------------------------------------------------------
\* cleanup_inner
Cleanup ==
  /\ at = "cleanup"
  /\ LET next == IF mine # NoStash THEN "apply" ELSE "ended" IN
     \/ roots' = roots \ {life} /\ registered' = registered \ {life} /\ Then(next)
     \/ roots' = roots \ {life} /\ life \in registered /\ UNCHANGED registered
        /\ Report("workspace", next)
     \/ UNCHANGED roots /\ registered' \in {registered, registered \ {life}}
        /\ Report("workspace", next)
  /\ UNCHANGED <<run, master, pinned, candidate, binary, checkout, nudges, accepted>>

ApplyStashQuietly ==
  /\ at = "apply"
  /\ \/ work' = work \cup mine.changes /\ Then("list")
     \/ work' \in {work, work \cup mine.changes} /\ Then("list")
  /\ UNCHANGED <<run, master, pinned, candidate, binary, head, discovered, stashes, mine, position,
                 written, committed, raced, dirs, nudges, accepted>>

\* restore_changes: apply, look the stash up, drop it by its place in the list
ApplyStash ==
  /\ at = "apply"
  /\ \/ work' = work \cup mine.changes /\ Then("list")
     \/ work' \in {work, work \cup mine.changes} /\ Report("stash", "ended")
  /\ UNCHANGED <<run, master, pinned, candidate, binary, head, discovered, stashes, mine, position,
                 written, committed, raced, dirs, nudges, accepted>>

ListStashes ==
  /\ at = "list"
  /\ \/ \E i \in 1..Len(stashes) : stashes[i] = mine /\ position' = i /\ Then("drop")
     \/ Report("stash", "ended") /\ UNCHANGED position
  /\ UNCHANGED <<run, master, pinned, candidate, binary, head, discovered, work, stashes, mine,
                 written, committed, raced, dirs, nudges, accepted>>

Drop ==
  /\ at = "drop"
  /\ \/ stashes' = RemoveAt(stashes, position) /\ Then("ended")
     \/ UNCHANGED stashes /\ Report("stash", "ended")
  /\ UNCHANGED <<run, master, pinned, candidate, binary, head, discovered, work, mine, position,
                 written, committed, raced, dirs, nudges, accepted>>

-----------------------------------------------------------------------------
\* The user works in the checkout while the updater runs.
InRun == at \notin {"start", "ended", "dead"}

Nudge ==
  /\ InRun /\ route = "checkout" /\ nudges < MaxNudges /\ nudges' = nudges + 1
  /\ \/ /\ work' = work \cup {3 + nudges} /\ written' = written \cup {3 + nudges}
        /\ UNCHANGED <<head, stashes, committed, raced>>
     \/ /\ work # {} /\ committed' = committed \cup work /\ work' = {} /\ head' = OwnCommit
        /\ UNCHANGED <<stashes, written, raced>>
     \/ /\ work # {} /\ stashes' = <<[by |-> 0, changes |-> work]>> \o stashes /\ work' = {}
        /\ raced' = (raced \/ at = "drop") /\ UNCHANGED <<head, written, committed>>
  /\ UNCHANGED <<at, run, outcome, said, master, pinned, candidate, binary, discovered, mine, position,
                 dirs, accepted>>

Remote ==
  /\ InRun /\ master < MaxRev /\ master' = master + 1
  /\ UNCHANGED <<at, run, outcome, said, pinned, candidate, binary, checkout, dirs, nudges, accepted>>

Kill ==
  /\ InRun /\ at' = "dead"
  /\ UNCHANGED <<run, outcome, said, master, pinned, candidate, binary, checkout, dirs, nudges,
                 accepted>>

\* The binary that is installed now is started as the updater.
Again ==
  /\ at \in {"ended", "dead"} /\ life < MaxLives
  /\ at' = "start" /\ life' = life + 1 /\ start' = exe
  /\ outcome' = "none" /\ said' = {} /\ pinned' = NoRev /\ mine' = NoStash /\ position' = 0
  /\ candidate' = [rev |-> NoRev, flaw |-> "none"] /\ beside' = NoRev /\ phase' = "install"
  /\ UNCHANGED <<route, master, exe, rollback, head, discovered, work, stashes, written, committed, raced, dirs,
                 nudges, accepted>>

UpdateNext ==
  \/ Choose \/ Query \/ Backup \/ Download \/ Verify \/ ValidateConfig \/ RequireIdentity
  \/ Status \/ PushStash \/ NameStash \/ Fetch \/ CreateWorkspace \/ Build \/ EnsureUnchanged
  \/ CopyRollback \/ Stage \/ Rename \/ SyncDirectory \/ FastForward
  \/ Cleanup \/ ApplyStash \/ ListStashes \/ Drop
  \/ Nudge \/ Remote \/ Kill \/ Again

UpdateSpec == UpdateInit /\ [][UpdateNext]_updateVars

-----------------------------------------------------------------------------
UpdateTypeOK ==
  /\ route \in Routes /\ life \in Lives /\ outcome \in {"none", "ok", "error"}
  /\ candidate \in [rev : 0..NoRev, flaw : Flaws] /\ {master, pinned, exe, beside} \subseteq 0..NoRev
  /\ rollback \in [Lives -> 0..NoRev] /\ roots \cup registered \subseteq Lives
  /\ head \in 0..MaxRev /\ position \in 0..Len(stashes) + 1

\* The installed file is at all times, killed or not, one whole binary that passed
\* every check of its route, never an older release than what was started, and while it
\* is another one the bytes that were started are in the rollback copy.
BinaryIsWhole ==
  /\ exe \in accepted /\ (exe < start => route # "stable")
  /\ exe # start => rollback[life] = start

\* A run that ends with an error leaves the old binary, unless the error says that it
\* could not be restored or comes from tidying up after the installation; a run that
\* ends well has installed what it asked for; a new binary goes with a checkout at
\* its revision, whatever the user did to it.
ErrorsKeepTheOldBinary ==
  at = "ended" =>
    /\ outcome = "error" => exe = start \/ said \cap {"not_restored", "workspace", "stash"} # {}
    /\ outcome = "ok" => exe = IF pinned = NoRev THEN start ELSE pinned
    /\ exe # start /\ route = "checkout" /\ "not_restored" \notin said => head \in {pinned, OwnCommit}

BinaryIsRecoverable == UpdateTypeOK /\ BinaryIsWhole /\ ErrorsKeepTheOldBinary

InStash(by) == UNION {stashes[i].changes : i \in {j \in DOMAIN stashes : stashes[j].by = by}}

\* Nothing the user wrote in the checkout is lost, in whatever order the updater, its
\* death and the user's own git commands come. One window is exempt by name: a stash
\* the user makes between the updater's look at the stash list and its drop by
\* position makes it drop another entry.
NothingIsLost ==
  raced \/ written \subseteq work \cup committed \cup UNION {InStash(by) : by \in 0..MaxLives}

\* A run that ends, with whatever error, has put back the changes it stashed and
\* removed its workspace and those of the runs that were killed, or says which of them
\* is left. Exempt are a user who stashes between the updater's push and its asking
\* for the name, and the race of NothingIsLost.
LeavingsAreReported ==
  /\ life \in roots => roots = {life}
  /\ at = "ended" =>
       /\ life \in roots \cup registered => "workspace" \in said
       /\ mine.by = life /\ ~raced /\ "stash" \notin said =>
            mine.changes \subseteq work \cup committed \cup InStash(0)
       /\ InStash(life) # {} => said \cap {"stash", "push"} # {} \/ raced \/ mine.by # life

ChangesSurvive == NothingIsLost /\ LeavingsAreReported
=============================================================================
