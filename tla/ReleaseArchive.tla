--------------------------- MODULE ReleaseArchive ---------------------------
(***************************************************************************)
(* scripts/archive_iotglove_release.py: a deployment job captures the      *)
(* source it is about to compile, publishes the build as a version-pinned  *)
(* GitHub release that is never touched again, and then moves the signed   *)
(* two-file pointer of the board's channel onto it.  Jobs of one board run *)
(* one after the other (the concurrency group of deploy-firmware.yml), but *)
(* any of them may stop anywhere, may lose the answer of a request that    *)
(* was carried out, may be run again, and boards read the pointer while it *)
(* is replaced.                                                            *)
(*                                                                         *)
(* A source tree is a number, newer trees have larger ones: an edited tree *)
(* is never edited back while a job runs.  A commit is named by its tree.  *)
(* Two builds of one tree may differ, so an image is the tree it was       *)
(* compiled from and a build number.                                       *)
(***************************************************************************)
EXTENDS Naturals, Sequences

CONSTANTS VersionOf,   \* the firmware version a source tree states, per tree
          Builds,      \* the different images one tree can compile to
          MaxJobs,     \* deployment jobs
          MaxFaults    \* stops, lost answers and broken uploads

VARIABLES tree,        \* what is checked out, edits included
          head,        \* the commit HEAD names
          remote,      \* the commits of the branch at the origin
          job,         \* the running deployment
          release,     \* per version: state, target commit and assets
          tag,         \* per version: the commit its tag names, 0: no tag
          channel,     \* the two files of the board's pointer
          board,       \* a board that looks for its target version
          jobs, faults

vars == <<tree, head, remote, job, release, tag, channel, board, jobs, faults>>
checkout == <<tree, head, remote>>
hub == <<release, tag, channel>>

Trees == 1 .. Len(VersionOf)
Versions == {VersionOf[t] : t \in Trees}
Assets == <<"build-provenance.json", "ota.txt", "update.bin">>   \* sorted
Pointer == <<"ota.txt", "ota.sig">>
Absent == <<>>
Broken == <<0>>      \* an upload that ended early: the state is not "uploaded"

NoJob == [pc |-> "idle", record |-> 0, image |-> Absent]
NoRelease == [state |-> "none", target |-> 0, assets |-> [n \in {"build-provenance.json", "ota.txt", "update.bin"} |-> Absent]]
Boards == [read : {Absent} \cup {<<v, t, b>> : v \in Versions, t \in Trees, b \in Builds}]

Init == /\ tree = 1 /\ head = 1 /\ remote = {1}
        /\ job = NoJob
        /\ release = [v \in Versions |-> NoRelease]
        /\ tag = [v \in Versions |-> 0]
        /\ channel = [n \in {"ota.txt", "ota.sig"} |-> Absent]
        /\ board = [read |-> Absent, target |-> Absent]
        /\ jobs = 0 /\ faults = 0

-----------------------------------------------------------------------------
\* What the job publishes.  The pointer is signed: its signature is written
\* as the text it authenticates.
Version == VersionOf[job.record]
Metadata == <<Version>> \o job.image
Bytes == [n \in {"build-provenance.json", "ota.txt", "ota.sig", "update.bin"} |->
            CASE n = "update.bin" -> job.image
              [] n = "build-provenance.json" -> <<job.record>>
              [] OTHER -> Metadata]
Ours == release[Version]
Unwritten(n) == Ours.assets[n] = Absent
Complete == \A i \in DOMAIN Assets : Ours.assets[Assets[i]] = Bytes[Assets[i]]
TagAllows == tag[Version] \in {0, job.record}

Goto(pc) == job' = [job EXCEPT !.pc = pc]
Stop == job' = NoJob

\* A request that changes something is carried out and answered, or it is
\* carried out or not (done) and the answer is lost: the job stops on any error.
Request(pc, done) == \/ done /\ Goto(pc) /\ UNCHANGED faults
                     \/ faults < MaxFaults /\ faults' = faults + 1 /\ Stop

-----------------------------------------------------------------------------
\* A job starts from a commit of the branch; an old run can be run again.
Begin(t) == /\ job.pc = "idle" /\ jobs < MaxJobs /\ t \in remote
            /\ tree' = t /\ head' = t
            /\ job' = [NoJob EXCEPT !.pc = "capture"]
            /\ jobs' = jobs + 1
            /\ UNCHANGED <<remote, hub, board, faults>>

\* The version bump, or anybody who edits a source file meanwhile.
Edit == /\ job.pc \in {"capture", "build", "push", "verify"}
        /\ tree < Len(VersionOf) /\ tree' = tree + 1
        /\ UNCHANGED <<head, remote, job, hub, board, jobs, faults>>

Capture == /\ job.pc = "capture"
           /\ job' = [job EXCEPT !.pc = "build", !.record = tree]
           /\ UNCHANGED <<checkout, hub, board, jobs, faults>>

Build(b) == /\ job.pc = "build"
            /\ job' = [job EXCEPT !.pc = "push", !.image = <<tree, b>>]
            /\ UNCHANGED <<checkout, hub, board, jobs, faults>>

\* The step before the archive commits the source and pushes it, or not.
Push == /\ job.pc = "push" /\ Goto("verify")
        /\ head' \in {head, tree}
        /\ remote' \in {remote, remote \cup {head'}}
        /\ UNCHANGED <<tree, hub, board, jobs, faults>>

CommittedHead == head = job.record /\ head \in remote   \* mutant: the compiled files are not compared

Committed == tree = job.record /\ head = job.record /\ head \in remote

Verify == /\ job.pc = "verify"
          /\ IF Committed THEN Goto("find") ELSE Stop
          /\ UNCHANGED <<checkout, hub, board, jobs, faults>>

-----------------------------------------------------------------------------
\* publish_archive: the release of the tag is found, drafts included.
Find == /\ job.pc = "find"
        /\ CASE ~TagAllows -> Stop
             [] TagAllows /\ Ours.state = "none" -> IF tag[Version] = 0 THEN Goto("create") ELSE Stop
             [] OTHER -> IF Ours.target = job.record THEN Goto("check") ELSE Stop
        /\ UNCHANGED <<checkout, hub, board, jobs, faults>>

Create == /\ job.pc = "create"
          /\ \E done \in BOOLEAN :
                /\ Request("check", done)
                /\ release' = IF ~done THEN release
                              ELSE [release EXCEPT ![Version] = [NoRelease EXCEPT !.state = "draft", !.target = job.record]]
          /\ UNCHANGED <<checkout, tag, channel, board, jobs>>

\* mutant: assets that are there are taken for ours
CheckAny == /\ job.pc = "check"
            /\ IF Ours.state = "public"
               THEN IF tag[Version] = job.record THEN Goto("channel") ELSE Stop
               ELSE Goto("upload")
            /\ UNCHANGED <<checkout, hub, board, jobs, faults>>

\* Every asset that is there must be whole and ours before anything is added.
Check == /\ job.pc = "check"
         /\ LET differs == \E i \in DOMAIN Assets : Ours.assets[Assets[i]] \notin {Absent, Bytes[Assets[i]]}
            IN  CASE differs -> Goto("refused")
                  [] ~differs /\ Ours.state = "public" ->
                        IF Complete /\ tag[Version] = job.record THEN Goto("channel") ELSE Stop
                  [] OTHER -> Goto("upload")
         /\ UNCHANGED <<checkout, hub, board, jobs, faults>>

Refuse == job.pc = "refused" /\ Stop /\ UNCHANGED <<checkout, hub, board, jobs, faults>>

\* One missing asset; an upload that breaks leaves a broken one behind.
Put(asset) == release' = [release EXCEPT ![Version].assets[asset[1]] = asset[2]]

Upload ==
    /\ job.pc = "upload" /\ \E i \in DOMAIN Assets : Unwritten(Assets[i])
    /\ LET n == Head(SelectSeq(Assets, Unwritten))
       IN  \/ \E done \in BOOLEAN : Request("upload", done) /\ Put(<<n, IF done THEN Bytes[n] ELSE Absent>>)
           \/ faults < MaxFaults /\ faults' = faults + 1 /\ Stop /\ Put(<<n, Broken>>)
    /\ UNCHANGED <<checkout, tag, channel, board, jobs>>

\* The draft is read back, with its tag, before it is made public.
Recheck == /\ job.pc = "upload" /\ \A i \in DOMAIN Assets : ~Unwritten(Assets[i])
           /\ IF Complete /\ Ours.target = job.record /\ Ours.state = "draft" /\ TagAllows
              THEN Goto("publish") ELSE Stop
           /\ UNCHANGED <<checkout, hub, board, jobs, faults>>

\* Making a draft public creates its tag.
Publish ==
    /\ job.pc = "publish"
    /\ \E done \in BOOLEAN :
          /\ Request("confirm", done)
          /\ release' = IF done THEN [release EXCEPT ![Version].state = "public"] ELSE release
          /\ tag' = IF done /\ tag[Version] = 0 THEN [tag EXCEPT ![Version] = Ours.target] ELSE tag
    /\ UNCHANGED <<checkout, channel, board, jobs>>

Confirm == /\ job.pc = "confirm"
           /\ IF tag[Version] = job.record THEN Goto("channel") ELSE Stop
           /\ UNCHANGED <<checkout, hub, board, jobs, faults>>

-----------------------------------------------------------------------------
\* publish_channel_manifest: both files are deleted, then both are written.
Current == \A i \in DOMAIN Pointer : channel[Pointer[i]] = Metadata
There(n) == channel[n] # Absent
NotThere(n) == ~There(n)

Look == /\ job.pc = "channel"
        /\ IF Current THEN Stop ELSE Goto("clear")
        /\ UNCHANGED <<checkout, hub, board, jobs, faults>>

Write(n, bytes) == channel' = [channel EXCEPT ![n] = bytes]

Clear ==
    /\ job.pc = "clear"
    /\ \/ /\ \A i \in DOMAIN Pointer : NotThere(Pointer[i])
          /\ Goto("point") /\ UNCHANGED <<channel, faults>>
       \/ /\ \E i \in DOMAIN Pointer : There(Pointer[i])
          /\ LET n == Head(SelectSeq(Pointer, There))
             IN  \E done \in BOOLEAN :
                    Request("clear", done) /\ Write(n, IF done THEN Absent ELSE channel[n])
    /\ UNCHANGED <<checkout, release, tag, board, jobs>>

Point ==
    /\ job.pc = "point" /\ \E i \in DOMAIN Pointer : NotThere(Pointer[i])
    /\ LET n == Head(SelectSeq(Pointer, NotThere))
       IN  \/ \E done \in BOOLEAN : Request("point", done) /\ Write(n, IF done THEN Bytes[n] ELSE Absent)
           \/ faults < MaxFaults /\ faults' = faults + 1 /\ Stop /\ Write(n, Broken)
    /\ UNCHANGED <<checkout, release, tag, board, jobs>>

Settle == /\ job.pc = "point" /\ \A i \in DOMAIN Pointer : There(Pointer[i])
          /\ Stop
          /\ UNCHANGED <<checkout, hub, board, jobs, faults>>

-----------------------------------------------------------------------------
\* The runner dies, or a request that only reads fails.
Die == /\ job.pc \notin {"idle", "refused"} /\ faults < MaxFaults
       /\ faults' = faults + 1 /\ Stop
       /\ UNCHANGED <<checkout, hub, board, jobs>>

\* A board asks for the text and then for the signature of the pointer; the
\* two must authenticate as a pair (IoTGloveOtaClient metadata).
ReadText == /\ board.read = Absent /\ channel["ota.txt"] \notin {Absent, Broken}
            /\ board' = [board EXCEPT !.read = channel["ota.txt"]]
            /\ UNCHANGED <<checkout, job, hub, jobs, faults>>

ReadSignature ==
    /\ board.read # Absent
    /\ board' = [read |-> Absent,
                 target |-> IF channel["ota.sig"] = board.read THEN board.read ELSE board.target]
    /\ UNCHANGED <<checkout, job, hub, jobs, faults>>

Next == \/ \E t \in Trees : Begin(t)
        \/ Edit \/ Capture \/ (\E b \in Builds : Build(b)) \/ Push \/ Verify
        \/ Find \/ Create \/ Check \/ Refuse \/ Upload \/ Recheck \/ Publish \/ Confirm
        \/ Look \/ Clear \/ Point \/ Settle
        \/ Die \/ ReadText \/ ReadSignature

Spec == Init /\ [][Next]_vars

-----------------------------------------------------------------------------
\* Types; a job has a record and an image from the step on that makes them.
TypeOK ==
    /\ tree \in Trees /\ head \in Trees /\ remote \subseteq Trees
    /\ job.pc \in {"idle", "capture", "build", "push", "verify", "find", "create", "check", "refused",
                   "upload", "publish", "confirm", "channel", "clear", "point"}
    /\ job.record \in Trees \cup {0} /\ (job.record = 0) = (job.pc \in {"idle", "capture"})
    /\ (job.image = Absent) = (job.pc \in {"idle", "capture", "build"})
    /\ \A v \in Versions : /\ release[v].state \in {"none", "draft", "public"}
                           /\ release[v].target \in Trees \cup {0}
                           /\ tag[v] \in Trees \cup {0}
    /\ board.target = Absent \/ board.target[1] \in Versions
    /\ jobs \in 0 .. MaxJobs /\ faults \in 0 .. MaxFaults

\* A public archive is whole and of one build: the image, the metadata that
\* authenticates it and the provenance belong together, the image was compiled
\* from the commit the tag names, and that commit is published and states the
\* archive's version.  Jobs that stopped half way, builds that differ and
\* sources edited during the job come before it in every order.
Pinned == \A v \in Versions : release[v].state = "public" =>
            /\ tag[v] \in remote /\ VersionOf[tag[v]] = v
            /\ release[v].assets["build-provenance.json"] = <<tag[v]>>
            /\ \E b \in Builds : /\ release[v].assets["update.bin"] = <<tag[v], b>>
                                 /\ release[v].assets["ota.txt"] = <<v, tag[v], b>>

\* A target a board accepts from the channel, whichever two moments of the
\* replacement it read the two files at, names a public archive with exactly
\* that image ("a partial two-asset replacement fails closed").
Pointed == board.target # Absent =>
             LET archive == release[board.target[1]]
             IN  /\ archive.state = "public"
                 /\ archive.assets["ota.txt"] = board.target
                 /\ archive.assets["update.bin"] = Tail(board.target)

\* "this makes interrupted draft uploads resumable" (line 223): a draft is
\* refused only for an asset somebody finished with other bytes.  The code does
\* not keep this for a broken asset: see the README.
Resumable == job.pc = "refused" =>
               \E i \in DOMAIN Assets : Ours.assets[Assets[i]] \notin {Absent, Broken, Bytes[Assets[i]]}

-----------------------------------------------------------------------------
=============================================================================
