----------------------------- MODULE UsbUpload -----------------------------
(***************************************************************************)
(* devices/HAS1_tagmachine_sub/scripts/auto_usb_upload.py: one run that    *)
(* downloads a reviewed release and writes it to `count' boards, which the *)
(* operator plugs in one after the other while other boards may hang on    *)
(* the same computer.  The release page and the USB bus change between any *)
(* two looks of the script: assets are replaced, the tag is moved, boards  *)
(* are plugged in and out, a board comes back at another address.          *)
(*                                                                         *)
(* What the operator is asked for and is assumed to do: the board that was *)
(* chosen stays where it is until it has been written.                     *)
(***************************************************************************)
EXTENDS Naturals, FiniteSets

CONSTANTS Units,      \* everything with a serial port
          Supported,  \* those with the USB IDs of a Beetle
          Baseline,   \* those with the default partitions and app0 selected
          IdOf,       \* the serial number a unit reports, NoId: none
          NoId,
          Addresses,  \* the serial port addresses
          None,
          MaxCount,   \* --count
          StablePolls, AwayPolls,   \* STABLE_POLLS; DISCONNECT_STABLE_SECONDS in polls
          MaxEditions \* times an asset is replaced

VARIABLES at,         \* where each unit is plugged in, or None
          page,       \* the release page: edition, bytes of the assets, tag
          run,        \* the script
          loose,      \* units that were unplugged at some time of the run
          written     \* how often each unit was written, and what

vars == <<at, page, run, loose, written>>

Files == {"update.bin", "others"}
Pinned == "reviewed"   \* PINNED_RELEASES: the SHA-256 of every asset, the commit
Contents == {Pinned, "other"}

Plans == [count : 1 .. MaxCount, asked : Addresses \cup {None}]
Sensible(plan) == plan.asked # None => plan.count = 1

Init == /\ at \in [Units -> Addresses \cup {None}]
        /\ \A u, w \in Units : u # w => at[u] = None \/ at[u] # at[w]
        /\ page = [edition |-> 0, bytes |-> [f \in Files |-> Pinned], tag |-> Pinned]
        /\ \E plan \in Plans : /\ Sensible(plan)
                               /\ run = [pc |-> "start", left |-> plan.count, count |-> plan.count,
                                         asked |-> plan.asked, ignored |-> {}, done |-> {},
                                         snapshot |-> 0, got |-> [f \in Files |-> None],
                                         unit |-> None, port |-> None, stable |-> 0]
        /\ loose = {u \in Units : at[u] = None}
        /\ written = [u \in Units |-> <<0, None>>]

-----------------------------------------------------------------------------
\* The bus and the page.
Handling == {"claim", "baseline", "write"}
Plug(u, a) == /\ at[u] = None /\ \A w \in Units : at[w] # a
              /\ at' = [at EXCEPT ![u] = a]
              /\ UNCHANGED <<page, run, loose, written>>

Unplug(u) == /\ at[u] # None /\ ~(run.pc \in Handling /\ at[u] = run.port)
             /\ at' = [at EXCEPT ![u] = None] /\ loose' = loose \cup {u}
             /\ UNCHANGED <<page, run, written>>

Replace(f, c) == /\ run.pc \in {"before", "tag", "get", "after"}
                 /\ page.edition < MaxEditions
                 /\ page' = [page EXCEPT !.edition = @ + 1, !.bytes[f] = c]
                 /\ UNCHANGED <<at, run, loose, written>>

MoveTag(c) == /\ run.pc \in {"before", "tag", "get", "after"} /\ page.tag # c
              /\ page' = [page EXCEPT !.tag = c]
              /\ UNCHANGED <<at, run, loose, written>>

-----------------------------------------------------------------------------
Step(changes) == run' = [f \in DOMAIN run |-> IF f \in DOMAIN changes THEN changes[f] ELSE run[f]]
Quiet == UNCHANGED <<at, page, loose, written>>
Give(ok, changes) == Step(IF ok THEN changes ELSE [pc |-> "failed"])
To(pc) == [pc |-> pc]

\* The ports of a listing: the units that are plugged in.
Ports == {u \in Units : at[u] # None}
Occupied == {at[u] : u \in Ports}

\* Before any network work, so that a board plugged in during the download
\* counts as new.
Start == /\ run.pc = "start" /\ Quiet
         /\ Step([pc |-> "tools", ignored |-> IF run.asked = None THEN Occupied ELSE {}])

\* The core of the one version, its partition data and the esptool.
Tools(ok) == run.pc = "tools" /\ Quiet /\ Give(ok, To("before"))

-----------------------------------------------------------------------------
\* download_pinned_release: metadata and tag, the assets, metadata and tag.
Reviewed == \A f \in Files : page.bytes[f] = Pinned
Snapshot == page.edition
ResolveTag == page.tag

Before == /\ run.pc = "before" /\ Quiet
          /\ Give(Reviewed, [pc |-> "tag", snapshot |-> Snapshot])

TagBefore == run.pc = "tag" /\ Quiet /\ Give(ResolveTag = Pinned, To("get"))

Get == /\ run.pc = "get" /\ Quiet
       /\ \/ \E f \in Files : run.got[f] = None /\ Step([got |-> [run.got EXCEPT ![f] = page.bytes[f]]])
          \/ (\A f \in Files : run.got[f] # None) /\ Step(To("after"))

After == /\ run.pc = "after" /\ Quiet
         /\ Give(Reviewed /\ Snapshot = run.snapshot, To("recheck"))

\* The bytes against the pinned digests, the tag against the commit.
Valid == \A f \in Files : run.got[f] = Pinned

Check == /\ run.pc = "recheck" /\ Quiet
         /\ Give(ResolveTag = Pinned /\ Valid, To("wait"))

-----------------------------------------------------------------------------
\* wait_for_new_port: one poll.  An address that was taken at the start counts
\* from the first poll on that did not see it.
Ignored == run.ignored \cap Occupied
Unseen == {u \in Ports : at[u] \notin Ignored /\ (IdOf[u] = NoId \/ IdOf[u] \notin run.done)}
Fresh == Unseen \cap Supported
Same(u) == run.unit # None /\ IdOf[u] = IdOf[run.unit] /\ at[u] = run.port

Poll ==
    /\ run.pc = "wait" /\ run.asked = None /\ Quiet
    /\ Give(Unseen \subseteq Supported /\ Cardinality(Fresh) < 2,
            IF Fresh = {} THEN [ignored |-> Ignored, unit |-> None, port |-> None, stable |-> 0]
            ELSE LET u == CHOOSE u \in Fresh : TRUE
                     stable == IF Same(u) THEN run.stable + 1 ELSE 1
                 IN  [ignored |-> Ignored, unit |-> u, port |-> at[u], stable |-> stable,
                      pc |-> IF stable = StablePolls THEN "claim" ELSE "wait"])

\* --port: a unit that is listed there must be a supported one; an address
\* that is not listed is taken when it has a name of the system's (named).
Asked(u) == at[u] = run.asked
Explicit(named) ==
    /\ run.pc = "wait" /\ run.asked # None /\ Quiet
    /\ Give(IF \E u \in Units : Asked(u) THEN \E u \in Supported : Asked(u) ELSE named,
            [pc |-> "claim", port |-> run.asked])

Identified == run.count > 1 => IdOf[run.unit] # NoId

\* held: another program has the port open.
Claim(held) == run.pc = "claim" /\ Quiet /\ Give(Identified /\ ~held, To("baseline"))

\* The partition table and the boot selection are read from the board.
VerifyBaseline(ok) ==
    /\ run.pc = "baseline" /\ Quiet
    /\ Give(ok /\ \E u \in Baseline : at[u] = run.port, To("write"))

\* The image goes to whatever is connected at the address.  A write that
\* failed may have changed the board and ends the run.
Write(ok) ==
    /\ run.pc = "write"
    /\ written' = [u \in Units |-> IF at[u] = run.port THEN <<written[u][1] + 1, run.got["update.bin"]>>
                                   ELSE written[u]]
    /\ Give(ok, [pc |-> IF run.left > 1 THEN "away" ELSE "done", left |-> run.left - 1,
                 done |-> run.done \cup ({IdOf[u] : u \in {run.unit} \ {None}} \ {NoId}), stable |-> 0])
    /\ UNCHANGED <<at, page, loose>>

\* wait_for_physical_disconnect: one poll.  What is connected when the board
\* has stayed away is ignored from then on.
Present == \E u \in Ports : IdOf[u] = IdOf[run.unit]
AwayForgets == /\ run.pc = "away" /\ Quiet   \* mutant: what is connected then is not remembered
               /\ Step(IF Present THEN [stable |-> 0]
                       ELSE IF run.stable < AwayPolls THEN [stable |-> run.stable + 1]
                       ELSE [pc |-> "wait", ignored |-> {}, unit |-> None, port |-> None, stable |-> 0])

Away == /\ run.pc = "away" /\ Quiet
        /\ Step(IF Present THEN [stable |-> 0]
                ELSE IF run.stable < AwayPolls THEN [stable |-> run.stable + 1]
                ELSE [pc |-> "wait", ignored |-> Occupied, unit |-> None, port |-> None, stable |-> 0])

\* A deadline passes, a request or a listing fails, the operator gives up.
Abort == run.pc \notin {"failed", "done"} /\ Quiet /\ Step(To("failed"))

Next == \/ \E u \in Units : Unplug(u) \/ \E a \in Addresses : Plug(u, a)
        \/ \E c \in Contents : MoveTag(c) \/ \E f \in Files : Replace(f, c)
        \/ Start \/ Before \/ TagBefore \/ Get \/ After \/ Check
        \/ Poll \/ Away \/ Abort
        \/ \E ok \in BOOLEAN : Tools(ok) \/ Explicit(ok) \/ Claim(ok) \/ VerifyBaseline(ok) \/ Write(ok)

Spec == Init /\ [][Next]_vars

-----------------------------------------------------------------------------
\* Types; two units are never at one address.
TypeOK ==
    /\ at \in [Units -> Addresses \cup {None}]
    /\ \A u, w \in Units : u # w => at[u] = None \/ at[u] # at[w]
    /\ page.edition \in 0 .. MaxEditions /\ page.bytes \in [Files -> Contents] /\ page.tag \in Contents
    /\ run.pc \in {"start", "tools", "before", "tag", "get", "after", "recheck", "wait", "claim",
                   "baseline", "write", "away", "done", "failed"}
    /\ run.left \in 0 .. run.count /\ run.count \in 1 .. MaxCount
    /\ run.ignored \subseteq Addresses /\ NoId \notin run.done
    /\ run.unit \in Units \cup {None} /\ run.port \in Addresses \cup {None}
    /\ run.stable \in 0 .. (IF StablePolls > AwayPolls THEN StablePolls ELSE AwayPolls)
    /\ loose \subseteq Units /\ \A u \in Units : written[u][1] \in Nat

\* What a run writes: never anything but the reviewed image, no unit twice,
\* none outside the baseline state, and without --port only a supported unit
\* that was unplugged at some time of the run: a board that hung on the
\* computer all along is not written, wherever the others come and go.
OnlyFresh == \A u \in Units : written[u][1] > 0 =>
                 /\ written[u] = <<1, Pinned>>
                 /\ u \in Baseline
                 /\ run.asked = None => u \in Supported \cap loose

=============================================================================
