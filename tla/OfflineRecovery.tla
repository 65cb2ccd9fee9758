-------------------------- MODULE OfflineRecovery --------------------------
(***************************************************************************)
(* Why a generator restarts itself: lost Wi-Fi                             *)
(* (generator_offline_recovery.h, NetworkOfflineRecoveryService) and the   *)
(* update from GitHub (NetworkGithubOta), and what it remembers of either  *)
(* in RTC memory, which some resets keep and others do not.                *)
(*                                                                         *)
(* Time is counted in units longer than a request; the loop turns at least *)
(* once a unit.  Ages grow with it and stop where nothing compares them.   *)
(* The jitter of up to five seconds is below the unit, and millis() is     *)
(* taken not to come round (49 days without a reset).                      *)
(***************************************************************************)
EXTENDS Integers, Sequences

CONSTANTS
    KnownDelay,   \* 30 s: how long to wait for a link that has worked in this boot
    FirstDelay,   \* 180 s: for the first association
    Delays,       \* 300, 900, 1800 s: after so many restarts in a row
    Stable,       \* StableMs, 10 minutes
    ServerFresh,  \* ServerFreshMs, 15 s
    AbortAfter,   \* 10 s: after which maintenance without Wi-Fi ends
    MaxAttempts,  \* kNetworkOtaMaxAttempts
    MaxEvents     \* bound: orders of the operator, and resets for other reasons

VARIABLES
    link,      \* WiFi.status() == WL_CONNECTED
    order,     \* device_state in the server's row
    history,   \* networkRecoveryHistory, in RTC memory
    updates,   \* networkOtaRetained, in RTC memory
    run,       \* what the running firmware holds
    past,      \* history variable: the restarts so far
    events

vars == <<link, order, history, updates, run, past, events>>

Unset == -1
Orders == {"github", "update", "other"}
Causes == {"software", "panic", "power"}   \* esp_reset_reason, as far as it matters

\* After a reset, before GeneratorNetworkBegin.
Booting(cause) ==
    [at |-> "boot", cause |-> cause, seen |-> "unseen",
     offline |-> Unset, stable |-> Unset, reply |-> Unset, known |-> FALSE,
     maintenance |-> "none", age |-> 0, restart |-> Unset,
     flight |-> FALSE, uncertain |-> FALSE, turned |-> FALSE]

Init ==
    /\ link \in BOOLEAN /\ order \in Orders
    /\ history = [attempts |-> 0, pending |-> FALSE] /\ updates = 0
    /\ run = Booting("power")
    /\ past = [since |-> Unset, gap |-> Unset, chain |-> 0, tries |-> 0, down |-> 0]
    /\ events = 0
-----------------------------------------------------------------------------
\* GeneratorNetworkBegin: the history is kept for the device's own restart alone, the
\* count of updates for everything but a loss of power.
Begin ==
    /\ run.at = "boot"
    /\ history' = [attempts |-> IF run.cause = "software" /\ history.pending
                                THEN history.attempts ELSE 0,
                   pending |-> FALSE]
    /\ IF run.cause = "power"
       THEN updates' = 0 /\ past' = [past EXCEPT !.tries = 0]
       ELSE UNCHANGED <<updates, past>>
    /\ run' = [run EXCEPT !.at = "loop"]
    /\ UNCHANGED <<link, order, events>>

\* A reset for another reason: a staff card or a reboot that the server asks for, a panic
\* or a watchdog, the loss of power.  A brownout may leave the memory as it was.
OtherReset(cause) ==
    /\ events < MaxEvents /\ events' = events + 1
    /\ run.at = "boot" => cause # "software"
    /\ run' = Booting(cause)
    /\ \/ /\ UNCHANGED <<history, updates>>
          /\ past' = [past EXCEPT !.since = Unset, !.gap = Unset, !.chain = 0, !.down = 0]
       \/ /\ cause = "power" /\ updates' = 0
          /\ history' = [attempts |-> 0, pending |-> FALSE]
          /\ past' = [past EXCEPT !.since = Unset, !.gap = Unset, !.chain = 0, !.down = 0, !.tries = 0]
    /\ UNCHANGED <<link, order>>

\* The restart after an update or an attempt at one.
Restart == /\ run' = Booting("software")
           /\ past' = [past EXCEPT !.since = Unset, !.gap = Unset, !.chain = 0, !.down = 0]
-----------------------------------------------------------------------------
(* NetworkOfflineRecoveryService *)

Delay(attempts, known) ==
    IF attempts > 0 THEN Delays[attempts] ELSE IF known THEN KnownDelay ELSE FirstDelay

\* Policy::sample: an outage starts, or ends and the time of health goes on.
Healthy == run.reply # Unset /\ run.reply < ServerFresh
Sampled(online) ==
    IF ~online THEN [run EXCEPT !.stable = Unset, !.offline = IF @ = Unset THEN 0 ELSE @]
    ELSE [run EXCEPT !.offline = Unset, !.known = TRUE,
                     !.stable = IF Healthy THEN IF @ = Unset THEN 0 ELSE @ ELSE Unset]
Recovered(r) == r.stable # Unset /\ r.stable >= Stable
Remembered(r) == IF Recovered(r) THEN [attempts |-> 0, pending |-> FALSE] ELSE history

Due(r) == r.offline # Unset /\ r.offline >= Delay(history.attempts, r.known)
Blocked(r) == r.maintenance # "none" \/ r.uncertain \/ r.flight

Requested_Again == [history EXCEPT !.pending = TRUE]
\* requested(): attempts are counted to 65535, here to the last of the delays.
Requested == [attempts |-> IF history.attempts < Len(Delays) THEN history.attempts + 1 ELSE Len(Delays),
              pending |-> TRUE]

OwnRestart ==
    /\ run.at = "loop" /\ ~link
    /\ LET r == Sampled(FALSE) IN Due(r) /\ ~Blocked(r)
    /\ history' = Requested
    /\ run' = Booting("software")
    /\ past' = [past EXCEPT !.gap = past.since, !.since = 0, !.down = 0,
                            !.chain = IF @ > Len(Delays) THEN @ ELSE @ + 1]
    /\ UNCHANGED <<link, order, updates, events>>

\* The link is back when it is read again behind the fence.
BackInTime ==
    /\ run.at = "loop" /\ ~link
    /\ LET r == Sampled(FALSE) IN Due(r) /\ ~Blocked(r)
    /\ link' = TRUE /\ past' = [past EXCEPT !.chain = 0, !.down = 0]
    /\ run' = [Sampled(TRUE) EXCEPT !.turned = TRUE]
    /\ history' = Remembered(Sampled(TRUE))
    /\ UNCHANGED <<order, updates, events>>
-----------------------------------------------------------------------------
(* A turn of GeneratorNetworkLoop in which nothing is restarted for the link. *)

\* Maintenance waits for the queue and, before a GitHub update, for the black box.
StartsCheck(r, busy) == r.restart = Unset /\ link /\ ~busy
Aborts_Never(r) == FALSE
Aborts(r) == r.restart = Unset /\ ~link /\ r.age >= AbortAfter
Leaves(r, busy) == r.restart # Unset /\ (~busy \/ r.restart >= AbortAfter)

Counted_Late(r) == updates
\* NetworkGithubOta counts the attempt before it begins.
Counted(r) == IF r.maintenance = "github" THEN updates + 1 ELSE updates

Turn ==
    /\ run.at = "loop"
    /\ \E busy \in BOOLEAN : LET r == Sampled(link) IN
          /\ ~(Due(r) /\ ~Blocked(r)) /\ (r.flight => busy)
          /\ history' = Remembered(r)
          /\ IF r.maintenance = "none" THEN run' = [r EXCEPT !.turned = TRUE] /\ UNCHANGED <<updates, past>>
             ELSE IF StartsCheck(r, busy)
             THEN /\ run' = [r EXCEPT !.at = "check"] /\ updates' = Counted(r)
                  /\ past' = [past EXCEPT !.tries = IF r.maintenance = "github" THEN @ + 1 ELSE @]
             ELSE IF Leaves(r, busy) THEN Restart /\ UNCHANGED updates
             ELSE /\ run' = [r EXCEPT !.turned = TRUE, !.maintenance = IF Aborts(r) THEN "none" ELSE @]
                  /\ UNCHANGED <<updates, past>>
    /\ UNCHANGED <<link, order, events>>

\* ota.check() or FirmwareUpdate: it restarts into the new firmware (or the guard of five
\* minutes restarts), or returns; only the GitHub one needs a restart then.
CheckRestarts == run.at = "check" /\ Restart /\ UNCHANGED <<link, order, history, updates, events>>
CheckReturns ==
    /\ run.at = "check"
    /\ run' = IF run.maintenance = "github" THEN [run EXCEPT !.at = "loop", !.restart = 0]
              ELSE [run EXCEPT !.at = "loop", !.maintenance = "none"]
    /\ UNCHANGED <<link, order, history, updates, past, events>>
-----------------------------------------------------------------------------
(* The server's answers, delivered by the loop *)

\* NetworkPollResult, and the other answers that only show that the server is there.
Poll == /\ run.at = "loop" /\ link /\ run.maintenance = "none"
        /\ run' = [run EXCEPT !.reply = 0]
        /\ UNCHANGED <<link, order, history, updates, past, events>>

\* NetworkApplySnapshot, DataChanged, GeneratorNetworkRequestMaintenance
Asked == CASE order = "update" -> "update"
           [] order = "github" /\ run.seen # "github" /\ updates < MaxAttempts -> "github"
           [] OTHER -> "none"
Snapshot ==
    /\ run.at = "loop" /\ link /\ run.maintenance = "none"
    /\ run' = [run EXCEPT !.reply = 0, !.seen = order, !.maintenance = Asked, !.age = 0]
    /\ IF order # "github"
       THEN updates' = 0 /\ past' = [past EXCEPT !.tries = 0]
       ELSE UNCHANGED <<updates, past>>
    /\ UNCHANGED <<link, order, history, events>>

\* A request is under way or in the mailbox; a completion that is not in flash is uncertain.
Exchange ==
    /\ run.at # "boot"
    /\ \/ run.flight /\ run' = [run EXCEPT !.flight = FALSE]
       \/ ~run.flight /\ link /\ run' = [run EXCEPT !.flight = TRUE]
    /\ UNCHANGED <<link, order, history, updates, past, events>>
Uncertain ==
    /\ run.at = "loop" /\ run.maintenance = "none"
    /\ \/ run.uncertain /\ run' = [run EXCEPT !.uncertain = FALSE]
       \/ ~run.uncertain /\ link /\ run' = [run EXCEPT !.uncertain = TRUE]
    /\ past' = [past EXCEPT !.down = 0]
    /\ UNCHANGED <<link, order, history, updates, events>>

\* The report of a check (setOnSuccess, setOnSkip) reaches the server before the restart.
Reported ==
    /\ run.restart # Unset /\ link /\ order = "github" /\ order' = "other"
    /\ UNCHANGED <<link, history, updates, run, past, events>>
-----------------------------------------------------------------------------
(* The world *)

Operator ==
    /\ events < MaxEvents /\ events' = events + 1
    /\ order' \in Orders \ {order}
    /\ UNCHANGED <<link, history, updates, run, past>>

Link ==
    /\ link' = ~link
    /\ past' = IF link THEN past ELSE [past EXCEPT !.chain = 0, !.down = 0]
    /\ UNCHANGED <<order, history, updates, run, events>>

Older(age, most) == IF age = Unset \/ age = most THEN age ELSE age + 1
Longest == Delays[Len(Delays)]

\* A request ends within a unit, and the loop has turned unless a check holds it.
Tick ==
    /\ ~run.flight /\ (run.at = "loop" => run.turned)
    /\ run' = [run EXCEPT !.offline = Older(@, Longest), !.stable = Older(@, Stable),
                          !.reply = Older(@, ServerFresh), !.restart = Older(@, AbortAfter),
                          !.age = IF run.maintenance = "none" THEN 0 ELSE Older(@, AbortAfter),
                          !.turned = FALSE]
    /\ past' = [past EXCEPT !.since = Older(@, Longest),
                            !.down = IF link \/ run.at # "loop" \/ run.uncertain THEN 0
                                     ELSE Older(@, Longest + 2)]
    /\ UNCHANGED <<link, order, history, updates, events>>

Next ==
    \/ Begin \/ OwnRestart \/ BackInTime \/ Turn \/ CheckRestarts \/ CheckReturns
    \/ Poll \/ Snapshot \/ Exchange \/ Uncertain \/ Reported
    \/ \E cause \in Causes : OtherReset(cause)
    \/ Operator \/ Link \/ Tick
Spec == Init /\ [][Next]_vars
-----------------------------------------------------------------------------
(* Properties *)

TypeOK ==
    /\ link \in BOOLEAN /\ order \in Orders /\ events \in 0 .. MaxEvents
    /\ history \in [attempts : 0 .. Len(Delays), pending : BOOLEAN]
    /\ updates \in 0 .. MaxAttempts
    /\ run \in [at : {"boot", "loop", "check"}, cause : Causes, seen : Orders \cup {"unseen"},
                offline : Unset .. Longest, stable : Unset .. Stable, reply : Unset .. ServerFresh,
                known : BOOLEAN, maintenance : {"none", "github", "update"},
                age : 0 .. AbortAfter, restart : Unset .. AbortAfter,
                flight : BOOLEAN, uncertain : BOOLEAN, turned : BOOLEAN]
    /\ past \in [since : Unset .. Longest, gap : Unset .. Longest, chain : 0 .. Len(Delays) + 1,
                 tries : Nat, down : 0 .. Longest + 2]

\* Two restarts for the link are far apart, whatever the link did in between and however
\* often it came and went: as far as the second delay, or a time of health and the first.
\* While it stays away, each distance is at least the next delay (OFFLINE_RECOVERY.md).
\* Only a reset for another reason starts the count anew.
SoonestAgain == IF Delays[1] < Stable + KnownDelay THEN Delays[1] ELSE Stable + KnownDelay
NoStorm ==
    past.gap # Unset =>
        /\ past.gap >= SoonestAgain
        /\ past.chain >= 2 => past.gap >= Delays[past.chain - 1]

\* Between two orders of the operator that the device has seen, or two losses of power,
\* it tries an update from GitHub so many times at most, whatever resets it meanwhile.
UpdatesRationed == past.tries <= MaxAttempts

\* A device that is cut off always restarts in the end, maintenance and a full count of
\* attempts included; only an uncertain completion may hold it.  The worker is
\* taken to exist and the driver to be sound: without them (network.ino:1019) the
\* code holds the restart, and a device in that state is left out of the model.
NeverGivesUp == past.down <= Delay(history.attempts, run.known) + 1
=============================================================================
