--------------------------- MODULE GeneratorWatch ---------------------------
(***************************************************************************)
(* GeneratorWatch (generator_watch.py): which devices are silent, decided  *)
(* from the server's log of requests alone, next to what is true: which    *)
(* devices send, and when the server stalls.                               *)
(*                                                                         *)
(* A device that runs sends once in every unit of time; the server logs it *)
(* unless it stalls.  Lines are read in the order of the log, but one at a *)
(* time may be late.  Time is the server's own clock, as in the lines.    *)
(***************************************************************************)
EXTENDS Integers, FiniteSetsExt

CONSTANTS
    Watched,      \* generators of the games
    Always,       \* devices watched game or not
    Others,       \* devices that are not watched
    Silence,      \* 20 s
    GroupMin,     \* 3
    GroupWindow,  \* 10 s
    Pause,        \* 5 s
    Late,         \* how late a line may be read
    Horizon,      \* bound on time
    MaxEvents     \* bound on failures, stalls, games and restarts

VARIABLES
    now, down, stalled,
    server,   \* boot of the game server
    lines,    \* requests logged and not read yet: <<device, time, boot>>
    last,     \* newest request read of each device, 0 if none
    clock,    \* newest request read of any device
    first,    \* first request read
    resumed,  \* end of the latest pause of the server
    boot,     \* boot of the server as read, 0 if none was
    booted,   \* time of the first event of that boot
    session,  \* the game watched, 0 outside games
    started,  \* when its watching began
    open,     \* outages: [macs, since, opened, back, always]
    events,
    lastDown, \* history: when each device was last down, 0 if never
    dark,     \* history: for how long it has been down with all else running
    blamed    \* history: outages just opened

world == <<now, down, stalled, server, lines, events, lastDown, dark>>
watch == <<last, clock, first, resumed, boot, booted, session, started, open, blamed>>
vars == <<world, watch>>

Named == Watched \cup Always
Devices == Named \cup Others

Init ==
    /\ now = 1 /\ down = {} /\ stalled = FALSE /\ server = 1 /\ lines = {}
    /\ last = [d \in Named |-> 0]
    /\ clock = 0 /\ first = 0 /\ resumed = 0 /\ boot = 0 /\ booted = 0
    /\ session = 0 /\ started = 0 /\ open = {}
    /\ events = 0 /\ lastDown = [d \in Named |-> 0] /\ dark = [d \in Named |-> 0] /\ blamed = {}

Event == events < MaxEvents /\ events' = events + 1

-----------------------------------------------------------------------------
(***************************************************************************)
(* The world                                                               *)
(***************************************************************************)
\* Time passes: the lines that are late by Late have been read.
Passes ==
    /\ now < Horizon /\ now' = now + 1
    /\ Cardinality(lines) <= 1 /\ \A l \in lines : now - l[2] < Late
    /\ lastDown' = [d \in Named |-> IF d \in down THEN now + 1 ELSE lastDown[d]]

Tick ==
    /\ Passes
    /\ lines' = lines \cup (IF stalled THEN {} ELSE {<<d, now + 1, server>> : d \in Devices \ down})
    /\ dark' = [d \in Named |-> IF d \in down /\ ~stalled /\ Devices \ down # {} THEN dark[d] + 1 ELSE 0]
    /\ UNCHANGED <<down, stalled, server, events, watch>>

Fail(d) ==
    /\ d \notin down /\ Event /\ down' = down \cup {d}
    /\ UNCHANGED <<now, stalled, server, lines, lastDown, dark, watch>>

Return(d) ==
    /\ d \in down /\ Event /\ down' = down \ {d}
    /\ UNCHANGED <<now, stalled, server, lines, lastDown, dark, watch>>

\* A stalled server logs nothing.  It does not stall before the collector read one request of it.
Stall ==
    /\ stalled' = ~stalled
    /\ IF stalled THEN UNCHANGED events ELSE clock # 0 /\ Event
    /\ UNCHANGED <<now, down, server, lines, lastDown, dark, watch>>

\* The game server restarts, which takes time: what was measured before does not count.
Reboot ==
    /\ Event /\ server' = server + 1 /\ Passes
    /\ dark' = [d \in Named |-> 0]
    /\ UNCHANGED <<down, stalled, lines, watch>>

-----------------------------------------------------------------------------
(***************************************************************************)
(* evaluate                                                                *)
(***************************************************************************)
Baseline(d) == Max({last'[d], IF d \in Always THEN first' ELSE started, resumed'})
Gap(d) == clock' - Baseline(d)

\* A member of a group that came back is watched again while the rest is out.
Busy(outages) == UNION {o.macs \ o.back : o \in outages}

\* Broken: as wide as configured.
NearWindowWide == GroupWindow
\* Never wider than half the silence.
NearWindow == IF GroupWindow < Silence \div 2 THEN GroupWindow ELSE Silence \div 2

Groups(outages) ==
    LET free == Watched \ Busy(outages)
        over == {d \in free : Gap(d) >= Silence}
        near == {d \in free : Gap(d) >= Silence - NearWindow}
        game == IF session = 0 \/ over = {} THEN {}
                ELSE IF Cardinality(near) >= GroupMin THEN {near}
                ELSE {{d} : d \in over}
    IN  {[macs |-> g, always |-> FALSE] : g \in game}
        \cup {[macs |-> {d}, always |-> TRUE] : d \in {x \in Always \ Busy(outages) : Gap(x) >= Silence}}

Evaluate(outages) ==
    LET opened == {[macs |-> g.macs, since |-> Min({Baseline(d) : d \in g.macs}), opened |-> clock',
                    back |-> {}, always |-> g.always] : g \in Groups(outages)}
    IN  open' = outages \cup opened /\ blamed' = opened

-----------------------------------------------------------------------------
(***************************************************************************)
(* server: every event carries the boot of the game server                 *)
(***************************************************************************)
Ongoing(outages) == {o \in outages : o.always}

\* A line of the boot before, read late, is no restart.
NewBoot(b, at) == b # boot /\ ~(booted # 0 /\ at < booted)

Heard(b, at) ==
    /\ boot' = IF NewBoot(b, at) THEN b ELSE boot
    /\ booted' = IF NewBoot(b, at) THEN at ELSE booted

ResumedBy(b, at) == IF NewBoot(b, at) /\ at > resumed THEN at ELSE resumed
OpenAfter(b, at) == IF NewBoot(b, at) /\ boot # 0 THEN Ongoing(open) ELSE open

(***************************************************************************)
(* request: one line of the log                                            *)
(***************************************************************************)
\* Broken: a pause of the server is not looked for.
ResumesNever(at) == FALSE
\* Broken: every later line ends a pause.
ResumesOften(at) == at > clock
Resumes(at) == clock # 0 /\ at - clock > Pause

\* A line from before the report proves nothing about now.
Recover(outages, d, at) ==
    {o \in {[x EXCEPT !.back = IF d \in x.macs /\ at > x.opened THEN @ \cup {d} ELSE @] : x \in outages} :
        o.back # o.macs}

Read(l) ==
    /\ \A m \in lines : l[2] - m[2] <= Late
    /\ LET d == l[1]
           at == l[2]
           known == OpenAfter(l[3], at)
       IN  /\ lines' = lines \ {l}
           /\ Heard(l[3], at)
           /\ resumed' = IF Resumes(at) THEN at ELSE ResumedBy(l[3], at)
           /\ clock' = IF at > clock THEN at ELSE clock
           /\ first' = IF first = 0 THEN at ELSE first
           /\ last' = IF d \in Named /\ at > last[d] THEN [last EXCEPT ![d] = at] ELSE last
           /\ Evaluate(IF d \in Named THEN Recover(known, d, at) ELSE known)
    /\ UNCHANGED <<now, down, stalled, server, events, lastDown, dark, session, started>>

-----------------------------------------------------------------------------
(***************************************************************************)
(* game, and a restart of the collector                                    *)
(***************************************************************************)
\* A snapshot of the server: another game, or none.
Game(s) ==
    /\ s # session /\ ~stalled /\ Event
    /\ session' = s /\ started' = IF s = 0 THEN 0 ELSE now
    /\ Heard(server, now) /\ resumed' = ResumedBy(server, now)
    /\ open' = Ongoing(open) /\ blamed' = {}
    /\ dark' = [d \in Named |-> IF d \in Always THEN dark[d] ELSE 0]
    /\ UNCHANGED <<now, down, stalled, server, lines, lastDown, last, clock, first>>

\* The open incidents are restored, and with them their game.
Restart ==
    /\ Event
    /\ last' = [d \in Named |-> 0] /\ clock' = 0 /\ first' = 0 /\ resumed' = 0
    /\ boot' = 0 /\ booted' = 0 /\ blamed' = {}
    /\ open' = {[o EXCEPT !.back = {}] : o \in open}
    /\ LET games == open \ Ongoing(open) IN
          /\ session' = IF games = {} THEN 0 ELSE session
          /\ \/ games = {} /\ started' = 0
             \/ \E o \in games : started' = o.since
    /\ dark' = [d \in Named |-> 0]
    /\ UNCHANGED <<now, down, stalled, server, lines, lastDown>>

Next ==
    \/ Tick \/ Stall \/ (\E d \in Named : Fail(d) \/ Return(d))
    \/ (\E l \in lines : Read(l))
    \/ (\E s \in 0 .. 2 : Game(s)) \/ Reboot \/ Restart

Spec == Init /\ [][Next]_vars

-----------------------------------------------------------------------------
\* Types; an outage always waits for somebody.
TypeOK ==
    /\ now \in 1 .. Horizon /\ down \subseteq Named /\ stalled \in BOOLEAN
    /\ server \in 1 .. 1 + MaxEvents /\ boot \in 0 .. server
    /\ lines \subseteq Devices \X (1 .. now) \X (1 .. server)
    /\ last \in [Named -> 0 .. clock] /\ clock \in 0 .. now
    /\ {first, resumed, booted, started} \subseteq 0 .. now
    /\ session \in 0 .. 2 /\ events \in 0 .. MaxEvents
    /\ lastDown \in [Named -> 0 .. now] /\ dark \in [Named -> 0 .. now]
    /\ \A o \in open \cup blamed : /\ o.back \subseteq o.macs /\ o.back # o.macs /\ o.macs \subseteq Named
                                   /\ o.opened \in 0 .. now /\ o.always \in BOOLEAN

(***************************************************************************)
(* Who is reported has been down: no device that kept sending is blamed,   *)
(* alone or as a member of a group, because the server stalled or          *)
(* restarted, a game began, the collector restarted or a line came late.   *)
(* A stall of up to Pause goes unnoticed, and so may the line after it:    *)
(* the outage reported may be over by that much.                           *)
(***************************************************************************)
OnlyTheDown == \A o \in blamed : \A d \in o.macs : lastDown[d] # 0 /\ o.opened - lastDown[d] <= Pause + Late

(***************************************************************************)
(* A device that has been down for the whole silence, and a little for the *)
(* lines to come, while the server logged others and its game ran, is in   *)
(* an open outage, also when it was in a group and had come back before.   *)
(***************************************************************************)
NobodyMissed ==
    \A d \in Named :
        dark[d] > Silence + 2 * Late + 1 /\ (d \in Always \/ session # 0) =>
            \E o \in open : d \in o.macs \ o.back
=============================================================================
