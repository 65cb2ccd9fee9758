----------------------------- MODULE ServerTail -----------------------------
(***************************************************************************)
(* JsonlTailer and its thread (telemetry_runtime.py): the game server      *)
(* writes server-*.jsonl files, the tailer reads whatever is there of the  *)
(* newest of them and saves the lines one by one.  Only what it saved is   *)
(* durable; where it stood in a file is forgotten by a restart.            *)
(*                                                                         *)
(* A file is known by the order of its name, and its content by where its  *)
(* lines end and which of them are valid events of this server.            *)
(***************************************************************************)
EXTENDS Integers, Sequences, FiniteSetsExt

CONSTANTS
    Ends,       \* for each file, the byte after which each of its lines ends
    Valid,      \* for each file, the lines that are valid events
    Cuts,       \* bound: the bytes after which a write of the server may end
    MaxLine,    \* longest line (MAX_LINE)
    Chunk,      \* bytes read of a file at a time (65536)
    RowBudget,  \* rows handled by a poll (128)
    MaxFiles,   \* files looked at (8)
    MaxFaults   \* bound on failed saves, restarts and files made anew

VARIABLES
    written,  \* bytes of each file
    made,     \* which making of the file it is: its identity
    stored,   \* <<file, line>> of the events in the journal
    states,   \* JsonlTailer.states: [made, offset, start, discarding]
    nextFile, \* _next_file
    poll,     \* the files still to visit, the rows left, and the file in hand
    faults

file == <<written, made>>
tailer == <<states, nextFile, poll>>
vars == <<file, stored, tailer, faults>>

Files == DOMAIN Ends
NoState == [made |-> 0]
NoPoll == [at |-> "idle"]

Init ==
    /\ written = [f \in Files |-> 0] /\ made = [f \in Files |-> 0]
    /\ stored = {}
    /\ states = [f \in Files |-> NoState] /\ nextFile = 0 /\ poll = NoPoll
    /\ faults = 0

Fault == faults < MaxFaults /\ faults' = faults + 1
Exists(f) == made[f] > 0

-----------------------------------------------------------------------------
(***************************************************************************)
(* The server                                                              *)
(***************************************************************************)
\* The files come one after the other; a write may end anywhere in a line.
Write(f) ==
    /\ \A g \in Files : g < f => Exists(g)
    /\ made' = [made EXCEPT ![f] = IF @ = 0 THEN 1 ELSE @]
    /\ \E n \in Cuts[f] : n > written[f] /\ written' = [written EXCEPT ![f] = n]
    /\ UNCHANGED <<stored, tailer, faults>>

MakeAnew(f) ==
    /\ Exists(f) /\ Fault
    /\ made' = [made EXCEPT ![f] = @ + 1] /\ written' = [written EXCEPT ![f] = 0]
    /\ UNCHANGED <<stored, tailer>>

-----------------------------------------------------------------------------
(***************************************************************************)
(* JsonlTailer.poll                                                        *)
(***************************************************************************)
Newest == {f \in Files : Exists(f) /\ Cardinality({g \in Files : Exists(g) /\ g > f}) < MaxFiles}
ByName(S) == [i \in 1 .. Cardinality(S) |->
                 CHOOSE f \in S : Cardinality({g \in S : g < f}) = i - 1]

\* The files that are gone are forgotten, and each poll begins with another file.
PollBegins ==
    /\ poll.at = "idle" /\ Newest # {}
    /\ LET paths == ByName(Newest)
           first == nextFile % Len(paths)
       IN  /\ poll' = [at |-> "file", rows |-> RowBudget,
                       paths |-> SubSeq(paths, first + 1, Len(paths)) \o SubSeq(paths, 1, first)]
           /\ nextFile' = (first + 1) % Len(paths)
    /\ states' = [f \in Files |-> IF f \in Newest THEN states[f] ELSE NoState]
    /\ UNCHANGED <<file, stored, faults>>

Smaller(a, b) == IF a < b THEN a ELSE b

\* A file that is new, or another than before, is read from its beginning.
Opened(f) ==
    IF states[f].made # made[f] \/ written[f] < states[f].offset
    THEN [made |-> made[f], offset |-> 0, start |-> 0, discarding |-> FALSE]
    ELSE states[f]

\* What is pending of the file is start + 1 .. offset.
Complete(f, s) == {k \in DOMAIN Ends[f] : Ends[f][k] > s.start /\ Ends[f][k] <= s.offset}

\* The next chunk, unless a whole line is still pending.
Visit ==
    /\ poll.at = "file" /\ poll.paths # <<>> /\ poll.rows > 0
    /\ LET f == poll.paths[1]
           s == Opened(f)
       IN  /\ states' = [states EXCEPT ![f] =
                 IF Complete(f, s) # {} THEN s
                 ELSE [s EXCEPT !.offset = Smaller(s.offset + Chunk, written[f])]]
           /\ poll' = [poll EXCEPT !.at = "rows"]
    /\ UNCHANGED <<file, stored, nextFile, faults>>

\* Broken: a line that could not be saved is not kept.
KeptNot(f, s, k) == [s EXCEPT !.start = Ends[f][k]]
\* A failed save leaves the line pending.
Kept(f, s, k) == s

Oversized(f, s, k) == s.discarding \/ Ends[f][k] - s.start - 1 > MaxLine
Whole(f, s, k) == s.start = IF k = 1 THEN 0 ELSE Ends[f][k - 1]

\* The next whole line: dropped when it is too long or invalid, else saved.
Row ==
    /\ poll.at = "rows" /\ poll.rows > 0
    /\ LET f == poll.paths[1]
           s == states[f]
       IN  /\ Complete(f, s) # {}
           /\ LET k == Min(Complete(f, s))
                  handled == [s EXCEPT !.start = Ends[f][k], !.discarding = FALSE]
                  fresh == ~Oversized(f, s, k) /\ Whole(f, s, k) /\ k \in Valid[f]
              IN  \/ /\ states' = [states EXCEPT ![f] = handled]
                     /\ stored' = IF fresh THEN stored \cup {<<f, k>>} ELSE stored
                     /\ poll' = [poll EXCEPT !.rows = @ - 1] /\ UNCHANGED faults
                  \/ /\ fresh /\ Fault           \* the poll ends here
                     /\ states' = [states EXCEPT ![f] = Kept(f, s, k)]
                     /\ poll' = NoPoll /\ UNCHANGED stored
    /\ UNCHANGED <<file, nextFile>>

Overlong(s) == s.offset - s.start > MaxLine

\* A beginning that is already too long is thrown away, and the rest of its line after it.
Leave ==
    /\ poll.at = "rows"
    /\ LET f == poll.paths[1]
           s == states[f]
       IN  /\ poll.rows = 0 \/ Complete(f, s) = {}
           /\ states' = [states EXCEPT ![f] =
                 IF Complete(f, s) = {} /\ Overlong(s)
                 THEN [s EXCEPT !.start = s.offset, !.discarding = TRUE] ELSE s]
    /\ poll' = [poll EXCEPT !.at = "file", !.paths = Tail(@)]
    /\ UNCHANGED <<file, stored, nextFile, faults>>

PollEnds ==
    /\ poll.at = "file" /\ (poll.paths = <<>> \/ poll.rows = 0)
    /\ poll' = NoPoll
    /\ UNCHANGED <<file, stored, states, nextFile, faults>>

Restart ==
    /\ states # [f \in Files |-> NoState] /\ Fault
    /\ states' = [f \in Files |-> NoState] /\ nextFile' = 0 /\ poll' = NoPoll
    /\ UNCHANGED <<file, stored>>

Tailing == PollBegins \/ Visit \/ Row \/ Leave \/ PollEnds

Next == (\E f \in Files : Write(f) \/ MakeAnew(f)) \/ Tailing \/ Restart

Spec == Init /\ [][Next]_vars
FairSpec == Spec /\ WF_vars(Tailing)

-----------------------------------------------------------------------------
\* Types; what is pending of a file begins at or before what was read of it.
TypeOK ==
    /\ written \in [Files -> Nat] /\ made \in [Files -> 0 .. MaxFaults + 1]
    /\ \A e \in stored : e[1] \in Files /\ e[2] \in Valid[e[1]]
    /\ \A f \in Files : states[f] = NoState \/ (/\ states[f].made \in 1 .. made[f]
                                                /\ states[f].start \in 0 .. states[f].offset)
    /\ nextFile \in 0 .. MaxFiles - 1
    /\ poll = NoPoll \/ (/\ poll.at \in {"file", "rows"} /\ poll.rows \in 0 .. RowBudget
                         /\ \A i \in DOMAIN poll.paths : poll.paths[i] \in Files)
    /\ faults \in 0 .. MaxFaults

(***************************************************************************)
(* Every valid line that the server has finished is in the journal some    *)
(* day, if its file stays among the newest and is not made anew: whatever  *)
(* part of a line a read ended in, however long its neighbours are, and    *)
(* whatever failed or restarted in between.  (Again and again no line is   *)
(* owed: stored lines stay, and the writing is bounded here.)              *)
(***************************************************************************)
EachLineStored ==
    []<>(\A f \in Files : \A k \in Valid[f] :
            written[f] >= Ends[f][k] /\ f \in Newest => <<f, k>> \in stored)
=============================================================================
