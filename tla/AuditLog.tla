------------------------------- MODULE AuditLog -------------------------------
(* The audit log: a chain of hashed lines in a live file and the segments      *)
(* rotated out of it, appended under a lock, read back at start-up, verified    *)
(* and queried while it grows. src/data_olympus/audit_log.py, tools_audit.py.   *)
(*                                                                             *)
(* Events are numbered in the order they are appended; the number stands for   *)
(* the event and for its hash.                                                 *)
EXTENDS Naturals, Sequences, FiniteSets, SequencesExt

CONSTANTS
    MaxLines,       \* the size that rotates the live file, in lines
    MaxEvents,      \* bounds the events
    MaxClock,       \* bounds the clock
    MaxLogFaults,   \* bounds failing writes and crashes
    MaxBack         \* bounds the clock's steps back

ASSUME AuditAssumption ==
    {MaxLines, MaxEvents, MaxClock} \subseteq Nat \ {0} /\ {MaxLogFaults, MaxBack} \subseteq Nat

GENESIS == 0
LIVE == [at |-> 0, n |-> 0]
Idle == [todo |-> <<>>, answer |-> <<>>]

VARIABLES
    live,           \* the live file: its lines [ev, prev, whole]
    open,           \* its last line has no line end
    rotated,        \* the segments: name [at, n] -> lines
    garbled,        \* the files whose bytes are no text: a character was cut
    up,             \* the server runs
    lastHash,       \* AuditLog._last_hash
    events,         \* events appended so far
    clock,
    query,          \* a reader: the files to read, the events read
    acked,          \* history: events whose append returned
    swallowed,      \* history: of these, the ones written onto an open line
    missed,         \* history: events rotated away from under the reader
    broken,         \* history: a write left what its chain does not know, or
                    \* made unreadable what its chain knows
    disordered,     \* history: a segment's name sorts before an older one's
    logFaults, back

file == <<live, open, rotated, garbled, up, lastHash, events>>
history == <<acked, swallowed, broken, disordered>>
logVars == <<file, clock, query, missed, history, logFaults, back>>

LogInit ==
    /\ live = <<>> /\ open = FALSE /\ rotated = <<>> /\ garbled = {}
    /\ up = TRUE /\ lastHash = GENESIS /\ events = 0
    /\ clock = 1 /\ query = Idle /\ missed = {}
    /\ acked = {} /\ swallowed = {} /\ broken = FALSE /\ disordered = FALSE
    /\ logFaults = 0 /\ back = 0

LogFault == logFaults < MaxLogFaults /\ logFaults' = logFaults + 1

----------------------------------------------------------------------------
(* The segments.                                                             *)

\* The order of the names as text: "-<n>" sorts before the suffix, so among the
\* segments of one instant the first, which has no number, comes last. (Numbers of
\* one digit; two segments of one instant are out of order whatever the digits.)
Before(a, b) ==
    \/ a.at < b.at
    \/ a.at = b.at /\ a.n # 0 /\ (b.n = 0 \/ a.n < b.n)

\* Oldest first, by their names.
_rotated_paths ==
    LET names == DOMAIN rotated
    IN  CHOOSE s \in [1..Cardinality(names) -> names] :
            ToSet(s) = names /\ \A i, j \in DOMAIN s : i < j => Before(s[i], s[j])

\* Mutant of _rotated_path_for: the name is the instant.
_rotated_path_at == [at |-> clock, n |-> 0]

\* No segment is overwritten.
_rotated_path_for == [at |-> clock, n |-> Cardinality({g \in DOMAIN rotated : g.at = clock})]

Lines(paths) == FlattenSeq([n \in DOMAIN paths |-> rotated[paths[n]]]) \o live

Content(name) == IF name = LIVE THEN live ELSE rotated[name]

\* The events in whole lines of some files.
WholeIn(names) == UNION {{l.ev : l \in {m \in ToSet(Content(g)) : m.whole}} : g \in names}

AllFiles == DOMAIN rotated \cup {LIVE}
Written == WholeIn(AllFiles)

\* What can be read: every reader decodes a file as a whole, and raises for one
\* that is no text.
Readable == WholeIn(AllFiles \ garbled)

\* The hash of the last line of a sequence that can be read.
LastWhole(lines) ==
    LET whole == {n \in DOMAIN lines : lines[n].whole}
    IN  IF whole = {} THEN GENESIS ELSE lines[Max(whole)].ev

\* Mutant of _load_last_hash: it looks into the live file only.
_load_live_hash == LastWhole(live)

\* The last hash in a line that can be read.
_load_last_hash == LastWhole(Lines(_rotated_paths))

\* Every line readable, each chained to the one before it.
verify ==
    LET all == Lines(_rotated_paths)
    IN  \A n \in DOMAIN all :
            all[n].whole /\ all[n].prev = (IF n = 1 THEN GENESIS ELSE all[n - 1].ev)

----------------------------------------------------------------------------
(* append, under the lock.                                                   *)

Rotates == Len(live) >= MaxLines
Kept == IF Rotates THEN <<>> ELSE live
Onto == open /\ ~Rotates

_maybe_rotate_locked ==
    IF Rotates
    THEN /\ rotated' = [g \in DOMAIN rotated \cup {_rotated_path_for} |->
                            IF g = _rotated_path_for THEN live ELSE rotated[g]]
         /\ missed' = IF query.todo # <<>> /\ Head(query.todo) = LIVE
                      THEN missed \cup {l.ev : l \in ToSet(live)} ELSE missed
         /\ disordered' = (disordered \/ \E g \in DOMAIN rotated : ~Before(g, _rotated_path_for))
    ELSE UNCHANGED <<rotated, missed, disordered>>

\* A write puts into the file nothing, some characters of the line, a part of it
\* that ends inside a character, the bare line without its line end, or all of it.
\* Behind an open line it makes one unreadable line with it.
WriteLine(part) ==
    LET line == [ev |-> events + 1, prev |-> lastHash, whole |-> part \in {"bare", "all"} /\ ~Onto]
    IN  /\ live' = CASE part = "none" -> Kept
                     [] part # "none" /\ Onto -> Append(Front(Kept), line)
                     [] OTHER -> Append(Kept, line)
        /\ open' = (part \in {"some", "cut", "bare"} \/ (part = "none" /\ Onto))
        /\ garbled' = {IF Rotates /\ g = LIVE THEN _rotated_path_for ELSE g : g \in garbled}
                           \cup (IF part = "cut" THEN {LIVE} ELSE {})

Attempt(part) ==
    /\ up /\ events < MaxEvents /\ events' = events + 1
    /\ _maybe_rotate_locked /\ WriteLine(part)
    /\ UNCHANGED <<clock, back>>

append ==
    /\ Attempt("all")
    /\ lastHash' = events + 1
    /\ acked' = acked \cup {events + 1}
    /\ swallowed' = IF Onto THEN swallowed \cup {events + 1} ELSE swallowed
    /\ broken' = (broken \/ Onto)
    /\ UNCHANGED <<query, up, logFaults>>

\* The write raises (the disk is full), and the process goes on.
AppendFails ==
    /\ LogFault
    /\ \E part \in {"none", "some", "cut", "bare", "all"} :
        Attempt(part) /\ broken' = (broken \/ part # "none")
    /\ UNCHANGED <<query, up, lastHash, acked, swallowed>>

\* The process dies in an append, and its readers with it.
CrashInAppend ==
    /\ LogFault
    /\ \E part \in {"none", "some", "cut", "bare", "all"} :
        /\ Attempt(part)
        /\ broken' = (broken \/ part \in {"some", "cut"} \/ (part # "none" /\ Onto))
    /\ up' = FALSE /\ query' = Idle
    /\ UNCHANGED <<lastHash, acked, swallowed>>

ProcessDies ==
    /\ up /\ LogFault
    /\ up' = FALSE /\ query' = Idle
    /\ UNCHANGED <<live, open, rotated, garbled, lastHash, events, clock, missed, history, back>>

\* The constructor reads all files. It raises at one that is no text: the server
\* does not come up, however often it is started.
Restart ==
    /\ ~up
    /\ \/ garbled = {} /\ up' = TRUE /\ lastHash' = _load_last_hash
       \/ garbled # {} /\ UNCHANGED <<up, lastHash>>
    /\ UNCHANGED <<live, open, rotated, garbled, events, clock, query, missed, history, logFaults, back>>

----------------------------------------------------------------------------
(* iter_filtered, as kb_audit and the recap use it over the whole history.   *)

\* Mutant of QueryBegin: the segments oldest first.
QueryBeginOldest ==
    /\ up /\ query.todo = <<>>
    /\ query' = [todo |-> <<LIVE>> \o _rotated_paths, answer |-> <<>>]
    /\ missed' = {}
    /\ UNCHANGED <<file, clock, history, logFaults, back>>

\* The files are listed first, without the lock.
QueryBegin ==
    /\ up /\ query.todo = <<>>
    /\ query' = [todo |-> <<LIVE>> \o Reverse(_rotated_paths), answer |-> <<>>]
    /\ missed' = {}
    /\ UNCHANGED <<file, clock, history, logFaults, back>>

\* The events of the lines that can be read, backwards.
Backwards(lines) ==
    LET upto[n \in 0..Len(lines)] ==
            IF n = 0 THEN <<>>
            ELSE IF lines[n].whole THEN <<lines[n].ev>> \o upto[n - 1]
            ELSE upto[n - 1]
    IN  upto[Len(lines)]

\* Each is then read under it, and yielded backwards; the query raises, and answers
\* nothing, at one that is no text.
QueryRead ==
    /\ query.todo # <<>>
    /\ LET name == Head(query.todo)
       IN  \/ /\ name \notin garbled
              /\ query' = [todo |-> Tail(query.todo),
                            answer |-> query.answer \o Backwards(Content(name))]
           \/ name \in garbled /\ query' = Idle
    /\ UNCHANGED <<file, clock, missed, history, logFaults, back>>

Tick ==
    /\ clock < MaxClock /\ clock' = clock + 1
    /\ UNCHANGED <<file, query, missed, history, logFaults, back>>

\* The wall clock is set back.
StepBack ==
    /\ back < MaxBack /\ clock > 1
    /\ clock' = clock - 1 /\ back' = back + 1
    /\ UNCHANGED <<file, query, missed, history, logFaults>>

LogNext ==
    \/ append \/ AppendFails \/ CrashInAppend \/ ProcessDies \/ Restart
    \/ QueryBegin \/ QueryRead
    \/ Tick \/ StepBack

LogSpec == LogInit /\ [][LogNext]_logVars

----------------------------------------------------------------------------
(* Properties.                                                               *)

\* The chain verifies from the first event to the last, across rotations and
\* restarts, wherever the process died between two writes, after a whole line or
\* before its line end. What breaks it for good is a write that left a part behind,
\* or a whole line its caller took for failed, an append onto a line without its
\* end, and a segment named before an older one (the clock set back, or two
\* rotations in one instant).
ChainVerifies == ~broken /\ ~disordered => verify

\* An event whose append returned is in a whole line of its file, through every
\* rotation and restart, and can be read back unless a write to the same file was
\* cut inside a character; but for the one written onto the open line an earlier
\* write left.
AckedReadable == acked \ swallowed \subseteq Readable \cup WholeIn(garbled)

\* A query over the history that answers yields the newest first and each event
\* once, and leaves out between its first and its last, of what is in whole lines,
\* only what was rotated away after it listed the files.
QueryInOrder ==
    ~disordered =>
        LET got == query.answer
        IN  /\ \A m, n \in DOMAIN got : m < n => got[m] > got[n]
            /\ got # <<>> => \A e \in Written :
                   got[1] > e /\ e > Last(got) => e \in ToSet(got) \cup missed

\* The files and the appends implement one growing log: whatever rotates, fails or
\* crashes, the lines in the order of the segments' names only gain one at the end,
\* chained to the last, and an append that returns has put its own there in the
\* same step. What spoils the log is what ChainVerifies excepts.
Sound == ~broken /\ ~disordered
SoundLines == IF Sound THEN Lines(_rotated_paths) ELSE <<>>
SoundAcked == IF Sound THEN acked ELSE {}
Log == INSTANCE EventLog WITH
           Events <- 1..MaxEvents, log <- SoundLines, acknowledged <- SoundAcked, sound <- Sound
ImplementsEventLog == Log!Spec
=============================================================================
