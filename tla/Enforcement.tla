----------------------------- MODULE Enforcement -----------------------------
(* The enforcement gate: consultations recorded per (session, workspace) in a  *)
(* ledger that survives restarts, and governed actions that wait for one.      *)
(* src/data_olympus/enforce_policy.py, tools_enforce.py.                       *)
(*                                                                             *)
(* A text is the set of words, command fragments and paths the classifier      *)
(* finds in it; a signal is <<kind, value>>. Handlers run in worker threads:   *)
(* each reads the clock when it is called and the ledger later, under its lock.*)
EXTENDS Naturals, Sequences, FiniteSets, SequencesExt, FiniteSetsExt, Functions

CONSTANTS
    Keys,           \* the (session, workspace) pairs
    Actions,        \* actions: [path, words, frags] (path Nil: it has none)
    Prompts,        \* intents a session states: [words, frags, paths]
    PathGlobs,      \* GOVERNED_PATH_GLOBS, in order
    Fits,           \* Fits[glob]: the paths it matches
    Family,         \* signal_family of a path glob
    KeywordsFor,    \* SIGNAL_FAMILY_COVERAGE: [signal -> keywords], where it has one
    WordsOf,        \* WordsOf[path]: the keywords a path's own text holds
    Clearances,     \* the settings of KB_GATE_CLEARANCE: "intent", "pair"
    Ttl,            \* consult_ttl_sec, also the ledger's retention
    MaxEntries,     \* the ledger's cap
    Nil,
    MaxDelay,       \* bounds the time between a call and its turn at the ledger
    MaxClock, MaxConsults, MaxFaults   \* bounds

ASSUME EnforcementAssumption ==
    /\ {Ttl, MaxEntries, MaxClock, MaxConsults} \subseteq Nat \ {0} /\ {MaxDelay, MaxFaults} \subseteq Nat
    /\ Clearances \subseteq {"intent", "pair"}
    /\ Nil \notin Prompts \cup Nat

VARIABLES
    entries,        \* ConsultationLedger._entries: key -> row
    disk,           \* the ledger's file
    clearance,      \* the setting the server runs with
    clock,
    started,        \* when the running server started
    denied,         \* per session, the last denial: [uncovered, intent]
    granted,        \* history: explicit consults recorded, [key, intent, at]
    owed,           \* history: what an acknowledged consult covers, [key, sig, at]
                    \* (both until no answer can rest on them)
    consults, faults

ledger == <<entries, disk>>
vars == <<ledger, clearance, clock, started, denied, granted, owed, consults, faults>>

Fault == faults < MaxFaults /\ faults' = faults + 1

----------------------------------------------------------------------------
(* The classifier.                                                           *)

\* The first glob that matches.
_path_signal(p) ==
    LET hits == {i \in DOMAIN PathGlobs : p \in Fits[PathGlobs[i]]}
    IN  IF hits = {} THEN {} ELSE {<<"path", PathGlobs[Min(hits)]>>}

_keyword_signals(words) == {<<"keyword", w>> : w \in words}
_command_signals(frags) == {<<"command", f>> : f \in frags}

\* Free text counts only for an action without a path.
classify(a) ==
    _command_signals(a.frags) \cup
        (IF a.path = Nil THEN _keyword_signals(a.words) ELSE _path_signal(a.path))

coverage(i) ==
    _keyword_signals(i.words \cup UNION {WordsOf[p] : p \in i.paths})
        \cup _command_signals(i.frags) \cup UNION {_path_signal(p) : p \in i.paths}

signal_family(s) == IF s[1] = "path" THEN <<"path", Family[s[2]]>> ELSE s

uncovered_signals(signals, covered) ==
    LET families == {signal_family(c) : c \in covered}
        clears(f) == {<<"keyword", k>> : k \in IF f \in DOMAIN KeywordsFor THEN KeywordsFor[f] ELSE {}}
    IN  {s \in signals : families \cap ({signal_family(s)} \cup clears(signal_family(s))) = {}}

\* What a denial proposes to say: the action's own path, each fragment, each keyword.
_suggest_intent(uncovered, a) ==
    LET values(kind) == {s[2] : s \in {u \in uncovered : u[1] = kind}}
    IN  [words |-> values("keyword"), frags |-> values("command"),
         paths |-> IF values("path") # {} THEN {a.path} ELSE {}]

\* No intent is Nil.
ASSUME IntentAssumption ==
    \A a \in Actions : \A uncovered \in SUBSET classify(a) : _suggest_intent(uncovered, a) # Nil

\* The signals of the modelled actions, and those an intent answers for.
Signals == UNION {classify(a) : a \in Actions}
AnsweredBy(intent) == {s \in Signals : uncovered_signals({s}, coverage(intent)) = {}}

----------------------------------------------------------------------------
(* The ledger.                                                               *)

\* The newest rows by consulted_at; which of two equal ones goes is left open.
_enforce_cap(rows) ==
    {Restrict(rows, keep) : keep \in {k \in SUBSET DOMAIN rows :
        /\ Cardinality(k) = Min({Cardinality(DOMAIN rows), MaxEntries})
        /\ \A in \in k, out \in DOMAIN rows \ k : rows[in].consulted_at >= rows[out].consulted_at}}

_evict(rows, now) ==
    LET recent == Restrict(rows, {k \in DOMAIN rows : rows[k].consulted_at + Ttl >= now})
        pruned(r) == [r EXCEPT !.explicit_signals =
                        Restrict(@, {s \in DOMAIN @ : @[s] + Ttl >= now})]
    IN  _enforce_cap([k \in DOMAIN recent |-> pruned(recent[k])])

NoRow == [consulted_at |-> 0, explicit_at |-> Nil, explicit_signals |-> <<>>]

\* Mutant of Recorded: a consult stamps what earlier ones covered with its own time as well.
RecordedRenewing(key, trigger, signals, now) ==
    LET prior == IF key \in DOMAIN entries THEN entries[key] ELSE NoRow
    IN  IF trigger = "explicit"
        THEN [consulted_at |-> now, explicit_at |-> now,
              explicit_signals |-> [s \in signals \cup DOMAIN prior.explicit_signals |-> now]]
        ELSE [prior EXCEPT !.consulted_at = now]

\* Mutant of Recorded: an explicit consult replaces what earlier ones covered.
RecordedReplacing(key, trigger, signals, now) ==
    LET prior == IF key \in DOMAIN entries THEN entries[key] ELSE NoRow
    IN  IF trigger = "explicit"
        THEN [consulted_at |-> now, explicit_at |-> now,
              explicit_signals |-> [s \in signals |-> now]]
        ELSE [prior EXCEPT !.consulted_at = now]

\* The row after a consult at now: a hook's keeps what explicit ones left.
Recorded(key, trigger, signals, now) ==
    LET prior == IF key \in DOMAIN entries THEN entries[key] ELSE NoRow
        stamped == [s \in signals |-> now]
    IN  IF trigger = "explicit"
        THEN [consulted_at |-> now, explicit_at |-> now,
              explicit_signals |-> [s \in signals \cup DOMAIN prior.explicit_signals |->
                    IF s \in signals THEN stamped[s] ELSE prior.explicit_signals[s]]]
        ELSE [prior EXCEPT !.consulted_at = now]

\* The ledger's rows after record(), before they are saved.
record(key, trigger, signals, now) ==
    _evict([k \in DOMAIN entries \cup {key} |->
                IF k = key THEN Recorded(key, trigger, signals, now) ELSE entries[k]], now)

is_fresh(key, now) ==
    /\ key \in DOMAIN entries
    /\ entries[key].explicit_at # Nil
    /\ now <= entries[key].explicit_at + Ttl

fresh_signals(key, now) ==
    IF key \notin DOMAIN entries THEN {}
    ELSE LET at == entries[key].explicit_signals IN {s \in DOMAIN at : now <= at[s] + Ttl}

----------------------------------------------------------------------------
(* The server's life.                                                        *)

\* A row of a ledger written before consults kept their signals.
LegacyRow == [consulted_at |-> 1, explicit_at |-> 1, explicit_signals |-> <<>>]

Init ==
    /\ \E old \in SUBSET Keys :
        /\ disk = [k \in old |-> LegacyRow]
        /\ granted = {[key |-> k, intent |-> Nil, at |-> 1] : k \in old}
    /\ entries \in _enforce_cap(disk)
    /\ clearance \in Clearances
    /\ clock = 1 /\ started = 1 /\ denied = [k \in Keys |-> Nil]
    /\ owed = {} /\ consults = 0 /\ faults = 0

Tick ==
    /\ clock < MaxClock /\ clock' = clock + 1
    /\ granted' = {g \in granted : g.at + Ttl + MaxDelay > clock}
    /\ owed' = {o \in owed : o.at + Ttl > clock}
    /\ UNCHANGED <<ledger, clearance, started, denied, consults, faults>>

\* A process that ends and one that starts on the same state directory, perhaps
\* with another setting. A file that cannot be read counts as empty.
Restart ==
    /\ Fault
    /\ \E readable \in BOOLEAN :
        /\ entries' \in IF readable THEN _enforce_cap(disk) ELSE {<<>>}
        /\ owed' = {o \in owed : o.key \in DOMAIN entries'}
    /\ clearance' \in Clearances /\ started' = clock
    /\ UNCHANGED <<disk, clock, denied, granted, consults>>

----------------------------------------------------------------------------
(* kb_consult and kb_gate_check, each in one step at its turn at the ledger.  *)

\* The times a call that now gets the lock may have read when it came in.
CalledAt == {t \in started .. clock : t + MaxDelay >= clock}

\* A session states an intent, or the one its last denial proposed.
Intents(key) ==
    {[intent |-> p, told |-> {}] : p \in Prompts} \cup
        (IF denied[key] = Nil THEN {}
         ELSE {[intent |-> denied[key].intent, told |-> denied[key].uncovered]})

\* What remains owed once a consult at now is recorded for the key: less to the
\* session when a later one was recorded before, nothing to those the cap dropped.
StillOwed(key, now) ==
    {IF o.key = key THEN [o EXCEPT !.at = Min({@, now})] ELSE o :
        o \in {p \in owed : p.key \in DOMAIN entries'}}

\* record() under the lock; a save that fails has changed the rows already.
ConsultRecord(key, trigger, said, now, saved) ==
    /\ consults < MaxConsults /\ consults' = consults + 1
    /\ entries' \in record(key, trigger, coverage(said.intent), now)
    /\ disk' = IF saved THEN entries' ELSE disk
    /\ granted' = IF trigger = "explicit"
                  THEN granted \cup {[key |-> key, intent |-> said.intent, at |-> now]}
                  ELSE granted
    /\ owed' = StillOwed(key, now) \cup
            (IF saved /\ trigger = "explicit" /\ key \in DOMAIN entries'
             THEN {[key |-> key, sig |-> s, at |-> now] : s \in AnsweredBy(said.intent) \cup said.told}
             ELSE {})
    /\ UNCHANGED <<clearance, clock, started, denied>>

Consult(key, trigger) ==
    /\ \E said \in Intents(key), now \in CalledAt : ConsultRecord(key, trigger, said, now, TRUE)
    /\ UNCHANGED faults

ConsultSaveFails(key, trigger) ==
    /\ \E said \in Intents(key), now \in CalledAt : ConsultRecord(key, trigger, said, now, FALSE)
    /\ Fault

\* The signals the gate finds uncovered.
Uncovered(key, action, now) ==
    IF clearance = "pair"
    THEN IF is_fresh(key, now) THEN {} ELSE classify(action)
    ELSE uncovered_signals(classify(action), fresh_signals(key, now))

\* The gate's answer on a governed action; a denial says what would clear it.
GateCheck(key, action, now) ==
    /\ now \in CalledAt /\ classify(action) # {}
    /\ denied' = [denied EXCEPT ![key] =
            LET uncovered == Uncovered(key, action, now)
            IN  IF uncovered = {} THEN Nil
                ELSE [uncovered |-> uncovered, intent |-> _suggest_intent(uncovered, action)]]
    /\ UNCHANGED <<ledger, clearance, clock, started, granted, owed, consults, faults>>

Next ==
    \/ Tick
    \/ Restart
    \/ \E key \in Keys :
        \/ \E trigger \in {"explicit", "prompt_hook"} :
            Consult(key, trigger) \/ ConsultSaveFails(key, trigger)
        \/ \E action \in Actions, now \in CalledAt : GateCheck(key, action, now)

Spec == Init /\ [][Next]_vars

----------------------------------------------------------------------------
(* Properties.                                                               *)

\* Whenever the gate is asked, it lets a governed action through only if its session
\* consulted explicitly within the TTL about each of the action's signals ("pair":
\* consulted at all), whatever hooks, restarts, upgrades and evictions came between.
AllowWarranted ==
    \A key \in Keys, action \in Actions, now \in CalledAt :
        Uncovered(key, action, now) = {} =>
            \A s \in classify(action) : \E g \in granted :
                /\ g.key = key /\ now <= g.at + Ttl
                /\ clearance = "intent" => g.intent # Nil /\ s \in AnsweredBy(g.intent)

\* Its denial names no signal that the session has an acknowledged, unexpired consult
\* about, its own words or the ones a denial dictated, unless the cap or an
\* unreadable file dropped it or a consult called earlier was recorded after it.
DenialJust ==
    \A o \in owed, action \in Actions, now \in CalledAt :
        o.sig \in Uncovered(o.key, action, now) => o.at + Ttl < clock

=============================================================================
