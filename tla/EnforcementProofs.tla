--------------------------- MODULE EnforcementProofs ---------------------------
(* Proofs about enforcement and how it gets onto a machine.                    *)
(*                                                                             *)
(* Enforcement, the gate: whatever consults, hooks, failed saves, evictions,   *)
(* restarts and upgrades come before, it lets an action through only on a      *)
(* consult its session made (AllowWarranted), and denies none that an          *)
(* acknowledged consult covers (DenialJust).                                   *)
(*                                                                             *)
(* AgentWiring, the commands that write the gate's hooks and the server's      *)
(* endpoint into agents' files: what the operator put there stays, or is in a  *)
(* copy (OwnContentKept), and the files hold what was said (WiringKept).       *)
EXTENDS Enforcement, AgentWiring, FiniteSetTheorems, SequenceTheorems, WellFoundedInduction, TLAPS

----------------------------------------------------------------------------
(* The inductive invariant. Its parts about the ledger are operators of its    *)
(* rows, since they must hold of the rows in memory and of those on disk: a    *)
(* restart puts the one in the place of the other.                             *)

IsRow(r) ==
    /\ DOMAIN r = {"consulted_at", "explicit_at", "explicit_signals"}
    /\ r.consulted_at \in Nat
    /\ r.explicit_at \in Nat \cup {Nil}
    /\ \A s \in DOMAIN r.explicit_signals : r.explicit_signals[s] \in Nat

IsRows(rows) == DOMAIN rows \subseteq Keys /\ \A k \in DOMAIN rows : IsRow(rows[k])

TypeOK ==
    /\ started \in Nat /\ clock \in Nat /\ started <= clock
    /\ clearance \in {"intent", "pair"}
    /\ IsRows(entries) /\ IsRows(disk)
    /\ \A g \in granted : g.at \in Nat
    /\ \A o \in owed : o.at \in Nat /\ o.key \in Keys /\ DOMAIN o = {"key", "sig", "at"}

\* What the last denial proposed covers what it named.
DenialsAnswered ==
    /\ DOMAIN denied = Keys
    /\ \A k \in Keys : denied[k] # Nil =>
        \E a \in Actions : \E u \in SUBSET classify(a) :
            denied[k] = [uncovered |-> u, intent |-> _suggest_intent(u, a)]

\* Every time stamp that an answer at a time from t on can still rest on is the
\* time of a consult among grants, one that stated the signal it stamps.
Warranted(rows, grants, t) ==
    \A k \in DOMAIN rows :
        /\ rows[k].explicit_at # Nil /\ rows[k].explicit_at + Ttl + MaxDelay >= t =>
            \E g \in grants : g.key = k /\ g.at = rows[k].explicit_at
        /\ \A s \in DOMAIN rows[k].explicit_signals :
            rows[k].explicit_signals[s] + Ttl + MaxDelay >= t =>
                \E g \in grants :
                    /\ g.key = k /\ g.at = rows[k].explicit_signals[s]
                    /\ g.intent # Nil /\ s \in coverage(g.intent)

Answers(c, s) == uncovered_signals({s}, {c}) = {}

\* A row holds for what is due: stamps no older than the consult it is due to.
RowCovers(r, o) ==
    /\ r.explicit_at # Nil /\ r.explicit_at >= o.at
    /\ \E c \in DOMAIN r.explicit_signals : r.explicit_signals[c] >= o.at /\ Answers(c, o.sig)

\* Every row still there covers what is due to its session, until it expires.
Covered(rows, dues, t) ==
    \A o \in dues : o.key \in DOMAIN rows /\ o.at + Ttl >= t => RowCovers(rows[o.key], o)

IInv ==
    /\ TypeOK
    /\ DenialsAnswered
    /\ Warranted(entries, granted, clock) /\ Warranted(disk, granted, clock)
    /\ Covered(entries, owed, clock) /\ Covered(disk, owed, clock)
    /\ \A o \in owed : o.key \in DOMAIN entries

----------------------------------------------------------------------------
(* The classifier.                                                           *)

\* A signal stays uncovered when none of what is covered answers it.
LEMMA Uncover ==
    ASSUME NEW signals, NEW covered, NEW s
    PROVE  s \in uncovered_signals(signals, covered)
                <=> s \in signals /\ \A c \in covered : ~Answers(c, s)
  BY DEF uncovered_signals, Answers

\* What a denial dictates covers every signal that the denial names.
LEMMA DictatedCovers ==
    ASSUME NEW a \in Actions, NEW u \in SUBSET classify(a)
    PROVE  u \subseteq coverage(_suggest_intent(u, a))
<1>1. SUFFICES ASSUME NEW s \in u PROVE s \in coverage(_suggest_intent(u, a))
  OBVIOUS
<1> DEFINE i == _suggest_intent(u, a)
           values(kind) == {x[2] : x \in {y \in u : y[1] = kind}}
<1>i. /\ i.words = values("keyword") /\ i.frags = values("command")
      /\ i.paths = IF values("path") # {} THEN {a.path} ELSE {}
  BY DEF _suggest_intent
<1>2. s \in classify(a)
  BY <1>1
<1>3. CASE s \in _command_signals(a.frags)
  <2>1. PICK f : s = <<"command", f>>
    BY <1>3 DEF _command_signals
  <2>2. s[1] = "command" /\ s[2] = f
    BY <2>1
  <2>3. f \in values("command")
    BY <1>1, <2>2
  <2>4. QED
    BY <1>i, <2>1, <2>3 DEF coverage, _command_signals
<1>4. CASE a.path = Nil /\ s \in _keyword_signals(a.words)
  <2>1. PICK w : s = <<"keyword", w>>
    BY <1>4 DEF _keyword_signals
  <2>2. s[1] = "keyword" /\ s[2] = w
    BY <2>1
  <2>3. w \in values("keyword")
    BY <1>1, <2>2
  <2>4. QED
    BY <1>i, <2>1, <2>3 DEF coverage, _keyword_signals
<1>5. CASE a.path # Nil /\ s \in _path_signal(a.path)
  <2>1. PICK g : s = <<"path", g>>
    BY <1>5 DEF _path_signal
  <2>2. s[1] = "path" /\ s[2] = g
    BY <2>1
  <2>3. g \in values("path")
    BY <1>1, <2>2
  <2>4. a.path \in i.paths
    BY <1>i, <2>3
  <2>5. QED
    BY <2>4, <1>5 DEF coverage
<1>6. QED
  BY <1>2, <1>3, <1>4, <1>5 DEF classify

----------------------------------------------------------------------------
(* The ledger's rows.                                                        *)

\* What is left of rows: some of the keys, each with its explicit consult and the
\* stamps of signals that have not expired at now.
Remains(new, rows, now) ==
    /\ DOMAIN new \subseteq DOMAIN rows
    /\ \A k \in DOMAIN new :
        /\ new[k].explicit_at = rows[k].explicit_at
        /\ DOMAIN new[k].explicit_signals =
              {s \in DOMAIN rows[k].explicit_signals : rows[k].explicit_signals[s] + Ttl >= now}
        /\ \A s \in DOMAIN new[k].explicit_signals :
              new[k].explicit_signals[s] = rows[k].explicit_signals[s]

\* The cap drops rows and changes none.
LEMMA CapDrops ==
    ASSUME NEW rows, NEW new \in _enforce_cap(rows)
    PROVE  DOMAIN new \subseteq DOMAIN rows /\ \A k \in DOMAIN new : new[k] = rows[k]
  BY DEF _enforce_cap, Restrict

\* An eviction prunes expired stamps, and drops rows.
LEMMA EvictionLeaves ==
    ASSUME NEW rows, IsRows(rows), NEW now \in Nat, NEW new \in _evict(rows, now)
    PROVE  IsRows(new) /\ Remains(new, rows, now)
<1> DEFINE pruned(r) == [r EXCEPT !.explicit_signals =
                            Restrict(@, {s \in DOMAIN @ : @[s] + Ttl >= now})]
           recent == Restrict(rows, {k \in DOMAIN rows : rows[k].consulted_at + Ttl >= now})
           left == [k \in DOMAIN recent |-> pruned(recent[k])]
<1>1. new \in _enforce_cap(left)
  BY DEF _evict
<1>2. DOMAIN new \subseteq DOMAIN left /\ \A k \in DOMAIN new : new[k] = left[k]
  BY <1>1, CapDrops
<1>3. DOMAIN recent \subseteq DOMAIN rows /\ \A k \in DOMAIN recent : recent[k] = rows[k]
  BY DEF Restrict
<1>4. DOMAIN new \subseteq DOMAIN rows /\ \A k \in DOMAIN new : new[k] = pruned(rows[k])
  BY <1>2, <1>3
<1>5. ASSUME NEW r, IsRow(r)
      PROVE  /\ IsRow(pruned(r))
             /\ pruned(r).explicit_at = r.explicit_at
             /\ DOMAIN pruned(r).explicit_signals =
                    {s \in DOMAIN r.explicit_signals : r.explicit_signals[s] + Ttl >= now}
             /\ \A s \in DOMAIN pruned(r).explicit_signals :
                    pruned(r).explicit_signals[s] = r.explicit_signals[s]
  <2> DEFINE old == r.explicit_signals
             kept == {s \in DOMAIN old : old[s] + Ttl >= now}
  <2>1. pruned(r).explicit_signals = Restrict(old, kept)
    BY <1>5 DEF IsRow
  <2>2. /\ DOMAIN pruned(r) = {"consulted_at", "explicit_at", "explicit_signals"}
        /\ pruned(r).consulted_at = r.consulted_at /\ pruned(r).explicit_at = r.explicit_at
    BY <1>5 DEF IsRow
  <2>3. DOMAIN Restrict(old, kept) = kept /\ \A s \in kept : Restrict(old, kept)[s] = old[s]
    BY DEF Restrict
  <2>4. \A s \in kept : old[s] \in Nat
    BY <1>5 DEF IsRow
  <2> HIDE DEF pruned, kept
  <2>5. IsRow(pruned(r))
    BY <1>5, <2>1, <2>2, <2>3, <2>4 DEF IsRow
  <2>6. DOMAIN pruned(r).explicit_signals = kept
    BY <2>1, <2>3
  <2>7. \A s \in kept : pruned(r).explicit_signals[s] = old[s]
    BY <2>1, <2>3
  <2>8. QED
    BY <2>2, <2>5, <2>6, <2>7 DEF kept
<1> HIDE DEF pruned
<1>6. ASSUME NEW k \in DOMAIN new
      PROVE  k \in Keys /\ IsRow(rows[k]) /\ new[k] = pruned(rows[k])
  BY <1>4, <1>6 DEF IsRows
<1>7. IsRows(new)
  BY <1>5, <1>6 DEF IsRows
<1>8. Remains(new, rows, now)
  BY <1>4, <1>5, <1>6 DEF Remains
<1>9. QED
  BY <1>7, <1>8

\* The rows that remain are warranted as those before were.
LEMMA RemainsWarranted ==
    ASSUME NEW rows, NEW new, NEW now, Remains(new, rows, now),
           NEW grants, NEW t, Warranted(rows, grants, t)
    PROVE  Warranted(new, grants, t)
<1>1. SUFFICES ASSUME NEW k \in DOMAIN new
               PROVE  /\ new[k].explicit_at # Nil /\ new[k].explicit_at + Ttl + MaxDelay >= t =>
                          \E g \in grants : g.key = k /\ g.at = new[k].explicit_at
                      /\ \A s \in DOMAIN new[k].explicit_signals :
                          new[k].explicit_signals[s] + Ttl + MaxDelay >= t =>
                              \E g \in grants :
                                  /\ g.key = k /\ g.at = new[k].explicit_signals[s]
                                  /\ g.intent # Nil /\ s \in coverage(g.intent)
  BY DEF Warranted
<1>2. k \in DOMAIN rows /\ new[k].explicit_at = rows[k].explicit_at
  BY <1>1 DEF Remains
<1>3. \A s \in DOMAIN new[k].explicit_signals :
        s \in DOMAIN rows[k].explicit_signals /\ new[k].explicit_signals[s] = rows[k].explicit_signals[s]
  BY <1>1 DEF Remains
<1>4. QED
  BY <1>2, <1>3 DEF Warranted

\* They cover what is due as those before did: what has not expired is not pruned.
LEMMA RemainsCovered ==
    ASSUME NEW rows, IsRows(rows), NEW new, NEW now \in Nat, Remains(new, rows, now),
           NEW dues, \A o \in dues : o.at \in Nat,
           NEW t \in Nat, now <= t, Covered(rows, dues, t)
    PROVE  Covered(new, dues, t)
<1>1. SUFFICES ASSUME NEW o \in dues, o.key \in DOMAIN new, o.at + Ttl >= t
               PROVE  RowCovers(new[o.key], o)
  BY DEF Covered
<1> DEFINE old == rows[o.key].explicit_signals
<1>2. /\ o.key \in DOMAIN rows /\ new[o.key].explicit_at = rows[o.key].explicit_at
      /\ DOMAIN new[o.key].explicit_signals = {s \in DOMAIN old : old[s] + Ttl >= now}
      /\ \A s \in DOMAIN new[o.key].explicit_signals : new[o.key].explicit_signals[s] = old[s]
  BY <1>1 DEF Remains
<1>3. RowCovers(rows[o.key], o)
  BY <1>1, <1>2 DEF Covered
<1>4. PICK c \in DOMAIN old : old[c] >= o.at /\ Answers(c, o.sig)
  BY <1>3 DEF RowCovers
<1>5. old[c] \in Nat /\ o.at \in Nat /\ Ttl \in Nat
  BY <1>1, <1>2, <1>4, EnforcementAssumption DEF IsRows, IsRow
<1>6. old[c] + Ttl >= now
  BY <1>1, <1>4, <1>5
<1>7. c \in DOMAIN new[o.key].explicit_signals /\ new[o.key].explicit_signals[c] >= o.at
  BY <1>2, <1>4, <1>6
<1>8. QED
  BY <1>2, <1>3, <1>4, <1>7 DEF RowCovers

----------------------------------------------------------------------------
(* What a consult writes.                                                    *)

Prior(key) == IF key \in DOMAIN entries THEN entries[key] ELSE NoRow

WrittenRows(key, trigger, signals, now) ==
    [k \in DOMAIN entries \cup {key} |->
        IF k = key THEN Recorded(key, trigger, signals, now) ELSE entries[k]]

LEMMA PriorIsRow ==
    ASSUME IsRows(entries), NEW key PROVE IsRow(Prior(key))
<1>1. IsRow(NoRow)
  BY EnforcementAssumption DEF IsRow, NoRow
<1>2. QED
  BY <1>1 DEF IsRows, Prior

\* The row of an explicit consult: the signals it states, and those stated before.
LEMMA ExplicitRow ==
    ASSUME IsRows(entries), NEW key, NEW signals, NEW now \in Nat
    PROVE  LET r == Recorded(key, "explicit", signals, now)
               old == Prior(key).explicit_signals
           IN  /\ IsRow(r) /\ r.explicit_at = now
               /\ DOMAIN r.explicit_signals = signals \cup DOMAIN old
               /\ \A s \in signals : r.explicit_signals[s] = now
               /\ \A s \in DOMAIN old \ signals : r.explicit_signals[s] = old[s]
<1> DEFINE r == Recorded(key, "explicit", signals, now)
           old == Prior(key).explicit_signals
           stamps == [s \in signals \cup DOMAIN old |-> IF s \in signals THEN now ELSE old[s]]
<1>1. IsRow(Prior(key))
  BY PriorIsRow
<1>2. \A s \in DOMAIN old : old[s] \in Nat
  BY <1>1 DEF IsRow
<1>3. r = [consulted_at |-> now, explicit_at |-> now, explicit_signals |-> stamps]
  BY DEF Recorded, Prior
<1>4. /\ DOMAIN r = {"consulted_at", "explicit_at", "explicit_signals"}
      /\ r.consulted_at = now /\ r.explicit_at = now /\ r.explicit_signals = stamps
  BY <1>3
<1>5. /\ DOMAIN stamps = signals \cup DOMAIN old
      /\ \A s \in signals : stamps[s] = now
      /\ \A s \in DOMAIN old \ signals : stamps[s] = old[s]
  OBVIOUS
<1> HIDE DEF r, stamps
<1>6. \A s \in DOMAIN stamps : stamps[s] \in Nat
  BY <1>2, <1>5
<1>7. IsRow(r)
  BY <1>4, <1>6 DEF IsRow
<1>8. QED
  BY <1>4, <1>5, <1>7 DEF r

\* The row of a hook's: what explicit ones left, and a new consulted_at.
LEMMA HookRow ==
    ASSUME IsRows(entries), NEW key, NEW signals, NEW now \in Nat
    PROVE  LET r == Recorded(key, "prompt_hook", signals, now)
           IN  /\ IsRow(r) /\ r.explicit_at = Prior(key).explicit_at
               /\ r.explicit_signals = Prior(key).explicit_signals
<1> DEFINE r == Recorded(key, "prompt_hook", signals, now)
<1>1. IsRow(Prior(key))
  BY PriorIsRow
<1>2. r = [Prior(key) EXCEPT !.consulted_at = now]
  BY DEF Recorded, Prior
<1>3. /\ DOMAIN r = DOMAIN Prior(key) /\ r.consulted_at = now
      /\ r.explicit_at = Prior(key).explicit_at
      /\ r.explicit_signals = Prior(key).explicit_signals
  BY <1>1, <1>2 DEF IsRow
<1> HIDE DEF r
<1>4. QED
  BY <1>1, <1>3 DEF IsRow, r

LEMMA WrittenIsRows ==
    ASSUME IsRows(entries), NEW key \in Keys, NEW signals, NEW now \in Nat,
           NEW trigger \in {"explicit", "prompt_hook"}
    PROVE  IsRows(WrittenRows(key, trigger, signals, now))
<1>1. IsRow(Recorded(key, trigger, signals, now))
  BY ExplicitRow, HookRow
<1>2. QED
  BY <1>1 DEF IsRows, WrittenRows

\* What a row that was not there has of explicit consults: nothing.
LEMMA NoRowEmpty == NoRow.explicit_at = Nil /\ DOMAIN NoRow.explicit_signals = {}
  BY DEF NoRow

\* The written rows are warranted, by the new consult or by those before it.
LEMMA WrittenWarranted ==
    ASSUME IsRows(entries), NEW key \in Keys, NEW intent, intent # Nil, NEW now \in Nat,
           NEW trigger \in {"explicit", "prompt_hook"},
           NEW grants, NEW t, Warranted(entries, grants, t),
           NEW more, grants \subseteq more,
           trigger = "explicit" => [key |-> key, intent |-> intent, at |-> now] \in more
    PROVE  Warranted(WrittenRows(key, trigger, coverage(intent), now), more, t)
<1> DEFINE rows == WrittenRows(key, trigger, coverage(intent), now)
           Ok(r, k) ==
             /\ r.explicit_at # Nil /\ r.explicit_at + Ttl + MaxDelay >= t =>
                  \E g \in more : g.key = k /\ g.at = r.explicit_at
             /\ \A s \in DOMAIN r.explicit_signals :
                  r.explicit_signals[s] + Ttl + MaxDelay >= t =>
                    \E g \in more :
                      /\ g.key = k /\ g.at = r.explicit_signals[s]
                      /\ g.intent # Nil /\ s \in coverage(g.intent)
<1>1. \A k \in DOMAIN entries : Ok(entries[k], k)
  BY DEF Warranted
<1>2. Ok(Prior(key), key)
  BY <1>1, NoRowEmpty DEF Prior
<1> DEFINE r == Recorded(key, trigger, coverage(intent), now)
<1>3. Ok(r, key)
  <2>1. CASE trigger = "explicit"
    <3> DEFINE new == [key |-> key, intent |-> intent, at |-> now]
               old == Prior(key).explicit_signals
    <3>1. new \in more /\ new.key = key /\ new.intent = intent /\ new.at = now
      BY <2>1
    <3>2. /\ r.explicit_at = now
          /\ DOMAIN r.explicit_signals = coverage(intent) \cup DOMAIN old
          /\ \A s \in coverage(intent) : r.explicit_signals[s] = now
          /\ \A s \in DOMAIN old \ coverage(intent) : r.explicit_signals[s] = old[s]
      BY <2>1, ExplicitRow
    <3> HIDE DEF r, new
    <3>3. QED
      BY <1>2, <3>1, <3>2
  <2>2. CASE trigger = "prompt_hook"
    <3>1. r.explicit_at = Prior(key).explicit_at /\ r.explicit_signals = Prior(key).explicit_signals
      BY <2>2, HookRow
    <3> HIDE DEF r
    <3>2. QED
      BY <1>2, <3>1
  <2>3. QED
    BY <2>1, <2>2
<1>4. \A k \in DOMAIN rows : Ok(rows[k], k)
  <2> HIDE DEF Ok
  <2> QED
    BY <1>1, <1>3 DEF WrittenRows
<1>5. QED
  BY <1>4 DEF Warranted

\* What was due is covered still, from a time no later than the new consult's.
LEMMA WrittenCovered ==
    ASSUME IsRows(entries), NEW key \in Keys, NEW signals, NEW now \in Nat,
           NEW trigger \in {"explicit", "prompt_hook"},
           NEW o, o.key \in DOMAIN entries, o.at \in Nat, RowCovers(entries[o.key], o),
           NEW p, p.key = o.key, p.sig = o.sig, p.at \in Nat, p.at <= o.at,
           p.key = key => p.at <= now
    PROVE  RowCovers(WrittenRows(key, trigger, signals, now)[p.key], p)
<1> DEFINE was == entries[o.key]
           r == Recorded(key, trigger, signals, now)
<1>1. IsRow(was)
  BY DEF IsRows
<1>2. PICK c \in DOMAIN was.explicit_signals : was.explicit_signals[c] >= o.at /\ Answers(c, o.sig)
  BY DEF RowCovers
<1>3. was.explicit_at \in Nat /\ was.explicit_at >= o.at /\ was.explicit_signals[c] \in Nat
  BY <1>1 DEF RowCovers, IsRow
<1>4. was.explicit_at >= p.at /\ was.explicit_signals[c] >= p.at /\ Answers(c, p.sig)
  BY <1>2, <1>3
<1>5. CASE p.key # key
  <2>1. WrittenRows(key, trigger, signals, now)[p.key] = was
    BY <1>5 DEF WrittenRows
  <2>2. QED
    BY <1>3, <1>4, <2>1, EnforcementAssumption DEF RowCovers
<1>6. CASE p.key = key /\ trigger = "explicit"
  <2>1. Prior(key) = was /\ WrittenRows(key, trigger, signals, now)[p.key] = r
    BY <1>6 DEF Prior, WrittenRows
  <2>2. /\ r.explicit_at = now
        /\ DOMAIN r.explicit_signals = signals \cup DOMAIN was.explicit_signals
        /\ \A s \in signals : r.explicit_signals[s] = now
        /\ \A s \in DOMAIN was.explicit_signals \ signals :
              r.explicit_signals[s] = was.explicit_signals[s]
    BY <1>6, <2>1, ExplicitRow
  <2> HIDE DEF r, was
  <2>3. now # Nil /\ now >= p.at
    BY <1>6, EnforcementAssumption
  <2>4. c \in DOMAIN r.explicit_signals /\ r.explicit_signals[c] >= p.at
    BY <1>4, <2>2, <2>3
  <2>5. QED
    BY <1>4, <2>1, <2>2, <2>3, <2>4 DEF RowCovers
<1>7. CASE p.key = key /\ trigger = "prompt_hook"
  <2>1. Prior(key) = was /\ WrittenRows(key, trigger, signals, now)[p.key] = r
    BY <1>7 DEF Prior, WrittenRows
  <2>2. r.explicit_at = was.explicit_at /\ r.explicit_signals = was.explicit_signals
    BY <1>7, <2>1, HookRow
  <2> HIDE DEF r, was
  <2>3. was.explicit_at # Nil
    BY <1>3, EnforcementAssumption
  <2>4. QED
    BY <1>4, <2>1, <2>2, <2>3 DEF RowCovers
<1>8. QED
  BY <1>5, <1>6, <1>7

----------------------------------------------------------------------------
(* The steps.                                                                *)

LEMMA MinTwo ==
    ASSUME NEW a \in Nat, NEW b \in Nat
    PROVE  Min({a, b}) \in Nat /\ Min({a, b}) <= a /\ Min({a, b}) <= b
<1>1. \E x \in {a, b} : \A y \in {a, b} : x <= y
  OBVIOUS
<1>2. Min({a, b}) \in {a, b} /\ \A y \in {a, b} : Min({a, b}) <= y
  BY <1>1 DEF Min
<1>3. QED
  BY <1>2

\* A session states an intent, and answers for what it was told to state.
LEMMA Stated ==
    ASSUME DenialsAnswered, NEW key \in Keys, NEW intended \in Intents(key)
    PROVE  /\ intended.intent # Nil
           /\ \A s \in AnsweredBy(intended.intent) \cup intended.told :
                \E c \in coverage(intended.intent) : Answers(c, s)
<1>a. \A s \in AnsweredBy(intended.intent) : \E c \in coverage(intended.intent) : Answers(c, s)
  <2>1. SUFFICES ASSUME NEW s \in AnsweredBy(intended.intent)
                 PROVE  \E c \in coverage(intended.intent) : Answers(c, s)
    OBVIOUS
  <2>2. s \notin uncovered_signals({s}, coverage(intended.intent))
    BY <2>1 DEF AnsweredBy
  <2>3. QED
    BY <2>2, Uncover
<1>1. CASE \E p \in Prompts : intended = [intent |-> p, told |-> {}]
  <2>1. intended.intent \in Prompts /\ intended.told = {}
    BY <1>1
  <2>2. QED
    BY <1>a, <2>1, EnforcementAssumption
<1>2. CASE denied[key] # Nil /\ intended = [intent |-> denied[key].intent, told |-> denied[key].uncovered]
  <2>1. PICK a \in Actions : \E u \in SUBSET classify(a) :
            denied[key] = [uncovered |-> u, intent |-> _suggest_intent(u, a)]
    BY <1>2 DEF DenialsAnswered
  <2>2. PICK u \in SUBSET classify(a) :
            denied[key] = [uncovered |-> u, intent |-> _suggest_intent(u, a)]
    BY <2>1
  <2>3. intended.intent = _suggest_intent(u, a) /\ intended.told = u
    BY <1>2, <2>2
  <2>4. intended.intent # Nil
    BY <2>3, IntentAssumption
  <2>5. u \subseteq coverage(intended.intent)
    BY <2>3, DictatedCovers
  <2>6. \A s \in u : Answers(s, s)
    BY DEF Answers, uncovered_signals
  <2>7. QED
    BY <1>a, <2>3, <2>4, <2>5, <2>6
<1>3. QED
  BY <1>1, <1>2 DEF Intents

LEMMA ConsultFine ==
    ASSUME IInv, NEW key \in Keys, NEW trigger \in {"explicit", "prompt_hook"},
           NEW intended \in Intents(key), NEW now \in CalledAt, NEW saved \in BOOLEAN,
           ConsultRecord(key, trigger, intended, now, saved)
    PROVE  IInv'
<1> DEFINE rows == WrittenRows(key, trigger, coverage(intended.intent), now)
           new == [key |-> key, intent |-> intended.intent, at |-> now]
           fresh == {[key |-> key, sig |-> s, at |-> now] :
                        s \in AnsweredBy(intended.intent) \cup intended.told}
<1>1. /\ IsRows(entries) /\ IsRows(disk) /\ clock \in Nat /\ started \in Nat
      /\ \A o \in owed : o.at \in Nat /\ o.key \in Keys /\ DOMAIN o = {"key", "sig", "at"}
      /\ \A o \in owed : o.key \in DOMAIN entries
      /\ \A g \in granted : g.at \in Nat
      /\ Covered(entries, owed, clock) /\ Covered(disk, owed, clock)
      /\ Warranted(entries, granted, clock) /\ Warranted(disk, granted, clock)
  BY DEF IInv, TypeOK
<1>2. now \in Nat /\ now <= clock
  BY <1>1 DEF CalledAt
<1>3. /\ entries' \in _evict(rows, now)
      /\ disk' = IF saved THEN entries' ELSE disk
      /\ granted' = IF trigger = "explicit" THEN granted \cup {new} ELSE granted
      /\ owed' = StillOwed(key, now) \cup
            (IF saved /\ trigger = "explicit" /\ key \in DOMAIN entries' THEN fresh ELSE {})
      /\ UNCHANGED <<clearance, clock, started, denied>>
  BY DEF ConsultRecord, record, WrittenRows
<1>4. IsRows(rows)
  BY <1>1, <1>2, WrittenIsRows
<1>5. IsRows(entries') /\ Remains(entries', rows, now)
  BY <1>2, <1>3, <1>4, EvictionLeaves
<1>6. /\ intended.intent # Nil
      /\ \A s \in AnsweredBy(intended.intent) \cup intended.told :
            \E c \in coverage(intended.intent) : Answers(c, s)
  BY Stated DEF IInv
<1>7. granted \subseteq granted' /\ (trigger = "explicit" => new \in granted')
  BY <1>3
<1>8. Warranted(rows, granted', clock)
  BY <1>1, <1>2, <1>6, <1>7, WrittenWarranted
<1>9. Warranted(entries', granted', clock)
  BY <1>2, <1>5, <1>8, RemainsWarranted
<1>10. Warranted(disk, granted', clock)
  BY <1>1, <1>7 DEF Warranted
<1>11. ASSUME NEW p \in StillOwed(key, now)
       PROVE  \E o \in owed :
                /\ p.key = o.key /\ p.sig = o.sig /\ p.at \in Nat /\ p.at <= o.at
                /\ p.key = key => p.at <= now
                /\ o.key \in DOMAIN entries' /\ DOMAIN p = {"key", "sig", "at"}
  <2>1. PICK o \in {x \in owed : x.key \in DOMAIN entries'} :
            p = IF o.key = key THEN [o EXCEPT !.at = Min({@, now})] ELSE o
    BY <1>11 DEF StillOwed
  <2>2. o \in owed /\ o.key \in DOMAIN entries' /\ o.at \in Nat /\ DOMAIN o = {"key", "sig", "at"}
    BY <1>1, <2>1
  <2>3. CASE o.key = key
    <3>1. p = [o EXCEPT !.at = Min({o.at, now})]
      BY <2>1, <2>3
    <3>2. p.key = o.key /\ p.sig = o.sig /\ p.at = Min({o.at, now}) /\ DOMAIN p = DOMAIN o
      BY <2>2, <3>1
    <3>3. p.at \in Nat /\ p.at <= o.at /\ p.at <= now
      BY <1>2, <2>2, <3>2, MinTwo
    <3>4. QED
      BY <2>2, <3>2, <3>3
  <2>4. CASE o.key # key
    BY <2>1, <2>2, <2>4
  <2>5. QED
    BY <2>3, <2>4
<1>12. ASSUME NEW p \in fresh, trigger = "explicit"
       PROVE  /\ p.key = key /\ p.at = now /\ DOMAIN p = {"key", "sig", "at"}
              /\ RowCovers(rows[p.key], p)
  <2>1. PICK s \in AnsweredBy(intended.intent) \cup intended.told : p = [key |-> key, sig |-> s, at |-> now]
    BY <1>12
  <2>2. p.key = key /\ p.sig = s /\ p.at = now /\ DOMAIN p = {"key", "sig", "at"}
    BY <2>1
  <2>3. PICK c \in coverage(intended.intent) : Answers(c, s)
    BY <1>6, <2>1
  <2> DEFINE r == Recorded(key, "explicit", coverage(intended.intent), now)
  <2>4. /\ r.explicit_at = now /\ r.explicit_signals[c] = now
        /\ c \in DOMAIN r.explicit_signals
    BY <1>1, <1>2, <2>3, ExplicitRow
  <2>5. rows[p.key] = r
    BY <1>12, <2>2 DEF WrittenRows
  <2> HIDE DEF r, rows
  <2>6. now # Nil /\ now >= now
    BY <1>2, EnforcementAssumption
  <2>7. QED
    BY <2>2, <2>3, <2>4, <2>5, <2>6 DEF RowCovers
<1>13. Covered(rows, owed', clock)
  <2>1. SUFFICES ASSUME NEW p \in owed', p.key \in DOMAIN rows, p.at + Ttl >= clock
                 PROVE  RowCovers(rows[p.key], p)
    BY DEF Covered
  <2>2. CASE p \in StillOwed(key, now)
    <3>1. PICK o \in owed :
            /\ p.key = o.key /\ p.sig = o.sig /\ p.at \in Nat /\ p.at <= o.at
            /\ p.key = key => p.at <= now
      BY <1>11, <2>2
    <3>2. o.key \in DOMAIN entries /\ o.at \in Nat
      BY <1>1
    <3>3. o.at + Ttl >= clock
      BY <1>1, <2>1, <3>1, <3>2, EnforcementAssumption
    <3>4. RowCovers(entries[o.key], o)
      BY <1>1, <3>2, <3>3 DEF Covered
    <3>5. QED
      BY <1>1, <1>2, <3>1, <3>2, <3>4, WrittenCovered
  <2>3. CASE p \notin StillOwed(key, now)
    BY <1>3, <1>12, <2>1, <2>3
  <2>4. QED
    BY <2>2, <2>3
<1>14. \A o \in owed' : /\ o.at \in Nat /\ o.key \in Keys /\ DOMAIN o = {"key", "sig", "at"}
                        /\ o.key \in DOMAIN entries'
  <2>1. SUFFICES ASSUME NEW o \in owed'
                 PROVE  /\ o.at \in Nat /\ o.key \in Keys /\ DOMAIN o = {"key", "sig", "at"}
                        /\ o.key \in DOMAIN entries'
    OBVIOUS
  <2>2. CASE o \in StillOwed(key, now)
    BY <1>1, <1>11, <2>2
  <2>3. CASE o \notin StillOwed(key, now)
    BY <1>2, <1>3, <1>12, <2>1, <2>3
  <2>4. QED
    BY <2>2, <2>3
<1>15. Covered(entries', owed', clock)
  BY <1>1, <1>2, <1>4, <1>5, <1>13, <1>14, RemainsCovered
<1>16. ASSUME ~saved PROVE Covered(disk, owed', clock)
  <2>1. SUFFICES ASSUME NEW p \in owed', p.key \in DOMAIN disk, p.at + Ttl >= clock
                 PROVE  RowCovers(disk[p.key], p)
    BY DEF Covered
  <2>2. p \in StillOwed(key, now)
    BY <1>3, <1>16, <2>1
  <2>3. PICK o \in owed : p.key = o.key /\ p.sig = o.sig /\ p.at \in Nat /\ p.at <= o.at
    BY <1>11, <2>2
  <2>4. o.at \in Nat /\ o.at + Ttl >= clock
    BY <1>1, <2>1, <2>3, EnforcementAssumption
  <2> DEFINE r == disk[o.key]
  <2>5. RowCovers(r, o) /\ IsRow(r)
    BY <1>1, <2>1, <2>3, <2>4 DEF Covered, IsRows
  <2>6. PICK c \in DOMAIN r.explicit_signals : r.explicit_signals[c] >= o.at /\ Answers(c, o.sig)
    BY <2>5 DEF RowCovers
  <2>7. /\ r.explicit_at \in Nat /\ r.explicit_signals[c] \in Nat
        /\ r.explicit_at # Nil /\ r.explicit_at >= o.at
    BY <2>5, <2>6 DEF RowCovers, IsRow
  <2> HIDE DEF r
  <2>8. RowCovers(r, p)
    BY <2>3, <2>4, <2>6, <2>7 DEF RowCovers
  <2>9. QED
    BY <2>3, <2>8 DEF r
<1>17. /\ IsRows(disk') /\ Warranted(disk', granted', clock) /\ Covered(disk', owed', clock)
  BY <1>1, <1>3, <1>5, <1>9, <1>10, <1>15, <1>16
<1>18. \A g \in granted' : g.at \in Nat
  BY <1>1, <1>2, <1>3
<1> HIDE DEF rows, new, fresh
<1>19. TypeOK'
  BY <1>3, <1>5, <1>14, <1>17, <1>18 DEF IInv, TypeOK, IsRows
<1>20. DenialsAnswered'
  BY <1>3 DEF IInv, DenialsAnswered
<1>21. QED
  BY <1>3, <1>9, <1>14, <1>15, <1>17, <1>19, <1>20 DEF IInv, Warranted, Covered

LEMMA TickFine == ASSUME IInv, Tick PROVE IInv'
<1>1. /\ clock \in Nat /\ clock' = clock + 1 /\ Ttl \in Nat /\ MaxDelay \in Nat
      /\ IsRows(entries) /\ IsRows(disk)
      /\ \A o \in owed : o.at \in Nat
      /\ \A g \in granted : g.at \in Nat
      /\ Covered(entries, owed, clock) /\ Covered(disk, owed, clock)
      /\ Warranted(entries, granted, clock) /\ Warranted(disk, granted, clock)
      /\ granted' = {g \in granted : g.at + Ttl + MaxDelay > clock}
      /\ owed' = {o \in owed : o.at + Ttl > clock}
      /\ UNCHANGED <<entries, disk, clearance, started, denied>>
  BY EnforcementAssumption DEF IInv, TypeOK, Tick, ledger
<1>2. ASSUME NEW rows, IsRows(rows), Covered(rows, owed, clock)
      PROVE  Covered(rows, owed', clock')
  BY <1>1, <1>2 DEF Covered
<1>3. ASSUME NEW rows, IsRows(rows), Warranted(rows, granted, clock)
      PROVE  Warranted(rows, granted', clock')
  <2>1. ASSUME NEW n \in Nat, n + Ttl + MaxDelay >= clock'
        PROVE  /\ n + Ttl + MaxDelay >= clock
               /\ \A g \in granted : g.at = n => g \in granted'
    BY <1>1, <2>1
  <2>2. SUFFICES ASSUME NEW k \in DOMAIN rows
                 PROVE  /\ rows[k].explicit_at # Nil /\ rows[k].explicit_at + Ttl + MaxDelay >= clock' =>
                            \E g \in granted' : g.key = k /\ g.at = rows[k].explicit_at
                        /\ \A s \in DOMAIN rows[k].explicit_signals :
                            rows[k].explicit_signals[s] + Ttl + MaxDelay >= clock' =>
                                \E g \in granted' :
                                    /\ g.key = k /\ g.at = rows[k].explicit_signals[s]
                                    /\ g.intent # Nil /\ s \in coverage(g.intent)
    BY DEF Warranted
  <2>3. IsRow(rows[k])
    BY <1>3 DEF IsRows
  <2>4. ASSUME rows[k].explicit_at # Nil, rows[k].explicit_at + Ttl + MaxDelay >= clock'
        PROVE  \E g \in granted' : g.key = k /\ g.at = rows[k].explicit_at
    <3>1. rows[k].explicit_at \in Nat
      BY <2>3, <2>4 DEF IsRow
    <3>2. QED
      BY <1>3, <2>1, <2>4, <3>1 DEF Warranted
  <2>5. ASSUME NEW s \in DOMAIN rows[k].explicit_signals,
               rows[k].explicit_signals[s] + Ttl + MaxDelay >= clock'
        PROVE  \E g \in granted' : /\ g.key = k /\ g.at = rows[k].explicit_signals[s]
                                   /\ g.intent # Nil /\ s \in coverage(g.intent)
    <3>1. rows[k].explicit_signals[s] \in Nat
      BY <2>3, <2>5 DEF IsRow
    <3>2. QED
      BY <1>3, <2>1, <2>5, <3>1 DEF Warranted
  <2>6. QED
    BY <2>4, <2>5
<1>4. /\ Covered(entries, owed', clock') /\ Covered(disk, owed', clock')
      /\ Warranted(entries, granted', clock') /\ Warranted(disk, granted', clock')
  BY <1>1, <1>2, <1>3
<1>5. TypeOK'
  BY <1>1 DEF IInv, TypeOK, IsRows
<1>6. QED
  BY <1>1, <1>4, <1>5 DEF IInv, DenialsAnswered, Covered, Warranted

LEMMA RestartFine == ASSUME IInv, Restart PROVE IInv'
<1>1. /\ IsRows(disk) /\ Covered(disk, owed, clock) /\ Warranted(disk, granted, clock)
      /\ clock \in Nat /\ started' = clock /\ clearance' \in {"intent", "pair"}
      /\ owed' = {o \in owed : o.key \in DOMAIN entries'}
      /\ UNCHANGED <<disk, clock, denied, granted>>
  BY EnforcementAssumption DEF IInv, TypeOK, Restart
<1>2. DOMAIN entries' \subseteq DOMAIN disk /\ \A k \in DOMAIN entries' : entries'[k] = disk[k]
  <2>1. CASE entries' \in _enforce_cap(disk)
    BY <2>1, CapDrops
  <2>2. CASE entries' = <<>>
    BY <2>2
  <2>3. QED
    BY <2>1, <2>2 DEF Restart
<1>3. /\ IsRows(entries') /\ Warranted(entries', granted, clock) /\ Covered(entries', owed', clock)
      /\ Covered(disk, owed', clock)
  BY <1>1, <1>2 DEF IsRows, Warranted, Covered
<1>4. TypeOK'
  BY <1>1, <1>3 DEF IInv, TypeOK, IsRows
<1>5. QED
  BY <1>1, <1>3, <1>4 DEF IInv, DenialsAnswered, Covered, Warranted

\* A denial names signals of the action it denies.
LEMMA UncoveredOfAction ==
    ASSUME NEW key, NEW action, NEW now
    PROVE  Uncovered(key, action, now) \subseteq classify(action)
  BY DEF Uncovered, uncovered_signals

LEMMA GateCheckFine ==
    ASSUME IInv, NEW key \in Keys, NEW action \in Actions, NEW now \in CalledAt,
           GateCheck(key, action, now)
    PROVE  IInv'
<1> DEFINE u == Uncovered(key, action, now)
<1>1. /\ denied' = [denied EXCEPT ![key] =
            IF u = {} THEN Nil ELSE [uncovered |-> u, intent |-> _suggest_intent(u, action)]]
      /\ UNCHANGED <<entries, disk, clearance, clock, started, granted, owed>>
  BY DEF GateCheck, ledger
<1>2. u \in SUBSET classify(action)
  BY UncoveredOfAction
<1> HIDE DEF u
<1>3. DenialsAnswered'
  <2>1. SUFFICES ASSUME NEW k \in Keys, denied'[k] # Nil
                 PROVE  \E a \in Actions : \E w \in SUBSET classify(a) :
                            denied'[k] = [uncovered |-> w, intent |-> _suggest_intent(w, a)]
    BY <1>1 DEF IInv, DenialsAnswered
  <2>2. CASE k = key
    BY <1>1, <1>2, <2>1, <2>2 DEF IInv, DenialsAnswered
  <2>3. CASE k # key
    BY <1>1, <2>1, <2>3 DEF IInv, DenialsAnswered
  <2>4. QED
    BY <2>2, <2>3
<1>4. QED
  BY <1>1, <1>3 DEF IInv, TypeOK, IsRows, Covered, Warranted

LEMMA InitIInv == Init => IInv
<1>1. SUFFICES ASSUME Init PROVE IInv
  OBVIOUS
<1>2. PICK old \in SUBSET Keys :
        /\ disk = [k \in old |-> LegacyRow]
        /\ granted = {[key |-> k, intent |-> Nil, at |-> 1] : k \in old}
  BY <1>1 DEF Init
<1>3. /\ entries \in _enforce_cap(disk) /\ clearance \in {"intent", "pair"}
      /\ clock = 1 /\ started = 1 /\ denied = [k \in Keys |-> Nil] /\ owed = {}
  BY <1>1, EnforcementAssumption DEF Init
<1>4. /\ IsRow(LegacyRow) /\ LegacyRow.explicit_at = 1 /\ DOMAIN LegacyRow.explicit_signals = {}
  BY DEF IsRow, LegacyRow
<1>5. IsRows(disk)
  BY <1>2, <1>4 DEF IsRows
<1>6. Warranted(disk, granted, clock)
  <2>1. ASSUME NEW k \in old PROVE \E g \in granted : g.key = k /\ g.at = 1
    <3>1. [key |-> k, intent |-> Nil, at |-> 1] \in granted
      BY <1>2, <2>1
    <3>2. QED
      BY <3>1
  <2>2. DOMAIN disk = old /\ \A k \in old : disk[k] = LegacyRow
    BY <1>2
  <2>3. QED
    BY <1>4, <2>1, <2>2 DEF Warranted
<1>7. DOMAIN entries \subseteq DOMAIN disk /\ \A k \in DOMAIN entries : entries[k] = disk[k]
  BY <1>3, CapDrops
<1>8. IsRows(entries) /\ Warranted(entries, granted, clock)
  BY <1>5, <1>6, <1>7 DEF IsRows, Warranted
<1>9. \A g \in granted : g.at \in Nat
  BY <1>2
<1>10. QED
  BY <1>3, <1>5, <1>6, <1>8, <1>9 DEF IInv, TypeOK, DenialsAnswered, Covered

LEMMA NextIInv == IInv /\ [Next]_vars => IInv'
<1>1. SUFFICES ASSUME IInv, [Next]_vars PROVE IInv'
  OBVIOUS
<1>2. CASE Tick
  BY <1>1, <1>2, TickFine
<1>3. CASE Restart
  BY <1>1, <1>3, RestartFine
<1>4. ASSUME NEW key \in Keys, NEW trigger \in {"explicit", "prompt_hook"}, Consult(key, trigger)
      PROVE  IInv'
  BY <1>1, <1>4, ConsultFine DEF Consult
<1>5. ASSUME NEW key \in Keys, NEW trigger \in {"explicit", "prompt_hook"},
             ConsultSaveFails(key, trigger)
      PROVE  IInv'
  BY <1>1, <1>5, ConsultFine DEF ConsultSaveFails
<1>6. ASSUME NEW key \in Keys, NEW action \in Actions, NEW now \in CalledAt,
             GateCheck(key, action, now)
      PROVE  IInv'
  BY <1>1, <1>6, GateCheckFine
<1>7. CASE UNCHANGED vars
  BY <1>1, <1>7 DEF vars, ledger, IInv, TypeOK, IsRows, DenialsAnswered, Covered, Warranted
<1>8. QED
  BY <1>1, <1>2, <1>3, <1>4, <1>5, <1>6, <1>7 DEF Next

LEMMA Invariance == Spec => []IInv
  BY InitIInv, NextIInv, PTL DEF Spec

----------------------------------------------------------------------------
(* What the invariant says of the gate's answers.                            *)

LEMMA Warrants == IInv => AllowWarranted
<1>1. SUFFICES ASSUME IInv, NEW key \in Keys, NEW action \in Actions, NEW now \in CalledAt,
                      Uncovered(key, action, now) = {}, NEW s \in classify(action)
               PROVE  \E g \in granted :
                        /\ g.key = key /\ now <= g.at + Ttl
                        /\ clearance = "intent" => g.intent # Nil /\ s \in AnsweredBy(g.intent)
  BY DEF AllowWarranted
<1>2. /\ now \in Nat /\ now + MaxDelay >= clock /\ clock \in Nat
      /\ Ttl \in Nat /\ MaxDelay \in Nat
      /\ IsRows(entries) /\ Warranted(entries, granted, clock)
      /\ clearance \in {"intent", "pair"}
  BY <1>1, EnforcementAssumption DEF IInv, TypeOK, CalledAt
<1>3. CASE clearance = "pair"
  <2>1. is_fresh(key, now)
    BY <1>1, <1>3 DEF Uncovered
  <2>2. /\ key \in DOMAIN entries /\ entries[key].explicit_at # Nil
        /\ now <= entries[key].explicit_at + Ttl
    BY <2>1 DEF is_fresh
  <2>3. entries[key].explicit_at \in Nat
    BY <1>2, <2>2 DEF IsRows, IsRow
  <2>4. entries[key].explicit_at + Ttl + MaxDelay >= clock
    BY <1>2, <2>2, <2>3
  <2>5. QED
    BY <1>2, <1>3, <2>2, <2>4 DEF Warranted
<1>4. CASE clearance = "intent"
  <2>1. s \notin uncovered_signals(classify(action), fresh_signals(key, now))
    BY <1>1, <1>4 DEF Uncovered
  <2>2. PICK c \in fresh_signals(key, now) : Answers(c, s)
    BY <1>1, <2>1, Uncover
  <2>3. /\ key \in DOMAIN entries /\ c \in DOMAIN entries[key].explicit_signals
        /\ now <= entries[key].explicit_signals[c] + Ttl
    BY <2>2 DEF fresh_signals
  <2>4. entries[key].explicit_signals[c] \in Nat
    BY <1>2, <2>3 DEF IsRows, IsRow
  <2>5. entries[key].explicit_signals[c] + Ttl + MaxDelay >= clock
    BY <1>2, <2>3, <2>4
  <2>6. PICK g \in granted : /\ g.key = key /\ g.at = entries[key].explicit_signals[c]
                             /\ g.intent # Nil /\ c \in coverage(g.intent)
    BY <1>2, <2>3, <2>5 DEF Warranted
  <2>7. s \notin uncovered_signals({s}, coverage(g.intent))
    BY <2>2, <2>6, Uncover
  <2>8. uncovered_signals({s}, coverage(g.intent)) = {}
    BY <2>7 DEF uncovered_signals
  <2>9. s \in AnsweredBy(g.intent)
    BY <1>1, <2>8 DEF AnsweredBy, Signals
  <2>10. QED
    BY <2>3, <2>6, <2>9
<1>5. QED
  BY <1>2, <1>3, <1>4

LEMMA Justifies == IInv => DenialJust
<1>1. SUFFICES ASSUME IInv, NEW o \in owed, NEW action \in Actions, NEW now \in CalledAt,
                      o.sig \in Uncovered(o.key, action, now), ~(o.at + Ttl < clock)
               PROVE  FALSE
  BY DEF DenialJust
<1>2. /\ now \in Nat /\ now <= clock /\ clock \in Nat /\ Ttl \in Nat /\ o.at \in Nat
      /\ o.key \in DOMAIN entries /\ IsRow(entries[o.key])
      /\ o.at + Ttl >= clock /\ Covered(entries, owed, clock)
      /\ clearance \in {"intent", "pair"}
  BY <1>1, EnforcementAssumption DEF IInv, TypeOK, IsRows, CalledAt
<1> DEFINE r == entries[o.key]
<1>3. RowCovers(r, o)
  BY <1>2 DEF Covered
<1>4. r.explicit_at \in Nat /\ r.explicit_at # Nil /\ r.explicit_at >= o.at
  BY <1>2, <1>3 DEF RowCovers, IsRow
<1>5. PICK c \in DOMAIN r.explicit_signals : r.explicit_signals[c] >= o.at /\ Answers(c, o.sig)
  BY <1>3 DEF RowCovers
<1>6. r.explicit_signals[c] \in Nat
  BY <1>2 DEF IsRow
<1>7. now <= r.explicit_at + Ttl /\ now <= r.explicit_signals[c] + Ttl
  BY <1>2, <1>4, <1>5, <1>6
<1>8. CASE clearance = "pair"
  <2>1. is_fresh(o.key, now)
    BY <1>2, <1>4, <1>7 DEF is_fresh
  <2>2. QED
    BY <1>1, <1>8, <2>1 DEF Uncovered
<1>9. CASE clearance = "intent"
  <2>1. c \in fresh_signals(o.key, now)
    BY <1>2, <1>7 DEF fresh_signals
  <2>2. o.sig \in uncovered_signals(classify(action), fresh_signals(o.key, now))
    BY <1>1, <1>9 DEF Uncovered
  <2>3. QED
    BY <1>5, <2>1, <2>2, Uncover
<1>10. QED
  BY <1>2, <1>8, <1>9

\* The gate lets a governed action through only on a consult that its session made
\* within the TTL and that states each of the action's signals (under "pair": on a
\* consult), for any TTL, cap, globs, families and number of sessions: what
\* kb_gate_check answers after record(), _evict, save failures and a restart.
THEOREM Allowed == Spec => []AllowWarranted
  BY Invariance, Warrants, PTL

\* No denial of kb_gate_check names a signal that an acknowledged consult of its
\* session covers and that has not expired, the one its last denial dictated too.
THEOREM Denied == Spec => []DenialJust
  BY Invariance, Justifies, PTL

----------------------------------------------------------------------------
(* AgentWiring, from here on. Numbers.                                       *)

LEMMA LeastOne ==
    ASSUME NEW T, T \subseteq Nat, T # {}
    PROVE  \E x \in T : \A y \in T : x <= y
<1> DEFINE R == {ss \in Nat \X Nat : ss[1] < ss[2]}
<1>1. IsWellFoundedOn(R, Nat)
  BY NatLessThanWellFounded DEF OpToRel
<1>2. PICK x \in T : \A y \in T : ~(<<y, x>> \in R)
  <2> HIDE DEF R
  <2>1. QED BY <1>1, WFMin
<1>3. ASSUME NEW y \in T PROVE x <= y
  <2>1. y \in Nat /\ x \in Nat /\ ~(<<y, x>> \in R)
    BY <1>2
  <2>2. <<y, x>> \in Nat \X Nat /\ <<y, x>>[1] = y /\ <<y, x>>[2] = x
    BY <2>1
  <2>3. ~(y < x)
    BY <2>1, <2>2
  <2>4. QED BY <2>1, <2>3
<1>4. QED BY <1>3

LEMMA SetInduction ==
    ASSUME NEW S, 0 \in S, \A n \in Nat : n \in S => n + 1 \in S
    PROVE  Nat \subseteq S
<1> DEFINE T == Nat \ S
<1>1. SUFFICES ASSUME T # {} PROVE FALSE
  OBVIOUS
<1>2. PICK x \in T : \A y \in T : x <= y
  <2>1. T \subseteq Nat
    OBVIOUS
  <2> HIDE DEF T
  <2>2. QED BY <1>1, <2>1, LeastOne
<1>3. x - 1 \in Nat /\ x - 1 < x /\ (x - 1) + 1 = x
  OBVIOUS
<1>4. x - 1 \notin T
  BY <1>2, <1>3
<1>5. QED BY <1>3, <1>4

LEMMA MinIsLeast ==
    ASSUME NEW S, S \subseteq Nat, S # {}
    PROVE  Min(S) \in S /\ \A y \in S : Min(S) <= y
BY LeastOne DEF Min

----------------------------------------------------------------------------
(* What is left of a content when some is taken out.                         *)

\* g is what Without takes out of the first n, for each n up to m.
Taking(c, gone, g, m) ==
    /\ DOMAIN g = 0..m
    /\ \A n \in 0..m :
        g[n] = IF n = 0 THEN <<>> ELSE IF c[n] \in gone THEN g[n - 1] ELSE Append(g[n - 1], c[n])

LEMMA TakingExists ==
    ASSUME NEW c, NEW gone, NEW k \in Nat
    PROVE  \E g : Taking(c, gone, g, k)
<1> DEFINE T == {m \in Nat : \E g : Taking(c, gone, g, m)}
<1>1. 0 \in T
  <2> DEFINE g == [n \in 0..0 |-> <<>>]
  <2>1. Taking(c, gone, g, 0)
    BY DEF Taking
  <2>2. QED BY <2>1
<1>2. ASSUME NEW m \in Nat, m \in T PROVE m + 1 \in T
  <2>1. PICK g : Taking(c, gone, g, m)
    BY <1>2
  <2> DEFINE z == IF c[m + 1] \in gone THEN g[m] ELSE Append(g[m], c[m + 1])
             h == [n \in 0..(m + 1) |-> IF n <= m THEN g[n] ELSE z]
  <2>2. DOMAIN h = 0..(m + 1) /\ (\A n \in 0..m : h[n] = g[n]) /\ h[m + 1] = z
    OBVIOUS
  <2> HIDE DEF h
  <2>3. ASSUME NEW n \in 0..(m + 1)
        PROVE  h[n] = IF n = 0 THEN <<>>
                      ELSE IF c[n] \in gone THEN h[n - 1] ELSE Append(h[n - 1], c[n])
    <3>1. CASE n = m + 1
      <4>1. n # 0 /\ n - 1 = m /\ m \in 0..m
        BY <3>1
      <4>2. h[n - 1] = g[m] /\ h[n] = z
        BY <2>2, <3>1, <4>1
      <4>3. QED BY <3>1, <4>1, <4>2
    <3>2. CASE n # m + 1
      <4>1. n \in 0..m /\ (n # 0 => n - 1 \in 0..m)
        BY <3>2
      <4>2. h[n] = g[n] /\ (n # 0 => h[n - 1] = g[n - 1])
        BY <2>2, <4>1
      <4>3. QED BY <2>1, <4>1, <4>2 DEF Taking
    <3>3. QED BY <3>1, <3>2
  <2>4. Taking(c, gone, h, m + 1)
    BY <2>2, <2>3 DEF Taking
  <2>5. QED BY <2>4
<1>3. k \in T
  <2> HIDE DEF T
  <2>1. QED BY <1>1, <1>2, SetInduction
<1>4. QED BY <1>3

\* r is what c has at the positions e, which go up and are all those up to m
\* where c has nothing of what goes.
Left(c, gone, r, e, m) ==
    /\ DOMAIN e = DOMAIN r
    /\ \A i \in DOMAIN r : e[i] \in 1..m /\ c[e[i]] \notin gone /\ r[i] = c[e[i]]
    /\ \A i, j \in DOMAIN r : i < j => e[i] < e[j]
    /\ \A n \in 1..m : c[n] \notin gone => \E i \in DOMAIN r : e[i] = n

LEMMA WithoutLeaves ==
    ASSUME NEW S, NEW c \in Seq(S), NEW gone
    PROVE  /\ Without(c, gone) \in Seq(S)
           /\ \E e : Left(c, gone, Without(c, gone), e, Len(c))
<1> DEFINE L == Len(c)
           g == CHOOSE f : f = [n \in 0..L |->
                    IF n = 0 THEN <<>>
                    ELSE IF c[n] \in gone THEN f[n - 1] ELSE Append(f[n - 1], c[n])]
           T == {n \in Nat : n <= L => g[n] \in Seq(S) /\ \E e : Left(c, gone, g[n], e, n)}
<1>1. L \in Nat /\ DOMAIN c = 1..L /\ \A n \in 1..L : c[n] \in S
  OBVIOUS
<1>2. Without(c, gone) = g[L]
  BY DEF Without
<1>3. Taking(c, gone, g, L)
  <2>1. PICK f : Taking(c, gone, f, L)
    BY <1>1, TakingExists
  <2>2. f = [n \in 0..L |-> f[n]]
    BY <2>1 DEF Taking
  <2>3. f = [n \in 0..L |->
                    IF n = 0 THEN <<>>
                    ELSE IF c[n] \in gone THEN f[n - 1] ELSE Append(f[n - 1], c[n])]
    BY <2>1, <2>2 DEF Taking
  <2>4. g = [n \in 0..L |->
                    IF n = 0 THEN <<>>
                    ELSE IF c[n] \in gone THEN g[n - 1] ELSE Append(g[n - 1], c[n])]
    BY <2>3
  <2> HIDE DEF g
  <2>5. DOMAIN g = 0..L /\ \A n \in 0..L : g[n] = IF n = 0 THEN <<>>
            ELSE IF c[n] \in gone THEN g[n - 1] ELSE Append(g[n - 1], c[n])
    BY <2>4
  <2>6. QED BY <2>5 DEF Taking
<1> HIDE DEF g, L
<1>4. 0 \in T
  <2>1. g[0] = <<>>
    BY <1>1, <1>3 DEF Taking
  <2>2. Left(c, gone, g[0], <<>>, 0)
    <3>1. DOMAIN g[0] = {} /\ DOMAIN <<>> = {} /\ 1..0 = {}
      BY <2>1
    <3>2. QED BY <3>1 DEF Left
  <2>3. g[0] \in Seq(S)
    BY <2>1
  <2>4. QED BY <2>2, <2>3
<1>5. ASSUME NEW n \in Nat, n \in T PROVE n + 1 \in T
  <2>1. SUFFICES ASSUME n + 1 <= L
                 PROVE  g[n + 1] \in Seq(S) /\ \E e : Left(c, gone, g[n + 1], e, n + 1)
    OBVIOUS
  <2>2. g[n] \in Seq(S) /\ \E e : Left(c, gone, g[n], e, n)
    BY <1>1, <1>5, <2>1
  <2>3. PICK e : Left(c, gone, g[n], e, n)
    BY <2>2
  <2>4. g[n + 1] = IF c[n + 1] \in gone THEN g[n] ELSE Append(g[n], c[n + 1])
    <3>1. n + 1 \in 0..L /\ n + 1 # 0 /\ (n + 1) - 1 = n
      BY <1>1, <2>1
    <3>2. QED BY <1>3, <3>1 DEF Taking
  <2>5. c[n + 1] \in S
    BY <1>1, <2>1
  <2> DEFINE r == g[n]
  <2>6. r \in Seq(S) /\ Len(r) \in Nat /\ DOMAIN r = 1..Len(r)
    BY <2>2
  <2>7. CASE c[n + 1] \in gone
    <3>1. Left(c, gone, r, e, n + 1)
      <4>1. \A m \in 1..(n + 1) : m \in 1..n \/ m = n + 1
        OBVIOUS
      <4>2. 1..n \subseteq 1..(n + 1)
        OBVIOUS
      <4>3. QED BY <2>3, <2>7, <4>1, <4>2 DEF Left
    <3>2. QED BY <2>2, <2>4, <2>7, <3>1
  <2>8. CASE c[n + 1] \notin gone
    <3> DEFINE s == Append(r, c[n + 1])
               k == Len(r) + 1
               d == [i \in 1..k |-> IF i = k THEN n + 1 ELSE e[i]]
    <3>1. s \in Seq(S) /\ DOMAIN s = 1..k /\ s[k] = c[n + 1] /\ \A i \in DOMAIN r : s[i] = r[i]
      BY <2>5, <2>6
    <3>2. k \in Nat /\ \A i \in 1..k : i # k => i \in DOMAIN r
      BY <2>6
    <3>3. DOMAIN d = 1..k /\ d[k] = n + 1 /\ \A i \in DOMAIN r : d[i] = e[i]
      BY <2>6
    <3> HIDE DEF s, k, d
    <3>4. ASSUME NEW i \in DOMAIN s
          PROVE  d[i] \in 1..(n + 1) /\ c[d[i]] \notin gone /\ s[i] = c[d[i]]
      <4>1. CASE i = k
        BY <2>8, <3>1, <3>3, <4>1
      <4>2. CASE i # k
        <5>1. i \in DOMAIN r
          BY <3>1, <3>2, <4>2
        <5>2. e[i] \in 1..n /\ c[e[i]] \notin gone /\ r[i] = c[e[i]]
          BY <2>3, <5>1 DEF Left
        <5>3. QED BY <3>1, <3>3, <5>1, <5>2
      <4>3. QED BY <4>1, <4>2
    <3>5. ASSUME NEW i \in DOMAIN s, NEW j \in DOMAIN s, i < j PROVE d[i] < d[j]
      <4>1. i \in DOMAIN r
        BY <3>1, <3>2, <3>5, <2>6 DEF k
      <4>2. e[i] \in 1..n
        BY <2>3, <4>1 DEF Left
      <4>3. CASE j = k
        BY <3>3, <4>1, <4>2, <4>3
      <4>4. CASE j # k
        <5>1. j \in DOMAIN r
          BY <3>1, <3>2, <4>4
        <5>2. e[i] < e[j]
          BY <2>3, <3>5, <4>1, <5>1 DEF Left
        <5>3. QED BY <3>3, <4>1, <5>1, <5>2
      <4>5. QED BY <4>3, <4>4
    <3>6. ASSUME NEW m \in 1..(n + 1), c[m] \notin gone PROVE \E i \in DOMAIN s : d[i] = m
      <4>1. CASE m = n + 1
        <5>1. k \in DOMAIN s
          BY <2>6, <3>1 DEF k
        <5>2. QED BY <3>3, <4>1, <5>1
      <4>2. CASE m # n + 1
        <5>1. m \in 1..n
          BY <4>2
        <5>2. PICK i \in DOMAIN r : e[i] = m
          BY <2>3, <3>6, <5>1 DEF Left
        <5>3. i \in DOMAIN s
          BY <2>6, <3>1, <5>2 DEF k
        <5>4. QED BY <3>3, <5>2, <5>3
      <4>3. QED BY <4>1, <4>2
    <3>7. Left(c, gone, s, d, n + 1)
      BY <3>1, <3>3, <3>4, <3>5, <3>6 DEF Left
    <3>8. g[n + 1] = s
      BY <2>4, <2>8 DEF s
    <3>9. QED BY <3>1, <3>7, <3>8
  <2>9. QED BY <2>7, <2>8
<1>6. L \in T
  <2> HIDE DEF T
  <2>1. QED BY <1>1, <1>4, <1>5, SetInduction
<1>7. QED BY <1>1, <1>2, <1>6 DEF L

----------------------------------------------------------------------------
(* What a file may hold, and what it is like.                                *)

Holds(f) ==
    IF f \in Settings THEN Pieces \cup Endpoints \cup {"inject", "pre-tool", "torn"}
    ELSE IF f \in Notes THEN Pieces \cup {"begin", "end"}
    ELSE IF f \in Plugins THEN Pieces \cup {"plugin"}
    ELSE Pieces \cup Endpoints

\* There is one of X at most.
Once(c, X) == \A i, j \in DOMAIN c : c[i] \in X /\ c[j] \in X => i = j

\* Every y is right behind an x.
Follows(c, y, x) == \A i \in DOMAIN c : c[i] = y => i > 1 /\ c[i - 1] = x

\* The first end closes a block, and there is none after it.
LastBlock(c) ==
    /\ Follows(c, "end", "begin")
    /\ \A i, j \in DOMAIN c : c[i] = "end" /\ i < j => c[j] \notin {"begin", "end"}

InOrder(c) ==
    /\ Once(c, {"inject"}) /\ Follows(c, "pre-tool", "inject")
    /\ Once(c, {"plugin"}) /\ Once(c, Endpoints)
    /\ LastBlock(c)

\* Every begin has its end right behind it.
Tidy(c) == \A i \in DOMAIN c : c[i] = "begin" => i + 1 \in DOMAIN c /\ c[i + 1] = "end"

\* What tells that the hooks are installed.
Mark(f) == IF f \in Notes THEN "end" ELSE IF f \in Plugins THEN "plugin" ELSE "inject"

\* A content has what s reports of it.
AsSaid(f, c, s) ==
    /\ s.hooks \in {"hard", "soft"} => Has(c, Mark(f))
    /\ s.hooks = "none" => ~Has(c, Mark(f))
    /\ s.hooks = "hard" /\ f \in Settings => Has(c, "pre-tool")
    /\ s.hooks = "soft" => ~Has(c, "pre-tool")
    /\ s.mcp \in Endpoints => Has(c, s.mcp)

Wired(f, c, s) == InOrder(c) /\ AsSaid(f, c, s)

----------------------------------------------------------------------------
(* Contents.                                                                 *)

LEMMA IsContent ==
    ASSUME NEW f \in Files, NEW c \in Seq(Holds(f))
    PROVE  c # None /\ Content(c) = c /\ \A x : Has(c, x) <=> \E i \in DOMAIN c : c[i] = x
<1>1. Holds(f) \subseteq Items
  BY DEF Holds, Items, Managed
<1>2. c \in Seq(Items)
  BY <1>1
<1>3. c # None
  BY <1>2, KindsAssumption
<1>4. QED BY <1>3 DEF Content, Has

LEMMA NoContent == Content(None) = <<>> /\ \A x : ~Has(None, x)
BY DEF Content, Has

LEMMA EmptyContent ==
    \A f \in Files : <<>> \in Seq(Holds(f)) /\ InOrder(<<>>) /\ Tidy(<<>>) /\ \A x : ~Has(<<>>, x)
<1>1. DOMAIN <<>> = {}
  OBVIOUS
<1>2. InOrder(<<>>) /\ Tidy(<<>>)
  BY <1>1 DEF InOrder, Once, Follows, LastBlock, Tidy
<1>3. \A x : ~Has(<<>>, x)
  BY <1>1 DEF Has, Content
<1>4. QED BY <1>2, <1>3

\* A file holds what its kind holds.
LEMMA HeldByKind ==
    ASSUME NEW f \in Files
    PROVE  /\ f \in Settings => Holds(f) = Pieces \cup Endpoints \cup {"inject", "pre-tool", "torn"}
           /\ f \in Notes => f \notin Settings /\ Holds(f) = Pieces \cup {"begin", "end"}
           /\ f \in Plugins => f \notin Settings \cup Notes /\ Holds(f) = Pieces \cup {"plugin"}
           /\ f \in CliFiles => f \notin Settings \cup Notes \cup Plugins
                                /\ Holds(f) = Pieces \cup Endpoints
           /\ f \in Settings \cup Notes \cup Plugins \cup CliFiles
           /\ Pieces \subseteq Holds(f)
BY KindsAssumption DEF Holds, Files

\* The words of each kind are none of the others'.
LEMMA Words ==
    /\ \A x \in Pieces : x \notin Endpoints /\ x \notin Managed /\ x # "torn"
    /\ \A x \in Endpoints : x \notin Managed /\ x # "torn" /\ x # "none" /\ x # None
BY KindsAssumption

\* What is left keeps its order.
LEMMA WithoutKeeps ==
    ASSUME NEW f \in Files, NEW c \in Seq(Holds(f)), NEW gone
    PROVE  LET w == Without(c, gone) IN
           /\ w \in Seq(Holds(f))
           /\ \A x : Has(w, x) <=> Has(c, x) /\ x \notin gone
           /\ \A X : Once(c, X) => Once(w, X)
           /\ \A x, y : x \notin gone /\ y \notin gone /\ Follows(c, y, x) => Follows(w, y, x)
<1> DEFINE w == Without(c, gone)
           L == Len(c)
<1>1. w \in Seq(Holds(f))
  BY WithoutLeaves
<1>2. PICK e : Left(c, gone, w, e, L)
  BY WithoutLeaves
<1>3. L \in Nat /\ DOMAIN c = 1..L /\ Len(w) \in Nat /\ DOMAIN w = 1..Len(w)
  BY <1>1
<1> HIDE DEF w, L
<1>4. \A i \in DOMAIN w : e[i] \in DOMAIN c /\ c[e[i]] \notin gone /\ w[i] = c[e[i]]
  BY <1>2, <1>3 DEF Left
<1>5. \A n \in DOMAIN c : c[n] \notin gone => \E i \in DOMAIN w : e[i] = n
  BY <1>2, <1>3 DEF Left
<1>6. \A i, j \in DOMAIN w : i < j => e[i] < e[j]
  BY <1>2 DEF Left
<1>7. ASSUME NEW x PROVE Has(w, x) <=> Has(c, x) /\ x \notin gone
  <2>1. Has(w, x) <=> \E i \in DOMAIN w : w[i] = x
    BY <1>1, IsContent
  <2>2. Has(c, x) <=> \E i \in DOMAIN c : c[i] = x
    BY IsContent
  <2>3. QED BY <1>4, <1>5, <2>1, <2>2
<1>8. ASSUME NEW X, Once(c, X) PROVE Once(w, X)
  <2>1. SUFFICES ASSUME NEW i \in DOMAIN w, NEW j \in DOMAIN w, w[i] \in X, w[j] \in X, i < j
                 PROVE  FALSE
    BY <1>3 DEF Once
  <2>2. e[i] = e[j]
    BY <1>4, <1>8, <2>1 DEF Once
  <2>3. e[i] < e[j] /\ e[i] \in 1..L
    BY <1>3, <1>4, <1>6, <2>1
  <2>4. QED BY <2>2, <2>3
<1>9. ASSUME NEW x, NEW y, x \notin gone, Follows(c, y, x), NEW i \in DOMAIN w, w[i] = y
      PROVE  i > 1 /\ w[i - 1] = x
  <2>1. e[i] \in 1..L /\ c[e[i]] = y
    BY <1>3, <1>4, <1>9
  <2>2. e[i] > 1 /\ c[e[i] - 1] = x
    BY <1>3, <1>9, <2>1 DEF Follows
  <2>3. PICK k \in DOMAIN w : e[k] = e[i] - 1
    BY <1>3, <1>5, <1>9, <2>1, <2>2
  <2>4. k < i
    <3>1. ~(i < k)
      BY <1>6, <2>1, <2>3
    <3>2. k # i
      BY <2>1, <2>3
    <3>3. QED BY <1>3, <3>1, <3>2
  <2>5. k = i - 1
    <3>1. CASE k < i - 1
      <4>1. i - 1 \in DOMAIN w
        BY <1>3, <2>4
      <4>2. e[k] < e[i - 1] /\ e[i - 1] < e[i]
        BY <1>3, <1>6, <3>1, <4>1
      <4>3. e[i - 1] \in 1..L
        BY <1>3, <1>4, <4>1
      <4>4. QED BY <2>1, <2>3, <4>2, <4>3
    <3>2. QED BY <1>3, <2>4, <3>1
  <2>6. QED BY <1>3, <1>4, <2>2, <2>3, <2>4, <2>5
<1>10. \A x, y : x \notin gone /\ y \notin gone /\ Follows(c, y, x) => Follows(w, y, x)
  BY <1>9 DEF Follows
<1>11. QED BY <1>1, <1>7, <1>8, <1>10 DEF w

\* What another entry behind the content changes.
LEMMA AppendKeeps ==
    ASSUME NEW f \in Files, NEW c \in Seq(Holds(f)), NEW x \in Holds(f)
    PROVE  LET a == Append(c, x) IN
           /\ a \in Seq(Holds(f))
           /\ \A y : Has(a, y) <=> Has(c, y) \/ y = x
           /\ \A X : Once(c, X) /\ (x \notin X \/ \A y \in X : ~Has(c, y)) => Once(a, X)
           /\ \A z, y : Follows(c, y, z) /\ (x = y => Len(c) > 0 /\ c[Len(c)] = z)
                            => Follows(a, y, z)
           /\ LastBlock(c) /\ x \notin {"begin", "end"} => LastBlock(a)
           /\ Tidy(c) /\ x # "begin" => Tidy(a)
<1> DEFINE a == Append(c, x)
           k == Len(c) + 1
<1>1. /\ a \in Seq(Holds(f)) /\ Len(c) \in Nat /\ k \in Nat /\ DOMAIN c = 1..Len(c) /\ DOMAIN a = 1..k
      /\ a[k] = x /\ k \in DOMAIN a /\ (\A i \in DOMAIN c : i \in DOMAIN a /\ a[i] = c[i])
      /\ \A i \in DOMAIN a : i = k \/ i \in DOMAIN c
  OBVIOUS
<1>2. \A y : Has(a, y) <=> \E i \in DOMAIN a : a[i] = y
  BY <1>1, IsContent
<1>3. \A y : Has(c, y) <=> \E i \in DOMAIN c : c[i] = y
  BY IsContent
<1>4. k - 1 = Len(c) /\ \A i \in DOMAIN c : i < k /\ i \in Nat /\ (i > 1 => i - 1 \in DOMAIN c)
  BY <1>1
<1> HIDE DEF a, k
<1>5. \A y : Has(a, y) <=> Has(c, y) \/ y = x
  BY <1>1, <1>2, <1>3
<1>6. ASSUME NEW X, Once(c, X), x \notin X \/ \A y \in X : ~Has(c, y) PROVE Once(a, X)
  <2>1. SUFFICES ASSUME NEW i \in DOMAIN a, NEW j \in DOMAIN a, a[i] \in X, a[j] \in X PROVE i = j
    BY DEF Once
  <2>2. QED BY <1>1, <1>3, <1>6, <2>1 DEF Once
<1>7. ASSUME NEW z, NEW y, Follows(c, y, z), x = y => Len(c) > 0 /\ c[Len(c)] = z,
             NEW i \in DOMAIN a, a[i] = y
      PROVE  i > 1 /\ a[i - 1] = z
  <2>1. CASE i = k
    <3>1. Len(c) > 0 /\ c[Len(c)] = z
      BY <1>1, <1>7, <2>1
    <3>2. k > 1 /\ a[k - 1] = z
      BY <1>1, <1>4, <3>1 DEF k
    <3>3. QED BY <2>1, <3>2
  <2>2. CASE i \in DOMAIN c
    BY <1>1, <1>4, <1>7, <2>2 DEF Follows
  <2>3. QED BY <1>1, <2>1, <2>2
<1>8. \A z, y : Follows(c, y, z) /\ (x = y => Len(c) > 0 /\ c[Len(c)] = z) => Follows(a, y, z)
  BY <1>7 DEF Follows
<1>9. ASSUME LastBlock(c), x \notin {"begin", "end"} PROVE LastBlock(a)
  <2>1. Follows(a, "end", "begin")
    BY <1>8, <1>9 DEF LastBlock
  <2>2. ASSUME NEW i \in DOMAIN a, NEW j \in DOMAIN a, a[i] = "end", i < j
        PROVE  a[j] \notin {"begin", "end"}
    <3>1. i \in DOMAIN c
      BY <1>1, <1>9, <2>2
    <3>2. QED BY <1>1, <1>9, <2>2, <3>1 DEF LastBlock
  <2>3. QED BY <2>1, <2>2 DEF LastBlock
<1>10. ASSUME Tidy(c), x # "begin" PROVE Tidy(a)
  BY <1>1, <1>10 DEF Tidy
<1>11. QED BY <1>1, <1>5, <1>6, <1>8, <1>9, <1>10 DEF a

----------------------------------------------------------------------------
(* The managed block: taken out, and put in.                                 *)

\* Nothing is left of a block, whatever there was of it; what was not in it stays.
LEMMA BlockStripped ==
    ASSUME NEW f \in Notes, NEW c \in Seq(Holds(f))
    PROVE  LET r == _strip_block(c) IN
           /\ r \in Seq(Holds(f))
           /\ LastBlock(c) => /\ ~Has(r, "end")
                              /\ Tidy(c) => /\ ~Has(r, "begin")
                                            /\ \A n \in Pieces : Has(c, n) => Has(r, n)
<1> DEFINE b == First(c, "begin")
           e == First(c, "end")
           u == SubSeq(c, 1, b - 1)
           v == SubSeq(c, e + 1, Len(c))
           r == u \o v
<1>0. f \in Files /\ DOMAIN c = 1..Len(c) /\ Len(c) \in Nat
  BY DEF Files
<1>1. \A x : Has(c, x) <=> \E i \in DOMAIN c : c[i] = x
  BY <1>0, IsContent
<1>2. ASSUME NEW x, Has(c, x)
      PROVE  First(c, x) \in DOMAIN c /\ c[First(c, x)] = x
             /\ \A i \in DOMAIN c : c[i] = x => First(c, x) <= i
  <2> DEFINE S == {n \in DOMAIN c : c[n] = x}
  <2>1. S \subseteq Nat /\ S # {}
    BY <1>0, <1>1, <1>2
  <2>2. Min(S) \in S /\ \A y \in S : Min(S) <= y
    <3> HIDE DEF S
    <3>1. QED BY <2>1, MinIsLeast
  <2>3. QED BY <2>2 DEF First
<1>3. CASE ~(Has(c, "begin") /\ Has(c, "end"))
  <2>1. _strip_block(c) = c
    BY <1>3 DEF _strip_block
  <2>2. ASSUME LastBlock(c) PROVE ~Has(c, "end")
    <3>1. ASSUME NEW i \in DOMAIN c, c[i] = "end" PROVE FALSE
      <4>1. i > 1 /\ c[i - 1] = "begin" /\ i - 1 \in DOMAIN c
        BY <1>0, <2>2, <3>1 DEF LastBlock, Follows
      <4>2. QED BY <1>1, <1>3, <3>1, <4>1
    <3>2. QED BY <1>1, <3>1
  <2>3. ASSUME LastBlock(c), Tidy(c) PROVE ~Has(c, "begin")
    BY <1>1, <2>2, <2>3 DEF Tidy
  <2>4. QED BY <2>1, <2>2, <2>3
<1>4. CASE Has(c, "begin") /\ Has(c, "end")
  <2>1. /\ b \in 1..Len(c) /\ c[b] = "begin" /\ e \in 1..Len(c) /\ c[e] = "end"
        /\ \A i \in 1..Len(c) : c[i] = "begin" => b <= i
        /\ \A i \in 1..Len(c) : c[i] = "end" => e <= i
    BY <1>0, <1>2, <1>4
  <2> HIDE DEF b, e
  <2>2. _strip_block(c) = r
    BY <1>4 DEF _strip_block, b, e
  <2>3. u \in Seq(Holds(f)) /\ Len(u) = b - 1 /\ \A i \in 1..(b - 1) : u[i] = c[i]
    BY <1>0, <2>1
  <2>4. /\ v \in Seq(Holds(f)) /\ Len(v) = Len(c) - e
        /\ \A i \in 1..(Len(c) - e) : v[i] = c[e + i]
    <3>1. e + 1 \in Int /\ Len(c) \in Int /\ \A i \in (e + 1) .. Len(c) : c[i] \in Holds(f)
      BY <1>0, <2>1
    <3>2. /\ v \in Seq(Holds(f))
          /\ Len(v) = IF e + 1 <= Len(c) THEN Len(c) - (e + 1) + 1 ELSE 0
          /\ \A i \in 1 .. (Len(c) - (e + 1) + 1) : v[i] = c[(e + 1) + i - 1]
      BY <3>1, SubSeqProperties
    <3> HIDE DEF v
    <3>3. Len(c) - (e + 1) + 1 = Len(c) - e /\ \A i \in 1..(Len(c) - e) : (e + 1) + i - 1 = e + i
      BY <1>0, <2>1
    <3>4. Len(v) = Len(c) - e
      <4>1. e \in Nat /\ e <= Len(c) /\ Len(c) \in Nat
        BY <1>0, <2>1
      <4>2. CASE e + 1 <= Len(c)
        BY <3>2, <3>3, <4>2
      <4>3. CASE ~(e + 1 <= Len(c))
        <5>1. Len(c) - e = 0
          BY <4>1, <4>3
        <5>2. QED BY <3>2, <4>3, <5>1
      <4>4. QED BY <4>2, <4>3
    <3>5. ASSUME NEW i \in 1..(Len(c) - e) PROVE v[i] = c[e + i]
      BY <3>2, <3>3
    <3>6. QED BY <3>2, <3>4, <3>5
  <2>5. r \in Seq(Holds(f))
    BY <2>3, <2>4
  <2>6. \A x : Has(r, x) <=> \E i \in DOMAIN r : r[i] = x
    BY <1>0, <2>5, IsContent
  <2>7. /\ DOMAIN r = 1..((b - 1) + (Len(c) - e))
        /\ \A i \in 1..(b - 1) : r[i] = c[i]
        /\ \A i \in 1..(Len(c) - e) : r[(b - 1) + i] = c[e + i]
    <3> HIDE DEF u, v
    <3>1. Len(u) \in Nat /\ Len(v) \in Nat /\ Len(r) = Len(u) + Len(v) /\ DOMAIN r = 1..Len(r)
      BY <2>3, <2>4, <2>5
    <3>2. \A i \in 1..Len(u) : r[i] = u[i]
      BY <2>3, <2>4
    <3>3. \A i \in 1..Len(v) : r[Len(u) + i] = v[i]
      BY <2>3, <2>4
    <3>4. QED BY <2>3, <2>4, <3>1, <3>2, <3>3
  <2> HIDE DEF r, u, v
  <2>8. ASSUME NEW x, \A i \in 1..Len(c) : c[i] = x => i >= b /\ i <= e PROVE ~Has(r, x)
    <3>1. ASSUME NEW i \in DOMAIN r, r[i] = x PROVE FALSE
      <4>1. CASE i \in 1..(b - 1)
        BY <1>0, <2>1, <2>7, <2>8, <3>1, <4>1
      <4>2. CASE i \notin 1..(b - 1)
        <5> DEFINE j == i - (b - 1)
        <5>1. j \in 1..(Len(c) - e) /\ i = (b - 1) + j
          BY <1>0, <2>1, <2>7, <3>1, <4>2
        <5> HIDE DEF j
        <5>2. e + j \in 1..Len(c) /\ e + j > e /\ c[e + j] = x
          <6>1. e + j \in 1..Len(c) /\ e + j > e
            BY <1>0, <2>1, <5>1
          <6>2. r[(b - 1) + j] = c[e + j]
            BY <2>7, <5>1
          <6>3. QED BY <3>1, <5>1, <6>1, <6>2
        <5>3. QED BY <1>0, <2>1, <2>8, <5>2
      <4>3. QED BY <4>1, <4>2
    <3>2. QED BY <2>6, <3>1
  <2>9. ASSUME LastBlock(c)
        PROVE  /\ ~Has(r, "end")
               /\ Tidy(c) => ~Has(r, "begin") /\ \A n \in Pieces : Has(c, n) => Has(r, n)
    <3>1. e > 1 /\ c[e - 1] = "begin" /\ e - 1 \in 1..Len(c) /\ b <= e - 1
      BY <1>0, <2>1, <2>9 DEF LastBlock, Follows
    <3>2. \A i \in 1..Len(c) : e < i => c[i] \notin {"begin", "end"}
      BY <1>0, <2>1, <2>9 DEF LastBlock
    <3>3. \A i \in 1..Len(c) : c[i] = "end" => i >= b /\ i <= e
      BY <1>0, <2>1, <3>1, <3>2
    <3>4. \A i \in 1..Len(c) : c[i] = "begin" => i >= b /\ i <= e
      BY <1>0, <2>1, <3>2
    <3>5. ASSUME Tidy(c), NEW n \in Pieces, Has(c, n) PROVE Has(r, n)
      <4>1. b + 1 \in 1..Len(c) /\ c[b + 1] = "end"
        BY <1>0, <2>1, <3>5 DEF Tidy
      <4>2. e = b + 1
        BY <1>0, <2>1, <3>1, <4>1
      <4>3. PICK i \in 1..Len(c) : c[i] = n
        BY <1>0, <1>1, <3>5
      <4>4. n \notin {"begin", "end"}
        BY Words DEF Managed
      <4>5. i # b /\ i # e
        BY <2>1, <4>3, <4>4
      <4>6. CASE i < b
        <5>1. i \in 1..(b - 1) /\ i \in DOMAIN r
          BY <1>0, <2>1, <2>7, <4>3, <4>6
        <5>2. QED BY <2>6, <2>7, <4>3, <5>1
      <4>7. CASE i > e
        <5> DEFINE j == i - e
        <5>1. j \in 1..(Len(c) - e) /\ (b - 1) + j \in DOMAIN r /\ i = e + j
          BY <1>0, <2>1, <2>7, <4>3, <4>7
        <5>2. QED BY <2>6, <2>7, <4>3, <5>1
      <4>8. QED BY <1>0, <2>1, <4>2, <4>3, <4>5, <4>6, <4>7
    <3>6. QED BY <2>8, <3>3, <3>4, <3>5
  <2>10. QED BY <2>2, <2>5, <2>9
<1>5. QED BY <1>3, <1>4

\* What strips and installs leaves one block, the last of what is managed.
LEMMA BlockInstalled ==
    ASSUME NEW f \in Notes, NEW r \in Seq(Holds(f)), ~Has(r, "end")
    PROVE  LET a == r \o <<"begin", "end">> IN
           /\ a \in Seq(Holds(f)) /\ LastBlock(a) /\ Has(a, "end")
           /\ \A x : Has(r, x) => Has(a, x)
           /\ ~Has(r, "begin") => Tidy(a)
<1> DEFINE a == r \o <<"begin", "end">>
           k == Len(r)
<1>0. f \in Files /\ {"begin", "end"} \subseteq Holds(f)
  BY HeldByKind DEF Files
<1>1. /\ k \in Nat /\ DOMAIN r = 1..k /\ a \in Seq(Holds(f)) /\ DOMAIN a = 1..(k + 2)
      /\ (\A i \in 1..k : a[i] = r[i]) /\ a[k + 1] = "begin" /\ a[k + 2] = "end"
  BY <1>0
<1> HIDE DEF a, k
<1>2. \A x : Has(a, x) <=> \E i \in DOMAIN a : a[i] = x
  BY <1>0, <1>1, IsContent
<1>3. \A x : Has(r, x) <=> \E i \in DOMAIN r : r[i] = x
  BY <1>0, IsContent
<1>4. \A i \in 1..(k + 2) : i \in 1..k \/ i = k + 1 \/ i = k + 2
  BY <1>1
<1>5. \A i \in 1..(k + 2) : a[i] = "end" => i = k + 2
  BY <1>1, <1>3, <1>4
<1>6. Follows(a, "end", "begin")
  <2>1. k + 2 > 1 /\ (k + 2) - 1 = k + 1
    BY <1>1
  <2>2. QED BY <1>1, <1>5, <2>1 DEF Follows
<1>7. LastBlock(a)
  <2>1. \A i, j \in DOMAIN a : ~(a[i] = "end" /\ i < j)
    BY <1>1, <1>5
  <2>2. QED BY <1>6, <2>1 DEF LastBlock
<1>8. Has(a, "end") /\ \A x : Has(r, x) => Has(a, x)
  <2>1. k + 2 \in DOMAIN a /\ DOMAIN r \subseteq DOMAIN a
    BY <1>1
  <2>2. QED BY <1>1, <1>2, <1>3, <2>1
<1>9. ASSUME ~Has(r, "begin") PROVE Tidy(a)
  <2>1. \A i \in 1..(k + 2) : a[i] = "begin" => i = k + 1
    BY <1>1, <1>3, <1>4, <1>9
  <2>2. (k + 1) + 1 \in DOMAIN a /\ a[(k + 1) + 1] = "end"
    BY <1>1
  <2>3. QED BY <1>1, <2>1, <2>2 DEF Tidy
<1>10. QED BY <1>1, <1>7, <1>8, <1>9 DEF a

\* A file that holds none of what a part of the order is about has it.
LEMMA InOrderOfKind ==
    ASSUME NEW f \in Files, NEW c \in Seq(Holds(f)),
           f \in Settings => Once(c, {"inject"}) /\ Follows(c, "pre-tool", "inject"),
           f \in Notes => LastBlock(c),
           f \in Plugins => Once(c, {"plugin"}),
           f \in Settings \cup CliFiles => Once(c, Endpoints)
    PROVE  InOrder(c)
<1>1. \A i \in DOMAIN c : c[i] \in Holds(f)
  OBVIOUS
<1>2. f \notin Settings => \A i \in DOMAIN c : c[i] # "inject" /\ c[i] # "pre-tool"
  BY <1>1, HeldByKind, Words DEF Managed
<1>3. f \notin Notes => \A i \in DOMAIN c : c[i] # "begin" /\ c[i] # "end"
  BY <1>1, HeldByKind, Words DEF Managed
<1>4. f \notin Plugins => \A i \in DOMAIN c : c[i] # "plugin"
  BY <1>1, HeldByKind, Words DEF Managed
<1>5. f \notin Settings \cup CliFiles => \A i \in DOMAIN c : c[i] \notin Endpoints
  BY <1>1, HeldByKind, Words DEF Managed
<1>6. Once(c, {"inject"}) /\ Follows(c, "pre-tool", "inject")
  BY <1>2 DEF Once, Follows
<1>7. Once(c, {"plugin"})
  BY <1>4 DEF Once
<1>8. Once(c, Endpoints)
  BY <1>5 DEF Once
<1>9. LastBlock(c)
  BY <1>3 DEF LastBlock, Follows
<1>10. QED BY <1>6, <1>7, <1>8, <1>9 DEF InOrder

----------------------------------------------------------------------------
(* What a command makes of a content.                                        *)

IsCommand(cmd) ==
    \/ cmd.op = "install" /\ cmd.file \in Files \ CliFiles /\ cmd.arg \in {"hard", "soft"}
    \/ cmd.op = "uninstall" /\ cmd.file \in Files \ CliFiles
    \/ cmd.op = "register" /\ cmd.file \in Settings \cup CliFiles /\ cmd.arg \in Endpoints

Commands ==
    {cmd \in [op : {"install", "uninstall", "register"}, file : Files,
              arg : Endpoints \cup {"hard", "soft", "off"}, child : BOOLEAN] : IsCommand(cmd)}

Sayings == [hooks : {"hard", "soft", "none", None}, mcp : Endpoints \cup {"none", None}]

LEMMA ReportedFine ==
    ASSUME NEW cmd \in Commands, NEW s \in Sayings
    PROVE  LET t == Reported(cmd, s) IN
           /\ t \in Sayings
           /\ cmd.op = "register" => t.hooks = s.hooks /\ t.mcp = cmd.arg
           /\ cmd.op = "install" => t.hooks = cmd.arg /\ t.mcp = s.mcp
           /\ cmd.op = "uninstall" => t.hooks = "none" /\ t.mcp = s.mcp
BY DEF Reported, Sayings, Commands, IsCommand

\* The entries of a command among the operator's own.
LEMMA SettingsInstalled ==
    ASSUME NEW f \in Settings, NEW w \in Seq(Holds(f)), NEW mode \in {"hard", "soft"},
           ~Has(w, "inject"), ~Has(w, "pre-tool")
    PROVE  LET a == w \o _managed_block(f, mode) IN
           /\ a \in Seq(Holds(f)) /\ Once(a, {"inject"}) /\ Follows(a, "pre-tool", "inject")
           /\ Has(a, "inject") /\ (Has(a, "pre-tool") <=> mode = "hard")
           /\ \A x \in Pieces \cup Endpoints : Has(a, x) <=> Has(w, x)
           /\ Once(w, Endpoints) => Once(a, Endpoints)
<1> DEFINE b == Append(w, "inject")
           d == Append(b, "pre-tool")
<1>0. f \in Files /\ "inject" \in Holds(f) /\ "pre-tool" \in Holds(f)
  BY HeldByKind DEF Files
<1>1. f \notin Notes \cup Plugins
  BY KindsAssumption
<1>2. /\ b \in Seq(Holds(f)) /\ Len(b) = Len(w) + 1 /\ Len(b) \in Nat /\ Len(w) \in Nat
      /\ b[Len(b)] = "inject"
      /\ b = w \o <<"inject">> /\ d = w \o <<"inject", "pre-tool">>
  <2>1. b \in Seq(Holds(f)) /\ Len(b) = Len(w) + 1 /\ Len(b) \in Nat /\ Len(w) \in Nat
        /\ b[Len(b)] = "inject" /\ b = w \o <<"inject">>
    BY <1>0
  <2>2. d = w \o <<"inject", "pre-tool">>
    BY <1>0
  <2>3. QED BY <2>1, <2>2
<1>3. \A x \in Endpoints \cup Pieces : x # "inject" /\ x # "pre-tool"
  BY Words DEF Managed
<1>4. /\ \A y : Has(b, y) <=> Has(w, y) \/ y = "inject"
      /\ Once(b, {"inject"})
      /\ Once(w, Endpoints) => Once(b, Endpoints)
  <2>1. Once(w, {"inject"})
    BY <1>0, IsContent DEF Once
  <2>2. QED BY <1>0, <1>3, <2>1, AppendKeeps
<1>5. Follows(b, "pre-tool", "inject")
  <2>1. ~Has(b, "pre-tool")
    BY <1>4
  <2>2. QED BY <1>0, <1>2, <2>1, IsContent DEF Follows
<1>6. b[Len(b)] = "inject" /\ Len(b) > 0
  BY <1>2
<1> HIDE DEF b
<1>7. /\ d \in Seq(Holds(f)) /\ Follows(d, "pre-tool", "inject")
      /\ \A y : Has(d, y) <=> Has(b, y) \/ y = "pre-tool"
      /\ Once(d, {"inject"})
      /\ Once(w, Endpoints) => Once(d, Endpoints)
  <2>1. "pre-tool" \notin {"inject"} /\ "pre-tool" \notin Endpoints
    BY <1>3
  <2>2. /\ d \in Seq(Holds(f))
        /\ \A y : Has(d, y) <=> Has(b, y) \/ y = "pre-tool"
        /\ \A X : Once(b, X) /\ ("pre-tool" \notin X \/ \A y \in X : ~Has(b, y)) => Once(d, X)
        /\ \A z, y : Follows(b, y, z) /\ ("pre-tool" = y => Len(b) > 0 /\ b[Len(b)] = z)
                         => Follows(d, y, z)
    <3>1. b \in Seq(Holds(f)) /\ "pre-tool" \in Holds(f)
      BY <1>0, <1>2
    <3>2. QED BY ONLY <1>0, <3>1, AppendKeeps
  <2> HIDE DEF d
  <2>3. Follows(d, "pre-tool", "inject")
    BY <1>5, <1>6, <2>2
  <2>4. QED BY <1>4, <2>1, <2>2, <2>3
<1> HIDE DEF d
<1>8. CASE mode = "soft"
  <2>1. w \o _managed_block(f, mode) = b
    BY <1>1, <1>2, <1>8 DEF _managed_block
  <2>2. QED BY <1>2, <1>3, <1>4, <1>5, <1>8, <2>1
<1>9. CASE mode = "hard"
  <2>1. w \o _managed_block(f, mode) = d
    BY <1>1, <1>2, <1>9 DEF _managed_block
  <2>2. QED BY <1>3, <1>4, <1>7, <1>9, <2>1
<1>10. QED BY <1>8, <1>9

\* A command keeps the pieces, and leaves what it is going to report. For the notes,
\* if the block is closed.
LEMMA SettingsNew ==
    ASSUME NEW f \in Settings, NEW c \in Seq(Holds(f)), NEW cmd \in Commands, cmd.file = f
    PROVE  LET w == New(cmd, c) IN
           /\ w \in Seq(Holds(f))
           /\ \A n \in Pieces : Has(c, n) => Has(w, n)
           /\ \A s \in Sayings : Wired(f, c, s) => Wired(f, w, Reported(cmd, s))
<1> DEFINE w == New(cmd, c)
           M == {"inject", "pre-tool"}
           v == Without(c, M)
           u == Without(c, Endpoints)
<1>0. f \in Files /\ f \notin Notes \cup Plugins \cup CliFiles /\ Endpoints \subseteq Holds(f)
  BY HeldByKind, KindsAssumption DEF Files
<1>1. /\ \A x \in Pieces \cup Endpoints : x \notin M /\ x # "inject" /\ x # "pre-tool"
      /\ \A x \in Pieces : x \notin Endpoints
      /\ "inject" \notin Endpoints /\ "pre-tool" \notin Endpoints
  BY Words DEF Managed
<1>2. /\ v \in Seq(Holds(f))
      /\ \A x : Has(v, x) <=> Has(c, x) /\ x \notin M
      /\ \A X : Once(c, X) => Once(v, X)
  BY <1>0, WithoutKeeps
<1>3. /\ u \in Seq(Holds(f))
      /\ \A x : Has(u, x) <=> Has(c, x) /\ x \notin Endpoints
      /\ \A X : Once(c, X) => Once(u, X)
      /\ Follows(c, "pre-tool", "inject") => Follows(u, "pre-tool", "inject")
  BY <1>0, <1>1, WithoutKeeps
<1>4. ~Has(v, "inject") /\ ~Has(v, "pre-tool") /\ \A x \in Pieces \cup Endpoints : Has(v, x) <=> Has(c, x)
  BY <1>1, <1>2
<1> HIDE DEF v, u
<1>5. CASE cmd.op = "install"
  <2>1. cmd.arg \in {"hard", "soft"}
    BY <1>5 DEF Commands, IsCommand
  <2>2. w = v \o _managed_block(f, cmd.arg)
    BY <1>0, <1>5 DEF New, install, Strip, _strip_managed, v
  <2>3. /\ w \in Seq(Holds(f)) /\ Once(w, {"inject"}) /\ Follows(w, "pre-tool", "inject")
        /\ Has(w, "inject") /\ (Has(w, "pre-tool") <=> cmd.arg = "hard")
        /\ \A x \in Pieces \cup Endpoints : Has(w, x) <=> Has(v, x)
        /\ Once(v, Endpoints) => Once(w, Endpoints)
    BY <1>2, <1>4, <2>1, <2>2, SettingsInstalled
  <2> HIDE DEF w
  <2>4. ASSUME NEW s \in Sayings, Wired(f, c, s) PROVE Wired(f, w, Reported(cmd, s))
    <3>1. Reported(cmd, s).hooks = cmd.arg /\ Reported(cmd, s).mcp = s.mcp
      BY <1>5, ReportedFine
    <3>2. InOrder(w)
      BY <1>0, <1>2, <2>3, <2>4, InOrderOfKind DEF Wired, InOrder
    <3>3. s.mcp \in Endpoints => Has(w, s.mcp)
      BY <1>4, <2>3, <2>4 DEF Wired, AsSaid
    <3>4. AsSaid(f, w, Reported(cmd, s))
      BY <1>0, <2>1, <2>3, <3>1, <3>3 DEF AsSaid, Mark
    <3>5. QED BY <3>2, <3>4 DEF Wired
  <2>5. QED BY <1>4, <2>3, <2>4 DEF w
<1>6. CASE cmd.op = "uninstall"
  <2>1. w = v
    BY <1>0, <1>6 DEF New, uninstall, Strip, _strip_managed, v
  <2>2. ASSUME NEW s \in Sayings, Wired(f, c, s) PROVE Wired(f, v, Reported(cmd, s))
    <3>1. Reported(cmd, s).hooks = "none" /\ Reported(cmd, s).mcp = s.mcp
      BY <1>6, ReportedFine
    <3>2. Once(v, {"inject"}) /\ Follows(v, "pre-tool", "inject")
      BY <1>0, <1>2, <1>4, IsContent DEF Once, Follows
    <3>3. InOrder(v)
      BY <1>0, <1>2, <2>2, <3>2, InOrderOfKind DEF Wired, InOrder
    <3>4. s.mcp \in Endpoints => Has(v, s.mcp)
      BY <1>4, <2>2 DEF Wired, AsSaid
    <3>5. AsSaid(f, v, Reported(cmd, s))
      BY <1>0, <1>4, <3>1, <3>4 DEF AsSaid, Mark
    <3>6. QED BY <3>3, <3>5 DEF Wired
  <2>3. QED BY <1>2, <1>4, <2>1, <2>2
<1>7. CASE cmd.op = "register"
  <2>1. cmd.arg \in Endpoints /\ w = Append(u, cmd.arg)
    BY <1>7 DEF New, merge_mcp_json, Commands, IsCommand, u
  <2>2. \A y \in Endpoints : ~Has(u, y)
    BY <1>3
  <2> DEFINE url == cmd.arg
  <2>3. url \in Holds(f) /\ url \notin {"inject"} /\ url # "pre-tool"
    BY <1>0, <1>1, <2>1
  <2>4. /\ w \in Seq(Holds(f))
        /\ \A y : Has(w, y) <=> Has(u, y) \/ y = url
        /\ Once(u, {"inject"}) => Once(w, {"inject"})
        /\ Once(u, Endpoints) => Once(w, Endpoints)
        /\ Follows(u, "pre-tool", "inject") => Follows(w, "pre-tool", "inject")
    BY <1>0, <1>3, <2>1, <2>2, <2>3, AppendKeeps
  <2> HIDE DEF w
  <2>5. ASSUME NEW s \in Sayings, Wired(f, c, s) PROVE Wired(f, w, Reported(cmd, s))
    <3>1. Reported(cmd, s).hooks = s.hooks /\ Reported(cmd, s).mcp = url
      BY <1>7, ReportedFine
    <3>2. InOrder(w)
      BY <1>0, <1>3, <2>4, <2>5, InOrderOfKind DEF Wired, InOrder
    <3>3. (Has(w, "inject") <=> Has(c, "inject")) /\ (Has(w, "pre-tool") <=> Has(c, "pre-tool"))
      BY <1>1, <1>3, <2>3, <2>4
    <3>4. AsSaid(f, w, Reported(cmd, s))
      BY <1>0, <2>4, <2>5, <3>1, <3>3 DEF Wired, AsSaid, Mark
    <3>5. QED BY <3>2, <3>4 DEF Wired
  <2>6. QED BY <1>1, <1>3, <2>4, <2>5 DEF w
<1>8. QED BY <1>5, <1>6, <1>7 DEF Commands, IsCommand

LEMMA NotesNew ==
    ASSUME NEW f \in Notes, NEW c \in Seq(Holds(f)), NEW cmd \in Commands, cmd.file = f
    PROVE  LET w == New(cmd, c) IN
           /\ w \in Seq(Holds(f))
           /\ InOrder(c) /\ Tidy(c) => Tidy(w) /\ \A n \in Pieces : Has(c, n) => Has(w, n)
           /\ \A s \in Sayings : Wired(f, c, s) => Wired(f, w, Reported(cmd, s))
<1> DEFINE w == New(cmd, c)
           r == _strip_block(c)
           a == r \o <<"begin", "end">>
<1>0. f \in Files /\ f \notin Settings \cup Plugins \cup CliFiles
  BY KindsAssumption DEF Files
<1>1. /\ r \in Seq(Holds(f))
      /\ LastBlock(c) => /\ ~Has(r, "end")
                         /\ Tidy(c) => /\ ~Has(r, "begin")
                                       /\ \A n \in Pieces : Has(c, n) => Has(r, n)
  BY BlockStripped
<1>2. r \o <<"begin", "end">> \in Seq(Holds(f))
  <2> HIDE DEF r
  <2>1. {"begin", "end"} \subseteq Holds(f)
    BY <1>0, HeldByKind
  <2>2. QED BY <1>1, <2>1
<1> HIDE DEF r
<1>3. ~Has(r, "end") => /\ LastBlock(a) /\ Has(a, "end")
                        /\ \A x : Has(r, x) => Has(a, x)
                        /\ ~Has(r, "begin") => Tidy(a)
  BY <1>1, BlockInstalled
<1> HIDE DEF a
<1>4. ASSUME NEW d \in Seq(Holds(f)), NEW s \in Sayings, AsSaid(f, d, s) PROVE s.mcp \notin Endpoints
  <2>1. \A x \in Endpoints : x \notin Holds(f)
    BY <1>0, HeldByKind, Words DEF Managed
  <2>2. \A x \in Endpoints : ~Has(d, x)
    BY <1>0, <2>1, IsContent
  <2>3. QED BY <1>4, <2>2 DEF AsSaid
<1>5. ASSUME NEW d \in Seq(Holds(f)) PROVE ~Has(d, "pre-tool")
  <2>1. "pre-tool" \notin Holds(f)
    BY <1>0, HeldByKind, Words DEF Managed
  <2>2. QED BY <1>0, <2>1, IsContent
<1>6. cmd.op \in {"install", "uninstall"}
  BY <1>0 DEF Commands, IsCommand
<1>7. CASE cmd.op = "install"
  <2>1. cmd.arg \in {"hard", "soft"}
    BY <1>7 DEF Commands, IsCommand
  <2>2. w = a
    BY <1>0, <1>7 DEF New, install, Strip, _managed_block, a, r
  <2>3. a \in Seq(Holds(f))
    BY <1>2 DEF a
  <2>4. ASSUME NEW s \in Sayings, Wired(f, c, s) PROVE Wired(f, a, Reported(cmd, s))
    <3>1. Reported(cmd, s).hooks = cmd.arg /\ Reported(cmd, s).mcp = s.mcp
      BY <1>7, ReportedFine
    <3>2. InOrder(a) /\ Has(a, "end")
      BY <1>0, <1>1, <1>3, <2>3, <2>4, InOrderOfKind DEF Wired, InOrder
    <3>3. s.mcp \notin Endpoints
      BY <1>4, <2>4 DEF Wired
    <3>4. ~Has(a, "pre-tool")
      BY <1>5, <2>3
    <3>5. AsSaid(f, a, Reported(cmd, s))
      BY <1>0, <2>1, <3>1, <3>2, <3>3, <3>4 DEF AsSaid, Mark
    <3>6. QED BY <3>2, <3>5 DEF Wired
  <2>5. QED BY <1>1, <1>3, <2>2, <2>3, <2>4 DEF InOrder
<1>8. CASE cmd.op = "uninstall"
  <2>1. w = r
    BY <1>0, <1>8 DEF New, uninstall, Strip, r
  <2>2. ASSUME NEW s \in Sayings, Wired(f, c, s) PROVE Wired(f, r, Reported(cmd, s))
    <3>1. Reported(cmd, s).hooks = "none" /\ Reported(cmd, s).mcp = s.mcp
      BY <1>8, ReportedFine
    <3>2. ~Has(r, "end")
      BY <1>1, <2>2 DEF Wired, InOrder
    <3>3. LastBlock(r)
      BY <1>0, <1>1, <3>2, IsContent DEF LastBlock, Follows
    <3>4. InOrder(r)
      BY <1>0, <1>1, <3>3, InOrderOfKind
    <3>5. s.mcp \notin Endpoints
      BY <1>4, <2>2 DEF Wired
    <3>6. AsSaid(f, r, Reported(cmd, s))
      BY <1>0, <3>1, <3>2, <3>5 DEF AsSaid, Mark
    <3>7. QED BY <3>4, <3>6 DEF Wired
  <2>3. Tidy(r) \/ Has(r, "begin")
    BY <1>0, <1>1, IsContent DEF Tidy
  <2>4. QED BY <1>1, <2>1, <2>2, <2>3 DEF InOrder
<1>9. QED BY <1>6, <1>7, <1>8

----------------------------------------------------------------------------
(* Where a process is in its command.                                        *)

Stages(cmd) ==
    IF cmd.file \in Plugins
    THEN IF cmd.op = "install" THEN {<<"backup", "open", "write">>, <<"open", "write">>, <<"write">>}
         ELSE {<<"load", "unlink">>, <<"unlink">>}
    ELSE IF cmd.file \in CliFiles THEN {<<"backup", "cli">>, <<"cli">>}
    ELSE IF cmd.op = "uninstall" /\ cmd.file \in Notes
    THEN {<<"backup", "load", "open", "write">>, <<"load", "open", "write">>, <<"open", "write">>, <<"write">>}
    ELSE {<<"load", "backup", "open", "write">>, <<"backup", "open", "write">>, <<"open", "write">>, <<"write">>}

\* It is in the middle of a command on f,
Mid(p, f) == todo[p] # <<>> /\ Cmd(p).file = f /\ steps[p] # Steps(Cmd(p))

\* it has copied f,
Copied(p, f) ==
    /\ Mid(p, f)
    /\ steps[p] \in {<<"load", "open", "write">>, <<"open", "write">>, <<"write">>, <<"cli">>}

\* it has made of f's content what it is to write,
Drafted(p, f) ==
    /\ Mid(p, f) /\ f \in Settings \cup Notes
    /\ steps[p] \in {<<"backup", "open", "write">>, <<"open", "write">>, <<"write">>}

\* it has opened f, and so emptied it.
Opened(p, f) == Mid(p, f) /\ steps[p] = <<"write">>

WorkOK ==
    /\ todo \in [Procs -> Seq(Commands)] /\ DOMAIN steps = Procs /\ DOMAIN draft = Procs
    /\ \A p \in Procs : todo[p] # <<>> => steps[p] \in Stages(Cmd(p))

----------------------------------------------------------------------------
(* The inductive invariant, file by file.                                    *)

InCopy(f, n) == \E b \in backups : b.of = f /\ Has(b.content, n)

\* Only a file that a server can be registered in is said to have one.
HoldsAt(f) ==
    /\ file[f] \in Seq(Holds(f)) \cup {None} /\ said[f] \in Sayings
    /\ f \in Notes \cup Plugins => said[f].mcp \notin Endpoints

DraftsAt(f) == \A p \in Procs : Drafted(p, f) => draft[p] \in Seq(Holds(f))

\* The pieces that were put into f are in it or in a copy; in a copy, as long as
\* one that has made its copy may still empty the file.
CopiesAt(f) ==
    \A n \in Pieces : owner[n] = f /\ n \notin excused =>
        /\ Has(file[f], n) \/ InCopy(f, n)
        /\ \A p \in Procs : Copied(p, f) => InCopy(f, n)

\* What holds of f when nobody but p can be in the middle of a command on it: unless
\* p has emptied it, it is as was said, and so will be what p is to write; unless a
\* write was cut off, both have the pieces, and a block of the notes is whole.
Lone(p, f) ==
    /\ Wired(f, Content(file[f]), said[f]) \/ Opened(p, f)
    /\ Drafted(p, f) => Wired(f, draft[p], Reported(Cmd(p), said[f]))
    /\ f \notin Plugins \cup cut => \A n \in Pieces : owner[n] = f /\ n \notin excused =>
        /\ Has(file[f], n) \/ Opened(p, f)
        /\ Drafted(p, f) => Has(draft[p], n)
    /\ f \in Notes \ cut => /\ Tidy(Content(file[f]))
                            /\ Drafted(p, f) => Tidy(draft[p])

Only(p, f) == \A q \in Procs \ {p} : ~Mid(q, f)

\* Where no two overlapped, one at most is in the middle.
LoneAt(f) ==
    f \notin overlapped =>
        /\ \A p, q \in Procs : Mid(p, f) /\ Mid(q, f) => p = q
        /\ \A p \in Procs : Only(p, f) => Lone(p, f)

FileFine(f) == HoldsAt(f) /\ DraftsAt(f) /\ CopiesAt(f) /\ LoneAt(f)

WiringTypeOK ==
    /\ machine \in Machines /\ WorkOK
    /\ DOMAIN file = Files /\ DOMAIN said = Files
    /\ owner \in [Pieces -> Files \cup {None}] /\ overlapped \subseteq Files

WiringIInv == WiringTypeOK /\ \A f \in Files : FileFine(f)

----------------------------------------------------------------------------
(* Steps of a command, and what they leave to the others.                    *)

LEMMA Starts ==
    ASSUME NEW cmd \in Commands
    PROVE  Steps(cmd) \in Stages(cmd)
BY DEF Commands, Steps, Stages

\* The steps before each, and those after it.
LEMMA AtLoad ==
    ASSUME NEW cmd \in Commands, NEW st \in Stages(cmd), Head(st) = "load"
    PROVE  /\ Tail(st) \in Stages(cmd) /\ Tail(st) # Steps(cmd)
           /\ \/ cmd.file \in Plugins /\ Tail(st) = <<"unlink">>
              \/ cmd.file \in Notes /\ st = <<"load", "open", "write">> /\ Tail(st) = <<"open", "write">>
                 /\ st # Steps(cmd)
              \/ cmd.file \in Settings \cup Notes /\ st = <<"load", "backup", "open", "write">>
                 /\ Tail(st) = <<"backup", "open", "write">> /\ st = Steps(cmd)
<1>1. cmd.file \in Files /\ cmd.op \in {"install", "uninstall", "register"}
      /\ (cmd.file \in Plugins \/ cmd.file \in CliFiles \/ cmd.file \in Settings \cup Notes)
  BY DEF Commands, Files
<1>2. CASE st = <<"load", "unlink">>
  <2>1. Tail(st) = <<"unlink">> /\ <<"unlink">> # <<"load", "unlink">>
    BY <1>2
  <2>2. cmd.file \in Plugins /\ cmd.op # "install"
    BY <1>2 DEF Stages
  <2>3. QED BY <2>1, <2>2 DEF Stages, Steps
<1>3. CASE st = <<"load", "open", "write">>
  <2>1. Tail(st) = <<"open", "write">>
        /\ <<"open", "write">> # <<"backup", "load", "open", "write">>
        /\ st # <<"backup", "load", "open", "write">>
    BY <1>3
  <2>2. cmd.file \in Notes /\ cmd.op = "uninstall" /\ cmd.file \notin Plugins /\ cmd.file \notin CliFiles
    BY <1>3 DEF Stages
  <2>3. QED BY <1>3, <2>1, <2>2 DEF Stages, Steps
<1>4. CASE st = <<"load", "backup", "open", "write">>
  <2>1. Tail(st) = <<"backup", "open", "write">>
        /\ <<"backup", "open", "write">> # <<"load", "backup", "open", "write">>
    BY <1>4
  <2>2. cmd.file \notin Plugins /\ cmd.file \notin CliFiles /\ ~(cmd.op = "uninstall" /\ cmd.file \in Notes)
    BY <1>4 DEF Stages
  <2>3. QED BY <1>1, <1>4, <2>1, <2>2 DEF Stages, Steps
<1>5. QED BY <1>2, <1>3, <1>4 DEF Stages

LEMMA AtBackup ==
    ASSUME NEW cmd \in Commands, NEW st \in Stages(cmd), Head(st) = "backup"
    PROVE  /\ Tail(st) \in Stages(cmd) /\ Tail(st) # Steps(cmd) /\ st # <<"write">>
           /\ \/ cmd.file \in Plugins /\ Tail(st) = <<"open", "write">>
              \/ cmd.file \in CliFiles /\ Tail(st) = <<"cli">>
              \/ cmd.file \in Notes /\ Tail(st) = <<"load", "open", "write">>
              \/ cmd.file \in Settings \cup Notes /\ st = <<"backup", "open", "write">>
                 /\ Tail(st) = <<"open", "write">> /\ st # Steps(cmd)
<1>1. cmd.file \in Files /\ cmd.op \in {"install", "uninstall", "register"}
      /\ (cmd.file \in Plugins \/ cmd.file \in CliFiles \/ cmd.file \in Settings \cup Notes)
  BY DEF Commands, Files
<1>2. CASE st = <<"backup", "open", "write">>
  <2>1. Tail(st) = <<"open", "write">> /\ st # <<"write">>
        /\ <<"open", "write">> # <<"backup", "open", "write">>
        /\ <<"open", "write">> # <<"load", "backup", "open", "write">>
        /\ st # <<"load", "backup", "open", "write">>
    BY <1>2
  <2>2. \/ cmd.file \in Plugins /\ cmd.op = "install"
        \/ cmd.file \notin Plugins /\ cmd.file \notin CliFiles /\ ~(cmd.op = "uninstall" /\ cmd.file \in Notes)
    BY <1>2 DEF Stages
  <2>3. QED BY <1>1, <1>2, <2>1, <2>2 DEF Stages, Steps
<1>3. CASE st = <<"backup", "cli">>
  <2>1. Tail(st) = <<"cli">> /\ <<"cli">> # <<"backup", "cli">> /\ st # <<"write">>
    BY <1>3
  <2>2. cmd.file \in CliFiles /\ cmd.file \notin Plugins
    BY <1>3 DEF Stages
  <2>3. QED BY <2>1, <2>2 DEF Stages, Steps
<1>4. CASE st = <<"backup", "load", "open", "write">>
  <2>1. Tail(st) = <<"load", "open", "write">> /\ st # <<"write">>
        /\ <<"load", "open", "write">> # <<"backup", "load", "open", "write">>
    BY <1>4
  <2>2. cmd.file \in Notes /\ cmd.op = "uninstall" /\ cmd.file \notin Plugins /\ cmd.file \notin CliFiles
    BY <1>4 DEF Stages
  <2>3. QED BY <2>1, <2>2 DEF Stages, Steps
<1>5. QED BY <1>2, <1>3, <1>4 DEF Stages

LEMMA AtEnd ==
    ASSUME NEW cmd \in Commands, NEW st \in Stages(cmd)
    PROVE  /\ Head(st) = "open" => /\ st = <<"open", "write">> /\ Tail(st) = <<"write">>
                                   /\ Tail(st) \in Stages(cmd) /\ Tail(st) # Steps(cmd) /\ st # Steps(cmd)
                                   /\ cmd.file \notin CliFiles
                                   /\ cmd.file \in Plugins => cmd.op = "install"
           /\ Head(st) = "write" => /\ st = <<"write">> /\ st # Steps(cmd) /\ cmd.file \notin CliFiles
                                    /\ cmd.file \in Plugins => cmd.op = "install"
           /\ Head(st) = "unlink" => cmd.file \in Plugins /\ cmd.op = "uninstall" /\ st = <<"unlink">>
           /\ Head(st) = "cli" => cmd.file \in CliFiles /\ st = <<"cli">>
<1>1. cmd.file \in Files /\ cmd.op \in {"install", "uninstall", "register"}
      /\ (cmd.op = "register" => cmd.file \in Settings \cup CliFiles)
  BY DEF Commands, IsCommand
<1>2. ASSUME Head(st) = "open"
      PROVE  /\ st = <<"open", "write">> /\ Tail(st) = <<"write">>
             /\ Tail(st) \in Stages(cmd) /\ Tail(st) # Steps(cmd) /\ st # Steps(cmd)
             /\ cmd.file \notin CliFiles
             /\ cmd.file \in Plugins => cmd.op = "install"
  <2>1. st = <<"open", "write">>
    BY <1>2 DEF Stages
  <2>2. Tail(st) = <<"write">>
    BY <2>1
  <2>3. /\ cmd.file \notin CliFiles \/ cmd.file \in Plugins
        /\ cmd.file \in Plugins => cmd.op = "install"
    BY <2>1 DEF Stages
  <2>4. Steps(cmd) # <<"write">> /\ Steps(cmd) # <<"open", "write">>
    BY DEF Steps
  <2>5. <<"write">> \in Stages(cmd)
    BY <2>1, <2>3, KindsAssumption DEF Stages
  <2>6. QED BY <2>1, <2>2, <2>3, <2>4, <2>5, KindsAssumption
<1>3. ASSUME Head(st) = "write"
      PROVE  /\ st = <<"write">> /\ st # Steps(cmd) /\ cmd.file \notin CliFiles
             /\ cmd.file \in Plugins => cmd.op = "install"
  <2>1. st = <<"write">>
    BY <1>3 DEF Stages
  <2>2. /\ cmd.file \notin CliFiles \/ cmd.file \in Plugins
        /\ cmd.file \in Plugins => cmd.op = "install"
    BY <2>1 DEF Stages
  <2>3. Steps(cmd) # <<"write">>
    BY DEF Steps
  <2>4. QED BY <2>1, <2>2, <2>3, KindsAssumption
<1>4. ASSUME Head(st) = "unlink" PROVE cmd.file \in Plugins /\ cmd.op = "uninstall" /\ st = <<"unlink">>
  <2>1. cmd.file \in Plugins /\ cmd.op # "install" /\ st = <<"unlink">>
    BY <1>4 DEF Stages
  <2>2. QED BY <1>1, <2>1, KindsAssumption
<1>5. Head(st) = "cli" => cmd.file \in CliFiles /\ st = <<"cli">>
  BY DEF Stages
<1>6. QED BY <1>2, <1>3, <1>4, <1>5

----------------------------------------------------------------------------
(* Steps of one process.                                                     *)

Same(q) == todo'[q] = todo[q] /\ steps'[q] = steps[q] /\ draft'[q] = draft[q]

LEMMA SameStays ==
    ASSUME NEW q, NEW f, Same(q)
    PROVE  /\ (Mid(q, f)' <=> Mid(q, f)) /\ (Copied(q, f)' <=> Copied(q, f))
           /\ (Drafted(q, f)' <=> Drafted(q, f)) /\ (Opened(q, f)' <=> Opened(q, f))
           /\ Cmd(q)' = Cmd(q)
BY DEF Same, Mid, Copied, Drafted, Opened, Cmd

LEMMA NotMid ==
    ASSUME NEW q, NEW f
    PROVE  /\ ~Mid(q, f) => ~Copied(q, f) /\ ~Drafted(q, f) /\ ~Opened(q, f)
           /\ ~Mid(q, f)' => ~Copied(q, f)' /\ ~Drafted(q, f)' /\ ~Opened(q, f)'
BY DEF Copied, Drafted, Opened

\* p goes on with its command; only it has moved.
Onward(p) ==
    /\ todo' = todo /\ steps' = [steps EXCEPT ![p] = Tail(@)]
    /\ DOMAIN draft' = Procs /\ \A q \in Procs \ {p} : draft'[q] = draft[q]

LEMMA OnwardFine ==
    ASSUME WorkOK, NEW p \in Procs, todo[p] # <<>>, Onward(p), Tail(steps[p]) \in Stages(Cmd(p))
    PROVE  /\ WorkOK' /\ \A q \in Procs \ {p} : Same(q)
           /\ todo'[p] = todo[p] /\ steps'[p] = Tail(steps[p]) /\ Cmd(p)' = Cmd(p)
           /\ \A g : Mid(p, g)' => g = Cmd(p).file
<1>1. todo' = todo /\ DOMAIN steps' = Procs /\ steps'[p] = Tail(steps[p])
      /\ \A q \in Procs \ {p} : steps'[q] = steps[q]
  BY DEF Onward, WorkOK
<1>2. \A q : Cmd(q)' = Cmd(q)
  BY <1>1 DEF Cmd
<1>3. WorkOK'
  BY <1>1, <1>2 DEF WorkOK, Onward
<1>4. \A q \in Procs \ {p} : Same(q)
  BY <1>1 DEF Same, Onward
<1>5. \A g : Mid(p, g)' => g = Cmd(p).file
  BY <1>2 DEF Mid
<1>6. QED BY <1>1, <1>2, <1>3, <1>4, <1>5

LEMMA NextCmdFine ==
    ASSUME WorkOK, NEW p \in Procs, NEW left \in Seq(Commands), NextCmd(p, left)
    PROVE  /\ WorkOK' /\ \A q \in Procs \ {p} : Same(q)
           /\ \A g : ~Mid(p, g)'
<1>1. /\ todo' \in [Procs -> Seq(Commands)] /\ todo'[p] = left
      /\ DOMAIN steps' = Procs /\ DOMAIN draft' = Procs
      /\ steps'[p] = IF left = <<>> THEN <<>> ELSE Steps(Head(left))
      /\ \A q \in Procs \ {p} : todo'[q] = todo[q] /\ steps'[q] = steps[q] /\ draft'[q] = draft[q]
  BY DEF NextCmd, WorkOK
<1>2. Cmd(p)' = Head(left) /\ \A q \in Procs \ {p} : Cmd(q)' = Cmd(q)
  BY <1>1 DEF Cmd
<1>3. left # <<>> => Head(left) \in Commands
  OBVIOUS
<1>4. left # <<>> => Steps(Head(left)) \in Stages(Head(left))
  BY <1>3, Starts
<1>5. WorkOK'
  BY <1>1, <1>2, <1>4 DEF WorkOK
<1>6. \A g : ~Mid(p, g)'
  BY <1>1, <1>2 DEF Mid
<1>7. QED BY <1>1, <1>5, <1>6 DEF Same

LEMMA CmdFine ==
    ASSUME WorkOK, NEW p \in Procs, todo[p] # <<>>
    PROVE  /\ Cmd(p) \in Commands /\ Cmd(p).file \in Files /\ steps[p] \in Stages(Cmd(p))
           /\ Tail(todo[p]) \in Seq(Commands)
<1>1. todo[p] \in Seq(Commands)
  BY DEF WorkOK
<1>2. Head(todo[p]) \in Commands /\ Tail(todo[p]) \in Seq(Commands)
  BY <1>1
<1>3. QED BY <1>2 DEF WorkOK, Cmd, Commands

\* A step that does not touch f keeps what holds of it.
LEMMA FileFrame ==
    ASSUME NEW f \in Files, FileFine(f),
           \A q \in Procs : Same(q) \/ (~Mid(q, f) /\ ~Mid(q, f)'),
           file'[f] = file[f], said'[f] = said[f],
           f \in overlapped => f \in overlapped',
           f \in cut => f \in cut', excused \subseteq excused',
           \A n \in Pieces : owner'[n] = f => owner[n] = f,
           \A n \in Pieces : InCopy(f, n) /\ n \notin excused' => InCopy(f, n)'
    PROVE  FileFine(f)'
<1>1. ASSUME NEW q \in Procs
      PROVE  /\ (Mid(q, f)' <=> Mid(q, f)) /\ (Copied(q, f)' <=> Copied(q, f))
             /\ (Drafted(q, f)' <=> Drafted(q, f)) /\ (Opened(q, f)' <=> Opened(q, f))
             /\ Mid(q, f) => Same(q)
             /\ Drafted(q, f) => draft'[q] = draft[q] /\ Cmd(q)' = Cmd(q)
  BY SameStays, NotMid DEF Same
<1>2. HoldsAt(f)'
  BY DEF FileFine, HoldsAt
<1>3. DraftsAt(f)'
  BY <1>1 DEF FileFine, DraftsAt
<1>4. CopiesAt(f)'
  BY <1>1 DEF FileFine, CopiesAt
<1>5. LoneAt(f)'
  <2>1. SUFFICES ASSUME f \notin overlapped'
                 PROVE  /\ \A p, q \in Procs : Mid(p, f)' /\ Mid(q, f)' => p = q
                        /\ \A p \in Procs : Only(p, f)' => Lone(p, f)'
    BY DEF LoneAt
  <2>2. /\ \A p, q \in Procs : Mid(p, f) /\ Mid(q, f) => p = q
        /\ \A p \in Procs : Only(p, f) => Lone(p, f)
    BY <2>1 DEF FileFine, LoneAt
  <2>3. \A p, q \in Procs : Mid(p, f)' /\ Mid(q, f)' => p = q
    BY <1>1, <2>2
  <2>4. ASSUME NEW p \in Procs, Only(p, f)' PROVE Lone(p, f)'
    <3>1. Lone(p, f)
      BY <1>1, <2>2, <2>4 DEF Only
    <3>2. Wired(f, Content(file'[f]), said'[f]) \/ Opened(p, f)'
      BY <1>1, <3>1 DEF Lone
    <3>3. Drafted(p, f)' => Wired(f, draft'[p], Reported(Cmd(p)', said'[f]))
      BY <1>1, <3>1 DEF Lone
    <3>4. f \notin Plugins \cup cut' => \A n \in Pieces : owner'[n] = f /\ n \notin excused' =>
              /\ Has(file'[f], n) \/ Opened(p, f)'
              /\ Drafted(p, f)' => Has(draft'[p], n)
      BY <1>1, <3>1 DEF Lone
    <3>5. f \in Notes \ cut' => /\ Tidy(Content(file'[f]))
                                /\ Drafted(p, f)' => Tidy(draft'[p])
      BY <1>1, <3>1 DEF Lone
    <3>6. QED BY <3>2, <3>3, <3>4, <3>5 DEF Lone
  <2>5. QED BY <2>3, <2>4
<1>6. QED BY <1>2, <1>3, <1>4, <1>5 DEF FileFine

\* Unless the overlap is known, p alone can be in the middle of a command on f.
Clear(p, f) == f \notin overlapped' => f \notin overlapped /\ Only(p, f)

\* So at the file of its command, what holds of p is enough.
LEMMA OwnFile ==
    ASSUME NEW p \in Procs, NEW f \in Files, FileFine(f), Clear(p, f),
           \A q \in Procs \ {p} : Same(q),
           HoldsAt(f)', Drafted(p, f)' => draft'[p] \in Seq(Holds(f)),
           excused \subseteq excused', owner' = owner,
           \A n \in Pieces : InCopy(f, n) /\ n \notin excused' => InCopy(f, n)',
           \A n \in Pieces : owner[n] = f /\ n \notin excused' =>
                /\ Has(file'[f], n) \/ InCopy(f, n)'
                /\ Copied(p, f)' => InCopy(f, n)',
           Lone(p, f) /\ f \notin overlapped' => Lone(p, f)'
    PROVE  FileFine(f)'
<1>1. \A q \in Procs \ {p} :
         /\ (Mid(q, f)' <=> Mid(q, f)) /\ (Copied(q, f)' <=> Copied(q, f))
         /\ (Drafted(q, f)' <=> Drafted(q, f)) /\ draft'[q] = draft[q]
  BY SameStays DEF Same
<1>2. DraftsAt(f)'
  BY <1>1 DEF FileFine, DraftsAt
<1>3. CopiesAt(f)'
  BY <1>1 DEF FileFine, CopiesAt
<1>4. LoneAt(f)'
  <2>1. SUFFICES ASSUME f \notin overlapped'
                 PROVE  /\ \A q, r \in Procs : Mid(q, f)' /\ Mid(r, f)' => q = r
                        /\ \A q \in Procs : Only(q, f)' => Lone(q, f)'
    BY DEF LoneAt
  <2>2. f \notin overlapped /\ Only(p, f)
    BY <2>1 DEF Clear
  <2>3. \A q \in Procs \ {p} : ~Mid(q, f)
    BY <2>2 DEF Only
  <2>4. \A q \in Procs \ {p} : ~Mid(q, f)'
    BY <1>1, <2>3
  <2>5. Lone(p, f)'
    BY <2>1, <2>2 DEF FileFine, LoneAt
  <2>6. ASSUME NEW q \in Procs, Only(q, f)', q # p PROVE Lone(q, f)'
    <3>1. ~Mid(p, f)' /\ ~Mid(q, f)'
      BY <2>4, <2>6 DEF Only
    <3>2. ~Drafted(p, f)' /\ ~Opened(p, f)' /\ ~Drafted(q, f)' /\ ~Opened(q, f)'
      BY <3>1, NotMid
    <3>3. QED BY <2>5, <3>2 DEF Lone
  <2>7. QED BY <2>4, <2>5, <2>6
<1>5. QED BY <1>2, <1>3, <1>4 DEF FileFine

LEMMA MeetsClears ==
    ASSUME NEW p \in Procs, Meets(p)
    PROVE  Clear(p, Cmd(p).file) /\ overlapped \subseteq overlapped'
           /\ overlapped' \subseteq overlapped \cup {Cmd(p).file}
<1>1. ~Busy(Cmd(p).file, p) => Only(p, Cmd(p).file)
  BY DEF Busy, Only, Mid
<1>2. QED BY <1>1 DEF Meets, Overlaps, Clear

\* p has moved, at the file of its command only.
Moves(p) ==
    /\ WorkOK' /\ (\A q \in Procs \ {p} : Same(q)) /\ \A g : Mid(p, g)' => g = Cmd(p).file
    /\ machine' = machine /\ owner' = owner
    /\ DOMAIN file' = Files /\ \A g \in Files \ {Cmd(p).file} : file'[g] = file[g]
    /\ DOMAIN said' = Files /\ \A g \in Files \ {Cmd(p).file} : said'[g] = said[g]
    /\ overlapped \subseteq overlapped' /\ overlapped' \subseteq Files
    /\ cut \subseteq cut' /\ excused \subseteq excused'
    /\ \A b \in backups : b.of # Cmd(p).file => b \in backups'

LEMMA MovesFine ==
    ASSUME WiringIInv, NEW p \in Procs, NEW f \in Files, f = Cmd(p).file, todo[p] # <<>>, Moves(p),
           FileFine(f)'
    PROVE  WiringIInv'
<1>1. WiringTypeOK'
  BY DEF WiringIInv, WiringTypeOK, Moves
<1>2. ASSUME NEW g \in Files PROVE FileFine(g)'
  <2>1. CASE g = f
    BY <2>1
  <2>2. CASE g # f
    <3>1. ASSUME NEW q \in Procs PROVE Same(q) \/ (~Mid(q, g) /\ ~Mid(q, g)')
      <4>1. CASE q = p
        BY <2>2, <4>1 DEF Moves, Mid
      <4>2. CASE q # p
        BY <4>2 DEF Moves
      <4>3. QED BY <4>1, <4>2
    <3>2. \A n \in Pieces : InCopy(g, n) /\ n \notin excused' => InCopy(g, n)'
      BY <2>2 DEF Moves, InCopy
    <3>3. /\ file'[g] = file[g] /\ said'[g] = said[g]
          /\ g \in overlapped => g \in overlapped'
          /\ g \in cut => g \in cut'
          /\ excused \subseteq excused'
          /\ \A n \in Pieces : owner'[n] = g => owner[n] = g
      BY <2>2 DEF Moves
    <3>4. FileFine(g)
      BY DEF WiringIInv
    <3>5. QED BY <3>1, <3>2, <3>3, <3>4, FileFrame
  <2>3. QED BY <2>1, <2>2
<1>3. QED BY <1>1, <1>2 DEF WiringIInv

\* The command of p ends and f is as it was: with what was said now, too.
LEMMA EndsUntouched ==
    ASSUME WiringIInv, NEW p \in Procs, NEW f \in Files, f = Cmd(p).file, todo[p] # <<>>, Moves(p),
           Clear(p, f), ~Mid(p, f)', ~Opened(p, f),
           file' = file, backups' = backups, said'[f] \in Sayings,
           f \in Notes \cup Plugins => said'[f].mcp \notin Endpoints,
           f \notin overlapped' /\ Wired(f, Content(file[f]), said[f])
              => Wired(f, Content(file[f]), said'[f])
    PROVE  WiringIInv'
<1>1. FileFine(f)
  BY DEF WiringIInv
<1>2. ~Copied(p, f)' /\ ~Drafted(p, f)' /\ ~Opened(p, f)'
  BY NotMid
<1>3. HoldsAt(f)'
  BY <1>1 DEF FileFine, HoldsAt
<1>4. \A n : InCopy(f, n)' <=> InCopy(f, n)
  BY DEF InCopy
<1>5. \A n \in Pieces : owner[n] = f /\ n \notin excused' => Has(file'[f], n) \/ InCopy(f, n)'
  BY <1>1, <1>4 DEF FileFine, CopiesAt, Moves
<1>6. ASSUME Lone(p, f), f \notin overlapped' PROVE Lone(p, f)'
  <2>1. Wired(f, Content(file'[f]), said'[f])
    BY <1>6 DEF Lone
  <2>2. f \notin Plugins \cup cut' => \A n \in Pieces : owner'[n] = f /\ n \notin excused' => Has(file'[f], n)
    BY <1>6 DEF Lone, Moves
  <2>3. f \in Notes \ cut' => Tidy(Content(file'[f]))
    BY <1>6 DEF Lone, Moves
  <2>4. QED BY <1>2, <2>1, <2>2, <2>3 DEF Lone
<1>7. FileFine(f)'
  <2>1. Lone(p, f) /\ f \notin overlapped' => Lone(p, f)'
    BY <1>6
  <2>2. QED BY <1>1, <1>2, <1>3, <1>4, <1>5, <2>1, OwnFile DEF Moves
<1>8. QED BY <1>7, MovesFine

----------------------------------------------------------------------------
(* The steps.                                                                *)

\* What a process at a step of its command is at.
LEMMA Acting ==
    ASSUME WiringIInv, NEW p \in Procs, todo[p] # <<>>
    PROVE  /\ WorkOK /\ Cmd(p) \in Commands /\ Cmd(p).file \in Files
           /\ steps[p] \in Stages(Cmd(p)) /\ Tail(todo[p]) \in Seq(Commands)
           /\ DOMAIN file = Files /\ DOMAIN said = Files /\ DOMAIN owner = Pieces
           /\ overlapped \subseteq Files /\ FileFine(Cmd(p).file)
<1>1. WorkOK
  BY DEF WiringIInv, WiringTypeOK
<1>2. QED BY <1>1, CmdFine DEF WiringIInv, WiringTypeOK

\* What is reported of a file is what can be reported of it.
LEMMA ReportFine ==
    ASSUME NEW f \in Files, NEW cmd \in Commands, cmd.file = f, Report(cmd),
           DOMAIN said = Files, HoldsAt(f)
    PROVE  /\ DOMAIN said' = Files /\ \A g \in Files \ {f} : said'[g] = said[g]
           /\ said'[f] = Reported(cmd, said[f]) /\ said'[f] \in Sayings
           /\ f \in Notes \cup Plugins => said'[f].mcp \notin Endpoints
<1>1. said' = [said EXCEPT ![f] = Reported(cmd, @)]
  BY DEF Report
<1>2. /\ DOMAIN said' = Files /\ \A g \in Files \ {f} : said'[g] = said[g]
      /\ said'[f] = Reported(cmd, said[f])
  BY <1>1
<1>3. said[f] \in Sayings
  BY DEF HoldsAt
<1>4. Reported(cmd, said[f]) \in Sayings
  BY <1>3, ReportedFine
<1>5. ASSUME f \in Notes \cup Plugins PROVE said'[f].mcp \notin Endpoints
  <2>1. said[f].mcp \notin Endpoints
    BY <1>5 DEF HoldsAt
  <2>2. cmd.op # "register"
    BY <1>5, KindsAssumption DEF Commands, IsCommand
  <2>3. cmd.op = "install" \/ cmd.op = "uninstall"
    BY <2>2 DEF Commands
  <2>4. QED BY <1>2, <1>3, <2>1, <2>3, ReportedFine
<1>6. QED BY <1>2, <1>4, <1>5

LEMMA LoadTornFine ==
    ASSUME WiringIInv, NEW p \in Procs, NEW f \in Files, f = Cmd(p).file, LoadTorn(p)
    PROVE  WiringIInv'
<1> DEFINE left == IF Cmd(p).child THEN Tail(todo[p]) ELSE <<>>
<1>1. todo[p] # <<>> /\ Head(steps[p]) = "load" /\ NextCmd(p, left) /\ Meets(p)
      /\ UNCHANGED <<machine, file, backups, second, runs, cutOffs, owner, said, cut, excused>>
  BY DEF LoadTorn, At, Fail
<1>2. /\ WorkOK /\ Tail(todo[p]) \in Seq(Commands)
      /\ DOMAIN file = Files /\ DOMAIN said = Files /\ overlapped \subseteq Files /\ FileFine(f)
  BY <1>1, Acting
<1>3. left \in Seq(Commands)
  BY <1>2
<1> HIDE DEF left
<1>4. WorkOK' /\ (\A q \in Procs \ {p} : Same(q)) /\ \A g : ~Mid(p, g)'
  BY <1>1, <1>2, <1>3, NextCmdFine
<1>5. Clear(p, f) /\ overlapped \subseteq overlapped' /\ overlapped' \subseteq overlapped \cup {f}
  BY <1>1, MeetsClears
<1>6. Moves(p)
  BY <1>1, <1>2, <1>4, <1>5 DEF Moves
<1>7. ~Opened(p, f)
  <2>1. Head(<<"write">>) # "load"
    OBVIOUS
  <2>2. QED BY <1>1, <2>1 DEF Opened
<1>8. said'[f] \in Sayings /\ (f \in Notes \cup Plugins => said'[f].mcp \notin Endpoints)
  BY <1>1, <1>2 DEF FileFine, HoldsAt
<1>9. QED BY <1>1, <1>4, <1>5, <1>6, <1>7, <1>8, EndsUntouched

LEMMA LoadUnneededFine ==
    ASSUME WiringIInv, NEW p \in Procs, NEW f \in Files, f = Cmd(p).file, LoadUnneeded(p)
    PROVE  WiringIInv'
<1>1. /\ todo[p] # <<>> /\ Head(steps[p]) = "load" /\ NextCmd(p, Tail(todo[p])) /\ Meets(p)
      /\ Report(Cmd(p)) /\ Unneeded(Cmd(p), file[f])
      /\ UNCHANGED <<machine, file, backups, second, runs, cutOffs, owner, cut, excused>>
  BY DEF LoadUnneeded, At, Finish
<1>2. /\ WorkOK /\ Tail(todo[p]) \in Seq(Commands) /\ Cmd(p) \in Commands
      /\ DOMAIN file = Files /\ DOMAIN said = Files /\ overlapped \subseteq Files /\ FileFine(f)
  BY <1>1, Acting
<1>4. WorkOK' /\ (\A q \in Procs \ {p} : Same(q)) /\ \A g : ~Mid(p, g)'
  BY <1>1, <1>2, NextCmdFine
<1>5. Clear(p, f) /\ overlapped \subseteq overlapped' /\ overlapped' \subseteq overlapped \cup {f}
  BY <1>1, MeetsClears
<1>6. /\ DOMAIN said' = Files /\ (\A g \in Files \ {f} : said'[g] = said[g])
      /\ said'[f] = Reported(Cmd(p), said[f]) /\ said'[f] \in Sayings
      /\ f \in Notes \cup Plugins => said'[f].mcp \notin Endpoints
  BY <1>1, <1>2, ReportFine DEF FileFine
<1>7. Moves(p)
  BY <1>1, <1>2, <1>4, <1>5, <1>6 DEF Moves
<1>8. ~Opened(p, f)
  <2>1. Head(<<"write">>) # "load"
    OBVIOUS
  <2>2. QED BY <1>1, <2>1 DEF Opened
<1>9. ASSUME Wired(f, Content(file[f]), said[f]) PROVE Wired(f, Content(file[f]), said'[f])
  <2> DEFINE c == Content(file[f])
             s == said[f]
             t == said'[f]
  <2>1. c \in Seq(Holds(f)) /\ \A x : Has(file[f], x) <=> Has(c, x)
    <3>1. CASE file[f] = None
      BY <3>1, NoContent, EmptyContent
    <3>2. CASE file[f] # None
      <4>1. file[f] \in Seq(Holds(f))
        BY <1>2, <3>2 DEF FileFine, HoldsAt
      <4>2. QED BY <4>1, IsContent
    <3>3. QED BY <3>1, <3>2
  <2>2. s \in Sayings
    BY <1>2 DEF FileFine, HoldsAt
  <2>3. InOrder(c) /\ AsSaid(f, c, s)
    BY <1>9 DEF Wired
  <2>4. Unneeded(Cmd(p), c)
    BY <1>1, <2>1 DEF Unneeded
  <2> HIDE DEF c
  <2>5. CASE Cmd(p).op = "uninstall"
    <3>1. t.hooks = "none" /\ t.mcp = s.mcp
      BY <1>2, <1>6, <2>2, <2>5, ReportedFine
    <3>2. \/ f \in Settings /\ ~Has(c, "inject")
          \/ f \in Plugins /\ ~Has(c, "plugin")
      BY <2>4, <2>5 DEF Unneeded
    <3>3. ~Has(c, Mark(f))
      BY <3>2, KindsAssumption DEF Mark
    <3>4. AsSaid(f, c, t)
      BY <2>3, <3>1, <3>3 DEF AsSaid
    <3>5. QED BY <2>3, <3>4 DEF Wired, c
  <2>6. CASE Cmd(p).op = "register"
    <3>1. t.hooks = s.hooks /\ t.mcp = Cmd(p).arg
      BY <1>2, <1>6, <2>2, <2>6, ReportedFine
    <3>2. Has(c, Cmd(p).arg)
      BY <2>4, <2>6 DEF Unneeded
    <3>3. AsSaid(f, c, t)
      BY <2>3, <3>1, <3>2 DEF AsSaid
    <3>4. QED BY <2>3, <3>3 DEF Wired, c
  <2>7. QED BY <2>4, <2>5, <2>6 DEF Unneeded
<1>10. QED BY <1>1, <1>4, <1>5, <1>6, <1>7, <1>8, <1>9, EndsUntouched

LEMMA BackupUnneededFine ==
    ASSUME WiringIInv, NEW p \in Procs, NEW f \in Files, f = Cmd(p).file, BackupUnneeded(p)
    PROVE  WiringIInv'
<1>1. /\ todo[p] # <<>> /\ Head(steps[p]) = "backup" /\ NextCmd(p, Tail(todo[p])) /\ Meets(p)
      /\ Report(Cmd(p)) /\ Cmd(p).op = "uninstall" /\ f \in Notes /\ file[f] = None
      /\ UNCHANGED <<machine, file, backups, second, runs, cutOffs, owner, cut, excused>>
  BY DEF BackupUnneeded, At, Finish, Absent
<1>2. /\ WorkOK /\ Tail(todo[p]) \in Seq(Commands) /\ Cmd(p) \in Commands
      /\ DOMAIN file = Files /\ DOMAIN said = Files /\ overlapped \subseteq Files /\ FileFine(f)
  BY <1>1, Acting
<1>4. WorkOK' /\ (\A q \in Procs \ {p} : Same(q)) /\ \A g : ~Mid(p, g)'
  BY <1>1, <1>2, NextCmdFine
<1>5. Clear(p, f) /\ overlapped \subseteq overlapped' /\ overlapped' \subseteq overlapped \cup {f}
  BY <1>1, MeetsClears
<1>6. /\ DOMAIN said' = Files /\ (\A g \in Files \ {f} : said'[g] = said[g])
      /\ said'[f] = Reported(Cmd(p), said[f]) /\ said'[f] \in Sayings
      /\ f \in Notes \cup Plugins => said'[f].mcp \notin Endpoints
  BY <1>1, <1>2, ReportFine DEF FileFine
<1>7. Moves(p)
  BY <1>1, <1>2, <1>4, <1>5, <1>6 DEF Moves
<1>8. ~Opened(p, f)
  <2>1. Head(<<"write">>) # "backup"
    OBVIOUS
  <2>2. QED BY <1>1, <2>1 DEF Opened
<1>9. Wired(f, Content(file[f]), said'[f])
  <2>1. said[f] \in Sayings
    BY <1>2 DEF FileFine, HoldsAt
  <2>2. said'[f].hooks = "none"
    BY <1>1, <1>2, <1>6, <2>1, ReportedFine
  <2>3. InOrder(Content(file[f])) /\ \A x : ~Has(Content(file[f]), x)
    BY <1>1, NoContent, EmptyContent
  <2>4. QED BY <1>1, <1>6, <2>2, <2>3 DEF Wired, AsSaid
<1>10. QED BY <1>1, <1>4, <1>5, <1>6, <1>7, <1>8, <1>9, EndsUntouched

\* What a command makes of a file it may write.
LEMMA NewFine ==
    ASSUME NEW f \in Settings \cup Notes, NEW c \in Seq(Holds(f)), NEW cmd \in Commands, cmd.file = f
    PROVE  LET w == New(cmd, c) IN
           /\ w \in Seq(Holds(f))
           /\ InOrder(c) /\ (f \in Notes => Tidy(c)) =>
                  /\ f \in Notes => Tidy(w)
                  /\ \A n \in Pieces : Has(c, n) => Has(w, n)
           /\ \A s \in Sayings : Wired(f, c, s) => Wired(f, w, Reported(cmd, s))
<1>1. CASE f \in Settings
  <2>1. f \notin Notes
    BY <1>1, KindsAssumption
  <2>2. QED BY <1>1, <2>1, SettingsNew
<1>2. CASE f \in Notes
  BY <1>2, NotesNew
<1>3. QED BY <1>1, <1>2

LEMMA ContentFine ==
    ASSUME NEW f \in Files, HoldsAt(f)
    PROVE  /\ Content(file[f]) \in Seq(Holds(f))
           /\ \A x : Has(file[f], x) <=> Has(Content(file[f]), x)
<1>1. CASE file[f] = None
  BY <1>1, NoContent, EmptyContent
<1>2. CASE file[f] # None
  <2>1. file[f] \in Seq(Holds(f))
    BY <1>2 DEF HoldsAt
  <2>2. QED BY <2>1, IsContent
<1>3. QED BY <1>1, <1>2

LEMMA LoadFine ==
    ASSUME WiringIInv, NEW p \in Procs, NEW f \in Files, f = Cmd(p).file, Load(p)
    PROVE  WiringIInv'
<1> DEFINE c == Content(file[f])
           w == New(Cmd(p), c)
           st == steps[p]
<1>1. /\ todo[p] # <<>> /\ Head(st) = "load" /\ Meets(p)
      /\ draft' = [draft EXCEPT ![p] = w]
      /\ steps' = [steps EXCEPT ![p] = Tail(@)] /\ todo' = todo
      /\ UNCHANGED <<machine, file, backups, second, runs, cutOffs, owner, said, cut, excused>>
  BY DEF Load, At, GoOn
<1>2. /\ WorkOK /\ Cmd(p) \in Commands /\ st \in Stages(Cmd(p))
      /\ DOMAIN file = Files /\ DOMAIN said = Files /\ overlapped \subseteq Files /\ FileFine(f)
  BY <1>1, Acting
<1>3. Onward(p) /\ draft'[p] = w
  BY <1>1, <1>2 DEF Onward, WorkOK
<1>4. /\ Tail(st) \in Stages(Cmd(p)) /\ Tail(st) # Steps(Cmd(p))
      /\ \/ f \in Plugins /\ Tail(st) = <<"unlink">>
         \/ f \in Notes /\ st = <<"load", "open", "write">> /\ Tail(st) = <<"open", "write">> /\ st # Steps(Cmd(p))
         \/ f \in Settings \cup Notes /\ st = <<"load", "backup", "open", "write">>
            /\ Tail(st) = <<"backup", "open", "write">> /\ st = Steps(Cmd(p))
  BY <1>1, <1>2, AtLoad
<1>5. /\ WorkOK' /\ (\A q \in Procs \ {p} : Same(q))
      /\ todo'[p] = todo[p] /\ steps'[p] = Tail(st) /\ Cmd(p)' = Cmd(p)
      /\ \A g : Mid(p, g)' => g = f
  BY <1>1, <1>2, <1>3, <1>4, OnwardFine
<1>6. Clear(p, f) /\ overlapped \subseteq overlapped' /\ overlapped' \subseteq overlapped \cup {f}
  BY <1>1, MeetsClears
<1>7. Moves(p)
  BY <1>1, <1>2, <1>5, <1>6 DEF Moves
<1>8. c \in Seq(Holds(f)) /\ \A x : Has(file[f], x) <=> Has(c, x)
  BY <1>2, ContentFine DEF FileFine
<1>9. f \notin Settings \cup Notes => Tail(st) = <<"unlink">>
  BY <1>4
<1>10. f \in Settings \cup Notes =>
          /\ w \in Seq(Holds(f))
          /\ InOrder(c) /\ (f \in Notes => Tidy(c)) =>
                  /\ f \in Notes => Tidy(w)
                  /\ \A n \in Pieces : Has(c, n) => Has(w, n)
          /\ \A s \in Sayings : Wired(f, c, s) => Wired(f, w, Reported(Cmd(p), s))
  <2> HIDE DEF c
  <2>1. QED BY <1>2, <1>8, NewFine
<1> HIDE DEF w
<1>11. ~Opened(p, f) /\ ~Opened(p, f)'
  <2>1. Head(<<"write">>) # "load" /\ <<"unlink">> # <<"write">> /\ <<"open", "write">> # <<"write">>
        /\ <<"backup", "open", "write">> # <<"write">>
    OBVIOUS
  <2>2. QED BY <1>1, <1>4, <1>5, <2>1 DEF Opened
<1>12. Copied(p, f)' => Copied(p, f)
  <2>1. /\ <<"unlink">> \notin {<<"load", "open", "write">>, <<"open", "write">>, <<"write">>, <<"cli">>}
        /\ <<"backup", "open", "write">> \notin {<<"load", "open", "write">>, <<"open", "write">>, <<"write">>, <<"cli">>}
    OBVIOUS
  <2>2. QED BY <1>1, <1>4, <1>5, <2>1 DEF Copied, Mid
<1>13. Drafted(p, f)' => f \in Settings \cup Notes
  BY DEF Drafted
<1>14. HoldsAt(f)' /\ (Drafted(p, f)' => draft'[p] \in Seq(Holds(f)))
  BY <1>1, <1>2, <1>3, <1>10, <1>13 DEF FileFine, HoldsAt
<1>15. \A n : InCopy(f, n)' <=> InCopy(f, n)
  BY <1>1 DEF InCopy
<1>16. \A n \in Pieces : owner[n] = f /\ n \notin excused' =>
          (Has(file'[f], n) \/ InCopy(f, n)') /\ (Copied(p, f)' => InCopy(f, n)')
  BY <1>1, <1>2, <1>12, <1>15 DEF FileFine, CopiesAt
<1>17. ASSUME Lone(p, f) PROVE Lone(p, f)'
  <2>1. Wired(f, c, said[f]) /\ said[f] \in Sayings
    BY <1>2, <1>11, <1>17 DEF Lone, FileFine, HoldsAt
  <2>2. Wired(f, Content(file'[f]), said'[f])
    BY <1>1, <2>1
  <2>3. Drafted(p, f)' => Wired(f, draft'[p], Reported(Cmd(p)', said'[f]))
    BY <1>1, <1>3, <1>5, <1>10, <1>13, <2>1
  <2>4. f \in Notes \ cut => Tidy(c)
    BY <1>17 DEF Lone
  <2>5. f \in Notes \ cut' => Tidy(Content(file'[f])) /\ (Drafted(p, f)' => Tidy(draft'[p]))
    BY <1>1, <1>3, <1>10, <2>1, <2>4 DEF Wired
  <2>6. f \notin Plugins \cup cut => \A n \in Pieces : owner[n] = f /\ n \notin excused => Has(file[f], n)
    BY <1>11, <1>17 DEF Lone
  <2>7. f \notin Plugins \cup cut' => \A n \in Pieces : owner'[n] = f /\ n \notin excused' =>
            /\ Has(file'[f], n) \/ Opened(p, f)'
            /\ Drafted(p, f)' => Has(draft'[p], n)
    BY <1>1, <1>3, <1>8, <1>10, <1>13, <2>1, <2>4, <2>6 DEF Wired
  <2>8. QED BY <2>2, <2>3, <2>5, <2>7 DEF Lone
<1>18. FileFine(f)'
  BY <1>1, <1>2, <1>5, <1>6, <1>14, <1>15, <1>16, <1>17, OwnFile
<1>19. QED BY <1>1, <1>7, <1>18, MovesFine

LEMMA BackupFine ==
    ASSUME WiringIInv, NEW p \in Procs, NEW f \in Files, f = Cmd(p).file, _backup(p)
    PROVE  WiringIInv'
<1> DEFINE st == steps[p]
           by == IF Cmd(p).op = "register" THEN "do-bak" ELSE "kb-bak"
           replaced == {b \in backups : SameName(b, p)}
           made == [of |-> f, by |-> by, second |-> second, content |-> file[f]]
<1>1. /\ todo[p] # <<>> /\ Head(st) = "backup" /\ Meets(p)
      /\ steps' = [steps EXCEPT ![p] = Tail(@)] /\ todo' = todo
      /\ IF file[f] = None THEN UNCHANGED <<backups, excused>>
         ELSE /\ backups' = (backups \ replaced) \cup {made}
              /\ excused' = excused \cup {n \in Pieces : \E b \in replaced : Has(b.content, n)}
      /\ UNCHANGED <<machine, file, second, draft, runs, cutOffs, owner, said, cut>>
  BY DEF _backup, At, GoOn
<1>2. /\ WorkOK /\ Cmd(p) \in Commands /\ st \in Stages(Cmd(p))
      /\ DOMAIN file = Files /\ DOMAIN said = Files /\ overlapped \subseteq Files /\ FileFine(f)
  BY <1>1, Acting
<1>3. Onward(p)
  BY <1>1, <1>2 DEF Onward, WorkOK
<1>4. /\ Tail(st) \in Stages(Cmd(p)) /\ Tail(st) # Steps(Cmd(p)) /\ st # <<"write">>
      /\ \/ f \in Plugins /\ Tail(st) = <<"open", "write">>
         \/ f \in CliFiles /\ Tail(st) = <<"cli">>
         \/ f \in Notes /\ Tail(st) = <<"load", "open", "write">>
         \/ f \in Settings \cup Notes /\ st = <<"backup", "open", "write">>
            /\ Tail(st) = <<"open", "write">> /\ st # Steps(Cmd(p))
  BY <1>1, <1>2, AtBackup
<1>5. /\ WorkOK' /\ (\A q \in Procs \ {p} : Same(q))
      /\ todo'[p] = todo[p] /\ steps'[p] = Tail(st) /\ Cmd(p)' = Cmd(p)
      /\ \A g : Mid(p, g)' => g = f
  BY <1>1, <1>2, <1>3, <1>4, OnwardFine
<1>6. Clear(p, f) /\ overlapped \subseteq overlapped' /\ overlapped' \subseteq overlapped \cup {f}
  BY <1>1, MeetsClears
<1>7. /\ excused \subseteq excused'
      /\ \A b \in backups : b.of # f => b \in backups'
  BY <1>1 DEF SameName
<1>8. Moves(p)
  BY <1>1, <1>2, <1>5, <1>6, <1>7 DEF Moves
<1>9. ~Opened(p, f) /\ ~Opened(p, f)'
  <2>1. /\ <<"open", "write">> # <<"write">> /\ <<"cli">> # <<"write">>
        /\ <<"load", "open", "write">> # <<"write">>
    OBVIOUS
  <2>2. QED BY <1>4, <1>5, <2>1 DEF Opened
<1>10. Drafted(p, f)' => Drafted(p, f)
  <2>1. <<"load", "open", "write">> \notin {<<"backup", "open", "write">>, <<"open", "write">>, <<"write">>}
    OBVIOUS
  <2>2. f \in Settings \cup Notes => f \notin Plugins \cup CliFiles
    BY KindsAssumption
  <2>3. QED BY <1>1, <1>4, <1>5, <2>1, <2>2 DEF Drafted, Mid
<1>11. HoldsAt(f)' /\ (Drafted(p, f)' => draft'[p] \in Seq(Holds(f)))
  BY <1>1, <1>2, <1>10 DEF FileFine, HoldsAt, DraftsAt
<1>12. ASSUME NEW n \in Pieces, n \notin excused', InCopy(f, n) PROVE InCopy(f, n)'
  <2>1. PICK b \in backups : b.of = f /\ Has(b.content, n)
    BY <1>12 DEF InCopy
  <2>2. b \in backups'
    BY <1>1, <1>12, <2>1
  <2>3. QED BY <2>1, <2>2 DEF InCopy
<1>13. ASSUME NEW n \in Pieces, owner[n] = f, n \notin excused' PROVE InCopy(f, n)'
  <2>1. Has(file[f], n) \/ InCopy(f, n)
    BY <1>2, <1>7, <1>13 DEF FileFine, CopiesAt
  <2>2. CASE Has(file[f], n)
    <3>1. file[f] # None
      BY <2>2, NoContent
    <3>2. made \in backups' /\ made.of = f /\ made.content = file[f]
      BY <1>1, <3>1
    <3>3. QED BY <2>2, <3>2 DEF InCopy
  <2>3. QED BY <1>12, <1>13, <2>1, <2>2
<1>14. ASSUME Lone(p, f) PROVE Lone(p, f)'
  BY <1>1, <1>5, <1>7, <1>9, <1>10, <1>14 DEF Lone
<1>15. FileFine(f)'
  BY <1>1, <1>2, <1>5, <1>6, <1>7, <1>11, <1>12, <1>13, <1>14, OwnFile
<1>16. QED BY <1>1, <1>8, <1>15, MovesFine

LEMMA OpenFine ==
    ASSUME WiringIInv, NEW p \in Procs, NEW f \in Files, f = Cmd(p).file, Open(p)
    PROVE  WiringIInv'
<1> DEFINE st == steps[p]
<1>1. /\ todo[p] # <<>> /\ Head(st) = "open" /\ Meets(p)
      /\ file' = [file EXCEPT ![f] = <<>>]
      /\ steps' = [steps EXCEPT ![p] = Tail(@)] /\ todo' = todo
      /\ UNCHANGED <<machine, backups, second, draft, runs, cutOffs, owner, said, cut, excused>>
  BY DEF Open, At, GoOn
<1>2. /\ WorkOK /\ Cmd(p) \in Commands /\ st \in Stages(Cmd(p))
      /\ DOMAIN file = Files /\ DOMAIN said = Files /\ overlapped \subseteq Files /\ FileFine(f)
  BY <1>1, Acting
<1>3. Onward(p)
  BY <1>1, <1>2 DEF Onward, WorkOK
<1>4. /\ st = <<"open", "write">> /\ Tail(st) = <<"write">> /\ Tail(st) \in Stages(Cmd(p))
      /\ Tail(st) # Steps(Cmd(p)) /\ st # Steps(Cmd(p))
  BY <1>1, <1>2, AtEnd
<1>5. /\ WorkOK' /\ (\A q \in Procs \ {p} : Same(q))
      /\ todo'[p] = todo[p] /\ steps'[p] = <<"write">> /\ Cmd(p)' = Cmd(p)
      /\ \A g : Mid(p, g)' => g = f
  BY <1>1, <1>2, <1>3, <1>4, OnwardFine
<1>6. Clear(p, f) /\ overlapped \subseteq overlapped' /\ overlapped' \subseteq overlapped \cup {f}
  BY <1>1, MeetsClears
<1>7. /\ DOMAIN file' = Files /\ (\A g \in Files \ {f} : file'[g] = file[g]) /\ file'[f] = <<>>
  BY <1>1, <1>2
<1>8. Moves(p)
  BY <1>1, <1>2, <1>5, <1>6, <1>7 DEF Moves
<1>9. Mid(p, f) /\ Mid(p, f)' /\ Opened(p, f)'
  BY <1>1, <1>4, <1>5 DEF Mid, Opened
<1>10. Copied(p, f) /\ (Drafted(p, f)' => Drafted(p, f))
  BY <1>4, <1>9 DEF Copied, Drafted
<1>11. <<>> \in Seq(Holds(f)) /\ Content(file'[f]) = <<>> /\ Tidy(<<>>)
  BY <1>7, EmptyContent, IsContent
<1>12. HoldsAt(f)' /\ (Drafted(p, f)' => draft'[p] \in Seq(Holds(f)))
  BY <1>1, <1>2, <1>7, <1>10, <1>11 DEF FileFine, HoldsAt, DraftsAt
<1>13. \A n : InCopy(f, n)' <=> InCopy(f, n)
  BY <1>1 DEF InCopy
<1>14. \A n \in Pieces : owner[n] = f /\ n \notin excused' => InCopy(f, n)'
  BY <1>1, <1>2, <1>10, <1>13 DEF FileFine, CopiesAt
<1>15. ASSUME Lone(p, f) PROVE Lone(p, f)'
  <2>1. Drafted(p, f)' => Wired(f, draft'[p], Reported(Cmd(p)', said'[f]))
    BY <1>1, <1>5, <1>10, <1>15 DEF Lone
  <2>2. f \notin Plugins \cup cut' => \A n \in Pieces : owner'[n] = f /\ n \notin excused' =>
            (Drafted(p, f)' => Has(draft'[p], n))
    BY <1>1, <1>10, <1>15 DEF Lone
  <2>3. f \in Notes \ cut' => Tidy(Content(file'[f])) /\ (Drafted(p, f)' => Tidy(draft'[p]))
    BY <1>1, <1>10, <1>11, <1>15 DEF Lone
  <2>4. QED BY <1>9, <2>1, <2>2, <2>3 DEF Lone
<1>16. FileFine(f)'
  BY <1>1, <1>2, <1>5, <1>6, <1>12, <1>13, <1>14, <1>15, OwnFile
<1>17. QED BY <1>1, <1>8, <1>16, MovesFine

\* The plugin's file, as a command leaves it.
LEMMA PluginNew ==
    ASSUME NEW f \in Plugins, NEW cmd \in Commands, cmd.file = f, cmd.op = "install"
    PROVE  LET w == New(cmd, <<>>) IN
           /\ w = <<"plugin">> /\ w \in Seq(Holds(f)) /\ InOrder(w)
           /\ Has(w, "plugin") /\ ~Has(w, "pre-tool")
<1>1. f \in Files /\ "plugin" \in Holds(f)
  BY HeldByKind DEF Files
<1>2. f \notin Notes /\ f \notin Settings /\ f \notin CliFiles
  BY KindsAssumption
<1>3. New(cmd, <<>>) = <<"plugin">>
  BY <1>2 DEF New, install, _managed_block
<1>4. <<"plugin">> \in Seq(Holds(f)) /\ DOMAIN <<"plugin">> = {1} /\ <<"plugin">>[1] = "plugin"
  BY <1>1
<1>5. Has(<<"plugin">>, "plugin") /\ ~Has(<<"plugin">>, "pre-tool")
  <2> DEFINE w == <<"plugin">>
  <2>1. w \in Seq(Holds(f)) /\ DOMAIN w = {1} /\ w[1] = "plugin"
    BY <1>4
  <2> HIDE DEF w
  <2>2. \A x : Has(w, x) <=> \E i \in DOMAIN w : w[i] = x
    BY <1>1, <2>1, IsContent
  <2>3. Has(w, "plugin") /\ ~Has(w, "pre-tool")
    BY <2>1, <2>2
  <2>4. QED BY <2>3 DEF w
<1>6. Once(<<"plugin">>, {"plugin"})
  BY <1>4 DEF Once
<1>7. InOrder(<<"plugin">>)
  BY <1>1, <1>2, <1>4, <1>6, InOrderOfKind
<1>8. QED BY <1>3, <1>4, <1>5, <1>7

\* What an opened file is going to be written.
LEMMA WrittenFine ==
    ASSUME WiringIInv, NEW p \in Procs, NEW f \in Files, f = Cmd(p).file, At(p, "write")
    PROVE  /\ Opened(p, f) /\ Copied(p, f) /\ f \notin CliFiles
           /\ Written(p) \in Seq(Holds(f))
           /\ f \notin Plugins => Written(p) = draft[p] /\ Drafted(p, f)
           /\ Lone(p, f) => Wired(f, Written(p), Reported(Cmd(p), said[f]))
<1>1. todo[p] # <<>> /\ Head(steps[p]) = "write"
  BY DEF At
<1>2. Cmd(p) \in Commands /\ steps[p] \in Stages(Cmd(p)) /\ FileFine(f)
  BY <1>1, Acting
<1>3. /\ steps[p] = <<"write">> /\ steps[p] # Steps(Cmd(p)) /\ f \notin CliFiles
      /\ f \in Plugins => Cmd(p).op = "install"
  BY <1>1, <1>2, AtEnd
<1>4. Mid(p, f) /\ Opened(p, f) /\ Copied(p, f)
  BY <1>1, <1>3 DEF Mid, Opened, Copied
<1>5. CASE f \in Plugins
  <2>1. Written(p) = New(Cmd(p), <<>>)
    BY <1>5 DEF Written
  <2>2. /\ Written(p) \in Seq(Holds(f)) /\ InOrder(Written(p))
        /\ Has(Written(p), "plugin") /\ ~Has(Written(p), "pre-tool")
    BY <1>2, <1>3, <1>5, <2>1, PluginNew
  <2>3. said[f] \in Sayings /\ said[f].mcp \notin Endpoints
    BY <1>2, <1>5 DEF FileFine, HoldsAt
  <2>4. /\ Reported(Cmd(p), said[f]).hooks = Cmd(p).arg
        /\ Reported(Cmd(p), said[f]).mcp = said[f].mcp
    BY <1>2, <1>3, <1>5, <2>3, ReportedFine
  <2>5. Cmd(p).arg \in {"hard", "soft"}
    BY <1>2, <1>3, <1>5 DEF Commands, IsCommand
  <2>6. f \notin Settings /\ f \notin Notes
    BY <1>5, KindsAssumption
  <2>7. AsSaid(f, Written(p), Reported(Cmd(p), said[f]))
    BY <1>5, <2>2, <2>3, <2>4, <2>5, <2>6 DEF AsSaid, Mark
  <2>8. QED BY <1>3, <1>4, <1>5, <2>2, <2>7 DEF Wired
<1>6. CASE f \notin Plugins
  <2>1. Drafted(p, f) /\ Written(p) = draft[p]
    BY <1>3, <1>4, <1>6 DEF Drafted, Written, Files
  <2>2. draft[p] \in Seq(Holds(f))
    BY <1>2, <2>1 DEF FileFine, DraftsAt
  <2>3. QED BY <1>3, <1>4, <1>6, <2>1, <2>2 DEF Lone
<1>7. QED BY <1>5, <1>6

LEMMA WriteFine ==
    ASSUME WiringIInv, NEW p \in Procs, NEW f \in Files, f = Cmd(p).file, Write(p)
    PROVE  WiringIInv'
<1> DEFINE w == Written(p)
<1>1. /\ At(p, "write") /\ todo[p] # <<>> /\ NextCmd(p, Tail(todo[p])) /\ Meets(p)
      /\ file' = [file EXCEPT ![f] = w] /\ Report(Cmd(p))
      /\ UNCHANGED <<machine, backups, second, runs, cutOffs, owner, cut, excused>>
  BY DEF Write, At, Finish
<1>2. /\ WorkOK /\ Tail(todo[p]) \in Seq(Commands) /\ Cmd(p) \in Commands
      /\ DOMAIN file = Files /\ DOMAIN said = Files /\ overlapped \subseteq Files /\ FileFine(f)
  BY <1>1, Acting
<1>3. /\ Opened(p, f) /\ Copied(p, f) /\ f \notin CliFiles
      /\ w \in Seq(Holds(f))
      /\ f \notin Plugins => w = draft[p] /\ Drafted(p, f)
      /\ Lone(p, f) => Wired(f, w, Reported(Cmd(p), said[f]))
  BY <1>1, WrittenFine
<1> HIDE DEF w
<1>4. WorkOK' /\ (\A q \in Procs \ {p} : Same(q)) /\ \A g : ~Mid(p, g)'
  BY <1>1, <1>2, NextCmdFine
<1>5. Clear(p, f) /\ overlapped \subseteq overlapped' /\ overlapped' \subseteq overlapped \cup {f}
  BY <1>1, MeetsClears
<1>6. /\ DOMAIN said' = Files /\ (\A g \in Files \ {f} : said'[g] = said[g])
      /\ said'[f] = Reported(Cmd(p), said[f]) /\ said'[f] \in Sayings
      /\ f \in Notes \cup Plugins => said'[f].mcp \notin Endpoints
  BY <1>1, <1>2, ReportFine DEF FileFine
<1>7. DOMAIN file' = Files /\ (\A g \in Files \ {f} : file'[g] = file[g]) /\ file'[f] = w
  BY <1>1, <1>2
<1>8. Moves(p)
  BY <1>1, <1>2, <1>4, <1>5, <1>6, <1>7 DEF Moves
<1>9. ~Copied(p, f)' /\ ~Drafted(p, f)' /\ ~Opened(p, f)'
  BY <1>4, NotMid
<1>10. HoldsAt(f)' /\ Content(file'[f]) = w
  BY <1>3, <1>6, <1>7, IsContent DEF HoldsAt
<1>11. \A n : InCopy(f, n)' <=> InCopy(f, n)
  BY <1>1 DEF InCopy
<1>12. \A n \in Pieces : owner[n] = f /\ n \notin excused' => InCopy(f, n)'
  BY <1>1, <1>2, <1>3, <1>11 DEF FileFine, CopiesAt
<1>13. ASSUME Lone(p, f) PROVE Lone(p, f)'
  <2>1. Wired(f, Content(file'[f]), said'[f])
    BY <1>3, <1>6, <1>10, <1>13
  <2>2. f \notin Plugins \cup cut' => \A n \in Pieces : owner'[n] = f /\ n \notin excused' => Has(file'[f], n)
    BY <1>1, <1>3, <1>7, <1>13 DEF Lone
  <2>3. f \in Notes \ cut' => Tidy(Content(file'[f]))
    <3>1. f \in Notes => f \notin Plugins
      BY KindsAssumption
    <3>2. QED BY <1>1, <1>3, <1>10, <1>13, <3>1 DEF Lone
  <2>4. QED BY <1>9, <2>1, <2>2, <2>3 DEF Lone
<1>14. FileFine(f)'
  BY <1>1, <1>2, <1>4, <1>5, <1>9, <1>10, <1>11, <1>12, <1>13, OwnFile
<1>15. QED BY <1>1, <1>8, <1>14, MovesFine

LEMMA UnlinkFine ==
    ASSUME WiringIInv, NEW p \in Procs, NEW f \in Files, f = Cmd(p).file, Unlink(p)
    PROVE  WiringIInv'
<1>1. /\ todo[p] # <<>> /\ Head(steps[p]) = "unlink" /\ NextCmd(p, Tail(todo[p])) /\ Meets(p)
      /\ file' = [file EXCEPT ![f] = None] /\ Report(Cmd(p))
      /\ excused' = excused \cup {n \in Pieces : Has(file[f], n)}
      /\ UNCHANGED <<machine, backups, second, runs, cutOffs, owner, cut>>
  BY DEF Unlink, At, Finish
<1>2. /\ WorkOK /\ Tail(todo[p]) \in Seq(Commands) /\ Cmd(p) \in Commands /\ steps[p] \in Stages(Cmd(p))
      /\ DOMAIN file = Files /\ DOMAIN said = Files /\ overlapped \subseteq Files /\ FileFine(f)
  BY <1>1, Acting
<1>3. f \in Plugins /\ Cmd(p).op = "uninstall"
  BY <1>1, <1>2, AtEnd
<1>4. WorkOK' /\ (\A q \in Procs \ {p} : Same(q)) /\ \A g : ~Mid(p, g)'
  BY <1>1, <1>2, NextCmdFine
<1>5. Clear(p, f) /\ overlapped \subseteq overlapped' /\ overlapped' \subseteq overlapped \cup {f}
  BY <1>1, MeetsClears
<1>6. /\ DOMAIN said' = Files /\ (\A g \in Files \ {f} : said'[g] = said[g])
      /\ said'[f] = Reported(Cmd(p), said[f]) /\ said'[f] \in Sayings
      /\ f \in Notes \cup Plugins => said'[f].mcp \notin Endpoints
  BY <1>1, <1>2, ReportFine DEF FileFine
<1>7. DOMAIN file' = Files /\ (\A g \in Files \ {f} : file'[g] = file[g]) /\ file'[f] = None
  BY <1>1, <1>2
<1>8. Moves(p)
  BY <1>1, <1>2, <1>4, <1>5, <1>6, <1>7 DEF Moves
<1>9. ~Copied(p, f)' /\ ~Drafted(p, f)' /\ ~Opened(p, f)'
  BY <1>4, NotMid
<1>10. HoldsAt(f)'
  BY <1>6, <1>7 DEF HoldsAt
<1>11. \A n : InCopy(f, n)' <=> InCopy(f, n)
  BY <1>1 DEF InCopy
<1>12. \A n \in Pieces : owner[n] = f /\ n \notin excused' => InCopy(f, n)'
  BY <1>1, <1>2, <1>11 DEF FileFine, CopiesAt
<1>13. Lone(p, f)'
  <2>1. said[f] \in Sayings
    BY <1>2 DEF FileFine, HoldsAt
  <2>2. said'[f].hooks = "none" /\ said'[f].mcp \notin Endpoints
    BY <1>2, <1>3, <1>6, <2>1, ReportedFine
  <2>3. InOrder(Content(file'[f])) /\ \A x : ~Has(Content(file'[f]), x)
    BY <1>7, NoContent, EmptyContent
  <2>4. Wired(f, Content(file'[f]), said'[f])
    BY <2>2, <2>3 DEF Wired, AsSaid
  <2>5. f \notin Notes
    BY <1>3, KindsAssumption
  <2>6. QED BY <1>3, <1>9, <2>4, <2>5 DEF Lone
<1>14. FileFine(f)'
  <2>1. excused \subseteq excused'
    BY <1>1
  <2>2. QED BY <1>1, <1>2, <1>4, <1>5, <1>9, <1>10, <1>11, <1>12, <1>13, <2>1, OwnFile
<1>15. QED BY <1>1, <1>8, <1>14, MovesFine

\* The agent's CLI leaves what there is, or adds the endpoint.
LEMMA CliFine ==
    ASSUME WiringIInv, NEW p \in Procs, NEW f \in Files, f = Cmd(p).file, Cli(p)
    PROVE  WiringIInv'
<1> DEFINE c == Content(file[f])
           url == Cmd(p).arg
           a == Append(c, url)
<1>1. /\ todo[p] # <<>> /\ Head(steps[p]) = "cli" /\ NextCmd(p, Tail(todo[p])) /\ Meets(p)
      /\ IF \E x \in Endpoints : Has(file[f], x) THEN UNCHANGED <<file, said>>
         ELSE file' = [file EXCEPT ![f] = Append(Content(@), Cmd(p).arg)] /\ Report(Cmd(p))
      /\ UNCHANGED <<machine, backups, second, runs, cutOffs, owner, cut, excused>>
  BY DEF Cli, At, Finish
<1>2. /\ WorkOK /\ Tail(todo[p]) \in Seq(Commands) /\ Cmd(p) \in Commands /\ steps[p] \in Stages(Cmd(p))
      /\ DOMAIN file = Files /\ DOMAIN said = Files /\ overlapped \subseteq Files /\ FileFine(f)
  BY <1>1, Acting
<1>3. f \in CliFiles /\ steps[p] = <<"cli">>
  BY <1>1, <1>2, AtEnd
<1>4. WorkOK' /\ (\A q \in Procs \ {p} : Same(q)) /\ \A g : ~Mid(p, g)'
  BY <1>1, <1>2, NextCmdFine
<1>5. Clear(p, f) /\ overlapped \subseteq overlapped' /\ overlapped' \subseteq overlapped \cup {f}
  BY <1>1, MeetsClears
<1>6. f \notin Settings /\ f \notin Notes /\ f \notin Plugins
  BY <1>3, KindsAssumption
<1>7. ~Opened(p, f)
  <2>1. Head(<<"write">>) # "cli"
    OBVIOUS
  <2>2. QED BY <1>1, <2>1 DEF Opened
<1>8. CASE \E x \in Endpoints : Has(file[f], x)
  <2>1. file' = file /\ said' = said
    BY <1>1, <1>8
  <2>2. Moves(p)
    BY <1>1, <1>2, <1>4, <1>5, <2>1 DEF Moves
  <2>3. said'[f] \in Sayings /\ (f \in Notes \cup Plugins => said'[f].mcp \notin Endpoints)
    BY <1>2, <2>1 DEF FileFine, HoldsAt
  <2>4. QED BY <1>1, <1>4, <1>5, <1>7, <2>1, <2>2, <2>3, EndsUntouched
<1>9. CASE ~\E x \in Endpoints : Has(file[f], x)
  <2>1. file' = [file EXCEPT ![f] = Append(Content(@), Cmd(p).arg)] /\ Report(Cmd(p))
    BY <1>1, <1>9
  <2>2. /\ DOMAIN said' = Files /\ (\A g \in Files \ {f} : said'[g] = said[g])
        /\ said'[f] = Reported(Cmd(p), said[f]) /\ said'[f] \in Sayings
        /\ f \in Notes \cup Plugins => said'[f].mcp \notin Endpoints
    BY <1>2, <2>1, ReportFine DEF FileFine
  <2>3. DOMAIN file' = Files /\ (\A g \in Files \ {f} : file'[g] = file[g]) /\ file'[f] = a
    BY <1>2, <2>1
  <2>4. Moves(p)
    BY <1>1, <1>2, <1>4, <1>5, <2>2, <2>3 DEF Moves
  <2>5. ~Copied(p, f)' /\ ~Drafted(p, f)' /\ ~Opened(p, f)'
    BY <1>4, NotMid
  <2>6. Cmd(p).op = "register" /\ url \in Endpoints
    BY <1>2, <1>3 DEF Commands, IsCommand
  <2>7. HoldsAt(f)
    BY <1>2 DEF FileFine
  <2>8. c \in Seq(Holds(f)) /\ \A x : Has(file[f], x) <=> Has(c, x)
    BY <2>7, ContentFine
  <2>9. url \in Holds(f)
    BY <1>3, <2>6, HeldByKind
  <2>10. \A x \in Endpoints : ~Has(c, x)
    BY <1>9, <2>8
  <2> HIDE DEF c
  <2>11. /\ a \in Seq(Holds(f))
         /\ \A y : Has(a, y) <=> Has(c, y) \/ y = url
         /\ Once(c, Endpoints) => Once(a, Endpoints)
    BY <2>8, <2>9, <2>10, AppendKeeps
  <2> HIDE DEF a, url
  <2>12. HoldsAt(f)' /\ Content(file'[f]) = a /\ \A x : Has(c, x) => Has(file'[f], x)
    BY <2>2, <2>3, <2>11, IsContent DEF HoldsAt
  <2>13. \A n : InCopy(f, n)' <=> InCopy(f, n)
    BY <1>1 DEF InCopy
  <2>14. \A n \in Pieces : owner[n] = f /\ n \notin excused' => Has(file'[f], n) \/ InCopy(f, n)'
    BY <1>1, <1>2, <2>8, <2>12, <2>13 DEF FileFine, CopiesAt
  <2>15. ASSUME Lone(p, f) PROVE Lone(p, f)'
    <3>1. InOrder(c) /\ AsSaid(f, c, said[f])
      BY <1>7, <2>15 DEF Lone, Wired, c
    <3>2. InOrder(a)
      BY <1>6, <2>11, <3>1, InOrderOfKind DEF InOrder
    <3>3. said'[f].hooks = said[f].hooks /\ said'[f].mcp = url
      BY <1>2, <2>2, <2>6, <2>7, ReportedFine DEF HoldsAt, url
    <3>4. url # "inject" /\ url # "pre-tool"
      BY <2>6, Words DEF Managed, url
    <3>5. AsSaid(f, a, said'[f])
      BY <1>6, <2>11, <3>1, <3>3, <3>4 DEF AsSaid, Mark
    <3>6. Wired(f, Content(file'[f]), said'[f])
      BY <2>12, <3>2, <3>5 DEF Wired
    <3>7. f \notin Plugins \cup cut' => \A n \in Pieces : owner'[n] = f /\ n \notin excused' => Has(file'[f], n)
      BY <1>1, <1>7, <2>8, <2>12, <2>15 DEF Lone
    <3>8. QED BY <1>6, <2>5, <3>6, <3>7 DEF Lone
  <2>16. FileFine(f)'
    BY <1>1, <1>2, <1>4, <1>5, <2>5, <2>12, <2>13, <2>14, <2>15, OwnFile
  <2>17. QED BY <1>1, <2>4, <2>16, MovesFine
<1>10. QED BY <1>8, <1>9

\* A step that touches no file, nor anyone in the middle of a command.
LEMMA UntouchedFine ==
    ASSUME WiringIInv, machine' = machine, WorkOK',
           \A q \in Procs, g \in Files : Same(q) \/ (~Mid(q, g) /\ ~Mid(q, g)'),
           UNCHANGED <<file, backups, history>>
    PROVE  WiringIInv'
<1>1. WiringTypeOK'
  BY DEF WiringIInv, WiringTypeOK, history
<1>2. ASSUME NEW g \in Files PROVE FileFine(g)'
  <2>1. \A n \in Pieces : InCopy(g, n) /\ n \notin excused' => InCopy(g, n)'
    BY DEF InCopy
  <2>2. FileFine(g)
    BY DEF WiringIInv
  <2>3. /\ file' = file /\ said' = said /\ overlapped' = overlapped /\ cut' = cut
        /\ excused' = excused /\ owner' = owner
    BY DEF history
  <2>4. QED BY <2>1, <2>2, <2>3, FileFrame
<1>3. QED BY <1>1, <1>2 DEF WiringIInv

\* What a part of an ordered content is.
LEMMA PartInOrder ==
    ASSUME NEW f \in Files, NEW c \in Seq(Holds(f)), NEW n \in 1..Len(c)
    PROVE  LET s == SubSeq(c, 1, n) IN s \in Seq(Holds(f)) /\ (InOrder(c) => InOrder(s))
<1> DEFINE s == SubSeq(c, 1, n)
<1>1. s \in Seq(Holds(f)) /\ DOMAIN s = 1..n /\ \A i \in 1..n : s[i] = c[i]
  BY SubSeqProperties
<1>2. DOMAIN c = 1..Len(c) /\ Len(c) \in Nat /\ 1..n \subseteq 1..Len(c)
  OBVIOUS
<1> HIDE DEF s
<1>3. \A X : Once(c, X) => Once(s, X)
  BY <1>1, <1>2 DEF Once
<1>4. ASSUME NEW x, NEW y, Follows(c, y, x) PROVE Follows(s, y, x)
  <2>1. ASSUME NEW i \in 1..n, s[i] = y PROVE i > 1 /\ s[i - 1] = x
    <3>1. i > 1 /\ c[i - 1] = x
      BY <1>1, <1>2, <1>4, <2>1 DEF Follows
    <3>2. i - 1 \in 1..n
      BY <1>2, <3>1
    <3>3. QED BY <1>1, <3>1, <3>2
  <2>2. QED BY <1>1, <2>1 DEF Follows
<1>5. LastBlock(c) => LastBlock(s)
  BY <1>1, <1>2, <1>4 DEF LastBlock
<1>6. QED BY <1>1, <1>3, <1>4, <1>5 DEF InOrder, s

\* A file a write of which was cut off: of JSON an unreadable part, of text a part.
LEMMA CutOffFine ==
    ASSUME WiringIInv, NEW p \in Procs, NEW f \in Files, f = Cmd(p).file, CutOff(p)
    PROVE  WiringIInv'
<1> DEFINE parts == {<<>>} \cup IF f \in Settings THEN {<<"torn">>}
                                ELSE {SubSeq(Written(p), 1, n) : n \in 1..Len(Written(p))}
           unsaid == [hooks |-> None, mcp |-> None]
<1>1. /\ todo[p] # <<>> /\ NextCmd(p, <<>>)
      /\ IF At(p, "write")
         THEN /\ file' \in {[file EXCEPT ![f] = c] : c \in parts}
              /\ said' = [said EXCEPT ![f] = unsaid] /\ cut' = cut \cup {f}
         ELSE UNCHANGED <<file, said, cut>>
      /\ UNCHANGED <<machine, backups, second, runs, owner, overlapped, excused>>
  BY DEF CutOff
<1>2. /\ WorkOK /\ Cmd(p) \in Commands /\ steps[p] \in Stages(Cmd(p))
      /\ DOMAIN file = Files /\ DOMAIN said = Files /\ overlapped \subseteq Files /\ FileFine(f)
  BY <1>1, Acting
<1>3. WorkOK' /\ (\A q \in Procs \ {p} : Same(q)) /\ \A g : ~Mid(p, g)'
  <2>1. <<>> \in Seq(Commands)
    OBVIOUS
  <2>2. QED BY <1>1, <1>2, <2>1, NextCmdFine
<1>4. ASSUME ~Mid(p, f) PROVE \A g : ~Mid(p, g)
  BY <1>4 DEF Mid
<1>5. ASSUME Mid(p, f) PROVE Clear(p, f)
  BY <1>1, <1>2, <1>5 DEF Clear, FileFine, LoneAt, Only
<1>6. \A n : InCopy(f, n)' <=> InCopy(f, n)
  BY <1>1 DEF InCopy
<1> HIDE DEF parts, unsaid
<1>7. CASE ~At(p, "write")
  <2>1. file' = file /\ said' = said /\ cut' = cut
    BY <1>1, <1>7
  <2>2. CASE ~Mid(p, f)
    BY <1>1, <1>3, <1>4, <2>1, <2>2, UntouchedFine DEF history
  <2>3. CASE Mid(p, f)
    <3>1. Moves(p)
      BY <1>1, <1>2, <1>3, <2>1 DEF Moves
    <3>2. ~Opened(p, f)
      <4>1. Head(<<"write">>) = "write"
        OBVIOUS
      <4>2. QED BY <1>1, <1>7, <4>1 DEF Opened, At
    <3>3. said'[f] \in Sayings /\ (f \in Notes \cup Plugins => said'[f].mcp \notin Endpoints)
      BY <1>2, <2>1 DEF FileFine, HoldsAt
    <3>4. QED BY <1>1, <1>3, <1>5, <2>1, <2>3, <3>1, <3>2, <3>3, EndsUntouched
  <2>4. QED BY <2>2, <2>3
<1>8. CASE At(p, "write")
  <2>1. PICK c \in parts : file' = [file EXCEPT ![f] = c]
    BY <1>1, <1>8
  <2>2. DOMAIN file' = Files /\ (\A g \in Files \ {f} : file'[g] = file[g]) /\ file'[f] = c
    BY <1>2, <2>1
  <2>3. /\ DOMAIN said' = Files /\ (\A g \in Files \ {f} : said'[g] = said[g])
        /\ said'[f] = unsaid /\ cut' = cut \cup {f}
    BY <1>1, <1>2, <1>8
  <2>4. /\ Opened(p, f) /\ Copied(p, f) /\ f \notin CliFiles /\ Written(p) \in Seq(Holds(f))
        /\ Lone(p, f) => InOrder(Written(p))
    BY <1>8, WrittenFine DEF Wired
  <2>5. Clear(p, f)
    BY <1>5, <2>4 DEF Copied
  <2>6. Moves(p)
    BY <1>1, <1>2, <1>3, <2>2, <2>3 DEF Moves
  <2>7. ~Copied(p, f)' /\ ~Drafted(p, f)' /\ ~Opened(p, f)'
    BY <1>3, NotMid
  <2>8. c \in Seq(Holds(f)) /\ (Lone(p, f) => InOrder(c))
    <3>1. CASE c = <<>>
      BY <3>1, EmptyContent
    <3>2. CASE f \in Settings /\ c = <<"torn">>
      <4>1. "torn" \in Holds(f)
        BY <3>2, HeldByKind
      <4>2. c \in Seq(Holds(f)) /\ DOMAIN c = {1} /\ c[1] = "torn"
        BY <3>2, <4>1
      <4>3. f \notin Notes /\ f \notin Plugins
        BY <3>2, KindsAssumption
      <4>4. Once(c, {"inject"}) /\ Once(c, Endpoints)
        BY <4>2 DEF Once
      <4>5. Follows(c, "pre-tool", "inject")
        BY <4>2 DEF Follows
      <4>6. InOrder(c)
        BY <4>2, <4>3, <4>4, <4>5, InOrderOfKind
      <4>7. QED BY <4>2, <4>6
    <3>3. ASSUME NEW n \in 1..Len(Written(p)), c = SubSeq(Written(p), 1, n)
          PROVE  c \in Seq(Holds(f)) /\ (Lone(p, f) => InOrder(c))
      BY <2>4, <3>3, PartInOrder
    <3>4. QED BY <2>1, <3>1, <3>2, <3>3 DEF parts
  <2>9. /\ unsaid \in Sayings /\ unsaid.mcp \notin Endpoints /\ unsaid.hooks \notin {"hard", "soft", "none"}
    BY KindsAssumption DEF unsaid, Sayings
  <2>10. HoldsAt(f)' /\ Content(file'[f]) = c
    BY <2>2, <2>3, <2>8, <2>9, IsContent DEF HoldsAt
  <2>11. \A n \in Pieces : owner[n] = f /\ n \notin excused' => InCopy(f, n)'
    BY <1>1, <1>2, <1>6, <2>4 DEF FileFine, CopiesAt
  <2>12. ASSUME Lone(p, f) PROVE Lone(p, f)'
    <3>1. AsSaid(f, c, unsaid)
      BY <2>9 DEF AsSaid
    <3>2. Wired(f, Content(file'[f]), said'[f])
      BY <2>3, <2>8, <2>10, <2>12, <3>1 DEF Wired
    <3>3. QED BY <2>3, <2>7, <3>2 DEF Lone
  <2>13. FileFine(f)'
    BY <1>1, <1>2, <1>3, <1>6, <2>5, <2>7, <2>10, <2>11, <2>12, OwnFile
  <2>14. QED BY <1>1, <2>6, <2>13, MovesFine
<1>9. QED BY <1>7, <1>8

\* A piece of the operator's changes nothing of what the commands rely on.
LEMMA PieceAdded ==
    ASSUME NEW f \in Files, NEW c \in Seq(Holds(f)), NEW n \in Pieces
    PROVE  LET a == Append(c, n) IN
           /\ a \in Seq(Holds(f)) /\ Has(a, n) /\ \A x : Has(c, x) => Has(a, x)
           /\ \A s \in Sayings : Wired(f, c, s) => Wired(f, a, s)
           /\ Tidy(c) => Tidy(a)
<1> DEFINE a == Append(c, n)
<1>1. n \in Holds(f)
  BY HeldByKind
<1>2. n \notin Endpoints /\ n \notin Managed
  BY Words
<1>3. /\ n # "inject" /\ n # "pre-tool" /\ n # "plugin" /\ n # "begin" /\ n # "end"
      /\ n # Mark(f)
  BY <1>2 DEF Managed, Mark
<1>4. /\ a \in Seq(Holds(f))
      /\ \A y : Has(a, y) <=> Has(c, y) \/ y = n
      /\ Once(c, {"inject"}) => Once(a, {"inject"})
      /\ Once(c, {"plugin"}) => Once(a, {"plugin"})
      /\ Once(c, Endpoints) => Once(a, Endpoints)
      /\ Follows(c, "pre-tool", "inject") => Follows(a, "pre-tool", "inject")
      /\ LastBlock(c) => LastBlock(a)
      /\ Tidy(c) => Tidy(a)
  BY <1>1, <1>2, <1>3, AppendKeeps
<1> HIDE DEF a
<1>5. ASSUME NEW s \in Sayings, Wired(f, c, s) PROVE Wired(f, a, s)
  <2>1. InOrder(a)
    BY <1>4, <1>5 DEF Wired, InOrder
  <2>2. AsSaid(f, a, s)
    BY <1>3, <1>4, <1>5 DEF Wired, AsSaid
  <2>3. QED BY <2>1, <2>2 DEF Wired
<1>6. QED BY <1>4, <1>5 DEF a

LEMMA EditFine ==
    ASSUME WiringIInv, NEW f \in Files, NEW n \in Pieces, Edit(f, n)
    PROVE  WiringIInv'
<1> DEFINE c == Content(file[f])
           a == Append(c, n)
<1>1. /\ owner[n] = None /\ owner' = [owner EXCEPT ![n] = f]
      /\ file' = [file EXCEPT ![f] = Append(Content(@), n)]
      /\ excused' = IF \E p \in Procs : Blind(f, p) THEN excused \cup {n} ELSE excused
      /\ overlapped' = IF Busy(f, None) THEN overlapped \cup {f} ELSE overlapped
      /\ todo' = todo /\ steps' = steps /\ draft' = draft
      /\ UNCHANGED <<machine, backups, second, runs, cutOffs, said, cut>>
  BY DEF Edit, Overlaps, work
<1>2. /\ machine \in Machines /\ WorkOK /\ DOMAIN file = Files /\ DOMAIN said = Files
      /\ owner \in [Pieces -> Files \cup {None}] /\ overlapped \subseteq Files /\ FileFine(f)
  BY DEF WiringIInv, WiringTypeOK
<1>3. DOMAIN file' = Files /\ (\A g \in Files \ {f} : file'[g] = file[g]) /\ file'[f] = a
  BY <1>1, <1>2
<1>4. /\ owner' \in [Pieces -> Files \cup {None}] /\ owner'[n] = f
      /\ \A m \in Pieces \ {n} : owner'[m] = owner[m]
  BY <1>1, <1>2
<1>5. overlapped \subseteq overlapped' /\ overlapped' \subseteq overlapped \cup {f} /\ excused \subseteq excused'
  BY <1>1
<1>6. \A q : Same(q)
  BY <1>1 DEF Same
<1>7. WorkOK' /\ \A g, q : /\ (Mid(q, g)' <=> Mid(q, g)) /\ (Copied(q, g)' <=> Copied(q, g))
                           /\ (Drafted(q, g)' <=> Drafted(q, g))
  BY <1>1, <1>2 DEF WorkOK, Mid, Copied, Drafted, Cmd
<1>8. \A g, m : InCopy(g, m)' <=> InCopy(g, m)
  BY <1>1 DEF InCopy
<1>9. WiringTypeOK'
  BY <1>1, <1>2, <1>3, <1>4, <1>5, <1>7 DEF WiringTypeOK
<1>10. ASSUME NEW g \in Files, g # f PROVE FileFine(g)'
  <2>1. \A m \in Pieces : owner'[m] = g => owner[m] = g
    BY <1>4, <1>10
  <2>2. file'[g] = file[g] /\ said'[g] = said[g] /\ cut' = cut /\ FileFine(g)
    BY <1>1, <1>3, <1>10 DEF WiringIInv
  <2>3. QED BY <1>5, <1>6, <1>8, <1>10, <2>1, <2>2, FileFrame
<1>11. HoldsAt(f)
  BY <1>2 DEF FileFine
<1>12. c \in Seq(Holds(f)) /\ \A x : Has(file[f], x) <=> Has(c, x)
  BY <1>11, ContentFine
<1> HIDE DEF c
<1>13. /\ a \in Seq(Holds(f)) /\ Has(a, n) /\ \A x : Has(c, x) => Has(a, x)
       /\ \A s \in Sayings : Wired(f, c, s) => Wired(f, a, s)
       /\ Tidy(c) => Tidy(a)
  BY <1>12, PieceAdded
<1> HIDE DEF a
<1>14. HoldsAt(f)' /\ DraftsAt(f)'
  BY <1>1, <1>2, <1>3, <1>7, <1>13 DEF FileFine, HoldsAt, DraftsAt
<1>15. \A q \in Procs : Copied(q, f) => Blind(f, q)
  BY <1>2 DEF Copied, Mid, Blind
<1>16. CopiesAt(f)'
  <2>1. ASSUME NEW m \in Pieces, owner'[m] = f, m \notin excused'
        PROVE  (Has(file'[f], m) \/ InCopy(f, m)') /\ \A q \in Procs : Copied(q, f)' => InCopy(f, m)'
    <3>1. CASE m = n
      <4>1. ~\E q \in Procs : Blind(f, q)
        BY <1>1, <2>1, <3>1
      <4>2. QED BY <1>3, <1>7, <1>13, <1>15, <3>1, <4>1
    <3>2. CASE m # n
      <4>1. owner[m] = f /\ m \notin excused
        BY <1>4, <1>5, <2>1, <3>2
      <4>2. QED BY <1>2, <1>3, <1>7, <1>8, <1>12, <1>13, <4>1 DEF FileFine, CopiesAt
    <3>3. QED BY <3>1, <3>2
  <2>2. QED BY <2>1 DEF CopiesAt
<1>17. LoneAt(f)'
  <2>1. SUFFICES ASSUME f \notin overlapped'
                 PROVE  /\ \A p, q \in Procs : Mid(p, f)' /\ Mid(q, f)' => p = q
                        /\ \A p \in Procs : Only(p, f)' => Lone(p, f)'
    BY DEF LoneAt
  <2>2. f \notin overlapped /\ ~Busy(f, None)
    BY <1>1, <2>1
  <2>3. \A q \in Procs : ~Mid(q, f)
    BY <2>2, KindsAssumption DEF Busy, Mid
  <2>4. \A q \in Procs : ~Mid(q, f)' /\ ~Drafted(q, f)' /\ ~Opened(q, f)' /\ ~Opened(q, f)
    BY <1>7, <2>3, NotMid
  <2>5. ASSUME NEW p \in Procs PROVE Lone(p, f)'
    <3>1. Lone(p, f)
      BY <1>2, <2>2, <2>3 DEF FileFine, LoneAt, Only
    <3>2. Wired(f, c, said[f]) /\ said[f] \in Sayings
      BY <1>11, <2>4, <3>1 DEF Lone, HoldsAt, c
    <3>3. Content(file'[f]) = a
      BY <1>3, <1>13, IsContent
    <3>4. Wired(f, Content(file'[f]), said'[f])
      BY <1>1, <1>13, <3>2, <3>3
    <3>5. f \in Notes \ cut' => Tidy(Content(file'[f]))
      BY <1>1, <1>13, <3>1, <3>3 DEF Lone, c
    <3>6. ASSUME f \notin Plugins \cup cut', NEW m \in Pieces, owner'[m] = f, m \notin excused'
          PROVE  Has(file'[f], m)
      <4>1. CASE m = n
        BY <1>3, <1>13, <4>1
      <4>2. CASE m # n
        <5>1. owner[m] = f /\ m \notin excused /\ cut' = cut
          BY <1>1, <1>4, <1>5, <3>6, <4>2
        <5>2. Has(file[f], m)
          BY <2>4, <3>1, <3>6, <5>1 DEF Lone
        <5>3. QED BY <1>3, <1>12, <1>13, <5>2
      <4>3. QED BY <4>1, <4>2
    <3>7. QED BY <2>4, <3>4, <3>5, <3>6 DEF Lone
  <2>6. QED BY <2>4, <2>5
<1>18. FileFine(f)'
  BY <1>14, <1>16, <1>17 DEF FileFine
<1>19. QED BY <1>9, <1>10, <1>18 DEF WiringIInv

\* The runs that can be started are commands one after another.
LEMMA RunsAreCommands ==
    ASSUME machine \in Machines, NEW r \in EnforceOne \cup EnforceAll \cup Setup
    PROVE  r \in Seq(Commands) /\ r # <<>>
<1>1. /\ machine.agents \in Seq((Settings \cup CliFiles) \X (Settings \cup Plugins))
      /\ machine.enforced \subseteq Files \ CliFiles
      /\ EnforceOrder \in Seq(Settings \cup Notes \cup Plugins) /\ EnforceOrder # <<>>
  <2>1. machine \in [agents : Seq((Settings \cup CliFiles) \X (Settings \cup Plugins)),
                     enforced : SUBSET (Files \ CliFiles), all : BOOLEAN, runs : Nat]
    BY WiringAssumption
  <2>2. QED BY <2>1, WiringAssumption
<1>2. ASSUME NEW o \in Operations, NEW g \in Files \ CliFiles, NEW child \in BOOLEAN
      PROVE  Enforce(o[1], g, o[2], child) \in Commands
  BY DEF Operations, Enforce, Commands, IsCommand
<1>3. CASE r \in EnforceOne
  <2> DEFINE one(o, g) == Enforce(o[1], g, o[2], FALSE)
  <2>1. EnforceOne = {<<one(o, g)>> : o \in Operations, g \in machine.enforced}
    BY DEF EnforceOne
  <2>2. \A o \in Operations, g \in machine.enforced : one(o, g) \in Commands
    BY <1>1, <1>2
  <2> HIDE DEF one
  <2>3. PICK x \in Commands : r = <<x>>
    BY <1>3, <2>1, <2>2
  <2>4. QED BY <2>3
<1>4. CASE r \in EnforceAll
  <2>1. PICK o \in Operations :
            r = [n \in DOMAIN EnforceOrder |-> Enforce(o[1], EnforceOrder[n], o[2], FALSE)]
    BY <1>4 DEF EnforceAll
  <2> DEFINE k == Len(EnforceOrder)
  <2>2. /\ k \in Nat /\ k # 0 /\ DOMAIN EnforceOrder = 1..k
        /\ \A n \in 1..k : EnforceOrder[n] \in Files \ CliFiles
    BY <1>1, KindsAssumption DEF Files
  <2> HIDE DEF k
  <2>3. \A n \in 1..k : Enforce(o[1], EnforceOrder[n], o[2], FALSE) \in Commands
    BY <1>2, <2>2
  <2>4. r \in [1..k -> Commands]
    BY <2>1, <2>2, <2>3
  <2>5. r \in Seq(Commands) /\ Len(r) = k
    BY <2>2, <2>4
  <2>6. QED BY <2>2, <2>5
<1>5. CASE r \in Setup
  <2> DEFINE k == Len(machine.agents)
             m == 2 * k
             agent(n) == machine.agents[(n + 1) \div 2]
  <2>0. machine.agents # <<>>
    BY <1>5 DEF Setup
  <2>1. PICK url \in Endpoints :
            r = [n \in 1..m |-> IF n % 2 = 1 THEN Register(agent(n)[1], url)
                                ELSE Enforce("install", agent(n)[2], "hard", TRUE)]
    BY <1>5, <2>0 DEF Setup
  <2>2. k \in Nat /\ k # 0 /\ m \in Nat /\ m # 0
    BY <1>1, <2>0
  <2>3. ASSUME NEW n \in 1..m PROVE (n + 1) \div 2 \in 1..k
    BY <2>2
  <2>4. ASSUME NEW n \in 1..m
        PROVE  agent(n)[1] \in Settings \cup CliFiles /\ agent(n)[2] \in Settings \cup Plugins
    <3>1. machine.agents[(n + 1) \div 2] \in (Settings \cup CliFiles) \X (Settings \cup Plugins)
      BY <1>1, <2>3
    <3>2. QED BY <3>1
  <2> HIDE DEF agent, k, m
  <2>5. ASSUME NEW n \in 1..m
        PROVE  /\ Register(agent(n)[1], url) \in Commands
               /\ Enforce("install", agent(n)[2], "hard", TRUE) \in Commands
    <3>1. agent(n)[1] \in Files /\ agent(n)[2] \in Files \ CliFiles
      BY <2>4, KindsAssumption DEF Files
    <3>2. Register(agent(n)[1], url) \in Commands
      BY <2>4, <3>1 DEF Register, Commands, IsCommand
    <3>3. Enforce("install", agent(n)[2], "hard", TRUE) \in Commands
      BY <3>1 DEF Enforce, Commands, IsCommand
    <3>4. QED BY <3>2, <3>3
  <2>6. r \in [1..m -> Commands]
    BY <2>1, <2>5
  <2>7. r \in Seq(Commands) /\ Len(r) = m
    BY <2>2, <2>6
  <2>8. QED BY <2>2, <2>7
<1>6. QED BY <1>3, <1>4, <1>5

LEMMA RunFine ==
    ASSUME WiringIInv, NEW p \in Procs, Run(p)
    PROVE  WiringIInv'
<1>1. PICK r \in EnforceOne \cup EnforceAll \cup Setup :
        todo' = [todo EXCEPT ![p] = r] /\ steps' = [steps EXCEPT ![p] = Steps(Head(r))]
  BY DEF Run
<1>2. UNCHANGED <<machine, file, backups, second, draft, cutOffs, history>> /\ todo[p] = <<>>
  BY DEF Run
<1>3. machine \in Machines /\ WorkOK
  BY DEF WiringIInv, WiringTypeOK
<1>4. r \in Seq(Commands) /\ r # <<>>
  BY <1>3, RunsAreCommands
<1>5. Head(r) \in Commands
  BY <1>4
<1>6. /\ todo' \in [Procs -> Seq(Commands)] /\ todo'[p] = r
      /\ DOMAIN steps' = Procs /\ DOMAIN draft' = Procs /\ steps'[p] = Steps(Head(r))
      /\ \A q \in Procs \ {p} : todo'[q] = todo[q] /\ steps'[q] = steps[q] /\ draft'[q] = draft[q]
  BY <1>1, <1>2, <1>3, <1>4 DEF WorkOK
<1>7. Cmd(p)' = Head(r) /\ \A q \in Procs \ {p} : Cmd(q)' = Cmd(q) /\ Same(q)
  BY <1>6 DEF Cmd, Same
<1>8. Steps(Head(r)) \in Stages(Head(r))
  BY <1>5, Starts
<1>9. WorkOK'
  BY <1>3, <1>6, <1>7, <1>8 DEF WorkOK
<1>10. \A g : ~Mid(p, g) /\ ~Mid(p, g)'
  BY <1>2, <1>6, <1>7 DEF Mid
<1>11. QED BY <1>2, <1>7, <1>9, <1>10, UntouchedFine

\* The clock, and a step that changes nothing.
LEMMA NextSecondFine ==
    ASSUME WiringIInv, UNCHANGED <<machine, file, backups, work, history>>
    PROVE  WiringIInv'
<1>1. todo' = todo /\ steps' = steps /\ draft' = draft /\ WorkOK
  BY DEF work, WiringIInv, WiringTypeOK
<1>2. \A q : Same(q)
  BY <1>1 DEF Same
<1>3. WorkOK'
  BY <1>1 DEF WorkOK, Cmd
<1>4. QED BY <1>2, <1>3, UntouchedFine

LEMMA WiringInitFine == WiringInit => WiringIInv
<1> SUFFICES ASSUME WiringInit PROVE WiringIInv
  OBVIOUS
<1>1. WiringTypeOK
  <2>1. <<>> \in Seq(Commands)
    OBVIOUS
  <2>2. QED BY <2>1 DEF WiringInit, WiringTypeOK, WorkOK
<1>2. ASSUME NEW f \in Files PROVE FileFine(f)
  <2>1. \A q \in Procs : ~Mid(q, f) /\ ~Drafted(q, f) /\ ~Copied(q, f)
    BY DEF WiringInit, Mid, Drafted, Copied
  <2>2. /\ file[f] = None /\ said[f] = [hooks |-> "none", mcp |-> "none"]
        /\ \A n \in Pieces : owner[n] # f
    BY KindsAssumption DEF WiringInit
  <2>3. said[f] \in Sayings /\ said[f].mcp \notin Endpoints
    BY <2>2, Words DEF Sayings
  <2>4. InOrder(Content(file[f])) /\ Tidy(Content(file[f])) /\ \A x : ~Has(Content(file[f]), x)
    BY <2>2, NoContent, EmptyContent
  <2>5. Wired(f, Content(file[f]), said[f])
    BY <2>2, <2>3, <2>4 DEF Wired, AsSaid
  <2>6. HoldsAt(f) /\ DraftsAt(f) /\ CopiesAt(f)
    BY <2>1, <2>2, <2>3 DEF HoldsAt, DraftsAt, CopiesAt
  <2>7. LoneAt(f)
    BY <2>1, <2>2, <2>4, <2>5 DEF LoneAt, Lone
  <2>8. QED BY <2>6, <2>7 DEF FileFine
<1>3. QED BY <1>1, <1>2 DEF WiringIInv

LEMMA WiringNextFine == WiringIInv /\ [WiringNext]_wiringVars => WiringIInv'
<1> SUFFICES ASSUME WiringIInv, [WiringNext]_wiringVars PROVE WiringIInv'
  OBVIOUS
<1>1. ASSUME NEW p \in Procs, Run(p) PROVE WiringIInv'
  BY <1>1, RunFine
<1>2. ASSUME NEW p \in Procs,
             \/ LoadTorn(p) \/ LoadUnneeded(p) \/ Load(p) \/ BackupUnneeded(p) \/ _backup(p)
             \/ Open(p) \/ Write(p) \/ Unlink(p) \/ Cli(p) \/ CutOff(p)
      PROVE  WiringIInv'
  <2>1. todo[p] # <<>>
    BY <1>2 DEF LoadTorn, LoadUnneeded, Load, BackupUnneeded, _backup, Open, Write, Unlink, Cli, CutOff, At
  <2>2. PICK f \in Files : f = Cmd(p).file
    BY <2>1, Acting
  <2>3. CASE LoadTorn(p)
    BY <2>2, <2>3, LoadTornFine
  <2>4. CASE LoadUnneeded(p)
    BY <2>2, <2>4, LoadUnneededFine
  <2>5. CASE Load(p)
    BY <2>2, <2>5, LoadFine
  <2>6. CASE BackupUnneeded(p)
    BY <2>2, <2>6, BackupUnneededFine
  <2>7. CASE _backup(p)
    BY <2>2, <2>7, BackupFine
  <2>8. CASE Open(p)
    BY <2>2, <2>8, OpenFine
  <2>9. CASE Write(p)
    BY <2>2, <2>9, WriteFine
  <2>10. CASE Unlink(p)
    BY <2>2, <2>10, UnlinkFine
  <2>11. CASE Cli(p)
    BY <2>2, <2>11, CliFine
  <2>12. CASE CutOff(p)
    BY <2>2, <2>12, CutOffFine
  <2>13. QED BY <1>2, <2>3, <2>4, <2>5, <2>6, <2>7, <2>8, <2>9, <2>10, <2>11, <2>12
<1>3. ASSUME NEW f \in Files, NEW n \in Pieces, Edit(f, n) PROVE WiringIInv'
  BY <1>3, EditFine
<1>4. CASE NextSecond
  BY <1>4, NextSecondFine DEF NextSecond
<1>5. CASE UNCHANGED wiringVars
  BY <1>5, NextSecondFine DEF wiringVars
<1>6. QED BY <1>1, <1>2, <1>3, <1>4, <1>5 DEF WiringNext

\* The invariant of the installers, file by file: a file holds what its kind holds, in
\* order; what the operator put into it is in it or in a copy; and where nobody
\* overlapped, it is what was said, and so is what is going to be written.
THEOREM WiringInvariance == WiringSpec => []WiringIInv
BY WiringInitFine, WiringNextFine, PTL DEF WiringSpec

----------------------------------------------------------------------------
(* What the invariant gives.                                                 *)

\* Where nobody overlapped at f, it is as the one who may be in the middle of a
\* command on it left it.
LEMMA SomeoneAlone ==
    ASSUME WiringIInv, NEW f \in Files, f \notin overlapped
    PROVE  \E p \in Procs : Lone(p, f) /\ (Idle(f) => ~Opened(p, f))
<1>1. LoneAt(f)
  BY DEF WiringIInv, FileFine
<1>2. PICK p \in Procs : (\E q \in Procs : Mid(q, f)) => Mid(p, f)
  BY WiringAssumption
<1>3. Only(p, f)
  BY <1>1, <1>2 DEF LoneAt, Only
<1>4. Idle(f) => ~Opened(p, f)
  BY DEF Idle, Opened, Mid
<1>5. QED BY <1>1, <1>3, <1>4 DEF LoneAt

LEMMA KeptByInvariant == WiringIInv => OwnContentKept
<1> SUFFICES ASSUME WiringIInv, NEW n \in Pieces, owner[n] # None, n \notin excused
             PROVE  \/ Has(file[owner[n]], n)
                    \/ /\ owner[n] \in Plugins \cup overlapped \cup cut \/ \E p \in Procs : At(p, "write")
                       /\ \E b \in backups : b.of = owner[n] /\ Has(b.content, n)
  BY DEF OwnContentKept
<1>1. PICK f \in Files : f = owner[n]
  BY DEF WiringIInv, WiringTypeOK
<1>2. Has(file[f], n) \/ InCopy(f, n)
  BY <1>1 DEF WiringIInv, FileFine, CopiesAt
<1>3. ASSUME f \notin Plugins \cup overlapped \cup cut, ~\E p \in Procs : At(p, "write")
      PROVE  Has(file[f], n)
  <2>1. PICK p \in Procs : Lone(p, f)
    BY <1>3, SomeoneAlone
  <2>2. Head(<<"write">>) = "write"
    OBVIOUS
  <2>3. ~Opened(p, f)
    BY <1>3, <2>2 DEF At, Opened, Mid
  <2>4. QED BY <1>1, <1>3, <2>1, <2>3 DEF Lone
<1>4. QED BY <1>1, <1>2, <1>3 DEF InCopy

\* An entry is counted where it is,
LEMMA OneCounted ==
    ASSUME NEW f \in Files, HoldsAt(f), NEW x
    PROVE  LET c == Content(file[f]) IN
           /\ ~Has(c, x) => Times(f, <<x>>) = 0
           /\ Has(c, x) /\ Once(c, {x}) => Times(f, <<x>>) = 1
<1> DEFINE c == Content(file[f])
           N == {n \in DOMAIN c : c[n] = x}
<1>1. c \in Seq(Holds(f))
  BY ContentFine
<1>2. \A y : Has(c, y) <=> \E i \in DOMAIN c : c[i] = y
  BY <1>1, IsContent
<1>3. {n \in DOMAIN c : n + Len(<<x>>) - 1 <= Len(c) /\ SubSeq(c, n, n + Len(<<x>>) - 1) = <<x>>} = N
  <2> HIDE DEF c
  <2>1. Len(<<x>>) = 1
    OBVIOUS
  <2>2. ASSUME NEW n \in DOMAIN c
        PROVE  n + 1 - 1 <= Len(c) /\ (SubSeq(c, n, n + 1 - 1) = <<x>> <=> c[n] = x)
    <3>1. n \in 1..Len(c) /\ Len(c) \in Nat /\ n + 1 - 1 = n
      BY <1>1
    <3>2. /\ SubSeq(c, n, n) \in Seq(Holds(f)) /\ Len(SubSeq(c, n, n)) = 1
          /\ SubSeq(c, n, n)[1] = c[n]
      BY <1>1, <3>1, SubSeqProperties
    <3> DEFINE s == SubSeq(c, n, n)
    <3>3. s \in Seq(Holds(f)) /\ Len(s) = 1 /\ s[1] = c[n]
      BY <3>2
    <3>4. n + 1 - 1 <= Len(c)
      BY <3>1
    <3> HIDE DEF s
    <3>5. s = <<s[1]>>
      BY <3>3
    <3>6. s = <<x>> <=> c[n] = x
      BY <3>3, <3>5
    <3>7. QED BY <3>1, <3>4, <3>6 DEF s
  <2>3. QED BY <2>1, <2>2
<1>4. Times(f, <<x>>) = Cardinality(N)
  BY <1>3 DEF Times
<1> HIDE DEF c
<1>5. ASSUME ~Has(c, x) PROVE Cardinality(N) = 0
  <2>1. N = {}
    BY <1>2, <1>5
  <2>2. QED BY <2>1, FS_EmptySet
<1>6. ASSUME Has(c, x), Once(c, {x}) PROVE Cardinality(N) = 1
  <2>1. PICK i \in DOMAIN c : c[i] = x
    BY <1>2, <1>6
  <2>2. N = {i}
    BY <1>6, <2>1 DEF Once
  <2>3. QED BY <2>2, FS_Singleton
<1>7. QED BY <1>4, <1>5, <1>6 DEF c

\* and two in a row where the second is.
LEMMA TwoCounted ==
    ASSUME NEW f \in Files, HoldsAt(f), NEW x, NEW y, Follows(Content(file[f]), y, x)
    PROVE  LET c == Content(file[f]) IN
           /\ ~Has(c, y) => Times(f, <<x, y>>) = 0
           /\ Has(c, y) /\ (Once(c, {x}) \/ Once(c, {y})) => Times(f, <<x, y>>) = 1
<1> DEFINE c == Content(file[f])
           N == {n \in DOMAIN c : n + 1 \in DOMAIN c /\ c[n] = x /\ c[n + 1] = y}
<1>1. c \in Seq(Holds(f))
  BY ContentFine
<1>2. \A z : Has(c, z) <=> \E i \in DOMAIN c : c[i] = z
  BY <1>1, IsContent
<1>3. {n \in DOMAIN c : n + Len(<<x, y>>) - 1 <= Len(c) /\ SubSeq(c, n, n + Len(<<x, y>>) - 1) = <<x, y>>} = N
  <2> HIDE DEF c
  <2>1. Len(<<x, y>>) = 2
    OBVIOUS
  <2>2. ASSUME NEW n \in DOMAIN c
        PROVE  /\ n + 2 - 1 <= Len(c) <=> n + 1 \in DOMAIN c
               /\ n + 1 \in DOMAIN c => (SubSeq(c, n, n + 2 - 1) = <<x, y>> <=> c[n] = x /\ c[n + 1] = y)
    <3>1. n \in 1..Len(c) /\ Len(c) \in Nat /\ n + 2 - 1 = n + 1 /\ DOMAIN c = 1..Len(c)
      BY <1>1
    <3>2. ASSUME n + 1 \in 1..Len(c)
          PROVE  /\ SubSeq(c, n, n + 1) \in Seq(Holds(f)) /\ Len(SubSeq(c, n, n + 1)) = 2
                 /\ SubSeq(c, n, n + 1)[1] = c[n] /\ SubSeq(c, n, n + 1)[2] = c[n + 1]
      BY <1>1, <3>1, <3>2, SubSeqProperties
    <3>3. ASSUME n + 1 \in 1..Len(c)
          PROVE  SubSeq(c, n, n + 1) = <<x, y>> <=> c[n] = x /\ c[n + 1] = y
      <4> DEFINE s == SubSeq(c, n, n + 1)
      <4>1. s \in Seq(Holds(f)) /\ Len(s) = 2 /\ s[1] = c[n] /\ s[2] = c[n + 1]
        BY <3>2, <3>3
      <4> HIDE DEF s
      <4>2. s = <<s[1], s[2]>>
        BY <4>1
      <4>3. s = <<x, y>> <=> c[n] = x /\ c[n + 1] = y
        BY <4>1, <4>2
      <4>4. QED BY <4>3 DEF s
    <3>4. n + 1 <= Len(c) <=> n + 1 \in DOMAIN c
      BY <3>1
    <3>5. QED BY <3>1, <3>3, <3>4
  <2>3. QED BY <2>1, <2>2
<1>4. Times(f, <<x, y>>) = Cardinality(N)
  BY <1>3 DEF Times
<1> HIDE DEF c
<1>5. ASSUME ~Has(c, y) PROVE Cardinality(N) = 0
  <2>1. N = {}
    BY <1>2, <1>5
  <2>2. QED BY <2>1, FS_EmptySet
<1>6. ASSUME Has(c, y), Once(c, {x}) \/ Once(c, {y}) PROVE Cardinality(N) = 1
  <2>1. PICK i \in DOMAIN c : c[i] = y
    BY <1>2, <1>6
  <2>2. i \in 1..Len(c) /\ Len(c) \in Nat /\ DOMAIN c = 1..Len(c)
    BY <1>1, <2>1
  <2>3. i > 1 /\ c[i - 1] = x
    BY <2>1 DEF Follows, c
  <2>4. i - 1 \in N
    BY <2>1, <2>2, <2>3
  <2>5. ASSUME NEW n \in N PROVE n = i - 1
    <3>1. n + 1 = i \/ n = i - 1
      BY <1>6, <2>1, <2>2, <2>3, <2>4, <2>5 DEF Once
    <3>2. QED BY <2>2, <2>5, <3>1
  <2>6. N = {i - 1}
    BY <2>4, <2>5
  <2>7. QED BY <2>6, FS_Singleton
<1>7. QED BY <1>4, <1>5, <1>6 DEF c

\* A content in order that is as was said has the managed entries once each.
LEMMA CountsFine ==
    ASSUME NEW f \in Files, HoldsAt(f), Wired(f, Content(file[f]), said[f])
    PROVE  /\ said[f].hooks \in {"hard", "soft"} =>
               /\ Times(f, _managed_block(f, said[f].hooks)) = 1
               /\ f \in Settings => /\ Times(f, <<"inject">>) = 1
                                    /\ said[f].hooks = "soft" => ~Has(file[f], "pre-tool")
           /\ said[f].hooks = "none" =>
               Times(f, _managed_block(f, "soft")) = 0 /\ ~Has(file[f], "pre-tool")
           /\ \A url \in Endpoints : said[f].mcp = url =>
               Has(file[f], url) /\ \A other \in Endpoints \ {url} : ~Has(file[f], other)
<1> DEFINE c == Content(file[f])
           s == said[f]
<1>1. c \in Seq(Holds(f)) /\ \A x : Has(file[f], x) <=> Has(c, x)
  BY ContentFine
<1>2. \A x : Has(c, x) <=> \E i \in DOMAIN c : c[i] = x
  BY <1>1, IsContent
<1>3. \A x : Has(c, x) => x \in Holds(f)
  BY <1>1, <1>2
<1>4. /\ Once(c, {"inject"}) /\ Follows(c, "pre-tool", "inject") /\ Once(c, {"plugin"})
      /\ Once(c, Endpoints) /\ LastBlock(c) /\ AsSaid(f, c, s)
  BY DEF Wired, InOrder
<1>5. /\ \A x : ~Has(c, x) => Times(f, <<x>>) = 0
      /\ \A x : Has(c, x) /\ Once(c, {x}) => Times(f, <<x>>) = 1
  BY OneCounted
<1>6. /\ ~Has(c, "pre-tool") => Times(f, <<"inject", "pre-tool">>) = 0
      /\ Has(c, "pre-tool") => Times(f, <<"inject", "pre-tool">>) = 1
  BY <1>4, TwoCounted
<1>7. Follows(c, "end", "begin") /\ Once(c, {"end"})
  <2>1. Follows(c, "end", "begin")
    BY <1>4 DEF LastBlock
  <2>2. ASSUME NEW i \in DOMAIN c, NEW j \in DOMAIN c, c[i] = "end", c[j] = "end" PROVE i = j
    <3>1. ~(i < j) /\ ~(j < i)
      BY <1>4, <2>2 DEF LastBlock
    <3>2. i \in Nat /\ j \in Nat
      BY <1>1
    <3>3. QED BY <3>1, <3>2
  <2>3. QED BY <2>1, <2>2 DEF Once
<1>8. /\ ~Has(c, "end") => Times(f, <<"begin", "end">>) = 0
      /\ Has(c, "end") => Times(f, <<"begin", "end">>) = 1
  BY <1>7, TwoCounted
<1> HIDE DEF c
<1>9. ~Has(c, "inject") => ~Has(c, "pre-tool")
  <2>1. ASSUME NEW i \in DOMAIN c, c[i] = "pre-tool" PROVE Has(c, "inject")
    <3>1. i > 1 /\ c[i - 1] = "inject"
      BY <1>4, <2>1 DEF Follows
    <3>2. i - 1 \in DOMAIN c
      BY <1>1, <3>1
    <3>3. QED BY <1>2, <3>1, <3>2
  <2>2. QED BY <1>2, <2>1
<1>10. ASSUME NEW url \in Endpoints, s.mcp = url
       PROVE  Has(file[f], url) /\ \A other \in Endpoints \ {url} : ~Has(file[f], other)
  BY <1>1, <1>2, <1>4, <1>10 DEF AsSaid, Once
<1>11. "pre-tool" \notin Pieces /\ "inject" \notin Pieces /\ "pre-tool" \notin Endpoints /\ "inject" \notin Endpoints
  BY Words DEF Managed
<1>12. CASE f \in Settings
  <2>1. f \notin Notes /\ f \notin Plugins /\ Mark(f) = "inject"
    BY <1>12, KindsAssumption DEF Mark
  <2>2. QED BY <1>1, <1>4, <1>5, <1>6, <1>9, <1>10, <1>12, <2>1 DEF AsSaid, _managed_block
<1>13. CASE f \in Notes
  <2>1. f \notin Settings /\ Mark(f) = "end" /\ ~Has(c, "pre-tool")
    BY <1>3, <1>11, <1>13, KindsAssumption, HeldByKind DEF Mark
  <2>2. QED BY <1>1, <1>4, <1>8, <1>10, <1>13, <2>1 DEF AsSaid, _managed_block
<1>14. CASE f \in Plugins
  <2>1. f \notin Settings /\ f \notin Notes /\ Mark(f) = "plugin" /\ ~Has(c, "pre-tool")
    BY <1>3, <1>11, <1>14, KindsAssumption, HeldByKind DEF Mark
  <2>2. QED BY <1>1, <1>4, <1>5, <1>10, <1>14, <2>1 DEF AsSaid, _managed_block
<1>15. CASE f \in CliFiles
  <2>1. /\ f \notin Settings /\ f \notin Notes /\ f \notin Plugins /\ Mark(f) = "inject"
        /\ ~Has(c, "pre-tool") /\ ~Has(c, "inject")
    BY <1>3, <1>11, <1>15, KindsAssumption, HeldByKind DEF Mark
  <2>2. QED BY <1>1, <1>4, <1>5, <1>10, <1>15, <2>1 DEF AsSaid, _managed_block
<1>16. QED BY <1>12, <1>13, <1>14, <1>15 DEF Files

LEMMA HeldAsSaid == WiringIInv => WiringKept
<1> SUFFICES ASSUME WiringIInv, NEW f \in Files \ overlapped, Idle(f)
             PROVE  HoldsAt(f) /\ Wired(f, Content(file[f]), said[f])
  BY CountsFine DEF WiringKept
<1>1. PICK p \in Procs : Lone(p, f) /\ ~Opened(p, f)
  BY SomeoneAlone
<1>2. HoldsAt(f)
  BY DEF WiringIInv, FileFine
<1>3. QED BY <1>1, <1>2 DEF Lone

\* What the operator put into a file stays in it, or in a copy at least, through every
\* install, uninstall and registration, overlap and cut-off.
THEOREM ContentKept == WiringSpec => []OwnContentKept
BY WiringInvariance, KeptByInvariant, PTL

\* What the commands of both programs said last of a file is what it holds, the
\* managed entries once each, unless two overlapped.
THEOREM WiringHolds == WiringSpec => []WiringKept
BY WiringInvariance, HeldAsSaid, PTL
=============================================================================
