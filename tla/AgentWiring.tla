------------------------------ MODULE AgentWiring ------------------------------
(* `kb enforce` and `data-olympus setup`: commands that read, back up, change   *)
(* and rewrite the configuration files of coding agents, which belong to the    *)
(* operator, who edits them and may run two commands at once. bin/_kb_enforce.py,*)
(* src/data_olympus/setup_wizard.py.                                            *)
(*                                                                              *)
(* A file is None or the sequence of what is in it: the operator's own pieces, *)
(* managed entries, the endpoint of the registered server. "torn" is JSON cut   *)
(* off in the middle.                                                           *)
EXTENDS Naturals, Sequences, FiniteSets, SequencesExt, FiniteSetsExt

CONSTANTS
    Procs, None, Pieces, Endpoints,
    Settings,       \* JSON with a map of hooks: claude-code, codex, gemini
    Notes,          \* text with a managed block: Copilot's instructions, a git hook
    Plugins,        \* a file of its own: opencode
    CliFiles,       \* written by an agent's own CLI: claude mcp add, codex mcp add
    EnforceOrder,   \* the files of `kb enforce --all`, in their order
    Machines,       \* what is on a machine, and what its operator does there:
                    \* [agents, enforced, all, runs]: the detected agents, each <<file of
                    \* the registration, enforced file>>; the files enforced one by
                    \* one; whether --all is used; runs bounds the runs
    MaxSecond, MaxCutOffs    \* bounds

Files == Settings \cup Notes \cup Plugins \cup CliFiles

\* What the commands write, and what is left of JSON cut off in the middle.
Managed == {"begin", "end", "inject", "pre-tool", "plugin"}
Items == Pieces \cup Endpoints \cup Managed \cup {"torn"}

ASSUME WiringAssumption ==
    /\ {MaxSecond, MaxCutOffs} \subseteq Nat /\ Procs # {}
    /\ EnforceOrder \in Seq(Settings \cup Notes \cup Plugins) \ {<<>>}
    /\ Machines \subseteq [agents : Seq((Settings \cup CliFiles) \X (Settings \cup Plugins)),
                            enforced : SUBSET (Files \ CliFiles), all : BOOLEAN, runs : Nat]

\* A file is of one kind, and a piece, an endpoint and a managed entry are told apart.
ASSUME KindsAssumption ==
    /\ Settings \cap (Notes \cup Plugins \cup CliFiles) = {}
    /\ Notes \cap (Plugins \cup CliFiles) = {} /\ Plugins \cap CliFiles = {}
    /\ Pieces \cap (Endpoints \cup Managed \cup {"torn"}) = {}
    /\ Endpoints \cap (Managed \cup {"torn", "none"}) = {}
    /\ None \notin Files \cup Procs \cup Endpoints \cup {"hard", "soft", "none"}
    /\ None \notin Seq(Items)

VARIABLES
    machine,
    file,           \* file -> its content
    backups,        \* [of, by, second, content]: the name is all but the content
    second,         \* the clock backups are named by
    todo,           \* per process: the commands left, the first one under way
    steps,          \* per process: the steps left of that command
    draft,          \* per process: what it is to write
    runs, cutOffs,
    owner,          \* history: the file a piece was put into
    said,           \* history: per file what finished commands reported
    overlapped,     \* history: files in use by a command while another, or the
                    \* operator, came to them
    cut,            \* history: files a write of which was cut off
    excused         \* history: pieces lost in a way the code leaves open

work == <<todo, steps, draft>>
history == <<owner, said, overlapped, cut, excused>>
wiringVars == <<machine, file, backups, second, work, runs, cutOffs, history>>

WiringInit ==
    /\ machine \in Machines
    /\ file = [f \in Files |-> None] /\ backups = {} /\ second = 0
    /\ todo = [p \in Procs |-> <<>>] /\ steps = todo
    /\ draft = [p \in Procs |-> None]
    /\ runs = 0 /\ cutOffs = 0
    /\ owner = [n \in Pieces |-> None]
    /\ said = [f \in Files |-> [hooks |-> "none", mcp |-> "none"]]
    /\ overlapped = {} /\ cut = {} /\ excused = {}

----------------------------------------------------------------------------
(* What is written.                                                          *)

Content(c) == IF c = None THEN <<>> ELSE c
Has(c, x) == \E n \in DOMAIN Content(c) : c[n] = x
First(c, x) == Min({n \in DOMAIN c : c[n] = x})

\* What is left of a content when some is taken out.
Without(c, gone) ==
    LET upto[n \in 0 .. Len(c)] ==
            IF n = 0 THEN <<>>
            ELSE IF c[n] \in gone THEN upto[n - 1]
            ELSE Append(upto[n - 1], c[n])
    IN  upto[Len(c)]

\* Soft mode leaves the entry that blocks a tool out, where there is one.
_managed_block(f, mode) ==
    IF f \in Notes THEN <<"begin", "end">>
    ELSE IF f \in Plugins THEN <<"plugin">>
    ELSE IF mode = "soft" THEN <<"inject">> ELSE <<"inject", "pre-tool">>

_strip_managed(c) == Without(c, {"inject", "pre-tool"})

\* From the first begin to the first end, whatever is between them.
_strip_block(c) ==
    IF Has(c, "begin") /\ Has(c, "end")
    THEN SubSeq(c, 1, First(c, "begin") - 1) \o SubSeq(c, First(c, "end") + 1, Len(c))
    ELSE c

Strip(f, c) == IF f \in Notes THEN _strip_block(c) ELSE _strip_managed(c)

\* Mutant of install: what a former install left is not stripped.
InstallOnTop(f, c, mode) ==
    IF f \in Plugins THEN _managed_block(f, mode) ELSE c \o _managed_block(f, mode)

install(f, c, mode) ==
    IF f \in Plugins THEN _managed_block(f, mode)
    ELSE Strip(f, c) \o _managed_block(f, mode)

uninstall(f, c) == Strip(f, c)

merge_mcp_json(c, url) == Append(Without(c, Endpoints), url)

New(cmd, c) ==
    CASE cmd.op = "install" -> install(cmd.file, c, cmd.arg)
      [] cmd.op = "uninstall" -> uninstall(cmd.file, c)
      [] cmd.op = "register" -> merge_mcp_json(c, cmd.arg)

\* The command has nothing to write: no managed entry, the same endpoint.
Unneeded(cmd, c) ==
    \/ cmd.op = "uninstall" /\ cmd.file \in Settings /\ ~Has(c, "inject")
    \/ cmd.op = "uninstall" /\ cmd.file \in Plugins /\ ~Has(c, "plugin")
    \/ cmd.op = "register" /\ Has(c, cmd.arg)

\* Hooks of the operator's own are rewritten as they are.
Needed(cmd, c) ==
    \/ ~Unneeded(cmd, c)
    \/ cmd.op = "uninstall" /\ cmd.file \in Settings /\ \E n \in Pieces : Has(c, n)

\* Mutant of Steps: the copy is made of what the command wrote.
StepsBackupLate(cmd) ==
    IF cmd.file \in Plugins
    THEN IF cmd.op = "install" THEN <<"backup", "open", "write">> ELSE <<"load", "unlink">>
    ELSE IF cmd.file \in CliFiles THEN <<"backup", "cli">>
    ELSE IF cmd.op = "uninstall" /\ cmd.file \in Notes THEN <<"backup", "load", "open", "write">>
    ELSE <<"load", "open", "backup", "write">>

\* The steps of a command, between which others run. A file is opened, and so
\* emptied, and then written.
Steps(cmd) ==
    IF cmd.file \in Plugins
    THEN IF cmd.op = "install" THEN <<"backup", "open", "write">> ELSE <<"load", "unlink">>
    ELSE IF cmd.file \in CliFiles THEN <<"backup", "cli">>
    ELSE IF cmd.op = "uninstall" /\ cmd.file \in Notes THEN <<"backup", "load", "open", "write">>
    ELSE <<"load", "backup", "open", "write">>

----------------------------------------------------------------------------
(* Commands and runs.                                                        *)

Enforce(op, f, mode, child) == [op |-> op, file |-> f, arg |-> mode, child |-> child]
Register(f, url) == [op |-> "register", file |-> f, arg |-> url, child |-> FALSE]

Operations == {<<"install", "hard">>, <<"install", "soft">>, <<"uninstall", "off">>}

\* kb enforce for one agent or --all, and the setup wizard, which runs the former
\* as a child process.
EnforceOne == {<<Enforce(o[1], f, o[2], FALSE)>> : o \in Operations, f \in machine.enforced}
EnforceAll ==
    IF machine.all
    THEN {[n \in DOMAIN EnforceOrder |-> Enforce(o[1], EnforceOrder[n], o[2], FALSE)] : o \in Operations}
    ELSE {}
Setup ==
    IF machine.agents = <<>> THEN {}
    ELSE {[n \in 1 .. 2 * Len(machine.agents) |->
              LET agent == machine.agents[(n + 1) \div 2]
              IN  IF n % 2 = 1 THEN Register(agent[1], url)
                  ELSE Enforce("install", agent[2], "hard", TRUE)] : url \in Endpoints}

Run(p) ==
    /\ todo[p] = <<>> /\ runs < machine.runs /\ runs' = runs + 1
    /\ \E r \in EnforceOne \cup EnforceAll \cup Setup :
        todo' = [todo EXCEPT ![p] = r] /\ steps' = [steps EXCEPT ![p] = Steps(Head(r))]
    /\ UNCHANGED <<machine, file, backups, second, draft, cutOffs, history>>

Cmd(p) == Head(todo[p])
At(p, step) == todo[p] # <<>> /\ Head(steps[p]) = step

\* Others than p are in the middle of a command on a file.
Busy(f, p) ==
    \E q \in Procs \ {p} : todo[q] # <<>> /\ Cmd(q).file = f /\ steps[q] # Steps(Cmd(q))

Overlaps(f, p) == overlapped' = IF Busy(f, p) THEN overlapped \cup {f} ELSE overlapped
Meets(p) == Overlaps(Cmd(p).file, p)

GoOn(p) == steps' = [steps EXCEPT ![p] = Tail(@)] /\ UNCHANGED todo

\* The next command, if any; an exception ends the run, or the child.
NextCmd(p, left) ==
    /\ todo' = [todo EXCEPT ![p] = left]
    /\ steps' = [steps EXCEPT ![p] = IF left = <<>> THEN <<>> ELSE Steps(Head(left))]
    /\ draft' = [draft EXCEPT ![p] = None]

Finish(p) == NextCmd(p, Tail(todo[p]))
Fail(p) == NextCmd(p, IF Cmd(p).child THEN Tail(todo[p]) ELSE <<>>)

\* What a file's commands reported, once this one is done.
Reported(cmd, s) ==
    IF cmd.op = "register" THEN [s EXCEPT !.mcp = cmd.arg]
    ELSE [s EXCEPT !.hooks = IF cmd.op = "install" THEN cmd.arg ELSE "none"]

Report(cmd) == said' = [said EXCEPT ![cmd.file] = Reported(cmd, @)]

\* JSON that cannot be read is an exception; so it stays as it is.
LoadTorn(p) ==
    /\ At(p, "load") /\ Has(file[Cmd(p).file], "torn")
    /\ Fail(p)
    /\ Meets(p) /\ UNCHANGED <<machine, file, backups, second, runs, cutOffs, owner, said, cut, excused>>

LoadUnneeded(p) ==
    LET c == file[Cmd(p).file] IN
    /\ At(p, "load") /\ ~Has(c, "torn") /\ Unneeded(Cmd(p), c)
    /\ Report(Cmd(p)) /\ Finish(p)
    /\ Meets(p) /\ UNCHANGED <<machine, file, backups, second, runs, cutOffs, owner, cut, excused>>

Load(p) ==
    LET c == file[Cmd(p).file] IN
    /\ At(p, "load") /\ ~Has(c, "torn") /\ Needed(Cmd(p), c)
    /\ draft' = [draft EXCEPT ![p] = New(Cmd(p), Content(c))]
    /\ GoOn(p)
    /\ Meets(p) /\ UNCHANGED <<machine, file, backups, second, runs, cutOffs, owner, said, cut, excused>>

SameName(b, p) ==
    /\ b.of = Cmd(p).file /\ b.second = second
    /\ b.by = IF Cmd(p).op = "register" THEN "do-bak" ELSE "kb-bak"

\* Notes that are not there need no uninstall.
Absent(p) == Cmd(p).op = "uninstall" /\ Cmd(p).file \in Notes /\ file[Cmd(p).file] = None

BackupUnneeded(p) ==
    /\ At(p, "backup") /\ Absent(p)
    /\ Report(Cmd(p)) /\ Finish(p)
    /\ Meets(p) /\ UNCHANGED <<machine, file, backups, second, runs, cutOffs, owner, cut, excused>>

\* The name of a copy has a resolution of a second; a former one of that name is
\* replaced.
_backup(p) ==
    LET f == Cmd(p).file
        replaced == {b \in backups : SameName(b, p)}
        made == [of |-> f, by |-> IF Cmd(p).op = "register" THEN "do-bak" ELSE "kb-bak",
                 second |-> second, content |-> file[f]]
    IN
    /\ At(p, "backup") /\ ~Absent(p)
    /\ IF file[f] = None THEN UNCHANGED <<backups, excused>>
       ELSE /\ backups' = (backups \ replaced) \cup {made}
            /\ excused' = excused \cup {n \in Pieces : \E b \in replaced : Has(b.content, n)}
    /\ GoOn(p)
    /\ Meets(p) /\ UNCHANGED <<machine, file, second, draft, runs, cutOffs, owner, said, cut>>

Open(p) ==
    /\ At(p, "open")
    /\ file' = [file EXCEPT ![Cmd(p).file] = <<>>]
    /\ GoOn(p)
    /\ Meets(p) /\ UNCHANGED <<machine, backups, second, draft, runs, cutOffs, owner, said, cut, excused>>

Written(p) == IF Cmd(p).file \in Plugins THEN New(Cmd(p), <<>>) ELSE draft[p]

Write(p) ==
    /\ At(p, "write")
    /\ file' = [file EXCEPT ![Cmd(p).file] = Written(p)]
    /\ Report(Cmd(p)) /\ Finish(p)
    /\ Meets(p) /\ UNCHANGED <<machine, backups, second, runs, cutOffs, owner, cut, excused>>

\* The plugin still carried the marker when it was read; no copy is kept.
Unlink(p) ==
    LET f == Cmd(p).file IN
    /\ At(p, "unlink")
    /\ file' = [file EXCEPT ![f] = None]
    /\ excused' = excused \cup {n \in Pieces : Has(file[f], n)}
    /\ Report(Cmd(p)) /\ Finish(p)
    /\ Meets(p) /\ UNCHANGED <<machine, backups, second, runs, cutOffs, owner, cut>>

\* The agent's CLI adds the server, and refuses a name it has, whatever its
\* endpoint; the wizard takes that for registered.
Cli(p) ==
    LET f == Cmd(p).file IN
    /\ At(p, "cli")
    /\ IF \E url \in Endpoints : Has(file[f], url) THEN UNCHANGED <<file, said>>
       ELSE file' = [file EXCEPT ![f] = Append(Content(@), Cmd(p).arg)] /\ Report(Cmd(p))
    /\ Finish(p)
    /\ Meets(p) /\ UNCHANGED <<machine, backups, second, runs, cutOffs, owner, cut, excused>>

\* The process ends in the middle; of what it was writing, a part may be there.
CutOff(p) ==
    /\ todo[p] # <<>> /\ cutOffs < MaxCutOffs /\ cutOffs' = cutOffs + 1
    /\ LET f == Cmd(p).file IN
        IF At(p, "write")
        THEN /\ file' \in {[file EXCEPT ![f] = c] :
                    c \in {<<>>} \cup IF f \in Settings THEN {<<"torn">>}
                                      ELSE {SubSeq(Written(p), 1, n) : n \in 1..Len(Written(p))}}
             /\ said' = [said EXCEPT ![f] = [hooks |-> None, mcp |-> None]]
             /\ cut' = cut \cup {f}
        ELSE UNCHANGED <<file, said, cut>>
    /\ NextCmd(p, <<>>)
    /\ UNCHANGED <<machine, backups, second, runs, owner, overlapped, excused>>

\* A command at a file that has made its copy of it, or makes none.
Blind(f, p) ==
    /\ todo[p] # <<>> /\ Cmd(p).file = f
    /\ steps[p] # Steps(Cmd(p)) /\ \A n \in DOMAIN steps[p] : steps[p][n] # "backup"

\* The files that matter on the machine.
InUse ==
    machine.enforced \cup UNION {{machine.agents[n][1], machine.agents[n][2]} : n \in DOMAIN machine.agents}
        \cup IF machine.all THEN {EnforceOrder[n] : n \in DOMAIN EnforceOrder} ELSE {}

\* The operator, or the agent, adds something to a file that can be read.
Edit(f, n) ==
    /\ f \in InUse /\ owner[n] = None /\ owner' = [owner EXCEPT ![n] = f]
    /\ ~Has(file[f], "torn")
    /\ file' = [file EXCEPT ![f] = Append(Content(@), n)]
    /\ excused' = IF \E p \in Procs : Blind(f, p) THEN excused \cup {n} ELSE excused
    /\ Overlaps(f, None)
    /\ UNCHANGED <<machine, backups, second, work, runs, cutOffs, said, cut>>

NextSecond ==
    /\ second < MaxSecond /\ second' = second + 1
    /\ UNCHANGED <<machine, file, backups, work, runs, cutOffs, history>>

WiringNext ==
    \/ \E p \in Procs :
        \/ Run(p)
        \/ LoadTorn(p) \/ LoadUnneeded(p) \/ Load(p) \/ BackupUnneeded(p) \/ _backup(p) \/ Open(p) \/ Write(p)
        \/ Unlink(p) \/ Cli(p) \/ CutOff(p)
    \/ \E f \in Files, n \in Pieces : Edit(f, n)
    \/ NextSecond

WiringSpec == WiringInit /\ [][WiringNext]_wiringVars

----------------------------------------------------------------------------
(* Properties.                                                               *)

\* What the operator put into a file stays in it through every install, uninstall
\* and registration; and where a command replaces the file whole, others overlapped
\* or one was cut off, it is in a copy at least. Lost for good is only what was
\* added behind a command's back, was in a plugin that is removed, or in a copy
\* whose name was taken again within the second.
OwnContentKept ==
    \A n \in Pieces : owner[n] # None /\ n \notin excused =>
        \/ Has(file[owner[n]], n)
        \/ /\ owner[n] \in Plugins \cup overlapped \cup cut \/ \E p \in Procs : At(p, "write")
           /\ \E b \in backups : b.of = owner[n] /\ Has(b.content, n)

Idle(f) == \A p \in Procs : todo[p] # <<>> /\ Cmd(p).file = f => steps[p] = Steps(Cmd(p))

\* How often a sequence is in a file.
Times(f, s) ==
    LET c == Content(file[f]) IN
    Cardinality({n \in DOMAIN c : n + Len(s) - 1 <= Len(c) /\ SubSeq(c, n, n + Len(s) - 1) = s})

\* What the commands said last is what the files hold: the managed entries of the
\* mode, once each, or none, and the endpoint; through any number of commands of
\* both programs on one file, and of installs after a cut-off. Unless two
\* overlapped: the last to write wins, and both have reported success.
WiringKept ==
    \A f \in Files \ overlapped : Idle(f) =>
        /\ said[f].hooks \in {"hard", "soft"} =>
            /\ Times(f, _managed_block(f, said[f].hooks)) = 1
            /\ f \in Settings => /\ Times(f, <<"inject">>) = 1
                                 /\ said[f].hooks = "soft" => ~Has(file[f], "pre-tool")
        /\ said[f].hooks = "none" =>
            Times(f, _managed_block(f, "soft")) = 0 /\ ~Has(file[f], "pre-tool")
        /\ \A url \in Endpoints : said[f].mcp = url =>
            Has(file[f], url) /\ \A other \in Endpoints \ {url} : ~Has(file[f], other)
=============================================================================
