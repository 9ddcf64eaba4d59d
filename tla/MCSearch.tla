------------------------------- MODULE MCSearch -------------------------------
(* Instances of Search for TLC: a corpus whose documents expire, supersede    *)
(* and derive from one another, and its next versions.                        *)
EXTENDS Search, TLC

CONSTANTS fa, fb, fc, da, db1, dc, r1, r2

Plain(i) == [id |-> i, status |-> "active", reserved |-> FALSE, inbox |-> FALSE,
             from |-> Nil, until |-> Nil, recheck |-> Nil, verified |-> 0,
             supersedes |-> {}, superseded_by |-> {}, derived_from |-> {}]

\* da expired before day 1, dc has no status and derives from da.
First == (fa :> [Plain(da) EXCEPT !.until = 0])
      @@ (fb :> [Plain(db1) EXCEPT !.inbox = TRUE])
      @@ (fc :> [Plain(dc) EXCEPT !.status = "", !.derived_from = {da}])
\* db1 comes to force and supersedes da, whose status nobody flipped.
Second == (fa :> [Plain(da) EXCEPT !.recheck = 0])
       @@ (fb :> [Plain(db1) EXCEPT !.supersedes = {da}, !.recheck = 0])
       @@ (fc :> [Plain(dc) EXCEPT !.derived_from = {da}, !.verified = Nil])
SmallCorpora == {First, Second}

Ask(primary, expansion, trigram, dense, tagged, exact, inForce) ==
    [primary |-> primary, expansion |-> expansion, trigram |-> trigram, dense |-> dense,
     tagged |-> tagged, exact |-> exact, in_force |-> inForce, include_expired |-> FALSE]

\* In force, with a backfill beside a match; matches above what a pass returns, one
\* of them tagged; a named document, with a fuzzy match that has to give way.
MCQueries == {Ask({da, dc}, {db1}, {}, {da}, {}, Nil, TRUE),
              Ask({da, db1, dc}, {}, {}, {db1}, {db1}, Nil, FALSE),
              Ask({dc}, {}, {db1}, {da}, {}, da, FALSE)}

Symmetry == Permutations({r1, r2})
=============================================================================
