---------------------------- MODULE MCEnforcement ----------------------------
(* Two sessions and four globs of three families. *)
EXTENDS Enforcement, TLC

MCPathGlobs == <<"pyproject.toml", "*/go.mod", "go.mod", "*/schema/*">>
MCFits == [g \in Range(MCPathGlobs) |->
    CASE g = "pyproject.toml" -> {"pyproject.toml"}
      [] g = "*/schema/*" -> {"db/schema/auth"}
      [] OTHER -> {"go.mod"}]
MCFamily == [g \in Range(MCPathGlobs) |->
    CASE g = "*/go.mod" -> "go.mod" [] g = "*/schema/*" -> "schema/*" [] OTHER -> g]
MCKeywordsFor ==
    <<"path", "go.mod">> :> {"package"} @@ <<"path", "pyproject.toml">> :> {"package"}
        @@ <<"command", "uv add">> :> {"package"} @@ <<"path", "schema/*">> :> {"schema"}
MCWordsOf == [p \in {"go.mod", "pyproject.toml", "db/schema/auth"} |->
    IF p = "db/schema/auth" THEN {"schema", "auth"} ELSE {}]

MCActions ==
    { [path |-> "db/schema/auth", words |-> {}, frags |-> {}],
      [path |-> Nil, words |-> {"auth"}, frags |-> {"uv add"}] }
MCPrompts == { [words |-> {"package"}, frags |-> {}, paths |-> {}] }
MCSymmetry == Permutations(Keys)
=============================================================================
