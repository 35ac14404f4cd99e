---------------------------- MODULE MCShellState ----------------------------
(* Lines for TLC: every command with up to two arguments, through an alias *)
(* too, and definitions of which some break the rules.                     *)
EXTENDS ShellState

Plain(w) == [words |-> w, def |-> {}]
Define(w, n, v) == [words |-> w, def |-> {[name |-> n, val |-> v]}]

MCPaths == {"/p", "/q"}
MCEnviron == <<"V", "W", "X">>

MCLines ==
  {Plain(<<"cd", d>>) : d \in MCPaths \cup {"-"}}
  \cup {Plain(<<"cd">>), Plain(<<"cd", "/p", "/q">>), Plain(<<"chprompt", "new">>), Plain(<<"chprompt">>)}
  \cup {Plain(<<"unsetenv", v, w>>) : v, w \in {"V", "W", "X"}}
  \cup {Plain(<<"unalias", n, m>>) : n, m \in {"a", "b"}}
  \cup {Plain(<<n>>) : n \in {"a", "b", "alias"}}
  \cup {Plain(<<n, "/q">>) : n \in {"a", "b"}} \cup {Plain(<<"a", "b">>), Plain(<<"a", "V">>)}
  \cup {Plain(<<"a", ">", "f">>), Plain(<<"cd", "/p", "|", "b">>)}
  \cup {Define(<<w>>, n, v) : w \in {"alias", "a"}, n \in {"a", "b", "cd"},
          v \in {<<>>, <<"cd">>, <<"unalias", "a">>, <<"alias">>, <<"ls", ">", "f">>}}
=============================================================================
