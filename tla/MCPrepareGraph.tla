---------------------------- MODULE MCPrepareGraph ----------------------------
\* One project of three tasks, or two that use the same names, with a command
\* that is compiled, one that is compiled twice and one that is run as it is, so
\* that tasks of one and of several actions meet in every order; a project with
\* two tasks of one name; and a project of one task with every short command
\* line of either compiler.
EXTENDS PrepareGraph, TLC

CONSTANTS a, b, c, x

MCLayouts == {<<<<a, b, c>>>>, <<<<a, b>>, <<a, b>>>>, <<<<a, b, a>>>>, <<<<a>>>>, <<<<>>>>}
MCUniverse == 1..4

Option(key, val) == [dash |-> "-", key |-> key, val |-> val]
Long(key, val) == [dash |-> "--", key |-> key, val |-> val]
Bare(key) == Option(key, Nothing)
Plain(stem, ext) == [dash |-> "", key |-> "", val |-> <<stem, ext>>]
Within(stem, ext, dir) == [dash |-> "", key |-> "", val |-> <<stem, ext, dir>>]
Response(stem) == [dash |-> "@", key |-> "", val |-> <<stem, "rsp">>]

Files == <<"def", "rsp">> :> <<Bare("D"), Plain("X", "")>> @@ <<"warn", "rsp">> :> <<Bare("w")>>

Clang(words) == [program |-> [name |-> "clang", path |-> "name"], executable |-> {"path1"},
                 windows |-> FALSE, words |-> words, files |-> Files]
Cl(words) == [program |-> [name |-> "cl", path |-> "name"], executable |-> {"current"},
              windows |-> TRUE, words |-> words, files |-> Files]

\* Where the compiler may be, and another program.
Places ==
  LET words == <<Bare("c"), Plain("s", "c")>>
  IN {[Clang(words) EXCEPT !.program.path = path, !.executable = found, !.windows = w, !.program.name = name] :
        path \in {"name", "relative", "absolute"}, w \in BOOLEAN, name \in {"clang", "cl", "link"},
        found \in {{}, {"current"}, {"path2"}, {"absolute"}}}

\* Sources of one name and of two, in one directory and in two.
SourcePairs ==
  LET sources == {Within(stem, ext, dir) : stem \in {"s", "t"}, ext \in {"c", "cpp"}, dir \in {"d", "e"}}
                   \cup {Plain("s", "c"), Plain("s", "cpp")}
  IN {<<f, g>> : f, g \in sources}

ClangWords ==
  {Bare("o"), Bare("D"), Bare("x"), Option("o", <<"t", "o">>), Long("sysroot", Nothing),
   Plain("s", "c"), Plain("t", "cpp"), Plain("c++", "")}
ClangLines ==
  {<<Bare("c")>> \o w : w \in UNION {[1..k -> ClangWords] : k \in 0..4}}
    \cup {<<w, Plain("s", "c"), Bare("c")>> :
            w \in {Long("analyze", Nothing), Long("sysroot", <<"r", "">>), Option("q", Nothing),
                   Option("x", <<"c-header", "">>), Option("x", <<"ada", "">>), Option("std=", <<"c", "">>),
                   Option("I", <<"i", "">>), Bare("pipe"), Option("include", <<"p", "h">>)}}
    \cup {<<Bare("include"), Plain("p", "h"), Plain("s", "c")>> \o w : w \in {<<>>, <<Bare("c")>>}}
    \cup {<<Bare("c")>> \o sources : sources \in SourcePairs}

VsWords ==
  {Option("Fo", <<"t", "obj">>), Option("Fo", <<"", "/", "d">>), Option("Yc", <<"p", "h">>), Option("Yu", Nothing),
   Option("Fp", <<"p", "pch">>), Bare("D"), Plain("s", "c"), Plain("t", "cpp"),
   Response("def"), Response("warn")}
VsLines ==
  UNION {[1..k -> VsWords] : k \in 0..4}
    \cup {<<w, Plain("s", "c")>> :
            w \in {Option("T", <<"P", "">>), Bare("nologo"), Bare("MP"), Bare("bigobj"), Option("O", <<"2", "">>),
                   Option("FI", <<"p", "h">>), Option("q", Nothing), Response("none")}}
    \cup {fo \o sources : fo \in {<<>>, <<Option("Fo", Nothing)>>, <<Option("Fo", <<"", "/", "d">>)>>},
                         sources \in SourcePairs}

AllCommands == {Clang(w) : w \in ClangLines} \cup {Cl(w) : w \in VsLines} \cup Places
Representatives ==
  {Clang(<<Plain("s", "c")>>), Clang(<<Bare("c"), Plain("s", "c")>>),
   Cl(<<Bare("c"), Plain("s", "c"), Plain("t", "cpp")>>)}

MCCommands(n) == IF n = 1 THEN AllCommands ELSE Representatives

\* The hypothesis of the theorems of PrepareGraphProofs.
ASSUME CommandsWorded == \A n \in MCUniverse : Worded(n)

===============================================================================
