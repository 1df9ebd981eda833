---------------------------- MODULE MCCompileTask -----------------------------
\* Two threads that make and use one precompiled header, or compile with
\* arguments that differ only in where one ends and the next begins, while the
\* header may change within and between ticks.
EXTENDS CompileTask

CONSTANTS t1, t2, p1, a, b

Lengths == [v \in {a, b} |-> 1]

Job(driver, args, uses, makes) ==
  [driver |-> driver, language |-> "c", args |-> args,
   input_precompiled |-> uses, output_precompiled |-> makes]
FlagOf(val) == Flag("Shared", [key |-> "f", val |-> val])

MCJobs ==
  {Job("clang", <<FlagOf(<<"1", "-", "f", "2">>), FlagOf(<<"3">>)>>, Nothing, Nothing),
   Job("clang", <<FlagOf(<<"1">>), FlagOf(<<"2", "-", "f", "3">>)>>, Nothing, Nothing),
   Job("vs", <<Param("Shared", "D", <<"X">>), Param("Compiler", "W", <<"4">>)>>, p1, Nothing),
   Job("vs", <<Param("Preprocessor", "I", <<"X">>), Input("Source", "", <<"s", "c">>)>>, Nothing, p1)}

\* The jobs show that the parts of a key cannot be taken for one another.
ASSUME KeysApart == KeyTells

===============================================================================
