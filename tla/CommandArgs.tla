------------------------------ MODULE CommandArgs -----------------------------
(***************************************************************************)
(* How octobuild reads the command line of a compiler: create_tasks and     *)
(* parse_arguments of clang/prepare.rs and vs/prepare.rs, and the choice of *)
(* the toolchain in compiler.rs.  Functions without state; PrepareGraph     *)
(* uses them where prepare_graph does.                                      *)
(*                                                                         *)
(* A word is [dash, key, val].  An option has dash "-", or "--" for clang   *)
(* (Visual Studio's "/" and "-" are alike), and a key, which is a prefix    *)
(* where the code compares prefixes; val is the rest of the word.  A plain  *)
(* word has dash "" and only a val.  A val is a name or Nothing; a name is   *)
(* <<stem, extension>> and then the directories it is in, from the working  *)
(* directory of the command; a directory has stem "" and extension "/".     *)
(* "@file" has dash "@" and as val the name of the file.                    *)
(***************************************************************************)
EXTENDS Naturals, Sequences, SequencesExt

Nothing == <<>>

Dashed(w) == w.dash \in {"-", "--"}

Word ==
  {w \in [dash : {"", "-", "--", "@"}, key : STRING, val : Seq(STRING)] : ~Dashed(w) => w.key = ""}

-------------------------------------------------------------------------------
(* Arg of compiler.rs; inputs and outputs have a kind in place of a scope.  *)

Flag(scope, w) == [type |-> "flag", scope |-> scope, key |-> w.key, val |-> w.val]
Param(scope, key, val) == [type |-> "param", scope |-> scope, key |-> key, val |-> val]
Input(kind, key, file) == [type |-> "input", scope |-> kind, key |-> key, val |-> file]
Output(kind, key, file) == [type |-> "output", scope |-> kind, key |-> key, val |-> file]

-------------------------------------------------------------------------------
(* parse_argument of the two compilers                                     *)

\* is_spaceable_param: the scope of an option whose value may be the next
\* word, or "" for another option.
ClangSpaceable(w) ==
  CASE w.key \in {"include", "include-pch"} /\ w.val = Nothing -> "Preprocessor"
    [] w.key = "target" /\ w.val = Nothing -> "Shared"
    [] w.key \in {"D", "o"} -> "Shared"
    [] w.key = "x" -> "Ignore"
    [] w.key = "I" -> "Preprocessor"
    [] OTHER -> ""

VsSpaceable(w) ==
  CASE w.key = "D" -> "Shared"
    [] w.key = "I" -> "Preprocessor"
    [] w.key \in {"W", "wd", "we", "wo", "w"} -> "Compiler"
    [] OTHER -> ""

\* The other options: the argument in a sequence, which is empty if the word
\* is unknown.
ClangFlag(w) ==
  CASE w.key = "c" /\ w.val = Nothing -> <<Flag("Ignore", w)>>
    [] w.key \in {"pipe", "nostdinc++"} /\ w.val = Nothing -> <<Flag("Shared", w)>>
    [] w.key \in {"f", "g", "O", "W", "m", "std="} -> <<Flag("Shared", w)>>
    [] OTHER -> <<>>

VsFlag(w) ==
  CASE w.key \in {"c", "nologo"} /\ w.val = Nothing -> <<Flag("Ignore", w)>>
    [] w.key = "bigobj" /\ w.val = Nothing -> <<Flag("Compiler", w)>>
    [] w.key = "MP" -> <<Flag("Compiler", w)>>
    [] w.key = "T" -> <<Param("Ignore", "T", w.val)>>
    [] w.key \in {"O", "G", "RTC", "Z", "d2Zi+", "MD", "MT", "EH", "fp:", "arch:", "errorReport:",
                  "source-charset:", "execution-charset:", "Yl", "analyze"} -> <<Flag("Shared", w)>>
    [] w.key = "Fo" -> <<Output("Object", "Fo", w.val)>>
    [] w.key = "Fp" -> <<Input("Precompiled", "Fp", w.val)>>
    [] w.key = "Yc" -> <<Output("Marker", "Yc", w.val)>>
    [] w.key = "Yu" -> <<Input("Marker", "Yu", w.val)>>
    [] w.key = "FI" -> <<Param("Preprocessor", "FI", w.val)>>
    [] OTHER -> <<>>

\* The loop of parse_arguments: the arguments found, whether a word was
\* unknown, and the option, if any, that takes the next word.
Scanned(args, bad, option) == [args |-> args, bad |-> bad, option |-> option]
Found(s, args) == Scanned(s.args \o args, s.bad \/ args = <<>>, Nothing)
Waiting(s, w) == [s EXCEPT !.option = <<w>>]

\* All a word says.
Text(w) == (IF w.key = "" THEN <<>> ELSE <<w.key>>) \o w.val

\* Mutant: the option is kept as it was found, without the word it took.
ClangLongBare(w, val) == IF w.key = "sysroot" THEN <<Flag("Shared", w)>> ELSE <<>>

\* clang's "--" options: only --sysroot is known.
ClangLong(w, val) ==
  IF w.key = "sysroot" THEN <<Flag("Shared", [w EXCEPT !.val = val])>> ELSE <<>>

\* Only the separate -o is an output: "-ofile" is a parameter.
ClangValue(w, val) ==
  IF w.key = "o" THEN <<Output("Object", "o", val)>> ELSE <<Param(ClangSpaceable(w), w.key, val)>>

\* The word after an option that takes it.  --sysroot takes any; for the
\* others one that looks like an option makes the command unknown.
ClangNext(s, w) ==
  LET option == s.option[1]
  IN IF option.dash = "--" THEN Found(s, ClangLong(option, Text(w)))
     ELSE Found(s, IF Dashed(w) THEN <<>> ELSE ClangValue(option, w.val))

ClangWord(s, w) ==
  CASE s.option # Nothing -> ClangNext(s, w)
    [] s.option = Nothing /\ w.dash = "--" ->
         IF w.val = Nothing THEN Waiting(s, w) ELSE Found(s, ClangLong(w, w.val))
    [] s.option = Nothing /\ w.dash = "-" ->
         IF ClangSpaceable(w) = "" THEN Found(s, ClangFlag(w))
         ELSE IF w.val = Nothing THEN Waiting(s, w)
         ELSE Found(s, <<Param(ClangSpaceable(w), w.key, w.val)>>)
    [] OTHER -> Found(s, <<Input("Source", "", w.val)>>)

VsWord(s, w) ==
  CASE s.option # Nothing ->
         LET option == s.option[1]
         IN Found(s, IF Dashed(w) THEN <<>> ELSE <<Param(VsSpaceable(option), option.key, w.val)>>)
    [] s.option = Nothing /\ Dashed(w) ->
         IF VsSpaceable(w) = "" THEN Found(s, VsFlag(w))
         ELSE IF w.val = Nothing THEN Waiting(s, w)
         ELSE Found(s, <<Param(VsSpaceable(w), w.key, w.val)>>)
    [] OTHER -> Found(s, <<Input("Source", "", w.val)>>)

\* An option at the end of the line that lacks its value is unknown too.
Parsed(s) == [ok |-> ~s.bad /\ s.option = Nothing, args |-> s.args]

ReadWord(compiler, s, w) == IF compiler = "cl" THEN VsWord(s, w) ELSE ClangWord(s, w)
ReadWords(compiler, words) ==
  LET after[k \in 0..Len(words)] ==
        IF k = 0 THEN Scanned(<<>>, FALSE, Nothing) ELSE ReadWord(compiler, after[k - 1], words[k])
  IN after[Len(words)]

ClangArguments(words) == Parsed(ReadWords("clang", words))
VsArguments(words) == Parsed(ReadWords("cl", words))

\* load_arguments puts the words of an "@file" in its place; it fails if the
\* file is not among those that can be read, decoded and split.
LoadArguments(words, files) ==
  FlattenSeq([k \in DOMAIN words |-> IF words[k].dash = "@" THEN files[words[k].val] ELSE <<words[k]>>])
Loadable(words, files) == \A k \in DOMAIN words : words[k].dash = "@" => words[k].val \in DOMAIN files

-------------------------------------------------------------------------------
(* create_tasks of the two compilers                                       *)

\* What find_param finds: the values of the arguments that are meant.
Meant(a, type, scope, key) == a.type = type /\ a.scope = scope /\ a.key = key
Values(args, type, scope, key) ==
  LET among[k \in 0..Len(args)] ==
        IF k = 0 THEN <<>>
        ELSE IF Meant(args[k], type, scope, key) THEN Append(among[k - 1], args[k].val)
        ELSE among[k - 1]
  IN among[Len(args)]

\* ParamValue::None or Single.
Single(values) == IF values = <<>> THEN Nothing ELSE values[1]

\* Err, and Ok with the tasks.
Refused == [ok |-> FALSE, tasks |-> <<>>]
Created(tasks) == [ok |-> TRUE, tasks |-> tasks]

\* The language of a source: as given, or by its extension; "" if neither.
Language(given, source, known) ==
  IF given # Nothing THEN given[1]
  ELSE IF source[2] \in DOMAIN known THEN known[source[2]] ELSE ""

\* Path::with_extension, which leaves an empty path as it is.
WithExtension(path, ext) == IF path = Nothing THEN Nothing ELSE [path EXCEPT ![2] = ext]

\* current_dir_join: an empty path is the working directory itself.
CurrentDirJoin(path) == IF path = Nothing THEN <<"", "/">> ELSE path

\* A task for each source, unless one has no language.
TasksOf(tasks) ==
  IF \E k \in DOMAIN tasks : tasks[k].language = "" THEN Refused ELSE Created(tasks)

\* Mutant: one -o for all sources.
SharedOutput(sources, objects) == Len(objects) <= 1

\* "Cannot specify -o when generating multiple output files".
OutputAllowed(sources, objects) == Len(objects) <= (IF Len(sources) = 1 THEN 1 ELSE 0)

\* clang: compilations only, and no precompiled headers.
ClangCreateTasks(words) ==
  LET parsed == ClangArguments(words)
      sources == Values(parsed.args, "input", "Source", "")
      objects == Values(parsed.args, "output", "Object", "o")
      languages == Values(parsed.args, "param", "Ignore", "x")
      language == Single(languages)
      known == [cpp |-> "c++", c |-> "c", hpp |-> "c++-header", h |-> "c-header"]
      has(dash, key) == \E k \in DOMAIN words : words[k] = [dash |-> dash, key |-> key, val |-> Nothing]
  IN IF has("--", "analyze") \/ ~has("-", "c") THEN Created(<<>>)
     ELSE IF ~parsed.ok \/ sources = <<>> \/ ~OutputAllowed(sources, objects) \/ Len(languages) > 1
       THEN Refused
     ELSE IF language # Nothing /\ language[1] \in {"c-header", "c++-header"} THEN Created(<<>>)
     ELSE IF language # Nothing /\ language[1] \notin {"c", "c++"} THEN Refused
     ELSE TasksOf([k \in DOMAIN sources |->
            [source |-> sources[k],
             object |-> IF objects = <<>> THEN WithExtension(sources[k], "o") ELSE objects[1],
             language |-> Language(language, sources[k], known),
             args |-> parsed.args, input_precompiled |-> Nothing, output_precompiled |-> Nothing,
             marker |-> Single(Values(parsed.args, "param", "Preprocessor", "include"))]])

IsDir(path) == path[2] = "/"

\* get_output_object: a directory stands for the file with the source's name in
\* it, wherever the source is.
VsObject(source, objects) ==
  IF objects = <<>> THEN WithExtension(source, "obj")
  ELSE LET object == CurrentDirJoin(objects[1])
       IN IF IsDir(object) THEN [object EXCEPT ![1] = source[1], ![2] = "obj"] ELSE object

\* Visual Studio: /Yc makes a precompiled header and /Yu uses one, both of the
\* name /Fp gives or the marker's with extension ".pch", which for an empty
\* marker is the working directory.
VsCreateTasks(words, files) ==
  LET parsed == VsArguments(LoadArguments(words, files))
      sources == Values(parsed.args, "input", "Source", "")
      objects == Values(parsed.args, "output", "Object", "Fo")
      headers == Values(parsed.args, "input", "Precompiled", "Fp")
      uses == Values(parsed.args, "input", "Marker", "Yu")
      makes == Values(parsed.args, "output", "Marker", "Yc")
      languages == Values(parsed.args, "param", "Ignore", "T")
      marker == Single(uses \o makes)
      header == CurrentDirJoin(IF headers # <<>> THEN headers[1] ELSE WithExtension(marker, ".pch"))
  IN IF \/ ~Loadable(words, files) \/ ~parsed.ok \/ sources = <<>>
        \/ \E many \in {objects, headers, languages, uses \o makes} : Len(many) > 1
       THEN Refused
     ELSE TasksOf([k \in DOMAIN sources |->
            [source |-> sources[k], object |-> VsObject(sources[k], objects),
             language |-> Language(Single(languages), sources[k], [cpp |-> "P", c |-> "C"]),
             args |-> parsed.args,
             input_precompiled |-> IF uses = <<>> THEN Nothing ELSE header,
             output_precompiled |-> IF makes = <<>> THEN Nothing ELSE header,
             marker |-> marker]])

-------------------------------------------------------------------------------
(* The toolchain.  A command is [program, executable, windows, words,       *)
(* files]: program is its file name and how its path is given, executable   *)
(* the places that have an executable file of that name, files the words of *)
(* the readable response files.                                             *)

\* find_executable: an absolute path as it is; else the working directory, on
\* Windows or if the path has a directory, and then those of PATH.
Candidates(command) ==
  IF command.program.path = "absolute" THEN <<"absolute">>
  ELSE (IF command.windows \/ command.program.path = "relative" THEN <<"current">> ELSE <<>>)
       \o <<"path1", "path2">>

FindExecutable(command) ==
  SelectSeq(Candidates(command), LAMBDA d : d \in command.executable)

\* Compiler::create_tasks of the CompilerGroup; another program has no toolchain.
CreateCompilations(command) ==
  IF FindExecutable(command) = <<>> THEN Refused
  ELSE CASE command.program.name = "cl" -> VsCreateTasks(command.words, command.files)
         [] command.program.name = "clang" -> ClangCreateTasks(command.words)
         [] OTHER -> Refused

===============================================================================
