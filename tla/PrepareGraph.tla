----------------------------- MODULE PrepareGraph -----------------------------
(***************************************************************************)
(* From the projects of the task files to the graph that is executed:      *)
(* parse_tasks, parse_create_graph and graph_project of xg/parser.rs,      *)
(* validate_graph (the steps of ValidateGraph), and prepare_graph of       *)
(* xgConsole.rs, which reads each task's command as CommandArgs says; one  *)
(* step per iteration of a loop.  HashMaps are iterated in any order.      *)
(* Graph nodes are numbered from 1 in the order in which they are added.   *)
(**************************************************************************)
EXTENDS ValidateGraph, CommandArgs

CONSTANTS
  Layouts,                      \* what may be in the task files: sequences of
                                \* projects, each the names of its task
                                \* elements as they follow each other
  Missing,                      \* a name that no task has
  Commands(_)                   \* what the tasks may run, if there are so many
                                \* of them: commands as in CommandArgs

ASSUME LayoutsListed ==
  \A layout \in Layouts : DOMAIN layout = 1..Len(layout) /\ Len(layout) \in Nat

VARIABLES
  projects,                     \* the parsed projects: name -> depends_on
  pc, p, todo,                  \* the loop that is running, its project and
                                \* what it has still to visit
  xg, xgEdges,                  \* XgGraph: its nodes' tasks, and its edges
  refs,                         \* task_refs of the project
  commands,                     \* the commands of xg's nodes, as far as read
  remap, depends, at,           \* prepare_graph's vectors and loop counter
  build, buildEdges             \* BuildGraph: its nodes, and its edges

parsed == <<projects, xg, xgEdges, refs>>
validation == vars
prepared == <<commands, remap, depends, build, buildEdges>>
preparation == <<parsed, pc, p, todo, prepared, at, validation>>

\* NodeIndex::end(): no node has it.
End == 0

\* parse_tasks keeps a project's tasks in a map by name, each with its
\* dependencies without duplicates: of two elements of one name the first is
\* lost without a word.
ParseTasks(names, dependsOn) ==
  [t \in Range(names) |-> dependsOn[Max({k \in DOMAIN names : names[k] = t})]]

\* What DependsOn may say in the elements of each project.
DependsOn(layout) ==
  {f \in [DOMAIN layout ->
            UNION {[DOMAIN names -> SUBSET (Range(names) \cup {Missing})] : names \in Range(layout)}] :
     \A k \in DOMAIN layout : DOMAIN f[k] = DOMAIN layout[k]}

PrepareInit ==
  /\ \E layout \in Layouts : \E dependsOn \in DependsOn(layout) :
       projects = [k \in DOMAIN layout |-> ParseTasks(layout[k], dependsOn[k])]
  /\ pc = "project" /\ p = 1 /\ todo = {}
  /\ xg = <<>> /\ xgEdges = {} /\ refs = <<>>
  /\ commands = <<>> /\ remap = <<>> /\ depends = <<>> /\ at = 1
  /\ build = <<>> /\ buildEdges = {}
  /\ nodes = {} /\ edges = {} /\ queue = <<>> /\ i = 1
  /\ completed = {} /\ count = 0 /\ verdict = "run"

-------------------------------------------------------------------------------
(* xg/parser.rs                                                            *)

\* parse_create_graph takes the next project, whose environment must be known.
NextProject ==
  /\ pc = "project" /\ p <= Len(projects)
  /\ \/ pc' = "nodes" /\ todo' = DOMAIN projects[p] /\ refs' = <<>>
     \/ pc' = "Err" /\ UNCHANGED <<todo, refs>>
  /\ UNCHANGED <<projects, p, xg, xgEdges, prepared, at, validation>>

\* graph_project's first loop; an unknown tool, or arguments that do not
\* parse, end it.
AddNode(t) ==
  /\ pc = "nodes" /\ t \in todo
  /\ \/ /\ xg' = Append(xg, <<p, t>>)
        /\ refs' = [u \in DOMAIN refs \cup {t} |-> IF u = t THEN Len(xg') ELSE refs[u]]
        /\ todo' = todo \ {t} /\ pc' = pc
     \/ pc' = "Err" /\ UNCHANGED <<xg, refs, todo>>
  /\ UNCHANGED <<projects, p, xgEdges, prepared, at, validation>>

NodesAdded ==
  /\ pc = "nodes" /\ todo = {}
  /\ pc' = "edges" /\ todo' = DOMAIN projects[p]
  /\ UNCHANGED <<parsed, p, prepared, at, validation>>

\* graph_project's second loop, with all the dependencies of one task.
AddEdges(t) ==
  /\ pc = "edges" /\ t \in todo
  /\ IF projects[p][t] \subseteq DOMAIN refs
       THEN /\ xgEdges' = xgEdges \cup {<<refs[t], refs[d]>> : d \in projects[p][t]}
            /\ todo' = todo \ {t} /\ pc' = pc
       ELSE pc' = "Err" /\ UNCHANGED <<xgEdges, todo>>
  /\ UNCHANGED <<projects, p, xg, refs, prepared, at, validation>>

EdgesAdded ==
  /\ pc = "edges" /\ todo = {}
  /\ pc' = "project" /\ p' = p + 1
  /\ UNCHANGED <<parsed, todo, prepared, at, validation>>

\* validate_graph of the parsed graph: its start, an iteration, its return.
StartValidate ==
  /\ pc = "project" /\ p > Len(projects)
  /\ pc' = "validate"
  /\ nodes' = DOMAIN xg /\ edges' = xgEdges
  /\ queue' = [n \in DOMAIN xg |-> n]
  /\ UNCHANGED <<parsed, p, todo, prepared, at, i, completed, count, verdict>>

ValidateStep ==
  /\ pc = "validate"
  /\ ReturnEmpty \/ Complete \/ Skip \/ Exhausted
  /\ UNCHANGED <<parsed, pc, p, todo, prepared, at>>

Validated ==
  /\ pc = "validate" /\ verdict # "run"
  /\ pc' = IF verdict = "Ok" THEN "prepare" ELSE "Err"
  /\ UNCHANGED <<parsed, p, todo, prepared, at, validation>>

-------------------------------------------------------------------------------
(* prepare_graph of xgConsole.rs                                           *)

Node(task, kind, compile) == [task |-> task, kind |-> kind, compile |-> compile]
Compiles(task, tasks) == [k \in DOMAIN tasks |-> Node(task, "compile", tasks[k])]

\* Mutant: a command no compiler can use is dropped.
CreateOnlyCompiles(task, created) == Compiles(task, created.tasks)

\* BuildAction::create_tasks: the compilations a compiler makes of the command,
\* or the command itself if there are none or it cannot use the command.
CreateTasks(task, created) ==
  IF created.tasks = <<>> THEN <<Node(task, "exec", Nothing)>> ELSE Compiles(task, created.tasks)

\* What the group node and the nodes of its actions stand for in depends.
DependsOfGroup(node, size) == <<End>> \o [j \in 1..size |-> node]

\* The group node depends on every action of its task.
GroupEdges(group, size) == {<<group, group + j>> : j \in 1..size}

\* Mutant: the last action of the group is reported as the task.
RemapLast(group, size) == group + size

\* The node that stands for a task of several actions.
RemapGroup(group, size) == group

\* One iteration of the first loop: a task of one action is a node, a task of
\* several is a group node with a node for each.
Prepare ==
  /\ pc = "prepare" /\ at <= Len(xg)
  /\ \E command \in Commands(Len(xg)) :
       LET actions == CreateTasks(xg[at], CreateCompilations(command))
           node == Len(remap) + 1
           added == Len(build) + 1
       IN /\ commands' = Append(commands, command)
          /\ IF Len(actions) = 1
               THEN /\ depends' = Append(depends, node)
                    /\ remap' = Append(remap, added)
                    /\ build' = build \o actions
                    /\ buildEdges' = buildEdges
               ELSE /\ depends' = depends \o DependsOfGroup(node, Len(actions))
                    /\ remap' = Append(remap, RemapGroup(added, Len(actions)))
                    /\ build' = Append(build, Node(xg[at], "empty", Nothing)) \o actions
                    /\ buildEdges' = buildEdges \cup GroupEdges(added, Len(actions))
  /\ at' = at + 1
  /\ UNCHANGED <<parsed, pc, p, todo, validation>>

Prepared ==
  /\ pc = "prepare" /\ at > Len(xg)
  /\ pc' = "link" /\ at' = 1
  /\ UNCHANGED <<parsed, p, todo, prepared, validation>>

\* Mutant: the new graph's node is looked up in the old graph.
LinkUnmapped ==
  /\ pc = "link" /\ at <= Len(depends)
  /\ buildEdges' = buildEdges \cup
       {<<at, remap[n]>> : n \in Outgoing(DOMAIN xg, xgEdges, at)}
  /\ at' = at + 1
  /\ UNCHANGED <<parsed, pc, p, todo, commands, remap, depends, build, validation>>

\* One iteration of the second loop: the node gets its task's dependencies.
Link ==
  /\ pc = "link" /\ at <= Len(depends)
  /\ buildEdges' = buildEdges \cup
       {<<at, remap[n]>> : n \in Outgoing(DOMAIN xg, xgEdges, depends[at])}
  /\ at' = at + 1
  /\ UNCHANGED <<parsed, pc, p, todo, commands, remap, depends, build, validation>>

\* validate_graph of the prepared graph.
Finish ==
  /\ pc = "link" /\ at > Len(depends)
  /\ pc' = IF HasCycle(DOMAIN build, buildEdges) THEN "Err" ELSE "Ok"
  /\ UNCHANGED <<parsed, p, todo, prepared, at, validation>>

PrepareDone == pc \in {"Ok", "Err"} /\ UNCHANGED preparation

PrepareNext ==
  \/ NextProject \/ NodesAdded \/ EdgesAdded
  \/ \E t \in todo : AddNode(t) \/ AddEdges(t)
  \/ StartValidate \/ ValidateStep \/ Validated
  \/ Prepare \/ Prepared \/ Link \/ Finish
  \/ PrepareDone

PrepareSpec == PrepareInit /\ [][PrepareNext]_preparation /\ WF_preparation(PrepareNext)

-------------------------------------------------------------------------------
Tasks == UNION {{<<k, t>> : t \in DOMAIN projects[k]} : k \in DOMAIN projects}
Depends ==
  UNION {UNION {{<<<<k, t>>, <<k, d>>>> : d \in projects[k][t]} : t \in DOMAIN projects[k]} :
           k \in DOMAIN projects}

\* What x reaches along any number of edges: what is in every set that has the
\* nodes x points to and, with a node, those this node points to.
Reached(S, E, x) ==
  LET closed == {C \in SUBSET S :
                   Outgoing(S, E, x) \subseteq C /\ \A e \in E : e[1] \in C => e[2] \in C}
  IN {y \in S : \A C \in closed : y \in C}

Real(n) == build[n].kind # "empty"

\* The commands are words, and so is what is in the files they name.
Worded(n) ==
  \A command \in Commands(n) :
    /\ command.words \in Seq(Word)
    /\ \A name \in DOMAIN command.files : command.files[name] \in Seq(Word)

\* Types, and the asserts of prepare_graph that its indexing relies on.
PrepareTypeOK ==
  /\ pc \in {"project", "nodes", "edges", "validate", "prepare", "link", "Ok", "Err"}
  /\ xg \in Seq(Tasks) /\ xgEdges \subseteq (DOMAIN xg) \X (DOMAIN xg)
  /\ remap \in Seq(Nat) /\ depends \in Seq(0..Len(xg))
  /\ \A n \in DOMAIN build : build[n].task \in Tasks /\ build[n].kind \in {"empty", "exec", "compile"}
  /\ buildEdges \subseteq (DOMAIN build) \X (DOMAIN build)
  /\ pc = "link" => Len(remap) = Len(xg) /\ Len(depends) = Len(build)

\* Two commands of the build are ordered exactly if the task files order their
\* tasks: splitting a task into several compilations loses no dependency of it
\* or on it, and adds none.
OrderKept ==
  pc = "Ok" =>
    \A x \in {n \in DOMAIN build : Real(n)} :
      LET built == Reached(DOMAIN build, buildEdges, x)
          wanted == Reached(Tasks, Depends, build[x].task)
      IN \A y \in {n \in DOMAIN build : Real(n)} : y \in built <=> build[y].task \in wanted

\* The commands of xg's node k, and the words of its command: Visual Studio's
\* have "@file" replaced.
CommandsOf(k) == {n \in DOMAIN build : build[n].task = xg[k] /\ Real(n)}
CompilesOf(k) == {n \in CommandsOf(k) : build[n].kind = "compile"}
WordsOf(command) ==
  IF command.program.name = "cl" THEN LoadArguments(command.words, command.files) ELSE command.words

\* The options of the compilers that have their value in the next word, if it
\* is not in the word itself.
TakesNext(compiler, w) ==
  /\ Dashed(w) /\ w.val = Nothing
  /\ IF compiler = "cl" THEN w.key \in {"D", "I", "W", "wd", "we", "wo", "w"}
     ELSE w.dash = "--" \/ w.key \in {"include", "include-pch", "target", "D", "o", "x", "I"}

\* The words that are not the value of the option before them.
NoValues(compiler, words) ==
  LET values[k \in 0..Len(words)] ==
        IF k = 0 THEN {}
        ELSE IF k > 1 /\ k - 1 \notin values[k - 1] /\ TakesNext(compiler, words[k - 1])
          THEN values[k - 1] \cup {k}
        ELSE values[k - 1]
  IN DOMAIN words \ values[Len(words)]

\* Every task of every project, by its name, is in the build with its own
\* commands only: the command as it is, once, or a compilation of each of its
\* sources.  (Of two elements of one name ParseTasks has kept the later.)
NothingDropped ==
  pc = "Ok" =>
    \A t \in Tasks : \E k \in DOMAIN xg :
      LET words == WordsOf(commands[k])
          sources == {j \in NoValues(commands[k].program.name, words) : ~Dashed(words[j])}
      IN /\ xg[k] = t
         /\ \/ Cardinality(CommandsOf(k)) = 1 /\ CompilesOf(k) = {}
            \/ /\ CommandsOf(k) = CompilesOf(k)
               /\ Cardinality(CommandsOf(k)) = Cardinality(sources)
               /\ \A j \in sources : \E n \in CommandsOf(k) : build[n].compile.source = words[j].val

\* All that words, or arguments, say.
Said(list) == FlattenSeq([j \in DOMAIN list |-> Text(list[j])])

\* A command is compiled by octobuild only if all of it is understood: the
\* arguments of its compilations say what its words say, no more and no less.
WordsAccounted ==
  pc = "Ok" =>
    \A k \in DOMAIN xg : \A n \in CompilesOf(k) :
      Said(WordsOf(commands[k])) = Said(build[n].compile.args)

\* The names differ in the extension at most; the directories do not.
Namesakes(f, g) == Len(f) = Len(g) /\ \A j \in DOMAIN f \ {2} : f[j] = g[j]

\* When two sources of a command have one object file: with /Fo, if it names a
\* file, or a directory and the names are equal but for the extension, wherever
\* the sources are; else, if they are in one directory with such names.
OneObject(objects, f, g) ==
  IF objects = <<>> THEN Namesakes(f, g)
  ELSE IsDir(CurrentDirJoin(objects[1])) => f[1] = g[1]

\* Compilations of one command, which may run at the same time, write one object
\* file in these cases and in no other.  That there are such cases, s.c and s.cpp
\* of one directory for instance, is a fault the code does not guard against.
ObjectsShared ==
  pc = "Ok" =>
    \A k \in DOMAIN xg : \A m, n \in CompilesOf(k) :
      LET first == build[m].compile
          second == build[n].compile
          objects == IF commands[k].program.name = "cl"
                       THEN Values(first.args, "output", "Object", "Fo") ELSE <<>>
      IN m # n => (first.object = second.object <=> OneObject(objects, first.source, second.source))

\* The second validate_graph never refuses what the first one accepted: a
\* build is given up only for an unknown name or a cycle in the task files.
SecondCheckPasses ==
  pc = "link" /\ at > Len(depends) => ~HasCycle(DOMAIN build, buildEdges)

\* The preparation ends: the walks of validate_graph and of prepare_graph do.
PreparationEnds == <>(pc \in {"Ok", "Err"})

===============================================================================
