------------------------------ MODULE AsmPlugin ------------------------------
(* asmplugin: the Gradle transform that adds log calls to FragmentActivity.   *)
(* A build hands it the class directories and jars of a project; it copies    *)
(* them to its output, jars by way of classes_temp.jar in the directory the   *)
(* jar is in.  A build may be killed or fail at any point, and is run again.  *)
(*                                                                            *)
(* A file or an entry of a jar has a name, the class its bytes say it is, and *)
(* the methods, each [name, body]; a body is a sequence of instructions,      *)
(* empty when the method has none.  A jar on the disk is [entries, closed]:   *)
(* it cannot be opened before it was closed.                                  *)
EXTENDS Integers, Sequences, FiniteSets, SequencesExt

CONSTANTS Projects,            \* [items, globs]: directories and jars in the order
                               \* of the inputs, and the directories of which every jar is an input
          MaxBuilds            \* bound: builds of the project

VARIABLES project,
          disk,                \* the jars in the project's directories, by [dir, file]
          output,              \* what the transform has put out, by its location
          step,                \* "idle", "inputs", "entries", "copy", "delete", "done"
          pending,                \* the inputs still to handle
          source,              \* the entries of the jar that is being copied
          taken,               \* history: a jar left by an earlier build is among the inputs
          builds

asmVars == <<project, disk, output, step, pending, source, taken, builds>>

FragmentActivity == "android/support/v4/app/FragmentActivity.class"
FragmentActivityClass == "android/support/v4/app/FragmentActivity"
Temp == "classes_temp.jar"

\* The other conditions of the code follow from the last.
CheckClassFile(name) == name = FragmentActivity

\* AsmOnCreateMethodVisitor: a log call first, and one before every return.
OnCreate(body) ==
  LET emitted[k \in 0..Len(body)] ==
        IF k = 0 THEN <<"log">>
        ELSE IF body[k] = "return" THEN Append(Append(emitted[k - 1], "log end"), body[k])
        ELSE Append(emitted[k - 1], body[k])
  IN emitted[Len(body)]

\* AsmOnDestroyMethodVisitor: a log call first.
OnDestroy(body) == <<"log">> \o body

\* AsmClassVisitor: visit notes the class, visitMethod asks for it.  A method
\* without code is never visited.
VisitMethod(class, m) ==
  IF class # FragmentActivityClass \/ m.body = <<>> THEN m
  ELSE CASE m.name = "onCreate"  -> [m EXCEPT !.body = OnCreate(@)]
         [] m.name = "onDestroy" -> [m EXCEPT !.body = OnDestroy(@)]
         [] OTHER -> m

Written(e) ==
  IF CheckClassFile(e.name)
  THEN [e EXCEPT !.methods = [k \in 1..Len(@) |-> VisitMethod(e.class, @[k])]] ELSE e

\* Where an input goes: a jar's name is made unique by the digest of its path.
Location(i) == [kind |-> i.kind, name |-> i.name, path |-> IF i.kind = "jar" THEN i.path ELSE <<>>]

TempIn(dir) == <<dir, Temp>>
JarsOf(p) == {i \in ToSet(p.items) : i.kind = "jar"}
Jars == JarsOf(project)
With(f, x, y) == [z \in DOMAIN f \cup {x} |-> IF z = x THEN y ELSE f[z]]
Without(f, x) == [y \in DOMAIN f \ {x} |-> f[y]]

\* The classes of a project were not instrumented before.
IsMethod(m) ==
  /\ m = [name |-> m.name, body |-> m.body]
  /\ m.body \in Seq(ToSet(m.body)) /\ ToSet(m.body) \cap {"log", "log end"} = {}
IsEntry(e) ==
  /\ e = [name |-> e.name, class |-> e.class, methods |-> e.methods]
  /\ e.methods \in Seq(ToSet(e.methods)) /\ \A m \in ToSet(e.methods) : IsMethod(m)

ASSUME ProjectsAssumption ==
  \A p \in Projects :
    /\ p.items \in Seq(ToSet(p.items))
    \* The inputs are told apart by their names, and the jars' by their paths.
    /\ \A j, k \in 1..Len(p.items) : Location(p.items[j]) = Location(p.items[k]) => j = k
    /\ \A i, j \in JarsOf(p) : i.path = j.path => i = j
    /\ \A i \in ToSet(p.items) :
         /\ i.kind \in {"directory", "jar"}
         /\ i.entries \in Seq(ToSet(i.entries)) /\ \A e \in ToSet(i.entries) : IsEntry(e)
         \* A file's name has no directories.
         /\ i.kind = "directory" => \A e \in ToSet(i.entries) : ~CheckClassFile(e.name)
         /\ i.kind = "jar" => i.path # TempIn(i.path[1]) /\ i.path = <<i.path[1], i.path[2]>>

AsmInit ==
  /\ project \in Projects
  /\ disk = [p \in {i.path : i \in Jars} |->
               [entries |-> (CHOOSE i \in Jars : i.path = p).entries, closed |-> TRUE]]
  /\ output = <<>> /\ step = "idle" /\ pending = <<>> /\ source = <<>>
  /\ taken = FALSE /\ builds = 0

\* A file that an earlier build has left among the jars of a directory.
LeftBehind == {p \in DOMAIN disk : p[1] \in project.globs /\ p \notin {i.path : i \in Jars}}
LeftInput(p) == [kind |-> "jar", name |-> Temp, path |-> p, suffix |-> ".jar", entries |-> disk[p].entries]

\* Mutant of Transform: what the last build has put out is not deleted.
TransformOver ==
  /\ step \in {"idle", "done"} /\ builds < MaxBuilds
  /\ \E order \in SetToSeqs(LeftBehind) :
       LET left == [k \in 1..Len(order) |-> LeftInput(order[k])]
       IN pending' \in {left \o project.items, project.items \o left}
  /\ taken' = (LeftBehind # {})
  /\ step' = "inputs" /\ builds' = builds + 1
  /\ UNCHANGED <<project, disk, output, source>>

\* transform: the output of the last build goes, whatever became of it.
Transform ==
  /\ step \in {"idle", "done"} /\ builds < MaxBuilds
  /\ \E order \in SetToSeqs(LeftBehind) :
       LET left == [k \in 1..Len(order) |-> LeftInput(order[k])]
       IN pending' \in {left \o project.items, project.items \o left}
  /\ taken' = (LeftBehind # {})
  /\ output' = <<>> /\ step' = "inputs" /\ builds' = builds + 1
  /\ UNCHANGED <<project, disk, source>>

\* handleDirectoryInput: a file's name there is without its directories.
HandleDirectory ==
  /\ step = "inputs" /\ pending # <<>> /\ Head(pending).kind = "directory"
  /\ LET d == Head(pending)
     IN output' = With(output, Location(d), [k \in 1..Len(d.entries) |-> Written(d.entries[k])])
  /\ pending' = Tail(pending)
  /\ UNCHANGED <<project, disk, step, source, taken, builds>>

\* handleJarInputs leaves out what is no .jar file.
PassOver ==
  /\ step = "inputs" /\ pending # <<>> /\ Head(pending).kind = "jar" /\ Head(pending).suffix # ".jar"
  /\ pending' = Tail(pending)
  /\ UNCHANGED <<project, disk, output, step, source, taken, builds>>

\* The jar is opened, then what is left of an earlier classes_temp.jar is deleted.
OpenJar ==
  /\ step = "inputs" /\ pending # <<>> /\ Head(pending).kind = "jar" /\ Head(pending).suffix = ".jar"
  /\ LET p == Head(pending).path
     IN /\ p \in DOMAIN disk /\ disk[p].closed
        /\ source' = disk[p].entries
        /\ disk' = With(disk, TempIn(p[1]), [entries |-> <<>>, closed |-> FALSE])
  /\ step' = "entries"
  /\ UNCHANGED <<project, output, pending, taken, builds>>

TempFile == TempIn(Head(pending).path[1])

\* putNextEntry does not take a name twice.
CopyEntry ==
  /\ step = "entries" /\ source # <<>>
  /\ \A e \in ToSet(disk[TempFile].entries) : e.name # Head(source).name
  /\ disk' = [disk EXCEPT ![TempFile].entries = Append(@, Written(Head(source)))]
  /\ source' = Tail(source)
  /\ UNCHANGED <<project, output, step, pending, taken, builds>>

CloseJar ==
  /\ step = "entries" /\ source = <<>>
  /\ disk' = [disk EXCEPT ![TempFile].closed = TRUE]
  /\ step' = "copy"
  /\ UNCHANGED <<project, output, pending, source, taken, builds>>

CopyFile ==
  /\ step = "copy"
  /\ output' = With(output, Location(Head(pending)), disk[TempFile].entries)
  /\ step' = "delete"
  /\ UNCHANGED <<project, disk, pending, source, taken, builds>>

DeleteTemp ==
  /\ step = "delete"
  /\ disk' = Without(disk, TempFile)
  /\ pending' = Tail(pending) /\ step' = "inputs"
  /\ UNCHANGED <<project, output, source, taken, builds>>

Finished ==
  /\ step = "inputs" /\ pending = <<>>
  /\ step' = "done"
  /\ UNCHANGED <<project, disk, output, pending, source, taken, builds>>

\* An exception ends the build, or somebody does: the files stay as they are.
Abort ==
  /\ step \notin {"idle", "done"}
  /\ step' = "idle" /\ pending' = <<>> /\ source' = <<>>
  /\ UNCHANGED <<project, disk, output, taken, builds>>

AsmNext == Transform \/ HandleDirectory \/ PassOver \/ OpenJar \/ CopyEntry \/ CloseJar
           \/ CopyFile \/ DeleteTemp \/ Finished \/ Abort
-----------------------------------------------------------------------------
(* Properties.                                                              *)

Logs == {"log", "log end"}
Own(body) == {k \in 1..Len(body) : body[k] \notin Logs}
Count(body, instr) == Cardinality({k \in 1..Len(body) : body[k] = instr})

\* Read without its logs, the body out is the body in: its k-th instruction of its
\* own is the k-th of in.
ReadsAs(out, in) ==
  /\ Cardinality(Own(out)) = Len(in)
  /\ \A k \in Own(out) : out[k] = in[Cardinality({j \in Own(out) : j <= k})]

\* The method out was made from the method in, with logs where they belong.
Instrumented(in, out) ==
  /\ out.name = in.name /\ ReadsAs(out.body, in.body)
  /\ in.name \notin {"onCreate", "onDestroy"} \/ in.body = <<>> => out = in
  /\ in.name \in {"onCreate", "onDestroy"} /\ in.body # <<>> =>
       /\ out.body[1] = "log" /\ Count(out.body, "log") = 1
       /\ in.name = "onDestroy" => Count(out.body, "log end") = 0
       /\ in.name = "onCreate" =>
            /\ Count(out.body, "log end") = Count(out.body, "return")
            /\ \A k \in 1..Len(out.body) : out.body[k] = "return" => out.body[k - 1] = "log end"

\* What was put out for an input: each entry as it was, but FragmentActivity in a jar.
PutOut(i, out) ==
  /\ Len(out) = Len(i.entries)
  /\ \A k \in 1..Len(out) :
       LET e == i.entries[k]
       IN IF i.kind = "jar" /\ e.name = FragmentActivity /\ e.class = FragmentActivityClass
          THEN /\ out[k].name = e.name /\ out[k].class = e.class /\ Len(out[k].methods) = Len(e.methods)
               /\ \A m \in 1..Len(e.methods) : Instrumented(e.methods[m], out[k].methods[m])
          ELSE out[k] = e

\* A build that ends, after any number of builds that were killed or failed
\* at any point, has put out every directory and every jar of the project, each
\* entry as it was but FragmentActivity in a jar, whose methods have got their
\* log calls exactly once; the project's own jars are untouched and nothing is
\* left beside them (AsmPlugin.groovy:51-158).  It has put out nothing else,
\* unless an earlier build's classes_temp.jar was among its inputs: what comes
\* of that file InsertedOnce shows.
BuildRight ==
  step = "done" =>
    LET inputs == {i \in ToSet(project.items) : i.kind = "directory" \/ i.suffix = ".jar"}
    IN /\ \A i \in inputs : Location(i) \in DOMAIN output /\ PutOut(i, output[Location(i)])
       /\ ~taken => Cardinality(DOMAIN output) = Cardinality(inputs)
       /\ DOMAIN disk = {i.path : i \in Jars}
       /\ \A i \in Jars : disk[i.path] = [entries |-> i.entries, closed |-> TRUE]

\* What the comment on deleting an old classes_temp.jar is about ("avoid that the
\* cache of the last time is inserted into again", AsmPlugin.groovy:122): no
\* method that is put out has had its log calls inserted twice.  Where every
\* jar of the directory is an input (app/build.gradle:24), the file a killed
\* build left is opened as one before it is deleted.
InsertedOnce ==
  step = "done" =>
    \A l \in DOMAIN output : \A e \in ToSet(output[l]) : \A m \in ToSet(e.methods) : Count(m.body, "log") <= 1
=============================================================================
