------------------------------- MODULE Process -------------------------------
(***************************************************************************)
(* The arguments of a build (assembler/build.cpp) and the files it works   *)
(* on.  An argument is a flag <<"-o">>, or what a flag asks for: a path    *)
(* <<directory, name, extension>>, or a word <<"2">>.                      *)
(***************************************************************************)
EXTENDS Tokens

VARIABLES
  files,   \* the contents of each file: tokens, an object or a library
  job      \* what the arguments of the current build ask for

Dir(path) == path[1]
Name(path) == path[2]
Extension(path) == path[3]
Path(dir, name, ext) == <<dir, name, ext>>

\* A table with v at x, be there an entry for x or not.
Put(table, x, v) == [y \in DOMAIN table \cup {x} |-> IF y = x THEN v ELSE table[y]]

DefaultOutput == <<".", "a", "">>
NoJob ==
  [sources |-> <<>>, lib |-> FALSE, compileOnly |-> FALSE, keep |-> FALSE,
   output |-> DefaultOutput, outdir |-> "", includes |-> <<>>, libraries |-> <<>>,
   libdirs |-> <<>>, ok |-> TRUE]

\* Flags that stand alone, and what a flag does with the argument it takes.
Switches == {"-makelib", "-c", "-compile", "-kp", "-v", "-version", "-oall", "-wall"}
Operand ==
  [f \in {"-o", "-out", "-output"} |-> "output"] @@ [f \in {"-outdir"} |-> "outdir"]
  @@ [f \in {"-I", "-inc", "-include"} |-> "includes"]
  @@ [f \in {"-l", "-lib", "-library"} |-> "libraries"]
  @@ [f \in {"-L", "-libdir", "-librarydir"} |-> "libdirs"]
  @@ [f \in {"-O", "-optimize"} |-> "level"] @@ [f \in {"-W", "-warning"} |-> "warning"]
  @@ ("-D" :> "ignored")
OptimizationLevels == {"0", "1", "2", "3"}
WARNINGS == {"error"}

IsFlag(arg) == Len(arg) = 1 /\ (arg[1] \in Switches \cup DOMAIN Operand \cup {"--"})

Switched(j, flag) ==
  CASE flag = "-makelib"          -> [j EXCEPT !.lib = TRUE]
    [] flag \in {"-c", "-compile"} -> [j EXCEPT !.compileOnly = TRUE]
    [] flag = "-kp"                -> [j EXCEPT !.keep = TRUE]
    [] OTHER                       -> j

\* What -O and -W accept and the flags of -D are kept and never looked at again.
\* Bound: what stands where a level is asked for is a number of one digit, or none.
Given(j, flag, arg) ==
  CASE Operand[flag] = "output" -> [j EXCEPT !.output = arg]
    [] Operand[flag] = "outdir" -> [j EXCEPT !.outdir = Dir(arg)]
    [] Operand[flag] = "includes" -> [j EXCEPT !.includes = Append(@, Dir(arg))]
    [] Operand[flag] = "libraries" -> [j EXCEPT !.libraries = Append(@, arg)]
    [] Operand[flag] = "libdirs" -> [j EXCEPT !.libdirs = Append(@, Dir(arg))]
    [] Operand[flag] = "level" -> [j EXCEPT !.ok = arg \in {<<n>> : n \in OptimizationLevels}]
    [] Operand[flag] = "warning" -> [j EXCEPT !.ok = arg \in {<<w>> : w \in WARNINGS}]
    [] Operand[flag] = "ignored" -> j

AddSource(j, path) ==
  IF Len(path) = 3 /\ Extension(path) = "basm" THEN [j EXCEPT !.sources = Append(@, path)]
                                              ELSE [j EXCEPT !.ok = FALSE]

(***************************************************************************)
(* evaluate_args.  A flag takes the argument after it, whatever that is;   *)
(* "--" passes over all that follow.                                       *)
(***************************************************************************)
EvaluateArgs(args) ==
  LET step(acc, arg) ==
        CASE acc.wait = "--" \/ ~acc.j.ok -> acc
          [] acc.j.ok /\ acc.wait \in DOMAIN Operand ->
               [j |-> Given(acc.j, acc.wait, arg), wait |-> ""]
          [] acc.wait = "" /\ ~IsFlag(arg) -> [acc EXCEPT !.j = AddSource(@, arg)]
          [] acc.wait = "" /\ IsFlag(arg) /\ arg[1] \in Switches ->
               [acc EXCEPT !.j = Switched(@, arg[1])]
          [] OTHER -> [acc EXCEPT !.wait = arg[1]]
      end == FoldLeft(step, [j |-> NoJob, wait |-> ""], args)
  IN  [end.j EXCEPT !.ok = @ /\ end.wait \notin DOMAIN Operand]

DoesCreateExe(j) == ~j.lib /\ ~j.compileOnly

\* Where a stage puts its result: beside the file it read, or in the output directory.
StageFile(path, ext) ==
  Path(IF job.outdir = "" THEN Dir(path) ELSE job.outdir, Name(path), ext)
=============================================================================
