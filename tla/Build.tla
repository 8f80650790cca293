-------------------------------- MODULE Build --------------------------------
(***************************************************************************)
(* A build and the loading of what it built (Process::build, main.cpp):    *)
(* every source is preprocessed, then every result assembled, and the      *)
(* objects make a library or an executable.  Command lines run one after   *)
(* the other and find the files of the ones before them.  An error ends    *)
(* the program, and the files it wrote so far stay.                        *)
(***************************************************************************)
EXTENDS Preprocessor, Assembler, Loader

CONSTANT Programs   \* sets of files, each with the command lines to run

VARIABLES
  commands,   \* the command lines still to come
  phase,      \* what the current one is doing, or how it ended
  todo,       \* the files of this phase that are still to be worked on
  made,       \* the files it has made
  memory      \* the emulator's memory once a program is loaded

bvars == <<files, job, commands, phase, todo, made, memory>>
vars == <<pvars, avars, bvars>>

Ended == {"done", "failed", "thrown", "loaded"}

Init ==
  /\ \E p \in Programs : files = p.files /\ commands = p.commands
  /\ job = NoJob /\ phase = "done" /\ todo = <<>> /\ made = <<>> /\ memory = Empty
  /\ PreprocessorInit /\ AssemblerInit

\* Slip: the command line is run again and again.
SlipStart ==
  /\ phase \in Ended /\ commands # <<>>
  /\ job' = EvaluateArgs(Head(commands)) /\ commands' = commands
  /\ phase' = IF job'.ok THEN "preprocess" ELSE "failed"
  /\ todo' = job'.sources /\ made' = <<>> /\ memory' = Empty
  /\ pstate' = "unprocessed" /\ astate' = "not assembled"
  /\ UNCHANGED <<files, rest, out, defs, macros, stack, input>>
  /\ UNCHANGED <<toks, ti, obj, section, scopes, total>>

\* A new run of the program.
Start ==
  /\ phase \in Ended /\ commands # <<>>
  /\ job' = EvaluateArgs(Head(commands)) /\ commands' = Tail(commands)
  /\ phase' = IF job'.ok THEN "preprocess" ELSE "failed"
  /\ todo' = job'.sources /\ made' = <<>> /\ memory' = Empty
  /\ pstate' = "unprocessed" /\ astate' = "not assembled"
  /\ UNCHANGED <<files, rest, out, defs, macros, stack, input>>
  /\ UNCHANGED <<toks, ti, obj, section, scopes, total>>

\* The file a stage writes is emptied when the stage begins.
BeginPreprocess ==
  /\ phase = "preprocess" /\ pstate = "unprocessed" /\ todo # <<>>
  /\ Head(todo) \in DOMAIN files
  /\ StartPreprocess(Head(todo))
  /\ files' = Put(files, StageFile(Head(todo), "bi"), <<>>)
  /\ UNCHANGED <<avars, job, commands, phase, todo, made, memory>>

SourceMissing ==
  /\ phase = "preprocess" /\ pstate = "unprocessed" /\ todo # <<>>
  /\ Head(todo) \notin DOMAIN files
  /\ phase' = "failed"
  /\ UNCHANGED <<pvars, avars, files, job, commands, todo, made, memory>>

Preprocess ==
  /\ phase = "preprocess" /\ PreprocessorNext
  /\ phase' = IF pstate' = "failed" THEN "failed" ELSE phase
  /\ UNCHANGED <<avars, files, job, commands, todo, made, memory>>

EndPreprocess ==
  /\ phase = "preprocess" /\ pstate = "processed"
  /\ LET result == StageFile(Head(todo), "bi")
     IN  files' = Put(files, result, out) /\ made' = Append(made, result)
  /\ todo' = Tail(todo) /\ pstate' = "unprocessed"
  /\ UNCHANGED <<avars, rest, out, defs, macros, stack, input, job, commands, phase, memory>>

AllPreprocessed ==
  /\ phase = "preprocess" /\ pstate = "unprocessed" /\ todo = <<>>
  /\ phase' = "assemble" /\ todo' = made /\ made' = <<>>
  /\ UNCHANGED <<pvars, avars, files, job, commands, memory>>

BeginAssemble ==
  /\ phase = "assemble" /\ astate = "not assembled" /\ todo # <<>>
  /\ Head(todo) \in DOMAIN files
  /\ StartAssemble(Head(todo))
  /\ files' = Put(files, StageFile(Head(todo), "bo"), <<>>)
  /\ UNCHANGED <<pvars, job, commands, phase, todo, made, memory>>

\* A source that is listed twice has one preprocessed file, which is gone after the
\* first assembly.  The file of the result is there before that is found out.
ProcessedMissing ==
  /\ phase = "assemble" /\ astate = "not assembled" /\ todo # <<>>
  /\ Head(todo) \notin DOMAIN files
  /\ LET result == StageFile(Head(todo), "bo")
     IN  files' = IF result \in DOMAIN files THEN files ELSE Put(files, result, <<>>)
  /\ phase' = "failed"
  /\ UNCHANGED <<pvars, avars, job, commands, todo, made, memory>>

Assemble ==
  /\ phase = "assemble" /\ AssemblerNext
  /\ phase' = IF astate' = "failed" THEN "failed" ELSE phase
  /\ UNCHANGED <<pvars, files, job, commands, todo, made, memory>>

\* The preprocessed file is removed, unless -kp asks to keep it.
EndAssemble ==
  /\ phase = "assemble" /\ astate = "assembled"
  /\ LET result == StageFile(Head(todo), "bo")
         gone == IF job.keep THEN {} ELSE {Head(todo)}
     IN  /\ files' = Put(Restrict(files, DOMAIN files \ gone), result, WriteObject(obj))
         /\ made' = Append(made, result)
  /\ todo' = Tail(todo) /\ astate' = "not assembled"
  /\ UNCHANGED <<pvars, toks, ti, obj, section, scopes, total, job, commands, phase, memory>>

Assembled == phase = "assemble" /\ astate = "not assembled" /\ todo = <<>>
Output(ext) == Path(Dir(job.output), Name(job.output), ext)

MakeLibrary ==
  /\ Assembled /\ job.lib
  /\ files' = Put(files, Output("ba"), WriteLibrary(made))
  /\ phase' = "done"
  /\ UNCHANGED <<pvars, avars, job, commands, todo, made, memory>>

OnlyCompile ==
  /\ Assembled /\ ~job.lib /\ job.compileOnly
  /\ phase' = "done"
  /\ UNCHANGED <<pvars, avars, files, job, commands, todo, made, memory>>

\* The objects of this build, then those of the libraries it names, then those of the
\* libraries in its directories.  Bound: a directory has one library at most.
LinkedObjects ==
  LET inDir(d) == {p \in DOMAIN files : Dir(p) = d /\ Extension(p) = "ba"}
      found == FlattenSeq([k \in DOMAIN job.libdirs |->
                             IF inDir(job.libdirs[k]) = {} THEN <<>>
                             ELSE ReadLibrary(CHOOSE p \in inDir(job.libdirs[k]) : TRUE)])
  IN  [k \in DOMAIN made |-> ReadObject(files[made[k]])]
      \o FlattenSeq([k \in DOMAIN job.libraries |-> ReadLibrary(job.libraries[k])]) \o found

LinkProgram ==
  /\ Assembled /\ DoesCreateExe(job)
  /\ LET exe == Link(LinkedObjects)
     IN  /\ files' = IF exe.ok THEN Put(files, Output("bexe"), WriteObject(exe)) ELSE files
         /\ phase' = IF exe.ok THEN "load" ELSE "failed"
  /\ UNCHANGED <<pvars, avars, job, commands, todo, made, memory>>

LoadProgram ==
  /\ phase = "load"
  /\ memory' = Load(files[Output("bexe")]) /\ phase' = memory'.state
  /\ UNCHANGED <<pvars, avars, files, job, commands, todo, made>>

\* All command lines have been run, or one reads or expands on for ever.
Busy == pstate # "hung" /\ ~(phase \in Ended /\ commands = <<>>)
Rest == ~Busy /\ UNCHANGED vars

Next ==
  \/ Start
  \/ BeginPreprocess \/ SourceMissing \/ Preprocess \/ EndPreprocess \/ AllPreprocessed
  \/ BeginAssemble \/ ProcessedMissing \/ Assemble \/ EndAssemble
  \/ MakeLibrary \/ OnlyCompile \/ LinkProgram \/ LoadProgram
  \/ Rest

\* main calls one stage after the other and waits for nothing: a step is taken unless
\* the program is again and again at rest.  This is WF_vars(Next) with Busy in the place
\* of ENABLED <<Next>>_vars, which TLC would evaluate for very long; that Next is
\* enabled in all other states is what checking for deadlock shows.
Fairness == []<>~Busy \/ []<><<TRUE>>_vars
Spec == Init /\ [][Next]_vars /\ Fairness

----------------------------------------------------------------------------
(* Properties. *)

\* What the tables of an object hold fits together: ids name strings, references have
\* an instruction and a symbol, undefined symbols have no value, and open scopes are
\* among those seen, the innermost last.
TypeOK ==
  /\ phase \in Ended \cup {"preprocess", "assemble", "load"}
  /\ pstate \in {"unprocessed", "processing", "processed", "failed", "hung"}
  /\ astate \in {"not assembled", "assembling", "assembled", "failed"}
  /\ section \in {TEXT, DATA, BSS, NoSection}
  /\ ti \in 0 .. Len(toks)
  /\ DOMAIN obj.symtab = Len(SectionNames) + 1 .. Len(obj.strings)
  /\ \A id \in DOMAIN obj.symtab :
       LET e == obj.symtab[id]
       IN  /\ e.name = id /\ e.binding \in {"local", "global", "weak"}
           /\ e.value \in 0 .. IF e.section = NoSection THEN 0 ELSE SizeOf(obj, e.section)
  /\ \A rel \in ToSet(obj.rels) : /\ rel.sym \in DOMAIN obj.symtab /\ rel.token \in 1 .. Len(toks)
                                  /\ rel.offset \in {4 * k : k \in 0 .. Len(obj.text) - 1}
  /\ \A j, k \in DOMAIN scopes : scopes[j] < total /\ (j < k => scopes[j] < scopes[k])
  /\ ToSet(made) \subseteq DOMAIN files

\* Elsewhere .scope would be an operand, which counts as 0.
ScopesBeginLines ==
  \A k \in DOMAIN toks : toks[k] \in {".scope", ".scend"} => k = 1 \/ toks[k-1] = NL

\* Labels are named while the file is read and references settled when it has been
\* read, each with a count of scopes of its own; the two counts agree on every token
\* (Assembler::_scope, fill_local).  .stop passes over tokens that only one would see, as
\* does an expression that takes .scope for a number (parse_expression).
ScopesAgree ==
  astate = "assembling" /\ ScopesBeginLines /\ ~Contains(toks, ".stop") => scopes = ScopesAt(ti)

\* An object file that is written and read again is the object, without the places of
\* the tokens, which nobody needs any more (write_object_file, read_object_file).
ObjectsSurvive ==
  astate = "assembled" =>
    ReadObject(WriteObject(obj)) = [obj EXCEPT !.rels = [k \in DOMAIN @ |-> [@[k] EXCEPT !.token = 0]]]
=============================================================================
