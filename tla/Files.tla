------------------------------- MODULE Files --------------------------------
(***************************************************************************)
(* The files intglobal works on (main, doWriteback and                     *)
(* IterativeModulePass::run of src/IntGlobal.cc): each is rewritten in     *)
(* place when it has been annotated, and again by every pass that changes  *)
(* modules.  The process may stop at any instant, and is run again, also   *)
(* on what it has written before; a file may be compiled again meanwhile.  *)
(***************************************************************************)
EXTENDS Annotation, FiniteSets

CONSTANTS
  NumFiles,    \* the files on the command line
  Programs,    \* the functions the files have in their sources
  MaxRuns,     \* how often intglobal is started
  MaxCrashes   \* how often it is stopped

FileNames == 1 .. NumFiles

(* The text of a module: its code, and the metadata "taint" and "intrange" *)
(* as the modules they were computed from.  What is left of a file that    *)
(* was being written does not parse, or parses as an empty module.         *)
NoCode   == [syscall |-> FALSE, vararg |-> FALSE, args |-> <<>>, code |-> <<>>]
Text(c)  == [code |-> c, taint |-> {}, range |-> {}]
Broken   == [broken |-> TRUE]

Parses(t) == t # Broken

(* Code but for the descriptions of taint sources: of several that mark    *)
(* one value, which one stays depends on the calls that were not erased.   *)
MarkedOnly(I) == [I EXCEPT !.source = IF I.source = NoMark THEN NoMark ELSE "marked"]

Undescribed(f) == [f EXCEPT !.code = [i \in DOMAIN f.code |-> MarkedOnly(f.code[i])]]

ASSUME ProgramAssumption ==
  /\ NumFiles \in Nat \ {0} /\ MaxRuns \in Nat /\ MaxCrashes \in Nat
  /\ \A p \in Programs : DOMAIN p = FileNames /\ \A f \in FileNames : Compiled(p[f])

VARIABLES
  source,       \* the functions in the sources
  disk,         \* the files
  noWriteback,  \* -p (NoWriteback)
  step,         \* "off", "load", "done", or the pass whose results are written
  at,           \* the file to load, or the module to finalise
  modules,      \* Modules: pairs of a module and its file
  pending,      \* a module is to be written back
  out,          \* the file open for writing, 0 if none
  failed,       \* the files of this run that could not be read or opened
  runs, crashes

vars == <<source, disk, noWriteback, step, at, modules, pending, out, failed, runs, crashes>>

Init ==
  /\ source \in Programs
  /\ disk = [f \in FileNames |-> Text(source[f])]
  /\ noWriteback = FALSE
  /\ step = "off" /\ at = 1 /\ modules = <<>> /\ pending = FALSE
  /\ out = 0 /\ failed = {}
  /\ runs = 0 /\ crashes = 0

-----------------------------------------------------------------------------
Start ==
  /\ step \in {"off", "done"} /\ runs < MaxRuns
  /\ runs' = runs + 1
  /\ noWriteback' \in BOOLEAN
  /\ step' = "load" /\ at' = 1 /\ modules' = <<>> /\ failed' = {}
  /\ UNCHANGED <<source, disk, pending, out, crashes>>

Idle == out = 0 /\ ~pending

(* ParseIRFile and the annotation; a file that does not parse is skipped.  *)
Load ==
  /\ step = "load" /\ Idle /\ at <= NumFiles
  /\ IF Parses(disk[at])
     THEN /\ modules' = Append(modules, [mod |-> [disk[at] EXCEPT !.code = Annotate(@)],
                                         file |-> at])
          /\ pending' = ~noWriteback
          /\ UNCHANGED failed
     ELSE /\ failed' = failed \cup {at}
          /\ UNCHANGED <<modules, pending>>
  /\ at' = at + 1
  /\ UNCHANGED <<source, disk, noWriteback, step, out, runs, crashes>>

(* The passes read the code of all modules; the call graph pass writes     *)
(* nothing.                                                                *)
Analyse ==
  /\ step = "load" /\ Idle /\ at > NumFiles
  /\ step' = "taint" /\ at' = 1
  /\ UNCHANGED <<source, disk, noWriteback, modules, pending, out, failed, runs, crashes>>

Code == { modules[n].mod.code : n \in DOMAIN modules }

(* doFinalization replaces the pass's metadata of a module, by nothing     *)
(* where it found nothing.                                                 *)
FinalizedKeeps(mod) ==   \* faulty: metadata that is there is kept
  CASE step = "taint" /\ mod.taint = {} -> [mod EXCEPT !.taint = Code]
    [] step = "range" /\ mod.range = {} -> [mod EXCEPT !.range = Code]
    [] OTHER -> mod

Finalized(mod) ==
  CASE step = "taint" -> [mod EXCEPT !.taint = Code]
    [] step = "range" -> [mod EXCEPT !.range = Code]

Finalize ==
  /\ step \in {"taint", "range"} /\ Idle /\ at <= Len(modules)
  /\ modules' = [modules EXCEPT ![at].mod = Finalized(@)]
  /\ pending' = ~noWriteback
  /\ at' = at + 1
  /\ UNCHANGED <<source, disk, noWriteback, step, out, failed, runs, crashes>>

EndPass ==
  /\ step \in {"taint", "range"} /\ Idle /\ at > Len(modules)
  /\ step' = IF step = "taint" THEN "range" ELSE "done"
  /\ at' = 1
  /\ UNCHANGED <<source, disk, noWriteback, modules, pending, out, failed, runs, crashes>>

-----------------------------------------------------------------------------
(* doWriteback: the module last handled, to its own file.  To open a file  *)
(* empties it.                                                             *)
HandledByNumber == [modules[IF step = "load" THEN Len(modules) ELSE at - 1] EXCEPT !.file = at - 1]
   \* faulty: the file of that number, whether or not all were loaded

Handled == modules[IF step = "load" THEN Len(modules) ELSE at - 1]

Open ==
  /\ pending
  /\ pending' = FALSE
  /\ out' = Handled.file
  /\ disk' = [disk EXCEPT ![out'] = Broken]
  /\ UNCHANGED <<source, noWriteback, step, at, modules, failed, runs, crashes>>

(* The message is printed with -v only, and nothing else happens.          *)
OpenFails ==
  /\ pending
  /\ pending' = FALSE
  /\ failed' = failed \cup {Handled.file}
  /\ UNCHANGED <<source, disk, noWriteback, step, at, modules, out, runs, crashes>>

Keep ==
  /\ out # 0
  /\ disk' = [disk EXCEPT ![out] = Handled.mod]
  /\ out' = 0
  /\ UNCHANGED <<source, noWriteback, step, at, modules, pending, failed, runs, crashes>>

(* The process is killed, or ends at an error of the disk while it writes. *)
Crash ==
  /\ step \notin {"off", "done"} /\ crashes < MaxCrashes
  /\ crashes' = crashes + 1
  /\ step' = "off" /\ at' = 1 /\ modules' = <<>> /\ pending' = FALSE /\ out' = 0
  /\ disk' \in {disk} \cup { [disk EXCEPT ![f] = Text(NoCode)] : f \in {out} \cap FileNames }
  /\ UNCHANGED <<source, noWriteback, failed, runs>>

(* kint-build again: the file has what its source has.                     *)
Recompile ==
  /\ step \in {"off", "done"}
  /\ \E f \in FileNames : disk' = [disk EXCEPT ![f] = Text(source[f])]
  /\ step' = "off"
  /\ UNCHANGED <<source, noWriteback, at, modules, pending, out, failed, runs, crashes>>

Finished == step \in {"off", "done"} /\ runs = MaxRuns /\ UNCHANGED vars

Next ==
  \/ Start \/ Load \/ Analyse \/ Finalize \/ EndPass
  \/ Open \/ OpenFails \/ Keep \/ Crash \/ Recompile \/ Finished

Spec == Init /\ [][Next]_vars

-----------------------------------------------------------------------------
Annotated(f) == Undescribed(Annotate(source[f]))

(* A file has its own code, as compiled or annotated once, or is lost: a   *)
(* crash loses no more than the file being written                         *)
(* (src/IntGlobal.cc:50-57), and a file that cannot be read costs no other.*)
Lost(f) == disk[f] = Broken \/ disk[f].code = NoCode

Own(f) == disk[f].code = source[f] \/ Undescribed(disk[f].code) = Annotated(f)

Intact ==
  /\ \A f \in FileNames : Lost(f) \/ Own(f)
  /\ Cardinality({ f \in FileNames \ {out} : Lost(f) }) <= crashes

(* When intglobal ends, having read and opened every file, each has the    *)
(* code annotated once and the results for all of them, whatever crashes,  *)
(* earlier runs and compilations left.                                     *)
AllRead ==
  /\ step = "done" /\ failed = {} /\ ~noWriteback
  /\ NoCode \notin Code

Analysed(f) ==
  LET all == { Annotated(g) : g \in FileNames }
      from(S) == { Undescribed(c) : c \in S } = all
  IN  /\ Undescribed(disk[f].code) = Annotated(f)
      /\ from(disk[f].taint) /\ from(disk[f].range)

Converged == AllRead => \A f \in FileNames : Analysed(f)

=============================================================================
