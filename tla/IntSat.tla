------------------------------- MODULE IntSat -------------------------------
(***************************************************************************)
(* The overflow checker (src/IntSat.cc) and the process it runs a query in *)
(* (SMTFork and SMTJoin, src/SMTSolver.cc).  With -smt-timeout each query  *)
(* runs in a child that a timer may kill at any instant of its work; the   *)
(* child prints the report and tells the parent the answer by its exit     *)
(* status.  Without, the checker runs the query itself.                    *)
(***************************************************************************)
EXTENDS Integers, Sequences

CONSTANTS
  Vals,     \* arguments of int.sat
  Programs  \* the programs to check

SMT_TIMEOUT == -1
SMT_UNDEF   == 0
SMT_UNSAT   == 1
SMT_SAT     == 2

Statuses == {SMT_TIMEOUT, SMT_UNDEF, SMT_UNSAT, SMT_SAT}

(* A call of int.sat: its argument, whether the solver is to be asked at   *)
(* all (the argument is no constant, the call has a location and metadata  *)
(* "bug"), and whether the argument can be true on a path to the call.     *)
Checks == [val : Vals, asked : BOOLEAN, sat : BOOLEAN]

(* A program is a sequence of functions, a function the sequence of its    *)
(* calls of int.sat.                                                       *)
ASSUME CheckAssumption == Programs \subseteq Seq(Seq(Checks))

(* What query prints, in this order.                                       *)
Parts == <<"bug", "status", "classify", "stack", "model">>

VARIABLES
  prog,      \* the program checked
  timed,     \* SMTTimeoutOpt # 0
  fn, pos,   \* the current function, the current call in it
  reported,  \* ReportedBugs
  parent,    \* "check", "wait" (in SMTJoin, or in query), "done", "failed"
  worker,    \* the query: "none", "solve", "print", "leave", "exited", "killed"
  res,       \* the answer of the query
  out,       \* what was printed: records of function, call and part
  lost       \* calls <<fn, pos>> whose query was killed or gave no answer

vars == <<prog, timed, fn, pos, reported, parent, worker, res, out, lost>>

Call == prog[fn][pos]

Lines == [fn : 1 .. Len(prog), pos : Nat, part : 1 .. Len(Parts)]

Asking == worker # "none"

TypeOK ==
  /\ prog \in Programs
  /\ timed \in BOOLEAN
  /\ fn \in 1 .. Len(prog) + 1
  /\ fn > Len(prog) <=> parent = "done"
  /\ fn <= Len(prog) => pos \in 1 .. Len(prog[fn]) + 1
  /\ reported \subseteq Vals
  /\ parent \in {"check", "wait", "done", "failed"}
  /\ worker \in {"none", "solve", "print", "leave", "exited", "killed"}
  /\ parent = "wait" <=> Asking
  /\ Asking => pos <= Len(prog[fn]) /\ Call.asked /\ Call.val \notin reported
  /\ worker = "killed" => timed
  /\ res \in Statuses
  /\ out \in Seq(Lines)

Init ==
  /\ prog \in Programs
  /\ prog # << >>
  /\ timed \in BOOLEAN
  /\ fn = 1
  /\ pos = 1
  /\ reported = {}
  /\ parent = "check"
  /\ worker = "none"
  /\ res = SMT_TIMEOUT
  /\ out = << >>
  /\ lost = {}

-----------------------------------------------------------------------------
AtCall == parent = "check" /\ pos <= Len(prog[fn])

(* check returns before the query.                                         *)
Skip ==
  /\ AtCall
  /\ ~Call.asked \/ Call.val \in reported
  /\ pos' = pos + 1
  /\ UNCHANGED <<prog, timed, fn, reported, parent, worker, res, out, lost>>

(* SMTFork; the parent goes on to SMTJoin.                                 *)
Fork ==
  /\ AtCall
  /\ Call.asked /\ Call.val \notin reported
  /\ parent' = "wait"
  /\ worker' = "solve"
  /\ UNCHANGED <<prog, timed, fn, pos, reported, res, out, lost>>

(* err(1, "fork"): the process exits.                                      *)
ForkFails ==
  /\ AtCall
  /\ Call.asked /\ Call.val \notin reported
  /\ timed
  /\ parent' = "failed"
  /\ UNCHANGED <<prog, timed, fn, pos, reported, worker, res, out, lost>>

(* The solver answers, if it does: right, or that it does not know.        *)
AnswersRaw == {0, IF Call.sat THEN 10 ELSE 20}   \* faulty: the codes of Boolector

Answers == {SMT_UNDEF, IF Call.sat THEN SMT_SAT ELSE SMT_UNSAT}

Solve ==
  /\ worker = "solve"
  /\ res' \in Answers
  /\ worker' = IF res' = SMT_SAT THEN "print" ELSE "leave"
  /\ lost' = IF res' = SMT_UNDEF THEN lost \cup {<<fn, pos>>} ELSE lost
  /\ UNCHANGED <<prog, timed, fn, pos, reported, parent, out>>

PrintedLast == IF out # << >> THEN out[Len(out)].part % Len(Parts) ELSE 0   \* faulty

(* The part of this call's report printed last, 0 if none.                 *)
Printed == IF out # << >> /\ out[Len(out)].fn = fn /\ out[Len(out)].pos = pos
           THEN out[Len(out)].part ELSE 0

PrintPart ==
  /\ worker = "print"
  /\ out' = Append(out, [fn |-> fn, pos |-> pos, part |-> Printed + 1])
  /\ worker' = IF Printed + 1 = Len(Parts) THEN "leave" ELSE "print"
  /\ UNCHANGED <<prog, timed, fn, pos, reported, parent, res, lost>>

(* _exit(SMTRes) in the child; without a child query returns.              *)
Leave ==
  /\ worker = "leave"
  /\ worker' = "exited"
  /\ UNCHANGED <<prog, timed, fn, pos, reported, parent, res, out, lost>>

(* The timer's SIGVTALRM kills the child, whatever it is doing.            *)
KillPrinting ==   \* faulty: the timer is started after the solver's answer
  /\ timed
  /\ worker \in {"print", "leave"}
  /\ worker' = "killed"
  /\ lost' = lost \cup {<<fn, pos>>}
  /\ UNCHANGED <<prog, timed, fn, pos, reported, parent, res, out>>

Kill ==
  /\ timed
  /\ worker \in {"solve", "print", "leave"}
  /\ worker' = "killed"
  /\ lost' = lost \cup {<<fn, pos>>}
  /\ UNCHANGED <<prog, timed, fn, pos, reported, parent, res, out>>

(* waitpid returns, and check goes by the exit status.                     *)
SavedAlways(status)      == {Call.val}    \* faulty: saved whatever the answer
SavedNever(status)       == {}            \* faulty: not saved
SavedUnlessUnsat(status) == IF status = SMT_UNSAT THEN {} ELSE {Call.val}   \* faulty

Status == IF worker = "exited" THEN res ELSE SMT_TIMEOUT

Saved(status) == IF status = SMT_SAT THEN {Call.val} ELSE {}

Join ==
  /\ worker \in {"exited", "killed"}
  /\ reported' = reported \cup Saved(Status)
  /\ parent' = "check"
  /\ worker' = "none"
  /\ pos' = pos + 1
  /\ UNCHANGED <<prog, timed, fn, res, out, lost>>

EndFunction ==
  /\ parent = "check" /\ pos > Len(prog[fn])
  /\ fn' = fn + 1
  /\ pos' = 1
  /\ reported' = {}
  /\ parent' = IF fn = Len(prog) THEN "done" ELSE "check"
  /\ UNCHANGED <<prog, timed, worker, res, out, lost>>

Ended ==
  /\ parent \in {"done", "failed"}
  /\ UNCHANGED vars

Run == Skip \/ Fork \/ PrintPart \/ Leave \/ Join \/ EndFunction

Next == Run \/ ForkFails \/ Solve \/ Kill \/ Ended

Spec == Init /\ [][Next]_vars

(* The checker and the printing child run on, and the timer goes off if    *)
(* the child uses the processor long enough; nothing says the solver ends. *)
FairSpec == Spec /\ WF_vars(Run) /\ WF_vars(Kill)

-----------------------------------------------------------------------------
HasPart(f, i, k) == \E n \in 1 .. Len(out) : out[n] = [fn |-> f, pos |-> i, part |-> k]

Complete(f, i) == HasPart(f, i, Len(Parts))

CallsOf(f) == 1 .. Len(prog[f])

(* Warnings about a value are suppressed only after one was printed in     *)
(* full: a child that died proves nothing (SMTSolver.cc:41-44).            *)
SavedWasReported ==
  \A v \in reported : \E i \in 1 .. pos - 1 : prog[fn][i].val = v /\ Complete(fn, i)

(* No possible overflow is passed over: one that is not reported in full   *)
(* has its value reported before in the same function, or the solver gave  *)
(* no answer in time.                                                      *)
NothingMissed ==
  parent = "done" =>
    \A f \in 1 .. Len(prog) : \A i \in CallsOf(f) :
      prog[f][i].asked /\ prog[f][i].sat =>
        \/ <<f, i>> \in lost
        \/ \E j \in 1 .. i : prog[f][j].val = prog[f][i].val /\ Complete(f, j)

(* A value is reported again only if the earlier query was killed, and so  *)
(* never without a timeout.                                                *)
OnceUnlessKilled ==
  \A f \in 1 .. Len(prog) : \A i, j \in CallsOf(f) :
    i < j /\ prog[f][i].val = prog[f][j].val /\ HasPart(f, i, 1) /\ HasPart(f, j, 1)
      => timed /\ <<f, i>> \in lost

(* Reports never mix, although two processes write them: each line follows *)
(* the one before it of its own report, and a report breaks off only where *)
(* a child was killed.                                                     *)
Orderly ==
  \A n \in 1 .. Len(out) :
    LET l == out[n]
    IN  /\ l.part > 1 => n > 1 /\ out[n - 1] = [l EXCEPT !.part = @ - 1]
        /\ l.part < Len(Parts) /\ <<l.fn, l.pos>> \notin lost =>
             \/ n < Len(out) /\ out[n + 1] = [l EXCEPT !.part = @ + 1]
             \/ n = Len(out) /\ worker = "print"

(* With a timeout the checker ends even if the solver never does; without, *)
(* only the solver can keep it.                                            *)
Ends ==
  \/ <>(parent \in {"done", "failed"})
  \/ ~timed /\ <>[](worker = "solve")

=============================================================================
