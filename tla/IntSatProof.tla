----------------------------- MODULE IntSatProof -----------------------------
(***************************************************************************)
(* Theorems about the overflow checker and its query process, for every    *)
(* program, every answer of the solver and every instant of a kill.        *)
(***************************************************************************)
EXTENDS IntSat, TLAPS

(* A call the checker has dealt with, and a line about the current call.   *)
Past(f, i) == f < fn \/ (f = fn /\ i < pos)

Here(l) == l.fn = fn /\ l.pos = pos

(* Lines are about calls dealt with, or about the current one once the     *)
(* solver answered that it can be satisfied.                               *)
WrittenSoFar ==
  \A n \in 1 .. Len(out) :
    \/ Past(out[n].fn, out[n].pos)
    \/ Here(out[n]) /\ worker \notin {"none", "solve"} /\ res = SMT_SAT

(* What the query has done by the state it is in: it prints a report that  *)
(* is not complete, and it leaves with the report complete or without one. *)
QueryDone ==
  /\ worker \in {"print", "leave", "exited"} => res \in Answers
  /\ worker = "print" => res = SMT_SAT /\ Printed < Len(Parts)
  /\ worker \in {"leave", "exited"} =>
       /\ res = SMT_SAT => Complete(fn, pos)
       /\ res = SMT_UNDEF => <<fn, pos>> \in lost
  /\ worker = "killed" => <<fn, pos>> \in lost

(* A report that breaks off is the one being printed, or of a query that   *)
(* was killed.                                                             *)
BrokenOff ==
  Len(out) > 0 =>
    LET l == out[Len(out)]
    IN  l.part < Len(Parts) /\ <<l.fn, l.pos>> \notin lost => worker = "print" /\ Here(l)

(* A call before the current one that began a report has its value saved,  *)
(* unless its query was killed.                                            *)
BegunWasSaved ==
  \A i \in 1 .. pos - 1 :
    HasPart(fn, i, 1) => prog[fn][i].val \in reported \/ (timed /\ <<fn, i>> \in lost)

(* NothingMissed, so far.                                                  *)
Accounted(f, i) ==
  prog[f][i].asked /\ prog[f][i].sat =>
    \/ <<f, i>> \in lost
    \/ \E j \in 1 .. i : prog[f][j].val = prog[f][i].val /\ Complete(f, j)

NoneMissedSoFar ==
  \A f \in 1 .. Len(prog) : \A i \in CallsOf(f) : Past(f, i) => Accounted(f, i)

CheckerInv ==
  /\ TypeOK
  /\ WrittenSoFar
  /\ QueryDone
  /\ BrokenOff
  /\ BegunWasSaved
  /\ SavedWasReported
  /\ NoneMissedSoFar
  /\ OnceUnlessKilled
  /\ Orderly

-----------------------------------------------------------------------------
LEMMA PartsLen == Len(Parts) = 5
BY DEF Parts

(* The program, the current call and the lines.                            *)
LEMMA ProgType ==
  ASSUME TypeOK
  PROVE  /\ Len(prog) \in Nat
         /\ \A f \in 1 .. Len(prog) : /\ prog[f] \in Seq(Checks)
                                     /\ Len(prog[f]) \in Nat
                                     /\ \A i \in CallsOf(f) : prog[f][i] \in Checks
         /\ fn \in Nat /\ fn >= 1
         /\ parent # "done" => fn \in 1 .. Len(prog) /\ pos \in 1 .. Len(prog[fn]) + 1
<1>1. prog \in Seq(Seq(Checks))
  BY CheckAssumption DEF TypeOK
<1>2. Len(prog) \in Nat /\ \A f \in 1 .. Len(prog) : prog[f] \in Seq(Checks)
  BY <1>1
<1>3. \A f \in 1 .. Len(prog) :
        Len(prog[f]) \in Nat /\ \A i \in CallsOf(f) : prog[f][i] \in Checks
  BY <1>2 DEF CallsOf
<1> QED
  BY <1>2, <1>3 DEF TypeOK

LEMMA CallType ==
  ASSUME TypeOK, AtCall \/ Asking
  PROVE  /\ fn \in 1 .. Len(prog) /\ pos \in CallsOf(fn)
         /\ pos \in Nat /\ pos >= 1 /\ pos <= Len(prog[fn])
         /\ Call \in Checks /\ Call.val \in Vals
         /\ Call.asked \in BOOLEAN /\ Call.sat \in BOOLEAN
<1>1. parent # "done"
  BY DEF AtCall, TypeOK
<1>2. fn \in 1 .. Len(prog) /\ pos \in 1 .. Len(prog[fn]) + 1
  BY <1>1, ProgType
<1>3. pos <= Len(prog[fn])
  BY DEF AtCall, TypeOK
<1>4. Len(prog[fn]) \in Nat
  BY <1>2, ProgType
<1>5. pos \in CallsOf(fn)
  BY <1>2, <1>3, <1>4 DEF CallsOf
<1>6. Call \in Checks
  BY <1>2, <1>5, ProgType DEF Call
<1> QED
  BY <1>2, <1>3, <1>4, <1>5, <1>6 DEF Checks

LEMMA LineType ==
  ASSUME TypeOK, NEW n \in 1 .. Len(out)
  PROVE  /\ out[n] \in Lines
         /\ out[n].fn \in 1 .. Len(prog) /\ out[n].pos \in Nat /\ out[n].part \in 1 .. 5
<1>1. out[n] \in Lines
  BY DEF TypeOK
<1> QED
  BY <1>1, PartsLen DEF Lines

LEMMA PrintedType ==
  ASSUME TypeOK
  PROVE  /\ Printed \in 0 .. 5
         /\ Len(out) \in Nat
         /\ out # << >> => Len(out) \in 1 .. Len(out)
         /\ Printed # 0 => Len(out) > 0 /\ Here(out[Len(out)]) /\ out[Len(out)].part = Printed
<1>1. out \in Seq(Lines)
  BY DEF TypeOK
<1>2. Len(out) \in Nat /\ (out # << >> => Len(out) \in 1 .. Len(out))
  BY <1>1
<1> QED
  BY <1>2, LineType DEF Printed, Here

-----------------------------------------------------------------------------
(* Types, action by action.                                                *)
LEMMA TypeStep == CheckerInv /\ [Next]_vars => TypeOK'
<1> SUFFICES ASSUME CheckerInv, [Next]_vars PROVE TypeOK'
  OBVIOUS
<1>1. TypeOK /\ QueryDone
  BY DEF CheckerInv
<1> USE DEF Asking
<1>2. CASE Skip
  BY <1>1, <1>2, CallType, ProgType DEF Skip, AtCall, TypeOK, Lines
<1>3. CASE Fork
  BY <1>1, <1>3, CallType, ProgType DEF Fork, AtCall, TypeOK, Lines, Call
<1>4. CASE ForkFails
  BY <1>1, <1>4, CallType, ProgType DEF ForkFails, AtCall, TypeOK, Lines, Call
<1>5. CASE Solve
  BY <1>1, <1>5 DEF Solve, TypeOK, Lines, Call, Answers, Statuses, SMT_SAT, SMT_UNSAT, SMT_UNDEF
<1>6. CASE PrintPart
  <2>1. [fn |-> fn, pos |-> pos, part |-> Printed + 1] \in Lines
    BY <1>1, <1>6, CallType, PrintedType, PartsLen DEF PrintPart, QueryDone, Lines
  <2>2. out' \in Seq(Lines)
    BY <1>1, <1>6, <2>1 DEF PrintPart, TypeOK
  <2> QED
    BY <1>1, <1>6, <2>2 DEF PrintPart, TypeOK, Lines, Call
<1>7. CASE Leave
  BY <1>1, <1>7 DEF Leave, TypeOK, Lines, Call
<1>8. CASE Kill
  BY <1>1, <1>8 DEF Kill, TypeOK, Lines, Call
<1>9. CASE Join
  <2>1. reported' \subseteq Vals
    BY <1>1, <1>9, CallType DEF Join, Saved, TypeOK
  <2> QED
    BY <1>1, <1>9, <2>1, CallType, ProgType DEF Join, TypeOK, Lines
<1>10. CASE EndFunction
  BY <1>1, <1>10, ProgType DEF EndFunction, TypeOK, Lines
<1>11. CASE UNCHANGED vars
  BY <1>1, <1>11 DEF vars, TypeOK, Lines, Call
<1> QED
  BY <1>2, <1>3, <1>4, <1>5, <1>6, <1>7, <1>8, <1>9, <1>10, <1>11 DEF Next, Run, Ended

-----------------------------------------------------------------------------
(* Steps that print nothing.                                               *)
Silent == UNCHANGED <<prog, timed, out>> /\ lost \subseteq lost'

LEMMA SilentSteps ==
  Skip \/ Fork \/ ForkFails \/ Solve \/ Leave \/ Kill \/ Join \/ EndFunction \/ UNCHANGED vars
    => Silent
BY DEF Skip, Fork, ForkFails, Solve, Leave, Kill, Join, EndFunction, vars, Silent

LEMMA WrittenStep == CheckerInv /\ [Next]_vars => WrittenSoFar'
<1> SUFFICES ASSUME CheckerInv, [Next]_vars PROVE WrittenSoFar'
  OBVIOUS
<1>1. TypeOK /\ WrittenSoFar /\ QueryDone
  BY DEF CheckerInv
<1>a. fn \in Nat /\ \A n \in 1 .. Len(out) : out[n].fn \in Nat /\ out[n].pos \in Nat
  BY <1>1, ProgType, LineType
<1> USE DEF WrittenSoFar, Past, Here
<1>2. CASE Skip
  <2>1. pos \in Nat /\ pos' = pos + 1 /\ UNCHANGED <<fn, out, worker, res>> /\ worker = "none"
    BY <1>1, <1>2, CallType DEF Skip, AtCall, TypeOK, Asking
  <2> QED
    BY <1>1, <1>a, <2>1
<1>3. CASE Fork
  BY <1>1, <1>3 DEF Fork, AtCall, TypeOK, Asking
<1>4. CASE ForkFails
  BY <1>1, <1>4 DEF ForkFails, AtCall
<1>5. CASE Solve
  BY <1>1, <1>5 DEF Solve
<1>6. CASE PrintPart
  <2>1. out \in Seq(Lines)
    BY <1>1 DEF TypeOK
  <2>2. /\ Len(out') = Len(out) + 1 /\ Len(out) \in Nat
        /\ \A n \in 1 .. Len(out) : out'[n] = out[n]
        /\ out'[Len(out) + 1] = [fn |-> fn, pos |-> pos, part |-> Printed + 1]
    BY <1>6, <2>1 DEF PrintPart
  <2>3. res = SMT_SAT /\ UNCHANGED <<fn, pos, res>> /\ worker' \notin {"none", "solve"}
    BY <1>1, <1>6 DEF PrintPart, QueryDone
  <2> QED
    BY <1>1, <2>2, <2>3
<1>7. CASE Leave
  BY <1>1, <1>7 DEF Leave
<1>8. CASE Kill
  BY <1>1, <1>8 DEF Kill
<1>9. CASE Join
  BY <1>1, <1>a, <1>9, CallType DEF Join, Asking
<1>10. CASE EndFunction
  BY <1>1, <1>a, <1>10 DEF EndFunction, TypeOK, Asking
<1>11. CASE UNCHANGED vars
  BY <1>1, <1>11 DEF vars
<1> QED
  BY <1>2, <1>3, <1>4, <1>5, <1>6, <1>7, <1>8, <1>9, <1>10, <1>11 DEF Next, Run, Ended

(* What printing a part does.                                              *)
LEMMA PartPrinted ==
  ASSUME TypeOK, QueryDone, PrintPart
  PROVE  LET l == [fn |-> fn, pos |-> pos, part |-> Printed + 1]
         IN  /\ Len(out) \in Nat /\ Len(out') = Len(out) + 1
             /\ \A n \in 1 .. Len(out) : out'[n] = out[n]
             /\ out'[Len(out) + 1] = l
             /\ Printed' = Printed + 1 /\ Printed \in 0 .. 4
             /\ \A f, i, k : HasPart(f, i, k)' <=>
                              HasPart(f, i, k) \/ (f = fn /\ i = pos /\ k = Printed + 1)
<1> DEFINE l == [fn |-> fn, pos |-> pos, part |-> Printed + 1]
<1>1. out \in Seq(Lines)
  BY DEF TypeOK
<1>2. /\ Len(out') = Len(out) + 1 /\ Len(out) \in Nat
      /\ \A n \in 1 .. Len(out) : out'[n] = out[n]
      /\ out'[Len(out) + 1] = l
      /\ out' # << >>
  BY <1>1 DEF PrintPart
<1>3. Printed \in 0 .. 4
  BY PrintedType, PartsLen DEF PrintPart, QueryDone
<1>4. Printed' = Printed + 1
  BY <1>2 DEF Printed, PrintPart
<1>5. ASSUME NEW f, NEW i, NEW k
      PROVE  HasPart(f, i, k)' <=> HasPart(f, i, k) \/ (f = fn /\ i = pos /\ k = Printed + 1)
  <2>1. HasPart(f, i, k)' <=> \E n \in 1 .. Len(out) + 1 : out'[n] = [fn |-> f, pos |-> i, part |-> k]
    BY <1>2 DEF HasPart
  <2>2. @ <=> HasPart(f, i, k) \/ l = [fn |-> f, pos |-> i, part |-> k]
    BY <1>2 DEF HasPart
  <2>3. l = [fn |-> f, pos |-> i, part |-> k] <=> f = fn /\ i = pos /\ k = Printed + 1
    OBVIOUS
  <2> QED
    BY <2>1, <2>2, <2>3
<1> QED
  BY <1>2, <1>3, <1>4, <1>5

LEMMA SilentReports ==
  ASSUME Silent
  PROVE  /\ \A f, i, k : HasPart(f, i, k)' <=> HasPart(f, i, k)
         /\ \A f, i : Complete(f, i)' <=> Complete(f, i)
BY DEF Silent, HasPart, Complete

(* A part of a report stays.                                               *)
LEMMA ReportsStay ==
  ASSUME TypeOK, QueryDone, [Next]_vars
  PROVE  /\ \A f, i, k : HasPart(f, i, k) => HasPart(f, i, k)'
         /\ \A f, i : Complete(f, i) => Complete(f, i)'
         /\ prog' = prog /\ timed' = timed /\ lost \subseteq lost'
<1>1. CASE PrintPart
  BY <1>1, PartPrinted DEF Complete, PrintPart
<1>2. CASE ~PrintPart
  <2>1. Silent
    BY <1>2, SilentSteps DEF Next, Run, Ended
  <2> QED
    BY <2>1, SilentReports DEF Silent
<1> QED
  BY <1>1, <1>2

LEMMA QueryStep == CheckerInv /\ [Next]_vars => QueryDone'
<1> SUFFICES ASSUME CheckerInv, [Next]_vars PROVE QueryDone'
  OBVIOUS
<1>1. TypeOK /\ QueryDone /\ WrittenSoFar
  BY DEF CheckerInv
<1>a. \A f, i : Complete(f, i) => Complete(f, i)'
  BY <1>1, ReportsStay
<1>2. CASE Skip
  BY <1>1, <1>2 DEF Skip, AtCall, TypeOK, Asking, QueryDone
<1>3. CASE Fork
  BY <1>1, <1>3 DEF Fork, QueryDone
<1>4. CASE ForkFails
  BY <1>1, <1>4 DEF ForkFails, AtCall, TypeOK, Asking, QueryDone
<1>5. CASE Solve
  <2>1. Printed = 0
    <3>1. ASSUME Printed # 0 PROVE FALSE
      <4>1. Len(out) \in 1 .. Len(out) /\ Here(out[Len(out)])
        BY <1>1, <3>1, PrintedType
      <4>2. fn \in Nat /\ pos \in Nat
        BY <1>1, <1>5, CallType DEF Solve, Asking
      <4> QED
        BY <1>1, <1>5, <4>1, <4>2 DEF WrittenSoFar, Past, Here, Solve
    <3> QED
      BY <3>1
  <2>2. Printed' = 0
    BY <1>5, <2>1 DEF Printed, Solve
  <2> QED
    BY <1>5, <2>2, PartsLen DEF Solve, QueryDone, Answers, Call, SMT_SAT, SMT_UNDEF, SMT_UNSAT
<1>6. CASE PrintPart
  <2>1. Printed' = Printed + 1 /\ Printed \in 0 .. 4 /\ res' = SMT_SAT
    BY <1>1, <1>6, PartPrinted DEF PrintPart, QueryDone
  <2>2. Printed + 1 = Len(Parts) => Complete(fn, pos)'
    BY <1>1, <1>6, PartPrinted DEF PrintPart, Complete
  <2>3. res' \in Answers'
    BY <1>1, <1>6 DEF PrintPart, QueryDone, Answers, Call
  <2> QED
    BY <1>6, <2>1, <2>2, <2>3, PartsLen DEF PrintPart, QueryDone, SMT_SAT, SMT_UNDEF
<1>7. CASE Leave
  BY <1>1, <1>a, <1>7 DEF Leave, QueryDone, Answers, Call
<1>8. CASE Kill
  BY <1>1, <1>8 DEF Kill, QueryDone
<1>9. CASE Join
  BY <1>1, <1>9 DEF Join, QueryDone
<1>10. CASE EndFunction
  BY <1>1, <1>10 DEF EndFunction, TypeOK, Asking, QueryDone
<1>11. CASE UNCHANGED vars
  BY <1>1, <1>a, <1>11 DEF vars, QueryDone, Answers, Call, Printed
<1> QED
  BY <1>2, <1>3, <1>4, <1>5, <1>6, <1>7, <1>8, <1>9, <1>10, <1>11 DEF Next, Run, Ended

-----------------------------------------------------------------------------
(* A query in the middle of its report leaves it only to be killed; one    *)
(* that has not begun, or has ended, leaves no report open.                *)
LEMMA BrokenOffStep == CheckerInv /\ [Next]_vars => BrokenOff'
<1> SUFFICES ASSUME CheckerInv, [Next]_vars PROVE BrokenOff'
  OBVIOUS
<1>1. TypeOK /\ BrokenOff /\ QueryDone
  BY DEF CheckerInv
<1>2. CASE PrintPart
  <2> DEFINE l == out[Len(out)]
  <2>1. l' = [fn |-> fn, pos |-> pos, part |-> Printed + 1] /\ Printed \in 0 .. 4
    BY <1>1, <1>2, PartPrinted
  <2>2. Here(l)'
    BY <1>2, <2>1 DEF Here, PrintPart
  <2>3. l'.part < Len(Parts) => worker' = "print"
    BY <1>2, <2>1, PartsLen DEF PrintPart
  <2> QED
    BY <2>2, <2>3 DEF BrokenOff
<1>3. CASE Kill
  BY <1>1, <1>3 DEF Kill, BrokenOff, Here
<1>4. CASE Skip \/ Fork \/ ForkFails \/ Solve \/ Leave \/ Join \/ EndFunction
  <2>1. Silent /\ worker # "print"
    BY <1>1, <1>4, SilentSteps DEF Skip, Fork, ForkFails, Solve, Leave, Join, EndFunction, AtCall,
                                   TypeOK, Asking
  <2> QED
    BY <1>1, <2>1 DEF BrokenOff, Silent
<1>5. CASE UNCHANGED vars
  BY <1>1, <1>5 DEF vars, BrokenOff, Here
<1> QED
  BY <1>2, <1>3, <1>4, <1>5 DEF Next, Run, Ended

LEMMA OrderlyStep == CheckerInv /\ [Next]_vars => Orderly'
<1> SUFFICES ASSUME CheckerInv, [Next]_vars PROVE Orderly'
  OBVIOUS
<1>1. TypeOK /\ BrokenOff /\ QueryDone /\ Orderly
  BY DEF CheckerInv
<1>2. BrokenOff'
  BY BrokenOffStep
<1>3. CASE PrintPart
  <2> DEFINE new == [fn |-> fn, pos |-> pos, part |-> Printed + 1]
             N == Len(out)
  <2>1. /\ N \in Nat /\ Len(out') = N + 1
        /\ \A n \in 1 .. N : out'[n] = out[n]
        /\ out'[N + 1] = new
        /\ Printed \in 0 .. 4
    BY <1>1, <1>3, PartPrinted
  <2>2. lost' = lost /\ worker = "print"
    BY <1>3 DEF PrintPart
  <2>3. ASSUME N > 0, out[N].part < Len(Parts), <<out[N].fn, out[N].pos>> \notin lost
        PROVE  new = [out[N] EXCEPT !.part = @ + 1]
    <3>1. Here(out[N])
      BY <1>1, <2>3 DEF BrokenOff
    <3>2. out[N] \in Lines /\ N \in 1 .. Len(out)
      BY <1>1, <2>1, <2>3, LineType
    <3>3. Printed = out[N].part
      BY <2>1, <2>3, <3>1 DEF Printed, Here
    <3> QED
      BY <3>1, <3>2, <3>3 DEF Here, Lines
  <2>4. ASSUME Printed # 0
        PROVE  N > 0 /\ out[N] = [new EXCEPT !.part = @ - 1]
    <3>1. N > 0 /\ Here(out[N]) /\ out[N].part = Printed
      BY <1>1, <2>4, PrintedType
    <3>2. out[N] \in Lines
      BY <1>1, <2>1, <3>1, LineType
    <3> QED
      BY <2>1, <3>1, <3>2 DEF Here, Lines
  <2>5. ASSUME NEW n \in 1 .. N + 1
        PROVE  /\ out'[n].part > 1 => n > 1 /\ out'[n - 1] = [out'[n] EXCEPT !.part = @ - 1]
               /\ out'[n].part < Len(Parts) /\ <<out'[n].fn, out'[n].pos>> \notin lost' =>
                    \/ n < N + 1 /\ out'[n + 1] = [out'[n] EXCEPT !.part = @ + 1]
                    \/ n = N + 1 /\ worker' = "print"
    <3>1. CASE n = N + 1
      <4>1. out'[n].part = Printed + 1
        BY <2>1, <3>1
      <4>2. ASSUME Printed # 0
            PROVE  n > 1 /\ out'[n - 1] = [out'[n] EXCEPT !.part = @ - 1]
        <5>1. N > 0 /\ out[N] = [new EXCEPT !.part = @ - 1]
          BY <2>4, <4>2
        <5>2. n > 1 /\ n - 1 = N /\ out'[N] = out[N] /\ out'[n] = new
          BY <2>1, <3>1, <5>1
        <5> QED
          BY <5>1, <5>2
      <4>3. Printed + 1 < Len(Parts) => worker' = "print"
        BY <1>3, <2>1, PartsLen DEF PrintPart
      <4> QED
        BY <2>1, <3>1, <4>1, <4>2, <4>3
    <3>2. CASE n = N
      <4>1. n \in 1 .. N /\ N > 0 /\ out'[n] = out[n]
        BY <2>1, <3>2
      <4>2. out[n].part > 1 => n > 1 /\ out[n - 1] = [out[n] EXCEPT !.part = @ - 1]
        BY <1>1, <4>1 DEF Orderly
      <4>3. n > 1 => out'[n - 1] = out[n - 1]
        BY <2>1, <3>2
      <4> QED
        BY <2>1, <2>2, <2>3, <3>2, <4>1, <4>2, <4>3
    <3>3. CASE n < N
      <4>1. n \in 1 .. N /\ n + 1 \in 1 .. N /\ (n > 1 => n - 1 \in 1 .. N)
        BY <2>1, <3>3
      <4> QED
        BY <1>1, <2>1, <2>2, <3>3, <4>1 DEF Orderly
    <3> QED
      BY <2>1, <3>1, <3>2, <3>3
  <2> QED
    BY <2>1, <2>5 DEF Orderly
<1>4. CASE ~PrintPart
  <2>1. Silent
    BY <1>4, SilentSteps DEF Next, Run, Ended
  <2>2. Len(out) \in Nat
    BY <1>1, PrintedType
  <2>3. ASSUME NEW n \in 1 .. Len(out)
        PROVE  n = Len(out) /\ out[n].part < Len(Parts) /\ <<out[n].fn, out[n].pos>> \notin lost'
                 => worker' = "print"
    BY <1>2, <2>1, <2>2 DEF BrokenOff, Silent
  <2> QED
    BY <1>1, <2>1, <2>3 DEF Orderly, Silent
<1> QED
  BY <1>3, <1>4

(* A value is saved after the answer "can be true", and that only.         *)
LEMMA SavedStep == CheckerInv /\ [Next]_vars => SavedWasReported'
<1> SUFFICES ASSUME CheckerInv, [Next]_vars PROVE SavedWasReported'
  OBVIOUS
<1>1. TypeOK /\ QueryDone /\ SavedWasReported
  BY DEF CheckerInv
<1>a. prog' = prog /\ \A f, i : Complete(f, i) => Complete(f, i)'
  BY <1>1, ReportsStay
<1>2. CASE Skip
  <2>1. pos \in Nat /\ pos' = pos + 1 /\ UNCHANGED <<fn, reported>>
    BY <1>1, <1>2, CallType DEF Skip
  <2> QED
    BY <1>1, <1>a, <2>1 DEF SavedWasReported
<1>3. CASE Join
  <2>1. pos \in Nat /\ pos >= 1 /\ pos' = pos + 1 /\ fn' = fn
    BY <1>1, <1>3, CallType DEF Join, Asking
  <2>2. ASSUME NEW v \in reported'
        PROVE  v \in reported \/ (v = prog[fn][pos].val /\ Complete(fn, pos))
    BY <1>1, <1>3 DEF Join, Saved, Status, QueryDone, Call, SMT_SAT, SMT_TIMEOUT
  <2> QED
    BY <1>1, <1>a, <2>1, <2>2 DEF SavedWasReported
<1>4. CASE EndFunction
  BY <1>4 DEF EndFunction, SavedWasReported
<1>5. CASE UNCHANGED <<fn, pos, reported>>
  BY <1>1, <1>a, <1>5 DEF SavedWasReported
<1> QED
  BY <1>2, <1>3, <1>4, <1>5 DEF Next, Run, Ended, vars, Fork, ForkFails, Solve, PrintPart, Leave, Kill

-----------------------------------------------------------------------------
(* A report is about a call dealt with or the current one.                 *)
LEMMA ReportPlace ==
  ASSUME TypeOK, WrittenSoFar, NEW f, NEW i, NEW k, HasPart(f, i, k)
  PROVE  \/ Past(f, i)
         \/ f = fn /\ i = pos /\ worker \notin {"none", "solve"} /\ res = SMT_SAT
<1>1. PICK n \in 1 .. Len(out) : out[n] = [fn |-> f, pos |-> i, part |-> k]
  BY DEF HasPart
<1> QED
  BY <1>1 DEF WrittenSoFar, Here

(* A query that began its report and ends has its value saved or was       *)
(* killed.                                                                 *)
LEMMA BegunStep == CheckerInv /\ [Next]_vars => BegunWasSaved'
<1> SUFFICES ASSUME CheckerInv, [Next]_vars PROVE BegunWasSaved'
  OBVIOUS
<1>1. TypeOK /\ QueryDone /\ WrittenSoFar /\ BegunWasSaved
  BY DEF CheckerInv
<1>2. CASE Skip
  <2>1. fn \in Nat /\ pos \in Nat /\ pos >= 1 /\ pos' = pos + 1 /\ UNCHANGED <<fn, reported>>
        /\ worker = "none" /\ Silent
    BY <1>1, <1>2, CallType, SilentSteps DEF Skip, AtCall, TypeOK, Asking
  <2>2. ~HasPart(fn, pos, 1)
    BY <1>1, <2>1, ReportPlace DEF Past
  <2>3. ASSUME NEW i \in 1 .. pos' - 1, HasPart(fn, i, 1)
        PROVE  i \in 1 .. pos - 1
    BY <2>1, <2>2, <2>3
  <2> QED
    BY <1>1, <2>1, <2>3, SilentReports DEF BegunWasSaved, Silent
<1>3. CASE Join
  <2>1. fn \in Nat /\ pos \in Nat /\ pos >= 1 /\ pos' = pos + 1 /\ fn' = fn
        /\ reported \subseteq reported' /\ Silent
    BY <1>1, <1>3, CallType, SilentSteps DEF Join, Asking
  <2>2. ASSUME HasPart(fn, pos, 1)
        PROVE  prog[fn][pos].val \in reported' \/ (timed /\ <<fn, pos>> \in lost)
    <3>1. res = SMT_SAT
      BY <1>1, <2>1, <2>2, ReportPlace DEF Past
    <3>2. CASE worker = "exited"
      BY <1>3, <3>1, <3>2 DEF Join, Saved, Status, Call
    <3>3. CASE worker = "killed"
      BY <1>1, <3>3 DEF TypeOK, QueryDone
    <3> QED
      BY <1>3, <3>2, <3>3 DEF Join
  <2>3. ASSUME NEW i \in 1 .. pos' - 1, HasPart(fn, i, 1)
        PROVE  prog[fn][i].val \in reported' \/ (timed /\ <<fn, i>> \in lost)
    <3>1. CASE i = pos
      BY <2>2, <2>3, <3>1
    <3>2. CASE i # pos
      <4>1. i \in 1 .. pos - 1
        BY <2>1, <3>2
      <4> QED
        BY <1>1, <2>1, <2>3, <4>1 DEF BegunWasSaved
    <3> QED
      BY <3>1, <3>2
  <2> QED
    BY <2>1, <2>3, SilentReports DEF BegunWasSaved, Silent
<1>4. CASE EndFunction
  BY <1>4 DEF EndFunction, BegunWasSaved
<1>5. CASE PrintPart
  <2>1. pos \in Nat /\ UNCHANGED <<fn, pos, prog, timed, reported, lost>>
    BY <1>1, <1>5, CallType DEF PrintPart, Asking
  <2>2. \A i \in 1 .. pos - 1 : HasPart(fn, i, 1)' => HasPart(fn, i, 1)
    BY <1>1, <1>5, <2>1, PartPrinted
  <2> QED
    BY <1>1, <2>1, <2>2 DEF BegunWasSaved
<1>6. CASE UNCHANGED <<fn, pos, reported>> /\ ~PrintPart
  <2>1. Silent
    BY <1>6, SilentSteps DEF Next, Run, Ended
  <2> QED
    BY <1>1, <1>6, <2>1, SilentReports DEF BegunWasSaved, Silent
<1> QED
  BY <1>2, <1>3, <1>4, <1>5, <1>6 DEF Next, Run, Ended, vars, Fork, ForkFails, Solve, Leave, Kill

(* A call is passed by because its value was reported, or after its query. *)
LEMMA NoneMissedStep == CheckerInv /\ [Next]_vars => NoneMissedSoFar'
<1> SUFFICES ASSUME CheckerInv, [Next]_vars PROVE NoneMissedSoFar'
  OBVIOUS
<1>1. TypeOK /\ QueryDone /\ SavedWasReported /\ NoneMissedSoFar
  BY DEF CheckerInv
<1>2. /\ prog' = prog /\ lost \subseteq lost'
      /\ \A f, i : Complete(f, i) => Complete(f, i)'
  BY <1>1, ReportsStay
<1>3. ASSUME NEW f \in 1 .. Len(prog), NEW i \in CallsOf(f), Accounted(f, i)
      PROVE  Accounted(f, i)'
  BY <1>2, <1>3 DEF Accounted
<1>4. ASSUME NEW f \in 1 .. Len(prog), NEW i \in CallsOf(f), Past(f, i)', ~Past(f, i)
      PROVE  Accounted(f, i)
  <2>0. f \in Nat /\ i \in Nat /\ i >= 1 /\ i <= Len(prog[f]) /\ Len(prog[f]) \in Nat /\ fn \in Nat
    BY <1>1, ProgType DEF CallsOf
  <2>1. CASE Skip
    <3>1. pos \in Nat /\ pos' = pos + 1 /\ fn' = fn
      BY <1>1, <2>1, CallType DEF Skip
    <3>2. f = fn /\ i = pos
      BY <1>4, <2>0, <3>1 DEF Past
    <3>3. CASE Call.val \in reported
      <4>1. PICK j \in 1 .. pos - 1 : prog[fn][j].val = Call.val /\ Complete(fn, j)
        BY <1>1, <3>3 DEF SavedWasReported
      <4>2. j \in 1 .. i
        BY <3>1, <3>2
      <4> QED
        BY <3>2, <4>1, <4>2 DEF Accounted, Call
    <3>4. CASE ~Call.asked
      BY <3>2, <3>4 DEF Accounted, Call
    <3> QED
      BY <2>1, <3>3, <3>4 DEF Skip
  <2>2. CASE Join
    <3>1. pos \in Nat /\ pos' = pos + 1 /\ fn' = fn
      BY <1>1, <2>2, CallType DEF Join, Asking
    <3>2. f = fn /\ i = pos
      BY <1>4, <2>0, <3>1 DEF Past
    <3>3. CASE worker = "killed"
      BY <1>1, <3>2, <3>3 DEF QueryDone, Accounted
    <3>4. CASE worker = "exited"
      <4>1. Call.sat => res \in {SMT_UNDEF, SMT_SAT}
        BY <1>1, <3>4 DEF QueryDone, Answers
      <4>2. i \in 1 .. i
        BY <2>0
      <4> QED
        BY <1>1, <3>2, <3>4, <4>1, <4>2 DEF QueryDone, Accounted, Call
    <3> QED
      BY <2>2, <3>3, <3>4 DEF Join
  <2>3. CASE EndFunction
    <3>1. fn' = fn + 1 /\ pos' = 1 /\ pos > Len(prog[fn])
      BY <2>3 DEF EndFunction
    <3> QED
      BY <1>1, <1>4, <2>0, <2>3, <3>1, ProgType DEF Past, EndFunction
  <2>4. CASE UNCHANGED <<fn, pos>>
    BY <1>4, <2>4 DEF Past
  <2> QED
    BY <2>1, <2>2, <2>3, <2>4 DEF Next, Run, Ended, vars, Fork, ForkFails, Solve, PrintPart, Leave, Kill
<1> QED
  BY <1>1, <1>2, <1>3, <1>4 DEF NoneMissedSoFar, CallsOf

(* A second report begins only when the value was not saved by the first.  *)
LEMMA OnceStep == CheckerInv /\ [Next]_vars => OnceUnlessKilled'
<1> SUFFICES ASSUME CheckerInv, [Next]_vars PROVE OnceUnlessKilled'
  OBVIOUS
<1>1. TypeOK /\ QueryDone /\ WrittenSoFar /\ BegunWasSaved /\ OnceUnlessKilled
  BY DEF CheckerInv
<1>2. prog' = prog /\ timed' = timed /\ lost \subseteq lost'
  BY <1>1, ReportsStay
<1>3. CASE PrintPart
  <2>1. /\ fn \in 1 .. Len(prog) /\ fn \in Nat /\ pos \in CallsOf(fn) /\ pos \in Nat
        /\ prog[fn][pos].val \notin reported
    BY <1>1, <1>3, CallType DEF PrintPart, Asking, TypeOK, Call
  <2>2. SUFFICES ASSUME NEW f \in 1 .. Len(prog), NEW i \in CallsOf(f), NEW j \in CallsOf(f),
                        i < j, prog[f][i].val = prog[f][j].val,
                        HasPart(f, i, 1)', HasPart(f, j, 1)'
                 PROVE  timed /\ <<f, i>> \in lost
    BY <1>2 DEF OnceUnlessKilled, CallsOf
  <2>3. f \in Nat /\ i \in Nat /\ j \in Nat /\ i >= 1
    BY <1>1, ProgType DEF CallsOf
  <2>4. (HasPart(f, i, 1) \/ (f = fn /\ i = pos)) /\ (HasPart(f, j, 1) \/ (f = fn /\ j = pos))
    BY <1>1, <1>3, <2>2, PartPrinted
  <2>5. CASE HasPart(f, i, 1) /\ HasPart(f, j, 1)
    BY <1>1, <2>2, <2>5 DEF OnceUnlessKilled
  <2>6. CASE HasPart(f, i, 1) /\ f = fn /\ j = pos
    <3>1. i \in 1 .. pos - 1
      BY <2>2, <2>3, <2>6
    <3> QED
      BY <1>1, <2>1, <2>2, <2>6, <3>1 DEF BegunWasSaved
  <2>7. CASE HasPart(f, j, 1) /\ f = fn /\ i = pos
    BY <1>1, <2>1, <2>2, <2>3, <2>7, ReportPlace DEF Past
  <2> QED
    BY <2>2, <2>3, <2>4, <2>5, <2>6, <2>7
<1>4. CASE ~PrintPart
  <2>1. Silent
    BY <1>4, SilentSteps DEF Next, Run, Ended
  <2> QED
    BY <1>1, <1>2, <2>1, SilentReports DEF OnceUnlessKilled, CallsOf
<1> QED
  BY <1>3, <1>4

-----------------------------------------------------------------------------
LEMMA CheckerInit == Init => CheckerInv
<1> SUFFICES ASSUME Init PROVE CheckerInv
  OBVIOUS
<1>1. prog \in Seq(Seq(Checks)) /\ prog # << >>
  BY CheckAssumption DEF Init
<1>2. Len(prog) \in Nat /\ Len(prog) >= 1 /\ \A f \in 1 .. Len(prog) : Len(prog[f]) \in Nat
  BY <1>1
<1>3. TypeOK
  BY <1>2 DEF Init, TypeOK, Asking, Statuses, SMT_TIMEOUT
<1>4. out = << >> /\ Len(out) = 0
  BY DEF Init
<1>5. \A f, i, k : ~HasPart(f, i, k)
  BY <1>4 DEF HasPart
<1>6. \A f \in 1 .. Len(prog) : \A i \in CallsOf(f) : ~Past(f, i)
  BY <1>2 DEF Past, CallsOf, Init
<1> QED
  BY <1>3, <1>4, <1>5, <1>6 DEF Init, CheckerInv, WrittenSoFar, QueryDone, BrokenOff, BegunWasSaved,
     SavedWasReported, NoneMissedSoFar, OnceUnlessKilled, Orderly

LEMMA CheckerInvariant == Spec => []CheckerInv
<1>1. CheckerInv /\ [Next]_vars => CheckerInv'
  BY TypeStep, WrittenStep, QueryStep, BrokenOffStep, OrderlyStep, SavedStep, BegunStep,
     NoneMissedStep, OnceStep DEF CheckerInv
<1> QED
  BY CheckerInit, <1>1, PTL DEF Spec

(* Types, and what the states of the checker and of its query say of each  *)
(* other: the checker waits exactly while there is a query, and asks only  *)
(* about calls that are to be asked and values not reported yet.           *)
THEOREM TypeCorrect == Spec => []TypeOK
BY CheckerInvariant, PTL DEF CheckerInv

(* Warnings about a value are suppressed only after one was printed in     *)
(* full, whenever the timer kills a query.                                 *)
THEOREM SavedReported == Spec => []SavedWasReported
BY CheckerInvariant, PTL DEF CheckerInv

(* No possible overflow is passed over: when the checker is done each call *)
(* that can be true was reported in full, or one before it with its value  *)
(* was, or the solver gave no answer.                                      *)
THEOREM AllAccounted == Spec => []NothingMissed
<1>1. CheckerInv => NothingMissed
  <2> SUFFICES ASSUME CheckerInv, parent = "done",
                      NEW f \in 1 .. Len(prog), NEW i \in CallsOf(f)
               PROVE  Accounted(f, i)
    BY DEF NothingMissed, Accounted
  <2>1. TypeOK /\ NoneMissedSoFar
    BY DEF CheckerInv
  <2>2. Past(f, i)
    BY <2>1, ProgType DEF TypeOK, Past
  <2> QED
    BY <2>1, <2>2 DEF NoneMissedSoFar
<1> QED
  BY CheckerInvariant, <1>1, PTL

(* A value is reported twice in a function only if the first query was     *)
(* killed, and never without a timeout.                                    *)
THEOREM ReportedOnce == Spec => []OnceUnlessKilled
BY CheckerInvariant, PTL DEF CheckerInv

(* The lines of reports never mix, and a report breaks off only at a kill. *)
THEOREM ReportsOrderly == Spec => []Orderly
BY CheckerInvariant, PTL DEF CheckerInv

=============================================================================
