------------------------------ MODULE Detector ------------------------------
(***************************************************************************)
(* What the capability detector promises the threads that ask it (spec.md  *)
(* 3, 4.1 and 5), with nothing of how the record is built: no fields, no   *)
(* stores, no position in a probe.  A machine has one answer to every      *)
(* question.  The record is created lazily, so an answer given before it   *)
(* is known to all may be "not available"; an answer to a question asked   *)
(* after that is the machine's.                                            *)
(***************************************************************************)
CONSTANTS
    Callers,        \* the threads that ask
    Questions,      \* what they ask
    Record(_, _)    \* Record(m, q): the answer of machine m to question q

VARIABLES
    machine,    \* the machine of this process
    known,      \* the record is there for every caller
    asking,     \* per caller: whether it is asking, what, and whether the
                \* record was known when it began to
    given       \* per question, the answers given so far

vars == <<machine, known, asking, given>>

Asks(q, settled) == [busy |-> TRUE, question |-> q, settled |-> settled]

Ask(c) ==
    /\ ~asking[c].busy
    /\ asking'[c].question \in Questions
    /\ asking' = [asking EXCEPT ![c] = Asks(asking'[c].question, known)]
    /\ UNCHANGED <<machine, known, given>>

Learn ==
    /\ ~known /\ known'
    /\ UNCHANGED <<machine, asking, given>>

(* "Not available" is an answer only to a caller that began too early.     *)
Answers(c) ==
    {Record(machine, asking[c].question)}
        \cup (IF asking[c].settled THEN {} ELSE {FALSE})

Answer(c) ==
    /\ asking[c].busy
    /\ asking' = [asking EXCEPT ![c].busy = FALSE, ![c].settled = FALSE]
    /\ \E v \in Answers(c) :
          given' = [given EXCEPT ![asking[c].question] = @ \cup {v}]
    /\ UNCHANGED <<machine, known>>

Init ==
    /\ known = FALSE
    /\ \A c \in Callers : ~asking[c].busy /\ ~asking[c].settled
    /\ given = [q \in Questions |-> {}]

Next == Learn \/ \E c \in Callers : Ask(c) \/ Answer(c)

Spec == Init /\ [][Next]_vars

=============================================================================
