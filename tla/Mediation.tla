----------------------------- MODULE Mediation -----------------------------
(***************************************************************************)
(* What the gate and the audit trail promise together, with no socket in   *)
(* sight: "May they?" and "What happened, and who did it?"                 *)
(* (src/src/lib.rs). A connection is worked for at most once, and only if  *)
(* the policy lets it in; one operation is open at a time, announced       *)
(* before its work and closed in the same words; only an open operation    *)
(* answers; the journal only grows. A death closes what is open without a  *)
(* word.                                                                   *)
(***************************************************************************)
EXTENDS Sequences

CONSTANTS
  Caller,   \* the connections
  Words,    \* the labels of operations
  Started   \* the line of a start

VARIABLES
  audited,  \* whether this daemon's operations are on the record
  been,     \* the connections there have been
  welcome,  \* of those, the ones that policy lets in, still to be worked for
  open,     \* the operation that is open, if any: a set of at most one
  record,   \* the journal
  served    \* the connections that were answered

mediationVars == <<audited, been, welcome, open, record, served>>

Operation(c, words) == [conn |-> c, by |-> words]

Line(what, op) == [line |-> what, conn |-> op.conn, by |-> op.by]

\* Operations that are not audited have no lines.
Put(what, op) == record' = IF audited THEN Append(record, Line(what, op)) ELSE record

MediationInit ==
  /\ audited \in BOOLEAN
  /\ been = {} /\ welcome = {} /\ open = {} /\ served = {}
  /\ record = <<>>

\* A connection comes, and policy lets it in or does not.
Arrive(c) ==
  /\ c \notin been
  /\ been' = been \cup {c}
  /\ welcome' \in {welcome, welcome \cup {c}}
  /\ UNCHANGED <<audited, open, record, served>>

\* A connection is lost before it is worked for.
Lose(c) ==
  /\ open = {}
  /\ welcome' = welcome \ {c}
  /\ UNCHANGED <<audited, been, open, record, served>>

\* A connection is refused, with a line to say so.
Refuse(c) ==
  /\ open = {}
  /\ c \in been \ served
  /\ \E words \in Words : record' = Append(record, Line("refused", Operation(c, words)))
  /\ welcome' = welcome \ {c}
  /\ UNCHANGED <<audited, been, open, served>>

\* Operation::begin
Begin(c) ==
  /\ open = {}
  /\ c \in welcome
  /\ welcome' = welcome \ {c}
  /\ \E words \in Words :
       open' = {Operation(c, words)} /\ Put("begin", Operation(c, words))
  /\ UNCHANGED <<audited, been, served>>

\* The work's reply.
Answer ==
  /\ \E op \in open : served' = served \cup {op.conn}
  /\ UNCHANGED <<audited, been, welcome, open, record>>

\* Operation::finish
Finish ==
  /\ \E op \in open, outcome \in {"ok", "failed"} : Put(outcome, op)
  /\ open' = {}
  /\ UNCHANGED <<audited, been, welcome, served>>

\* The daemon dies, and with it every connection.
Die ==
  /\ open' = {}
  /\ welcome' = {}
  /\ UNCHANGED <<audited, been, record, served>>

\* A daemon starts.
Start ==
  /\ open = {}
  /\ record' = Append(record, Started)
  /\ UNCHANGED <<audited, been, welcome, open, served>>

MediationNext ==
  \/ \E c \in Caller : Arrive(c) \/ Lose(c) \/ Refuse(c) \/ Begin(c)
  \/ Answer \/ Finish \/ Die \/ Start

MediationSpec == MediationInit /\ [][MediationNext]_mediationVars

=============================================================================
