--------------------------- MODULE SubmissionLog ---------------------------
(***************************************************************************)
(* What "submitting" to an offline transfer file promises: a log of        *)
(* recorded transactions that only gets longer, and a set of transactions  *)
(* acknowledged to their callers, each of which was recorded first.  A     *)
(* caller that dies in between is never told.                              *)
(***************************************************************************)
EXTENDS Naturals, Sequences

CONSTANT Txs

VARIABLES log, acked

logVars == <<log, acked>>

Init == log = <<>> /\ acked = {}

Extends(longer, shorter) ==
    /\ Len(shorter) <= Len(longer)
    /\ \A i \in 1..Len(shorter) : longer[i] = shorter[i]

\* Record tx.  Transactions whose own recording was cut short may become part
\* of the log on the way.
Record(tx) ==
    /\ log' \in Seq(Txs)
    /\ Extends(log', log)
    /\ Len(log) < Len(log')
    /\ log'[Len(log')] = tx
    /\ UNCHANGED acked

Acknowledge(tx) ==
    /\ \E i \in 1..Len(log) : log[i] = tx
    /\ acked' = acked \cup {tx}
    /\ UNCHANGED log

Next == \E tx \in Txs : Record(tx) \/ Acknowledge(tx)

Spec == Init /\ [][Next]_logVars

=============================================================================
