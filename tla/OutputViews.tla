----------------------------- MODULE OutputViews -----------------------------
(***************************************************************************)
(* The outputs at one address, what each backend answers to utxo, and the  *)
(* lists that are collected page by page while the service goes on adding  *)
(* rows and taking them away.                                              *)
(***************************************************************************)
EXTENDS ChainViews

CONSTANTS
    MaxOutputs, \* bound: outputs created at the address
    PageSize,   \* rows to a page
    MaxPages    \* Yaci's bound on the pages of a list

ASSUME PagesAssumption ==
    MaxOutputs \in Nat /\ PageSize \in Nat \ {0} /\ MaxPages \in Nat \ {0}

VARIABLES
    outputs,     \* how many were created: they are numbered from 1
    rows,        \* the live ones, in the order the service lists them
    newestFirst, \* the order: the last one created comes first
    paging       \* the call that collects the rows, and what it has seen

outputVars == <<outputs, rows, newestFirst, paging>>

Live == Elements(rows)

\* limit is None for Koios; asked are the rows when the call began, and
\* removed tells that one was taken away before it ended, and beyond that
\* there were more than limit pages hold.
Paging(limit) ==
    [limit |-> limit, pages |-> 0, collected |-> <<>>, over |-> FALSE,
     asked |-> Live, removed |-> FALSE, beyond |-> FALSE]

OutputInit ==
    /\ outputs = 0 /\ rows = <<>> /\ newestFirst \in BOOLEAN
    /\ paging = Paging(None)

-----------------------------------------------------------------------------
(***************************************************************************)
(* The service.                                                            *)
(***************************************************************************)
OutputCreated ==
    /\ outputs < MaxOutputs
    /\ outputs' = outputs + 1
    /\ rows' = IF newestFirst THEN <<outputs'>> \o rows ELSE Append(rows, outputs')
    /\ UNCHANGED <<newestFirst, paging>>

OutputSpent ==
    /\ \E i \in DOMAIN rows :
          rows' = [k \in 1..(Len(rows) - 1) |-> IF k < i THEN rows[k] ELSE rows[k + 1]]
    /\ paging' = [paging EXCEPT !.removed = @ \/ ~paging.over]
    /\ UNCHANGED <<outputs, newestFirst>>

-----------------------------------------------------------------------------
(***************************************************************************)
(* _paginate: of Koios, by ranges of rows, and of Yaci, by page numbers.   *)
(* Nothing but a short page tells that the list is over.                   *)
(***************************************************************************)
PagingBegins ==
    /\ \E limit \in {None, MaxPages} : paging' = Paging(limit)
    /\ UNCHANGED <<outputs, rows, newestFirst>>

PageOf(list, n) ==
    LET last == (n + 1) * PageSize
    IN  SubSeq(list, n * PageSize + 1, IF last <= Len(list) THEN last ELSE Len(list))

\* Faulty form: the bound on the pages is off by one.
LastPageEarly(page, fetched) == Len(page) < PageSize \/ fetched + 1 = paging.limit

LastPage(page, fetched) == Len(page) < PageSize \/ fetched = paging.limit

Beyond == paging.limit # None /\ Len(rows) > paging.limit * PageSize

PageFetched ==
    /\ ~paging.over
    /\ LET page == PageOf(rows, paging.pages)
       IN  paging' = [paging EXCEPT !.collected = @ \o page, !.pages = @ + 1,
                                    !.over = LastPage(page, paging.pages + 1),
                                    !.beyond = Beyond]
    /\ UNCHANGED <<outputs, rows, newestFirst>>

OutputNext == OutputCreated \/ OutputSpent \/ PagingBegins \/ PageFetched

OutputSpec == OutputInit /\ [][OutputNext]_outputVars

\* One request without a range: as many rows as the service gives, of the
\* outputs of an address or of the pools, to Koios.
Unpaged == PageOf(rows, 0)

-----------------------------------------------------------------------------
(***************************************************************************)
(* utxo: an output and whether it is spent, or nothing.                    *)
(***************************************************************************)
Output(o, spent) == [output |-> o, spent |-> spent]

\* cardano-cli and Ogmios: a spent output is not there.
NodeOutput(o) == IF o \in Live THEN {Output(o, FALSE)} ELSE {}

\* Blockfrost, of the outputs of a transaction; a request that fails raises.
BlockfrostOutput(o) == IF o \in 1..outputs THEN {Output(o, o \notin Live)} ELSE {}

\* Koios: a request that fails answers as if there were no such output.
KoiosOutput(o, fails) ==
    IF fails \/ o \notin 1..outputs THEN {} ELSE {Output(o, o \notin Live)}

\* Yaci, which keeps every output, looks for it among the live ones.
YaciOutput(o, live) == IF o \in 1..outputs THEN {Output(o, o \notin live)} ELSE {}

\* The outputs captured with their addresses.
OfflineOutput(o, captured) == IF o \in captured THEN {Output(o, FALSE)} ELSE {}

-----------------------------------------------------------------------------
\* A list collected page by page has every row that was there all the time,
\* and has them once if rows are added at the end only; none is removed
\* meanwhile, and Yaci's bound is not reached.  So what utxo says of an
\* output is right, over Yaci under the same conditions.  One request of
\* Koios has the first page only.
LiveOutputsAreFound ==
    LET collected == Elements(paging.collected)
    IN  /\ paging.over /\ ~paging.removed /\ ~paging.beyond =>
              /\ paging.asked \cap Live \subseteq collected
              /\ ~newestFirst => Len(paging.collected) = Cardinality(collected)
              /\ \A o \in paging.asked \cap Live : \A x \in YaciOutput(o, collected) : ~x.spent
        /\ \A o \in 1..(MaxOutputs + 1) :
              /\ NodeOutput(o) \subseteq BlockfrostOutput(o)
              /\ \A x \in BlockfrostOutput(o) \cup KoiosOutput(o, FALSE) : x.spent = (o \notin Live)
              /\ \A x \in OfflineOutput(o, paging.asked) : x.output \in 1..outputs
        /\ Len(rows) <= PageSize => Elements(Unpaged) = Live

=============================================================================
