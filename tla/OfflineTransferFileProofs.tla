--------------------- MODULE OfflineTransferFileProofs ---------------------
(***************************************************************************)
(* Proofs about OfflineTransferFile, for every set of contexts and         *)
(* transactions, every combination of faults and every bound.              *)
(***************************************************************************)
EXTENDS OfflineTransferFile, TLAPS

\* The two documents a file may start from are documents.
LEMMA FirstDocuments == NewDocument \in Document /\ FirstCapture \in Document
<1>1. <<>> \in Seq(Txs) /\ <<NewFile>> \in Seq(Txs \cup {NewFile})
  OBVIOUS
<1>2. 0 \in 0..MaxCapture /\ 1 \in 0..MaxCapture
  BY BoundsAssumption
<1> QED BY <1>1, <1>2 DEF NewDocument, FirstCapture, Doc, Document

\* A document with one more entry is a document, its capture the same.
LEMMA WithEntryType ==
    ASSUME NEW doc \in Document, NEW tx \in Txs
    PROVE  /\ WithEntry(doc, tx) \in Document
           /\ WithEntry(doc, tx).capture = doc.capture
           /\ WithEntry(doc, tx).transactions = Append(doc.transactions, tx)
           /\ WithEntry(doc, tx).history = Append(doc.history, tx)
<1>1. /\ doc.capture \in 0..MaxCapture
      /\ Append(doc.transactions, tx) \in Seq(Txs)
      /\ Append(doc.history, tx) \in Seq(Txs \cup {NewFile})
  BY DEF Document
<1> QED BY <1>1 DEF WithEntry, Doc, Document

\* A newer capture of a document is one, with the same entries.
LEMMA RecapturedType ==
    ASSUME NEW doc \in Document, doc.capture < MaxCapture
    PROVE  /\ Recaptured(doc) \in Document
           /\ Recaptured(doc).capture = doc.capture + 1
           /\ Recaptured(doc).transactions = doc.transactions
           /\ Recaptured(doc).history = doc.history
  BY BoundsAssumption DEF Recaptured, Doc, Document

(***************************************************************************)
(* The state stays in its type: in particular every copy of the file, on   *)
(* disk and in memory, is a document of recorded transactions.             *)
(***************************************************************************)
THEOREM TypeCorrect == Spec => []TypeOK
<1>1. Init => TypeOK
  BY FirstDocuments DEF Init, TypeOK
<1>2. TypeOK /\ [Next]_vars => TypeOK'
  <2> SUFFICES ASSUME TypeOK, [Next]_vars PROVE TypeOK'
    OBVIOUS
  <2> USE DEF TypeOK, Step, Truncate, WriteOver
  <2>1. ASSUME NEW c \in Contexts, FindMissing(c) PROVE TypeOK'
    BY <2>1 DEF FindMissing
  <2>2. ASSUME NEW c \in Contexts, CreateFile(c) PROVE TypeOK'
    BY <2>2 DEF CreateFile
  <2>3. ASSUME NEW c \in Contexts, FillNewFile(c) PROVE TypeOK'
    BY <2>3, FirstDocuments DEF FillNewFile
  <2>4. ASSUME NEW c \in Contexts, CreateFails(c) PROVE TypeOK'
    BY <2>4 DEF CreateFails
  <2>5. ASSUME NEW c \in Contexts, Load(c) PROVE TypeOK'
    BY <2>5 DEF Load
  <2>6. ASSUME NEW c \in Contexts, LoadFails(c) PROVE TypeOK'
    BY <2>6 DEF LoadFails
  <2>7. ASSUME NEW c \in Contexts, NEW tx \in Txs, AppendEntry(c, tx) PROVE TypeOK'
    <3>1. mem' = [mem EXCEPT ![c] = WithEntry(mem[c], tx)]
      BY <2>7 DEF AppendEntry
    <3>2. WithEntry(mem[c], tx) \in Document
      BY WithEntryType
    <3>3. mem' \in [Contexts -> Document]
      BY <3>1, <3>2
    <3> QED BY <2>7, <3>3 DEF AppendEntry
  <2>8. ASSUME NEW c \in Contexts, OpenForWriting(c) PROVE TypeOK'
    BY <2>8 DEF OpenForWriting
  <2>9. ASSUME NEW c \in Contexts, WriteDocument(c) PROVE TypeOK'
    BY <2>9 DEF WriteDocument
  <2>10. ASSUME NEW c \in Contexts, SaveFailsEarly(c) PROVE TypeOK'
    BY <2>10 DEF SaveFailsEarly
  <2>11. ASSUME NEW c \in Contexts, WriteFails(c) PROVE TypeOK'
    BY <2>11 DEF WriteFails
  <2>12. ASSUME NEW c \in Contexts, Crash(c) PROVE TypeOK'
    BY <2>12, FirstDocuments DEF Crash
  <2>13. CASE Refresh
    BY <2>13, RecapturedType DEF Refresh
  <2>14. CASE UNCHANGED vars
    BY <2>14 DEF vars
  <2>15. ASSUME NEW c \in Contexts, Acknowledge(c) PROVE TypeOK'
    BY <2>15 DEF Acknowledge
  <2> QED
    BY <2>1, <2>2, <2>3, <2>4, <2>5, <2>6, <2>7, <2>8, <2>9, <2>10, <2>11, <2>12,
       <2>13, <2>14, <2>15 DEF Next
<1> QED BY <1>1, <1>2, PTL DEF Spec


-----------------------------------------------------------------------------
(***************************************************************************)
(* The two lists agree.  HistoryAgrees is inductive as it stands: every    *)
(* document comes from one of the first two by adding to both lists.       *)
(***************************************************************************)
LEMMA FirstDocumentsInStep == InStep(NewDocument) /\ InStep(FirstCapture)
  BY DEF InStep, NewDocument, FirstCapture, Doc

LEMMA WithEntryInStep ==
    ASSUME NEW doc \in Document, NEW tx \in Txs, InStep(doc)
    PROVE  InStep(WithEntry(doc, tx))
<1> DEFINE T == doc.transactions
           H == doc.history
<1>1. T \in Seq(Txs) /\ H \in Seq(Txs \cup {NewFile})
  BY DEF Document
<1>2. Len(H) = Len(T) + 1 /\ H[1] = NewFile /\ \A i \in 1..Len(T) : H[i + 1] = T[i]
  BY DEF InStep
<1>3. tx \in Txs \cup {NewFile}
  OBVIOUS
<1> HIDE DEF T, H
<1>4. Len(Append(H, tx)) = Len(Append(T, tx)) + 1
  BY <1>1, <1>2, <1>3
<1>5. Append(H, tx)[1] = NewFile
  BY <1>1, <1>2, <1>3
<1>6. ASSUME NEW i \in 1..Len(Append(T, tx))
      PROVE  Append(H, tx)[i + 1] = Append(T, tx)[i]
  <2>1. CASE i \in 1..Len(T)
    BY <1>1, <1>2, <1>3, <2>1
  <2>2. CASE i = Len(T) + 1
    BY <1>1, <1>2, <1>3, <2>2
  <2>3. Len(T) \in Nat /\ Len(Append(T, tx)) = Len(T) + 1
    BY <1>1
  <2>4. i \in 1..Len(T) \/ i = Len(T) + 1
    BY <2>3
  <2> QED BY <2>1, <2>2, <2>4
<1> QED
  BY <1>4, <1>5, <1>6, WithEntryType DEF InStep, T, H

LEMMA RecapturedInStep ==
    ASSUME NEW doc \in Document, doc.capture < MaxCapture, InStep(doc)
    PROVE  InStep(Recaptured(doc))
  BY RecapturedType DEF InStep

\* "along with a history entry": the history and the transactions of the file
\* and of every copy in memory stay in step, whatever fails or interleaves.
THEOREM HistoryAgreesAlways == Spec => []HistoryAgrees
<1>1. Init => HistoryAgrees
  BY FirstDocumentsInStep DEF Init, HistoryAgrees
<1>2. TypeOK /\ HistoryAgrees /\ [Next]_vars => HistoryAgrees'
  <2> SUFFICES ASSUME TypeOK, HistoryAgrees, [Next]_vars PROVE HistoryAgrees'
    OBVIOUS
  <2> USE DEF HistoryAgrees, TypeOK, Step, Truncate
  <2>1. ASSUME NEW c \in Contexts,
               FindMissing(c) \/ CreateFile(c) \/ CreateFails(c) \/ LoadFails(c)
               \/ OpenForWriting(c) \/ Acknowledge(c) \/ SaveFailsEarly(c) \/ WriteFails(c)
        PROVE  HistoryAgrees'
    BY <2>1 DEF FindMissing, CreateFile, CreateFails, LoadFails, OpenForWriting,
                Acknowledge, SaveFailsEarly, WriteFails
  <2>2. ASSUME NEW c \in Contexts, FillNewFile(c) PROVE HistoryAgrees'
    BY <2>2, FirstDocumentsInStep DEF FillNewFile, WriteOver
  <2>3. ASSUME NEW c \in Contexts, Load(c) PROVE HistoryAgrees'
    BY <2>3 DEF Load
  <2>4. ASSUME NEW c \in Contexts, NEW tx \in Txs, AppendEntry(c, tx)
        PROVE  HistoryAgrees'
    <3>1. InStep(WithEntry(mem[c], tx))
      BY WithEntryInStep
    <3> QED BY <2>4, <3>1 DEF AppendEntry
  <2>5. ASSUME NEW c \in Contexts, WriteDocument(c) PROVE HistoryAgrees'
    BY <2>5 DEF WriteDocument, WriteOver
  <2>6. ASSUME NEW c \in Contexts, Crash(c) PROVE HistoryAgrees'
    BY <2>6, FirstDocumentsInStep DEF Crash
  <2>7. CASE Refresh
    BY <2>7, RecapturedInStep DEF Refresh
  <2>8. CASE UNCHANGED vars
    BY <2>8 DEF vars
  <2> QED BY <2>1, <2>2, <2>3, <2>4, <2>5, <2>6, <2>7, <2>8 DEF Next
<1> QED BY <1>1, <1>2, TypeCorrect, PTL DEF Spec

-----------------------------------------------------------------------------
(***************************************************************************)
(* One context at a time.  With a second context open none of the facts    *)
(* below holds: it writes a document that lacks what the first recorded.   *)
(***************************************************************************)
SingleContext == \A c, d \in Contexts : c = d

(***************************************************************************)
(* The inductive invariant.  The copy in memory extends the last whole     *)
(* document by what is not saved yet, which ends with the transaction      *)
(* being submitted; a file still being created has recorded nothing; a     *)
(* transaction written but not acknowledged yet is in the file; and nobody *)
(* but the context itself fills the file it has emptied.                   *)
(***************************************************************************)
SoleWriter(c) ==
    /\ disk = "absent" => pc[c] \in {"closed", "missing"}
    /\ pc[c] = "missing" => disk = "absent"
    /\ pc[c] \in {"creating", "writing"} => disk = "torn"
    /\ (disk = "absent" \/ pc[c] \in {"missing", "creating", "created"})
          => content.transactions = <<>>
    /\ Opened(c) => Log!Extends(mem[c].transactions, content.transactions)
    /\ pc[c] \in {"appended", "writing"} =>
          /\ Len(content.transactions) < Len(mem[c].transactions)
          /\ mem[c].transactions[Len(mem[c].transactions)] = arg[c]
    /\ pc[c] = "written" => arg[c] \in Recorded(content)

SoleInv == \A c \in Contexts : SoleWriter(c)

LEMMA ExtendsReflexive ==
    ASSUME NEW s \in Seq(Txs) PROVE Log!Extends(s, s)
  BY DEF Log!Extends

LEMMA ExtendsEmpty ==
    ASSUME NEW s \in Seq(Txs) PROVE Log!Extends(s, <<>>)
  BY DEF Log!Extends

LEMMA ExtendsAppend ==
    ASSUME NEW s \in Seq(Txs), NEW t \in Seq(Txs), NEW tx \in Txs, Log!Extends(s, t)
    PROVE  /\ Log!Extends(Append(s, tx), t)
           /\ Len(t) < Len(Append(s, tx))
           /\ Append(s, tx)[Len(Append(s, tx))] = tx
<1>1. Len(Append(s, tx)) = Len(s) + 1 /\ Len(s) \in Nat /\ Len(t) \in Nat
  OBVIOUS
<1>2. Len(t) <= Len(s) /\ \A i \in 1..Len(t) : s[i] = t[i]
  BY DEF Log!Extends
<1>3. ASSUME NEW i \in 1..Len(t) PROVE Append(s, tx)[i] = t[i]
  BY <1>1, <1>2
<1> QED BY <1>1, <1>2, <1>3 DEF Log!Extends

LEMMA DocumentFields ==
    ASSUME NEW doc \in Document
    PROVE  doc.transactions \in Seq(Txs) /\ doc.capture \in 0..MaxCapture
  BY DEF Document

\* A copy that ends with the transaction being submitted records it.
LEMMA ArgumentRecorded ==
    ASSUME TypeOK, NEW c \in Contexts, SoleWriter(c), pc[c] = "writing"
    PROVE  arg[c] \in Recorded(mem[c])
<1>1. mem[c].transactions \in Seq(Txs) /\ content.transactions \in Seq(Txs)
  BY DocumentFields DEF TypeOK
<1>2. Len(mem[c].transactions) \in 1..Len(mem[c].transactions)
  BY <1>1 DEF SoleWriter
<1> QED BY <1>2 DEF SoleWriter, Recorded

LEMMA SoleInvInitially == Init => SoleInv
  BY DEF Init, SoleInv, SoleWriter, Opened, NewDocument, FirstCapture, Doc

LEMMA SoleInvStep ==
    ASSUME SingleContext, TypeOK, SoleInv, [Next]_vars
    PROVE  SoleInv'
<1> SUFFICES ASSUME NEW d \in Contexts PROVE SoleWriter(d)'
  BY DEF SoleInv
<1>0. SoleWriter(d)
  BY DEF SoleInv
<1>a. content \in Document /\ content.transactions \in Seq(Txs)
      /\ mem[d] \in Document /\ mem[d].transactions \in Seq(Txs)
  BY DocumentFields DEF TypeOK
<1> USE DEF SoleWriter, Opened, TypeOK, Step, Truncate
<1>1. ASSUME NEW c \in Contexts,
             FindMissing(c) \/ CreateFile(c) \/ CreateFails(c) \/ LoadFails(c)
             \/ OpenForWriting(c) \/ Acknowledge(c) \/ SaveFailsEarly(c) \/ WriteFails(c)
             \/ Crash(c)
      PROVE  SoleWriter(d)'
  <2>1. c = d
    BY DEF SingleContext
  <2> QED
    BY <1>0, <1>1, <2>1 DEF FindMissing, CreateFile, CreateFails, LoadFails,
       OpenForWriting, Acknowledge, SaveFailsEarly, WriteFails, Crash
<1>2. ASSUME NEW c \in Contexts, FillNewFile(c) PROVE SoleWriter(d)'
  <2>1. c = d /\ disk = "torn"
    BY <1>0, <1>2 DEF SingleContext, FillNewFile
  <2>2. content'.transactions = <<>>
    BY <1>2, <2>1 DEF FillNewFile, WriteOver, NewDocument, Doc
  <2> QED BY <1>2, <2>1, <2>2 DEF FillNewFile, WriteOver
<1>3. ASSUME NEW c \in Contexts, Load(c) PROVE SoleWriter(d)'
  <2>1. c = d
    BY DEF SingleContext
  <2> QED BY <1>0, <1>3, <1>a, <2>1, ExtendsReflexive DEF Load
<1>4. ASSUME NEW c \in Contexts, NEW tx \in Txs, AppendEntry(c, tx)
      PROVE  SoleWriter(d)'
  <2>1. c = d
    BY DEF SingleContext
  <2>2. mem'[d].transactions = Append(mem[d].transactions, tx) /\ arg'[d] = tx
    BY <1>4, <1>a, <2>1, WithEntryType DEF AppendEntry
  <2>3. Log!Extends(mem[d].transactions, content.transactions)
    BY <1>0, <1>4, <2>1 DEF AppendEntry
  <2>4. LET s == mem'[d].transactions
        IN  /\ Log!Extends(s, content.transactions)
            /\ Len(content.transactions) < Len(s)
            /\ s[Len(s)] = arg'[d]
    BY <1>a, <2>2, <2>3, ExtendsAppend
  <2> QED BY <1>0, <1>4, <2>1, <2>4 DEF AppendEntry
<1>5. ASSUME NEW c \in Contexts, WriteDocument(c) PROVE SoleWriter(d)'
  <2>1. c = d /\ disk = "torn"
    BY <1>0, <1>5 DEF SingleContext, WriteDocument
  <2>2. content' = mem[d] /\ mem' = mem
    BY <1>5, <2>1 DEF WriteDocument, WriteOver
  <2>3. arg[d] \in Recorded(mem[d])
    BY <1>0, <1>5, <2>1, ArgumentRecorded DEF WriteDocument
  <2> QED
    BY <1>5, <1>a, <2>1, <2>2, <2>3, ExtendsReflexive DEF WriteDocument, WriteOver
<1>6. CASE Refresh
  BY <1>0, <1>6, <1>a, RecapturedType DEF Refresh, Recorded
<1>7. CASE UNCHANGED vars
  BY <1>0, <1>7 DEF vars
<1> QED
  BY <1>1, <1>2, <1>3, <1>4, <1>5, <1>6, <1>7 DEF Next

LEMMA SoleInvAlways == ASSUME SingleContext PROVE Spec => []SoleInv
<1>1. TypeOK /\ SoleInv /\ [Next]_vars => SoleInv'
  BY SoleInvStep
<1> QED BY <1>1, SoleInvInitially, TypeCorrect, PTL DEF Spec

-----------------------------------------------------------------------------
(***************************************************************************)
(* What a sole context never loses.  One fault does lose an acknowledged   *)
(* transaction, and is excluded: a process that dies while the file is     *)
(* torn, in the middle of a write or after one that raised.                *)
(***************************************************************************)
SurvivableFaults == "tear" \notin Faults

(***************************************************************************)
(* Added to SoleInv: what is acknowledged is in the last whole document,   *)
(* and the file is torn only under a context that still runs, or before    *)
(* anything was recorded.                                                  *)
(***************************************************************************)
SafeInv ==
    /\ acked \subseteq Recorded(content)
    /\ disk = "absent" => acked = {}
    /\ disk = "torn" /\ content.transactions # <<>> => \E c \in Contexts : Opened(c)

LEMMA RecordedExtends ==
    ASSUME NEW a \in Document, NEW b \in Document,
           Log!Extends(a.transactions, b.transactions)
    PROVE  Recorded(b) \subseteq Recorded(a)
<1>1. a.transactions \in Seq(Txs) /\ b.transactions \in Seq(Txs)
  BY DocumentFields
<1>2. \A i \in 1..Len(b.transactions) :
         i \in 1..Len(a.transactions) /\ a.transactions[i] = b.transactions[i]
  BY <1>1 DEF Log!Extends
<1> QED BY <1>2 DEF Recorded

LEMMA SafeInvStep ==
    ASSUME SingleContext, SurvivableFaults, TypeOK, SoleInv, SafeInv, [Next]_vars
    PROVE  SafeInv'
<1> USE DEF Step, Truncate
<1>0. \A c \in Contexts :
        (disk = "absent" \/ pc[c] \in {"missing", "creating", "created"})
           => acked = {} /\ content.transactions = <<>>
  BY DEF SoleInv, SoleWriter, SafeInv, Recorded
<1>1. ASSUME NEW c \in Contexts, FindMissing(c) \/ SaveFailsEarly(c)
      PROVE  SafeInv'
  BY <1>1 DEF FindMissing, SaveFailsEarly, SafeInv, TypeOK, Opened
<1>2. ASSUME NEW c \in Contexts, CreateFile(c) \/ OpenForWriting(c) \/ WriteFails(c)
      PROVE  SafeInv'
  BY <1>0, <1>2 DEF CreateFile, OpenForWriting, WriteFails, SafeInv, TypeOK, Opened
<1>3. ASSUME NEW c \in Contexts, FillNewFile(c) PROVE SafeInv'
  <2>1. acked = {} /\ disk = "torn"
    BY <1>0, <1>3 DEF FillNewFile, SoleInv, SoleWriter
  <2> QED BY <1>3, <2>1 DEF FillNewFile, WriteOver, SafeInv
<1>4. ASSUME NEW c \in Contexts, CreateFails(c) PROVE SafeInv'
  <2>1. acked = {} /\ content.transactions = <<>>
    BY <1>0, <1>4 DEF CreateFails
  <2>2. CASE "open" \in Faults /\ pc[c] = "missing" /\ UNCHANGED disk
    BY <1>4, <2>1, <2>2 DEF CreateFails, SafeInv, SoleInv, SoleWriter
  <2>3. CASE "write" \in Faults
    BY <1>4, <2>1, <2>3 DEF CreateFails, SafeInv
  <2> QED BY <1>4, <2>2, <2>3 DEF CreateFails
<1>5. ASSUME NEW c \in Contexts, Load(c) PROVE SafeInv'
  BY <1>5 DEF Load, SafeInv
<1>6. ASSUME NEW c \in Contexts, LoadFails(c) PROVE SafeInv'
  <2>1. acked = {} /\ content.transactions = <<>>
    BY <1>0, <1>6 DEF LoadFails
  <2> QED BY <1>6, <2>1 DEF LoadFails, SafeInv
<1>7. ASSUME NEW c \in Contexts, NEW tx \in Txs, AppendEntry(c, tx) PROVE SafeInv'
  BY <1>7 DEF AppendEntry, SafeInv, SingleContext, Opened, TypeOK
<1>8. ASSUME NEW c \in Contexts, WriteDocument(c) PROVE SafeInv'
  <2>1. /\ disk = "torn"
        /\ Log!Extends(mem[c].transactions, content.transactions)
    BY <1>8 DEF SoleInv, SoleWriter, Opened, WriteDocument
  <2>2. content' = mem[c] /\ acked' = acked /\ disk' = "whole"
    BY <1>8, <2>1 DEF WriteDocument, WriteOver
  <2>3. Recorded(content) \subseteq Recorded(mem[c])
    BY <2>1, RecordedExtends DEF TypeOK
  <2> QED BY <2>2, <2>3 DEF SafeInv
<1>9. ASSUME NEW c \in Contexts, Crash(c) PROVE SafeInv'
  <2>1. disk # "torn"
    BY <1>9 DEF Crash, SurvivableFaults
  <2> QED BY <1>9, <2>1 DEF Crash, SafeInv
<1>10. CASE Refresh
  <2>1. Recorded(content') = Recorded(content)
    BY <1>10, RecapturedType DEF Refresh, Recorded, TypeOK
  <2> QED BY <1>10, <2>1 DEF Refresh, SafeInv, Opened
<1>11. CASE UNCHANGED vars
  BY <1>11 DEF vars, SafeInv, Opened
<1>12. ASSUME NEW c \in Contexts, Acknowledge(c) PROVE SafeInv'
  BY <1>12 DEF Acknowledge, SafeInv, SoleInv, SoleWriter, Opened, TypeOK, SingleContext
<1> QED
  BY <1>1, <1>2, <1>3, <1>4, <1>5, <1>6, <1>7, <1>8, <1>9, <1>10, <1>11, <1>12 DEF Next

LEMMA SafeInvAlways ==
    ASSUME SingleContext, SurvivableFaults PROVE Spec => []SafeInv
<1>1. Init => SafeInv
  BY DEF Init, SafeInv
<1>2. TypeOK /\ SoleInv /\ SafeInv /\ [Next]_vars => SafeInv'
  BY SafeInvStep
<1> QED BY <1>1, <1>2, TypeCorrect, SoleInvAlways, PTL DEF Spec

\* With one context and no fatal fault, a transaction whose submission
\* returned is in the file, or in the running context when the file is torn.
THEOREM SoleContextAckedRecoverable ==
    ASSUME SingleContext, SurvivableFaults PROVE Spec => []AckedRecoverable
<1>3. TypeOK /\ SoleInv /\ SafeInv => AckedRecoverable
  <2> SUFFICES ASSUME TypeOK, SoleInv, SafeInv, NEW tx \in acked
               PROVE  /\ tx \in Recorded(content)
                      /\ disk = "whole"
                         \/ \E c \in Contexts : Opened(c) /\ tx \in Recorded(mem[c])
    BY DEF AckedRecoverable
  <2>1. tx \in Recorded(content)
    BY DEF SafeInv
  <2>2. CASE disk = "torn"
    <3>1. PICK c \in Contexts : Opened(c)
      <4>1. content.transactions # <<>>
        BY <2>1 DEF Recorded
      <4> QED BY <2>2, <4>1 DEF SafeInv
    <3>2. Recorded(content) \subseteq Recorded(mem[c])
      BY <3>1, RecordedExtends DEF SoleInv, SoleWriter, TypeOK
    <3> QED BY <2>1, <3>1, <3>2
  <2>3. CASE disk = "absent"
    BY <2>3 DEF SafeInv
  <2> QED BY <2>1, <2>2, <2>3 DEF TypeOK
<1> QED BY <1>3, TypeCorrect, SoleInvAlways, SafeInvAlways, PTL DEF Spec

-----------------------------------------------------------------------------
(***************************************************************************)
(* Every step of a sole context is a step of the log or leaves it alone.   *)
(***************************************************************************)
\* Nothing is recorded in a file that is torn for good.
LEMMA HeldIsContent ==
    ASSUME SafeInv PROVE Held = content.transactions
BY DEF SafeInv, Held

LEMMA SoleStepIsLogStep ==
    ASSUME SingleContext, TypeOK, TypeOK', SoleInv, SafeInv, SafeInv', [Next]_vars
    PROVE  [Log!Next]_<<Held, acked>>
<1> USE DEF Step, Truncate
<1>h. Held = content.transactions /\ Held' = content'.transactions
  BY HeldIsContent DEF SafeInv, Held, Opened
<1>0. content \in Document /\ content' \in Document
  BY DEF TypeOK
<1>1. ASSUME NEW c \in Contexts,
             FindMissing(c) \/ CreateFile(c) \/ CreateFails(c) \/ LoadFails(c) \/ Load(c)
             \/ OpenForWriting(c) \/ SaveFailsEarly(c) \/ WriteFails(c) \/ Crash(c)
             \/ (\E tx \in Txs : AppendEntry(c, tx))
      PROVE  UNCHANGED <<content.transactions, acked>>
  BY <1>1 DEF FindMissing, CreateFile, CreateFails, LoadFails, Load, OpenForWriting,
     SaveFailsEarly, WriteFails, Crash, AppendEntry
<1>2. ASSUME NEW c \in Contexts, FillNewFile(c)
      PROVE  UNCHANGED <<content.transactions, acked>>
  <2>1. disk = "torn" /\ content.transactions = <<>>
    BY <1>2 DEF SoleInv, SoleWriter, FillNewFile
  <2> QED BY <1>2, <2>1 DEF FillNewFile, WriteOver, NewDocument, Doc
<1>3. ASSUME NEW c \in Contexts, WriteDocument(c)
      PROVE  Log!Record(arg[c])
  <2>1. /\ disk = "torn"
        /\ Log!Extends(mem[c].transactions, content.transactions)
        /\ Len(content.transactions) < Len(mem[c].transactions)
        /\ mem[c].transactions[Len(mem[c].transactions)] = arg[c]
    BY <1>3 DEF SoleInv, SoleWriter, Opened, WriteDocument
  <2>2. content' = mem[c] /\ acked' = acked
    BY <1>3, <2>1 DEF WriteDocument, WriteOver
  <2>3. content'.transactions \in Seq(Txs)
    BY <1>0, DocumentFields
  <2> QED BY <1>h, <2>1, <2>2, <2>3 DEF Log!Record
<1>7. ASSUME NEW c \in Contexts, Acknowledge(c)
      PROVE  Log!Acknowledge(arg[c])
  <2>1. arg[c] \in Recorded(content) /\ content' = content /\ acked' = acked \cup {arg[c]}
    BY <1>7 DEF Acknowledge, SoleInv, SoleWriter
  <2>2. \E i \in 1..Len(Held) : Held[i] = arg[c]
    BY <1>h, <2>1 DEF Recorded
  <2> QED BY <1>h, <2>1, <2>2 DEF Log!Acknowledge
<1>4. CASE Refresh
  BY <1>0, <1>4, <1>h, RecapturedType DEF Refresh
<1>5. CASE UNCHANGED vars
  BY <1>5, <1>h DEF vars
<1>6. \A c \in Contexts : arg[c] \in Txs
  BY DEF TypeOK
<1> QED
  BY <1>h, <1>1, <1>2, <1>3, <1>4, <1>5, <1>6, <1>7 DEF Next, Log!Next

\* A sole context implements the log: what can be had of the file only gains
\* transactions, and one is recorded before it is acknowledged, whichever saves
\* raise and whenever a process dies but over a torn file.
THEOREM SoleContextImplementsLog ==
    ASSUME SingleContext, SurvivableFaults PROVE Spec => ImplementsLog
<1>1. Init => Log!Init
  BY DEF Init, Log!Init, Held, NewDocument, FirstCapture, Doc
<1>2. TypeOK /\ TypeOK' /\ SoleInv /\ SafeInv /\ SafeInv' /\ [Next]_vars
        => [Log!Next]_<<Held, acked>>
  BY SoleStepIsLogStep
<1>3. Spec => []TypeOK /\ []SoleInv /\ []SafeInv
  BY TypeCorrect, SoleInvAlways, SafeInvAlways
<1> QED
  BY <1>1, <1>2, <1>3, PTL DEF Spec, ImplementsLog, Log!Spec, Log!logVars

\* No save of a sole context, and no death of one but over a torn file, loses
\* a recorded transaction.
THEOREM SoleContextRecordsOnlyGrow ==
    ASSUME SingleContext, SurvivableFaults PROVE Spec => RecordsOnlyGrow
<1>1. ASSUME TypeOK, TypeOK', SoleInv, SafeInv, SafeInv', [Next]_vars
      PROVE  [/\ Len(Held) <= Len(Held')
              /\ \A i \in 1..Len(Held) : Held'[i] = Held[i]]_vars
  <2>1. Held \in Seq(Txs)
    BY <1>1, DocumentFields, HeldIsContent DEF TypeOK
  <2>2. Len(Held) <= Len(Held)
    BY <2>1
  <2> QED
    BY <1>1, <2>2, SoleStepIsLogStep DEF Log!Next, Log!Record, Log!Acknowledge, Log!Extends
<1>2. Spec => []TypeOK /\ []SoleInv /\ []SafeInv
  BY TypeCorrect, SoleInvAlways, SafeInvAlways
<1> QED BY <1>1, <1>2, PTL DEF Spec, RecordsOnlyGrow

=============================================================================
