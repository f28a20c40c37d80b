------------------------ MODULE OfflineTransferFile ------------------------
(***************************************************************************)
(* OfflineTransferFileContext and the JSON file it answers from.            *)
(*                                                                         *)
(* A context reads the whole file once, when it is constructed, and keeps  *)
(* it in memory.  "Submitting" a transaction appends to two lists of the   *)
(* copy in memory and then writes the whole copy over the file, which      *)
(* open(path, "w") has emptied first.  Several contexts, in one process or *)
(* in several, may be open on one file; nothing locks it.                  *)
(*                                                                         *)
(* The captured sections (protocol, addresses, pools, ...) are abstracted  *)
(* to the number of the capture that wrote them.                           *)
(***************************************************************************)
EXTENDS Naturals, Sequences, FiniteSets

CONSTANTS
    Contexts,    \* context objects that may be opened on the file
    Txs,         \* transactions callers submit
    NewFile,     \* the history entry HistoryType.NEW
    Faults,      \* what may go wrong: a subset of FaultKinds
    MaxEntries,  \* bound: recorded transactions per copy of the file
    MaxCapture   \* bound: captures written by the online machine

\* "serialize": to_json() raises; "open": open(path, "w") raises, the file
\* untouched; "write": the write raises after the file was emptied; "crash":
\* a process dies while the file is whole; "tear": one dies while it is torn.
FaultKinds == {"serialize", "open", "write", "crash", "tear"}

ASSUME FaultsAssumption == Faults \subseteq FaultKinds
ASSUME NewFileAssumption == NewFile \notin Txs
ASSUME BoundsAssumption == MaxEntries \in Nat /\ MaxCapture \in Nat \ {0}

VARIABLES
    disk,      \* "absent", "torn" (no JSON document) or "whole"
    content,   \* the document of the file; when it is not whole, the last one
    mem,       \* mem[c]: _offline_transfer, the copy context c holds
    pc,        \* pc[c]: where context c is
    arg,       \* arg[c]: the transaction context c is submitting
    acked      \* transactions some submit_tx_cbor returned for

vars == <<disk, content, mem, pc, arg, acked>>

Document == [capture : 0..MaxCapture, transactions : Seq(Txs),
             history : Seq(Txs \cup {NewFile})]

Doc(capture, transactions, history) ==
    [capture |-> capture, transactions |-> transactions, history |-> history]

\* The document OfflineTransfer.new writes: nothing captured yet, one entry.
NewDocument == Doc(0, <<>>, <<NewFile>>)

\* A file from an online machine that already holds a first capture.
FirstCapture == Doc(1, <<>>, <<NewFile>>)

\* Faulty forms: the history forgotten, the lists replaced.
WithEntryUnlogged(doc, tx) ==
    Doc(doc.capture, Append(doc.transactions, tx), doc.history)

WithOnlyEntry(doc, tx) == Doc(doc.capture, <<tx>>, <<NewFile, tx>>)

\* What submit_tx_cbor makes of a document: one more entry in both lists.
WithEntry(doc, tx) ==
    Doc(doc.capture, Append(doc.transactions, tx), Append(doc.history, tx))

\* What the online machine makes of one: a newer capture.
Recaptured(doc) == Doc(doc.capture + 1, doc.transactions, doc.history)

Recorded(doc) == {doc.transactions[i] : i \in 1..Len(doc.transactions)}

Opened(c) == pc[c] \in {"idle", "appended", "writing", "written"}

Init ==
    /\ \/ disk = "absent" /\ content = NewDocument
       \/ disk = "whole" /\ content = FirstCapture
    /\ mem = [c \in Contexts |-> NewDocument]
    /\ pc = [c \in Contexts |-> "closed"]
    /\ arg \in [Contexts -> Txs]
    /\ acked = {}

(***************************************************************************)
(* dump_file(path, doc).  The open empties the file; the write, made at    *)
(* the context's own offset, lays the document over what is there by now.  *)
(* If another context filled the file in between and its document is the   *)
(* longer one, its tail stays behind the new document: no JSON any more.   *)
(***************************************************************************)
Truncate ==
    /\ disk' = "torn"
    /\ UNCHANGED content

WriteOver(doc) ==
    \/ /\ disk' = "whole"
       /\ content' = doc
    \/ /\ disk = "whole"
       /\ \/ Len(doc.history) <= Len(content.history)
          \/ doc.capture # content.capture
       /\ disk' = "torn"
       /\ UNCHANGED content

Step(c, from, to) ==
    /\ pc[c] = from
    /\ pc' = [pc EXCEPT ![c] = to]

(***************************************************************************)
(* OfflineTransferFileContext(path): check() makes a file it did not find, *)
(* with OfflineTransfer.new, then load() parses what the file holds.       *)
(***************************************************************************)
FindMissing(c) ==
    /\ disk = "absent"
    /\ Step(c, "closed", "missing")
    /\ UNCHANGED <<disk, content, mem, arg, acked>>

CreateFile(c) ==
    /\ Step(c, "missing", "creating")
    /\ Truncate
    /\ UNCHANGED <<mem, arg, acked>>

FillNewFile(c) ==
    /\ Step(c, "creating", "created")
    /\ WriteOver(NewDocument)
    /\ UNCHANGED <<mem, arg, acked>>

\* OfflineTransfer.new raises, and with it the constructor.
CreateFails(c) ==
    /\ \/ /\ "open" \in Faults
          /\ Step(c, "missing", "closed")
          /\ UNCHANGED <<disk, content>>
       \/ /\ "write" \in Faults
          /\ Step(c, "creating", "closed")
          /\ Truncate
    /\ UNCHANGED <<mem, arg, acked>>

\* Faulty form: what the file holds is not kept.
LoadNothing(c) ==
    /\ pc[c] \in {"closed", "created"}
    /\ disk = "whole"
    /\ pc' = [pc EXCEPT ![c] = "idle"]
    /\ UNCHANGED <<disk, content, mem, arg, acked>>

Load(c) ==
    /\ pc[c] \in {"closed", "created"}
    /\ disk = "whole"
    /\ mem' = [mem EXCEPT ![c] = content]
    /\ pc' = [pc EXCEPT ![c] = "idle"]
    /\ UNCHANGED <<disk, content, arg, acked>>

\* json.load raises on a torn file; the constructor fails.
LoadFails(c) ==
    /\ disk = "torn"
    /\ Step(c, "created", "closed")
    /\ UNCHANGED <<disk, content, mem, arg, acked>>

(***************************************************************************)
(* submit_tx_cbor(tx): append to both lists, serialise, open, write, return.*)
(***************************************************************************)
AppendEntry(c, tx) ==
    /\ Step(c, "idle", "appended")
    /\ Len(mem[c].transactions) < MaxEntries
    /\ arg' = [arg EXCEPT ![c] = tx]
    /\ mem' = [mem EXCEPT ![c] = WithEntry(@, tx)]
    /\ UNCHANGED <<disk, content, acked>>

\* Faulty form: acknowledged before it is written.
OpenForWritingAcks(c) ==
    /\ Step(c, "appended", "writing")
    /\ Truncate
    /\ acked' = acked \cup {arg[c]}
    /\ UNCHANGED <<mem, arg>>

OpenForWriting(c) ==
    /\ Step(c, "appended", "writing")
    /\ Truncate
    /\ UNCHANGED <<mem, arg, acked>>

\* The document is written and the file closed; the caller is not told yet.
WriteDocument(c) ==
    /\ Step(c, "writing", "written")
    /\ WriteOver(mem[c])
    /\ UNCHANGED <<mem, arg, acked>>

Acknowledge(c) ==
    /\ Step(c, "written", "idle")
    /\ acked' = acked \cup {arg[c]}
    /\ UNCHANGED <<disk, content, mem, arg>>

\* to_json() or open() raises: the file is as it was, the lists are not.
SaveFailsEarly(c) ==
    /\ Faults \cap {"serialize", "open"} # {}
    /\ Step(c, "appended", "idle")
    /\ UNCHANGED <<disk, content, mem, arg, acked>>

\* The write raises (a full disk, a stick pulled out): part of a document,
\* laid over what another context may have written meanwhile.
WriteFails(c) ==
    /\ "write" \in Faults
    /\ Step(c, "writing", "idle")
    /\ Truncate
    /\ UNCHANGED <<mem, arg, acked>>

(***************************************************************************)
(* The environment.                                                        *)
(***************************************************************************)
\* A process ends: its context is gone, the file stays as it is.
Crash(c) ==
    /\ pc[c] # "closed"
    /\ (IF disk = "torn" THEN "tear" ELSE "crash") \in Faults
    /\ pc' = [pc EXCEPT ![c] = "closed"]
    /\ mem' = [mem EXCEPT ![c] = NewDocument]
    /\ UNCHANGED <<disk, content, arg, acked>>

\* The online machine captures the chain into the file again.  It keeps what
\* was recorded, and runs while no context is in the middle of a write.
Refresh ==
    /\ disk = "whole"
    /\ content.capture < MaxCapture
    /\ \A c \in Contexts : pc[c] \notin {"creating", "writing"}
    /\ content' = Recaptured(content)
    /\ UNCHANGED <<disk, mem, pc, arg, acked>>

Next ==
    \/ \E c \in Contexts :
        \/ FindMissing(c) \/ CreateFile(c) \/ FillNewFile(c) \/ CreateFails(c)
        \/ Load(c) \/ LoadFails(c)
        \/ \E tx \in Txs : AppendEntry(c, tx)
        \/ OpenForWriting(c) \/ WriteDocument(c) \/ Acknowledge(c)
        \/ SaveFailsEarly(c) \/ WriteFails(c)
        \/ Crash(c)
    \/ Refresh

Spec == Init /\ [][Next]_vars

(***************************************************************************)
(* Properties.                                                             *)
(***************************************************************************)
TypeOK ==
    /\ disk \in {"absent", "torn", "whole"}
    /\ content \in Document
    /\ mem \in [Contexts -> Document]
    /\ pc \in [Contexts -> {"closed", "missing", "creating", "created",
                           "idle", "appended", "writing", "written"}]
    /\ arg \in [Contexts -> Txs]
    /\ acked \subseteq Txs

\* The history of a document has one entry per recorded transaction, in the
\* same order, after the entry that made the file.
InStep(doc) ==
    /\ Len(doc.history) = Len(doc.transactions) + 1
    /\ doc.history[1] = NewFile
    /\ \A i \in 1..Len(doc.transactions) : doc.history[i + 1] = doc.transactions[i]

\* submit_tx_cbor records a transaction "along with a history entry": however
\* contexts overwrite each other, fail and crash, the two lists of the file
\* and of every copy in memory agree.
HistoryAgrees == InStep(content) /\ \A c \in Contexts : InStep(mem[c])

\* A transaction whose submission returned is in the file, and where the file
\* is torn an open context still holds it, so that its next save restores it.
AckedRecoverable ==
    \A tx \in acked :
        /\ tx \in Recorded(content)
        /\ disk = "whole" \/ \E c \in Contexts : Opened(c) /\ tx \in Recorded(mem[c])

\* The transactions that can still be had: those of the file, and where it is
\* torn those of the last whole one while a context is open that holds them.
\* A torn file that nobody has open gives nothing.
Held ==
    IF disk = "torn" /\ \A c \in Contexts : ~Opened(c) THEN <<>>
    ELSE content.transactions

\* No step loses a recorded transaction, or moves one: what dump_file writes
\* extends what there was, and what can no longer be read held nothing.
RecordsOnlyGrow ==
    [][/\ Len(Held) <= Len(Held')
       /\ \A i \in 1..Len(Held) : Held'[i] = Held[i]]_vars

(***************************************************************************)
(* What the file is to its callers: a log that only gets longer, in which  *)
(* a transaction is recorded before its submission is acknowledged.        *)
(***************************************************************************)
Log == INSTANCE SubmissionLog WITH log <- Held

ImplementsLog == Log!Spec

=============================================================================
