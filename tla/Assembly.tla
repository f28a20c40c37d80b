------------------------------ MODULE Assembly ------------------------------
(***************************************************************************)
(* Witnesses of several signers on their way into transactions: witness,   *)
(* sign_transaction and assemble_transaction.                              *)
(*                                                                         *)
(* Python's lists are shared by reference: a list is a number, lists maps  *)
(* it to its elements, and a transaction and a caller may hold the same    *)
(* one.  A transaction read from CBOR is one that was signed before.       *)
(***************************************************************************)
EXTENDS NoValue, Naturals, Sequences, FiniteSets

CONSTANTS
    Transactions, \* the transactions
    Keys,         \* the signing keys
    MaxLists,     \* bound: lists made
    MaxElements   \* bound: elements of a list

ASSUME AssemblyAssumption ==
    MaxLists \in Nat /\ MaxElements \in Nat /\ None \notin Nat

VARIABLES
    lists,     \* the elements of each list made
    returned,  \* the lists that witness returned: those the callers hold
    witnesses, \* of each transaction its list vkey_witnesses, or None
    bootstrap, \* of each transaction its list bootstrap_witness, or None
    redeemer,  \* of each transaction its redeemers, or None
    given      \* observed: the witnesses and lists passed for each transaction

assemblyVars == <<lists, returned, witnesses, bootstrap, redeemer, given>>

Nothing == [vkeys |-> {}, bootstrap |-> {}, lists |-> {}]

AssemblyInit ==
    /\ lists = <<>> /\ returned = {}
    /\ witnesses = [t \in Transactions |-> None]
    /\ bootstrap = [t \in Transactions |-> None]
    /\ redeemer = [t \in Transactions |-> None]
    /\ given = [t \in Transactions |-> Nothing]

Holds(all, l) == IF l = None THEN {} ELSE {all[l][i] : i \in DOMAIN all[l]}

\* What becomes of the lists and of a slot.
Outcome(all, slot) == [lists |-> all, slot |-> slot]

\* Faulty form: the later signer's list takes the place of the first one's.
ReplacedWitnesses(all, slot, l) == Outcome(all, IF l = None THEN slot ELSE l)

\* _update_witness_set, for vkey_witnesses, the scripts and the data: the
\* list that is passed becomes the transaction's, or is appended to it.
UpdatedWitnesses(all, slot, l) ==
    IF l = None THEN Outcome(all, slot)
    ELSE IF slot = None THEN Outcome(all, l)
    ELSE Outcome([all EXCEPT ![slot] = @ \o all[l]], slot)

\* bootstrap_witness: the list that is passed is copied first.
UpdatedBootstrap(all, slot, l) ==
    IF l = None THEN Outcome(all, slot)
    ELSE IF slot = None THEN Outcome(Append(all, all[l]), Len(all) + 1)
    ELSE Outcome([all EXCEPT ![slot] = @ \o all[l]], slot)

\* assemble_transaction on what all maps the lists to.
AssembledOver(all, t, v, b, r) ==
    LET first == UpdatedWitnesses(all, witnesses[t], v)
        second == UpdatedBootstrap(first.lists, bootstrap[t], b)
    IN  /\ Len(second.lists) <= MaxLists
        /\ \A l \in DOMAIN second.lists : Len(second.lists[l]) <= MaxElements
        /\ lists' = second.lists
        /\ UNCHANGED returned
        /\ witnesses' = [witnesses EXCEPT ![t] = first.slot]
        /\ bootstrap' = [bootstrap EXCEPT ![t] = second.slot]
        /\ redeemer' = IF r = None THEN redeemer ELSE [redeemer EXCEPT ![t] = r]
        /\ given' = [given EXCEPT ![t] =
                       [vkeys |-> @.vkeys \cup Holds(all, v),
                        bootstrap |-> @.bootstrap \cup Holds(first.lists, b),
                        lists |-> @.lists \cup ({v} \ {None})]]

Signature(t, key) == <<[tx |-> t, key |-> key]>>

\* A signer is sent the transaction and returns a list of witnesses.
Witness(t, key) ==
    /\ Len(lists) < MaxLists
    /\ lists' = Append(lists, Signature(t, key))
    /\ returned' = returned \cup {Len(lists) + 1}
    /\ UNCHANGED <<witnesses, bootstrap, redeemer, given>>

Assemble(t, v, b, r) == AssembledOver(lists, t, v, b, r)

Sign(t, key) ==
    AssembledOver(Append(lists, Signature(t, key)), t, Len(lists) + 1, None, None)

AssemblyNext ==
    \E t \in Transactions :
       \/ \E key \in Keys : Witness(t, key) \/ Sign(t, key)
       \/ \E v, b \in returned \cup {None}, r \in {None, 1} : Assemble(t, v, b, r)

AssemblySpec == AssemblyInit /\ [][AssemblyNext]_assemblyVars

-----------------------------------------------------------------------------
\* Every witness passed for a transaction is in it, and stays.  It has no
\* other either, unless a list was passed for two transactions: what is
\* appended to the one's witnesses later may then be in both.
WitnessesStay ==
    \A t \in Transactions :
       LET shared == \E u \in Transactions \ {t} : given[t].lists \cap given[u].lists # {}
       IN  /\ given[t].vkeys \subseteq Holds(lists, witnesses[t])
           /\ Holds(lists, witnesses[t]) \subseteq given[t].vkeys \/ shared
           /\ Holds(lists, bootstrap[t]) = given[t].bootstrap

=============================================================================
