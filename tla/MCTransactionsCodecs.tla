------------------------ MODULE MCTransactionsCodecs ------------------------
(***************************************************************************)
(* What happens to a transaction and to the data it is built from, each    *)
(* behaviour about one subject: what is reachable is the sum of what each  *)
(* module reaches, not the product.                                        *)
(***************************************************************************)
EXTENDS Submission, Assembly, ParameterCodec, SectionCodec

VARIABLE subject

allVars == <<subject, vars, assemblyVars, codecVars, sectionVars>>

Subjects == {"submission", "assembly", "parameters", "sections"}

\* A subject that a behaviour is not about starts in one state.
MCInit ==
    /\ subject \in Subjects
    /\ Init /\ AssemblyInit /\ CodecInit
    /\ subject # "submission" => valid /\ forms = {}
    /\ subject # "parameters" => service = "cli"
    /\ IF subject = "sections" THEN SectionInit
       ELSE online = None /\ document = None /\ held = None

MCNext ==
    /\ UNCHANGED subject
    /\ \/ subject = "submission" /\ Next /\ UNCHANGED <<assemblyVars, codecVars, sectionVars>>
       \/ subject = "assembly" /\ AssemblyNext /\ UNCHANGED <<vars, codecVars, sectionVars>>
       \/ subject = "parameters" /\ CodecNext /\ UNCHANGED <<vars, assemblyVars, sectionVars>>
       \/ subject = "sections" /\ SectionNext /\ UNCHANGED <<vars, assemblyVars, codecVars>>

MCSpec == MCInit /\ [][MCNext]_allVars

=============================================================================
