------------------------------- MODULE MCThreads -------------------------------
(* The threads a process leaves working behind its back: the history writer's,
   and the parsers of optional proofs.  They share nothing; each behaviour is
   about one of the two. *)
EXTENDS HistoryWriter, ProofWorkers

VARIABLE part

HistoryInit == part = "history" /\ Init /\ ProofInit
ParsersInit == part = "parsers" /\ mode = (CHOOSE m \in Modes : TRUE) /\ Init /\ ProofInit

ThreadsNext ==
    \/ part = "history" /\ Next /\ UNCHANGED <<part, proofVars>>
    \/ part = "parsers" /\ ProofNext /\ UNCHANGED <<part, vars>>

allVars == <<part, vars, proofVars>>
Returning == part = "history" /\ DropReturns /\ UNCHANGED <<part, proofVars>>
Draining  == part = "history" /\ JoinedWorker /\ UNCHANGED <<part, proofVars>>
Calling(c) == part = "parsers" /\ (Spawn(c) \/ Spend(c) \/ Take(c) \/ GiveUp(c)) /\ UNCHANGED <<part, vars>>

\* The fairness of the two specifications, each where it applies.
ThreadsSpec ==
    /\ HistoryInit \/ ParsersInit
    /\ [][ThreadsNext]_allVars
    /\ WF_allVars(Returning) /\ WF_allVars(Draining)
    /\ \A c \in Callers : WF_allVars(Calling(c))

\* The types of both.
TypesOK == TypeOK /\ ProofTypeOK
================================================================================
