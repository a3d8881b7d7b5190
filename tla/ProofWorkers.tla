----------------------------- MODULE ProofWorkers -----------------------------
(***************************************************************************)
(* The threads that parse parts of a command line for one evaluation       *)
(* thread, which waits for each at most until a time budget is spent.      *)
(*                                                                         *)
(* A parser cannot be stopped, so one that misses its budget is left       *)
(* behind.  Three of the four kinds of proof have a slot in the process,   *)
(* which the thread claims and its worker gives back once nothing of the   *)
(* parse is left; a proof whose slot is taken is not attempted.  A proof   *)
(* not made leaves the line to the coarser scan.                           *)
(***************************************************************************)
EXTENDS Naturals, FiniteSets

CONSTANTS
    Callers,    \* evaluation threads
    Slotted, Free,  \* kinds of proof: with a slot, without
    MaxCalls    \* bound: proofs attempted

ASSUME KindsAssumption == Slotted \cap Free = {} /\ "none" \notin Slotted \cup Free
ASSUME MaxCallsAssumption == MaxCalls \in Nat

VARIABLES
    at, call,       \* where each caller is, in which call
    spent,          \* its budget is spent
    calls, kind,    \* number of calls, and their kinds
    parser,         \* where the worker of each call is
    taken           \* the slots taken

proofVars == <<at, call, spent, calls, kind, parser, taken>>

Kinds == Slotted \cup Free
Calls == 1..MaxCalls

ProofInit ==
    /\ at = [c \in Callers |-> "idle"] /\ call = [c \in Callers |-> 0]
    /\ spent = [c \in Callers |-> FALSE]
    /\ calls = 0 /\ kind = [n \in Calls |-> "none"] /\ parser = [n \in Calls |-> "none"]
    /\ taken = {}

GiveBack(n) == taken' = taken \ {kind[n]}
Returns(c) ==
    /\ at' = [at EXCEPT ![c] = "idle"]
    /\ call' = [call EXCEPT ![c] = 0] /\ spent' = [spent EXCEPT ![c] = FALSE]

--------------------------------------------------------------------------------
(* The caller *)

\* A budget spent already or a taken slot ends the call at once.
Claim(c, k) ==
    /\ at[c] = "idle" /\ calls < MaxCalls /\ calls' = calls + 1
    /\ kind' = [kind EXCEPT ![calls + 1] = k]
    /\ \/ k \in Slotted /\ UNCHANGED <<at, call, taken>>
       \/ /\ k \notin taken
          /\ taken' = taken \cup ({k} \cap Slotted)
          /\ at' = [at EXCEPT ![c] = "spawn"] /\ call' = [call EXCEPT ![c] = calls + 1]
    /\ UNCHANGED <<spent, parser>>

\* The worker takes over the slot; one that cannot be started gives it back.
Spawn(c) ==
    /\ at[c] = "spawn"
    /\ \/ /\ at' = [at EXCEPT ![c] = "wait"]
          /\ parser' = [parser EXCEPT ![call[c]] = "parsing"]
          /\ UNCHANGED <<call, spent, taken>>
       \/ Returns(c) /\ GiveBack(call[c]) /\ UNCHANGED parser
    /\ UNCHANGED <<calls, kind>>

Spend(c) ==
    /\ at[c] \in {"spawn", "wait"} /\ ~spent[c]
    /\ spent' = [spent EXCEPT ![c] = TRUE]
    /\ UNCHANGED <<at, call, calls, kind, parser, taken>>

\* The result is in the channel (a worker that unwound leaves it closed), to be
\* used if the budget still lasts; the call is over.
Take(c) ==
    /\ at[c] = "wait"
    /\ parser[call[c]] \in {"sent", "unwound"} /\ Returns(c)
    /\ UNCHANGED <<calls, kind, parser, taken>>

\* Mutant: the slot is given back with the call.
GiveUpFreeing(c) ==
    /\ at[c] = "wait" /\ spent[c] /\ parser[call[c]] # "sent"
    /\ Returns(c) /\ GiveBack(call[c])
    /\ UNCHANGED <<calls, kind, parser>>
\* Mutant: the worker is joined.
GiveUpJoining(c) ==
    /\ at[c] = "wait" /\ spent[c] /\ parser[call[c]] = "parsed"
    /\ Returns(c)
    /\ UNCHANGED <<calls, kind, parser, taken>>
\* Nothing came in time: the worker is left behind, with its slot.
GiveUp(c) ==
    /\ at[c] = "wait" /\ spent[c] /\ parser[call[c]] # "sent"
    /\ Returns(c)
    /\ UNCHANGED <<calls, kind, parser, taken>>

--------------------------------------------------------------------------------
(* The worker of call n *)

\* Mutant: the slot is not given back.
ParsedHolding(n) ==
    /\ parser[n] = "parsing"
    /\ parser' = [parser EXCEPT ![n] = "parsed"]
    /\ UNCHANGED <<at, call, spent, calls, kind, taken>>
\* The parse is over and its memory freed; the slot is given back.
Parsed(n) ==
    /\ parser[n] = "parsing"
    /\ parser' = [parser EXCEPT ![n] = "parsed"] /\ GiveBack(n)
    /\ UNCHANGED <<at, call, spent, calls, kind>>

\* The channel has room: sending never waits, for nobody either.
Deliver(n) ==
    /\ parser[n] = "parsed"
    /\ parser' = [parser EXCEPT ![n] = "sent"]
    /\ UNCHANGED <<at, call, spent, calls, kind, taken>>

\* A parse that panics, in a build that unwinds (a release build aborts).
Unwind(n) ==
    /\ parser[n] = "parsing"
    /\ parser' = [parser EXCEPT ![n] = "unwound"] /\ GiveBack(n)
    /\ UNCHANGED <<at, call, spent, calls, kind>>

Caller(c) == (\E k \in Kinds : Claim(c, k)) \/ Spawn(c) \/ Spend(c) \/ Take(c) \/ GiveUp(c)
Parser(n) == Parsed(n) \/ Deliver(n) \/ Unwind(n)
ProofNext == (\E c \in Callers : Caller(c)) \/ (\E n \in Calls : Parser(n))

\* Time passes and the caller is scheduled; nothing is asked of a parser.
ProofFairness == \A c \in Callers : WF_proofVars(Spawn(c) \/ Spend(c) \/ Take(c) \/ GiveUp(c))
ProofSpec == ProofInit /\ [][ProofNext]_proofVars /\ ProofFairness

--------------------------------------------------------------------------------
(* Properties *)

ProofTypeOK ==
    /\ at \in [Callers -> {"idle", "spawn", "wait"}] /\ call \in [Callers -> 0..calls]
    /\ spent \in [Callers -> BOOLEAN] /\ calls \in 0..MaxCalls
    /\ kind \in [Calls -> Kinds \cup {"none"}] /\ taken \subseteq Slotted
    /\ parser \in [Calls -> {"none", "parsing", "parsed", "sent", "unwound"}]
    /\ \A n \in Calls : kind[n] \in Kinds <=> n <= calls
    /\ \A c, d \in Callers : (at[c] = "idle" <=> call[c] = 0) /\ (call[c] = call[d] => at[c] = "idle" \/ c = d)

Parsing(k) == {n \in Calls : kind[n] = k /\ parser[n] = "parsing"}
Starting(k) == {n \in Calls : kind[n] = k /\ \E c \in Callers : at[c] = "spawn" /\ call[c] = n}

\* "At most one parser may outlive its optional documentation proof"
\* (evaluator.rs:15082), and of each kind with a slot one at a time is alive,
\* whatever is late, fails or unwinds.  The slot is taken just as long, so that
\* after an answer "the next sequential proof does not spuriously observe busy"
\* (heredoc.rs:10053).
OneParser ==
    \A k \in Slotted :
        /\ \A m, n \in Parsing(k) \cup Starting(k) : m = n
        /\ k \in taken <=> Parsing(k) \cup Starting(k) # {}

\* The evaluation never waits for a parser that does not end: each proof
\* returns by itself, at the latest with its budget.
CallsReturn == \A c \in Callers : at[c] # "idle" ~> at[c] = "idle"
================================================================================
