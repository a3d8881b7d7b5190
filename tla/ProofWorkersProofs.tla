-------------------------- MODULE ProofWorkersProofs --------------------------
(***************************************************************************)
(* That a slot admits one parser at a time, and is taken just as long, for *)
(* any number of threads, kinds of proof and calls.                        *)
(*                                                                         *)
(* The invariant says who holds a slot: the call whose thread is about to  *)
(* start a worker, or whose parser is at work.  The last section joins the *)
(* history's theorems and these for the specification that the instances   *)
(* in MCThreads are of.                                                    *)
(***************************************************************************)
EXTENDS MCThreads, HistoryWriterProofs

Holds(n) == parser[n] = "parsing" \/ \E c \in Callers : at[c] = "spawn" /\ call[c] = n

\* A worker exists once its thread has started it.
Stages ==
    /\ \A c \in Callers : at[c] = "spawn" => parser[call[c]] = "none"
    /\ \A n \in Calls : n > calls => parser[n] = "none"

\* A slot is taken when a call of its kind holds it, and one call does.
SlotsHeld ==
    /\ \A m, n \in Calls : Holds(m) /\ Holds(n) /\ kind[m] = kind[n] /\ kind[m] \in Slotted => m = n
    /\ \A k \in taken : \E n \in Calls : Holds(n) /\ kind[n] = k
    /\ \A n \in Calls : Holds(n) /\ kind[n] \in Slotted => kind[n] \in taken

ProofInv == ProofTypeOK /\ Stages /\ SlotsHeld

--------------------------------------------------------------------------------
\* The invariant holds before the first proof.
LEMMA ProofInitInv == ProofInit => ProofInv
BY KindsAssumption, MaxCallsAssumption
   DEF ProofInit, ProofInv, ProofTypeOK, Stages, SlotsHeld, Holds, Calls, Kinds

\* A call under way has a number, and the next call's is new.
LEMMA CallNumbers ==
    ASSUME ProofTypeOK
    PROVE  /\ \A c \in Callers : at[c] # "idle" => call[c] \in Calls /\ call[c] <= calls
           /\ \A n \in Calls : n <= calls => kind[n] \in Kinds
           /\ calls < MaxCalls => calls + 1 \in Calls /\ kind[calls + 1] = "none"
BY KindsAssumption, MaxCallsAssumption DEF ProofTypeOK, Calls, Kinds

\* Taking a slot: by a call whose kind has it free.
LEMMA ClaimKeeps ==
    ASSUME NEW c \in Callers, NEW k \in Kinds, ProofInv, Claim(c, k)
    PROVE  ProofInv'
<1> USE DEF ProofInv
<1>1. /\ calls + 1 \in Calls /\ kind[calls + 1] = "none" /\ calls < MaxCalls
      /\ \A d \in Callers : at[d] # "idle" => call[d] \in Calls /\ call[d] <= calls
  BY CallNumbers DEF Claim
<1>2. calls \in Nat /\ calls' = calls + 1 /\ \A d \in Callers : call[d] \in 0..calls
  BY DEF Claim, ProofTypeOK
<1>3. CASE k \in Slotted /\ UNCHANGED <<at, call, taken>>
  <2>1. ProofTypeOK'
    BY <1>1, <1>2, <1>3, KindsAssumption DEF ProofTypeOK, Claim, Kinds, Calls
  <2>2. \A n \in Calls : (Holds(n)' <=> Holds(n)) /\ (Holds(n) => n <= calls)
    BY <1>1, <1>2, <1>3 DEF Holds, Claim, Stages, Calls
  <2>3. Stages'
    BY <1>1, <1>2, <1>3 DEF Stages, Claim, ProofTypeOK, Calls
  <2>4. SlotsHeld'
    BY <1>1, <1>2, <1>3, <2>2 DEF SlotsHeld, Claim, ProofTypeOK, Calls
  <2> QED BY <2>1, <2>3, <2>4
<1>4. CASE /\ k \notin taken /\ taken' = taken \cup ({k} \cap Slotted)
           /\ at' = [at EXCEPT ![c] = "spawn"] /\ call' = [call EXCEPT ![c] = calls + 1]
  <2>1. ProofTypeOK'
    BY <1>1, <1>2, <1>4, KindsAssumption DEF ProofTypeOK, Claim, Kinds, Calls
  <2>2. \A n \in Calls : (Holds(n)' <=> Holds(n) \/ n = calls + 1) /\ (Holds(n) => n <= calls)
    BY <1>1, <1>2, <1>4 DEF Holds, Claim, Stages, Calls, ProofTypeOK
  <2>3. Stages'
    BY <1>1, <1>2, <1>4 DEF Stages, Claim, ProofTypeOK, Calls
  <2>4. \A n \in Calls : kind'[n] = IF n = calls + 1 THEN k ELSE kind[n]
    BY <1>1 DEF Claim, ProofTypeOK
  <2>5. \A n \in Calls : Holds(n) => kind[n] # k \/ k \notin Slotted
    BY <1>4 DEF SlotsHeld
  <2>6. SlotsHeld'
    BY <1>1, <1>2, <1>4, <2>2, <2>4, <2>5 DEF SlotsHeld, Calls
  <2> QED BY <2>1, <2>3, <2>6
<1> QED BY <1>3, <1>4 DEF Claim

\* Giving one back: the call that held it holds nothing any more.
LEMMA GivenBack ==
    ASSUME ProofInv, NEW n \in Calls, Holds(n), UNCHANGED kind, GiveBack(n),
           \A m \in Calls : Holds(m)' <=> Holds(m) /\ m # n
    PROVE  SlotsHeld' /\ taken' \subseteq Slotted
<1>1. \A k \in taken' : \E m \in Calls : Holds(m)' /\ kind'[m] = k
  BY DEF GiveBack, ProofInv, SlotsHeld
<1>2. \A m \in Calls : Holds(m)' /\ kind'[m] \in Slotted => kind'[m] \in taken'
  BY DEF GiveBack, ProofInv, SlotsHeld
<1> QED BY <1>1, <1>2 DEF GiveBack, ProofInv, SlotsHeld, ProofTypeOK

\* The worker takes the slot over, or it is given back.
LEMMA SpawnKeeps ==
    ASSUME NEW c \in Callers, ProofInv, Spawn(c)
    PROVE  ProofInv'
<1> USE DEF ProofInv
<1>1. call[c] \in Calls /\ call[c] <= calls /\ at[c] = "spawn" /\ calls \in Nat
  BY CallNumbers DEF Spawn, ProofTypeOK
<1>2. \A d \in Callers : d # c /\ at[d] # "idle" => call[d] # call[c]
  BY <1>1 DEF ProofTypeOK
<1>3. CASE /\ at' = [at EXCEPT ![c] = "wait"]
           /\ parser' = [parser EXCEPT ![call[c]] = "parsing"]
           /\ UNCHANGED <<call, spent, taken>>
  <2>1. ProofTypeOK'
    BY <1>1, <1>3 DEF ProofTypeOK, Spawn
  <2>2. \A n \in Calls : Holds(n)' <=> Holds(n)
    BY <1>1, <1>2, <1>3 DEF Holds, ProofTypeOK
  <2>3. Stages'
    BY <1>1, <1>2, <1>3 DEF Stages, Spawn, ProofTypeOK, Calls
  <2>4. SlotsHeld'
    BY <1>3, <2>2 DEF SlotsHeld, Spawn
  <2> QED BY <2>1, <2>3, <2>4
<1>4. CASE Returns(c) /\ GiveBack(call[c]) /\ UNCHANGED parser
  <2>1. \A n \in Calls : Holds(n)' <=> Holds(n) /\ n # call[c]
    BY <1>1, <1>2, <1>4 DEF Holds, Returns, ProofTypeOK, Stages
  <2>2. SlotsHeld' /\ taken' \subseteq Slotted
    BY <1>1, <1>4, <2>1, GivenBack DEF Spawn, Holds
  <2>3. ProofTypeOK'
    BY <1>1, <1>2, <1>4, <2>2 DEF ProofTypeOK, Spawn, Returns
  <2>4. Stages'
    BY <1>1, <1>2, <1>4 DEF Stages, Spawn, Returns, ProofTypeOK, Calls
  <2> QED BY <2>2, <2>3, <2>4
<1> QED BY <1>3, <1>4 DEF Spawn

\* A thread that returns from its wait leaves the parser as it is.
LEMMA ReturnKeeps ==
    ASSUME NEW c \in Callers, ProofInv, at[c] = "wait",
           Returns(c), UNCHANGED <<calls, kind, parser, taken>>
    PROVE  ProofInv'
<1> USE DEF ProofInv
<1>1. call[c] \in Calls /\ call[c] <= calls /\ calls \in Nat
  BY CallNumbers DEF ProofTypeOK
<1>2. \A d \in Callers : d # c /\ at[d] # "idle" => call[d] # call[c]
  BY <1>1 DEF ProofTypeOK
<1>3. \A n \in Calls : Holds(n)' <=> Holds(n)
  BY <1>1, <1>2 DEF Holds, Returns, ProofTypeOK
<1>4. ProofTypeOK'
  BY <1>1, <1>2 DEF ProofTypeOK, Returns
<1>5. Stages'
  BY <1>1, <1>2 DEF Stages, Returns, ProofTypeOK, Calls
<1>6. SlotsHeld'
  BY <1>3 DEF SlotsHeld
<1> QED BY <1>4, <1>5, <1>6

\* A parser that ends gives its slot back, and one that delivers has none.
LEMMA ParserKeeps ==
    ASSUME NEW n \in Calls, ProofInv, Parser(n)
    PROVE  ProofInv'
<1> USE DEF ProofInv
<1>1. CASE Parsed(n) \/ Unwind(n)
  <2>1. n <= calls /\ \A d \in Callers : ~(at[d] = "spawn" /\ call[d] = n)
    BY <1>1 DEF Parsed, Unwind, Stages, ProofTypeOK, Calls
  <2>2. \A m \in Calls : Holds(m)' <=> Holds(m) /\ m # n
    BY <1>1, <2>1 DEF Parsed, Unwind, Holds, ProofTypeOK
  <2>3. SlotsHeld' /\ taken' \subseteq Slotted
    BY <1>1, <2>2, GivenBack DEF Parsed, Unwind, Holds
  <2>4. ProofTypeOK'
    BY <1>1, <2>3 DEF ProofTypeOK, Parsed, Unwind
  <2>5. /\ UNCHANGED <<at, call, calls>>
        /\ \A m \in Calls : m # n => parser'[m] = parser[m]
    BY <1>1 DEF Parsed, Unwind, ProofTypeOK
  <2>6. Stages'
    <3>1. \A c \in Callers : at[c] = "spawn" => call[c] \in Calls /\ call[c] # n
      BY <2>1, CallNumbers
    <3>2. calls \in Nat /\ n \in Nat /\ Calls \subseteq Nat
      BY DEF ProofTypeOK, Calls
    <3>3. \A c \in Callers : at'[c] = "spawn" => parser'[call'[c]] = "none"
      BY <2>5, <3>1 DEF Stages
    <3>4. \A m \in Calls : m > calls' => parser'[m] = "none"
      BY <2>1, <2>5, <3>2 DEF Stages
    <3> QED BY <2>5, <3>3, <3>4 DEF Stages
  <2> QED BY <2>3, <2>4, <2>6
<1>2. CASE Deliver(n)
  <2>1. \A m \in Calls : Holds(m)' <=> Holds(m)
    BY <1>2 DEF Deliver, Holds, ProofTypeOK
  <2>2. ProofTypeOK' /\ Stages'
    BY <1>2 DEF Deliver, Stages, ProofTypeOK, Calls
  <2>3. SlotsHeld'
    BY <1>2, <2>1 DEF Deliver, SlotsHeld
  <2> QED BY <2>2, <2>3
<1> QED BY <1>1, <1>2 DEF Parser

\* Every step keeps the invariant.
LEMMA ProofStepInv == ProofInv /\ [ProofNext]_proofVars => ProofInv'
<1> SUFFICES ASSUME ProofInv, [ProofNext]_proofVars PROVE ProofInv' OBVIOUS
<1>1. ASSUME NEW c \in Callers, Caller(c) PROVE ProofInv'
  <2>1. CASE \E k \in Kinds : Claim(c, k)
    BY <2>1, ClaimKeeps
  <2>2. CASE Spawn(c)
    BY <2>2, SpawnKeeps
  <2>3. CASE Spend(c)
    BY <2>3 DEF Spend, ProofInv, ProofTypeOK, Stages, SlotsHeld, Holds
  <2>4. CASE Take(c) \/ GiveUp(c)
    <3>1. at[c] = "wait" /\ Returns(c) /\ UNCHANGED <<calls, kind, parser, taken>>
      BY <2>4 DEF Take, GiveUp
    <3> QED BY <3>1, ReturnKeeps
  <2> QED BY <1>1, <2>1, <2>2, <2>3, <2>4 DEF Caller
<1>2. ASSUME NEW n \in Calls, Parser(n) PROVE ProofInv'
  BY <1>2, ParserKeeps
<1>3. CASE UNCHANGED proofVars
  BY <1>3 DEF proofVars, ProofInv, ProofTypeOK, Stages, SlotsHeld, Holds
<1> QED BY <1>1, <1>2, <1>3 DEF ProofNext

LEMMA ProofInvariant == ProofSpec => []ProofInv
BY ProofInitInv, ProofStepInv, PTL DEF ProofSpec

--------------------------------------------------------------------------------
\* Every variable keeps to its type, and two threads are never in one call.
THEOREM WorkersTypeCorrect == ProofSpec => []ProofTypeOK
<1>1. ProofInv => ProofTypeOK
  BY DEF ProofInv
<1> QED BY <1>1, ProofInvariant, PTL

LEMMA ProofInvKeepsOne == ProofInv => OneParser
<1> SUFFICES ASSUME ProofInv, NEW k \in Slotted
             PROVE  /\ \A m, n \in Parsing(k) \cup Starting(k) : m = n
                    /\ k \in taken <=> Parsing(k) \cup Starting(k) # {}
  BY DEF OneParser
<1>1. ASSUME NEW n
      PROVE  n \in Parsing(k) \cup Starting(k) <=> n \in Calls /\ Holds(n) /\ kind[n] = k
  BY DEF Parsing, Starting, Holds
<1>2. \A m, n \in Parsing(k) \cup Starting(k) : m = n
  BY <1>1 DEF ProofInv, SlotsHeld
<1>3. k \in taken <=> \E n \in Calls : Holds(n) /\ kind[n] = k
  BY DEF ProofInv, SlotsHeld
<1> QED BY <1>1, <1>2, <1>3

\* "At most one parser may outlive its optional documentation proof"
\* (evaluator.rs:15082): of each kind with a slot one parser is alive at most,
\* and the slot is taken just as long, for any number of threads and calls.
THEOREM OneParserPerSlot == ProofSpec => []OneParser
BY ProofInvKeepsOne, ProofInvariant, PTL

--------------------------------------------------------------------------------
(* Both sets of threads in one process *)

ThreadsInv == TypeInv /\ BarrierInv /\ AccountInv /\ ProofInv

\* A step of the process is one of the writer or one of the parsers, and the
\* others stay where they are.
LEMMA ThreadsStep == [ThreadsNext]_allVars => [Next]_vars /\ [ProofNext]_proofVars
BY DEF ThreadsNext, allVars

\* With both at work in one process, each keeps its types and its promises: a
\* flush is a barrier, rows are accounted for, a slot admits one parser.
THEOREM ThreadsCorrect == ThreadsSpec => [](TypesOK /\ FlushIsBarrier /\ RowsAccounted /\ OneParser)
<1>1. HistoryInit \/ ParsersInit => ThreadsInv
  BY InitType, BarrierInit, AccountInit, ProofInitInv DEF HistoryInit, ParsersInit, ThreadsInv
<1>2. ThreadsInv /\ [ThreadsNext]_allVars => ThreadsInv'
  BY ThreadsStep, TypeStep, BarrierStep, AccountStep, ProofStepInv DEF ThreadsInv
<1>3. ThreadsInv => TypesOK /\ FlushIsBarrier /\ RowsAccounted
  BY DEF ThreadsInv, TypesOK, TypeInv, BarrierInv, ProofInv, AccountInv, OrderInv, LossInv, RowsAccounted, Quiet
<1>4. ThreadsInv => OneParser
  BY ProofInvKeepsOne DEF ThreadsInv
<1> QED BY <1>1, <1>2, <1>3, <1>4, PTL DEF ThreadsSpec
================================================================================
