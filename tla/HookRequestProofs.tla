--------------------------- MODULE HookRequestProofs ---------------------------
(***************************************************************************)
(* What holds of a hook request whatever the batch, the host, the verdicts *)
(* and the interleaving of the threads.                                    *)
(***************************************************************************)
EXTENDS HookRequest, TLAPS

--------------------------------------------------------------------------------
(* Types *)

LEMMA BatchType == Batches \cup {<<>>} \subseteq Seq(Verdicts)
  <1>1. \A n \in 1..MaxBatch : [1..n -> Verdicts] \subseteq Seq(Verdicts)
    BY BatchAssumption, SMT
  <1>2. <<>> \in Seq(Verdicts)
    OBVIOUS
  <1> QED BY <1>1, <1>2 DEF Batches

LEMMA InitType == Init => TypeOK
  <1> SUFFICES ASSUME Init PROVE TypeOK
    OBVIOUS
  <1>1. req \in [host : Hosts, form : Forms, batch : Seq(Verdicts)]
    BY BatchType DEF Init
  <1>2. Len(req.batch) \in Nat
    BY <1>1
  <1>3. proto \in Protocols
    BY DEF Init, Detected
  <1>4. decisive \in DOMAIN Rank
    BY DEF Init, Rank
  <1>5. i \in 1..(Last + 1) /\ chosen \in 0..Last /\ judged \subseteq 1..Last
    BY <1>2 DEF Init, Last
  <1>6. rows \subseteq (0..Last) \X {"allow", "warn", "deny"}
    BY DEF Init
  <1>7. docs \in Seq([to : Protocols, says : {"deny", "ask", "proceed", "allow"}])
    BY DEF Init
  <1>8. exit \in {NotYet, 0, 1, 2, Aborted}
    BY DEF Init
  <1>9. {primaryRow, expired, claimed, hostReads} \subseteq BOOLEAN
    BY DEF Init
  <1>10. cfg \in [failClosed : BOOLEAN, denies : BOOLEAN, history : BOOLEAN]
    BY DEF Init
  <1> QED
    BY <1>1, <1>3, <1>4, <1>5, <1>6, <1>7, <1>8, <1>9, <1>10 DEF Init, TypeOK

(* The type invariant in parts, so that a step proves the ones it disturbs. *)
Constant ==
    /\ req \in [host : Hosts, form : Forms, batch : Seq(Verdicts)]
    /\ cfg \in [failClosed : BOOLEAN, denies : BOOLEAN, history : BOOLEAN]
Protected ==
    /\ proto \in Protocols /\ policy \in Protocols \cup {"off"} /\ held \in Protocols \cup {"off"}
    /\ fault \in {"none", "main", "worker"} /\ backstop \in {"idle", "claim", "write", "done"}
    \* the panic hook answers by a policy that was armed
    /\ fault = "none" => backstop = "idle"
    /\ backstop \in {"claim", "write"} => held # "off"
\* The scan is at an entry while it evaluates one, and what is to be published
\* is not an allow: what the types need of the control state.
Scanning ==
    /\ pc \in {"start", "read", "extract", "resolve", "evaluate", "allowed", "salvage", "window",
               "unparsed", "publish", "claim", "write", "audit", "explicit", "allowLine", "finish"}
    /\ i \in 1..(Last + 1) /\ chosen \in 0..Last
    /\ decisive \in {"allow", "warn", "ask", "oversized", "unverified", "deny"}
    /\ pc \in {"evaluate", "window"} => i <= Last
    /\ pc \in {"publish", "claim", "write", "audit"} => decisive # "allow"
Flags ==
    /\ primaryRow \in BOOLEAN /\ expired \in BOOLEAN /\ claimed \in BOOLEAN /\ hostReads \in BOOLEAN
    /\ primaryRow => 1 <= Last
Statuses ==
    /\ status \in {0, 1, 2} /\ exit \in {NotYet, 0, 1, 2, Aborted}
Words == {"deny", "ask", "proceed", "allow"}
Documents == [to : Protocols, says : Words]
Output == docs \in Seq(Documents)
Trail ==
    /\ rows \subseteq (0..Last) \X {"allow", "warn", "deny"}
    /\ judged \subseteq 1..Last
TypeInv ==
    Constant /\ Protected /\ Scanning /\ Flags /\ Statuses /\ Output /\ Trail

LEMMA Ranks ==
    /\ DOMAIN Rank = {"allow", "warn", "ask", "oversized", "unverified", "deny"}
    /\ Rank["allow"] = 0 /\ Rank["warn"] = 1 /\ Rank["ask"] = 2
    /\ Rank["oversized"] = 3 /\ Rank["unverified"] = 3 /\ Rank["deny"] = 4
  BY DEF Rank

LEMMA TypeInvImplies == TypeInv => TypeOK
  BY Ranks DEF TypeInv, TypeOK, Constant, Protected, Scanning, Flags, Statuses, Output, Trail, Documents,
     Words

LEMMA LastNat == ASSUME Constant PROVE Last \in Nat
  BY DEF Constant, Last

LEMMA ProtoType == ASSUME Constant PROVE Proto(req.host) \in Protocols
  <1>1. req.host \in Protocols \cup {"opencode"}
    BY InputsAssumption DEF Constant, AllHosts
  <1> QED BY <1>1 DEF Proto, Protocols

LEMMA RowType ==
    ASSUME Trail, NEW k \in 0..Last, NEW o \in {"allow", "warn", "deny"}
    PROVE  rows \cup Row(k, o) \subseteq (0..Last) \X {"allow", "warn", "deny"}
  BY DEF Trail, Row

LEMMA WrittenType ==
    ASSUME Output, NEW p \in Protocols, NEW d \in Words \cup {Silent}
    PROVE  Written(p, d) \in Seq(Documents)
  <1>1. d # Silent => [to |-> p, says |-> d] \in Documents
    BY DEF Documents
  <1> QED BY <1>1 DEF Output, Written

LEMMA DocType ==
    ASSUME NEW p, NEW o \in {"deny", "ask", "warn", "oversized", "unverified"}, NEW d
    PROVE  Doc(p, o, d) \in Words \cup {Silent}
  BY DEF Doc, DenyDoc, ReviewDoc, UnverifiedDoc, WarnDoc, Asks, Silent, Words

LEMMA StatusType ==
    ASSUME NEW p, NEW o, NEW d PROVE StatusOf(p, o, d) \in {0, 1, 2}
  BY DEF StatusOf

\* An outcome entering the selection keeps the selection well formed.
LEMMA CollectType ==
    ASSUME Constant, Scanning, Flags, i <= Last, Last' = Last,
           NEW o \in {"allow", "warn", "ask", "oversized", "unverified", "deny"},
           NEW row \in BOOLEAN, Collect(o, row)
    PROVE  Scanning' /\ primaryRow' \in BOOLEAN /\ (primaryRow' => 1 <= Last)
  <1>1. Last \in Nat
    BY LastNat
  <1>2. primaryRow' \in BOOLEAN /\ (primaryRow' => 1 <= Last)
    BY <1>1 DEF Flags, Scanning, Collect
  <1>3. /\ decisive' \in {"allow", "warn", "ask", "oversized", "unverified", "deny"}
        /\ chosen' \in 0..Last
    BY <1>1 DEF Scanning, Collect, choice
  <1>4. i' \in 1..(Last + 1) /\ pc' \in {"publish", "resolve"}
    BY <1>1 DEF Scanning, Collect, Goto
  <1>5. pc' = "publish" => decisive' # "allow"
    <2>1. CASE o \in {"deny", "unverified"}
      <3>1. CASE decisive = "allow"
        BY <2>1, <3>1, Ranks DEF Collect
      <3>2. CASE decisive # "allow"
        BY <2>1, <3>2 DEF Collect, choice
      <3> QED BY <3>1, <3>2
    <2>2. CASE o \notin {"deny", "unverified"}
      BY <2>2 DEF Collect, Goto
    <2> QED BY <2>1, <2>2
  <1> QED BY <1>2, <1>3, <1>4, <1>5 DEF Scanning

\* Who sent the request, and what was asked, never changes.
LEMMA SetupFixed == [Next]_vars => UNCHANGED setup
  BY DEF Next, Main, Backstop, vars, setup, Configure, Read, Extract, Begin, Evaluate, EndBatch, Allowed,
         Salvage, Window, EndSalvage, Unparsed, Publish, Claim, Write, Audit, ExplicitClaim,
         ExplicitWrite, Finish, BackstopClaim, BackstopWrite, Panic, Expire, HostCloses

LEMMA TypeStep == TypeInv /\ [Next]_vars => TypeInv'
  <1> SUFFICES ASSUME TypeInv, [Next]_vars PROVE TypeInv'
    OBVIOUS
  <1> USE DEF choice, panics, output, record, Goto, At
  <1>1. Constant /\ Protected /\ Scanning /\ Flags /\ Statuses /\ Output /\ Trail
    BY DEF TypeInv
  <1>2. Constant' /\ Last' = Last /\ Last \in Nat
    BY <1>1, SetupFixed, LastNat DEF setup, Constant, Last
  <1>3. CASE UNCHANGED vars
    BY <1>1, <1>2, <1>3 DEF TypeInv, vars, Protected, Scanning, Flags, Statuses, Output, Trail
  <1>4. CASE Configure
    <2>1. Flags' /\ Statuses' /\ Output' /\ Trail'
      BY <1>1, <1>2, <1>4 DEF Configure, Flags, Statuses, Output, Trail
    <2>2. Protected'
      BY <1>1, <1>2, <1>4 DEF Configure, Protected, Constant
    <2>3. Scanning'
      BY <1>1, <1>2, <1>4 DEF Configure, Scanning
    <2> QED BY <1>2, <2>1, <2>2, <2>3 DEF TypeInv
  <1>5. CASE Read
    <2>1. Flags' /\ Statuses' /\ Output' /\ Trail'
      BY <1>1, <1>2, <1>5 DEF Read, Flags, Statuses, Output, Trail
    <2>2. Protected'
      BY <1>1, <1>2, <1>5, ProtoType DEF Read, Salvaged, Proto, Protected, Constant
    <2>3. Scanning'
      BY <1>1, <1>2, <1>5 DEF Read, Scanning
    <2> QED BY <1>2, <2>1, <2>2, <2>3 DEF TypeInv
  <1>6. CASE Extract
    <2>1. Flags' /\ Statuses' /\ Output' /\ Trail'
      BY <1>1, <1>2, <1>6 DEF Extract, Flags, Statuses, Output, Trail
    <2>2. Protected'
      BY <1>1, <1>2, <1>6, ProtoType DEF Extract, Protected, Constant
    <2>3. Scanning'
      <3>1. i' = i /\ pc' \in {"explicit", "finish", "claim", "resolve"}
        BY <1>6 DEF Extract
      <3>2. CASE UNCHANGED choice /\ pc' # "claim"
        BY <1>1, <1>2, <3>1, <3>2 DEF Scanning
      <3>3. CASE req.batch = <<"oversized">> /\ decisive' = "oversized" /\ chosen' = 1
        <4>1. Last = 1
          BY <3>3 DEF Last
        <4> QED BY <1>1, <1>2, <3>1, <3>3, <4>1 DEF Scanning
      <3> QED BY <1>6, <3>2, <3>3 DEF Extract
    <2> QED BY <1>2, <2>1, <2>2, <2>3 DEF TypeInv
  <1>7. CASE Begin
    <2>1. Protected' /\ Statuses' /\ Output' /\ Trail'
      BY <1>1, <1>2, <1>7 DEF Begin, Protected, Statuses, Output, Trail
    <2>2. Scanning'
      BY <1>1, <1>2, <1>7, CollectType DEF Begin, Scanning
    <2>3. Flags'
      BY <1>1, <1>2, <1>7, CollectType DEF Begin, Flags
    <2> QED BY <1>2, <2>1, <2>2, <2>3 DEF TypeInv
  <1>8. CASE Evaluate
    <2>1. Protected' /\ Statuses' /\ Output'
      BY <1>1, <1>2, <1>8 DEF Evaluate, Protected, Statuses, Output
    <2>2. Scanning' /\ primaryRow' \in BOOLEAN /\ (primaryRow' => 1 <= Last)
      <3>1. i <= Last
        BY <1>1, <1>8 DEF Evaluate, Scanning
      <3> DEFINE v == req.batch[i]
      <3>2. Outcome(v) \in {"allow", "warn", "ask", "deny"} /\ (v \in {"allow", "granted"}) \in BOOLEAN
        BY DEF Outcome
      <3>3. CASE Collect("unverified", FALSE)
        BY <1>1, <1>2, <3>1, <3>3, CollectType
      <3>4. CASE Collect(Outcome(v), v \in {"allow", "granted"})
        <4> HIDE DEF v
        <4> QED BY <1>1, <1>2, <3>1, <3>2, <3>4, CollectType
      <3> QED BY <1>8, <3>3, <3>4 DEF Evaluate
    <2>3. Flags'
      BY <1>1, <1>2, <1>8, <2>2 DEF Evaluate, Flags
    <2>4. Trail'
      <3>1. i \in 1..Last
        BY <1>1, <1>2, <1>8 DEF Evaluate, Scanning
      <3>2. rows' \subseteq rows \cup Row(i, "allow") /\ judged' \subseteq judged \cup {i}
        BY <1>8 DEF Evaluate, Judge
      <3> QED BY <1>1, <1>2, <3>1, <3>2, RowType DEF Trail
    <2> QED BY <1>2, <2>1, <2>2, <2>3, <2>4 DEF TypeInv
  <1>9. CASE EndBatch
    <2>1. Flags' /\ Statuses' /\ Output' /\ Trail'
      BY <1>1, <1>2, <1>9 DEF EndBatch, Flags, Statuses, Output, Trail
    <2>2. Protected'
      BY <1>1, <1>2, <1>9 DEF EndBatch, Protected
    <2>3. Scanning'
      BY <1>1, <1>2, <1>9 DEF EndBatch, Scanning
    <2> QED BY <1>2, <2>1, <2>2, <2>3 DEF TypeInv
  <1>10. CASE Allowed
    <2>1. Protected' /\ Flags' /\ Statuses' /\ Output'
      BY <1>1, <1>2, <1>10 DEF Allowed, Protected, Flags, Statuses, Output
    <2>2. Scanning'
      BY <1>1, <1>2, <1>10 DEF Allowed, Scanning
    <2>3. Trail'
      <3>1. CASE primaryRow
        BY <1>1, <1>2, <1>10, <3>1, RowType DEF Allowed, Flags, Trail
      <3>2. CASE ~primaryRow
        BY <1>1, <1>2, <1>10, <3>2 DEF Allowed, Trail
      <3> QED BY <3>1, <3>2
    <2> QED BY <1>2, <2>1, <2>2, <2>3 DEF TypeInv
  <1>11. CASE Salvage
    <2>1. Protected' /\ Flags' /\ Statuses' /\ Output'
      BY <1>1, <1>2, <1>11 DEF Salvage, Protected, Flags, Statuses, Output
    <2>2. Scanning'
      BY <1>1, <1>2, <1>11 DEF Salvage, Scanning
    <2>3. Trail'
      <3>1. i \in 1..Last
        BY <1>1, <1>2, <1>11 DEF Salvage, Scanning
      <3>2. rows' = rows /\ judged' \subseteq judged \cup {i}
        BY <1>11 DEF Salvage
      <3> QED BY <1>1, <1>2, <3>1, <3>2 DEF Trail
    <2> QED BY <1>2, <2>1, <2>2, <2>3 DEF TypeInv
  <1>12. CASE Window
    <2>1. Protected' /\ Flags' /\ Statuses' /\ Output'
      BY <1>1, <1>2, <1>12 DEF Window, Protected, Flags, Statuses, Output
    <2>2. Scanning'
      <3>1. i \in 1..Last
        BY <1>1, <1>2, <1>12 DEF Window, Scanning
      <3>2. CASE pc' = "salvage" /\ i' = i + 1 /\ UNCHANGED choice
        BY <1>1, <1>2, <3>1, <3>2 DEF Scanning
      <3>3. CASE pc' = "publish" /\ i' = i /\ decisive' \in {"ask", "deny"} /\ chosen' = i
        BY <1>1, <1>2, <3>1, <3>3 DEF Scanning
      <3> QED BY <1>12, <3>2, <3>3 DEF Window
    <2>3. Trail'
      <3>1. i \in 1..Last
        BY <1>1, <1>2, <1>12 DEF Window, Scanning
      <3>2. rows' = rows /\ judged' \subseteq judged \cup {i}
        BY <1>12 DEF Window, Judge
      <3> QED BY <1>1, <1>2, <3>1, <3>2 DEF Trail
    <2> QED BY <1>2, <2>1, <2>2, <2>3 DEF TypeInv
  <1>13. CASE EndSalvage
    <2>1. Protected' /\ Flags' /\ Statuses' /\ Output' /\ Trail'
      BY <1>1, <1>2, <1>13 DEF EndSalvage, Protected, Flags, Statuses, Output, Trail
    <2>2. Scanning'
      BY <1>1, <1>2, <1>13 DEF EndSalvage, Scanning
    <2> QED BY <1>2, <2>1, <2>2 DEF TypeInv
  <1>14. CASE Unparsed
    <2>1. Protected' /\ Flags' /\ Statuses' /\ Output'
      BY <1>1, <1>2, <1>14 DEF Unparsed, Protected, Flags, Statuses, Output
    <2>2. Scanning'
      BY <1>1, <1>2, <1>14 DEF Unparsed, Scanning
    <2>3. Trail'
      BY <1>1, <1>2, <1>14, RowType DEF Unparsed, Trail
    <2> QED BY <1>2, <2>1, <2>2, <2>3 DEF TypeInv
  <1>15. CASE Publish
    <2>1. Protected' /\ Flags' /\ Statuses' /\ Output'
      BY <1>1, <1>2, <1>15 DEF Publish, Protected, Flags, Statuses, Output
    <2>2. Scanning'
      BY <1>1, <1>2, <1>15 DEF Publish, Scanning
    <2>3. Trail'
      BY <1>1, <1>2, <1>15, RowType DEF Publish, Trail, Scanning
    <2> QED BY <1>2, <2>1, <2>2, <2>3 DEF TypeInv
  <1>16. CASE Claim
    <2>1. Protected' /\ Output' /\ Trail'
      BY <1>1, <1>2, <1>16 DEF Claim, Protected, Output, Trail
    <2>2. Scanning'
      BY <1>1, <1>2, <1>16 DEF Claim, Scanning
    <2>3. Flags'
      BY <1>1, <1>2, <1>16 DEF Claim, Flags
    <2>4. Statuses'
      BY <1>1, <1>2, <1>16, StatusType DEF Claim, Statuses
    <2> QED BY <1>2, <2>1, <2>2, <2>3, <2>4 DEF TypeInv
  <1>17. CASE Write
    <2>1. Protected' /\ Flags' /\ Trail'
      BY <1>1, <1>2, <1>17 DEF Write, Protected, Flags, Trail
    <2>2. Scanning'
      BY <1>1, <1>2, <1>17 DEF Write, Scanning
    <2>3. Statuses'
      BY <1>1, <1>2, <1>17, StatusType DEF Write, Statuses
    <2>4. Output'
      <3>1. Doc(proto, decisive, cfg.denies) \in Words \cup {Silent}
        BY <1>1, <1>17, DocType DEF Write, Scanning
      <3> QED BY <1>1, <1>17, <3>1, WrittenType DEF Write, Output, Protected
    <2> QED BY <1>2, <2>1, <2>2, <2>3, <2>4 DEF TypeInv
  <1>18. CASE Audit
    <2>1. Protected' /\ Flags' /\ Statuses' /\ Output'
      BY <1>1, <1>2, <1>18 DEF Audit, Protected, Flags, Statuses, Output
    <2>2. Scanning'
      BY <1>1, <1>2, <1>18 DEF Audit, Scanning
    <2>3. Trail'
      BY <1>1, <1>2, <1>18, RowType DEF Audit, Trail, Scanning
    <2> QED BY <1>2, <2>1, <2>2, <2>3 DEF TypeInv
  <1>19. CASE ExplicitClaim
    <2>1. Protected' /\ Statuses' /\ Output' /\ Trail'
      BY <1>1, <1>2, <1>19 DEF ExplicitClaim, Protected, Statuses, Output, Trail
    <2>2. Scanning'
      BY <1>1, <1>2, <1>19 DEF ExplicitClaim, Scanning
    <2>3. Flags'
      BY <1>1, <1>2, <1>19 DEF ExplicitClaim, Flags
    <2> QED BY <1>2, <2>1, <2>2, <2>3 DEF TypeInv
  <1>20. CASE ExplicitWrite
    <2>1. Protected' /\ Flags' /\ Statuses' /\ Trail'
      BY <1>1, <1>2, <1>20 DEF ExplicitWrite, Protected, Flags, Statuses, Trail
    <2>2. Scanning'
      BY <1>1, <1>2, <1>20 DEF ExplicitWrite, Scanning
    <2>3. Output'
      BY <1>1, <1>2, <1>20, ProtoType, WrittenType DEF ExplicitWrite, Output, Words
    <2> QED BY <1>2, <2>1, <2>2, <2>3 DEF TypeInv
  <1>21. CASE Finish
    <2>1. Protected' /\ Scanning' /\ Flags' /\ Output' /\ Trail'
      BY <1>1, <1>2, <1>21 DEF Finish, Protected, Scanning, Flags, Output, Trail
    <2>2. Statuses'
      BY <1>1, <1>2, <1>21 DEF Finish, Statuses
    <2> QED BY <1>2, <2>1, <2>2 DEF TypeInv
  <1>22. CASE BackstopClaim
    <2>1. Scanning' /\ Output' /\ Trail'
      BY <1>1, <1>2, <1>22 DEF BackstopClaim, Scanning, Output, Trail
    <2>2. Protected'
      BY <1>1, <1>2, <1>22 DEF BackstopClaim, Protected
    <2>3. Flags'
      BY <1>1, <1>2, <1>22 DEF BackstopClaim, Flags
    <2>4. Statuses'
      BY <1>1, <1>2, <1>22 DEF BackstopClaim, Statuses
    <2> QED BY <1>2, <2>1, <2>2, <2>3, <2>4 DEF TypeInv
  <1>23. CASE BackstopWrite
    <2>1. Scanning' /\ Flags' /\ Trail'
      BY <1>1, <1>2, <1>23 DEF BackstopWrite, Scanning, Flags, Trail
    <2>2. Protected'
      BY <1>1, <1>2, <1>23 DEF BackstopWrite, Protected
    <2>3. Statuses'
      BY <1>1, <1>2, <1>23, StatusType DEF BackstopWrite, Statuses
    <2>4. Output'
      <3>1. Doc(held, "unverified", cfg.denies) \in Words \cup {Silent} /\ held \in Protocols
        BY <1>1, <1>23, DocType DEF BackstopWrite, Protected
      <3> QED BY <1>1, <1>23, <3>1, WrittenType DEF BackstopWrite, Output
    <2> QED BY <1>2, <2>1, <2>2, <2>3, <2>4 DEF TypeInv
  <1>24. ASSUME NEW t \in FaultyThreads, Panic(t) PROVE TypeInv'
    <2>1. Scanning' /\ Flags' /\ Output' /\ Trail'
      BY <1>1, <1>2, <1>24 DEF Panic, Scanning, Flags, Output, Trail
    <2>2. Protected'
      BY <1>1, <1>2, <1>24, InputsAssumption DEF Panic, Protected
    <2>3. Statuses'
      BY <1>1, <1>2, <1>24 DEF Panic, Statuses
    <2> QED BY <1>2, <2>1, <2>2, <2>3 DEF TypeInv
  <1>25. CASE Expire
    <2>1. Protected' /\ Scanning' /\ Statuses' /\ Output' /\ Trail'
      BY <1>1, <1>2, <1>25 DEF Expire, Protected, Scanning, Statuses, Output, Trail
    <2>2. Flags'
      BY <1>1, <1>2, <1>25 DEF Expire, Flags
    <2> QED BY <1>2, <2>1, <2>2 DEF TypeInv
  <1>26. CASE HostCloses
    <2>1. Protected' /\ Scanning' /\ Statuses' /\ Output' /\ Trail'
      BY <1>1, <1>2, <1>26 DEF HostCloses, Protected, Scanning, Statuses, Output, Trail
    <2>2. Flags'
      BY <1>1, <1>2, <1>26 DEF HostCloses, Flags
    <2> QED BY <1>2, <2>1, <2>2 DEF TypeInv
  <1> QED
    BY <1>3, <1>4, <1>5, <1>6, <1>7, <1>8, <1>9, <1>10, <1>11, <1>12, <1>13, <1>14, <1>15, <1>16,
       <1>17, <1>18, <1>19, <1>20, <1>21, <1>22, <1>23, <1>24, <1>25, <1>26
    DEF Next, Main, Backstop

\* The process and its request stay well typed whatever is asked, whoever
\* panics and however the two threads interleave.
THEOREM TypeCorrect == Spec => []TypeOK
  <1>1. Init => TypeInv
    BY InitType DEF Init, TypeOK, TypeInv, Constant, Protected, Scanning, Flags, Statuses, Output,
       Trail, Documents, Words
  <1> QED BY <1>1, TypeStep, TypeInvImplies, PTL DEF Spec

--------------------------------------------------------------------------------
(* One document *)

\* Whoever is about to write, or has written, holds the claim; only one of the
\* two threads is ever about to, and then nothing has been written.
ClaimInv ==
    /\ Len(docs) <= 1
    /\ docs # <<>> \/ pc \in {"write", "audit", "allowLine"} \/ backstop = "write" => claimed
    /\ pc \in {"write", "allowLine"} => docs = <<>> /\ backstop # "write"
    /\ backstop = "write" => docs = <<>>
    \* a claim that is not the main thread's is the backstop's, and it is writing
    /\ claimed /\ ~Ended /\ pc \notin {"write", "audit", "explicit", "allowLine", "finish"}
       => backstop = "write"
    /\ backstop = "done" => Ended
    /\ fault = "none" => backstop = "idle"

LEMMA WrittenOnce ==
    ASSUME docs = <<>>, NEW p, NEW d PROVE Len(Written(p, d)) <= 1
  BY DEF Written

LEMMA ClaimStep == TypeInv /\ ClaimInv /\ [Next]_vars => ClaimInv'
  <1> SUFFICES ASSUME TypeInv, ClaimInv, [Next]_vars PROVE ClaimInv'
    OBVIOUS
  <1> USE DEF choice, panics, output, record, Goto, At, ClaimInv
  <1>1. CASE UNCHANGED vars
    BY <1>1 DEF vars, Ended
  <1>2. CASE Configure \/ Read \/ Extract
    BY <1>2 DEF Configure, Read, Extract, Ended
  <1>3. CASE Begin \/ Evaluate
    <2>1. pc' \in {"evaluate", "resolve", "publish"}
      BY <1>3 DEF Begin, Evaluate, Collect
    <2>2. ~Ended /\ UNCHANGED <<docs, claimed, panics, exit>>
      BY <1>3 DEF Begin, Evaluate
    <2>3. pc \in {"resolve", "evaluate"}
      BY <1>3 DEF Begin, Evaluate
    <2> QED BY <2>1, <2>2, <2>3 DEF Ended
  <1>4. CASE EndBatch \/ Allowed \/ Salvage \/ Window \/ EndSalvage \/ Unparsed \/ Publish
    <2>1. CASE EndBatch
      BY <2>1 DEF EndBatch, Ended
    <2>2. CASE Allowed
      BY <2>2 DEF Allowed, Ended
    <2>3. CASE Salvage \/ EndSalvage
      BY <2>3 DEF Salvage, EndSalvage, Ended
    <2>4. CASE Window
      BY <2>4 DEF Window, Ended
    <2>5. CASE Unparsed \/ Publish
      BY <2>5 DEF Unparsed, Publish, Ended
    <2> QED BY <1>4, <2>1, <2>2, <2>3, <2>4, <2>5
  <1>5. CASE Claim
    BY <1>5 DEF Claim, Ended
  <1>6. CASE Write
    <2>1. docs = <<>> /\ claimed /\ backstop # "write" /\ ~Ended
      BY <1>6 DEF Write
    <2>2. Len(docs') <= 1 /\ pc' = "audit" /\ UNCHANGED <<claimed, panics, exit>>
      BY <1>6, <2>1, WrittenOnce DEF Write
    <2> QED BY <2>1, <2>2 DEF Ended
  <1>7. CASE Audit \/ ExplicitClaim
    BY <1>7 DEF Audit, ExplicitClaim, Ended
  <1>8. CASE ExplicitWrite
    <2>1. docs = <<>> /\ claimed /\ backstop # "write" /\ ~Ended
      BY <1>8 DEF ExplicitWrite
    <2>2. Len(docs') <= 1 /\ pc' = "finish" /\ UNCHANGED <<claimed, panics, exit>>
      BY <1>8, <2>1, WrittenOnce DEF ExplicitWrite
    <2> QED BY <2>1, <2>2 DEF Ended
  <1>9. CASE Finish
    BY <1>9 DEF Finish, Ended, TypeInv, Statuses, NotYet
  <1>10. CASE BackstopClaim
    BY <1>10 DEF BackstopClaim, Ended, NotYet
  <1>11. CASE BackstopWrite
    <2>1. docs = <<>> /\ claimed /\ pc \notin {"write", "allowLine"}
      BY <1>11 DEF BackstopWrite
    <2>2. /\ Len(docs') <= 1 /\ exit' \in {0, 1, 2} /\ backstop' = "done"
          /\ UNCHANGED <<claimed, fault, pc>> /\ fault # "none"
      BY <1>11, <2>1, WrittenOnce, StatusType DEF BackstopWrite
    <2> QED BY <2>1, <2>2 DEF Ended, NotYet
  <1>12. ASSUME NEW t \in FaultyThreads, Panic(t) PROVE ClaimInv'
    <2>1. ~Ended /\ backstop' \in {backstop, "claim"} /\ exit' \in {exit, Aborted}
      BY <1>12 DEF Panic
    <2>2. UNCHANGED <<docs, claimed, pc>> /\ backstop = "idle" /\ fault' = t /\ t # "none"
      BY <1>12, InputsAssumption DEF Panic
    <2> QED BY <2>1, <2>2 DEF Ended, NotYet, Aborted
  <1>13. CASE Expire \/ HostCloses
    BY <1>13 DEF Expire, HostCloses, Ended
  <1> QED
    BY <1>1, <1>2, <1>3, <1>4, <1>5, <1>6, <1>7, <1>8, <1>9, <1>10, <1>11, <1>12, <1>13
    DEF Next, Main, Backstop

\* The main thread and the panic hook of another thread may both be ready to
\* answer: the host is never given two documents, or half of one and half of
\* the other.
THEOREM AtMostOneDocument == Spec => []OneDocument
  <1>1. Init => TypeInv /\ ClaimInv
    BY InitType DEF Init, TypeOK, TypeInv, Constant, Protected, Scanning, Flags, Statuses, Output,
       Trail, Documents, Words, ClaimInv
  <1>2. ClaimInv => OneDocument
    BY DEF ClaimInv, OneDocument
  <1> QED BY <1>1, <1>2, TypeStep, ClaimStep, PTL DEF Spec

--------------------------------------------------------------------------------
(* The guard holds *)

\* Once a request is read and can be, every answer is in its own protocol; until
\* then nothing is written but by the panic hook of the main thread.  The places
\* of the main thread tell what was read.
Early == {"start", "read", "extract"}
AnswerInv ==
    /\ req.form \in AllForms
    /\ pc \notin Early /\ req.form \notin Unreadable =>
           /\ proto = Proto(req.host)
           /\ {policy, held} \subseteq {Proto(req.host), "off"}
    /\ pc \in Early /\ fault # "main" => fault = "none" /\ held = "off"
    /\ pc = "start" => backstop \notin {"claim", "write"}
    /\ pc = "start" => policy = "off"
    /\ pc \in {"resolve", "evaluate", "allowed"} => req.form = "shell"
    /\ pc \in {"salvage", "window", "unparsed"} => req.form \in Unreadable
    /\ pc = "extract" => req.form \notin Unreadable
    /\ req.form \in Unreadable /\ pc # "start" => policy # "off"

\* Entries judged and found harmless: those before the scan, or all of them.
Harmless(k) == k \in judged /\ req.batch[k] \notin Harmful
ClearedTo(n) == \A k \in 1..n : Harmless(k)
NoneHarmful  == \A k \in judged : req.batch[k] \notin Harmful

\* Scan windows looked into: all of the first n, or all but the last of them,
\* which time ran out on.
Viewed(k)   == k \in judged \/ req.batch[k] = "unverifiable"
ViewedTo(n) == \A k \in 1..n : Viewed(k) \/ (expired /\ k = n)

\* What letting the request run presupposes.
MayRun ==
    /\ req.form = "shell" => ClearedTo(Last)
    /\ req.form \in Unreadable \ {"io"} => ~cfg.failClosed /\ NoneHarmful /\ ViewedTo(Last)

\* The scan lets nothing harmful pass: while the strictest outcome proceeds,
\* what was scanned is harmless; past the scan the request may run, or a
\* blocking outcome is on its way.
ScanInv ==
    /\ pc \in {"resolve", "evaluate"} /\ decisive \in {"allow", "warn"} => ClearedTo(i - 1)
    /\ pc \in {"publish", "claim", "write", "audit"} /\ decisive = "warn" => MayRun
    /\ pc \in {"allowed", "allowLine"} => MayRun
    /\ pc = "explicit" /\ ~claimed => MayRun
    /\ pc \in {"start", "read", "extract"} => judged = {} /\ i = 1
    /\ pc \in {"salvage", "window", "unparsed"} => NoneHarmful
    /\ pc \in {"salvage", "window"} => ~cfg.failClosed
    /\ policy = "off" => pc = "start" \/ MayRun

\* Where the scan of an unreadable payload stands.
SalvageInv ==
    /\ pc = "salvage" => ViewedTo(i - 1)
    /\ pc = "window" => \A k \in 1..(i - 1) : Viewed(k)
    /\ pc = "unparsed" /\ req.form # "io" /\ ~cfg.failClosed => ViewedTo(Last)

\* The host takes the exit status s, with what is on stdout, for a refusal, or
\* was answered in the guessed protocol of another.  (Antigravity does not take
\* status 2 for one: that it may end so is excused.)
Refused(s) ==
    \/ s = 2
    \/ req.host # "reasonix" /\ Says \cap Blocking # {}
    \/ Guessed

\* Once main has answered, its status refuses what may not run; once the process
\* has ended, only what may run runs.
VerdictInv ==
    /\ ~Ended /\ pc \in {"audit", "explicit", "finish"} /\ backstop # "write" => MayRun \/ Refused(status)
    /\ HostRuns /\ ~Excused => MayRun

LEMMA AnswerStep == TypeInv /\ ClaimInv /\ AnswerInv /\ [Next]_vars => AnswerInv'
  <1> SUFFICES ASSUME TypeInv, ClaimInv, AnswerInv, [Next]_vars PROVE AnswerInv'
    OBVIOUS
  <1>0. UNCHANGED setup /\ req'.form \in AllForms
    BY SetupFixed DEF setup, AnswerInv
  <1> USE DEF choice, panics, output, record, setup, Goto, At, AnswerInv, Early
  <1>1. CASE UNCHANGED vars
    BY <1>0, <1>1 DEF vars
  <1>2. CASE Configure
    BY <1>0, <1>2 DEF Configure, TypeInv, Protected, Protocols
  <1>3. CASE Read
    BY <1>0, <1>3 DEF Read
  <1>4. CASE Extract
    BY <1>0, <1>4 DEF Extract, AllForms
  <1>5. CASE Begin
    BY <1>0, <1>5 DEF Begin, Collect
  <1>6. CASE Evaluate
    <2>1. pc' \in {"resolve", "publish"} /\ pc = "evaluate"
      BY <1>6 DEF Evaluate, Collect
    <2>2. UNCHANGED <<proto, policy, panics>>
      BY <1>6 DEF Evaluate
    <2> QED BY <1>0, <2>1, <2>2
  <1>7. CASE EndBatch
    BY <1>0, <1>7 DEF EndBatch, Unreadable
  <1>8. CASE Allowed
    BY <1>0, <1>8 DEF Allowed
  <1>9. CASE Salvage
    BY <1>0, <1>9 DEF Salvage
  <1>10. CASE Window
    <2>1. pc' \in {"salvage", "publish"} /\ pc = "window"
      BY <1>10 DEF Window
    <2>2. UNCHANGED <<proto, policy, panics>>
      BY <1>10 DEF Window
    <2> QED BY <1>0, <2>1, <2>2
  <1>11. CASE EndSalvage
    BY <1>0, <1>11 DEF EndSalvage
  <1>12. CASE Unparsed
    BY <1>0, <1>12 DEF Unparsed
  <1>13. CASE Publish
    <2>1. pc = "publish" /\ pc' = "claim" /\ UNCHANGED <<proto, policy, panics>>
      BY <1>13 DEF Publish
    <2> QED BY <1>0, <2>1
  <1>14. CASE Claim \/ Write \/ Audit
    <2>1. /\ pc \notin Early /\ pc' \in {"write", "audit", "explicit", "finish"}
          /\ UNCHANGED <<proto, policy, panics>>
      BY <1>14 DEF Claim, Write, Audit
    <2> QED BY <1>0, <2>1
  <1>15. CASE ExplicitClaim \/ ExplicitWrite \/ Finish
    <2>1. /\ pc \notin Early /\ pc' \in {"allowLine", "finish", pc}
          /\ UNCHANGED <<proto, policy, panics>>
      BY <1>15 DEF ExplicitClaim, ExplicitWrite, Finish
    <2> QED BY <1>0, <2>1
  <1>16. CASE BackstopClaim
    BY <1>0, <1>16 DEF BackstopClaim
  <1>17. CASE BackstopWrite
    BY <1>0, <1>17 DEF BackstopWrite
  <1>18. ASSUME NEW t \in FaultyThreads, Panic(t) PROVE AnswerInv'
    BY <1>0, <1>18, InputsAssumption DEF Panic, WorkerAlive, ClaimInv
  <1>19. CASE Expire \/ HostCloses
    BY <1>0, <1>19 DEF Expire, HostCloses
  <1> QED
    BY <1>1, <1>2, <1>3, <1>4, <1>5, <1>6, <1>7, <1>8, <1>9, <1>10, <1>11, <1>12, <1>13, <1>14,
       <1>15, <1>16, <1>17, <1>18, <1>19
    DEF Next, Main, Backstop

LEMMA CollectClears ==
    ASSUME TypeInv, ScanInv, pc \in {"resolve", "evaluate"}, NEW o \in DOMAIN Rank, NEW row,
           Collect(o, row), UNCHANGED req, judged \subseteq judged',
           o \in {"allow", "warn"} => i \in judged' /\ req.batch[i] \notin Harmful
    PROVE  /\ pc' = "resolve" /\ decisive' \in {"allow", "warn"} => ClearedTo(i - 1)'
           /\ pc' = "publish" => decisive' \notin {"allow", "warn"}
           /\ pc' \in {"resolve", "publish"}
  <1>0. decisive \in DOMAIN Rank /\ i \in Nat /\ i >= 1
    BY Ranks, LastNat DEF TypeInv, Scanning
  <1>1. CASE o \in {"allow", "warn"}
    <2>1. pc' = "resolve" /\ i' = i + 1
      BY <1>1 DEF Collect, Goto
    <2>2. decisive' \in {"allow", "warn"} => decisive \in {"allow", "warn"}
      BY <1>0, <1>1, Ranks DEF Collect, choice
    <2>3. ASSUME decisive' \in {"allow", "warn"}, NEW k \in 1..(i' - 1) PROVE Harmless(k)'
      <3>1. CASE k = i
        BY <1>1, <3>1 DEF Harmless
      <3>2. CASE k # i
        <4>1. k \in 1..(i - 1)
          BY <1>0, <2>1, <3>2
        <4>2. Harmless(k)
          BY <2>2, <2>3, <4>1 DEF ScanInv, ClearedTo
        <4> QED BY <4>2 DEF Harmless
      <3> QED BY <3>1, <3>2
    <2> QED BY <2>1, <2>3 DEF ClearedTo
  <1>2. CASE o \notin {"allow", "warn"}
    <2>1. decisive' \notin {"allow", "warn"}
      BY <1>0, <1>2, Ranks DEF Collect, choice
    <2>2. pc' \in {"resolve", "publish"}
      BY DEF Collect, Goto
    <2> QED BY <2>1, <2>2
  <1> QED BY <1>1, <1>2

\* What was cleared stays cleared, and what may run may run, while no entry is judged.
LEMMA ClearedStays ==
    ASSUME UNCHANGED setup, UNCHANGED judged, expired => expired'
    PROVE  /\ MayRun => MayRun'
           /\ NoneHarmful' <=> NoneHarmful
           /\ \A n : ViewedTo(n) => ViewedTo(n)'
           /\ i' = i => (ClearedTo(i - 1)' <=> ClearedTo(i - 1))
  BY DEF setup, MayRun, NoneHarmful, ClearedTo, Harmless, ViewedTo, Viewed, Last

LEMMA ExpiryStays == [Next]_vars => (expired => expired')
  BY DEF vars, Next, Main, Backstop, Configure, Read, Extract, Begin, Evaluate, EndBatch, Allowed, Salvage,
         Window, EndSalvage, Unparsed, Publish, Claim, Write, Audit, ExplicitClaim, ExplicitWrite,
         Finish, BackstopClaim, BackstopWrite, Panic, Expire, HostCloses

LEMMA SalvageStep == TypeInv /\ ScanInv /\ SalvageInv /\ [Next]_vars => SalvageInv'
  <1> SUFFICES ASSUME TypeInv, ScanInv, SalvageInv, [Next]_vars PROVE SalvageInv'
    OBVIOUS
  <1>0. UNCHANGED setup /\ (expired => expired') /\ Last' = Last /\ Last \in Nat /\ i \in 1..(Last + 1)
    BY SetupFixed, ExpiryStays, LastNat DEF TypeInv, Scanning, setup, Last
  <1> USE DEF choice, panics, output, record, Goto, At
  <1>1. CASE /\ UNCHANGED <<i, judged>>
             /\ pc' = pc \/ pc' \notin {"salvage", "window", "unparsed"}
    BY <1>0, <1>1, ClearedStays DEF SalvageInv, Viewed, setup
  <1>2. CASE Read
    BY <1>0, <1>2 DEF Read, ScanInv, SalvageInv, ViewedTo, setup
  <1>3. CASE Begin \/ Evaluate
    <2>1. pc' \in {"evaluate", "resolve", "publish"}
      BY <1>3 DEF Begin, Evaluate, Collect
    <2> QED BY <2>1 DEF SalvageInv
  <1>4. CASE Salvage
    <2>1. pc = "salvage" /\ judged \subseteq judged' /\ ViewedTo(i - 1)
      BY <1>4 DEF Salvage, SalvageInv
    <2>2. CASE pc' = "publish"
      BY <2>2 DEF SalvageInv
    <2>3. CASE pc' = "salvage" /\ ~expired /\ i' = i + 1 /\ i \in judged'
      BY <1>0, <2>1, <2>3 DEF SalvageInv, ViewedTo, Viewed, setup
    <2>4. CASE pc' = "window" /\ ~expired /\ i' = i
      BY <1>0, <2>1, <2>4 DEF SalvageInv, ViewedTo, Viewed, setup
    <2> QED BY <1>4, <2>1, <2>2, <2>3, <2>4 DEF Salvage
  <1>5. CASE Window
    <2>1. /\ judged \subseteq judged' /\ expired' = expired
          /\ \A k \in 1..(i - 1) : Viewed(k)
      BY <1>5 DEF Window, Judge, SalvageInv
    <2>2. \/ pc' = "publish"
          \/ pc' = "salvage" /\ i' = i + 1 /\ (i \in judged' \/ expired \/ req.batch[i] = "unverifiable")
      BY <1>5 DEF Window, Judge, GivesUp
    <2> QED BY <1>0, <2>1, <2>2 DEF SalvageInv, ViewedTo, Viewed, setup
  <1>6. CASE EndSalvage
    <2>1. pc = "salvage" /\ i - 1 = Last /\ pc' = "unparsed" /\ UNCHANGED judged
      BY <1>0, <1>6 DEF EndSalvage
    <2> QED BY <1>0, <2>1, ClearedStays DEF SalvageInv
  <1>7. ~(\/ Read \/ Begin \/ Evaluate \/ Salvage \/ Window \/ EndSalvage)
        => /\ UNCHANGED <<i, judged>>
           /\ pc' = pc \/ pc' \notin {"salvage", "window", "unparsed"}
    BY DEF vars, Next, Main, Backstop, Configure, Extract, EndBatch, Allowed, Unparsed, Publish, Claim, Write,
           Audit, ExplicitClaim, ExplicitWrite, Finish, BackstopClaim, BackstopWrite, Panic, Expire, HostCloses
  <1> QED BY <1>1, <1>2, <1>3, <1>4, <1>5, <1>6, <1>7

LEMMA ScanStep == TypeInv /\ ClaimInv /\ AnswerInv /\ ScanInv /\ [Next]_vars => ScanInv'
  <1> SUFFICES ASSUME TypeInv, ClaimInv, AnswerInv, ScanInv, [Next]_vars PROVE ScanInv'
    OBVIOUS
  <1>0. /\ UNCHANGED setup /\ (expired => expired') /\ Last \in Nat /\ i \in 1..(Last + 1)
        /\ decisive \in {"allow", "warn", "ask", "oversized", "unverified", "deny"}
        /\ pc \in {"evaluate", "window"} => i <= Last
        /\ pc \in {"publish", "claim", "write", "audit"} => decisive # "allow"
    BY SetupFixed, ExpiryStays, LastNat DEF TypeInv, Scanning
  <1> USE DEF choice, panics, output, record, Goto, At
  <1>1. CASE UNCHANGED vars
    BY <1>0, <1>1, ClearedStays DEF vars, ScanInv, setup
  <1>2. CASE Configure
    BY <1>0, <1>2, ClearedStays DEF Configure, ScanInv, Protected, TypeInv, Protocols
  <1>3. CASE Read
    <2>1. UNCHANGED <<judged, policy, i>> /\ pc = "read" /\ judged = {} /\ i = 1
      BY <1>3 DEF Read, ScanInv
    <2>2. pc' \in {"extract", "unparsed", "salvage"}
      BY <1>3 DEF Read
    <2>3. pc' = "salvage" => ~cfg.failClosed
      BY <1>3 DEF Read
    <2> QED BY <1>0, <2>1, <2>2, <2>3, ClearedStays DEF ScanInv, NoneHarmful, setup
  <1>4. CASE Extract
    <2>1. UNCHANGED judged /\ pc = "extract" /\ judged = {} /\ req.form \notin Unreadable /\ i' = i /\ i = 1
      BY <1>4 DEF Extract, ScanInv, AnswerInv
    <2>2. CASE req.form = "other"
      <3>1. MayRun /\ pc' \in {"explicit", "finish"}
        BY <1>4, <2>1, <2>2 DEF Extract, MayRun
      <3> QED BY <1>0, <2>1, <3>1, ClearedStays DEF ScanInv
    <2>3. CASE req.form # "other"
      <3>1. pc' \in {"claim", "resolve"} /\ policy' = Proto(req.host)
        BY <1>4, <2>3 DEF Extract
      <3>2. pc' = "claim" => decisive' = "oversized"
        BY <1>4, <2>3 DEF Extract
      <3>3. pc' = "resolve" => ClearedTo(i - 1)'
        BY <1>4, <2>1, <2>3 DEF Extract, ClearedTo
      <3>4. policy' # "off"
        BY <3>1, ProtoType DEF TypeInv, Protocols
      <3> QED BY <2>1, <3>1, <3>2, <3>3, <3>4 DEF ScanInv
    <2> QED BY <2>2, <2>3
  <1>5. CASE Begin
    <2>1. UNCHANGED <<judged, policy>> /\ pc = "resolve"
      BY <1>5 DEF Begin
    <2>2. CASE pc' = "evaluate" /\ UNCHANGED <<i, decisive>>
      BY <1>0, <2>1, <2>2, ClearedStays DEF ScanInv
    <2>3. ASSUME NEW o \in {"oversized", "unverified"}, Collect(o, FALSE) PROVE ScanInv'
      <3>1. /\ pc' = "resolve" /\ decisive' \in {"allow", "warn"} => ClearedTo(i - 1)'
            /\ pc' = "publish" => decisive' \notin {"allow", "warn"}
            /\ pc' \in {"resolve", "publish"}
        BY <1>0, <2>1, <2>3, CollectClears, Ranks DEF setup
      <3> QED BY <1>0, <2>1, <3>1, ClearedStays DEF ScanInv
    <2> QED BY <1>5, <2>2, <2>3 DEF Begin
  <1>6. CASE Evaluate
    <2>1. UNCHANGED policy /\ pc = "evaluate" /\ req.form = "shell"
      BY <1>6 DEF Evaluate, AnswerInv
    <2>2. judged \subseteq judged'
      BY <1>6 DEF Evaluate, Judge
    <2>3. ASSUME NEW o \in {"allow", "warn", "ask", "unverified", "deny"}, NEW row, Collect(o, row),
                 o \in {"allow", "warn"} => i \in judged' /\ req.batch[i] \notin Harmful
          PROVE  ScanInv'
      <3>1. /\ pc' = "resolve" /\ decisive' \in {"allow", "warn"} => ClearedTo(i - 1)'
            /\ pc' = "publish" => decisive' \notin {"allow", "warn"}
            /\ pc' \in {"resolve", "publish"}
        BY <1>0, <2>1, <2>2, <2>3, CollectClears, Ranks DEF setup
      <3>2. MayRun => MayRun'
        BY <1>0, <2>1, <2>2 DEF MayRun, ClearedTo, Harmless, setup, Last, Unreadable
      <3> QED BY <2>1, <3>1, <3>2 DEF ScanInv
    <2>4. CASE Collect("unverified", FALSE)
      BY <2>3, <2>4
    <2>5. CASE Judge(req.batch[i], TRUE) /\ Collect(Outcome(req.batch[i]), req.batch[i] \in {"allow", "granted"})
      <3>1. Outcome(req.batch[i]) \in {"allow", "warn", "ask", "deny"}
        BY DEF Outcome
      <3>2. Outcome(req.batch[i]) \in {"allow", "warn"} => i \in judged' /\ req.batch[i] \notin Harmful
        BY <2>5 DEF Outcome, Judge, Harmful
      <3> QED BY <2>3, <2>5, <3>1, <3>2
    <2> QED BY <1>6, <2>4, <2>5 DEF Evaluate
  <1>7. CASE EndBatch
    <2>1. UNCHANGED <<judged, i, decisive>> /\ pc = "resolve" /\ i = Last + 1 /\ req.form = "shell"
      BY <1>0, <1>7 DEF EndBatch, AnswerInv
    <2>2. decisive \in {"allow", "warn"} => MayRun
      BY <1>0, <2>1 DEF ScanInv, MayRun, Unreadable
    <2>3. \/ pc' = "publish" /\ policy' = policy
          \/ pc' = "allowed" /\ decisive = "allow"
      BY <1>7 DEF EndBatch
    <2> QED BY <1>0, <2>1, <2>2, <2>3, ClearedStays DEF ScanInv
  <1>8. CASE Allowed
    <2>1. /\ UNCHANGED <<judged, i, decisive, policy>> /\ pc = "allowed"
          /\ pc' \in {"explicit", "finish"}
      BY <1>8 DEF Allowed
    <2> QED BY <1>0, <2>1, ClearedStays DEF ScanInv
  <1>9. CASE Salvage
    <2>1. pc = "salvage" /\ UNCHANGED <<policy, claimed>> /\ req.form \in Unreadable /\ policy # "off"
      BY <1>9 DEF Salvage, AnswerInv
    <2>2. UNCHANGED cfg /\ ~cfg.failClosed
      BY <1>0, <2>1 DEF ScanInv, setup
    <2>3. NoneHarmful'
      BY <1>0, <1>9, <2>1 DEF Salvage, ScanInv, NoneHarmful, Harmful, setup
    <2>4. pc' \in {"salvage", "window", "publish"} /\ (pc' = "publish" => decisive' = "unverified")
      BY <1>9 DEF Salvage
    <2> QED BY <1>0, <2>1, <2>2, <2>3, <2>4 DEF ScanInv
  <1>10. CASE Window
    <2>1. pc = "window" /\ UNCHANGED <<policy, claimed>> /\ req.form \in Unreadable /\ policy # "off"
      BY <1>10 DEF Window, AnswerInv
    <2>2. UNCHANGED cfg /\ ~cfg.failClosed
      BY <1>0, <2>1 DEF ScanInv, setup
    <2>3. pc' \in {"salvage", "publish"} /\ (pc' = "publish" => decisive' \in {"ask", "deny"})
      BY <1>10 DEF Window
    <2>4. CASE UNCHANGED judged
      <3> QED BY <1>0, <2>1, <2>2, <2>3, <2>4, ClearedStays DEF ScanInv
    <2>5. CASE Judge(req.batch[i], FALSE) /\ req.batch[i] \notin {"ask", "deny"}
      <3>1. NoneHarmful'
        BY <1>0, <2>1, <2>5 DEF Judge, ScanInv, NoneHarmful, Harmful, setup
      <3> QED BY <1>0, <2>1, <2>2, <2>3, <3>1 DEF ScanInv
    <2>6. CASE pc' = "publish"
      BY <1>0, <2>1, <2>3, <2>6 DEF ScanInv
    <2> QED BY <1>10, <2>4, <2>5, <2>6 DEF Window
  <1>11. CASE EndSalvage
    BY <1>0, <1>11, ClearedStays DEF EndSalvage, ScanInv
  <1>12. CASE Unparsed
    <2>1. pc = "unparsed" /\ UNCHANGED <<policy, claimed, judged>> /\ req.form \in Unreadable /\ policy # "off"
      BY <1>12 DEF Unparsed, AnswerInv
    <2>2. pc' \in {"claim", "finish"} /\ (pc' = "claim" => decisive' = "deny")
      BY <1>12 DEF Unparsed
    <2> QED BY <2>1, <2>2 DEF ScanInv
  <1>13. CASE Publish
    <2>1. pc = "publish" /\ pc' = "claim" /\ UNCHANGED <<policy, judged, decisive>>
      BY <1>13 DEF Publish
    <2> QED BY <1>0, <2>1, ClearedStays DEF ScanInv
  <1>14. CASE Claim \/ Write
    <2>1. /\ pc \in {"claim", "write"} /\ pc' \in {"write", "audit"}
          /\ UNCHANGED <<policy, judged, decisive>>
      BY <1>14 DEF Claim, Write
    <2> QED BY <1>0, <2>1, ClearedStays DEF ScanInv
  <1>15. CASE Audit
    <2>1. /\ pc = "audit" /\ pc' \in {"explicit", "finish"} /\ claimed' /\ claimed
          /\ UNCHANGED <<policy, judged, decisive>>
      BY <1>15 DEF Audit, ClaimInv
    <2> QED BY <1>0, <2>1, ClearedStays DEF ScanInv
  <1>16. CASE ExplicitClaim
    <2>1. pc = "explicit" /\ UNCHANGED <<policy, judged, decisive>>
      BY <1>16 DEF ExplicitClaim
    <2>2. pc' \in {"finish", "allowLine"} /\ (pc' = "allowLine" => ~claimed)
      BY <1>16 DEF ExplicitClaim
    <2> QED BY <1>0, <2>1, <2>2, ClearedStays DEF ScanInv
  <1>17. CASE ExplicitWrite \/ Finish
    <2>1. pc' = "finish" /\ UNCHANGED <<policy, judged>> /\ pc # "start"
      BY <1>17 DEF ExplicitWrite, Finish
    <2> QED BY <1>0, <2>1, ClearedStays DEF ScanInv
  <1>18. CASE Backstop \/ Expire \/ HostCloses \/ \E t \in FaultyThreads : Panic(t)
    <2>1. UNCHANGED <<pc, i, decisive, judged, policy>> /\ (~claimed' => ~claimed)
      BY <1>18 DEF Backstop, BackstopClaim, BackstopWrite, Expire, HostCloses, Panic
    <2> QED BY <1>0, <2>1, ClearedStays DEF ScanInv, setup
  <1> QED
    BY <1>1, <1>2, <1>3, <1>4, <1>5, <1>6, <1>7, <1>8, <1>9, <1>10, <1>11, <1>12, <1>13, <1>14,
       <1>15, <1>16, <1>17, <1>18
    DEF Next, Main

LEMMA OwnDocs == Proto(req.host) \in Reads(req.host)
  BY DEF Reads

\* What the first write leaves on stdout, and what the host makes of it.
LEMMA SaidAfter ==
    ASSUME docs = <<>>, UNCHANGED req, NEW p, NEW d, docs' = Written(p, d)
    PROVE  /\ ~hostReads \/ d = Silent => docs' = <<>> /\ Says' = {}
           /\ hostReads /\ d # Silent =>
                  /\ Len(docs') = 1 /\ docs'[1].to = p
                  /\ Says' = IF p \in Reads(req.host) THEN {d} ELSE {}
  <1>1. CASE ~hostReads \/ d = Silent
    BY <1>1 DEF Written, Says
  <1>2. CASE hostReads /\ d # Silent
    <2>1. docs' = <<[to |-> p, says |-> d]>>
      BY <1>2 DEF Written
    <2>2. Len(docs') = 1 /\ docs'[1].to = p /\ docs'[1].says = d
      BY <2>1
    <2>3. Reads(req'.host) = Reads(req.host)
      OBVIOUS
    <2>4. p \in Reads(req.host) => Says' = {d}
      BY <2>2, <2>3 DEF Says
    <2>5. p \notin Reads(req.host) => Says' = {}
      BY <2>2, <2>3 DEF Says
    <2> QED BY <1>2, <2>2, <2>4, <2>5
  <1> QED BY <1>1, <1>2

LEMMA SaidBefore ==
    /\ docs = <<>> => Says = {}
    /\ UNCHANGED <<docs, req>> => Says' = Says
  BY DEF Says

LEMMA BlockingDoc ==
    ASSUME NEW p, p # "reasonix", NEW o \in {"deny", "ask", "oversized", "unverified"}, NEW d
    PROVE  Doc(p, o, d) \in Blocking /\ Doc(p, o, d) # Silent
  BY DEF Doc, DenyDoc, ReviewDoc, UnverifiedDoc, Asks, Silent, Blocking

\* A blocking answer refuses by its document, or by its status once the document
\* cannot be delivered, or is in a protocol that its host does not read.
LEMMA AnswerRefuses ==
    ASSUME docs = <<>>, UNCHANGED <<req, hostReads>>, NEW p, NEW d,
           NEW o \in {"deny", "ask", "oversized", "unverified"}, docs' = Written(p, Doc(p, o, d))
    PROVE  \/ StatusOf(p, o, Arrives(Doc(p, o, d))) = 2
           \/ req.host # "reasonix" /\ Says' \cap Blocking # {}
           \/ Len(docs') = 1 /\ docs'[1].to = p /\ p \notin Reads(req.host)
  <1>1. CASE p = "reasonix"
    BY <1>1 DEF StatusOf
  <1>2. CASE p # "reasonix"
    <2>1. Doc(p, o, d) \in Blocking /\ Doc(p, o, d) # Silent
      BY <1>2, BlockingDoc
    <2>2. CASE hostReads
      <3>1. /\ Len(docs') = 1 /\ docs'[1].to = p
            /\ Says' = IF p \in Reads(req.host) THEN {Doc(p, o, d)} ELSE {}
        BY <2>1, <2>2, SaidAfter
      <3>2. req.host = "reasonix" => p \notin Reads(req.host)
        BY <1>2 DEF Reads, Proto
      <3> QED BY <2>1, <3>1, <3>2
    <2>3. CASE ~hostReads
      BY <2>1, <2>3 DEF StatusOf, Arrives
    <2> QED BY <2>2, <2>3
  <1> QED BY <1>1, <1>2

LEMMA RefusedBlocks == Refused(exit) /\ ~Excused => HostBlocks
  BY DEF Refused, Excused, Guessed, HostBlocks

LEMMA RefusedStays ==
    ASSUME UNCHANGED <<req, docs, status>>, pc' = pc \/ pc \notin {"read", "extract"}
    PROVE  Refused(status) => Refused(status)'
  BY SaidBefore DEF Refused, Guessed

LEMMA LiveStep == Next => ~Ended
  BY DEF Next, Main, Backstop, At, Configure, Read, Extract, Begin, Evaluate, EndBatch, Allowed, Salvage,
         Window, EndSalvage, Unparsed, Publish, Claim, Write, Audit, ExplicitClaim, ExplicitWrite,
         Finish, BackstopClaim, BackstopWrite, Panic, Expire, HostCloses

LEMMA VerdictStep ==
    TypeInv /\ ClaimInv /\ AnswerInv /\ ScanInv /\ SalvageInv /\ VerdictInv /\ [Next]_vars => VerdictInv'
  <1> SUFFICES ASSUME TypeInv, ClaimInv, AnswerInv, ScanInv, SalvageInv, VerdictInv, [Next]_vars PROVE VerdictInv'
    OBVIOUS
  <1> DEFINE Answered == pc \in {"audit", "explicit", "finish"}
  <1>0. UNCHANGED setup /\ (expired => expired')
    BY SetupFixed, ExpiryStays
  <1>a. (Refused(exit) /\ ~Excused => HostBlocks)'
    BY RefusedBlocks, PTL
  <1> USE DEF choice, panics, output, record, Goto, At
  <1>1. CASE UNCHANGED vars
    BY <1>0, <1>1, ClearedStays, RefusedStays
    DEF vars, setup, VerdictInv, Ended, HostRuns, HostBlocks, Excused, Guessed, Says
  <1>2. CASE Configure \/ Read \/ Begin \/ Evaluate \/ EndBatch \/ Salvage \/ Window \/ EndSalvage \/ Publish
    <2>1. UNCHANGED exit /\ ~Ended
      BY <1>2 DEF Configure, Read, Begin, Evaluate, EndBatch, Salvage, Window, EndSalvage, Publish
    <2>2. ~Answered'
      <3>1. CASE Configure \/ Read \/ EndBatch \/ EndSalvage
        BY <3>1 DEF Configure, Read, EndBatch, EndSalvage
      <3>2. CASE Begin \/ Evaluate
        BY <3>2 DEF Begin, Evaluate, Collect
      <3>3. CASE Salvage \/ Window
        BY <3>3 DEF Salvage, Window
      <3>4. CASE Publish
        BY <3>4 DEF Publish
      <3> QED BY <1>2, <3>1, <3>2, <3>3, <3>4
    <2> QED BY <2>1, <2>2 DEF VerdictInv, Ended, HostRuns
  <1>3. CASE Extract \/ Allowed \/ Unparsed \/ ExplicitWrite
    <2>1. UNCHANGED <<exit, judged>> /\ ~Ended
      BY <1>3 DEF Extract, Allowed, Unparsed, ExplicitWrite
    <2>2. Answered' => MayRun
      <3>1. CASE Extract
        BY <3>1 DEF Extract, MayRun, Unreadable, AnswerInv
      <3>2. CASE Unparsed
        BY <3>2 DEF Unparsed, MayRun, Unreadable, AnswerInv, ScanInv, SalvageInv
      <3>3. CASE Allowed \/ ExplicitWrite
        BY <3>3 DEF Allowed, ExplicitWrite, ScanInv
      <3> QED BY <1>3, <3>1, <3>2, <3>3
    <2> QED BY <1>0, <2>1, <2>2, ClearedStays DEF VerdictInv, Ended, HostRuns
  <1>4. CASE Claim
    <2>1. UNCHANGED <<exit, backstop>> /\ ~Ended /\ (Answered' => claimed /\ pc = "claim")
      BY <1>4 DEF Claim
    <2> QED BY <2>1 DEF VerdictInv, Ended, HostRuns, ClaimInv
  <1>5. CASE Write
    <2>1. /\ UNCHANGED <<exit, judged, proto, req, hostReads>> /\ ~Ended /\ pc = "write"
          /\ docs' = Written(proto, Doc(proto, decisive, cfg.denies))
          /\ status' = StatusOf(proto, decisive, Arrives(Doc(proto, decisive, cfg.denies)))
      BY <1>0, <1>5 DEF Write, setup
    <2>2. MayRun \/ decisive \in {"deny", "ask", "oversized", "unverified"}
      BY <2>1 DEF ScanInv, TypeInv, Scanning
    <2>3. ASSUME decisive \in {"deny", "ask", "oversized", "unverified"} PROVE Refused(status)'
      <3>1. docs = <<>> /\ (req.form \notin Unreadable => proto \in Reads(req.host))
        BY <2>1, OwnDocs DEF ClaimInv, AnswerInv, Early
      <3>2. \/ status' = 2
            \/ req.host # "reasonix" /\ Says' \cap Blocking # {}
            \/ Len(docs') = 1 /\ docs'[1].to = proto /\ proto \notin Reads(req.host)
        BY <2>1, <2>3, <3>1, AnswerRefuses
      <3>3. CASE Len(docs') = 1 /\ docs'[1].to = proto /\ proto \notin Reads(req.host)
        <4>1. Guessed'
          BY <2>1, <3>1, <3>3 DEF Guessed
        <4> QED BY <4>1 DEF Refused
      <3> QED BY <2>1, <3>2, <3>3 DEF Refused
    <2> QED BY <1>0, <2>1, <2>2, <2>3, ClearedStays DEF VerdictInv, Ended, HostRuns
  <1>6. CASE Audit \/ ExplicitClaim
    <2>1. UNCHANGED <<exit, judged, proto, req, hostReads, docs, status, backstop>> /\ ~Ended
      BY <1>0, <1>6 DEF Audit, ExplicitClaim, setup
    <2>2. Answered /\ (Answered' \/ MayRun)
      BY <1>6 DEF Audit, ExplicitClaim, ScanInv
    <2> QED BY <1>0, <2>1, <2>2, ClearedStays, RefusedStays DEF VerdictInv, Ended, HostRuns
  <1>7. CASE Finish
    <2>1. /\ UNCHANGED <<judged, proto, req, hostReads, docs, status, backstop, pc>> /\ ~Ended
          /\ exit' = status /\ pc = "finish"
      BY <1>0, <1>7 DEF Finish, setup
    <2>2. Ended'
      BY <2>1 DEF Ended, TypeInv, Statuses, NotYet
    <2>3. ASSUME ~Excused', ~MayRun PROVE HostBlocks'
      <3>1. backstop # "write"
        BY <2>1, <2>3 DEF Excused
      <3>2. Refused(exit)'
        BY <2>1, <2>3, <3>1 DEF VerdictInv, Refused, Guessed, Says
      <3> QED BY <1>a, <2>3, <3>2
    <2> QED BY <1>0, <2>1, <2>2, <2>3, ClearedStays DEF VerdictInv, HostRuns
  <1>8. CASE BackstopClaim
    <2>1. UNCHANGED <<judged, pc>> /\ fault' # "none" /\ ~Ended
      BY <1>8 DEF BackstopClaim, ClaimInv
    <2>2. CASE claimed
      <3>1. exit' = 2 /\ Ended'
        BY <1>8, <2>2 DEF BackstopClaim, Ended, NotYet
      <3>2. Refused(exit)'
        BY <3>1 DEF Refused
      <3> QED BY <1>a, <3>1, <3>2 DEF VerdictInv, HostRuns
    <2>3. CASE ~claimed
      <3>1. UNCHANGED exit /\ backstop' = "write"
        BY <1>8, <2>3 DEF BackstopClaim
      <3> QED BY <2>1, <3>1 DEF VerdictInv, Ended, HostRuns
    <2> QED BY <2>2, <2>3
  <1>9. CASE BackstopWrite
    <2>1. /\ UNCHANGED <<req, held, hostReads, proto>> /\ fault' # "none" /\ ~Ended /\ docs = <<>>
          /\ docs' = Written(held, Doc(held, "unverified", cfg.denies)) /\ UNCHANGED pc
          /\ exit' = StatusOf(held, "unverified", Arrives(Doc(held, "unverified", cfg.denies)))
      BY <1>0, <1>9 DEF BackstopWrite, ClaimInv, AnswerInv, setup
    <2>2. Ended'
      BY <2>1, StatusType DEF Ended, NotYet
    <2>3. \/ exit' = 2
          \/ req.host # "reasonix" /\ Says' \cap Blocking # {}
          \/ Len(docs') = 1 /\ docs'[1].to = held /\ held \notin Reads(req.host)
      BY <2>1, AnswerRefuses
    <2>4. held \notin Reads(req.host) => pc \in {"read", "extract"} \/ req.form \in Unreadable
      <3>1. held # "off" /\ pc # "start"
        BY <1>9 DEF BackstopWrite, TypeInv, Protected, AnswerInv
      <3> QED BY <3>1, OwnDocs DEF AnswerInv, Early
    <2>5. Refused(exit)'
      BY <2>1, <2>3, <2>4 DEF Refused, Guessed
    <2> QED BY <1>a, <2>2, <2>5 DEF VerdictInv, HostRuns
  <1>10. ASSUME NEW t \in FaultyThreads, Panic(t) PROVE VerdictInv'
    <2>1. /\ UNCHANGED <<judged, pc, policy, req, proto, docs, status, hostReads>> /\ ~Ended
          /\ backstop = "idle"
      BY <1>0, <1>10 DEF Panic, ClaimInv, setup
    <2>2. CASE policy = "off"
      <3>1. Ended'
        BY <1>10, <2>2 DEF Panic, Ended, NotYet, Aborted
      <3>2. Excused' \/ MayRun
        BY <2>1, <2>2 DEF ScanInv, Excused
      <3> QED BY <1>0, <2>1, <3>1, <3>2, ClearedStays DEF VerdictInv
    <2>3. CASE policy # "off"
      <3>1. UNCHANGED exit
        BY <1>10, <2>3 DEF Panic
      <3> QED BY <1>0, <2>1, <3>1, ClearedStays, RefusedStays DEF VerdictInv, Ended, HostRuns
    <2> QED BY <2>2, <2>3
  <1>11. CASE Expire \/ HostCloses
    <2>1. /\ UNCHANGED <<judged, pc, exit, req, proto, docs, status, backstop>> /\ ~Ended
          /\ hostReads' => hostReads
      BY <1>0, <1>11 DEF Expire, HostCloses, setup
    <2> QED BY <1>0, <2>1, ClearedStays, RefusedStays DEF VerdictInv, Ended, HostRuns
  <1> QED
    BY <1>1, <1>2, <1>3, <1>4, <1>5, <1>6, <1>7, <1>8, <1>9, <1>10, <1>11 DEF Next, Main, Backstop

GuardInv == TypeInv /\ ClaimInv /\ AnswerInv /\ ScanInv /\ SalvageInv /\ VerdictInv

LEMMA Guarded == Spec => []GuardInv
  <1>1. Init => TypeInv /\ ClaimInv
    BY InitType DEF Init, TypeOK, TypeInv, Constant, Protected, Scanning, Flags, Statuses, Output,
       Trail, Documents, Words, ClaimInv
  <1>2. Init => AnswerInv /\ ScanInv /\ SalvageInv /\ VerdictInv
    BY InputsAssumption DEF Init, AnswerInv, ScanInv, SalvageInv, VerdictInv, Early, HostRuns, Ended
  <1>3. GuardInv /\ [Next]_vars => GuardInv'
    BY TypeStep, ClaimStep, AnswerStep, ScanStep, SalvageStep, VerdictStep DEF GuardInv
  <1> QED BY <1>1, <1>2, <1>3, PTL DEF Spec, GuardInv

\* For every host, every batch and every order in which the deadline, a panic
\* and a closed pipe may come, the host runs only what was read, judged and
\* found harmless, and nothing unreadable in fail-closed mode.
THEOREM NothingSlipsThrough == Spec => []GuardHolds
  <1>1. GuardInv => GuardHolds
    BY DEF GuardInv, VerdictInv, GuardHolds, MayRun, ClearedTo, Harmless, NoneHarmful
  <1> QED BY <1>1, Guarded, PTL

\* How far the scan of an unreadable payload falls short of "Deadline exhaustion
\* also returns a blocking decision" (main.rs:583): a payload the host runs had
\* all its windows judged, but for those no analysis can finish, and, once the
\* deadline has passed, the last one.  Any earlier window that time cut short is
\* answered for.
ScanBlocksButLast ==
    HostRuns /\ req.form \in Unreadable /\ ~Excused =>
        \A k \in 1..Last : \/ k \in judged \/ req.batch[k] = "unverifiable"
                           \/ expired /\ k = Last

\* So the comment is true of every request that ends before its deadline, and
\* the run that violates it needs a deadline that passes in the last window.
THEOREM ScanStopsShortOfLastOnly == Spec => [](ScanBlocksButLast /\ (expired \/ ExhaustedScanBlocks))
  <1> DEFINE NoWindows == req.form = "io" => req.batch = <<>>
  <1>1. Init => NoWindows
    BY DEF Init
  <1>2. NoWindows /\ [Next]_vars => NoWindows'
    BY SetupFixed DEF setup
  <1>3. GuardInv /\ NoWindows => ScanBlocksButLast
    BY DEF GuardInv, VerdictInv, ScanBlocksButLast, MayRun, ViewedTo, Viewed, Last
  <1>4. GuardInv /\ NoWindows => expired \/ ExhaustedScanBlocks
    <2> SUFFICES ASSUME GuardInv, NoWindows, ~expired, HostRuns, req.form \in Unreadable, ~Excused,
                        \A k \in 1..Last : req.batch[k] # "unverifiable"
                 PROVE  judged = 1..Last
      BY DEF ExhaustedScanBlocks
    <2>1. 1..Last \subseteq judged
      BY <1>3 DEF ScanBlocksButLast
    <2> QED BY <2>1 DEF GuardInv, TypeInv, Trail
  <1> HIDE DEF NoWindows
  <1> QED BY <1>1, <1>2, <1>3, <1>4, Guarded, PTL DEF Spec

--------------------------------------------------------------------------------
(* The answer is the strictest *)

\* A readable request that no panic disturbs: the main thread alone answers, and
\* with the protocol of the request.
Orderly == req.form = "shell" /\ fault = "none"
OrderlyInv ==
    /\ req.form = "shell" => req.batch # <<>>
    /\ req.form = "shell" /\ pc \notin {"start", "read", "extract"} => proto = Proto(req.host)
    /\ Orderly /\ Ended => pc = "finish" /\ exit = status
    /\ Orderly => \/ pc \in {"audit", "finish"} \/ (pc = "explicit" /\ claimed)
                  \/ docs = <<>> /\ status = 0
    /\ Orderly /\ pc \notin {"write", "audit", "explicit", "allowLine", "finish"} => ~claimed
    /\ pc \in {"start", "read", "extract"} => decisive = "allow"


LEMMA OrderlyStep ==
    TypeInv /\ ClaimInv /\ AnswerInv /\ OrderlyInv /\ [Next]_vars => OrderlyInv'
  <1> SUFFICES ASSUME TypeInv, ClaimInv, AnswerInv, OrderlyInv, [Next]_vars PROVE OrderlyInv'
    OBVIOUS
  <1>0. UNCHANGED setup /\ decisive \in DOMAIN Rank
    BY SetupFixed, Ranks DEF TypeInv, Scanning
  <1> USE DEF choice, panics, output, record, setup, Goto, At, OrderlyInv, Orderly
  <1>1. CASE UNCHANGED vars
    BY <1>0, <1>1 DEF vars, Ended
  <1>2. CASE Configure \/ Read
    BY <1>0, <1>2 DEF Configure, Read, Ended, Unreadable
  <1>3. CASE Extract
    BY <1>0, <1>3 DEF Extract, Ended
  <1>4. CASE Begin \/ Evaluate \/ EndBatch \/ Allowed
    <2>1. /\ UNCHANGED <<proto, fault, docs, status, claimed, exit>> /\ ~Ended
          /\ pc \in {"resolve", "evaluate", "allowed"}
          /\ pc' \in {"resolve", "evaluate", "allowed", "publish", "explicit", "finish"}
      <3>1. CASE Begin \/ Evaluate
        BY <3>1 DEF Begin, Evaluate, Collect
      <3>2. CASE EndBatch \/ Allowed
        BY <3>2 DEF EndBatch, Allowed
      <3> QED BY <1>4, <3>1, <3>2
    <2> QED BY <1>0, <2>1 DEF Ended
  <1>5. CASE Salvage \/ Window \/ EndSalvage \/ Unparsed
    <2>1. /\ req.form \in Unreadable
          /\ pc' \notin {"start", "read", "extract"}
      <3>1. CASE Salvage \/ Window
        BY <3>1 DEF Salvage, Window, AnswerInv
      <3>2. CASE EndSalvage \/ Unparsed
        BY <3>2 DEF EndSalvage, Unparsed, AnswerInv
      <3> QED BY <1>5, <3>1, <3>2
    <2> QED BY <1>0, <2>1 DEF Unreadable
  <1>6. CASE Publish \/ Claim
    <2>1. /\ UNCHANGED <<proto, fault, docs, exit>> /\ ~Ended
          /\ \/ pc = "publish" /\ pc' = "claim" /\ UNCHANGED <<claimed, status>>
             \/ pc = "claim" /\ ~claimed /\ pc' = "write" /\ UNCHANGED status
             \/ pc = "claim" /\ claimed /\ pc' = "audit"
      BY <1>6 DEF Publish, Claim
    <2> QED BY <1>0, <2>1 DEF Ended
  <1>7. CASE Write
    BY <1>0, <1>7 DEF Write, Ended
  <1>8. CASE Audit
    BY <1>0, <1>8 DEF Audit, Ended, ClaimInv
  <1>9. CASE ExplicitClaim
    BY <1>0, <1>9 DEF ExplicitClaim, Ended
  <1>10. CASE ExplicitWrite \/ Finish
    BY <1>0, <1>10 DEF ExplicitWrite, Finish, Ended
  <1>11. CASE Backstop \/ \E t \in FaultyThreads : Panic(t)
    <2>1. UNCHANGED <<pc, decisive, proto>> /\ fault' # "none"
      BY <1>11, InputsAssumption DEF Backstop, BackstopClaim, BackstopWrite, Panic, ClaimInv
    <2> QED BY <1>0, <2>1
  <1>12. CASE Expire \/ HostCloses
    BY <1>0, <1>12 DEF Expire, HostCloses, Ended
  <1> QED
    BY <1>1, <1>2, <1>3, <1>4, <1>5, <1>6, <1>7, <1>8, <1>9, <1>10, <1>11, <1>12 DEF Next, Main

\* Nor does time run out, the host close the pipe or an entry hit a limit.
Undisturbed ==
    /\ Orderly /\ ~expired /\ hostReads
    /\ \A k \in 1..Last : req.batch[k] # "unverifiable"

\* No entry up to n calls for a stricter outcome than o; one does call for o.
NoneStricter(o, n) == \A k \in 1..n : Rank[Strength(req.batch[k])] <= Rank[o]
Called(o, n) == \E k \in 1..n : Strength(req.batch[k]) = o
Strictest(o) == NoneStricter(o, Last) /\ Called(o, Last)

\* The host was told outcome o, and the exit status is its.
AnswerDoc(o)    == IF o = "allow" THEN Silent ELSE Doc(Proto(req.host), o, cfg.denies)
AnswerStatus(o) == IF o = "allow" THEN 0 ELSE StatusOf(Proto(req.host), o, TRUE)
Told(o) == Says \ {"allow"} = {AnswerDoc(o)} \ {Silent} /\ status = AnswerStatus(o)

\* The selection holds the strictest outcome of the entries scanned; what is
\* published and then told is the strictest of all.
SelectInv ==
    Undisturbed =>
        /\ pc \in {"resolve", "evaluate"} =>
               NoneStricter(decisive, i - 1) /\ (decisive = "allow" \/ Called(decisive, i - 1))
        /\ pc = "evaluate" => req.batch[i] # "oversized"
        /\ pc \in {"publish", "claim", "write", "audit"} => Strictest(decisive)
        /\ pc \in {"allowed", "allowLine"} => Strictest("allow")
        /\ pc = "audit" => Told(decisive)
        /\ pc = "explicit" =>
               IF claimed THEN decisive # "allow" /\ Strictest(decisive) /\ Told(decisive)
               ELSE Strictest("allow")
        /\ pc = "finish" => \E o \in DOMAIN Rank :
               Strictest(o) /\ Told(o) /\ (o = "allow" /\ Explicit(req.host) => Says = {"allow"})


LEMMA StrengthType ==
    ASSUME NEW v PROVE Strength(v) \in DOMAIN Rank /\ (Strength(v) = "unverified" => v = "unverifiable")
  BY Ranks DEF Strength, Outcome

\* An outcome of entry i, which it calls for, keeps the selection the strictest.
LEMMA CollectStrictest ==
    ASSUME TypeInv, i <= Last, UNCHANGED setup, NEW row, Collect(Strength(req.batch[i]), row),
           NoneStricter(decisive, i - 1), decisive = "allow" \/ Called(decisive, i - 1),
           req.batch[i] # "unverifiable"
    PROVE  /\ pc' \in {"resolve", "publish"}
           /\ pc' = "resolve" => /\ NoneStricter(decisive, i - 1)'
                                 /\ (decisive = "allow" \/ Called(decisive, i - 1))'
           /\ pc' = "publish" => Strictest(decisive)'
  <1> DEFINE o == Strength(req.batch[i])
  <1>1. /\ i \in 1..Last /\ Last \in Nat /\ decisive \in DOMAIN Rank /\ o \in DOMAIN Rank
        /\ o # "unverified" /\ Last' = Last /\ req' = req
    BY LastNat, StrengthType, Ranks DEF TypeInv, Scanning, setup, Last
  <1>2. \A e \in DOMAIN Rank : Rank[e] \in 0..4 /\ (Rank[e] = 4 => e = "deny")
    BY Ranks
  <1>3. \/ Rank[o] > Rank[decisive] /\ decisive' = o
        \/ Rank[o] <= Rank[decisive] /\ decisive' = decisive
    BY <1>1, <1>2 DEF Collect, choice
  <1>4. decisive' \in DOMAIN Rank /\ Rank[o] <= Rank[decisive'] /\ Rank[decisive] <= Rank[decisive']
    BY <1>1, <1>2, <1>3
  <1>5. ASSUME NEW k \in 1..i PROVE Rank[Strength(req.batch[k])] <= Rank[decisive']
    <2>1. CASE k = i
      BY <1>4, <2>1
    <2>2. CASE k # i
      <3>1. Rank[Strength(req.batch[k])] <= Rank[decisive]
        BY <1>1, <2>2 DEF NoneStricter
      <3> QED BY <1>1, <1>2, <1>4, <3>1, StrengthType
    <2> QED BY <2>1, <2>2
  <1>6. decisive' = "allow" \/ \E k \in 1..i : Strength(req.batch[k]) = decisive'
    BY <1>1, <1>3 DEF Called
  <1>7. CASE o = "deny"
    <2>1. decisive' = "deny" /\ pc' = "publish"
      BY <1>1, <1>2, <1>4, <1>7, Ranks DEF Collect, Goto
    <2>2. NoneStricter(decisive, Last)'
      BY <1>1, <1>2, <2>1, StrengthType, Ranks DEF NoneStricter
    <2>3. Called(decisive, Last)'
      BY <1>1, <1>6, <2>1 DEF Called
    <2> QED BY <2>1, <2>2, <2>3 DEF Strictest
  <1>8. CASE o # "deny"
    <2>1. pc' = "resolve" /\ i' = i + 1 /\ i' - 1 = i
      BY <1>1, <1>8 DEF Collect, Goto
    <2> QED BY <1>1, <1>5, <1>6, <2>1 DEF NoneStricter, Called
  <1> QED BY <1>7, <1>8

\* Words about the request alone do not change with the state.
LEMMA StrictestStays ==
    ASSUME UNCHANGED setup
    PROVE  /\ \A o : Strictest(o)' <=> Strictest(o)
           /\ \A o : AnswerDoc(o)' = AnswerDoc(o) /\ AnswerStatus(o)' = AnswerStatus(o)
           /\ \A o : UNCHANGED <<docs, status>> => (Told(o)' <=> Told(o))
           /\ Undisturbed' => (fault' = "none" /\ ~expired' /\ hostReads')
  BY DEF setup, Strictest, NoneStricter, Called, Last, AnswerDoc, AnswerStatus, Told, Says, Undisturbed, Orderly

LEMMA SelectStep ==
    TypeInv /\ ClaimInv /\ AnswerInv /\ ScanInv /\ OrderlyInv /\ SelectInv /\ [Next]_vars => SelectInv'
  <1> SUFFICES ASSUME TypeInv, ClaimInv, AnswerInv, ScanInv, OrderlyInv, SelectInv, [Next]_vars,
                      Undisturbed'
               PROVE  SelectInv'
    BY DEF SelectInv
  <1> USE DEF choice, panics, output, record, Goto, At
  <1>0. UNCHANGED setup /\ Last' = Last /\ Last \in Nat /\ Last >= 1 /\ i \in 1..(Last + 1)
        /\ (pc = "evaluate" => i <= Last)
    BY SetupFixed, LastNat DEF setup, Last, TypeInv, Constant, Scanning, OrderlyInv, Undisturbed, Orderly
  <1>1. Undisturbed
    <2>1. /\ fault' = "none" => fault = "none"
          /\ ~expired' => ~expired
          /\ hostReads' => hostReads
      <3>1. CASE Main \/ UNCHANGED vars
        <4>1. UNCHANGED <<fault, expired, hostReads>>
          BY <3>1 DEF Main, vars, Configure, Read, Extract, Begin, Evaluate, EndBatch, Allowed,
             Salvage, Window, EndSalvage, Unparsed, Publish, Claim, Write, Audit, ExplicitClaim,
             ExplicitWrite, Finish
        <4> QED BY <4>1
      <3>2. CASE Backstop \/ (\E t \in FaultyThreads : Panic(t)) \/ Expire \/ HostCloses
        BY <3>2 DEF Backstop, BackstopClaim, BackstopWrite, Panic, Expire, HostCloses
      <3> QED BY <3>1, <3>2 DEF Next
    <2> QED BY <1>0, <2>1 DEF Undisturbed, Orderly, setup
  <1>2. /\ req.form = "shell" /\ fault = "none" /\ ~expired /\ hostReads
        /\ \A k \in 1..Last : req.batch[k] # "unverifiable"
        /\ backstop = "idle"
    BY <1>1 DEF Undisturbed, Orderly, ClaimInv
  <1>3. CASE UNCHANGED vars
    BY <1>0, <1>1, <1>3, StrictestStays DEF SelectInv, vars, NoneStricter, Called, setup, Says
  <1>4. CASE Configure \/ Read
    <2>1. pc' \in {"read", "extract"}
      BY <1>2, <1>4 DEF Configure, Read, Unreadable
    <2> QED BY <2>1 DEF SelectInv
  <1>5. CASE Extract
    <2>1. pc = "extract" /\ decisive = "allow" /\ i = 1 /\ i' = 1
      BY <1>5 DEF Extract, OrderlyInv, ScanInv
    <2>2. CASE req.batch = <<"oversized">> /\ decisive' = "oversized" /\ pc' = "claim"
      <3>1. Last = 1 /\ req.batch[1] = "oversized"
        BY <2>2 DEF Last
      <3>2. Strictest("oversized")
        BY <3>1 DEF Strictest, NoneStricter, Called, Strength, Rank
      <3> QED BY <1>0, <2>2, <3>2, StrictestStays DEF SelectInv
    <2>3. CASE pc' = "resolve" /\ decisive' = decisive
      BY <2>1, <2>3 DEF SelectInv, NoneStricter
    <2> QED BY <1>2, <1>5, <2>2, <2>3 DEF Extract
  <1>6. CASE Begin
    <2>1. CASE pc' = "evaluate" /\ pc = "resolve" /\ UNCHANGED <<i, decisive>>
      BY <1>0, <1>1, <1>6, <2>1 DEF Begin, Collect, SelectInv, NoneStricter, Called, setup
    <2>2. CASE req.batch[i] = "oversized" /\ Collect("oversized", FALSE)
      <3>1. Strength(req.batch[i]) = "oversized" /\ i <= Last /\ pc = "resolve"
        BY <1>6, <2>2 DEF Begin, Strength
      <3>2. NoneStricter(decisive, i - 1) /\ (decisive = "allow" \/ Called(decisive, i - 1))
        BY <1>1, <3>1 DEF SelectInv
      <3> QED BY <1>0, <2>2, <3>1, <3>2, CollectStrictest DEF SelectInv
    <2> QED BY <1>2, <1>6, <2>1, <2>2 DEF Begin
  <1>7. CASE Evaluate
    <2>1. i \in 1..Last /\ pc = "evaluate"
      BY <1>0, <1>7 DEF Evaluate
    <2>2. req.batch[i] # "unverifiable" /\ req.batch[i] # "oversized"
      BY <1>1, <1>2, <2>1 DEF SelectInv
    <2>3. Strength(req.batch[i]) = Outcome(req.batch[i]) /\ ~GivesUp(req.batch[i])
      BY <1>2, <2>2 DEF Strength, GivesUp
    <2>4. Collect(Strength(req.batch[i]), req.batch[i] \in {"allow", "granted"})
      BY <1>7, <2>3 DEF Evaluate
    <2>5. NoneStricter(decisive, i - 1) /\ (decisive = "allow" \/ Called(decisive, i - 1))
      BY <1>1, <2>1 DEF SelectInv
    <2> QED BY <1>0, <2>1, <2>2, <2>4, <2>5, CollectStrictest DEF SelectInv
  <1>8. CASE EndBatch
    <2>1. /\ pc = "resolve" /\ i = Last + 1 /\ UNCHANGED decisive
          /\ \/ pc' = "publish" /\ decisive # "allow"
             \/ pc' = "allowed" /\ decisive = "allow"
      BY <1>0, <1>8 DEF EndBatch
    <2>2. NoneStricter(decisive, Last) /\ (decisive = "allow" \/ Called(decisive, Last))
      BY <1>0, <1>1, <2>1 DEF SelectInv
    <2>3. decisive = "allow" => Called("allow", Last)
      <3>1. ASSUME decisive = "allow" PROVE Strength(req.batch[1]) = "allow"
        <4>1. Rank[Strength(req.batch[1])] <= Rank["allow"]
          BY <1>0, <2>2, <3>1 DEF NoneStricter
        <4> QED BY <4>1, StrengthType, Ranks
      <3> QED BY <1>0, <3>1 DEF Called
    <2> QED BY <1>0, <2>1, <2>2, <2>3, StrictestStays DEF SelectInv, Strictest
  <1>9. CASE Allowed
    <2>1. /\ pc = "allowed" /\ UNCHANGED <<docs, status, claimed>> /\ ~claimed /\ docs = <<>> /\ status = 0
          /\ pc' = IF Explicit(req.host) THEN "explicit" ELSE "finish"
      BY <1>1, <1>9 DEF Allowed, OrderlyInv, Undisturbed
    <2>2. Strictest("allow")
      BY <1>1, <2>1 DEF SelectInv
    <2>3. Told("allow")'
      BY <2>1 DEF Told, Says, AnswerDoc, AnswerStatus
    <2> QED BY <1>0, <2>1, <2>2, <2>3, StrictestStays, Ranks DEF SelectInv, Explicit, setup
  <1>10. CASE Salvage \/ Window \/ EndSalvage \/ Unparsed
    <2>1. req.form \in Unreadable
      BY <1>10 DEF Salvage, Window, EndSalvage, Unparsed, AnswerInv
    <2> QED BY <1>2, <2>1 DEF Unreadable
  <1>11. CASE Publish \/ Claim
    <2>1. /\ pc \in {"publish", "claim"} /\ pc' \in {"claim", "write"} /\ UNCHANGED decisive
      <3>1. CASE Publish
        BY <3>1 DEF Publish
      <3>2. CASE Claim
        BY <1>1, <3>2 DEF Claim, OrderlyInv, Undisturbed
      <3> QED BY <1>11, <3>1, <3>2
    <2> QED BY <1>0, <1>1, <2>1, StrictestStays DEF SelectInv
  <1>12. CASE Write
    <2>1. /\ pc = "write" /\ pc' = "audit" /\ UNCHANGED decisive /\ docs = <<>>
          /\ proto = Proto(req.host) /\ decisive # "allow"
          /\ docs' = Written(proto, Doc(proto, decisive, cfg.denies))
          /\ status' = StatusOf(proto, decisive, Arrives(Doc(proto, decisive, cfg.denies)))
      BY <1>1, <1>2, <1>12 DEF Write, OrderlyInv, Undisturbed, TypeInv, Scanning
    <2>2. status' = AnswerStatus(decisive) /\ AnswerDoc(decisive) = Doc(proto, decisive, cfg.denies)
      BY <1>2, <2>1 DEF Arrives, AnswerStatus, AnswerDoc
    <2>3. Says' \ {"allow"} = {AnswerDoc(decisive)} \ {Silent}
      <3>1. AnswerDoc(decisive) \in {"deny", "ask", "proceed", Silent}
        BY <2>1, <2>2 DEF TypeInv, Scanning, Doc, DenyDoc, ReviewDoc, UnverifiedDoc, WarnDoc, Asks
      <3>2. CASE AnswerDoc(decisive) = Silent
        <4>1. Says' = {}
          BY <1>0, <2>1, <2>2, <3>2, SaidAfter DEF setup
        <4> QED BY <3>2, <4>1
      <3>3. CASE AnswerDoc(decisive) # Silent
        <4>2. Says' = {AnswerDoc(decisive)}
          BY <1>0, <1>2, <2>1, <2>2, <3>3, SaidAfter, OwnDocs DEF setup
        <4> QED BY <3>1, <3>3, <4>2 DEF Silent
      <3> QED BY <3>2, <3>3
    <2>4. Told(decisive)'
      BY <1>0, <2>1, <2>2, <2>3, StrictestStays DEF Told
    <2>5. Strictest(decisive)'
      BY <1>0, <1>1, <2>1, StrictestStays DEF SelectInv
    <2> QED BY <2>1, <2>4, <2>5 DEF SelectInv
  <1>13. CASE Audit
    <2>1. /\ pc = "audit" /\ UNCHANGED <<decisive, docs, status, claimed>> /\ claimed /\ decisive # "allow"
          /\ decisive \in DOMAIN Rank /\ pc' \in {"explicit", "finish"}
      BY <1>13, Ranks DEF Audit, ClaimInv, TypeInv, Scanning
    <2>2. Strictest(decisive) /\ Told(decisive)
      BY <1>1, <2>1 DEF SelectInv
    <2> QED BY <1>0, <2>1, <2>2, StrictestStays DEF SelectInv
  <1>14. CASE ExplicitClaim
    <2>1. /\ pc = "explicit" /\ UNCHANGED <<decisive, docs, status>> /\ claimed'
          /\ pc' = IF claimed THEN "finish" ELSE "allowLine"
      BY <1>14 DEF ExplicitClaim
    <2> QED BY <1>0, <1>1, <2>1, StrictestStays, Ranks DEF SelectInv, TypeInv, Scanning
  <1>15. CASE ExplicitWrite
    <2>1. /\ pc = "allowLine" /\ pc' = "finish" /\ docs = <<>> /\ status' = 0
          /\ docs' = Written(Proto(req.host), "allow")
      BY <1>1, <1>15 DEF ExplicitWrite, OrderlyInv, Undisturbed
    <2>3. Says' = {"allow"}
      BY <1>0, <1>2, <2>1, SaidAfter, OwnDocs DEF Silent, setup
    <2>4. Told("allow")'
      BY <2>1, <2>3 DEF Told, AnswerDoc, AnswerStatus
    <2>5. Strictest("allow")'
      BY <1>0, <1>1, <2>1, StrictestStays DEF SelectInv
    <2> QED BY <2>1, <2>3, <2>4, <2>5, Ranks DEF SelectInv, Rank
  <1>16. CASE Finish
    <2>1. pc = "finish" /\ UNCHANGED <<pc, decisive, docs, status, req>>
      BY <1>0, <1>16 DEF Finish, setup
    <2> QED BY <1>0, <1>1, <2>1, StrictestStays DEF SelectInv, Says
  <1>17. CASE Backstop \/ (\E t \in FaultyThreads : Panic(t)) \/ Expire \/ HostCloses
    <2>1. fault' # "none" \/ expired' \/ ~hostReads'
      BY <1>2, <1>17, InputsAssumption DEF Backstop, BackstopClaim, BackstopWrite, Panic, Expire, HostCloses
    <2> QED BY <2>1 DEF Undisturbed, Orderly
  <1> QED
    BY <1>3, <1>4, <1>5, <1>6, <1>7, <1>8, <1>9, <1>10, <1>11, <1>12, <1>13, <1>14, <1>15, <1>16, <1>17
    DEF Next, Main

--------------------------------------------------------------------------------
(* The history agrees *)

\* A denial is on record; the answer, as far as it is given, refuses.
DenyRow == \E k \in 1..Last : <<k, "deny">> \in rows
Refuses == status = 2 \/ Says \cap Blocking # {}
FirstOwn == <<1, "allow">> \in rows => req.batch[1] \in {"permitted", "log"}

AuditInv ==
    Orderly /\ cfg.history =>
        /\ pc \notin {"publish", "claim", "write", "audit", "explicit", "finish"} => ~DenyRow
        /\ pc \in {"publish"} => ~DenyRow /\ FirstOwn
        /\ pc \in {"start", "read", "extract", "resolve", "evaluate", "allowed"} => FirstOwn
        /\ pc \notin {"start", "read", "extract"} /\ decisive # "allow" => chosen \in 1..Last
        /\ pc \in {"claim", "write", "audit"} => FirstOwn /\ (DenyRow <=> decisive \in Blocking)
        /\ pc = "audit" => (Refuses <=> decisive # "warn")
        /\ pc \in {"explicit", "finish"} =>
               (DenyRow <=> Refuses /\ decisive # "oversized") /\ (Refuses => FirstOwn)

\* What an outcome adds to the selection: the entry, if it is stricter.
LEMMA CollectChoice ==
    ASSUME NEW o, NEW row, Collect(o, row), i \in 1..Last,
           decisive # "allow" => chosen \in 1..Last
    PROVE  decisive' # "allow" => chosen' \in 1..Last
  BY DEF Collect, choice

LEMMA AuditStep ==
    TypeInv /\ ClaimInv /\ AnswerInv /\ OrderlyInv /\ AuditInv /\ [Next]_vars => AuditInv'
  <1> SUFFICES ASSUME TypeInv, ClaimInv, AnswerInv, OrderlyInv, AuditInv, [Next]_vars,
                      Orderly', cfg'.history
               PROVE  AuditInv'
    BY DEF AuditInv
  <1> USE DEF choice, panics, output, record, Goto, At
  <1>0. /\ UNCHANGED setup /\ Last' = Last /\ Last \in Nat /\ Last >= 1 /\ i \in 1..(Last + 1)
        /\ (pc = "evaluate" => i <= Last) /\ cfg.history /\ req.form = "shell"
        /\ decisive \in DOMAIN Rank
    BY SetupFixed, LastNat, Ranks DEF setup, Last, TypeInv, Constant, Scanning, OrderlyInv, Orderly
  <1>1. Orderly /\ backstop = "idle"
    <2>1. fault' = "none" => fault = "none"
      <3>1. CASE Main \/ UNCHANGED vars \/ Expire \/ HostCloses
        BY <3>1 DEF Main, vars, Configure, Read, Extract, Begin, Evaluate, EndBatch, Allowed,
           Salvage, Window, EndSalvage, Unparsed, Publish, Claim, Write, Audit, ExplicitClaim,
           ExplicitWrite, Finish, Expire, HostCloses
      <3>2. CASE Backstop \/ (\E t \in FaultyThreads : Panic(t))
        BY <3>2 DEF Backstop, BackstopClaim, BackstopWrite, Panic
      <3> QED BY <3>1, <3>2 DEF Next
    <2> QED BY <1>0, <2>1 DEF Orderly, ClaimInv
  <1>2. \A k, o : Row(k, o) = {<<k, o>>}
    BY <1>0 DEF Row
  <1>3. CASE UNCHANGED vars \/ Expire \/ HostCloses
    <2>1. UNCHANGED <<pc, rows, status, docs, decisive, chosen, claimed>>
      BY <1>3 DEF vars, Expire, HostCloses
    <2> QED BY <1>0, <1>1, <2>1 DEF AuditInv, DenyRow, Refuses, FirstOwn, Says, setup
  <1>4. CASE Configure \/ Read
    <2>1. UNCHANGED <<rows, decisive, chosen>> /\ pc \in {"start", "read"} /\ pc' \in {"read", "extract"}
      BY <1>0, <1>4 DEF Configure, Read, Unreadable
    <2> QED BY <1>0, <1>1, <2>1 DEF AuditInv, DenyRow, FirstOwn, setup
  <1>5. CASE Extract
    <2>1. UNCHANGED rows /\ pc = "extract" /\ decisive = "allow"
          /\ \/ decisive' = "oversized" /\ chosen' = 1 /\ pc' = "claim"
             \/ decisive' = "allow" /\ pc' = "resolve"
      BY <1>0, <1>5 DEF Extract, OrderlyInv
    <2> QED BY <1>0, <1>1, <2>1 DEF AuditInv, DenyRow, FirstOwn, setup, Blocking
  <1>6. CASE Begin
    <2>1. i \in 1..Last /\ pc = "resolve" /\ pc' \in {"evaluate", "resolve", "publish"} /\ UNCHANGED rows
      BY <1>0, <1>6 DEF Begin, Collect
    <2>2. decisive' # "allow" => chosen' \in 1..Last
      <3>1. decisive # "allow" => chosen \in 1..Last
        BY <1>0, <1>1, <2>1 DEF AuditInv
      <3> QED BY <1>6, <2>1, <3>1, CollectChoice DEF Begin
    <2> QED BY <1>0, <1>1, <2>1, <2>2 DEF AuditInv, DenyRow, FirstOwn, setup
  <1>7. CASE Evaluate
    <2>1. /\ i \in 1..Last /\ pc = "evaluate" /\ pc' \in {"resolve", "publish"}
          /\ \/ UNCHANGED rows
             \/ rows' = rows \cup {<<i, "allow">>} /\ req.batch[i] \in {"permitted", "log"}
      BY <1>0, <1>2, <1>7 DEF Evaluate, Collect, Judge
    <2>2. decisive' # "allow" => chosen' \in 1..Last
      <3>1. decisive # "allow" => chosen \in 1..Last
        BY <1>0, <1>1, <2>1 DEF AuditInv
      <3> QED BY <1>7, <2>1, <3>1, CollectChoice DEF Evaluate
    <2>3. ~DenyRow' /\ FirstOwn'
      BY <1>0, <1>1, <2>1 DEF AuditInv, DenyRow, FirstOwn, setup
    <2> QED BY <1>0, <2>1, <2>2, <2>3 DEF AuditInv
  <1>8. CASE EndBatch
    <2>1. UNCHANGED <<rows, decisive, chosen>> /\ pc = "resolve" /\ pc' \in {"publish", "allowed"}
      BY <1>8 DEF EndBatch
    <2> QED BY <1>0, <1>1, <2>1 DEF AuditInv, DenyRow, FirstOwn, setup
  <1>9. CASE Allowed
    <2>1. /\ UNCHANGED <<decisive, chosen, docs, status>> /\ pc = "allowed" /\ pc' \in {"explicit", "finish"}
          /\ rows' \subseteq rows \cup {<<1, "allow">>}
      BY <1>2, <1>9 DEF Allowed
    <2>2. ~DenyRow'
      BY <1>0, <1>1, <2>1 DEF AuditInv, DenyRow
    <2>3. ~Refuses'
      BY <1>1, <2>1 DEF OrderlyInv, Refuses, Says
    <2> QED BY <1>0, <1>1, <2>1, <2>2, <2>3 DEF AuditInv
  <1>10. CASE Salvage \/ Window \/ EndSalvage \/ Unparsed
    <2>1. req.form \in Unreadable
      BY <1>10 DEF Salvage, Window, EndSalvage, Unparsed, AnswerInv
    <2> QED BY <1>0, <2>1 DEF Unreadable
  <1>11. CASE Publish
    <2>1. /\ pc = "publish" /\ pc' = "claim" /\ UNCHANGED <<decisive, chosen>> /\ decisive # "allow"
          /\ rows' = CASE decisive \in Blocking -> rows \cup {<<chosen, "deny">>}
                       [] decisive = "warn"     -> rows \cup {<<chosen, "warn">>}
                       [] OTHER                 -> rows
      BY <1>2, <1>11 DEF Publish, TypeInv, Scanning
    <2>2. chosen \in 1..Last /\ ~DenyRow /\ FirstOwn
      BY <1>0, <1>1, <2>1 DEF AuditInv
    <2>3. DenyRow' <=> decisive \in Blocking
      BY <1>0, <2>1, <2>2 DEF DenyRow, Blocking
    <2>4. FirstOwn'
      BY <1>0, <2>1, <2>2 DEF FirstOwn, setup
    <2> QED BY <1>0, <2>1, <2>2, <2>3, <2>4 DEF AuditInv
  <1>12. CASE Claim
    <2>1. pc = "claim" /\ pc' = "write" /\ UNCHANGED <<rows, decisive, chosen>>
      BY <1>1, <1>12 DEF Claim, OrderlyInv
    <2> QED BY <1>0, <1>1, <2>1 DEF AuditInv, DenyRow, FirstOwn, setup
  <1>13. CASE Write
    <2>1. /\ pc = "write" /\ pc' = "audit" /\ UNCHANGED <<rows, decisive, chosen>> /\ docs = <<>>
          /\ proto = Proto(req.host) /\ decisive # "allow" /\ UNCHANGED hostReads
          /\ docs' = Written(proto, Doc(proto, decisive, cfg.denies))
          /\ status' = StatusOf(proto, decisive, Arrives(Doc(proto, decisive, cfg.denies)))
      BY <1>0, <1>1, <1>13 DEF Write, OrderlyInv, TypeInv, Scanning
    <2> DEFINE doc == Doc(proto, decisive, cfg.denies)
    <2>2. Refuses' <=> decisive # "warn"
      <3>2. Says' \subseteq {doc} /\ (hostReads /\ doc # Silent => doc \in Says')
        <4>1. UNCHANGED req /\ docs' = Written(proto, doc) /\ proto \in Reads(req.host)
          BY <1>0, <2>1, OwnDocs DEF setup
        <4> HIDE DEF doc
        <4> QED BY <2>1, <4>1, SaidAfter
      <3>3. CASE decisive = "warn"
        <4>1. doc \notin Blocking /\ status' # 2
          BY <2>1, <3>3 DEF Doc, WarnDoc, Silent, StatusOf, Blocking
        <4> QED BY <3>2, <3>3, <4>1 DEF Refuses
      <3>4. CASE decisive # "warn"
        <4>1. decisive \in {"deny", "ask", "oversized", "unverified"}
          BY <1>0, <2>1, <3>4, Ranks
        <4>2. CASE proto = "reasonix" \/ ~hostReads
          <5>1. ~Arrives(doc) \/ proto = "reasonix"
            <6>1. proto # "reasonix" => doc # Silent
              BY <4>1, BlockingDoc
            <6> QED BY <4>2, <6>1 DEF Arrives
          <5>2. status' = 2
            BY <2>1, <3>4, <5>1 DEF StatusOf
          <5> QED BY <3>4, <5>2 DEF Refuses
        <4>3. CASE proto # "reasonix" /\ hostReads
          <5>1. doc \in Blocking /\ doc # Silent
            BY <4>1, <4>3, BlockingDoc
          <5> QED BY <3>2, <3>4, <4>3, <5>1 DEF Refuses
        <4> QED BY <4>2, <4>3
      <3> QED BY <3>3, <3>4
    <2> QED BY <1>0, <1>1, <2>1, <2>2 DEF AuditInv, DenyRow, FirstOwn, setup
  <1>14. CASE Audit
    <2>1. /\ pc = "audit" /\ pc' \in {"explicit", "finish"} /\ claimed'
          /\ UNCHANGED <<decisive, chosen, docs, status>> /\ decisive # "allow"
          /\ rows' = IF decisive = "unverified" THEN rows \cup {<<chosen, "deny">>} ELSE rows
      BY <1>2, <1>14 DEF Audit, TypeInv, Scanning, ClaimInv
    <2>2. /\ chosen \in 1..Last /\ FirstOwn /\ (DenyRow <=> decisive \in Blocking)
          /\ (Refuses <=> decisive # "warn")
      BY <1>0, <1>1, <2>1 DEF AuditInv
    <2>3. DenyRow' <=> decisive \in Blocking \cup {"unverified"}
      BY <1>0, <2>1, <2>2 DEF DenyRow
    <2>4. Refuses' <=> Refuses
      BY <1>0, <2>1, SaidBefore DEF Refuses, setup
    <2>5. FirstOwn'
      BY <1>0, <2>1, <2>2 DEF FirstOwn, setup
    <2> QED BY <1>0, <2>1, <2>2, <2>3, <2>4, <2>5, Ranks DEF AuditInv, Blocking
  <1>15. CASE ExplicitClaim
    <2>1. /\ pc = "explicit" /\ UNCHANGED <<rows, decisive, chosen, docs, status>>
          /\ pc' = IF claimed THEN "finish" ELSE "allowLine"
      BY <1>15 DEF ExplicitClaim
    <2>2. ~claimed => ~Refuses
      BY <1>1, <2>1 DEF OrderlyInv, Refuses, Says
    <2> QED BY <1>0, <1>1, <2>1, <2>2 DEF AuditInv, DenyRow, Refuses, FirstOwn, Says, setup
  <1>16. CASE ExplicitWrite
    <2>1. /\ pc = "allowLine" /\ pc' = "finish" /\ UNCHANGED <<rows, decisive, chosen>> /\ docs = <<>>
          /\ status' = 0 /\ docs' = Written(Proto(req.host), "allow")
      BY <1>1, <1>16 DEF ExplicitWrite, OrderlyInv
    <2>2. Says' \subseteq {"allow"}
      BY <1>0, <2>1, SaidAfter DEF Silent, setup
    <2>3. ~Refuses'
      BY <2>1, <2>2 DEF Refuses, Blocking
    <2> QED BY <1>0, <1>1, <2>1, <2>3 DEF AuditInv, DenyRow
  <1>17. CASE Finish
    <2>1. UNCHANGED <<pc, rows, decisive, chosen, docs, status, claimed>>
      BY <1>17 DEF Finish
    <2> QED BY <1>0, <1>1, <2>1 DEF AuditInv, DenyRow, Refuses, FirstOwn, Says, setup
  <1>18. CASE Backstop \/ \E t \in FaultyThreads : Panic(t)
    <2>1. fault' # "none"
      BY <1>1, <1>18, InputsAssumption DEF Backstop, BackstopClaim, BackstopWrite, Panic
    <2> QED BY <2>1 DEF Orderly
  <1> QED
    BY <1>3, <1>4, <1>5, <1>6, <1>7, <1>8, <1>9, <1>10, <1>11, <1>12, <1>13, <1>14, <1>15, <1>16,
       <1>17, <1>18
    DEF Next, Main

--------------------------------------------------------------------------------
(* The theorems about answers and history *)

AccountInv == TypeInv /\ ClaimInv /\ AnswerInv /\ ScanInv /\ OrderlyInv /\ SelectInv /\ AuditInv

LEMMA AccountInit == Init => AccountInv
  <1> SUFFICES ASSUME Init PROVE AccountInv
    OBVIOUS
  <1>1. TypeInv /\ ClaimInv
    BY InitType DEF Init, TypeOK, TypeInv, Constant, Protected, Scanning, Flags, Statuses, Output,
       Trail, Documents, Words, ClaimInv
  <1>2. AnswerInv /\ ScanInv
    BY InputsAssumption DEF Init, AnswerInv, ScanInv, Early
  <1>3. OrderlyInv /\ SelectInv /\ AuditInv
    BY DEF Init, OrderlyInv, SelectInv, AuditInv, DenyRow, FirstOwn, Ended
  <1> QED BY <1>1, <1>2, <1>3 DEF AccountInv

LEMMA Accounted == Spec => []AccountInv
  <1>1. AccountInv /\ [Next]_vars => AccountInv'
    BY TypeStep, ClaimStep, AnswerStep, ScanStep, OrderlyStep, SelectStep, AuditStep DEF AccountInv
  <1> QED BY <1>1, AccountInit, PTL DEF Spec

\* Left alone, the process answers with what the strictest entry calls for,
\* whatever its place in a batch of any length, on every host.
THEOREM StrictestAnswered == Spec => []AnswerIsStrictest
  <1>1. AccountInv => AnswerIsStrictest
    <2> SUFFICES ASSUME AccountInv, Ended, Undisturbed
                 PROVE  \E k \in 1..Last :
                            LET o == Strength(req.batch[k])
                                doc == IF o = "allow" THEN Silent ELSE Doc(Proto(req.host), o, cfg.denies) IN
                            /\ \A j \in 1..Last : Rank[Strength(req.batch[j])] <= Rank[o]
                            /\ Says \ {"allow"} = {doc} \ {Silent}
      BY DEF AnswerIsStrictest, Undisturbed, Orderly
    <2>1. PICK o \in DOMAIN Rank : Strictest(o) /\ Told(o)
      BY DEF AccountInv, OrderlyInv, SelectInv, Undisturbed
    <2>2. PICK k \in 1..Last : Strength(req.batch[k]) = o
      BY <2>1 DEF Strictest, Called
    <2> QED BY <2>1, <2>2 DEF Strictest, NoneStricter, Told, AnswerDoc
  <1> QED BY <1>1, Accounted, PTL

\* A warning among the entries of a host that wants its answers spelled out: the
\* one case in which a request that may proceed does not.
SpokenWarning == Explicit(req.host) /\ \E k \in 1..Last : req.batch[k] = "warn"

\* Every other request of which each entry may proceed runs, on every host and
\* for batches of any length.
THEOREM PermittedRuns == Spec => [](SpokenWarning \/ PermittedRequestRuns)
  <1>1. AccountInv => SpokenWarning \/ PermittedRequestRuns
    <2> SUFFICES ASSUME AccountInv, ~SpokenWarning, Ended, Orderly, ~expired, hostReads,
                        \A k \in 1..Last : req.batch[k] \in {"allow", "granted", "permitted", "log", "warn"}
                 PROVE  HostRuns
      BY DEF PermittedRequestRuns, Orderly
    <2>1. Undisturbed
      BY DEF Undisturbed
    <2>2. PICK o \in DOMAIN Rank : /\ Strictest(o) /\ Told(o) /\ exit = status
                                   /\ o = "allow" /\ Explicit(req.host) => Says = {"allow"}
      BY <2>1 DEF AccountInv, OrderlyInv, SelectInv
    <2>3. PICK k \in 1..Last : Strength(req.batch[k]) = o
      BY <2>2 DEF Strictest, Called
    <2>4. o = "allow" \/ (o = "warn" /\ ~Explicit(req.host))
      BY <2>3 DEF Strength, Outcome, SpokenWarning
    <2>5. Says \cap Blocking = {}
      BY <2>2, <2>4 DEF Told, AnswerDoc, Doc, WarnDoc, Silent, Blocking
    <2>6. exit # 2 /\ (o = "allow" => exit = 0)
      BY <2>2, <2>4 DEF Told, AnswerStatus, StatusOf
    <2> QED BY <2>2, <2>4, <2>5, <2>6 DEF HostRuns, HostBlocks, Explicit
  <1> QED BY <1>1, Accounted, PTL

\* Also when time runs out, an entry hits a limit or the pipe is closed, the
\* history shows a denial exactly when the request was refused for what it holds.
THEOREM HistoryAgrees == Spec => []AuditAgrees
  <1>1. AccountInv => AuditAgrees
    <2> SUFFICES ASSUME AccountInv, Ended, Orderly, cfg.history
                 PROVE  LET refused == exit = 2 \/ Says \cap Blocking # {}
                            sized == decisive = "oversized" IN
                        /\ (\E k \in 1..Last : <<k, "deny">> \in rows) <=> refused /\ ~sized
                        /\ refused => (<<1, "allow">> \in rows => req.batch[1] \in {"permitted", "log"})
      BY DEF AuditAgrees, Orderly
    <2>1. pc = "finish" /\ exit = status
      BY DEF AccountInv, OrderlyInv
    <2> QED BY <2>1 DEF AccountInv, AuditInv, DenyRow, Refuses, FirstOwn
  <1> QED BY <1>1, Accounted, PTL

--------------------------------------------------------------------------------
(* A request takes a bounded number of steps *)

\* Steps the main thread may still take: two for each entry left, and those
\* that follow the scan.
Left == Last + 1 - i
Ahead ==
    CASE pc = "start"     -> 2 * Last + 14
      [] pc = "read"      -> 2 * Last + 13
      [] pc = "extract"   -> 2 * Last + 12
      [] pc \in {"resolve", "salvage"}  -> 2 * Left + 9
      [] pc \in {"evaluate", "window"}  -> 2 * Left + 8
      [] pc \in {"allowed", "unparsed"} -> 8
      [] pc = "publish"   -> 7
      [] pc = "claim"     -> 6
      [] pc = "write"     -> 5
      [] pc = "audit"     -> 4
      [] pc = "explicit"  -> 3
      [] pc = "allowLine" -> 2
      [] pc = "finish"    -> 1

\* Steps of the others: a panic and its hook, the deadline, the host, the end.
Once(b) == IF b THEN 1 ELSE 0
Answers == CASE backstop = "idle"  -> 3
             [] backstop = "claim" -> 2
             [] backstop = "write" -> 1
             [] backstop = "done"  -> 0
Add(a, b, c, d, e) == a + b + c + d + e
Others == Add(Once(fault = "none"), Once(~expired), Once(hostReads), Once(~Ended), Answers)
Fuel == Ahead + Others

LEMMA SumLess == \A a, b, c, d \in Nat : (a < b /\ c <= d) => (a + c < b + d /\ c + a < d + b)
  OBVIOUS

LEMMA AddLess ==
    \A a, b, c, d, e, p, q, r, s, t \in Nat :
        /\ a <= p /\ b <= q /\ c <= r /\ d <= s /\ e <= t
        /\ a < p \/ b < q \/ c < r \/ d < s \/ e < t
        => Add(a, b, c, d, e) < Add(p, q, r, s, t)
  BY DEF Add

FuelOK ==
    /\ Last \in Nat /\ i \in 1..(Last + 1) /\ Left \in 0..Last
    /\ Ahead \in 1..(2 * Last + 14) /\ Answers \in 0..3 /\ Others \in 0..7

LEMMA FuelType == TypeInv => FuelOK
  <1> SUFFICES ASSUME TypeInv PROVE FuelOK
    OBVIOUS
  <1>1. Last \in Nat /\ i \in 1..(Last + 1)
    BY LastNat DEF TypeInv, Scanning
  <1>2. Left \in 0..Last
    BY <1>1 DEF Left
  <1>3. Ahead \in 1..(2 * Last + 14)
    <2>1. CASE pc \in {"resolve", "salvage", "evaluate", "window"}
      <3>1. Ahead = 2 * Left + 9 \/ Ahead = 2 * Left + 8
        BY <2>1 DEF Ahead
      <3> QED BY <1>1, <1>2, <3>1
    <2>2. CASE pc \notin {"resolve", "salvage", "evaluate", "window"}
      <3>1. pc \in {"start", "read", "extract", "allowed", "unparsed", "publish", "claim", "write",
                     "audit", "explicit", "allowLine", "finish"}
        BY <2>2 DEF TypeInv, Scanning
      <3>2. CASE pc \in {"start", "read", "extract"}
        <4>1. Ahead \in {2 * Last + 14, 2 * Last + 13, 2 * Last + 12}
          BY <3>2 DEF Ahead
        <4> QED BY <1>1, <4>1
      <3>3. CASE pc \notin {"start", "read", "extract"}
        <4>1. Ahead \in {8, 7, 6, 5, 4, 3, 2, 1}
          BY <3>1, <3>3 DEF Ahead
        <4> QED BY <1>1, <4>1
      <3> QED BY <3>2, <3>3
    <2> QED BY <2>1, <2>2
  <1>4. Answers \in 0..3
    BY DEF Answers, TypeInv, Protected
  <1>5. Others \in 0..7
    <2>1. \A b : Once(b) \in 0..1
      BY DEF Once
    <2> HIDE DEF Once
    <2>2. \A a, b, c, d \in 0..1, e \in 0..3 : a + b + c + d + e \in 0..7
      OBVIOUS
    <2> QED BY <1>4, <2>1, <2>2 DEF Others, Add
  <1> QED BY <1>1, <1>2, <1>3, <1>4, <1>5 DEF FuelOK

LEMMA FuelNext == TypeInv' => FuelOK'
  BY FuelType, PTL

\* Something other than the main thread goes on.
Kept == /\ fault = "none" \/ fault' # "none"
        /\ expired => expired'
        /\ hostReads' => hostReads
        /\ Ended => Ended'
        /\ Answers' <= Answers
Spent == \/ fault = "none" /\ fault' # "none"
         \/ ~expired /\ expired'
         \/ hostReads /\ ~hostReads'
         \/ ~Ended /\ Ended'
         \/ Answers' < Answers

LEMMA SpentFuel == TypeInv /\ TypeInv' /\ Kept /\ Spent => Others' < Others
  <1> SUFFICES ASSUME TypeInv, TypeInv', Kept, Spent PROVE Others' < Others
    OBVIOUS
  <1> DEFINE a == Once(fault = "none")
             b == Once(~expired)
             c == Once(hostReads)
             d == Once(~Ended)
  <1>1. a \in Nat /\ b \in Nat /\ c \in Nat /\ d \in Nat /\ a' \in Nat /\ b' \in Nat /\ c' \in Nat /\ d' \in Nat
    BY DEF Once
  <1>2. Answers \in Nat /\ Answers' \in Nat
    BY FuelType, FuelNext DEF FuelOK
  <1>3. a' <= a /\ b' <= b /\ c' <= c /\ d' <= d
    BY DEF Once, Kept
  <1>4. a' < a \/ b' < b \/ c' < c \/ d' < d \/ Answers' < Answers
    BY DEF Once, Spent
  <1>5. Others = Add(a, b, c, d, Answers) /\ Others' = Add(a', b', c', d', Answers')
    BY DEF Others
  <1>6. Answers' <= Answers
    BY DEF Kept
  <1> HIDE DEF a, b, c, d
  <1> QED BY <1>1, <1>2, <1>3, <1>4, <1>5, <1>6, AddLess

\* The main thread.
LEMMA MainFuel == TypeInv /\ Main => Fuel' < Fuel
  <1> SUFFICES ASSUME TypeInv, Main PROVE Fuel' < Fuel
    OBVIOUS
  <1>0. Main => Next
    BY DEF Next
  <1>1. TypeInv' /\ Last' = Last /\ Last \in Nat /\ i \in 1..(Last + 1)
    BY <1>0, TypeStep, SetupFixed, LastNat DEF TypeInv, Scanning, setup, Last
  <1>2. /\ Ahead \in Nat /\ Others \in Nat /\ Left \in Nat
        /\ Ahead' \in Nat /\ Others' \in Nat /\ Left' \in Nat
    BY <1>1, FuelType, FuelNext DEF FuelOK
  <1> USE DEF choice, panics, output, record, Goto, At
  <1>3. CASE Finish
    <2>1. UNCHANGED <<pc, i, expired, hostReads, fault, backstop>> /\ ~Ended /\ Ended'
      BY <1>3 DEF Finish, TypeInv, Statuses, Ended, NotYet
    <2>2. Ahead' <= Ahead
      <3>1. Ahead' = Ahead
        BY <1>1, <2>1 DEF Ahead, Left
      <3> QED BY <1>2, <3>1
    <2>3. Kept /\ Spent
      <3>1. Answers' = Answers
        BY <2>1 DEF Answers
      <3>2. Answers' <= Answers
        BY <3>1, FuelType DEF FuelOK
      <3> QED BY <2>1, <3>2 DEF Kept, Spent
    <2>4. Others' < Others
      BY <1>1, <2>3, SpentFuel
    <2> QED BY <1>2, <2>2, <2>4, SumLess DEF Fuel
  <1>4. CASE ~Finish
    <2>1. Others' = Others
      <3>1. UNCHANGED <<exit, expired, hostReads, fault, backstop>>
        BY <1>4 DEF Main, Configure, Read, Extract, Begin, Evaluate, EndBatch, Allowed, Salvage, Window,
                    EndSalvage, Unparsed, Publish, Claim, Write, Audit, ExplicitClaim, ExplicitWrite
      <3> QED BY <3>1 DEF Others, Answers, Ended
    <2> Others' <= Others
      BY <1>2, <2>1
    <2>2. CASE Configure \/ Read \/ Extract
      <3>1. i' = i /\ \/ pc = "start" /\ pc' = "read"
                      \/ pc = "read" /\ pc' \in {"extract", "unparsed", "salvage"}
                      \/ pc = "extract" /\ pc' \in {"explicit", "finish", "claim", "resolve"}
        BY <2>2 DEF Configure, Read, Extract
      <3>2. Ahead' < Ahead
        BY <1>1, <3>1 DEF Ahead, Left
      <3> QED BY <1>2, <3>2, SumLess DEF Fuel
    <2>3. CASE Begin \/ Evaluate \/ Salvage \/ Window
      <3>1. i <= Last
        BY <2>3 DEF Begin, Evaluate, Salvage, Window, TypeInv, Scanning
      <3>2. /\ pc \in {"resolve", "evaluate", "salvage", "window"}
            /\ \/ pc' = "publish"
               \/ pc' \in {"resolve", "salvage"} /\ i' = i + 1
               \/ i' = i /\ pc = "resolve" /\ pc' = "evaluate"
               \/ i' = i /\ pc = "salvage" /\ pc' = "window"
        BY <2>3 DEF Begin, Evaluate, Salvage, Window, Collect
      <3>3. Ahead' < Ahead
        BY <1>1, <3>1, <3>2 DEF Ahead, Left
      <3> QED BY <1>2, <3>3, SumLess DEF Fuel
    <2>4. CASE EndBatch \/ Allowed \/ EndSalvage \/ Unparsed
      <3>1. \/ pc = "resolve" /\ pc' \in {"publish", "allowed"}
            \/ pc = "allowed" /\ pc' \in {"explicit", "finish"}
            \/ pc = "salvage" /\ pc' = "unparsed"
            \/ pc = "unparsed" /\ pc' \in {"claim", "finish"}
        BY <2>4 DEF EndBatch, Allowed, EndSalvage, Unparsed
      <3>2. Ahead' < Ahead
        BY <1>1, <1>2, <3>1 DEF Ahead
      <3> QED BY <1>2, <3>2, SumLess DEF Fuel
    <2>5. CASE Publish \/ Claim \/ Write \/ Audit \/ ExplicitClaim \/ ExplicitWrite
      <3>1. \/ pc = "publish" /\ pc' = "claim"
            \/ pc = "claim" /\ pc' \in {"audit", "write"}
            \/ pc = "write" /\ pc' = "audit"
            \/ pc = "audit" /\ pc' \in {"explicit", "finish"}
            \/ pc = "explicit" /\ pc' \in {"finish", "allowLine"}
            \/ pc = "allowLine" /\ pc' = "finish"
        BY <2>5 DEF Publish, Claim, Write, Audit, ExplicitClaim, ExplicitWrite
      <3>2. Ahead' < Ahead
        BY <3>1 DEF Ahead
      <3> QED BY <1>2, <3>2, SumLess DEF Fuel
    <2> QED BY <1>4, <2>2, <2>3, <2>4, <2>5 DEF Main
  <1> QED BY <1>3, <1>4

LEMMA FuelStep == TypeInv /\ ClaimInv /\ Next => Fuel' < Fuel
  <1> SUFFICES ASSUME TypeInv, ClaimInv, Next PROVE Fuel' < Fuel
    OBVIOUS
  <1>1. CASE Main
    BY <1>1, MainFuel
  <1>2. CASE ~Main
    <2> USE DEF output, panics, setup
    <2>1. UNCHANGED <<req, pc, i>>
      BY <1>2 DEF Next, Backstop, BackstopClaim, BackstopWrite, Panic, Expire, HostCloses
    <2>2. Ahead' = Ahead
      BY <2>1 DEF Ahead, Left, Last
    <2> Ahead' <= Ahead
      BY <2>2, FuelType DEF FuelOK
    <2>3. TypeInv' /\ ~Ended
      BY TypeStep, LiveStep
    <2>4. ASSUME Backstop PROVE Others' < Others
      <3>1. Ended' \/ exit' = exit
        BY <2>4, <2>3 DEF Backstop, BackstopClaim, BackstopWrite, Ended, NotYet, StatusOf
      <3>2. UNCHANGED <<fault, expired, hostReads>>
        BY <2>4 DEF Backstop, BackstopClaim, BackstopWrite
      <3>3. \/ backstop = "claim" /\ backstop' \in {"write", "done"}
            \/ backstop = "write" /\ backstop' = "done"
        BY <2>4 DEF Backstop, BackstopClaim, BackstopWrite
      <3>4. Answers' < Answers
        BY <3>3 DEF Answers
      <3>5. Answers' <= Answers
        BY <2>3, <3>3 DEF Answers
      <3>6. Kept /\ Spent
        BY <2>3, <3>1, <3>2, <3>4, <3>5 DEF Kept, Spent, Ended
      <3> QED BY <2>3, <3>6, SpentFuel
    <2>5. ASSUME NEW t \in FaultyThreads, Panic(t) PROVE Others' < Others
      <3>1. UNCHANGED <<expired, hostReads>> /\ fault = "none" /\ fault' # "none"
        BY <2>5, InputsAssumption DEF Panic
      <3>2. backstop = "idle" /\ backstop' \in {"idle", "claim"}
        BY <2>5 DEF Panic, ClaimInv
      <3>3. Answers' <= Answers
        BY <3>2 DEF Answers
      <3>4. Kept /\ Spent
        BY <2>3, <3>1, <3>3 DEF Kept, Spent
      <3> QED BY <2>3, <3>4, SpentFuel
    <2>6. ASSUME Expire \/ HostCloses PROVE Others' < Others
      <3>1. /\ UNCHANGED <<fault, backstop, exit>>
            /\ \/ ~expired /\ expired' /\ hostReads' = hostReads
               \/ hostReads /\ ~hostReads' /\ expired' = expired
        BY <2>6 DEF Expire, HostCloses
      <3>2. Ended' = Ended
        BY <3>1 DEF Ended
      <3>3. Answers' <= Answers
        <4>1. Answers' = Answers
          BY <3>1 DEF Answers
        <4> QED BY <4>1, FuelType DEF FuelOK
      <3>4. Kept /\ Spent
        BY <2>3, <3>1, <3>2, <3>3 DEF Kept, Spent
      <3> QED BY <2>3, <3>4, SpentFuel
    <2>7. Others' < Others
      BY <1>2, <2>4, <2>5, <2>6 DEF Next
    <2>8. Ahead \in Nat /\ Ahead' \in Nat /\ Others \in Nat /\ Others' \in Nat
      BY <2>3, FuelType, FuelNext DEF FuelOK
    <2> QED BY <2>7, <2>8, SumLess DEF Fuel
  <1> QED BY <1>1, <1>2

\* While the process lives, the main thread or the panic hook can take a step.
SomeoneGoesOn == Ended \/ fault # "main" \/ backstop \in {"claim", "write"}

LEMMA GoesOnStep == TypeInv /\ ClaimInv /\ SomeoneGoesOn /\ [Next]_vars => SomeoneGoesOn'
  <1> SUFFICES ASSUME TypeInv, ClaimInv, SomeoneGoesOn, [Next]_vars PROVE SomeoneGoesOn'
    OBVIOUS
  <1> USE DEF SomeoneGoesOn, panics, output, Ended
  <1>1. CASE UNCHANGED vars \/ Expire \/ HostCloses
    BY <1>1 DEF vars, Expire, HostCloses
  <1>2. CASE Main
    BY <1>2 DEF Main, Configure, Read, Extract, Begin, Evaluate, EndBatch, Allowed, Salvage, Window,
                EndSalvage, Unparsed, Publish, Claim, Write, Audit, ExplicitClaim, ExplicitWrite, Finish, At
  <1>3. CASE Backstop
    BY <1>3 DEF Backstop, BackstopClaim, BackstopWrite, NotYet, StatusOf
  <1>4. CASE \E t \in FaultyThreads : Panic(t)
    BY <1>4 DEF Panic, NotYet, Aborted
  <1> QED BY <1>1, <1>2, <1>3, <1>4 DEF Next

\* A request ends after at most 2 * Last + 21 steps, whatever panics, the
\* deadline and the host do: every step uses one up, and none is spent while
\* neither thread can go on (the scan of main.rs:2339-2346 moves by one entry a
\* round; the backstop answers once).  With the fairness of Spec this is what
\* EveryRequestEnds rests on.
THEOREM RequestsAreShort ==
    Spec => [](Fuel \in 0..(2 * Last + 21) /\ SomeoneGoesOn) /\ [][Fuel' < Fuel]_vars
  <1>1. Init => TypeInv /\ ClaimInv /\ SomeoneGoesOn
    BY AccountInit DEF Init, AccountInv, SomeoneGoesOn
  <1>2. TypeInv /\ ClaimInv /\ SomeoneGoesOn /\ [Next]_vars => (TypeInv /\ ClaimInv /\ SomeoneGoesOn)'
    BY TypeStep, ClaimStep, GoesOnStep
  <1>3. TypeInv => Fuel \in 0..(2 * Last + 21)
    <2> SUFFICES ASSUME TypeInv PROVE Fuel \in 0..(2 * Last + 21)
      OBVIOUS
    <2>1. Last \in Nat
      BY LastNat DEF TypeInv
    <2> QED BY <2>1, FuelType DEF Fuel, FuelOK
  <1>4. TypeInv /\ ClaimInv /\ [Next]_vars => [Fuel' < Fuel]_vars
    BY FuelStep
  <1> QED BY <1>1, <1>2, <1>3, <1>4, PTL DEF Spec
================================================================================
