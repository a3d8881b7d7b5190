------------------------- MODULE HistoryWriterProofs -------------------------
(***************************************************************************)
(* Theorems about HistoryWriter, for any batch size, way of dropping the   *)
(* writer, number of entries and requests, and pattern of failures.        *)
(*                                                                         *)
(* First what a step of the worker comes to and the types, then that a     *)
(* flush is a barrier, that rows are in order and losses have causes, and  *)
(* that a dropped writer's worker is soon done.                            *)
(***************************************************************************)
EXTENDS HistoryWriter, TLAPS

\* Positions of a sequence hold members of its set.
LEMMA Elements ==
    ASSUME NEW S, NEW s \in Seq(S)
    PROVE  Len(s) \in Nat /\ DOMAIN s = 1..Len(s) /\ \A k \in DOMAIN s : s[k] \in S
OBVIOUS

-------------------------------------------------------------------------------
(* What the parts of a worker step come to                                 *)

\* The worker writes its batch.
Writes == worker \in {"insert", "single", "recover"}

\* A batch is done with.
Ends(off) ==
    /\ dropped' = dropped \cup (Entries(batch) \ Entries(rows'))
    /\ disabled' = off /\ batch' = <<>> /\ pos' = 1 /\ retried' = FALSE /\ why' = Nothing
    /\ acked' = IF why.kind = "flush" THEN acked \cup {why.n} ELSE acked
    /\ worker' = IF why.kind = "shutdown" THEN "gone" ELSE "receive"
    /\ timer' = FALSE

\* It is still being written.
GoesOn ==
    /\ UNCHANGED <<why, batch, timer, disabled, dropped, acked>>
    /\ worker' \in {"insert", "single", "recover"}
    /\ \/ pos' = pos \/ pos' = 1
       \/ pos \in DOMAIN batch /\ pos' = pos + 1
    /\ retried' \in {retried, TRUE}

\* Rows that a step of the writing worker adds: none, one, or the batch.
Adds ==
    \/ rows' = rows
    \/ pos \in DOMAIN batch /\ rows' = Append(rows, batch[pos])
    \/ rows' = rows \o batch

\* The strengthening of the type invariant: messages name what was sent, a
\* batch being gathered is not full.
TypeInv ==
    /\ TypeOK
    /\ \A k \in DOMAIN queue :
          /\ queue[k].kind = "entry" => queue[k].n \in 1..sent
          /\ queue[k].kind = "flush" => queue[k].n \in DOMAIN asked
    /\ why.kind = "flush" => why.n \in DOMAIN asked
    /\ worker = "receive" => Len(batch) < BatchSize
    /\ worker = "opening" => batch = <<>> /\ pos = 1 /\ ~retried

LEMMA WriteKinds ==
    ASSUME TypeInv, Insert \/ Single \/ Recover
    PROVE  /\ Writes /\ Adds /\ UNCHANGED <<queue, sender>>
           /\ GoesOn \/ \E off \in BOOLEAN : Ends(off)
<1>1. pos \in 1..(Len(batch) + 1) /\ batch \in Seq(1..sent) /\ retried \in BOOLEAN
      /\ disabled \in BOOLEAN
  BY DEF TypeInv, TypeOK
<1>2. pos <= Len(batch) => pos \in DOMAIN batch
  BY <1>1
<1>3. \A off : Finish(off) => Ends(off)
  BY DEF Finish, Ends
<1>4. Refused /\ Writes => GoesOn \/ \E off \in BOOLEAN : Ends(off)
  BY <1>3 DEF Refused, Goto, GoesOn
<1>5. CASE Insert
  <2>1. CASE (disabled \/ batch = <<>>) /\ rows' = rows /\ Finish(disabled)
    BY <1>1, <1>3, <1>5, <2>1 DEF Insert, Writes, Adds
  <2>2. CASE ~disabled /\ Len(batch) >= 2
    <3>1. CASE rows' = rows \o batch /\ Finish(FALSE)
      BY <1>3, <1>5, <3>1 DEF Insert, Writes, Adds
    <3>2. CASE Refused
      BY <1>4, <1>5, <3>2 DEF Insert, Writes, Adds, Refused
    <3>3. CASE Goto("single") /\ UNCHANGED <<rows, pos, retried>>
      BY <1>5, <3>3 DEF Insert, Writes, Adds, Goto, GoesOn
    <3>4. \/ rows' = rows \o batch /\ Finish(FALSE)
          \/ Refused
          \/ Goto("single") /\ UNCHANGED <<rows, pos, retried>>
          \/ batch = <<>> /\ rows' = rows /\ Finish(disabled)
      BY <1>5, <2>2 DEF Insert
    <3>5. batch # <<>>
      BY <2>2
    <3>6. QED BY <3>1, <3>2, <3>3, <3>4, <3>5
  <2>3. CASE Goto("single") /\ UNCHANGED <<rows, pos, retried>>
    BY <1>5, <2>3 DEF Insert, Writes, Adds, Goto, GoesOn
  <2>4. QED BY <1>5, <2>1, <2>2, <2>3 DEF Insert
<1>6. CASE Single
  <2>1. CASE \E b \in BOOLEAN : Write(b)
    BY <1>2, <1>6, <2>1 DEF Single, Write, Writes, Adds, Goto, GoesOn
  <2>2. CASE \A b \in BOOLEAN : ~Write(b)
    BY <1>3, <1>4, <1>6, <2>2 DEF Single, Writes, Adds, Refused
  <2>3. QED BY <2>1, <2>2
<1>7. CASE Recover
  BY <1>3, <1>7 DEF Recover, Writes, Adds, Goto, GoesOn
<1>8. QED BY <1>5, <1>6, <1>7

\* Rows are only added, and come from the batch.
LEMMA AddedRows ==
    ASSUME TypeInv, Adds
    PROVE  /\ rows' \in Seq(1..sent)
           /\ Entries(rows) \subseteq Entries(rows')
           /\ Entries(rows') \subseteq Entries(rows) \cup Entries(batch)
<1>1. rows \in Seq(1..sent) /\ batch \in Seq(1..sent)
  BY DEF TypeInv, TypeOK
<1>2. CASE rows' = rows
  BY <1>1, <1>2
<1>3. CASE pos \in DOMAIN batch /\ rows' = Append(rows, batch[pos])
  <2>1. batch[pos] \in 1..sent
    BY <1>1, <1>3, Elements
  <2>2. /\ DOMAIN rows' = 1..(Len(rows) + 1)
        /\ \A k \in DOMAIN rows : rows'[k] = rows[k]
        /\ rows'[Len(rows) + 1] = batch[pos]
    BY <1>1, <1>3, <2>1
  <2>3. rows' \in Seq(1..sent) /\ DOMAIN rows = 1..Len(rows)
    BY <1>1, <1>3, <2>1
  <2>4. \A k \in DOMAIN rows : k \in DOMAIN rows'
    BY <1>1, <2>2, <2>3
  <2>5. \A k \in DOMAIN rows' : k \in DOMAIN rows \/ k = Len(rows) + 1
    BY <1>1, <2>2, <2>3
  <2>6. \A k \in DOMAIN rows' : rows'[k] \in Entries(rows) \cup Entries(batch)
    BY <1>3, <2>2, <2>5 DEF Entries
  <2>7. Entries(rows) \subseteq Entries(rows')
    BY <2>2, <2>4 DEF Entries
  <2>8. QED BY <2>3, <2>6, <2>7 DEF Entries
<1>4. CASE rows' = rows \o batch
  <2>1. rows' \in Seq(1..sent) /\ Len(rows') = Len(rows) + Len(batch)
    BY <1>1, <1>4
  <2>2. \A k \in 1..Len(rows) : rows'[k] = rows[k]
    BY <1>1, <1>4
  <2>3. \A k \in (Len(rows) + 1)..(Len(rows) + Len(batch)) : rows'[k] = batch[k - Len(rows)]
    BY <1>1, <1>4
  <2>4. \A k \in DOMAIN rows : k \in DOMAIN rows'
    BY <1>1, <2>1
  <2>5. \A k \in DOMAIN rows' : k \in DOMAIN rows \/ k - Len(rows) \in DOMAIN batch
    BY <1>1, <2>1
  <2>6. \A k \in DOMAIN rows' : rows'[k] \in Entries(rows) \cup Entries(batch)
    BY <1>1, <2>1, <2>2, <2>3, <2>5 DEF Entries
  <2>7. QED BY <1>1, <2>1, <2>2, <2>4, <2>6 DEF Entries
<1>5. QED BY <1>2, <1>3, <1>4 DEF Adds

-------------------------------------------------------------------------------
(* Types                                                                   *)

LEMMA Wider ==
    ASSUME NEW S, NEW T, S \subseteq T, NEW s \in Seq(S)
    PROVE  s \in Seq(T)
OBVIOUS

\* What a send does to the channel.
LEMMA Sent ==
    ASSUME queue \in Seq(Message), NEW m \in Message, Send(m)
    PROVE  /\ queue' \in Seq(Message) /\ DOMAIN queue \subseteq DOMAIN queue'
           /\ \A k \in DOMAIN queue : queue'[k] = queue[k]
           /\ ~Open => queue' = queue
           /\ Open => queue'[Len(queue) + 1] = m /\ DOMAIN queue' = 1..(Len(queue) + 1)
           /\ \A k \in DOMAIN queue' :
                 k \in DOMAIN queue \/ (Open /\ k = Len(queue) + 1)
<1>1. Len(queue) \in Nat /\ DOMAIN queue = 1..Len(queue)
  OBVIOUS
<1>2. CASE Open
  <2>1. queue' = Append(queue, m)
    BY <1>2 DEF Send
  <2>2. /\ queue' \in Seq(Message) /\ DOMAIN queue' = 1..(Len(queue) + 1)
        /\ \A k \in 1..Len(queue) : queue'[k] = queue[k]
        /\ queue'[Len(queue) + 1] = m
    BY <2>1
  <2>3. QED BY <1>1, <1>2, <2>2
<1>3. CASE ~Open
  BY <1>3 DEF Send
<1>4. QED BY <1>2, <1>3

\* What a receive takes from it.
LEMMA Received ==
    ASSUME queue \in Seq(Message), Receive
    PROVE  /\ queue' \in Seq(Message) /\ 1 \in DOMAIN queue /\ Head(queue) = queue[1]
           /\ Head(queue) \in Message
           /\ \A k \in DOMAIN queue' : k + 1 \in DOMAIN queue /\ queue'[k] = queue[k + 1]
           /\ \A k \in DOMAIN queue : k = 1 \/ k - 1 \in DOMAIN queue'
<1>1. queue # <<>> /\ queue' = Tail(queue)
  BY DEF Receive
<1>2. /\ queue' \in Seq(Message) /\ Len(queue') = Len(queue) - 1 /\ Len(queue) \in Nat
      /\ Len(queue) >= 1 /\ Head(queue) = queue[1]
      /\ \A k \in 1..(Len(queue) - 1) : queue'[k] = queue[k + 1]
  BY <1>1
<1>3. DOMAIN queue = 1..Len(queue) /\ DOMAIN queue' = 1..(Len(queue) - 1)
  BY <1>2
<1>4. 1 \in DOMAIN queue
  BY <1>2, <1>3
<1>5. queue[1] \in Message
  BY <1>4, Elements
<1>6. QED BY <1>2, <1>3, <1>4, <1>5

LEMMA SeqEntries ==
    ASSUME NEW s, NEW k \in DOMAIN s
    PROVE  s[k] \in Entries(s)
BY DEF Entries

LEMMA InitType == Init => TypeInv
<1> SUFFICES ASSUME Init PROVE TypeInv
  OBVIOUS
<1> USE SizesAssumption DEF Init
<1>1. Nothing \in Message /\ <<>> \in Seq(Message) /\ <<>> \in Seq(1..sent) /\ <<>> \in Seq(0..sent)
  BY DEF Nothing, Message
<1>2. Len(<<>>) = 0
  OBVIOUS
<1>3. \A k \in DOMAIN queue : FALSE
  OBVIOUS
<1>4. pos \in 1..(Len(batch) + 1) /\ sent \in 0..MaxEntries /\ Len(batch) <= BatchSize
  BY <1>2
<1>5. QED BY <1>1, <1>2, <1>3, <1>4 DEF TypeInv, TypeOK, Nothing

LEMMA SenderTypes ==
    ASSUME TypeInv, Log \/ Request \/ Drop \/ DropReturns \/ Exit
    PROVE  TypeInv'
<1>1. queue \in Seq(Message) /\ asked \in Seq(0..sent) /\ sent \in Nat
  BY SizesAssumption DEF TypeInv, TypeOK
<1>2. CASE Log
  <2>1. Entry(sent + 1) \in Message /\ Send(Entry(sent + 1)) /\ Entry(sent + 1).n = sent + 1
        /\ Entry(sent + 1).kind = "entry"
    BY <1>1, <1>2 DEF Log, Entry, Message
  <2>2. /\ queue' \in Seq(Message)
        /\ \A k \in DOMAIN queue' : (k \in DOMAIN queue /\ queue'[k] = queue[k])
                                    \/ queue'[k] = Entry(sent + 1)
    BY <1>1, <2>1, Sent
  <2>3. sent' = sent + 1 /\ sent' \in 0..MaxEntries /\ 1..sent \subseteq 1..sent'
        /\ 0..sent \subseteq 0..sent'
    BY <1>1, <1>2, SizesAssumption DEF Log, TypeInv, TypeOK
  <2>4. batch' \in Seq(1..sent') /\ rows' \in Seq(1..sent') /\ asked' \in Seq(0..sent')
    BY <1>2, <2>3, Wider DEF Log, TypeInv, TypeOK, writing
  <2>5. dropped' \subseteq 1..sent'
    <3>1. dropped \subseteq 1..sent /\ sent + 1 \in 1..sent'
      BY <1>1, <2>3 DEF TypeInv, TypeOK
    <3>2. dropped' \subseteq dropped \cup {sent + 1}
      BY <1>2 DEF Log
    <3>3. QED BY <2>3, <3>1, <3>2
  <2>6. \A k \in DOMAIN queue' :
          /\ queue'[k].kind = "entry" => queue'[k].n \in 1..sent'
          /\ queue'[k].kind = "flush" => queue'[k].n \in DOMAIN asked'
    BY <1>1, <1>2, <2>1, <2>2, <2>3 DEF Log, TypeInv
  <2>7. QED BY <1>2, <2>2, <2>3, <2>4, <2>5, <2>6 DEF Log, TypeInv, TypeOK, writing
<1>3. CASE Request
  <2> DEFINE m == [kind |-> "flush", n |-> Len(asked) + 1]
  <2>1. m \in Message /\ Send(m) /\ m.kind = "flush" /\ m.n = Len(asked) + 1
    BY <1>1, <1>3 DEF Request, Message
  <2> HIDE DEF m
  <2>2. /\ queue' \in Seq(Message)
        /\ \A k \in DOMAIN queue' : (k \in DOMAIN queue /\ queue'[k] = queue[k])
                                    \/ queue'[k] = m
    BY <1>1, <2>1, Sent
  <2>3. asked' = Append(asked, sent) /\ sent \in 0..sent
    BY <1>1, <1>3 DEF Request
  <2>4. asked' \in Seq(0..sent) /\ DOMAIN asked' = 1..(Len(asked) + 1)
        /\ DOMAIN asked = 1..Len(asked) /\ Len(asked) \in Nat
    BY <1>1, <2>3
  <2>5. DOMAIN asked \subseteq DOMAIN asked' /\ Len(asked) + 1 \in DOMAIN asked'
    BY <2>4
  <2>6. \A k \in DOMAIN queue' :
          /\ queue'[k].kind = "entry" => queue'[k].n \in 1..sent
          /\ queue'[k].kind = "flush" => queue'[k].n \in DOMAIN asked'
    BY <2>1, <2>2, <2>5 DEF TypeInv
  <2>7. UNCHANGED <<mode, owner, sent, worker, writing, store>>
    BY <1>3 DEF Request
  <2>8. QED BY <2>2, <2>4, <2>5, <2>6, <2>7 DEF TypeInv, TypeOK, writing, store
<1>4. CASE Drop
  <2> DEFINE m == [kind |-> "shutdown", n |-> 0]
  <2>1. m \in Message /\ Send(m) /\ m.kind = "shutdown"
    BY <1>4 DEF Drop, Message
  <2> HIDE DEF m
  <2>2. /\ queue' \in Seq(Message)
        /\ \A k \in DOMAIN queue' : (k \in DOMAIN queue /\ queue'[k] = queue[k])
                                    \/ queue'[k] = m
    BY <1>1, <2>1, Sent
  <2>3. QED BY <1>4, <2>1, <2>2 DEF Drop, TypeInv, TypeOK, writing, store
<1>5. CASE DropReturns
  BY <1>5 DEF DropReturns, TypeInv, TypeOK, writing, store
<1>6. CASE Exit
  BY <1>6 DEF Exit, TypeInv, TypeOK, writing, store
<1>7. QED BY <1>2, <1>3, <1>4, <1>5, <1>6

LEMMA StartTypes ==
    ASSUME TypeInv, Start
    PROVE  TypeInv'
<1>1. UNCHANGED <<sender, writing, rows, acked>> /\ worker' \in {"receive", "gone"}
  BY DEF Start
<1>2. queue' = queue \/ queue' = <<>>
  BY DEF Start
<1>3. queue' \in Seq(Message) /\ \A k \in DOMAIN queue' : k \in DOMAIN queue /\ queue'[k] = queue[k]
  <2>1. queue \in Seq(Message)
    BY DEF TypeInv, TypeOK
  <2>2. CASE queue' = queue
    BY <2>1, <2>2
  <2>3. CASE queue' = <<>>
    BY <2>3
  <2>4. QED BY <1>2, <2>2, <2>3
<1>4. dropped' \subseteq 1..sent /\ disabled' \in BOOLEAN
  <2>1. \A x \in Entries(queue) : x.kind = "entry" => x.n \in 1..sent
    BY DEF Entries, TypeInv
  <2>2. QED BY <2>1 DEF Start, TypeInv, TypeOK
<1>5. batch = <<>> /\ Len(batch) = 0 /\ pos = 1 /\ ~retried
  BY DEF Start, TypeInv
<1>6. QED BY <1>1, <1>3, <1>4, <1>5, SizesAssumption DEF TypeInv, TypeOK, sender, writing

LEMMA ReceiveTypes ==
    ASSUME TypeInv, Receive
    PROVE  TypeInv'
<1>1. UNCHANGED <<sender, pos, retried, timer, disabled, rows, acked, faults>>
      /\ worker = "receive" /\ worker' \in {"receive", "insert"}
  BY DEF Receive, Flush
<1>2. queue \in Seq(Message) /\ batch \in Seq(1..sent) /\ Len(batch) \in Nat
      /\ Len(batch) < BatchSize /\ pos = 1 /\ ~retried
  BY <1>1 DEF TypeInv, TypeOK
<1>3. /\ queue' \in Seq(Message) /\ 1 \in DOMAIN queue /\ Head(queue) = queue[1]
      /\ Head(queue) \in Message
      /\ \A k \in DOMAIN queue' : k + 1 \in DOMAIN queue /\ queue'[k] = queue[k + 1]
  BY <1>2, Received
<1>4. \A k \in DOMAIN queue' :
        /\ queue'[k].kind = "entry" => queue'[k].n \in 1..sent
        /\ queue'[k].kind = "flush" => queue'[k].n \in DOMAIN asked
  BY <1>3 DEF TypeInv
<1>5. CASE Head(queue).kind # "entry"
  <2>1. why' = Head(queue) /\ worker' = "insert" /\ UNCHANGED <<batch, dropped>>
    BY <1>5 DEF Receive, Flush
  <2>2. why' \in Message /\ (why'.kind = "flush" => why'.n \in DOMAIN asked)
    BY <1>3, <2>1 DEF TypeInv
  <2>3. QED BY <1>1, <1>2, <1>3, <1>4, <2>1, <2>2 DEF TypeInv, TypeOK, sender
<1>6. CASE Head(queue).kind = "entry" /\ disabled
  <2>1. dropped' = dropped \cup {Head(queue).n} /\ UNCHANGED <<batch, why, worker>>
    BY <1>6 DEF Receive
  <2>2. dropped' \subseteq 1..sent
    BY <1>3, <1>6, <2>1 DEF TypeInv, TypeOK
  <2>3. QED BY <1>1, <1>2, <1>3, <1>4, <2>1, <2>2 DEF TypeInv, TypeOK, sender
<1>7. CASE Head(queue).kind = "entry" /\ ~disabled
  <2>1. batch' = Append(batch, Head(queue).n) /\ UNCHANGED dropped
        /\ (IF Full(batch') THEN Flush(Nothing) ELSE UNCHANGED <<why, worker>>)
    BY <1>7 DEF Receive
  <2>2. Head(queue).n \in 1..sent
    BY <1>3, <1>7 DEF TypeInv
  <2>3. batch' \in Seq(1..sent) /\ Len(batch') = Len(batch) + 1
    BY <1>2, <2>1, <2>2
  <2>4. why' \in Message /\ (why'.kind = "flush" => why'.n \in DOMAIN asked)
    BY <2>1 DEF Flush, Nothing, Message, TypeInv, TypeOK
  <2>5. worker' = "receive" => Len(batch') < BatchSize
    BY <1>2, <2>1, <2>3, SizesAssumption DEF Flush, Full
  <2>6. Len(batch') <= BatchSize /\ pos' \in 1..(Len(batch') + 1)
    BY <1>1, <1>2, <2>3, SizesAssumption
  <2>7. QED BY <1>1, <1>2, <1>3, <1>4, <2>1, <2>3, <2>4, <2>5, <2>6 DEF TypeInv, TypeOK, sender
<1>8. QED BY <1>5, <1>6, <1>7

LEMMA WriteTypes ==
    ASSUME TypeInv, Insert \/ Single \/ Recover
    PROVE  TypeInv'
<1>1. /\ Writes /\ Adds /\ UNCHANGED <<queue, sender>>
      /\ GoesOn \/ \E off \in BOOLEAN : Ends(off)
  BY WriteKinds
<1>2. rows' \in Seq(1..sent)
  BY <1>1, AddedRows
<1>3. batch \in Seq(1..sent) /\ DOMAIN batch = 1..Len(batch) /\ Len(batch) \in Nat
  BY DEF TypeInv, TypeOK
<1>4. CASE GoesOn
  <2>1. pos' \in 1..(Len(batch) + 1) /\ retried' \in BOOLEAN
    <3>1. pos \in 1..(Len(batch) + 1) /\ retried \in BOOLEAN
      BY DEF TypeInv, TypeOK
    <3>2. pos' \in {pos, 1} \/ (pos \in 1..Len(batch) /\ pos' = pos + 1)
      BY <1>3, <1>4 DEF GoesOn
    <3>3. pos' \in 1..(Len(batch) + 1)
      BY <1>3, <3>1, <3>2
    <3>4. QED BY <1>4, <3>1, <3>3 DEF GoesOn
  <2>2. QED BY <1>1, <1>2, <1>4, <2>1 DEF GoesOn, TypeInv, TypeOK, sender
<1>5. ASSUME NEW off \in BOOLEAN, Ends(off) PROVE TypeInv'
  <2>1. Nothing \in Message /\ Nothing.kind = "entry"
    BY DEF Nothing, Message
  <2>2. <<>> \in Seq(1..sent) /\ Len(<<>>) = 0
    OBVIOUS
  <2>3. acked' \subseteq DOMAIN asked
    BY <1>5 DEF Ends, TypeInv, TypeOK
  <2>4. dropped' \subseteq 1..sent
    <3> \A k \in DOMAIN batch : batch[k] \in 1..sent
      BY <1>3, Elements
    <3>1. Entries(batch) \subseteq 1..sent
      BY DEF Entries
    <3>2. QED BY <1>5, <3>1 DEF Ends, TypeInv, TypeOK
  <2>5. batch' \in Seq(1..sent) /\ Len(batch') = 0 /\ pos' \in 1..(Len(batch') + 1)
    BY <1>5, <2>2 DEF Ends
  <2>6. Len(batch') <= BatchSize /\ Len(batch') < BatchSize
    BY <2>5, SizesAssumption
  <2>7. /\ why' = Nothing /\ worker' \in {"gone", "receive"} /\ pos' = 1
        /\ retried' = FALSE /\ timer' = FALSE /\ disabled' \in BOOLEAN
    BY <1>5 DEF Ends
  <2>8. QED BY <1>1, <1>2, <2>1, <2>3, <2>4, <2>5, <2>6, <2>7 DEF TypeInv, TypeOK, sender
<1>6. QED BY <1>1, <1>4, <1>5

LEMMA TypeStep == TypeInv /\ [Next]_vars => TypeInv'
<1> SUFFICES ASSUME TypeInv, [Next]_vars PROVE TypeInv'
  OBVIOUS
<1>1. CASE Expire
  BY <1>1 DEF Expire, TypeInv, TypeOK, sender, store
<1>2. CASE Timeout
  <2>1. Nothing \in Message /\ Nothing.kind = "entry"
    BY DEF Nothing, Message
  <2>2. QED BY <1>2, <2>1 DEF Timeout, Flush, TypeInv, TypeOK, sender, store
<1>3. CASE UNCHANGED vars
  BY <1>3 DEF vars, TypeInv, TypeOK
<1>4. QED BY <1>1, <1>2, <1>3, SenderTypes, StartTypes, ReceiveTypes, WriteTypes DEF Next, Worker

\* Every variable keeps its type, for any batch size and bounds; a batch never
\* outgrows its limit, and a flush answers a request that was made.
THEOREM WriterTypeCorrect == Spec => []TypeOK
<1>1. TypeInv => TypeOK
  BY DEF TypeInv
<1>2. QED BY <1>1, InitType, TypeStep, PTL DEF Spec

-------------------------------------------------------------------------------
(* A flush is a barrier                                                    *)

\* Entry j is processed, or in the batch, or queued before position k.
Settled(j) == j \in Entries(rows) \cup dropped
Before(j, k) == \E i \in DOMAIN queue : i < k /\ queue[i].kind = "entry" /\ queue[i].n = j
Held(j) == Settled(j) \/ j \in Entries(batch)

\* The entries a message waits for: those logged before it.
Bound(m) == IF m.kind = "flush" THEN asked[m.n] ELSE sent

\* No entry is lost track of; those a message waits for are ahead of it.
BarrierInv ==
    /\ \A j \in 1..sent : Held(j) \/ \E i \in DOMAIN queue : queue[i].kind = "entry" /\ queue[i].n = j
    /\ \A k \in DOMAIN queue : queue[k].kind # "entry" =>
          \A j \in 1..Bound(queue[k]) : Held(j) \/ Before(j, k)
    /\ why.kind # "entry" => \A j \in 1..Bound(why) : Held(j)
    /\ \A k \in DOMAIN queue : queue[k].kind = "shutdown" => owner # "open"
    /\ why.kind = "shutdown" => owner # "open"
    /\ mode = "join" /\ worker = "gone" => Done(sent)
    /\ FlushIsBarrier

LEMMA BarrierInit == Init => BarrierInv
<1> SUFFICES ASSUME Init PROVE BarrierInv
  OBVIOUS
<1>1. sent = 0 /\ \A j \in 1..sent : FALSE
  BY DEF Init
<1>2. \A k \in DOMAIN queue : FALSE
  BY DEF Init
<1>3. acked = {} /\ why.kind = "entry" /\ worker = "opening" /\ owner = "open"
  BY DEF Init, Nothing
<1>4. QED BY <1>1, <1>2, <1>3 DEF BarrierInv, FlushIsBarrier, Done

\* What a done prefix is, in these terms.
LEMMA DoneSettled == \A n : Done(n) <=> \A j \in 1..n : Settled(j)
BY DEF Done, Settled

LEMMA BarrierLog ==
    ASSUME TypeInv, BarrierInv, Log
    PROVE  BarrierInv'
<1>1. queue \in Seq(Message) /\ asked \in Seq(0..sent) /\ sent \in Nat
  BY SizesAssumption DEF TypeInv, TypeOK
<1>2. Entry(sent + 1) \in Message /\ Send(Entry(sent + 1)) /\ Entry(sent + 1).n = sent + 1
      /\ Entry(sent + 1).kind = "entry"
  BY <1>1 DEF Log, Entry, Message
<1>3. /\ DOMAIN queue \subseteq DOMAIN queue'
      /\ \A k \in DOMAIN queue : queue'[k] = queue[k]
      /\ ~Open => queue' = queue
      /\ Open => queue'[Len(queue) + 1] = Entry(sent + 1) /\ Len(queue) + 1 \in DOMAIN queue'
      /\ \A k \in DOMAIN queue' : k \in DOMAIN queue \/ (Open /\ k = Len(queue) + 1)
  <2>1. Len(queue) + 1 \in 1..(Len(queue) + 1)
    BY <1>1
  <2>2. QED BY <1>1, <1>2, <2>1, Sent
<1>4. /\ owner = "open" /\ sent' = sent + 1 /\ 1..sent' = (1..sent) \cup {sent + 1}
      /\ dropped' = IF Open THEN dropped ELSE dropped \cup {sent + 1}
      /\ UNCHANGED <<mode, owner, worker, why, batch, rows, asked, acked>>
  BY <1>1 DEF Log, writing
<1>5. \A j : Held(j) => Held(j)'
  BY <1>4 DEF Held, Settled
<1>6. \A j, k : Before(j, k) => Before(j, k)'
  BY <1>3 DEF Before
<1>7. \A j \in 1..sent' :
        Held(j)' \/ \E i \in DOMAIN queue' : queue'[i].kind = "entry" /\ queue'[i].n = j
  <2>1. \A j \in 1..sent :
          Held(j)' \/ \E i \in DOMAIN queue' : queue'[i].kind = "entry" /\ queue'[i].n = j
    BY <1>3, <1>5 DEF BarrierInv
  <2>2. CASE Open
    BY <1>2, <1>3, <1>4, <2>1, <2>2
  <2>3. CASE ~Open
    BY <1>4, <2>1, <2>3 DEF Held, Settled
  <2>4. QED BY <2>2, <2>3
<1>8. \A k \in DOMAIN queue' : queue'[k].kind # "entry" => k \in DOMAIN queue /\ queue[k].kind = "flush"
  <2>1. \A k \in DOMAIN queue : queue[k].kind \in {"entry", "flush", "shutdown"}
    <3>1. \A k \in DOMAIN queue : queue[k] \in Message
      BY <1>1, Elements
    <3>2. QED BY <3>1 DEF Message
  <2>2. \A k \in DOMAIN queue' : k \notin DOMAIN queue => queue'[k].kind = "entry"
    BY <1>2, <1>3
  <2>3. QED BY <1>3, <1>4, <2>1, <2>2 DEF BarrierInv
<1>9. \A k \in DOMAIN queue' : queue'[k].kind # "entry" =>
          \A j \in 1..Bound(queue[k])' : Held(j)' \/ Before(j, k)'
  BY <1>3, <1>4, <1>5, <1>6, <1>8 DEF BarrierInv, Bound
<1>10. why.kind # "entry" => \A j \in 1..Bound(why)' : Held(j)'
  BY <1>4, <1>5 DEF BarrierInv, Bound, TypeInv, TypeOK, Message
<1>11. mode = "join" /\ worker = "gone" => Done(sent)'
  BY <1>4 DEF BarrierInv, Done, Open
<1>12. FlushIsBarrier'
  BY <1>4 DEF BarrierInv, FlushIsBarrier, Done
<1>13. QED BY <1>3, <1>4, <1>7, <1>8, <1>9, <1>10, <1>11, <1>12 DEF BarrierInv

LEMMA BarrierRequest ==
    ASSUME TypeInv, BarrierInv, Request
    PROVE  BarrierInv'
<1> DEFINE m == [kind |-> "flush", n |-> Len(asked) + 1]
<1>1. queue \in Seq(Message) /\ asked \in Seq(0..sent) /\ sent \in Nat
      /\ Len(asked) \in Nat /\ DOMAIN asked = 1..Len(asked) /\ acked \subseteq DOMAIN asked
  BY SizesAssumption DEF TypeInv, TypeOK
<1>2. m \in Message /\ Send(m) /\ m.n = Len(asked) + 1 /\ m.kind = "flush"
  BY <1>1 DEF Request, Message
<1> HIDE DEF m
<1>3. /\ DOMAIN queue \subseteq DOMAIN queue'
      /\ \A k \in DOMAIN queue : queue'[k] = queue[k]
      /\ \A k \in DOMAIN queue' :
            k \in DOMAIN queue \/ (k = Len(queue) + 1 /\ queue'[k] = m)
      /\ DOMAIN queue = 1..Len(queue) /\ Len(queue) \in Nat
  BY <1>1, <1>2, Sent
<1>4. UNCHANGED <<mode, owner, sent, worker, why, batch, rows, dropped, acked>>
      /\ asked' = Append(asked, sent)
  BY DEF Request, writing, store
<1>5. asked'[Len(asked) + 1] = sent /\ \A r \in DOMAIN asked : asked'[r] = asked[r]
  BY <1>1, <1>4
<1>6. \A j : Held(j)' <=> Held(j)
  BY <1>4 DEF Held, Settled
<1>7. \A j, k : Before(j, k) => Before(j, k)'
  BY <1>3 DEF Before
<1>8. \A j \in 1..sent :
        Held(j)' \/ \E i \in DOMAIN queue' : queue'[i].kind = "entry" /\ queue'[i].n = j
  BY <1>3, <1>6 DEF BarrierInv
<1>9. \A k \in DOMAIN queue : Bound(queue[k])' = Bound(queue[k])
  BY <1>3, <1>4, <1>5 DEF Bound, TypeInv
<1>10. ASSUME NEW k \in DOMAIN queue', queue'[k].kind # "entry", NEW j \in 1..Bound(queue[k])'
       PROVE  Held(j)' \/ Before(j, k)'
  <2>1. CASE k \in DOMAIN queue
    BY <1>3, <1>4, <1>5, <1>6, <1>7, <1>10, <2>1 DEF BarrierInv, Bound, TypeInv
  <2>2. CASE k \notin DOMAIN queue
    <3>1. k = Len(queue) + 1 /\ queue'[k] = m
      BY <1>3, <2>2
    <3>2. Bound(queue[k])' = sent
      BY <1>2, <1>4, <1>5, <3>1 DEF Bound
    <3>3. j \in 1..sent
      BY <1>10, <3>2
    <3>4. \A i \in DOMAIN queue : i < k /\ queue'[i] = queue[i] /\ i \in DOMAIN queue'
      BY <1>3, <3>1
    <3>5. QED BY <1>6, <3>3, <3>4 DEF BarrierInv, Before
  <2>3. QED BY <2>1, <2>2
<1>11. why.kind # "entry" => \A j \in 1..Bound(why)' : Held(j)'
  BY <1>4, <1>5, <1>6 DEF BarrierInv, Bound, TypeInv
<1>12. FlushIsBarrier'
  BY <1>1, <1>4, <1>5 DEF BarrierInv, FlushIsBarrier, Done
<1>13. \A k \in DOMAIN queue' : queue'[k].kind = "shutdown" => owner # "open"
  BY <1>2, <1>3 DEF BarrierInv
<1>14. Done(sent)' <=> Done(sent)
  BY <1>4 DEF Done
<1>15. QED BY <1>4, <1>8, <1>10, <1>11, <1>12, <1>13, <1>14 DEF BarrierInv

LEMMA BarrierDrop ==
    ASSUME TypeInv, BarrierInv, Drop
    PROVE  BarrierInv'
<1> DEFINE m == [kind |-> "shutdown", n |-> 0]
<1>1. queue \in Seq(Message)
  BY DEF TypeInv, TypeOK
<1>2. m \in Message /\ Send(m) /\ m.kind = "shutdown"
  BY DEF Drop, Message
<1> HIDE DEF m
<1>3. /\ DOMAIN queue \subseteq DOMAIN queue'
      /\ \A k \in DOMAIN queue : queue'[k] = queue[k]
      /\ \A k \in DOMAIN queue' :
            k \in DOMAIN queue \/ (k = Len(queue) + 1 /\ queue'[k] = m)
      /\ DOMAIN queue = 1..Len(queue) /\ Len(queue) \in Nat
  BY <1>1, <1>2, Sent
<1>4. UNCHANGED <<mode, sent, asked, worker, why, batch, rows, dropped, acked>>
      /\ owner' = IF mode = "detach" THEN "returned" ELSE "dropping"
  BY DEF Drop, writing, store
<1>5. \A j : Held(j)' <=> Held(j)
  BY <1>4 DEF Held, Settled
<1>6. \A j, k : Before(j, k) => Before(j, k)'
  BY <1>3 DEF Before
<1>7. \A j \in 1..sent :
        Held(j)' \/ \E i \in DOMAIN queue' : queue'[i].kind = "entry" /\ queue'[i].n = j
  BY <1>3, <1>5 DEF BarrierInv
<1>8. ASSUME NEW k \in DOMAIN queue', queue'[k].kind # "entry", NEW j \in 1..Bound(queue[k])'
      PROVE  Held(j)' \/ Before(j, k)'
  <2>1. CASE k \in DOMAIN queue
    BY <1>3, <1>4, <1>5, <1>6, <1>8, <2>1 DEF BarrierInv, Bound
  <2>2. CASE k \notin DOMAIN queue
    <3>1. k = Len(queue) + 1 /\ queue'[k] = m
      BY <1>3, <2>2
    <3>2. j \in 1..sent
      BY <1>2, <1>4, <1>8, <3>1 DEF Bound
    <3>3. \A i \in DOMAIN queue : i < k /\ queue'[i] = queue[i] /\ i \in DOMAIN queue'
      BY <1>3, <3>1
    <3>4. QED BY <1>5, <3>2, <3>3 DEF BarrierInv, Before
  <2>3. QED BY <2>1, <2>2
<1>9. why.kind # "entry" => \A j \in 1..Bound(why)' : Held(j)'
  BY <1>4, <1>5 DEF BarrierInv, Bound
<1>10. owner' # "open" /\ (mode = "join" => owner' \notin {"returned", "exited"})
  BY <1>4
<1>11. FlushIsBarrier'
  BY <1>4, <1>10 DEF BarrierInv, FlushIsBarrier, Done
<1>12. Done(sent)' <=> Done(sent)
  BY <1>4 DEF Done
<1>13. QED BY <1>4, <1>7, <1>8, <1>9, <1>10, <1>11, <1>12 DEF BarrierInv

\* Steps that move no entry.
LEMMA BarrierStill ==
    ASSUME BarrierInv, DropReturns \/ Exit \/ Expire \/ UNCHANGED vars
    PROVE  BarrierInv'
<1>1. UNCHANGED <<mode, sent, asked, queue, why, batch, rows, dropped, acked>>
  BY DEF DropReturns, Exit, Expire, writing, store, sender, vars
<1>2. \A j : (Held(j)' <=> Held(j)) /\ \A k : (Before(j, k)' <=> Before(j, k))
  BY <1>1 DEF Held, Settled, Before
<1>3. \A m : Bound(m)' = Bound(m)
  BY <1>1 DEF Bound
<1>4. Done(sent)' <=> Done(sent)
  BY <1>1 DEF Done
<1>5. /\ owner' = "open" => owner = "open"
      /\ mode = "join" /\ worker' = "gone" => Done(sent)
      /\ mode = "join" /\ owner' \in {"returned", "exited"} => Done(sent)
  BY DEF DropReturns, Exit, Expire, Open, BarrierInv, FlushIsBarrier, sender, vars
<1>6. FlushIsBarrier'
  BY <1>1, <1>5 DEF BarrierInv, FlushIsBarrier, Done
<1>7. QED BY <1>1, <1>2, <1>3, <1>4, <1>5, <1>6 DEF BarrierInv

LEMMA BarrierStart ==
    ASSUME TypeInv, BarrierInv, Start
    PROVE  BarrierInv'
<1>1. UNCHANGED <<mode, owner, sent, asked, why, batch, rows, acked>> /\ batch = <<>>
      /\ worker' \in {"receive", "gone"}
  BY DEF Start, sender, writing, TypeInv
<1>2. CASE worker' = "receive"
  <2>1. queue' = queue /\ dropped' = dropped
    BY <1>2 DEF Start
  <2>2. \A j : (Held(j)' <=> Held(j)) /\ \A k : (Before(j, k)' <=> Before(j, k))
    BY <1>1, <2>1 DEF Held, Settled, Before
  <2>3. \A m : Bound(m)' = Bound(m)
    BY <1>1 DEF Bound
  <2>4. FlushIsBarrier'
    BY <1>1, <2>1 DEF BarrierInv, FlushIsBarrier, Done
  <2>5. QED BY <1>1, <1>2, <2>1, <2>2, <2>3, <2>4 DEF BarrierInv
<1>3. CASE worker' = "gone"
  <2>1. queue' = <<>> /\ dropped' = dropped \cup {m.n : m \in {x \in Entries(queue) : x.kind = "entry"}}
    BY <1>3 DEF Start
  <2>2. \A j : Held(j) => Held(j)'
    BY <1>1, <2>1 DEF Held, Settled
  <2>3. \A j \in 1..sent : Settled(j)'
    <3>1. \A i \in DOMAIN queue : queue[i].kind = "entry" => queue[i].n \in dropped'
      BY <2>1 DEF Entries
    <3>2. \A j \in 1..sent : Held(j)' \/ j \in dropped'
      BY <2>2, <3>1 DEF BarrierInv
    <3>3. Entries(batch') = {}
      BY <1>1 DEF Entries
    <3>4. QED BY <3>2, <3>3 DEF Held, Settled
  <2>4. Done(sent)'
    BY <1>1, <2>3, DoneSettled DEF Done, Settled
  <2>5. FlushIsBarrier'
    BY <1>1, <2>1, <2>4 DEF BarrierInv, FlushIsBarrier, Done
  <2>6. why.kind # "entry" => \A j \in 1..Bound(why)' : Held(j)'
    BY <1>1, <2>2 DEF BarrierInv, Bound
  <2>7. \A k \in DOMAIN queue' : FALSE
    BY <2>1
  <2>8. QED BY <1>1, <2>3, <2>4, <2>5, <2>6, <2>7 DEF BarrierInv, Held
<1>4. QED BY <1>1, <1>2, <1>3

LEMMA BarrierReceive ==
    ASSUME TypeInv, BarrierInv, Receive
    PROVE  BarrierInv'
<1> DEFINE m == Head(queue)
<1>1. queue \in Seq(Message) /\ batch \in Seq(1..sent) /\ worker = "receive"
      /\ DOMAIN queue = 1..Len(queue) /\ Len(queue) \in Nat
  BY DEF TypeInv, TypeOK, Receive
<1>2. /\ 1 \in DOMAIN queue /\ m = queue[1]
      /\ \A k \in DOMAIN queue' : k + 1 \in DOMAIN queue /\ queue'[k] = queue[k + 1]
      /\ \A k \in DOMAIN queue : k = 1 \/ k - 1 \in DOMAIN queue'
  BY <1>1, Received
<1>3. /\ UNCHANGED <<mode, owner, sent, asked, rows, acked>>
      /\ worker' \in {"receive", "insert"} /\ dropped \subseteq dropped'
  BY DEF Receive, Flush, sender
<1>4. m.kind = "entry" => m.n \in 1..sent
  BY <1>2 DEF TypeInv
<1>5. /\ Entries(batch) \subseteq Entries(batch')
      /\ m.kind = "entry" => m.n \in Entries(batch') \/ m.n \in dropped'
      /\ why' = why \/ why' = Nothing \/ (why' = m /\ m.kind # "entry" /\ batch' = batch)
  <2>1. CASE m.kind # "entry"
    BY <2>1 DEF Receive, Flush
  <2>2. CASE m.kind = "entry" /\ disabled
    BY <2>2 DEF Receive
  <2>3. CASE m.kind = "entry" /\ ~disabled
    <3>1. batch' = Append(batch, m.n) /\ (why' = why \/ why' = Nothing)
      BY <2>3 DEF Receive, Flush
    <3>2. /\ DOMAIN batch = 1..Len(batch) /\ DOMAIN batch' = 1..(Len(batch) + 1)
          /\ Len(batch) \in Nat /\ batch'[Len(batch) + 1] = m.n
          /\ \A k \in 1..Len(batch) : batch'[k] = batch[k]
      BY <1>1, <1>4, <2>3, <3>1
    <3>3. DOMAIN batch \subseteq DOMAIN batch' /\ Len(batch) + 1 \in DOMAIN batch'
      BY <3>2
    <3>4. QED BY <2>3, <3>1, <3>2, <3>3 DEF Entries
  <2>4. QED BY <2>1, <2>2, <2>3
<1> HIDE DEF m
<1>6. \A j : Held(j) => Held(j)'
  BY <1>3, <1>5 DEF Held, Settled
<1>7. \A j : m.kind = "entry" /\ m.n = j => Held(j)'
  BY <1>5 DEF Held, Settled
<1>8. \A k \in DOMAIN queue : k # 1 => queue'[k - 1] = queue[k]
  BY <1>1, <1>2
<1>9. \A j \in 1..sent :
        Held(j)' \/ \E i \in DOMAIN queue' : queue'[i].kind = "entry" /\ queue'[i].n = j
  <2>1. TAKE j \in 1..sent
  <2>2. CASE Held(j)
    BY <1>6, <2>2
  <2>3. ASSUME NEW i \in DOMAIN queue, queue[i].kind = "entry", queue[i].n = j
        PROVE  Held(j)' \/ \E k \in DOMAIN queue' : queue'[k].kind = "entry" /\ queue'[k].n = j
    BY <1>2, <1>7, <1>8, <2>3
  <2>4. QED BY <2>2, <2>3 DEF BarrierInv
<1>10. ASSUME NEW k \in DOMAIN queue, k # 1, NEW j, Before(j, k)
       PROVE  Held(j)' \/ Before(j, k - 1)'
  <2>1. PICK i \in DOMAIN queue : i < k /\ queue[i].kind = "entry" /\ queue[i].n = j
    BY <1>10 DEF Before
  <2>2. CASE i = 1
    BY <1>2, <1>7, <2>1, <2>2
  <2>3. CASE i # 1
    <3>1. i - 1 \in DOMAIN queue' /\ i - 1 < k - 1 /\ queue'[i - 1] = queue[i]
      BY <1>1, <1>2, <1>8, <2>1, <2>3
    <3>2. QED BY <2>1, <3>1 DEF Before
  <2>4. QED BY <2>2, <2>3
<1>11. ASSUME NEW k \in DOMAIN queue', queue'[k].kind # "entry", NEW j \in 1..Bound(queue[k])'
       PROVE  Held(j)' \/ Before(j, k)'
  <2>1. k \in Nat /\ k + 1 \in DOMAIN queue /\ queue'[k] = queue[k + 1] /\ k + 1 # 1
    BY <1>1, <1>2, Received
  <2>2. j \in 1..Bound(queue[k + 1]) /\ queue[k + 1].kind # "entry"
    BY <1>3, <1>11, <2>1 DEF Bound
  <2>3. Held(j) \/ Before(j, k + 1)
    BY <2>1, <2>2 DEF BarrierInv
  <2>4. (k + 1) - 1 = k
    BY <2>1
  <2>5. QED BY <1>6, <1>10, <2>1, <2>3, <2>4
<1>12. why'.kind # "entry" => \A j \in 1..Bound(why)' : Held(j)'
  <2>1. CASE why' = why
    BY <1>3, <1>6, <2>1 DEF BarrierInv, Bound
  <2>2. CASE why' = Nothing
    BY <2>2 DEF Nothing
  <2>3. CASE why' = m /\ m.kind # "entry"
    <3>1. \A i \in DOMAIN queue : ~(i < 1)
      BY <1>1
    <3>2. \A j \in 1..Bound(m) : Held(j)
      BY <1>2, <2>3, <3>1 DEF BarrierInv, Before
    <3>3. QED BY <1>3, <1>6, <2>3, <3>2 DEF Bound
  <2>4. QED BY <1>5, <2>1, <2>2, <2>3
<1>13. \A k \in DOMAIN queue' : queue'[k].kind = "shutdown" => owner # "open"
  BY <1>2 DEF BarrierInv
<1>14. why'.kind = "shutdown" => owner # "open"
  BY <1>2, <1>5 DEF BarrierInv, Nothing
<1>15. FlushIsBarrier'
  BY <1>3 DEF BarrierInv, FlushIsBarrier, Done
<1>16. worker' # "gone"
  BY <1>3
<1>17. QED BY <1>3, <1>9, <1>11, <1>12, <1>13, <1>14, <1>15, <1>16 DEF BarrierInv

\* Writing a batch, or being done with it, settles entries and loses none.
LEMMA BarrierWrite ==
    ASSUME TypeInv, BarrierInv, Insert \/ Single \/ Recover
    PROVE  BarrierInv'
<1>1. /\ Writes /\ Adds /\ UNCHANGED <<queue, mode, owner, sent, asked>>
      /\ GoesOn \/ \E off \in BOOLEAN : Ends(off)
  BY WriteKinds DEF sender
<1>2. Entries(rows) \subseteq Entries(rows')
  BY <1>1, AddedRows
<1>3. \A j, k : Before(j, k)' <=> Before(j, k)
  BY <1>1 DEF Before
<1>4. \A m : Bound(m)' = Bound(m)
  BY <1>1 DEF Bound
<1>5. CASE GoesOn
  <2>1. UNCHANGED <<why, batch, dropped, acked>> /\ worker' # "gone"
    BY <1>5 DEF GoesOn
  <2>2. \A j : Held(j) => Held(j)'
    BY <1>2, <2>1 DEF Held, Settled
  <2>3. FlushIsBarrier'
    BY <1>1, <1>2, <2>1 DEF BarrierInv, FlushIsBarrier, Done
  <2>4. QED BY <1>1, <1>3, <1>4, <2>1, <2>2, <2>3 DEF BarrierInv, Bound
<1>6. ASSUME NEW off \in BOOLEAN, Ends(off) PROVE BarrierInv'
  <2>1. /\ dropped' = dropped \cup (Entries(batch) \ Entries(rows'))
        /\ why' = Nothing
        /\ acked' = IF why.kind = "flush" THEN acked \cup {why.n} ELSE acked
        /\ worker' = IF why.kind = "shutdown" THEN "gone" ELSE "receive"
    BY <1>6 DEF Ends
  <2>2. \A j : Held(j) => Settled(j)'
    BY <1>2, <2>1 DEF Held, Settled
  <2>3. \A j : Held(j) => Held(j)'
    BY <2>2 DEF Held
  <2>4. why'.kind = "entry"
    BY <2>1 DEF Nothing
  <2>5. \A n : Done(n) => Done(n)'
    BY <1>2, <2>1 DEF Done
  <2>6. \A n : why.kind # "entry" /\ n = Bound(why) => Done(n)'
    BY <2>2 DEF BarrierInv, Done, Settled
  <2>7. \A r \in acked' : Done(asked[r])'
    <3>1. TAKE r \in acked'
    <3>2. CASE r \in acked
      BY <1>1, <2>5, <3>2 DEF BarrierInv, FlushIsBarrier, Done
    <3>3. CASE why.kind = "flush" /\ r = why.n
      BY <1>1, <2>6, <3>3 DEF Bound, Done
    <3>4. QED BY <2>1, <3>2, <3>3
  <2>8. mode = "join" /\ owner \in {"returned", "exited"} => Done(sent)'
    BY <1>1, <2>5 DEF BarrierInv, FlushIsBarrier, Done
  <2>9. FlushIsBarrier'
    BY <1>1, <2>7, <2>8 DEF FlushIsBarrier, Done
  <2>10. worker' = "gone" => Done(sent)'
    BY <1>1, <2>1, <2>6 DEF Bound, Done
  <2>11. QED BY <1>1, <1>3, <1>4, <2>3, <2>4, <2>9, <2>10 DEF BarrierInv, Bound
<1>7. QED BY <1>1, <1>5, <1>6

LEMMA BarrierTimeout ==
    ASSUME BarrierInv, Timeout
    PROVE  BarrierInv'
<1>1. UNCHANGED <<mode, owner, sent, asked, queue, batch, rows, dropped, acked>>
      /\ why' = Nothing /\ worker' = "insert"
  BY DEF Timeout, Flush, sender, store
<1>2. \A j : (Held(j)' <=> Held(j)) /\ \A k : (Before(j, k)' <=> Before(j, k))
  BY <1>1 DEF Held, Settled, Before
<1>3. \A m : Bound(m)' = Bound(m)
  BY <1>1 DEF Bound
<1>4. FlushIsBarrier'
  BY <1>1 DEF BarrierInv, FlushIsBarrier, Done
<1>5. QED BY <1>1, <1>2, <1>3, <1>4 DEF BarrierInv, Nothing

LEMMA BarrierStep == TypeInv /\ BarrierInv /\ [Next]_vars => BarrierInv'
BY BarrierLog, BarrierRequest, BarrierDrop, BarrierStill, BarrierStart, BarrierReceive,
   BarrierWrite, BarrierTimeout
   DEF Next, Worker

\* A flush is acknowledged only when every entry queued before it was written
\* or given up, and a drop that joins the worker returns only when every entry
\* was, whatever fails and whatever else is queued.
THEOREM FlushAndDropDrain == Spec => []FlushIsBarrier
<1>1. BarrierInv => FlushIsBarrier
  BY DEF BarrierInv
<1>2. QED BY <1>1, InitType, TypeStep, BarrierInit, BarrierStep, PTL DEF Spec

-------------------------------------------------------------------------------
(* Rows are in order, and nothing is lost without a cause                  *)

\* The steps of the writing worker, one by one.
StartsSingle ==
    /\ worker = "insert" /\ worker' = "single" /\ ~disabled /\ UNCHANGED <<rows, pos>>
    /\ Len(batch) = 1 \/ "other" \in faults'
WritesOne ==
    /\ worker = "single" /\ worker' = "single" /\ pos \in DOMAIN batch /\ pos' = pos + 1
    /\ \/ rows' = Append(rows, batch[pos]) /\ faults' = faults
       \/ rows' = rows /\ "row" \in faults'
Breaks ==
    /\ worker' = "recover" /\ UNCHANGED <<rows, pos>> /\ "fatal" \in faults' /\ ~disabled
    /\ worker = "insert" \/ (worker = "single" /\ pos <= Len(batch))
Reopens == worker = "recover" /\ worker' = "insert" /\ pos' = 1 /\ UNCHANGED rows
WritesAll == worker = "insert" /\ disabled = FALSE /\ rows' = rows \o batch /\ Ends(FALSE)
GivesUp ==
    /\ UNCHANGED rows
    /\ \/ Ends(disabled) /\ faults' = faults /\ (disabled \/ batch = <<>>)
       \/ Ends(FALSE) /\ "contended" \in faults'
       \/ Ends(TRUE) /\ "capacity" \in faults'
       \/ Ends(TRUE) /\ "fatal" \in faults'
       \/ Ends(TRUE) /\ worker = "recover"
       \/ Ends(FALSE) /\ faults' = faults /\ worker = "single" /\ pos > Len(batch)

\* Every failure that was met, and whether the worker may still write.
FaultInv ==
    /\ worker \in {"single", "recover"} => ~disabled
    /\ worker = "recover" => "fatal" \in faults
    /\ worker \in {"opening", "receive", "insert"} => pos = 1

LEMMA WriteCases ==
    ASSUME TypeInv, FaultInv, Insert \/ Single \/ Recover
    PROVE  /\ faults \subseteq faults'
           /\ \/ (StartsSingle \/ WritesOne \/ Breaks \/ Reopens) /\ GoesOn
              \/ WritesAll \/ GivesUp
<1>0. \A off : Finish(off) => Ends(off)
  BY DEF Finish, Ends
<1>1. pos \in 1..(Len(batch) + 1) /\ DOMAIN batch = 1..Len(batch) /\ Len(batch) \in Nat
      /\ disabled \in BOOLEAN
  BY DEF TypeInv, TypeOK
<1>2. \A k : Fails(k) => faults \subseteq faults' /\ k \in faults'
  BY DEF Fails
<1>3. ASSUME Refused, ~disabled, worker = "insert" \/ (worker = "single" /\ pos <= Len(batch))
      PROVE  faults \subseteq faults' /\ ((Breaks /\ GoesOn) \/ GivesUp)
  <2>1. CASE Fails("fatal") /\ ~retried /\ Goto("recover") /\ UNCHANGED <<pos, retried>>
    BY <1>2, <1>3, <2>1 DEF Refused, Goto, Breaks, GoesOn
  <2>2. CASE \/ Fails("contended") /\ Finish(FALSE)
             \/ Fails("capacity") /\ Finish(TRUE)
             \/ Fails("fatal") /\ retried /\ Finish(TRUE)
    BY <1>0, <1>2, <1>3, <2>2 DEF Refused, GivesUp
  <2>3. QED BY <1>3, <2>1, <2>2 DEF Refused
<1>4. CASE Insert
  <2>1. CASE (disabled \/ batch = <<>>) /\ UNCHANGED <<rows, faults>> /\ Finish(disabled)
    BY <1>0, <2>1 DEF GivesUp
  <2>2. CASE ~disabled /\ rows' = rows \o batch /\ Finish(FALSE) /\ UNCHANGED faults
    BY <1>0, <1>1, <1>4, <2>2 DEF Insert, WritesAll
  <2>3. CASE ~disabled /\ Refused
    BY <1>3, <1>4, <2>3 DEF Insert
  <2>4. CASE ~disabled /\ Fails("other") /\ Goto("single") /\ UNCHANGED <<rows, pos, retried>>
    BY <1>2, <1>4, <2>4 DEF Insert, Goto, StartsSingle, GoesOn
  <2>5. CASE ~disabled /\ Len(batch) = 1 /\ Goto("single") /\ UNCHANGED <<rows, faults, pos, retried>>
    BY <1>4, <2>5 DEF Insert, Goto, StartsSingle, GoesOn
  <2>6. QED BY <1>4, <2>1, <2>2, <2>3, <2>4, <2>5 DEF Insert
<1>5. CASE Single
  <2>1. CASE pos > Len(batch) /\ UNCHANGED <<rows, faults>> /\ Finish(FALSE)
    BY <1>0, <1>5, <2>1 DEF Single, GivesUp
  <2>2. CASE Write(TRUE) /\ UNCHANGED faults
    BY <1>1, <1>5, <2>2 DEF Single, Write, Goto, WritesOne, GoesOn
  <2>3. CASE Fails("row") /\ Write(FALSE)
    BY <1>1, <1>2, <1>5, <2>3 DEF Single, Write, Goto, WritesOne, GoesOn
  <2>4. CASE pos <= Len(batch) /\ Refused
    BY <1>3, <1>5, <2>4 DEF Single, FaultInv
  <2>5. QED BY <1>5, <2>1, <2>2, <2>3, <2>4 DEF Single
<1>6. CASE Recover
  <2>1. CASE Goto("insert") /\ retried' = TRUE /\ pos' = 1 /\ UNCHANGED faults
    BY <1>6, <2>1 DEF Recover, Goto, Reopens, GoesOn
  <2>2. CASE Fails("recovery") /\ Finish(TRUE)
    BY <1>0, <1>2, <1>6, <2>2 DEF Recover, GivesUp
  <2>3. QED BY <1>6, <2>1, <2>2 DEF Recover
<1>7. QED BY <1>4, <1>5, <1>6

\* Not the sequence that makes the worker write rows again.
Quiet == ~({"other", "fatal"} \subseteq faults)

IsEntry(k) == k \in DOMAIN queue /\ queue[k].kind = "entry"

\* Rows, batch and channel hold the entries in the order they were logged; the
\* entries of the batch from pos on have no row.
OrderInv ==
    /\ \A j, k : IsEntry(j) /\ IsEntry(k) /\ j < k => queue[j].n < queue[k].n
    /\ \A a \in DOMAIN batch : \A k : IsEntry(k) => batch[a] < queue[k].n
    /\ \A r \in DOMAIN rows : \A k : IsEntry(k) => rows[r] < queue[k].n
    /\ \A a, b \in DOMAIN batch : a < b => batch[a] < batch[b]
    /\ Quiet => \A j, k \in DOMAIN rows : j < k => rows[j] < rows[k]
    /\ Quiet => \A r \in DOMAIN rows, a \in DOMAIN batch : pos <= a => rows[r] < batch[a]
    /\ Quiet /\ worker = "recover" => pos = 1
    /\ Quiet /\ worker = "single" => Len(batch) = 1 \/ "other" \in faults

\* Entries are given up for a reason only.
LossInv ==
    /\ ~disabled /\ faults \subseteq {"fatal"} => dropped = {}
    /\ disabled => faults \cap {"limit", "capacity", "fatal"} # {}
    /\ worker = "gone" /\ owner = "open" => "open" \in faults
    /\ faults \subseteq {"fatal"} /\ worker = "single" =>
          \A a \in DOMAIN batch : a < pos => batch[a] \in Entries(rows)

LEMMA OrderWrite ==
    ASSUME TypeInv, FaultInv, OrderInv, Insert \/ Single \/ Recover
    PROVE  FaultInv' /\ OrderInv'
<1>1. /\ faults \subseteq faults' /\ queue' = queue
      /\ \/ (StartsSingle \/ WritesOne \/ Breaks \/ Reopens) /\ GoesOn
         \/ WritesAll \/ GivesUp
  BY WriteCases, WriteKinds
<1>2. /\ rows \in Seq(1..sent) /\ batch \in Seq(1..sent) /\ pos \in Nat
      /\ DOMAIN batch = 1..Len(batch) /\ Len(batch) \in Nat
      /\ DOMAIN rows = 1..Len(rows) /\ Len(rows) \in Nat
  BY DEF TypeInv, TypeOK
<1>3. (Quiet' => Quiet) /\ \A k : IsEntry(k)' <=> IsEntry(k)
  BY <1>1 DEF Quiet, IsEntry
<1>4. ASSUME NEW off \in BOOLEAN, Ends(off), rows' = rows PROVE FaultInv' /\ OrderInv'
  <2>1. batch' = <<>> /\ pos' = 1 /\ worker' \in {"gone", "receive"}
    BY <1>4 DEF Ends
  <2>2. \A a \in DOMAIN batch' : FALSE
    BY <2>1
  <2>3. QED BY <1>1, <1>3, <1>4, <2>1, <2>2 DEF FaultInv, OrderInv
<1>5. CASE WritesAll
  <2>1. batch' = <<>> /\ pos' = 1 /\ worker' \in {"gone", "receive"} /\ pos = 1
    BY <1>5 DEF WritesAll, Ends, FaultInv
  <2>2. \A a \in DOMAIN batch' : FALSE
    BY <2>1
  <2>3. /\ DOMAIN rows' = 1..(Len(rows) + Len(batch))
        /\ \A k \in 1..Len(rows) : rows'[k] = rows[k]
        /\ \A k \in (Len(rows) + 1)..(Len(rows) + Len(batch)) : rows'[k] = batch[k - Len(rows)]
    BY <1>2, <1>5 DEF WritesAll
  <2>4. \A k \in DOMAIN rows' :
          \/ k \in DOMAIN rows /\ rows'[k] = rows[k]
          \/ /\ k \notin DOMAIN rows /\ k - Len(rows) \in DOMAIN batch
             /\ rows'[k] = batch[k - Len(rows)]
    BY <1>2, <2>3
  <2>5. \A r \in DOMAIN rows' : \A k : IsEntry(k) => rows'[r] < queue[k].n
    BY <2>4 DEF OrderInv
  <2>6. ASSUME Quiet, NEW j \in DOMAIN rows', NEW k \in DOMAIN rows', j < k
        PROVE  rows'[j] < rows'[k]
    <3>1. CASE k \in DOMAIN rows
      <4>1. j \in DOMAIN rows
        BY <1>2, <2>3, <2>6, <3>1
      <4>2. QED BY <2>4, <2>6, <3>1, <4>1 DEF OrderInv
    <3>2. CASE k \notin DOMAIN rows /\ j \in DOMAIN rows
      <4>1. k - Len(rows) \in DOMAIN batch /\ rows'[k] = batch[k - Len(rows)] /\ pos <= k - Len(rows)
        BY <1>2, <2>1, <2>4, <3>2
      <4>2. rows'[j] = rows[j]
        BY <2>4, <3>2
      <4>3. QED BY <2>6, <3>2, <4>1, <4>2 DEF OrderInv
    <3>3. CASE k \notin DOMAIN rows /\ j \notin DOMAIN rows
      <4>1. /\ k - Len(rows) \in DOMAIN batch /\ rows'[k] = batch[k - Len(rows)]
            /\ j - Len(rows) \in DOMAIN batch /\ rows'[j] = batch[j - Len(rows)]
        BY <2>4, <3>3
      <4>2. j - Len(rows) < k - Len(rows)
        BY <1>2, <2>3, <2>6
      <4>3. QED BY <4>1, <4>2 DEF OrderInv
    <3>4. QED BY <3>1, <3>2, <3>3
  <2>7. QED BY <1>1, <1>3, <2>1, <2>2, <2>5, <2>6 DEF FaultInv, OrderInv
<1>6. CASE WritesOne /\ GoesOn
  <2>1. batch' = batch /\ disabled' = disabled /\ worker' = "single" /\ worker = "single"
        /\ pos' = pos + 1 /\ pos \in DOMAIN batch
    BY <1>6 DEF WritesOne, GoesOn
  <2>2. CASE rows' = rows
    BY <1>1, <1>2, <1>3, <2>1, <2>2 DEF FaultInv, OrderInv
  <2>3. CASE rows' = Append(rows, batch[pos])
    <3>1. batch[pos] \in 1..sent
      BY <1>2, <2>1, Elements
    <3>2. /\ DOMAIN rows' = 1..(Len(rows) + 1) /\ rows'[Len(rows) + 1] = batch[pos]
          /\ \A k \in 1..Len(rows) : rows'[k] = rows[k]
      BY <1>2, <2>3, <3>1
    <3>3. \A k \in DOMAIN rows' : \/ k \in DOMAIN rows /\ rows'[k] = rows[k]
                                  \/ k = Len(rows) + 1 /\ rows'[k] = batch[pos]
      BY <1>2, <3>2
    <3>4. \A r \in DOMAIN rows' : \A k : IsEntry(k) => rows'[r] < queue[k].n
      BY <2>1, <3>3 DEF OrderInv
    <3>5. Quiet => \A j, k \in DOMAIN rows' : j < k => rows'[j] < rows'[k]
      BY <1>2, <2>1, <3>2, <3>3 DEF OrderInv
    <3>6. Quiet => \A r \in DOMAIN rows', a \in DOMAIN batch : pos + 1 <= a => rows'[r] < batch[a]
      BY <1>2, <2>1, <3>3 DEF OrderInv
    <3>7. QED BY <1>1, <1>3, <2>1, <3>4, <3>5, <3>6 DEF FaultInv, OrderInv
  <2>4. QED BY <1>6, <2>2, <2>3 DEF WritesOne
<1>7. CASE StartsSingle /\ GoesOn
  BY <1>1, <1>3, <1>7 DEF StartsSingle, GoesOn, FaultInv, OrderInv
<1>8. CASE Breaks /\ GoesOn
  <2>1. Quiet' => "other" \notin faults
    BY <1>1, <1>8 DEF Breaks, Quiet
  <2>2. Quiet' => pos = 1
    BY <1>2, <1>3, <1>8, <2>1 DEF Breaks, FaultInv, OrderInv, TypeInv, TypeOK
  <2>3. QED BY <1>1, <1>3, <1>8, <2>2 DEF Breaks, GoesOn, FaultInv, OrderInv
<1>9. CASE Reopens /\ GoesOn
  BY <1>1, <1>3, <1>9 DEF Reopens, GoesOn, FaultInv, OrderInv
<1>10. CASE GivesUp
  <2>1. disabled \in BOOLEAN
    BY DEF TypeInv, TypeOK
  <2>2. QED BY <1>4, <1>10, <2>1 DEF GivesUp
<1>11. QED BY <1>1, <1>5, <1>6, <1>7, <1>8, <1>9, <1>10

LEMMA LossWrite ==
    ASSUME TypeInv, FaultInv, BarrierInv, LossInv, Insert \/ Single \/ Recover
    PROVE  LossInv'
<1>1. /\ faults \subseteq faults' /\ UNCHANGED owner
      /\ \/ (StartsSingle \/ WritesOne \/ Breaks \/ Reopens) /\ GoesOn
         \/ WritesAll \/ GivesUp
  BY WriteCases, WriteKinds DEF sender
<1>2. /\ rows \in Seq(1..sent) /\ batch \in Seq(1..sent) /\ pos \in Nat
      /\ DOMAIN batch = 1..Len(batch) /\ Len(batch) \in Nat /\ disabled \in BOOLEAN
  BY DEF TypeInv, TypeOK
<1>3. ASSUME NEW off \in BOOLEAN, Ends(off),
             ~off /\ ~("contended" \in faults') =>
                 disabled = FALSE /\ (faults' \subseteq {"fatal"} => Entries(batch) \subseteq Entries(rows')),
             off => faults' \cap {"limit", "capacity", "fatal"} # {}
      PROVE  LossInv'
  <2>1. /\ dropped' = dropped \cup (Entries(batch) \ Entries(rows')) /\ disabled' = off
        /\ worker' = IF why.kind = "shutdown" THEN "gone" ELSE "receive"
    BY <1>3 DEF Ends
  <2>2. ~off /\ faults' \subseteq {"fatal"} => dropped' = {}
    BY <1>1, <1>3, <2>1 DEF LossInv
  <2>3. worker' = "gone" => owner # "open"
    BY <2>1 DEF BarrierInv
  <2>4. QED BY <1>1, <1>3, <2>1, <2>2, <2>3 DEF LossInv
<1>4. CASE WritesAll
  <2>1. Ends(FALSE) /\ rows' = rows \o batch
    BY <1>4 DEF WritesAll
  <2>2. Entries(batch) \subseteq Entries(rows')
    <3>1. \A k \in DOMAIN batch : Len(rows) + k \in DOMAIN rows' /\ rows'[Len(rows) + k] = batch[k]
      <4>1. /\ Len(rows) \in Nat /\ DOMAIN rows' = 1..(Len(rows) + Len(batch))
            /\ \A k \in (Len(rows) + 1)..(Len(rows) + Len(batch)) : rows'[k] = batch[k - Len(rows)]
        BY <1>2, <2>1
      <4>2. TAKE k \in DOMAIN batch
      <4>3. Len(rows) + k \in (Len(rows) + 1)..(Len(rows) + Len(batch)) /\ (Len(rows) + k) - Len(rows) = k
        BY <1>2, <4>1
      <4>4. QED BY <1>2, <4>1, <4>3
    <3>2. QED BY <3>1 DEF Entries
  <2>3. QED BY <1>3, <1>4, <2>1, <2>2 DEF WritesAll
<1>5. CASE GivesUp
  <2>1. CASE Ends(disabled) /\ faults' = faults /\ (disabled \/ batch = <<>>)
    <3>1. batch = <<>> => Entries(batch) = {}
      BY DEF Entries
    <3>2. QED BY <1>2, <1>3, <2>1, <3>1 DEF LossInv
  <2>2. CASE Ends(FALSE) /\ "contended" \in faults'
    BY <1>3, <2>2
  <2>3. CASE Ends(TRUE) /\ ("capacity" \in faults' \/ "fatal" \in faults')
    BY <1>3, <2>3
  <2>4. CASE Ends(TRUE) /\ worker = "recover"
    BY <1>1, <1>3, <2>4 DEF FaultInv
  <2>5. CASE Ends(FALSE) /\ faults' = faults /\ worker = "single" /\ pos > Len(batch)
    <3>1. disabled = FALSE /\ rows' = rows
      BY <1>2, <1>5, <2>5 DEF FaultInv, GivesUp
    <3>2. \A a \in DOMAIN batch : a < pos
      BY <1>2, <2>5
    <3>3. faults' \subseteq {"fatal"} => Entries(batch) \subseteq Entries(rows')
      BY <2>5, <3>1, <3>2 DEF LossInv, Entries
    <3>4. QED BY <1>3, <2>5, <3>1, <3>3
  <2>6. QED BY <1>5, <2>1, <2>2, <2>3, <2>4, <2>5 DEF GivesUp
<1>6. CASE (StartsSingle \/ WritesOne \/ Breaks \/ Reopens) /\ GoesOn
  <2>1. UNCHANGED <<batch, disabled, dropped>> /\ worker' \in {"insert", "single", "recover"}
    BY <1>6 DEF GoesOn
  <2>2. faults' \subseteq {"fatal"} /\ worker' = "single" =>
          \A a \in DOMAIN batch : a < pos' => batch[a] \in Entries(rows')
    <3>1. CASE StartsSingle
      <4>1. pos' = 1
        BY <3>1 DEF StartsSingle, FaultInv
      <4>2. QED BY <1>2, <4>1
    <3>2. CASE WritesOne
      <4>1. CASE rows' = rows /\ "row" \in faults'
        BY <4>1
      <4>2. CASE rows' = Append(rows, batch[pos]) /\ faults' = faults
        <5>1. worker = "single" /\ pos' = pos + 1 /\ pos \in DOMAIN batch
          BY <3>2 DEF WritesOne
        <5>2. batch[pos] \in 1..sent
          BY <1>2, <5>1, Elements
        <5>3. /\ DOMAIN rows = 1..Len(rows) /\ DOMAIN rows' = 1..(Len(rows) + 1)
              /\ Len(rows) \in Nat /\ rows'[Len(rows) + 1] = batch[pos]
              /\ \A k \in 1..Len(rows) : rows'[k] = rows[k]
          BY <1>2, <4>2, <5>2
        <5>4. Entries(rows) \subseteq Entries(rows') /\ batch[pos] \in Entries(rows')
          <6>1. DOMAIN rows \subseteq DOMAIN rows' /\ Len(rows) + 1 \in DOMAIN rows'
            BY <5>3
          <6>2. QED BY <5>3, <6>1 DEF Entries
        <5>5. \A a \in DOMAIN batch : a < pos' => a < pos \/ a = pos
          BY <1>2, <5>1
        <5>6. QED BY <4>2, <5>1, <5>4, <5>5 DEF LossInv
      <4>3. QED BY <3>2, <4>1, <4>2 DEF WritesOne
    <3>3. CASE Breaks \/ Reopens
      BY <3>3 DEF Breaks, Reopens
    <3>4. QED BY <1>6, <3>1, <3>2, <3>3
  <2>3. QED BY <1>1, <2>1, <2>2 DEF LossInv
<1>7. QED BY <1>1, <1>4, <1>5, <1>6

AccountInv == FaultInv /\ OrderInv /\ LossInv

LEMMA AccountInit == Init => AccountInv
<1> SUFFICES ASSUME Init PROVE AccountInv
  OBVIOUS
<1>1. /\ \A k \in DOMAIN queue : FALSE
      /\ \A k \in DOMAIN batch : FALSE
      /\ \A k \in DOMAIN rows : FALSE
  BY DEF Init
<1>2. /\ worker = "opening" /\ pos = 1 /\ disabled = FALSE /\ dropped = {}
  BY DEF Init
<1>3. QED BY <1>1, <1>2 DEF AccountInv, FaultInv, OrderInv, LossInv, IsEntry

LEMMA AccountLog ==
    ASSUME TypeInv, AccountInv, Log
    PROVE  AccountInv'
<1>1. queue \in Seq(Message) /\ rows \in Seq(1..sent) /\ batch \in Seq(1..sent) /\ sent \in Nat
      /\ DOMAIN queue = 1..Len(queue) /\ Len(queue) \in Nat
  BY SizesAssumption DEF TypeInv, TypeOK
<1>2. Entry(sent + 1) \in Message /\ Send(Entry(sent + 1)) /\ Entry(sent + 1).n = sent + 1
  BY <1>1 DEF Log, Entry, Message
<1>3. \A k \in DOMAIN queue' : \/ k \in DOMAIN queue /\ queue'[k] = queue[k]
                               \/ k = Len(queue) + 1 /\ queue'[k] = Entry(sent + 1)
  BY <1>1, <1>2, Sent
<1>4. /\ owner = "open" /\ UNCHANGED <<owner, worker, batch, pos, disabled, rows, faults>>
      /\ dropped' = IF Open THEN dropped ELSE dropped \cup {sent + 1}
  BY DEF Log, writing
<1>5. \A k : IsEntry(k)' => \/ IsEntry(k) /\ queue'[k].n = queue[k].n
                            \/ k = Len(queue) + 1 /\ queue'[k].n = sent + 1
  BY <1>2, <1>3 DEF IsEntry
<1>6. /\ \A k : IsEntry(k) => queue[k].n \in 1..sent /\ k \in 1..Len(queue)
      /\ \A a \in DOMAIN batch : batch[a] \in 1..sent
      /\ \A r \in DOMAIN rows : rows[r] \in 1..sent
  BY <1>1, Elements DEF IsEntry, TypeInv
<1>7. \A j, k : IsEntry(j)' /\ IsEntry(k)' /\ j < k => queue'[j].n < queue'[k].n
  BY <1>1, <1>5, <1>6 DEF AccountInv, OrderInv
<1>8. ASSUME NEW a \in DOMAIN batch, NEW k, IsEntry(k)'
      PROVE  batch[a] < queue'[k].n
  <2>1. CASE IsEntry(k) /\ queue'[k].n = queue[k].n
    <3>1. batch[a] < queue[k].n
      BY <2>1 DEF AccountInv, OrderInv
    <3>2. QED BY <2>1, <3>1
  <2>2. CASE queue'[k].n = sent + 1
    <3>1. batch[a] \in 1..sent
      BY <1>6
    <3>2. QED BY <1>1, <2>2, <3>1
  <2>3. QED BY <1>5, <1>8, <2>1, <2>2
<1>9. ASSUME NEW r \in DOMAIN rows, NEW k, IsEntry(k)'
      PROVE  rows[r] < queue'[k].n
  <2>1. CASE IsEntry(k) /\ queue'[k].n = queue[k].n
    <3>1. rows[r] < queue[k].n
      BY <2>1 DEF AccountInv, OrderInv
    <3>2. QED BY <2>1, <3>1
  <2>2. CASE queue'[k].n = sent + 1
    <3>1. rows[r] \in 1..sent
      BY <1>6
    <3>2. QED BY <1>1, <2>2, <3>1
  <2>3. QED BY <1>5, <1>9, <2>1, <2>2
<1>10. OrderInv'
  BY <1>4, <1>7, <1>8, <1>9 DEF AccountInv, OrderInv, Quiet
<1>11. FaultInv' /\ LossInv'
  BY <1>4 DEF AccountInv, FaultInv, LossInv, Open
<1>12. QED BY <1>10, <1>11 DEF AccountInv

\* Steps that leave the entries in the channel as they are.
LEMMA AccountStill ==
    ASSUME TypeInv, AccountInv,
           Request \/ Drop \/ DropReturns \/ Exit \/ Expire \/ Timeout \/ UNCHANGED vars
    PROVE  AccountInv'
<1>1. queue \in Seq(Message)
  BY DEF TypeInv, TypeOK
<1>2. UNCHANGED <<batch, pos, disabled, rows, dropped, faults>>
  BY DEF Request, Drop, DropReturns, Exit, Expire, Timeout, writing, store, vars
<1>3. \A k : IsEntry(k)' => IsEntry(k) /\ queue'[k].n = queue[k].n
  <2>1. ASSUME NEW m \in Message, m.kind # "entry", Send(m)
        PROVE  \A k : IsEntry(k)' => IsEntry(k) /\ queue'[k].n = queue[k].n
    <3>1. \A k \in DOMAIN queue' : (k \in DOMAIN queue /\ queue'[k] = queue[k]) \/ queue'[k] = m
      BY <1>1, <2>1, Sent
    <3>2. QED BY <2>1, <3>1 DEF IsEntry
  <2>2. CASE Request
    <3>1. [kind |-> "flush", n |-> Len(asked) + 1] \in Message
      BY DEF Message, TypeInv, TypeOK
    <3>2. QED BY <2>1, <2>2, <3>1 DEF Request
  <2>3. CASE Drop
    <3>1. [kind |-> "shutdown", n |-> 0] \in Message
      BY DEF Message
    <3>2. QED BY <2>1, <2>3, <3>1 DEF Drop
  <2>4. CASE DropReturns \/ Exit \/ Expire \/ Timeout \/ UNCHANGED vars
    BY <2>4 DEF DropReturns, Exit, Expire, Timeout, vars, IsEntry
  <2>5. QED BY <2>2, <2>3, <2>4
<1>4. /\ worker' = worker \/ worker' = "gone" \/ (worker = "receive" /\ worker' = "insert")
      /\ worker' = "gone" => worker = "gone" \/ owner' # "open"
      /\ owner' = "open" => owner = "open"
  BY DEF Request, Drop, DropReturns, Exit, Expire, Timeout, Flush, writing, store, sender, vars
<1>5. OrderInv'
  BY <1>2, <1>3, <1>4 DEF AccountInv, OrderInv, Quiet
<1>6. FaultInv' /\ LossInv'
  BY <1>2, <1>4 DEF AccountInv, FaultInv, LossInv
<1>7. QED BY <1>5, <1>6 DEF AccountInv

LEMMA AccountStart ==
    ASSUME TypeInv, AccountInv, Start
    PROVE  AccountInv'
<1>1. UNCHANGED <<owner, batch, pos, rows>> /\ worker = "opening" /\ pos = 1
      /\ worker' \in {"receive", "gone"} /\ faults \subseteq faults'
  BY DEF Start, Fails, sender, writing, AccountInv, FaultInv
<1>2. queue' = queue \/ queue' = <<>>
  BY DEF Start
<1>3. \A k : IsEntry(k)' => IsEntry(k) /\ queue'[k].n = queue[k].n
  <2>1. CASE queue' = queue
    BY <2>1 DEF IsEntry
  <2>2. CASE queue' = <<>>
    BY <2>2 DEF IsEntry
  <2>3. QED BY <1>2, <2>1, <2>2
<1>4. OrderInv' /\ FaultInv'
  BY <1>1, <1>3 DEF AccountInv, OrderInv, FaultInv, Quiet
<1>5. LossInv'
  <2>1. CASE UNCHANGED <<disabled, faults, dropped>> /\ worker' = "receive"
    BY <1>1, <2>1 DEF AccountInv, LossInv
  <2>2. CASE Fails("limit") /\ disabled' = TRUE /\ worker' = "receive"
    BY <1>1, <2>2 DEF Fails, LossInv
  <2>3. CASE Fails("open") /\ worker' = "gone" /\ UNCHANGED disabled
    BY <1>1, <2>3 DEF Fails, AccountInv, LossInv
  <2>4. QED BY <2>1, <2>2, <2>3 DEF Start
<1>6. QED BY <1>4, <1>5 DEF AccountInv

LEMMA AccountReceive ==
    ASSUME TypeInv, AccountInv, Receive
    PROVE  AccountInv'
<1> DEFINE m == Head(queue)
<1>1. queue \in Seq(Message) /\ batch \in Seq(1..sent) /\ worker = "receive" /\ pos = 1
      /\ DOMAIN queue \subseteq Nat /\ DOMAIN batch = 1..Len(batch) /\ Len(batch) \in Nat
  BY DEF TypeInv, TypeOK, Receive
<1>2. /\ 1 \in DOMAIN queue /\ m = queue[1]
      /\ \A k \in DOMAIN queue' : k + 1 \in DOMAIN queue /\ queue'[k] = queue[k + 1] /\ k \in Nat /\ 1 < k + 1
  <2>1. queue' \in Seq(Message)
    BY <1>1, Received
  <2>2. \A k \in DOMAIN queue' : k \in Nat /\ k >= 1
    BY <2>1
  <2>3. QED BY <1>1, <2>2, Received
<1>3. /\ UNCHANGED <<owner, pos, disabled, rows, faults>> /\ worker' \in {"receive", "insert"}
  BY DEF Receive, Flush, sender
<1> HIDE DEF m
<1>4. \A k : IsEntry(k)' => IsEntry(k + 1) /\ queue'[k].n = queue[k + 1].n /\ k \in Nat /\ 1 < k + 1
  BY <1>2 DEF IsEntry
<1>5. m.kind = "entry" => IsEntry(1) /\ queue[1].n = m.n
  BY <1>2 DEF IsEntry
<1>6. \A j, k : IsEntry(j)' /\ IsEntry(k)' /\ j < k => queue'[j].n < queue'[k].n
  BY <1>4 DEF AccountInv, OrderInv
<1>7. CASE batch' = batch
  <2>1. OrderInv'
    BY <1>1, <1>3, <1>4, <1>6, <1>7 DEF AccountInv, OrderInv, Quiet
  <2>2. dropped' = dropped \/ disabled
    BY <1>7 DEF Receive
  <2>3. FaultInv' /\ LossInv'
    BY <1>1, <1>3, <2>2, <1>7 DEF AccountInv, FaultInv, LossInv
  <2>4. QED BY <2>1, <2>3 DEF AccountInv
<1>8. CASE batch' # batch
  <2>1. m.kind = "entry" /\ batch' = Append(batch, m.n) /\ dropped' = dropped
    BY <1>8 DEF Receive, m
  <2>2. m.n \in 1..sent
    BY <1>2, <2>1 DEF TypeInv
  <2>3. /\ DOMAIN batch' = 1..(Len(batch) + 1) /\ batch'[Len(batch) + 1] = m.n
        /\ \A k \in 1..Len(batch) : batch'[k] = batch[k]
    BY <1>1, <2>1, <2>2
  <2>4. \A a \in DOMAIN batch' : \/ a \in DOMAIN batch /\ batch'[a] = batch[a]
                                 \/ a = Len(batch) + 1 /\ batch'[a] = m.n
    BY <1>1, <2>3
  <2>5. \A a \in DOMAIN batch' : \A k : IsEntry(k)' => batch'[a] < queue'[k].n
    BY <1>4, <1>5, <2>1, <2>4 DEF AccountInv, OrderInv
  <2>6. \A a, b \in DOMAIN batch' : a < b => batch'[a] < batch'[b]
    BY <1>1, <1>5, <2>1, <2>3, <2>4 DEF AccountInv, OrderInv
  <2>7. Quiet => \A r \in DOMAIN rows, a \in DOMAIN batch' : pos <= a => rows[r] < batch'[a]
    BY <1>1, <1>5, <2>1, <2>4 DEF AccountInv, OrderInv
  <2>8. \A r \in DOMAIN rows : \A k : IsEntry(k)' => rows[r] < queue'[k].n
    BY <1>4 DEF AccountInv, OrderInv
  <2>9. OrderInv'
    BY <1>3, <1>6, <2>5, <2>6, <2>7, <2>8 DEF AccountInv, OrderInv, Quiet
  <2>10. FaultInv' /\ LossInv'
    BY <1>1, <1>3, <2>1 DEF AccountInv, FaultInv, LossInv
  <2>11. QED BY <2>9, <2>10 DEF AccountInv
<1>9. QED BY <1>7, <1>8

LEMMA AccountStep == TypeInv /\ BarrierInv /\ AccountInv /\ [Next]_vars => AccountInv'
BY AccountLog, AccountStill, AccountStart, AccountReceive, OrderWrite, LossWrite
   DEF Next, Worker, AccountInv

\* Rows are in the order their entries were logged and each is written once,
\* also across a recovery, and an entry is given up or the writer switched off
\* only for a failure that calls for it.
THEOREM RowsInOrderLossesCaused == Spec => []RowsAccounted
<1>1. AccountInv => RowsAccounted
  BY DEF AccountInv, OrderInv, LossInv, RowsAccounted, Quiet
<1>2. QED BY <1>1, InitType, TypeStep, BarrierInit, BarrierStep, AccountInit, AccountStep, PTL DEF Spec

-------------------------------------------------------------------------------
(* A drop that joins the worker comes to an end                            *)

\* Where the shutdown marker is in the channel.
Marks == {k \in DOMAIN queue : queue[k].kind = "shutdown"}
Mark == IF Marks = {} THEN 0 ELSE CHOOSE k \in Marks : TRUE

\* Steps the worker may take for its batch before it takes another message: of
\* one it gathers, when it is too old, when it is written in one piece, entry
\* by entry, and both once more after the database was reopened.
Left == Len(batch) + 1 - pos
Rank ==
    CASE worker = "opening" -> 1
      [] worker = "receive" -> IF timer THEN 2 * BatchSize + 6
                               ELSE IF batch = <<>> THEN 0 ELSE 2 * BatchSize + 7
      [] worker = "insert"  -> IF retried THEN BatchSize + 2 ELSE 2 * BatchSize + 5
      [] worker = "recover" -> BatchSize + 3
      [] worker = "single"  -> IF retried THEN Left + 1 ELSE BatchSize + Left + 4
      [] OTHER -> 0
Cost == 2 * BatchSize + 8

\* Steps of the worker until it has done with the marker.
ToDo == IF worker = "gone" THEN 0 ELSE Cost * Mark + Rank

\* A dropped writer has sent one marker, and a worker that is not done has it
\* ahead or writes its last batch for it.
MarkInv ==
    /\ \A j, k \in Marks : j = k
    /\ Marks # {} \/ why.kind = "shutdown" => owner # "open"
    /\ why.kind = "shutdown" => Marks = {} /\ worker \notin {"opening", "receive"}
    /\ owner # "open" /\ worker # "gone" => Marks # {} \/ why.kind = "shutdown"
    /\ worker = "opening" => ~timer

LEMMA MarkInit == Init => MarkInv
<1> SUFFICES ASSUME Init PROVE MarkInv
  OBVIOUS
<1>1. Marks = {}
  BY DEF Init, Marks
<1>2. QED BY <1>1 DEF Init, MarkInv, Nothing

LEMMA MarkType ==
    ASSUME TypeInv
    PROVE  /\ Mark \in Nat /\ Mark <= Len(queue) /\ (Marks # {} => Mark \in Marks /\ Mark >= 1)
           /\ Marks \subseteq 1..Len(queue) /\ Len(queue) \in Nat
<1>1. DOMAIN queue = 1..Len(queue) /\ Len(queue) \in Nat
  BY DEF TypeInv, TypeOK
<1>2. Marks # {} => Mark \in Marks
  BY DEF Mark
<1>3. QED BY <1>1, <1>2 DEF Marks, Mark

LEMMA RankType ==
    ASSUME TypeInv
    PROVE  Rank \in 0..(2 * BatchSize + 7) /\ Left \in 0..BatchSize /\ (Writes => Rank >= 1)
<1>1. BatchSize \in Nat /\ BatchSize >= 1 /\ Len(batch) \in Nat /\ Len(batch) <= BatchSize
      /\ pos \in 1..(Len(batch) + 1) /\ retried \in BOOLEAN /\ timer \in BOOLEAN
  BY SizesAssumption DEF TypeInv, TypeOK
<1>2. Left \in 0..BatchSize
  BY <1>1 DEF Left
<1>3. worker \in {"opening", "receive", "insert", "single", "recover", "gone"}
  BY DEF TypeInv, TypeOK
<1> HIDE DEF Left
<1>4. CASE worker = "single"
  BY <1>1, <1>2, <1>4 DEF Rank
<1>5. CASE worker = "opening"
  BY <1>1, <1>2, <1>5 DEF Rank, Writes
<1>6. CASE worker = "receive"
  BY <1>1, <1>2, <1>6 DEF Rank, Writes
<1>7. CASE worker = "insert"
  BY <1>1, <1>2, <1>7 DEF Rank
<1>8. CASE worker = "recover"
  BY <1>1, <1>2, <1>8 DEF Rank
<1>9. CASE worker = "gone"
  BY <1>1, <1>2, <1>9 DEF Rank, Writes
<1>10. QED BY <1>3, <1>4, <1>5, <1>6, <1>7, <1>8, <1>9

\* A step of the writing worker goes on with fewer steps left, or ends.
LEMMA WritesGoOn ==
    ASSUME TypeInv, Insert \/ Single \/ Recover
    PROVE  \/ /\ UNCHANGED <<why, batch, timer>>
              /\ worker' \in {"insert", "single", "recover"} /\ Rank' < Rank
           \/ \E off \in BOOLEAN : Ends(off)
<1>1. BatchSize \in Nat /\ BatchSize >= 1 /\ Len(batch) \in Nat /\ Len(batch) <= BatchSize
      /\ pos \in 1..(Len(batch) + 1) /\ retried \in BOOLEAN /\ disabled \in BOOLEAN
  BY SizesAssumption DEF TypeInv, TypeOK
<1>2. \A off : Finish(off) => Ends(off)
  BY DEF Finish, Ends
<1>3. Left \in 0..BatchSize
  BY <1>1 DEF Left
<1>4. ASSUME Refused, worker = "insert" \/ worker = "single"
      PROVE  \/ /\ UNCHANGED <<why, batch, timer>>
                /\ worker' \in {"insert", "single", "recover"} /\ Rank' < Rank
             \/ \E off \in BOOLEAN : Ends(off)
  <2>1. CASE ~retried /\ Goto("recover") /\ UNCHANGED <<pos, retried>>
    <3>1. Rank' = BatchSize + 3 /\ Rank > BatchSize + 3
      BY <1>1, <1>3, <1>4, <2>1 DEF Goto, Rank
    <3>2. QED BY <1>1, <2>1, <3>1 DEF Goto
  <2>2. QED BY <1>2, <1>4, <2>1 DEF Refused
<1>5. CASE Insert
  <2>1. CASE Goto("single") /\ UNCHANGED <<pos, retried>>
    <3>1. Left' = Left /\ worker = "insert" /\ worker' = "single" /\ UNCHANGED <<why, batch, timer, retried>>
      BY <1>5, <2>1 DEF Left, Goto, Insert
    <3> HIDE DEF Left
    <3>2. Rank' < Rank
      BY <1>1, <1>3, <3>1 DEF Rank
    <3>3. QED BY <3>1, <3>2
  <2>2. QED BY <1>1, <1>2, <1>4, <1>5, <2>1 DEF Insert
<1>6. CASE Single
  <2>1. CASE \E b \in BOOLEAN : Write(b)
    <3>1. worker = "single" /\ worker' = "single" /\ UNCHANGED <<why, batch, timer, retried>>
          /\ pos' = pos + 1 /\ pos <= Len(batch)
      BY <1>6, <2>1 DEF Single, Write, Goto
    <3>2. Left' = Left - 1
      BY <1>1, <3>1 DEF Left
    <3> HIDE DEF Left
    <3>3. Rank' < Rank
      BY <1>1, <1>3, <3>1, <3>2 DEF Rank
    <3>4. QED BY <3>1, <3>3
  <2>2. QED BY <1>2, <1>4, <1>6, <2>1 DEF Single
<1>7. CASE Recover
  <2>1. CASE Goto("insert") /\ retried' = TRUE
    BY <1>1, <1>7, <2>1 DEF Goto, Rank, Recover
  <2>2. QED BY <1>2, <1>7, <2>1 DEF Recover
<1>8. QED BY <1>5, <1>6, <1>7

\* What a send does to the markers.
LEMMA MarksSent ==
    ASSUME TypeInv, NEW m \in Message, Send(m)
    PROVE  /\ m.kind # "shutdown" => Marks' = Marks
           /\ m.kind = "shutdown" => Marks' \subseteq Marks \cup {Len(queue) + 1}
           /\ m.kind = "shutdown" /\ Open => Len(queue) + 1 \in Marks'
<1>1. queue \in Seq(Message) /\ DOMAIN queue = 1..Len(queue) /\ Len(queue) \in Nat
  BY DEF TypeInv, TypeOK
<1>2. /\ DOMAIN queue \subseteq DOMAIN queue'
      /\ \A k \in DOMAIN queue : queue'[k] = queue[k]
      /\ Open => queue'[Len(queue) + 1] = m /\ DOMAIN queue' = 1..(Len(queue) + 1)
      /\ \A k \in DOMAIN queue' : k \in DOMAIN queue \/ (Open /\ k = Len(queue) + 1)
  BY <1>1, Sent
<1>3. QED BY <1>1, <1>2 DEF Marks

\* A receive brings the marker one nearer, or takes it.
LEMMA MarksReceived ==
    ASSUME TypeInv, MarkInv, Receive
    PROVE  /\ \A k \in Marks' : k + 1 \in Marks /\ k # 0
           /\ \A k \in Marks : k = 1 \/ k - 1 \in Marks'
           /\ 1 \in Marks <=> Head(queue).kind = "shutdown"
<1>1. queue \in Seq(Message)
  BY DEF TypeInv, TypeOK
<1>2. /\ queue' \in Seq(Message) /\ 1 \in DOMAIN queue /\ Head(queue) = queue[1]
      /\ \A k \in DOMAIN queue' : k + 1 \in DOMAIN queue /\ queue'[k] = queue[k + 1]
      /\ \A k \in DOMAIN queue : k = 1 \/ k - 1 \in DOMAIN queue'
  BY <1>1, Received
<1>3. DOMAIN queue \subseteq Nat /\ \A k \in DOMAIN queue' : k \in Nat /\ k # 0
  BY <1>1, <1>2
<1>4. \A k \in DOMAIN queue : k = 1 \/ queue'[k - 1] = queue[k]
  <2>1. TAKE k \in DOMAIN queue
  <2>2. CASE k - 1 \in DOMAIN queue'
    <3>1. queue'[k - 1] = queue[(k - 1) + 1] /\ (k - 1) + 1 = k
      BY <1>2, <1>3, <2>2
    <3>2. QED BY <3>1
  <2>3. QED BY <1>2, <2>2
<1>5. QED BY <1>2, <1>3, <1>4 DEF Marks

\* Numbers: one message less outweighs any rank.
LEMMA Nearer ==
    ASSUME NEW c \in Nat, NEW m \in Nat, NEW n \in Nat, m = n + 1,
           NEW r \in Nat, NEW s \in Nat, s < c
    PROVE  c * n + s < c * m + r
<1>1. c * m = c * n + c
  OBVIOUS
<1>2. c * n \in Nat
  OBVIOUS
<1>3. QED BY <1>1, <1>2

LEMMA Further ==
    ASSUME NEW c \in Nat, NEW m \in Nat, NEW n \in Nat, m <= n, NEW r \in Nat, r < c
    PROVE  c * m + r \in 0..(c * (n + 1))
<1>1. c * m <= c * n /\ c * (n + 1) = c * n + c /\ c * m \in Nat /\ c * n \in Nat
  OBVIOUS
<1>2. QED BY <1>1

LEMMA MarkStep == TypeInv /\ MarkInv /\ [Next]_vars => MarkInv'
<1> SUFFICES ASSUME TypeInv, MarkInv, [Next]_vars PROVE MarkInv'
  OBVIOUS
<1>1. Marks \subseteq 1..Len(queue) /\ Len(queue) \in Nat
  BY MarkType
<1>2. CASE Log
  <2>1. Entry(sent + 1) \in Message /\ Entry(sent + 1).kind # "shutdown" /\ Send(Entry(sent + 1))
    BY <1>2, SizesAssumption DEF Log, Entry, Message, TypeInv, TypeOK
  <2>2. Marks' = Marks
    BY <2>1, MarksSent
  <2>3. QED BY <1>2, <2>2 DEF Log, MarkInv, writing
<1>3. CASE Request
  <2>1. [kind |-> "flush", n |-> Len(asked) + 1] \in Message
    BY DEF Message, TypeInv, TypeOK
  <2>2. Marks' = Marks
    BY <1>3, <2>1, MarksSent DEF Request
  <2>3. QED BY <1>3, <2>2 DEF Request, MarkInv, writing
<1>4. CASE Drop
  <2>1. [kind |-> "shutdown", n |-> 0] \in Message
    BY DEF Message
  <2>2. Marks' \subseteq Marks \cup {Len(queue) + 1} /\ (Open => Len(queue) + 1 \in Marks')
    BY <1>4, <2>1, MarksSent DEF Drop
  <2>3. owner = "open" /\ owner' # "open" /\ UNCHANGED <<worker, why, timer>>
    BY <1>4 DEF Drop, writing
  <2>4. Marks = {} /\ why.kind # "shutdown"
    BY <2>3 DEF MarkInv
  <2>5. QED BY <1>1, <2>2, <2>3, <2>4 DEF MarkInv, Open
<1>5. CASE DropReturns \/ Expire \/ Timeout \/ UNCHANGED vars
  <2>1. /\ UNCHANGED queue /\ (why' = why \/ (why' = Nothing /\ worker = "receive"))
        /\ worker' = worker \/ (worker = "receive" /\ worker' = "insert")
        /\ worker = "opening" => timer' = timer
        /\ (owner # "open" <=> owner' # "open")
    BY <1>5 DEF DropReturns, Expire, Timeout, Flush, writing, store, sender, vars
  <2>2. Marks' = Marks /\ Nothing.kind = "entry"
    BY <2>1 DEF Marks, Nothing
  <2>3. QED BY <2>1, <2>2 DEF MarkInv
<1>6. CASE Exit
  <2>1. Marks' = Marks
    BY <1>6 DEF Marks, Exit
  <2>2. QED BY <1>6, <2>1 DEF MarkInv, Exit, writing
<1>7. CASE Start
  <2>1. /\ UNCHANGED <<owner, why, timer>> /\ worker = "opening"
        /\ \/ worker' = "receive" /\ queue' = queue
           \/ worker' = "gone" /\ queue' = <<>>
    BY <1>7 DEF Start, writing, sender
  <2>2. Marks' \subseteq Marks /\ (queue' = queue => Marks' = Marks)
    BY <2>1 DEF Marks
  <2>3. QED BY <2>1, <2>2 DEF MarkInv
<1>8. CASE Receive
  <2>1. /\ \A k \in Marks' : k + 1 \in Marks /\ k # 0
        /\ \A k \in Marks : k = 1 \/ k - 1 \in Marks'
        /\ 1 \in Marks <=> Head(queue).kind = "shutdown"
    BY <1>8, MarksReceived
  <2>2. /\ UNCHANGED <<owner, timer>> /\ worker = "receive"
        /\ \/ why' = Head(queue) /\ Head(queue).kind # "entry" /\ worker' = "insert"
           \/ why' = Nothing /\ Head(queue).kind = "entry" /\ worker' = "insert"
           \/ why' = why /\ Head(queue).kind = "entry" /\ worker' = "receive"
    BY <1>8 DEF Receive, Flush, sender
  <2>3. why.kind # "shutdown" /\ Nothing.kind = "entry"
    BY <2>2 DEF MarkInv, Nothing
  <2>4. Marks' \subseteq Nat
    <3>1. queue' \in Seq(Message)
      BY <1>8, Received DEF TypeInv, TypeOK
    <3>2. QED BY <3>1 DEF Marks
  <2>5. \A j, k \in Marks' : j = k
    <3>1. TAKE j, k \in Marks'
    <3>2. j + 1 = k + 1
      BY <2>1 DEF MarkInv
    <3>3. QED BY <2>4, <3>2
  <2>6. 1 \in Marks => Marks' = {}
    <3>1. ASSUME 1 \in Marks, NEW k \in Marks' PROVE FALSE
      <4>1. k + 1 = 1 /\ k # 0 /\ k \in Nat
        BY <2>1, <2>4, <3>1 DEF MarkInv
      <4>2. QED BY <4>1
    <3>2. QED BY <3>1
  <2>7. Marks' # {} => Marks # {}
    BY <2>1
  <2>8. owner # "open" => Marks # {}
    BY <2>2, <2>3 DEF MarkInv
  <2>9. QED BY <2>1, <2>2, <2>3, <2>5, <2>6, <2>7, <2>8 DEF MarkInv
<1>9. CASE Insert \/ Single \/ Recover
  <2>1. Writes /\ UNCHANGED <<queue, owner>>
    BY <1>9, WriteKinds DEF sender
  <2>2. Marks' = Marks
    BY <2>1 DEF Marks
  <2>3. CASE UNCHANGED <<why, batch, timer>> /\ worker' \in {"insert", "single", "recover"}
    BY <2>1, <2>2, <2>3 DEF MarkInv, Writes
  <2>4. CASE \E off \in BOOLEAN : Ends(off)
    <3>1. why' = Nothing /\ Nothing.kind = "entry"
          /\ worker' = IF why.kind = "shutdown" THEN "gone" ELSE "receive"
      BY <2>4 DEF Ends, Nothing
    <3>2. QED BY <2>1, <2>2, <3>1 DEF MarkInv, Writes
  <2>5. QED BY <1>9, <2>3, <2>4, WritesGoOn
<1>10. QED BY <1>2, <1>3, <1>4, <1>5, <1>6, <1>7, <1>8, <1>9 DEF Next, Worker

\* The worker does not wait for a message that nobody will send.
NoVainWait == owner # "open" /\ worker = "receive" => timer \/ queue # <<>>

\* What is left to do is bounded by what is queued; no step adds to it, and
\* each of the worker's takes from it.
ToDoOK == owner # "open" => ToDo \in 0..(Cost * (Len(queue) + 1))
GetsDone ==
    owner # "open" => /\ ToDo' <= ToDo
                      /\ Worker \/ Expire => ToDo' < ToDo

LEMMA ToDoType ==
    ASSUME TypeInv
    PROVE  /\ ToDo \in 0..(Cost * (Len(queue) + 1)) /\ ToDo \in Nat
           /\ Cost \in Nat /\ Rank \in Nat /\ Rank < Cost /\ Mark \in Nat
           /\ Cost * Mark \in Nat
           /\ Writes => ToDo > 0
<1>1. Mark \in Nat /\ Mark <= Len(queue) /\ Len(queue) \in Nat
  BY MarkType
<1>2. Rank \in 0..(2 * BatchSize + 7) /\ (Writes => Rank >= 1) /\ BatchSize \in Nat
  BY RankType, SizesAssumption
<1> HIDE DEF Mark, Rank
<1>3. Cost \in Nat /\ Rank \in Nat /\ Rank < Cost
  BY <1>2 DEF Cost
<1> HIDE DEF Cost
<1>4. Cost * Mark \in Nat
  BY <1>1, <1>3
<1>5. Cost * Mark + Rank \in 0..(Cost * (Len(queue) + 1))
  BY <1>1, <1>3, Further
<1>6. 0 \in 0..(Cost * (Len(queue) + 1))
  BY <1>1, <1>3
<1>7. ToDo \in 0..(Cost * (Len(queue) + 1)) /\ ToDo \in Nat
  BY <1>3, <1>4, <1>5, <1>6 DEF ToDo
<1>8. Writes => ToDo > 0
  BY <1>2, <1>3, <1>4 DEF ToDo, Writes
<1>9. QED BY <1>1, <1>3, <1>4, <1>7, <1>8

RankOK == Rank \in Nat /\ Rank < Cost /\ ToDo \in Nat
LEMMA RankNext == TypeInv' => RankOK'
<1>1. TypeInv => RankOK
  BY ToDoType DEF RankOK
<1>2. QED BY <1>1, PTL

LEMMA LessRank ==
    ASSUME TypeInv, TypeInv', Marks' = Marks, worker # "gone", worker' # "gone", Rank' < Rank
    PROVE  ToDo' < ToDo
<1>1. Mark' = Mark
  BY DEF Mark
<1>2. ToDo = Cost * Mark + Rank
  BY DEF ToDo
<1>3. ToDo' = Cost * Mark + Rank'
  BY <1>1 DEF ToDo, Cost
<1>4. Rank \in Nat /\ Cost * Mark \in Nat
  BY ToDoType
<1>5. Rank' \in Nat
  BY RankNext DEF RankOK
<1> HIDE DEF Rank, Cost, Mark
<1>6. QED BY <1>2, <1>3, <1>4, <1>5

\* A message taken, whatever the worker then does with it.
LEMMA LessReceive ==
    ASSUME TypeInv, TypeInv', MarkInv, MarkInv', owner # "open", Receive
    PROVE  ToDo' < ToDo
<1>1. /\ \A k \in Marks' : k + 1 \in Marks /\ k # 0
      /\ \A k \in Marks : k = 1 \/ k - 1 \in Marks'
      /\ 1 \in Marks <=> Head(queue).kind = "shutdown"
  BY MarksReceived
<1>2. worker = "receive" /\ worker' # "gone"
  BY DEF Receive, Flush
<1>3. Marks # {}
  BY <1>2 DEF MarkInv
<1>4. Mark \in Marks /\ Mark \in Nat /\ Mark >= 1
  BY <1>3, MarkType
<1>5. Mark' \in Nat /\ Mark = Mark' + 1
  <2>1. CASE Marks' = {}
    <3>1. Mark' = 0 /\ Mark = 1
      BY <1>1, <1>4, <2>1 DEF Mark
    <3>2. QED BY <3>1
  <2>2. CASE Marks' # {}
    <3>1. Mark' \in Marks'
      BY <2>2 DEF Mark
    <3>2. Mark' + 1 = Mark
      BY <1>1, <1>4, <3>1 DEF MarkInv
    <3>3. Mark' \in Nat
      <4>1. queue' \in Seq(Message)
        BY DEF TypeInv, TypeOK
      <4>2. QED BY <3>1, <4>1 DEF Marks
    <3>4. QED BY <3>2, <3>3
  <2>3. QED BY <2>1, <2>2
<1>6. ToDo = Cost * Mark + Rank
  BY <1>2 DEF ToDo
<1>7. ToDo' = Cost * Mark' + Rank'
  BY <1>2 DEF ToDo, Cost
<1>8. Rank \in Nat /\ Cost \in Nat
  BY ToDoType
<1>9. Rank' \in Nat /\ Rank' < Cost
  BY RankNext DEF RankOK, Cost
<1>10. \A c, m, n, r, s \in Nat : m = n + 1 /\ s < c => c * n + s < c * m + r
  BY Nearer
<1>11. Cost * Mark' + Rank' < Cost * Mark + Rank
  BY <1>4, <1>5, <1>8, <1>9, <1>10
<1>12. QED BY <1>6, <1>7, <1>11

LEMMA WorkerStep ==
    ASSUME TypeInv, TypeInv', MarkInv, MarkInv', owner # "open", Worker \/ Expire
    PROVE  ToDo' < ToDo
<1>3. CASE Expire
  <2>1. /\ UNCHANGED queue /\ worker = "receive" /\ worker' = "receive"
        /\ batch # <<>> /\ ~timer /\ timer'
    BY <1>3 DEF Expire
  <2>2. Marks' = Marks
    BY <2>1 DEF Marks
  <2>3. Rank' < Rank
    BY <2>1, SizesAssumption DEF Rank
  <2>4. QED BY <2>1, <2>2, <2>3, LessRank
<1>4. CASE Start
  <2>1. /\ worker = "opening" /\ UNCHANGED <<batch, timer>>
        /\ \/ worker' = "receive" /\ queue' = queue
           \/ worker' = "gone"
    BY <1>4 DEF Start, writing
  <2>2. batch = <<>> /\ ~timer
    BY <2>1 DEF TypeInv, MarkInv
  <2>3. Rank = 1
    BY <2>1 DEF Rank
  <2>4. CASE worker' = "gone"
    <3>1. ToDo' = 0
      BY <2>4 DEF ToDo
    <3>2. ToDo = Cost * Mark + 1 /\ Cost * Mark \in Nat
      BY <2>1, <2>3, ToDoType DEF ToDo
    <3> HIDE DEF Cost, Mark
    <3>3. ToDo' < ToDo
      BY <3>1, <3>2
    <3>4. QED BY <3>3
  <2>5. CASE worker' = "receive" /\ queue' = queue
    <3>1. Rank' = 0
      BY <2>1, <2>2, <2>5 DEF Rank
    <3>2. Marks' = Marks
      BY <2>5 DEF Marks
    <3>3. Rank' < Rank
      BY <2>3, <3>1
    <3>4. QED BY <2>1, <2>5, <3>2, <3>3, LessRank
  <2>6. QED BY <2>1, <2>4, <2>5
<1>5. CASE Receive
  BY <1>5, LessReceive
<1>6. CASE Timeout
  <2>1. /\ UNCHANGED <<queue, retried>> /\ worker = "receive" /\ timer /\ worker' = "insert"
    BY <1>6 DEF Timeout, Flush
  <2>2. Marks' = Marks /\ ~retried
    BY <2>1 DEF Marks, TypeInv, TypeOK
  <2>3. Rank' < Rank
    BY <2>1, <2>2, SizesAssumption DEF Rank
  <2>4. QED BY <2>1, <2>2, <2>3, LessRank
<1>7. CASE Insert \/ Single \/ Recover
  <2>1. Writes /\ UNCHANGED queue
    BY <1>7, WriteKinds
  <2>2. Marks' = Marks
    BY <2>1 DEF Marks
  <2>3. CASE worker' \in {"insert", "single", "recover"} /\ Rank' < Rank
    BY <2>1, <2>2, <2>3, LessRank DEF Writes
  <2>4. CASE \E off \in BOOLEAN : Ends(off)
    <3>1. batch' = <<>> /\ ~timer' /\ worker' \in {"gone", "receive"}
      BY <2>4 DEF Ends
    <3>2. CASE worker' = "gone"
      <4>1. ToDo' = 0 /\ ToDo > 0
        BY <2>1, <3>2, ToDoType DEF ToDo
      <4>2. QED BY <4>1
    <3>3. CASE worker' = "receive"
      <4>1. Rank' = 0 /\ Rank >= 1 /\ Rank \in Nat
        BY <2>1, <3>1, <3>3, RankType, ToDoType DEF Rank
      <4>2. Rank' < Rank
        BY <4>1
      <4>3. QED BY <2>1, <2>2, <3>3, <4>2, LessRank DEF Writes
    <3>4. QED BY <3>1, <3>2, <3>3
  <2>5. QED BY <1>7, <2>3, <2>4, WritesGoOn
<1>8. QED BY <1>3, <1>4, <1>5, <1>6, <1>7 DEF Worker

LEMMA DoneStep == TypeInv /\ TypeInv' /\ MarkInv /\ MarkInv' /\ [Next]_vars => GetsDone
<1> SUFFICES ASSUME TypeInv, TypeInv', MarkInv, MarkInv', [Next]_vars, owner # "open"
             PROVE  ToDo' <= ToDo
  BY WorkerStep DEF GetsDone
<1>1. ToDo \in Nat /\ ToDo' \in Nat
  BY ToDoType, RankNext DEF RankOK
<1>2. CASE Worker \/ Expire
  <2>1. ToDo' < ToDo
    BY <1>2, WorkerStep
  <2> HIDE DEF ToDo
  <2>2. QED BY <1>1, <2>1
<1>3. CASE Request \/ DropReturns \/ UNCHANGED vars
  <2>1. UNCHANGED <<worker, batch, pos, retried, timer>>
    BY <1>3 DEF Request, DropReturns, vars, writing
  <2>2. Marks' = Marks
    <3>1. CASE Request
      <4>1. [kind |-> "flush", n |-> Len(asked) + 1] \in Message
        BY DEF Message, TypeInv, TypeOK
      <4>2. QED BY <3>1, <4>1, MarksSent DEF Request
    <3>2. CASE DropReturns \/ UNCHANGED vars
      BY <3>2 DEF DropReturns, vars, Marks
    <3>3. QED BY <1>3, <3>1, <3>2
  <2>3. Mark' = Mark /\ Rank' = Rank /\ Cost' = Cost
    BY <2>1, <2>2 DEF Mark, Rank, Left, Cost
  <2>4. ToDo' = ToDo
    BY <2>1, <2>3 DEF ToDo
  <2> HIDE DEF ToDo
  <2>5. QED BY <1>1, <2>4
<1>4. CASE Exit
  <2>1. ToDo' = 0
    BY <1>4 DEF Exit, ToDo
  <2> HIDE DEF ToDo
  <2>2. QED BY <1>1, <2>1
<1>5. QED BY <1>2, <1>3, <1>4 DEF Next, Log, Drop

\* A dropped writer's worker has a bounded number of steps left, whatever
\* fails and whatever is still asked of it: none is added, each it takes is
\* one of them, and it never waits for a message when none is on its way.  So
\* a drop that joins it returns once the worker is scheduled (DropEnds).
THEOREM DropIsBounded == Spec => [](ToDoOK /\ NoVainWait) /\ [][GetsDone]_vars
<1>1. TypeInv => ToDoOK
  BY ToDoType DEF ToDoOK
<1>2. TypeInv /\ MarkInv => NoVainWait
  BY DEF MarkInv, NoVainWait, Marks, TypeInv, TypeOK
<1>3. TypeInv /\ MarkInv /\ [Next]_vars => [GetsDone]_vars
  BY TypeStep, MarkStep, DoneStep
<1>4. QED BY <1>1, <1>2, <1>3, InitType, TypeStep, MarkInit, MarkStep, PTL DEF Spec
================================================================================
