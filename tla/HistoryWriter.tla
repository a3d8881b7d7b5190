----------------------------- MODULE HistoryWriter -----------------------------
(***************************************************************************)
(* The history writer of one process: the owner (the hook's main thread, or*)
(* a CLI command), the holders of flush handles (the signal handler), and  *)
(* the worker thread that alone uses the database.                         *)
(*                                                                         *)
(* Entries, flush requests and the shutdown marker go through one FIFO     *)
(* channel.  The worker gathers entries in a batch and writes it when it is*)
(* full, when its timer runs out, and for a flush or the shutdown, which it*)
(* then acknowledges.  History is best effort: what storage refuses is     *)
(* dropped.  Every storage call may fail.                                  *)
(***************************************************************************)
EXTENDS Naturals, Sequences, FiniteSets

CONSTANTS
    Modes,      \* how owners drop the writer: join, deadline, detach
    BatchSize,  \* entries that fill a batch
    MaxEntries, MaxRequests, MaxFaults  \* bounds: entries logged, flush requests,
                                        \* kinds of failure in one run

ASSUME ModesAssumption == Modes \subseteq {"join", "deadline", "detach"}
ASSUME SizesAssumption ==
    /\ BatchSize \in Nat \ {0}
    /\ MaxEntries \in Nat /\ MaxRequests \in Nat /\ MaxFaults \in Nat

VARIABLES
    mode, owner,    \* how the owner drops the writer, and where it is
    queue,          \* the channel
    worker,         \* where the worker is
    why,            \* the message it writes the batch for
    batch,          \* entries taken and not written
    pos, retried,   \* entry being written alone; the database was reopened
    timer,          \* the batch is older than the flush interval
    disabled,       \* no more writes in this process
    rows,           \* rows written by this process
    sent,           \* history: entries logged, numbered from 1
    dropped,        \* history: entries given up
    asked, acked,   \* history: entries logged before each flush request; answered ones
    faults          \* history: kinds of failure of the storage so far

vars == <<mode, owner, queue, worker, why, batch, pos, retried, timer, disabled,
          rows, sent, dropped, asked, acked, faults>>
sender  == <<mode, owner, sent, asked>>
writing == <<why, batch, pos, retried, timer>>
store   == <<disabled, rows, dropped, acked, faults>>

Entries(s) == {s[k] : k \in DOMAIN s}
Message == [kind : {"entry", "flush", "shutdown"}, n : Nat]
Nothing == [kind |-> "entry", n |-> 0]      \* why: not for a message
Entry(n) == [kind |-> "entry", n |-> n]
Open == worker # "gone"                     \* the channel has a receiver

Init ==
    /\ mode \in Modes /\ owner = "open"
    /\ queue = <<>> /\ worker = "opening" /\ why = Nothing
    /\ batch = <<>> /\ pos = 1 /\ retried = FALSE /\ timer = FALSE /\ disabled = FALSE
    /\ rows = <<>> /\ sent = 0 /\ dropped = {} /\ asked = <<>> /\ acked = {} /\ faults = {}

--------------------------------------------------------------------------------
(* The owner and the flush handles *)

Send(m) == queue' = IF Open THEN Append(queue, m) ELSE queue

Log ==
    /\ owner = "open" /\ sent < MaxEntries
    /\ sent' = sent + 1 /\ Send(Entry(sent + 1))
    /\ dropped' = IF Open THEN dropped ELSE dropped \cup {sent + 1}
    /\ UNCHANGED <<mode, owner, worker, writing, disabled, rows, asked, acked, faults>>

\* Any holder of a handle, the writer dropped or not.
Request ==
    /\ owner # "exited" /\ Len(asked) < MaxRequests
    /\ asked' = Append(asked, sent)
    /\ Send([kind |-> "flush", n |-> Len(asked) + 1])
    /\ UNCHANGED <<mode, owner, sent, worker, writing, store>>

\* Mutant: the marker does not wait for what is queued.
DropFirst ==
    /\ owner = "open"
    /\ queue' = IF Open THEN <<[kind |-> "shutdown", n |-> 0]>> \o queue ELSE queue
    /\ owner' = IF mode = "detach" THEN "returned" ELSE "dropping"
    /\ UNCHANGED <<mode, sent, asked, worker, writing, store>>

Drop ==
    /\ owner = "open"
    /\ Send([kind |-> "shutdown", n |-> 0])
    /\ owner' = IF mode = "detach" THEN "returned" ELSE "dropping"
    /\ UNCHANGED <<mode, sent, asked, worker, writing, store>>

\* The wait ends with the acknowledgement or the worker's end, and for a hook
\* at the latest with its deadline.
DropReturns ==
    /\ owner = "dropping" /\ (mode = "deadline" \/ ~Open)
    /\ owner' = "returned"
    /\ UNCHANGED <<mode, sent, asked, queue, worker, writing, store>>

\* The process ends, and with it the worker; an open transaction is rolled back.
Exit ==
    /\ owner = "returned"
    /\ owner' = "exited" /\ worker' = "gone"
    /\ UNCHANGED <<mode, sent, asked, queue, writing, store>>

--------------------------------------------------------------------------------
(* The worker *)

\* One call to the storage fails.
Fails(kind) ==
    /\ faults' = faults \cup {kind} /\ Cardinality(faults') <= MaxFaults

\* Opening fails, or the size limit is already exceeded or cannot be enforced.
Start ==
    /\ worker = "opening"
    /\ \/ worker' = "receive" /\ UNCHANGED <<disabled, faults, dropped, queue>>
       \/ Fails("limit") /\ disabled' = TRUE /\ worker' = "receive" /\ UNCHANGED <<dropped, queue>>
       \/ /\ Fails("open") /\ worker' = "gone" /\ queue' = <<>>
          /\ dropped' = dropped \cup {m.n : m \in {x \in Entries(queue) : x.kind = "entry"}}
          /\ UNCHANGED disabled
    /\ UNCHANGED <<sender, writing, rows, acked>>

\* The batch is written for message m.
Flush(m) == why' = m /\ worker' = "insert"

\* Mutant: one entry more.
Overfull(b) == Len(b) > BatchSize
Full(b) == Len(b) >= BatchSize

Receive ==
    /\ worker = "receive" /\ ~timer /\ queue # <<>>
    /\ queue' = Tail(queue)
    /\ LET m == Head(queue) IN
         IF m.kind # "entry" THEN Flush(m) /\ UNCHANGED <<batch, dropped>>
         ELSE IF disabled
              THEN dropped' = dropped \cup {m.n} /\ UNCHANGED <<batch, why, worker>>
              ELSE /\ batch' = Append(batch, m.n) /\ UNCHANGED dropped
                   /\ IF Full(batch') THEN Flush(Nothing) ELSE UNCHANGED <<why, worker>>
    /\ UNCHANGED <<sender, pos, retried, timer, disabled, rows, acked, faults>>

\* The age of a batch counts from its first entry; it is looked at before the
\* channel is.
Expire ==
    /\ worker = "receive" /\ batch # <<>> /\ ~timer /\ timer' = TRUE
    /\ UNCHANGED <<sender, queue, worker, why, batch, pos, retried, store>>
Timeout ==
    /\ worker = "receive" /\ timer
    /\ Flush(Nothing)
    /\ UNCHANGED <<sender, queue, batch, pos, retried, timer, store>>

\* Mutant: the worker does not stop after a shutdown.
FinishOn(off) ==
    /\ dropped' = dropped \cup (Entries(batch) \ Entries(rows'))
    /\ disabled' = off
    /\ batch' = <<>> /\ pos' = 1 /\ retried' = FALSE /\ timer' = FALSE /\ why' = Nothing
    /\ acked' = IF why.kind = "flush" THEN acked \cup {why.n} ELSE acked
    /\ worker' = "receive"
\* The batch is done with, what was not written is given up, and the message
\* it was written for is acknowledged.  The connection is closed before a
\* shutdown is.
Finish(off) ==
    /\ dropped' = dropped \cup (Entries(batch) \ Entries(rows'))
    /\ disabled' = off
    /\ batch' = <<>> /\ pos' = 1 /\ retried' = FALSE /\ timer' = FALSE /\ why' = Nothing
    /\ acked' = IF why.kind = "flush" THEN acked \cup {why.n} ELSE acked
    /\ worker' = IF why.kind = "shutdown" THEN "gone" ELSE "receive"
Goto(l) == worker' = l /\ UNCHANGED <<why, batch, timer, disabled, dropped, acked>>

\* Mutant: a fatal error is taken for contention.
RefusedForGood ==
    /\ UNCHANGED rows
    /\ \/ Fails("contended") /\ Finish(FALSE)
       \/ Fails("capacity") /\ Finish(TRUE)
       \/ Fails("fatal") /\ Finish(FALSE)
\* What a failed write leads to: contention drops the batch, a full disk ends
\* all writing, a fatal error reopens the database, once.
Refused ==
    /\ UNCHANGED rows
    /\ \/ Fails("contended") /\ Finish(FALSE)
       \/ Fails("capacity") /\ Finish(TRUE)
       \/ Fails("fatal") /\ retried /\ Finish(TRUE)
       \/ Fails("fatal") /\ ~retried /\ Goto("recover") /\ UNCHANGED <<pos, retried>>

\* The whole batch in one transaction, when there is more than one entry; an
\* error that is none of the known kinds falls back to one entry at a time.
Insert ==
    /\ worker = "insert"
    /\ \/ (disabled \/ batch = <<>>) /\ UNCHANGED <<rows, faults>> /\ Finish(disabled)
       \/ /\ ~disabled /\ Len(batch) >= 2
          /\ \/ rows' = rows \o batch /\ Finish(FALSE) /\ UNCHANGED faults
             \/ Refused
             \/ Fails("other") /\ Goto("single") /\ UNCHANGED <<rows, pos, retried>>
       \/ /\ ~disabled /\ Len(batch) = 1
          /\ Goto("single") /\ UNCHANGED <<rows, faults, pos, retried>>
    /\ UNCHANGED <<sender, queue>>

\* Mutant: the entry that failed is tried again, after the others.
WriteLater(written) ==
    /\ pos <= Len(batch) /\ pos' = IF written THEN pos + 1 ELSE pos
    /\ rows' = IF written THEN Append(rows, batch[Len(batch) + 1 - pos]) ELSE rows
    /\ Goto("single") /\ UNCHANGED retried
\* One entry; an error of its own drops that entry alone.
Write(written) ==
    /\ pos <= Len(batch) /\ pos' = pos + 1
    /\ rows' = IF written THEN Append(rows, batch[pos]) ELSE rows
    /\ Goto("single") /\ UNCHANGED retried
Single ==
    /\ worker = "single"
    /\ \/ pos > Len(batch) /\ UNCHANGED <<rows, faults>> /\ Finish(FALSE)
       \/ Write(TRUE) /\ UNCHANGED faults
       \/ Fails("row") /\ Write(FALSE)
       \/ pos <= Len(batch) /\ Refused
    /\ UNCHANGED <<sender, queue>>

\* Mutant: the batch is thrown away with the broken connection.
RecoverEmpty ==
    /\ worker = "recover" /\ UNCHANGED <<rows, faults>>
    /\ batch' = <<>> /\ worker' = "insert" /\ retried' = TRUE /\ pos' = 1
    /\ UNCHANGED <<sender, queue, why, timer, disabled, dropped, acked>>

\* The database is reopened and the batch written again from its first entry.
Recover ==
    /\ worker = "recover" /\ UNCHANGED rows
    /\ \/ Goto("insert") /\ retried' = TRUE /\ pos' = 1 /\ UNCHANGED faults
       \/ Fails("recovery") /\ Finish(TRUE)
    /\ UNCHANGED <<sender, queue>>

Worker == Start \/ Receive \/ Timeout \/ Insert \/ Single \/ Recover
Next == Log \/ Request \/ Drop \/ DropReturns \/ Exit \/ Expire \/ Worker

\* The owner's wait is bounded by itself; the worker is needed only by those
\* who join it, and may be stuck in the storage for all a hook knows.
JoinedWorker == mode = "join" /\ Worker
Spec == Init /\ [][Next]_vars /\ WF_vars(DropReturns) /\ WF_vars(JoinedWorker)

--------------------------------------------------------------------------------
(* Properties *)

TypeOK ==
    /\ mode \in Modes /\ owner \in {"open", "dropping", "returned", "exited"}
    /\ queue \in Seq(Message) /\ why \in Message
    /\ worker \in {"opening", "receive", "insert", "single", "recover", "gone"}
    /\ batch \in Seq(1..sent) /\ Len(batch) <= BatchSize /\ pos \in 1..(Len(batch) + 1)
    /\ {retried, timer, disabled} \subseteq BOOLEAN
    /\ rows \in Seq(1..sent) /\ sent \in 0..MaxEntries /\ dropped \subseteq 1..sent
    /\ asked \in Seq(0..sent) /\ acked \subseteq DOMAIN asked
    /\ worker = "receive" => pos = 1 /\ ~retried

Done(n) == \A k \in 1..n : k \in Entries(rows) \cup dropped

\* A flush is acknowledged only when every entry queued before it was processed
\* (history/mod.rs:369-373), whatever fails and whatever is queued meanwhile; and
\* for callers without a deadline, "queued entries are drained before Drop
\* returns" (history/mod.rs:572-574).
FlushIsBarrier ==
    /\ \A r \in acked : Done(asked[r])
    /\ mode = "join" /\ owner \in {"returned", "exited"} => Done(sent)

\* Rows are in the order their entries were logged, each written once, also
\* across a recovery.  (A row that fails alone, followed by a fatal error, is
\* the exception: the batch is then written again from its start.)  Entries are
\* given up, and the writer switched off, only for a failure that calls for it:
\* nothing is lost with healthy storage, or to a fatal error that reopening the
\* database mends; contention never switches the writer off.
RowsAccounted ==
    /\ ~({"other", "fatal"} \subseteq faults) => \A j, k \in DOMAIN rows : j < k => rows[j] < rows[k]
    /\ ~disabled /\ faults \subseteq {"fatal"} => dropped = {}
    /\ disabled => faults \cap {"limit", "capacity", "fatal"} # {}

\* A drop returns: with the worker's end when it joins, on its own otherwise,
\* though handles still ask for flushes.
DropEnds == owner = "dropping" ~> owner \in {"returned", "exited"}
================================================================================
