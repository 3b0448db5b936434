------------------------------ MODULE LogQueue ------------------------------
(***************************************************************************)
(* The system log (internal/syslog): whoever logs or audits puts an entry  *)
(* into a bounded channel, a worker stores them in batches, and readers    *)
(* page through the table while it grows.                                  *)
(*                                                                         *)
(* Entries are numbers, in the order in which they are recorded. The table *)
(* is a sequence, the id of a row its place: ids are AUTOINCREMENT and no  *)
(* row is ever deleted.                                                    *)
(***************************************************************************)
EXTENDS Naturals, Sequences, FiniteSets

CONSTANTS
  Capacity,      \* of the channel
  BatchSize,     \* a batch of so many is stored at once
  DefaultPage,   \* the page of a reader that asks for none
  MaxPage,       \* the longest page
  Limits,        \* pages that readers ask for, 0 for none
  MaxEntries     \* bound: entries ever recorded

ASSUME LogAssumption ==
  /\ {Capacity, BatchSize, DefaultPage, MaxPage} \subseteq Nat \ {0}
  /\ Limits \subseteq Nat /\ MaxEntries \in Nat

VARIABLES
  next,                  \* number of the next entry
  queue, batch, table,
  worker,                \* running, draining or done
  closing,               \* Close: no, waiting or returned
  failed,                \* history: entries that the database did not take
  before,                \* history: entries in the channel or the batch at Close
  reader                 \* one reader's pages

queueVars == <<next, queue, batch, table, worker, closing, failed, before>>
logVars   == <<queueVars, reader>>

Elements(s) == {s[i] : i \in DOMAIN s}
NoReader    == [step |-> "idle", limit |-> 0, cursor |-> 0, first |-> 0, got |-> <<>>]

LogInit ==
  /\ next = 1 /\ queue = <<>> /\ batch = <<>> /\ table = <<>>
  /\ worker = "running" /\ closing = "no"
  /\ failed = {} /\ before = {} /\ reader = NoReader

(* Record: a full channel drops the entry rather than stall the caller.    *)
Record ==
  /\ next <= MaxEntries
  /\ next' = next + 1
  /\ queue' = IF Len(queue) < Capacity THEN Append(queue, next) ELSE queue
  /\ UNCHANGED <<batch, table, worker, closing, failed, before, reader>>

-----------------------------------------------------------------------------
(* What may be left of s when some of its elements are lost.               *)
Parts(s) ==
  UNION {{[i \in 1 .. n |-> s[f[i]]] :
            f \in {g \in [1 .. n -> 1 .. Len(s)] : \A i, j \in 1 .. n : i < j => g[i] < g[j]}} :
          n \in 0 .. Len(s)}

(* flush, one transaction. Entries of b whose insert fails are passed      *)
(* over, and none is stored when it does not begin or commit.              *)
Flush(b) ==
  /\ batch' = <<>>
  /\ \E stored \in Parts(b) :
       /\ table' = table \o stored
       /\ failed' = failed \cup (Elements(b) \ Elements(stored))

(* Mutant: the batch is stored in full, and kept.                          *)
TakeAndKeep ==
  /\ worker = "running" /\ queue # <<>>
  /\ queue' = Tail(queue)
  /\ LET b == Append(batch, Head(queue))
     IN  /\ batch' = b
         /\ table' = IF Len(b) >= BatchSize THEN table \o b ELSE table
  /\ UNCHANGED <<next, worker, closing, failed, before, reader>>

Take ==
  /\ worker = "running" /\ queue # <<>>
  /\ queue' = Tail(queue)
  /\ LET b == Append(batch, Head(queue))
     IN  IF Len(b) >= BatchSize THEN Flush(b)
         ELSE batch' = b /\ UNCHANGED <<table, failed>>
  /\ UNCHANGED <<next, worker, closing, before, reader>>

(* The ticker stores what there is.                                        *)
Tick ==
  /\ worker = "running" /\ batch # <<>>
  /\ Flush(batch)
  /\ UNCHANGED <<next, queue, worker, closing, before, reader>>

Close ==
  /\ closing = "no"
  /\ closing' = "waiting" /\ before' = Elements(queue) \cup Elements(batch)
  /\ UNCHANGED <<next, queue, batch, table, worker, failed, reader>>

(* Mutant: the worker stores its batch and leaves.                         *)
StopAtOnce ==
  /\ worker = "running" /\ closing = "waiting"
  /\ worker' = "done" /\ Flush(batch)
  /\ UNCHANGED <<next, queue, closing, before, reader>>

(* The worker sees that it is to stop, whatever else is ready, and drains  *)
(* the channel.                                                            *)
Stop ==
  /\ worker = "running" /\ closing = "waiting"
  /\ worker' = "draining"
  /\ UNCHANGED <<next, queue, batch, table, closing, failed, before, reader>>

Drain ==
  /\ worker = "draining" /\ queue # <<>>
  /\ queue' = Tail(queue) /\ batch' = Append(batch, Head(queue))
  /\ UNCHANGED <<next, table, worker, closing, failed, before, reader>>

Drained ==
  /\ worker = "draining" /\ queue = <<>>
  /\ worker' = "done" /\ Flush(batch)
  /\ UNCHANGED <<next, queue, closing, before, reader>>

CloseReturns ==
  /\ closing = "waiting" /\ worker = "done"
  /\ closing' = "returned"
  /\ UNCHANGED <<next, queue, batch, table, worker, failed, before, reader>>

-----------------------------------------------------------------------------
Min(a, b)   == IF a < b THEN a ELSE b
Page(limit) == IF limit = 0 THEN DefaultPage ELSE Min(limit, MaxPage)

(* Mutant: pages are counted from the newest row.                          *)
PageByOffset(r) ==
  LET end == Len(table) - Len(r.got)
      n   == IF end < 0 THEN 0 ELSE Min(end, Page(r.limit))
  IN  [i \in 1 .. n |-> end + 1 - i]

(* QueryLogs: the newest rows below the cursor.                            *)
QueryLogs(r) ==
  LET end == IF r.cursor = 0 THEN Len(table) ELSE Min(Len(table), r.cursor - 1)
      n   == Min(end, Page(r.limit))
  IN  [i \in 1 .. n |-> end + 1 - i]

(* GetSystemLogs: there is a next cursor when the page is as long as was   *)
(* asked, whatever the longest page is.                                    *)
ReadPage(r) ==
  LET page == QueryLogs(r)
      more == page # <<>> /\ Len(page) >= r.limit
  IN  reader' = [r EXCEPT !.step = IF more THEN "reading" ELSE "end",
                          !.cursor = IF more THEN page[Len(page)] ELSE 0,
                          !.got = @ \o page]

StartReading(limit) ==
  /\ reader.step = "idle"
  /\ ReadPage([NoReader EXCEPT !.limit = limit, !.first = Len(table)])
  /\ UNCHANGED queueVars

ReadOn ==
  /\ reader.step = "reading"
  /\ ReadPage(reader)
  /\ UNCHANGED queueVars

LogNext ==
  \/ Record \/ Take \/ Tick \/ Close \/ Stop \/ Drain \/ Drained \/ CloseReturns
  \/ ReadOn \/ \E limit \in Limits : StartReading(limit)

LogSpec == LogInit /\ [][LogNext]_logVars

-----------------------------------------------------------------------------
Entries == 1 .. MaxEntries

ReaderSet == [step : {"idle", "reading", "end"}, limit : Limits \cup {0},
              cursor : Nat, first : Nat, got : Seq(Nat)]

LogTypeOK ==
  /\ next \in 1 .. MaxEntries + 1
  /\ queue \in Seq(Entries) /\ Len(queue) <= Capacity
  /\ batch \in Seq(Entries) /\ table \in Seq(Entries)
  /\ worker \in {"running", "draining", "done"}
  /\ closing \in {"no", "waiting", "returned"}
  /\ failed \in SUBSET Entries /\ before \in SUBSET Entries
  /\ reader \in ReaderSet

(* The table has the entries in the order in which they were recorded,     *)
(* each once, through every batch, failure and the drain.                  *)
StoredInOrder == \A i, j \in DOMAIN table : i < j => table[i] < table[j]

(* When Close returns, what was recorded before it is stored, unless the   *)
(* database refused it.                                                    *)
CloseKeeps == closing = "returned" => before \subseteq Elements(table) \cup failed

(* Both, for one run.                                                      *)
EntriesKept == StoredInOrder /\ CloseKeeps

(* A reader gets no row twice, however the table grows between its pages,  *)
(* and to the last page, unless it asked for longer ones than there are,   *)
(* every row that was there when it began.                                 *)
PagesComplete ==
  /\ \A i, j \in DOMAIN reader.got : i < j => reader.got[i] > reader.got[j]
  /\ reader.step = "end" /\ reader.limit <= MaxPage =>
       1 .. reader.first \subseteq Elements(reader.got)
=============================================================================
