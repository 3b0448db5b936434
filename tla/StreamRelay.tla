---------------------------- MODULE StreamRelay ----------------------------
(***************************************************************************)
(* An upstream answer on its way to the client (internal/proxy).           *)
(*                                                                         *)
(* One request's handler reads the body through idleTimeoutReader. A       *)
(* stream is relayed event by event; any other body is read to its end     *)
(* first. The timer of the reader runs in a goroutine of its own and       *)
(* closes the body when nothing was read for StreamIdleTimeout; upstream   *)
(* and client may end their connections at any moment. What is relayed and *)
(* what is counted must agree with what upstream sent whichever comes      *)
(* first. Requests share none of this, so one is enough.                   *)
(***************************************************************************)
EXTENDS Naturals, Sequences, FiniteSets

CONSTANT MaxEvents   \* bound on what upstream sends

ASSUME MaxEventsAssumption == MaxEvents \in Nat

(* A chunk with content, with content and usage, with usage only, or one   *)
(* without data ([DONE], a comment). The last may lack its blank line      *)
(* ("unended") or stop inside its JSON ("torn").                           *)
Event == [kind : {"text", "mixed", "usage", "done"}, form : {"whole", "unended", "torn"}]

VARIABLES
  answer,    \* [mode, injected, ok]: SSE or not, include_usage was added, status < 400
  sent,      \* events upstream has put on the wire
  wire,      \* "open", "eof", "broken", or why it was shut here: "closed", "gone"
  got,       \* how many events Read has returned
  buf,       \* eventBuf, or the body read so far
  err,       \* what the last Read returned beside data
  pc,        \* where the handler is
  relayed,   \* events written to the client
  chunks,    \* chunkCount
  usage,     \* upstream's usage has been seen (hasRealUsage)
  timer,     \* [armed, fn, timedOut]: the timer and its function
  result     \* what the log row says: [timedOut, tokens]

body    == <<sent, wire>>
parser  == <<relayed, chunks, usage>>
relayVars == <<answer, body, got, buf, err, pc, parser, timer, result>>

IsSSE == answer.mode = "sse"

-----------------------------------------------------------------------------
(* The chunk ADR 0011 hides: its JSON has usage and no choices.            *)
IsUsageOnlySSEEvent(e) == e.kind = "usage" /\ e.form # "torn"

(* Whether the client gets an event.                                       *)
Visible(e) == ~ (answer.injected /\ IsUsageOnlySSEEvent(e))

ReportsUsage(e) == e.kind \in {"usage", "mixed"} /\ e.form # "torn"
Torn(e)         == e.form = "torn"
IsChunk(e)      == e.kind # "done"

Reports(s) == \E i \in DOMAIN s : ReportsUsage(s[i])
Tears(s)   == \E i \in DOMAIN s : Torn(s[i])
Shows(s)   == \E i \in DOMAIN s : Visible(s[i])

RelayInit ==
  /\ answer \in [mode : {"sse", "plain"}, injected : BOOLEAN, ok : BOOLEAN]
  /\ sent = <<>> /\ wire = "open"
  /\ got = 0 /\ buf = <<>> /\ err = "none"
  /\ pc = "read"
  /\ relayed = <<>> /\ chunks = 0 /\ usage = FALSE
  /\ timer = [armed |-> TRUE, fn |-> "waiting", timedOut |-> FALSE]
  /\ result = [timedOut |-> FALSE, tokens |-> "none"]

-----------------------------------------------------------------------------
(* Upstream sends, ends its answer, breaks off, or is silent.              *)
Send(e) ==
  /\ wire = "open" /\ Len(sent) < MaxEvents
  /\ \A i \in DOMAIN sent : sent[i].form = "whole"
  /\ sent' = Append(sent, e)
  /\ UNCHANGED <<answer, wire, got, buf, err, pc, parser, timer, result>>

EndAnswer(how) ==
  /\ wire = "open"
  /\ wire' = how
  /\ UNCHANGED <<answer, sent, got, buf, err, pc, parser, timer, result>>

(* The client disconnects: the context of the upstream request is          *)
(* cancelled with the client's.                                            *)
ClientGone ==
  /\ wire \in {"open", "eof", "broken"} /\ pc \notin {"end", "done"}
  /\ wire' = "gone"
  /\ UNCHANGED <<answer, sent, got, buf, err, pc, parser, timer, result>>

-----------------------------------------------------------------------------
(* idleTimeoutReader.Read, first the body's own Read. The last data may    *)
(* come together with the end of the body. After a cancellation the        *)
(* transport may still hand out what it has buffered, after Close it does  *)
(* not.                                                                    *)
ReadEvent ==
  /\ pc = "read" /\ wire # "closed" /\ got < Len(sent)
  /\ got' = got + 1
  /\ buf' = Append(buf, sent[got'])
  /\ err' \in {"none"} \cup IF wire = "eof" /\ got' = Len(sent) THEN {"eof"} ELSE {}
  /\ pc' = "check"
  /\ UNCHANGED <<answer, body, parser, timer, result>>

ReadEnd ==
  /\ pc = "read"
  /\ \/ wire \in {"eof", "broken"} /\ got = Len(sent)
     \/ wire \in {"closed", "gone"}
  /\ err' = wire
  /\ pc' = "check"
  /\ UNCHANGED <<answer, body, got, buf, parser, timer, result>>

(* Back to reading, or on to what follows the loop.                        *)
AfterEvent(e) == IF e = "none" THEN "read" ELSE "end"

WholeEvent == IsSSE /\ buf # <<>> /\ buf[Len(buf)].form = "whole"

(* Then the lock: a timeout overrides the outcome, data restarts the timer *)
(* and an error stops it. A complete event is relayed before the error is  *)
(* looked at.                                                              *)
CheckTimer ==
  /\ pc = "check"
  /\ err' = IF timer.timedOut THEN "idle" ELSE err
  /\ timer' = IF timer.timedOut THEN timer ELSE [timer EXCEPT !.armed = (err = "none")]
  /\ pc' = IF WholeEvent THEN "relay" ELSE AfterEvent(err')
  /\ UNCHANGED <<answer, body, got, buf, parser, result>>

-----------------------------------------------------------------------------
(* FeedSSEEvent: all the parser takes from an event is its usage.          *)
Feed(s) == usage' = (usage \/ Reports(s))

(* The buffer holds one event: it is written whole or not at all.          *)
WriteVisible(s) == relayed' = IF Shows(s) THEN relayed \o s ELSE relayed

(* Mutant: eventBuf.Reset() is forgotten.                                  *)
RelayWithoutReset ==
  /\ pc = "relay"
  /\ WriteVisible(buf)
  /\ Feed(buf)
  /\ chunks' = chunks + (IF IsChunk(buf[Len(buf)]) THEN 1 ELSE 0)
  /\ pc' = IF Shows(buf) THEN "write" ELSE AfterEvent(err)
  /\ UNCHANGED <<answer, body, got, buf, err, timer, result>>

(* Mutant: an event that is not written is not parsed either.              *)
RelayFeedsWritten ==
  /\ pc = "relay"
  /\ WriteVisible(buf)
  /\ usage' = (usage \/ (Shows(buf) /\ Reports(buf)))
  /\ chunks' = chunks + (IF IsChunk(buf[Len(buf)]) THEN 1 ELSE 0)
  /\ buf' = <<>>
  /\ pc' = IF Shows(buf) THEN "write" ELSE AfterEvent(err)
  /\ UNCHANGED <<answer, body, got, err, timer, result>>

(* A blank line has completed an event.                                    *)
RelayEvent ==
  /\ pc = "relay"
  /\ WriteVisible(buf)
  /\ Feed(buf)
  /\ chunks' = chunks + (IF IsChunk(buf[Len(buf)]) THEN 1 ELSE 0)
  /\ buf' = <<>>
  /\ pc' = IF Shows(buf) THEN "write" ELSE AfterEvent(err)
  /\ UNCHANGED <<answer, body, got, err, timer, result>>

(* w.Write and Flush return when the client has taken the bytes.           *)
Written ==
  /\ pc = "write"
  /\ pc' = AfterEvent(err)
  /\ UNCHANGED <<answer, body, got, buf, err, parser, timer, result>>

TimeoutSeen == err = "idle" \/ timer.fn \in {"cancelled", "closed"}

(* Finalize, where status and chunks decide on an estimate.                *)
Counted(reported, some) ==
  IF reported THEN "reported" ELSE IF answer.ok /\ some THEN "estimated" ELSE "none"

(* The stream is over. What is left without its blank line is relayed and  *)
(* parsed, but is no chunk.                                                *)
EndStream ==
  /\ pc = "end" /\ IsSSE
  /\ WriteVisible(buf)
  /\ Feed(buf)
  /\ result' = [timedOut |-> TimeoutSeen, tokens |-> Counted(usage', chunks > 0)]
  /\ pc' = "done"
  /\ UNCHANGED <<answer, body, got, buf, err, chunks, timer>>

(* Another body is relayed and parsed when it has been read to its end,    *)
(* and not at all otherwise. It is one JSON value: torn anywhere, it says  *)
(* nothing.                                                                *)
EndPlain ==
  /\ pc = "end" /\ ~ IsSSE
  /\ relayed' = IF err = "eof" THEN buf ELSE <<>>
  /\ usage' = (err = "eof" /\ Reports(buf) /\ ~ Tears(buf))
  /\ result' = [timedOut |-> TimeoutSeen, tokens |-> Counted(usage', err = "eof")]
  /\ pc' = "done"
  /\ UNCHANGED <<answer, body, got, buf, err, chunks, timer>>

-----------------------------------------------------------------------------
(* The timer of idleTimeoutReader. An idle period is long beside any step  *)
(* of the handler that waits for nobody, so the timer expires only while   *)
(* the handler waits: for bytes, or for a client that takes none.          *)
Expire ==
  /\ timer.armed /\ timer.fn = "waiting"
  /\ \/ pc = "read" /\ wire = "open" /\ got = Len(sent)
     \/ pc = "write"
  /\ timer' = [timer EXCEPT !.fn = "expired", !.armed = FALSE]
  /\ UNCHANGED <<answer, body, got, buf, err, pc, parser, result>>

(* Its function, running beside the handler. Data that arrives now arms    *)
(* the timer again; a second run would change nothing more.                *)
SetTimedOut ==
  /\ timer.fn = "expired"
  /\ timer' = [timer EXCEPT !.fn = "flagged", !.timedOut = TRUE]
  /\ UNCHANGED <<answer, body, got, buf, err, pc, parser, result>>

CancelContext ==
  /\ timer.fn = "flagged"
  /\ timer' = [timer EXCEPT !.fn = "cancelled"]
  /\ UNCHANGED <<answer, body, got, buf, err, pc, parser, result>>

(* Mutant: the body is closed before the flag is set.                      *)
CloseBodyFirst ==
  /\ timer.fn \in {"expired", "cancelled"}
  /\ wire' = "closed"
  /\ timer' = IF timer.fn = "cancelled" THEN [timer EXCEPT !.fn = "closed"] ELSE timer
  /\ UNCHANGED <<answer, sent, got, buf, err, pc, parser, result>>

(* Mutant: the context is cancelled, but no request hangs on that context. *)
CloseNothing ==
  /\ timer.fn = "cancelled"
  /\ timer' = [timer EXCEPT !.fn = "closed"]
  /\ UNCHANGED <<answer, body, got, buf, err, pc, parser, result>>

CloseBody ==
  /\ timer.fn = "cancelled"
  /\ wire' = "closed"
  /\ timer' = [timer EXCEPT !.fn = "closed"]
  /\ UNCHANGED <<answer, sent, got, buf, err, pc, parser, result>>

-----------------------------------------------------------------------------
Environment ==
  \/ \E e \in Event : Send(e)
  \/ \E how \in {"eof", "broken"} : EndAnswer(how)
  \/ ClientGone

Handler == ReadEvent \/ ReadEnd \/ CheckTimer \/ RelayEvent \/ Written \/ EndStream \/ EndPlain
Timer   == Expire \/ SetTimedOut \/ CancelContext \/ CloseBody

RelayNext == Environment \/ Handler \/ Timer

(* Goroutines run and timers fire. A client takes its bytes or its         *)
(* connection fails, so that Write returns. Upstream owes nothing.         *)
RelayFairness == WF_relayVars(Handler) /\ WF_relayVars(Timer)

RelaySpec     == RelayInit /\ [][RelayNext]_relayVars
FairRelaySpec == RelaySpec /\ RelayFairness

-----------------------------------------------------------------------------
(* Types of the relay.                                                     *)
RelayTypeOK ==
  /\ answer \in [mode : {"sse", "plain"}, injected : BOOLEAN, ok : BOOLEAN]
  /\ sent \in Seq(Event) /\ Len(sent) <= MaxEvents
  /\ wire \in {"open", "eof", "broken", "closed", "gone"}
  /\ got \in 0 .. Len(sent)
  /\ buf \in Seq(Event) /\ relayed \in Seq(Event)
  /\ err \in {"none", "eof", "broken", "closed", "gone", "idle"}
  /\ pc \in {"read", "check", "relay", "write", "end", "done"}
  /\ chunks \in 0 .. got
  /\ usage \in BOOLEAN
  /\ timer \in [armed : BOOLEAN, timedOut : BOOLEAN,
                fn : {"waiting", "expired", "flagged", "cancelled", "closed"}]
  /\ result \in [timedOut : BOOLEAN, tokens : {"none", "estimated", "reported"}]

(* What a client is owed: everything but a usage chunk it never asked for. *)
(* A torn one cannot be told from content.                                 *)
Owed(e) == ~ answer.injected \/ e.kind # "usage" \/ e.form = "torn"

(* What it has of the first n events: each that it is owed, at the place   *)
(* it has among them.                                                      *)
OwedOf(n) == {i \in 1 .. n : Owed(sent[i])}

Relayed(n) ==
  /\ Len(relayed) = Cardinality(OwedOf(n))
  /\ \A i \in OwedOf(n) : relayed[Cardinality(OwedOf(i))] = sent[i]

(* A client gets what its upstream sent, in order and once, whatever ends  *)
(* the stream; only the usage chunk it did not ask for is missing (ADR     *)
(* 0011). Another body it gets whole or not at all.                        *)
RelayedInOrder ==
  /\ IsSSE => Relayed(IF pc = "done" THEN got ELSE got - Len(buf))
  /\ ~ IsSSE => relayed = <<>> \/ relayed = sent
  /\ pc = "done" /\ err = "eof" => got = Len(sent)

(* Quotas rest on the row of the log: usage that upstream reported is      *)
(* counted, also when the client does not see it and when the stream ends  *)
(* early, and a successful answer that delivered a chunk never counts as   *)
(* nothing, unless it is not a stream and was cut short.                   *)
UsageCounted ==
  pc = "done" /\ (IsSSE \/ err = "eof") =>
    /\ (\E i \in 1 .. got : ReportsUsage(sent[i])) /\ (IsSSE \/ \A i \in 1 .. got : ~ Torn(sent[i]))
         <=> result.tokens = "reported"
    /\ \A i \in 1 .. got :
         answer.ok /\ sent[i].form = "whole" /\ IsChunk(sent[i]) => result.tokens # "none"

(* An answer that the idle timer cut short is logged as an idle timeout,   *)
(* in any order of the timer's function and the handler: never as a        *)
(* success, and never under the error of a closed body.                    *)
TimeoutIsReported ==
  pc = "done" /\ err \notin {"eof", "broken", "gone"} => result.timedOut

(* No request hangs: not on a silent upstream, not on a vanished client.   *)
RelayEnds == <>(pc = "done")
=============================================================================
