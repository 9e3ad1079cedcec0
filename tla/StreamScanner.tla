----------------------------- MODULE StreamScanner -----------------------------
(***************************************************************************)
(* StreamScannerHandler: one streamed answer on its way from the upstream  *)
(* to the client.  A scanner reads chunks into a queue, a handler writes   *)
(* them to the client, a ping goroutine writes comments in between (each   *)
(* in a goroutine of its own), and the request's own goroutine, main,      *)
(* waits for one of three events and then for the others.                  *)
(*                                                                         *)
(* Chunks are counted: the queue is a channel and keeps their order.       *)
(* stopChan carries any number of equal values, so it is their number; who *)
(* of several receivers gets one is not specified, as in Go.  Times are    *)
(* left out: a ticker or a time limit may run out at any moment.  Lines    *)
(* that are no chunks change nothing, and a scanner does not panic.        *)
(***************************************************************************)
EXTENDS Integers

CONSTANTS
  QueueSize,   \* capacity of dataChan
  MaxChunks,   \* bound: chunks of the upstream
  MaxPings     \* bound: pings

ASSUME StreamAssumption ==
  QueueSize \in Nat \ {0} /\ MaxChunks \in Nat /\ MaxPings \in Nat

VARIABLES
  scanner, handler, ping, writer, main,   \* where each goroutine stands
  received,   \* ReceivedResponseCount
  sent,       \* chunks put into dataChan
  taken,      \* chunks taken from it
  handled,    \* chunks whose dataHandler has returned
  closed,     \* dataChan is closed
  tokens,     \* values in stopChan
  mutex,      \* who holds writeMutex
  reason,     \* EndReason
  result,     \* how the handler ended, unless the queue did
  gone,       \* the client has left
  expired,    \* main has not waited for the others
  pings       \* pings so far

chunks == <<received, sent, taken, handled, closed>>
writing == <<writer, mutex, pings>>
vars == <<scanner, handler, ping, main, chunks, writing, tokens, reason, result,
          gone, expired>>

StopCapacity == 3

TypeOK ==
  /\ scanner \in {"scan", "push", "signal", "exited"}
  /\ handler \in {"take", "lock", "busy", "signal", "exited"}
  /\ ping \in {"idle", "pinging", "exited"}
  /\ writer \in {"none", "lock", "write", "ok", "failed"}
  /\ main \in {"wait", "leave", "join", "returned"}
  /\ received \in 0..MaxChunks /\ sent \in 0..received
  /\ taken \in 0..sent /\ handled \in 0..taken
  /\ sent - taken <= QueueSize
  /\ closed \in BOOLEAN /\ tokens \in 0..StopCapacity
  /\ mutex \in {"free", "handler", "writer"}
  /\ reason \in {"none", "done", "eof", "scanner_error", "handler_stop", "panic",
                 "ping_fail", "timeout", "client_gone"}
  /\ result \in {"none", "stopped", "panicked"}
  /\ gone \in BOOLEAN /\ expired \in BOOLEAN
  /\ pings \in 0..MaxPings

(* Pings may be switched off: then their goroutine is over from the start. *)
Init ==
  /\ scanner = "scan" /\ handler = "take" /\ ping \in {"idle", "exited"}
  /\ writer = "none" /\ main = "wait"
  /\ received = 0 /\ sent = 0 /\ taken = 0 /\ handled = 0 /\ closed = FALSE
  /\ tokens = 0 /\ mutex = "free" /\ reason = "none" /\ result = "none"
  /\ gone = FALSE /\ expired = FALSE /\ pings = 0
------------------------------------------------------------------------------
(* The first reason stays. *)
SetReason(r) == reason' = IF reason = "none" THEN r ELSE reason

Cancelled == main # "wait"      \* ctx
StopClosed == main = "returned" \* and so is the body of the response
Stopped == tokens > 0 \/ StopClosed

(* A receive from stopChan, and SafeSendBool to it. *)
TakeStop == Stopped /\ tokens' = IF tokens > 0 THEN tokens - 1 ELSE 0
SendStop ==
  \/ StopClosed /\ UNCHANGED tokens
  \/ ~StopClosed /\ tokens < StopCapacity /\ tokens' = tokens + 1

(* wg.Done comes before the last signal of a goroutine. *)
Joined == /\ scanner \in {"signal", "exited"} /\ handler \in {"signal", "exited"}
          /\ ping = "exited"
------------------------------------------------------------------------------
(* The scanner returns: dataChan is closed first. *)
ScannerLeaves ==
  /\ scanner' = "signal" /\ closed' = TRUE
  /\ UNCHANGED <<handler, ping, main, received, sent, taken, handled, writing,
                 result, gone, expired>>

(* Every line first asks whether to stop. *)
LineStopped ==
  /\ scanner = "scan"
  /\ \/ TakeStop /\ UNCHANGED reason
     \/ Cancelled /\ UNCHANGED <<tokens, reason>>
     \/ gone /\ SetReason("client_gone") /\ UNCHANGED tokens
  /\ ScannerLeaves

Reads == scanner = "scan" /\ ~Stopped /\ ~Cancelled /\ ~gone

ReadChunk ==
  /\ Reads /\ received < MaxChunks
  /\ received' = received + 1
  /\ scanner' = "push"
  /\ UNCHANGED <<handler, ping, main, sent, taken, handled, closed, writing, tokens,
                 reason, result, gone, expired>>

ReadDone ==
  /\ Reads /\ SetReason("done")
  /\ UNCHANGED tokens
  /\ ScannerLeaves

(* The body ends, fails or is closed by main. *)
BodyEnds ==
  /\ scanner = "scan"
  /\ \E r \in {"eof", "scanner_error"} : SetReason(r)
  /\ UNCHANGED tokens
  /\ ScannerLeaves

(* Mutant: one more than the channel holds. *)
PushTooMany ==
  /\ scanner = "push" /\ sent - taken <= QueueSize
  /\ sent' = sent + 1
  /\ scanner' = "scan"
  /\ UNCHANGED <<handler, ping, main, received, taken, handled, closed, writing,
                 tokens, reason, result, gone, expired>>

Push ==
  /\ scanner = "push" /\ sent - taken < QueueSize
  /\ sent' = sent + 1
  /\ scanner' = "scan"
  /\ UNCHANGED <<handler, ping, main, received, taken, handled, closed, writing,
                 tokens, reason, result, gone, expired>>

(* Mutant: who waits for the queue heeds the client only. *)
PushHeedsClient ==
  /\ scanner = "push" /\ gone /\ UNCHANGED <<tokens, reason>>
  /\ ScannerLeaves

(* It is stopped while it waits for the queue: the chunk is dropped. *)
PushStopped ==
  /\ scanner = "push"
  /\ TakeStop \/ (Cancelled /\ UNCHANGED tokens)
  /\ UNCHANGED reason
  /\ ScannerLeaves

ScannerSignals ==
  /\ scanner = "signal" /\ SendStop
  /\ scanner' = "exited"
  /\ UNCHANGED <<handler, ping, main, chunks, writing, reason, result, gone, expired>>
------------------------------------------------------------------------------
Take ==
  /\ handler = "take" /\ taken < sent
  /\ taken' = taken + 1
  /\ handler' = "lock"
  /\ UNCHANGED <<scanner, ping, main, received, sent, handled, closed, writing,
                 tokens, reason, result, gone, expired>>

(* Mutant: the handler stops with the request, whatever is queued. *)
QueueLeft ==
  /\ handler = "take" /\ (Cancelled \/ (closed /\ taken = sent))
  /\ handler' = "signal"
  /\ UNCHANGED <<scanner, ping, main, chunks, writing, tokens, reason, result, gone,
                 expired>>

QueueEnds ==
  /\ handler = "take" /\ closed /\ taken = sent
  /\ handler' = "signal"
  /\ UNCHANGED <<scanner, ping, main, chunks, writing, tokens, reason, result, gone,
                 expired>>

Lock ==
  /\ handler = "lock" /\ mutex = "free"
  /\ mutex' = "handler" /\ handler' = "busy"
  /\ UNCHANGED <<scanner, ping, main, chunks, writer, pings, tokens, reason, result,
                 gone, expired>>

(* dataHandler returns; it may have called Stop or Done. *)
Handle ==
  /\ handler = "busy"
  /\ handled' = handled + 1 /\ mutex' = "free"
  /\ \/ handler' = "take" /\ UNCHANGED <<reason, result>>
     \/ /\ handler' = "signal" /\ result' = "stopped"
        /\ \E r \in {"handler_stop", "done"} : SetReason(r)
  /\ UNCHANGED <<scanner, ping, main, received, sent, taken, closed, writer, pings,
                 tokens, gone, expired>>

(* dataHandler panics: nobody unlocks the mutex. *)
HandlePanics ==
  /\ handler = "busy"
  /\ handler' = "signal" /\ result' = "panicked" /\ SetReason("panic")
  /\ UNCHANGED <<scanner, ping, main, chunks, writing, tokens, gone, expired>>

HandlerSignals ==
  /\ handler = "signal" /\ SendStop
  /\ handler' = "exited"
  /\ UNCHANGED <<scanner, ping, main, chunks, writing, reason, result, gone, expired>>
------------------------------------------------------------------------------
(* The ticker of the pings: another goroutine is to write one. *)
PingDue ==
  /\ ping = "idle" /\ pings < MaxPings
  /\ pings' = pings + 1
  /\ ping' = "pinging" /\ writer' = "lock"
  /\ UNCHANGED <<scanner, handler, main, chunks, mutex, tokens, reason, result, gone,
                 expired>>

WriterLocks ==
  /\ writer = "lock" /\ mutex = "free"
  /\ mutex' = "writer" /\ writer' = "write"
  /\ UNCHANGED <<scanner, handler, ping, main, chunks, pings, tokens, reason, result,
                 gone, expired>>

(* PingData; nobody may be left to hear of its outcome. *)
WriterWrites ==
  /\ writer = "write"
  /\ mutex' = "free"
  /\ \E outcome \in {"ok", "failed"} :
       /\ gone => outcome = "failed"
       /\ writer' = IF ping = "pinging" THEN outcome ELSE "none"
  /\ UNCHANGED <<scanner, handler, ping, main, chunks, pings, tokens, reason, result,
                 gone, expired>>

PingWritten ==
  /\ ping = "pinging" /\ writer \in {"ok", "failed"}
  /\ writer' = "none"
  /\ IF writer = "ok" THEN ping' = "idle" /\ UNCHANGED reason
     ELSE ping' = "exited" /\ SetReason("ping_fail")
  /\ UNCHANGED <<scanner, handler, main, chunks, mutex, pings, tokens, result, gone,
                 expired>>

(* The ping goroutine leaves its writer alone. *)
PingLeaves ==
  /\ ping' = "exited"
  /\ writer' = IF writer \in {"ok", "failed"} THEN "none" ELSE writer
  /\ UNCHANGED <<scanner, handler, main, chunks, mutex, pings, result, gone, expired>>

(* Ten seconds for a ping, half an hour for all of them. *)
PingExpires ==
  /\ \/ ping = "pinging" /\ SetReason("ping_fail")
     \/ ping = "idle" /\ UNCHANGED reason
  /\ UNCHANGED tokens
  /\ PingLeaves

PingStopped ==
  /\ ping \in {"idle", "pinging"}
  /\ \/ TakeStop
     \/ (Cancelled \/ (gone /\ ping = "idle")) /\ UNCHANGED tokens
  /\ UNCHANGED reason
  /\ PingLeaves
------------------------------------------------------------------------------
MainLeaves ==
  /\ main = "wait" /\ main' = "leave"
  /\ UNCHANGED <<scanner, handler, ping, chunks, writing, result, gone, expired>>

MainStopped == MainLeaves /\ TakeStop /\ UNCHANGED reason

MainClientGone == /\ MainLeaves /\ gone
                  /\ SetReason("client_gone") /\ UNCHANGED tokens

(* StreamingTimeout since the last line. *)
MainTimeout == MainLeaves /\ SetReason("timeout") /\ UNCHANGED tokens

(* The deferred cleanup: one more signal, then it waits. *)
MainSignals ==
  /\ main = "leave" /\ SendStop
  /\ main' = "join"
  /\ UNCHANGED <<scanner, handler, ping, chunks, writing, reason, result, gone, expired>>

(* It returns when all have left, or after five seconds. *)
MainReturns ==
  /\ main = "join" /\ main' = "returned"
  /\ expired' = ~Joined
  /\ UNCHANGED <<scanner, handler, ping, chunks, writing, tokens, reason, result, gone>>

ClientLeaves ==
  /\ ~gone /\ gone' = TRUE
  /\ UNCHANGED <<scanner, handler, ping, main, chunks, writing, tokens, reason,
                 result, expired>>

Scanner == \/ LineStopped \/ ReadChunk \/ ReadDone \/ BodyEnds
           \/ Push \/ PushStopped \/ ScannerSignals
Handler == Take \/ QueueEnds \/ Lock \/ Handle \/ HandlePanics \/ HandlerSignals
Pinger == \/ PingDue \/ PingWritten \/ PingExpires \/ PingStopped
          \/ WriterLocks \/ WriterWrites
Main == MainStopped \/ MainClientGone \/ MainTimeout \/ MainSignals \/ MainReturns

Next == Scanner \/ Handler \/ Pinger \/ Main \/ ClientLeaves

Spec == Init /\ [][Next]_vars

(* Every goroutine that can go on does, dataHandler and PingData return,   *)
(* and a mutex that is free again and again is obtained.  The upstream may *)
(* send nothing for ever, unless its body is closed; no limit need run     *)
(* out, except that main does not wait for ever.                           *)
FairSpec ==
  /\ Spec
  /\ WF_vars(Push) /\ WF_vars(PushStopped) /\ WF_vars(StopClosed /\ BodyEnds)
  /\ WF_vars(ScannerSignals)
  /\ WF_vars(Take) /\ WF_vars(QueueEnds) /\ SF_vars(Lock)
  /\ WF_vars(Handle \/ HandlePanics) /\ WF_vars(HandlerSignals)
  /\ SF_vars(WriterLocks) /\ WF_vars(WriterWrites) /\ WF_vars(PingWritten)
  /\ WF_vars(Cancelled /\ PingStopped)
  /\ WF_vars(MainStopped) /\ WF_vars(MainClientGone)
  /\ WF_vars(MainSignals) /\ WF_vars(MainReturns)
------------------------------------------------------------------------------
(* Whatever ends the stream, what was queued is handled before             *)
(* StreamScannerHandler returns and its caller counts the usage, unless    *)
(* the handler itself stopped or main has not waited; and a stream that    *)
(* ended with [DONE] or the end of the body has dropped nothing.           *)
NothingLost ==
  main = "returned" /\ ~expired /\ result = "none" =>
    /\ handled = sent
    /\ reason \in {"done", "eof"} => handled = received

(* Once the client has left or main has been woken, main returns and no    *)
(* goroutine stays behind, neither blocked at the queue nor at the body;   *)
(* only a ping may wait for ever, for a mutex a panic has left locked.     *)
EverybodyLeaves ==
  gone \/ main # "wait" ~>
    /\ main = "returned" /\ scanner = "exited" /\ handler = "exited"
    /\ ping = "exited"
    /\ writer = "none" \/ result = "panicked"

(* "Stop ... marks the stream to stop after this chunk": a handler that    *)
(* has stopped has woken main, or somebody else still will.                *)
StopIsHeard ==
  handler = "exited" /\ main = "wait" => tokens > 0 \/ scanner = "signal"
================================================================================
