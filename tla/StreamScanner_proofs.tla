------------------------- MODULE StreamScanner_proofs -------------------------
(***************************************************************************)
(* Theorems about StreamScanner, for a queue of any size and any numbers   *)
(* of chunks and pings.                                                    *)
(***************************************************************************)
EXTENDS StreamScanner, TLAPS

(* Where the chunks are: the scanner has at most one that is not queued,   *)
(* the handler at most one that is not handled.                            *)
Counts ==
  /\ scanner = "scan" => received = sent
  /\ scanner = "push" => received = sent + 1
  /\ closed <=> scanner \in {"signal", "exited"}
  /\ handler = "take" => handled = taken
  /\ handler \in {"lock", "busy"} => handled + 1 = taken

(* A handler that has ended of itself has ended with the queue, and a      *)
(* stream's good end comes with the last chunk queued.                     *)
Endings ==
  result = "none" =>
    /\ handler \in {"signal", "exited"} => closed /\ taken = sent /\ handled = taken
    /\ reason \in {"done", "eof"} => closed /\ received = sent

Waited == main = "returned" /\ ~expired => Joined

(* The inductive invariant. *)
IInv == TypeOK /\ Counts /\ Endings /\ Waited

(* Nothing has been read. *)
LEMMA InitInv == Init => IInv
<1> SUFFICES ASSUME Init
             PROVE  IInv
  OBVIOUS
<1>1. TypeOK
  <2>1. closed \in BOOLEAN /\ gone \in BOOLEAN /\ expired \in BOOLEAN
    BY DEF Init
  <2> QED
    BY <2>1, StreamAssumption DEF Init, TypeOK, StopCapacity
<1>2. Counts
  <2>1. ~closed
    BY DEF Init
  <2> QED
    BY <2>1 DEF Init, Counts
<1>3. Endings /\ Waited
  BY DEF Init, Endings, Waited
<1> QED
  BY <1>1, <1>2, <1>3 DEF IInv

(* The scanner queues a chunk before it reads the next one. *)
LEMMA ScannerStep == IInv /\ Scanner => IInv'
<1> SUFFICES ASSUME IInv, Scanner
             PROVE  IInv'
  OBVIOUS
<1> USE StreamAssumption DEF IInv, TypeOK, StopCapacity, Counts, Endings, Waited, Joined,
        chunks, writing
<1>1. CASE LineStopped
  BY <1>1 DEF LineStopped, ScannerLeaves, TakeStop, Stopped, StopClosed, SetReason
<1>2. CASE ReadChunk
  BY <1>2 DEF ReadChunk, Reads
<1>3. CASE ReadDone
  BY <1>3 DEF ReadDone, Reads, ScannerLeaves, SetReason
<1>4. CASE BodyEnds
  BY <1>4 DEF BodyEnds, ScannerLeaves, SetReason
<1>5. CASE Push
  BY <1>5 DEF Push
<1>6. CASE PushStopped
  BY <1>6 DEF PushStopped, ScannerLeaves, TakeStop, Stopped, StopClosed
<1>7. CASE ScannerSignals
  BY <1>7 DEF ScannerSignals, SendStop, StopClosed
<1> QED
  BY <1>1, <1>2, <1>3, <1>4, <1>5, <1>6, <1>7 DEF Scanner

(* The handler ends with the queue, or leaves a result. *)
LEMMA HandlerStep == IInv /\ Handler => IInv'
<1> SUFFICES ASSUME IInv, Handler
             PROVE  IInv'
  OBVIOUS
<1> USE StreamAssumption DEF IInv, TypeOK, StopCapacity, Counts, Endings, Waited, Joined,
        chunks, writing
<1>1. CASE Take
  BY <1>1 DEF Take
<1>2. CASE QueueEnds
  BY <1>2 DEF QueueEnds
<1>3. CASE Lock
  BY <1>3 DEF Lock
<1>4. CASE Handle
  BY <1>4 DEF Handle, SetReason
<1>5. CASE HandlePanics
  BY <1>5 DEF HandlePanics, SetReason
<1>6. CASE HandlerSignals
  BY <1>6 DEF HandlerSignals, SendStop, StopClosed
<1> QED
  BY <1>1, <1>2, <1>3, <1>4, <1>5, <1>6 DEF Handler

(* Pings touch no chunk. *)
LEMMA PingerStep == IInv /\ Pinger => IInv'
<1> SUFFICES ASSUME IInv, Pinger
             PROVE  IInv'
  OBVIOUS
<1> USE StreamAssumption DEF IInv, TypeOK, StopCapacity, Counts, Endings, Waited, Joined,
        chunks, writing
<1>1. CASE PingDue
  BY <1>1 DEF PingDue
<1>2. CASE PingWritten
  BY <1>2 DEF PingWritten, SetReason
<1>3. CASE PingExpires
  BY <1>3 DEF PingExpires, PingLeaves, SetReason
<1>4. CASE PingStopped
  BY <1>4 DEF PingStopped, PingLeaves, TakeStop, Stopped, StopClosed
<1>5. CASE WriterLocks
  BY <1>5 DEF WriterLocks
<1>6. CASE WriterWrites
  BY <1>6 DEF WriterWrites
<1> QED
  BY <1>1, <1>2, <1>3, <1>4, <1>5, <1>6 DEF Pinger

(* Main gives no good end to a stream, and returns when all have left. *)
LEMMA MainStep == IInv /\ (Main \/ ClientLeaves) => IInv'
<1> SUFFICES ASSUME IInv, Main \/ ClientLeaves
             PROVE  IInv'
  OBVIOUS
<1> USE StreamAssumption DEF IInv, TypeOK, StopCapacity, Counts, Endings, Waited, Joined,
        chunks, writing
<1>1. CASE MainStopped
  BY <1>1 DEF MainStopped, MainLeaves, TakeStop, Stopped, StopClosed
<1>2. CASE MainClientGone
  BY <1>2 DEF MainClientGone, MainLeaves, SetReason
<1>3. CASE MainTimeout
  BY <1>3 DEF MainTimeout, MainLeaves, SetReason
<1>4. CASE MainSignals
  BY <1>4 DEF MainSignals, SendStop, StopClosed
<1>5. CASE MainReturns
  <2>1. expired' \in BOOLEAN
    BY <1>5 DEF MainReturns
  <2>2. ~expired' => Joined
    BY <1>5 DEF MainReturns
  <2> QED
    BY <1>5, <2>1, <2>2 DEF MainReturns
<1>6. CASE ClientLeaves
  BY <1>6 DEF ClientLeaves
<1> QED
  BY <1>1, <1>2, <1>3, <1>4, <1>5, <1>6 DEF Main

(* The invariant holds throughout. *)
LEMMA Invariant == Spec => []IInv
<1>1. IInv /\ [Next]_vars => IInv'
  <2>1. CASE UNCHANGED vars
    BY <2>1 DEF vars, chunks, writing, IInv, TypeOK, StopCapacity, Counts, Endings,
                Waited, Joined
  <2> QED
    BY <2>1, ScannerStep, HandlerStep, PingerStep, MainStep DEF Next
<1> QED
  BY InitInv, <1>1, PTL DEF Spec

(* Every variable keeps its type; the queue (dataChan) never holds more    *)
(* than its capacity.                                                      *)
THEOREM TypeCorrect == Spec => []TypeOK
<1>1. IInv => TypeOK
  BY DEF IInv
<1> QED
  BY <1>1, Invariant, PTL

(* When StreamScannerHandler returns in time, what was queued has been     *)
(* handled, and a stream that ended well was read whole: the usage its     *)
(* caller settles is that of the whole answer.                             *)
THEOREM NothingIsLost == Spec => []NothingLost
<1>1. IInv => NothingLost
  <2> SUFFICES ASSUME IInv, main = "returned", ~expired, result = "none"
               PROVE  /\ handled = sent
                      /\ reason \in {"done", "eof"} => handled = received
    BY DEF NothingLost
  <2>1. handler \in {"signal", "exited"}
    BY DEF IInv, Waited, Joined
  <2> QED
    BY <2>1 DEF IInv, Endings
<1> QED
  BY <1>1, Invariant, PTL
------------------------------------------------------------------------------
(* stopChan holds at most one value of each goroutine that has sent one.   *)
Slots ==
  tokens <= (IF scanner = "exited" THEN 1 ELSE 0)
             + (IF handler = "exited" THEN 1 ELSE 0)
             + (IF main \in {"join", "returned"} THEN 1 ELSE 0)

(* A step sends a value and moves its goroutine past the signal, or sends  *)
(* none and moves no goroutine back.                                       *)
LEMMA SlotsStep == IInv /\ Slots /\ [Next]_vars => Slots'
<1> SUFFICES ASSUME IInv, Slots, [Next]_vars
             PROVE  Slots'
  OBVIOUS
<1>0. tokens \in Nat
  BY DEF IInv, TypeOK, StopCapacity
<1> USE <1>0 DEF Slots, TakeStop, Stopped, StopClosed
<1>1. CASE Scanner
  <2>1. CASE ScannerSignals
    BY <2>1 DEF ScannerSignals, SendStop
  <2>2. CASE ~ScannerSignals
    BY <1>1, <2>2 DEF Scanner, LineStopped, ReadChunk, ReadDone, BodyEnds, Push, PushStopped,
       ScannerLeaves, Reads
  <2> QED
    BY <2>1, <2>2
<1>2. CASE Handler
  <2>1. CASE HandlerSignals
    BY <2>1 DEF HandlerSignals, SendStop
  <2>2. CASE ~HandlerSignals
    BY <1>2, <2>2 DEF Handler, Take, QueueEnds, Lock, Handle, HandlePanics
  <2> QED
    BY <2>1, <2>2
<1>3. CASE Pinger
  BY <1>3 DEF Pinger, PingDue, PingWritten, PingExpires, PingStopped, PingLeaves,
     WriterLocks, WriterWrites
<1>4. CASE Main \/ ClientLeaves
  BY <1>4 DEF Main, MainStopped, MainClientGone, MainTimeout, MainLeaves, MainSignals,
     MainReturns, ClientLeaves, SendStop
<1>5. CASE UNCHANGED vars
  BY <1>5 DEF vars
<1> QED
  BY <1>1, <1>2, <1>3, <1>4, <1>5 DEF Next

(* "Increase the buffer to avoid blocking" (stream_scanner.go:56): who is  *)
(* about to send a stop signal finds a free slot, whoever has received or  *)
(* ignored the signals sent before.                                        *)
THEOREM SignalsNeverBlock ==
  Spec => [](scanner = "signal" \/ handler = "signal" \/ main = "leave"
               => tokens < StopCapacity)
<1>1. Init => Slots
  BY DEF Init, Slots
<1>2. IInv /\ Slots => (scanner = "signal" \/ handler = "signal" \/ main = "leave"
                          => tokens < StopCapacity)
  BY DEF IInv, TypeOK, Slots, StopCapacity
<1> QED
  BY <1>1, <1>2, SlotsStep, Invariant, PTL DEF Spec
===============================================================================
