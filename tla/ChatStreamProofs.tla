-------------------------- MODULE ChatStreamProofs --------------------------
(***************************************************************************)
(* The safety properties of ChatStream for streams of any length.  Whether *)
(* a refund is due depends on what has been streamed and on where the stop *)
(* arrived; IInv relates the step of the producer to these.                *)
(***************************************************************************)
EXTENDS ChatStream, SequenceTheorems, TLAPS

Handling == {"charge", "prepare", "ask"}
Refunding == {"refund", "refunded"}
Finishing == {"docx", "persist", "stored"}

(* Nothing has happened yet.                                               *)
FreshOK ==
    /\ at \in Handling => reader = "off" /\ queue = <<>> /\ shown = {}
    /\ at \in Handling \cup {"build"} =>
           /\ NoChunks /\ streamed = {} /\ returned = 0 /\ reason = "none"
           /\ message = "none" /\ ~later /\ ~v2.seen

(* What was sent is what the lists hold.                                   *)
TextOK ==
    /\ "word" \in streamed => text.chunk = "word"
    /\ "progress" \in streamed => text.progress = "word"

(* A refund is under way only for an empty answer, and only a stop makes a *)
(* second one.                                                             *)
RefundOK ==
    /\ returned > 0 => Answer # "word"
    /\ at \in Refunding => Answer # "word" /\ reason # "none"
    /\ at \in {"stream", "notify"} \cup Finishing => returned = 0
    /\ at = "refund" => returned <= IF stop \in Refunding THEN 1 ELSE 0
    /\ RefundedOnce

(* A message is stored behind a complete answer.                           *)
StoreOK ==
    /\ at \in Finishing => Answer = "word" /\ (v2.seen => v2.ended)
    /\ at = "stored" => message = "stored" \/ "message" \in failed
    /\ message = "stored" => at \in {"stored", "done"}
    /\ later => at = "done" /\ returned = 0 /\ ~v2.seen
    /\ StoredIsComplete

(* A producer without a reader is on its way to a refund or to its end.    *)
StopOK ==
    /\ Stopped => reader = "gone"
    /\ reader = "gone" /\ at # "done" =>
           /\ Stopped
           /\ at # "notify" => at \in Refunding /\ reason = "cancelled" /\ NoChunks
    /\ at = "notify" => stop = "stream"
    /\ stop = "stream" /\ NoChunks /\ charge = "taken" /\ at = "refunded" =>
           returned > 0 \/ "refund" \in failed
    /\ StopIsRefunded

HasEnd(q) == \E i \in 1 .. Len(q) : q[i] = "end"

(* The end event comes last.                                               *)
EndOK ==
    "end" \in shown \/ HasEnd(queue) =>
        /\ at = "done" /\ returned = 0
        /\ message = "stored" \/ "message" \in failed

IInv == TypeOK /\ FreshOK /\ TextOK /\ RefundOK /\ StoreOK /\ StopOK /\ EndOK

(***************************************************************************)
(* What is put into the queue and read from it.                            *)
(***************************************************************************)
LEMMA Appended ==
    ASSUME NEW q \in Seq(Items), NEW x \in Items
    PROVE  /\ Append(q, x) \in Seq(Items)
           /\ HasEnd(Append(q, x)) => HasEnd(q) \/ x = "end"
<1>1. Append(q, x) \in Seq(Items)
  OBVIOUS
<1>2. ASSUME NEW i \in 1 .. Len(Append(q, x)), Append(q, x)[i] = "end", x # "end"
      PROVE  i \in 1 .. Len(q) /\ q[i] = "end"
  BY <1>2
<1> QED
  BY <1>1, <1>2 DEF HasEnd

LEMMA AppendedLast ==
    ASSUME NEW q \in Seq(Items)
    PROVE  q \o <<"END">> = Append(q, "END")
  BY SMT DEF Items

LEMMA ClosedPlain ==
    ASSUME NEW q \in Seq(Items)
    PROVE  /\ q \o <<>> \o <<"END">> \in Seq(Items)
           /\ HasEnd(q \o <<>> \o <<"END">>) => HasEnd(q)
<1>1. q \o <<>> \o <<"END">> = Append(q, "END")
  BY ConcatEmptySeq, AppendedLast
<1> QED
  BY <1>1, Appended DEF Items

LEMMA Closed ==
    ASSUME NEW q \in Seq(Items), NEW x \in Items
    PROVE  /\ q \o <<x>> \o <<"END">> \in Seq(Items)
           /\ HasEnd(q \o <<x>> \o <<"END">>) => HasEnd(q) \/ x = "end"
<1>1. q \o <<x>> = Append(q, x)
  OBVIOUS
<1>2. Append(q, x) \in Seq(Items)
  OBVIOUS
<1>3. q \o <<x>> \o <<"END">> = Append(Append(q, x), "END")
  BY <1>1, <1>2, AppendedLast
<1>4. "END" \in Items
  BY DEF Items
<1>5. /\ Append(Append(q, x), "END") \in Seq(Items)
      /\ HasEnd(Append(Append(q, x), "END")) => HasEnd(Append(q, x))
  BY <1>2, <1>4, Appended
<1>6. HasEnd(Append(q, x)) => HasEnd(q) \/ x = "end"
  BY Appended
<1> QED
  BY <1>3, <1>5, <1>6

LEMMA Taken ==
    ASSUME NEW q \in Seq(Items), q # <<>>
    PROVE  /\ Head(q) \in Items /\ Tail(q) \in Seq(Items)
           /\ HasEnd(Tail(q)) \/ Head(q) = "end" => HasEnd(q)
<1>1. /\ Head(q) \in Items /\ Tail(q) \in Seq(Items) /\ Len(Tail(q)) = Len(q) - 1
      /\ \A i \in 1 .. Len(Tail(q)) : Tail(q)[i] = q[i + 1]
  BY HeadTailProperties
<1>2. Len(q) \in Nat /\ Len(q) >= 1 /\ Head(q) = q[1]
  OBVIOUS
<1>3. ASSUME HasEnd(Tail(q)) PROVE HasEnd(q)
  <2>1. PICK i \in 1 .. Len(Tail(q)) : Tail(q)[i] = "end"
    BY <1>3 DEF HasEnd
  <2>2. i + 1 \in 1 .. Len(q) /\ q[i + 1] = "end"
    BY <1>1, <1>2, <2>1
  <2> QED
    BY <2>2 DEF HasEnd
<1>4. Head(q) = "end" => HasEnd(q)
  BY <1>2 DEF HasEnd
<1> QED
  BY <1>1, <1>3, <1>4

(***************************************************************************)
(* Every step keeps IInv.                                                  *)
(***************************************************************************)
LEMMA HandlerKeeps == ASSUME IInv, Handler PROVE IInv'
<1> USE DEF IInv, TypeOK, TurnTypeOK, InferenceTypeOK, ReaderTypeOK, FreshOK, TextOK, RefundOK,
            RefundedOnce, StoreOK, StoredIsComplete, StopOK, StopIsRefunded, EndOK, Stopped,
            NoChunks, Answer, Handling, Refunding, Finishing, Waits, Texts, Kept, readerVars
<1>1. CASE Charge /\ UNCHANGED readerVars
  BY <1>1 DEF Charge
<1>2. CASE PrepareRaises /\ UNCHANGED readerVars
  BY <1>2 DEF PrepareRaises
<1>3. CASE PrepareDirect /\ UNCHANGED readerVars
  BY <1>3 DEF PrepareDirect
<1>4. CASE AskAnswers /\ UNCHANGED readerVars
  <2>1. PICK t \in Texts \ {"none"} : text' = [chunk |-> t, progress |-> "none"]
    BY <1>4 DEF AskAnswers
  <2>2. text' \in [chunk : Texts, progress : Texts] /\ text'.chunk = t
    BY <2>1
  <2>3. TypeOK'
    BY <1>4, <2>2 DEF AskAnswers
  <2>4. FreshOK' /\ TextOK' /\ RefundOK'
    BY <1>4, <2>2 DEF AskAnswers
  <2>5. StoreOK' /\ StopOK' /\ EndOK'
    BY <1>4, <2>2 DEF AskAnswers
  <2> HIDE DEF TypeOK, FreshOK, TextOK, RefundOK, StoreOK, StopOK, EndOK
  <2> QED
    BY <2>3, <2>4, <2>5
<1>5. CASE AskRaises /\ UNCHANGED readerVars
  BY <1>5 DEF AskRaises
<1>6. CASE StoreLater /\ UNCHANGED readerVars
  <2>1. /\ at = "done" /\ later /\ later' = FALSE /\ message' \in {"none", "stored"}
        /\ failed' \subseteq {"refund", "message"} /\ failed \subseteq failed'
        /\ message' # message => message' = "stored" /\ Answer = "word"
        /\ UNCHANGED <<at, charge, returned, protocol, events, text, v2, reason, queue, streamed>>
    BY <1>6 DEF StoreLater
  <2>2. TypeOK'
    <3>1. TurnTypeOK'
      BY <1>6, <2>1
    <3>2. InferenceTypeOK'
      BY <1>6, <2>1
    <3>3. ReaderTypeOK'
      BY <1>6, <2>1
    <3> HIDE DEF TurnTypeOK, InferenceTypeOK, ReaderTypeOK
    <3> QED
      BY <3>1, <3>2, <3>3
  <2>3. FreshOK'
    BY <1>6, <2>1
  <2>4. TextOK'
    BY <1>6, <2>1
  <2>5. RefundOK'
    BY <1>6, <2>1
  <2>6. StoreOK'
    BY <1>6, <2>1
  <2>7. StopOK'
    BY <1>6, <2>1
  <2>8. EndOK'
    BY <1>6, <2>1
  <2> HIDE DEF TypeOK, FreshOK, TextOK, RefundOK, StoreOK, StopOK, EndOK
  <2> QED
    BY <2>2, <2>3, <2>4, <2>5, <2>6, <2>7, <2>8
<1> QED
  BY <1>1, <1>2, <1>3, <1>4, <1>5, <1>6 DEF Handler

(* Cancelling the producer: it finishes, or it turns to a refund, or to    *)
(* the call that stops the generation.                                     *)
LEMMA CancelCases ==
    ASSUME IInv, Cancel, at \notin Handling
    PROVE  \/ at = "done" /\ at' = "done" /\ UNCHANGED <<queue, reason>>
           \/ at = "stream" /\ at' = "notify" /\ UNCHANGED <<queue, reason>>
           \/ /\ at \in Refunding /\ reason # "cancelled" /\ NoChunks
              /\ at' = "refund" /\ reason' = "cancelled" /\ UNCHANGED queue
           \/ /\ at' = "done" /\ UNCHANGED reason
              /\ at = "stream" => FALSE
              /\ at \in Refunding /\ reason # "cancelled" => ~NoChunks
              /\ queue' \in Seq(Items) /\ (HasEnd(queue') => HasEnd(queue))
<1> USE DEF IInv, TypeOK, TurnTypeOK, InferenceTypeOK, ReaderTypeOK, FreshOK, RefundOK,
            StoreOK, StopOK, Refunding, Handling, Finishing,
            Waits
<1>1. /\ queue \o <<>> \o <<"END">> \in Seq(Items)
      /\ HasEnd(queue \o <<>> \o <<"END">>) => HasEnd(queue)
  BY ClosedPlain
<1>2. /\ queue \o <<"exception">> \o <<"END">> \in Seq(Items)
      /\ HasEnd(queue \o <<"exception">> \o <<"END">>) => HasEnd(queue)
  BY Closed DEF Items
<1>3. at \in {"build", "stream", "notify", "done"} \cup Refunding \cup Finishing
  OBVIOUS
<1>4. CASE at \in {"build", "stream", "notify", "done"} \cup Finishing
  <2>1. CASE at = "build"
    BY <1>2, <2>1 DEF Cancel, Unhandled, Finishes
  <2>2. CASE at = "stream" \/ at = "done"
    BY <2>2 DEF Cancel, Unhandled
  <2>3. CASE at \in {"notify"} \cup Finishing
    BY <1>1, <2>3 DEF Cancel, Unhandled, Finishes
  <2> QED
    BY <1>4, <2>1, <2>2, <2>3
<1>5. CASE at \in Refunding
  <2>1. CASE reason = "cancelled"
    BY <1>1, <1>5, <2>1 DEF Cancel, Unhandled, Finishes
  <2>2. CASE reason # "cancelled"
    <3>1. CancelledHandler
      BY <1>5, <2>2 DEF Cancel, Unhandled
    <3> QED
      BY <1>1, <1>5, <2>2, <3>1 DEF CancelledHandler, Finishes, Refunds
  <2> QED
    BY <2>1, <2>2
<1> QED
  BY <1>3, <1>4, <1>5

(* What may be put into the queue, but for the end event.                  *)
Quiet(q) == q \in Seq(Items) /\ (HasEnd(q) => HasEnd(queue))

LEMMA Sent ==
    ASSUME queue \in Seq(Items)
    PROVE  /\ Quiet(queue)
           /\ Quiet(Append(queue, "word")) /\ Quiet(Append(queue, "blank"))
           /\ Quiet(Append(queue, "progress")) /\ Quiet(Append(queue, "info"))
           /\ Quiet(queue \o <<>> \o <<"END">>)
           /\ Quiet(queue \o <<"error">> \o <<"END">>)
           /\ Quiet(queue \o <<"exception">> \o <<"END">>)
           /\ queue \o <<"end">> \o <<"END">> \in Seq(Items)
<1>1. /\ "word" \in Items /\ "blank" \in Items /\ "progress" \in Items /\ "info" \in Items
      /\ "error" \in Items /\ "exception" \in Items /\ "end" \in Items
  BY DEF Items
<1>2. /\ Quiet(Append(queue, "word")) /\ Quiet(Append(queue, "blank"))
      /\ Quiet(Append(queue, "progress")) /\ Quiet(Append(queue, "info"))
  BY <1>1, Appended DEF Quiet
<1>3. Quiet(queue \o <<>> \o <<"END">>)
  BY ClosedPlain DEF Quiet
<1>4. Quiet(queue \o <<"error">> \o <<"END">>)
  BY <1>1, Closed DEF Quiet
<1>5. Quiet(queue \o <<"exception">> \o <<"END">>)
  BY <1>1, Closed DEF Quiet
<1>6. queue \o <<"end">> \o <<"END">> \in Seq(Items)
  BY <1>1, Closed
<1> QED
  BY <1>2, <1>3, <1>4, <1>5, <1>6 DEF Quiet

LEMMA ProducerKeeps == ASSUME IInv, Producer PROVE IInv'
<1> USE DEF IInv, TypeOK, TurnTypeOK, InferenceTypeOK, ReaderTypeOK, FreshOK, TextOK, RefundOK,
            RefundedOnce, StoreOK, StoredIsComplete, StopOK, StopIsRefunded, EndOK, Stopped,
            NoChunks, Answer, Handling, Refunding, Finishing, Waits, Texts, Kept, readerVars
<1>1. CASE Notify
  <2>1. Quiet(queue')
    BY <1>1, Sent DEF Notify, NotifyEnds, CancelledHandler, Finishes, Refunds
  <2> USE <1>1, <2>1 DEF Notify, NotifyEnds, CancelledHandler, Finishes, Refunds, Quiet
  <2>2. TypeOK'
    OBVIOUS
  <2>3. FreshOK'
    OBVIOUS
  <2>4. TextOK'
    OBVIOUS
  <2>5. RefundOK'
    OBVIOUS
  <2>6. StoreOK'
    OBVIOUS
  <2>7. StopOK'
    OBVIOUS
  <2>8. EndOK'
    OBVIOUS
  <2> HIDE DEF TypeOK, FreshOK, TextOK, RefundOK, StoreOK, StopOK, EndOK
  <2> QED
    BY <2>2, <2>3, <2>4, <2>5, <2>6, <2>7, <2>8
<1>2. CASE Build /\ UNCHANGED readerVars
  BY <1>2 DEF Build
<1>3. CASE RefundApplies /\ UNCHANGED readerVars
  BY <1>3 DEF RefundApplies
<1>4. CASE RefundFails /\ UNCHANGED readerVars
  BY <1>4 DEF RefundFails
<1>5. CASE RefundReturns /\ UNCHANGED readerVars
  <2>1. Quiet(queue')
    BY <1>5, Sent DEF RefundReturns, Finishes
  <2> USE <1>5, <2>1 DEF RefundReturns, Finishes, Quiet
  <2>2. TypeOK'
    OBVIOUS
  <2>3. FreshOK'
    OBVIOUS
  <2>4. TextOK'
    OBVIOUS
  <2>5. RefundOK'
    OBVIOUS
  <2>6. StoreOK'
    OBVIOUS
  <2>7. StopOK'
    OBVIOUS
  <2>8. EndOK'
    OBVIOUS
  <2> HIDE DEF TypeOK, FreshOK, TextOK, RefundOK, StoreOK, StopOK, EndOK
  <2> QED
    BY <2>2, <2>3, <2>4, <2>5, <2>6, <2>7, <2>8
<1>6. CASE Docx /\ UNCHANGED readerVars
  <2>1. Quiet(queue')
    BY <1>6, Sent DEF Docx
  <2> USE <1>6, <2>1 DEF Docx, Quiet
  <2>2. TypeOK'
    OBVIOUS
  <2>3. FreshOK'
    OBVIOUS
  <2>4. TextOK'
    OBVIOUS
  <2>5. RefundOK'
    OBVIOUS
  <2>6. StoreOK'
    OBVIOUS
  <2>7. StopOK'
    OBVIOUS
  <2>8. EndOK'
    OBVIOUS
  <2> HIDE DEF TypeOK, FreshOK, TextOK, RefundOK, StoreOK, StopOK, EndOK
  <2> QED
    BY <2>2, <2>3, <2>4, <2>5, <2>6, <2>7, <2>8
<1>7. CASE Persist /\ UNCHANGED readerVars
  <2> USE <1>7 DEF Persist
  <2>1. TypeOK'
    <3>1. TurnTypeOK'
      OBVIOUS
    <3>2. InferenceTypeOK'
      OBVIOUS
    <3>3. ReaderTypeOK'
      OBVIOUS
    <3> HIDE DEF TurnTypeOK, InferenceTypeOK, ReaderTypeOK
    <3> QED
      BY <3>1, <3>2, <3>3
  <2>2. FreshOK'
    OBVIOUS
  <2>3. TextOK'
    OBVIOUS
  <2>4. RefundOK'
    OBVIOUS
  <2>5. StoreOK'
    OBVIOUS
  <2>6. StopOK'
    OBVIOUS
  <2>7. EndOK'
    OBVIOUS
  <2> HIDE DEF TypeOK, FreshOK, TextOK, RefundOK, StoreOK, StopOK, EndOK
  <2> QED
    BY <2>1, <2>2, <2>3, <2>4, <2>5, <2>6, <2>7
<1>8. CASE PersistReturns /\ UNCHANGED readerVars
  BY <1>8, Sent DEF PersistReturns, Finishes
<1> QED
  BY <1>1, <1>2, <1>3, <1>4, <1>5, <1>6, <1>7, <1>8 DEF Producer

LEMMA InferenceKeeps == ASSUME IInv, Inference PROVE IInv'
<1> USE DEF IInv, TypeOK, TurnTypeOK, InferenceTypeOK, ReaderTypeOK, FreshOK, TextOK, RefundOK,
            RefundedOnce, StoreOK, StoredIsComplete, StopOK, StopIsRefunded, EndOK, Stopped,
            NoChunks, Answer, Handling, Refunding, Finishing, Waits, Texts, Kept, readerVars
<1>1. ASSUME NEW t \in {"blank", "word"}, Chunk(t), UNCHANGED readerVars PROVE IInv'
  <2>1. Quiet(queue')
    BY <1>1, Sent DEF Chunk
  <2>2. text' \in [chunk : Texts, progress : Texts] /\ v2' \in [seen : BOOLEAN, ended : BOOLEAN]
    BY <1>1, ChatAssumption DEF Chunk, Joined
  <2> USE <1>1, <2>1, <2>2, ChatAssumption DEF Chunk, Receives, Joined, Quiet
  <2>3. TypeOK'
    <3>1. TurnTypeOK'
      OBVIOUS
    <3>2. InferenceTypeOK'
      OBVIOUS
    <3>3. ReaderTypeOK'
      OBVIOUS
    <3> HIDE DEF TurnTypeOK, InferenceTypeOK, ReaderTypeOK
    <3> QED
      BY <3>1, <3>2, <3>3
  <2>4. FreshOK'
    OBVIOUS
  <2>5. TextOK'
    OBVIOUS
  <2>6. RefundOK'
    OBVIOUS
  <2>7. StoreOK'
    OBVIOUS
  <2>8. StopOK'
    OBVIOUS
  <2>9. EndOK'
    OBVIOUS
  <2> HIDE DEF TypeOK, FreshOK, TextOK, RefundOK, StoreOK, StopOK, EndOK
  <2> QED
    BY <2>3, <2>4, <2>5, <2>6, <2>7, <2>8, <2>9
<1>2. ASSUME NEW t \in {"blank", "word"}, Progress(t), UNCHANGED readerVars PROVE IInv'
  <2>1. Quiet(queue')
    BY <1>2, Sent DEF Progress
  <2>2. text' \in [chunk : Texts, progress : Texts]
    BY <1>2, ChatAssumption DEF Progress, Joined, Texts
  <2> USE <1>2, <2>1, <2>2, ChatAssumption DEF Progress, Receives, Shows, Joined, Texts, Quiet
  <2>3. TypeOK'
    <3>1. TurnTypeOK'
      OBVIOUS
    <3>2. InferenceTypeOK'
      OBVIOUS
    <3>3. ReaderTypeOK'
      OBVIOUS
    <3> HIDE DEF TurnTypeOK, InferenceTypeOK, ReaderTypeOK
    <3> QED
      BY <3>1, <3>2, <3>3
  <2>4. FreshOK'
    OBVIOUS
  <2>5. TextOK'
    OBVIOUS
  <2>6. RefundOK'
    OBVIOUS
  <2>7. StoreOK'
    OBVIOUS
  <2>8. StopOK'
    OBVIOUS
  <2>9. EndOK'
    OBVIOUS
  <2> HIDE DEF TypeOK, FreshOK, TextOK, RefundOK, StoreOK, StopOK, EndOK
  <2> QED
    BY <2>3, <2>4, <2>5, <2>6, <2>7, <2>8, <2>9
<1>3. CASE Info /\ UNCHANGED readerVars
  <2>1. Quiet(queue')
    BY <1>3, Sent DEF Info
  <2>2. v2' \in [seen : BOOLEAN, ended : BOOLEAN]
    BY <1>3, ChatAssumption DEF Info
  <2> USE <1>3, <2>1, <2>2, ChatAssumption DEF Info, Receives, Quiet
  <2>3. TypeOK'
    <3>1. TurnTypeOK'
      OBVIOUS
    <3>2. InferenceTypeOK'
      OBVIOUS
    <3>3. ReaderTypeOK'
      OBVIOUS
    <3> HIDE DEF TurnTypeOK, InferenceTypeOK, ReaderTypeOK
    <3> QED
      BY <3>1, <3>2, <3>3
  <2>4. FreshOK'
    OBVIOUS
  <2>5. TextOK'
    OBVIOUS
  <2>6. RefundOK'
    OBVIOUS
  <2>7. StoreOK'
    OBVIOUS
  <2>8. StopOK'
    OBVIOUS
  <2>9. EndOK'
    OBVIOUS
  <2> HIDE DEF TypeOK, FreshOK, TextOK, RefundOK, StoreOK, StopOK, EndOK
  <2> QED
    BY <2>3, <2>4, <2>5, <2>6, <2>7, <2>8, <2>9
<1>4. CASE StreamEnd /\ UNCHANGED readerVars
  <2> USE <1>4, ChatAssumption DEF StreamEnd, Receives
  <2>1. TypeOK'
    <3>1. TurnTypeOK'
      OBVIOUS
    <3>2. InferenceTypeOK'
      OBVIOUS
    <3>3. ReaderTypeOK'
      OBVIOUS
    <3> HIDE DEF TurnTypeOK, InferenceTypeOK, ReaderTypeOK
    <3> QED
      BY <3>1, <3>2, <3>3
  <2>2. FreshOK'
    OBVIOUS
  <2>3. TextOK'
    OBVIOUS
  <2>4. RefundOK'
    OBVIOUS
  <2>5. StoreOK'
    OBVIOUS
  <2>6. StopOK'
    OBVIOUS
  <2>7. EndOK'
    OBVIOUS
  <2> HIDE DEF TypeOK, FreshOK, TextOK, RefundOK, StoreOK, StopOK, EndOK
  <2> QED
    BY <2>1, <2>2, <2>3, <2>4, <2>5, <2>6, <2>7
<1>5. CASE StreamError /\ UNCHANGED readerVars
  <2>1. Quiet(queue')
    BY <1>5, Sent DEF StreamError, Finishes, Refunds
  <2> USE <1>5, <2>1, ChatAssumption DEF StreamError, Receives, Finishes, Refunds, Quiet
  <2>2. TypeOK'
    <3>1. TurnTypeOK'
      OBVIOUS
    <3>2. InferenceTypeOK'
      OBVIOUS
    <3>3. ReaderTypeOK'
      OBVIOUS
    <3> HIDE DEF TurnTypeOK, InferenceTypeOK, ReaderTypeOK
    <3> QED
      BY <3>1, <3>2, <3>3
  <2>3. FreshOK'
    OBVIOUS
  <2>4. TextOK'
    OBVIOUS
  <2>5. RefundOK'
    OBVIOUS
  <2>6. StoreOK'
    OBVIOUS
  <2>7. StopOK'
    OBVIOUS
  <2>8. EndOK'
    OBVIOUS
  <2> HIDE DEF TypeOK, FreshOK, TextOK, RefundOK, StoreOK, StopOK, EndOK
  <2> QED
    BY <2>2, <2>3, <2>4, <2>5, <2>6, <2>7, <2>8
<1>6. CASE StreamRaises /\ UNCHANGED readerVars
  BY <1>6, Sent DEF StreamRaises, Finishes, Quiet
<1>7. CASE StreamCloses /\ UNCHANGED readerVars
  <2>1. Quiet(queue')
    BY <1>7, Sent DEF StreamCloses, Finishes, Refunds
  <2> USE <1>7, <2>1 DEF StreamCloses, Finishes, Refunds, Quiet
  <2>2. TypeOK'
    <3>1. TurnTypeOK'
      OBVIOUS
    <3>2. InferenceTypeOK'
      OBVIOUS
    <3>3. ReaderTypeOK'
      OBVIOUS
    <3> HIDE DEF TurnTypeOK, InferenceTypeOK, ReaderTypeOK
    <3> QED
      BY <3>1, <3>2, <3>3
  <2>3. FreshOK'
    OBVIOUS
  <2>4. TextOK'
    OBVIOUS
  <2>5. RefundOK'
    OBVIOUS
  <2>6. StoreOK'
    OBVIOUS
  <2>7. StopOK'
    OBVIOUS
  <2>8. EndOK'
    OBVIOUS
  <2> HIDE DEF TypeOK, FreshOK, TextOK, RefundOK, StoreOK, StopOK, EndOK
  <2> QED
    BY <2>2, <2>3, <2>4, <2>5, <2>6, <2>7, <2>8
<1> QED
  BY <1>1, <1>2, <1>3, <1>4, <1>5, <1>6, <1>7 DEF Inference

LEMMA ResponseKeeps == ASSUME IInv, Response PROVE IInv'
<1> USE DEF IInv, TypeOK, TurnTypeOK, InferenceTypeOK, ReaderTypeOK, FreshOK, TextOK, RefundOK,
            RefundedOnce, StoreOK, StoredIsComplete, StopOK, StopIsRefunded, EndOK, Stopped,
            NoChunks, Answer, Handling, Refunding, Finishing, Waits, Texts, Kept, readerVars
<1>5. CASE PrepareStream
  BY <1>5, Sent DEF PrepareStream, Quiet
<1>6. CASE Disconnect
  BY <1>6, CancelCases DEF Disconnect, Leaves
<1>7. CASE Read
  <2>1. /\ Head(queue) \in Items /\ Tail(queue) \in Seq(Items)
        /\ HasEnd(Tail(queue)) \/ Head(queue) = "end" => HasEnd(queue)
    BY <1>7, Taken DEF Read
  <2>2. CASE reader' = "gone" /\ at # "done"
    BY <1>7, <2>1, <2>2, CancelCases DEF Read
  <2>3. CASE ~(reader' = "gone" /\ at # "done")
    <3>1. TypeOK'
      <4>1. TurnTypeOK'
        BY <1>7, <2>1, <2>3 DEF Read
      <4>2. InferenceTypeOK'
        BY <1>7, <2>1, <2>3 DEF Read
      <4>3. ReaderTypeOK'
        BY <1>7, <2>1, <2>3 DEF Read
      <4> HIDE DEF TurnTypeOK, InferenceTypeOK, ReaderTypeOK
      <4> QED
        BY <4>1, <4>2, <4>3
    <3>2. FreshOK'
      BY <1>7, <2>1, <2>3 DEF Read
    <3>3. TextOK'
      BY <1>7, <2>1, <2>3 DEF Read
    <3>4. RefundOK'
      BY <1>7, <2>1, <2>3 DEF Read
    <3>5. StoreOK'
      BY <1>7, <2>1, <2>3 DEF Read
    <3>6. StopOK'
      BY <1>7, <2>1, <2>3 DEF Read
    <3>7. EndOK'
      BY <1>7, <2>1, <2>3 DEF Read
    <3> HIDE DEF TypeOK, FreshOK, TextOK, RefundOK, StoreOK, StopOK, EndOK
    <3> QED
      BY <3>1, <3>2, <3>3, <3>4, <3>5, <3>6, <3>7
  <2> QED
    BY <2>2, <2>3
<1> QED
  BY <1>5, <1>6, <1>7 DEF Response

LEMMA Started == ASSUME StreamInit PROVE IInv
<1> USE DEF StreamInit, Init
<1>1. TurnTypeOK
  <2>1. returned \in 0 .. IF charge = "taken" THEN 2 ELSE 0
    OBVIOUS
  <2>2. failed \subseteq {"refund", "message"}
    OBVIOUS
  <2> QED
    BY <2>1, <2>2 DEF TurnTypeOK, Waits
<1>2. InferenceTypeOK
  BY ChatAssumption DEF InferenceTypeOK, Texts
<1>3. ReaderTypeOK
  <2>1. queue \in Seq(Items)
    OBVIOUS
  <2> QED
    BY <2>1 DEF ReaderTypeOK
<1>4. ~HasEnd(queue)
  BY DEF HasEnd
<1>5. FreshOK /\ TextOK /\ RefundOK
  BY DEF FreshOK, TextOK, RefundOK, RefundedOnce, NoChunks, Handling, Refunding, Finishing
<1>6. StoreOK /\ StopOK /\ EndOK
  BY <1>4 DEF StoreOK, StoredIsComplete, StopOK, StopIsRefunded, EndOK, Stopped, Finishing
<1> QED
  BY <1>1, <1>2, <1>3, <1>5, <1>6 DEF IInv, TypeOK

LEMMA NextKeeps == IInv /\ [Next]_vars => IInv'
<1> SUFFICES ASSUME IInv, [Next]_vars PROVE IInv'
  OBVIOUS
<1>1. CASE UNCHANGED vars
  <2> USE <1>1 DEF vars, turnVars, IInv, TypeOK, TurnTypeOK, InferenceTypeOK, ReaderTypeOK,
             FreshOK, TextOK, RefundOK, RefundedOnce,
             StoreOK, StoredIsComplete, StopOK, StopIsRefunded, EndOK, Stopped, NoChunks, Answer
  <2>1. TypeOK'
    OBVIOUS
  <2>2. FreshOK'
    OBVIOUS
  <2>3. TextOK'
    OBVIOUS
  <2>4. RefundOK'
    OBVIOUS
  <2>5. StoreOK'
    OBVIOUS
  <2>6. StopOK'
    OBVIOUS
  <2>7. EndOK'
    OBVIOUS
  <2> HIDE DEF TypeOK, FreshOK, TextOK, RefundOK, StoreOK, StopOK, EndOK
  <2> QED
    BY <2>1, <2>2, <2>3, <2>4, <2>5, <2>6, <2>7
<1>2. CASE Hang
  <2> USE <1>2 DEF Hang, turnVars, IInv, TypeOK, TurnTypeOK, InferenceTypeOK, ReaderTypeOK,
             FreshOK, TextOK, RefundOK, RefundedOnce,
             StoreOK, StoredIsComplete, StopOK, StopIsRefunded, EndOK, Stopped, NoChunks, Answer
  <2>1. TypeOK'
    OBVIOUS
  <2>2. FreshOK'
    OBVIOUS
  <2>3. TextOK'
    OBVIOUS
  <2>4. RefundOK'
    OBVIOUS
  <2>5. StoreOK'
    OBVIOUS
  <2>6. StopOK'
    OBVIOUS
  <2>7. EndOK'
    OBVIOUS
  <2> HIDE DEF TypeOK, FreshOK, TextOK, RefundOK, StoreOK, StopOK, EndOK
  <2> QED
    BY <2>1, <2>2, <2>3, <2>4, <2>5, <2>6, <2>7
<1> QED
  BY <1>1, <1>2, HandlerKeeps, ProducerKeeps, InferenceKeeps, ResponseKeeps DEF Next

(***************************************************************************)
(* Theorems                                                                *)
(***************************************************************************)
(* Every reachable state of a streamed turn satisfies IInv, however many   *)
(* events the inference service sends.                                     *)
THEOREM Consistent == Spec => []IInv
<1>1. StreamInit => IInv
  BY Started
<1>2. IInv /\ [Next]_vars => IInv'
  BY NextKeeps
<1> QED
  BY <1>1, <1>2, PTL DEF Spec

(* The variables keep their types, and a charge that was not taken is      *)
(* never given back.                                                       *)
THEOREM Typed == Spec => []TypeOK
<1>1. IInv => TypeOK
  BY DEF IInv
<1> QED
  BY <1>1, Consistent, PTL

(* The charge is given back at most once, or twice when the stop meets a   *)
(* refund that is being awaited.                                           *)
THEOREM OneRefund == Spec => []RefundedOnce
<1>1. IInv => RefundedOnce
  BY DEF IInv, RefundOK
<1> QED
  BY <1>1, Consistent, PTL

(* No refund for an answer of which the client was sent a word.            *)
THEOREM NoRefundForAnswer == Spec => []RefundOnlyIfUnseen
<1>1. IInv => RefundOnlyIfUnseen
  BY DEF IInv, TypeOK, InferenceTypeOK, Texts, TextOK, RefundOK, RefundOnlyIfUnseen, Answer
<1> QED
  BY <1>1, Consistent, PTL

(* A charge comes back only when it is due, and once.                      *)
THEOREM RefundsAreDue == Spec => []RefundIsDue
  BY OneRefund, NoRefundForAnswer, PTL DEF RefundIsDue

(* A stop before the first chunk leads to a refund or to a failed call of  *)
(* the database.                                                           *)
THEOREM StopRefunds == Spec => []StopIsRefunded
<1>1. IInv => StopIsRefunded
  BY DEF IInv, StopOK
<1> QED
  BY <1>1, Consistent, PTL

(* A client who is told of the end has been charged, and the answer is in  *)
(* the history unless storing it failed.                                   *)
THEOREM EndIsStored == Spec => []EndMeansStored
<1>1. IInv => EndMeansStored
  BY DEF IInv, EndOK, EndMeansStored
<1> QED
  BY <1>1, Consistent, PTL

(* Only complete answers that were not refunded are in the history.        *)
THEOREM HistoryIsComplete == Spec => []StoredIsComplete
<1>1. IInv => StoredIsComplete
  BY DEF IInv, StoreOK
<1> QED
  BY <1>1, Consistent, PTL

(* The end event, the charge and the stored message agree.                 *)
THEOREM EndAndHistoryAgree == Spec => []HistoryAgrees
  BY EndIsStored, HistoryIsComplete, PTL DEF HistoryAgrees
=============================================================================
