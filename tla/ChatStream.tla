----------------------------- MODULE ChatStream -----------------------------
(***************************************************************************)
(* The response that reads the queue of ChatTurn (format_streaming_        *)
(* response), and the client, who may go away while it does.               *)
(***************************************************************************)
EXTENDS ChatTurn

VARIABLES
    reader,     \* the response: off, reading, gone
    shown,      \* what the client has received
    stop,       \* history: where the producer was when it was cancelled
    hung        \* the inference service no longer answers

vars == <<turnVars, reader, shown, stop, hung>>
readerVars == <<reader, shown, stop, hung>>

StreamInit ==
    /\ Init
    /\ reader = "off"
    /\ shown = {}
    /\ stop = "none"
    /\ hung = FALSE

(* The producer yields the ids of the turn first.                          *)
PrepareStream ==
    /\ at = "prepare"
    /\ at' = "build"
    /\ queue' = Append(queue, "info")
    /\ reader' = "reading"
    /\ UNCHANGED <<Kept, returned, reason, shown, stop, hung>>

(* The response ends and cancels a producer that has not finished.         *)
Leaves ==
    /\ reader' = "gone"
    /\ stop' = IF at = "done" THEN stop ELSE at
    /\ Cancel

(* An exception is shown as an error; it and the end event end the         *)
(* response.                                                               *)
Read ==
    /\ reader = "reading" /\ queue # <<>>
    /\ LET item == Head(queue)
       IN  /\ shown' = IF item = "END" THEN shown ELSE shown \cup {item}
           /\ reader' = IF item \in {"END", "end", "exception"} THEN "gone" ELSE "reading"
    /\ IF reader' = "gone" /\ at # "done"
       THEN /\ stop' = at
            /\ Cancel
       ELSE /\ queue' = Tail(queue)
            /\ UNCHANGED <<at, reason, stop>>
    /\ UNCHANGED <<Kept, returned, hung>>

(* Mutant: the task that is cancelled awaits the producer without a shield *)
(* and cancels it again.                                                   *)
DisconnectUnshielded ==
    /\ \/ reader = "reading"
       \/ reader = "gone" /\ stop # "none" /\ at # "done"
    /\ reader' = "gone"
    /\ stop' = IF reader = "gone" THEN stop ELSE at
    /\ Cancel
    /\ UNCHANGED <<Kept, returned, shown, hung>>

(* The Stop button, or the connection is lost.                             *)
Disconnect ==
    /\ reader = "reading"
    /\ Leaves
    /\ UNCHANGED <<Kept, returned, shown, hung>>

(* Mutant: the call that stops the generation has no time limit.           *)
NotifyUntilAnswered == NotifyEnds /\ ~hung /\ UNCHANGED readerVars

Notify == NotifyEnds /\ UNCHANGED readerVars

Hang ==
    /\ ~hung
    /\ hung' = TRUE
    /\ UNCHANGED <<turnVars, reader, shown, stop>>

Handler ==
    /\ Charge \/ PrepareRaises \/ PrepareDirect \/ AskAnswers \/ AskRaises \/ StoreLater
    /\ UNCHANGED readerVars

(* The producer's own steps, which await nothing of the inference service. *)
Producer ==
    \/ Notify
    \/ /\ Build \/ RefundApplies \/ RefundFails \/ RefundReturns
          \/ Docx \/ Persist \/ PersistReturns
       /\ UNCHANGED readerVars

Inference ==
    /\ ~hung
    /\ \/ \E t \in {"blank", "word"} : Chunk(t) \/ Progress(t)
       \/ Info \/ StreamEnd \/ StreamError \/ StreamRaises \/ StreamCloses
    /\ UNCHANGED readerVars

Response == PrepareStream \/ Read \/ Disconnect

Next == Handler \/ Producer \/ Inference \/ Response \/ Hang

Spec == StreamInit /\ [][Next]_vars

(* The event loop runs a task that can go on.                              *)
LiveSpec == Spec /\ WF_vars(Producer)

(***************************************************************************)
(* Properties                                                              *)
(***************************************************************************)
TurnTypeOK ==
    /\ at \in Waits
    /\ charge \in {"none", "free", "taken"}
    /\ returned \in 0 .. IF charge = "taken" THEN 2 ELSE 0
    /\ reason \in {"none", "error", "interrupted", "empty", "cancelled"}
    /\ message \in {"none", "stored"} /\ later \in BOOLEAN
    /\ failed \subseteq {"refund", "message"}

InferenceTypeOK ==
    /\ protocol \in {1, 2} /\ events \in 0 .. MaxEvents
    /\ text \in [chunk : Texts, progress : Texts]
    /\ v2 \in [seen : BOOLEAN, ended : BOOLEAN]
    /\ streamed \subseteq {"word", "blank", "progress"}

ReaderTypeOK ==
    /\ queue \in Seq(Items) /\ shown \subseteq Items
    /\ reader \in {"off", "reading", "gone"}
    /\ stop \in Waits \cup {"none"} /\ hung \in BOOLEAN

(* Every variable has its type; what was not charged is not given back.    *)
TypeOK == TurnTypeOK /\ InferenceTypeOK /\ ReaderTypeOK

Stopped == stop # "none"

(* Credits come back only for an answer of which the client was sent       *)
(* nothing, progress text included ("must therefore count as generated     *)
(* content", astream_orchestrated_chat), but for one whose only chunks     *)
(* were empty, which hide the progress text.                               *)
RefundOnlyIfUnseen ==
    returned > 0 => /\ "word" \notin streamed
                    /\ "progress" \in streamed => text.chunk = "blank"

(* The charge is given back once; a second time only when the stop arrives *)
(* while a refund for another reason is awaited.                           *)
RefundedOnce == returned <= IF stop \in {"refund", "refunded"} THEN 2 ELSE 1

(* Both together: a charge comes back only when it is due, and once.       *)
RefundIsDue == RefundOnlyIfUnseen /\ RefundedOnce

(* A stop pressed while the answer is awaited, before any of it, leads to  *)
(* a refund that nothing cuts off, unless its database call fails.         *)
StopIsRefunded ==
    at = "done" /\ stop = "stream" /\ NoChunks /\ charge = "taken" =>
        returned > 0 \/ "refund" \in failed

(* A client that is told of the end finds the answer in its history, and   *)
(* is charged for it, unless storing it failed.                            *)
EndMeansStored ==
    "end" \in shown => /\ message = "stored" \/ "message" \in failed
                       /\ returned = 0

(* Answers that were broken off do not enter the history                   *)
(* (docs/chat-retrieval-visibility.md: "V2 streams without a terminal      *)
(* event do not enter the success persistence path"), nor refunded ones.   *)
StoredIsComplete ==
    message = "stored" => /\ Answer = "word" /\ returned = 0
                          /\ v2.seen => v2.ended

(* Both together: what the client was told, what was charged and what the  *)
(* history holds agree.                                                    *)
HistoryAgrees == EndMeansStored /\ StoredIsComplete

(* The producer of a response that has ended comes to its end, although    *)
(* the inference service may not answer the call that stops it.            *)
StopSettles == reader = "gone" ~> at = "done"

(* Credits are given back to a client who stops before the first token     *)
(* (refund_credits: "a request that was cancelled before any content was   *)
(* generated (the mobile "Stop" button hit before the first streamed       *)
(* token)").                                                               *)
EarlyStopIsRefunded ==
    at = "done" /\ Stopped /\ streamed = {} /\ charge = "taken" =>
        returned > 0 \/ "refund" \in failed
=============================================================================
