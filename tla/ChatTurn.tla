------------------------------ MODULE ChatTurn ------------------------------
(***************************************************************************)
(* One question to the assistant: the handler that charges for it, the     *)
(* task that runs astream_orchestrated_chat and puts what it yields into a *)
(* queue, and the refund.  A step ends where the code awaits; cancelling   *)
(* the task throws at the await it has reached (Cancel).                   *)
(***************************************************************************)
EXTENDS Sequences, Naturals

CONSTANT MaxEvents      \* bound on the events of the inference service

ASSUME ChatAssumption == MaxEvents \in Nat

VARIABLES
    at,         \* the step of the handler, then of the producer task
    charge,     \* what verify_user_credits took
    returned,   \* times the charge was given back
    protocol,   \* of the inference stream: 1 or 2
    events,     \* events received so far
    text,       \* answer_chunks and progress_answer_chunks
    v2,         \* v2_seen and v2_ended
    reason,     \* why a refund is awaited
    queue,      \* what the producer put for the reader, END last
    message,    \* the assistant message in the database
    later,      \* a message is to be stored by a background task
    failed,     \* history: database calls that raised, and were swallowed
    streamed    \* history: texts put into the queue

turnVars == <<at, charge, returned, protocol, events, text, v2, reason, queue,
              message, later, failed, streamed>>

Texts == {"none", "blank", "word"}
Items == {"word", "blank", "progress", "info", "error", "exception", "end", "END"}
Waits == {"charge", "prepare", "ask", "build", "stream", "refund", "refunded", "notify",
          "docx", "persist", "stored", "done"}

Init ==
    /\ at = "charge"
    /\ charge = "none"
    /\ returned = 0
    /\ protocol \in {1, 2}
    /\ events = 0
    /\ text = [chunk |-> "none", progress |-> "none"]
    /\ v2 = [seen |-> FALSE, ended |-> FALSE]
    /\ reason = "none"
    /\ queue = <<>>
    /\ message = "none"
    /\ later = FALSE
    /\ failed = {}
    /\ streamed = {}

(* Nothing was collected in the lists, whatever it is worth.               *)
NoChunks == text.chunk = "none" /\ text.progress = "none"

(* answer_chunks or progress_answer_chunks, stripped.                      *)
Answer == IF text.chunk # "none" THEN text.chunk ELSE text.progress

Kept == <<charge, protocol, events, text, v2, message, later, failed, streamed>>

(* The producer yields its last item, if any, and returns.                 *)
Finishes(items) == at' = "done" /\ queue' = queue \o items \o <<"END">>

Refunds(why) == at' = "refund" /\ reason' = why

(***************************************************************************)
(* handle_chat_ask and handle_agentic_rag_stream                           *)
(***************************************************************************)
(* Charged, let through without a charge, or refused.                      *)
Charge ==
    /\ at = "charge"
    /\ charge' \in {"taken", "free", "none"}
    /\ at' = IF charge' = "none" THEN "done" ELSE "prepare"
    /\ UNCHANGED <<returned, protocol, events, text, v2, reason, queue, message, later, failed,
                   streamed>>

(* The session or the project is missing: the charge stays.                *)
PrepareRaises ==
    /\ at = "prepare"
    /\ at' = "done"
    /\ UNCHANGED <<Kept, returned, reason, queue>>

PrepareDirect ==
    /\ at = "prepare"
    /\ at' = "ask"
    /\ UNCHANGED <<Kept, returned, reason, queue>>

(* Without a stream: the answer, whose storing is left to a task.          *)
AskAnswers ==
    /\ at = "ask"
    /\ at' = "done"
    /\ text' \in {[chunk |-> t, progress |-> "none"] : t \in Texts \ {"none"}}
    /\ later' = TRUE
    /\ UNCHANGED <<charge, returned, protocol, events, v2, reason, queue, message, failed, streamed>>

AskRaises ==
    /\ at = "ask"
    /\ at' = "done"
    /\ UNCHANGED <<Kept, returned, reason, queue>>

(* _persist_assistant_message_safe: an empty answer is not stored.         *)
StoreLater ==
    /\ later
    /\ later' = FALSE
    /\ \/ /\ message' = IF Answer = "word" THEN "stored" ELSE message
          /\ UNCHANGED failed
       \/ failed' = failed \cup {"message"} /\ UNCHANGED message
    /\ UNCHANGED <<at, charge, returned, protocol, events, text, v2, reason, queue, streamed>>

(***************************************************************************)
(* The producer: astream_orchestrated_chat                                 *)
(***************************************************************************)
(* The context of the question has been collected.                         *)
Build ==
    /\ at = "build"
    /\ at' = "stream"
    /\ UNCHANGED <<Kept, returned, reason, queue>>

Receives ==
    /\ at = "stream" /\ events < MaxEvents
    /\ events' = events + 1

Joined(old, new) == IF "word" \in {old, new} THEN "word" ELSE new

(* An answer chunk, perhaps an empty one.                                  *)
Chunk(t) ==
    /\ Receives
    /\ text' = [text EXCEPT !.chunk = Joined(@, t)]
    /\ v2' = [v2 EXCEPT !.seen = protocol = 2]
    /\ queue' = Append(queue, t)
    /\ streamed' = streamed \cup {t}
    /\ UNCHANGED <<at, charge, returned, protocol, reason, message, later, failed>>

(* What a progress event shows of the answer.                              *)
Shows(t) == streamed' = streamed \cup {IF t = "word" THEN "progress" ELSE "blank"}

(* Mutant: progress events are passed on and not counted.                  *)
ProgressUncounted(t) ==
    /\ Receives /\ protocol = 1
    /\ queue' = Append(queue, "progress")
    /\ Shows(t)
    /\ UNCHANGED <<at, charge, returned, protocol, text, v2, reason, message, later, failed>>

(* Protocol 1 may show the answer as progress events, perhaps empty ones.  *)
Progress(t) ==
    /\ Receives /\ protocol = 1
    /\ text' = [text EXCEPT !.progress = Joined(@, t)]
    /\ queue' = Append(queue, "progress")
    /\ Shows(t)
    /\ UNCHANGED <<at, charge, returned, protocol, v2, reason, message, later, failed>>

(* Routes, sources, metadata and attachments are passed on.                *)
Info ==
    /\ Receives
    /\ v2' = [v2 EXCEPT !.seen = protocol = 2]
    /\ queue' = Append(queue, "info")
    /\ UNCHANGED <<at, charge, returned, protocol, text, reason, message, later, failed, streamed>>

(* The terminal event, not passed on here.                                 *)
StreamEnd ==
    /\ Receives
    /\ v2' = IF protocol = 2 THEN [seen |-> TRUE, ended |-> TRUE] ELSE v2
    /\ UNCHANGED <<at, charge, returned, protocol, text, reason, queue, message, later, failed,
                   streamed>>

(* An error event is passed on after the refund, and nothing after it.     *)
StreamError ==
    /\ Receives
    /\ IF NoChunks
       THEN Refunds("error") /\ UNCHANGED queue
       ELSE Finishes(<<"error">>) /\ UNCHANGED reason
    /\ UNCHANGED <<charge, returned, protocol, text, v2, message, later, failed, streamed>>

(* The request fails or an event is malformed: raised, and not refunded.   *)
StreamRaises ==
    /\ at = "stream"
    /\ Finishes(<<"exception">>)
    /\ UNCHANGED <<Kept, returned, reason>>

StreamCloses ==
    /\ at = "stream"
    /\ IF v2.seen /\ ~v2.ended
       THEN IF NoChunks THEN Refunds("interrupted") /\ UNCHANGED queue
            ELSE Finishes(<<"error">>) /\ UNCHANGED reason
       ELSE IF Answer # "word" THEN Refunds("empty") /\ UNCHANGED queue
       ELSE at' = "docx" /\ UNCHANGED <<queue, reason>>
    /\ UNCHANGED <<Kept, returned>>

(* Mutant: refund_info is not looked at.                                   *)
RefundAppliesAlways ==
    /\ at = "refund"
    /\ returned' = returned + 1
    /\ at' = "refunded"
    /\ UNCHANGED <<Kept, reason, queue>>

(* refund_credits: its write, an exception it swallows, its return.        *)
RefundApplies ==
    /\ at = "refund"
    /\ returned' = IF charge = "taken" THEN returned + 1 ELSE returned
    /\ at' = "refunded"
    /\ UNCHANGED <<Kept, reason, queue>>

RefundFails ==
    /\ at = "refund"
    /\ at' = "refunded"
    /\ failed' = failed \cup {"refund"}
    /\ UNCHANGED <<charge, returned, protocol, events, text, v2, reason, queue, message, later,
                   streamed>>

RefundReturns ==
    /\ at = "refunded"
    /\ Finishes(CASE reason \in {"error", "interrupted"} -> <<"error">>
                  [] reason = "empty" -> <<"exception">>
                  [] reason = "cancelled" -> <<>>)
    /\ UNCHANGED <<Kept, returned, reason>>

(* Mutant: `end' is yielded before the message is stored.                  *)
DocxAndEnd ==
    /\ at = "docx"
    /\ at' = "persist"
    /\ queue' = Append(queue, "end")
    /\ UNCHANGED <<Kept, returned, reason>>

(* The answer as a file, for some assistants; a failure is only logged.    *)
Docx ==
    /\ at = "docx"
    /\ at' = "persist"
    /\ queue' \in {queue, Append(queue, "info")}
    /\ UNCHANGED <<Kept, returned, reason>>

Persist ==
    /\ at = "persist"
    /\ at' = "stored"
    /\ \/ message' = "stored" /\ UNCHANGED failed
       \/ failed' = failed \cup {"message"} /\ UNCHANGED message
    /\ UNCHANGED <<charge, returned, protocol, events, text, v2, reason, queue, later, streamed>>

PersistReturns ==
    /\ at = "stored"
    /\ Finishes(<<"end">>)
    /\ UNCHANGED <<Kept, returned, reason>>

(* The inference service is told to stop, or the three seconds are over;   *)
(* then the handler of CancelledError looks at the lists.                  *)
CancelledHandler ==
    IF NoChunks THEN Refunds("cancelled") /\ UNCHANGED queue
    ELSE Finishes(<<>>) /\ UNCHANGED reason

NotifyEnds ==
    /\ at = "notify"
    /\ CancelledHandler
    /\ UNCHANGED <<Kept, returned>>

(* Cancelling ends the producer: it has stored the answer or is about to,  *)
(* or it is in the handler of CancelledError.                              *)
Unhandled ==
    \/ at \in {"notify", "docx", "persist", "stored"}
    \/ at \in {"refund", "refunded"} /\ reason = "cancelled"

(***************************************************************************)
(* What cancelling the producer does at the await it has reached.  While   *)
(* the context is collected answer_chunks is unbound: its handler raises.  *)
(***************************************************************************)
Cancel ==
    \/ at = "build" /\ Finishes(<<"exception">>) /\ UNCHANGED reason
    \/ at = "stream" /\ at' = "notify" /\ UNCHANGED <<queue, reason>>
    \/ at \in {"refund", "refunded"} /\ reason # "cancelled" /\ CancelledHandler
    \/ Unhandled /\ Finishes(<<>>) /\ UNCHANGED reason
    \/ at = "done" /\ UNCHANGED <<at, queue, reason>>
=============================================================================
