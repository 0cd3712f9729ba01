---------------------------- MODULE BlockEncoder -----------------------------
(* The thread that encodes the blocks of a result                            *)
(* (src/src/block_encoder.hpp, and its use in QuerySession::run_query).      *)
(*                                                                           *)
(* Two threads: the receiver, which submits blocks and ends the result, and  *)
(* the encoder.  Blocks are numbered in the order in which they arrive.  A   *)
(* thread sleeps until it is notified: a wake-up without a notification,     *)
(* which a condition variable may have, is not counted on.                   *)
(* Some definitions follow a form of themselves with a bug that the code     *)
(* could have; no action uses it.                                            *)
EXTENDS Naturals, Sequences

CONSTANTS
  MaxReceived,  \* bound: blocks of the result
  QueueDepth         \* kEncodeQueueBlocks

ASSUME EncoderAssumption == MaxReceived \in Nat /\ QueueDepth \in Nat \ {0}

VARIABLES
  blocks,    \* queue_: the blocks that wait
  receiver,  \* where the receiver is, and how many blocks it submitted
  encoder,   \* where the thread is, and the block that it has
  output,    \* the blocks that were encoded
  failed,    \* error_
  closing,   \* closing_
  revoked    \* cancel_requested_

encoderVars == <<blocks, receiver, encoder, output, failed, closing, revoked>>

EncoderTypeOK ==
  /\ blocks \in Seq(1..MaxReceived) /\ output \in Seq(1..MaxReceived) /\ Len(blocks) <= QueueDepth
  /\ receiver \in [step : {"receives", "submits", "asleep", "drains", "drops", "joins", "joins_error", "finished", "threw"},
                   sent : 0..MaxReceived]
  /\ encoder \in [step : {"looks", "asleep", "tells", "encodes", "tells_error", "ended"}, block : 0..MaxReceived]
  /\ failed \in BOOLEAN /\ closing \in BOOLEAN /\ revoked \in BOOLEAN

EncoderInit ==
  /\ blocks = <<>> /\ output = <<>>
  /\ receiver = [step |-> "receives", sent |-> 0]
  /\ encoder = [step |-> "looks", block |-> 0]
  /\ failed = FALSE /\ closing = FALSE /\ revoked = FALSE

ReceiverGoes(from, to) == receiver.step = from /\ receiver' = [receiver EXCEPT !.step = to]
EncoderGoes(from, to)  == encoder.step = from /\ encoder' = [encoder EXCEPT !.step = to]

\* A notification: who sleeps looks again.
WakesReceiver == receiver' = [receiver EXCEPT !.step = IF @ = "asleep" THEN "submits" ELSE @]
WakesEncoder  == encoder' = [encoder EXCEPT !.step = IF @ = "asleep" THEN "looks" ELSE @]
-----------------------------------------------------------------------------
(* The receiver.                                                             *)
ReceivesBlock ==
  /\ receiver.sent < MaxReceived /\ ReceiverGoes("receives", "submits")
  /\ UNCHANGED <<blocks, encoder, output, failed, closing, revoked>>

\* submit: the wait, with its condition, and what is thrown after it.
SubmitWaits ==
  /\ Len(blocks) >= QueueDepth /\ ~failed /\ ~revoked
  /\ ReceiverGoes("submits", "asleep")
  /\ UNCHANGED <<blocks, encoder, output, failed, closing, revoked>>

SubmitThrows ==
  /\ failed \/ revoked
  /\ ReceiverGoes("submits", "drops")
  /\ UNCHANGED <<blocks, encoder, output, failed, closing, revoked>>

Submits ==
  /\ Len(blocks) < QueueDepth /\ ~failed /\ ~revoked
  /\ receiver.step = "submits"
  /\ receiver' = [step |-> "receives", sent |-> receiver.sent + 1]
  /\ blocks' = Append(blocks, receiver.sent + 1)
  /\ WakesEncoder
  /\ UNCHANGED <<output, failed, closing, revoked>>

\* The statement ends, and finish is called; or it fails, and the destructor is.
StatementIsOver ==
  /\ ReceiverGoes("receives", "drains") \/ ReceiverGoes("receives", "drops")
  /\ UNCHANGED <<blocks, encoder, output, failed, closing, revoked>>

\* stop, up to the join.
StopsEncoder ==
  /\ \/ ReceiverGoes("drains", "joins") /\ UNCHANGED blocks
     \/ ReceiverGoes("drops", "joins_error") /\ blocks' = <<>>
  /\ closing' = TRUE
  /\ WakesEncoder
  /\ UNCHANGED <<output, failed, revoked>>

\* The join; and finish throws what the encoder threw.
Joins ==
  /\ encoder.step = "ended"
  /\ \/ ~failed /\ ReceiverGoes("joins", "finished")
     \/ failed /\ ReceiverGoes("joins", "threw")
     \/ ReceiverGoes("joins_error", "threw")
  /\ UNCHANGED <<blocks, encoder, output, failed, closing, revoked>>
-----------------------------------------------------------------------------
(* run, the thread.                                                          *)
LooksForBlockOrEnd ==
  /\ \/ blocks = <<>> /\ ~closing /\ EncoderGoes("looks", "asleep") /\ UNCHANGED blocks
     \/ closing /\ EncoderGoes("looks", "ended") /\ UNCHANGED blocks
     \/ /\ blocks # <<>> /\ ~closing /\ encoder.step = "looks"
        /\ encoder' = [step |-> "tells", block |-> Head(blocks)] /\ blocks' = Tail(blocks)
  /\ UNCHANGED <<receiver, output, failed, closing, revoked>>

LooksForBlock ==
  /\ \/ blocks = <<>> /\ ~closing /\ EncoderGoes("looks", "asleep") /\ UNCHANGED blocks
     \/ blocks = <<>> /\ closing /\ EncoderGoes("looks", "ended") /\ UNCHANGED blocks
     \/ /\ blocks # <<>> /\ encoder.step = "looks"
        /\ encoder' = [step |-> "tells", block |-> Head(blocks)] /\ blocks' = Tail(blocks)
  /\ UNCHANGED <<receiver, output, failed, closing, revoked>>

TellsRoom ==
  /\ EncoderGoes("tells", "encodes")
  /\ WakesReceiver
  /\ UNCHANGED <<blocks, output, failed, closing, revoked>>

\* Unless the run is cancelled: then what encodes throws.
Encodes ==
  /\ ~revoked /\ EncoderGoes("encodes", "looks")
  /\ output' = Append(output, encoder.block)
  /\ UNCHANGED <<blocks, receiver, failed, closing, revoked>>

\* A limit, a cell that is too large, a cancel.
EncodeThrows ==
  /\ EncoderGoes("encodes", "tells_error")
  /\ failed' = TRUE /\ blocks' = <<>>
  /\ UNCHANGED <<receiver, output, closing, revoked>>

TellsErrorToNobody ==
  /\ EncoderGoes("tells_error", "ended")
  /\ UNCHANGED <<blocks, receiver, output, failed, closing, revoked>>

TellsError ==
  /\ EncoderGoes("tells_error", "ended")
  /\ WakesReceiver
  /\ UNCHANGED <<blocks, output, failed, closing, revoked>>

\* request_cancel: it notifies the queue of events, and not this one.
Revokes ==
  /\ ~revoked /\ revoked' = TRUE
  /\ UNCHANGED <<blocks, receiver, encoder, output, failed, closing>>

EncoderNext ==
  \/ ReceivesBlock \/ SubmitWaits \/ SubmitThrows \/ Submits \/ StatementIsOver \/ StopsEncoder \/ Joins
  \/ LooksForBlock \/ TellsRoom \/ Encodes \/ EncodeThrows \/ TellsError
  \/ Revokes

EncoderSpec == EncoderInit /\ [][EncoderNext]_encoderVars
-----------------------------------------------------------------------------
(* submit and finish: the blocks are encoded in their order, each of them    *)
(* once, and when finish returns without an error, all of them are.  And a   *)
(* submit that sleeps, also one that a cancel does not wake, is beside a     *)
(* thread that still takes a block or tells an error and so wakes it; a      *)
(* thread that sleeps has nothing to do.                                     *)
BlocksAreEncoded ==
  /\ \A i \in DOMAIN output : output[i] = i
  /\ receiver.step = "finished" => Len(output) = receiver.sent
  /\ receiver.step = "asleep" =>
       encoder.step \in {"tells", "tells_error"} \/ (encoder.step \in {"looks", "encodes"} /\ ~failed /\ Len(blocks) = QueueDepth)
  /\ encoder.step = "asleep" => blocks = <<>> /\ ~closing
=============================================================================
