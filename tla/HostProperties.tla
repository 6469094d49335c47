------------------------------ MODULE HostProperties ------------------------------
(***************************************************************************)
(* What a caller of the Host helper relies on while a program runs.        *)
(***************************************************************************)
EXTENDS Host

(***************************************************************************)
(* ready() returns only once the program has executed STREAM, whatever     *)
(* the legacy status byte or the legacy receive page look like             *)
(* (tools/streaming.py:272-280).                                           *)
(***************************************************************************)
ReadyMeansStreaming == ~Idle /\ point \notin ReadyPoints => stream_enabled

(***************************************************************************)
(* After ready(), the exchange that sends a byte and the exchanges that    *)
(* pop act on a queue exactly once, and no other exchange acts on one:     *)
(* nothing is refused, doubled or taken by a mere read, wherever the       *)
(* strobe falls among the program's steps (tools/streaming.py:282-317).    *)
(***************************************************************************)
ExchangesActOnce ==
  [][tick = LastTick =>
       strobes' = Bit(point \in {"data", "pop", "pop_event"})]_linkVars

(***************************************************************************)
(* What the caller gets is what leaves the queue: the byte peeked at and   *)
(* the word put together from four reads are still at the head when the    *)
(* later exchange pops them (tools/streaming.py:299-301, 311-316).         *)
(***************************************************************************)
PopsWhatItRead ==
  [][/\ rx_pop(ByteAt) => held = <<Front(rx)>>
     /\ capture_pop(ByteAt) => decode_capture(held) = Front(capture)]_linkVars

(***************************************************************************)
(* receive() reports a halted engine only when the program can push no     *)
(* more and every byte it pushed has been taken, although it may push and  *)
(* halt between two of the reads (tools/streaming.py:302-304).             *)
(***************************************************************************)
NothingLeftBehind ==
  [][call = "receive" /\ outcome' = "halted" => Empty(rx') /\ ~running']_linkVars

(***************************************************************************)
(* Every call ends, also while bytes and edges keep arriving: the polls    *)
(* are counted and captures() drains a snapshot                            *)
(* (tools/streaming.py:266, 286, 297, 309-310).                            *)
(***************************************************************************)
CallsEnd == ~Idle ~> Idle
=================================================================================
