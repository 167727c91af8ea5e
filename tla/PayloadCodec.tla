---------------------------- MODULE PayloadCodec ----------------------------
(***************************************************************************)
(* HttpPayloadCodec (src/src/service.rs): the payloads of one message are  *)
(* sent to a Codec Server in chunks and replaced by its answers.  A POST   *)
(* that gets no response is repeated once, so the server may see a chunk   *)
(* twice; everything else that goes wrong fails the whole message.         *)
(*                                                                         *)
(* A payload is its wire size, the server is external: it may answer,      *)
(* answer badly, or not at all.                                            *)
(***************************************************************************)
EXTENDS Naturals, Sequences, FiniteSets, Functions

CONSTANTS
  MaxPayloads,   \* MAX_CODEC_CHUNK_PAYLOADS (128)
  MaxBytes       \* MAX_CODEC_CHUNK_BYTES (4 MiB)

ASSUME LimitsAssumption == MaxPayloads \in Nat \ {0} /\ MaxBytes \in Nat \ {0}

VARIABLES
  configured,    \* the profile has a Codec Server
  message,       \* the payloads collected from the message, in order
  phase,         \* where transform is: off, loop, post, done or failed
  at,            \* the payload the loop looks at
  chunk,         \* the places of the payloads of the pending chunk
  chunkBytes,
  attempt,       \* of the POST that is out
  transformed,   \* the places whose payloads were answered, in order
  sends          \* how often each payload was posted

loopVars  == <<at, chunk, chunkBytes>>
codecVars == <<configured, message, phase, loopVars, attempt, transformed, sends>>

Phases == {"off", "loop", "post", "done", "failed"}

CodecTypeOK ==
  /\ configured \in BOOLEAN
  /\ message \in Seq(Nat)
  /\ phase \in Phases
  /\ at \in Nat \ {0}
  /\ chunk \in Seq(Nat)
  /\ chunkBytes \in Nat
  /\ attempt \in 0..1
  /\ transformed \in Seq(Nat)
  /\ sends \in [DOMAIN message -> Nat]

Unsent(m) == [place \in DOMAIN m |-> 0]

\* No transform is running and m is what the next one will work on.
CodecRests(m) ==
  /\ message = m
  /\ phase = "off"
  /\ at = 1 /\ chunk = <<>> /\ chunkBytes = 0
  /\ attempt = 0
  /\ transformed = <<>>
  /\ sends = Unsent(m)

\* The same, of the next state.
CodecRestsNext(m) ==
  /\ message' = m
  /\ phase' = "off"
  /\ at' = 1 /\ chunk' = <<>> /\ chunkBytes' = 0
  /\ attempt' = 0
  /\ transformed' = <<>>
  /\ sends' = Unsent(m)

-----------------------------------------------------------------------------
\* Mutant: only messages of one payload are taken for encoded.
CallsCodecForOne == configured /\ Len(message) = 1

\* decode_message and encode_payloads ask the codec only when there is one
\* and something to ask it about.
CallsCodec == configured /\ message # <<>>

\* transform: no payloads, or no codec, is no call.
StartTransform ==
  /\ phase = "off"
  /\ phase' = IF CallsCodec THEN "loop" ELSE "done"
  /\ UNCHANGED <<configured, message, loopVars, attempt, transformed, sends>>

\* Mutant: the size of a chunk is compared before its last payload is added.
FullLate == chunk # <<>> /\ (Len(chunk) >= MaxPayloads \/ chunkBytes > MaxBytes)

\* The next payload does not fit into the pending chunk.
Full ==
  /\ chunk # <<>>
  /\ Len(chunk) >= MaxPayloads \/ chunkBytes + message[at] > MaxBytes

Oversized == message[at] > MaxBytes

TakePayload ==
  /\ phase = "loop" /\ at <= Len(message)
  /\ ~Oversized /\ ~Full
  /\ chunk' = Append(chunk, at)
  /\ chunkBytes' = chunkBytes + message[at]
  /\ at' = at + 1
  /\ UNCHANGED <<configured, message, phase, attempt, transformed, sends>>

\* A payload over the limit fails the message, the pending chunk unsent.
RefusePayload ==
  /\ phase = "loop" /\ at <= Len(message)
  /\ Oversized
  /\ phase' = "failed"
  /\ UNCHANGED <<configured, message, loopVars, attempt, transformed, sends>>

Flushes ==
  /\ phase = "loop" /\ chunk # <<>>
  /\ IF at <= Len(message) THEN ~Oversized /\ Full ELSE TRUE

Posted == [place \in DOMAIN sends |->
             sends[place] + (IF \E i \in DOMAIN chunk : chunk[i] = place THEN 1 ELSE 0)]

PostChunk ==
  /\ Flushes
  /\ phase' = "post"
  /\ attempt' = 0
  /\ sends' = Posted
  /\ UNCHANGED <<configured, message, loopVars, transformed>>

\* The body is too long, the namespace is no header value, the URL no URL.
RejectChunk ==
  /\ Flushes
  /\ phase' = "failed"
  /\ UNCHANGED <<configured, message, loopVars, attempt, transformed, sends>>

\* Mutant: one retry more than meant.
LastAttemptLater == attempt = 1 /\ \A place \in DOMAIN sends : sends[place] # 2

LastAttempt == attempt # 0

\* send() failed: no connection, no answer in 10 seconds, or an answer lost.
NoResponse ==
  /\ phase = "post"
  /\ IF LastAttempt
       THEN phase' = "failed" /\ UNCHANGED <<attempt, sends>>
       ELSE attempt' = 1 /\ sends' = Posted /\ UNCHANGED phase
  /\ UNCHANGED <<configured, message, loopVars, transformed>>

\* An error status, too long, cut off, no Payloads JSON, bad base64, or not
\* as many payloads as were sent.
BadResponse ==
  /\ phase = "post"
  /\ phase' = "failed"
  /\ UNCHANGED <<configured, message, loopVars, attempt, transformed, sends>>

\* Mutant: the chunk is copied out, not taken.
RestOfChunkKept == chunk

\* std::mem::take(&mut chunk)
RestOfChunk == <<>>

GoodResponse ==
  /\ phase = "post"
  /\ transformed' = transformed \o chunk
  /\ chunk' = RestOfChunk
  /\ chunkBytes' = 0
  /\ phase' = "loop"
  /\ UNCHANGED <<configured, message, at, attempt, sends>>

\* The end of transform: every payload has its answer, or the message fails.
EndTransform ==
  /\ phase = "loop" /\ at > Len(message) /\ chunk = <<>>
  /\ phase' = IF Len(transformed) = Len(message) THEN "done" ELSE "failed"
  /\ UNCHANGED <<configured, message, loopVars, attempt, transformed, sends>>

TransformStep ==
  \/ TakePayload \/ RefusePayload \/ PostChunk \/ RejectChunk
  \/ NoResponse \/ BadResponse \/ GoodResponse \/ EndTransform

-----------------------------------------------------------------------------
(* Properties *)

\* What was transformed is the whole message, each payload at its place.
Whole == configured => transformed = [place \in DOMAIN message |-> place]

\* A message that transform hands back is whole: no payload is missing,
\* doubled or at another place, however it was cut into chunks.
WholeWhenDone == phase = "done" => Whole

\* No POST is larger than the limits the server is promised.
ChunksWithinLimits == phase = "post" =>
  /\ Len(chunk) \in 1..MaxPayloads
  /\ SumFunctionOnSet(message, {chunk[i] : i \in DOMAIN chunk}) <= MaxBytes

\* However many chunks and retries a message takes, no payload of it reaches
\* the Codec Server more than twice, and none after its answer was accepted.
TwiceAtMost ==
  /\ \A place \in DOMAIN sends : sends[place] <= 2
  /\ \A i, j \in DOMAIN transformed : i # j => transformed[i] # transformed[j]

\* What the Codec Server may rely on.
ServerIsSpared == ChunksWithinLimits /\ TwiceAtMost
=============================================================================
