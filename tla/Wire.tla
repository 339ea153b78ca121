---------------------------------- MODULE Wire ----------------------------------
(****************************************************************************)
(* One WebSocket from its upgrade to its end: the handshake of handle_ws,   *)
(* and, once a Subscribe has been admitted, the reader, the writer and what *)
(* they hand to the socket, in the JSON of the codec.                       *)
(*                                                                          *)
(* The client says what it likes when it likes: a frame is chosen when it   *)
(* is read.  What the scene puts in the queue is chosen when it is taken,   *)
(* and an Input is accepted or refused either way: Operator and Server are  *)
(* about those.  Two coroutines share the socket and each may be in the     *)
(* middle of a send while the other acts.                                   *)
(****************************************************************************)
EXTENDS Dialogue, Frames

SX == INSTANCE SequencesExt

CONSTANTS Built,        \* frames of a client that uses the codec, typed
          Loose,        \* [text -> the frame it stands for], built otherwise
          Unfit,        \* [text that is no frame -> "version", "internal" or "silent"]
          Queued,       \* frames a scene puts in a queue, typed
          Accounts,     \* the identity's role for each token the server knows
          Registered,   \* the names, as JSON, scenes are registered under
          MaxHeard,     \* bound: frames the client says
          Later,        \* bound: what it says from the third frame on
          MaxSent       \* bound: frames the server says before it stops or is stopped

ASSUME MaxHeardAssumption == MaxHeard \in Nat
ASSUME MaxSentAssumption == MaxSent \in Nat
ASSUME BuiltAssumption == \A f \in Built : ClientFrame(f)
ASSUME QueuedAssumption == \A f \in Queued : ServerFrame(f)

VARIABLES stage,        \* "upgrade", "subscribing", "opening", "running" or "ended"
          up,           \* the client is there
          code,         \* the close code the server sent, or a way to end without
          reader,       \* [at, reply, last]
          writer,       \* [at, frame]
          heard,        \* history: what was read, in order
          said          \* history: what the socket took [by, frame], in order

vars == <<stage, up, code, reader, writer, heard, said>>

(* code    "none"; "normal" 1000, "protocol" 1002, "policy" 1008; "raised"  *)
(*         when an exception left handle_ws; "dropped" when it returned     *)
(* reader  "reading"; "sending" its reply, the frame that ends it when last *)
(*         is true; "closing" while the close is sent; or "done"            *)
(* writer  "waiting" for the queue, "sending" a frame, or "done"            *)
NoFrame == [type |-> "none"]

Reading == [at |-> "reading", reply |-> NoFrame, last |-> FALSE]
ReaderDone == [Reading EXCEPT !.at = "done"]

Waiting == [at |-> "waiting", frame |-> NoFrame]
WriterDone == [Waiting EXCEPT !.at = "done"]

Meaning == [text \in {Encode(f) : f \in Built} |-> CHOOSE f \in Built : Encode(f) = text]

Texts == DOMAIN Meaning \cup DOMAIN Loose \cup DOMAIN Unfit

(* who     "handshake", "reader", "goodbye" for a reader's last, "writer"   *)
By(who, f) == [by |-> who, frame |-> f]

Init ==
  /\ stage = "upgrade"
  /\ up = TRUE
  /\ code = "none"
  /\ reader = Reading
  /\ writer = Waiting
  /\ heard = <<>>
  /\ said = <<>>

------------------------------------------------------------------------------
(* The handshake.  Nothing else shares the socket: a reply and the close    *)
(* that follows it are one step.                                            *)

Subprotocols == {"lsdp.v1", "lsdp.v1.1"}

Upgrade(offered) ==
  /\ stage = "upgrade"
  /\ IF offered \cap Subprotocols = {}
       THEN stage' = "ended" /\ code' = "policy"
       ELSE stage' = "subscribing" /\ UNCHANGED code
  /\ UNCHANGED <<up, reader, writer, heard, said>>

(* A send of _send_error may fail and is forgotten; a close that fails      *)
(* raises.                                                                  *)
Deny(errorCode, closeCode) ==
  /\ stage' = "ended"
  /\ said' = IF up THEN Append(said, By("handshake", Error(errorCode, 0, FALSE, Null))) ELSE said
  /\ code' = IF up THEN closeCode ELSE "raised"
  /\ UNCHANGED <<up, reader, writer>>

(* Thirty seconds without a frame, a task that is cancelled, or a client    *)
(* that has gone: receive_text raises.                                      *)
NoSubscribe ==
  /\ stage = "subscribing"
  /\ Deny("AUTH_DENIED", "policy")
  /\ UNCHANGED heard

EndUntold(how) ==
  /\ stage' = "ended" /\ code' = how
  /\ UNCHANGED <<up, reader, writer, said>>

First(text, active) ==
  /\ stage = "subscribing" /\ up
  /\ heard' = Append(heard, text)
  /\ LET outcome == Outcome(DecodeClient(text), Accounts, Registered, active)
     IN  CASE outcome = "version"  -> EndUntold("protocol")
           [] outcome = "raises"   -> EndUntold("raised")
           [] outcome = "admitted" -> /\ stage' = "opening"
                                      /\ UNCHANGED <<up, code, reader, writer, said>>
           [] OTHER                -> Deny(outcome, "policy")

(* The initial frames, one standing for all, or none when a resume has      *)
(* missed nothing; a failure ends it.                                       *)
Opened(f) ==
  /\ stage = "opening"
  /\ f.type \in {"snapshot", "delta"}
  /\ IF up
       THEN /\ stage' = "running"
            /\ said' = Append(said, By("handshake", f))
            /\ UNCHANGED code
       ELSE /\ stage' = "ended" /\ code' = "dropped"
            /\ UNCHANGED said
  /\ UNCHANGED <<up, reader, writer, heard>>

NothingMissed ==
  /\ stage = "opening"
  /\ "since_sequence" \in DOMAIN DecodeClient(heard[1])
  /\ DecodeClient(heard[1]).since_sequence # Null
  /\ stage' = "running"
  /\ UNCHANGED <<up, code, reader, writer, heard, said>>

------------------------------------------------------------------------------
(* The reader.                                                              *)

(* Both loops look at the cancel event before they wait again.              *)
NextRead == IF writer.at = "done" THEN ReaderDone ELSE Reading
NextGet(r) == IF r.at = "done" THEN WriterDone ELSE Waiting

(* _dispatch and the two clauses around it: what the reader does next.      *)
Dispatched(text, verdict) ==
  LET f      == DecodeClient(text)
      answer == Answer(f, verdict, 0)
  IN  IF answer # <<>> THEN [at |-> "sending", reply |-> answer[1], last |-> Failed(f)]
      ELSE IF Failed(f) THEN ReaderDone
      ELSE IF f.type = "unsubscribe" THEN [Reading EXCEPT !.at = "closing"]
      ELSE NextRead

Verdicts == {[code |-> "OK", path |-> Null], [code |-> "INVALID_VALUE", path |-> Str("")]}

Hear(text, verdict) ==
  /\ stage = "running" /\ up /\ reader.at = "reading"
  /\ Len(heard) < MaxHeard
  /\ Len(heard) >= 2 => text \in Later
  /\ heard' = Append(heard, text)
  /\ reader' = Dispatched(text, verdict)
  /\ UNCHANGED <<stage, up, code, writer, said>>

(* The socket takes a frame as long as the client is there and no close was *)
(* sent.  _send_error forgets a failure, a pong's ends the reader.          *)
Takes == up /\ code = "none"

ReplySent ==
  /\ reader.at = "sending"
  /\ Takes
  /\ said' = Append(said, By(IF reader.last THEN "goodbye" ELSE "reader", reader.reply))
  /\ reader' = IF reader.last THEN ReaderDone ELSE NextRead
  /\ UNCHANGED <<stage, up, code, writer, heard>>

ReplyFails ==
  /\ reader.at = "sending"
  /\ ~Takes
  /\ reader' = IF reader.last \/ reader.reply.type = "pong" THEN ReaderDone ELSE NextRead
  /\ UNCHANGED <<stage, up, code, writer, heard, said>>

(* The close of an Unsubscribe; the receive that follows it raises.         *)
CloseSent ==
  /\ reader.at = "closing"
  /\ code' = IF Takes THEN "normal" ELSE code
  /\ reader' = ReaderDone
  /\ UNCHANGED <<stage, up, writer, heard, said>>

ReceiveRaises ==
  /\ stage = "running"
  /\ reader.at = "reading"
  /\ ~up
  /\ reader' = ReaderDone
  /\ UNCHANGED <<stage, up, code, writer, heard, said>>

------------------------------------------------------------------------------
(* The writer, and the end.                                                 *)

WriterGet(f) ==
  /\ stage = "running" /\ writer.at = "waiting"
  /\ Len(said) < MaxSent
  /\ writer' = [at |-> "sending", frame |-> f]
  /\ UNCHANGED <<stage, up, code, reader, heard, said>>

SentinelBlindGet ==     \* a mistake to be caught: the sentinel is sent like a frame
  /\ stage = "running" /\ writer.at = "waiting"
  /\ writer' = [at |-> "sending", frame |-> NoFrame]
  /\ UNCHANGED <<stage, up, code, reader, heard, said>>

GetSentinel ==
  /\ stage = "running" /\ writer.at = "waiting"
  /\ writer' = WriterDone
  /\ UNCHANGED <<stage, up, code, reader, heard, said>>

(* Thirty seconds with an empty queue.                                      *)
PingDue ==
  /\ stage = "running" /\ writer.at = "waiting"
  /\ Len(said) < MaxSent \/ reader.at = "done"
  /\ writer' = [at |-> "sending", frame |-> Ping]
  /\ UNCHANGED <<stage, up, code, reader, heard, said>>

HeedlessSent ==         \* a mistake to be caught: `while True`
  /\ writer.at = "sending"
  /\ Takes
  /\ said' = Append(said, By("writer", writer.frame))
  /\ writer' = Waiting
  /\ UNCHANGED <<stage, up, code, reader, heard>>

FrameSent ==
  /\ writer.at = "sending"
  /\ Takes
  /\ said' = Append(said, By("writer", writer.frame))
  /\ writer' = NextGet(reader)
  /\ UNCHANGED <<stage, up, code, reader, heard>>

FrameFails ==
  /\ writer.at = "sending"
  /\ ~Takes
  /\ writer' = WriterDone
  /\ UNCHANGED <<stage, up, code, reader, heard, said>>

(* gather returns when both have.                                           *)
Finish ==
  /\ stage = "running"
  /\ reader.at = "done" /\ writer.at = "done"
  /\ stage' = "ended"
  /\ code' = IF code = "none" THEN "dropped" ELSE code
  /\ UNCHANGED <<up, reader, writer, heard, said>>

ClientGoes ==
  /\ up /\ stage # "ended"
  /\ up' = FALSE
  /\ UNCHANGED <<stage, code, reader, writer, heard, said>>

------------------------------------------------------------------------------

Next ==
  \/ \E offered \in SUBSET (Subprotocols \cup {"other"}) : Upgrade(offered)
  \/ NoSubscribe
  \/ \E text \in Texts, active \in BOOLEAN : First(text, active)
  \/ \E f \in Queued : Opened(f) \/ WriterGet(f)
  \/ NothingMissed
  \/ \E text \in Texts : \E verdict \in Verdicts : Hear(text, verdict)
  \/ ReplySent \/ ReplyFails \/ CloseSent \/ ReceiveRaises
  \/ GetSentinel \/ PingDue \/ FrameSent \/ FrameFails
  \/ Finish
  \/ ClientGoes

Spec == Init /\ [][Next]_vars

------------------------------------------------------------------------------
(* Properties.                                                              *)

(* Every variable holds what it is said to hold.                            *)
TypeOK ==
  /\ stage \in {"upgrade", "subscribing", "opening", "running", "ended"}
  /\ up \in BOOLEAN
  /\ code \in {"none", "normal", "protocol", "policy", "raised", "dropped"}
  /\ reader.at \in {"reading", "sending", "closing", "done"}
  /\ reader.at = "sending" => reader.reply.type \in {"error", "pong"}
  /\ writer.at \in {"waiting", "sending", "done"}
  /\ writer.at = "sending" => writer.frame \in Queued \cup {Ping}
  /\ \A i \in DOMAIN heard : heard[i] \in Texts
  /\ \A i \in DOMAIN said : said[i].by \in {"handshake", "reader", "goodbye", "writer"}

(* What one end builds is what the other end reads: the JSON in between     *)
(* tells an empty field from none, and a number from its absence, wherever  *)
(* the frames do (encode, decode_client, decode_server).                    *)
ReadAsBuilt ==
  /\ \A i \in DOMAIN heard :
       heard[i] \in DOMAIN Meaning => DecodeClient(heard[i]) = Meaning[heard[i]]
  /\ \A i \in DOMAIN said :
       DecodeServer(Encode(said[i].frame)) = said[i].frame

(* A client is served nothing, neither data nor an answer, unless the first *)
(* thing it said is a Subscribe of a token with a role (handle_ws).         *)
ServedOnlyIfAdmitted ==
  \A i \in DOMAIN said :
    said[i].by # "handshake" \/ said[i].frame.type # "error" =>
      LET first == DecodeClient(heard[1])
      IN  /\ ~Failed(first)
          /\ "token" \in DOMAIN first
          /\ Admissible(first, Accounts)

(* What is owed to a text said in a session, by what its sender meant: a    *)
(* ping gets its own nonce, a text that is no frame its error, one whose    *)
(* numbers do not convert nothing.  What inputs are owed, Operator says.    *)
Owed(text) ==
  IF text \in DOMAIN Unfit
    THEN CASE Unfit[text] = "version"  -> <<Error("VERSION_MISMATCH", 0, FALSE, Null)>>
           [] Unfit[text] = "internal" -> <<Error("INTERNAL", 0, FALSE, Null)>>
           [] Unfit[text] = "silent"   -> <<>>
    ELSE LET f == IF text \in DOMAIN Loose THEN Loose[text] ELSE Meaning[text]
         IN  CASE f.type = "ping"      -> <<Pong(f.nonce)>>
               [] f.type = "subscribe" -> <<Error("INTERNAL", 0, FALSE, Null)>>
               [] OTHER                -> <<>>

OfInput(f) == f = Error("INVALID_VALUE", 0, TRUE, Str(""))

Owing(texts) == SX!FlattenSeq([i \in DOMAIN texts |-> Owed(texts[i])])

(* What of the things said pays such a debt: what the reader said, the      *)
(* refusals of inputs apart.                                                *)
Paid(x) == IF x.by \in {"reader", "goodbye"} /\ ~OfInput(x.frame) THEN <<x.frame>> ELSE <<>>

Answers == SX!FlattenSeq([i \in DOMAIN said |-> Paid(said[i])])

(* While the connection stands everything said in a session is answered     *)
(* once, in order and for what it was, however the writer interleaves.      *)
AnsweredInOrder ==
  stage = "running" /\ Takes =>
    LET open == reader.at = "sending" /\ ~OfInput(reader.reply)
    IN  Owing(Tail(heard)) = IF open THEN Append(Answers, reader.reply) ELSE Answers

(* After the error that ends a reader the client gets at most the one frame *)
(* its writer had in hand or was waiting for, and no answer.                *)
EndsThereafter ==
  \A i \in DOMAIN said :
    said[i].by = "goodbye" => /\ Len(said) <= i + 1
                              /\ \A j \in i + 1..Len(said) : said[j].by = "writer"

==============================================================================
