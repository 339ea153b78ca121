-------------------------------- MODULE Adapters --------------------------------
(****************************************************************************)
(* The adapters of server/adapters: http_poll_adapter asks an upstream for  *)
(* its document again and again, ws_subscribe_adapter relays the messages   *)
(* of another, and both emit into one scene.                                *)
(*                                                                          *)
(* A document is a JSON value of the codec, but for an object, which is a   *)
(* sequence of items here: what comes later wins (see Documents).           *)
(*                                                                          *)
(* Of an emission only the store is kept: its number and its frames are     *)
(* those of Scene.  An adapter does not suspend between reading a response  *)
(* or a message and the end of its emission, so that is one step.           *)
(****************************************************************************)
EXTENDS Documents, TLC

CONSTANTS Documents,    \* what the one upstream holds and the other sends
          Flattened,    \* [Documents -> patches]: what _flatten makes of each
          Leaves,       \* the reference: the leaves of each
          Custom,       \* a transform: [some documents -> patches]; on the others it raises
          Paths, Values, NoValue, SceneIds, QueueMax, ReplayMax,
          MaxSent       \* bound: messages the second sends over a connection

S == INSTANCE Scene

SX == INSTANCE SequencesExt

VARIABLES store,        \* the scene's
          transform,    \* "none" or "custom"
          document,     \* what the first upstream holds
          poller,       \* [at, read], see below
          link,         \* "dialing", "open" or "pausing"
          wire,         \* [text] and [close] on their way over the connection
          sent,         \* history: what was sent over this connection
          relayed,      \* history: what of it was emitted, if there was anything in it
          last,         \* history: what the latest emission is of [by, doc]
          healthy       \* from now on the upstreams answer in time and stay as they are

upstream == <<document, healthy>>
relay == <<link, wire, sent, relayed>>
vars == <<store, transform, document, poller, link, wire, sent, relayed, last, healthy>>

(* at      "asking", "answered" with the response on its way, "pausing",    *)
(*         or "ended"                                                       *)
(* read    the response's document, kept by what ended on it                *)
Init ==
  /\ store = S!Blank
  /\ transform \in {"none", "custom"}
  /\ document \in Documents
  /\ poller = [at |-> "asking", read |-> <<>>]
  /\ link = "dialing"
  /\ wire = <<>> /\ sent = <<>> /\ relayed = <<>>
  /\ last = [by |-> "nobody"]
  /\ healthy = FALSE

(* What the relay takes a message for: the keys of its top level.           *)
TopLevel(value) ==
  IF value.is # "dict" THEN <<>>
  ELSE Updated([i \in DOMAIN value.items |-> Single(value.items[i].key, value.items[i].value)])

Raises(doc) == transform = "custom" /\ doc \notin DOMAIN Custom

PolledPatches(doc) == IF transform = "custom" THEN Custom[doc] ELSE Flattened[doc]
RelayedPatches(doc) == IF transform = "custom" THEN Custom[doc] ELSE TopLevel(doc)

(* No patches, no emission.                                                 *)
Emits(who, doc, patches) ==
  /\ store' = S!Apply(store, patches)
  /\ last' = IF DOMAIN patches = {} THEN last ELSE [by |-> who, doc |-> doc]

------------------------------------------------------------------------------
(* http_poll_adapter.                                                       *)

Changes(doc) ==
  /\ ~healthy
  /\ document' = doc
  /\ UNCHANGED <<store, transform, poller, relay, last, healthy>>

Answers ==
  /\ poller.at = "asking"
  /\ poller' = [at |-> "answered", read |-> <<document>>]
  /\ UNCHANGED <<store, transform, upstream, relay, last>>

Pausing == [at |-> "pausing", read |-> <<>>]

LastWord ==             \* a mistake to be caught: the `try` is around the loop
  /\ poller.at \in {"asking", "answered"}
  /\ ~healthy
  /\ poller' = [poller EXCEPT !.at = "ended"]
  /\ UNCHANGED <<store, transform, upstream, relay, last>>

(* No answer in time, none at all, a status that is no success, no JSON.    *)
PollFails ==
  /\ poller.at \in {"asking", "answered"}
  /\ ~healthy
  /\ poller' = Pausing
  /\ UNCHANGED <<store, transform, upstream, relay, last>>

(* The transform and the emission are not under the `try`.                  *)
Polled ==
  LET doc == poller.read[1]
  IN  /\ poller.at = "answered"
      /\ IF Raises(doc)
           THEN /\ poller' = [poller EXCEPT !.at = "ended"]
                /\ UNCHANGED <<store, last>>
           ELSE /\ poller' = Pausing
                /\ Emits("poller", doc, PolledPatches(doc))
      /\ UNCHANGED <<transform, upstream, relay>>

IntervalOver ==
  /\ poller.at = "pausing"
  /\ poller' = [poller EXCEPT !.at = "asking"]
  /\ UNCHANGED <<store, transform, upstream, relay, last>>

------------------------------------------------------------------------------
(* ws_subscribe_adapter.                                                    *)

(* The connection is closed, and its history ends.                          *)
Leave(next) == link' = next /\ wire' = <<>> /\ sent' = <<>> /\ relayed' = <<>>

Sent(text) == [text |-> text]
Close(how) == [close |-> how]
IsClose(x) == "close" \in DOMAIN x

Connects ==
  /\ link = "dialing"
  /\ link' = "open"
  /\ UNCHANGED <<store, transform, upstream, poller, wire, sent, relayed, last>>

DialFails ==
  /\ link = "dialing"
  /\ ~healthy
  /\ link' = "pausing"
  /\ UNCHANGED <<store, transform, upstream, poller, wire, sent, relayed, last>>

Standing == link = "open" /\ \A i \in DOMAIN wire : ~IsClose(wire[i])

Sends(text) ==
  /\ Standing
  /\ Len(sent) < MaxSent
  /\ wire' = Append(wire, Sent(text))
  /\ sent' = Append(sent, text)
  /\ UNCHANGED <<store, transform, upstream, poller, link, relayed, last>>

(* The upstream closes in order, or the connection breaks and loses what    *)
(* had not arrived.                                                         *)
Disconnects ==
  /\ Standing
  /\ ~healthy
  /\ \/ wire' = Append(wire, Close("clean"))
     \/ \E n \in 0..Len(wire) : wire' = Append(SubSeq(wire, 1, n), Close("broken"))
  /\ UNCHANGED <<store, transform, upstream, poller, link, sent, relayed, last>>

Latest ==               \* a mistake to be caught: only the latest message counts
  LET doc == wire[Len(wire)].text
  IN  /\ link = "open" /\ wire # <<>>
      /\ ~IsClose(wire[1]) /\ ~IsClose(wire[Len(wire)])
      /\ doc # Garbage /\ ~Raises(doc)
      /\ Emits("relay", doc, RelayedPatches(doc))
      /\ relayed' = Append(relayed, doc)
      /\ wire' = <<>>
      /\ UNCHANGED <<transform, upstream, poller, link, sent>>

(* A text that is not JSON is left out.  An exception closes the connection *)
(* with all that has arrived over it.                                       *)
Relays ==
  LET doc == wire[1].text
  IN  /\ link = "open" /\ wire # <<>> /\ ~IsClose(wire[1])
      /\ IF doc = Garbage
           THEN wire' = Tail(wire) /\ UNCHANGED <<store, link, sent, relayed, last>>
         ELSE IF Raises(doc)
           THEN Leave("pausing") /\ UNCHANGED <<store, last>>
         ELSE /\ Emits("relay", doc, RelayedPatches(doc))
              /\ relayed' = Append(relayed, doc)
              /\ wire' = Tail(wire)
              /\ UNCHANGED <<link, sent>>
      /\ UNCHANGED <<transform, upstream, poller>>

(* A clean close ends the loop over the messages without an exception: the  *)
(* next connection is made at once.                                         *)
LinkEnds ==
  /\ link = "open" /\ wire # <<>> /\ IsClose(wire[1])
  /\ Leave(IF wire[1].close = "clean" THEN "dialing" ELSE "pausing")
  /\ UNCHANGED <<store, transform, upstream, poller, last>>

DelayOver ==
  /\ link = "pausing"
  /\ link' = "dialing"
  /\ UNCHANGED <<store, transform, upstream, poller, wire, sent, relayed, last>>

------------------------------------------------------------------------------

Recovers ==
  /\ ~healthy
  /\ healthy' = TRUE
  /\ UNCHANGED <<store, transform, document, poller, relay, last>>

Next ==
  \/ \E doc \in Documents : Changes(doc)
  \/ Answers \/ PollFails \/ Polled \/ IntervalOver
  \/ Connects \/ DialFails \/ Disconnects
  \/ \E text \in Documents \cup {Garbage} : Sends(text)
  \/ Relays \/ LinkEnds \/ DelayOver
  \/ Recovers

Spec == Init /\ [][Next]_vars

(* Both adapters are run, a sleep ends, a dial and a request come to some   *)
(* end: an answer where the upstream is healthy.                            *)
FairSpec ==
  Spec /\ WF_vars(Answers \/ PollFails) /\ WF_vars(Polled) /\ WF_vars(IntervalOver)
       /\ WF_vars(Connects \/ DialFails) /\ WF_vars(Relays) /\ WF_vars(LinkEnds)
       /\ WF_vars(DelayOver)

------------------------------------------------------------------------------
(* Properties.                                                              *)

Shows(doc) ==
  IF transform = "custom"
    THEN ~Raises(doc) /\ \A p \in DOMAIN Custom[doc] : store[p] = Custom[doc][p]
    ELSE \A leaf \in Leaves[doc] : [leaf EXCEPT !.value = store[leaf.at]] \in Leaves[doc]

(* After an emission of the poller the scene shows the document it read,    *)
(* each leaf at the path that leads to it and with a value the document has *)
(* there, whatever the relay emitted before (_flatten).                     *)
SaysTheDocument == last.by = "poller" => Shows(last.doc)

(* What can be emitted.                                                     *)
Good(texts) ==
  SX!FlattenSeq([i \in DOMAIN texts |->
                   IF texts[i] = Garbage \/ Raises(texts[i]) THEN <<>> ELSE <<texts[i]>>])

(* Of the messages of a connection the relay emits each once, in order and  *)
(* none left out before the first that is lost or that makes the transform  *)
(* raise; as long as the connection stands none is lost.                    *)
RelaysInOrder ==
  \E n \in 0..Len(sent) :
    /\ relayed = Good(SubSeq(sent, 1, n))
    /\ \A i \in 1..n : sent[i] = Garbage \/ ~Raises(sent[i])
    /\ Standing => [i \in DOMAIN wire |-> wire[i].text] = SubSeq(sent, n + 1, Len(sent))

(* The poller survives every failure of its upstream: once that answers in  *)
(* time the scene shows the current document time and again, unless the     *)
(* caller's transform has ended the poller.                                 *)
KeepsUp ==
  healthy ~> \/ Shows(document)
             \/ poller.at = "ended" /\ poller.read # <<>> /\ Raises(poller.read[1])

==============================================================================
