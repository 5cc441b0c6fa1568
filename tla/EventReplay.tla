----------------------------- MODULE EventReplay ------------------------------
(***************************************************************************)
(* How the events of a thread reach a client that comes and goes: the      *)
(* event bus of the thread (EventBus), the subscription a connection makes *)
(* in subscribeConnection of src/src/app-server/message-processor.ts, the  *)
(* bounded writer queue of connection.ts, and the client's cursor, which   *)
(* it hands back as afterSequence when it reconnects.                      *)
(*                                                                         *)
(* The connections belong to one client that opens one after the other and *)
(* subscribes once on each, as the README describes.                       *)
(***************************************************************************)
EXTENDS EventBus, FiniteSets

CONSTANTS
  Connections,   \* the WebSocket connections of the client
  MaxOutbound,   \* maxOutboundMessages
  MaxPublished,  \* bound: events of one bus
  MaxRebirths    \* bound: how often the thread is deleted and started again

ASSUME ReplayAssumption ==
  /\ MaxOutbound \in Nat \ {0}
  /\ MaxPublished \in Nat \ {0}
  /\ MaxRebirths \in Nat

VARIABLES
  epoch,       \* which bus the thread has: a new object has a new one
  link,        \* each connection: new, up, closed, and gone once handleClose ran
  out,         \* its writer queue, the message being written included
  handler,     \* where its subscribeConnection stands
  attached,    \* the connections in the bus's subscribers
  replaying,   \* the connections whose subscriber buffers
  buffered,    \* what it buffers
  replay,      \* the replay its subscribe took
  registered,  \* the connections whose subscriptions map has the thread
  cache,       \* projectionCache: the epoch whose event is cached under a sequence
  cursor,      \* the client's latestSequence
  stale        \* for the properties: a notification of another bus was queued

connVars == <<link, out>>
subVars == <<handler, attached, replaying, buffered, replay, registered>>
vars == <<busVars, epoch, connVars, subVars, cache, cursor, stale>>

Sequences1 == 1..MaxPublished
Epochs == 1..(MaxRebirths + 1)
Event == [kind : {"event"}, sequence : Sequences1]
Warning == [kind |-> "warning", sequence |-> 0]
Replay == [events : Seq(Sequences1), latest : 0..MaxPublished, truncated : BOOLEAN]
NoReplay == [events |-> <<>>, latest |-> 0, truncated |-> FALSE]

TypeOK ==
  /\ BusTypeOK
  /\ epoch \in Epochs
  /\ link \in [Connections -> {"new", "up", "closed", "gone"}]
  /\ out \in [Connections -> Seq(Event \cup {Warning})]
  /\ \A c \in Connections : Len(out[c]) <= MaxOutbound + 1
  /\ handler \in [Connections -> {"none", "snapshot", "join", "replay"}]
  /\ attached \subseteq Connections
  /\ replaying \subseteq Connections
  /\ buffered \in [Connections -> Seq(Sequences1)]
  /\ replay \in [Connections -> Replay]
  /\ registered \subseteq Connections
  /\ cache \in [Sequences1 -> Epochs \cup {0}]
  /\ cursor \in 0..MaxPublished
  /\ stale \in BOOLEAN

Init ==
  /\ BusInit
  /\ epoch = 1
  /\ link = [c \in Connections |-> "new"]
  /\ out = [c \in Connections |-> <<>>]
  /\ handler = [c \in Connections |-> "none"]
  /\ attached = {} /\ replaying = {} /\ registered = {}
  /\ buffered = [c \in Connections |-> <<>>]
  /\ replay = [c \in Connections |-> NoReplay]
  /\ cache = [s \in Sequences1 |-> 0]
  /\ cursor = 0
  /\ stale = FALSE

-------------------------------------------------------------------------------
EventsOf(sequences) == [i \in DOMAIN sequences |-> [kind |-> "event", sequence |-> sequences[i]]]

(* sendThreadEvent, for an event to each of `to`: the projection is looked up in
   the cache of the thread's id and filled in, whether or not the connection is there.
   thread.started, the first event of a thread, is not cached. *)
Projected(sequences, to) ==
  /\ cache' = [s \in Sequences1 |->
       IF to # {} /\ cache[s] = 0 /\ s # 1 /\ s \in sequences THEN epoch ELSE cache[s]]
  /\ stale' = (stale \/ \E s \in sequences, c \in to :
                          link[c] = "up" /\ cache[s] \notin {0, epoch})

(* Mutant of Room: one message more than the queue may hold. *)
RoomForOneMore(all) == Len(all) <= MaxOutbound + 2

(* One message is being written while MaxOutbound may wait. *)
Room(all) == Len(all) <= MaxOutbound + 1

(* sendJson, message after message, on connection c: its queue and its link
   afterwards.  One message too many closes the connection, and of its queue only the
   message being written still goes out. *)
Sent(c, messages) ==
  LET all == out[c] \o messages
  IN  IF link[c] # "up" THEN [out |-> out[c], link |-> link[c]]
      ELSE IF Room(all) THEN [out |-> all, link |-> "up"]
      ELSE [out |-> <<Head(all)>>, link |-> "closed"]

Send(messages, to) ==
  /\ out' = [c \in Connections |-> IF c \in to THEN Sent(c, messages).out ELSE out[c]]
  /\ link' = [c \in Connections |-> IF c \in to THEN Sent(c, messages).link ELSE link[c]]

-------------------------------------------------------------------------------
(* publish(): the log, then every subscriber, which buffers or sends. *)
Publish(size) ==
  LET live == attached \ replaying
  IN  /\ nextSequence <= MaxPublished
      /\ Retain(size)
      /\ buffered' = [c \in Connections |->
           IF c \in attached \cap replaying THEN Append(buffered[c], nextSequence)
           ELSE buffered[c]]
      /\ Projected({nextSequence}, live)
      /\ Send(EventsOf(<<nextSequence>>), live)
      /\ UNCHANGED <<epoch, handler, attached, replaying, replay, registered, cursor>>

-------------------------------------------------------------------------------
(* The client opens its next connection and forgets the one before. *)
Connect(c) ==
  /\ link[c] = "new"
  /\ \A d \in Connections : link[d] # "up"
  /\ link' = [link EXCEPT ![c] = "up"]
  /\ out' = [d \in Connections |-> <<>>]
  /\ UNCHANGED <<busVars, epoch, subVars, cache, cursor, stale>>

(* It asks for the thread from its cursor on, having read what it was sent;
   subscribeConnection awaits snapshotTurns. *)
Subscribe(c) ==
  /\ link[c] = "up" /\ handler[c] = "none" /\ c \notin registered
  /\ out[c] = <<>>
  /\ handler' = [handler EXCEPT ![c] = "snapshot"]
  /\ UNCHANGED <<busVars, epoch, connVars, attached, replaying, buffered, replay, registered,
                 cache, cursor, stale>>

(* An earlier subscription of the connection ends; manager.subscribe awaits the
   thread. *)
SnapshotRead(c) ==
  /\ handler[c] = "snapshot"
  /\ handler' = [handler EXCEPT ![c] = "join"]
  /\ attached' = IF c \in registered THEN attached \ {c} ELSE attached
  /\ UNCHANGED <<busVars, epoch, connVars, replaying, buffered, replay, registered, cache,
                 cursor, stale>>

(* Mutant of Join: the replay is taken, the subscriber comes later. *)
JoinReplayOnly(c) ==
  /\ handler[c] = "join"
  /\ handler' = [handler EXCEPT ![c] = "replay"]
  /\ buffered' = [buffered EXCEPT ![c] = <<>>]
  /\ replay' = [replay EXCEPT ![c] = ReplayAfter(cursor)]
  /\ UNCHANGED <<busVars, epoch, connVars, attached, replaying, registered, cache, cursor,
                 stale>>

(* manager.subscribe: the replay and the subscriber in one piece. *)
Join(c) ==
  /\ handler[c] = "join"
  /\ handler' = [handler EXCEPT ![c] = "replay"]
  /\ attached' = attached \cup {c}
  /\ replaying' = replaying \cup {c}
  /\ buffered' = [buffered EXCEPT ![c] = <<>>]
  /\ replay' = [replay EXCEPT ![c] = ReplayAfter(cursor)]
  /\ UNCHANGED <<busVars, epoch, connVars, registered, cache, cursor, stale>>

(* subscribeConnection resumes: the replay, what was buffered and is newer, and
   the warning last. *)
Replays(c) ==
  LET sequences == replay[c].events \o Above(buffered[c], replay[c].latest)
      warning == IF replay[c].truncated THEN <<Warning>> ELSE <<>>
  IN  /\ handler[c] = "replay"
      /\ handler' = [handler EXCEPT ![c] = "none"]
      /\ registered' = registered \cup {c}
      /\ replaying' = replaying \ {c}
      /\ buffered' = [buffered EXCEPT ![c] = <<>>]
      /\ replay' = [replay EXCEPT ![c] = NoReplay]
      /\ Projected(ToSet(sequences), {c})
      /\ Send(EventsOf(sequences) \o warning, {c})
      /\ UNCHANGED <<busVars, epoch, attached, cursor>>

(* thread/unsubscribe. *)
Unsubscribe(c) ==
  /\ link[c] = "up" /\ handler[c] = "none" /\ c \in registered
  /\ attached' = attached \ {c}
  /\ registered' = registered \ {c}
  /\ UNCHANGED <<busVars, epoch, connVars, handler, replaying, buffered, replay, cache, cursor,
                 stale>>

(* The client reads a message; its cursor never goes back. *)
Deliver(c) ==
  LET message == Head(out[c])
  IN  /\ out[c] # <<>>
      /\ out' = [out EXCEPT ![c] = Tail(@)]
      /\ cursor' = IF message.sequence > cursor THEN message.sequence ELSE cursor
      /\ UNCHANGED <<busVars, epoch, link, subVars, cache, stale>>

(* The connection is lost, by the network, the client or the heartbeat ... *)
Lose(c) ==
  /\ link[c] = "up"
  /\ link' = [link EXCEPT ![c] = "closed"]
  /\ out' = [out EXCEPT ![c] = <<>>]
  /\ UNCHANGED <<busVars, epoch, subVars, cache, cursor, stale>>

(* ... and handleClose ends the subscriptions it finds.  A request in progress
   goes on. *)
HandleClose(c) ==
  /\ link[c] = "closed"
  /\ link' = [link EXCEPT ![c] = "gone"]
  /\ out' = [out EXCEPT ![c] = <<>>]
  /\ attached' = IF c \in registered THEN attached \ {c} ELSE attached
  /\ registered' = registered \ {c}
  /\ UNCHANGED <<busVars, epoch, handler, replaying, buffered, replay, cache, cursor, stale>>

(* The client deletes the thread and starts one under the same id: a new object, a
   new bus, and a client that begins at 0.  BOUND: with no subscription being made and
   everything read. *)
Rebirth ==
  /\ epoch <= MaxRebirths
  /\ \A c \in Connections : handler[c] = "none" /\ out[c] = <<>>
  /\ epoch' = epoch + 1
  /\ records' = <<>> /\ nextSequence' = 1 /\ retainedBytes' = 0
  /\ attached' = {} /\ registered' = {}
  /\ cursor' = 0
  /\ UNCHANGED <<connVars, handler, replaying, buffered, replay, cache, stale>>

Next ==
  \/ \E size \in Sizes : Publish(size)
  \/ \E c \in Connections :
       \/ Connect(c) \/ Subscribe(c) \/ SnapshotRead(c) \/ Join(c) \/ Replays(c)
       \/ Unsubscribe(c) \/ Deliver(c) \/ Lose(c) \/ HandleClose(c)
  \/ Rebirth

Spec == Init /\ [][Next]_vars

-------------------------------------------------------------------------------
Up(c) == link[c] = "up"
EventsIn(queue) == {i \in DOMAIN queue : queue[i].kind = "event"}

(* What waits for a client goes on where its cursor stands, event after event, with
   nothing skipped or sent twice where the replay meets the live stream; when the log no
   longer reaches back to the cursor, the replay_truncated warning is in the same queue.
   A client at 0 is promised the window only. *)
StreamInOrder ==
  \A c \in Connections : Up(c) =>
    LET queue == out[c]
        between(i, j) == {k \in EventsIn(queue) : i < k /\ k < j}
    IN  /\ \A i, j \in EventsIn(queue) :
             i < j /\ between(i, j) = {} => queue[j].sequence = queue[i].sequence + 1
        /\ \A i \in EventsIn(queue) : between(0, i) = {} =>
             \/ queue[i].sequence = cursor + 1
             \/ /\ queue[i].sequence > cursor
                /\ cursor = 0 \/ \E w \in DOMAIN queue : queue[w] = Warning

(* A subscribed client that has read everything has the newest event: none was lost
   while its subscription was being made. *)
CaughtUp ==
  \A c \in Connections :
    Up(c) /\ c \in registered /\ handler[c] = "none" /\ out[c] = <<>>
      => cursor = nextSequence - 1

(* ------ Statements of the code's docs and comments that it does not keep ------ *)

(* README: "Disconnecting removes that client's subscription". *)
DisconnectUnsubscribes ==
  \A c \in Connections : link[c] = "gone" /\ handler[c] = "none" => c \notin attached

(* README: a client reconnects and is replayed "the bounded in-memory event window".
   So a replay to a connection that has nothing else to read does not close it. *)
ReplayFits ==
  [][\A c \in Connections :
       Up(c) /\ out[c] = <<>> /\ handler[c] = "replay" /\ handler'[c] = "none"
         => link'[c] = "up"]_vars

(* isReplayStable: "the same sequence always yields the same notifications and
   caching is safe".  So no client is sent the projection of another bus's event. *)
CacheIsSafe == ~stale
===============================================================================
