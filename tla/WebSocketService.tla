---------------------------- MODULE WebSocketService ----------------------------
(***************************************************************************)
(* backend/services/websocket.go: every message for the browsers goes      *)
(* through the bounded channel broadcast.  The hub goroutine run takes     *)
(* one after the other and writes it to all clients while it holds a read  *)
(* lock on mu; connections come and go under the write lock.  Messages     *)
(* come from the pump startDataPush, once a second, and from goroutines    *)
(* that alarms and leaks start.  Sends on broadcast block.                 *)
(*                                                                         *)
(* A section under the write lock waits for nothing, so it is one step     *)
(* that the hub's read lock delays.  Messages are numbered in the order    *)
(* in which broadcast accepts them.                                        *)
(***************************************************************************)
EXTENDS Integers, Sequences, FiniteSets

CONSTANTS
  Conn,           \* the connections browsers make
  Sender,         \* the goroutines of BroadcastAlarm and BroadcastLeakSource
  BroadcastCap,
  MaxTicks,       \* bound: ticks of the pump
  MaxPush         \* bound: messages of a tick, of which there are at most three

ASSUME HubAssumption ==
  /\ BroadcastCap \in Nat \ {0}
  /\ MaxTicks \in Nat
  /\ MaxPush \in 1..3

VARIABLES
  net,          \* the state of a connection
  connPc,       \* where HandleConnection and handleClient of a connection are
  clients,      \* the connections in the map
  broadcast,    \* the messages in the channel
  closed,       \* whether the channel is closed
  accepted,     \* number of messages the channel has accepted
  hubPc,        \* where run is; it holds the read lock at "write"
  hubMsg,       \* its message, or 0
  todo,         \* the connections it has still to write the message to
  senderPc,     \* where a sender is
  pumpPc,       \* where startDataPush is
  toPush,       \* how many messages of this tick it has still to send
  ticks,        \* number of ticks so far
  ticking,      \* whether the ticker still delivers ticks
  closePc,      \* where Close is
  joined,       \* history: the last message before a connection was registered
  received      \* history: the messages a browser received, in order

connVars == <<net, connPc, clients>>
hubVars  == <<hubPc, hubMsg, todo>>
pumpVars == <<pumpPc, toPush, ticks>>
feedVars == <<joined, received>>
vars == <<net, connPc, clients, broadcast, closed, accepted, hubPc, hubMsg, todo,
          senderPc, pumpPc, toPush, ticks, ticking, closePc, joined, received>>

Net == {"none", "open", "stalled", "broken", "closed"}

Init ==
  /\ net = [c \in Conn |-> "none"]
  /\ connPc = [c \in Conn |-> "idle"]
  /\ clients = {}
  /\ broadcast = <<>>
  /\ closed = FALSE
  /\ accepted = 0
  /\ hubPc = "range"
  /\ hubMsg = 0
  /\ todo = {}
  /\ senderPc = [s \in Sender |-> "idle"]
  /\ pumpPc = "wait"
  /\ toPush = 0
  /\ ticks = 0
  /\ ticking = TRUE
  /\ closePc = "idle"
  /\ joined = [c \in Conn |-> 0]
  /\ received = [c \in Conn |-> <<>>]

\* The write lock is free: the hub is not writing.
Lockable == hubPc # "write"

\* The last message the hub has begun to write.
Processed == accepted - Len(broadcast) - (IF hubPc = "lock" THEN 1 ELSE 0)

-------------------------------------------------------------------------------
(* The connections *)

\* HandleConnection: the upgrade ...
Upgrade(c) ==
  /\ connPc[c] = "idle"
  /\ connPc' = [connPc EXCEPT ![c] = "upgraded"]
  /\ net' = [net EXCEPT ![c] = "open"]
  /\ UNCHANGED <<clients, broadcast, closed, accepted, hubVars, senderPc, pumpVars,
                 ticking, closePc, feedVars>>

\* ... and, under mu, the entry in the map; then go handleClient.
Register(c) ==
  /\ connPc[c] = "upgraded"
  /\ Lockable
  /\ clients' = clients \cup {c}
  /\ connPc' = [connPc EXCEPT ![c] = "reading"]
  /\ joined' = [joined EXCEPT ![c] = Processed]
  /\ UNCHANGED <<net, broadcast, closed, accepted, hubVars, senderPc, pumpVars,
                 ticking, closePc, received>>

\* Mutant: the connection stays in the map.
UnregisterLate(c) ==
  /\ connPc[c] = "reading"
  /\ net[c] \in {"broken", "closed"}
  /\ Lockable
  /\ connPc' = [connPc EXCEPT ![c] = "done"]
  /\ net' = [net EXCEPT ![c] = "closed"]
  /\ UNCHANGED <<clients, broadcast, closed, accepted, hubVars, senderPc, pumpVars,
                 ticking, closePc, feedVars>>

\* handleClient: ReadMessage has failed; leave the map under mu and close.
Unregister(c) ==
  /\ connPc[c] = "reading"
  /\ net[c] \in {"broken", "closed"}
  /\ Lockable
  /\ clients' = clients \ {c}
  /\ connPc' = [connPc EXCEPT ![c] = "done"]
  /\ net' = [net EXCEPT ![c] = "closed"]
  /\ UNCHANGED <<broadcast, closed, accepted, hubVars, senderPc, pumpVars, ticking,
                 closePc, feedVars>>

\* A browser stops reading until the buffers are full, goes on, or is gone.
Stall(c) ==
  /\ net[c] = "open"
  /\ net' = [net EXCEPT ![c] = "stalled"]
  /\ UNCHANGED <<connPc, clients, broadcast, closed, accepted, hubVars, senderPc,
                 pumpVars, ticking, closePc, feedVars>>

StallEnds(c) ==
  /\ net[c] = "stalled"
  /\ \E s \in {"open", "broken"} : net' = [net EXCEPT ![c] = s]
  /\ UNCHANGED <<connPc, clients, broadcast, closed, accepted, hubVars, senderPc,
                 pumpVars, ticking, closePc, feedVars>>

Break(c) ==
  /\ net[c] = "open"
  /\ net' = [net EXCEPT ![c] = "broken"]
  /\ UNCHANGED <<connPc, clients, broadcast, closed, accepted, hubVars, senderPc,
                 pumpVars, ticking, closePc, feedVars>>

-------------------------------------------------------------------------------
(* run *)

\* range broadcast: take the next message, and wait for the read lock.
TakeMessage ==
  /\ hubPc = "range"
  /\ broadcast # <<>>
  /\ hubMsg' = Head(broadcast)
  /\ broadcast' = Tail(broadcast)
  /\ hubPc' = "lock"
  /\ UNCHANGED <<connVars, closed, accepted, todo, senderPc, pumpVars, ticking,
                 closePc, feedVars>>

\* broadcastMessage: RLock, and the loop over the clients begins.
LockClients ==
  /\ hubPc = "lock"
  /\ todo' = clients
  /\ hubPc' = "write"
  /\ UNCHANGED <<connVars, broadcast, closed, accepted, hubMsg, senderPc, pumpVars,
                 ticking, closePc, feedVars>>

\* Mutant: run returns when a write fails.
WriteToReturns(c) ==
  /\ hubPc = "write"
  /\ c \in todo
  /\ IF net[c] = "open"
     THEN /\ received' = [received EXCEPT ![c] = Append(@, hubMsg)]
          /\ todo' = todo \ {c}
          /\ UNCHANGED <<net, clients, hubPc>>
     ELSE /\ net[c] \in {"broken", "closed"}
          /\ net' = [net EXCEPT ![c] = "closed"]
          /\ clients' = clients \ {c}
          /\ todo' = {}
          /\ hubPc' = "done"
          /\ UNCHANGED received
  /\ UNCHANGED <<connPc, broadcast, closed, accepted, hubMsg, senderPc, pumpVars,
                 ticking, closePc, joined>>

\* WriteMessage to a client: the browser receives it; the buffers of a broken
\* connection swallow it; or it fails, and the client is closed and removed under
\* the read lock.  A stalled browser blocks the hub: there is no write deadline.
WriteTo(c) ==
  /\ hubPc = "write"
  /\ c \in todo
  /\ todo' = todo \ {c}
  /\ \/ /\ net[c] = "open"
        /\ received' = [received EXCEPT ![c] = Append(@, hubMsg)]
        /\ UNCHANGED <<net, clients>>
     \/ /\ net[c] = "broken"
        /\ UNCHANGED <<net, clients, received>>
     \/ /\ net[c] \in {"broken", "closed"}
        /\ net' = [net EXCEPT ![c] = "closed"]
        /\ clients' = clients \ {c}
        /\ UNCHANGED received
  /\ UNCHANGED <<connPc, broadcast, closed, accepted, hubPc, hubMsg, senderPc,
                 pumpVars, ticking, closePc, joined>>

\* Mutant: a client that fails ends the loop.
MessageDoneEarly ==
  /\ hubPc = "write"
  /\ todo = {} \/ \E c \in Conn \ clients : net[c] = "closed"
  /\ hubPc' = "range"
  /\ hubMsg' = 0
  /\ todo' = {}
  /\ UNCHANGED <<connVars, broadcast, closed, accepted, senderPc, pumpVars, ticking,
                 closePc, feedVars>>

MessageDone ==
  /\ hubPc = "write"
  /\ todo = {}
  /\ hubPc' = "range"
  /\ hubMsg' = 0
  /\ UNCHANGED <<connVars, broadcast, closed, accepted, todo, senderPc, pumpVars,
                 ticking, closePc, feedVars>>

\* range ends when the channel is closed and drained.
HubExits ==
  /\ hubPc = "range"
  /\ broadcast = <<>>
  /\ closed
  /\ hubPc' = "done"
  /\ UNCHANGED <<connVars, broadcast, closed, accepted, hubMsg, todo, senderPc,
                 pumpVars, ticking, closePc, feedVars>>

Hub ==
  \/ TakeMessage \/ LockClients \/ MessageDone \/ HubExits
  \/ \E c \in Conn : WriteTo(c)

-------------------------------------------------------------------------------
(* The senders, the pump and Close *)

\* A send that finds room.
Accept ==
  /\ ~closed
  /\ Len(broadcast) < BroadcastCap
  /\ accepted' = accepted + 1
  /\ broadcast' = Append(broadcast, accepted')

\* go BroadcastAlarm(alarm) or go BroadcastLeakSource(leak).
StartSender(s) ==
  /\ senderPc[s] = "idle"
  /\ senderPc' = [senderPc EXCEPT ![s] = "send"]
  /\ UNCHANGED <<connVars, broadcast, closed, accepted, hubVars, pumpVars, ticking,
                 closePc, feedVars>>

Send(s) ==
  /\ senderPc[s] = "send"
  /\ Accept
  /\ senderPc' = [senderPc EXCEPT ![s] = "sent"]
  /\ UNCHANGED <<connVars, closed, hubVars, pumpVars, ticking, closePc, feedVars>>

\* A send on a closed channel panics, which ends the program.
SendPanics(s) ==
  /\ senderPc[s] = "send"
  /\ closed
  /\ senderPc' = [senderPc EXCEPT ![s] = "panic"]
  /\ UNCHANGED <<connVars, broadcast, closed, accepted, hubVars, pumpVars, ticking,
                 closePc, feedVars>>

\* startDataPush: a tick.  The concentrations when the query succeeds, the alarms
\* and the leaks when there are any.
PumpTick ==
  /\ pumpPc = "wait"
  /\ ticking
  /\ ticks < MaxTicks
  /\ ticks' = ticks + 1
  /\ toPush' \in 1..MaxPush
  /\ pumpPc' = "send"
  /\ UNCHANGED <<connVars, broadcast, closed, accepted, hubVars, senderPc, ticking,
                 closePc, feedVars>>

PumpSend ==
  /\ pumpPc = "send"
  /\ Accept
  /\ toPush' = toPush - 1
  /\ pumpPc' = IF toPush' = 0 THEN "wait" ELSE "send"
  /\ UNCHANGED <<connVars, closed, hubVars, senderPc, ticks, ticking, closePc,
                 feedVars>>

PumpPanics ==
  /\ pumpPc = "send"
  /\ closed
  /\ pumpPc' = "panic"
  /\ UNCHANGED <<connVars, broadcast, closed, accepted, hubVars, senderPc, toPush,
                 ticks, ticking, closePc, feedVars>>

\* Close, a deferred call of src/main.go (backend/main.go has none), stops the ticker ...
StopTicker ==
  /\ closePc = "idle"
  /\ closePc' = "lock"
  /\ ticking' = FALSE
  /\ UNCHANGED <<connVars, broadcast, closed, accepted, hubVars, senderPc, pumpVars,
                 feedVars>>

\* ... and, under mu, closes the clients and the channel.
CloseHub ==
  /\ closePc = "lock"
  /\ Lockable
  /\ closePc' = "done"
  /\ net' = [c \in Conn |-> IF c \in clients THEN "closed" ELSE net[c]]
  /\ clients' = {}
  /\ closed' = TRUE
  /\ UNCHANGED <<connPc, broadcast, accepted, hubVars, senderPc, pumpVars, ticking,
                 feedVars>>

Alive == pumpPc # "panic" /\ \A s \in Sender : senderPc[s] # "panic"

Next ==
  /\ Alive
  /\ \/ \E c \in Conn :
          \/ Upgrade(c) \/ Register(c) \/ Unregister(c)
          \/ Stall(c) \/ StallEnds(c) \/ Break(c)
     \/ Hub
     \/ \E s \in Sender : StartSender(s) \/ Send(s) \/ SendPanics(s)
     \/ PumpTick \/ PumpSend \/ PumpPanics
     \/ StopTicker \/ CloseHub

Spec == Init /\ [][Next]_vars

\* The scheduler runs the hub and the senders; a goroutine that waits for
\* the write lock gets it once the hub lets go of it now and then, and one of many
\* that wait for room in the channel gets its turn.  Nothing is assumed of the
\* browsers: one that has stopped reading may do so for ever.
Fairness ==
  /\ SF_vars(Alive /\ Hub)
  /\ \A s \in Sender : SF_vars(Alive /\ Send(s)) /\ WF_vars(Alive /\ SendPanics(s))
  /\ \A c \in Conn : SF_vars(Alive /\ Unregister(c))

FairSpec == Spec /\ Fairness

-------------------------------------------------------------------------------
(* Correctness *)

\* Every variable has its type, and the hub holds a message exactly while it
\* distributes one.
TypeOK ==
  /\ net \in [Conn -> Net]
  /\ connPc \in [Conn -> {"idle", "upgraded", "reading", "done"}]
  /\ clients \subseteq Conn
  /\ broadcast \in Seq(Nat) /\ Len(broadcast) <= BroadcastCap
  /\ closed \in BOOLEAN /\ ticking \in BOOLEAN
  /\ accepted \in Nat
  /\ hubPc \in {"range", "lock", "write", "done"}
  /\ hubMsg \in Nat /\ (hubMsg # 0 <=> hubPc \in {"lock", "write"})
  /\ todo \subseteq Conn /\ (hubPc # "write" => todo = {})
  /\ senderPc \in [Sender -> {"idle", "send", "sent", "panic"}]
  /\ pumpPc \in {"wait", "send", "panic"}
  /\ toPush \in 0..3 /\ ticks \in Nat
  /\ closePc \in {"idle", "lock", "done"}
  /\ joined \in [Conn -> Nat]
  /\ received \in [Conn -> Seq(Nat)]

\* A browser receives every message from its registration on, in the order in
\* which broadcast took them, without a gap or a repetition, until its connection
\* fails, whoever else connects, stalls or fails meanwhile (broadcastMessage).
CompleteFeed ==
  \A c \in Conn :
    /\ received[c] = [i \in 1..Len(received[c]) |-> joined[c] + i]
    /\ c \in clients /\ net[c] \in {"open", "stalled"} =>
         joined[c] + Len(received[c]) = Processed - (IF c \in todo THEN 1 ELSE 0)

\* The hub has a message for browser c, whose buffers are full: the write has no
\* deadline, and the hub holds the read lock.
HeldUpBy(c) == hubPc = "write" /\ c \in todo /\ net[c] = "stalled"

\* The one thing that stops the service for good while the program lives: a browser
\* that never again reads, nor closes its connection.
HeldUpForEver == \E c \in Conn : []HeldUpBy(c)

\* A connection that failed leaves the map (handleClient, broadcastMessage), unless
\* the hub is held up for ever: nothing else that browsers, senders, the pump and Close
\* do can keep it there.
BrokenForgotten ==
  \A c \in Conn : (net[c] = "broken") ~> (c \notin clients \/ ~Alive \/ HeldUpForEver)

\* A goroutine that sends an alarm or a leak waits for room in the full channel for ever
\* only if the hub is held up for ever: browsers that stall for a while, fail or leave
\* during a write, and full channels alone, do not stop it.
SendersFinish ==
  \A s \in Sender :
    (senderPc[s] = "send") ~> (senderPc[s] = "sent" \/ ~Alive \/ HeldUpForEver)
===============================================================================
