------------------------------ MODULE MQTTService ------------------------------
(***************************************************************************)
(* backend/mqtt/client.go: commands to valves and fans are published with  *)
(* QoS 1 and kept in pendingCommands until the device reports success or   *)
(* failure.  A retry loop publishes overdue commands again, MaxRetries     *)
(* times, and then gives them up.                                          *)
(*                                                                         *)
(* Three kinds of goroutine share the map and the PendingCommand objects:  *)
(* the callers of SendReliableCommand, the retry loop and the MQTT client, *)
(* which runs handleDeviceStatus for one message at a time.  The map is    *)
(* accessed under commandsMutex, the fields of an object are not, so       *)
(* every access is a step of its own.                                      *)
(***************************************************************************)
EXTENDS Integers, Sequences, FiniteSets

CONSTANTS
  Command,       \* the commands the program issues; each has its own UUID
  Device,        \* valves and fans
  TargetOf,      \* the device a command is for
  NoCommand,     \* the retry loop or the status handler holds no command
  MaxRetries,
  MaxRedeliver   \* bound: extra QoS 1 deliveries of a published command

ASSUME TargetAssumption == TargetOf \in [Command -> Device]
ASSUME RetryAssumption == MaxRetries \in Nat /\ MaxRedeliver \in Nat
ASSUME NoCommandAssumption == NoCommand \notin Command

VARIABLES
  pending,       \* pendingCommands: the commands in the map
  status,        \* PendingCommand.Status
  retries,       \* PendingCommand.Retries
  due,           \* commands whose LastSentAt is more than Timeout ago
  caller,        \* where the SendReliableCommand call of a command is
  loopPc,        \* where checkPendingCommands is
  loopCmd,       \* its loop variable
  todo,          \* its snapshot of the map, what is left of it
  overdue,       \* the commands overdue at its snapshot of the clock
  handlerPc,     \* where handleDeviceStatus is
  report,        \* the status message it is handling, <<>> or <<message>>
  toDevice,      \* published commands on their way to a device
  fromDevice,    \* status messages on their way to handleDeviceStatus
  applied,       \* history: how often the device executed a command
  published,     \* history: how often a command was published
  redelivered,   \* history: number of repeated deliveries
  callbacks      \* history: how often each callback of a command was started

loopVars    == <<loopPc, loopCmd, todo, overdue>>
handlerVars == <<handlerPc, report>>
netVars     == <<toDevice, fromDevice, applied, redelivered>>
vars == <<pending, status, retries, due, caller, loopPc, loopCmd, todo, overdue,
          handlerPc, report, toDevice, fromDevice, applied, published,
          redelivered, callbacks>>

CommandStatus == {"pending", "sent", "confirmed", "failed", "timeout"}
Callback == {"OnConfirm", "OnError", "OnTimeout"}
Report == [cmd : Command, success : BOOLEAN]

Init ==
  /\ pending = {}
  /\ status = [c \in Command |-> "pending"]
  /\ retries = [c \in Command |-> 0]
  /\ due = {}
  /\ caller = [c \in Command |-> "idle"]
  /\ loopPc = "idle"
  /\ loopCmd = NoCommand
  /\ todo = {}
  /\ overdue = {}
  /\ handlerPc = "idle"
  /\ report = <<>>
  /\ toDevice = [d \in Device |-> <<>>]
  /\ fromDevice = <<>>
  /\ applied = [c \in Command |-> 0]
  /\ published = [c \in Command |-> 0]
  /\ redelivered = 0
  /\ callbacks = [c \in Command |-> [k \in Callback |-> 0]]

-------------------------------------------------------------------------------
(* Helpers *)

\* client.Publish: the broker queues the message for the device's topic.
PublishTo(c) ==
  /\ toDevice' = [toDevice EXCEPT ![TargetOf[c]] = Append(@, c)]
  /\ published' = [published EXCEPT ![c] = @ + 1]

\* The end of a successful sendCommand: LastSentAt is now, Status is sent.
MarkSent(c) ==
  /\ status' = [status EXCEPT ![c] = "sent"]
  /\ due' = due \ {c}
  /\ overdue' = overdue \ {c}

\* go cmd.OnConfirm(), go cmd.OnError(err) or go cmd.OnTimeout().
Start(c, k) == callbacks' = [callbacks EXCEPT ![c][k] = @ + 1]

-------------------------------------------------------------------------------
(* SendReliableCommand, called by ControlValve and ControlFan *)

\* Create the PendingCommand and put it into the map.
Register(c) ==
  /\ caller[c] = "idle"
  /\ caller' = [caller EXCEPT ![c] = "send"]
  /\ pending' = pending \cup {c}
  /\ UNCHANGED <<status, retries, due, loopVars, handlerVars, netVars,
                 published, callbacks>>

\* sendCommand: publish and wait for the broker.
Publish(c) ==
  /\ caller[c] = "send"
  /\ caller' = [caller EXCEPT ![c] = "wait"]
  /\ PublishTo(c)
  /\ UNCHANGED <<pending, status, retries, due, loopVars, handlerVars,
                 fromDevice, applied, redelivered, callbacks>>

\* The token completes without error: SendReliableCommand returns nil.
PublishDone(c) ==
  /\ caller[c] = "wait"
  /\ caller' = [caller EXCEPT ![c] = "accepted"]
  /\ MarkSent(c)
  /\ UNCHANGED <<pending, retries, loopPc, loopCmd, todo, handlerVars, netVars,
                 published, callbacks>>

\* The token completes with an error, although the message may have reached the
\* broker: the command is forgotten and the caller told that it failed.
PublishFailed(c) ==
  /\ caller[c] = "wait"
  /\ caller' = [caller EXCEPT ![c] = "rejected"]
  /\ pending' = pending \ {c}
  /\ UNCHANGED <<status, retries, due, loopVars, handlerVars, netVars,
                 published, callbacks>>

-------------------------------------------------------------------------------
(* checkPendingCommands, run by the retry loop every five seconds *)

\* Copy the map under RLock and read the clock.
Snapshot ==
  /\ loopPc = "idle"
  /\ pending # {}
  /\ loopPc' = "next"
  /\ todo' = pending
  /\ overdue' = pending \cap due
  /\ UNCHANGED <<pending, status, retries, due, caller, loopCmd, handlerVars,
                 netVars, published, callbacks>>

\* The next command of the copy, in any order; is it still in the map?
CheckExists(c) ==
  /\ loopPc = "next"
  /\ c \in todo
  /\ todo' = todo \ {c}
  /\ IF c \in pending
     THEN loopPc' = "inspect" /\ loopCmd' = c
     ELSE UNCHANGED <<loopPc, loopCmd>>
  /\ UNCHANGED <<pending, status, retries, due, caller, overdue, handlerVars,
                 netVars, published, callbacks>>

EndOfPass ==
  /\ loopPc = "next"
  /\ todo = {}
  /\ loopPc' = "idle"
  /\ UNCHANGED <<pending, status, retries, due, caller, loopCmd, todo, overdue,
                 handlerVars, netVars, published, callbacks>>

\* Status is final, or the timeout is not over: nothing to send.
SkipCommand ==
  /\ loopPc = "inspect"
  /\ \/ /\ status[loopCmd] \in {"confirmed", "failed"}
        /\ loopPc' = "remove"
        /\ UNCHANGED loopCmd
     \/ /\ status[loopCmd] \notin {"confirmed", "failed"}
        /\ loopCmd \notin overdue
        /\ loopPc' = "next"
        /\ loopCmd' = NoCommand
  /\ UNCHANGED <<pending, status, retries, due, caller, todo, overdue,
                 handlerVars, netVars, published, callbacks>>

Overdue ==
  /\ loopPc = "inspect"
  /\ status[loopCmd] \notin {"confirmed", "failed"}
  /\ loopCmd \in overdue

\* Mutant: one retry too many.
RetryOnceMore ==
  /\ Overdue
  /\ retries[loopCmd] <= MaxRetries
  /\ retries' = [retries EXCEPT ![loopCmd] = @ + 1]
  /\ loopPc' = "publish"
  /\ UNCHANGED <<pending, status, due, caller, loopCmd, todo, overdue, handlerVars,
                 netVars, published, callbacks>>

\* Mutant: OnTimeout is not called.
GiveUpSilently ==
  /\ Overdue
  /\ retries[loopCmd] >= MaxRetries
  /\ status' = [status EXCEPT ![loopCmd] = "timeout"]
  /\ loopPc' = "remove"
  /\ UNCHANGED <<pending, retries, due, caller, loopCmd, todo, overdue, handlerVars,
                 netVars, published, callbacks>>

Retry ==
  /\ Overdue
  /\ retries[loopCmd] < MaxRetries
  /\ retries' = [retries EXCEPT ![loopCmd] = @ + 1]
  /\ loopPc' = "publish"
  /\ UNCHANGED <<pending, status, due, caller, loopCmd, todo, overdue,
                 handlerVars, netVars, published, callbacks>>

GiveUp ==
  /\ Overdue
  /\ retries[loopCmd] >= MaxRetries
  /\ status' = [status EXCEPT ![loopCmd] = "timeout"]
  /\ Start(loopCmd, "OnTimeout")
  /\ loopPc' = "remove"
  /\ UNCHANGED <<pending, retries, due, caller, loopCmd, todo, overdue,
                 handlerVars, netVars, published>>

RetryPublish ==
  /\ loopPc = "publish"
  /\ PublishTo(loopCmd)
  /\ loopPc' = "wait"
  /\ UNCHANGED <<pending, status, retries, due, caller, loopCmd, todo, overdue,
                 handlerVars, fromDevice, applied, redelivered, callbacks>>

\* The token of the retry completes; an error is logged and leaves LastSentAt.
RetryDone ==
  /\ loopPc = "wait"
  /\ \/ MarkSent(loopCmd)
     \/ UNCHANGED <<status, due, overdue>>
  /\ loopPc' = "next"
  /\ loopCmd' = NoCommand
  /\ UNCHANGED <<pending, retries, caller, todo, handlerVars, netVars,
                 published, callbacks>>

RemoveByLoop ==
  /\ loopPc = "remove"
  /\ pending' = pending \ {loopCmd}
  /\ loopPc' = "next"
  /\ loopCmd' = NoCommand
  /\ UNCHANGED <<status, retries, due, caller, todo, overdue, handlerVars,
                 netVars, published, callbacks>>

RetryLoop ==
  \/ Snapshot \/ EndOfPass \/ SkipCommand \/ Retry \/ GiveUp
  \/ RetryPublish \/ RetryDone \/ RemoveByLoop
  \/ \E c \in Command : CheckExists(c)

-------------------------------------------------------------------------------
(* handleDeviceStatus *)

\* Mutant: the command is not looked up.
HandleUnchecked ==
  /\ handlerPc = "idle"
  /\ fromDevice # <<>>
  /\ fromDevice' = Tail(fromDevice)
  /\ handlerPc' = "found"
  /\ report' = <<Head(fromDevice)>>
  /\ UNCHANGED <<pending, status, retries, due, caller, loopVars, toDevice, applied,
                 redelivered, published, callbacks>>

\* Look the command up under RLock; unknown commands are ignored.
HandleStatus ==
  /\ handlerPc = "idle"
  /\ fromDevice # <<>>
  /\ fromDevice' = Tail(fromDevice)
  /\ IF Head(fromDevice).cmd \in pending
     THEN handlerPc' = "found" /\ report' = <<Head(fromDevice)>>
     ELSE UNCHANGED handlerVars
  /\ UNCHANGED <<pending, status, retries, due, caller, loopVars, toDevice,
                 applied, redelivered, published, callbacks>>

\* Mutant: field success of the message is ignored.
ConcludeConfirmed ==
  /\ handlerPc = "found"
  /\ status' = [status EXCEPT ![report[1].cmd] = "confirmed"]
  /\ Start(report[1].cmd, "OnConfirm")
  /\ handlerPc' = "remove"
  /\ UNCHANGED <<pending, retries, due, caller, loopVars, report, netVars, published>>

\* Set the status and start the callback, without any lock.
Conclude ==
  /\ handlerPc = "found"
  /\ LET c == report[1].cmd IN
       \/ /\ report[1].success
          /\ status' = [status EXCEPT ![c] = "confirmed"]
          /\ Start(c, "OnConfirm")
       \/ /\ ~report[1].success
          /\ status' = [status EXCEPT ![c] = "failed"]
          /\ Start(c, "OnError")
  /\ handlerPc' = "remove"
  /\ UNCHANGED <<pending, retries, due, caller, loopVars, report, netVars,
                 published>>

RemoveByHandler ==
  /\ handlerPc = "remove"
  /\ pending' = pending \ {report[1].cmd}
  /\ handlerPc' = "idle"
  /\ report' = <<>>
  /\ UNCHANGED <<status, retries, due, caller, loopVars, netVars, published,
                 callbacks>>

Handler == HandleStatus \/ Conclude \/ RemoveByHandler

-------------------------------------------------------------------------------
(* The clock, the broker and the devices *)

\* More than Timeout has passed since LastSentAt.
Elapse(c) ==
  /\ c \in pending \ due
  /\ due' = due \cup {c}
  /\ UNCHANGED <<pending, status, retries, caller, loopVars, handlerVars,
                 netVars, published, callbacks>>

\* A command is lost on its way to a device that is offline.
LoseCommand(d) ==
  /\ toDevice[d] # <<>>
  /\ toDevice' = [toDevice EXCEPT ![d] = Tail(@)]
  /\ UNCHANGED <<pending, status, retries, due, caller, loopVars, handlerVars,
                 fromDevice, applied, redelivered, published, callbacks>>

\* The device executes the command and reports success, or the report is lost.
\* QoS 1 allows the broker to deliver the same message once more.
Execute(d) ==
  /\ toDevice[d] # <<>>
  /\ LET c == Head(toDevice[d]) IN
       /\ applied' = [applied EXCEPT ![c] = @ + 1]
       /\ \/ fromDevice' = Append(fromDevice, [cmd |-> c, success |-> TRUE])
          \/ UNCHANGED fromDevice
  /\ \/ /\ toDevice' = [toDevice EXCEPT ![d] = Tail(@)]
        /\ UNCHANGED redelivered
     \/ /\ redelivered < MaxRedeliver
        /\ redelivered' = redelivered + 1
        /\ UNCHANGED toDevice
  /\ UNCHANGED <<pending, status, retries, due, caller, loopVars, handlerVars,
                 published, callbacks>>

\* The device cannot execute the command and reports the failure.
Refuse(d) ==
  /\ toDevice[d] # <<>>
  /\ toDevice' = [toDevice EXCEPT ![d] = Tail(@)]
  /\ fromDevice' = Append(fromDevice,
                          [cmd |-> Head(toDevice[d]), success |-> FALSE])
  /\ UNCHANGED <<pending, status, retries, due, caller, loopVars, handlerVars,
                 applied, redelivered, published, callbacks>>

Next ==
  \/ \E c \in Command :
       Register(c) \/ Publish(c) \/ PublishDone(c) \/ PublishFailed(c)
  \/ RetryLoop
  \/ Handler
  \/ \E c \in Command : Elapse(c)
  \/ \E d \in Device : LoseCommand(d) \/ Execute(d) \/ Refuse(d)

Spec == Init /\ [][Next]_vars

\* The scheduler runs every goroutine that is ready, tokens complete, the ticker
\* ticks and time passes.  Nothing is assumed of the callers, who may never issue
\* a command, nor of the broker and the devices, which may lose all of them.
Fairness ==
  /\ \A c \in Command :
       WF_vars(Publish(c)) /\ WF_vars(PublishDone(c) \/ PublishFailed(c))
  /\ \A c \in Command : WF_vars(Elapse(c))
  /\ WF_vars(RetryLoop)
  /\ WF_vars(Handler)

FairSpec == Spec /\ Fairness

-------------------------------------------------------------------------------
(* Correctness *)

\* Every variable has its type; the retry loop and the handler hold a command
\* exactly while they work on one.
TypeOK ==
  /\ pending \subseteq Command
  /\ status \in [Command -> CommandStatus]
  /\ retries \in [Command -> Nat]
  /\ due \subseteq Command
  /\ caller \in [Command -> {"idle", "send", "wait", "accepted", "rejected"}]
  /\ loopPc \in {"idle", "next", "inspect", "publish", "wait", "remove"}
  /\ todo \subseteq Command /\ overdue \subseteq Command
  /\ IF loopPc \in {"idle", "next"} THEN loopCmd = NoCommand
                                    ELSE loopCmd \in Command
  /\ handlerPc \in {"idle", "found", "remove"}
  /\ IF handlerPc = "idle" THEN report = <<>>
                           ELSE \E m \in Report : report = <<m>>
  /\ toDevice \in [Device -> Seq(Command)]
  /\ fromDevice \in Seq(Report)
  /\ applied \in [Command -> Nat]
  /\ published \in [Command -> Nat]
  /\ redelivered \in Nat
  /\ callbacks \in [Command -> [Callback -> Nat]]

Reports(c) == callbacks[c]["OnConfirm"] + callbacks[c]["OnError"]

\* However often a command is retried, redelivered or answered, the program acts
\* on one answer of the device and gives the command up at most once: repeated
\* status messages find the map without it (handleDeviceStatus).
ReportedOnce ==
  \A c \in Command : Reports(c) <= 1 /\ callbacks[c]["OnTimeout"] <= 1

\* OnConfirm runs only for a command the device has executed.
ConfirmedWasApplied ==
  \A c \in Command : callbacks[c]["OnConfirm"] > 0 => applied[c] > 0

\* A command reaches the broker at most 1 + MaxRetries times, and is given up
\* only after all of its retries.
RetriesBounded ==
  \A c \in Command :
    /\ published[c] <= 1 + MaxRetries
    /\ callbacks[c]["OnTimeout"] > 0 => retries[c] = MaxRetries

\* The strengthening under which the invariants above are inductive.
\* The handler has c in hand: between its lookup and its removal.
Handling(c) == handlerPc # "idle" /\ report[1].cmd = c

\* A command the handler may still find, or has just found, has no report; one
\* the retry loop may still find, or has just found, was not given up.
Unconcluded ==
  \A c \in Command :
    /\ \/ caller[c] = "idle"
       \/ c \in pending /\ ~(handlerPc = "remove" /\ Handling(c))
       \/ handlerPc = "found" /\ Handling(c)
       => Reports(c) = 0
    /\ \/ caller[c] = "idle"
       \/ c \in pending /\ ~(loopPc = "remove" /\ loopCmd = c)
       \/ loopPc = "inspect" /\ loopCmd = c
       => callbacks[c]["OnTimeout"] = 0

\* A command nobody has issued is not in the map; neither the retry loop nor the
\* handler knows it.
Unissued ==
  \A c \in Command : caller[c] = "idle" =>
    c \notin pending /\ c \notin todo /\ loopCmd # c /\ ~Handling(c)

\* Every publication is the first one or that of a retry already counted.
PublishedOncePerTry ==
  \A c \in Command :
    /\ published[c] + (IF loopPc = "publish" /\ loopCmd = c THEN 1 ELSE 0)
         + (IF caller[c] \in {"idle", "send"} THEN 1 ELSE 0) = 1 + retries[c]
    /\ retries[c] <= MaxRetries

\* Devices report success only for what they executed.
TrueReports ==
  /\ \A i \in 1..Len(fromDevice) :
       fromDevice[i].success => applied[fromDevice[i].cmd] > 0
  /\ handlerPc # "idle" /\ report[1].success => applied[report[1].cmd] > 0

IndInv ==
  /\ TypeOK /\ Unconcluded /\ Unissued /\ PublishedOncePerTry /\ TrueReports
  /\ ReportedOnce /\ ConfirmedWasApplied /\ RetriesBounded

\* A command SendReliableCommand accepted ends with one of its callbacks, even if
\* the device never answers and every retry fails.
AcceptedIsConcluded ==
  \A c \in Command :
    (caller[c] = "accepted")
      ~> (\E k \in Callback : callbacks[c][k] > 0)
===============================================================================
