------------------------------- MODULE RxPath -------------------------------
(***************************************************************************)
(* The asynchronous receive path: the DMA list of RxDmaList, the MAC       *)
(* interrupt, the SignalQueue that connects it to the task that calls      *)
(* AsyncReceive::receive, and the application that keeps the buffers it    *)
(* gets and drops them in any order.                                       *)
(***************************************************************************)
EXTENDS RxDmaList

CONSTANT
  CrossCore   \* does the receiving task run on another core than the interrupt?

ASSUME CrossCoreAssumption == CrossCore \in BOOLEAN

VARIABLES
  irq,        \* the rx cause bit: completions before a read collapse into one
  queued,     \* SignalQueue::queued_signals
  waker,      \* has the task registered its waker?
  malformed,  \* frames whose header is_rx_frame_valid rejects
  rcv,        \* where the task is in receive or clear_rx_queue
  cur,        \* the descriptor that receive holds
  loaded      \* the count that SignalQueue::next has loaded

rxVars == <<irq, queued, waker, malformed, rcv, cur, loaded>>
allVars == <<vars, rxVars>>

PathInit ==
  /\ Init
  /\ irq = FALSE
  /\ queued = 0
  /\ waker = FALSE
  /\ malformed = {}
  /\ rcv = "idle"
  /\ cur = Null
  /\ loaded = 0

-----------------------------------------------------------------------------
(* The radio. *)

FetchLink == HwFetchLink /\ UNCHANGED rxVars

(* A frame completes, good or malformed, and raises the rx cause. *)
Complete ==
  /\ HwReceive
  /\ irq' = TRUE
  /\ malformed' \in {malformed, malformed \cup {received'}}
  /\ UNCHANGED <<queued, waker, rcv, cur, loaded>>

-----------------------------------------------------------------------------
(* Mutant: the wake comes with the second signal, not the first. *)
MacHandlerLateWake ==
  /\ irq
  /\ rcv # "decide" \/ CrossCore
  /\ irq' = FALSE
  /\ queued' = queued + 1
  /\ IF queued = 1 /\ waker
       THEN /\ waker' = FALSE
            /\ rcv' = IF rcv = "pending" THEN "woken" ELSE rcv
       ELSE UNCHANGED <<waker, rcv>>
  /\ UNCHANGED <<vars, malformed, cur, loaded>>

(* mac_handler reads and clears the cause and puts one signal; the task is *)
(* woken only by the first of a series.  The lock in SignalQueue::next is  *)
(* made anew by every poll, so that it holds the interrupt off on its own  *)
(* core only.                                                              *)
MacHandler ==
  /\ irq
  /\ rcv # "decide" \/ CrossCore
  /\ irq' = FALSE
  /\ queued' = queued + 1
  /\ IF queued = 0 /\ waker
       THEN /\ waker' = FALSE
            /\ rcv' = IF rcv = "pending" THEN "woken" ELSE rcv
       ELSE UNCHANGED <<waker, rcv>>
  /\ UNCHANGED <<vars, malformed, cur, loaded>>

-----------------------------------------------------------------------------
(* receive: take a frame, or wait for a signal and try again. *)

StartReceive ==
  /\ rcv = "idle"
  /\ rcv' = "take"
  /\ UNCHANGED <<vars, irq, queued, waker, malformed, cur, loaded>>

(* take_first on an empty list returns at once. *)
ReceiveEmpty ==
  /\ rcv = "take"
  /\ pc = "idle"
  /\ head = Null
  /\ rcv' = "poll"
  /\ UNCHANGED <<vars, irq, queued, waker, malformed, cur, loaded>>

ReceiveTake ==
  /\ rcv = "take"
  /\ \/ TakeFirstIncomplete /\ rcv' = "taking" /\ UNCHANGED cur
     \/ TakeFirstUnlink /\ rcv' = "taking" /\ UNCHANGED cur
     \/ TakeFirstOnly /\ rcv' = "check" /\ cur' = head
  /\ UNCHANGED <<irq, queued, waker, malformed, loaded>>

ReceiveTook ==
  /\ rcv = "taking"
  /\ \/ RestartReturn /\ rcv' = "poll" /\ UNCHANGED cur
     \/ TakeFirstReturn /\ rcv' = "check" /\ cur' = taken
  /\ UNCHANGED <<irq, queued, waker, malformed, loaded>>

(* A valid frame goes to the caller, a malformed one back to the list. *)
ReceiveCheck ==
  /\ rcv = "check"
  /\ IF frame[cur] \in malformed
       THEN rcv' = "recycle" /\ UNCHANGED cur
       ELSE rcv' = "idle" /\ cur' = Null
  /\ UNCHANGED <<vars, irq, queued, waker, malformed, loaded>>

ReceiveRecycle ==
  /\ rcv = "recycle"
  /\ \/ RecycleAppend(cur) /\ rcv' = "recycling"
     \/ RecycleIntoEmpty(cur) /\ rcv' = "take"
  /\ cur' = Null
  /\ UNCHANGED <<irq, queued, waker, malformed, loaded>>

(* Mutant: after a malformed frame, wait instead of draining the list. *)
RecycledThenWait ==
  /\ rcv = "recycling"
  /\ RestartReturn
  /\ rcv' = "poll"
  /\ UNCHANGED <<irq, queued, waker, malformed, cur, loaded>>

ReceiveRecycled ==
  /\ rcv = "recycling"
  /\ RestartReturn
  /\ rcv' = "take"
  /\ UNCHANGED <<irq, queued, waker, malformed, cur, loaded>>

(* SignalQueue::next, in the two accesses of its poll. *)
PollLoad ==
  /\ rcv \in {"poll", "woken"}
  /\ loaded' = queued
  /\ rcv' = "decide"
  /\ UNCHANGED <<vars, irq, queued, waker, malformed, cur>>

PollRegister ==
  /\ rcv = "decide"
  /\ loaded = 0
  /\ waker' = TRUE
  /\ rcv' = "pending"
  /\ UNCHANGED <<vars, irq, queued, malformed, cur, loaded>>

(* Mutant: the count is decremented without looking at it. *)
ConsumeUnchecked ==
  /\ rcv = "decide"
  /\ queued' = loaded - 1
  /\ loaded' = 0
  /\ rcv' = "take"
  /\ UNCHANGED <<vars, irq, waker, malformed, cur>>

PollConsume ==
  /\ rcv = "decide"
  /\ loaded # 0
  /\ queued' = loaded - 1
  /\ loaded' = 0
  /\ rcv' = "take"
  /\ UNCHANGED <<vars, irq, waker, malformed, cur>>

(* The caller drops the future at its only await. *)
CancelReceive ==
  /\ rcv \in {"pending", "woken"}
  /\ rcv' = "idle"
  /\ UNCHANGED <<vars, irq, queued, waker, malformed, cur, loaded>>

-----------------------------------------------------------------------------
(* clear_rx_queue: clear the list, then the signals. *)

ClearQueueWalk ==
  /\ rcv = "idle"
  /\ ClearWalk
  /\ rcv' = "clearing"
  /\ UNCHANGED <<irq, queued, waker, malformed, cur, loaded>>

ClearQueueEmpty ==
  /\ rcv = "idle"
  /\ pc = "idle"
  /\ head = Null
  /\ rcv' = "reset"
  /\ UNCHANGED <<vars, irq, queued, waker, malformed, cur, loaded>>

ClearQueueReload ==
  /\ rcv = "clearing"
  /\ ClearReload
  /\ rcv' = "reset"
  /\ UNCHANGED <<irq, queued, waker, malformed, cur, loaded>>

ClearQueueSignals ==
  /\ rcv = "reset"
  /\ queued' = 0
  /\ rcv' = "idle"
  /\ UNCHANGED <<vars, irq, waker, malformed, cur, loaded>>

(* set_rx_status borrows the receiver, like receive and clear_rx_queue. *)
PauseResume ==
  /\ rcv = "idle"
  /\ \E enabled \in BOOLEAN : SetRxStatus(enabled)
  /\ UNCHANGED rxVars

-----------------------------------------------------------------------------
(* BorrowedBuffer::drop: any task returns any buffer it was given. *)

DropBuffer(d) ==
  /\ d # cur
  /\ RecycleAppend(d) \/ RecycleIntoEmpty(d)
  /\ UNCHANGED rxVars

DropReturn ==
  /\ rcv \notin {"taking", "recycling"}
  /\ RestartReturn
  /\ UNCHANGED rxVars

-----------------------------------------------------------------------------
(* The steps of the receiving task. *)
ReceiverStep ==
  \/ ReceiveEmpty
  \/ ReceiveTake
  \/ ReceiveTook
  \/ ReceiveCheck
  \/ ReceiveRecycle
  \/ ReceiveRecycled
  \/ PollLoad
  \/ PollRegister
  \/ PollConsume
  \/ ClearQueueReload
  \/ ClearQueueSignals

PathNext ==
  \/ FetchLink
  \/ Complete
  \/ MacHandler
  \/ StartReceive
  \/ ReceiverStep
  \/ CancelReceive
  \/ ClearQueueWalk
  \/ ClearQueueEmpty
  \/ PauseResume
  \/ \E d \in Desc : DropBuffer(d)
  \/ DropReturn

(* Interrupts are served, the executor polls a task that was woken, the    *)
(* holder of the list mutex goes on, the application keeps calling receive *)
(* and drops what it received.  The radio owes nothing.                    *)
Fairness ==
  /\ WF_allVars(MacHandler)
  /\ WF_allVars(ReceiverStep)
  /\ WF_allVars(DropReturn)
  /\ SF_allVars(StartReceive)
  /\ \A d \in Desc : SF_allVars(DropBuffer(d))

PathSpec == PathInit /\ [][PathNext]_allVars /\ Fairness

-----------------------------------------------------------------------------
(* Every variable has its type. *)
PathTypeOK ==
  /\ TypeOK
  /\ irq \in BOOLEAN
  /\ queued \in 0..MaxFrames
  /\ waker \in BOOLEAN
  /\ malformed \subseteq 1..MaxFrames
  /\ rcv \in {"idle", "take", "taking", "check", "recycle", "recycling", "poll",
              "decide", "pending", "woken", "clearing", "reset"}
  /\ cur \in Desc \cup {Null}
  /\ loaded \in 0..MaxFrames

(* A task that sleeps in SignalQueue::next has not been told of fewer      *)
(* frames than there are: if a completed frame waits at the head of the    *)
(* list, the interrupt that will wake the task is still pending, and the   *)
(* waker it will use is registered.                                        *)
NoLostWakeup ==
  rcv = "pending" => /\ waker
                     /\ queued = 0
                     /\ pc = "idle" /\ head # Null /\ eof[head] => irq

(* Every completed frame leaves the list: the caller gets it, or it was    *)
(* malformed or cleared.  It is never stranded behind another one, nor by  *)
(* completions that share an interrupt, nor by an abandoned receive.       *)
FramesLeaveTheList ==
  \A n \in 1..MaxFrames : (received >= n) ~> (Consumed >= n)

(* The engine never stays without a buffer: exhausting the list, even with *)
(* a null link cached before a buffer was appended, is always repaired.    *)
EngineRecovers == []<>(hwNext # Null)
=============================================================================
