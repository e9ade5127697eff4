------------------------------ MODULE TxSlots ------------------------------
(***************************************************************************)
(* The asynchronous transmit path: the hardware transmit slots, the MAC    *)
(* interrupt that reports how a slot ended, the HardwareTxResultSignal of  *)
(* each slot, and on each slot a task that calls transmit or               *)
(* transmit_oneshot and may drop the future while it waits.                *)
(***************************************************************************)
EXTENDS Integers, FiniteSetsExt

CONSTANTS
  Slots,      \* the transmit slots in use, of the five
  Attempts,   \* lengths of the rate iterator the callers ask for
  CwRanges,   \* the contention_window_exponent_ranges they ask for
  CallerRetry,  \* the Retry flags of the frames they bring
  SeqLimit,   \* bound: how often they have the driver number a frame
  PowerControlAt,  \* the count at which power control runs: 4 in the code
  CrossCore   \* do the tasks run on another core than the interrupt?

ASSUME TxConstants ==
  /\ Slots \subseteq 0..4
  /\ Attempts \subseteq Nat
  /\ CwRanges \subseteq (0..31) \X (0..31)
  /\ CallerRetry \subseteq BOOLEAN
  /\ SeqLimit \in 0..4095
  /\ PowerControlAt \in Nat
  /\ CrossCore \in BOOLEAN

Kinds == {"success", "timeout", "collision"}
MacResults == {"ok", "MacProtocol"}
PENDING_OR_INACTIVE == "pending_or_inactive"
NoWindow == -1     \* no EdcaContentionState
NoRange == <<0, 0>>
CallersNumber == -1   \* a sequence number that the driver has not chosen

VARIABLES
  used,       \* hardware: slots that setup_tx has written, until tx_done
  enabled,    \* hardware: slots whose PLCP0 is valid and enabled
  inFlight,   \* hardware: slots whose transmission has not ended
  status,     \* hardware: per kind, the status bits of the slots
  cause,      \* hardware: the interrupt cause register
  pmd,        \* hardware: per slot, the MAC protocol result
  isr,        \* the interrupt handler: phase, causes and slots left, kind
  signal,     \* per slot, the state of its HardwareTxResultSignal
  waker,      \* slots whose signal has a registered waker
  task,       \* per slot, where its task is
  loaded,     \* per slot, the state that wait() has loaded
  left,       \* per slot, the attempts not yet started
  oneshot,    \* slots used by transmit_oneshot
  last,       \* per slot, last_res
  cw,         \* per slot, EdcaContentionState::current_cw
  range,      \* per slot, its contention_window_exponent_range
  retryBit,   \* per slot, the Retry flag in the frame's header
  number,     \* per slot, the sequence number in the frame's header
  seqNum,     \* CURRENT_SEQUENCE_NUMBER
  frames,     \* FRAMES_SINCE_LAST_TXPWR_CTRL
  peer,       \* per slot, the sequence number its receiver has heard last
  asked,      \* history, slots whose frame came with the Retry flag set
  failed,     \* history, per slot: attempts of this call the MAC failed
  delivered,  \* history, per slot: how often its receiver took a frame
              \* that the driver has numbered
  onAir       \* history, per slot: how the attempt started last ended

hwVars == <<used, enabled, inFlight, status, cause, pmd>>
airVars == <<peer, failed, delivered, onAir>>
callVars == <<left, oneshot, last, cw, range>>
frameVars == <<retryBit, number, asked>>
taskVars == <<callVars, frameVars, seqNum, frames>>
vars == <<hwVars, airVars, isr, signal, waker, task, loaded, taskVars>>

NoIsr == [phase |-> "none", causes |-> {}, kind |-> "success", slots |-> {}]

Init ==
  /\ used = {}
  /\ enabled = {}
  /\ inFlight = {}
  /\ status = [k \in Kinds |-> {}]
  /\ cause = {}
  /\ pmd = [s \in Slots |-> "ok"]
  /\ isr = NoIsr
  /\ signal = [s \in Slots |-> PENDING_OR_INACTIVE]
  /\ waker = {}
  /\ task = [s \in Slots |-> "idle"]
  /\ loaded = [s \in Slots |-> PENDING_OR_INACTIVE]
  /\ left = [s \in Slots |-> 0]
  /\ oneshot = {}
  /\ last = [s \in Slots |-> "none"]
  /\ cw = [s \in Slots |-> NoWindow]
  /\ range = [s \in Slots |-> NoRange]
  /\ retryBit = [s \in Slots |-> FALSE]
  /\ number = [s \in Slots |-> CallersNumber]
  /\ seqNum = 0
  /\ frames = 0
  /\ peer = [s \in Slots |-> CallersNumber]
  /\ asked = {}
  /\ failed = [s \in Slots |-> 0]
  /\ delivered = [s \in Slots |-> 0]
  /\ onAir = [s \in Slots |-> "none"]

-----------------------------------------------------------------------------
(* The radio. *)

(* The receiver of the slot's frames hears this one.  It drops a frame as  *)
(* a duplicate when the Retry flag is set and the number is the last it    *)
(* has heard.  The frames that the driver has numbered are counted.        *)
Hears(s) ==
  /\ peer' = [peer EXCEPT ![s] = number[s]]
  /\ delivered' = [delivered EXCEPT ![s] =
                     IF \/ number[s] = CallersNumber
                        \/ retryBit[s] /\ peer[s] = number[s]
                     THEN @ ELSE @ + 1]

(* A transmission ends and raises the matching cause.  One that the MAC    *)
(* fails may have been heard: perhaps only its ACK was lost.               *)
HwEnd(s, kind) ==
  /\ s \in inFlight
  /\ inFlight' = inFlight \ {s}
  /\ status' = [status EXCEPT ![kind] = @ \cup {s}]
  /\ cause' = cause \cup {kind}
  /\ \/ /\ kind # "success"
        /\ onAir' = [onAir EXCEPT ![s] = kind]
        /\ UNCHANGED <<pmd, failed, peer, delivered>>
     \/ /\ kind = "success"
        /\ \E r \in MacResults :
             /\ pmd' = [pmd EXCEPT ![s] = r]
             /\ onAir' = [onAir EXCEPT ![s] = r]
             /\ failed' = [failed EXCEPT ![s] = IF r = "ok" THEN @ ELSE @ + 1]
             /\ Hears(s) \/ (r # "ok" /\ UNCHANGED <<peer, delivered>>)
  /\ UNCHANGED <<used, enabled, isr, signal, waker, task, loaded, taskVars>>

(* A slot is marked as done although it is not used at all.  Marking it    *)
(* again before its signal is reset would only repeat the interrupt.       *)
HwMark(s) ==
  /\ s \notin used
  /\ s \notin status["success"]
  /\ signal[s] # "success"
  /\ status' = [status EXCEPT !["success"] = @ \cup {s}]
  /\ cause' = cause \cup {"success"}
  /\ UNCHANGED <<used, enabled, inFlight, pmd, airVars, isr, signal, waker, task,
                 loaded, taskVars>>

(* Disabling a slot stops what it was sending. *)
DisableSlot(s) ==
  /\ enabled' = enabled \ {s}
  /\ inFlight' = inFlight \ {s}

-----------------------------------------------------------------------------
(* mac_handler.  On one core it runs to its end before a task goes on, and *)
(* it cannot start inside the lock of wait().                              *)

IsrEnter ==
  /\ isr.phase = "none"
  /\ cause # {}
  /\ CrossCore \/ \A s \in Slots : task[s] # "decide"
  /\ isr' = [isr EXCEPT !.phase = "scan", !.causes = cause]
  /\ cause' = {}
  /\ UNCHANGED <<used, enabled, inFlight, status, pmd, airVars, signal, waker, task,
                 loaded, taskVars>>

(* Mutant: of the slots that ended, only one is seen. *)
OneStatusBit(kind) == {s \in status[kind] : s = Max(status[kind])}

(* raw_tx_status: the slots whose status bit of this kind is set. *)
TxStatus(kind) == status[kind]

(* process_tx_status looks at one kind after the other, in this order. *)
IsrScan ==
  /\ isr.phase = "scan"
  /\ isr.causes # {}
  /\ LET kind == CASE "success" \in isr.causes -> "success"
                   [] "success" \notin isr.causes /\ "timeout" \in isr.causes -> "timeout"
                   [] isr.causes = {"collision"} -> "collision"
     IN isr' = [phase |-> IF TxStatus(kind) = {} THEN "scan" ELSE "signal",
                causes |-> isr.causes \ {kind},
                kind |-> kind,
                slots |-> TxStatus(kind)]
  /\ UNCHANGED <<hwVars, airVars, signal, waker, task, loaded, taskVars>>

IsrExit ==
  /\ isr.phase = "scan"
  /\ isr.causes = {}
  /\ isr' = NoIsr
  /\ UNCHANGED <<hwVars, airVars, signal, waker, task, loaded, taskVars>>

(* Bit i stands for slot 4 - i, so the highest slot comes first. *)
IsrSlot == Max(isr.slots)

IsrSignal ==
  /\ isr.phase = "signal"
  /\ signal' = [signal EXCEPT ![IsrSlot] = isr.kind]
  /\ waker' = waker \ {IsrSlot}
  /\ task' = IF IsrSlot \in waker /\ task[IsrSlot] = "pending"
               THEN [task EXCEPT ![IsrSlot] = "woken"] ELSE task
  /\ isr' = [isr EXCEPT !.phase = IF isr.kind = "success" THEN "clear" ELSE "disable"]
  /\ UNCHANGED <<hwVars, airVars, loaded, taskVars>>

(* After an error the handler itself disables the slot. *)
IsrDisable ==
  /\ isr.phase = "disable"
  /\ DisableSlot(IsrSlot)
  /\ isr' = [isr EXCEPT !.phase = "clear"]
  /\ UNCHANGED <<used, status, cause, pmd, airVars, signal, waker, task, loaded,
                 taskVars>>

(* Mutant: the status bit stays set. *)
IsrClearKeepsBit ==
  /\ isr.phase = "clear"
  /\ UNCHANGED status
  /\ isr' = [isr EXCEPT !.slots = @ \ {IsrSlot},
                        !.phase = IF isr.slots = {IsrSlot} THEN "scan" ELSE "signal"]
  /\ UNCHANGED <<used, enabled, inFlight, cause, pmd, airVars, signal, waker, task,
                 loaded, taskVars>>

IsrClear ==
  /\ isr.phase = "clear"
  /\ status' = [status EXCEPT ![isr.kind] = @ \ {IsrSlot}]
  /\ isr' = [isr EXCEPT !.slots = @ \ {IsrSlot},
                        !.phase = IF isr.slots = {IsrSlot} THEN "scan" ELSE "signal"]
  /\ UNCHANGED <<used, enabled, inFlight, cause, pmd, airVars, signal, waker, task,
                 loaded, taskVars>>

Isr == IsrEnter \/ IsrScan \/ IsrExit \/ IsrSignal \/ IsrDisable \/ IsrClear

-----------------------------------------------------------------------------
(* The tasks. *)

(* On one core a pending interrupt is served before a task goes on. *)
TaskRuns == CrossCore \/ (cause = {} /\ isr.phase = "none")

(* Slot 0 is the Beacon queue, the others are EDCA functions. *)
Edcaf(s) == s # 0

(* EdcaContentionState::new: an empty range gives no state, and neither    *)
(* does the Beacon queue.  Backoff is then one slot.                       *)
NewContentionWindow(s, rg) ==
  IF Edcaf(s) /\ rg[1] <= rg[2] THEN 2^rg[1] - 1 ELSE NoWindow

AdvanceContentionWindow(w, rg) ==
  IF w = NoWindow THEN NoWindow ELSE Min({2 * w + 1, 2^rg[2] - 1})

(* What a caller brings: whether the frame has a duration field ("short"   *)
(* has not) and a sequence number field, which key it wants, and the rest. *)
Requests ==
  [size : {"short", "noSequence", "whole"}, override : BOOLEAN,
   key : {"none", "outOfBounds", "disabled", "enabled"},
   interface : {"valid", "outOfBounds"}, retry : CallerRetry, range : CwRanges]

(* prepare_frame_for_tx takes a number before it looks for the field to    *)
(* put it in, for the key and for the interface, so that a call it refuses *)
(* may have used one up.                                                   *)
Prepare(q) ==
  LET numbered == q.size # "short" /\ q.override
  IN [numbered |-> numbered,
      accepted |-> /\ q.size # "short"
                   /\ numbered => q.size = "whole"
                   /\ q.key \in {"none", "enabled"}
                   /\ q.interface = "valid",
      retry |-> q.retry,
      range |-> q.range]

Prepared == {Prepare(q) : q \in Requests}

(* transmit_oneshot, unlike transmit, insists on a contention window. *)
Accepts(s, single, p) ==
  /\ p.accepted
  /\ single /\ Edcaf(s) => NewContentionWindow(s, p.range) # NoWindow

(* CURRENT_SEQUENCE_NUMBER is a u16, of which twelve bits go in the frame. *)
TakeNumber(p) ==
  /\ p.numbered => seqNum < SeqLimit
  /\ seqNum' = IF p.numbered THEN (seqNum + 1) % 65536 ELSE seqNum

(* A call that is accepted.  The frame's Retry flag is the caller's, who   *)
(* may also bring a frame back that a cancelled call has left marked.      *)
Call(s, n, single, p) ==
  /\ TaskRuns
  /\ task[s] = "idle"
  /\ Accepts(s, single, p)
  /\ TakeNumber(p)
  /\ oneshot' = IF single THEN oneshot \cup {s} ELSE oneshot
  /\ left' = [left EXCEPT ![s] = n]
  /\ last' = [last EXCEPT ![s] = "ok"]
  /\ range' = [range EXCEPT ![s] = p.range]
  /\ cw' = [cw EXCEPT ![s] = NewContentionWindow(s, p.range)]
  /\ retryBit' = [retryBit EXCEPT ![s] = p.retry]
  /\ number' = [number EXCEPT ![s] = IF p.numbered THEN seqNum % 4096 ELSE CallersNumber]
  /\ asked' = IF p.retry THEN asked \cup {s} ELSE asked \ {s}
  /\ delivered' = [delivered EXCEPT ![s] = 0]
  /\ onAir' = [onAir EXCEPT ![s] = "none"]
  /\ task' = [task EXCEPT ![s] = "next"]
  /\ UNCHANGED <<hwVars, isr, signal, waker, loaded, frames, peer, failed>>

(* A call that is refused: transmit returns without touching the slot,     *)
(* transmit_oneshot still runs the drop guard when its future is polled or *)
(* dropped.                                                                *)
CallRefused(s, single, p) ==
  /\ TaskRuns
  /\ task[s] = "idle"
  /\ ~Accepts(s, single, p)
  /\ TakeNumber(p)
  /\ last' = [last EXCEPT ![s] = "refused"]
  /\ delivered' = [delivered EXCEPT ![s] = 0]
  /\ onAir' = [onAir EXCEPT ![s] = "none"]
  /\ task' = [task EXCEPT ![s] = IF single THEN "guard" ELSE "idle"]
  /\ UNCHANGED <<hwVars, isr, signal, waker, loaded, left, oneshot, cw, range, frameVars,
                 frames, peer, failed>>

(* The local variables of the call go out of scope. *)
EndCall(s) ==
  /\ left' = [left EXCEPT ![s] = 0]
  /\ oneshot' = oneshot \ {s}
  /\ cw' = [cw EXCEPT ![s] = NoWindow]
  /\ range' = [range EXCEPT ![s] = NoRange]
  /\ failed' = [failed EXCEPT ![s] = 0]

(* Mutant: the attempts are not counted. *)
SetupNotCounted(s) ==
  /\ TaskRuns
  /\ task[s] = "next"
  /\ left[s] > 0
  /\ used' = used \cup {s}
  /\ task' = [task EXCEPT ![s] = "setup"]
  /\ UNCHANGED <<enabled, inFlight, status, cause, pmd, airVars, isr, signal, waker,
                 loaded, taskVars>>

(* The head of the attempt loop: write the slot's registers for the next   *)
(* attempt, or leave the loop and take the Retry flag back.                *)
SetupTx(s) ==
  /\ TaskRuns
  /\ task[s] = "next"
  /\ left[s] > 0
  /\ left' = [left EXCEPT ![s] = @ - 1]
  /\ used' = used \cup {s}
  /\ task' = [task EXCEPT ![s] = "setup"]
  /\ UNCHANGED <<enabled, inFlight, status, cause, pmd, airVars, isr, signal, waker,
                 loaded, oneshot, last, cw, range, frameVars, seqNum, frames>>

Return(s) ==
  /\ TaskRuns
  /\ task[s] = "next"
  /\ left[s] = 0
  /\ retryBit' = [retryBit EXCEPT ![s] = s \in oneshot /\ @]
  /\ task' = [task EXCEPT ![s] = "idle"]
  /\ EndCall(s)
  /\ UNCHANGED <<hwVars, isr, signal, waker, loaded, last, number, asked, seqNum, frames,
                 peer, delivered, onAir>>

(* Mutant: the signal is not reset. *)
NoResetBeforeStart(s) ==
  /\ TaskRuns
  /\ task[s] = "setup"
  /\ task' = [task EXCEPT ![s] = "start"]
  /\ UNCHANGED <<hwVars, airVars, isr, signal, waker, loaded, taskVars>>

(* The slot may have been marked as done while nobody used it. *)
ResetBeforeStart(s) ==
  /\ TaskRuns
  /\ task[s] = "setup"
  /\ signal' = [signal EXCEPT ![s] = PENDING_OR_INACTIVE]
  /\ task' = [task EXCEPT ![s] = "start"]
  /\ UNCHANGED <<hwVars, airVars, isr, waker, loaded, taskVars>>

StartTxQueue(s) ==
  /\ TaskRuns
  /\ task[s] = "start"
  /\ enabled' = enabled \cup {s}
  /\ inFlight' = inFlight \cup {s}
  /\ onAir' = [onAir EXCEPT ![s] = "none"]
  /\ task' = [task EXCEPT ![s] = "poll"]
  /\ UNCHANGED <<used, status, cause, pmd, peer, failed, delivered, isr, signal, waker,
                 loaded, taskVars>>

(* wait(), in the two accesses of its poll. *)
WaitLoad(s) ==
  /\ TaskRuns
  /\ task[s] \in {"poll", "woken"}
  /\ loaded' = [loaded EXCEPT ![s] = signal[s]]
  /\ task' = [task EXCEPT ![s] = "decide"]
  /\ UNCHANGED <<hwVars, airVars, isr, signal, waker, taskVars>>

(* Mutant: the waker is not registered. *)
WaitWithoutWaker(s) ==
  /\ task[s] = "decide"
  /\ loaded[s] = PENDING_OR_INACTIVE
  /\ task' = [task EXCEPT ![s] = "pending"]
  /\ UNCHANGED <<hwVars, airVars, isr, signal, waker, loaded, taskVars>>

WaitRegister(s) ==
  /\ task[s] = "decide"
  /\ loaded[s] = PENDING_OR_INACTIVE
  /\ waker' = waker \cup {s}
  /\ task' = [task EXCEPT ![s] = "pending"]
  /\ UNCHANGED <<hwVars, airVars, isr, signal, loaded, taskVars>>

(* Mutant: the count of frames is not reset. *)
FramesNotReset == frames + 1

(* A success counts towards power control: the counter is compared before  *)
(* the increment.                                                          *)
CountFrame == IF frames = PowerControlAt THEN 0 ELSE frames + 1

(* The result is in. *)
WaitReady(s) ==
  /\ task[s] = "decide"
  /\ loaded[s] # PENDING_OR_INACTIVE
  /\ signal' = [signal EXCEPT ![s] = PENDING_OR_INACTIVE]
  /\ loaded' = [loaded EXCEPT ![s] = PENDING_OR_INACTIVE]
  /\ last' = [last EXCEPT ![s] = loaded[s]]
  /\ frames' = IF loaded[s] = "success" THEN CountFrame ELSE frames
  /\ task' = [task EXCEPT ![s] = "guard"]
  /\ UNCHANGED <<hwVars, airVars, isr, waker, left, oneshot, cw, range, frameVars, seqNum>>

(* Mutant: the drop guard does not run. *)
CancelDefused(s) ==
  /\ TaskRuns
  /\ task[s] \in {"pending", "woken"} \/ (task[s] = "poll" /\ s \in oneshot)
  /\ last' = [last EXCEPT ![s] = "cancelled"]
  /\ task' = [task EXCEPT ![s] = "idle"]
  /\ UNCHANGED <<hwVars, airVars, isr, signal, waker, loaded, left, oneshot, cw, range,
                 frameVars, seqNum, frames>>

(* The future is dropped at its await, or, returned by transmit_oneshot    *)
(* with the slot already started, before its first poll.  The guard runs,  *)
(* the loop does not go on and the Retry flag stays as it is.              *)
Cancel(s) ==
  /\ TaskRuns
  /\ task[s] \in {"pending", "woken"} \/ (task[s] = "poll" /\ s \in oneshot)
  /\ last' = [last EXCEPT ![s] = "cancelled"]
  /\ task' = [task EXCEPT ![s] = "guard"]
  /\ UNCHANGED <<hwVars, airVars, isr, signal, waker, loaded, left, oneshot, cw, range,
                 frameVars, seqNum, frames>>

(* The drop guard: tx_done disables the slot and empties it, then the      *)
(* signal is reset.                                                        *)
TxDone(s) ==
  /\ TaskRuns
  /\ task[s] = "guard"
  /\ DisableSlot(s)
  /\ used' = used \ {s}
  /\ task' = [task EXCEPT ![s] = "unguard"]
  /\ UNCHANGED <<status, cause, pmd, airVars, isr, signal, waker, loaded, taskVars>>

ResetSignal(s) ==
  /\ TaskRuns
  /\ task[s] = "unguard"
  /\ signal' = [signal EXCEPT ![s] = PENDING_OR_INACTIVE]
  /\ \/ /\ last[s] \in {"cancelled", "refused"}
        /\ task' = [task EXCEPT ![s] = "idle"]
        /\ EndCall(s)
     \/ /\ last[s] \in Kinds
        /\ task' = [task EXCEPT ![s] = "result"]
        /\ UNCHANGED <<left, oneshot, cw, range, failed>>
  /\ UNCHANGED <<hwVars, isr, waker, loaded, last, frameVars, seqNum, frames, peer,
                 delivered, onAir>>

(* Mutants: PMD is not read, or that of another slot is. *)
OutcomeWithoutPmd(s) == IF last[s] = "success" THEN "ok" ELSE last[s]
OutcomeOfFirstSlot(s) == IF last[s] = "success" THEN pmd[Min(Slots)] ELSE last[s]

(* What the attempt came to: a success is looked up in PMD. *)
Outcome(s) == IF last[s] = "success" THEN pmd[s] ELSE last[s]

(* Mutants: every failure marks the frame, or none does. *)
MarkAfterAnyFailure(s, r) == s \notin oneshot /\ r # "ok"

(* A MAC failure, and no channel-access failure, marks the frame. *)
MarksRetry(s, r) == s \notin oneshot /\ r \in MacResults \ {"ok"}

(* The rest of the attempt loop.  A MAC failure also widens the contention *)
(* window.  Only Ok leaves the loop early.                                 *)
AttemptResult(s) ==
  /\ TaskRuns
  /\ task[s] = "result"
  /\ LET r == Outcome(s)
     IN /\ last' = [last EXCEPT ![s] = r]
        /\ left' = [left EXCEPT ![s] = IF r = "ok" THEN 0 ELSE @]
        /\ retryBit' = [retryBit EXCEPT ![s] = @ \/ MarksRetry(s, r)]
        /\ cw' = [cw EXCEPT ![s] = IF s \notin oneshot /\ r \in MacResults \ {"ok"}
                                     THEN AdvanceContentionWindow(@, range[s]) ELSE @]
  /\ task' = [task EXCEPT ![s] = "next"]
  /\ UNCHANGED <<hwVars, airVars, isr, signal, waker, loaded, oneshot, range, number, asked,
                 seqNum, frames>>

TaskStep(s) ==
  \/ SetupTx(s)
  \/ ResetBeforeStart(s)
  \/ Return(s)
  \/ StartTxQueue(s)
  \/ WaitLoad(s)
  \/ WaitRegister(s)
  \/ WaitReady(s)
  \/ TxDone(s)
  \/ ResetSignal(s)
  \/ AttemptResult(s)

-----------------------------------------------------------------------------
Next ==
  \/ \E s \in Slots, kind \in Kinds : HwEnd(s, kind)
  \/ Isr
  \/ \E s \in Slots : HwMark(s)
  \/ \E s \in Slots, n \in Attempts, p \in Prepared : Call(s, n, FALSE, p)
  \/ \E s \in Slots, p \in Prepared : Call(s, 1, TRUE, p)
  \/ \E s \in Slots, single \in BOOLEAN, p \in Prepared : CallRefused(s, single, p)
  \/ \E s \in Slots : Cancel(s)
  \/ \E s \in Slots : TaskStep(s)

(* The hardware ends what it started (it has a medium access timeout),     *)
(* interrupts are served and every woken task is polled.  Nobody has to    *)
(* call or to cancel.                                                      *)
Fairness ==
  /\ WF_vars(Isr)
  /\ \A s \in Slots : /\ WF_vars(TaskStep(s))
                      /\ WF_vars(\E kind \in Kinds : HwEnd(s, kind))

Spec == Init /\ [][Next]_vars /\ Fairness

-----------------------------------------------------------------------------
(* Every variable has its type. *)
TypeOK ==
  /\ used \subseteq Slots
  /\ enabled \subseteq used
  /\ inFlight \subseteq enabled
  /\ status \in [Kinds -> SUBSET Slots]
  /\ cause \subseteq Kinds
  /\ pmd \in [Slots -> MacResults]
  /\ isr \in [phase : {"none", "scan", "signal", "disable", "clear"},
              causes : SUBSET Kinds, kind : Kinds, slots : SUBSET Slots]
  /\ signal \in [Slots -> Kinds \cup {PENDING_OR_INACTIVE}]
  /\ waker \subseteq Slots
  /\ task \in [Slots -> {"idle", "next", "setup", "start", "poll", "decide",
                         "pending", "woken", "guard", "unguard", "result"}]
  /\ loaded \in [Slots -> Kinds \cup {PENDING_OR_INACTIVE}]
  /\ left \in [Slots -> Nat]
  /\ oneshot \subseteq Slots
  /\ last \in [Slots -> MacResults \cup Kinds \cup {"none", "refused", "cancelled"}]
  /\ cw \in [Slots -> Nat \cup {NoWindow}]
  /\ range \in [Slots -> CwRanges \cup {NoRange}]
  /\ retryBit \in [Slots -> BOOLEAN]
  /\ number \in [Slots -> (0..4095) \cup {CallersNumber}]
  /\ seqNum \in 0..SeqLimit
  /\ frames \in 0..PowerControlAt
  /\ peer \in [Slots -> (0..4095) \cup {CallersNumber}]
  /\ asked \subseteq Slots
  /\ failed \in [Slots -> Nat]
  /\ delivered \in [Slots -> Nat]
  /\ onAir \in [Slots -> MacResults \cup Kinds \cup {"none"}]

(* A transmission in flight has no result yet: neither its signal nor a    *)
(* status bit still carries the end of an earlier, cancelled or failed     *)
(* attempt, or a mark the slot got while it was not used, which wait()     *)
(* would take for its own.                                                 *)
NoStaleResult ==
  \A s \in inFlight :
    /\ signal[s] = PENDING_OR_INACTIVE
    /\ \A k \in Kinds : s \notin status[k]

(* Once the future is gone, finished or dropped, the hardware no longer    *)
(* reads the caller's frame.                                               *)
BufferReleased == \A s \in enabled : task[s] # "idle"

(* A call that reports Ok has had its last attempt acknowledged on the     *)
(* air, and a call that reports a failure has not.                         *)
ResultIsTrue ==
  \A s \in Slots :
    task[s] = "idle" /\ last[s] \notin {"none", "cancelled", "refused"}
      => onAir[s] = last[s]

(* The frame on the air carries the Retry flag exactly when its caller has *)
(* set it or the MAC has failed an earlier attempt of the same call,       *)
(* however many channel-access failures came in between; and the           *)
(* contention window, on a queue that has one, has doubled once for each   *)
(* of those failures, up to its limit.                                     *)
RetriesMarked ==
  \A s \in inFlight :
    /\ retryBit[s] <=> s \in asked \/ failed[s] > 0
    /\ cw[s] = IF s = 0 \/ range[s][1] > range[s][2] THEN NoWindow
               ELSE 2^Min({range[s][1] + failed[s], range[s][2]}) - 1


(* The interrupt that will signal that slot s ended as k is pending, or    *)
(* the handler is running and has yet to scan that kind or serve the slot. *)
WillSignal(s, k) ==
  /\ s \in status[k]
  /\ \/ k \in cause
     \/ /\ isr.phase # "none"
        /\ k \in isr.causes \/ (k = isr.kind /\ s \in isr.slots)

(* A task that sleeps in wait() will be woken: its slot is in flight, or   *)
(* the interrupt that reports its end is still to come.                    *)
NoLostWakeup ==
  \A s \in Slots :
    task[s] = "pending" =>
      /\ s \in waker
      /\ s \in inFlight \/ \E k \in Kinds : WillSignal(s, k)

(* Every call ends. *)
TransmitEnds == \A s \in Slots : task[s] # "idle" ~> task[s] = "idle"

(* Background power control runs every four transmissions: it has run      *)
(* since the fourth last one.                                              *)
PowerControlEveryFour == frames < 4
=============================================================================
