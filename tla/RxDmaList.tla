----------------------------- MODULE RxDmaList -----------------------------
(***************************************************************************)
(* The receive DMA list of the ESP32-C3 and ESP32-S3 driver                *)
(* (esp-wifi-hal/src/dma_list.rs) together with the DMA engine that shares *)
(* its descriptors.  The list mutex keeps list operations apart from each  *)
(* other; nothing keeps the DMA engine apart from them.  An operation is   *)
(* therefore split where the engine can get between two of its accesses.   *)
(***************************************************************************)
EXTENDS Integers

CONSTANTS
  BufferCount,          \* BUFFER_COUNT of WiFiResources
  MaxFrames,            \* bound: how many frames the radio receives
  ClearWhileReceiving   \* may clear() run while the receiver is enabled?

ASSUME ConstantsAssumption ==
  /\ BufferCount \in Nat
  /\ BufferCount >= 2
  /\ MaxFrames \in Nat
  /\ ClearWhileReceiving \in BOOLEAN

Desc == 1..BufferCount
Null == 0
Unfetched == -1

VARIABLES
  next,       \* DmaDescriptor::next
  eof,        \* the suc_eof flag: a frame is complete in this buffer
  owner,      \* the owner flag
  frame,      \* number of the frame in the buffer, 0 for a reset descriptor
  head,       \* rx_chain_ptrs.0, Null when rx_chain_ptrs is None
  tail,       \* rx_chain_ptrs.1, likewise
  pc,         \* the step the list operation in progress is at
  taken,      \* the descriptor take_first is unlinking
  hwNext,     \* the NEXT register: where the engine puts the next frame
  hwLink,     \* the link the engine has cached from that descriptor
  rxEnabled,  \* the rx_enable bit
  received,   \* number of frames the engine has completed
  out         \* the frame take_first returned last

listVars == <<head, tail, pc, taken>>
hwVars == <<hwNext, hwLink>>
vars == <<next, eof, owner, frame, head, tail, pc, taken, hwNext, hwLink,
          rxEnabled, received, out>>

-----------------------------------------------------------------------------
(* Register operations of the low-level driver. *)

(* Writing BASE and reloading leaves the engine at that descriptor, with   *)
(* nothing cached.                                                         *)
SetBaseRxDescriptor(d) ==
  /\ hwNext' = d
  /\ hwLink' = Unfetched

ClearBaseRxDescriptor ==
  /\ hwNext' = Null
  /\ hwLink' = Unfetched

-----------------------------------------------------------------------------
(* Loops over the chain.  Both loops of the list, the search for a restart *)
(* point and the walk of clear(), pass over the run of completed           *)
(* descriptors that starts at the head; the run is the least set closed    *)
(* under one more iteration.                                               *)

ClosedUnderWalk(S) ==
  /\ (head # Null /\ eof[head]) => head \in S
  /\ \A d \in S : (next[d] # Null /\ eof[next[d]]) => next[d] \in S

CompletedRun ==
  {d \in Desc : \A S \in SUBSET Desc : ClosedUnderWalk(S) => d \in S}

(* The descriptor at which the restart loop stops: none or one. *)
FirstIncomplete ==
  {d \in Desc : /\ ~eof[d]
                /\ d = head \/ \E p \in CompletedRun : next[p] = d}

(* Mutant: reload the software head, completed or not. *)
RestartAtHead ==
  \/ (hwNext # Null \/ head = Null) /\ UNCHANGED hwVars
  \/ hwNext = Null /\ head # Null /\ SetBaseRxDescriptor(head)

(* Mutant: an exhausted engine is left alone. *)
RestartNever == UNCHANGED hwVars

RestartExhaustedRx ==
  \/ /\ hwNext # Null \/ FirstIncomplete = {}
     /\ UNCHANGED hwVars
  \/ /\ hwNext = Null
     /\ \E d \in FirstIncomplete : SetBaseRxDescriptor(d)

-----------------------------------------------------------------------------
(* Mutant: the last descriptor is linked to one past the slab. *)
InitUnterminated ==
  /\ next = [d \in Desc |-> d + 1]
  /\ eof = [d \in Desc |-> FALSE]
  /\ owner = [d \in Desc |-> "Dma"]
  /\ frame = [d \in Desc |-> 0]
  /\ head = 1
  /\ tail = BufferCount
  /\ pc = "idle"
  /\ taken = Null
  /\ hwNext = 1
  /\ hwLink = Unfetched
  /\ rxEnabled = TRUE
  /\ received = 0
  /\ out = 0

(* DmaBufferSlab::init links the descriptors in order; DmaList::new starts *)
(* the receiver at the first.                                              *)
Init ==
  /\ next = [d \in Desc |-> IF d = BufferCount THEN Null ELSE d + 1]
  /\ eof = [d \in Desc |-> FALSE]
  /\ owner = [d \in Desc |-> "Dma"]
  /\ frame = [d \in Desc |-> 0]
  /\ head = 1
  /\ tail = BufferCount
  /\ pc = "idle"
  /\ taken = Null
  /\ hwNext = 1
  /\ hwLink = Unfetched
  /\ rxEnabled = TRUE
  /\ received = 0
  /\ out = 0

(* take_first finds the head not completed and goes on to the restart. *)
TakeFirstIncomplete ==
  /\ pc = "idle"
  /\ head # Null
  /\ ~eof[head]
  /\ pc' = "restart"
  /\ UNCHANGED <<next, eof, owner, frame, head, tail, taken, hwVars, rxEnabled,
                 received, out>>

(* take_first moves the head past a completed descriptor. *)
TakeFirstUnlink ==
  /\ pc = "idle"
  /\ head # Null
  /\ eof[head]
  /\ next[head] # Null
  /\ taken' = head
  /\ head' = next[head]
  /\ pc' = "take"
  /\ UNCHANGED <<next, eof, owner, frame, tail, hwVars, rxEnabled, received, out>>

(* Mutants of the second half of take_first: no restart of an exhausted    *)
(* engine, a link kept in the borrowed descriptor, the wrong descriptor.   *)
TakeWithoutRestart ==
  /\ pc = "take"
  /\ owner' = [owner EXCEPT ![taken] = "Cpu"]
  /\ next' = [next EXCEPT ![taken] = Null]
  /\ out' = frame[taken]
  /\ taken' = Null
  /\ pc' = "idle"
  /\ UNCHANGED <<eof, frame, head, tail, hwVars, rxEnabled, received>>

TakeKeepingLink ==
  /\ pc = "take"
  /\ RestartExhaustedRx
  /\ owner' = [owner EXCEPT ![taken] = "Cpu"]
  /\ out' = frame[taken]
  /\ taken' = Null
  /\ pc' = "idle"
  /\ UNCHANGED <<next, eof, frame, head, tail, rxEnabled, received>>

TakeReturningHead ==
  /\ pc = "take"
  /\ RestartExhaustedRx
  /\ owner' = [owner EXCEPT ![taken] = "Cpu"]
  /\ next' = [next EXCEPT ![taken] = Null]
  /\ out' = frame[head]
  /\ taken' = Null
  /\ pc' = "idle"
  /\ UNCHANGED <<eof, frame, head, tail, rxEnabled, received>>

(* ... then restarts an exhausted engine and hands the descriptor out. *)
TakeFirstReturn ==
  /\ pc = "take"
  /\ RestartExhaustedRx
  /\ owner' = [owner EXCEPT ![taken] = "Cpu"]
  /\ next' = [next EXCEPT ![taken] = Null]
  /\ out' = frame[taken]
  /\ taken' = Null
  /\ pc' = "idle"
  /\ UNCHANGED <<eof, frame, head, tail, rxEnabled, received>>

(* take_first takes the only descriptor: the list becomes empty.  The      *)
(* engine is at rest, having completed it, so nothing comes in between.    *)
TakeFirstOnly ==
  /\ pc = "idle"
  /\ head # Null
  /\ eof[head]
  /\ next[head] = Null
  /\ head' = Null
  /\ tail' = Null
  /\ ClearBaseRxDescriptor
  /\ owner' = [owner EXCEPT ![head] = "Cpu"]
  /\ out' = frame[head]
  /\ UNCHANGED <<next, eof, frame, pc, taken, rxEnabled, received>>

(* Mutant: the tail is not moved to the appended descriptor. *)
AppendKeepingTail(d) ==
  /\ pc = "idle"
  /\ owner[d] = "Cpu"
  /\ tail # Null
  /\ owner' = [owner EXCEPT ![d] = "Dma"]
  /\ eof' = [eof EXCEPT ![d] = FALSE]
  /\ frame' = [frame EXCEPT ![d] = 0]
  /\ next' = [next EXCEPT ![d] = Null, ![tail] = d]
  /\ pc' = "restart"
  /\ UNCHANGED <<head, tail, taken, hwVars, rxEnabled, received, out>>

(* recycle resets a borrowed descriptor and publishes it behind the tail. *)
RecycleAppend(d) ==
  /\ pc = "idle"
  /\ owner[d] = "Cpu"
  /\ tail # Null
  /\ owner' = [owner EXCEPT ![d] = "Dma"]
  /\ eof' = [eof EXCEPT ![d] = FALSE]
  /\ frame' = [frame EXCEPT ![d] = 0]
  /\ next' = [next EXCEPT ![d] = Null, ![tail] = d]
  /\ tail' = d
  /\ pc' = "restart"
  /\ UNCHANGED <<head, taken, hwVars, rxEnabled, received, out>>

(* recycle into an empty list: the descriptor is first and last. *)
RecycleIntoEmpty(d) ==
  /\ pc = "idle"
  /\ owner[d] = "Cpu"
  /\ tail = Null
  /\ owner' = [owner EXCEPT ![d] = "Dma"]
  /\ eof' = [eof EXCEPT ![d] = FALSE]
  /\ frame' = [frame EXCEPT ![d] = 0]
  /\ next' = [next EXCEPT ![d] = Null]
  /\ head' = d
  /\ tail' = d
  /\ SetBaseRxDescriptor(d)
  /\ UNCHANGED <<pc, taken, rxEnabled, received, out>>

(* The last step of a take_first that returns nothing and of an append. *)
RestartReturn ==
  /\ pc = "restart"
  /\ RestartExhaustedRx
  /\ pc' = "idle"
  /\ UNCHANGED <<next, eof, owner, frame, head, tail, taken, rxEnabled, received, out>>

(* clear() resets the completed run.  Completions during the loop lie      *)
(* ahead of its cursor, so they commute to before it: one step.            *)
ClearWalk ==
  /\ pc = "idle"
  /\ head # Null
  /\ ClearWhileReceiving \/ ~rxEnabled
  /\ eof' = [d \in Desc |-> eof[d] /\ d \notin CompletedRun]
  /\ frame' = [d \in Desc |-> IF d \in CompletedRun THEN 0 ELSE frame[d]]
  /\ pc' = "clear"
  /\ UNCHANGED <<next, owner, head, tail, taken, hwVars, rxEnabled, received, out>>

(* ... and then reloads the engine at the software head. *)
ClearReload ==
  /\ pc = "clear"
  /\ SetBaseRxDescriptor(head)
  /\ pc' = "idle"
  /\ UNCHANGED <<next, eof, owner, frame, head, tail, taken, rxEnabled, received, out>>

(* AsyncReceive::set_rx_status pauses and resumes the receiver.  It takes  *)
(* no list mutex, so a recycle may be at its restart; but it borrows the   *)
(* receiver, which take_first and clear are called through.  The list      *)
(* alone cannot tell a take_first at its restart: RxPath excludes that.    *)
SetRxStatus(enabled) ==
  /\ pc \in {"idle", "restart"}
  /\ rxEnabled # enabled
  /\ rxEnabled' = enabled
  /\ UNCHANGED <<next, eof, owner, frame, listVars, hwVars, received, out>>

-----------------------------------------------------------------------------
(* The DMA engine, as the driver uses it.  It reads the link of its        *)
(* descriptor once, at any time before the frame completes: a link that is *)
(* appended after that read is missed.                                     *)
HwFetchLink ==
  /\ hwNext # Null
  /\ hwLink = Unfetched
  /\ hwLink' = next[hwNext]
  /\ UNCHANGED <<next, eof, owner, frame, listVars, hwNext, rxEnabled, received, out>>

(* A frame completes: the descriptor is written and NEXT moves on. *)
HwReceive ==
  /\ rxEnabled
  /\ hwNext # Null
  /\ hwLink # Unfetched
  /\ received < MaxFrames
  /\ received' = received + 1
  /\ eof' = [eof EXCEPT ![hwNext] = TRUE]
  /\ frame' = [frame EXCEPT ![hwNext] = received + 1]
  /\ hwNext' = hwLink
  /\ hwLink' = Unfetched
  /\ UNCHANGED <<next, owner, listVars, rxEnabled, out>>

-----------------------------------------------------------------------------
Next ==
  \/ TakeFirstIncomplete
  \/ TakeFirstUnlink
  \/ TakeFirstReturn
  \/ TakeFirstOnly
  \/ \E d \in Desc : RecycleAppend(d)
  \/ \E d \in Desc : RecycleIntoEmpty(d)
  \/ RestartReturn
  \/ ClearWalk
  \/ ClearReload
  \/ \E enabled \in BOOLEAN : SetRxStatus(enabled)
  \/ HwFetchLink
  \/ HwReceive

Spec == Init /\ [][Next]_vars

-----------------------------------------------------------------------------
(* Every variable has its type. *)
TypeOK ==
  /\ next \in [Desc -> Desc \cup {Null}]
  /\ eof \in [Desc -> BOOLEAN]
  /\ owner \in [Desc -> {"Cpu", "Dma"}]
  /\ frame \in [Desc -> 0..MaxFrames]
  /\ head \in Desc \cup {Null}
  /\ tail \in Desc \cup {Null}
  /\ pc \in {"idle", "take", "restart", "clear"}
  /\ taken \in Desc \cup {Null}
  /\ hwNext \in Desc \cup {Null}
  /\ hwLink \in Desc \cup {Null, Unfetched}
  /\ rxEnabled \in BOOLEAN
  /\ received \in 0..MaxFrames
  /\ out \in 0..MaxFrames

(* The descriptors the list still holds: not borrowed, not being taken. *)
Live == {d \in Desc : owner[d] = "Dma" /\ d # taken}

ClosedUnderNext(S) == \A d \in S : next[d] # Null => next[d] \in S

(* The descriptors a walk along next reaches from the head. *)
Chain ==
  {d \in Desc : /\ head # Null
                /\ \A S \in SUBSET Desc :
                     head \in S /\ ClosedUnderNext(S) => d \in S}

(* The engine only ever aims at a buffer of the list that waits for a      *)
(* frame: never at one the caller has borrowed or take_first is removing,  *)
(* never at a completed frame nobody has read ("Reloading that head would  *)
(* overwrite unread frames").                                              *)
DmaTargetsFreeBuffer ==
  hwNext # Null => hwNext \in Live /\ ~eof[hwNext]

(* No buffer leaks and no link leads out of the list: the chain from the   *)
(* head holds exactly the descriptors that are neither borrowed nor being  *)
(* taken, whatever order buffers are returned in.                          *)
NoBufferLost == Chain = Live

(* Between operations an engine that has stopped has left a completed      *)
(* frame at the head.  So the call of take_first that this frame's         *)
(* interrupt causes also restarts the engine; it never waits for a         *)
(* completion that cannot come.                                            *)
NoSilentStall ==
  pc = "idle" /\ hwNext = Null /\ head # Null => eof[head]

(* The frames that are still to be handed out or discarded start after     *)
(* this one.                                                               *)
Consumed ==
  IF pc = "take" THEN frame[taken] - 1
  ELSE IF head # Null /\ eof[head] THEN frame[head] - 1
  ELSE received

Fifo == INSTANCE RxFifo WITH consumed <- Consumed

(* The list implements the FIFO of frames: each completed frame is handed  *)
(* out once, in the order of completion, unless a clear discards it.       *)
ImplementsFifo == Fifo!Spec

-----------------------------------------------------------------------------
(* The inductive invariant behind the properties above, for callers that   *)
(* pause the receiver before they clear.                                   *)

(* The descriptors of the list form one chain from head to tail, and no    *)
(* borrowed descriptor keeps a link.                                       *)
ChainShape ==
  /\ head = Null <=> tail = Null
  /\ head = Null => Live = {}
  /\ head # Null => head \in Live /\ tail \in Live /\ next[tail] = Null
  /\ \A d \in Live : next[d] # Null => next[d] \in Live /\ next[d] # head
  /\ \A a, b \in Live : next[a] = next[b] /\ next[a] # Null => a = b
  /\ \A d \in Desc : owner[d] = "Cpu" => next[d] = Null
  /\ \A S \in SUBSET Desc :
       head # Null /\ head \in S /\ ClosedUnderNext(S) => Live \subseteq S

(* The descriptor that take_first is removing still points at the head. *)
TakenShape ==
  /\ taken # Null <=> pc = "take"
  /\ taken # Null => /\ owner[taken] = "Dma"
                     /\ eof[taken]
                     /\ head # Null
                     /\ next[taken] = head

(* d holds a completed frame and the descriptor after it does not. *)
LastCompleted(d) == eof[d] /\ (next[d] = Null \/ ~eof[next[d]])

(* Completed descriptors come before the incomplete ones. *)
CompletedFirst ==
  /\ \A d \in Live : next[d] # Null /\ eof[next[d]] => eof[d]
  /\ \A a, b \in Live : LastCompleted(a) /\ LastCompleted(b) => a = b

(* An engine that is not stopped is at the first incomplete descriptor,    *)
(* and what it has cached is that descriptor's link or a stale null.       *)
EngineAtFrontier ==
  /\ hwNext # Null => hwNext \in Live /\ ~eof[hwNext]
  /\ hwNext # Null /\ pc # "clear" => \A d \in Live : next[d] = hwNext => eof[d]
  /\ hwNext = Null => hwLink = Unfetched
  /\ hwLink \in Desc => hwLink = next[hwNext]
  /\ pc = "clear" => ~rxEnabled /\ head # Null /\ \A d \in Live : ~eof[d]

(* Along the chain the frames are numbered without a gap up to received. *)
FramesNumbered ==
  /\ \A d \in Live : eof[d] => frame[d] >= 1 /\ frame[d] <= received
  /\ \A d \in Live : eof[d] /\ next[d] # Null /\ eof[next[d]]
                      => frame[next[d]] = frame[d] + 1
  /\ \A d \in Live : LastCompleted(d) => frame[d] = received
  /\ taken # Null => /\ frame[taken] >= 1
                     /\ frame[taken] <= received
                     /\ eof[head] => frame[head] = frame[taken] + 1
                     /\ ~eof[head] => frame[taken] = received

(* Chain, flags, engine and frame numbers agree, between any two accesses  *)
(* of any operation.                                                       *)
ListInv ==
  /\ TypeOK
  /\ ChainShape
  /\ TakenShape
  /\ CompletedFirst
  /\ EngineAtFrontier
  /\ FramesNumbered
  /\ NoSilentStall
=============================================================================
