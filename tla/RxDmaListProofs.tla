-------------------------- MODULE RxDmaListProofs --------------------------
(***************************************************************************)
(* Proofs about the receive DMA list, for any number of buffers and of     *)
(* frames, for callers that pause the receiver before they clear.          *)
(***************************************************************************)
EXTENDS RxDmaList, TLAPS, WellFoundedInduction

(* A nonempty set of naturals has a least element. *)
LEMMA LeastElement ==
  ASSUME NEW T, T \subseteq Nat, T # {}
  PROVE  \E x \in T : \A y \in T : x <= y
<1> DEFINE R == OpToRel(<, Nat)
<1>1. IsWellFoundedOn(R, Nat)
  BY NatLessThanWellFounded
<1>2. PICK x \in T : \A y \in T : ~(<<y, x>> \in R)
  <2> HIDE DEF R
  <2> QED BY <1>1, WFMin, Zenon
<1>3. \A y \in T : ~(y < x)
  BY <1>2, Zenon DEF OpToRel
<1> QED BY <1>3

(* Stepping through the slab from its first index reaches every index. *)
LEMMA SlabReachable ==
  ASSUME NEW S \in SUBSET Desc, 1 \in S,
         \A d \in S : d # BufferCount => d + 1 \in S
  PROVE  Desc \subseteq S
<1> SUFFICES ASSUME Desc \ S # {} PROVE FALSE
  OBVIOUS
<1>1. PICK x \in Desc \ S : \A y \in Desc \ S : x <= y
  <2> DEFINE T == Desc \ S
  <2>1. T \subseteq Nat /\ T # {}
    BY ConstantsAssumption DEF Desc
  <2> HIDE DEF T
  <2>2. \E x \in T : \A y \in T : x <= y
    BY <2>1, LeastElement, Zenon
  <2> QED BY <2>2 DEF T
<1>2. x - 1 \in S
  BY <1>1, ConstantsAssumption DEF Desc
<1> QED BY <1>1, <1>2, ConstantsAssumption DEF Desc

-----------------------------------------------------------------------------
(* What the loops over the chain find. *)

(* If the head is incomplete, so is every descriptor of the list. *)
LEMMA HeadDecides ==
  ASSUME TypeOK, ChainShape, CompletedFirst, head # Null, ~eof[head]
  PROVE  \A d \in Live : ~eof[d]
<1> DEFINE S == {d \in Live : ~eof[d]}
<1>1. S \in SUBSET Desc /\ head \in S
  BY DEF ChainShape, Live
<1>2. ClosedUnderNext(S)
  BY DEF ClosedUnderNext, ChainShape, CompletedFirst
<1>3. Live \subseteq S
  <2> HIDE DEF S
  <2> QED BY <1>1, <1>2 DEF ChainShape
<1> QED BY <1>3

(* A descriptor of the list other than the head has a predecessor there. *)
LEMMA HasPredecessor ==
  ASSUME TypeOK, ChainShape, NEW x \in Live, x # head
  PROVE  \E p \in Live : next[p] = x
<1> SUFFICES ASSUME \A p \in Live : next[p] # x PROVE FALSE
  OBVIOUS
<1> DEFINE S == Live \ {x}
<1>0. head # Null
  BY DEF ChainShape
<1>1. S \in SUBSET Desc /\ head \in S
  BY <1>0 DEF ChainShape, Live
<1>2. ClosedUnderNext(S)
  BY DEF ClosedUnderNext, ChainShape
<1>3. Live \subseteq S
  <2> HIDE DEF S
  <2> QED BY <1>0, <1>1, <1>2 DEF ChainShape
<1> QED BY <1>3

(* The loops only pass completed descriptors of the list. *)
LEMMA CompletedRunLive ==
  ASSUME TypeOK, ChainShape
  PROVE  \A d \in CompletedRun : d \in Live /\ eof[d]
<1> DEFINE S == {d \in Live : eof[d]}
<1>1. S \in SUBSET Desc
  BY DEF Live
<1>2. ClosedUnderWalk(S)
  BY DEF ClosedUnderWalk, ChainShape
<1>3. CompletedRun \subseteq S
  <2> HIDE DEF S
  <2> QED BY <1>1, <1>2 DEF CompletedRun
<1> QED BY <1>3

(* The walk of clear() passes every completed descriptor of the list. *)
LEMMA CompletedRunAll ==
  ASSUME TypeOK, ChainShape, CompletedFirst, head # Null
  PROVE  \A d \in Live : eof[d] => d \in CompletedRun
<1> DEFINE S == CompletedRun \cup {d \in Live : ~eof[d]}
<1>0. ClosedUnderWalk(CompletedRun)
  <2>1. (head # Null /\ eof[head]) => head \in CompletedRun
    BY DEF CompletedRun, ClosedUnderWalk, ChainShape, Live
  <2>2. ASSUME NEW d \in CompletedRun, next[d] # Null, eof[next[d]]
        PROVE  next[d] \in CompletedRun
    <3>1. next[d] \in Desc
      BY <2>2 DEF CompletedRun, TypeOK
    <3> QED BY <2>2, <3>1 DEF CompletedRun, ClosedUnderWalk
  <2> QED BY <2>1, <2>2 DEF ClosedUnderWalk
<1>1. S \in SUBSET Desc /\ head \in S
  BY <1>0 DEF ChainShape, Live, CompletedRun, ClosedUnderWalk
<1>2. ClosedUnderNext(S)
  BY <1>0, CompletedRunLive DEF ClosedUnderNext, ClosedUnderWalk, ChainShape, CompletedFirst
<1>3. Live \subseteq S
  <2> HIDE DEF S
  <2> QED BY <1>1, <1>2 DEF ChainShape
<1> QED BY <1>3

(* The restart loop stops at the first incomplete descriptor. *)
LEMMA RestartTarget ==
  ASSUME TypeOK, ChainShape, NEW f \in FirstIncomplete
  PROVE  /\ f \in Live
         /\ ~eof[f]
         /\ \A p \in Live : next[p] = f => eof[p]
<1>1. f \in Desc /\ ~eof[f] /\ (f = head \/ \E p \in CompletedRun : next[p] = f)
  BY DEF FirstIncomplete
<1>2. Null \notin Desc
  BY DEF Null, Desc
<1>3. CASE f = head
  BY <1>1, <1>2, <1>3 DEF ChainShape
<1>4. CASE \E p \in CompletedRun : next[p] = f
  BY <1>1, <1>2, <1>4, CompletedRunLive DEF ChainShape
<1> QED BY <1>1, <1>3, <1>4

(* The markers for no descriptor are no descriptors. *)
LEMMA Markers ==
  /\ Null \notin Desc
  /\ Unfetched \notin Desc
  /\ Null # Unfetched
  BY DEF Null, Unfetched, Desc

-----------------------------------------------------------------------------
(* Initially. *)
LEMMA InitInv == Init => ListInv
<1> SUFFICES ASSUME Init PROVE ListInv
  OBVIOUS
<1> USE ConstantsAssumption
<1>1. TypeOK
  BY DEF Init, TypeOK, Desc, Null, Unfetched
<1>2. Live = Desc
  BY DEF Init, Live, Desc, Null
<1>3. ChainShape
  <2>1. \A d \in Desc : /\ next[d] = IF d = BufferCount THEN Null ELSE d + 1
                        /\ d + 1 # Null
    BY DEF Init, Desc, Null
  <2>2. ASSUME NEW S \in SUBSET Desc, head \in S, ClosedUnderNext(S)
        PROVE  Desc \subseteq S
    <3>1. ASSUME NEW d \in S, d # BufferCount PROVE d + 1 \in S
      <4>1. d \in Desc
        OBVIOUS
      <4>2. next[d] = d + 1 /\ next[d] # Null
        BY <2>1, <3>1, <4>1
      <4> QED BY <2>2, <4>2 DEF ClosedUnderNext
    <3> QED BY <2>2, <3>1, SlabReachable DEF Init
  <2> QED BY <1>2, <2>1, <2>2 DEF Init, ChainShape, Desc, Null
<1>4. TakenShape
  BY DEF Init, TakenShape
<1>5. CompletedFirst
  BY <1>2, <1>1 DEF Init, CompletedFirst, LastCompleted, TypeOK
<1>6. EngineAtFrontier
  BY <1>2, Markers DEF Init, EngineAtFrontier, Desc, Null
<1>7. FramesNumbered
  BY <1>2, <1>1 DEF Init, FramesNumbered, LastCompleted, TypeOK
<1>8. NoSilentStall
  BY DEF Init, NoSilentStall, Null
<1> QED BY <1>1, <1>3, <1>4, <1>5, <1>6, <1>7, <1>8 DEF ListInv

-----------------------------------------------------------------------------
(* One lemma for each action. *)

(* A take_first that finds the head incomplete preserves the invariant. *)
LEMMA TakeFirstIncompleteInv ==
  ASSUME ListInv, TakeFirstIncomplete
  PROVE  ListInv'
<1> USE DEF TakeFirstIncomplete, hwVars
<1>1. Live' = Live
  BY DEF Live
<1>2. TypeOK'
  BY DEF ListInv, TypeOK
<1>3. ChainShape'
  BY <1>1 DEF ListInv, ChainShape, ClosedUnderNext
<1>4. TakenShape'
  BY DEF ListInv, TakenShape
<1>5. CompletedFirst'
  BY <1>1 DEF ListInv, CompletedFirst, LastCompleted
<1>6. EngineAtFrontier'
  BY <1>1 DEF ListInv, EngineAtFrontier
<1>7. FramesNumbered'
  BY <1>1 DEF ListInv, FramesNumbered, LastCompleted
<1>8. NoSilentStall'
  BY DEF NoSilentStall
<1> QED BY <1>2, <1>3, <1>4, <1>5, <1>6, <1>7, <1>8 DEF ListInv

(* So does the restart that ends it, or that ends an append. *)
LEMMA RestartReturnInv ==
  ASSUME ListInv, RestartReturn
  PROVE  ListInv'
<1> USE DEF RestartReturn
<1>0. \/ UNCHANGED hwVars /\ (hwNext # Null \/ FirstIncomplete = {})
      \/ hwNext = Null /\ \E d \in FirstIncomplete : hwNext' = d /\ hwLink' = Unfetched
  BY DEF RestartExhaustedRx, SetBaseRxDescriptor
<1>1. Live' = Live
  BY DEF Live
<1>2. TypeOK'
  BY <1>0 DEF ListInv, TypeOK, FirstIncomplete, hwVars
<1>3. ChainShape'
  BY <1>1 DEF ListInv, ChainShape, ClosedUnderNext
<1>4. TakenShape'
  BY DEF ListInv, TakenShape
<1>5. CompletedFirst'
  BY <1>1 DEF ListInv, CompletedFirst, LastCompleted
<1>6. EngineAtFrontier'
  <2>1. CASE UNCHANGED hwVars
    BY <1>1, <2>1 DEF ListInv, EngineAtFrontier, hwVars
  <2>2. CASE \E d \in FirstIncomplete : hwNext' = d /\ hwLink' = Unfetched
    BY <1>1, <2>2, RestartTarget, Markers DEF ListInv, EngineAtFrontier
  <2> QED BY <1>0, <2>1, <2>2
<1>7. FramesNumbered'
  BY <1>1 DEF ListInv, FramesNumbered, LastCompleted
<1>8. NoSilentStall'
  BY <1>0, Markers DEF ListInv, NoSilentStall, FirstIncomplete, TypeOK, hwVars
<1> QED BY <1>2, <1>3, <1>4, <1>5, <1>6, <1>7, <1>8 DEF ListInv

(* Moving the head past a completed descriptor preserves the invariant. *)
LEMMA TakeFirstUnlinkInv ==
  ASSUME ListInv, TakeFirstUnlink
  PROVE  ListInv'
<1> USE DEF TakeFirstUnlink, hwVars
<1>0. taken = Null /\ head \in Live /\ next[head] \in Live
  BY DEF ListInv, TakenShape, ChainShape
<1>1. Live' = Live \ {head}
  BY <1>0, Markers DEF Live
<1>2. TypeOK'
  BY DEF ListInv, TypeOK
<1>3. ChainShape'
  <2>1. next[head] # head /\ tail # head
    BY <1>0 DEF ListInv, ChainShape
  <2>2. ASSUME NEW S \in SUBSET Desc, next[head] \in S, ClosedUnderNext(S)
        PROVE  Live \ {head} \subseteq S
    <3> DEFINE T == S \cup {head}
    <3>1. T \in SUBSET Desc /\ head \in T /\ ClosedUnderNext(T)
      BY <2>2, <1>0 DEF ClosedUnderNext, Live
    <3> HIDE DEF T
    <3>2. Live \subseteq T
      BY <3>1 DEF ListInv, ChainShape
    <3> QED BY <3>2 DEF T
  <2> QED BY <1>0, <1>1, <2>1, <2>2 DEF ListInv, ChainShape, ClosedUnderNext
<1>4. TakenShape'
  BY <1>0, Markers DEF ListInv, TakenShape, Live
<1>5. CompletedFirst'
  BY <1>1 DEF ListInv, CompletedFirst, LastCompleted
<1>6. EngineAtFrontier'
  BY <1>1 DEF ListInv, EngineAtFrontier
<1>7. FramesNumbered'
  BY <1>0, <1>1 DEF ListInv, FramesNumbered, LastCompleted
<1>8. NoSilentStall'
  BY DEF NoSilentStall
<1> QED BY <1>2, <1>3, <1>4, <1>5, <1>6, <1>7, <1>8 DEF ListInv

(* So do the restart and the hand-over that end take_first. *)
LEMMA TakeFirstReturnInv ==
  ASSUME ListInv, TakeFirstReturn
  PROVE  ListInv'
<1> USE DEF TakeFirstReturn
<1>0. \/ UNCHANGED hwVars /\ (hwNext # Null \/ FirstIncomplete = {})
      \/ hwNext = Null /\ \E d \in FirstIncomplete : hwNext' = d /\ hwLink' = Unfetched
  BY DEF RestartExhaustedRx, SetBaseRxDescriptor
<1>1. taken \in Desc /\ head \in Live /\ taken \notin Live /\ head # Null
  BY Markers DEF ListInv, TakenShape, ChainShape, Live, TypeOK
<1>2. Live' = Live
  BY <1>1, Markers DEF Live, ListInv, TypeOK
<1>3. TypeOK'
  BY <1>0, <1>1 DEF ListInv, TypeOK, FirstIncomplete, hwVars
<1>4. \A d \in Live : next'[d] = next[d]
  BY <1>1 DEF ListInv, TypeOK, Live
<1>5. ChainShape'
  <2>1. ASSUME NEW S \in SUBSET Desc, head \in S, ClosedUnderNext(S)'
        PROVE  Live \subseteq S
    <3> DEFINE T == S \cup {taken}
    <3>1. T \in SUBSET Desc /\ head \in T /\ ClosedUnderNext(T)
      BY <2>1, <1>1 DEF ClosedUnderNext, ListInv, TakenShape, TypeOK
    <3> HIDE DEF T
    <3>2. Live \subseteq T
      BY <3>1, <1>1 DEF ListInv, ChainShape
    <3> QED BY <3>2, <1>1 DEF T
  <2>2. \A d \in Desc : owner'[d] = "Cpu" => next'[d] = Null
    BY <1>1 DEF ListInv, ChainShape, TypeOK
  <2> QED BY <1>1, <1>2, <1>4, <2>1, <2>2 DEF ListInv, ChainShape
<1>6. TakenShape'
  BY DEF TakenShape
<1>7. CompletedFirst'
  BY <1>2, <1>4 DEF ListInv, CompletedFirst, LastCompleted
<1>8. EngineAtFrontier'
  <2>1. CASE UNCHANGED hwVars
    BY <1>2, <1>4, <2>1, Markers DEF ListInv, EngineAtFrontier, hwVars, Live
  <2>2. CASE \E d \in FirstIncomplete : hwNext' = d /\ hwLink' = Unfetched
    BY <1>2, <1>4, <2>2, RestartTarget, Markers DEF ListInv, EngineAtFrontier
  <2> QED BY <1>0, <2>1, <2>2
<1>9. FramesNumbered'
  BY <1>2, <1>4 DEF ListInv, FramesNumbered, LastCompleted
<1>10. NoSilentStall'
  BY <1>0, <1>1, Markers DEF ListInv, NoSilentStall, FirstIncomplete, TypeOK, hwVars
<1> QED BY <1>3, <1>5, <1>6, <1>7, <1>8, <1>9, <1>10 DEF ListInv

(* Taking the only descriptor preserves the invariant. *)
LEMMA TakeFirstOnlyInv ==
  ASSUME ListInv, TakeFirstOnly
  PROVE  ListInv'
<1> USE DEF TakeFirstOnly, ClearBaseRxDescriptor
<1>0. head \in Live /\ head \in Desc /\ taken = Null
  BY DEF ListInv, ChainShape, TakenShape, Live
<1>1. Live \subseteq {head}
  <2> DEFINE S == {head}
  <2>1. S \in SUBSET Desc /\ head \in S /\ ClosedUnderNext(S)
    BY <1>0 DEF ClosedUnderNext
  <2> HIDE DEF S
  <2>2. Live \subseteq S
    BY <2>1 DEF ListInv, ChainShape
  <2> QED BY <2>2 DEF S
<1>2. Live' = {}
  BY <1>0, <1>1 DEF Live, ListInv, TypeOK
<1>3. TypeOK'
  BY <1>0, ConstantsAssumption DEF ListInv, TypeOK
<1>4. ChainShape'
  BY <1>0, <1>2 DEF ListInv, ChainShape, TypeOK
<1>5. TakenShape'
  BY <1>0 DEF ListInv, TakenShape
<1>6. CompletedFirst'
  BY <1>2 DEF CompletedFirst
<1>7. EngineAtFrontier'
  BY <1>2, Markers DEF ListInv, EngineAtFrontier
<1>8. FramesNumbered'
  BY <1>0, <1>2 DEF FramesNumbered
<1>9. NoSilentStall'
  BY DEF NoSilentStall
<1> QED BY <1>3, <1>4, <1>5, <1>6, <1>7, <1>8, <1>9 DEF ListInv

(* Recycling into an empty list preserves the invariant. *)
LEMMA RecycleIntoEmptyInv ==
  ASSUME ListInv, NEW d \in Desc, RecycleIntoEmpty(d)
  PROVE  ListInv'
<1> USE DEF RecycleIntoEmpty, SetBaseRxDescriptor
<1>0. head = Null /\ Live = {} /\ taken = Null
  BY Markers DEF ListInv, ChainShape, TakenShape
<1>1. Live' = {d}
  BY <1>0, Markers DEF Live, ListInv, TypeOK
<1>2. TypeOK'
  BY ConstantsAssumption DEF ListInv, TypeOK
<1>3. next'[d] = Null /\ eof'[d] = FALSE
  BY DEF ListInv, TypeOK
<1>4. ChainShape'
  BY <1>1, <1>3, Markers DEF ListInv, ChainShape, TypeOK
<1>5. TakenShape'
  BY <1>0 DEF ListInv, TakenShape
<1>6. CompletedFirst'
  BY <1>1, <1>3 DEF CompletedFirst, LastCompleted
<1>7. EngineAtFrontier'
  BY <1>1, <1>3, Markers DEF ListInv, EngineAtFrontier
<1>8. FramesNumbered'
  BY <1>0, <1>1, <1>3 DEF FramesNumbered, LastCompleted
<1>9. NoSilentStall'
  BY Markers DEF NoSilentStall
<1> QED BY <1>2, <1>4, <1>5, <1>6, <1>7, <1>8, <1>9 DEF ListInv

(* Publishing a descriptor behind the tail preserves the invariant. *)
LEMMA RecycleAppendInv ==
  ASSUME ListInv, NEW d \in Desc, RecycleAppend(d)
  PROVE  ListInv'
<1> USE DEF RecycleAppend, hwVars
<1>0. /\ head # Null /\ head \in Live /\ tail \in Live /\ taken = Null
      /\ next[tail] = Null /\ d \notin Live /\ tail \in Desc /\ d # tail
      /\ hwNext # d
  BY Markers DEF ListInv, ChainShape, TakenShape, EngineAtFrontier, Live
<1>1. Live' = Live \cup {d}
  BY <1>0, Markers DEF Live, ListInv, TypeOK
<1>2. TypeOK'
  BY ConstantsAssumption DEF ListInv, TypeOK
<1>3. /\ next'[d] = Null /\ next'[tail] = d /\ eof'[d] = FALSE
      /\ \A e \in Desc : e # d => eof'[e] = eof[e] /\ frame'[e] = frame[e]
      /\ \A e \in Desc : e # d /\ e # tail => next'[e] = next[e]
  BY <1>0 DEF ListInv, TypeOK
<1>4. \A e \in Live : e \in Desc /\ e # d
  BY <1>0 DEF Live
<1>free. next[d] = Null
  BY DEF ListInv, ChainShape
<1>rest. /\ pc = "idle" /\ pc' = "restart" /\ tail' = d
         /\ head' = head /\ taken' = taken /\ hwNext' = hwNext /\ hwLink' = hwLink
         /\ rxEnabled' = rxEnabled /\ received' = received
         /\ \A e \in Desc : owner'[e] = "Cpu" => owner[e] = "Cpu" /\ e # d
  BY DEF ListInv, TypeOK
<1> HIDE DEF RecycleAppend, hwVars
<1>5. ChainShape'
  <2>1. ASSUME NEW S \in SUBSET Desc, head \in S, ClosedUnderNext(S)'
        PROVE  Live \cup {d} \subseteq S
    <3>1. ClosedUnderNext(S)
      <4> SUFFICES ASSUME NEW e \in S, next[e] # Null PROVE next[e] \in S
        BY DEF ClosedUnderNext
      <4>1. e \in Desc /\ e # tail
        BY <1>0
      <4>2. e # d
        BY <1>free
      <4> QED BY <1>3, <2>1, <4>1, <4>2 DEF ClosedUnderNext
    <3>2. Live \subseteq S
      BY <1>0, <2>1, <3>1 DEF ListInv, ChainShape
    <3>3. tail \in S /\ next'[tail] = d /\ d # Null
      BY <1>0, <1>3, <3>2, Markers
    <3>4. d \in S
      BY <2>1, <3>3 DEF ClosedUnderNext
    <3> QED BY <3>2, <3>4
  <2>2. ASSUME NEW e \in Live', next'[e] # Null
        PROVE  next'[e] \in Live' /\ next'[e] # head'
    <3>1. e \in Live
      BY <1>1, <1>3, <2>2
    <3>2. CASE e = tail
      BY <1>0, <1>1, <1>3, <1>rest, <3>2
    <3>3. CASE e # tail
      <4>1. next'[e] = next[e] /\ next[e] # Null
        BY <1>3, <1>4, <2>2, <3>1, <3>3
      <4>2. next[e] \in Live /\ next[e] # head
        BY <3>1, <4>1 DEF ListInv, ChainShape
      <4> QED BY <1>1, <1>rest, <4>1, <4>2
    <3> QED BY <3>2, <3>3
  <2>3. \A a, b \in Live' : next'[a] = next'[b] /\ next'[a] # Null => a = b
    <3>1. ASSUME NEW e \in Live', next'[e] # Null
          PROVE  e \in Live /\ (e # tail => next'[e] = next[e] /\ next[e] \in Live)
      BY <1>1, <1>3, <1>4, <3>1 DEF ListInv, ChainShape
    <3> QED BY <1>0, <1>3, <3>1 DEF ListInv, ChainShape
  <2>4. \A e \in Desc : owner'[e] = "Cpu" => next'[e] = Null
    <3>1. tail \in Live => owner[tail] # "Cpu"
      BY DEF Live
    <3> QED BY <1>0, <1>3, <1>rest, <3>1 DEF ListInv, ChainShape
  <2> QED BY <1>0, <1>1, <1>3, <1>rest, <2>1, <2>2, <2>3, <2>4, Markers DEF ChainShape
<1>6. TakenShape'
  BY <1>0, <1>rest DEF ListInv, TakenShape
<1>7. CompletedFirst'
  <2>1. \A e \in Live' : next'[e] # Null /\ eof'[next'[e]] => eof'[e]
    BY <1>0, <1>1, <1>3, <1>4 DEF ListInv, CompletedFirst, ChainShape
  <2>2. \A e \in Live' : LastCompleted(e)' => e \in Live /\ LastCompleted(e)
    BY <1>0, <1>1, <1>3, <1>4 DEF LastCompleted, ListInv, ChainShape
  <2> QED BY <2>1, <2>2 DEF ListInv, CompletedFirst
<1>8. EngineAtFrontier'
  <2>1. hwNext \in Live => hwNext # d /\ eof'[hwNext] = eof[hwNext]
    BY <1>3, <1>4
  <2>2. \A e \in Live' : next'[e] = hwNext => (e \in Live /\ next[e] = hwNext) \/ hwNext = Null
    BY <1>0, <1>1, <1>3, <1>4
  <2>3. ASSUME hwLink \in Desc PROVE hwLink = next'[hwNext]
    <3>1. hwNext \in Live /\ hwLink = next[hwNext]
      BY <2>3, Markers DEF ListInv, EngineAtFrontier
    <3>2. hwNext # tail
      BY <1>0, <2>3, <3>1, Markers
    <3> QED BY <1>3, <1>4, <3>1, <3>2
  <2> QED BY <1>1, <1>3, <1>4, <1>rest, <2>1, <2>2, <2>3 DEF ListInv, EngineAtFrontier
<1>9. FramesNumbered'
  <2>1. \A e \in Live' : LastCompleted(e)' => e \in Live /\ LastCompleted(e)
    BY <1>0, <1>1, <1>3, <1>4 DEF LastCompleted, ListInv, ChainShape
  <2>2. \A e \in Live' : eof'[e] => frame'[e] >= 1 /\ frame'[e] <= received'
    BY <1>1, <1>3, <1>4, <1>rest DEF ListInv, FramesNumbered
  <2>3. ASSUME NEW e \in Live', eof'[e], next'[e] # Null, eof'[next'[e]]
        PROVE  frame'[next'[e]] = frame'[e] + 1
    <3>1. e \in Live /\ e # tail
      BY <1>1, <1>3, <2>3
    <3>2. next'[e] = next[e] /\ next[e] \in Live
      BY <1>3, <1>4, <2>3, <3>1 DEF ListInv, ChainShape
    <3> QED BY <1>3, <1>4, <2>3, <3>1, <3>2 DEF ListInv, FramesNumbered
  <2>4. \A e \in Live' : LastCompleted(e)' => frame'[e] = received'
    BY <1>3, <1>4, <1>rest, <2>1 DEF ListInv, FramesNumbered
  <2> QED BY <1>0, <1>rest, <2>2, <2>3, <2>4 DEF FramesNumbered
<1>10. NoSilentStall'
  BY <1>rest DEF NoSilentStall
<1> QED BY <1>2, <1>5, <1>6, <1>7, <1>8, <1>9, <1>10 DEF ListInv

(* The loop of clear() on a paused receiver preserves the invariant. *)
LEMMA ClearWalkInv ==
  ASSUME ListInv, ~ClearWhileReceiving, ClearWalk
  PROVE  ListInv'
<1> USE DEF ClearWalk, hwVars
<1>0. taken = Null
  BY DEF ListInv, TakenShape
<1>1. Live' = Live
  BY DEF Live
<1>2. TypeOK'
  BY ConstantsAssumption DEF ListInv, TypeOK
<1>3. \A d \in Live : eof'[d] = FALSE
  BY CompletedRunAll DEF ListInv, TypeOK, Live
<1>4. ChainShape'
  BY <1>1 DEF ListInv, ChainShape, ClosedUnderNext
<1>5. TakenShape'
  BY <1>0 DEF ListInv, TakenShape
<1>6. CompletedFirst'
  BY <1>1, <1>3, <1>4 DEF CompletedFirst, LastCompleted, ChainShape
<1>7. EngineAtFrontier'
  BY <1>1, <1>3 DEF ListInv, EngineAtFrontier
<1>8. FramesNumbered'
  BY <1>0, <1>1, <1>3 DEF FramesNumbered, LastCompleted
<1>9. NoSilentStall'
  BY DEF NoSilentStall
<1> QED BY <1>2, <1>4, <1>5, <1>6, <1>7, <1>8, <1>9 DEF ListInv

(* The reload that ends clear() preserves the invariant. *)
LEMMA ClearReloadInv ==
  ASSUME ListInv, ClearReload
  PROVE  ListInv'
<1> USE DEF ClearReload, SetBaseRxDescriptor
<1>0. head # Null /\ head \in Live /\ head \in Desc /\ \A d \in Live : ~eof[d]
  BY DEF ListInv, EngineAtFrontier, ChainShape, Live
<1>1. Live' = Live
  BY DEF Live
<1>2. TypeOK'
  BY <1>0 DEF ListInv, TypeOK
<1>3. ChainShape'
  BY <1>1 DEF ListInv, ChainShape, ClosedUnderNext
<1>4. TakenShape'
  BY DEF ListInv, TakenShape
<1>5. CompletedFirst'
  BY <1>1 DEF ListInv, CompletedFirst, LastCompleted
<1>6. EngineAtFrontier'
  BY <1>0, <1>1, Markers DEF ListInv, EngineAtFrontier, ChainShape
<1>7. FramesNumbered'
  BY <1>1 DEF ListInv, FramesNumbered, LastCompleted
<1>8. NoSilentStall'
  BY <1>0 DEF NoSilentStall
<1> QED BY <1>2, <1>3, <1>4, <1>5, <1>6, <1>7, <1>8 DEF ListInv

(* Pausing and resuming the receiver preserves the invariant. *)
LEMMA SetRxStatusInv ==
  ASSUME ListInv, NEW enabled \in BOOLEAN, SetRxStatus(enabled)
  PROVE  ListInv'
<1> USE DEF SetRxStatus, hwVars, listVars
<1>1. Live' = Live
  BY DEF Live
<1>2. TypeOK'
  BY DEF ListInv, TypeOK
<1>3. ChainShape'
  BY <1>1 DEF ListInv, ChainShape, ClosedUnderNext
<1>4. TakenShape'
  BY DEF ListInv, TakenShape
<1>5. CompletedFirst'
  BY <1>1 DEF ListInv, CompletedFirst, LastCompleted
<1>6. EngineAtFrontier'
  BY <1>1 DEF ListInv, EngineAtFrontier
<1>7. FramesNumbered'
  BY <1>1 DEF ListInv, FramesNumbered, LastCompleted
<1>8. NoSilentStall'
  BY DEF ListInv, NoSilentStall
<1> QED BY <1>2, <1>3, <1>4, <1>5, <1>6, <1>7, <1>8 DEF ListInv

(* The engine caching a link preserves the invariant. *)
LEMMA HwFetchLinkInv ==
  ASSUME ListInv, HwFetchLink
  PROVE  ListInv'
<1> USE DEF HwFetchLink, listVars
<1>1. Live' = Live
  BY DEF Live
<1>2. TypeOK'
  BY DEF ListInv, TypeOK
<1>3. ChainShape'
  BY <1>1 DEF ListInv, ChainShape, ClosedUnderNext
<1>4. TakenShape'
  BY DEF ListInv, TakenShape
<1>5. CompletedFirst'
  BY <1>1 DEF ListInv, CompletedFirst, LastCompleted
<1>6. EngineAtFrontier'
  BY <1>1 DEF ListInv, EngineAtFrontier
<1>7. FramesNumbered'
  BY <1>1 DEF ListInv, FramesNumbered, LastCompleted
<1>8. NoSilentStall'
  BY DEF ListInv, NoSilentStall
<1> QED BY <1>2, <1>3, <1>4, <1>5, <1>6, <1>7, <1>8 DEF ListInv

(* Before the engine completes its descriptor h, h is either the head of a *)
(* list without completed frames, or it directly follows the last one.     *)
LEMMA FrontierOfList ==
  ASSUME ListInv, hwNext # Null, pc # "clear"
  PROVE  /\ hwNext = head => \A d \in Live : ~eof[d]
         /\ hwNext # head => \E p \in Live : next[p] = hwNext /\ LastCompleted(p)
         /\ ~eof[head] => hwNext = head
<1>0. head # Null /\ head \in Live /\ hwNext \in Live /\ ~eof[hwNext]
  BY DEF ListInv, ChainShape, EngineAtFrontier
<1>1. hwNext = head => \A d \in Live : ~eof[d]
  BY <1>0, HeadDecides DEF ListInv
<1>2. hwNext # head => \E p \in Live : next[p] = hwNext /\ LastCompleted(p)
  BY <1>0, HasPredecessor DEF ListInv, EngineAtFrontier, LastCompleted
<1>3. ~eof[head] => hwNext = head
  BY <1>0, <1>2, HeadDecides DEF ListInv, LastCompleted
<1> QED BY <1>1, <1>2, <1>3

(* The engine completing a frame preserves the invariant. *)
LEMMA HwReceiveInv ==
  ASSUME ListInv, HwReceive
  PROVE  ListInv'
<1> USE DEF HwReceive, listVars
<1>h. PICK h : h = hwNext
  OBVIOUS
<1> USE <1>h
<1>0. /\ pc # "clear" /\ h \in Live /\ h \in Desc /\ ~eof[h] /\ head # Null
      /\ h # taken /\ head \in Live /\ hwLink \in Desc \cup {Null}
  BY DEF ListInv, EngineAtFrontier, ChainShape, Live, TypeOK
<1>1. Live' = Live
  BY DEF Live
<1>2. TypeOK'
  BY <1>0, ConstantsAssumption DEF ListInv, TypeOK
<1>3. /\ eof'[h] = TRUE /\ frame'[h] = received + 1
      /\ \A e \in Desc : e # h => eof'[e] = eof[e] /\ frame'[e] = frame[e]
  BY <1>0 DEF ListInv, TypeOK
<1>4. ChainShape'
  BY <1>1 DEF ListInv, ChainShape, ClosedUnderNext
<1>5. TakenShape'
  BY <1>0, <1>3 DEF ListInv, TakenShape, TypeOK
<1>6. \A e \in Live : e \in Desc /\ (next[e] # Null => next[e] \in Live)
  BY DEF Live, ListInv, ChainShape
<1>7. next[h] # Null => next[h] # h /\ ~eof[next[h]] /\ ~eof'[next[h]]
  BY <1>0, <1>3, <1>6 DEF ListInv, CompletedFirst, EngineAtFrontier
<1>8. \A e \in Live : next[e] = h => eof[e]
  BY <1>0 DEF ListInv, EngineAtFrontier
<1>9. LastCompleted(h)' /\ \A e \in Live : LastCompleted(e)' => e = h
  <2>1. LastCompleted(h)'
    BY <1>3, <1>7 DEF LastCompleted
  <2>2. ASSUME NEW e \in Live, LastCompleted(e)', e # h PROVE FALSE
    <3>1. LastCompleted(e) /\ next[e] # h
      BY <1>3, <1>6, <2>2, <1>0, Markers DEF LastCompleted
    <3>2. eof[e]
      BY <3>1 DEF LastCompleted
    <3>3. PICK p \in Live : next[p] = h /\ LastCompleted(p)
      BY <1>0, <3>2, FrontierOfList
    <3> QED BY <3>1, <3>3 DEF ListInv, CompletedFirst
  <2> QED BY <2>1, <2>2
<1>10. CompletedFirst'
  <2>1. \A e \in Live : next[e] # Null /\ eof'[next[e]] => eof'[e]
    BY <1>3, <1>6, <1>8 DEF ListInv, CompletedFirst
  <2> QED BY <1>1, <1>9, <2>1 DEF CompletedFirst
<1>11. EngineAtFrontier'
  <2>1. CASE hwLink = Null
    BY <1>0, <1>1, <2>1, Markers DEF EngineAtFrontier
  <2>2. CASE hwLink \in Desc
    <3>1. hwLink = next[h] /\ hwLink # Null
      BY <2>2, Markers DEF ListInv, EngineAtFrontier
    <3>2. hwLink \in Live /\ ~eof'[hwLink]
      BY <1>0, <1>6, <1>7, <3>1
    <3>3. \A e \in Live : next[e] = hwLink => e = h
      BY <1>0, <3>1 DEF ListInv, ChainShape
    <3> QED BY <1>0, <1>1, <1>3, <3>1, <3>2, <3>3, Markers DEF EngineAtFrontier
  <2> QED BY <1>0, <2>1, <2>2
<1>12. FramesNumbered'
  <2>0. received \in Nat /\ received' = received + 1
    BY ConstantsAssumption DEF ListInv, TypeOK
  <2>1. \A e \in Live : eof'[e] => frame'[e] >= 1 /\ frame'[e] <= received'
    <3> SUFFICES ASSUME NEW e \in Live, eof'[e]
                 PROVE  frame'[e] >= 1 /\ frame'[e] <= received'
      OBVIOUS
    <3>1. frame[e] \in Nat
      BY <1>6, ConstantsAssumption DEF ListInv, TypeOK
    <3> QED BY <1>3, <1>6, <2>0, <3>1 DEF ListInv, FramesNumbered
  <2>2. ASSUME NEW e \in Live, eof'[e], next[e] # Null, eof'[next[e]]
        PROVE  frame'[next[e]] = frame'[e] + 1
    <3>1. e # h
      BY <1>7, <2>2
    <3>2. CASE next[e] = h
      BY <1>0, <1>3, <1>6, <1>8, <3>1, <3>2 DEF ListInv, FramesNumbered, LastCompleted
    <3>3. CASE next[e] # h
      BY <1>3, <1>6, <2>2, <3>1, <3>3 DEF ListInv, FramesNumbered
    <3> QED BY <3>2, <3>3
  <2>3. \A e \in Live : LastCompleted(e)' => frame'[e] = received'
    BY <1>3, <1>9
  <2>4. ASSUME taken # Null
        PROVE  /\ frame'[taken] >= 1
               /\ frame'[taken] <= received'
               /\ eof'[head] => frame'[head] = frame'[taken] + 1
               /\ ~eof'[head] => frame'[taken] = received'
    <3>1. taken \in Desc /\ frame'[taken] = frame[taken] /\ frame[taken] \in Nat
      BY <1>0, <1>3, <2>4, ConstantsAssumption DEF ListInv, TypeOK
    <3>2. eof'[head]
      BY <1>0, <1>3, <1>6, FrontierOfList
    <3>3. frame'[head] = frame[taken] + 1
      BY <1>0, <1>3, <1>6, <2>4, FrontierOfList DEF ListInv, FramesNumbered
    <3> QED BY <2>0, <2>4, <3>1, <3>2, <3>3 DEF ListInv, FramesNumbered
  <2> QED BY <1>1, <2>1, <2>2, <2>3, <2>4 DEF FramesNumbered
<1>13. NoSilentStall'
  BY <1>0, <1>3, <1>6, FrontierOfList DEF NoSilentStall
<1> QED BY <1>2, <1>4, <1>5, <1>10, <1>11, <1>12, <1>13 DEF ListInv

-----------------------------------------------------------------------------
(* Every step of the list and of the engine preserves the invariant. *)
LEMMA NextInv ==
  ASSUME ~ClearWhileReceiving, ListInv, [Next]_vars
  PROVE  ListInv'
<1>1. CASE TakeFirstIncomplete
  BY <1>1, TakeFirstIncompleteInv
<1>2. CASE TakeFirstUnlink
  BY <1>2, TakeFirstUnlinkInv
<1>3. CASE TakeFirstReturn
  BY <1>3, TakeFirstReturnInv
<1>4. CASE TakeFirstOnly
  BY <1>4, TakeFirstOnlyInv
<1>5. CASE \E d \in Desc : RecycleAppend(d)
  BY <1>5, RecycleAppendInv
<1>6. CASE \E d \in Desc : RecycleIntoEmpty(d)
  BY <1>6, RecycleIntoEmptyInv
<1>7. CASE RestartReturn
  BY <1>7, RestartReturnInv
<1>8. CASE ClearWalk
  BY <1>8, ClearWalkInv
<1>9. CASE ClearReload
  BY <1>9, ClearReloadInv
<1>10. CASE \E enabled \in BOOLEAN : SetRxStatus(enabled)
  BY <1>10, SetRxStatusInv
<1>11. CASE HwFetchLink
  BY <1>11, HwFetchLinkInv
<1>12. CASE HwReceive
  BY <1>12, HwReceiveInv
<1>13. CASE UNCHANGED vars
  <2>1. Live' = Live
    BY <1>13 DEF vars, Live
  <2> QED BY <1>13, <2>1 DEF vars, ListInv, TypeOK, ChainShape, ClosedUnderNext, TakenShape,
             CompletedFirst, LastCompleted, EngineAtFrontier, FramesNumbered, NoSilentStall
<1> QED BY <1>1, <1>2, <1>3, <1>4, <1>5, <1>6, <1>7, <1>8, <1>9, <1>10, <1>11, <1>12,
           <1>13 DEF Next

(* Chain, completion flags, engine and frame numbers agree in every state, *)
(* for every number of buffers, provided clear() only runs on a paused     *)
(* receiver.                                                               *)
THEOREM ListInvariant == ~ClearWhileReceiving => (Spec => []ListInv)
<1> SUFFICES ASSUME ~ClearWhileReceiving PROVE Spec => []ListInv
  OBVIOUS
<1>1. Init => ListInv
  BY InitInv
<1>2. ListInv /\ [Next]_vars => ListInv'
  BY NextInv
<1> QED BY <1>1, <1>2, PTL DEF Spec

(* Every variable keeps its type. *)
THEOREM TypeCorrect == ~ClearWhileReceiving => (Spec => []TypeOK)
<1> SUFFICES ASSUME ~ClearWhileReceiving PROVE Spec => []TypeOK
  OBVIOUS
<1>1. ListInv => TypeOK
  BY DEF ListInv
<1> QED BY <1>1, ListInvariant, PTL

(* The engine never aims at a borrowed buffer or at an unread frame. *)
THEOREM DmaSafety == ~ClearWhileReceiving => (Spec => []DmaTargetsFreeBuffer)
<1> SUFFICES ASSUME ~ClearWhileReceiving PROVE Spec => []DmaTargetsFreeBuffer
  OBVIOUS
<1>1. ListInv => DmaTargetsFreeBuffer
  BY DEF ListInv, EngineAtFrontier, DmaTargetsFreeBuffer
<1> QED BY <1>1, ListInvariant, PTL

(* A stopped engine leaves a completed frame at the head of the list. *)
THEOREM StallSafety == ~ClearWhileReceiving => (Spec => []NoSilentStall)
<1> SUFFICES ASSUME ~ClearWhileReceiving PROVE Spec => []NoSilentStall
  OBVIOUS
<1>1. ListInv => NoSilentStall
  BY DEF ListInv
<1> QED BY <1>1, ListInvariant, PTL

(* The chain from the head holds exactly the buffers nobody has taken. *)
THEOREM BufferSafety == ~ClearWhileReceiving => (Spec => []NoBufferLost)
<1> SUFFICES ASSUME ~ClearWhileReceiving PROVE Spec => []NoBufferLost
  OBVIOUS
<1>1. ListInv => NoBufferLost
  <2> SUFFICES ASSUME ListInv PROVE Chain = Live
    BY DEF NoBufferLost
  <2>1. CASE head = Null
    BY <2>1 DEF ListInv, ChainShape, Chain
  <2>2. CASE head # Null
    <3>1. Live \in SUBSET Desc /\ head \in Live /\ ClosedUnderNext(Live)
      BY <2>2 DEF ListInv, ChainShape, ClosedUnderNext, Live
    <3>2. Chain \subseteq Live
      BY <3>1 DEF Chain
    <3>3. Live \subseteq Chain
      BY <2>2, <3>1 DEF Chain, ListInv, ChainShape
    <3> QED BY <3>2, <3>3
  <2> QED BY <2>1, <2>2
<1> QED BY <1>1, ListInvariant, PTL

-----------------------------------------------------------------------------
(* The list implements the FIFO of frames. *)

(* The new list is an empty FIFO. *)
LEMMA FifoInit == Init => Fifo!Init
  BY ConstantsAssumption DEF Init, Fifo!Init, Consumed, Desc, Null

(* Handing a frame out is a Deliver step. *)
LEMMA FifoTakeFirstReturn ==
  ASSUME ListInv, TakeFirstReturn
  PROVE  Fifo!Deliver
<1>1. /\ taken # Null /\ taken \in Desc /\ head # Null /\ head \in Desc
      /\ frame[taken] \in Nat /\ received \in Nat
  BY Markers, ConstantsAssumption DEF ListInv, TypeOK, TakenShape, TakeFirstReturn
<1>2. Consumed = frame[taken] - 1
  BY DEF Consumed, TakeFirstReturn
<1>3. Consumed' = frame[taken]
  BY <1>1 DEF Consumed, TakeFirstReturn, ListInv, FramesNumbered
<1>4. frame[taken] >= 1 /\ frame[taken] <= received
  BY <1>1 DEF ListInv, FramesNumbered
<1> QED BY <1>1, <1>2, <1>3, <1>4 DEF Fifo!Deliver, TakeFirstReturn

(* Taking the only descriptor is a Deliver step too. *)
LEMMA FifoTakeFirstOnly ==
  ASSUME ListInv, TakeFirstOnly
  PROVE  Fifo!Deliver
<1>1. /\ head \in Live /\ head \in Desc /\ frame[head] \in Nat /\ received \in Nat
      /\ LastCompleted(head)
  BY ConstantsAssumption
  DEF ListInv, TypeOK, ChainShape, TakeFirstOnly, LastCompleted, Live
<1>2. Consumed = frame[head] - 1
  BY DEF Consumed, TakeFirstOnly
<1>3. Consumed' = received
  BY DEF Consumed, TakeFirstOnly
<1>4. frame[head] >= 1 /\ frame[head] = received
  BY <1>1 DEF ListInv, FramesNumbered, TakeFirstOnly
<1> QED BY <1>1, <1>2, <1>3, <1>4 DEF Fifo!Deliver, TakeFirstOnly

(* A clear is a Discard, or nothing when no frame waits. *)
LEMMA FifoClearWalk ==
  ASSUME ListInv, ClearWalk
  PROVE  Fifo!Discard \/ UNCHANGED Fifo!vars
<1>1. head \in Live /\ head \in Desc /\ received \in Nat /\ frame[head] \in Nat
  BY ConstantsAssumption DEF ListInv, TypeOK, ChainShape, ClearWalk, Live
<1>2. Consumed' = received /\ UNCHANGED <<received, out>>
  BY <1>1, CompletedRunAll DEF Consumed, ClearWalk, ListInv, TypeOK
<1>3. CASE eof[head]
  <2>1. Consumed = frame[head] - 1 /\ frame[head] >= 1 /\ frame[head] <= received
    BY <1>1, <1>3 DEF Consumed, ClearWalk, ListInv, FramesNumbered
  <2> QED BY <1>1, <1>2, <2>1 DEF Fifo!Discard
<1>4. CASE ~eof[head]
  BY <1>2, <1>4 DEF Consumed, ClearWalk, Fifo!vars
<1> QED BY <1>3, <1>4

(* A completed frame is an Arrive step. *)
LEMMA FifoHwReceive ==
  ASSUME ListInv, HwReceive
  PROVE  Fifo!Arrive
<1>1. /\ hwNext \in Live /\ hwNext \in Desc /\ ~eof[hwNext] /\ hwNext # taken
      /\ pc # "clear" /\ head # Null /\ head \in Desc /\ received \in Nat
      /\ hwNext # Null
  BY ConstantsAssumption
  DEF ListInv, EngineAtFrontier, ChainShape, TypeOK, Live, HwReceive
<1>2. Consumed' = Consumed
  <2>1. CASE pc = "take"
    BY <1>1, <2>1, Markers
    DEF Consumed, HwReceive, listVars, ListInv, TakenShape, TypeOK
  <2>2. CASE pc # "take" /\ eof[head]
    BY <1>1, <2>2 DEF Consumed, HwReceive, listVars, ListInv, TypeOK
  <2>3. CASE pc # "take" /\ ~eof[head]
    <3>1. hwNext = head
      BY <1>1, <2>3, FrontierOfList
    <3> QED BY <1>1, <2>3, <3>1 DEF Consumed, HwReceive, listVars, ListInv, TypeOK
  <2> QED BY <2>1, <2>2, <2>3
<1> QED BY <1>2 DEF Fifo!Arrive, HwReceive

(* Every step of the list is a step of the FIFO or leaves it as it is. *)
LEMMA FifoNext ==
  ASSUME ListInv, [Next]_vars
  PROVE  [Fifo!Next]_(Fifo!vars)
<1> USE DEF hwVars, listVars, Fifo!vars, Consumed
<1>1. CASE TakeFirstIncomplete
  BY <1>1 DEF TakeFirstIncomplete
<1>2. CASE TakeFirstUnlink
  BY <1>2 DEF TakeFirstUnlink
<1>3. CASE TakeFirstReturn
  BY <1>3, FifoTakeFirstReturn DEF Fifo!Next
<1>4. CASE TakeFirstOnly
  BY <1>4, FifoTakeFirstOnly DEF Fifo!Next
<1>5. ASSUME NEW d \in Desc, RecycleAppend(d) PROVE UNCHANGED Fifo!vars
  <2>1. head \in Desc /\ head # d
    BY <1>5 DEF RecycleAppend, ListInv, ChainShape, Live
  <2> QED BY <1>5, <2>1 DEF RecycleAppend, ListInv, TypeOK
<1>6. ASSUME NEW d \in Desc, RecycleIntoEmpty(d) PROVE UNCHANGED Fifo!vars
  BY <1>6 DEF RecycleIntoEmpty, ListInv, ChainShape, TypeOK
<1>7. CASE RestartReturn
  BY <1>7 DEF RestartReturn
<1>8. CASE ClearWalk
  BY <1>8, FifoClearWalk DEF Fifo!Next
<1>9. CASE ClearReload
  BY <1>9 DEF ClearReload
<1>10. CASE \E enabled \in BOOLEAN : SetRxStatus(enabled)
  BY <1>10 DEF SetRxStatus
<1>11. CASE HwFetchLink
  BY <1>11 DEF HwFetchLink
<1>12. CASE HwReceive
  BY <1>12, FifoHwReceive DEF Fifo!Next
<1>13. CASE UNCHANGED vars
  BY <1>13 DEF vars
<1> QED BY <1>1, <1>2, <1>3, <1>4, <1>5, <1>6, <1>7, <1>8, <1>9, <1>10, <1>11, <1>12,
           <1>13 DEF Next

(* Each completed frame is handed out once, in the order of completion,    *)
(* unless a clear discards it: the list refines the FIFO.                  *)
THEOREM FifoRefinement == ~ClearWhileReceiving => (Spec => ImplementsFifo)
<1> SUFFICES ASSUME ~ClearWhileReceiving PROVE Spec => Fifo!Spec
  BY DEF ImplementsFifo
<1>1. Init => Fifo!Init
  BY FifoInit
<1>2. ListInv /\ [Next]_vars => [Fifo!Next]_(Fifo!vars)
  BY FifoNext
<1> QED BY <1>1, <1>2, ListInvariant, PTL DEF Spec, Fifo!Spec
=============================================================================
