----------------------- MODULE OutboxPublisher_proofs -----------------------
(***************************************************************************)
(* Proofs about OutboxPublisher, for any orders, workers, batch size and   *)
(* number of attempts and of faults.                                       *)
(***************************************************************************)
EXTENDS OutboxPublisher, TLAPS

(* The events are the pairs of an order and a version, everywhere below. *)
USE DEF Events

----------------------------------------------------------------------------
(* Types *)

(* A pass settles events it claimed: what it sends is in its batch. *)
CurInBatch ==
    \A w \in Workers :
        pc[w] \in {"sending", "landed", "acked", "failed"} => cur[w] \in batch[w]

Typed == TypeOK /\ CurInBatch

(* The types of the variables Continue assigns. *)
PassTyped ==
    /\ pc \in [Workers -> {"idle", "choosing", "sending", "landed", "acked", "failed", "releasing"}]
    /\ batch \in [Workers -> SUBSET Events]
    /\ cur \in [Workers -> Events \cup {NULL}]
    /\ clock \in [Workers -> {"fresh", "overdue"}]
    /\ alive \in [Workers -> BOOLEAN]
    /\ attemptsRead \in [Workers -> [Events -> Nat]]
    /\ charged \in [Workers -> Nat]
    /\ CurInBatch

LEMMA ContinueTyped ==
    ASSUME Typed, NEW w \in Workers, NEW rest, rest \subseteq Events, Continue(w, rest)
    PROVE  PassTyped'
<1>1. /\ pc' \in [Workers -> {"idle", "choosing", "sending", "landed", "acked", "failed",
                              "releasing"}]
      /\ batch' \in [Workers -> SUBSET Events]
      /\ cur' \in [Workers -> Events \cup {NULL}]
      /\ clock' \in [Workers -> {"fresh", "overdue"}]
      /\ charged' \in [Workers -> Nat]
  BY DEF Typed, TypeOK, Continue
<1>2. alive' \in [Workers -> BOOLEAN]
  BY DEF Typed, TypeOK, Continue
<1>3. attemptsRead' \in [Workers -> [Events -> Nat]]
  BY DEF Typed, TypeOK, Continue
<1>4. CurInBatch'
  BY DEF Typed, TypeOK, CurInBatch, Continue
<1> QED  BY <1>1, <1>2, <1>3, <1>4 DEF PassTyped

LEMMA TypedInit == Init => Typed
<1> SUFFICES ASSUME Init PROVE Typed
  OBVIOUS
<1>1. committed \in [Orders -> 0 .. LastVersion] /\ faults \in 0 .. MaxFaults
  BY ConstantsAssumption DEF Init
<1>2. CurInBatch
  BY DEF Init, CurInBatch
<1>3. attempts \in [Events -> Nat] /\ attemptsRead \in [Workers -> [Events -> Nat]]
  BY DEF Init
<1>4. owner \in [Events -> Workers \cup {NULL}] /\ lapsed \subseteq {e \in Events : owner[e] # NULL}
  BY DEF Init
<1> QED
  BY <1>1, <1>2, <1>3, <1>4 DEF Init, Typed, TypeOK

LEMMA TypedStep == Typed /\ [Next]_vars => Typed'
<1> SUFFICES ASSUME Typed, [Next]_vars PROVE Typed'
  OBVIOUS
<1> USE DEF Typed, rowVars, topicVars, passVars, switchVars
<1> USE ConstantsAssumption
<1>1. ASSUME NEW o \in Orders, Commit(o) PROVE Typed'
  BY <1>1 DEF TypeOK, CurInBatch, Commit
<1>2. ASSUME NEW w \in Workers, Claim(w) PROVE Typed'
  BY <1>2 DEF TypeOK, CurInBatch, Claim
<1>3. ASSUME NEW w \in Workers, Send(w) PROVE Typed'
  BY <1>3 DEF TypeOK, CurInBatch, Send
<1>4. ASSUME NEW w \in Workers, GiveUp(w) PROVE Typed'
  BY <1>4 DEF TypeOK, CurInBatch, GiveUp, Goto
<1>5. ASSUME NEW w \in Workers, Acknowledged(w) PROVE Typed'
  BY <1>5 DEF TypeOK, CurInBatch, Acknowledged, Goto
<1>6. ASSUME NEW w \in Workers, Overrun(w) PROVE Typed'
  BY <1>6 DEF TypeOK, CurInBatch, Overrun, InFlight, AbandonSend, EndOwnSession
<1>7. ASSUME NEW w \in Workers, MarkPublished(w) PROVE Typed'
  <2>1. cur[w] \in Events /\ batch[w] \ {cur[w]} \subseteq Events
    BY <1>7 DEF TypeOK, CurInBatch, MarkPublished
  <2>2. PassTyped'
    BY <1>7, <2>1, ContinueTyped DEF MarkPublished
  <2> QED
    BY <1>7, <2>1, <2>2 DEF TypeOK, PassTyped, MarkPublished, ClearClaim, Disown
<1>8. ASSUME NEW w \in Workers, RecordFailure(w) PROVE Typed'
  <2>1. cur[w] \in Events /\ batch[w] \ {cur[w]} \subseteq Events
    BY <1>8 DEF TypeOK, CurInBatch, RecordFailure
  <2>2. PassTyped'
    BY <1>8, <2>1, ContinueTyped DEF RecordFailure
  <2>3. attempts' \in [Events -> Nat]
    BY <1>8, <2>1 DEF TypeOK, RecordFailure
  <2>4. dead' \subseteq everDead' /\ everDead' \subseteq Events
    BY <1>8, <2>1 DEF TypeOK, RecordFailure
  <2>5. /\ owner' \in [Events -> Workers \cup {NULL}]
        /\ lapsed' \subseteq {e \in Events : owner'[e] # NULL}
        /\ disowned' \subseteq Events
    BY <1>8, <2>1 DEF TypeOK, RecordFailure, ClearClaim, Disown
  <2> QED
    BY <1>8, <2>2, <2>3, <2>4, <2>5 DEF TypeOK, PassTyped, RecordFailure
<1>9. ASSUME NEW w \in Workers, Release(w) PROVE Typed'
  <2>1. PassTyped'
    BY <1>9, ContinueTyped DEF Release, EndPass
  <2> QED
    BY <1>9, <2>1 DEF TypeOK, PassTyped, Release, Releasable
<1>10. ASSUME NEW w \in Workers, Land(w) PROVE Typed'
  BY <1>10 DEF TypeOK, CurInBatch, Land, AppendRecord, Goto
<1>11. ASSUME NEW w \in Workers, Rejected(w) PROVE Typed'
  BY <1>11 DEF TypeOK, CurInBatch, Rejected, Goto
<1>12. ASSUME NEW w \in Workers, Failed(w) PROVE Typed'
  BY <1>12 DEF TypeOK, CurInBatch, Failed, InFlight, AbandonSend, EndOwnSession
<1>13. ASSUME NEW w \in Workers, TearDown(w) \/ Connect(w) \/ Poll(w) PROVE Typed'
  BY <1>13 DEF TypeOK, CurInBatch, TearDown, Connect, Poll
<1>14. ASSUME NEW w \in Workers, StatementFails(w) PROVE Typed'
  <2>1. PassTyped'
    BY <1>14, ContinueTyped DEF StatementFails, EndPass
  <2> QED
    BY <1>14, <2>1 DEF TypeOK, PassTyped, StatementFails, Fault
<1>15. ASSUME NEW w \in Workers, Crash(w) PROVE Typed'
  <2>1. PassTyped'
    BY <1>15, ContinueTyped DEF Crash, EndPass
  <2>2. stray' \subseteq Events /\ onTopic' = onTopic /\ late' = late
    BY <1>15 DEF TypeOK, CurInBatch, Crash, AbandonSend
  <2>3. faults' \in 0 .. MaxFaults /\ session' \in [Workers -> {"none", "up", "dead"}]
    BY <1>15 DEF TypeOK, Crash, Fault
  <2>4. UNCHANGED <<committed, published, dead, due, owner, lapsed, attempts, paused, pauseSeen,
                    everDead, disowned>>
    BY <1>15 DEF Crash
  <2> QED
    BY <2>1, <2>2, <2>3, <2>4 DEF TypeOK, PassTyped
<1>16. ASSUME NEW w \in Workers, BudgetSpent(w) PROVE Typed'
  BY <1>16 DEF TypeOK, CurInBatch, BudgetSpent, Fault
<1>17. ASSUME NEW w \in Workers, SessionDies(w) PROVE Typed'
  BY <1>17 DEF TypeOK, CurInBatch, SessionDies, Fault
<1>18. ASSUME NEW e \in Events, LandStray(e) PROVE Typed'
  BY <1>18 DEF TypeOK, CurInBatch, LandStray, AppendRecord
<1>19. ASSUME NEW e \in Events, LeaseLapses(e) \/ BackoffElapses(e) PROVE Typed'
  BY <1>19 DEF TypeOK, CurInBatch, LeaseLapses, BackoffElapses
<1>20. ASSUME NEW e \in Events, Replay(e) PROVE Typed'
  BY <1>20 DEF TypeOK, CurInBatch, Replay, ClearClaim, Fault
<1>21. ASSUME SetPaused PROVE Typed'
  BY <1>21 DEF TypeOK, CurInBatch, SetPaused, Fault
<1>22. ASSUME UNCHANGED vars PROVE Typed'
  BY <1>22 DEF TypeOK, CurInBatch, vars
<1> QED
  BY <1>1, <1>2, <1>3, <1>4, <1>5, <1>6, <1>7, <1>8, <1>9, <1>10, <1>11, <1>12, <1>13, <1>14,
     <1>15, <1>16, <1>17, <1>18, <1>19, <1>20, <1>21, <1>22
  DEF Next, PassStep, BrokerStep, Supervise, FaultStep

(* Every reachable state is well typed. *)
THEOREM TypeCorrect == Spec => []TypeOK
<1>1. Spec => []Typed
  BY TypedInit, TypedStep, PTL DEF Spec
<1> QED
  BY <1>1, PTL DEF Typed
----------------------------------------------------------------------------
(* Footprints: which steps touch the variables the invariants speak of *)

LEMMA TopicFootprint ==
    ASSUME [Next]_vars
    PROVE  \/ \E o \in Orders : Commit(o)
           \/ \E w \in Workers : Land(w)
           \/ \E e \in Events : LandStray(e)
           \/ \E w \in Workers : RecordFailure(w)
           \/ UNCHANGED <<committed, onTopic, late, everDead>>
<1> USE DEF rowVars, topicVars, passVars, switchVars
<1>1. ASSUME NEW w \in Workers, Claim(w) \/ Send(w) \/ GiveUp(w) \/ Acknowledged(w)
      PROVE  UNCHANGED <<committed, onTopic, late, everDead>>
  BY <1>1 DEF Claim, Send, GiveUp, Acknowledged
<1>2. ASSUME NEW w \in Workers, Overrun(w) \/ MarkPublished(w) \/ Release(w)
      PROVE  UNCHANGED <<committed, onTopic, late, everDead>>
  BY <1>2 DEF Overrun, MarkPublished, Release, AbandonSend
<1>3. ASSUME NEW w \in Workers, Rejected(w) \/ Failed(w) \/ Supervise(w) \/ FaultStep(w)
      PROVE  UNCHANGED <<committed, onTopic, late, everDead>>
  BY <1>3 DEF Rejected, Failed, Supervise, TearDown, Connect, Poll, FaultStep, StatementFails,
              Crash, BudgetSpent, SessionDies, AbandonSend
<1>4. ASSUME NEW e \in Events, LeaseLapses(e) \/ BackoffElapses(e) \/ Replay(e)
      PROVE  UNCHANGED <<committed, onTopic, late, everDead>>
  BY <1>4 DEF LeaseLapses, BackoffElapses, Replay
<1>5. ASSUME SetPaused \/ UNCHANGED vars
      PROVE  UNCHANGED <<committed, onTopic, late, everDead>>
  BY <1>5 DEF SetPaused, vars
<1> QED
  BY <1>1, <1>2, <1>3, <1>4, <1>5 DEF Next, PassStep, BrokerStep

(* A send that is given up is the only thing that adds a stray copy. *)
LEMMA StrayFootprint ==
    ASSUME [Next]_vars
    PROVE  stray' \subseteq stray
           \/ \E w \in Workers : pc[w] = "sending" /\ stray' = stray \cup {cur[w]}
<1> USE DEF rowVars, topicVars, passVars, switchVars
<1>1. ASSUME NEW w \in Workers, PassStep(w)
      PROVE  stray' \subseteq stray \/ (pc[w] = "sending" /\ stray' = stray \cup {cur[w]})
  BY <1>1 DEF PassStep, Claim, Send, GiveUp, Acknowledged, Overrun, MarkPublished,
              RecordFailure, Release, AbandonSend
<1>2. ASSUME NEW w \in Workers, BrokerStep(w) \/ Supervise(w)
      PROVE  stray' \subseteq stray \/ (pc[w] = "sending" /\ stray' = stray \cup {cur[w]})
  BY <1>2 DEF BrokerStep, Land, Rejected, Failed, Supervise, TearDown, Connect, Poll, AbandonSend
<1>3. ASSUME NEW w \in Workers, FaultStep(w)
      PROVE  stray' \subseteq stray \/ (pc[w] = "sending" /\ stray' = stray \cup {cur[w]})
  BY <1>3 DEF FaultStep, StatementFails, Crash, BudgetSpent, SessionDies, AbandonSend
<1>4. ASSUME NEW e \in Events,
             LandStray(e) \/ LeaseLapses(e) \/ BackoffElapses(e) \/ Replay(e)
      PROVE  stray' \subseteq stray
  BY <1>4 DEF LandStray, LeaseLapses, BackoffElapses, Replay
<1>5. ASSUME SetPaused \/ UNCHANGED vars \/ \E o \in Orders : Commit(o)
      PROVE  stray' \subseteq stray
  BY <1>5 DEF SetPaused, vars, Commit
<1> QED
  BY <1>1, <1>2, <1>3, <1>4, <1>5 DEF Next

(* A batch grows by a claim only. *)
LEMMA BatchFootprint ==
    ASSUME Typed, [Next]_vars, NEW v \in Workers
    PROVE  batch'[v] \subseteq batch[v] \/ Claim(v)
<1> USE DEF rowVars, topicVars, passVars, switchVars, Typed, TypeOK
<1>1. ASSUME NEW w \in Workers, Claim(w)
      PROVE  batch'[v] \subseteq batch[v] \/ Claim(v)
  <2>1. CASE v = w
    BY <1>1, <2>1
  <2>2. CASE v # w
    BY <1>1, <2>2 DEF Claim
  <2> QED
    BY <2>1, <2>2
<1>2. ASSUME NEW w \in Workers, Send(w) \/ GiveUp(w) \/ Acknowledged(w) \/ Overrun(w)
      PROVE  batch'[v] \subseteq batch[v]
  BY <1>2 DEF Send, GiveUp, Acknowledged, Overrun, Goto
<1>3. ASSUME NEW w \in Workers, MarkPublished(w) \/ RecordFailure(w) \/ Release(w)
      PROVE  batch'[v] \subseteq batch[v]
  BY <1>3 DEF MarkPublished, RecordFailure, Release, EndPass, Continue
<1>4. ASSUME NEW w \in Workers, BrokerStep(w) \/ Supervise(w)
      PROVE  batch'[v] \subseteq batch[v]
  BY <1>4 DEF BrokerStep, Land, Rejected, Failed, Supervise, TearDown, Connect, Poll, Goto
<1>5. ASSUME NEW w \in Workers, FaultStep(w)
      PROVE  batch'[v] \subseteq batch[v]
  BY <1>5 DEF FaultStep, StatementFails, Crash, BudgetSpent, SessionDies, EndPass, Continue
<1>6. ASSUME NEW e \in Events,
             LandStray(e) \/ LeaseLapses(e) \/ BackoffElapses(e) \/ Replay(e)
      PROVE  batch'[v] \subseteq batch[v]
  BY <1>6 DEF LandStray, LeaseLapses, BackoffElapses, Replay
<1>7. ASSUME SetPaused \/ UNCHANGED vars \/ \E o \in Orders : Commit(o)
      PROVE  batch'[v] \subseteq batch[v]
  BY <1>7 DEF SetPaused, vars, Commit
<1> QED
  BY <1>1, <1>2, <1>3, <1>4, <1>5, <1>6, <1>7 DEF Next, PassStep

----------------------------------------------------------------------------
(* Order *)

MayFollow(e) == Exists(e) /\ Earlier(e) \subseteq onTopic \cup everDead

(* What was handed to the broker, and is not known to have failed, is on   *)
(* the topic.                                                              *)
AckedIsOnTopic == \A w \in Workers : pc[w] \in {"landed", "acked"} => cur[w] \in onTopic

(* Wherever an event is on its way, its predecessors are done with.        *)
OrderInv ==
    /\ PublishedIsOnTopic
    /\ AckedIsOnTopic
    /\ \A e \in onTopic \cup stray : MayFollow(e)
    /\ \A w \in Workers : \A e \in batch[w] : MayFollow(e)
    /\ late \subseteq everDead

LEMMA MayFollowStable ==
    ASSUME Typed, [Next]_vars, NEW e \in Events, MayFollow(e)
    PROVE  MayFollow(e)'
<1>1. onTopic \subseteq onTopic' /\ everDead \subseteq everDead'
  BY TopicFootprint DEF Commit, Land, LandStray, AppendRecord, RecordFailure, topicVars
<1>2. e[1] \in Orders /\ e[2] \in 1 .. LastVersion
  OBVIOUS
<1>3. committed'[e[1]] = committed[e[1]] \/ committed'[e[1]] = committed[e[1]] + 1
  <2>1. CASE \E o \in Orders : Commit(o)
    BY <1>2, <2>1 DEF Typed, TypeOK, Commit
  <2>2. CASE committed' = committed
    BY <2>2
  <2> QED
    BY <2>1, <2>2, TopicFootprint DEF Land, LandStray, RecordFailure, rowVars
<1>4. Exists(e)'
  BY <1>2, <1>3, ConstantsAssumption DEF MayFollow, Exists, Typed, TypeOK
<1> QED
  BY <1>1, <1>4 DEF MayFollow, Earlier

LEMMA OrderInit == Init => OrderInv
  BY DEF Init, OrderInv, PublishedIsOnTopic, AckedIsOnTopic

LEMMA OrderStep ==
    ASSUME Typed, OrderInv, [Next]_vars
    PROVE  OrderInv'
<1> USE DEF rowVars, topicVars, passVars, switchVars
<1> DEFINE InPass == \A w \in Workers : \A e \in batch[w] : MayFollow(e)
<1>1. onTopic \subseteq onTopic' /\ everDead \subseteq everDead'
  BY TopicFootprint DEF Commit, Land, LandStray, AppendRecord, RecordFailure
<1>2. \A w \in Workers : batch[w] \subseteq Events
  BY DEF Typed, TypeOK
<1>3. PublishedIsOnTopic'
  <2>1. published' \subseteq published \/ \E w \in Workers : MarkPublished(w)
    <3>1. ASSUME NEW w \in Workers, PassStep(w)
          PROVE  published' \subseteq published \/ MarkPublished(w)
      BY <3>1 DEF PassStep, Claim, Send, GiveUp, Acknowledged, Overrun, RecordFailure, Release
    <3>2. ASSUME NEW w \in Workers, BrokerStep(w) \/ Supervise(w) \/ FaultStep(w)
          PROVE  published' \subseteq published
      BY <3>2 DEF BrokerStep, Land, Rejected, Failed, Supervise, TearDown, Connect, Poll,
                  FaultStep, StatementFails, Crash, BudgetSpent, SessionDies
    <3>3. ASSUME NEW e \in Events,
                 LandStray(e) \/ LeaseLapses(e) \/ BackoffElapses(e) \/ Replay(e)
          PROVE  published' \subseteq published
      BY <3>3 DEF LandStray, LeaseLapses, BackoffElapses, Replay
    <3>4. ASSUME SetPaused \/ UNCHANGED vars \/ \E o \in Orders : Commit(o)
          PROVE  published' \subseteq published
      BY <3>4 DEF SetPaused, vars, Commit
    <3> QED
      BY <3>1, <3>2, <3>3, <3>4 DEF Next
  <2>2. ASSUME NEW w \in Workers, MarkPublished(w) PROVE published' \subseteq onTopic
    BY <2>2 DEF MarkPublished, OrderInv, PublishedIsOnTopic, AckedIsOnTopic
  <2> QED
    BY <1>1, <2>1, <2>2 DEF OrderInv, PublishedIsOnTopic
<1>4. AckedIsOnTopic'
  <2> USE DEF AckedIsOnTopic, OrderInv, Typed, TypeOK
  <2>1. ASSUME NEW w \in Workers, Claim(w) \/ Send(w) \/ GiveUp(w) \/ Acknowledged(w) \/ Overrun(w)
        PROVE  AckedIsOnTopic'
    BY <2>1 DEF Claim, Send, GiveUp, Acknowledged, Overrun, AbandonSend, Goto
  <2>2. ASSUME NEW w \in Workers, MarkPublished(w) \/ RecordFailure(w) \/ Release(w)
        PROVE  AckedIsOnTopic'
    BY <2>2 DEF MarkPublished, RecordFailure, Release, EndPass, Continue
  <2>3. ASSUME NEW w \in Workers, BrokerStep(w) \/ Supervise(w)
        PROVE  AckedIsOnTopic'
    BY <2>3 DEF BrokerStep, Land, Rejected, Failed, Supervise, TearDown, Connect, Poll, Goto,
                AppendRecord, AbandonSend
  <2>4. ASSUME NEW w \in Workers, FaultStep(w)
        PROVE  AckedIsOnTopic'
    BY <2>4 DEF FaultStep, StatementFails, Crash, BudgetSpent, SessionDies, EndPass, Continue,
                AbandonSend
  <2>5. ASSUME NEW e \in Events,
               LandStray(e) \/ LeaseLapses(e) \/ BackoffElapses(e) \/ Replay(e)
        PROVE  AckedIsOnTopic'
    BY <2>5 DEF LandStray, LeaseLapses, BackoffElapses, Replay, AppendRecord
  <2>6. ASSUME SetPaused \/ UNCHANGED vars \/ \E o \in Orders : Commit(o)
        PROVE  AckedIsOnTopic'
    BY <2>6 DEF SetPaused, vars, Commit
  <2> QED
    BY <2>1, <2>2, <2>3, <2>4, <2>5, <2>6 DEF Next, PassStep
<1>5. \A e \in onTopic' \cup stray' : MayFollow(e)'
  <2>1. onTopic' \subseteq onTopic \cup stray \cup UNION {batch[w] : w \in Workers}
    <3>1. ASSUME NEW w \in Workers, Land(w)
          PROVE  onTopic' \subseteq onTopic \cup batch[w]
      BY <3>1 DEF Land, AppendRecord, Typed, CurInBatch
    <3>2. ASSUME NEW e \in Events, LandStray(e)
          PROVE  onTopic' \subseteq onTopic \cup stray
      BY <3>2 DEF LandStray, AppendRecord
    <3>3. ASSUME NEW w \in Workers, RecordFailure(w)
          PROVE  onTopic' \subseteq onTopic
      BY <3>3 DEF RecordFailure
    <3>4. ASSUME NEW o \in Orders, Commit(o)
          PROVE  onTopic' \subseteq onTopic
      BY <3>4 DEF Commit
    <3> QED
      BY <3>1, <3>2, <3>3, <3>4, TopicFootprint
  <2>2. stray' \subseteq stray \cup UNION {batch[w] : w \in Workers}
    BY StrayFootprint DEF Typed, CurInBatch
  <2>3. ASSUME NEW e \in onTopic' \cup stray' PROVE e \in Events /\ MayFollow(e)
    BY <1>2, <2>1, <2>2 DEF OrderInv, Typed, TypeOK
  <2> QED
    BY <2>3, MayFollowStable
<1>6. InPass'
  <2> SUFFICES ASSUME NEW w \in Workers, NEW e \in batch'[w] PROVE MayFollow(e)'
    OBVIOUS
  <2>1. CASE e \in batch[w]
    BY <1>2, <2>1, MayFollowStable DEF OrderInv
  <2>2. CASE Claim(w)
    <3>1. e \in Events /\ (e \notin batch[w] => Claimable(e))
      BY <2>2 DEF Claim, Typed, TypeOK
    <3>2. CASE Claimable(e)
      <4>1. Exists(e)
        BY <3>2 DEF Claimable, Unsettled
      <4>2. ASSUME NEW f \in Earlier(e) PROVE f \in onTopic \cup everDead
        <5>1. Exists(f)
          BY <3>1, <4>1, ConstantsAssumption DEF Earlier, Exists, Typed, TypeOK
        <5>2. ~Unsettled(f)
          BY <3>2 DEF Claimable
        <5> QED
          BY <5>1, <5>2 DEF Unsettled, OrderInv, PublishedIsOnTopic, Typed, TypeOK
      <4> QED
        BY <3>1, <4>1, <4>2, MayFollowStable DEF MayFollow
    <3> QED
      BY <2>1, <3>1, <3>2
  <2> QED
    BY <2>1, <2>2, BatchFootprint
<1>7. late' \subseteq everDead'
  <2>1. ASSUME NEW e \in Events, AppendRecord(e) PROVE late' \subseteq everDead
    <3>1. CASE e \notin onTopic /\ \E f \in onTopic : e \in Earlier(f)
      <4>1. e \in everDead
        BY <3>1 DEF OrderInv, MayFollow
      <4> QED
        BY <2>1, <3>1, <4>1 DEF AppendRecord, OrderInv
    <3> QED
      BY <2>1, <3>1 DEF AppendRecord, OrderInv
  <2>2. ASSUME NEW w \in Workers, Land(w) PROVE late' \subseteq everDead
    BY <1>2, <2>1, <2>2 DEF Land, Typed, CurInBatch
  <2>3. ASSUME NEW e \in Events, LandStray(e) PROVE late' \subseteq everDead
    BY <2>1, <2>3 DEF LandStray
  <2> QED
    BY <1>1, <2>2, <2>3, TopicFootprint DEF Commit, RecordFailure, OrderInv
<1> QED
  BY <1>3, <1>4, <1>5, <1>6, <1>7 DEF OrderInv

LEMMA OrderInvariant == Spec => [](Typed /\ OrderInv)
  BY TypedInit, TypedStep, OrderInit, OrderStep, PTL DEF Spec

(* At-least-once: a published row has a record on the topic. *)
THEOREM PublishedOnlyWhenRecorded == Spec => []PublishedIsOnTopic
<1>1. OrderInv => PublishedIsOnTopic
  BY DEF OrderInv
<1> QED
  BY <1>1, OrderInvariant, PTL

(* Per-order ordering, with any number of workers, retries, lost sessions, *)
(* crashes and late copies.                                                *)
THEOREM EventsInOrder == Spec => []OrderKept
<1>1. OrderInv => OrderKept
  BY DEF OrderInv, OrderKept, MayFollow
<1> QED
  BY <1>1, OrderInvariant, PTL

----------------------------------------------------------------------------
(* Refinement *)

LEMMA LogStep ==
    ASSUME Typed, OrderInv, [Next]_vars
    PROVE  [Log!Next]_(Log!vars)
<1> USE DEF Log!Next, Log!vars, Log!Events, Log!Exists, Log!MayFollow, Log!Earlier
<1>1. ASSUME NEW o \in Orders, Commit(o) PROVE Log!Next
  BY <1>1 DEF Commit, Log!Append, topicVars
<1>2. ASSUME NEW e \in Events, MayFollow(e), AppendRecord(e), UNCHANGED <<committed, everDead>>
      PROVE  Log!Next
  BY <1>2 DEF AppendRecord, Log!Deliver, MayFollow, Exists, Earlier
<1>3. ASSUME NEW w \in Workers, Land(w) PROVE Log!Next
  <2>1. cur[w] \in Events /\ MayFollow(cur[w])
    BY <1>3 DEF Land, Typed, TypeOK, CurInBatch, OrderInv
  <2> QED
    BY <1>2, <1>3, <2>1 DEF Land, rowVars
<1>4. ASSUME NEW e \in Events, LandStray(e) PROVE Log!Next
  <2>1. MayFollow(e)
    BY <1>4 DEF LandStray, OrderInv
  <2> QED
    BY <1>2, <1>4, <2>1 DEF LandStray, rowVars
<1>5. ASSUME NEW w \in Workers, RecordFailure(w) PROVE [Log!Next]_(Log!vars)
  <2>1. cur[w] \in Events /\ MayFollow(cur[w])
    BY <1>5 DEF RecordFailure, Typed, TypeOK, CurInBatch, OrderInv
  <2> QED
    BY <1>5, <2>1 DEF RecordFailure, Log!Abandon, MayFollow, Exists, Earlier, topicVars
<1> QED
  BY <1>1, <1>3, <1>4, <1>5, TopicFootprint

(* The publisher implements the ordered event log. *)
THEOREM Refinement == Spec => ImplementsLog
<1>1. Init => Log!Init
  BY DEF Init, Log!Init
<1> QED
  BY <1>1, LogStep, OrderInvariant, PTL DEF Spec, ImplementsLog, Log!Spec

----------------------------------------------------------------------------
(* Exclusion *)

(* A pass within its budget owns what it holds, unless it was disowned;    *)
(* and a published row has no claim, so a replay takes none away.          *)
HeldInv ==
    /\ \A e \in published : owner[e] = NULL
    /\ \A w \in Workers : \A e \in batch[w] :
        clock[w] = "fresh" => e \in disowned \/ (owner[e] = w /\ e \notin lapsed)

LEMMA HeldInit == Init => HeldInv
  BY DEF Init, HeldInv

LEMMA HeldStep ==
    ASSUME Typed, HeldInv, [Next]_vars
    PROVE  HeldInv'
<1> USE DEF Typed, rowVars, topicVars, passVars, switchVars
<1> USE ConstantsAssumption
<1>1. ASSUME NEW w \in Workers, Claim(w) PROVE HeldInv'
  <2>1. PICK claim \in SUBSET {e \in Events : Claimable(e)} :
          /\ owner' = [e \in Events |-> IF e \in claim THEN w ELSE owner[e]]
          /\ lapsed' = lapsed \ claim
          /\ batch' = [batch EXCEPT ![w] = claim]
    BY <1>1 DEF Claim
  <2>2. UNCHANGED <<published, clock, disowned>>
    BY <1>1 DEF Claim
  <2>3. \A e \in published' : owner'[e] = NULL
    BY <2>1, <2>2 DEF HeldInv, TypeOK, Claimable, Unsettled
  <2>4. ASSUME NEW v \in Workers, NEW e \in batch'[v], clock'[v] = "fresh", e \notin disowned'
        PROVE  owner'[e] = v /\ e \notin lapsed'
    <3>1. CASE v = w
      BY <2>1, <3>1 DEF TypeOK
    <3>2. CASE v # w
      <4>1. e \in Events /\ owner[e] = v /\ e \notin lapsed
        BY <2>1, <2>2, <2>4, <3>2 DEF HeldInv, TypeOK
      <4>2. e \notin claim
        BY <2>1, <4>1 DEF Claimable
      <4> QED
        BY <2>1, <4>1, <4>2
    <3> QED
      BY <3>1, <3>2
  <2> QED
    BY <2>3, <2>4 DEF HeldInv
<1>2. ASSUME NEW w \in Workers, Send(w) \/ GiveUp(w) \/ Acknowledged(w) \/ Overrun(w)
      PROVE  HeldInv'
  BY <1>2 DEF HeldInv, Send, GiveUp, Acknowledged, Overrun, Goto
<1>3. ASSUME NEW w \in Workers, NEW rest \in SUBSET batch[w],
             Continue(w, rest), UNCHANGED <<published, owner, lapsed, disowned>>
      PROVE  HeldInv'
  BY <1>3 DEF HeldInv, TypeOK, Continue
<1>4. ASSUME NEW w \in Workers, cur[w] \in batch[w], Continue(w, batch[w] \ {cur[w]}),
             ClearClaim(cur[w]), Disown(w, cur[w]),
             published' \subseteq published \cup {cur[w]}
      PROVE  HeldInv'
  <2>1. /\ cur[w] \in Events
        /\ \A e \in Events : owner'[e] = IF e = cur[w] THEN NULL ELSE owner[e]
        /\ lapsed' \subseteq lapsed /\ disowned \subseteq disowned'
    BY <1>4 DEF TypeOK, ClearClaim, Disown
  <2>2. \A e \in published' : owner'[e] = NULL
    BY <1>4, <2>1 DEF HeldInv, TypeOK
  <2>3. ASSUME NEW v \in Workers, NEW e \in batch'[v], clock'[v] = "fresh"
        PROVE  e \in disowned' \/ (owner'[e] = v /\ e \notin lapsed')
    <3>1. CASE v = w
      BY <1>4, <2>1, <2>3, <3>1 DEF HeldInv, TypeOK, Continue
    <3>2. CASE v # w
      <4>1. e \in Events /\ (e \in disowned \/ (owner[e] = v /\ e \notin lapsed))
        BY <1>4, <2>3, <3>2 DEF HeldInv, TypeOK, Continue
      <4> QED
        BY <1>4, <2>1, <3>2, <4>1 DEF Disown
    <3> QED
      BY <3>1, <3>2
  <2> QED
    BY <2>2, <2>3 DEF HeldInv
<1>5. ASSUME NEW w \in Workers, MarkPublished(w) PROVE HeldInv'
  BY <1>4, <1>5 DEF MarkPublished, CurInBatch
<1>6. ASSUME NEW w \in Workers, RecordFailure(w) PROVE HeldInv'
  BY <1>4, <1>6 DEF RecordFailure, CurInBatch
<1>7. ASSUME NEW w \in Workers, Release(w) PROVE HeldInv'
  <2>1. /\ batch' = [batch EXCEPT ![w] = {}]
        /\ clock' = [clock EXCEPT ![w] = "fresh"]
        /\ published' = published /\ disowned' = disowned
        /\ owner' = [e \in Events |-> IF Releasable(w, e) THEN NULL ELSE owner[e]]
        /\ lapsed' \subseteq lapsed
    BY <1>7 DEF Release, EndPass, Continue
  <2>2. \A e \in Events : owner[e] # w => owner'[e] = owner[e]
    BY <2>1 DEF Releasable
  <2>3. \A e \in published' : owner'[e] = NULL
    BY <2>1 DEF HeldInv, TypeOK
  <2>4. ASSUME NEW v \in Workers, NEW e \in batch'[v], clock'[v] = "fresh"
        PROVE  e \in disowned' \/ (owner'[e] = v /\ e \notin lapsed')
    <3>1. v # w /\ e \in batch[v] /\ e \in Events /\ clock[v] = "fresh"
      BY <2>1, <2>4 DEF TypeOK
    <3> QED
      BY <2>1, <2>2, <3>1 DEF HeldInv
  <2> QED
    BY <2>3, <2>4 DEF HeldInv
<1>8. ASSUME NEW w \in Workers, BrokerStep(w) \/ Supervise(w) PROVE HeldInv'
  BY <1>8 DEF HeldInv, BrokerStep, Land, Rejected, Failed, Supervise, TearDown, Connect, Poll, Goto
<1>9. ASSUME NEW w \in Workers, StatementFails(w) \/ Crash(w) PROVE HeldInv'
  BY <1>3, <1>9 DEF StatementFails, Crash, EndPass
<1>10. ASSUME NEW w \in Workers, BudgetSpent(w) \/ SessionDies(w) PROVE HeldInv'
  BY <1>10 DEF HeldInv, TypeOK, BudgetSpent, SessionDies
<1>11. ASSUME NEW e \in Events, LeaseLapses(e) PROVE HeldInv'
  BY <1>11 DEF HeldInv, TypeOK, LeaseLapses
<1>12. ASSUME NEW e \in Events, Replay(e) PROVE HeldInv'
  <2>1. owner' = owner /\ lapsed' \subseteq lapsed /\ published' \subseteq published
    BY <1>12 DEF HeldInv, TypeOK, Replay, ClearClaim
  <2> QED
    BY <1>12, <2>1 DEF HeldInv, Replay
<1>13. ASSUME NEW e \in Events, LandStray(e) \/ BackoffElapses(e) PROVE HeldInv'
  BY <1>13 DEF HeldInv, LandStray, BackoffElapses
<1>14. ASSUME SetPaused \/ UNCHANGED vars \/ \E o \in Orders : Commit(o) PROVE HeldInv'
  BY <1>14 DEF HeldInv, SetPaused, Commit, vars
<1> QED
  BY <1>1, <1>2, <1>5, <1>6, <1>7, <1>8, <1>9, <1>10, <1>11, <1>12, <1>13, <1>14
  DEF Next, PassStep, FaultStep

(* No two passes within their leases hold one event, unless a stale        *)
(* outcome cleared the claim of one of them.                               *)
THEOREM Exclusion == Spec => []ExclusiveWithinLease
<1>1. Spec => [](Typed /\ HeldInv)
  BY TypedInit, TypedStep, HeldInit, HeldStep, PTL DEF Spec
<1>2. HeldInv => ExclusiveWithinLease
  BY DEF HeldInv, ExclusiveWithinLease
<1> QED
  BY <1>1, <1>2, PTL

----------------------------------------------------------------------------
(* Outages *)

(* A pass that was charged has lost its session and sends no more.         *)
ChargeInv ==
    \A w \in Workers :
        /\ charged[w] \in {0, 1}
        /\ charged[w] = 1 => ~alive[w] /\ pc[w] \notin {"idle", "sending", "landed"}
        /\ pc[w] = "idle" => charged[w] = 0

LEMMA ChargeInit == Init => ChargeInv
  BY DEF Init, ChargeInv

LEMMA ChargeStep ==
    ASSUME Typed, ChargeInv, [Next]_vars
    PROVE  ChargeInv'
<1> USE DEF Typed, TypeOK, ChargeInv, rowVars, topicVars, passVars, switchVars
<1>1. ASSUME NEW w \in Workers, Claim(w) \/ Send(w) \/ GiveUp(w) PROVE ChargeInv'
  BY <1>1 DEF Claim, Send, GiveUp, MayGoOn, Goto
<1>2. ASSUME NEW w \in Workers, Acknowledged(w) \/ Overrun(w) \/ BrokerStep(w) PROVE ChargeInv'
  BY <1>2 DEF Acknowledged, Overrun, BrokerStep, Land, Rejected, Failed, InFlight,
              EndOwnSession, Goto
<1>3. ASSUME NEW w \in Workers, NEW rest, Continue(w, rest),
             pc[w] # "idle", charged[w] = 1 => ~alive[w]
      PROVE  ChargeInv'
  BY <1>3 DEF Continue
<1>4. ASSUME NEW w \in Workers,
             MarkPublished(w) \/ RecordFailure(w) \/ Release(w) \/ StatementFails(w) \/ Crash(w)
      PROVE  ChargeInv'
  BY <1>3, <1>4 DEF MarkPublished, RecordFailure, Release, StatementFails, Crash, EndPass
<1>5. ASSUME NEW w \in Workers, Supervise(w) \/ BudgetSpent(w) \/ SessionDies(w) PROVE ChargeInv'
  BY <1>5 DEF Supervise, TearDown, Connect, Poll, BudgetSpent, SessionDies
<1>6. ASSUME NEW e \in Events,
             LandStray(e) \/ LeaseLapses(e) \/ BackoffElapses(e) \/ Replay(e)
      PROVE  ChargeInv'
  BY <1>6 DEF LandStray, LeaseLapses, BackoffElapses, Replay
<1>7. ASSUME SetPaused \/ UNCHANGED vars \/ \E o \in Orders : Commit(o) PROVE ChargeInv'
  BY <1>7 DEF SetPaused, Commit, vars
<1> QED
  BY <1>1, <1>2, <1>4, <1>5, <1>6, <1>7 DEF Next, PassStep, FaultStep

(* ADR 011: a broker outage costs a pass one attempt at the most. *)
THEOREM OutagesAreCheap == Spec => []OutageCostsOneAttempt
<1>1. Spec => [](Typed /\ ChargeInv)
  BY TypedInit, TypedStep, ChargeInit, ChargeStep, PTL DEF Spec
<1>2. ChargeInv => OutageCostsOneAttempt
  BY DEF ChargeInv, OutageCostsOneAttempt
<1> QED
  BY <1>1, <1>2, PTL
=============================================================================
