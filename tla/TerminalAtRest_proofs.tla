------------------------ MODULE TerminalAtRest_proofs ------------------------
(***************************************************************************)
(* Proofs about a terminal that has come to rest: that a reload can show   *)
(* every queued order; that no row which could be sent is left when no     *)
(* pass runs; with the log of conflicts beside it, that a row of the log   *)
(* is closed only over a mutation that has gone; and, with the quantities  *)
(* of a line beside it, that what was tapped adds up.  They rest on the    *)
(* inductive invariant of TerminalSync_proofs, and on its lemmas about the *)
(* steps of the queue.                                                     *)
(***************************************************************************)
EXTENDS ConflictLog, TillTaps, TerminalSync_proofs, FiniteSetTheorems

-----------------------------------------------------------------------------
(* A reload can show every queued order. *)

CreateOf(q, o) == \E j \in Queued(q, o) : KindOf(j) = "create"

(* An order no hydration strayed to and whose create no rebase put back. *)
Fresh(o) ==
    /\ o \notin strayed
    /\ \A j \in Formed : KindOf(j) = "create" /\ OrderOf(j) = o => minted[j] <= 1

RowsShow(o) ==
    (\E i \in Queued(rows, o) : i \notin doubted) => cached[o] > 0 \/ CreateOf(rows, o)

(* A create the screen still mirrors is queued, or the pass that settled   *)
(* it has yet to read the queue again.                                     *)
MirrorShows(o) ==
    CreateOf(mirror, o) => CreateOf(rows, o) \/ (pass.running /\ cached[o] > 0)

ScreenShows(o) == current = o => pointer = o /\ (shown > 0 => cached[o] > 0)

HydrationShows(o) ==
    hydration.phase = "restoring" /\ hydration.order = o /\ hydration.version > 0
    => cached[o] > 0

PassShows(o) ==
    call["pass"].step = "cached" /\ OrderOf(call["pass"].req.intent) = o => cached[o] > 0

OrderShows(o) ==
    RowsShow(o) /\ MirrorShows(o) /\ ScreenShows(o) /\ HydrationShows(o) /\ PassShows(o)

Shows == \A o \in Orders : Fresh(o) => OrderShows(o)

(* With no pass running none has anything left, in hand or asked for. *)
IdleIsIdle == ~pass.running => pass.todo = {} /\ ~pass.again /\ call["pass"] = NoCall

(* An answer that is a success brings a version.                           *)
AnswersSeen == \A c \in Callers : call[c].step \in {"applied", "cached"} => call[c].seen > 0

(* What a rebase sends was put back under a second id.                     *)
HeadsReissued ==
    /\ \A i \in Formed : minted[i] > 0
    /\ \A r \in Rebases : rebase[r].phase = "sending" => minted[rebase[r].head.intent] > 1

ShowInv == Shows /\ IdleIsIdle /\ AnswersSeen /\ HeadsReissued

LEMMA CallersApart == \A r \in Rebases : r # "pass" /\ r # "direct"
  BY DEF Rebases

LEMMA IdleStep ==
    ASSUME Inv, IdleIsIdle, [Next]_vars
    PROVE  IdleIsIdle'
<1>1. pass \in PassType /\ call \in [Callers -> CallType] /\ "pass" \in Callers
  BY DEF Inv, TypeOK, EngineTypeOK, Callers
<1>2. ASSUME UNCHANGED <<pass, call>> PROVE IdleIsIdle'
  BY <1>2 DEF IdleIsIdle
<1>3. ASSUME NEW c \in Callers, Serve(c) \/ TakeCanonical(c) PROVE IdleIsIdle'
  BY <1>1, <1>3 DEF IdleIsIdle, Serve, TakeCanonical, NoCall
<1>4. ASSUME NEW c \in Callers, NEW result, Return(c, result), call[c].step # "idle"
      PROVE  IdleIsIdle'
  <2>1. pass.running => pass'.running
    BY <1>1, <1>4 DEF Return, PassType
  <2>2. CASE pass.running
    BY <2>1, <2>2 DEF IdleIsIdle
  <2>3. CASE ~pass.running
    <3>1. c # "pass"
      BY <1>4, <2>3 DEF IdleIsIdle, NoCall
    <3>2. pass' = pass /\ call'["pass"] = call["pass"]
      BY <1>1, <1>4, <3>1 DEF Return
    <3>3. QED
      BY <2>3, <3>2 DEF IdleIsIdle
  <2>4. QED
    BY <2>2, <2>3
<1>5. ASSUME NEW c \in Callers, DeleteRow(c) \/ HaltQueue(c) \/ Lose(c) PROVE IdleIsIdle'
  BY <1>4, <1>5 DEF DeleteRow, HaltQueue, Lose
<1>6. ASSUME NEW queue, Run(queue), call'["pass"] = call["pass"] PROVE IdleIsIdle'
  BY <1>1, <1>6 DEF Run, IdleIsIdle, PassType
<1>7. ASSUME NEW identity, Stage(identity) PROVE IdleIsIdle'
  <2>1. CASE \E queue : Run(queue) /\ UNCHANGED call
    BY <1>6, <2>1
  <2>2. CASE UNCHANGED pass /\ call'["pass"] = call["pass"]
    BY <2>2 DEF IdleIsIdle
  <2>3. QED
    BY <1>1, <1>7, <2>1, <2>2 DEF Stage, SendUnstored, Send
<1>8. CASE PassSends
  <2>1. pass' = pass /\ pass.todo # {}
    BY <1>8 DEF PassSends
  <2>2. QED
    BY <2>1 DEF IdleIsIdle
<1>9. CASE PassEnds
  BY <1>9 DEF PassEnds, IdleIsIdle, IdlePass
<1>10. ASSUME NEW r \in Rebases, RebaseSends(r) PROVE IdleIsIdle'
  <2>1. pass' = pass /\ call'["pass"] = call["pass"]
    BY <1>1, <1>10, CallersApart DEF RebaseSends, Send
  <2>2. QED
    BY <2>1 DEF IdleIsIdle
<1>11. CASE Reload
  BY <1>1, <1>11 DEF Reload, IdleIsIdle, IdlePass
<1>12. CASE Trigger \/ HydrateRestores
  BY <1>6, <1>12 DEF Trigger, HydrateRestores
<1>13. ASSUME NEW req \in loose, ServeLoose(req) PROVE IdleIsIdle'
  BY <1>2, <1>13 DEF ServeLoose, engineVars
<1>14. ASSUME NEW o \in Orders, OtherTerminal(o) \/ CreateOrder(o) \/ FocusOrder(o) PROVE IdleIsIdle'
  BY <1>2, <1>7, <1>14 DEF OtherTerminal, CreateOrder, FocusOrder, engineVars
<1>15. ASSUME NEW kind \in CommandKinds, Command(kind) PROVE IdleIsIdle'
  BY <1>7, <1>15 DEF Command
<1>16. ASSUME NEW r \in Rebases, RebaseHalted(r) \/ ReadHead(r) \/ Reissue(r) \/ RebaseEnds(r)
       PROVE  IdleIsIdle'
  BY <1>2, <1>16 DEF RebaseHalted, ReadHead, Reissue, RebaseEnds
<1>17. CASE HydrateReads \/ HydratePrunes \/ Visit \/ Clear \/ DiscardHalted \/ AskOrder
            \/ TakeOrder \/ UNCHANGED vars
  BY <1>2, <1>17 DEF HydrateReads, HydratePrunes, Visit, Leave, Detach, OpenAgain, Clear,
                     DiscardHalted, AskOrder, TakeOrder, vars, engineVars
<1>18. QED
  BY <1>3, <1>5, <1>8, <1>9, <1>10, <1>11, <1>12, <1>13, <1>14, <1>15, <1>16, <1>17
     DEF Next, Attempt, Rebase, Pass, Hydrate

(* Ids are minted, hydrations stray, and neither is undone. *)
Grows ==
    /\ Steady /\ strayed \subseteq strayed'
    /\ \A i \in Formed : minted[i] <= minted'[i]

LEMMA StageAppends ==
    ASSUME Inv, NEW o \in Orders, NEW kind \in Kinds, NEW base \in Nat,
           Stage(Identity(o, kind, base)), UNCHANGED serverVars,
           kind = "create" => \A j \in Formed : OrderOf(j) # o
    PROVE  \E i \in Intents \ Formed :
               /\ Formed' = Formed \cup {i} /\ minted' = [minted EXCEPT ![i] = 1]
               /\ OrderOf(i)' = o /\ KindOf(i)' = kind
               /\ \/ rows' = rows /\ ~Stored(i)'
                  \/ rows' = [rows EXCEPT ![i] = [order |-> o, k |-> 1, base |-> base,
                                                  status |-> "PENDING"]]
<1>0. PICK i : i = Len(intents) + 1
  OBVIOUS
<1>1. i \in Intents /\ UNCHANGED <<version, taken, effects>> /\ minted' = [minted EXCEPT ![i] = 1]
  BY <1>0 DEF Stage, serverVars
<1>2. PICK stored \in BOOLEAN :
          /\ intents' = Append(intents, [order |-> o, kind |-> kind, stored |-> stored])
          /\ IF stored THEN rows' = [rows EXCEPT ![i] = [order |-> o, k |-> 1, base |-> base,
                                                         status |-> "PENDING"]]
             ELSE rows' = rows
  BY <1>0 DEF Stage, Identity, SavePending, SendUnstored, Send
<1>3. /\ i \notin Formed /\ Formed' = Formed \cup {i}
      /\ OrderOf(i)' = o /\ KindOf(i)' = kind /\ Stored(i)' = stored
  BY <1>0, <1>1, <1>2, StageForms
<1>4. QED
  BY <1>1, <1>2, <1>3

LEMMA CreateStages ==
    ASSUME Inv, NEW o \in Orders, CreateOrder(o)
    PROVE  /\ Stage(Identity(o, "create", 0)) /\ UNCHANGED serverVars
           /\ \A j \in Formed : OrderOf(j) # o
           /\ "create" \in Kinds /\ 0 \in Nat
  BY DEF CreateOrder, Kinds

LEMMA CommandStages ==
    ASSUME Inv, NEW kind \in CommandKinds, Command(kind)
    PROVE  /\ Stage(Identity(current, kind, Projected)) /\ UNCHANGED serverVars
           /\ current \in Orders /\ kind \in Kinds /\ kind # "create" /\ Projected \in Nat
<1>1. Stage(Identity(current, kind, Projected)) /\ UNCHANGED serverVars /\ current # NULL
  BY DEF Command
<1>2. current \in Orders /\ kind \in Kinds /\ kind # "create"
  BY <1>1 DEF Inv, TypeOK, ScreenTypeOK, Kinds, CommandKinds
<1>3. QED
  BY <1>1, <1>2, ProjectedTyped

LEMMA ReissueCounts ==
    ASSUME Inv, NEW r \in Rebases, Reissue(r)
    PROVE  LET i == rebase[r].head.intent IN
           /\ i \in Formed /\ i \in Intents /\ minted[i] \in Nat
           /\ OrderOf(i) = rebase[r].order /\ OrderOf(i) \in Orders
           /\ \/ minted' = [minted EXCEPT ![i] = minted[i] + 1] /\ rebase'[r].head.intent = i
              \/ minted' = minted /\ rebase'[r].phase = "ending" /\ rows' = rows
           /\ \A s \in Rebases : s # r => rebase'[s] = rebase[s]
<1>1. PICK i : i = rebase[r].head.intent
  OBVIOUS
<1>2. rebase[r].phase = "reissuing" /\ rebase \in [Rebases -> RebaseType]
  BY DEF Reissue, Inv, TypeOK, EngineTypeOK
<1>3. i \in Formed /\ OrderOf(i) = rebase[r].order
  BY <1>1, <1>2 DEF Inv, RebasesTrue, RebaseTrue, Genuine, Formed
<1>4. i \in Intents /\ minted[i] \in Nat /\ OrderOf(i) \in Orders
  BY <1>3, FormedIntents, ConstantsAssumption DEF Inv, TypeOK, HistoryTypeOK, ConstantsAssumption
<1>5. \/ /\ minted' = [minted EXCEPT ![i] = minted[i] + 1]
         /\ rebase' = [rebase EXCEPT ![r].phase = "sending",
                                     ![r].head = [intent |-> i, k |-> minted[i] + 1,
                                                  base |-> IF intents[i].kind = "create" THEN 0
                                                           ELSE rebase[r].version]]
      \/ /\ minted' = minted /\ rows' = rows
         /\ rebase' = [rebase EXCEPT ![r].phase = "ending"]
  BY <1>1 DEF Reissue, WithFailedSwap
<1>6. \A s \in Rebases : s # r => rebase'[s] = rebase[s]
  BY <1>2, <1>5
<1>7. \/ minted' = [minted EXCEPT ![i] = minted[i] + 1] /\ rebase'[r].head.intent = i
      \/ minted' = minted /\ rebase'[r].phase = "ending" /\ rows' = rows
  BY <1>2, <1>5 DEF RebaseType
<1>8. QED
  BY <1>1, <1>3, <1>4, <1>6, <1>7

LEMMA GrowsStep ==
    ASSUME Inv, [Next]_vars
    PROVE  Grows
<1>1. Steady
  BY SteadyStep
<1>2. minted \in [Intents -> Nat]
  BY ConstantsAssumption DEF Inv, TypeOK, HistoryTypeOK, ConstantsAssumption
<1>3. Formed \subseteq Intents
  BY FormedIntents DEF Inv
<1>4. ASSUME strayed \subseteq strayed', minted' = minted PROVE Grows
  BY <1>1, <1>2, <1>3, <1>4 DEF Grows
<1>5. ASSUME NEW o \in Orders, CreateOrder(o) PROVE Grows
  <2>1. strayed' = strayed
    BY <1>5 DEF CreateOrder, Stage
  <2>2. PICK i \in Intents \ Formed : minted' = [minted EXCEPT ![i] = 1]
    BY <1>5, CreateStages, StageAppends
  <2>3. QED
    BY <1>1, <1>2, <1>3, <2>1, <2>2 DEF Grows
<1>6. ASSUME NEW kind \in CommandKinds, Command(kind) PROVE Grows
  <2>1. strayed' = strayed
    BY <1>6 DEF Command, Stage
  <2>2. PICK i \in Intents \ Formed : minted' = [minted EXCEPT ![i] = 1]
    BY <1>6, CommandStages, StageAppends
  <2>3. QED
    BY <1>1, <1>2, <1>3, <2>1, <2>2 DEF Grows
<1>7. ASSUME NEW r \in Rebases, Reissue(r) PROVE Grows
  <2>1. strayed' = strayed
    BY <1>7 DEF Reissue
  <2>2. PICK i \in Intents : minted' = [minted EXCEPT ![i] = minted[i] + 1] \/ minted' = minted
    BY <1>7, ReissueCounts
  <2>3. QED
    BY <1>1, <1>2, <1>3, <2>1, <2>2 DEF Grows
<1>8. ASSUME NEW c \in Callers, Attempt(c) \/ Lose(c) PROVE Grows
  BY <1>4, <1>8 DEF Attempt, Serve, TakeCanonical, DeleteRow, HaltQueue, Lose, historyVars
<1>9. ASSUME NEW req \in loose, ServeLoose(req) PROVE Grows
  BY <1>4, <1>9 DEF ServeLoose
<1>10. ASSUME NEW o \in Orders, OtherTerminal(o) \/ FocusOrder(o) PROVE Grows
  BY <1>4, <1>10 DEF OtherTerminal, FocusOrder, historyVars
<1>11. ASSUME NEW r \in Rebases, RebaseHalted(r) \/ ReadHead(r) \/ RebaseSends(r) \/ RebaseEnds(r)
       PROVE  Grows
  BY <1>4, <1>11 DEF RebaseHalted, ReadHead, RebaseSends, RebaseEnds, historyVars
<1>12. CASE Trigger \/ PassSends \/ PassEnds \/ HydrateReads \/ HydratePrunes \/ Visit
  BY <1>4, <1>12 DEF Trigger, PassSends, PassEnds, HydrateReads, HydratePrunes, Visit, Leave,
                     Detach, OpenAgain, historyVars
<1>13. CASE HydrateRestores
  <2>1. strayed \subseteq strayed' /\ minted' = minted
    BY <1>13 DEF HydrateRestores
  <2>2. QED
    BY <1>4, <2>1
<1>14. CASE Clear \/ DiscardHalted \/ AskOrder \/ TakeOrder \/ Reload \/ UNCHANGED vars
  BY <1>4, <1>14 DEF Clear, DiscardHalted, AskOrder, TakeOrder, Reload, vars, historyVars
<1>15. QED
  BY <1>5, <1>6, <1>7, <1>8, <1>9, <1>10, <1>11, <1>12, <1>13, <1>14
     DEF Next, Rebase, Pass, Hydrate

LEMMA FreshBefore ==
    ASSUME Inv, Inv', Grows, NEW o \in Orders, Fresh(o)'
    PROVE  Fresh(o)
<1>1. TypeOK /\ Onward
  BY DEF Inv, Grows, Steady
<1>2. o \notin strayed
  BY DEF Fresh, Grows
<1>3. ASSUME NEW j \in Formed, KindOf(j) = "create", OrderOf(j) = o PROVE minted[j] <= 1
  <2>1. j \in Formed' /\ KindOf(j)' = "create" /\ OrderOf(j)' = o
    BY <1>1, <1>3, IntentKept
  <2>2. minted'[j] <= 1
    BY <2>1 DEF Fresh
  <2>3. minted[j] <= minted'[j] /\ j \in Intents
    BY <1>1, FormedIntents DEF Grows
  <2>4. minted[j] \in 0..MaxIds /\ minted'[j] \in 0..MaxIds
    BY <2>3, <2>2 DEF Inv, TypeOK, HistoryTypeOK
  <2>5. QED
    BY <2>2, <2>3, <2>4, ConstantsAssumption DEF ConstantsAssumption
<1>4. QED
  BY <1>2, <1>3 DEF Fresh

LEMMA HeadsStep ==
    ASSUME Inv, Inv', HeadsReissued, [Next]_vars
    PROVE  HeadsReissued'
<1>1. Grows /\ TypeOK /\ TypeOK' /\ rebase \in [Rebases -> RebaseType]
  BY GrowsStep DEF Inv, TypeOK, EngineTypeOK
<1>2. /\ minted \in [Intents -> Nat] /\ minted' \in [Intents -> Nat]
      /\ Formed \subseteq Intents /\ Formed' \subseteq Intents
  BY <1>1, ConstantsAssumption DEF TypeOK, HistoryTypeOK, ConstantsAssumption
<1>3. \A i \in Formed : minted'[i] > 0 /\ (minted[i] > 1 => minted'[i] > 1)
  BY <1>1, <1>2 DEF HeadsReissued, Grows
<1>4. \A r \in Rebases : rebase[r].phase = "sending" => rebase[r].head.intent \in Formed
  BY DEF Inv, RebasesTrue, RebaseTrue, Genuine, Formed
<1>5. ASSUME Formed' = Formed,
             \A r \in Rebases : rebase'[r].phase = "sending" =>
                 rebase[r].phase = "sending" /\ rebase'[r].head.intent = rebase[r].head.intent
      PROVE  HeadsReissued'
  BY <1>3, <1>4, <1>5 DEF HeadsReissued
<1>6. ASSUME UNCHANGED <<rebase, intents>> PROVE HeadsReissued'
  BY <1>5, <1>6 DEF Formed
<1>7. ASSUME NEW o \in Orders, NEW kind \in Kinds, NEW base \in Nat,
             Stage(Identity(o, kind, base)), UNCHANGED serverVars, UNCHANGED rebase,
             kind = "create" => \A j \in Formed : OrderOf(j) # o
      PROVE  HeadsReissued'
  <2>1. PICK i \in Intents \ Formed : Formed' = Formed \cup {i} /\ minted' = [minted EXCEPT ![i] = 1]
    BY <1>7, StageAppends
  <2>2. minted'[i] > 0
    BY <1>2, <2>1
  <2>3. QED
    BY <1>3, <1>4, <1>7, <2>1, <2>2 DEF HeadsReissued
<1>8. ASSUME NEW o \in Orders, CreateOrder(o) PROVE HeadsReissued'
  BY <1>7, <1>8, CreateStages DEF CreateOrder
<1>9. ASSUME NEW kind \in CommandKinds, Command(kind) PROVE HeadsReissued'
  BY <1>7, <1>9, CommandStages DEF Command
<1>10. ASSUME NEW r \in Rebases, Reissue(r) PROVE HeadsReissued'
  <2>1. PICK i \in Formed :
            /\ \/ minted' = [minted EXCEPT ![i] = minted[i] + 1] /\ rebase'[r].head.intent = i
               \/ rebase'[r].phase = "ending"
            /\ \A s \in Rebases : s # r => rebase'[s] = rebase[s]
    BY <1>10, ReissueCounts
  <2>2. Formed' = Formed
    BY <1>10 DEF Reissue, Formed
  <2>3. rebase'[r].phase = "sending" => minted'[rebase'[r].head.intent] > 1
    <3>1. minted[i] \in Nat /\ minted[i] > 0
      BY <1>2 DEF HeadsReissued
    <3>2. minted' = [minted EXCEPT ![i] = minted[i] + 1] => minted'[i] > 1
      BY <1>2, <3>1
    <3>3. QED
      BY <2>1, <3>2
  <2>4. \A s \in Rebases : s # r /\ rebase'[s].phase = "sending" => minted'[rebase'[s].head.intent] > 1
    BY <1>3, <1>4, <2>1 DEF HeadsReissued
  <2>5. QED
    BY <1>3, <2>2, <2>3, <2>4 DEF HeadsReissued
<1>11. ASSUME NEW c \in Callers, DeleteRow(c) \/ HaltQueue(c) \/ Lose(c) PROVE HeadsReissued'
  <2>1. intents' = intents /\ \E result : Return(c, result)
    BY <1>11 DEF DeleteRow, HaltQueue, Lose, historyVars
  <2>2. \A r \in Rebases : rebase'[r] = rebase[r] \/ rebase'[r].phase \in {"reading", "ending"}
    BY <1>1, <2>1 DEF Return, RebaseType
  <2>3. QED
    BY <1>5, <2>1, <2>2 DEF Formed
<1>12. ASSUME NEW c \in Callers, Serve(c) \/ TakeCanonical(c) PROVE HeadsReissued'
  BY <1>6, <1>12 DEF Serve, TakeCanonical, historyVars
<1>13. ASSUME NEW req \in loose, ServeLoose(req) PROVE HeadsReissued'
  BY <1>6, <1>13 DEF ServeLoose, engineVars
<1>14. ASSUME NEW o \in Orders, OtherTerminal(o) \/ FocusOrder(o) PROVE HeadsReissued'
  BY <1>6, <1>14 DEF OtherTerminal, FocusOrder, historyVars, engineVars
<1>15. ASSUME NEW r \in Rebases, RebaseHalted(r) \/ ReadHead(r) \/ RebaseEnds(r)
       PROVE  HeadsReissued'
  <2>1. intents' = intents
    BY <1>15 DEF RebaseHalted, ReadHead, RebaseEnds, historyVars
  <2>2. \A s \in Rebases : rebase'[s] = rebase[s] \/ rebase'[s].phase # "sending"
    <3>1. CASE RebaseHalted(r)
      BY <1>1, <3>1 DEF RebaseHalted
    <3>2. CASE RebaseEnds(r)
      BY <1>1, <3>2 DEF RebaseEnds, IdleRebase
    <3>3. CASE ReadHead(r)
      <4>1. \/ rebase' = [rebase EXCEPT ![r].phase = "ending"]
            \/ \E head : rebase' = [rebase EXCEPT ![r].phase = "reissuing", ![r].head = head]
        BY <3>3 DEF ReadHead
      <4>2. QED
        BY <1>1, <4>1 DEF RebaseType
    <3>4. QED
      BY <1>15, <3>1, <3>2, <3>3
  <2>3. QED
    BY <1>5, <2>1, <2>2 DEF Formed
<1>16. ASSUME NEW r \in Rebases, RebaseSends(r) PROVE HeadsReissued'
  BY <1>6, <1>16 DEF RebaseSends
<1>17. CASE Trigger \/ PassSends \/ PassEnds \/ Hydrate \/ Visit
  BY <1>6, <1>17 DEF Trigger, PassSends, PassEnds, Hydrate, HydrateReads, HydrateRestores,
                     HydratePrunes, Visit, Leave, Detach, OpenAgain, historyVars, engineVars
<1>18. CASE Clear \/ DiscardHalted \/ AskOrder \/ TakeOrder \/ UNCHANGED vars
  BY <1>6, <1>18 DEF Clear, DiscardHalted, AskOrder, TakeOrder, vars, historyVars, engineVars
<1>19. CASE Reload
  BY <1>5, <1>19 DEF Reload, IdleRebase, historyVars, Formed
<1>20. QED
  BY <1>8, <1>9, <1>10, <1>11, <1>12, <1>13, <1>14, <1>15, <1>16, <1>17, <1>18, <1>19
     DEF Next, Attempt, Rebase, Pass

LEMMA AnswersStep ==
    ASSUME Inv, Inv', AnswersSeen, [Next]_vars
    PROVE  AnswersSeen'
<1>1. call \in [Callers -> CallType] /\ version' \in [Orders -> Nat]
  BY DEF Inv, TypeOK, EngineTypeOK, ServerTypeOK
<1>2. ASSUME \A c \in Callers : \/ call'[c] = call[c]
                                \/ call'[c].step \notin {"applied", "cached"}
      PROVE  AnswersSeen'
  BY <1>2 DEF AnswersSeen
<1>3. ASSUME NEW c \in Callers, Serve(c) PROVE AnswersSeen'
  <2>1. call' = [call EXCEPT ![c].step = Answer(call[c].req),
                             ![c].seen = version'[OrderOf(call[c].req.intent)]]
        /\ intents' = intents /\ call[c].step = "sent"
    BY <1>3 DEF Serve
  <2>2. /\ call'[c].seen = version'[OrderOf(call[c].req.intent)] /\ call'[c].req = call[c].req
        /\ \A d \in Callers : d # c => call'[d] = call[d]
    BY <1>1, <2>1 DEF CallType, NoCall
  <2>3. ASSUME call'[c].step \in {"applied", "cached"} PROVE call'[c].seen > 0
    <3>0. PICK i : i = call[c].req.intent
      OBVIOUS
    <3>1. CallTrue(c)'
      <4>1. call'[c] # NoCall
        BY <2>3 DEF NoCall
      <4>2. QED
        BY <4>1 DEF Inv, CallsTrue
    <3>2. i \in Formed' /\ effects'[i] > 0
      BY <2>2, <2>3, <3>0, <3>1 DEF CallTrue, Genuine, Formed
    <3>3. EffectsTrue'
      BY DEF Inv
    <3>4. version'[OrderOf(i)'] > 0
      BY <3>2, <3>3 DEF EffectsTrue
    <3>5. QED
      BY <2>1, <2>2, <3>0, <3>4 DEF OrderOf
  <2>4. QED
    BY <2>2, <2>3 DEF AnswersSeen
<1>4. ASSUME NEW c \in Callers, TakeCanonical(c) PROVE AnswersSeen'
  <2>1. /\ call' = [call EXCEPT ![c].step = IF @ = "applied" THEN "cached" ELSE "halting"]
        /\ call[c].step \in {"applied", "conflict"}
    BY <1>4 DEF TakeCanonical
  <2>2. /\ call'[c].seen = call[c].seen /\ \A d \in Callers : d # c => call'[d] = call[d]
        /\ call'[c].step = "cached" <=> call[c].step = "applied"
        /\ call'[c].step \in {"cached", "halting"}
    BY <1>1, <2>1 DEF CallType, NoCall
  <2>3. QED
    BY <2>2 DEF AnswersSeen
<1>5. ASSUME NEW c \in Callers, DeleteRow(c) \/ HaltQueue(c) \/ Lose(c) PROVE AnswersSeen'
  <2>1. call' = [call EXCEPT ![c] = NoCall]
    BY <1>5 DEF DeleteRow, HaltQueue, Lose, Return
  <2>2. QED
    BY <1>1, <1>2, <2>1 DEF NoCall
<1>6. ASSUME NEW c \in Callers, NEW req, NEW q, Send(c, req, q) PROVE AnswersSeen'
  BY <1>1, <1>2, <1>6 DEF Send
<1>7. ASSUME NEW identity, Stage(identity) PROVE AnswersSeen'
  <2>1. "direct" \in Callers
    BY DEF Callers
  <2>2. QED
    BY <1>2, <1>6, <1>7, <2>1 DEF Stage, SendUnstored
<1>8. ASSUME NEW r \in Rebases, Rebase(r) \/ RebaseHalted(r) PROVE AnswersSeen'
  <2>1. r \in Callers
    BY DEF Callers
  <2>2. QED
    BY <1>2, <1>6, <1>8, <2>1 DEF RebaseHalted, Rebase, ReadHead, Reissue, RebaseSends, RebaseEnds
<1>9. CASE PassSends
  <2>1. "pass" \in Callers
    BY DEF Callers
  <2>2. QED
    BY <1>6, <1>9, <2>1 DEF PassSends
<1>10. ASSUME NEW req \in loose, ServeLoose(req) PROVE AnswersSeen'
  BY <1>2, <1>10 DEF ServeLoose, engineVars
<1>11. ASSUME NEW o \in Orders, OtherTerminal(o) \/ CreateOrder(o) \/ FocusOrder(o) PROVE AnswersSeen'
  BY <1>2, <1>7, <1>11 DEF OtherTerminal, CreateOrder, FocusOrder, engineVars
<1>12. ASSUME NEW kind \in CommandKinds, Command(kind) PROVE AnswersSeen'
  BY <1>7, <1>12 DEF Command
<1>13. CASE Trigger \/ PassEnds \/ Hydrate \/ Visit
  BY <1>2, <1>13 DEF Trigger, PassEnds, Hydrate, HydrateReads, HydrateRestores,
                     HydratePrunes, Visit, Leave, Detach, OpenAgain, engineVars
<1>14. CASE Clear \/ DiscardHalted \/ AskOrder \/ TakeOrder \/ UNCHANGED vars
  BY <1>2, <1>14 DEF Clear, DiscardHalted, AskOrder, TakeOrder, vars, engineVars
<1>15. CASE Reload
  BY <1>2, <1>15 DEF Reload, NoCall
<1>16. QED
  BY <1>3, <1>4, <1>5, <1>8, <1>9, <1>10, <1>11, <1>12, <1>13, <1>14, <1>15
     DEF Next, Attempt, Pass

LEMMA CreateStays ==
    ASSUME Inv, Inv', Onward, NEW o \in Orders, CreateOf(rows, o),
           \A j \in Intents : rows[j] # NoRow /\ KindOf(j) = "create" => rows'[j] # NoRow
    PROVE  CreateOf(rows, o)'
<1>1. PICK j \in Intents : rows[j] # NoRow /\ rows[j].order = o /\ KindOf(j) = "create"
  BY DEF CreateOf, Queued
<1>2. j \in Formed /\ OrderOf(j) = o
  BY <1>1 DEF Inv, RowsTrue, RowTrue
<1>3. OrderOf(j)' = o /\ KindOf(j)' = "create"
  BY <1>1, <1>2, IntentKept DEF Inv
<1>4. rows'[j] # NoRow /\ rows'[j].order = OrderOf(j)'
  BY <1>1 DEF Inv, RowsTrue, RowTrue
<1>5. QED
  BY <1>3, <1>4 DEF CreateOf, Queued, KindOf

(* What a step has to see to. *)
LEMMA ShowsKept ==
    ASSUME Inv, Inv', Grows, NEW o \in Orders, OrderShows(o),
           cached[o] > 0 => cached'[o] > 0,
           CreateOf(rows, o) => \/ CreateOf(rows, o)'
                                \/ cached'[o] > 0 /\ pass'.running
                                \/ Queued(rows', o) = {} /\ mirror' = rows',
           \A i \in Intents \ Formed : rows'[i] # NoRow /\ rows'[i].order = o
                                       => cached'[o] > 0 \/ CreateOf(rows, o)',
           \/ mirror' = mirror /\ (pass.running => pass'.running)
           \/ mirror' = rows' \/ Queued(mirror', o) = {},
           UNCHANGED <<current, pointer, shown>> \/ ScreenShows(o)',
           hydration' = hydration \/ hydration'.phase # "restoring" \/ HydrationShows(o)',
           \/ call'["pass"] = call["pass"] \/ call'["pass"].step # "cached" \/ PassShows(o)'
    PROVE  OrderShows(o)'
<1>1. TypeOK /\ Onward
  BY DEF Inv, Grows, Steady
<1>2. RowsShow(o)'
  <2> SUFFICES ASSUME NEW i \in Intents, rows'[i] # NoRow, rows'[i].order = o, i \notin doubted'
               PROVE  cached'[o] > 0 \/ CreateOf(rows, o)'
    BY DEF RowsShow, Queued
  <2>1. CASE i \notin Formed
    BY <2>1
  <2>2. CASE i \in Formed
    <3>1. rows[i] # NoRow /\ i \notin doubted
      BY <2>2 DEF Grows, Steady
    <3>2. rows[i].order = OrderOf(i) /\ rows'[i].order = OrderOf(i)'
      BY <3>1 DEF Inv, RowsTrue, RowTrue
    <3>3. rows[i].order = o
      BY <1>1, <2>2, <3>2, IntentKept
    <3>4. cached[o] > 0 \/ CreateOf(rows, o)
      BY <3>1, <3>3 DEF OrderShows, RowsShow, Queued
    <3>5. ~(Queued(rows', o) = {})
      BY DEF Queued
    <3>6. QED
      BY <3>4, <3>5
  <2>3. QED
    BY <2>1, <2>2
<1>3. MirrorShows(o)'
  <2> SUFFICES ASSUME CreateOf(mirror, o)'
               PROVE  CreateOf(rows, o)' \/ (pass'.running /\ cached'[o] > 0)
    BY DEF MirrorShows
  <2>1. mirror' # rows' => mirror' = mirror /\ (pass.running => pass'.running)
    BY DEF CreateOf
  <2>2. CASE mirror' = rows'
    BY <2>2 DEF CreateOf
  <2>3. CASE mirror' # rows'
    <3>1. PICK j \in Intents : mirror'[j] # NoRow /\ mirror'[j].order = o /\ KindOf(j)' = "create"
      BY DEF CreateOf, Queued, KindOf
    <3>2. mirror[j] # NoRow /\ mirror[j].order = o /\ j \in Formed
      BY <2>1, <2>3, <3>1 DEF Inv, MirrorTrue
    <3>3. KindOf(j) = "create"
      BY <1>1, <3>1, <3>2, IntentKept
    <3>4. CreateOf(mirror, o)
      BY <3>2, <3>3 DEF CreateOf, Queued
    <3>5. CreateOf(rows, o) \/ (pass.running /\ cached[o] > 0)
      BY <3>4 DEF OrderShows, MirrorShows
    <3>6. QED
      BY <2>1, <2>3, <3>5
  <2>4. QED
    BY <2>2, <2>3
<1>4. ScreenShows(o)'
  BY DEF OrderShows, ScreenShows
<1>5. HydrationShows(o)'
  BY DEF OrderShows, HydrationShows
<1>6. PassShows(o)'
  <2>1. CASE call'["pass"] = call["pass"] /\ call["pass"].step = "cached"
    <3>1. call["pass"].req.intent \in Formed
      BY <2>1, CallHasRequest DEF Inv, Callers
    <3>2. PICK i \in Formed : i = call["pass"].req.intent
      BY <3>1
    <3>3. OrderOf(i)' = OrderOf(i)
      BY <1>1, IntentKept
    <3>4. OrderOf(i) = o => cached'[o] > 0
      BY <2>1, <3>2 DEF OrderShows, PassShows
    <3>5. QED
      BY <2>1, <3>2, <3>3, <3>4 DEF PassShows, OrderOf
  <2>2. QED
    BY <2>1 DEF PassShows
<1>7. QED
  BY <1>2, <1>3, <1>4, <1>5, <1>6 DEF OrderShows

(* A step that touches none of what an order is shown by, and the mirror   *)
(* only to read the queue.                                                 *)
LEMMA ShowsUntouched ==
    ASSUME Inv, Inv', Grows, Shows,
           \A o \in Orders : cached[o] > 0 => cached'[o] > 0,
           \A j \in Intents : rows[j] # NoRow => rows'[j] # NoRow,
           intents' = intents,
           \/ mirror' = mirror /\ (pass.running => pass'.running)
           \/ mirror' = rows' \/ \A o \in Orders : Queued(mirror', o) = {},
           UNCHANGED <<current, pointer, shown>> \/ current' = NULL,
           hydration' = hydration \/ hydration'.phase # "restoring",
           call'["pass"] = call["pass"] \/ call'["pass"].step # "cached"
    PROVE  Shows'
<1> SUFFICES ASSUME NEW o \in Orders, Fresh(o)' PROVE OrderShows(o)'
  BY DEF Shows
<1>1. OrderShows(o) /\ Onward
  BY FreshBefore DEF Shows, Grows, Steady
<1>2. CreateOf(rows, o) => CreateOf(rows, o)'
  BY <1>1, CreateStays
<1>3. \A i \in Intents \ Formed : rows'[i] = NoRow
  BY DEF Inv, RowsTrue, RowTrue, Formed
<1>4. current' = NULL => ScreenShows(o)'
  BY ConstantsAssumption DEF ScreenShows, ConstantsAssumption
<1>5. QED
  BY <1>1, <1>2, <1>3, <1>4, ShowsKept

LEMMA ShowsByFrame ==
    ASSUME Inv, Inv', Grows, Shows, UNCHANGED <<cached, rows, intents>>,
           \/ mirror' = mirror /\ (pass.running => pass'.running)
           \/ mirror' = rows' \/ \A i \in Intents : mirror'[i] = NoRow,
           UNCHANGED <<current, pointer, shown>> \/ current' = NULL,
           hydration' = hydration \/ hydration'.phase # "restoring",
           call'["pass"] = call["pass"] \/ call'["pass"].step # "cached"
    PROVE  Shows'
<1>1. (\A i \in Intents : mirror'[i] = NoRow) => \A o \in Orders : Queued(mirror', o) = {}
  BY DEF Queued
<1>2. QED
  BY <1>1, ShowsUntouched

LEMMA ShowsByAttempts ==
    ASSUME Inv, Inv', Grows, ShowInv, IdleIsIdle', NEW c \in Callers, Attempt(c) \/ Lose(c)
    PROVE  Shows'
<1> DEFINE req == call[c].req
<1>1. /\ TypeOK /\ CallsTrue /\ EffectsTrue /\ Shows /\ Onward
      /\ call \in [Callers -> CallType] /\ pass \in PassType /\ cached \in [Orders -> Nat]
  BY DEF Inv, ShowInv, TypeOK, EngineTypeOK, DiskTypeOK, Grows, Steady
<1>2. CASE Serve(c)
  <2>1. call'["pass"] = call["pass"] \/ call'["pass"].step # "cached"
    <3>1. /\ call' = [call EXCEPT ![c].step = Answer(req), ![c].seen = version'[OrderOf(req.intent)]]
          /\ call[c].step # "idle" /\ Process(req)
      BY <1>2 DEF Serve
    <3>2. PICK answer : answer = Answer(req)
      OBVIOUS
    <3>3. answer # "cached"
      BY <1>1, <3>1, <3>2, CallHasRequest, AnswersAreThree
    <3>4. call'[c].step = answer /\ \A d \in Callers : d # c => call'[d] = call[d]
      BY <1>1, <3>1, <3>2 DEF CallType, NoCall
    <3>5. QED
      BY <3>3, <3>4 DEF Callers
  <2>2. UNCHANGED <<diskVars, screenVars, pass, intents>>
    BY <1>2 DEF Serve
  <2>3. QED
    BY <1>1, <2>1, <2>2, ShowsByFrame DEF diskVars, screenVars
<1>3. ASSUME NEW result, Return(c, result), call[c].step # "idle"
      PROVE  /\ pass.running => pass'.running
             /\ call'["pass"] = call["pass"] \/ call'["pass"].step # "cached"
  BY <1>1, <1>3 DEF Return, PassType, NoCall
<1>4. CASE Lose(c) \/ HaltQueue(c)
  <2>1. /\ \E result : Return(c, result)
        /\ call[c].step # "idle" /\ UNCHANGED <<cached, pointer, screenVars, intents>>
        /\ rows' = WithHalt(req) \/ rows' = rows \/ rows' = WithStatus(req, "PENDING")
    BY <1>4 DEF Lose, HaltQueue, WriteFails, historyVars
  <2>2. \A i \in Intents : rows[i] # NoRow => rows'[i] # NoRow
    BY <1>1, <2>1, RowsStay
  <2>3. QED
    BY <1>1, <1>3, <2>1, <2>2, ShowsUntouched DEF screenVars
<1>5. CASE TakeCanonical(c)
  <2>1. PICK q : q = OrderOf(req.intent)
    OBVIOUS
  <2>2. /\ call[c].step \in {"applied", "conflict"} /\ cached' = Cached(q, call[c].seen)
        /\ IF visit.open /\ current = q THEN shown' = Later(shown, call[c].seen) ELSE shown' = shown
        /\ call' = [call EXCEPT ![c].step = IF @ = "applied" THEN "cached" ELSE "halting"]
        /\ UNCHANGED <<rows, pointer, mirror, current, hydration, pass, intents>>
    BY <1>5, <2>1 DEF TakeCanonical, CacheOrder, Adopted, historyVars
  <2>3. q \in Orders /\ call[c].seen \in Nat
    BY <1>1, <2>1, <2>2, CallHasRequest
  <2>4. /\ \A o \in Orders : cached[o] > 0 => cached'[o] > 0
        /\ call[c].seen > 0 => cached'[q] > 0
    BY <1>1, <2>2, <2>3 DEF Cached, Later
  <2>5. ASSUME NEW o \in Orders, Fresh(o)' PROVE OrderShows(o)'
    <3>1. OrderShows(o)
      BY <1>1, <2>5, FreshBefore DEF Shows
    <3>2. CreateOf(rows, o) => CreateOf(rows, o)'
      BY <1>1, <2>2, CreateStays
    <3>3. \A i \in Intents \ Formed : rows'[i] = NoRow
      BY <2>2 DEF Inv, RowsTrue, RowTrue, Formed
    <3>4. ScreenShows(o)'
      <4>1. CASE current = o
        <5>1. pointer = o /\ (shown > 0 => cached[o] > 0)
          BY <3>1, <4>1 DEF OrderShows, ScreenShows
        <5>2. shown' > 0 => shown > 0 \/ (q = o /\ call[c].seen > 0)
          BY <2>2, <4>1 DEF Later
        <5>3. QED
          BY <2>2, <2>4, <4>1, <5>1, <5>2 DEF ScreenShows
      <4>2. QED
        BY <2>2, <4>1 DEF ScreenShows
    <3>5. call'["pass"] = call["pass"] \/ call'["pass"].step # "cached" \/ PassShows(o)'
      <4>1. CASE c # "pass"
        BY <1>1, <2>2, <4>1
      <4>2. CASE c = "pass" /\ call["pass"].step = "applied"
        <5>1. call["pass"].seen > 0
          BY <4>2 DEF ShowInv, AnswersSeen
        <5>2. call'["pass"].req = req
          BY <1>1, <2>2, <4>2 DEF CallType, NoCall
        <5>3. OrderOf(req.intent)' = q
          BY <2>1, <2>2 DEF OrderOf
        <5>4. QED
          BY <2>4, <4>2, <5>1, <5>2, <5>3 DEF PassShows, OrderOf
      <4>3. CASE c = "pass" /\ call["pass"].step = "conflict"
        BY <1>1, <2>2, <4>3 DEF CallType, NoCall
      <4>4. QED
        BY <2>2, <4>1, <4>2, <4>3
    <3>6. QED
      BY <2>2, <2>4, <3>1, <3>2, <3>3, <3>4, <3>5, ShowsKept
  <2>6. QED
    BY <2>5 DEF Shows
<1>6. CASE DeleteRow(c)
  <2>1. /\ call[c].step = "cached" /\ \E result : Return(c, result)
        /\ rows' = Without(req) \/ rows' = rows
        /\ UNCHANGED <<cached, pointer, mirror, current, shown, hydration, intents>>
    BY <1>6 DEF DeleteRow, WriteFails, screenVars, historyVars
  <2>2. /\ call[c].step # "idle" /\ (pass.running => pass'.running)
        /\ call'["pass"] = call["pass"] \/ call'["pass"].step # "cached"
    BY <1>3, <2>1
  <2>3. PICK i \in Intents : i = req.intent
    BY <1>1, <2>2, CallHasRequest
  <2>4. req \in Request /\ CallTrue(c) /\ i \in Formed /\ call[c] # NoCall
    BY <1>1, <2>2, <2>3, CallHasRequest
  <2>5. \A j \in Intents : j # i => rows'[j] = rows[j]
    BY <1>1, <2>1, <2>3 DEF Without, TypeOK, DiskTypeOK
  <2>6. rows[i] # NoRow => rows[i].order = OrderOf(i) /\ Stored(i)
    BY DEF Inv, RowsTrue, RowTrue
  <2>7. ASSUME NEW o \in Orders, Fresh(o)' PROVE OrderShows(o)'
    <3>1. OrderShows(o) /\ Fresh(o)
      BY <1>1, <2>7, FreshBefore DEF Shows
    <3>2. CASE c = "pass" /\ OrderOf(i) = o
      <4>1. cached[o] > 0
        BY <2>1, <2>3, <3>1, <3>2 DEF OrderShows, PassShows
      <4>2. pass.running
        BY <2>4, <3>2 DEF ShowInv, IdleIsIdle
      <4>3. \A j \in Intents \ Formed : rows'[j] = NoRow
        BY <2>1 DEF Inv, RowsTrue, RowTrue, Formed
      <4>4. QED
        BY <2>1, <2>2, <3>1, <4>1, <4>2, <4>3, ShowsKept
    <3>3. CASE c # "pass" \/ OrderOf(i) # o
      <4>1. rows[i] # NoRow /\ KindOf(i) = "create" /\ OrderOf(i) = o => rows'[i] # NoRow
        <5>1. CASE c \in Rebases /\ OrderOf(i) = o
          <6>1. rebase[c].phase = "sending" /\ rebase[c].head.intent = i
            BY <2>3, <2>4, <5>1 DEF CallTrue
          <6>2. minted[i] > 1
            BY <5>1, <6>1 DEF ShowInv, HeadsReissued
          <6>3. KindOf(i) = "create" => minted[i] <= 1
            BY <2>4, <3>1, <5>1 DEF Fresh
          <6>4. minted[i] \in Nat
            BY <1>1, ConstantsAssumption DEF TypeOK, HistoryTypeOK, ConstantsAssumption
          <6>5. QED
            BY <6>2, <6>3, <6>4
        <5>2. CASE c = "direct"
          BY <2>3, <2>4, <2>6, <5>2 DEF CallTrue
        <5>3. CASE OrderOf(i) # o
          BY <5>3
        <5>4. QED
          BY <3>3, <5>1, <5>2, <5>3 DEF Callers
      <4>2. CreateOf(rows, o) => CreateOf(rows, o)'
        <5> SUFFICES ASSUME CreateOf(rows, o) PROVE CreateOf(rows, o)'
          OBVIOUS
        <5>1. PICK j \in Intents : rows[j] # NoRow /\ rows[j].order = o /\ KindOf(j) = "create"
          BY DEF CreateOf, Queued
        <5>2. rows'[j] = rows[j] \/ (j = i /\ rows'[i] # NoRow)
          BY <2>5, <2>6, <4>1, <5>1
        <5>3. rows'[j] # NoRow /\ KindOf(j)' = "create" /\ OrderOf(j)' = OrderOf(j)
          BY <2>1, <5>1, <5>2 DEF KindOf, OrderOf
        <5>4. rows'[j].order = o
          BY <5>1, <5>3 DEF Inv, RowsTrue, RowTrue
        <5>5. QED
          BY <5>3, <5>4 DEF CreateOf, Queued, KindOf
      <4>3. \A j \in Intents \ Formed : rows'[j] = NoRow
        BY <2>1 DEF Inv, RowsTrue, RowTrue, Formed
      <4>4. QED
        BY <2>1, <2>2, <3>1, <4>2, <4>3, ShowsKept
    <3>4. QED
      BY <3>2, <3>3
  <2>8. QED
    BY <2>7 DEF Shows
<1>7. QED
  BY <1>2, <1>4, <1>5, <1>6 DEF Attempt

(* A command is made of an order whose create the screen mirrors or of     *)
(* which it has a snapshot.                                                *)
LEMMA ProjectedShows ==
    ASSUME Inv, current # NULL, Projected > 0, OrderShows(current)
    PROVE  cached[current] > 0 \/ CreateOf(rows, current)
<1>1. current \in Orders /\ shown \in Nat
  BY DEF Inv, TypeOK, ScreenTypeOK
<1>2. CASE shown > 0
  BY <1>2 DEF OrderShows, ScreenShows
<1>3. CASE shown = 0
  <2>1. PICK i \in Queued(mirror, current) : KindOf(i) = "create"
    BY <1>3 DEF Projected, KindOf
  <2>2. QED
    BY <2>1 DEF OrderShows, MirrorShows, CreateOf
<1>4. QED
  BY <1>1, <1>2, <1>3

LEMMA ShowsByStage ==
    ASSUME Inv, Inv', Grows, Shows, NEW o \in Orders, NEW kind \in Kinds, NEW base \in Nat,
           Stage(Identity(o, kind, base)), UNCHANGED serverVars,
           kind = "create" => \A j \in Formed : OrderOf(j) # o,
           kind # "create" /\ Fresh(o) => cached[o] > 0 \/ CreateOf(rows, o),
           UNCHANGED <<cached, hydration>>,
           UNCHANGED <<current, pointer, shown>> \/ (current' = o /\ pointer' = o /\ shown' = 0)
    PROVE  Shows'
<1>1. TypeOK /\ Onward /\ rows \in [Intents -> RowType]
  BY DEF Inv, TypeOK, DiskTypeOK, Grows, Steady
<1>2. PICK i \in Intents \ Formed :
          /\ Formed' = Formed \cup {i} /\ OrderOf(i)' = o /\ KindOf(i)' = kind
          /\ rows' = rows \/ rows' = [rows EXCEPT ![i] = [order |-> o, k |-> 1, base |-> base,
                                                          status |-> "PENDING"]]
  BY StageAppends
<1>3. \A j \in Intents : rows[j] # NoRow => rows'[j] # NoRow
  BY <1>1, <1>2 DEF NoRow
<1>4. /\ pass.running => pass'.running
      /\ call'["pass"] = call["pass"] /\ mirror' = rows'
  <2>1. pass \in PassType /\ call \in [Callers -> CallType]
    BY <1>1 DEF TypeOK, EngineTypeOK
  <2>2. QED
    BY <2>1 DEF Stage, Run, SendUnstored, Send, PassType, Callers
<1>5. ASSUME NEW q \in Orders, Fresh(q)' PROVE OrderShows(q)'
  <2>1. OrderShows(q) /\ Fresh(q)
    BY <1>5, FreshBefore DEF Shows
  <2>2. CreateOf(rows, q) => CreateOf(rows, q)'
    BY <1>1, <1>3, CreateStays
  <2>3. \A j \in Intents \ Formed : rows'[j] # NoRow => j = i
    BY <1>1, <1>2 DEF Inv, RowsTrue, RowTrue
  <2>4. ASSUME rows'[i] # NoRow, rows'[i].order = q PROVE cached'[q] > 0 \/ CreateOf(rows, q)'
    <3>1. rows'[i].order = OrderOf(i)'
      BY <2>4 DEF Inv, RowsTrue, RowTrue
    <3>2. q = o
      BY <1>2, <2>4, <3>1
    <3>3. CASE kind = "create"
      BY <1>2, <2>4, <3>3 DEF CreateOf, Queued, KindOf
    <3>4. CASE kind # "create"
      BY <2>1, <2>2, <3>2, <3>4
    <3>5. QED
      BY <3>3, <3>4
  <2>5. current' = o /\ pointer' = o /\ shown' = 0 => ScreenShows(q)'
    BY DEF ScreenShows
  <2>6. QED
    BY <1>4, <2>1, <2>2, <2>3, <2>4, <2>5, ShowsKept
<1>6. QED
  BY <1>5 DEF Shows

LEMMA ShowsByCommands ==
    ASSUME Inv, Inv', Grows, Shows,
           \/ \E o \in Orders : CreateOrder(o)
           \/ \E kind \in CommandKinds : Command(kind)
    PROVE  Shows'
<1>1. ASSUME NEW o \in Orders, CreateOrder(o) PROVE Shows'
  <2>1. /\ Stage(Identity(o, "create", 0)) /\ UNCHANGED serverVars /\ UNCHANGED <<cached, hydration>>
        /\ \A j \in Formed : OrderOf(j) # o
        /\ current' = o /\ pointer' = o /\ shown' = 0 /\ "create" \in Kinds /\ 0 \in Nat
    BY <1>1, CreateStages DEF CreateOrder, SetCurrentOrder
  <2>2. QED
    BY <2>1, ShowsByStage
<1>2. ASSUME NEW kind \in CommandKinds, Command(kind) PROVE Shows'
  <2>1. /\ Stage(Identity(current, kind, Projected)) /\ UNCHANGED serverVars
        /\ current \in Orders /\ kind \in Kinds /\ kind # "create" /\ Projected \in Nat
    BY <1>2, CommandStages
  <2>2. /\ UNCHANGED <<cached, hydration, current, pointer, shown>> /\ current # NULL
        /\ Projected > 0
    BY <1>2 DEF Command
  <2>3. Fresh(current) => cached[current] > 0 \/ CreateOf(rows, current)
    BY <2>1, <2>2, ProjectedShows DEF Shows
  <2>4. QED
    BY <2>1, <2>2, <2>3, ShowsByStage
<1>3. QED
  BY <1>1, <1>2

LEMMA ShowsByScreen ==
    ASSUME Inv, Inv', Grows, ShowInv, IdleIsIdle',
           \/ \E o \in Orders : FocusOrder(o)
           \/ DiscardHalted \/ TakeOrder
    PROVE  Shows'
<1>1. /\ TypeOK /\ Shows /\ Onward /\ rows \in [Intents -> RowType]
      /\ cached \in [Orders -> Nat] /\ cached' \in [Orders -> Nat] /\ shown \in Nat
      /\ current \in Orders \cup {NULL} /\ reading.version \in Nat
  BY DEF Inv, ShowInv, TypeOK, DiskTypeOK, ScreenTypeOK, Grows, Steady
<1>2. ASSUME intents' = intents PROVE \A i \in Intents \ Formed : rows'[i] = NoRow
  BY <1>2 DEF Inv, RowsTrue, RowTrue, Formed
<1>3. ASSUME UNCHANGED <<rows, intents>>
      PROVE  \A q \in Orders : CreateOf(rows, q) => CreateOf(rows, q)'
  BY <1>1, <1>3, CreateStays
<1>4. ASSUME NEW o \in Orders, FocusOrder(o) PROVE Shows'
  <2>1. /\ current' = o /\ shown' = cached[o] /\ pointer' = o
        /\ UNCHANGED <<cached, rows, mirror, hydration, call, pass, intents>>
    BY <1>4 DEF FocusOrder, ReadOrder, SetCurrentOrder, engineVars, historyVars
  <2>2. \A q \in Orders : ScreenShows(q)'
    BY <2>1 DEF ScreenShows
  <2>3. \A q \in Orders : Fresh(q)' => OrderShows(q)
    BY <1>1, FreshBefore DEF Shows
  <2>4. \A q \in Orders : Fresh(q)' => OrderShows(q)'
    BY <1>2, <1>3, <2>1, <2>2, <2>3, ShowsKept
  <2>5. QED
    BY <2>4 DEF Shows
<1>5. CASE TakeOrder
  <2>1. /\ \/ /\ current = reading.order /\ shown' = Later(shown, reading.version)
              /\ cached' = Cached(current, reading.version) /\ pointer' = current
           \/ UNCHANGED <<shown, cached, pointer>>
        /\ UNCHANGED <<rows, mirror, current, hydration, call, pass, intents>>
    BY <1>5 DEF TakeOrder, Adopted, SaveOrder, CacheOrder, engineVars, historyVars
  <2>2. \A q \in Orders : /\ cached[q] > 0 => cached'[q] > 0
                          /\ cached' = Cached(current, reading.version) /\ q = current
                             /\ reading.version > 0 => cached'[q] > 0
    BY <1>1, <2>1 DEF Cached, Later
  <2>3. ASSUME NEW q \in Orders, Fresh(q)' PROVE OrderShows(q)'
    <3>1. OrderShows(q)
      BY <1>1, <2>3, FreshBefore DEF Shows
    <3>2. ScreenShows(q)'
      <4>1. ASSUME current = q PROVE pointer' = q /\ (shown' > 0 => cached'[q] > 0)
        <5>1. pointer = q /\ (shown > 0 => cached[q] > 0)
          BY <3>1, <4>1 DEF OrderShows, ScreenShows
        <5>2. QED
          BY <1>1, <2>1, <2>2, <4>1, <5>1 DEF Later
      <4>2. QED
        BY <2>1, <4>1 DEF ScreenShows
    <3>3. QED
      BY <1>2, <1>3, <2>1, <2>2, <3>1, <3>2, ShowsKept
  <2>4. QED
    BY <2>3 DEF Shows
<1>6. CASE DiscardHalted
  <2>1. /\ rows' = WithDiscard(current) \/ rows' = rows
        /\ mirror' = rows' /\ UNCHANGED <<cached, pointer, current, shown, hydration, call, pass, intents>>
    BY <1>6 DEF DiscardHalted, WriteFails, engineVars
  <2>2. ASSUME NEW q \in Orders, Fresh(q)' PROVE OrderShows(q)'
    <3>1. OrderShows(q)
      BY <1>1, <2>2, FreshBefore DEF Shows
    <3>2. CreateOf(rows, q) => CreateOf(rows, q)' \/ (Queued(rows', q) = {} /\ mirror' = rows')
      <4>1. CASE rows' = rows
        BY <1>3, <2>1, <4>1
      <4>2. CASE rows' = WithDiscard(current) /\ q = current
        BY <2>1, <4>2 DEF WithDiscard, Queued
      <4>3. CASE rows' = WithDiscard(current) /\ q # current
        <5>1. ASSUME CreateOf(rows, q) PROVE CreateOf(rows, q)'
          <6>1. PICK j \in Intents : rows[j] # NoRow /\ rows[j].order = q /\ KindOf(j) = "create"
            BY <5>1 DEF CreateOf, Queued
          <6>2. rows'[j] = rows[j]
            BY <4>3, <6>1 DEF WithDiscard, Queued
          <6>3. QED
            BY <2>1, <6>1, <6>2 DEF CreateOf, Queued, KindOf
        <5>2. QED
          BY <5>1
      <4>4. QED
        BY <2>1, <4>1, <4>2, <4>3
    <3>3. QED
      BY <1>2, <2>1, <3>1, <3>2, ShowsKept
  <2>3. QED
    BY <2>2 DEF Shows
<1>7. QED
  BY <1>4, <1>5, <1>6

LEMMA ShowsByHydration ==
    ASSUME Inv, Inv', Grows, ShowInv, Hydrate
    PROVE  Shows'
<1>1. /\ TypeOK /\ Shows /\ Onward /\ rows \in [Intents -> RowType] /\ pass \in PassType
      /\ cached \in [Orders -> Nat] /\ shown \in Nat /\ pointer \in Orders \cup {NULL}
      /\ current \in Orders \cup {NULL} /\ NULL \notin Orders
  BY ConstantsAssumption
     DEF Inv, ShowInv, TypeOK, DiskTypeOK, ScreenTypeOK, EngineTypeOK, Grows, Steady,
         ConstantsAssumption
<1>2. \A i \in Intents \ Formed : intents' = intents => rows'[i] = NoRow
  BY DEF Inv, RowsTrue, RowTrue, Formed
<1>3. ASSUME \A i \in Intents : rows[i] # NoRow => rows'[i] # NoRow
      PROVE  \A q \in Orders : CreateOf(rows, q) => CreateOf(rows, q)'
  BY <1>1, <1>3, CreateStays
<1>4. CASE HydrateReads
  <2>1. /\ UNCHANGED <<cached, pointer, mirror, current, shown, call, pass, intents>>
        /\ hydration' = [phase |-> "restoring", order |-> pointer,
                         version |-> IF pointer = NULL THEN 0 ELSE cached[pointer]]
    BY <1>4 DEF HydrateReads, ReadOrder, engineVars, historyVars
  <2>2. \A i \in Intents : rows[i] # NoRow => rows'[i] # NoRow
    BY <1>1, <1>4, RowsStay DEF HydrateReads
  <2>3. \A q \in Orders : HydrationShows(q)'
    BY <1>1, <2>1 DEF HydrationShows
  <2>4. \A q \in Orders : Fresh(q)' => OrderShows(q)
    BY <1>1, FreshBefore DEF Shows
  <2>5. \A q \in Orders : Fresh(q)' => OrderShows(q)'
    BY <1>2, <1>3, <2>1, <2>2, <2>3, <2>4, ShowsKept
  <2>6. QED
    BY <2>5 DEF Shows
<1>5. CASE HydrateRestores
  <2>1. /\ hydration.phase = "restoring" /\ hydration'.phase # "restoring"
        /\ IF hydration.version > 0 /\ shown = 0
           THEN current' = hydration.order /\ shown' = hydration.version
           ELSE current' = (IF current = NULL THEN hydration.order ELSE current) /\ shown' = shown
        /\ strayed' = strayed \cup ({current'} \ {pointer, NULL})
        /\ mirror' = rows /\ UNCHANGED <<cached, rows, pointer, call, intents>>
    BY <1>5 DEF HydrateRestores, Hydrated, diskVars
  <2>2. \A q \in Orders : CreateOf(rows, q) => CreateOf(rows, q)'
    BY <1>3, <2>1
  <2>3. ASSUME NEW q \in Orders, Fresh(q)' PROVE OrderShows(q)'
    <3>1. OrderShows(q) /\ q \notin strayed'
      BY <1>1, <2>3, FreshBefore DEF Shows, Fresh
    <3>2. ASSUME current' = q PROVE pointer' = q /\ (shown' > 0 => cached'[q] > 0)
      <4>1. pointer' = q
        BY <1>1, <2>1, <3>1, <3>2
      <4>2. CASE hydration.version > 0 /\ shown = 0
        BY <2>1, <3>1, <3>2, <4>1, <4>2 DEF OrderShows, HydrationShows
      <4>3. CASE ~(hydration.version > 0 /\ shown = 0) /\ current = NULL
        <5>1. shown = 0
          BY <4>3 DEF Inv, NothingIsAhead, KnownAt
        <5>2. QED
          BY <2>1, <4>1, <4>3, <5>1
      <4>4. CASE ~(hydration.version > 0 /\ shown = 0) /\ current # NULL
        BY <2>1, <3>1, <3>2, <4>1, <4>4 DEF OrderShows, ScreenShows
      <4>5. QED
        BY <4>2, <4>3, <4>4
    <3>3. ScreenShows(q)'
      BY <3>2 DEF ScreenShows
    <3>4. QED
      BY <1>2, <2>1, <2>2, <3>1, <3>3, ShowsKept
  <2>4. QED
    BY <2>3 DEF Shows
<1>6. CASE HydratePrunes
  <2>1. /\ cached' = [o \in Orders |-> IF Referenced(o) THEN cached[o] ELSE 0]
        /\ hydration'.phase # "restoring" /\ ~pass.running
        /\ UNCHANGED <<rows, pointer, mirror, current, shown, call, pass, intents>>
    BY <1>6 DEF HydratePrunes, Hydrated, engineVars, historyVars
  <2>2. \A q \in Orders : CreateOf(rows, q) => CreateOf(rows, q)'
    BY <1>3, <2>1
  <2>3. call["pass"].step # "cached"
    BY <2>1 DEF ShowInv, IdleIsIdle, NoCall
  <2>4. ASSUME NEW q \in Orders, Fresh(q)', Referenced(q) PROVE OrderShows(q)'
    <3>1. OrderShows(q) /\ cached'[q] = cached[q]
      BY <1>1, <2>1, <2>4, FreshBefore DEF Shows
    <3>2. QED
      BY <1>2, <2>1, <2>2, <3>1, ShowsKept
  <2>5. ASSUME NEW q \in Orders, Fresh(q)', ~Referenced(q) PROVE OrderShows(q)'
    <3>1. OrderShows(q) /\ q # pointer /\ Queued(rows, q) = {}
      BY <1>1, <2>5, FreshBefore DEF Shows, Referenced
    <3>2. ~CreateOf(rows, q)
      BY <3>1 DEF CreateOf
    <3>3. ~CreateOf(mirror, q) /\ current # q
      BY <2>1, <3>1, <3>2 DEF OrderShows, MirrorShows, ScreenShows
    <3>4. RowsShow(q)' /\ MirrorShows(q)' /\ ScreenShows(q)' /\ HydrationShows(q)' /\ PassShows(q)'
      BY <2>1, <2>3, <3>1, <3>3
         DEF RowsShow, MirrorShows, ScreenShows, HydrationShows, PassShows, CreateOf, Queued, KindOf
    <3>5. QED
      BY <3>4 DEF OrderShows
  <2>6. QED
    BY <2>4, <2>5 DEF Shows
<1>7. QED
  BY <1>4, <1>5, <1>6 DEF Hydrate

LEMMA ShowsStep ==
    ASSUME Inv, Inv', ShowInv, [Next]_vars
    PROVE  ShowInv'
<1>1. Grows /\ IdleIsIdle' /\ AnswersSeen' /\ HeadsReissued'
  BY GrowsStep, IdleStep, AnswersStep, HeadsStep DEF ShowInv
<1>2. Shows /\ TypeOK /\ call \in [Callers -> CallType] /\ pass \in PassType
  BY DEF ShowInv, Inv, TypeOK, EngineTypeOK
<1> SUFFICES Shows'
  BY <1>1 DEF ShowInv
<1>3. ASSUME NEW c \in Callers, Attempt(c) \/ Lose(c) PROVE Shows'
  BY <1>1, <1>3, ShowsByAttempts
<1>4. ASSUME NEW req \in loose, ServeLoose(req) PROVE Shows'
  BY <1>1, <1>2, <1>4, ShowsByFrame DEF ServeLoose, diskVars, screenVars, engineVars
<1>5. ASSUME NEW o \in Orders, OtherTerminal(o) PROVE Shows'
  BY <1>1, <1>2, <1>5, ShowsByFrame
     DEF OtherTerminal, diskVars, screenVars, engineVars, historyVars
<1>6. ASSUME NEW o \in Orders, CreateOrder(o) PROVE Shows'
  BY <1>1, <1>2, <1>6, ShowsByCommands
<1>7. ASSUME NEW kind \in CommandKinds, Command(kind) PROVE Shows'
  BY <1>1, <1>2, <1>7, ShowsByCommands
<1>8. ASSUME NEW o \in Orders, FocusOrder(o) PROVE Shows'
  BY <1>1, <1>8, ShowsByScreen
<1>9. CASE DiscardHalted \/ TakeOrder
  BY <1>1, <1>9, ShowsByScreen
<1>10. CASE Hydrate
  BY <1>1, <1>10, ShowsByHydration
<1>11. ASSUME NEW r \in Rebases, RebaseHalted(r) \/ ReadHead(r) PROVE Shows'
  BY <1>1, <1>2, <1>11, ShowsByFrame DEF RebaseHalted, ReadHead, diskVars, screenVars, historyVars
<1>12. ASSUME NEW r \in Rebases, RebaseEnds(r) PROVE Shows'
  BY <1>1, <1>2, <1>12, ShowsByFrame DEF RebaseEnds, Mirrored, diskVars, historyVars
<1>13. ASSUME NEW r \in Rebases, RebaseSends(r) PROVE Shows'
  <2>1. /\ rows' = WithStatus(rebase[r].head, "SYNCING") /\ call'["pass"] = call["pass"]
        /\ UNCHANGED <<cached, pointer, screenVars, pass, intents>>
    BY <1>2, <1>13, CallersApart DEF RebaseSends, Send
  <2>2. \A i \in Intents : rows[i] # NoRow => rows'[i] # NoRow
    BY <1>2, <2>1, RowsStay
  <2>3. QED
    BY <1>1, <1>2, <2>1, <2>2, ShowsUntouched DEF screenVars
<1>14. ASSUME NEW r \in Rebases, Reissue(r) PROVE Shows'
  <2>1. UNCHANGED <<cached, pointer, screenVars, call, pass, intents>>
    BY <1>14 DEF Reissue
  <2>2. \/ rows' = rows
        \/ \E i \in Intents : \E k, b :
               rows' = [rows EXCEPT ![i] = [order |-> rebase[r].order, k |-> k, base |-> b,
                                            status |-> "PENDING"]]
    <3>1. rebase[r].head.intent \in Intents
      BY <1>14, ReissueCounts
    <3>2. QED
      BY <1>14, <3>1 DEF Reissue, WithFailedSwap
  <2>3. \A i \in Intents : rows[i] # NoRow => rows'[i] # NoRow
    BY <1>2, <2>2 DEF NoRow, TypeOK, DiskTypeOK
  <2>4. QED
    BY <1>1, <1>2, <2>1, <2>3, ShowsUntouched DEF screenVars
<1>15. CASE PassSends
  <2>1. /\ \E req : rows' = WithStatus(req, "SYNCING")
        /\ call'["pass"].step # "cached"
        /\ UNCHANGED <<cached, pointer, screenVars, pass, intents>>
    BY <1>2, <1>15 DEF PassSends, Send, Callers
  <2>2. \A i \in Intents : rows[i] # NoRow => rows'[i] # NoRow
    BY <1>2, <2>1, RowsStay
  <2>3. QED
    BY <1>1, <1>2, <2>1, <2>2, ShowsUntouched DEF screenVars
<1>16. CASE PassEnds
  BY <1>1, <1>2, <1>16, ShowsByFrame DEF PassEnds, Mirrored, diskVars, historyVars
<1>17. CASE Trigger
  BY <1>1, <1>2, <1>17, ShowsByFrame DEF Trigger, Run, PassType, diskVars, screenVars, historyVars
<1>18. CASE Visit
  BY <1>1, <1>2, <1>18, ShowsByFrame
     DEF Visit, Leave, Detach, OpenAgain, Emptied, Hydrated, diskVars, engineVars, historyVars
<1>19. CASE Clear \/ AskOrder
  BY <1>1, <1>2, <1>19, ShowsByFrame DEF Clear, AskOrder, diskVars, engineVars, historyVars
<1>20. CASE Reload
  BY <1>1, <1>2, <1>20, ShowsByFrame DEF Reload, Hydrated, NoCall, diskVars, historyVars, Callers
<1>21. CASE UNCHANGED vars
  BY <1>1, <1>2, <1>21, ShowsByFrame DEF vars, diskVars, screenVars, engineVars, historyVars
<1>22. QED
  BY <1>3, <1>4, <1>5, <1>6, <1>7, <1>8, <1>9, <1>10, <1>11, <1>12, <1>13, <1>14, <1>15, <1>16,
     <1>17, <1>18, <1>19, <1>20, <1>21 DEF Next, Rebase, Pass

LEMMA ShowInit ==
    ASSUME Init
    PROVE  ShowInv
<1>1. Inv
  BY InvInit
<1>2. \A i \in Intents : rows[i] = NoRow /\ mirror[i] = NoRow
  BY DEF Init
<1>3. NULL \notin Orders /\ Formed = {}
  BY ConstantsAssumption DEF ConstantsAssumption, Init, Formed
<1>4. \A o \in Orders : OrderShows(o)
  BY <1>2, <1>3 DEF Init, OrderShows, RowsShow, MirrorShows, ScreenShows, HydrationShows, PassShows,
                    CreateOf, Queued, Hydrated, NoCall, Callers
<1>5. IdleIsIdle /\ AnswersSeen /\ HeadsReissued
  BY <1>3 DEF Init, IdleIsIdle, AnswersSeen, HeadsReissued, IdlePass, IdleRebase, NoCall, Callers
<1>6. QED
  BY <1>4, <1>5 DEF ShowInv, Shows

LEMMA ShowInvariant == Spec => [](Inv /\ ShowInv)
<1>1. Init => ShowInv
  BY ShowInit
<1>2. Inv /\ Inv' /\ ShowInv /\ [Next]_vars => ShowInv'
  BY ShowsStep
<1>3. QED
  BY <1>1, <1>2, Invariant, PTL DEF Spec

(* Of every order that is queued a reload finds the create or a snapshot,  *)
(* whatever was lost, refused, rebased, discarded or pruned, and whenever  *)
(* the screen was left (hydrate, pruneOrders, onCanonical).                *)
THEOREM ReloadShows == Spec => []ReloadShowsQueue
<1>1. ASSUME Inv, ShowInv PROVE ReloadShowsQueue
  <2> SUFFICES ASSUME NEW i \in Formed,
                      rows[i] # NoRow, i \notin doubted, OrderOf(i) \notin strayed,
                      \A j \in Formed : intents[j].kind = "create" /\ OrderOf(j) = OrderOf(i)
                                        => minted[j] = 1
               PROVE  \/ cached[OrderOf(i)] > 0
                      \/ \E j \in Queued(rows, OrderOf(i)) : intents[j].kind = "create"
    BY DEF ReloadShowsQueue
  <2>1. PICK o \in Orders : o = OrderOf(i)
    BY <1>1, FormedIntents DEF Inv
  <2>2. Fresh(o)
    BY <2>1 DEF Fresh, KindOf
  <2>3. i \in Queued(rows, o)
    BY <1>1, <2>1, FormedIntents DEF Inv, RowsTrue, RowTrue, Queued
  <2>4. cached[o] > 0 \/ CreateOf(rows, o)
    BY <1>1, <2>2, <2>3 DEF ShowInv, Shows, OrderShows, RowsShow
  <2>5. QED
    BY <2>1, <2>4 DEF CreateOf, KindOf
<1>2. QED
  BY <1>1, ShowInvariant, PTL

-----------------------------------------------------------------------------
(* With no pass running, no row is left that could be sent.                *)

PassHas(i) == \E e \in pass.todo : e.req = RequestOf(rows, i)

(* A rebase has a row in hand from the time it reads the queue of its order*)
(* until it has sent the head.                                             *)
RebaseHas(i) ==
    \E r \in Rebases :
        /\ rebase[r].order = rows[i].order
        /\ \/ rebase[r].phase = "reading"
           \/ rebase[r].phase = "reissuing" /\ rebase[r].head.intent <= i
           \/ /\ rebase[r].phase = "sending"
              /\ rebase[r].head.intent < i \/ rebase[r].head = RequestOf(rows, i)

(* The row is halted, or one before it is, and the pass will not mark that *)
(* one as sent.                                                            *)
BehindHalt(i) ==
    \E j \in Queued(rows, rows[i].order) : j <= i /\ HaltedRow(rows[j]) /\ ~PassHas(j)

(* The next pass finds it, or a halt before it.                            *)
NextPassHas(i) ==
    /\ pass.again
    /\ \A j \in Queued(rows, rows[i].order) : HaltedRow(rows[j]) => j <= i
    /\ \A e \in pass.todo : OrderOf(e.req.intent) = rows[i].order => e.req.intent < i
    /\ \A r \in Rebases :
           rebase[r].order = rows[i].order => rebase[r].phase \in {"idle", "reading", "ending"}

InHand(i) == PassHas(i) \/ RebaseHas(i) \/ BehindHalt(i) \/ NextPassHas(i)

RowsInHand == faults = 0 => \A i \in Intents : rows[i] # NoRow => InHand(i)

(* A pass has an intent once, and the intents of an order in one group.    *)
PassOrdered ==
    \A e, f \in pass.todo :
        /\ e.req.intent = f.req.intent => e = f
        /\ OrderOf(e.req.intent) = OrderOf(f.req.intent) => e.group = f.group

(* What a pass has sent is the first of what it has left. *)
CallInPass ==
    call["pass"] # NoCall =>
        \E e \in pass.todo : e.req = call["pass"].req /\ \A f \in pass.todo : Before(e, f)

(* With nothing going wrong every command is stored. *)
NoDirect == faults = 0 => call["direct"] = NoCall

LeftInv == RowsInHand /\ PassOrdered /\ CallInPass /\ NoDirect

(* A pass only loses what it has left, or has nothing sent and reads the   *)
(* queue; what it has sent stays first or is answered.                     *)
PassGoesOn ==
    \/ /\ pass'.todo \subseteq pass.todo
       /\ \/ call'["pass"] = NoCall
          \/ /\ pass'.todo = pass.todo /\ call["pass"] # NoCall
             /\ call'["pass"].req = call["pass"].req
          \/ /\ pass'.todo = pass.todo
             /\ \E e \in pass.todo : /\ \A f \in pass.todo : Before(e, f)
                                     /\ call'["pass"].req = e.req
    \/ pass'.todo = SendList(rows') /\ call'["pass"] = NoCall

LEMMA PassGoesOnStep ==
    ASSUME Inv, IdleIsIdle, [Next]_vars
    PROVE  PassGoesOn
<1>1. /\ pass \in PassType /\ call \in [Callers -> CallType] /\ "pass" \in Callers
      /\ CallsTrue /\ TypeOK
  BY DEF Inv, TypeOK, EngineTypeOK, Callers
<1>2. ASSUME pass' = pass, call'["pass"] = call["pass"] PROVE PassGoesOn
  BY <1>2 DEF PassGoesOn
<1>3. ASSUME NEW c \in Callers, NEW result \in {"applied", "halted", "failed"}, Return(c, result)
      PROVE  PassGoesOn
  <2>1. pass'.todo \subseteq pass.todo
    BY <1>3, ReturnCarries
  <2>2. IF c = "pass" THEN call'["pass"] = NoCall
        ELSE pass' = pass /\ call'["pass"] = call["pass"]
    BY <1>1, <1>3 DEF Return
  <2>3. QED
    BY <1>2, <2>1, <2>2 DEF PassGoesOn
<1>4. ASSUME NEW c \in Callers, Serve(c) \/ TakeCanonical(c) PROVE PassGoesOn
  <2>1. pass' = pass /\ call[c] # NoCall
    BY <1>4 DEF Serve, TakeCanonical, NoCall
  <2>2. call'["pass"] = call["pass"] \/ (c = "pass" /\ call'["pass"].req = call["pass"].req)
    <3>1. CASE Serve(c)
      BY <1>1, <3>1 DEF Serve, CallType, NoCall
    <3>2. CASE TakeCanonical(c)
      BY <1>1, <3>2 DEF TakeCanonical, CallType, NoCall
    <3>3. QED
      BY <1>4, <3>1, <3>2
  <2>3. QED
    BY <1>2, <2>1, <2>2 DEF PassGoesOn
<1>5. ASSUME NEW c \in Callers, DeleteRow(c) \/ HaltQueue(c) \/ Lose(c) PROVE PassGoesOn
  BY <1>3, <1>5 DEF DeleteRow, HaltQueue, Lose
<1>6. ASSUME Run(rows'), call'["pass"] = call["pass"] PROVE PassGoesOn
  <2>1. CASE pass.running
    BY <1>1, <1>6, <2>1 DEF Run, PassType, PassGoesOn
  <2>2. CASE ~pass.running
    BY <1>6, <2>2 DEF Run, IdleIsIdle, PassGoesOn
  <2>3. QED
    BY <2>1, <2>2
<1>7. ASSUME NEW identity, Stage(identity) PROVE PassGoesOn
  <2>1. \/ Run(rows') /\ call'["pass"] = call["pass"]
        \/ pass' = pass /\ call'["pass"] = call["pass"]
    BY <1>1, <1>7 DEF Stage, SendUnstored, Send
  <2>2. QED
    BY <1>2, <1>6, <2>1
<1>8. CASE PassSends
  <2>1. PICK e \in pass.todo : /\ \A f \in pass.todo : Before(e, f)
                               /\ Send("pass", e.req, WithStatus(e.req, "SYNCING"))
    BY <1>8 DEF PassSends
  <2>2. call'["pass"].req = e.req /\ pass' = pass
    BY <1>1, <1>8, <2>1 DEF Send, PassSends
  <2>3. QED
    BY <2>1, <2>2 DEF PassGoesOn
<1>9. CASE PassEnds
  BY <1>9 DEF PassEnds, PassGoesOn, IdlePass, diskVars
<1>10. ASSUME NEW r \in Rebases, RebaseSends(r) PROVE PassGoesOn
  BY <1>1, <1>2, <1>10, CallersApart DEF RebaseSends, Send
<1>11. CASE Reload
  BY <1>1, <1>11 DEF Reload, PassGoesOn, IdlePass
<1>12. CASE Trigger \/ HydrateRestores
  BY <1>6, <1>12 DEF Trigger, HydrateRestores, diskVars
<1>13. ASSUME NEW req \in loose, ServeLoose(req) PROVE PassGoesOn
  BY <1>2, <1>13 DEF ServeLoose, engineVars
<1>14. ASSUME NEW o \in Orders, OtherTerminal(o) \/ CreateOrder(o) \/ FocusOrder(o) PROVE PassGoesOn
  BY <1>2, <1>7, <1>14 DEF OtherTerminal, CreateOrder, FocusOrder, engineVars
<1>15. ASSUME NEW kind \in CommandKinds, Command(kind) PROVE PassGoesOn
  BY <1>7, <1>15 DEF Command
<1>16. ASSUME NEW r \in Rebases, RebaseHalted(r) \/ ReadHead(r) \/ Reissue(r) \/ RebaseEnds(r)
       PROVE  PassGoesOn
  BY <1>2, <1>16 DEF RebaseHalted, ReadHead, Reissue, RebaseEnds
<1>17. CASE HydrateReads \/ HydratePrunes \/ Visit \/ Clear \/ DiscardHalted \/ AskOrder
            \/ TakeOrder \/ UNCHANGED vars
  BY <1>2, <1>17 DEF HydrateReads, HydratePrunes, Visit, Leave, Detach, OpenAgain, Clear,
                     DiscardHalted, AskOrder, TakeOrder, vars, engineVars
<1>18. QED
  BY <1>4, <1>5, <1>8, <1>9, <1>10, <1>11, <1>12, <1>13, <1>14, <1>15, <1>16, <1>17
     DEF Next, Attempt, Rebase, Pass, Hydrate

LEMMA PassStands ==
    ASSUME Inv, Inv', Onward, PassGoesOn, PassOrdered, CallInPass
    PROVE  PassOrdered' /\ CallInPass'
<1>1. CallInPass'
  BY DEF PassGoesOn, CallInPass
<1>2. CASE pass'.todo \subseteq pass.todo
  <2>1. \A e \in pass'.todo : e.req.intent \in Formed
    BY <1>2 DEF Inv, PassTrue, ToDoTrue, Genuine, Formed
  <2>2. \A e \in pass'.todo : OrderOf(e.req.intent)' = OrderOf(e.req.intent)
    <3> SUFFICES ASSUME NEW e \in pass'.todo PROVE OrderOf(e.req.intent)' = OrderOf(e.req.intent)
      OBVIOUS
    <3>1. PICK i \in Formed : i = e.req.intent
      BY <2>1
    <3>2. OrderOf(i)' = OrderOf(i)
      BY IntentKept DEF Inv
    <3>3. QED
      BY <3>1, <3>2 DEF OrderOf
  <2>3. QED
    BY <1>1, <1>2, <2>2 DEF PassOrdered, OrderOf
<1>3. CASE pass'.todo = SendList(rows')
  <2> PICK q : q = rows'
    OBVIOUS
  <2>1. \A e \in pass'.todo : \E i \in Intents :
            q[i] # NoRow /\ e = [req |-> RequestOf(q, i), group |-> FirstOf(q, i)]
    BY <1>3 DEF SendList, ToSend
  <2>2. \A i \in Intents : q[i] # NoRow => q[i].order = OrderOf(i)'
    BY DEF Inv, RowsTrue, RowTrue
  <2>3. ASSUME NEW e \in pass'.todo, NEW f \in pass'.todo
        PROVE  /\ e.req.intent = f.req.intent => e = f
               /\ OrderOf(e.req.intent)' = OrderOf(f.req.intent)' => e.group = f.group
    <3>1. PICK i \in Intents : q[i] # NoRow /\ e = [req |-> RequestOf(q, i), group |-> FirstOf(q, i)]
      BY <2>1
    <3>2. PICK j \in Intents : q[j] # NoRow /\ f = [req |-> RequestOf(q, j), group |-> FirstOf(q, j)]
      BY <2>1
    <3>3. e.req.intent = i /\ f.req.intent = j
      BY <3>1, <3>2 DEF RequestOf
    <3>4. q[i].order = q[j].order => FirstOf(q, i) = FirstOf(q, j)
      BY DEF FirstOf
    <3>5. QED
      BY <2>2, <3>1, <3>2, <3>3, <3>4 DEF OrderOf
  <2>4. QED
    BY <1>1, <2>3 DEF PassOrdered, OrderOf
<1>4. QED
  BY <1>2, <1>3 DEF PassGoesOn

(* A row in hand stays so for the reason it was.                           *)
SameRequest(i) ==
    rows'[i].order = rows[i].order /\ rows'[i].k = rows[i].k /\ rows'[i].base = rows[i].base

LEMMA PassHasKept ==
    ASSUME NEW i \in Intents, PassHas(i), SameRequest(i),
           \A e \in pass.todo : e.req = RequestOf(rows, i) => e \in pass'.todo
    PROVE  PassHas(i)'
  BY DEF PassHas, SameRequest, RequestOf

LEMMA RebaseHasKept ==
    ASSUME NEW i \in Intents, RebaseHas(i), SameRequest(i),
           \A r \in Rebases : /\ rebase[r].order = rows[i].order
                              /\ rebase[r].phase \in {"reading", "reissuing", "sending"}
                              => rebase'[r] = rebase[r]
    PROVE  RebaseHas(i)'
<1>1. RequestOf(rows', i) = RequestOf(rows, i)
  BY DEF SameRequest, RequestOf
<1>2. PICK r \in Rebases :
          /\ rebase[r].order = rows[i].order
          /\ \/ rebase[r].phase = "reading"
             \/ rebase[r].phase = "reissuing" /\ rebase[r].head.intent <= i
             \/ /\ rebase[r].phase = "sending"
                /\ rebase[r].head.intent < i \/ rebase[r].head = RequestOf(rows, i)
  BY DEF RebaseHas
<1>3. rebase'[r] = rebase[r] /\ rows'[i].order = rows[i].order
  BY <1>2 DEF SameRequest
<1>4. QED
  BY <1>1, <1>2, <1>3 DEF RebaseHas, RequestOf

LEMMA BehindHaltKept ==
    ASSUME Inv', NEW i \in Intents, BehindHalt(i), rows'[i].order = rows[i].order,
           rows[i].order \in Orders,
           \A j \in Queued(rows, rows[i].order) :
               j <= i /\ HaltedRow(rows[j]) /\ ~PassHas(j)
               => HaltedRow(rows'[j]) /\ SameRequest(j) /\ ~PassHas(j)'
    PROVE  BehindHalt(i)'
<1>1. PICK j \in Queued(rows, rows[i].order) : j <= i /\ HaltedRow(rows[j]) /\ ~PassHas(j)
  BY DEF BehindHalt
<1>2. HaltedRow(rows'[j]) /\ ~PassHas(j)' /\ rows'[j].order = rows[i].order /\ j \in Intents
  BY <1>1 DEF SameRequest, Queued
<1>3. rows'[j] # NoRow
  BY <1>2, RowIsThere DEF Inv, TypeOK, DiskTypeOK
<1>4. j \in Queued(rows', rows'[i].order)
  BY <1>2, <1>3 DEF Queued
<1>5. QED
  BY <1>1, <1>2, <1>4 DEF BehindHalt

LEMMA NoneHasMore ==
    ASSUME NEW j \in Intents, ~PassHas(j), pass'.todo \subseteq pass.todo, SameRequest(j)
    PROVE  ~PassHas(j)'
  BY DEF PassHas, SameRequest, RequestOf

LEMMA NextPassHasKept ==
    ASSUME Inv, Onward, NEW i \in Intents, NextPassHas(i), rows'[i].order = rows[i].order,
           pass'.again, pass'.todo \subseteq pass.todo,
           \A j \in Queued(rows', rows[i].order) :
               HaltedRow(rows'[j]) => j \in Queued(rows, rows[i].order) /\ HaltedRow(rows[j]),
           \A r \in Rebases : rebase'[r].order = rows[i].order =>
               \/ rebase'[r].phase \in {"idle", "reading", "ending"}
               \/ rebase'[r].phase = rebase[r].phase /\ rebase'[r].order = rebase[r].order
    PROVE  NextPassHas(i)'
<1>1. \A j \in Queued(rows', rows'[i].order) : HaltedRow(rows'[j]) => j <= i
  BY DEF NextPassHas
<1>2. \A e \in pass'.todo : OrderOf(e.req.intent)' = rows'[i].order => e.req.intent < i
  <2> SUFFICES ASSUME NEW e \in pass'.todo, OrderOf(e.req.intent)' = rows'[i].order
               PROVE  e.req.intent < i
    OBVIOUS
  <2>1. e \in pass.todo /\ e.req.intent \in Formed
    BY DEF Inv, PassTrue, ToDoTrue, Genuine, Formed
  <2>2. PICK j \in Formed : j = e.req.intent
    BY <2>1
  <2>3. OrderOf(j)' = OrderOf(j)
    BY IntentKept DEF Inv
  <2>4. OrderOf(j)' = rows[i].order
    BY <2>2 DEF OrderOf
  <2>5. QED
    BY <2>1, <2>2, <2>3, <2>4 DEF NextPassHas
<1>3. \A r \in Rebases : rebase'[r].order = rows'[i].order
                             => rebase'[r].phase \in {"idle", "reading", "ending"}
  BY DEF NextPassHas
<1>4. QED
  BY <1>1, <1>2, <1>3 DEF NextPassHas, OrderOf, Queued

(* What holds of a row of an order the step leaves alone. *)
LEMMA HandKept ==
    ASSUME Inv, Inv', Onward, NEW i \in Intents, rows[i] # NoRow, InHand(i), SameRequest(i),
           \A j \in Queued(rows, rows[i].order) :
               j <= i /\ HaltedRow(rows[j]) /\ ~PassHas(j) => HaltedRow(rows'[j]) /\ SameRequest(j),
           \A j \in Queued(rows', rows[i].order) :
               HaltedRow(rows'[j]) => j \in Queued(rows, rows[i].order) /\ HaltedRow(rows[j]),
           pass'.todo \subseteq pass.todo, pass.again => pass'.again,
           \A e \in pass.todo : e.req = RequestOf(rows, i) => e \in pass'.todo,
           \A r \in Rebases :
               /\ \/ rebase'[r] = rebase[r] \/ rebase[r].order # rows[i].order
                  \/ rebase[r].phase \in {"idle", "ending"}
               /\ \/ rebase'[r] = rebase[r] \/ rebase'[r].order # rows[i].order
                  \/ rebase'[r].phase \in {"idle", "reading", "ending"}
    PROVE  InHand(i)'
<1>1. rows[i].order \in Orders
  BY RowIsLive
<1>2. PassHas(i) => PassHas(i)'
  BY PassHasKept
<1>3. RebaseHas(i) => RebaseHas(i)'
  BY RebaseHasKept
<1>4. BehindHalt(i) => BehindHalt(i)'
  <2>1. \A j \in Queued(rows, rows[i].order) :
            j <= i /\ HaltedRow(rows[j]) /\ ~PassHas(j)
            => HaltedRow(rows'[j]) /\ SameRequest(j) /\ ~PassHas(j)'
    BY NoneHasMore DEF Queued
  <2>2. QED
    BY <1>1, <2>1, BehindHaltKept DEF SameRequest
<1>5. NextPassHas(i) => NextPassHas(i)'
  <2>1. NextPassHas(i) => pass.again
    BY DEF NextPassHas
  <2>2. \A r \in Rebases : rebase'[r].order = rows[i].order =>
               \/ rebase'[r].phase \in {"idle", "reading", "ending"}
               \/ rebase'[r].phase = rebase[r].phase /\ rebase'[r].order = rebase[r].order
    OBVIOUS
  <2>3. QED
    BY <2>1, <2>2, NextPassHasKept DEF SameRequest
<1>6. QED
  BY <1>2, <1>3, <1>4, <1>5 DEF InHand

LEMMA HandsByFrame ==
    ASSUME Inv, Inv', Onward, faults = 0, RowsInHand,
           \A i \in Intents : SameRequest(i) /\ (HaltedRow(rows'[i]) <=> HaltedRow(rows[i])),
           pass'.todo = pass.todo, pass.again => pass'.again,
           \A r \in Rebases :
               \/ rebase'[r] = rebase[r]
               \/ /\ rebase[r].phase \in {"idle", "ending"}
                  /\ rebase'[r].phase \in {"idle", "reading", "ending"}
    PROVE  RowsInHand'
<1>1. rows \in [Intents -> RowType] /\ rows' \in [Intents -> RowType]
  BY DEF Inv, TypeOK, DiskTypeOK
<1>2. ASSUME NEW i \in Intents, rows'[i] # NoRow PROVE InHand(i)'
  <2>1. rows'[i].order \in Orders
    BY <1>1, <1>2, RowIsThere
  <2>2. rows[i].order \in Orders /\ rows[i].order # NULL
    BY <2>1, ConstantsAssumption DEF SameRequest, ConstantsAssumption
  <2>3. rows[i] # NoRow
    BY <1>1, <2>2, RowIsThere
  <2>4. InHand(i)
    BY <2>3 DEF RowsInHand
  <2>5. \A j \in Queued(rows', rows[i].order) :
            HaltedRow(rows'[j]) => j \in Queued(rows, rows[i].order) /\ HaltedRow(rows[j])
    <3> SUFFICES ASSUME NEW j \in Queued(rows', rows[i].order), HaltedRow(rows'[j])
                 PROVE  j \in Queued(rows, rows[i].order) /\ HaltedRow(rows[j])
      OBVIOUS
    <3>1. j \in Intents /\ rows[j].order = rows[i].order
      BY DEF Queued, SameRequest
    <3>2. rows[j] # NoRow
      BY <1>1, <2>2, <3>1, RowIsThere
    <3>3. QED
      BY <3>1, <3>2 DEF Queued
  <2>6. \A j \in Queued(rows, rows[i].order) :
            HaltedRow(rows[j]) => HaltedRow(rows'[j]) /\ SameRequest(j)
    BY DEF Queued
  <2>7. QED
    BY <2>2, <2>3, <2>4, <2>5, <2>6, HandKept
<1>3. QED
  BY <1>2 DEF RowsInHand

(* An entry of the pass, or the head of a rebase, that has the id of a row *)
(* is the request made of that row.                                        *)
LEMMA InHandIsRequest ==
    ASSUME Inv, OnceInv, NEW req \in Request, YetToSend(req) \/ Held(req), HasRow(req)
    PROVE  /\ req.intent \in Intents /\ rows[req.intent] # NoRow
           /\ req = RequestOf(rows, req.intent)
<1>1. PICK i : i = req.intent
  OBVIOUS
<1>2. i \in Intents /\ rows[i].k = req.k /\ req.k # 0
  BY <1>1, ConstantsAssumption DEF Request, HasRow, ConstantsAssumption
<1>3. rows[i] # NoRow
  BY <1>2 DEF NoRow
<1>4. /\ RequestOf(rows, i) \in Request /\ Live(RequestOf(rows, i))
      /\ RequestOf(rows, i).intent = i /\ RequestOf(rows, i).k = rows[i].k
  BY <1>2, <1>3, RowIsLive
<1>5. Live(req) /\ IdOf(req) = IdOf(RequestOf(rows, i))
  BY <1>1, <1>2, <1>4 DEF Live, Ready, IdOf
<1>6. req.base = RequestOf(rows, i).base
  BY <1>4, <1>5 DEF OnceInv, Identities, OneBase
<1>7. QED
  BY <1>1, <1>2, <1>3, <1>4, <1>5, <1>6, RequestsAreEqual

(* Marking a row as sent. *)
LEMMA MarkedAsSent ==
    ASSUME Inv, NEW req \in Request, rows' = WithStatus(req, "SYNCING")
    PROVE  /\ \A i \in Intents : SameRequest(i)
           /\ \A i \in Intents : rows'[i] # NoRow <=> rows[i] # NoRow
           /\ \A i \in Intents : HaltedRow(rows'[i]) => HaltedRow(rows[i])
           /\ \A i \in Intents : rows'[i] = rows[i] \/ (i = req.intent /\ HasRow(req))
<1>1. rows \in [Intents -> RowType] /\ req.intent \in Intents /\ req.k # 0
  BY ConstantsAssumption DEF Inv, TypeOK, DiskTypeOK, Request, ConstantsAssumption
<1>2. \A i \in Intents : rows'[i] = rows[i] \/ (i = req.intent /\ HasRow(req))
  BY <1>1 DEF WithStatus
<1>3. ASSUME HasRow(req) PROVE LET row == rows'[req.intent] old == rows[req.intent] IN
                               /\ row.order = old.order /\ row.k = old.k /\ row.base = old.base
                               /\ row # NoRow /\ old # NoRow /\ ~HaltedRow(row)
  <2>1. rows[req.intent] # NoRow /\ rows[req.intent] \in RowType
    BY <1>1, <1>3 DEF HasRow, NoRow
  <2>2. rows'[req.intent] = [rows[req.intent] EXCEPT !.status = "SYNCING"]
    BY <1>1, <1>3 DEF WithStatus
  <2>3. QED
    BY <2>1, <2>2, RowMarked DEF HaltedRow
<1>4. QED
  BY <1>2, <1>3 DEF SameRequest

LEMMA HandsByPassSends ==
    ASSUME Inv, Inv', OnceInv, Onward, faults = 0, RowsInHand, PassSends
    PROVE  RowsInHand'
<1>1. PICK e \in pass.todo : rows' = WithStatus(e.req, "SYNCING")
  BY DEF PassSends, Send
<1>2. pass' = pass /\ rebase' = rebase /\ e.req \in Request /\ YetToSend(e.req)
  BY DEF PassSends, Inv, PassTrue, ToDoTrue, Genuine, YetToSend
<1>3. /\ \A i \in Intents : SameRequest(i)
      /\ \A i \in Intents : rows'[i] # NoRow <=> rows[i] # NoRow
      /\ \A i \in Intents : HaltedRow(rows'[i]) => HaltedRow(rows[i])
      /\ \A i \in Intents : rows'[i] = rows[i] \/ (i = e.req.intent /\ HasRow(e.req))
  BY <1>1, <1>2, MarkedAsSent
<1>4. HasRow(e.req) => PassHas(e.req.intent)
  BY <1>2, InHandIsRequest DEF PassHas
<1>5. ASSUME NEW i \in Intents, rows'[i] # NoRow PROVE InHand(i)'
  <2>1. rows[i] # NoRow /\ InHand(i)
    BY <1>3, <1>5 DEF RowsInHand
  <2>2. \A j \in Queued(rows, rows[i].order) :
            j <= i /\ HaltedRow(rows[j]) /\ ~PassHas(j) => HaltedRow(rows'[j]) /\ SameRequest(j)
    BY <1>3, <1>4 DEF Queued
  <2>3. \A j \in Queued(rows', rows[i].order) :
            HaltedRow(rows'[j]) => j \in Queued(rows, rows[i].order) /\ HaltedRow(rows[j])
    BY <1>3 DEF Queued, SameRequest
  <2>4. QED
    BY <1>2, <1>3, <2>1, <2>2, <2>3, HandKept
<1>6. QED
  BY <1>5 DEF RowsInHand

LEMMA HandsByRebaseSends ==
    ASSUME Inv, Inv', OnceInv, Onward, faults = 0, RowsInHand, NEW r \in Rebases, RebaseSends(r)
    PROVE  RowsInHand'
<1>1. PICK req : req = rebase[r].head
  OBVIOUS
<1>2. /\ rows' = WithStatus(req, "SYNCING") /\ pass' = pass /\ rebase' = rebase
      /\ rebase[r].phase = "sending" /\ req \in Request /\ YetToSend(req)
      /\ OrderOf(req.intent) = rebase[r].order
  BY <1>1 DEF RebaseSends, Send, Inv, RebasesTrue, RebaseTrue, Genuine, YetToSend
<1>3. /\ \A i \in Intents : SameRequest(i)
      /\ \A i \in Intents : rows'[i] # NoRow <=> rows[i] # NoRow
      /\ \A i \in Intents : HaltedRow(rows'[i]) => HaltedRow(rows[i])
      /\ \A i \in Intents : rows'[i] = rows[i] \/ (i = req.intent /\ HasRow(req))
  BY <1>2, MarkedAsSent
<1>4. ASSUME NEW i \in Intents, rows'[i] # NoRow PROVE InHand(i)'
  <2>1. rows[i] # NoRow /\ InHand(i) /\ rows[i].order = OrderOf(i) /\ rows'[i].order = rows[i].order
    BY <1>3, <1>4, RowIsLive DEF RowsInHand, SameRequest
  <2>2. CASE rows[i].order = rebase[r].order /\ (req.intent < i \/ (req.intent = i /\ HasRow(req)))
    <3>1. req.intent = i /\ HasRow(req) => req = RequestOf(rows, i)
      BY <1>2, InHandIsRequest
    <3>2. RequestOf(rows', i) = RequestOf(rows, i)
      BY <1>3 DEF SameRequest, RequestOf
    <3>3. rebase'[r].head.intent < i \/ rebase'[r].head = RequestOf(rows', i)
      BY <1>1, <1>2, <2>2, <3>1, <3>2
    <3>4. RebaseHas(i)'
      BY <1>2, <2>1, <2>2, <3>3 DEF RebaseHas, RequestOf
    <3>5. QED
      BY <3>4 DEF InHand
  <2>3. CASE ~(rows[i].order = rebase[r].order /\ (req.intent < i \/ (req.intent = i /\ HasRow(req))))
    <3>1. \A j \in Queued(rows, rows[i].order) : j <= i => rows'[j] = rows[j]
      <4> SUFFICES ASSUME NEW j \in Queued(rows, rows[i].order), j <= i, rows'[j] # rows[j]
                   PROVE  FALSE
        OBVIOUS
      <4>1. j \in Intents /\ rows[j] # NoRow /\ rows[j].order = rows[i].order
        BY DEF Queued
      <4>2. j = req.intent /\ HasRow(req)
        BY <1>3, <4>1
      <4>3. rows[i].order = rebase[r].order
        BY <1>2, <4>1, <4>2, RowIsLive
      <4>4. j < i \/ j = i
        BY <4>1, IntentsAreNumbers
      <4>5. QED
        BY <2>3, <4>2, <4>3, <4>4
    <3>2. \A j \in Queued(rows', rows[i].order) :
              HaltedRow(rows'[j]) => j \in Queued(rows, rows[i].order) /\ HaltedRow(rows[j])
      BY <1>3 DEF Queued, SameRequest
    <3>3. \A j \in Queued(rows, rows[i].order) : j \in Intents
      BY DEF Queued
    <3>4. QED
      BY <1>2, <1>3, <2>1, <3>1, <3>2, <3>3, HandKept
  <2>4. QED
    BY <2>2, <2>3
<1>5. QED
  BY <1>4 DEF RowsInHand

LEMMA HandsByDelete ==
    ASSUME Inv, Inv', OnceInv, Onward, faults = 0, faults' = 0, LeftInv,
           NEW c \in Callers, DeleteRow(c)
    PROVE  RowsInHand'
<1>0. RowsInHand /\ PassOrdered /\ CallInPass /\ NoDirect
  BY DEF LeftInv
<1>1. PICK req : req = call[c].req
  OBVIOUS
<1>2. /\ call[c].step = "cached" /\ rows' = Without(req) /\ Return(c, "applied")
      /\ intents' = intents
  BY <1>1, ConstantsAssumption
     DEF DeleteRow, WriteFails, Fault, Inv, TypeOK, HistoryTypeOK, historyVars, ConstantsAssumption
<1>3. /\ call[c] # NoCall /\ CallTrue(c) /\ req \in Request /\ req.intent \in Intents
      /\ Held(req) /\ c # "direct"
  <2>1. /\ call[c] # NoCall /\ CallTrue(c) /\ req \in Request /\ req.intent \in Intents
    BY <1>1, <1>2, CallHasRequest DEF Inv
  <2>2. Held(req) /\ c # "direct"
    BY <1>0, <1>1, <2>1 DEF Held, NoDirect
  <2>3. QED
    BY <2>1, <2>2
<1>4. /\ rows \in [Intents -> RowType] /\ pass \in PassType /\ rebase \in [Rebases -> RebaseType]
  BY DEF Inv, TypeOK, DiskTypeOK, EngineTypeOK
<1>5. /\ \A i \in Intents : rows'[i] = rows[i] \/ (i = req.intent /\ HasRow(req) /\ rows'[i] = NoRow)
      /\ ~HasRow(req) => rows' = rows
      /\ HasRow(req) => rows'[req.intent] = NoRow
  BY <1>2, <1>3, <1>4 DEF Without
<1>6. CASE c = "pass"
  <2>1. /\ pass'.todo = {e \in pass.todo : e.req # req} /\ pass'.again = pass.again
        /\ rebase' = rebase
    BY <1>1, <1>2, <1>4, <1>6, CallersApart DEF Return, Remaining, PassType
  <2>2. ASSUME NEW i \in Intents, rows'[i] # NoRow PROVE InHand(i)'
    <3>1. rows'[i] = rows[i] /\ InHand(i)
      BY <1>0, <1>5, <2>2 DEF RowsInHand
    <3>2. RequestOf(rows, i) # req
      <4>1. RequestOf(rows, i) = req => req.intent = i /\ HasRow(req)
        BY DEF RequestOf, HasRow
      <4>2. QED
        BY <1>5, <2>2, <4>1
    <3>3. \A j \in Queued(rows, rows[i].order) :
              HaltedRow(rows[j]) /\ ~PassHas(j) => rows'[j] = rows[j]
      <4> SUFFICES ASSUME NEW j \in Queued(rows, rows[i].order), ~PassHas(j), rows'[j] # rows[j]
                   PROVE  FALSE
        OBVIOUS
      <4>1. j = req.intent /\ HasRow(req)
        BY <1>5 DEF Queued
      <4>2. req = RequestOf(rows, j)
        BY <1>3, <4>1, InHandIsRequest
      <4>3. PassHas(j)
        BY <1>0, <1>1, <1>3, <1>6, <4>2 DEF CallInPass, PassHas
      <4>4. QED
        BY <4>3
    <3>4. \A j \in Queued(rows', rows[i].order) :
              HaltedRow(rows'[j]) => j \in Queued(rows, rows[i].order) /\ HaltedRow(rows[j])
      BY <1>5 DEF Queued
    <3>5. QED
      BY <2>1, <2>2, <3>1, <3>2, <3>3, <3>4, HandKept DEF SameRequest
  <2>3. QED
    BY <2>2 DEF RowsInHand
<1>7. CASE c \in Rebases
  <2>1. /\ rebase'[c].phase = "reading" /\ rebase'[c].order = rebase[c].order
        /\ \A r \in Rebases : r # c => rebase'[r] = rebase[r]
        /\ pass' = pass
    BY <1>1, <1>2, <1>4, <1>7, CallersApart DEF Return, RebaseType
  <2>2. rebase[c].phase = "sending" /\ OrderOf(req.intent) = rebase[c].order
    BY <1>1, <1>3, <1>7 DEF CallTrue, Inv, RebasesTrue, RebaseTrue
  <2>3. ASSUME NEW i \in Intents, rows'[i] # NoRow PROVE InHand(i)'
    <3>1. rows'[i] = rows[i] /\ InHand(i)
      BY <1>0, <1>5, <2>3 DEF RowsInHand
    <3>2. CASE rows[i].order = rebase[c].order
      <4>1. RebaseHas(i)'
        BY <1>7, <2>1, <3>1, <3>2 DEF RebaseHas
      <4>2. QED
        BY <4>1 DEF InHand
    <3>3. CASE rows[i].order # rebase[c].order
      <4>1. \A j \in Queued(rows, rows[i].order) : rows'[j] = rows[j]
        <5> SUFFICES ASSUME NEW j \in Queued(rows, rows[i].order), rows'[j] # rows[j]
                     PROVE  FALSE
          OBVIOUS
        <5>1. j \in Intents /\ rows[j] # NoRow /\ rows[j].order = rows[i].order
          BY DEF Queued
        <5>2. j = req.intent
          BY <1>5, <5>1
        <5>3. rows[j].order = OrderOf(j)
          BY <5>1, RowIsLive
        <5>4. QED
          BY <2>2, <3>3, <5>1, <5>2, <5>3
      <4>2. \A j \in Queued(rows', rows[i].order) :
                HaltedRow(rows'[j]) => j \in Queued(rows, rows[i].order) /\ HaltedRow(rows[j])
        BY <1>5 DEF Queued
      <4>3. QED
        BY <2>1, <2>3, <3>1, <3>3, <4>1, <4>2, HandKept DEF SameRequest
    <3>4. QED
      BY <3>2, <3>3
  <2>4. QED
    BY <2>3 DEF RowsInHand
<1>8. QED
  BY <1>3, <1>6, <1>7 DEF Callers

(* What a halt does to the rows. *)
LEMMA HaltedRows ==
    ASSUME Inv, NEW req \in Request, req.intent \in Formed, rows' = WithHalt(req)
    PROVE  /\ \A i \in Intents : SameRequest(i) /\ (rows'[i] # NoRow <=> rows[i] # NoRow)
           /\ \A i \in Intents : rows[i] # NoRow =>
                  IF /\ OrderOf(i) = OrderOf(req.intent)
                     /\ i > req.intent \/ (i = req.intent /\ HasRow(req))
                  THEN HaltedRow(rows'[i])
                  ELSE rows'[i] = rows[i]
<1>1. rows \in [Intents -> RowType] /\ req.intent \in Intents /\ OrderOf(req.intent) \in Orders
  BY FormedIntents DEF Inv, TypeOK, DiskTypeOK
<1>2. ASSUME NEW i \in Intents, rows[i] = NoRow PROVE rows'[i] = NoRow
  BY <1>1, <1>2, NoRowComes DEF Inv
<1>3. ASSUME NEW i \in Intents, rows[i] # NoRow
      PROVE  IF /\ OrderOf(i) = OrderOf(req.intent)
                /\ i > req.intent \/ (i = req.intent /\ HasRow(req))
             THEN \E status \in {"CONFLICT", "BLOCKED"} : rows'[i] = [rows[i] EXCEPT !.status = status]
             ELSE rows'[i] = rows[i]
  <2>1. rows[i].order = OrderOf(i)
    BY <1>3, RowIsLive
  <2>2. i \in Queued(rows, OrderOf(req.intent)) <=> OrderOf(i) = OrderOf(req.intent)
    BY <1>3, <2>1 DEF Queued
  <2>3. QED
    BY <1>3, <2>2 DEF WithHalt
<1>4. ASSUME NEW i \in Intents, rows[i] # NoRow, NEW status \in {"CONFLICT", "BLOCKED"},
             rows'[i] = [rows[i] EXCEPT !.status = status]
      PROVE  SameRequest(i) /\ rows'[i] # NoRow /\ HaltedRow(rows'[i])
  <2>1. rows[i] \in RowType
    BY <1>1
  <2>2. /\ rows'[i] # NoRow /\ rows'[i].status = status
        /\ rows'[i].order = rows[i].order /\ rows'[i].k = rows[i].k /\ rows'[i].base = rows[i].base
    BY <1>4, <2>1, RowMarked
  <2>3. QED
    BY <2>2 DEF SameRequest, HaltedRow
<1>5. ASSUME NEW i \in Intents PROVE SameRequest(i) /\ (rows'[i] # NoRow <=> rows[i] # NoRow)
  <2>1. CASE rows'[i] = rows[i]
    BY <2>1 DEF SameRequest
  <2>2. CASE rows'[i] # rows[i]
    BY <1>2, <1>3, <1>4, <2>2
  <2>3. QED
    BY <2>1, <2>2
<1>6. QED
  BY <1>3, <1>4, <1>5

LEMMA HandsByHalt ==
    ASSUME Inv, Inv', OnceInv, Onward, faults = 0, faults' = 0, LeftInv,
           NEW c \in Callers, HaltQueue(c)
    PROVE  RowsInHand'
<1>0. RowsInHand /\ PassOrdered /\ CallInPass /\ NoDirect
  BY DEF LeftInv
<1>1. PICK req : req = call[c].req
  OBVIOUS
<1>2. /\ call[c].step \in {"halting", "refused"} /\ rows' = WithHalt(req) /\ Return(c, "halted")
      /\ intents' = intents
  BY <1>1, ConstantsAssumption
     DEF HaltQueue, WriteFails, Fault, Inv, TypeOK, HistoryTypeOK, ConstantsAssumption
<1>3. /\ call[c] # NoCall /\ CallTrue(c) /\ req \in Request /\ req.intent \in Intents
      /\ req.intent \in Formed /\ c # "direct"
  <2>1. /\ call[c] # NoCall /\ CallTrue(c) /\ req \in Request /\ req.intent \in Intents
        /\ req.intent \in Formed
    BY <1>1, <1>2, CallHasRequest DEF Inv
  <2>2. c # "direct"
    BY <1>0, <2>1 DEF NoDirect
  <2>3. QED
    BY <2>1, <2>2
<1>4. pass \in PassType /\ rebase \in [Rebases -> RebaseType]
  BY DEF Inv, TypeOK, EngineTypeOK
<1>5. /\ \A i \in Intents : SameRequest(i) /\ (rows'[i] # NoRow <=> rows[i] # NoRow)
      /\ \A i \in Intents : rows[i] # NoRow =>
             IF /\ OrderOf(i) = OrderOf(req.intent)
                /\ i > req.intent \/ (i = req.intent /\ HasRow(req))
             THEN HaltedRow(rows'[i])
             ELSE rows'[i] = rows[i]
  BY <1>2, <1>3, HaltedRows
<1>6. ASSUME NEW i \in Intents, rows'[i] # NoRow
      PROVE  /\ rows[i] # NoRow /\ InHand(i) /\ rows[i].order = OrderOf(i)
             /\ i \in Nat /\ req.intent \in Nat
  BY <1>0, <1>3, <1>5, <1>6, RowIsLive, IntentsAreNumbers DEF RowsInHand
<1>7. ASSUME NEW i \in Intents, rows[i] # NoRow, OrderOf(i) # OrderOf(req.intent)
      PROVE  /\ \A j \in Queued(rows, rows[i].order) : rows'[j] = rows[j]
             /\ \A j \in Queued(rows', rows[i].order) :
                    HaltedRow(rows'[j]) => j \in Queued(rows, rows[i].order) /\ HaltedRow(rows[j])
  <2>1. ASSUME NEW j \in Intents, rows[j] # NoRow, rows[j].order = rows[i].order
        PROVE  rows'[j] = rows[j]
    BY <1>5, <1>7, <2>1, RowIsLive
  <2>2. QED
    BY <1>5, <2>1 DEF Queued, SameRequest
<1>8. ASSUME NEW i \in Intents, rows[i] # NoRow, OrderOf(i) = OrderOf(req.intent), InHand(i),
             i > req.intent \/ (i = req.intent /\ HasRow(req)), pass'.todo \subseteq pass.todo
      PROVE  InHand(i)'
  <2>1. HaltedRow(rows'[i]) /\ rows'[i] # NoRow
    BY <1>5, <1>8
  <2>2. CASE PassHas(i)'
    BY <2>2 DEF InHand
  <2>3. CASE ~PassHas(i)'
    <3>1. i \in Queued(rows', rows'[i].order) /\ i <= i
      BY <2>1, IntentsAreNumbers DEF Queued
    <3>2. BehindHalt(i)'
      BY <2>1, <2>3, <3>1 DEF BehindHalt
    <3>3. QED
      BY <3>2 DEF InHand
  <2>4. QED
    BY <2>2, <2>3
<1>9. ASSUME NEW i \in Intents, rows[i] # NoRow, OrderOf(i) = OrderOf(req.intent),
             i \in Nat, req.intent \in Nat, BehindHalt(i), pass'.todo \subseteq pass.todo,
             ~(i > req.intent \/ (i = req.intent /\ HasRow(req)))
      PROVE  BehindHalt(i)'
  <2>1. ASSUME NEW j \in Queued(rows, rows[i].order), j <= i, HaltedRow(rows[j]), ~PassHas(j)
        PROVE  HaltedRow(rows'[j]) /\ SameRequest(j) /\ ~PassHas(j)'
    <3>1. j \in Intents /\ rows[j] # NoRow /\ j \in Nat
      BY IntentsAreNumbers DEF Queued
    <3>2. ~(j > req.intent \/ (j = req.intent /\ HasRow(req)))
      BY <1>9, <2>1, <3>1
    <3>3. rows'[j] = rows[j] /\ SameRequest(j)
      BY <1>5, <3>1, <3>2
    <3>4. QED
      BY <1>9, <2>1, <3>1, <3>3, NoneHasMore
  <2>2. rows'[i].order = rows[i].order /\ rows[i].order \in Orders
    BY <1>5, <1>9, RowIsLive DEF SameRequest
  <2>3. QED
    BY <1>9, <2>1, <2>2, BehindHaltKept
<1>10. CASE c = "pass"
  <2>1. /\ pass'.todo = {e \in pass.todo : OrderOf(e.req.intent) # OrderOf(req.intent)}
        /\ pass'.again = pass.again /\ rebase' = rebase
    BY <1>1, <1>2, <1>4, <1>10, CallersApart DEF Return, Remaining, PassType
  <2>2. PICK f \in pass.todo : f.req = req /\ \A e \in pass.todo : Before(f, e)
    BY <1>0, <1>1, <1>3, <1>10 DEF CallInPass
  <2>3. ASSUME NEW i \in Intents, rows'[i] # NoRow PROVE InHand(i)'
    <3>1. /\ rows[i] # NoRow /\ InHand(i) /\ rows[i].order = OrderOf(i)
          /\ i \in Nat /\ req.intent \in Nat /\ SameRequest(i)
      BY <1>5, <1>6, <2>3
    <3>2. CASE OrderOf(i) # OrderOf(req.intent)
      <4>1. \A e \in pass.todo : e.req = RequestOf(rows, i) => e \in pass'.todo
        BY <2>1, <3>2 DEF RequestOf
      <4>2. /\ \A j \in Queued(rows, rows[i].order) : rows'[j] = rows[j]
            /\ \A j \in Queued(rows', rows[i].order) :
                    HaltedRow(rows'[j]) => j \in Queued(rows, rows[i].order) /\ HaltedRow(rows[j])
        BY <1>7, <3>1, <3>2
      <4>3. pass'.todo \subseteq pass.todo
        BY <2>1
      <4>4. QED
        BY <2>1, <3>1, <4>1, <4>2, <4>3, HandKept DEF SameRequest
    <3>3. CASE OrderOf(i) = OrderOf(req.intent) /\ (i > req.intent \/ (i = req.intent /\ HasRow(req)))
      BY <1>8, <2>1, <3>1, <3>3
    <3>4. CASE OrderOf(i) = OrderOf(req.intent) /\ ~(i > req.intent \/ (i = req.intent /\ HasRow(req)))
      <4>1. ~PassHas(i)
        <5> SUFFICES ASSUME NEW e \in pass.todo, e.req = RequestOf(rows, i) PROVE FALSE
          BY DEF PassHas
        <5>1. e.req.intent = i /\ e.req.k = rows[i].k
          BY DEF RequestOf
        <5>2. CASE i = req.intent
          BY <1>0, <2>2, <3>4, <5>1, <5>2 DEF PassOrdered, HasRow
        <5>3. CASE i # req.intent
          <6>1. e.group = f.group
            BY <1>0, <2>2, <3>4, <5>1 DEF PassOrdered
          <6>2. f.group < e.group \/ req.intent <= i
            BY <2>2, <5>1 DEF Before
          <6>3. f.group \in Nat
            BY <1>4, IntentsAreNumbers DEF PassType
          <6>4. QED
            BY <3>1, <3>4, <5>3, <6>1, <6>2, <6>3
        <5>4. QED
          BY <5>2, <5>3
      <4>2. ~NextPassHas(i)
        BY <2>2, <3>1, <3>4 DEF NextPassHas
      <4>3. RebaseHas(i) => RebaseHas(i)'
        BY <2>1, <3>1, RebaseHasKept
      <4>4. BehindHalt(i) => BehindHalt(i)'
        BY <1>9, <2>1, <3>1, <3>4
      <4>5. QED
        BY <3>1, <4>1, <4>2, <4>3, <4>4 DEF InHand
    <3>5. QED
      BY <3>2, <3>3, <3>4
  <2>4. QED
    BY <2>3 DEF RowsInHand
<1>11. CASE c \in Rebases
  <2>1. /\ rebase'[c].phase = "ending" /\ rebase'[c].order = rebase[c].order
        /\ \A r \in Rebases : r # c => rebase'[r] = rebase[r]
        /\ pass' = pass
    BY <1>1, <1>2, <1>4, <1>11, CallersApart DEF Return, RebaseType
  <2>2. /\ rebase[c].phase = "sending" /\ OrderOf(req.intent) = rebase[c].order
        /\ rebase[c].head = req
    BY <1>1, <1>3, <1>11 DEF CallTrue, Inv, RebasesTrue, RebaseTrue
  <2>3. ASSUME NEW i \in Intents, rows'[i] # NoRow PROVE InHand(i)'
    <3>1. /\ rows[i] # NoRow /\ InHand(i) /\ rows[i].order = OrderOf(i)
          /\ i \in Nat /\ req.intent \in Nat /\ SameRequest(i)
      BY <1>5, <1>6, <2>3
    <3>2. CASE OrderOf(i) # OrderOf(req.intent)
      <4>1. /\ \A j \in Queued(rows, rows[i].order) : rows'[j] = rows[j]
            /\ \A j \in Queued(rows', rows[i].order) :
                    HaltedRow(rows'[j]) => j \in Queued(rows, rows[i].order) /\ HaltedRow(rows[j])
        BY <1>7, <3>1, <3>2
      <4>2. QED
        BY <2>1, <2>2, <3>1, <3>2, <4>1, HandKept DEF SameRequest
    <3>3. CASE OrderOf(i) = OrderOf(req.intent) /\ (i > req.intent \/ (i = req.intent /\ HasRow(req)))
      BY <1>8, <2>1, <3>1, <3>3
    <3>4. CASE OrderOf(i) = OrderOf(req.intent) /\ ~(i > req.intent \/ (i = req.intent /\ HasRow(req)))
      <4>1. PassHas(i) => PassHas(i)'
        BY <2>1, <3>1, PassHasKept
      <4>2. ~NextPassHas(i)
        BY <1>11, <2>2, <3>1, <3>4 DEF NextPassHas
      <4>3. RebaseHas(i) => RebaseHas(i)'
        <5> SUFFICES ASSUME RebaseHas(i) PROVE RebaseHas(i)'
          OBVIOUS
        <5>1. req # RequestOf(rows, i)
          <6>1. req = RequestOf(rows, i) => i = req.intent /\ HasRow(req)
            BY DEF RequestOf, HasRow
          <6>2. QED
            BY <3>4, <6>1
        <5>2. PICK r \in Rebases \ {c} :
                  /\ rebase[r].order = rows[i].order
                  /\ \/ rebase[r].phase = "reading"
                     \/ rebase[r].phase = "reissuing" /\ rebase[r].head.intent <= i
                     \/ /\ rebase[r].phase = "sending"
                        /\ rebase[r].head.intent < i \/ rebase[r].head = RequestOf(rows, i)
          BY <2>2, <3>1, <3>4, <5>1 DEF RebaseHas
        <5>3. RequestOf(rows', i) = RequestOf(rows, i) /\ rebase'[r] = rebase[r]
              /\ rows'[i].order = rows[i].order
          BY <2>1, <3>1, <5>2 DEF SameRequest, RequestOf
        <5>4. QED
          BY <5>2, <5>3 DEF RebaseHas, RequestOf
      <4>4. BehindHalt(i) => BehindHalt(i)'
        BY <1>9, <2>1, <3>1, <3>4
      <4>5. QED
        BY <3>1, <4>1, <4>2, <4>3, <4>4 DEF InHand
    <3>5. QED
      BY <3>2, <3>3, <3>4
  <2>4. QED
    BY <2>3 DEF RowsInHand
<1>12. QED
  BY <1>3, <1>10, <1>11 DEF Callers

(* A pass that reads the queue has the whole of an order, or none of it    *)
(* because of a halt.                                                      *)
LEMMA PassReads ==
    ASSUME Inv', NEW i \in Intents, rows'[i] # NoRow, pass'.todo = SendList(rows')
    PROVE  \/ PassHas(i)'
           \/ /\ \E j \in Queued(rows', rows'[i].order) : HaltedRow(rows'[j])
              /\ \A j \in Queued(rows', rows'[i].order) : ~PassHas(j)'
<1> PICK q : q = rows'
  OBVIOUS
<1>1. q \in [Intents -> RowType] /\ q[i] # NoRow /\ pass'.todo = SendList(q)
  BY DEF Inv, TypeOK, DiskTypeOK
<1>2. CASE Sendable(q, q[i].order)
  <2>1. ToSend(q, i) \in pass'.todo
    BY <1>1, <1>2 DEF SendList
  <2>2. ToSend(q, i).req = RequestOf(q, i)
    BY DEF ToSend
  <2>3. PassHas(i)'
    BY <2>1, <2>2 DEF PassHas, RequestOf
  <2>4. QED
    BY <2>3
<1>3. CASE ~Sendable(q, q[i].order)
  <2>1. PICK j \in Queued(q, q[i].order) : q[j].status \notin {"PENDING", "SYNCING"}
    BY <1>3 DEF Sendable
  <2>2. HaltedRow(q[j])
    BY <1>1, <2>1, RowIsThere DEF Queued, HaltedRow
  <2>3. ASSUME NEW h \in Queued(q, q[i].order) PROVE ~PassHas(h)'
    <3> SUFFICES ASSUME NEW e \in pass'.todo, e.req = RequestOf(q, h) PROVE FALSE
      BY DEF PassHas, RequestOf
    <3>1. PICK g \in Intents : q[g] # NoRow /\ Sendable(q, q[g].order) /\ e = ToSend(q, g)
      BY <1>1 DEF SendList
    <3>2. g = h /\ q[h].order = q[i].order
      BY <3>1 DEF ToSend, RequestOf, Queued
    <3>3. QED
      BY <1>3, <3>1, <3>2
  <2>4. QED
    BY <2>1, <2>2, <2>3 DEF Queued
<1>4. QED
  BY <1>2, <1>3

(* A trigger, with or without a new row behind every other.                *)
LEMMA HandsByRun ==
    ASSUME Inv, Inv', Onward, faults = 0, RowsInHand, IdleIsIdle, Run(rows'), rebase' = rebase,
           \A i \in Intents :
               \/ rows'[i] = rows[i]
               \/ /\ rows[i] = NoRow /\ ~HaltedRow(rows'[i])
                  /\ \A j \in Formed : j < i
    PROVE  RowsInHand'
<1>1. pass \in PassType /\ rows \in [Intents -> RowType] /\ rebase \in [Rebases -> RebaseType]
  BY DEF Inv, TypeOK, EngineTypeOK, DiskTypeOK
<1>2. \A j \in Intents : HaltedRow(rows'[j]) => rows'[j] = rows[j]
  OBVIOUS
<1>3. CASE pass.running
  <2>1. pass'.todo = pass.todo /\ pass'.again
    BY <1>1, <1>3 DEF Run, PassType
  <2>2. ASSUME NEW i \in Intents, rows[i] # NoRow PROVE InHand(i)'
    <3>1. InHand(i) /\ rows'[i] = rows[i]
      BY <2>2 DEF RowsInHand
    <3>2. \A j \in Queued(rows, rows[i].order) : rows'[j] = rows[j]
      BY DEF Queued
    <3>3. \A j \in Queued(rows', rows[i].order) :
              HaltedRow(rows'[j]) => j \in Queued(rows, rows[i].order) /\ HaltedRow(rows[j])
      BY <1>2 DEF Queued
    <3>4. QED
      BY <2>1, <2>2, <3>1, <3>2, <3>3, HandKept DEF SameRequest
  <2>3. ASSUME NEW i \in Intents, rows[i] = NoRow, rows'[i] # NoRow PROVE InHand(i)'
    <3>1. (\A j \in Formed : j < i) /\ rows'[i].order \in Orders
      BY <2>3, RowIsThere DEF Inv, TypeOK, DiskTypeOK
    <3>2. CASE \E r \in Rebases : /\ rebase[r].order = rows'[i].order
                                  /\ rebase[r].phase \in {"reissuing", "sending"}
      <4>1. PICK r \in Rebases : /\ rebase[r].order = rows'[i].order
                                 /\ rebase[r].phase \in {"reissuing", "sending"}
        BY <3>2
      <4>2. rebase[r].head.intent \in Formed
        BY <4>1 DEF Inv, RebasesTrue, RebaseTrue, Genuine, Formed
      <4>3. rebase[r].head.intent < i /\ rebase[r].head.intent \in Nat /\ i \in Nat
        BY <3>1, <4>2, FormedIntents, IntentsAreNumbers DEF Inv
      <4>4. RebaseHas(i)'
        BY <4>1, <4>3 DEF RebaseHas, RequestOf
      <4>5. QED
        BY <4>4 DEF InHand
    <3>3. CASE ~\E r \in Rebases : /\ rebase[r].order = rows'[i].order
                                   /\ rebase[r].phase \in {"reissuing", "sending"}
      <4>1. \A j \in Queued(rows', rows'[i].order) : HaltedRow(rows'[j]) => j <= i
        <5> SUFFICES ASSUME NEW j \in Queued(rows', rows'[i].order), HaltedRow(rows'[j])
                     PROVE  j <= i
          OBVIOUS
        <5>1. j \in Intents /\ rows[j] # NoRow
          BY <1>2 DEF Queued
        <5>2. j < i /\ j \in Nat /\ i \in Nat
          BY <3>1, <5>1, RowIsLive, IntentsAreNumbers
        <5>3. QED
          BY <5>2
      <4>2. \A e \in pass'.todo : e.req.intent < i
        BY <2>1, <3>1 DEF Inv, PassTrue, ToDoTrue, Genuine, Formed
      <4>3. \A r \in Rebases : rebase[r].order = rows'[i].order
                               => rebase[r].phase \in {"idle", "reading", "ending"}
        BY <1>1, <3>3 DEF RebaseType
      <4>4. NextPassHas(i)'
        BY <2>1, <4>1, <4>2, <4>3 DEF NextPassHas, Queued, OrderOf
      <4>5. QED
        BY <4>4 DEF InHand
    <3>4. QED
      BY <3>2, <3>3
  <2>4. QED
    BY <2>2, <2>3 DEF RowsInHand
<1>4. CASE ~pass.running
  <2>1. pass'.todo = SendList(rows') /\ pass.todo = {} /\ ~pass.again
    BY <1>1, <1>4 DEF Run, PassType, IdleIsIdle
  <2>2. ASSUME NEW i \in Intents, rows'[i] # NoRow, ~PassHas(i)' PROVE InHand(i)'
    <3>1. /\ \E j \in Queued(rows', rows'[i].order) : HaltedRow(rows'[j])
          /\ \A j \in Queued(rows', rows'[i].order) : ~PassHas(j)'
      BY <2>1, <2>2, PassReads
    <3>2. CASE rows[i] # NoRow
      <4>1. rows'[i] = rows[i] /\ (RebaseHas(i) \/ BehindHalt(i))
        BY <2>1, <3>2 DEF RowsInHand, InHand, PassHas, NextPassHas
      <4>2. RebaseHas(i) => RebaseHas(i)'
        BY <4>1, RebaseHasKept DEF SameRequest
      <4>3. BehindHalt(i) => BehindHalt(i)'
        <5>1. ASSUME NEW j \in Queued(rows, rows[i].order), HaltedRow(rows[j])
              PROVE  HaltedRow(rows'[j]) /\ SameRequest(j) /\ ~PassHas(j)'
          <6>1. rows'[j] = rows[j] /\ j \in Queued(rows', rows'[i].order)
            BY <4>1, <5>1 DEF Queued
          <6>2. QED
            BY <3>1, <5>1, <6>1 DEF SameRequest
        <5>2. rows[i].order \in Orders
          BY <3>2, RowIsLive
        <5>3. QED
          BY <4>1, <5>1, <5>2, BehindHaltKept
      <4>4. QED
        BY <4>1, <4>2, <4>3 DEF InHand
    <3>3. CASE rows[i] = NoRow
      <4>1. PICK j \in Queued(rows', rows'[i].order) : HaltedRow(rows'[j]) /\ ~PassHas(j)'
        BY <3>1
      <4>2. j \in Intents /\ rows[j] # NoRow
        BY <1>2, <4>1 DEF Queued
      <4>3. j < i /\ j \in Nat /\ i \in Nat
        BY <2>2, <3>3, <4>2, RowIsLive, IntentsAreNumbers
      <4>4. BehindHalt(i)'
        BY <4>1, <4>3 DEF BehindHalt, Queued
      <4>5. QED
        BY <4>4 DEF InHand
    <3>4. QED
      BY <3>2, <3>3
  <2>3. QED
    BY <2>2 DEF RowsInHand, InHand
<1>5. QED
  BY <1>3, <1>4

LEMMA HandsByPassEnd ==
    ASSUME Inv, Inv', Onward, faults = 0, RowsInHand, PassEnds
    PROVE  RowsInHand'
<1>1. /\ pass.todo = {} /\ UNCHANGED <<rows, rebase>>
      /\ IF pass.again THEN pass'.todo = SendList(rows') ELSE pass'.todo = {}
  BY DEF PassEnds, IdlePass, diskVars
<1>2. ASSUME NEW i \in Intents, rows'[i] # NoRow PROVE InHand(i)'
  <2>1. /\ rows[i] # NoRow /\ rows'[i] = rows[i] /\ SameRequest(i)
        /\ RebaseHas(i) \/ BehindHalt(i) \/ NextPassHas(i)
        /\ rows[i].order \in Orders
    BY <1>1, <1>2, RowIsLive DEF RowsInHand, InHand, PassHas, SameRequest
  <2>2. RebaseHas(i) => RebaseHas(i)'
    BY <1>1, <2>1, RebaseHasKept
  <2>3. CASE ~pass.again
    <3>1. ~NextPassHas(i)
      BY <2>3 DEF NextPassHas
    <3>2. \A j \in Intents : ~PassHas(j)'
      BY <1>1, <2>3 DEF PassHas
    <3>3. BehindHalt(i) => BehindHalt(i)'
      BY <1>1, <2>1, <3>2 DEF BehindHalt, Queued
    <3>4. QED
      BY <2>1, <2>2, <3>1, <3>3 DEF InHand
  <2>4. CASE pass.again /\ ~PassHas(i)'
    <3>1. /\ \E j \in Queued(rows', rows'[i].order) : HaltedRow(rows'[j])
          /\ \A j \in Queued(rows', rows'[i].order) : ~PassHas(j)'
      BY <1>1, <1>2, <2>4, PassReads
    <3>2. BehindHalt(i) => BehindHalt(i)'
      BY <1>1, <2>1, <3>1 DEF BehindHalt, Queued
    <3>3. NextPassHas(i) => BehindHalt(i)'
      BY <1>1, <2>1, <3>1 DEF NextPassHas, BehindHalt, Queued
    <3>4. QED
      BY <2>1, <2>2, <3>2, <3>3 DEF InHand
  <2>5. QED
    BY <2>3, <2>4 DEF InHand
<1>3. QED
  BY <1>2 DEF RowsInHand

LEMMA HandsByReadHead ==
    ASSUME Inv, Inv', Onward, faults = 0, RowsInHand, NEW r \in Rebases, ReadHead(r)
    PROVE  RowsInHand'
<1>1. /\ rebase[r].phase = "reading" /\ UNCHANGED <<rows, pass>>
      /\ rebase \in [Rebases -> RebaseType]
  BY DEF ReadHead, diskVars, Inv, TypeOK, EngineTypeOK
<1>2. \/ /\ Queued(rows, rebase[r].order) = {}
         /\ rebase' = [rebase EXCEPT ![r].phase = "ending"]
      \/ \E h \in Queued(rows, rebase[r].order) :
            /\ \A j \in Queued(rows, rebase[r].order) : h <= j
            /\ rebase' = [rebase EXCEPT ![r].phase = "reissuing", ![r].head = RequestOf(rows, h)]
  BY DEF ReadHead
<1>3. \A s \in Rebases : s # r => rebase'[s] = rebase[s]
  BY <1>1, <1>2
<1>4. rebase'[r].order = rebase[r].order
  BY <1>1, <1>2 DEF RebaseType
<1>5. ASSUME NEW i \in Intents, rows'[i] # NoRow PROVE InHand(i)'
  <2>1. rows[i] # NoRow /\ InHand(i) /\ SameRequest(i)
    BY <1>1, <1>5 DEF RowsInHand, SameRequest
  <2>2. CASE rows[i].order = rebase[r].order
    <3>1. i \in Queued(rows, rebase[r].order)
      BY <2>1, <2>2 DEF Queued
    <3>2. PICK h \in Queued(rows, rebase[r].order) :
              /\ h <= i
              /\ rebase' = [rebase EXCEPT ![r].phase = "reissuing", ![r].head = RequestOf(rows, h)]
      BY <1>2, <3>1
    <3>3. rebase'[r].phase = "reissuing" /\ rebase'[r].head.intent = h
      BY <1>1, <3>2 DEF RebaseType, RequestOf
    <3>4. RebaseHas(i)'
      BY <1>1, <1>4, <2>2, <3>2, <3>3 DEF RebaseHas, RequestOf
    <3>5. QED
      BY <3>4 DEF InHand
  <2>3. CASE rows[i].order # rebase[r].order
    <3>1. /\ \A j \in Queued(rows, rows[i].order) : SameRequest(j)
          /\ \A j \in Queued(rows', rows[i].order) : j \in Queued(rows, rows[i].order)
      BY <1>1 DEF SameRequest, Queued
    <3>2. QED
      BY <1>1, <1>3, <1>4, <2>1, <2>3, <3>1, HandKept
  <2>4. QED
    BY <2>2, <2>3
<1>6. QED
  BY <1>5 DEF RowsInHand

LEMMA HandsByReissue ==
    ASSUME Inv, Inv', Onward, faults = 0, faults' = 0, RowsInHand, NEW r \in Rebases, Reissue(r)
    PROVE  RowsInHand'
<1>1. PICK h : h = rebase[r].head.intent
  OBVIOUS
<1>2. /\ h \in Intents /\ h \in Nat /\ rebase[r].phase = "reissuing"
      /\ rebase[r].order \in Orders
      /\ rebase \in [Rebases -> RebaseType] /\ rows \in [Intents -> RowType]
      /\ OrderOf(h) = rebase[r].order
  <2>1. h \in Intents /\ OrderOf(h) = rebase[r].order /\ OrderOf(h) \in Orders
    BY <1>1, ReissueCounts
  <2>2. QED
    BY <2>1, IntentsAreNumbers DEF Reissue, Inv, TypeOK, EngineTypeOK, DiskTypeOK
<1>3. ~Fault
  BY ConstantsAssumption DEF Fault, Inv, TypeOK, HistoryTypeOK
<1>4. PICK k, b :
          /\ rows' = [rows EXCEPT ![h] = [order |-> rebase[r].order, k |-> k, base |-> b,
                                          status |-> "PENDING"]]
          /\ rebase' = [rebase EXCEPT ![r].phase = "sending",
                                      ![r].head = [intent |-> h, k |-> k, base |-> b]]
  BY <1>1, <1>3 DEF Reissue
<1>5. /\ rows'[h] = [order |-> rebase[r].order, k |-> k, base |-> b, status |-> "PENDING"]
      /\ \A i \in Intents : i # h => rows'[i] = rows[i]
      /\ rebase'[r].phase = "sending" /\ rebase'[r].head = [intent |-> h, k |-> k, base |-> b]
      /\ rebase'[r].order = rebase[r].order
      /\ \A s \in Rebases : s # r => rebase'[s] = rebase[s]
      /\ pass' = pass
  BY <1>2, <1>4 DEF RebaseType, Reissue
<1>6. ASSUME NEW i \in Intents, rows'[i] # NoRow PROVE InHand(i)'
  <2>1. i \in Nat
    BY IntentsAreNumbers
  <2>2. CASE rows'[i].order = rebase[r].order /\ h <= i
    <3>1. i # h => h < i
      BY <1>2, <2>1, <2>2
    <3>2. i = h => rebase'[r].head = RequestOf(rows', i)
      BY <1>5 DEF RequestOf
    <3>3. RebaseHas(i)'
      BY <1>5, <2>2, <3>1, <3>2 DEF RebaseHas, RequestOf
    <3>4. QED
      BY <3>3 DEF InHand
  <2>3. CASE ~(rows'[i].order = rebase[r].order /\ h <= i)
    <3>1. i # h
      BY <1>2, <1>5, <2>3
    <3>2. rows'[i] = rows[i] /\ SameRequest(i) /\ InHand(i) /\ rows[i].order \in Orders
      BY <1>5, <1>6, <3>1, RowIsLive DEF RowsInHand, SameRequest
    <3>3. PassHas(i) => PassHas(i)'
      BY <1>5, <3>2, PassHasKept
    <3>4. RebaseHas(i) => RebaseHas(i)'
      <4> SUFFICES ASSUME RebaseHas(i) PROVE RebaseHas(i)'
        OBVIOUS
      <4>1. PICK s \in Rebases \ {r} :
                /\ rebase[s].order = rows[i].order
                /\ \/ rebase[s].phase = "reading"
                   \/ rebase[s].phase = "reissuing" /\ rebase[s].head.intent <= i
                   \/ /\ rebase[s].phase = "sending"
                      /\ rebase[s].head.intent < i \/ rebase[s].head = RequestOf(rows, i)
        BY <1>1, <1>2, <2>3, <3>2 DEF RebaseHas
      <4>2. RequestOf(rows', i) = RequestOf(rows, i) /\ rebase'[s] = rebase[s]
        BY <1>5, <3>2, <4>1 DEF RequestOf
      <4>3. QED
        BY <3>2, <4>1, <4>2 DEF RebaseHas, RequestOf
    <3>5. BehindHalt(i) => BehindHalt(i)'
      <4>1. ASSUME NEW j \in Queued(rows, rows[i].order), j <= i, ~PassHas(j), HaltedRow(rows[j])
            PROVE  HaltedRow(rows'[j]) /\ SameRequest(j) /\ ~PassHas(j)'
        <5>1. j \in Intents /\ j \in Nat /\ rows[j] # NoRow /\ rows[j].order = rows[i].order
          BY IntentsAreNumbers DEF Queued
        <5>2. j # h
          <6>1. rows[j].order = OrderOf(j)
            BY <5>1, RowIsLive
          <6>2. QED
            BY <1>2, <2>1, <2>3, <3>2, <4>1, <5>1, <6>1
        <5>3. rows'[j] = rows[j] /\ SameRequest(j)
          BY <1>5, <5>1, <5>2 DEF SameRequest
        <5>4. QED
          BY <1>5, <4>1, <5>1, <5>3, NoneHasMore
      <4>2. QED
        BY <3>2, <4>1, BehindHaltKept
    <3>6. NextPassHas(i) => NextPassHas(i)'
      <4> SUFFICES ASSUME NextPassHas(i) PROVE NextPassHas(i)'
        OBVIOUS
      <4>1. rows[i].order # rebase[r].order
        BY <1>2 DEF NextPassHas
      <4>2. \A j \in Queued(rows', rows[i].order) :
                HaltedRow(rows'[j]) => j \in Queued(rows, rows[i].order) /\ HaltedRow(rows[j])
        BY <1>5, <4>1 DEF Queued
      <4>3. \A s \in Rebases : rebase'[s].order = rows[i].order =>
               \/ rebase'[s].phase \in {"idle", "reading", "ending"}
               \/ rebase'[s].phase = rebase[s].phase /\ rebase'[s].order = rebase[s].order
        BY <1>5, <4>1
      <4>4. pass'.again /\ pass'.todo \subseteq pass.todo
        BY <1>5 DEF NextPassHas
      <4>5. QED
        BY <3>2, <4>2, <4>3, <4>4, NextPassHasKept
    <3>7. QED
      BY <3>2, <3>3, <3>4, <3>5, <3>6 DEF InHand
  <2>4. QED
    BY <2>2, <2>3
<1>7. QED
  BY <1>6 DEF RowsInHand

LEMMA HandsByDiscard ==
    ASSUME Inv, Inv', Onward, faults = 0, faults' = 0, RowsInHand, DiscardHalted
    PROVE  RowsInHand'
<1>1. rows' = WithDiscard(current) /\ UNCHANGED <<pass, rebase>>
  BY DEF DiscardHalted, WriteFails, Fault, engineVars, Inv, TypeOK, HistoryTypeOK
<1>2. \A i \in Intents :
          \/ rows'[i] = rows[i] /\ (rows[i] # NoRow => rows[i].order # current)
          \/ rows'[i] = NoRow /\ rows[i].order = current
  BY <1>1 DEF WithDiscard, Queued
<1>3. ASSUME NEW i \in Intents, rows'[i] # NoRow PROVE InHand(i)'
  <2>1. rows'[i] = rows[i] /\ InHand(i) /\ rows[i].order # current
    BY <1>2, <1>3 DEF RowsInHand
  <2>2. \A j \in Queued(rows, rows[i].order) : rows'[j] = rows[j]
    BY <1>2, <2>1 DEF Queued
  <2>3. \A j \in Queued(rows', rows[i].order) : j \in Queued(rows, rows[i].order) /\ rows'[j] = rows[j]
    BY <1>2, <2>1 DEF Queued
  <2>4. QED
    BY <1>1, <1>3, <2>1, <2>2, <2>3, HandKept DEF SameRequest
<1>4. QED
  BY <1>3 DEF RowsInHand

(* Faults are only counted, so that a step into a state without one has    *)
(* none.                                                                   *)
LEMMA FaultsCount ==
    ASSUME Inv, [Next]_vars, faults' = 0
    PROVE  faults = 0 /\ ~Fault
<1>1. faults \in Nat
  BY DEF Inv, TypeOK, HistoryTypeOK
<1>2. ~Fault
  BY <1>1 DEF Fault
<1>3. ASSUME NEW identity, Stage(identity) PROVE faults' = faults
  BY <1>2, <1>3 DEF Stage
<1>4. ASSUME NEW c \in Callers, Attempt(c) \/ Lose(c) PROVE faults' = faults
  BY <1>2, <1>4 DEF Attempt, Serve, TakeCanonical, DeleteRow, HaltQueue, Lose, WriteFails
<1>5. ASSUME NEW req \in loose, ServeLoose(req) PROVE faults' = faults
  BY <1>5 DEF ServeLoose
<1>6. ASSUME NEW o \in Orders, OtherTerminal(o) \/ CreateOrder(o) \/ FocusOrder(o)
      PROVE  faults' = faults
  BY <1>3, <1>6 DEF OtherTerminal, CreateOrder, FocusOrder
<1>7. ASSUME NEW kind \in CommandKinds, Command(kind) PROVE faults' = faults
  BY <1>3, <1>7 DEF Command
<1>8. ASSUME NEW r \in Rebases, RebaseHalted(r) \/ Rebase(r) PROVE faults' = faults
  BY <1>2, <1>8 DEF RebaseHalted, Rebase, ReadHead, Reissue, RebaseSends, RebaseEnds
<1>9. ASSUME Trigger \/ Pass \/ Hydrate \/ Visit PROVE faults' = faults
  BY <1>9 DEF Trigger, Pass, PassSends, PassEnds, Hydrate, HydrateReads, HydrateRestores,
              HydratePrunes, Visit, Leave, Detach, OpenAgain
<1>10. ASSUME Clear \/ DiscardHalted \/ AskOrder \/ TakeOrder \/ Reload \/ UNCHANGED vars
       PROVE  faults' = faults
  BY <1>2, <1>10 DEF Clear, DiscardHalted, WriteFails, AskOrder, TakeOrder, Reload, vars
<1>11. faults' = faults
  BY <1>4, <1>5, <1>6, <1>7, <1>8, <1>9, <1>10 DEF Next
<1>12. QED
  BY <1>2, <1>11

(* A command that is stored is behind every row, and triggers a pass.      *)
LEMMA StageStores ==
    ASSUME Inv, ~Fault, NEW o \in Orders, NEW kind \in Kinds, NEW base \in Nat,
           Stage(Identity(o, kind, base)), Steady, UNCHANGED serverVars,
           kind = "create" => \A j \in Formed : OrderOf(j) # o
    PROVE  /\ Run(rows') /\ call' = call
           /\ \A i \in Intents : \/ rows'[i] = rows[i]
                                 \/ /\ rows[i] = NoRow /\ ~HaltedRow(rows'[i])
                                    /\ \A j \in Formed : j < i
<1>1. Run(rows') /\ call' = call
  BY DEF Stage
<1>2. PICK i \in Intents \ Formed :
          /\ Formed' = Formed \cup {i}
          /\ \/ rows' = rows
             \/ rows' = [rows EXCEPT ![i] = [order |-> o, k |-> 1, base |-> base,
                                             status |-> "PENDING"]]
  BY StageAppends
<1>3. \A j \in Formed : j < i
  <2> SUFFICES ASSUME NEW j \in Formed PROVE j < i
    OBVIOUS
  <2>1. ~(i < j) /\ i # j
    BY <1>2 DEF Steady
  <2>2. i \in Nat /\ j \in Nat
    BY <1>2, FormedIntents, IntentsAreNumbers DEF Inv
  <2>3. QED
    BY <2>1, <2>2
<1>4. rows[i] = NoRow /\ rows \in [Intents -> RowType]
  BY <1>2 DEF Inv, RowsTrue, RowTrue, TypeOK, DiskTypeOK
<1>5. QED
  BY <1>1, <1>2, <1>3, <1>4 DEF HaltedRow

LEMMA NoDirectStep ==
    ASSUME Inv, NoDirect, [Next]_vars
    PROVE  NoDirect'
<1> SUFFICES ASSUME faults' = 0 PROVE call'["direct"] = NoCall
  BY DEF NoDirect
<1>1. /\ ~Fault /\ call["direct"] = NoCall /\ call \in [Callers -> CallType]
      /\ "direct" \in Callers
  BY FaultsCount DEF NoDirect, Inv, TypeOK, EngineTypeOK, Callers
<1>2. ASSUME call' = call PROVE call'["direct"] = NoCall
  BY <1>1, <1>2
<1>3. ASSUME NEW c \in Callers, Attempt(c) \/ Lose(c) PROVE call'["direct"] = NoCall
  <2>1. ASSUME NEW result, Return(c, result) PROVE call'["direct"] = NoCall
    BY <1>1, <2>1 DEF Return
  <2>2. CASE Serve(c) \/ TakeCanonical(c)
    <3>1. c # "direct"
      BY <1>1, <2>2 DEF Serve, TakeCanonical, NoCall
    <3>2. QED
      BY <1>1, <2>2, <3>1 DEF Serve, TakeCanonical
  <2>3. QED
    BY <1>3, <2>1, <2>2 DEF Attempt, DeleteRow, HaltQueue, Lose
<1>4. ASSUME NEW identity, Stage(identity) PROVE call'["direct"] = NoCall
  BY <1>1, <1>4 DEF Stage
<1>5. CASE PassSends
  BY <1>1, <1>5 DEF PassSends, Send
<1>6. ASSUME NEW r \in Rebases, RebaseSends(r) PROVE call'["direct"] = NoCall
  BY <1>1, <1>6, CallersApart DEF RebaseSends, Send
<1>7. ASSUME NEW o \in Orders, OtherTerminal(o) \/ CreateOrder(o) \/ FocusOrder(o)
      PROVE  call'["direct"] = NoCall
  BY <1>2, <1>4, <1>7 DEF OtherTerminal, CreateOrder, FocusOrder, engineVars
<1>8. ASSUME NEW kind \in CommandKinds, Command(kind) PROVE call'["direct"] = NoCall
  BY <1>4, <1>8 DEF Command
<1>9. ASSUME NEW r \in Rebases, RebaseHalted(r) \/ ReadHead(r) \/ Reissue(r) \/ RebaseEnds(r)
      PROVE  call'["direct"] = NoCall
  BY <1>2, <1>9 DEF RebaseHalted, ReadHead, Reissue, RebaseEnds
<1>10. ASSUME NEW req \in loose, ServeLoose(req) PROVE call'["direct"] = NoCall
  BY <1>2, <1>10 DEF ServeLoose, engineVars
<1>11. CASE Trigger \/ PassEnds \/ Hydrate \/ Visit
  BY <1>2, <1>11 DEF Trigger, PassEnds, Hydrate, HydrateReads, HydrateRestores, HydratePrunes,
                     Visit, Leave, Detach, OpenAgain, engineVars
<1>12. CASE Clear \/ DiscardHalted \/ AskOrder \/ TakeOrder \/ Reload \/ UNCHANGED vars
  BY <1>1, <1>2, <1>12 DEF Clear, DiscardHalted, AskOrder, TakeOrder, Reload, vars, engineVars
<1>13. QED
  BY <1>3, <1>5, <1>6, <1>7, <1>8, <1>9, <1>10, <1>11, <1>12 DEF Next, Rebase, Pass

(* The steps that send nothing, drop nothing and halt nothing.             *)
LEMMA HandsByOthers ==
    ASSUME Inv, Inv', Onward, faults = 0, RowsInHand,
           \/ \E c \in Callers : Serve(c) \/ TakeCanonical(c)
           \/ \E req \in loose : ServeLoose(req)
           \/ \E o \in Orders : OtherTerminal(o) \/ FocusOrder(o)
           \/ \E r \in Rebases : RebaseHalted(r) \/ RebaseEnds(r)
           \/ Visit \/ Clear \/ AskOrder \/ TakeOrder \/ HydrateReads \/ HydratePrunes
           \/ UNCHANGED vars
    PROVE  RowsInHand'
<1>1. rows \in [Intents -> RowType] /\ rebase \in [Rebases -> RebaseType]
  BY DEF Inv, TypeOK, DiskTypeOK, EngineTypeOK
<1>2. ASSUME rows' = rows, pass' = pass,
             \A r \in Rebases :
                 \/ rebase'[r] = rebase[r]
                 \/ /\ rebase[r].phase \in {"idle", "ending"}
                    /\ rebase'[r].phase \in {"idle", "reading", "ending"}
      PROVE  RowsInHand'
  BY <1>2, HandsByFrame DEF SameRequest
<1>3. CASE HydrateReads
  <2>1. pass' = pass /\ rebase' = rebase
    BY <1>3 DEF HydrateReads, engineVars
  <2>2. ASSUME NEW i \in Intents
        PROVE  SameRequest(i) /\ (HaltedRow(rows'[i]) <=> HaltedRow(rows[i]))
    <3>1. rows'[i] = IF rows[i].status = "SYNCING" THEN [rows[i] EXCEPT !.status = "PENDING"]
                     ELSE rows[i]
      BY <1>3 DEF HydrateReads
    <3>2. CASE rows[i].status = "SYNCING"
      <4>1. rows[i] \in RowType /\ rows[i] # NoRow
        BY <1>1, <3>2, RowIsThere
      <4>2. /\ rows'[i].status = "PENDING" /\ rows'[i].order = rows[i].order
            /\ rows'[i].k = rows[i].k /\ rows'[i].base = rows[i].base
        BY <3>1, <3>2, <4>1, RowMarked
      <4>3. QED
        BY <3>2, <4>2 DEF SameRequest, HaltedRow
    <3>3. QED
      BY <3>1, <3>2 DEF SameRequest
  <2>3. QED
    BY <2>1, <2>2, HandsByFrame
<1>4. ASSUME NEW c \in Callers, Serve(c) \/ TakeCanonical(c) PROVE RowsInHand'
  BY <1>2, <1>4 DEF Serve, TakeCanonical, diskVars
<1>5. ASSUME NEW req \in loose, ServeLoose(req) PROVE RowsInHand'
  BY <1>2, <1>5 DEF ServeLoose, diskVars, engineVars
<1>6. ASSUME NEW o \in Orders, OtherTerminal(o) \/ FocusOrder(o) PROVE RowsInHand'
  BY <1>2, <1>6 DEF OtherTerminal, FocusOrder, diskVars, engineVars
<1>7. ASSUME NEW r \in Rebases, RebaseHalted(r) \/ RebaseEnds(r) PROVE RowsInHand'
  <2>1. rows' = rows /\ pass' = pass
    BY <1>7 DEF RebaseHalted, RebaseEnds, diskVars
  <2>2. /\ rebase[r].phase \in {"idle", "ending"} /\ rebase'[r].phase \in {"idle", "reading"}
        /\ \A s \in Rebases : s # r => rebase'[s] = rebase[s]
    <3>1. CASE RebaseHalted(r)
      <4>1. /\ rebase[r] = IdleRebase
            /\ rebase' = [rebase EXCEPT ![r] = [phase |-> "reading", order |-> current,
                                               version |-> shown, head |-> IdleRebase.head]]
        BY <3>1 DEF RebaseHalted
      <4>2. rebase[r].phase = "idle" /\ rebase'[r].phase = "reading"
        BY <1>1, <4>1 DEF IdleRebase
      <4>3. QED
        BY <1>1, <4>1, <4>2
    <3>2. CASE RebaseEnds(r)
      <4>1. rebase[r].phase = "ending" /\ rebase' = [rebase EXCEPT ![r] = IdleRebase]
        BY <3>2 DEF RebaseEnds
      <4>2. IdleRebase.phase = "idle"
        BY DEF IdleRebase
      <4>3. QED
        BY <1>1, <4>1, <4>2
    <3>3. QED
      BY <1>7, <3>1, <3>2
  <2>3. QED
    BY <1>2, <2>1, <2>2
<1>8. CASE Visit \/ Clear \/ AskOrder \/ TakeOrder \/ HydratePrunes \/ UNCHANGED vars
  BY <1>2, <1>8 DEF Visit, Leave, Detach, OpenAgain, Clear, AskOrder, TakeOrder, HydratePrunes,
                    vars, diskVars, engineVars
<1>9. QED
  BY <1>3, <1>4, <1>5, <1>6, <1>7, <1>8

LEMMA RowsInHandStep ==
    ASSUME Inv, Inv', OnceInv, IdleIsIdle, LeftInv, [Next]_vars
    PROVE  RowsInHand'
<1> SUFFICES ASSUME faults' = 0 PROVE RowsInHand'
  BY DEF RowsInHand
<1>1. faults = 0 /\ ~Fault /\ RowsInHand /\ Steady /\ Onward
  BY FaultsCount, SteadyStep DEF LeftInv, Steady
<1>2. ASSUME NEW c \in Callers, DeleteRow(c) \/ HaltQueue(c) PROVE RowsInHand'
  BY <1>1, <1>2, HandsByDelete, HandsByHalt
<1>3. ASSUME NEW o \in Orders, CreateOrder(o) PROVE RowsInHand'
  <2>1. /\ Run(rows')
        /\ \A i \in Intents : \/ rows'[i] = rows[i]
                              \/ /\ rows[i] = NoRow /\ ~HaltedRow(rows'[i])
                                 /\ \A j \in Formed : j < i
    BY <1>1, <1>3, CreateStages, StageStores
  <2>2. rebase' = rebase
    BY <1>3 DEF CreateOrder
  <2>3. QED
    BY <1>1, <2>1, <2>2, HandsByRun
<1>4. ASSUME NEW kind \in CommandKinds, Command(kind) PROVE RowsInHand'
  <2>1. /\ Run(rows')
        /\ \A i \in Intents : \/ rows'[i] = rows[i]
                              \/ /\ rows[i] = NoRow /\ ~HaltedRow(rows'[i])
                                 /\ \A j \in Formed : j < i
    BY <1>1, <1>4, CommandStages, StageStores
  <2>2. rebase' = rebase
    BY <1>4 DEF Command
  <2>3. QED
    BY <1>1, <2>1, <2>2, HandsByRun
<1>5. CASE Trigger \/ HydrateRestores
  <2>1. rows' = rows /\ rebase' = rebase /\ Run(rows')
    BY <1>5 DEF Trigger, HydrateRestores, diskVars
  <2>2. QED
    BY <1>1, <2>1, HandsByRun
<1>6. CASE PassSends \/ PassEnds
  BY <1>1, <1>6, HandsByPassSends, HandsByPassEnd
<1>7. ASSUME NEW r \in Rebases, ReadHead(r) \/ Reissue(r) \/ RebaseSends(r) PROVE RowsInHand'
  BY <1>1, <1>7, HandsByReadHead, HandsByReissue, HandsByRebaseSends
<1>8. CASE DiscardHalted
  BY <1>1, <1>8, HandsByDiscard
<1>9. ~Reload /\ \A c \in Callers : ~Lose(c)
  BY <1>1 DEF Reload, Lose
<1>10. CASE \/ \E c \in Callers : Serve(c) \/ TakeCanonical(c)
            \/ \E req \in loose : ServeLoose(req)
            \/ \E o \in Orders : OtherTerminal(o) \/ FocusOrder(o)
            \/ \E r \in Rebases : RebaseHalted(r) \/ RebaseEnds(r)
            \/ Visit \/ Clear \/ AskOrder \/ TakeOrder \/ HydrateReads \/ HydratePrunes
            \/ UNCHANGED vars
  BY <1>1, <1>10, HandsByOthers
<1>11. QED
  BY <1>2, <1>3, <1>4, <1>5, <1>6, <1>7, <1>8, <1>9, <1>10 DEF Next, Attempt, Rebase, Pass, Hydrate

LEMMA LeftStep ==
    ASSUME Inv, Inv', OnceInv, IdleIsIdle, LeftInv, [Next]_vars
    PROVE  LeftInv'
<1>1. Onward /\ PassGoesOn
  BY SteadyStep, PassGoesOnStep DEF Steady
<1>2. PassOrdered' /\ CallInPass'
  BY <1>1, PassStands DEF LeftInv
<1>3. RowsInHand' /\ NoDirect'
  BY RowsInHandStep, NoDirectStep DEF LeftInv
<1>4. QED
  BY <1>2, <1>3 DEF LeftInv

LEMMA LeftInvariant == Spec => [](Inv /\ ShowInv /\ LeftInv)
<1>1. Init => LeftInv
  BY DEF Init, LeftInv, RowsInHand, PassOrdered, CallInPass, NoDirect, IdlePass, NoCall, Callers
<1>2. Inv /\ Inv' /\ OnceInv /\ ShowInv /\ LeftInv /\ [Next]_vars => LeftInv'
  BY LeftStep DEF ShowInv
<1>3. QED
  BY <1>1, <1>2, OnceInvariant, ShowInvariant, PTL DEF Spec

(* A trigger is never lost: whatever is staged, answered, halted, rebased  *)
(* or discarded while a pass is on, when the last one ends no row is left  *)
(* that could be sent, unless a rebase of its order is on (the loop of     *)
(* run() in engine.ts).                                                    *)
THEOREM NothingLeft == Spec => []NothingIsLeftBehind
<1>1. ASSUME Inv, ShowInv, LeftInv PROVE NothingIsLeftBehind
  <2> SUFFICES ASSUME NEW i \in Intents, faults = 0, ~pass.running, rows[i] # NoRow,
                      \A r \in Rebases : rows[i].order # rebase[r].order
               PROVE  ~Sendable(rows, rows[i].order)
    BY DEF NothingIsLeftBehind
  <2>1. pass.todo = {} /\ ~pass.again
    BY <1>1 DEF ShowInv, IdleIsIdle
  <2>2. BehindHalt(i)
    BY <1>1, <2>1 DEF LeftInv, RowsInHand, InHand, PassHas, RebaseHas, NextPassHas
  <2>3. PICK j \in Queued(rows, rows[i].order) : HaltedRow(rows[j])
    BY <2>2 DEF BehindHalt
  <2>4. QED
    BY <2>3 DEF Sendable, HaltedRow
<1>2. QED
  BY <1>1, LeftInvariant, PTL

-----------------------------------------------------------------------------
(* A closed row of the log is of a mutation that has left the queue. *)

Ids == Intents \X (1..MaxIds)

LogTypeOK ==
    /\ unresolved \subseteq Ids /\ resolved \subseteq Ids /\ blind \subseteq Ids
    /\ held \in [Rebases -> SUBSET Ids] /\ reports \subseteq SUBSET Ids

Minted(m) == m[1] \in Formed /\ m[2] <= minted[m[1]]

(* An id that has left the queue, or was minted for a command that was     *)
(* never stored: no row will have it again.                                *)
Gone(m) == Minted(m) /\ ~StillQueued(m)

MirrorMinted == \A i \in Intents : mirror[i] # NoRow => mirror[i].k <= minted[i]

HeldIsOfOrder ==
    \A r \in Rebases : \A m \in held[r] : Minted(m) /\ OrderOf(m[1]) = rebase[r].order

(* What is reported with the screen open has gone, and so has what a       *)
(* report has closed.                                                      *)
ReportedGone == \A ids \in reports : \A m \in ids \ blind : Gone(m)
ResolvedGone == \A m \in resolved \ blind : Gone(m)

LogInv == LogTypeOK /\ MirrorMinted /\ HeldIsOfOrder /\ ReportedGone /\ ResolvedGone

(* A row is put under a fresh id or keeps the one it has.                  *)
RowsStand ==
    \A i \in Formed : rows'[i] # NoRow => rows'[i].k = rows[i].k \/ rows'[i].k > minted[i]

LEMMA RowsStandStep ==
    ASSUME Inv, [Next]_vars
    PROVE  RowsStand
<1>1. /\ rows \in [Intents -> RowType] /\ minted \in [Intents -> 0..MaxIds]
      /\ Formed \subseteq Intents
  BY FormedIntents DEF Inv, TypeOK, DiskTypeOK, HistoryTypeOK
<1>2. ASSUME RowsCarried PROVE RowsStand
  BY <1>1, <1>2 DEF RowsCarried, RowsStand
<1>3. ASSUME rows' = rows PROVE RowsStand
  BY <1>3 DEF RowsStand
<1>4. ASSUME NEW c \in Callers, Attempt(c) \/ Lose(c) PROVE RowsStand
  <2>1. CASE Serve(c)
    BY <1>3, <2>1 DEF Serve, diskVars
  <2>2. CASE ~Serve(c)
    BY <1>2, <1>4, <2>2, CarriedByAttempts DEF Attempt, Carried
  <2>3. QED
    BY <2>1, <2>2
<1>5. ASSUME NEW req \in loose, ServeLoose(req) PROVE RowsStand
  BY <1>3, <1>5 DEF ServeLoose, diskVars
<1>6. ASSUME NEW r \in Rebases, Reissue(r) PROVE RowsStand
  <2>1. CASE rows' = rows
    BY <1>3, <2>1
  <2>2. CASE rows' # rows
    <3>1. PICK new \in Request : Reissues(r, new)
      BY <1>6, <2>2, ReissueMints
    <3>2. /\ new.intent \in Intents /\ new.k = minted[new.intent] + 1
          /\ rows'[new.intent].k = new.k
          /\ \A j \in Intents : j # new.intent => rows'[j] = rows[j]
      BY <1>1, <3>1 DEF Reissues, Request
    <3>3. minted[new.intent] \in Nat
      BY <1>1, <3>2
    <3>4. rows'[new.intent].k > minted[new.intent]
      BY <3>2, <3>3
    <3>5. QED
      BY <1>1, <3>2, <3>4 DEF RowsStand
  <2>3. QED
    BY <2>1, <2>2
<1>7. ASSUME NEW i \in Intents \ Formed, \A j \in Intents : j # i => rows'[j] = rows[j]
      PROVE  RowsStand
  BY <1>1, <1>7 DEF RowsStand
<1>8. ASSUME NEW o \in Orders, CreateOrder(o) PROVE RowsStand
  BY <1>1, <1>7, <1>8, CreateStages, StageAppends
<1>9. ASSUME NEW kind \in CommandKinds, Command(kind) PROVE RowsStand
  BY <1>1, <1>7, <1>9, CommandStages, StageAppends
<1>10. ASSUME NEW req \in Request, rows' = WithStatus(req, "SYNCING") PROVE RowsStand
  BY <1>2, <1>10, RowsCarriedBy
<1>11. CASE PassSends
  BY <1>10, <1>11 DEF PassSends, Send, Inv, PassTrue, ToDoTrue, Genuine
<1>12. ASSUME NEW r \in Rebases, RebaseSends(r) PROVE RowsStand
  BY <1>10, <1>12 DEF RebaseSends, Send, Inv, RebasesTrue, RebaseTrue, Genuine
<1>13. ASSUME NEW r \in Rebases, RebaseHalted(r) \/ ReadHead(r) \/ RebaseEnds(r) PROVE RowsStand
  BY <1>2, <1>13, CarriedByRebase DEF Carried
<1>14. CASE \/ \E o \in Orders : OtherTerminal(o) \/ FocusOrder(o)
            \/ Clear \/ AskOrder \/ TakeOrder \/ Reload \/ Trigger \/ PassEnds \/ Hydrate \/ Visit
            \/ UNCHANGED vars
  BY <1>2, <1>14, CarriedByScreen DEF Carried
<1>15. CASE DiscardHalted
  BY <1>2, <1>15, CarriedByDiscard DEF Carried
<1>16. QED
  BY <1>4, <1>5, <1>6, <1>8, <1>9, <1>11, <1>12, <1>13, <1>14, <1>15 DEF Next, Rebase, Pass

LEMMA MintedStays ==
    ASSUME Inv, Inv', Grows, NEW m \in Ids, Minted(m)
    PROVE  Minted(m)' /\ OrderOf(m[1])' = OrderOf(m[1])
<1>1. m[1] \in Formed' /\ OrderOf(m[1])' = OrderOf(m[1])
  BY IntentKept DEF Minted, Grows, Steady, Inv
<1>2. minted[m[1]] <= minted'[m[1]]
  BY DEF Minted, Grows
<1>3. m[2] \in Nat /\ minted[m[1]] \in Nat /\ minted'[m[1]] \in Nat
  BY ConstantsAssumption DEF Ids, Inv, TypeOK, HistoryTypeOK, ConstantsAssumption
<1>4. QED
  BY <1>1, <1>2, <1>3 DEF Minted

LEMMA GoneStays ==
    ASSUME Inv, Inv', Grows, RowsStand, NEW m \in Ids, Gone(m)
    PROVE  Gone(m)'
<1>1. Minted(m)'
  BY MintedStays DEF Gone
<1>2. m[1] \in Intents /\ m[1] \in Formed /\ m[2] \in Nat /\ m[2] > 0 /\ m[2] <= minted[m[1]]
  BY ConstantsAssumption DEF Ids, Gone, Minted, ConstantsAssumption
<1>3. minted[m[1]] \in Nat
  BY <1>2, ConstantsAssumption DEF Inv, TypeOK, HistoryTypeOK, ConstantsAssumption
<1>4. rows[m[1]].k # m[2]
  BY DEF Gone, StillQueued
<1>5. rows'[m[1]].k # m[2]
  <2>1. CASE rows'[m[1]] = NoRow
    BY <1>2, <2>1 DEF NoRow
  <2>2. CASE rows'[m[1]].k > minted[m[1]]
    BY <1>2, <1>3, <2>2
  <2>3. QED
    BY <1>2, <1>4, <2>1, <2>2 DEF RowsStand
<1>6. QED
  BY <1>1, <1>5 DEF Gone, StillQueued

(* The screen shows what it showed, the queue as it is, or nothing.        *)
LEMMA MirrorStep ==
    ASSUME Inv, [Next]_vars
    PROVE  mirror' = mirror \/ mirror' = rows' \/ \A i \in Intents : mirror'[i] = NoRow
<1> DEFINE Reads == mirror' = mirror \/ mirror' = rows' \/ \A i \in Intents : mirror'[i] = NoRow
<1> SUFFICES Reads
  OBVIOUS
<1>1. ASSUME NEW c \in Callers, Attempt(c) \/ Lose(c) PROVE Reads
  BY <1>1 DEF Attempt, Serve, TakeCanonical, DeleteRow, HaltQueue, Lose, screenVars
<1>2. ASSUME NEW req \in loose, ServeLoose(req) PROVE Reads
  BY <1>2 DEF ServeLoose, screenVars
<1>3. ASSUME NEW o \in Orders, OtherTerminal(o) \/ CreateOrder(o) \/ FocusOrder(o) PROVE Reads
  BY <1>3 DEF OtherTerminal, CreateOrder, Stage, FocusOrder, screenVars
<1>4. ASSUME NEW kind \in CommandKinds, Command(kind) PROVE Reads
  BY <1>4 DEF Command, Stage
<1>5. ASSUME NEW r \in Rebases, RebaseHalted(r) \/ Rebase(r) PROVE Reads
  BY <1>5 DEF RebaseHalted, Rebase, ReadHead, Reissue, RebaseSends, RebaseEnds, Mirrored,
              screenVars, diskVars
<1>6. ASSUME Trigger \/ Pass \/ Hydrate \/ Visit PROVE Reads
  BY <1>6 DEF Trigger, Pass, PassSends, PassEnds, Mirrored, Hydrate, HydrateReads, HydrateRestores,
              HydratePrunes, Visit, Leave, Detach, OpenAgain, screenVars, diskVars
<1>7. ASSUME Clear \/ DiscardHalted \/ AskOrder \/ TakeOrder \/ Reload \/ UNCHANGED vars PROVE Reads
  BY <1>7 DEF Clear, DiscardHalted, AskOrder, TakeOrder, Reload, vars, screenVars
<1>8. QED
  BY <1>1, <1>2, <1>3, <1>4, <1>5, <1>6, <1>7 DEF Next

LEMMA MirrorMintedStep ==
    ASSUME Inv, Inv', OnceInv', Grows, MirrorMinted, [Next]_vars
    PROVE  MirrorMinted'
<1> SUFFICES ASSUME NEW i \in Intents, mirror'[i] # NoRow PROVE mirror'[i].k <= minted'[i]
  BY DEF MirrorMinted
<1>1. mirror[i] \in RowType /\ minted[i] \in Nat /\ minted'[i] \in Nat
  BY ConstantsAssumption DEF Inv, TypeOK, ScreenTypeOK, HistoryTypeOK, ConstantsAssumption
<1>2. CASE mirror' = mirror
  <2>1. mirror[i].k <= minted[i] /\ mirror[i].k \in Nat /\ minted[i] <= minted'[i]
    BY <1>1, <1>2, RowIsThere, ConstantsAssumption
       DEF MirrorMinted, Inv, MirrorTrue, Grows, ConstantsAssumption
  <2>2. QED
    BY <1>1, <1>2, <2>1
<1>3. CASE mirror' = rows'
  BY <1>1, <1>3 DEF OnceInv, Identities, IdsAreMinted
<1>4. QED
  BY <1>2, <1>3, MirrorStep

(* What the mirror holds of an order. *)
LEMMA MirroredIds ==
    ASSUME Inv, MirrorMinted, NEW o \in Orders
    PROVE  \A m \in QueuedIds(mirror, o) : m \in Ids /\ Minted(m) /\ OrderOf(m[1]) = o
<1> SUFFICES ASSUME NEW i \in Intents, mirror[i] # NoRow, mirror[i].order = o,
                    NEW m, m = <<i, mirror[i].k>>
             PROVE  m \in Ids /\ Minted(m) /\ OrderOf(m[1]) = o
  BY DEF QueuedIds, Queued
<1>1. mirror[i].k \in 1..MaxIds
  BY RowIsThere DEF Inv, TypeOK, ScreenTypeOK
<1>2. i \in Formed /\ OrderOf(i) = o
  BY DEF Inv, MirrorTrue
<1>3. QED
  BY <1>1, <1>2 DEF Ids, Minted, MirrorMinted

(* A report names what the rows have no more, unless it is blind.          *)
LEMMA ReportNamesGone ==
    ASSUME Inv', NEW o, NEW before \in SUBSET Ids,
           \A m \in before : Minted(m)' /\ OrderOf(m[1])' = o,
           visit.open => mirror' = rows',
           Report(Cleared(before, o))
    PROVE  /\ \A ids \in reports' : ids \in reports \/ ids \subseteq before
           /\ blind \subseteq blind' /\ blind' \subseteq blind \cup before
           /\ \A ids \in reports' \ reports : \A m \in ids \ blind' : Gone(m)'
<1>1. Cleared(before, o) \subseteq before
  BY DEF Cleared
<1>2. ASSUME visit.open, NEW m \in Cleared(before, o) PROVE Gone(m)'
  <2>1. m \in before /\ m \notin QueuedIds(rows', o)
    BY <1>2 DEF Cleared
  <2>2. PICK i \in Intents, k \in 1..MaxIds : m = <<i, k>>
    BY <2>1 DEF Ids
  <2>3. i \in Formed' /\ OrderOf(i)' = o
    BY <2>1, <2>2 DEF Minted
  <2>4. rows'[i].k # k
    <3> SUFFICES ASSUME rows'[i].k = k PROVE FALSE
      OBVIOUS
    <3>1. rows'[i] # NoRow
      BY <2>2, ConstantsAssumption DEF NoRow, ConstantsAssumption
    <3>2. rows'[i].order = o
      BY <2>3, <3>1 DEF Inv, RowsTrue, RowTrue
    <3>3. m \in QueuedIds(rows', o)
      BY <2>2, <3>1, <3>2 DEF QueuedIds, Queued
    <3>4. QED
      BY <2>1, <3>3
  <2>5. QED
    BY <2>1, <2>2, <2>4 DEF Gone, StillQueued
<1>3. QED
  BY <1>1, <1>2 DEF Report

(* A rebase is of one order from its start to its end.                     *)
LEMMA OrdersStay ==
    ASSUME Inv,
           \/ Unlogged \/ DiscardHalted \/ UNCHANGED vars
           \/ \E c \in Callers : Serve(c)
           \/ \E req \in loose : ServeLoose(req)
    PROVE  \A r \in Rebases : rebase'[r].order = rebase[r].order
<1> DEFINE Stay == \A r \in Rebases : rebase'[r].order = rebase[r].order
<1> SUFFICES Stay
  OBVIOUS
<1>1. rebase \in [Rebases -> RebaseType]
  BY DEF Inv, TypeOK, EngineTypeOK
<1>2. ASSUME rebase' = rebase PROVE Stay
  BY <1>2
<1>3. ASSUME NEW c \in Callers, NEW result, Return(c, result) PROVE Stay
  BY <1>1, <1>3 DEF Return, RebaseType
<1>4. ASSUME NEW c \in Callers, TakeCanonical(c) \/ DeleteRow(c) \/ HaltQueue(c) \/ Lose(c) PROVE Stay
  BY <1>2, <1>3, <1>4 DEF TakeCanonical, DeleteRow, HaltQueue, Lose
<1>5. ASSUME NEW o \in Orders, OtherTerminal(o) \/ CreateOrder(o) \/ FocusOrder(o) PROVE Stay
  BY <1>2, <1>5 DEF OtherTerminal, CreateOrder, FocusOrder, engineVars
<1>6. ASSUME NEW kind \in CommandKinds, Command(kind) PROVE Stay
  BY <1>2, <1>6 DEF Command
<1>7. ASSUME NEW r \in Rebases, ReadHead(r) \/ Reissue(r) \/ RebaseSends(r) PROVE Stay
  BY <1>1, <1>7 DEF ReadHead, Reissue, RebaseSends, RebaseType
<1>8. ASSUME Trigger \/ Pass \/ Hydrate \/ Visit PROVE Stay
  BY <1>2, <1>8 DEF Trigger, Pass, PassSends, PassEnds, Hydrate, HydrateReads, HydrateRestores,
                    HydratePrunes, Visit, Leave, Detach, OpenAgain, engineVars
<1>9. ASSUME Clear \/ DiscardHalted \/ AskOrder \/ TakeOrder \/ UNCHANGED vars PROVE Stay
  BY <1>2, <1>9 DEF Clear, DiscardHalted, AskOrder, TakeOrder, vars, engineVars
<1>10. ASSUME NEW c \in Callers, Serve(c) PROVE Stay
  BY <1>2, <1>10 DEF Serve
<1>11. ASSUME NEW req \in loose, ServeLoose(req) PROVE Stay
  BY <1>2, <1>11 DEF ServeLoose, engineVars
<1>12. QED
  BY <1>4, <1>5, <1>6, <1>7, <1>8, <1>9, <1>10, <1>11 DEF Unlogged

(* With the log the terminal takes the steps it takes without.             *)
LEMMA LogStepIsStep ==
    ASSUME [LogNext]_<<vars, logVars>>
    PROVE  [Next]_vars
<1>1. CASE Unlogged
  BY <1>1 DEF Unlogged, Next, Attempt, Rebase
<1>2. ASSUME NEW c \in Callers, ServeLogged(c) PROVE Next
  BY <1>2 DEF ServeLogged, Next, Attempt
<1>3. ASSUME NEW req \in loose, ServeLooseLogged(req) PROVE Next
  BY <1>3 DEF ServeLooseLogged, Next
<1>4. ASSUME NEW r \in Rebases, RebaseHeld(r) \/ RebaseReported(r) PROVE Next
  BY <1>4 DEF RebaseHeld, RebaseReported, Next, Rebase
<1>5. CASE DiscardReported \/ ReloadUnreported
  BY <1>5 DEF DiscardReported, ReloadUnreported, Next
<1>6. ASSUME NEW ids \in reports, Record(ids) PROVE UNCHANGED vars
  BY <1>6 DEF Record
<1>7. QED
  BY <1>1, <1>2, <1>3, <1>4, <1>5, <1>6 DEF LogNext

(* The history of the log is about ids that were minted.                   *)
LEMMA HeldKept ==
    ASSUME Inv, Inv', Grows, LogTypeOK, HeldIsOfOrder,
           \A r \in Rebases : held'[r] = {} \/ (held'[r] = held[r] /\ rebase'[r].order = rebase[r].order)
    PROVE  HeldIsOfOrder'
<1> SUFFICES ASSUME NEW r \in Rebases, NEW m \in held'[r]
             PROVE  Minted(m)' /\ OrderOf(m[1])' = rebase'[r].order
  BY DEF HeldIsOfOrder
<1>1. m \in Ids /\ m \in held[r] /\ rebase'[r].order = rebase[r].order
  BY DEF LogTypeOK
<1>2. Minted(m) /\ OrderOf(m[1]) = rebase[r].order
  BY <1>1 DEF HeldIsOfOrder
<1>3. QED
  BY <1>1, <1>2, MintedStays

LEMMA GoneKept ==
    ASSUME Inv, Inv', Grows, RowsStand, LogInv, blind \subseteq blind',
           \A ids \in reports' : ids \in reports \/ \A m \in ids \ blind' : Gone(m)',
           \A m \in resolved' : m \in resolved \/ \E ids \in reports : m \in ids
    PROVE  ReportedGone' /\ ResolvedGone'
<1>1. \A ids \in reports : \A m \in ids \ blind : m \in Ids /\ Gone(m)
  BY DEF LogInv, LogTypeOK, ReportedGone
<1>2. \A m \in resolved \ blind : m \in Ids /\ Gone(m)
  BY DEF LogInv, LogTypeOK, ResolvedGone
<1>3. \A m \in Ids : Gone(m) => Gone(m)'
  BY GoneStays
<1>4. ReportedGone'
  BY <1>1, <1>3 DEF ReportedGone
<1>5. ResolvedGone'
  BY <1>1, <1>2, <1>3 DEF ResolvedGone
<1>6. QED
  BY <1>4, <1>5

LEMMA LoggedTyped ==
    ASSUME NEW req \in Request, unresolved \subseteq Ids, Logged(req)
    PROVE  unresolved' \subseteq Ids
  BY DEF Logged, Request, Ids

LEMMA LogInvStep ==
    ASSUME Inv, Inv', OnceInv', LogInv, [LogNext]_<<vars, logVars>>
    PROVE  LogInv'
<1>1. [Next]_vars /\ Grows /\ RowsStand
  BY LogStepIsStep, GrowsStep, RowsStandStep
<1>2. MirrorMinted'
  BY <1>1, MirrorMintedStep DEF LogInv
<1>3. LogTypeOK /\ HeldIsOfOrder /\ MirrorMinted
  BY DEF LogInv
<1>4. ASSUME Unlogged \/ UNCHANGED vars, UNCHANGED logVars PROVE LogInv'
  <2>1. \A r \in Rebases : rebase'[r].order = rebase[r].order
    BY <1>4, OrdersStay
  <2>2. HeldIsOfOrder'
    BY <1>1, <1>3, <1>4, <2>1, HeldKept DEF logVars
  <2>3. ReportedGone' /\ ResolvedGone'
    BY <1>1, <1>4, GoneKept DEF logVars
  <2>4. LogTypeOK'
    BY <1>3, <1>4 DEF LogTypeOK, logVars
  <2>5. QED
    BY <1>2, <2>2, <2>3, <2>4 DEF LogInv
<1>5. ASSUME NEW req \in Request, Logged(req), UNCHANGED <<resolved, held, reports, blind>>,
             \A r \in Rebases : rebase'[r].order = rebase[r].order
      PROVE  LogInv'
  <2>1. HeldIsOfOrder'
    BY <1>1, <1>3, <1>5, HeldKept
  <2>2. ReportedGone' /\ ResolvedGone'
    BY <1>1, <1>5, GoneKept
  <2>3. LogTypeOK'
    BY <1>3, <1>5, LoggedTyped DEF LogTypeOK
  <2>4. QED
    BY <1>2, <2>1, <2>2, <2>3 DEF LogInv
<1>6. ASSUME NEW c \in Callers, ServeLogged(c) PROVE LogInv'
  <2>1. Serve(c) /\ Logged(call[c].req) /\ UNCHANGED <<resolved, held, reports, blind>>
    BY <1>6 DEF ServeLogged
  <2>2. call[c].req \in Request
    BY <2>1, CallHasRequest DEF Serve, Inv
  <2>3. QED
    BY <1>5, <2>1, <2>2, OrdersStay
<1>7. ASSUME NEW req \in loose, ServeLooseLogged(req) PROVE LogInv'
  <2>1. req \in Request
    BY DEF Inv, TypeOK, ServerTypeOK
  <2>2. QED
    BY <1>5, <1>7, <2>1, OrdersStay DEF ServeLooseLogged
<1>8. ASSUME NEW r \in Rebases, RebaseHeld(r) PROVE LogInv'
  <2>1. /\ rebase \in [Rebases -> RebaseType] /\ current \in Orders \cup {NULL}
    BY DEF Inv, TypeOK, EngineTypeOK, ScreenTypeOK
  <2>2. current \in Orders /\ rebase'[r].order = current
        /\ \A s \in Rebases : s # r => rebase'[s] = rebase[s]
    BY <1>8, <2>1 DEF RebaseHeld, RebaseHalted, Halted
  <2>3. /\ held'[r] = QueuedIds(mirror, current)
        /\ \A s \in Rebases : s # r => held'[s] = held[s]
        /\ held' = [held EXCEPT ![r] = QueuedIds(mirror, current)]
        /\ UNCHANGED <<unresolved, resolved, reports, blind>>
    BY <1>3, <1>8 DEF RebaseHeld, LogTypeOK
  <2>4. \A m \in QueuedIds(mirror, current) : m \in Ids /\ Minted(m) /\ OrderOf(m[1]) = current
    BY <1>3, <2>2, MirroredIds
  <2>5. HeldIsOfOrder'
    <3> SUFFICES ASSUME NEW s \in Rebases, NEW m \in held'[s]
                 PROVE  Minted(m)' /\ OrderOf(m[1])' = rebase'[s].order
      BY DEF HeldIsOfOrder
    <3>1. m \in Ids /\ Minted(m) /\ OrderOf(m[1]) = rebase'[s].order
      BY <1>3, <2>2, <2>3, <2>4 DEF HeldIsOfOrder, LogTypeOK
    <3>2. QED
      BY <1>1, <3>1, MintedStays
  <2>6. ReportedGone' /\ ResolvedGone'
    BY <1>1, <2>3, GoneKept
  <2>7. LogTypeOK'
    BY <1>3, <2>3, <2>4 DEF LogTypeOK
  <2>8. QED
    BY <1>2, <2>5, <2>6, <2>7 DEF LogInv
<1>9. ASSUME NEW before \in SUBSET Ids, NEW o,
             \A m \in before : Minted(m) /\ OrderOf(m[1]) = o,
             visit.open => mirror' = rows',
             Report(Cleared(before, o)), UNCHANGED <<unresolved, resolved>>
      PROVE  ReportedGone' /\ ResolvedGone' /\ (held' \in [Rebases -> SUBSET Ids] => LogTypeOK')
  <2>1. \A m \in before : Minted(m)' /\ OrderOf(m[1])' = o
    BY <1>1, <1>9, MintedStays
  <2>2. /\ \A ids \in reports' : ids \in reports \/ ids \subseteq before
        /\ blind \subseteq blind' /\ blind' \subseteq blind \cup before
        /\ \A ids \in reports' \ reports : \A m \in ids \ blind' : Gone(m)'
    BY <1>9, <2>1, ReportNamesGone
  <2>3. ReportedGone' /\ ResolvedGone'
    BY <1>1, <1>9, <2>2, GoneKept
  <2>4. held' \in [Rebases -> SUBSET Ids] => LogTypeOK'
    BY <1>3, <1>9, <2>2 DEF LogTypeOK
  <2>5. QED
    BY <2>3, <2>4
<1>10. ASSUME NEW r \in Rebases, RebaseReported(r) PROVE LogInv'
  <2>1. /\ held[r] \in SUBSET Ids
        /\ \A m \in held[r] : Minted(m) /\ OrderOf(m[1]) = rebase[r].order
    BY <1>3 DEF LogTypeOK, HeldIsOfOrder
  <2>2. visit.open => mirror' = rows'
    BY <1>10 DEF RebaseReported, RebaseEnds, Mirrored, diskVars
  <2>3. /\ Report(Cleared(held[r], rebase[r].order)) /\ UNCHANGED <<unresolved, resolved>>
        /\ held' = [held EXCEPT ![r] = {}]
    BY <1>10 DEF RebaseReported
  <2>4. held' \in [Rebases -> SUBSET Ids] /\ held'[r] = {}
        /\ \A s \in Rebases : s # r => held'[s] = held[s]
    BY <1>3, <2>3 DEF LogTypeOK
  <2>5. \A s \in Rebases : s # r => rebase'[s] = rebase[s]
    BY <1>10 DEF RebaseReported, RebaseEnds, Inv, TypeOK, EngineTypeOK
  <2>6. HeldIsOfOrder'
    BY <1>1, <1>3, <2>4, <2>5, HeldKept
  <2>7. QED
    BY <1>2, <1>9, <2>1, <2>2, <2>3, <2>4, <2>6 DEF LogInv
<1>11. CASE DiscardReported
  <2>1. current \in Orders /\ visit.open /\ mirror' = rows'
    BY <1>11 DEF DiscardReported, DiscardHalted, Halted, Inv, TypeOK, ScreenTypeOK
  <2>2. /\ QueuedIds(mirror, current) \in SUBSET Ids
        /\ \A m \in QueuedIds(mirror, current) : Minted(m) /\ OrderOf(m[1]) = current
    BY <1>3, <2>1, MirroredIds
  <2>3. /\ Report(Cleared(QueuedIds(mirror, current), current))
        /\ UNCHANGED <<unresolved, resolved, held>>
    BY <1>11 DEF DiscardReported
  <2>4. \A r \in Rebases : rebase'[r].order = rebase[r].order
    BY <1>11, OrdersStay DEF DiscardReported
  <2>5. HeldIsOfOrder' /\ held' \in [Rebases -> SUBSET Ids]
    BY <1>1, <1>3, <2>3, <2>4, HeldKept DEF LogTypeOK
  <2>6. QED
    BY <1>2, <1>9, <2>1, <2>2, <2>3, <2>5 DEF LogInv
<1>12. CASE ReloadUnreported
  <2>1. held' = [r \in Rebases |-> {}] /\ UNCHANGED <<unresolved, resolved, reports, blind>>
    BY <1>12 DEF ReloadUnreported
  <2>2. HeldIsOfOrder' /\ LogTypeOK'
    BY <1>3, <2>1 DEF HeldIsOfOrder, LogTypeOK
  <2>3. ReportedGone' /\ ResolvedGone'
    BY <1>1, <2>1, GoneKept
  <2>4. QED
    BY <1>2, <2>2, <2>3 DEF LogInv
<1>13. ASSUME NEW ids \in reports, Record(ids) PROVE LogInv'
  <2>1. /\ unresolved' \subseteq unresolved /\ reports' \subseteq reports
        /\ \A m \in resolved' : m \in resolved \/ (m \in ids /\ m \in unresolved)
        /\ UNCHANGED <<held, blind>> /\ UNCHANGED vars
    BY <1>13 DEF Record, Closes
  <2>2. \A r \in Rebases : rebase'[r].order = rebase[r].order
    BY <2>1, OrdersStay
  <2>3. HeldIsOfOrder'
    BY <1>1, <1>3, <2>1, <2>2, HeldKept
  <2>4. ReportedGone' /\ ResolvedGone'
    BY <1>1, <2>1, GoneKept
  <2>5. LogTypeOK'
    BY <1>3, <2>1 DEF LogTypeOK
  <2>6. QED
    BY <1>2, <2>3, <2>4, <2>5 DEF LogInv
<1>14. QED
  BY <1>4, <1>6, <1>7, <1>8, <1>10, <1>11, <1>12, <1>13 DEF LogNext

LEMMA LogInvariant == LogSpec => []LogInv
<1>1. Init /\ LogInit => LogInv
  BY DEF Init, LogInit, LogInv, LogTypeOK, MirrorMinted, HeldIsOfOrder, ReportedGone, ResolvedGone
<1>2. Inv /\ Inv' /\ OnceInv' /\ LogInv /\ [LogNext]_<<vars, logVars>> => LogInv'
  BY LogInvStep
<1>3. [LogNext]_<<vars, logVars>> => [Next]_vars
  BY LogStepIsStep
<1>4. QED
  BY <1>1, <1>2, <1>3, OnceInvariant, PTL DEF LogSpec, Spec

(* The types of the log, and of the ids the reports carry.                 *)
THEOREM LogTypeCorrect == LogSpec => []LogTypeOK
<1>1. LogInv => LogTypeOK
  BY DEF LogInv
<1>2. QED
  BY <1>1, LogInvariant, PTL

(* A row of the log is closed only when its mutation has left the queue,   *)
(* and no row ever has that id again, however late the report arrives      *)
(* (reportResolution, record-conflict-resolution.ts).                      *)
THEOREM ClosedLeft == LogSpec => []ClosedHasLeft
<1>1. LogInv => ClosedHasLeft
  BY DEF LogInv, ResolvedGone, Gone, ClosedHasLeft
<1>2. QED
  BY <1>1, LogInvariant, PTL

-----------------------------------------------------------------------------
(* What was tapped adds up: how the quantities at the server follow from   *)
(* the taps as long as every mutation takes effect as it was formed.       *)

Want == [tap : Taps \cup {"none"}, n : Nat, base : Nat]

(* What the snapshot of a version holds. *)
QuantityAt(o, n) == IF n = 0 THEN 0 ELSE quantities[o][n]

TapTypeOK ==
    /\ quantities \in [Orders -> Seq(Nat)]
    /\ \A o \in Orders : Len(quantities[o]) = version[o]
    /\ wants \in [Intents -> Want] /\ blurred \subseteq Orders
    /\ \A i \in Intents \ Formed : wants[i] = Nothing

(* The first id of an intent stands for the base it was planned on. *)
Stamped ==
    /\ \A req \in Request : Live(req) /\ req.k = 1 => req.base = wants[req.intent].base
    /\ \A i \in Intents : mirror[i] # NoRow /\ mirror[i].k = 1 => mirror[i].base = wants[i].base

(* A success says of a version past its base, and is cached before the row *)
(* goes.                                                                   *)
SeenIsNew ==
    /\ \A c \in Callers :
           call[c].step \in {"applied", "cached"} => call[c].seen > call[c].req.base
    /\ call["pass"].step = "cached"
           => cached[OrderOf(call["pass"].req.intent)] > call["pass"].req.base

(* What took effect under its first id did so once, on the version it was  *)
(* planned on, and two such effects on different ones.                     *)
FirstCounts(i) == minted[i] = 1 /\ effects[i] > 0

TookAsPlanned(i) ==
    LET o == OrderOf(i) IN
    /\ effects[i] = 1 /\ wants[i].base < version[o]
    /\ QuantityAt(o, wants[i].base + 1) = After(wants[i], QuantityAt(o, wants[i].base))

Ledger ==
    /\ \A i \in Formed : FirstCounts(i) => TookAsPlanned(i)
    /\ \A i, j \in Formed :
           i # j /\ OrderOf(i) = OrderOf(j) /\ FirstCounts(i) /\ FirstCounts(j)
           => wants[i].base # wants[j].base

(* An order whose mutations have taken effect as they were formed or still *)
(* may: none was reissued, overtaken or planned on the base of another.    *)
InForm(o) ==
    /\ o \notin strayed
    /\ \A i \in OwnOf(o) :
           /\ minted[i] = 1 /\ (wants[i].base < version[o] => effects[i] > 0)
           /\ \A j \in OwnOf(o) \ {i} : wants[j].base # wants[i].base

(* The rows of an order are based one on the other, the first on what is   *)
(* cached.                                                                 *)
RowsChained(o) ==
    \A i \in Queued(rows, o) : wants[i].base > cached[o] =>
        \E l \in Queued(rows, o) : wants[l].base + 1 = wants[i].base

(* What the screen mirrors is queued, or settled by a pass that has yet to *)
(* tell.                                                                   *)
MirrorQueued(o) ==
    \A i \in Queued(mirror, o) :
        i \in Queued(rows, o) \/ (pass.running /\ cached[o] > wants[i].base)

MirrorWhole(o) == Queued(mirror, o) = {} \/ Queued(rows, o) \subseteq Queued(mirror, o)

(* The screen has nothing the disk has not. *)
ScreenCached(o) ==
    /\ current = o => shown <= cached[o]
    /\ hydration.phase = "restoring" /\ hydration.order = o => hydration.version <= cached[o]

Ascends(q, o) == \A i, j \in Queued(q, o) : i < j => wants[i].base < wants[j].base

Chained(o) ==
    /\ RowsChained(o) /\ MirrorQueued(o) /\ MirrorWhole(o) /\ ScreenCached(o)
    /\ Ascends(rows, o) /\ Ascends(mirror, o)

(* What a step on a quantity of q asks for.                                *)
StepsFrom(want, q) ==
    /\ want.tap = "plus" => q > 0 /\ want.n = q + 1
    /\ want.tap = "minus" => q > 1 /\ want.n + 1 = q

(* From some version on the quantity was planned through mutations of the  *)
(* terminal, each on the version the one before it makes.                  *)
PlannedThrough(o, j, s, t) ==
    LET b == wants[j].base IN
    /\ s \in 0..b /\ s <= version[o] /\ t \in [0..b -> Nat] /\ t[s] = QuantityAt(o, s)
    /\ \A n \in s..(b - 1) :
           \E i \in OwnOf(o) : wants[i].base = n /\ t[n + 1] = After(wants[i], t[n])
    /\ StepsFrom(wants[j], t[b])

PlannedWell(o, j) ==
    wants[j].tap \in {"plus", "minus"} => \E s, t : PlannedThrough(o, j, s, t)

(* The sum so far, over the mutations that have taken effect. *)
TookOf(o, kinds) == {i \in TapsOf(o, kinds) : effects[i] > 0}
EffectiveOf(o) == {i \in OwnOf(o) : effects[i] > 0}

AddedSoFar(o) ==
    QuantityNow(o) + Cardinality(TookOf(o, {"minus"})) + Cardinality(EffectiveOf(o))
        = Cardinality(TookOf(o, {"add", "plus"})) + version[o]

(* The fold of the queue *)

(* A mutation leaves a quantity.                                           *)
LEMMA AfterTyped ==
    ASSUME NEW want \in Want, NEW q \in Nat
    PROVE  After(want, q) \in Nat
  BY DEF After, Want, Taps

(* Folds the wants of the intents in S onto q. *)
Folding(F, S, q) ==
    F = [n \in 0..MaxIntents |->
            IF n = 0 THEN q ELSE IF n \in S THEN After(wants[n], F[n - 1]) ELSE F[n - 1]]

(* A bounded recursion on numbers defines a function. *)
LEMMA FoldExists ==
    ASSUME NEW S, NEW q \in Nat, wants \in [Intents -> Want]
    PROVE  \E F : Folding(F, S, q)
<1> DEFINE Step(n, p) == IF n \in S THEN After(wants[n], p) ELSE p
           Folds(m, F) == /\ F[0] = q
                          /\ \A n \in 1..m : F[n] = Step(n, F[n - 1])
           Missing == {m \in 0..MaxIntents : ~ \E F \in [0..m -> Nat] : Folds(m, F)}
<1>1. MaxIntents \in Nat
  BY ConstantsAssumption DEF ConstantsAssumption
<1>2. \A n \in 1..MaxIntents, p \in Nat : Step(n, p) \in Nat
  BY AfterTyped DEF Intents
<1> HIDE DEF Step
<1>3. Missing = {}
  <2> SUFFICES ASSUME Missing # {} PROVE FALSE
    OBVIOUS
  <2>1. Missing \subseteq Nat
    BY <1>1
  <2>2. PICK m \in Missing : \A j \in Missing : m <= j
    BY <2>1, LeastNumber
  <2>3. m \in 0..MaxIntents /\ m \in Nat /\ ~ \E F \in [0..m -> Nat] : Folds(m, F)
    BY <2>1, <2>2
  <2>4. CASE m = 0
    <3> DEFINE G == [n \in 0..0 |-> q]
    <3>1. G \in [0..m -> Nat] /\ Folds(m, G)
      BY <2>4
    <3>2. QED
      BY <2>3, <3>1
  <2>5. CASE m > 0
    <3>1. m - 1 \in 0..MaxIntents /\ ~(m <= m - 1)
      BY <1>1, <2>3, <2>5
    <3>2. m - 1 \notin Missing
      BY <2>2, <3>1
    <3>3. PICK F \in [0..(m - 1) -> Nat] : Folds(m - 1, F)
      BY <3>1, <3>2
    <3> DEFINE G == [n \in 0..m |-> IF n = m THEN Step(m, F[m - 1]) ELSE F[n]]
    <3>4. Step(m, F[m - 1]) \in Nat /\ m - 1 \in 0..(m - 1)
      BY <1>2, <2>3, <2>5, <3>3
    <3>5. \A n \in 0..m : n # m => n \in 0..(m - 1) /\ F[n] \in Nat
      BY <2>3, <2>5, <3>3
    <3>6. G \in [0..m -> Nat]
      BY <3>4, <3>5
    <3>7. G[0] = q
      BY <2>3, <2>5, <3>3
    <3>8. ASSUME NEW n \in 1..m PROVE G[n] = Step(n, G[n - 1])
      <4>1. n - 1 \in 0..m /\ n - 1 # m /\ G[n - 1] = F[n - 1]
        BY <2>3, <2>5
      <4>2. CASE n = m
        BY <2>3, <2>5, <4>1, <4>2
      <4>3. CASE n # m
        <5>1. n \in 1..(m - 1)
          BY <2>3, <2>5, <4>3
        <5>2. F[n] = Step(n, F[n - 1])
          BY <3>3, <5>1
        <5>3. G[n] = F[n]
          BY <2>3, <4>3
        <5>4. QED
          BY <4>1, <5>2, <5>3
      <4>4. QED
        BY <4>2, <4>3
    <3>9. Folds(m, G)
      BY <3>7, <3>8
    <3>10. QED
      BY <2>3, <3>6, <3>9
  <2>6. QED
    BY <2>3, <2>4, <2>5
<1>4. PICK F \in [0..MaxIntents -> Nat] : Folds(MaxIntents, F)
  <2>1. MaxIntents \in 0..MaxIntents /\ MaxIntents \notin Missing
    BY <1>1, <1>3
  <2>2. QED
    BY <2>1
<1>5. ASSUME NEW n \in 0..MaxIntents
      PROVE  F[n] = IF n = 0 THEN q ELSE IF n \in S THEN After(wants[n], F[n - 1]) ELSE F[n - 1]
  <2>1. n = 0 \/ n \in 1..MaxIntents
    BY <1>1
  <2>2. QED
    BY <1>4, <2>1 DEF Step
<1>6. F = [n \in 0..MaxIntents |->
              IF n = 0 THEN q ELSE IF n \in S THEN After(wants[n], F[n - 1]) ELSE F[n - 1]]
  BY <1>5
<1>7. QED
  BY <1>6 DEF Folding

(* The fold is of quantities.                                              *)
LEMMA FoldTyped ==
    ASSUME NEW S, NEW q \in Nat, wants \in [Intents -> Want],
           NEW F, Folding(F, S, q)
    PROVE  /\ F \in [0..MaxIntents -> Nat]
           /\ \A n \in 0..MaxIntents :
                  F[n] = IF n = 0 THEN q ELSE IF n \in S THEN After(wants[n], F[n - 1]) ELSE F[n - 1]
<1> DEFINE Off == {n \in 0..MaxIntents : F[n] \notin Nat}
<1>1. MaxIntents \in Nat
  BY ConstantsAssumption DEF ConstantsAssumption
<1>2. \A n \in 0..MaxIntents :
          F[n] = IF n = 0 THEN q ELSE IF n \in S THEN After(wants[n], F[n - 1]) ELSE F[n - 1]
  BY DEF Folding
<1>3. Off = {}
  <2> SUFFICES ASSUME Off # {} PROVE FALSE
    OBVIOUS
  <2>1. Off \subseteq Nat
    BY <1>1
  <2>2. PICK m \in Off : \A j \in Off : m <= j
    BY <2>1, LeastNumber
  <2>3. m \in 0..MaxIntents /\ F[m] \notin Nat
    OBVIOUS
  <2>4. m # 0
    BY <1>2, <2>3
  <2>5. m - 1 \in 0..MaxIntents /\ ~(m <= m - 1) /\ m \in 1..MaxIntents
    BY <1>1, <2>3, <2>4
  <2>6. F[m - 1] \in Nat
    BY <2>2, <2>5
  <2>7. wants[m] \in Want
    BY <2>5 DEF Intents
  <2>8. F[m] \in Nat
    BY <1>2, <2>3, <2>4, <2>6, <2>7, AfterTyped
  <2>9. QED
    BY <2>3, <2>8
<1>4. F \in [0..MaxIntents -> Nat]
  BY <1>3 DEF Folding
<1>5. QED
  BY <1>2, <1>4

(* Folds the queue of the order on screen onto q. *)
FoldsFrom(F, q) ==
    /\ F \in [0..MaxIntents -> Nat] /\ F[0] = q
    /\ \A n \in 1..MaxIntents :
           F[n] = IF n \in Queued(mirror, current) THEN After(wants[n], F[n - 1]) ELSE F[n - 1]

(* What the screen shows is a version the server has had.                  *)
LEMMA ShownTyped ==
    ASSUME Inv, TapTypeOK, current \in Orders
    PROVE  ShownQuantity \in Nat /\ ShownQuantity = QuantityAt(current, shown) /\ shown <= version[current]
<1>1. shown \in Nat /\ version[current] \in Nat /\ shown <= version[current]
  BY ConstantsAssumption DEF Inv, TypeOK, ScreenTypeOK, ServerTypeOK, NothingIsAhead, KnownAt, ConstantsAssumption
<1>2. quantities[current] \in Seq(Nat) /\ Len(quantities[current]) = version[current]
  BY DEF TapTypeOK
<1>3. shown # 0 => quantities[current][shown] \in Nat
  BY <1>1, <1>2, ElementOfSeq
<1>4. QED
  BY <1>1, <1>3 DEF ShownQuantity, QuantityAt

(* The projection is the fold of the queue onto what is shown.             *)
LEMMA ProjectedFolds ==
    ASSUME Inv, TapTypeOK, current \in Orders
    PROVE  \E F : FoldsFrom(F, ShownQuantity) /\ ProjectedQuantity = F[MaxIntents]
<1>1. ShownQuantity \in Nat /\ wants \in [Intents -> Want]
  BY ShownTyped DEF TapTypeOK
<1>2. ProjectedQuantity
          = (CHOOSE F : Folding(F, Queued(mirror, current), ShownQuantity))[MaxIntents]
  BY DEF ProjectedQuantity, Folding
<1>3. PICK F : F = (CHOOSE G : Folding(G, Queued(mirror, current), ShownQuantity))
  OBVIOUS
<1>4. Folding(F, Queued(mirror, current), ShownQuantity)
  BY <1>1, <1>3, FoldExists
<1>5. /\ F \in [0..MaxIntents -> Nat]
      /\ \A n \in 0..MaxIntents :
             F[n] = IF n = 0 THEN ShownQuantity
                    ELSE IF n \in Queued(mirror, current) THEN After(wants[n], F[n - 1]) ELSE F[n - 1]
  BY <1>1, <1>4, FoldTyped
<1>6. 0 \in 0..MaxIntents /\ \A n \in 1..MaxIntents : n \in 0..MaxIntents /\ n # 0
  BY ConstantsAssumption DEF ConstantsAssumption
<1>7. FoldsFrom(F, ShownQuantity)
  BY <1>5, <1>6 DEF FoldsFrom
<1>8. QED
  BY <1>2, <1>3, <1>7

(* Where nothing is queued the fold stays as it is.                        *)
LEMMA FoldStays ==
    ASSUME NEW F, NEW q, FoldsFrom(F, q), NEW a \in 0..MaxIntents, NEW b \in 0..MaxIntents, a <= b,
           \A n \in (a + 1)..b : n \notin Queued(mirror, current)
    PROVE  F[b] = F[a]
<1> DEFINE Off == {n \in a..b : F[n] # F[a]}
<1>0. MaxIntents \in Nat /\ a \in Nat /\ b \in Nat
  BY ConstantsAssumption DEF ConstantsAssumption
<1> SUFFICES ASSUME F[b] # F[a] PROVE FALSE
  OBVIOUS
<1>1. Off \subseteq Nat /\ Off # {}
  BY <1>0
<1>2. PICK m \in Off : \A j \in Off : m <= j
  BY <1>1, LeastNumber
<1>3. m \in a..b /\ F[m] # F[a] /\ m # a
  BY <1>2
<1>4. m - 1 \in a..b /\ m - 1 \notin Off /\ m \in 1..MaxIntents /\ m \in (a + 1)..b
  BY <1>0, <1>2, <1>3
<1>5. F[m] = F[m - 1]
  BY <1>4 DEF FoldsFrom
<1>6. QED
  BY <1>3, <1>4, <1>5

(* With the taps the terminal takes the steps it takes without. *)
LEMMA TapStepIsStep ==
    ASSUME [TapNext]_<<vars, tapVars>>
    PROVE  [Next]_vars
<1>1. ASSUME NEW tap \in Taps, Tap(tap) PROVE Next
  BY <1>1 DEF Tap, Next, CommandKinds
<1>2. ASSUME NEW c \in Callers, ServeCounted(c) PROVE Next
  BY <1>2 DEF ServeCounted, Next, Attempt
<1>3. ASSUME NEW req \in loose, ServeLooseCounted(req) PROVE Next
  BY <1>3 DEF ServeLooseCounted, Next
<1>4. ASSUME NEW o \in Orders, OtherAdds(o) PROVE Next
  BY <1>4 DEF OtherAdds, Next
<1>5. CASE Uncounted
  BY <1>5 DEF Uncounted, Next, Attempt
<1>6. QED
  BY <1>1, <1>2, <1>3, <1>4, <1>5 DEF TapNext

(* A request has its effect, and its want is done.                         *)
Took(req) ==
    /\ req \in Request /\ Live(req) /\ At(req) = req.base
    /\ version' = [version EXCEPT ![OrderOf(req.intent)] = @ + 1]
    /\ effects' = [effects EXCEPT ![req.intent] = @ + 1]
    /\ quantities' = [quantities EXCEPT ![OrderOf(req.intent)] =
                          Append(@, After(wants[req.intent], QuantityNow(OrderOf(req.intent))))]
    /\ UNCHANGED <<intents, minted, wants, blurred, strayed, rows>>

Added(o) ==
    /\ version' = [version EXCEPT ![o] = @ + 1]
    /\ quantities' = [quantities EXCEPT ![o] = Append(@, QuantityNow(o) + 1)]
    /\ UNCHANGED <<effects, intents, minted, wants, blurred, strayed, rows>>

(* A request the server processes is counted, if it has an effect.         *)
LEMMA CountedTook ==
    ASSUME Inv, NEW req \in Request, Live(req), Process(req), Counted(req),
           UNCHANGED <<intents, minted, wants, blurred, strayed, rows>>
    PROVE  Took(req) \/ UNCHANGED <<version, effects, quantities>>
<1> PICK o : o = OrderOf(req.intent)
  OBVIOUS
<1>1. o \in Orders /\ version \in [Orders -> Nat]
  BY LiveIsGenuine DEF Inv, TypeOK, ServerTypeOK
<1>2. quantities' = IF version'[o] = version[o] THEN quantities
                    ELSE [quantities EXCEPT ![o] = Append(@, After(wants[req.intent], QuantityNow(o)))]
  BY DEF Counted
<1>3. CASE version' = version /\ effects' = effects
  BY <1>2, <1>3
<1>4. CASE /\ At(req) = req.base
           /\ version' = [version EXCEPT ![o] = @ + 1]
           /\ effects' = [effects EXCEPT ![req.intent] = @ + 1]
  <2>1. version'[o] = version[o] + 1 /\ version[o] \in Nat
    BY <1>1, <1>4
  <2>2. version'[o] # version[o]
    BY <2>1
  <2>3. QED
    BY <1>2, <1>4, <2>2 DEF Took
<1>5. QED
  BY <1>3, <1>4, ProcessTakes

(* The other steps of the terminal do not reach the server.                *)
LEMMA UncountedLeaves ==
    ASSUME Uncounted
    PROVE  UNCHANGED <<version, effects>>
<1>1. ASSUME NEW c \in Callers, TakeCanonical(c) \/ DeleteRow(c) \/ HaltQueue(c) \/ Lose(c)
      PROVE  UNCHANGED <<version, effects>>
  BY <1>1 DEF TakeCanonical, DeleteRow, HaltQueue, Lose, serverVars, historyVars
<1>2. ASSUME NEW o \in Orders, CreateOrder(o) \/ FocusOrder(o) PROVE UNCHANGED <<version, effects>>
  BY <1>2 DEF CreateOrder, FocusOrder, Stage, serverVars, historyVars
<1>3. ASSUME NEW r \in Rebases, RebaseHalted(r) \/ Rebase(r) PROVE UNCHANGED <<version, effects>>
  BY <1>3 DEF RebaseHalted, Rebase, ReadHead, Reissue, RebaseSends, RebaseEnds, serverVars, historyVars
<1>4. CASE Trigger \/ Pass \/ Hydrate \/ Visit
  BY <1>4 DEF Trigger, Pass, PassSends, PassEnds, Hydrate, HydrateReads, HydrateRestores,
              HydratePrunes, Visit, Leave, Detach, OpenAgain, serverVars, historyVars
<1>5. CASE Clear \/ DiscardHalted \/ AskOrder \/ TakeOrder \/ Reload
  BY <1>5 DEF Clear, DiscardHalted, AskOrder, TakeOrder, Reload, serverVars, historyVars
<1>6. QED
  BY <1>1, <1>2, <1>3, <1>4, <1>5 DEF Uncounted

(* What a step does to the quantities. *)
LEMMA TapSteps ==
    ASSUME Inv, [TapNext]_<<vars, tapVars>>
    PROVE  \/ \E req \in Request : Took(req)
           \/ \E o \in Orders : Added(o)
           \/ /\ UNCHANGED <<version, effects, quantities>>
              /\ \/ UNCHANGED <<wants, blurred>>
                 \/ \E tap \in Taps : Tap(tap)
<1>1. ASSUME NEW tap \in Taps, Tap(tap) PROVE UNCHANGED <<version, effects, quantities>>
  BY <1>1 DEF Tap, Command, Stage, serverVars
<1>2. ASSUME NEW c \in Callers, ServeCounted(c)
      PROVE  UNCHANGED <<wants, blurred>> /\ (Took(call[c].req) \/ UNCHANGED <<version, effects, quantities>>)
             /\ call[c].req \in Request
  <2> PICK req : req = call[c].req
    OBVIOUS
  <2>1. /\ Process(req) /\ Counted(req) /\ UNCHANGED <<intents, minted, wants, blurred, strayed, rows>>
        /\ call[c].step = "sent"
    BY <1>2 DEF ServeCounted, Serve, diskVars
  <2>2. call[c] # NoCall /\ req \in Request
    BY <2>1, CallHasRequest DEF Inv
  <2>3. Live(req)
    BY <2>2 DEF Live, Ready, Held
  <2>4. QED
    BY <2>1, <2>2, <2>3, CountedTook
<1>3. ASSUME NEW req \in loose, ServeLooseCounted(req)
      PROVE  UNCHANGED <<wants, blurred>> /\ (Took(req) \/ UNCHANGED <<version, effects, quantities>>)
             /\ req \in Request
  <2>1. Process(req) /\ Counted(req) /\ UNCHANGED <<intents, minted, wants, blurred, strayed, rows>>
    BY <1>3 DEF ServeLooseCounted, ServeLoose, diskVars
  <2>2. req \in Request
    BY DEF Inv, TypeOK, ServerTypeOK
  <2>3. Live(req)
    BY DEF Live, Ready, Held
  <2>4. QED
    BY <2>1, <2>2, <2>3, CountedTook
<1>4. ASSUME NEW o \in Orders, OtherAdds(o) PROVE Added(o)
  BY <1>4 DEF OtherAdds, OtherTerminal, Added, historyVars, diskVars
<1>5. ASSUME Uncounted, UNCHANGED tapVars PROVE UNCHANGED <<version, effects, quantities, wants, blurred>>
  BY <1>5, UncountedLeaves DEF tapVars
<1>6. CASE UNCHANGED <<vars, tapVars>>
  BY <1>6 DEF vars, serverVars, historyVars, tapVars
<1>7. QED
  BY <1>1, <1>2, <1>3, <1>4, <1>5, <1>6 DEF TapNext

(* Every version has a quantity.                                           *)
LEMMA QuantityTyped ==
    ASSUME Inv, TapTypeOK, NEW o \in Orders
    PROVE  /\ version[o] \in Nat /\ QuantityNow(o) = QuantityAt(o, version[o])
           /\ QuantityNow(o) \in Nat
           /\ \A n \in 0..version[o] : QuantityAt(o, n) \in Nat
<1>1. version[o] \in Nat /\ quantities[o] \in Seq(Nat) /\ Len(quantities[o]) = version[o]
  BY DEF Inv, TypeOK, ServerTypeOK, TapTypeOK
<1>2. QuantityNow(o) = QuantityAt(o, version[o])
  BY DEF QuantityNow, QuantityAt
<1>3. ASSUME NEW n \in 0..version[o] PROVE QuantityAt(o, n) \in Nat
  BY <1>1, ElementOfSeq DEF QuantityAt
<1>4. QED
  BY <1>1, <1>2, <1>3

(* The quantity of one more version. *)
Counts(o, q) ==
    /\ version' = [version EXCEPT ![o] = @ + 1]
    /\ quantities' = [quantities EXCEPT ![o] = Append(@, q)]

(* One more version leaves the quantities of the others.                   *)
LEMMA CountsOne ==
    ASSUME Inv, TapTypeOK, NEW o \in Orders, NEW q \in Nat, Counts(o, q)
    PROVE  /\ quantities' \in [Orders -> Seq(Nat)]
           /\ \A p \in Orders : Len(quantities'[p]) = version'[p]
           /\ version'[o] = version[o] + 1 /\ QuantityNow(o)' = q
           /\ \A p \in Orders : p # o => version'[p] = version[p] /\ QuantityNow(p)' = QuantityNow(p)
           /\ \A p \in Orders : \A n \in 0..version[p] : QuantityAt(p, n)' = QuantityAt(p, n)
<1>1. /\ version \in [Orders -> Nat] /\ quantities \in [Orders -> Seq(Nat)]
      /\ \A p \in Orders : Len(quantities[p]) = version[p]
  BY DEF Inv, TypeOK, ServerTypeOK, TapTypeOK
<1>2. /\ version'[o] = version[o] + 1 /\ quantities'[o] = Append(quantities[o], q)
      /\ \A p \in Orders : p # o => version'[p] = version[p] /\ quantities'[p] = quantities[p]
  BY <1>1 DEF Counts
<1>3. /\ quantities'[o] \in Seq(Nat) /\ Len(quantities'[o]) = version[o] + 1
      /\ quantities'[o][version[o] + 1] = q
      /\ \A n \in 1..version[o] : quantities'[o][n] = quantities[o][n]
  BY <1>1, <1>2, AppendProperties
<1>4. quantities' \in [Orders -> Seq(Nat)]
  BY <1>1, <1>2, <1>3 DEF Counts
<1>5. QuantityNow(o)' = q
  BY <1>1, <1>2, <1>3 DEF QuantityNow
<1>6. ASSUME NEW p \in Orders, NEW n \in 0..version[p] PROVE QuantityAt(p, n)' = QuantityAt(p, n)
  <2>1. n = 0 \/ n \in 1..version[p]
    BY <1>1
  <2>2. QED
    BY <1>2, <1>3, <2>1 DEF QuantityAt
<1>7. QED
  BY <1>1, <1>2, <1>3, <1>4, <1>5, <1>6 DEF QuantityNow

(* An effect makes the version after the one it is based on.               *)
LEMMA TookCounts ==
    ASSUME Inv, TapTypeOK, NEW req \in Request, Took(req)
    PROVE  LET o == OrderOf(req.intent) IN
           /\ req.intent \in Formed /\ req.intent \in Intents /\ o \in Orders /\ req.base \in Nat
           /\ version[o] = req.base
           /\ wants[req.intent] \in Want
           /\ After(wants[req.intent], QuantityNow(o)) \in Nat
           /\ Counts(o, After(wants[req.intent], QuantityNow(o)))
<1>1. req.intent \in Formed /\ req.intent \in Intents /\ OrderOf(req.intent) \in Orders /\ req.base \in Nat
  BY LiveIsGenuine DEF Took
<1>2. wants[req.intent] \in Want
  BY <1>1 DEF TapTypeOK
<1>3. After(wants[req.intent], QuantityNow(OrderOf(req.intent))) \in Nat
  BY <1>1, <1>2, AfterTyped, QuantityTyped
<1>4. QED
  BY <1>1, <1>2, <1>3 DEF Took, Counts, At

(* So does an add of the other terminal.                                   *)
LEMMA AddedCounts ==
    ASSUME Inv, TapTypeOK, NEW o \in Orders, Added(o)
    PROVE  QuantityNow(o) + 1 \in Nat /\ Counts(o, QuantityNow(o) + 1)
  BY QuantityTyped DEF Added, Counts

(* The plan of a tap. *)
LEMMA TapPlans ==
    ASSUME Inv, TapTypeOK, NEW tap \in Taps, Tap(tap)
    PROVE  /\ current \in Orders /\ Projected \in Nat /\ Planned(tap) \in Want
           /\ Planned(tap).tap = tap /\ Planned(tap).base = Projected
           /\ tap = "plus" => ProjectedQuantity > 0 /\ Planned(tap).n = ProjectedQuantity + 1
           /\ tap = "minus" => ProjectedQuantity > 1 /\ Planned(tap).n = ProjectedQuantity - 1
           /\ ProjectedQuantity \in Nat
           /\ UNCHANGED serverVars
           /\ \E i \in Intents \ Formed :
                  /\ Formed' = Formed \cup {i} /\ OrderOf(i)' = current /\ minted' = [minted EXCEPT ![i] = 1]
                  /\ wants' = [wants EXCEPT ![i] = Planned(tap)] /\ wants' \in [Intents -> Want]
                  /\ wants'[i] = Planned(tap) /\ \A j \in Intents : j # i => wants'[j] = wants[j]
<1>1. Command("change") /\ "change" \in CommandKinds
  BY DEF Tap, CommandKinds
<1>2. /\ Stage(Identity(current, "change", Projected)) /\ UNCHANGED serverVars
      /\ current \in Orders /\ "change" \in Kinds /\ Projected \in Nat
  BY <1>1, CommandStages
<1>3. PICK i : i = Len(intents) + 1
  OBVIOUS
<1>4. PICK stored \in BOOLEAN :
          intents' = Append(intents, [order |-> current, kind |-> "change", stored |-> stored])
  BY <1>2, <1>3 DEF Stage, Identity
<1>5. i \in Intents /\ minted' = [minted EXCEPT ![i] = 1] /\ UNCHANGED <<version, taken, effects>>
  BY <1>2, <1>3 DEF Stage, serverVars
<1>6. i \notin Formed /\ Formed' = Formed \cup {i} /\ OrderOf(i)' = current
  BY <1>2, <1>3, <1>4, <1>5, StageForms
<1>7. ProjectedQuantity \in Nat
  <2>1. PICK F : FoldsFrom(F, ShownQuantity) /\ ProjectedQuantity = F[MaxIntents]
    BY <1>2, ProjectedFolds
  <2>2. MaxIntents \in 0..MaxIntents
    BY ConstantsAssumption DEF ConstantsAssumption
  <2>3. QED
    BY <2>1, <2>2 DEF FoldsFrom
<1>8. /\ tap = "plus" => ProjectedQuantity > 0
      /\ tap = "minus" => ProjectedQuantity > 1
      /\ wants' = [wants EXCEPT ![i] = Planned(tap)]
  BY <1>3 DEF Tap
<1>9. CASE tap = "add"
  <2>1. Planned(tap) = [tap |-> tap, n |-> 1, base |-> Projected]
    BY <1>9 DEF Planned
  <2>2. Planned(tap) \in Want /\ Planned(tap).tap = tap /\ Planned(tap).base = Projected
    BY <1>2, <2>1 DEF Want
  <2>3. QED
    BY <1>2, <1>5, <1>6, <1>7, <1>8, <1>9, <2>2 DEF TapTypeOK
<1>10. CASE tap = "plus"
  <2>1. Planned(tap) = [tap |-> tap, n |-> ProjectedQuantity + 1, base |-> Projected]
    BY <1>10 DEF Planned
  <2>2. /\ Planned(tap) \in Want /\ Planned(tap).tap = tap /\ Planned(tap).base = Projected
        /\ Planned(tap).n = ProjectedQuantity + 1
    BY <1>2, <1>7, <2>1 DEF Want
  <2>3. QED
    BY <1>2, <1>5, <1>6, <1>7, <1>8, <1>10, <2>2 DEF TapTypeOK
<1>11. CASE tap = "minus"
  <2>1. Planned(tap) = [tap |-> tap, n |-> ProjectedQuantity - 1, base |-> Projected]
    BY <1>11 DEF Planned
  <2>2. /\ Planned(tap) \in Want /\ Planned(tap).tap = tap /\ Planned(tap).base = Projected
        /\ Planned(tap).n = ProjectedQuantity - 1
    BY <1>2, <1>7, <1>8, <1>11, <2>1 DEF Want
  <2>3. QED
    BY <1>2, <1>5, <1>6, <1>7, <1>8, <1>11, <2>2 DEF TapTypeOK
<1>12. QED
  BY <1>9, <1>10, <1>11 DEF Taps

(* What was planned, and what the versions held, stays so.                 *)
TapsStand ==
    /\ Grows
    /\ \A i \in Formed : wants'[i] = wants[i]
    /\ blurred \subseteq blurred'
    /\ \A o \in Orders : \A n \in 0..version[o] : QuantityAt(o, n)' = QuantityAt(o, n)

(* Every step leaves the plans and the past.                               *)
LEMMA TapsStandStep ==
    ASSUME Inv, TapTypeOK, [TapNext]_<<vars, tapVars>>
    PROVE  TapsStand
<1>1. Grows
  BY TapStepIsStep, GrowsStep
<1>2. ASSUME NEW o \in Orders, NEW q \in Nat, Counts(o, q), UNCHANGED <<wants, blurred>>
      PROVE  TapsStand
  BY <1>1, <1>2, CountsOne DEF TapsStand
<1>3. ASSUME NEW req \in Request, Took(req) PROVE TapsStand
  BY <1>2, <1>3, TookCounts DEF Took
<1>4. ASSUME NEW o \in Orders, Added(o) PROVE TapsStand
  BY <1>2, <1>4, AddedCounts DEF Added
<1>5. CASE UNCHANGED <<version, effects, quantities, wants, blurred>>
  BY <1>1, <1>5 DEF TapsStand, QuantityAt
<1>6. ASSUME NEW tap \in Taps, Tap(tap), UNCHANGED <<version, effects, quantities>> PROVE TapsStand
  <2>1. blurred \subseteq blurred'
    BY <1>6 DEF Tap
  <2>2. \A i \in Formed : wants'[i] = wants[i]
    BY <1>6, TapPlans, FormedIntents DEF Inv
  <2>3. QED
    BY <1>1, <1>6, <2>1, <2>2 DEF TapsStand, QuantityAt
<1>7. QED
  BY <1>3, <1>4, <1>5, <1>6, TapSteps

(* Every step keeps the types.                                             *)
LEMMA TapTypesStep ==
    ASSUME Inv, Inv', TapTypeOK, [TapNext]_<<vars, tapVars>>
    PROVE  TapTypeOK'
<1>0. Grows /\ TypeOK
  BY TapStepIsStep, GrowsStep DEF Inv
<1>1. \A i \in Intents \ Formed' : i \notin Formed
  BY <1>0, IntentKept DEF Grows, Steady
<1>2. ASSUME NEW o \in Orders, NEW q \in Nat, Counts(o, q), UNCHANGED <<wants, blurred>>
      PROVE  TapTypeOK'
  BY <1>1, <1>2, CountsOne DEF TapTypeOK
<1>3. ASSUME NEW req \in Request, Took(req) PROVE TapTypeOK'
  BY <1>2, <1>3, TookCounts DEF Took
<1>4. ASSUME NEW o \in Orders, Added(o) PROVE TapTypeOK'
  BY <1>2, <1>4, AddedCounts DEF Added
<1>5. CASE UNCHANGED <<version, effects, quantities, wants, blurred>>
  BY <1>1, <1>5 DEF TapTypeOK
<1>6. ASSUME NEW tap \in Taps, Tap(tap), UNCHANGED <<version, effects, quantities>> PROVE TapTypeOK'
  <2>1. blurred' \subseteq Orders
    BY <1>6, TapPlans DEF Tap, TapTypeOK
  <2>2. PICK i \in Intents \ Formed :
            /\ Formed' = Formed \cup {i} /\ wants' \in [Intents -> Want]
            /\ \A j \in Intents : j # i => wants'[j] = wants[j]
    BY <1>6, TapPlans
  <2>3. QED
    BY <1>6, <2>1, <2>2 DEF TapTypeOK
<1>7. QED
  BY <1>3, <1>4, <1>5, <1>6, TapSteps

(* A request under a first id that was not there before is of a mutation   *)
(* just formed, and based on what that was planned on.                     *)
FirstIdsStamped ==
    \A req \in Request : Live(req)' /\ req.k = 1 =>
        Live(req) \/ (req.intent \in Intents \ Formed /\ req.base = wants'[req.intent].base)

(* Only the forming of a mutation brings a request under a first id.       *)
LEMMA FirstIdsStampedStep ==
    ASSUME Inv, Inv', Identities, HeadsReissued, TapTypeOK, [TapNext]_<<vars, tapVars>>
    PROVE  FirstIdsStamped
<1>1. ASSUME NoneComes, UNCHANGED intents PROVE FirstIdsStamped
  BY <1>1, NoneIsNew DEF FirstIdsStamped
<1>2. ASSUME Quiet, Carried PROVE FirstIdsStamped
  BY <1>1, <1>2, CarriedIsNone DEF Quiet
<1>3. ASSUME UNCHANGED <<rows, pass, rebase>>, \A p \in Request : Held(p)' => Held(p)
      PROVE  FirstIdsStamped
  BY <1>3 DEF FirstIdsStamped, Live, Ready, YetToSend, InQueue, RequestOf
<1>4. ASSUME NEW o \in Orders, NEW kind \in Kinds, NEW base \in Nat,
             Stage(Identity(o, kind, base)), UNCHANGED <<serverVars, loose, rebase>>,
             kind = "create" => \A j \in Formed : OrderOf(j) # o,
             \A i \in Intents \ Formed : i \in Formed' => wants'[i].base = base
      PROVE  FirstIdsStamped
  <2>1. PICK new \in Request : Forms(new, o, kind) /\ new.base = base /\ MintedFor(new)
    BY <1>4, StageMintsFor
  <2>2. new.intent \in Intents \ Formed /\ new.intent \in Formed'
    BY <2>1 DEF Forms, Request
  <2>3. QED
    BY <1>4, <2>1, <2>2 DEF FirstIdsStamped, MintedFor
<1>5. ASSUME NEW tap \in Taps, Tap(tap) PROVE FirstIdsStamped
  <2>1. Command("change") /\ "change" \in CommandKinds
    BY <1>5 DEF Tap, CommandKinds
  <2>2. /\ Stage(Identity(current, "change", Projected)) /\ UNCHANGED <<serverVars, loose, rebase>>
        /\ current \in Orders /\ "change" \in Kinds /\ Projected \in Nat
    BY <2>1, CommandStages DEF Command
  <2>3. \A i \in Intents \ Formed : i \in Formed' => wants'[i].base = Projected
    BY <1>5, TapPlans
  <2>4. QED
    BY <1>4, <2>2, <2>3
<1>6. ASSUME NEW c \in Callers, ServeCounted(c) PROVE FirstIdsStamped
  <2>1. Serve(c) /\ UNCHANGED <<rows, pass, rebase>>
    BY <1>6 DEF ServeCounted, Serve, diskVars
  <2>2. QED
    BY <1>3, <2>1, ServeHolds
<1>7. ASSUME NEW req \in loose, ServeLooseCounted(req) PROVE FirstIdsStamped
  <2>1. loose' = loose \ {req} /\ UNCHANGED <<rows, pass, rebase, call>>
    BY <1>7 DEF ServeLooseCounted, ServeLoose, diskVars, engineVars
  <2>2. QED
    BY <1>3, <2>1 DEF Held
<1>8. ASSUME NEW o \in Orders, OtherAdds(o) PROVE FirstIdsStamped
  BY <1>2, <1>8, CarriedByScreen DEF OtherAdds
<1>9. CASE Uncounted /\ UNCHANGED tapVars
  <2>1. ASSUME NEW c \in Callers, TakeCanonical(c) \/ DeleteRow(c) \/ HaltQueue(c) \/ Lose(c)
        PROVE  FirstIdsStamped
    BY <1>2, <2>1, CarriedByAttempts
  <2>2. ASSUME NEW o \in Orders, CreateOrder(o) PROVE FirstIdsStamped
    <3>1. /\ Stage(Identity(o, "create", 0)) /\ UNCHANGED <<serverVars, loose, rebase>>
          /\ \A j \in Formed : OrderOf(j) # o
          /\ "create" \in Kinds /\ 0 \in Nat
      BY <2>2, CreateStages DEF CreateOrder
    <3>2. \A i \in Intents \ Formed : wants'[i].base = 0
      BY <1>9 DEF tapVars, TapTypeOK, Nothing
    <3>3. QED
      BY <1>4, <3>1, <3>2
  <2>3. ASSUME NEW r \in Rebases, Reissue(r) PROVE FirstIdsStamped
    <3>1. CASE \E new \in Request : Reissues(r, new)
      <4>1. PICK new \in Request : Reissues(r, new)
        BY <3>1
      <4>2. MintedFor(new)
        BY <2>3, <4>1, ReissueMintsFor
      <4>3. new.intent \in Formed /\ minted[new.intent] \in Nat /\ new.k = minted[new.intent] + 1
        BY <2>3, <4>1, ReissueCounts DEF Reissues
      <4>4. new.k # 1
        BY <4>3 DEF HeadsReissued
      <4>5. QED
        BY <4>2, <4>4 DEF FirstIdsStamped, MintedFor
    <3>2. CASE ~ \E new \in Request : Reissues(r, new)
      <4>1. /\ UNCHANGED <<minted, doubted, rows, intents, tried, loose, call, pass>>
            /\ rebase' = [rebase EXCEPT ![r].phase = "ending"]
        BY <2>3, <3>2, ReissueMints
      <4>2. rebase \in [Rebases -> RebaseType]
        BY DEF Inv, TypeOK, EngineTypeOK
      <4>3. RebasesCarried
        BY <4>1, <4>2 DEF RebasesCarried, RebaseType
      <4>4. Carried
        BY <4>1, <4>3
           DEF Carried, RowsCarried, PassCarried, CallsCarried, Continues, LooseCarried
      <4>5. QED
        BY <1>1, <4>1, <4>4, CarriedIsNone
    <3>3. QED
      BY <3>1, <3>2
  <2>4. ASSUME NEW r \in Rebases, RebaseSends(r) PROVE FirstIdsStamped
    <3>1. /\ Send(r, rebase[r].head, WithStatus(rebase[r].head, "SYNCING"))
          /\ rebase[r].phase = "sending" /\ UNCHANGED <<loose, pass, rebase, intents>>
      BY <2>4 DEF RebaseSends
    <3>2. rebase[r].head \in Request /\ r \in Callers /\ YetToSend(rebase[r].head)
      BY <3>1 DEF Inv, RebasesTrue, RebaseTrue, Genuine, Callers, YetToSend
    <3>3. QED
      BY <1>1, <3>1, <3>2, SendBringsNone
  <2>5. CASE PassSends
    <3>1. PICK e \in pass.todo : Send("pass", e.req, WithStatus(e.req, "SYNCING"))
      BY <2>5 DEF PassSends
    <3>2. UNCHANGED <<loose, pass, rebase, intents>>
      BY <2>5 DEF PassSends
    <3>3. e.req \in Request /\ "pass" \in Callers /\ YetToSend(e.req)
      BY DEF Inv, PassTrue, ToDoTrue, Genuine, Callers, YetToSend
    <3>4. QED
      BY <1>1, <3>1, <3>2, <3>3, SendBringsNone
  <2>6. ASSUME NEW r \in Rebases, RebaseHalted(r) \/ ReadHead(r) \/ RebaseEnds(r)
        PROVE  FirstIdsStamped
    BY <1>2, <2>6, CarriedByRebase
  <2>7. CASE DiscardHalted
    BY <1>2, <2>7, CarriedByDiscard
  <2>8. CASE \/ \E o \in Orders : FocusOrder(o)
             \/ Clear \/ AskOrder \/ TakeOrder \/ Reload \/ Trigger \/ PassEnds \/ Hydrate \/ Visit
    BY <1>2, <2>8, CarriedByScreen
  <2>9. QED
    BY <1>9, <2>1, <2>2, <2>3, <2>4, <2>5, <2>6, <2>7, <2>8 DEF Uncounted, Rebase, Pass
<1>10. CASE UNCHANGED <<vars, tapVars>>
  BY <1>2, <1>10, CarriedByScreen
<1>11. QED
  BY <1>5, <1>6, <1>7, <1>8, <1>9, <1>10 DEF TapNext

(* So first ids stand for what was planned.                                *)
LEMMA StampedStep ==
    ASSUME Inv, Inv', TapsStand, FirstIdsStamped, Stamped, [Next]_vars
    PROVE  Stamped'
<1>1. ASSUME NEW req \in Request, Live(req)', req.k = 1
      PROVE  req.base = wants'[req.intent].base
  <2>1. CASE Live(req)
    BY <1>1, <2>1, LiveIsGenuine DEF Stamped, TapsStand
  <2>2. CASE ~Live(req)
    BY <1>1, <2>2 DEF FirstIdsStamped
  <2>3. QED
    BY <2>1, <2>2
<1>2. ASSUME NEW i \in Intents, mirror'[i] # NoRow, mirror'[i].k = 1
      PROVE  mirror'[i].base = wants'[i].base
  <2>1. CASE mirror' = mirror
    <3>1. i \in Formed
      BY <1>2, <2>1 DEF Inv, MirrorTrue
    <3>2. QED
      BY <1>2, <2>1, <3>1 DEF Stamped, TapsStand
  <2>2. CASE mirror' = rows'
    <3>1. PICK req : req = [intent |-> i, k |-> rows'[i].k, base |-> rows'[i].base]
      OBVIOUS
    <3>2. req \in Request /\ req.intent = i /\ req.k = rows'[i].k /\ req.base = rows'[i].base
      <4>1. rows'[i] \in RowType
        BY DEF Inv, TypeOK, DiskTypeOK
      <4>2. QED
        BY <1>2, <2>2, <3>1, <4>1, RowIsThere DEF Request
    <3>3. Live(req)'
      BY <1>2, <2>2, <3>1 DEF Live, InQueue, RequestOf
    <3>4. QED
      BY <1>1, <1>2, <2>2, <3>2, <3>3
  <2>3. QED
    BY <1>2, <2>1, <2>2, MirrorStep
<1>3. QED
  BY <1>1, <1>2 DEF Stamped

(* What is cached of an order is only replaced by something newer, or      *)
(* pruned at the end of a hydration.                                       *)
LEMMA CachedStep ==
    ASSUME Inv, [Next]_vars
    PROVE  HydratePrunes \/ \A o \in Orders : cached[o] <= cached'[o]
<1> DEFINE Newer == \A o \in Orders : cached[o] <= cached'[o]
<1>1. cached \in [Orders -> Nat] /\ reading.version \in Nat /\ call \in [Callers -> CallType]
  BY DEF Inv, TypeOK, DiskTypeOK, ScreenTypeOK, EngineTypeOK
<1>2. CASE cached' = cached
  BY <1>1, <1>2
<1>3. ASSUME NEW o, NEW v \in Nat, CacheOrder(o, v) PROVE Newer
  BY <1>1, <1>3 DEF CacheOrder, Cached, Later
<1>4. ASSUME NEW c \in Callers, TakeCanonical(c) PROVE Newer
  <2>1. call[c].seen \in Nat
    BY <1>1 DEF CallType, NoCall
  <2>2. CacheOrder(OrderOf(call[c].req.intent), call[c].seen)
    BY <1>4 DEF TakeCanonical
  <2>3. QED
    BY <1>3, <2>1, <2>2
<1>5. CASE TakeOrder
  <2>1. cached' = cached \/ CacheOrder(current, reading.version)
    BY <1>5 DEF TakeOrder, SaveOrder
  <2>2. QED
    BY <1>1, <1>2, <1>3, <2>1
<1>6. ASSUME NEW c \in Callers, Serve(c) \/ DeleteRow(c) \/ HaltQueue(c) \/ Lose(c)
      PROVE  cached' = cached
  BY <1>6 DEF Serve, DeleteRow, HaltQueue, Lose, diskVars
<1>7. ASSUME NEW o \in Orders, OtherTerminal(o) \/ CreateOrder(o) \/ FocusOrder(o)
      PROVE  cached' = cached
  BY <1>7 DEF OtherTerminal, CreateOrder, FocusOrder, diskVars
<1>8. ASSUME NEW kind \in CommandKinds, Command(kind) PROVE cached' = cached
  BY <1>8 DEF Command
<1>9. ASSUME NEW r \in Rebases, RebaseHalted(r) \/ Rebase(r) PROVE cached' = cached
  BY <1>9 DEF RebaseHalted, Rebase, ReadHead, Reissue, RebaseSends, RebaseEnds, diskVars
<1>10. CASE Trigger \/ Pass \/ HydrateReads \/ HydrateRestores \/ Visit
  BY <1>2, <1>10 DEF Trigger, Pass, PassSends, PassEnds, HydrateReads, HydrateRestores, Visit, Leave,
                     Detach, OpenAgain, diskVars
<1>11. CASE Clear \/ DiscardHalted \/ AskOrder \/ Reload \/ UNCHANGED vars
  BY <1>2, <1>11 DEF Clear, DiscardHalted, AskOrder, Reload, vars, diskVars
<1>12. ASSUME NEW req \in loose, ServeLoose(req) PROVE cached' = cached
  BY <1>12 DEF ServeLoose, diskVars
<1>13. QED
  BY <1>2, <1>4, <1>5, <1>6, <1>7, <1>8, <1>9, <1>10, <1>11, <1>12 DEF Next, Attempt, Hydrate

(* Who is called: an answer comes, is taken, or the call goes on or ends.  *)
LEMMA CallStep ==
    ASSUME Inv, [Next]_vars
    PROVE  \/ \E c \in Callers : Serve(c)
           \/ \E c \in Callers : TakeCanonical(c)
           \/ \A c \in Callers : call'[c] = call[c] \/ call'[c].step \notin {"applied", "cached"}
<1> DEFINE Calm == \A c \in Callers : call'[c] = call[c] \/ call'[c].step \notin {"applied", "cached"}
<1>1. call \in [Callers -> CallType]
  BY DEF Inv, TypeOK, EngineTypeOK
<1>2. ASSUME NEW c \in Callers, DeleteRow(c) \/ HaltQueue(c) \/ Lose(c) PROVE Calm
  <2>1. call' = [call EXCEPT ![c] = NoCall]
    BY <1>2 DEF DeleteRow, HaltQueue, Lose, Return
  <2>2. QED
    BY <1>1, <2>1 DEF NoCall
<1>3. ASSUME NEW c \in Callers, NEW req, NEW q, Send(c, req, q) PROVE Calm
  BY <1>1, <1>3 DEF Send
<1>4. ASSUME NEW identity, Stage(identity) PROVE Calm
  <2>1. "direct" \in Callers
    BY DEF Callers
  <2>2. QED
    BY <1>3, <1>4, <2>1 DEF Stage, SendUnstored
<1>5. ASSUME NEW r \in Rebases, Rebase(r) \/ RebaseHalted(r) PROVE Calm
  <2>1. r \in Callers
    BY DEF Callers
  <2>2. QED
    BY <1>3, <1>5, <2>1 DEF RebaseHalted, Rebase, ReadHead, Reissue, RebaseSends, RebaseEnds
<1>6. CASE PassSends
  <2>1. "pass" \in Callers
    BY DEF Callers
  <2>2. QED
    BY <1>3, <1>6, <2>1 DEF PassSends
<1>7. ASSUME NEW req \in loose, ServeLoose(req) PROVE Calm
  BY <1>7 DEF ServeLoose, engineVars
<1>8. ASSUME NEW o \in Orders, OtherTerminal(o) \/ CreateOrder(o) \/ FocusOrder(o) PROVE Calm
  BY <1>4, <1>8 DEF OtherTerminal, CreateOrder, FocusOrder, engineVars
<1>9. ASSUME NEW kind \in CommandKinds, Command(kind) PROVE Calm
  BY <1>4, <1>9 DEF Command
<1>10. CASE Trigger \/ PassEnds \/ Hydrate \/ Visit
  BY <1>10 DEF Trigger, PassEnds, Hydrate, HydrateReads, HydrateRestores,
               HydratePrunes, Visit, Leave, Detach, OpenAgain, engineVars
<1>11. CASE Clear \/ DiscardHalted \/ AskOrder \/ TakeOrder \/ UNCHANGED vars
  BY <1>11 DEF Clear, DiscardHalted, AskOrder, TakeOrder, vars, engineVars
<1>12. CASE Reload
  BY <1>12 DEF Reload, NoCall
<1>13. QED
  BY <1>2, <1>5, <1>6, <1>7, <1>8, <1>9, <1>10, <1>11, <1>12 DEF Next, Attempt, Pass

(* The version in an answer is read after the effect, and cached before    *)
(* the row is dropped.                                                     *)
LEMMA SeenIsNewStep ==
    ASSUME Inv, Inv', TakenIsBehind, IdleIsIdle, SeenIsNew, Grows, [Next]_vars
    PROVE  SeenIsNew'
<1>1. /\ call \in [Callers -> CallType] /\ call' \in [Callers -> CallType] /\ "pass" \in Callers
      /\ cached \in [Orders -> Nat] /\ cached' \in [Orders -> Nat] /\ version' \in [Orders -> Nat]
      /\ Onward /\ TypeOK
  BY DEF Inv, TypeOK, EngineTypeOK, DiskTypeOK, ServerTypeOK, Callers, Grows, Steady
<1>2. ASSUME NEW c \in Callers, call[c].step \in {"applied", "cached"}
      PROVE  /\ call[c].req.intent \in Formed /\ OrderOf(call[c].req.intent) \in Orders
             /\ call[c].seen \in Nat /\ call[c].req.base \in Nat
             /\ intents'[call[c].req.intent].order = OrderOf(call[c].req.intent)
  <2>1. call[c] # NoCall /\ call[c].req \in Request
    BY <1>2, CallHasRequest DEF Inv
  <2>2. Live(call[c].req)
    BY <2>1 DEF Live, Ready, Held
  <2>3. call[c].req.intent \in Formed /\ OrderOf(call[c].req.intent) \in Orders
    BY <2>1, <2>2, LiveIsGenuine
  <2>4. QED
    BY <1>1, <2>1, <2>3, IntentKept DEF CallType, NoCall, Request, OrderOf
<1> DEFINE New(c)  == call[c].step \in {"applied", "cached"} => call[c].seen > call[c].req.base
           Told(c) == call[c].step = "cached"
                          => cached[OrderOf(call[c].req.intent)] > call[c].req.base
<1>3. ASSUME NEW c \in Callers, call'[c] = call[c] PROVE New(c)'
  BY <1>3 DEF SeenIsNew
<1>4. ASSUME NEW c \in Callers, call[c].step = "cached", call'[c] = call[c], Told(c), ~HydratePrunes
      PROVE  Told(c)'
  <2>1. cached[OrderOf(call[c].req.intent)] <= cached'[OrderOf(call[c].req.intent)]
    BY <1>2, <1>4, CachedStep
  <2>2. QED
    BY <1>1, <1>2, <1>4, <2>1 DEF OrderOf
<1>5. ASSUME HydratePrunes PROVE call'["pass"] = NoCall
  BY <1>1, <1>5 DEF HydratePrunes, IdleIsIdle, engineVars
<1>6. Told("pass")
  BY DEF SeenIsNew
<1>7. CASE \A c \in Callers : call'[c] = call[c] \/ call'[c].step \notin {"applied", "cached"}
  <2>1. Told("pass")'
    BY <1>1, <1>4, <1>5, <1>6, <1>7 DEF NoCall
  <2>2. QED
    BY <1>3, <1>7, <2>1 DEF SeenIsNew
<1>8. ASSUME NEW c \in Callers, Serve(c) PROVE SeenIsNew'
  <2> PICK req : req = call[c].req
    OBVIOUS
  <2>1. /\ call[c] # NoCall /\ req \in Request /\ Live(req)
        /\ call'[c].req = req /\ call'[c].step = Answer(req)
        /\ call'[c].seen = version'[OrderOf(req.intent)]
        /\ \A d \in Callers : d # c => call'[d] = call[d]
        /\ UNCHANGED <<cached, intents>>
    BY <1>8, ServeHolds DEF Live, Ready, Serve, diskVars
  <2>2. /\ req.intent \in Formed /\ OrderOf(req.intent) \in Orders /\ At(req) \in Nat /\ req.base \in Nat
    BY <2>1, LiveIsGenuine
  <2>3. Answer(req) \in {"applied", "conflict", "refused"}
    BY DEF Answer
  <2>4. New(c)'
    <3> SUFFICES ASSUME Answer(req) = "applied" PROVE version'[OrderOf(req.intent)] > req.base
      BY <2>1, <2>3
    <3>1. CASE Repeats(req)
      <4>1. req.base < At(req)
        BY <2>1, <3>1, RepeatsIsBehind DEF Behind
      <4>2. version' = version
        BY <1>8, <3>1 DEF Serve, Process
      <4>3. QED
        BY <2>2, <4>1, <4>2 DEF At
    <3>2. CASE ~Repeats(req)
      <4>1. At(req) = req.base
        BY <3>2, <2>2 DEF Answer, Fits, At
      <4>2. version' = [version EXCEPT ![OrderOf(req.intent)] = @ + 1]
        BY <1>8, <3>2 DEF Serve, Process
      <4>3. version \in [Orders -> Nat]
        BY DEF Inv, TypeOK, ServerTypeOK
      <4>4. QED
        BY <2>2, <4>1, <4>2, <4>3 DEF At
    <3>3. QED
      BY <3>1, <3>2
  <2>5. Told("pass")'
    <3>1. CASE c = "pass"
      BY <2>1, <2>3, <3>1
    <3>2. CASE c # "pass"
      BY <1>1, <1>6, <2>1, <3>2 DEF OrderOf
    <3>3. QED
      BY <3>1, <3>2
  <2>6. QED
    BY <1>3, <2>1, <2>4, <2>5 DEF SeenIsNew
<1>9. ASSUME NEW c \in Callers, TakeCanonical(c) PROVE SeenIsNew'
  <2>1. /\ call' = [call EXCEPT ![c].step = IF @ = "applied" THEN "cached" ELSE "halting"]
        /\ call[c].step \in {"applied", "conflict"}
        /\ CacheOrder(OrderOf(call[c].req.intent), call[c].seen)
        /\ ~HydratePrunes
    BY <1>9 DEF TakeCanonical, HydratePrunes, Hydrated
  <2>2. /\ call'[c].seen = call[c].seen /\ call'[c].req = call[c].req
        /\ \A d \in Callers : d # c => call'[d] = call[d]
        /\ call'[c].step = "cached" <=> call[c].step = "applied"
        /\ call'[c].step \in {"cached", "halting"}
    BY <1>1, <2>1 DEF CallType, NoCall
  <2>3. New(c)'
    BY <2>2 DEF SeenIsNew
  <2>4. Told(c)'
    <3> SUFFICES ASSUME call[c].step = "applied"
                 PROVE  cached'[OrderOf(call[c].req.intent)] > call[c].req.base
      BY <1>2, <2>2 DEF OrderOf
    <3>1. call[c].seen > call[c].req.base
      BY DEF SeenIsNew
    <3>2. cached'[OrderOf(call[c].req.intent)] >= call[c].seen
      BY <1>1, <1>2, <2>1 DEF CacheOrder, Cached, Later
    <3>3. QED
      BY <1>1, <1>2, <3>1, <3>2
  <2>5. Told("pass")'
    BY <1>1, <1>4, <1>6, <2>1, <2>2, <2>4
  <2>6. QED
    BY <1>3, <2>2, <2>3, <2>5 DEF SeenIsNew
<1>10. QED
  BY <1>7, <1>8, <1>9, CallStep

(* Facts about an intent that was formed before a step. *)
LEMMA FormedStands ==
    ASSUME Inv, Inv', HeadsReissued, TapTypeOK, TapsStand, NEW i \in Formed
    PROVE  /\ i \in Intents /\ i \in Formed' /\ OrderOf(i)' = OrderOf(i) /\ OrderOf(i) \in Orders
           /\ wants'[i] = wants[i] /\ wants[i] \in Want /\ wants[i].base \in Nat
           /\ minted[i] \in Nat /\ minted[i] > 0 /\ (minted'[i] = 1 => minted[i] = 1)
           /\ effects[i] \in Nat /\ effects'[i] \in Nat
           /\ version[OrderOf(i)] \in Nat /\ version'[OrderOf(i)] \in Nat
           /\ version[OrderOf(i)] <= version'[OrderOf(i)]
<1>1. /\ TypeOK /\ TypeOK' /\ Onward
  BY DEF Inv, TapsStand, Grows, Steady
<1>2. i \in Intents /\ i \in Formed' /\ OrderOf(i)' = OrderOf(i) /\ OrderOf(i) \in Orders
  BY <1>1, IntentKept, FormedIntents
<1>3. minted[i] \in Nat /\ minted'[i] \in Nat /\ effects[i] \in Nat /\ effects'[i] \in Nat
  BY <1>1, <1>2, ConstantsAssumption DEF TypeOK, HistoryTypeOK, ConstantsAssumption
<1>4. minted[i] > 0 /\ minted[i] <= minted'[i]
  BY DEF HeadsReissued, TapsStand, Grows
<1>5. wants'[i] = wants[i] /\ wants[i] \in Want /\ wants[i].base \in Nat
  BY <1>2 DEF TapsStand, TapTypeOK, Want
<1>6. /\ version[OrderOf(i)] \in Nat /\ version'[OrderOf(i)] \in Nat
      /\ version[OrderOf(i)] <= version'[OrderOf(i)]
  BY <1>1, <1>2 DEF TypeOK, ServerTypeOK, Onward
<1>7. QED
  BY <1>2, <1>3, <1>4, <1>5, <1>6

(* What a mutation that has its effect under its first id finds. *)
LEMMA TookFirst ==
    ASSUME Inv, Inv', HeadsReissued, IdsAreMinted, TapTypeOK, TapsStand, Stamped, Ledger,
           NEW req \in Request, Took(req), minted[req.intent] = 1
    PROVE  /\ req.intent \in Formed /\ effects[req.intent] = 0 /\ effects'[req.intent] = 1
           /\ wants[req.intent].base = version[OrderOf(req.intent)]
           /\ \A j \in Intents : j # req.intent => effects'[j] = effects[j]
           /\ TookAsPlanned(req.intent)'
<1> PICK i, o : i = req.intent /\ o = OrderOf(i)
  OBVIOUS
<1>1. /\ i \in Formed /\ i \in Intents /\ o \in Orders /\ req.base \in Nat
      /\ version[o] = req.base /\ wants[i] \in Want /\ After(wants[i], QuantityNow(o)) \in Nat
      /\ Counts(o, After(wants[i], QuantityNow(o)))
  BY TookCounts
<1>2. req.k = 1
  <2>1. req.k <= 1 /\ req.k \in Nat /\ req.k > 0
    BY LiveIsGenuine DEF Took, IdsAreMinted
  <2>2. QED
    BY <2>1
<1>3. wants[i].base = version[o]
  BY <1>1, <1>2 DEF Stamped, Took
<1>4. effects[i] \in Nat /\ version[o] \in Nat /\ effects \in [Intents -> Nat]
  BY <1>1 DEF Inv, TypeOK, HistoryTypeOK, ServerTypeOK
<1>5. effects[i] = 0
  <2>1. effects[i] > 0 => wants[i].base < version[o]
    BY <1>1 DEF Ledger, FirstCounts, TookAsPlanned
  <2>2. QED
    BY <1>3, <1>4, <2>1
<1>6. effects'[i] = 1 /\ \A j \in Intents : j # i => effects'[j] = effects[j]
  BY <1>1, <1>4, <1>5 DEF Took
<1> PICK n : n = version[o]
  OBVIOUS
<1>7. /\ version'[o] = n + 1 /\ QuantityNow(o)' = After(wants[i], QuantityAt(o, n))
      /\ QuantityAt(o, n)' = QuantityAt(o, n)
  <2>1. QuantityNow(o) = QuantityAt(o, n) /\ n \in 0..version[o]
    BY <1>1, <1>4, QuantityTyped
  <2>2. QED
    BY <1>1, <2>1, CountsOne
<1>8. wants'[i] = wants[i] /\ OrderOf(i)' = o
  BY <1>1, FormedStands
<1>9. QuantityAt(o, n + 1)' = After(wants[i], QuantityAt(o, n))
  BY <1>4, <1>7 DEF QuantityAt, QuantityNow
<1>10. TookAsPlanned(i)'
  <2>1. wants'[i].base = n /\ effects'[i] = 1 /\ n < version'[o]
    BY <1>3, <1>4, <1>6, <1>7, <1>8
  <2>2. quantities'[o][n + 1] = After(wants'[i], IF n = 0 THEN 0 ELSE quantities'[o][n])
    BY <1>4, <1>7, <1>8, <1>9 DEF QuantityAt
  <2>3. QED
    BY <1>4, <1>8, <2>1, <2>2 DEF TookAsPlanned, QuantityAt
<1>11. QED
  BY <1>1, <1>3, <1>5, <1>6, <1>10

(* What took effect as it was planned, did. *)
LEMMA PlannedStands ==
    ASSUME Inv, Inv', HeadsReissued, TapTypeOK, TapsStand, NEW i \in Formed,
           TookAsPlanned(i), effects'[i] = effects[i]
    PROVE  TookAsPlanned(i)'
<1> PICK o : o = OrderOf(i)
  OBVIOUS
<1>1. /\ OrderOf(i)' = o /\ o \in Orders /\ wants'[i] = wants[i] /\ wants[i].base \in Nat
      /\ version[o] \in Nat /\ version'[o] \in Nat /\ version[o] <= version'[o]
  BY FormedStands
<1>2. wants[i].base < version[o]
  BY DEF TookAsPlanned
<1> PICK n : n = wants[i].base
  OBVIOUS
<1>3. n \in 0..version[o] /\ n + 1 \in 0..version[o]
  BY <1>1, <1>2
<1>4. \A m \in 0..version[o] : QuantityAt(o, m)' = QuantityAt(o, m)
  BY <1>1 DEF TapsStand
<1>5. QuantityAt(o, n)' = QuantityAt(o, n) /\ QuantityAt(o, n + 1)' = QuantityAt(o, n + 1)
  BY <1>3, <1>4
<1>6. wants'[i].base = n /\ effects'[i] = 1 /\ n < version'[o]
  BY <1>1, <1>2 DEF TookAsPlanned
<1>7. quantities'[o][n + 1] = After(wants'[i], IF n = 0 THEN 0 ELSE quantities'[o][n])
  BY <1>1, <1>5 DEF QuantityAt, TookAsPlanned
<1>8. QED
  BY <1>1, <1>6, <1>7 DEF TookAsPlanned, QuantityAt

(* Nothing takes effect that was not formed.                               *)
LEMMA NoEffectUnformed ==
    ASSUME Inv, NEW i \in Intents, effects[i] > 0
    PROVE  i \in Formed
<1>1. i \notin Formed => effects[i] = 0
  BY DEF Inv, EffectsTrue
<1>2. QED
  BY <1>1

(* Every step keeps the ledger: an effect under a first id comes when the  *)
(* version is the one it was planned on, and that version never comes      *)
(* again.                                                                  *)
LEMMA LedgerStep ==
    ASSUME Inv, Inv', HeadsReissued, IdsAreMinted, TapTypeOK, TapsStand, Stamped, Ledger,
           [TapNext]_<<vars, tapVars>>
    PROVE  Ledger'
<1>1. \A i \in Formed : FirstCounts(i)' => minted[i] = 1
  BY FormedStands DEF FirstCounts
<1>2. CASE UNCHANGED effects
  <2>1. ASSUME NEW i \in Formed', FirstCounts(i)'
        PROVE  i \in Formed /\ FirstCounts(i) /\ TookAsPlanned(i)'
    <3>1. i \in Intents /\ effects[i] > 0
      BY <1>2, <2>1 DEF FirstCounts, Inv, TypeOK, HistoryTypeOK
    <3>2. i \in Formed
      BY <3>1, NoEffectUnformed
    <3>3. FirstCounts(i)
      BY <1>1, <2>1, <3>1, <3>2 DEF FirstCounts
    <3>4. QED
      BY <1>2, <3>2, <3>3, PlannedStands DEF Ledger
  <2>2. ASSUME NEW i \in Formed', NEW j \in Formed', i # j, OrderOf(i)' = OrderOf(j)',
               FirstCounts(i)', FirstCounts(j)'
        PROVE  wants'[i].base # wants'[j].base
    BY <2>1, <2>2, FormedStands DEF Ledger
  <2>3. QED
    BY <2>1, <2>2 DEF Ledger
<1>3. ASSUME NEW req \in Request, Took(req) PROVE Ledger'
  <2> PICK k : k = req.intent
    OBVIOUS
  <2>0. k \in Formed /\ k \in Intents /\ OrderOf(k) \in Orders /\ Formed' = Formed
    BY <1>3, TookCounts DEF Took, Formed
  <2>1. \A j \in Intents : j # k => effects'[j] = effects[j]
    BY <1>3, <2>0 DEF Took, Inv, TypeOK, HistoryTypeOK
  <2>2. ASSUME NEW i \in Formed, i # k, FirstCounts(i)'
        PROVE  FirstCounts(i) /\ TookAsPlanned(i) /\ TookAsPlanned(i)'
    <3>1. effects'[i] = effects[i]
      BY <2>1, <2>2, FormedStands
    <3>2. FirstCounts(i)
      BY <1>1, <2>2, <3>1 DEF FirstCounts
    <3>3. QED
      BY <3>1, <3>2, PlannedStands DEF Ledger
  <2>3. ASSUME FirstCounts(k)'
        PROVE  TookAsPlanned(k)' /\ wants[k].base = version[OrderOf(k)]
    BY <1>1, <1>3, <2>0, <2>3, TookFirst
  <2>4. ASSUME NEW i \in Formed', FirstCounts(i)' PROVE TookAsPlanned(i)'
    BY <2>0, <2>2, <2>3, <2>4
  <2>5. ASSUME NEW i \in Formed, i # k, OrderOf(i) = OrderOf(k), FirstCounts(i)', FirstCounts(k)'
        PROVE  wants[i].base # wants[k].base
    <3>1. wants[i].base < version[OrderOf(k)]
      BY <2>2, <2>5 DEF TookAsPlanned
    <3>2. wants[i].base \in Nat /\ version[OrderOf(k)] \in Nat
      BY <2>0, FormedStands
    <3>3. QED
      BY <2>3, <2>5, <3>1, <3>2
  <2>6. ASSUME NEW i \in Formed, NEW j \in Formed, i # j, OrderOf(i) = OrderOf(j),
               FirstCounts(i)', FirstCounts(j)'
        PROVE  wants[i].base # wants[j].base
    <3>1. CASE i = k
      BY <2>5, <2>6, <3>1
    <3>2. CASE j = k
      BY <2>5, <2>6, <3>2
    <3>3. CASE i # k /\ j # k
      BY <2>2, <2>6, <3>3 DEF Ledger
    <3>4. QED
      BY <3>1, <3>2, <3>3
  <2>7. QED
    BY <2>0, <2>4, <2>6, FormedStands DEF Ledger
<1>4. QED
  BY <1>2, <1>3, TapSteps DEF Added

(* A mutation of an order stays one of it.                                 *)
LEMMA OwnStays ==
    ASSUME Inv, Inv', HeadsReissued, TapTypeOK, TapsStand, NEW o, NEW i \in OwnOf(o)
    PROVE  i \in Formed /\ OrderOf(i) = o /\ i \in OwnOf(o)'
  BY FormedStands DEF OwnOf

(* An order that is in form has been so. *)
LEMMA InFormBefore ==
    ASSUME Inv, Inv', HeadsReissued, IdsAreMinted, TapTypeOK, TapsStand, Stamped, Ledger,
           [TapNext]_<<vars, tapVars>>, NEW o \in Orders, InForm(o)'
    PROVE  InForm(o)
<1>1. o \notin strayed
  BY DEF InForm, TapsStand, Grows
<1>2. ASSUME NEW i \in OwnOf(o) PROVE minted[i] = 1
  BY OwnStays, FormedStands DEF InForm
<1>3. ASSUME NEW i \in OwnOf(o), NEW j \in OwnOf(o) \ {i} PROVE wants[j].base # wants[i].base
  <2>1. /\ i \in OwnOf(o)' /\ j \in OwnOf(o)' /\ i # j
        /\ wants'[i] = wants[i] /\ wants'[j] = wants[j]
    BY OwnStays, FormedStands
  <2>2. QED
    BY <2>1 DEF InForm
<1>4. ASSUME NEW i \in OwnOf(o), wants[i].base < version[o] PROVE effects[i] > 0
  <2>1. i \in Formed /\ OrderOf(i) = o /\ i \in OwnOf(o)'
    BY OwnStays
  <2>2. effects[i] \in Nat /\ wants[i].base < version'[o]
    BY <1>4, <2>1, FormedStands
  <2>3. effects'[i] > 0
    BY <2>1, <2>2, FormedStands DEF InForm
  <2>4. CASE UNCHANGED effects
    BY <2>3, <2>4
  <2>5. ASSUME NEW req \in Request, Took(req) PROVE effects[i] > 0
    <3>1. CASE req.intent = i
      <4>1. wants[i].base = version[o]
        BY <1>2, <2>1, <2>5, <3>1, TookFirst
      <4>2. QED
        BY <1>4, <2>1, <4>1, FormedStands
    <3>2. CASE req.intent # i
      <4>1. effects' = [effects EXCEPT ![req.intent] = @ + 1]
        BY <2>5 DEF Took
      <4>2. i \in Intents /\ effects \in [Intents -> Nat]
        BY <2>1, FormedStands DEF Inv, TypeOK, HistoryTypeOK
      <4>3. QED
        BY <2>3, <3>2, <4>1, <4>2
    <3>3. QED
      BY <3>1, <3>2
  <2>6. QED
    BY <2>4, <2>5, TapSteps DEF Added
<1>5. QED
  BY <1>1, <1>2, <1>3, <1>4 DEF InForm

(* The ways a row goes. *)
LEMMA RowLeaves ==
    ASSUME Inv, [Next]_vars, NEW j \in Intents, rows[j] # NoRow, rows'[j] = NoRow
    PROVE  \/ \E c \in Callers : DeleteRow(c) /\ call[c].req.intent = j
           \/ /\ DiscardHalted /\ rows[j].order = current
              /\ rows' = WithDiscard(current) /\ mirror' = rows'
<1>1. /\ TypeOK /\ rows \in [Intents -> RowType] /\ Formed \subseteq Intents /\ j \in Formed
  BY FormedIntents DEF Inv, TypeOK, DiskTypeOK, RowsTrue, RowTrue
<1>2. rows' # rows
  OBVIOUS
<1>3. ASSUME NEW req, NEW status \in {"PENDING", "SYNCING"} PROVE rows' # WithStatus(req, status)
  BY <1>1, RowsStay
<1>4. ASSUME NEW c \in Callers, DeleteRow(c) PROVE call[c].req.intent = j
  <2>1. rows' = Without(call[c].req)
    BY <1>2, <1>4 DEF DeleteRow, WriteFails
  <2>2. QED
    BY <1>1, <2>1 DEF Without
<1>5. ASSUME NEW c \in Callers, Serve(c) \/ TakeCanonical(c) \/ HaltQueue(c) \/ Lose(c) PROVE FALSE
  <2>1. ~(Serve(c) \/ TakeCanonical(c))
    BY <1>2 DEF Serve, TakeCanonical, diskVars
  <2>2. ~HaltQueue(c)
    BY <1>1, <1>2, RowsStay DEF HaltQueue, WriteFails
  <2>3. ~Lose(c)
    BY <1>3 DEF Lose
  <2>4. QED
    BY <1>5, <2>1, <2>2, <2>3
<1>6. ASSUME NEW o \in Orders, CreateOrder(o) PROVE FALSE
  BY <1>1, <1>6, CreateStages, StageAppends
<1>7. ASSUME NEW kind \in CommandKinds, Command(kind) PROVE FALSE
  BY <1>1, <1>7, CommandStages, StageAppends
<1>8. ASSUME NEW r \in Rebases, RebaseSends(r) PROVE FALSE
  BY <1>3, <1>8 DEF RebaseSends, Send
<1>9. CASE PassSends
  BY <1>3, <1>9 DEF PassSends, Send
<1>10. ASSUME NEW r \in Rebases, Reissue(r) PROVE FALSE
  <2>1. PICK new \in Request : Reissues(r, new)
    BY <1>2, <1>10, ReissueMints
  <2>2. new.k \in 1..MaxIds /\ new.intent \in Intents
    BY DEF Request
  <2>3. /\ rows'[new.intent].k = new.k
        /\ \A i \in Intents : i # new.intent => rows'[i] = rows[i]
    BY <1>1, <2>1, <2>2 DEF Reissues
  <2>4. QED
    BY <2>2, <2>3, ConstantsAssumption DEF NoRow, ConstantsAssumption
<1>11. ASSUME NEW r \in Rebases, RebaseHalted(r) \/ ReadHead(r) \/ RebaseEnds(r) PROVE FALSE
  BY <1>2, <1>11 DEF RebaseHalted, ReadHead, RebaseEnds, diskVars
<1>12. ASSUME NEW req \in loose, ServeLoose(req) PROVE FALSE
  BY <1>2, <1>12 DEF ServeLoose, diskVars
<1>13. ASSUME NEW o \in Orders, OtherTerminal(o) \/ FocusOrder(o) PROVE FALSE
  BY <1>2, <1>13 DEF OtherTerminal, FocusOrder, diskVars
<1>14. CASE HydrateReads
  BY <1>1, <1>14, RowsStay DEF HydrateReads
<1>15. CASE Trigger \/ PassEnds \/ HydrateRestores \/ HydratePrunes \/ Visit
  BY <1>2, <1>15 DEF Trigger, PassEnds, HydrateRestores, HydratePrunes, Visit, Leave, Detach,
                     OpenAgain, diskVars
<1>16. CASE Clear \/ AskOrder \/ TakeOrder \/ Reload \/ UNCHANGED vars
  BY <1>2, <1>16 DEF Clear, AskOrder, TakeOrder, Reload, vars, diskVars
<1>17. CASE DiscardHalted
  <2>1. rows' = WithDiscard(current) /\ mirror' = rows'
    BY <1>2, <1>17 DEF DiscardHalted, WriteFails
  <2>2. QED
    BY <1>1, <1>17, <2>1 DEF WithDiscard, Queued
<1>18. QED
  BY <1>4, <1>5, <1>6, <1>7, <1>8, <1>9, <1>10, <1>11, <1>12, <1>13, <1>14, <1>15, <1>16, <1>17
     DEF Next, Attempt, Rebase, Pass, Hydrate

(* A pass that stops has the queue mirrored. *)
LEMMA PassRunsOn ==
    ASSUME Inv, [Next]_vars, pass.running
    PROVE  pass'.running \/ mirror' = rows' \/ \A i \in Intents : mirror'[i] = NoRow
<1>1. pass \in PassType
  BY DEF Inv, TypeOK, EngineTypeOK
<1>2. ASSUME NEW c \in Callers, NEW result, Return(c, result) PROVE pass'.running
  BY <1>1, <1>2 DEF Return, PassType
<1>3. ASSUME NEW q, Run(q) PROVE pass'.running
  BY <1>1, <1>3 DEF Run, PassType
<1>4. ASSUME NEW identity, Stage(identity) PROVE pass'.running
  BY <1>3, <1>4 DEF Stage
<1>5. ASSUME NEW c \in Callers, Attempt(c) \/ Lose(c) PROVE pass'.running
  <2>1. CASE Serve(c) \/ TakeCanonical(c)
    BY <2>1 DEF Serve, TakeCanonical
  <2>2. CASE DeleteRow(c) \/ HaltQueue(c) \/ Lose(c)
    BY <1>2, <2>2 DEF DeleteRow, HaltQueue, Lose
  <2>3. QED
    BY <1>5, <2>1, <2>2 DEF Attempt
<1>6. CASE PassEnds
  BY <1>6 DEF PassEnds, Mirrored, diskVars
<1>7. CASE Reload
  BY <1>7 DEF Reload
<1>8. CASE Trigger \/ HydrateRestores
  BY <1>3, <1>8 DEF Trigger, HydrateRestores
<1>9. ASSUME NEW o \in Orders, OtherTerminal(o) \/ CreateOrder(o) \/ FocusOrder(o) PROVE pass'.running
  BY <1>4, <1>9 DEF OtherTerminal, CreateOrder, FocusOrder, engineVars
<1>10. ASSUME NEW kind \in CommandKinds, Command(kind) PROVE pass'.running
  BY <1>4, <1>10 DEF Command
<1>11. ASSUME NEW r \in Rebases, RebaseHalted(r) \/ Rebase(r) PROVE pass'.running
  BY <1>11 DEF RebaseHalted, Rebase, ReadHead, Reissue, RebaseSends, RebaseEnds
<1>12. ASSUME NEW req \in loose, ServeLoose(req) PROVE pass'.running
  BY <1>12 DEF ServeLoose, engineVars
<1>13. CASE PassSends \/ HydrateReads \/ HydratePrunes \/ Visit \/ Clear \/ DiscardHalted \/ AskOrder
            \/ TakeOrder \/ UNCHANGED vars
  BY <1>13 DEF PassSends, HydrateReads, HydratePrunes, Visit, Leave, Detach, OpenAgain, Clear,
               DiscardHalted, AskOrder, TakeOrder, vars, engineVars
<1>14. QED
  BY <1>5, <1>6, <1>7, <1>8, <1>9, <1>10, <1>11, <1>12, <1>13 DEF Next, Pass, Hydrate

(* A row in the queue of an order in form, and what the screen has of it.  *)
LEMMA QueuedInForm ==
    ASSUME Inv, IdsAreMinted, Stamped, MirrorMinted, TapTypeOK, NEW o \in Orders, InForm(o)
    PROVE  /\ \A i \in Queued(rows, o) :
                  /\ i \in OwnOf(o) /\ minted[i] = 1 /\ rows[i].base = wants[i].base
                  /\ wants[i].base \in Nat
           /\ \A i \in Queued(mirror, o) :
                  /\ i \in OwnOf(o) /\ minted[i] = 1 /\ mirror[i].base = wants[i].base
                  /\ wants[i].base \in Nat
           /\ Fresh(o)
<1>1. ASSUME NEW i \in Queued(rows, o)
      PROVE  /\ i \in OwnOf(o) /\ minted[i] = 1 /\ rows[i].base = wants[i].base
             /\ wants[i].base \in Nat
  <2>1. i \in Intents /\ rows[i] # NoRow /\ rows[i].order = o
    BY DEF Queued
  <2>2. i \in OwnOf(o) /\ minted[i] = 1
    BY <2>1, RowIsLive DEF OwnOf, InForm
  <2>3. rows[i].k = 1
    BY <2>1, <2>2 DEF IdsAreMinted
  <2>4. rows[i].base = wants[i].base /\ rows[i].base \in Nat
    BY <2>1, <2>3, RowIsLive DEF Stamped
  <2>5. QED
    BY <2>2, <2>4
<1>2. ASSUME NEW i \in Queued(mirror, o)
      PROVE  /\ i \in OwnOf(o) /\ minted[i] = 1 /\ mirror[i].base = wants[i].base
             /\ wants[i].base \in Nat
  <2>1. i \in Intents /\ mirror[i] # NoRow /\ mirror[i].order = o
    BY DEF Queued
  <2>2. i \in OwnOf(o) /\ minted[i] = 1
    BY <2>1 DEF OwnOf, InForm, Inv, MirrorTrue
  <2>3. mirror[i].k \in 1..MaxIds /\ mirror[i].k <= 1 /\ mirror[i].base \in Nat
    BY <2>1, <2>2, RowIsThere DEF MirrorMinted, Inv, TypeOK, ScreenTypeOK
  <2>4. mirror[i].k = 1
    BY <2>3, ConstantsAssumption DEF ConstantsAssumption
  <2>5. QED
    BY <2>1, <2>2, <2>3, <2>4 DEF Stamped
<1>3. Fresh(o)
  BY DEF InForm, Fresh, OwnOf
<1>4. QED
  BY <1>1, <1>2, <1>3

(* What holds at every step and does not ask if an order is in form.       *)
Ground ==
    /\ Inv /\ OnceInv /\ ShowInv
    /\ TapTypeOK /\ MirrorMinted /\ Stamped /\ SeenIsNew /\ Ledger

(* Every step keeps the ground.                                            *)
LEMMA GroundStep ==
    ASSUME Ground, [TapNext]_<<vars, tapVars>>
    PROVE  Ground' /\ TapsStand /\ Grows /\ [Next]_vars
<1>1. /\ Inv /\ OnceInv /\ ShowInv /\ TapTypeOK /\ MirrorMinted /\ Stamped /\ SeenIsNew /\ Ledger
      /\ Identities /\ HeadsReissued /\ IdleIsIdle /\ TakenIsBehind /\ IdsAreMinted
  BY DEF Ground, OnceInv, ShowInv, Identities
<1>2. [Next]_vars
  BY TapStepIsStep
<1>3. Inv'
  BY <1>1, <1>2, InvStep
<1>4. OnceInv'
  BY <1>1, <1>2, <1>3, IdentitiesStep, BasesStep DEF OnceInv, Bases
<1>5. ShowInv'
  BY <1>1, <1>2, <1>3, ShowsStep
<1>6. Grows /\ TapsStand
  BY <1>1, <1>2, GrowsStep, TapsStandStep
<1>7. TapTypeOK'
  BY <1>1, <1>3, TapTypesStep
<1>8. MirrorMinted'
  BY <1>1, <1>2, <1>3, <1>4, <1>6, MirrorMintedStep
<1>9. Stamped'
  BY <1>1, <1>2, <1>3, <1>6, FirstIdsStampedStep, StampedStep
<1>10. SeenIsNew'
  BY <1>1, <1>2, <1>3, <1>6, SeenIsNewStep
<1>11. Ledger'
  BY <1>1, <1>3, <1>6, LedgerStep
<1>12. QED
  BY <1>2, <1>3, <1>4, <1>5, <1>6, <1>7, <1>8, <1>9, <1>10, <1>11 DEF Ground

(* The parts of the ground.                                                *)
LEMMA Grounded ==
    ASSUME Ground
    PROVE  /\ Inv /\ OnceInv /\ ShowInv /\ TapTypeOK /\ MirrorMinted /\ Stamped /\ SeenIsNew /\ Ledger
           /\ Identities /\ HeadsReissued /\ IdleIsIdle /\ TakenIsBehind /\ IdsAreMinted /\ Shows
           /\ TypeOK
  BY DEF Ground, OnceInv, ShowInv, Identities, Inv

(* A row of an order in form that was not queued before is of a mutation   *)
(* just formed.                                                            *)
LEMMA QueueNarrows ==
    ASSUME Ground, Ground', TapsStand, [Next]_vars, NEW o \in Orders, InForm(o), InForm(o)',
           NEW i \in Queued(rows, o)', i \in Formed
    PROVE  i \in Queued(rows, o)
<1>1. i \in Intents /\ rows'[i] # NoRow /\ rows'[i].order = o
  BY DEF Queued
<1>2. /\ Inv /\ Inv' /\ IdsAreMinted' /\ HeadsReissued /\ TapTypeOK /\ RowsStand
  BY Grounded, RowsStandStep DEF Ground, OnceInv, Identities
<1>3. OrderOf(i)' = o /\ OrderOf(i) = o /\ minted[i] \in Nat /\ minted[i] > 0
  <2>1. rows'[i].order = OrderOf(i)'
    BY <1>1, <1>2 DEF Inv, RowsTrue, RowTrue
  <2>2. QED
    BY <1>1, <1>2, <2>1, FormedStands
<1>4. minted'[i] = 1
  BY <1>1, <1>2, <1>3, FormedStands DEF InForm, OwnOf
<1>5. rows'[i].k = 1
  BY <1>1, <1>2, <1>4 DEF IdsAreMinted
<1>6. rows[i].k = 1
  BY <1>1, <1>2, <1>3, <1>5 DEF RowsStand
<1>7. rows[i] # NoRow
  BY <1>6 DEF NoRow
<1>8. rows[i].order = o
  BY <1>1, <1>2, <1>3, <1>7 DEF Inv, RowsTrue, RowTrue
<1>9. QED
  BY <1>1, <1>7, <1>8 DEF Queued

(* A row of an order in form leaves the queue with the whole of it, or at  *)
(* the end of an attempt of the pass, when the effect is cached.           *)
LEMMA QueueSettles ==
    ASSUME Ground, Ground', TapsStand, [Next]_vars, NEW o \in Orders, InForm(o),
           NEW j \in Queued(rows, o), j \notin Queued(rows, o)'
    PROVE  \/ mirror' = rows' /\ Queued(rows, o)' = {}
           \/ /\ pass.running /\ pass'.running /\ ~HydratePrunes
              /\ cached[o] > wants[j].base
<1>1. /\ Inv /\ Inv' /\ IdsAreMinted /\ HeadsReissued /\ TapTypeOK /\ Stamped /\ SeenIsNew
      /\ IdleIsIdle /\ MirrorMinted /\ TypeOK
  BY Grounded DEF Ground
<1>2. /\ j \in Intents /\ rows[j] # NoRow /\ rows[j].order = o /\ j \in OwnOf(o) /\ minted[j] = 1
  BY <1>1, QueuedInForm DEF Queued
<1>3. j \in Formed /\ OrderOf(j) = o /\ Stored(j)
  BY <1>1, <1>2, RowIsLive
<1>4. rows'[j] = NoRow
  <2>1. rows'[j] # NoRow => rows'[j].order = OrderOf(j)'
    BY <1>1, <1>2 DEF Inv, RowsTrue, RowTrue
  <2>2. OrderOf(j)' = o
    BY <1>1, <1>3, FormedStands
  <2>3. QED
    BY <1>2, <2>1, <2>2 DEF Queued
<1>5. CASE rows' = WithDiscard(current) /\ mirror' = rows' /\ rows[j].order = current
  <2>1. rows' = [i \in Intents |-> IF i \in Queued(rows, o) THEN NoRow ELSE rows[i]]
    BY <1>2, <1>5 DEF WithDiscard
  <2>2. Queued(rows, o)' = {}
    BY <2>1 DEF Queued
  <2>3. QED
    BY <1>5, <2>2
<1>6. ASSUME NEW c \in Callers, DeleteRow(c), call[c].req.intent = j
      PROVE  /\ pass.running /\ pass'.running /\ ~HydratePrunes
             /\ cached[o] > wants[j].base
  <2> PICK req : req = call[c].req
    OBVIOUS
  <2>1. call[c].step = "cached" /\ Return(c, "applied") /\ call[c] # NoCall
    BY <1>6 DEF DeleteRow, NoCall
  <2>2. CallTrue(c) /\ req \in Request /\ req.intent = j
    BY <1>1, <1>6, <2>1, CallHasRequest DEF Inv
  <2>3. c # "direct"
    BY <1>3, <1>6, <2>2 DEF CallTrue
  <2>4. c \notin Rebases
    <3> SUFFICES ASSUME c \in Rebases PROVE FALSE
      OBVIOUS
    <3>1. rebase[c].phase = "sending" /\ rebase[c].head.intent = j
      BY <1>6, <2>2 DEF CallTrue
    <3>2. minted[j] > 1
      BY <1>1, <3>1 DEF HeadsReissued
    <3>3. QED
      BY <1>2, <3>2
  <2>5. c = "pass"
    BY <2>3, <2>4 DEF Callers
  <2>6. pass.running
    BY <1>1, <2>1, <2>5 DEF IdleIsIdle, Inv, TypeOK, EngineTypeOK, PassType
  <2>7. pass'.running
    BY <1>1, <2>1, <2>6 DEF Return, TypeOK, EngineTypeOK, PassType
  <2>8. Live(req)
    BY <2>1, <2>2 DEF Live, Ready, Held
  <2>9. req.k = 1
    <3>1. req.k <= minted[j] /\ req.k \in Nat /\ req.k > 0
      BY <1>1, <2>2, <2>8, LiveIsGenuine DEF IdsAreMinted
    <3>2. QED
      BY <1>2, <3>1
  <2>10. req.base = wants[j].base
    BY <1>1, <2>2, <2>8, <2>9 DEF Stamped
  <2>11. cached[o] > req.base
    BY <1>1, <1>3, <2>1, <2>2, <2>5 DEF SeenIsNew
  <2>12. QED
    BY <2>6, <2>7, <2>10, <2>11 DEF HydratePrunes
<1>7. QED
  BY <1>1, <1>2, <1>4, <1>5, <1>6, RowLeaves

(* The screen takes nothing the disk does not have, and what it points at  *)
(* is not pruned.                                                          *)
LEMMA ScreenCachedStep ==
    ASSUME Ground, Ground', [Next]_vars, NEW o \in Orders, InForm(o), ScreenCached(o)
    PROVE  ScreenCached(o)'
<1> DEFINE Screen == current' = o => shown' <= cached'[o]
           Restores == hydration'.phase = "restoring" /\ hydration'.order = o
                           => hydration'.version <= cached'[o]
<1>1. Inv /\ Inv' /\ TypeOK /\ TypeOK' /\ Fresh(o) /\ OrderShows(o)
  <2>1. Inv /\ Inv' /\ TypeOK /\ TypeOK' /\ Shows
    BY Grounded DEF Ground, Inv
  <2>2. Fresh(o)
    BY Grounded, QueuedInForm
  <2>3. QED
    BY <2>1, <2>2 DEF Shows
<1>2. /\ cached \in [Orders -> Nat] /\ cached' \in [Orders -> Nat]
      /\ shown \in Nat /\ shown' \in Nat /\ hydration.version \in Nat /\ hydration'.version \in Nat
      /\ reading.version \in Nat /\ call \in [Callers -> CallType]
  BY <1>1 DEF TypeOK, DiskTypeOK, ScreenTypeOK, EngineTypeOK
<1>3. o # NULL
  BY ConstantsAssumption DEF ConstantsAssumption
<1>4. ASSUME NEW c \in Callers, Serve(c) \/ DeleteRow(c) \/ HaltQueue(c) \/ Lose(c)
      PROVE  UNCHANGED <<cached, current, shown, hydration>>
  BY <1>4 DEF Serve, DeleteRow, HaltQueue, Lose, diskVars, screenVars
<1>5. ASSUME UNCHANGED <<cached, current, shown, hydration>> PROVE ScreenCached(o)'
  BY <1>5 DEF ScreenCached
<1>6. ASSUME NEW c \in Callers, TakeCanonical(c) PROVE ScreenCached(o)'
  <2> PICK p, v : p = OrderOf(call[c].req.intent) /\ v = call[c].seen
    OBVIOUS
  <2>1. /\ cached' = [cached EXCEPT ![p] = Later(@, v)]
        /\ shown' = shown \/ (current = p /\ shown' = Later(shown, v))
        /\ UNCHANGED <<current, hydration>>
    BY <1>6 DEF TakeCanonical, CacheOrder, Cached, Adopted
  <2>2. v \in Nat
    BY <1>2 DEF CallType, NoCall
  <2>3. cached'[o] = IF p = o THEN Later(cached[o], v) ELSE cached[o]
    BY <1>2, <2>1
  <2>4. Screen
    BY <1>2, <2>1, <2>2, <2>3 DEF Later, ScreenCached
  <2>5. Restores
    BY <1>2, <2>1, <2>2, <2>3 DEF Later, ScreenCached
  <2>6. QED
    BY <2>4, <2>5 DEF ScreenCached
<1>7. CASE TakeOrder
  <2> PICK v : v = reading.version
    OBVIOUS
  <2>1. CASE UNCHANGED <<shown, cached>>
    BY <1>5, <1>7, <2>1 DEF TakeOrder
  <2>2. CASE /\ shown' = Later(shown, v)
             /\ cached' = [cached EXCEPT ![current] = Later(@, v)]
             /\ UNCHANGED <<current, hydration>>
    <3>1. cached'[o] = IF current = o THEN Later(cached[o], v) ELSE cached[o]
      BY <1>2, <2>2
    <3>2. Screen
      BY <1>2, <2>2, <3>1 DEF Later, ScreenCached
    <3>3. Restores
      BY <1>2, <2>2, <3>1 DEF Later, ScreenCached
    <3>4. QED
      BY <3>2, <3>3 DEF ScreenCached
  <2>3. QED
    BY <1>7, <2>1, <2>2 DEF TakeOrder, Adopted, SaveOrder, CacheOrder, Cached
<1>8. ASSUME NEW p \in Orders, FocusOrder(p) PROVE ScreenCached(o)'
  <2>1. current' = p /\ shown' = cached[p] /\ UNCHANGED <<cached, hydration>>
    BY <1>8 DEF FocusOrder, ReadOrder
  <2>2. QED
    BY <1>2, <2>1 DEF ScreenCached
<1>9. ASSUME NEW p \in Orders, CreateOrder(p) PROVE ScreenCached(o)'
  BY <1>2, <1>9 DEF CreateOrder, ScreenCached
<1>10. CASE Clear \/ Reload \/ Visit
  <2>1. /\ UNCHANGED cached
        /\ UNCHANGED <<current, shown>> \/ current' = NULL
        /\ hydration' = hydration \/ hydration'.phase # "restoring"
    BY <1>10 DEF Clear, Reload, Visit, Leave, Detach, OpenAgain, Emptied, Hydrated, diskVars
  <2>2. QED
    BY <1>2, <1>3, <2>1 DEF ScreenCached
<1>11. CASE HydrateReads
  <2>1. /\ UNCHANGED <<cached, current, shown>>
        /\ hydration' = [phase |-> "restoring", order |-> pointer,
                         version |-> IF pointer = NULL THEN 0 ELSE cached[pointer]]
    BY <1>11 DEF HydrateReads, ReadOrder
  <2>2. QED
    BY <1>2, <1>3, <2>1 DEF ScreenCached
<1>12. CASE HydrateRestores
  <2>1. UNCHANGED cached /\ hydration'.phase = "pruning"
    BY <1>12 DEF HydrateRestores, diskVars, Hydrated
  <2>2. current = NULL => shown = 0
    BY <1>1 DEF Inv, NothingIsAhead, KnownAt
  <2>3. CASE hydration.version > 0 /\ shown = 0
    <3>1. current' = hydration.order /\ shown' = hydration.version /\ hydration.phase = "restoring"
      BY <1>12, <2>3 DEF HydrateRestores
    <3>2. QED
      BY <2>1, <3>1 DEF ScreenCached
  <2>4. CASE ~(hydration.version > 0 /\ shown = 0)
    <3>1. current' = (IF current = NULL THEN hydration.order ELSE current) /\ shown' = shown
      BY <1>12, <2>4 DEF HydrateRestores
    <3>2. QED
      BY <1>2, <2>1, <2>2, <3>1 DEF ScreenCached
  <2>5. QED
    BY <2>3, <2>4
<1>13. CASE HydratePrunes
  <2>1. /\ cached' = [p \in Orders |-> IF Referenced(p) THEN cached[p] ELSE 0]
        /\ hydration'.phase = "done" /\ UNCHANGED <<current, shown>>
    BY <1>13 DEF HydratePrunes, Hydrated
  <2>2. current = o => Referenced(o)
    BY <1>1 DEF OrderShows, ScreenShows, Referenced
  <2>3. QED
    BY <2>1, <2>2 DEF ScreenCached
<1>14. ASSUME NEW r \in Rebases, RebaseHalted(r) \/ Rebase(r)
       PROVE  UNCHANGED <<cached, current, shown, hydration>>
  BY <1>14 DEF RebaseHalted, Rebase, ReadHead, Reissue, RebaseSends, RebaseEnds, diskVars, screenVars
<1>15. ASSUME NEW kind \in CommandKinds, Command(kind)
       PROVE  UNCHANGED <<cached, current, shown, hydration>>
  BY <1>15 DEF Command
<1>16. CASE Trigger \/ Pass \/ DiscardHalted \/ AskOrder \/ UNCHANGED vars
  BY <1>5, <1>16 DEF Trigger, Pass, PassSends, PassEnds, DiscardHalted, AskOrder, vars, diskVars, screenVars
<1>17. ASSUME NEW req \in loose, ServeLoose(req) PROVE UNCHANGED <<cached, current, shown, hydration>>
  BY <1>17 DEF ServeLoose, diskVars, screenVars
<1>18. ASSUME NEW p \in Orders, OtherTerminal(p) PROVE UNCHANGED <<cached, current, shown, hydration>>
  BY <1>18 DEF OtherTerminal, diskVars, screenVars
<1>19. QED
  BY <1>4, <1>5, <1>6, <1>7, <1>8, <1>9, <1>10, <1>11, <1>12, <1>13, <1>14, <1>15, <1>16, <1>17,
     <1>18 DEF Next, Attempt, Hydrate

(* A row of an order in form is still queued, or what it asked for is      *)
(* cached and a pass has yet to tell, or the screen mirrors the queue.     *)
LEMMA StillChained ==
    ASSUME Ground, Ground', TapsStand, [Next]_vars, NEW o \in Orders, InForm(o), InForm(o)',
           Chained(o), ~HydratePrunes, NEW l \in Queued(rows, o), NEW i \in Queued(rows, o)',
           wants[l].base + 1 = wants[i].base, wants[i].base > cached'[o]
    PROVE  l \in Queued(rows, o)'
<1>1. cached[o] <= cached'[o] /\ cached[o] \in Nat /\ cached'[o] \in Nat
  BY CachedStep DEF Ground, Inv, TypeOK, DiskTypeOK
<1>2. wants[l].base \in Nat /\ wants[i].base \in Nat
  <2>1. l \in Intents /\ i \in Intents
    BY DEF Queued
  <2>2. QED
    BY <2>1 DEF Ground, TapTypeOK, Want
<1>3. l \notin Queued(rows, o)' => cached[o] > wants[l].base
  BY QueueSettles
<1>4. QED
  BY <1>1, <1>2, <1>3

(* The chain of an order in form goes on while nothing is formed on it.    *)
LEMMA ChainedStep ==
    ASSUME Ground, Ground', TapsStand, [Next]_vars, NEW o \in Orders, InForm(o), InForm(o)',
           Chained(o), OwnOf(o)' \subseteq Formed
    PROVE  Chained(o)'
<1>1. /\ Inv /\ Inv' /\ IdleIsIdle /\ TapTypeOK /\ HeadsReissued /\ Fresh(o)
      /\ cached[o] \in Nat /\ cached'[o] \in Nat
  BY Grounded, QueuedInForm DEF Ground, Inv, TypeOK, DiskTypeOK
<1>2. ASSUME NEW i \in Queued(rows, o)'
      PROVE  i \in Queued(rows, o) /\ i \in OwnOf(o) /\ wants'[i] = wants[i] /\ wants[i].base \in Nat
  <2>1. i \in Formed
    <3>1. i \in Intents /\ rows'[i] # NoRow /\ rows'[i].order = o
      BY <1>2 DEF Queued
    <3>2. i \in OwnOf(o)'
      BY <1>1, <3>1 DEF OwnOf, Inv, RowsTrue, RowTrue
    <3>3. QED
      BY <3>2
  <2>2. i \in Queued(rows, o)
    BY <2>1, QueueNarrows
  <2>3. i \in OwnOf(o)
    BY <2>2, QueuedInForm, Grounded
  <2>4. QED
    BY <1>1, <2>1, <2>2, <2>3, FormedStands
<1>3. ASSUME NEW i \in Queued(mirror, o)
      PROVE  wants'[i] = wants[i] /\ wants[i].base \in Nat
  <2>1. i \in Formed /\ wants[i].base \in Nat
    BY <1>3, Grounded, QueuedInForm DEF OwnOf
  <2>2. QED
    BY <2>1 DEF TapsStand
<1>4. mirror' = mirror \/ mirror' = rows' \/ Queued(mirror, o)' = {}
  BY <1>1, MirrorStep DEF Queued
<1>5. HydratePrunes => /\ ~pass.running /\ rows' = rows /\ mirror' = mirror
                       /\ Queued(rows, o) # {} => cached'[o] = cached[o]
  BY DEF HydratePrunes, Referenced
<1>6. ~HydratePrunes => cached[o] <= cached'[o]
  BY <1>1, CachedStep
<1>7. RowsChained(o)'
  <2> SUFFICES ASSUME NEW i \in Queued(rows, o)', wants'[i].base > cached'[o]
               PROVE  \E l \in Queued(rows, o)' : wants'[l].base + 1 = wants'[i].base
    BY DEF RowsChained
  <2>1. i \in Queued(rows, o) /\ wants'[i] = wants[i] /\ wants[i].base > cached[o]
    BY <1>1, <1>2, <1>5, <1>6
  <2>2. PICK l \in Queued(rows, o) : wants[l].base + 1 = wants[i].base
    BY <2>1 DEF Chained, RowsChained
  <2>3. l \in Queued(rows, o)'
    <3>1. CASE HydratePrunes
      BY <1>5, <3>1 DEF Queued
    <3>2. CASE ~HydratePrunes
      BY <2>1, <2>2, <3>2, StillChained
    <3>3. QED
      BY <3>1, <3>2
  <2>4. QED
    BY <1>2, <2>1, <2>2, <2>3
<1>8. MirrorQueued(o)'
  <2>1. CASE mirror' = rows' \/ Queued(mirror, o)' = {}
    BY <2>1 DEF MirrorQueued, Queued
  <2>2. CASE mirror' = mirror /\ mirror' # rows' /\ Queued(mirror, o)' # {}
    <3> SUFFICES ASSUME NEW i \in Queued(mirror, o), i \notin Queued(rows, o)'
                 PROVE  pass'.running /\ cached'[o] > wants'[i].base
      BY <2>2 DEF MirrorQueued, Queued
    <3>1. pass.running /\ cached[o] > wants[i].base
      <4>1. CASE i \in Queued(rows, o)
        BY <2>2, <4>1, QueueSettles
      <4>2. CASE i \notin Queued(rows, o)
        BY <4>2 DEF Chained, MirrorQueued
      <4>3. QED
        BY <4>1, <4>2
    <3>2. pass'.running
      <4>1. Queued(mirror, o)' = {} <=> \A j \in Intents : ~(mirror'[j] # NoRow /\ mirror'[j].order = o)
        BY DEF Queued
      <4>2. QED
        BY <1>1, <2>2, <3>1, <4>1, PassRunsOn
    <3>3. QED
      BY <1>1, <1>3, <1>5, <1>6, <3>1, <3>2
  <2>3. QED
    BY <1>4, <2>1, <2>2
<1>9. MirrorWhole(o)'
  <2>1. CASE mirror' = rows' \/ Queued(mirror, o)' = {}
    BY <2>1 DEF MirrorWhole, Queued
  <2>2. CASE mirror' = mirror
    <3>1. Queued(mirror, o)' = Queued(mirror, o)
      BY <2>2 DEF Queued
    <3>2. Queued(rows, o)' \subseteq Queued(rows, o)
      BY <1>2
    <3>3. QED
      BY <3>1, <3>2 DEF MirrorWhole, Chained
  <2>3. QED
    BY <1>4, <2>1, <2>2
<1>10. ScreenCached(o)'
  BY ScreenCachedStep DEF Chained
<1>11. Ascends(rows, o)'
  BY <1>2 DEF Ascends, Chained
<1>12. Ascends(mirror, o)'
  <2>1. CASE mirror' = rows' \/ Queued(mirror, o)' = {}
    BY <1>11, <2>1 DEF Ascends, Queued
  <2>2. CASE mirror' = mirror
    <3>1. Queued(mirror, o)' = Queued(mirror, o)
      BY <2>2 DEF Queued
    <3>2. QED
      BY <1>3, <3>1 DEF Ascends, Chained
  <2>3. QED
    BY <1>4, <2>1, <2>2
<1>13. QED
  BY <1>7, <1>8, <1>9, <1>10, <1>11, <1>12 DEF Chained

(* A chain of bases from above the cached version down to a given one.     *)
LEMMA NoneAbove ==
    ASSUME Ground, NEW o \in Orders, InForm(o), RowsChained(o), NEW b \in Nat, b >= cached[o],
           \A j \in Queued(rows, o) : wants[j].base # b
    PROVE  \A j \in Queued(rows, o) : wants[j].base < b
<1> DEFINE Above == {n \in Nat : \E j \in Queued(rows, o) : wants[j].base = n /\ n > b}
<1>1. \A j \in Queued(rows, o) : wants[j].base \in Nat
  BY Grounded, QueuedInForm
<1>2. cached[o] \in Nat
  BY DEF Ground, Inv, TypeOK, DiskTypeOK
<1>3. Above = {}
  <2> SUFFICES ASSUME Above # {} PROVE FALSE
    OBVIOUS
  <2>1. PICK n \in Above : \A m \in Above : n <= m
    BY LeastNumber
  <2>2. PICK j \in Queued(rows, o) : wants[j].base = n /\ n > b
    BY <2>1
  <2>3. PICK l \in Queued(rows, o) : wants[l].base + 1 = n
    BY <1>2, <2>2 DEF RowsChained
  <2>4. wants[l].base \in Nat /\ wants[l].base > b /\ ~(n <= wants[l].base)
    BY <1>1, <2>1, <2>2, <2>3
  <2>5. wants[l].base \in Above
    BY <2>4
  <2>6. QED
    BY <2>1, <2>4, <2>5
<1>4. QED
  BY <1>1, <1>3

(* The chain of an order in form goes on with a mutation formed on what is *)
(* cached, or on the version that one of the queue makes.                  *)
LEMMA StageChained ==
    ASSUME Ground, Ground', TapsStand, [Next]_vars, NEW o \in Orders, InForm(o), InForm(o)',
           Chained(o), NEW kind \in Kinds, NEW base \in Nat,
           Stage(Identity(o, kind, base)), UNCHANGED <<serverVars, loose, rebase, cached>>,
           kind = "create" => \A j \in Formed : OrderOf(j) # o,
           \A i \in Intents \ Formed : i \in Formed' => wants'[i].base = base,
           base <= cached[o] \/ \E l \in Queued(rows, o) : wants[l].base + 1 = base
    PROVE  Chained(o)'
<1>1. /\ Inv /\ Inv' /\ TapTypeOK /\ HeadsReissued /\ cached[o] \in Nat /\ cached' = cached
      /\ version[o] \in Nat /\ cached[o] <= version[o] /\ version' = version /\ mirror' = rows'
  BY Grounded DEF Ground, Inv, TypeOK, DiskTypeOK, ServerTypeOK, NothingIsAhead, serverVars, Stage
<1>2. ScreenCached(o)'
  BY ScreenCachedStep DEF Chained
<1>3. PICK new \in Request : Forms(new, o, kind) /\ new.base = base
  BY <1>1, StageMints
<1> PICK i : i = new.intent
  OBVIOUS
<1>4. /\ i \in Intents /\ i \notin Formed /\ i \in Formed' /\ \A j \in Formed : j < i
      /\ OrderOf(i)' = o /\ wants'[i].base = base
      /\ \/ rows' = rows
         \/ rows'[i] = [order |-> o, k |-> 1, base |-> base, status |-> "PENDING"]
      /\ \A j \in Intents : j # i => rows'[j] = rows[j]
  BY <1>3 DEF Forms, Request
<1>5. ASSUME NEW j \in Queued(rows, o)
      PROVE  /\ j \in Formed /\ j # i /\ j < i /\ wants'[j] = wants[j] /\ wants[j].base \in Nat
             /\ j \in Queued(rows, o)' /\ OrderOf(j) = o
  <2>1. j \in Formed /\ OrderOf(j) = o /\ wants[j].base \in Nat /\ j \in Intents
    BY <1>5, Grounded, QueuedInForm DEF OwnOf, Queued
  <2>2. rows'[j] = rows[j]
    BY <1>4, <2>1
  <2>3. QED
    BY <1>4, <1>5, <2>1, <2>2 DEF TapsStand, Queued
<1>6. ASSUME NEW j \in Queued(rows, o)', j # i PROVE j \in Queued(rows, o)
  BY <1>4, <1>6 DEF Queued
<1>7. RowsChained(o)'
  <2> SUFFICES ASSUME NEW j \in Queued(rows, o)', wants'[j].base > cached[o]
               PROVE  \E l \in Queued(rows, o)' : wants'[l].base + 1 = wants'[j].base
    BY <1>1 DEF RowsChained
  <2>1. CASE j = i
    <3>1. PICK l \in Queued(rows, o) : wants[l].base + 1 = base
      BY <1>1, <1>4, <2>1
    <3>2. QED
      BY <1>4, <1>5, <2>1, <3>1
  <2>2. CASE j # i
    <3>1. j \in Queued(rows, o) /\ wants[j].base > cached[o]
      BY <1>5, <1>6, <2>2
    <3>2. PICK l \in Queued(rows, o) : wants[l].base + 1 = wants[j].base
      BY <3>1 DEF Chained, RowsChained
    <3>3. QED
      BY <1>5, <3>1, <3>2
  <2>3. QED
    BY <2>1, <2>2
<1>8. ASSUME NEW j \in Queued(rows, o) PROVE wants[j].base < base
  <2>1. i \in OwnOf(o)'
    BY <1>4 DEF OwnOf
  <2>2. effects'[i] = 0
    <3>1. effects' = effects
      BY DEF Stage
    <3>2. QED
      BY <1>1, <1>4, <3>1 DEF Inv, EffectsTrue
  <2>3. base >= version[o]
    BY <1>1, <1>4, <2>1, <2>2 DEF InForm
  <2>4. \A l \in Queued(rows, o) : wants[l].base # base
    <3> SUFFICES ASSUME NEW l \in Queued(rows, o) PROVE wants[l].base # base
      OBVIOUS
    <3>1. l \in OwnOf(o)' /\ l # i /\ wants'[l] = wants[l]
      BY <1>1, <1>5, FormedStands DEF OwnOf
    <3>2. QED
      BY <1>4, <2>1, <3>1 DEF InForm
  <2>5. QED
    BY <1>1, <2>3, <2>4, NoneAbove DEF Chained
<1>9. Ascends(rows, o)'
  <2> SUFFICES ASSUME NEW j \in Queued(rows, o)', NEW k \in Queued(rows, o)', j < k
               PROVE  wants'[j].base < wants'[k].base
    BY DEF Ascends
  <2>0. j \in Nat /\ k \in Nat /\ i \in Nat
    BY <1>4, IntentsAreNumbers DEF Queued
  <2>1. CASE k = i
    BY <1>4, <1>5, <1>6, <1>8, <2>0, <2>1
  <2>2. CASE k # i
    <3>1. k \in Queued(rows, o) /\ k < i
      BY <1>5, <1>6, <2>2
    <3>2. j \in Queued(rows, o)
      BY <1>6, <2>0, <3>1
    <3>3. QED
      BY <1>5, <3>1, <3>2 DEF Ascends, Chained
  <2>3. QED
    BY <2>1, <2>2
<1>10. Queued(mirror, o)' = Queued(rows, o)'
  BY <1>1 DEF Queued
<1>11. MirrorQueued(o)' /\ MirrorWhole(o)' /\ Ascends(mirror, o)'
  BY <1>9, <1>10 DEF MirrorQueued, MirrorWhole, Ascends
<1>12. QED
  BY <1>2, <1>7, <1>9, <1>11 DEF Chained

(* Who forms a mutation.                                                   *)
LEMMA WhoForms ==
    ASSUME [TapNext]_<<vars, tapVars>>
    PROVE  \/ intents' = intents
           \/ \E tap \in Taps : Tap(tap)
           \/ (\E o \in Orders : CreateOrder(o)) /\ UNCHANGED tapVars
<1>1. ASSUME NEW c \in Callers, ServeCounted(c) PROVE intents' = intents
  BY <1>1 DEF ServeCounted, Serve
<1>2. ASSUME NEW req \in loose, ServeLooseCounted(req) PROVE intents' = intents
  BY <1>2 DEF ServeLooseCounted, ServeLoose
<1>3. ASSUME NEW o \in Orders, OtherAdds(o) PROVE intents' = intents
  BY <1>3 DEF OtherAdds, OtherTerminal, historyVars
<1>4. ASSUME NEW c \in Callers, TakeCanonical(c) \/ DeleteRow(c) \/ HaltQueue(c) \/ Lose(c)
      PROVE  intents' = intents
  BY <1>4 DEF TakeCanonical, DeleteRow, HaltQueue, Lose, historyVars
<1>5. ASSUME NEW r \in Rebases, RebaseHalted(r) \/ Rebase(r) PROVE intents' = intents
  BY <1>5 DEF RebaseHalted, Rebase, ReadHead, Reissue, RebaseSends, RebaseEnds, historyVars
<1>6. ASSUME NEW o \in Orders, FocusOrder(o) PROVE intents' = intents
  BY <1>6 DEF FocusOrder, historyVars
<1>7. CASE Trigger \/ Pass \/ Hydrate \/ Visit
  BY <1>7 DEF Trigger, Pass, PassSends, PassEnds, Hydrate, HydrateReads, HydrateRestores,
              HydratePrunes, Visit, Leave, Detach, OpenAgain, historyVars
<1>8. CASE Clear \/ DiscardHalted \/ AskOrder \/ TakeOrder \/ Reload
  BY <1>8 DEF Clear, DiscardHalted, AskOrder, TakeOrder, Reload, historyVars
<1>9. CASE UNCHANGED <<vars, tapVars>>
  BY <1>9 DEF vars, historyVars
<1>10. QED
  BY <1>1, <1>2, <1>3, <1>4, <1>5, <1>6, <1>7, <1>8, <1>9 DEF TapNext, Uncounted

(* The version a mutation is formed on: what is shown, or past the last of *)
(* the queue.                                                              *)
LEMMA ProjectedPast ==
    ASSUME Ground, NEW o \in Orders, InForm(o), current = o
    PROVE  \/ Projected = shown
           \/ \E last \in Queued(mirror, o) :
                  /\ \A j \in Queued(mirror, o) : j <= last
                  /\ Projected = wants[last].base + 1
<1> DEFINE M == Queued(mirror, o)
<1>1. CASE M = {}
  BY <1>1 DEF Projected
<1>2. CASE M # {}
  <2>1. M \subseteq Intents
    BY DEF Queued
  <2>2. PICK g \in M : \A j \in M : j <= g
    BY <1>2, <2>1, GreatestIntent
  <2>3. PICK last : last = CHOOSE i \in M : \A j \in M : j <= i
    OBVIOUS
  <2>4. last \in M /\ \A j \in M : j <= last
    BY <2>2, <2>3
  <2>5. Projected = shown \/ Projected = mirror[last].base + 1
    BY <2>3 DEF Projected
  <2>6. mirror[last].base = wants[last].base
    BY <2>4, Grounded, QueuedInForm
  <2>7. QED
    BY <2>4, <2>5, <2>6
<1>3. QED
  BY <1>1, <1>2

(* The chain of an order in form goes on.                                  *)
LEMMA ChainGoesOn ==
    ASSUME Ground, [TapNext]_<<vars, tapVars>>, NEW o \in Orders, InForm(o), InForm(o)', Chained(o)
    PROVE  Chained(o)'
<1>1. Ground' /\ TapsStand /\ [Next]_vars /\ Inv /\ TapTypeOK /\ HeadsReissued /\ Inv'
  BY GroundStep, Grounded DEF Ground
<1>2. CASE OwnOf(o)' \subseteq Formed
  BY <1>1, <1>2, ChainedStep
<1>3. CASE intents' = intents
  <2>1. OwnOf(o)' \subseteq Formed
    BY <1>3 DEF OwnOf, Formed
  <2>2. QED
    BY <1>2, <2>1
<1>4. ASSUME NEW tap \in Taps, Tap(tap) PROVE Chained(o)'
  <2>1. Command("change") /\ "change" \in CommandKinds
    BY <1>4 DEF Tap, CommandKinds
  <2>2. /\ Stage(Identity(current, "change", Projected))
        /\ UNCHANGED <<serverVars, loose, rebase, cached>>
        /\ current \in Orders /\ "change" \in Kinds /\ Projected \in Nat
    BY <1>1, <2>1, CommandStages DEF Command
  <2>3. PICK i \in Intents \ Formed :
            /\ Formed' = Formed \cup {i} /\ OrderOf(i)' = current
            /\ wants'[i] = Planned(tap) /\ Planned(tap).base = Projected
    BY <1>1, <1>4, TapPlans
  <2>4. CASE current # o
    <3>1. OwnOf(o)' \subseteq Formed
      BY <2>3, <2>4 DEF OwnOf
    <3>2. QED
      BY <1>2, <3>1
  <2>5. CASE current = o
    <3>1. Projected <= cached[o] \/ \E l \in Queued(rows, o) : wants[l].base + 1 = Projected
      <4>1. shown <= cached[o]
        BY <2>5 DEF Chained, ScreenCached
      <4>2. ASSUME NEW last \in Queued(mirror, o), Projected = wants[last].base + 1,
                   last \notin Queued(rows, o)
            PROVE  Projected <= cached[o]
        <5>1. cached[o] > wants[last].base
          BY <4>2 DEF Chained, MirrorQueued
        <5>2. wants[last].base \in Nat /\ cached[o] \in Nat
          BY <1>1, Grounded, QueuedInForm DEF Inv, TypeOK, DiskTypeOK
        <5>3. QED
          BY <4>2, <5>1, <5>2
      <4>3. QED
        BY <2>5, <4>1, <4>2, ProjectedPast
    <3>2. \A j \in Intents \ Formed : j \in Formed' => wants'[j].base = Projected
      BY <2>3
    <3>3. QED
      BY <1>1, <2>2, <2>5, <3>1, <3>2, StageChained
  <2>6. QED
    BY <2>4, <2>5
<1>5. ASSUME NEW p \in Orders, CreateOrder(p), UNCHANGED tapVars PROVE Chained(o)'
  <2>1. /\ Stage(Identity(p, "create", 0)) /\ UNCHANGED <<serverVars, loose, rebase, cached>>
        /\ \A j \in Formed : OrderOf(j) # p
        /\ "create" \in Kinds /\ 0 \in Nat
    BY <1>1, <1>5, CreateStages DEF CreateOrder
  <2>2. PICK i \in Intents \ Formed : Formed' = Formed \cup {i} /\ OrderOf(i)' = p
    BY <1>1, <2>1, StageAppends
  <2>3. CASE p # o
    <3>1. OwnOf(o)' \subseteq Formed
      BY <2>2, <2>3 DEF OwnOf
    <3>2. QED
      BY <1>2, <3>1
  <2>4. CASE p = o
    <3>1. \A j \in Intents \ Formed : j \in Formed' => wants'[j].base = 0
      BY <1>1, <1>5 DEF tapVars, TapTypeOK, Nothing
    <3>2. 0 <= cached[o]
      BY <1>1 DEF Inv, TypeOK, DiskTypeOK
    <3>3. QED
      BY <1>1, <2>1, <2>4, <3>1, <3>2, StageChained
  <2>5. QED
    BY <2>3, <2>4
<1>6. QED
  BY <1>3, <1>4, <1>5, WhoForms

(* A projection goes from the version shown on through the bases of the    *)
(* queue, one by one.                                                      *)
BasesAscend(o) ==
    LET M == Queued(mirror, o) IN
    /\ \A i \in M : i \in Intents /\ i \in OwnOf(o) /\ wants[i].base \in Nat /\ wants[i].base >= shown
    /\ \A i \in M : wants[i].base > shown => \E l \in M : wants[l].base + 1 = wants[i].base
    /\ \A i, j \in M : i < j => wants[i].base < wants[j].base

(* That of an order in form does, if it folds nothing twice over what the  *)
(* disk has.                                                               *)
LEMMA ProjectsInOrder ==
    ASSUME Ground, NEW o \in Orders, InForm(o), Chained(o), current = o,
           ~FoldedTwice, ~ScreenIsOld
    PROVE  BasesAscend(o)
<1> DEFINE M == Queued(mirror, o)
<1>1. shown \in Nat /\ cached[o] \in Nat
  BY DEF Ground, Inv, TypeOK, ScreenTypeOK, DiskTypeOK
<1>2. shown = cached[o]
  BY <1>1 DEF ScreenIsOld, Chained, ScreenCached
<1>3. ASSUME NEW i \in M
      PROVE  /\ i \in Intents /\ i \in OwnOf(o) /\ wants[i].base \in Nat /\ wants[i].base >= shown
             /\ i \in Queued(rows, o)
  <2>1. i \in Intents /\ i \in OwnOf(o) /\ wants[i].base \in Nat /\ mirror[i].base = wants[i].base
    BY <1>3, Grounded, QueuedInForm DEF Queued
  <2>2. wants[i].base >= shown
    BY <1>1, <2>1 DEF FoldedTwice
  <2>3. i \in Queued(rows, o)
    BY <1>1, <1>2, <2>1, <2>2 DEF Chained, MirrorQueued
  <2>4. QED
    BY <2>1, <2>2, <2>3
<1>4. ASSUME NEW i \in M, wants[i].base > shown PROVE \E l \in M : wants[l].base + 1 = wants[i].base
  <2>1. PICK l \in Queued(rows, o) : wants[l].base + 1 = wants[i].base
    BY <1>2, <1>3, <1>4 DEF Chained, RowsChained
  <2>2. l \in M
    BY <1>4, <2>1 DEF Chained, MirrorWhole
  <2>3. QED
    BY <2>1, <2>2
<1>5. \A i, j \in M : i < j => wants[i].base < wants[j].base
  BY DEF Chained, Ascends
<1>6. QED
  BY <1>3, <1>4, <1>5 DEF BasesAscend

(* Every base between the version shown and one of the queue is in it.     *)
LEMMA BasesAreWhole ==
    ASSUME NEW o, BasesAscend(o), shown \in Nat, NEW last \in Queued(mirror, o),
           NEW n \in Nat, n >= shown, n <= wants[last].base
    PROVE  \E i \in Queued(mirror, o) : wants[i].base = n
<1> DEFINE M     == Queued(mirror, o)
           From  == {m \in Nat : m >= n /\ \E i \in M : wants[i].base = m}
<1>1. wants[last].base \in From
  BY DEF BasesAscend
<1>2. PICK m \in From : \A k \in From : m <= k
  <2>1. From # {} /\ From \subseteq Nat
    BY <1>1
  <2> HIDE DEF From
  <2>2. QED
    BY <2>1, LeastNumber
<1>3. PICK i \in M : wants[i].base = m /\ m >= n
  BY <1>2
<1>4. CASE m = n
  BY <1>3, <1>4
<1>5. CASE m > n
  <2>1. PICK l \in M : wants[l].base + 1 = m
    BY <1>3, <1>5 DEF BasesAscend
  <2>2. wants[l].base \in From /\ ~(m <= wants[l].base)
    BY <1>5, <2>1 DEF BasesAscend
  <2>3. QED
    BY <1>2, <2>2
<1>6. QED
  BY <1>3, <1>4, <1>5

(* The quantities a projection goes through.                               *)
Through(o, t) ==
    /\ t \in [0..Projected -> Nat] /\ t[shown] = QuantityAt(o, shown)
    /\ \A n \in shown..(Projected - 1) :
           \E i \in OwnOf(o) : wants[i].base = n /\ t[n + 1] = After(wants[i], t[n])
    /\ t[Projected] = ProjectedQuantity

(* It goes from what is shown to what is projected, one mutation a         *)
(* version.                                                                *)
LEMMA ProjectsThrough ==
    ASSUME Ground, NEW o \in Orders, InForm(o), Chained(o), current = o,
           ~FoldedTwice, ~ScreenIsOld, Projected > 0
    PROVE  shown \in 0..Projected /\ shown <= version[o] /\ \E t : Through(o, t)
<1> DEFINE M == Queued(mirror, o)
<1>1. /\ Inv /\ TapTypeOK /\ shown \in Nat /\ MaxIntents \in Nat /\ wants \in [Intents -> Want]
  BY Grounded, ConstantsAssumption DEF Inv, TypeOK, ScreenTypeOK, ConstantsAssumption, TapTypeOK
<1>2. ShownQuantity \in Nat /\ ShownQuantity = QuantityAt(o, shown) /\ shown <= version[o]
  BY <1>1, ShownTyped
<1>3. PICK F : FoldsFrom(F, ShownQuantity) /\ ProjectedQuantity = F[MaxIntents]
  BY <1>1, ProjectedFolds
<1>4. F \in [0..MaxIntents -> Nat] /\ F[0] = ShownQuantity
  BY <1>3 DEF FoldsFrom
<1>5. BasesAscend(o)
  BY ProjectsInOrder
<1>6. M \subseteq Intents /\ Intents = 1..MaxIntents
  BY DEF Queued, Intents
<1>7. CASE M = {}
  <2>1. Projected = shown
    BY <1>7 DEF Projected
  <2>2. F[MaxIntents] = F[0]
    <3>1. 0 \in 0..MaxIntents /\ MaxIntents \in 0..MaxIntents /\ 0 <= MaxIntents
      BY <1>1
    <3>2. QED
      BY <1>3, <1>7, <3>1, FoldStays
  <2> DEFINE t == [n \in 0..Projected |-> F[0]]
  <2>3. Through(o, t)
    <3>1. F[0] \in Nat /\ t \in [0..Projected -> Nat] /\ t[shown] = QuantityAt(o, shown)
      BY <1>1, <1>2, <1>4, <2>1
    <3>2. \A n \in shown..(Projected - 1) : FALSE
      BY <1>1, <2>1
    <3>3. t[Projected] = ProjectedQuantity
      BY <1>1, <1>3, <2>1, <2>2
    <3> HIDE DEF t
    <3>4. QED
      BY <3>1, <3>2, <3>3 DEF Through
  <2>4. QED
    BY <1>1, <1>2, <2>1, <2>3
<1>8. CASE M # {}
  <2>1. PICK last \in M : \A j \in M : j <= last
    BY <1>6, <1>8, GreatestIntent
  <2>2. wants[last].base \in Nat /\ wants[last].base >= shown /\ last \in OwnOf(o) /\ last \in Intents
    BY <2>1, <1>5 DEF BasesAscend
  <2>3. Projected = wants[last].base + 1
    <3>1. PICK l : l = CHOOSE i \in M : \A j \in M : j <= i
      OBVIOUS
    <3>2. l \in M /\ \A j \in M : j <= l
      BY <2>1, <3>1
    <3>3. l = last
      BY <1>1, <1>6, <2>1, <3>2
    <3>4. mirror[last].base = wants[last].base /\ last \in Queued(rows, o)
      <4>1. mirror[last].base = wants[last].base
        BY <2>1, Grounded, QueuedInForm
      <4>2. cached[o] \in Nat /\ shown = cached[o]
        BY <1>1 DEF Inv, TypeOK, DiskTypeOK, ScreenIsOld, Chained, ScreenCached
      <4>3. last \in Queued(rows, o)
        BY <1>1, <2>1, <2>2, <4>2 DEF Chained, MirrorQueued
      <4>4. QED
        BY <4>1, <4>3
    <3>5. intents[last].kind = "create" => ~(shown > 0)
      <4>1. Genuine(RequestOf(rows, last), intents, version) /\ rows[last].base = wants[last].base
        BY <1>1, <2>2, <3>4, Grounded, QueuedInForm DEF Inv, RowsTrue, RowTrue, Queued
      <4>2. intents[last].kind = "create" => rows[last].base = 0
        BY <4>1 DEF Genuine, RequestOf
      <4>3. QED
        BY <1>1, <2>2, <4>1, <4>2
    <3>6. Projected = shown \/ Projected = mirror[last].base + 1
      BY <3>1, <3>3 DEF Projected
    <3>7. CASE shown = 0 /\ ~ \E i \in M : intents[i].kind = "create"
      BY <3>7 DEF Projected
    <3>8. CASE ~(shown = 0 /\ ~ \E i \in M : intents[i].kind = "create")
      BY <1>8, <3>1, <3>3, <3>4, <3>5, <3>8 DEF Projected
    <3>9. QED
      BY <3>7, <3>8
  <2> DEFINE PastOf(n) == CHOOSE i \in M : wants[i].base + 1 = n
             t == [n \in 0..Projected |->
                      IF \E i \in M : wants[i].base + 1 = n THEN F[PastOf(n)] ELSE F[0]]
  <2>4. \A i, j \in M : wants[i].base = wants[j].base => i = j
    <3> SUFFICES ASSUME NEW i \in M, NEW j \in M, wants[i].base = wants[j].base, i # j PROVE FALSE
      OBVIOUS
    <3>1. i \in Nat /\ j \in Nat /\ wants[i].base \in Nat
      BY <1>5, IntentsAreNumbers DEF BasesAscend
    <3>2. i < j \/ j < i
      BY <3>1
    <3>3. QED
      BY <1>5, <3>1, <3>2 DEF BasesAscend
  <2>5. ASSUME NEW i \in M PROVE PastOf(wants[i].base + 1) = i
    <3>1. PastOf(wants[i].base + 1) \in M /\ wants[PastOf(wants[i].base + 1)].base + 1 = wants[i].base + 1
      OBVIOUS
    <3>2. wants[PastOf(wants[i].base + 1)].base \in Nat /\ wants[i].base \in Nat
      BY <1>5, <3>1 DEF BasesAscend
    <3>3. wants[PastOf(wants[i].base + 1)].base = wants[i].base
      BY <3>1, <3>2
    <3>4. QED
      BY <2>4, <3>1, <3>3
  <2>6. ASSUME NEW i \in M
        PROVE  /\ wants[i].base + 1 \in 0..Projected
               /\ t[wants[i].base + 1] = F[i] /\ F[i] \in Nat /\ i \in 0..MaxIntents
               /\ wants[i].base <= wants[last].base
    <3>1. i \in Nat /\ last \in Nat /\ wants[i].base \in Nat /\ i \in 0..MaxIntents
      BY <1>1, <1>5, <1>6, <2>1 DEF BasesAscend
    <3>2. i = last \/ wants[i].base < wants[last].base
      BY <1>5, <2>1, <3>1 DEF BasesAscend
    <3>3. wants[i].base + 1 \in 0..Projected /\ wants[i].base <= wants[last].base
      BY <2>2, <2>3, <3>1, <3>2
    <3>4. t[wants[i].base + 1] = F[PastOf(wants[i].base + 1)]
      BY <3>3
    <3>5. QED
      BY <1>4, <2>5, <3>1, <3>3, <3>4
  <2>7. t \in [0..Projected -> Nat]
    <3>1. ASSUME NEW n \in 0..Projected PROVE t[n] \in Nat
      <4>1. CASE \E i \in M : wants[i].base + 1 = n
        <5>1. PICK i \in M : wants[i].base + 1 = n
          BY <4>1
        <5>2. QED
          BY <2>6, <5>1
      <4>2. CASE ~ \E i \in M : wants[i].base + 1 = n
        BY <1>2, <1>4, <4>2
      <4>3. QED
        BY <4>1, <4>2
    <3>2. t = [n \in 0..Projected |-> t[n]]
      OBVIOUS
    <3> HIDE DEF t
    <3>3. QED
      BY <3>1, <3>2
  <2>8. t[shown] = F[0]
    <3>1. ~ \E i \in M : wants[i].base + 1 = shown
      BY <1>1, <1>5 DEF BasesAscend
    <3>2. shown \in 0..Projected
      BY <1>1, <2>2, <2>3
    <3>3. QED
      BY <3>1, <3>2
  <2> HIDE DEF t
  <2>9. ASSUME NEW n \in shown..(Projected - 1)
        PROVE  \E i \in OwnOf(o) : wants[i].base = n /\ t[n + 1] = After(wants[i], t[n])
    <3>1. n \in Nat /\ n >= shown /\ n <= wants[last].base
      BY <1>1, <2>2, <2>3
    <3>2. PICK i \in M : wants[i].base = n
      BY <1>1, <1>5, <2>1, <3>1, BasesAreWhole
    <3>3. t[n + 1] = F[i] /\ i \in 1..MaxIntents /\ i \in OwnOf(o)
      BY <1>5, <1>6, <2>6, <3>2 DEF BasesAscend
    <3>4. F[i] = After(wants[i], F[i - 1])
      BY <1>3, <3>2, <3>3 DEF FoldsFrom
    <3>5. F[i - 1] = t[n]
      <4>1. i - 1 \in 0..MaxIntents
        BY <1>1, <3>3
      <4>2. CASE n = shown
        <5>1. \A k \in 1..(i - 1) : k \notin M
          <6> SUFFICES ASSUME NEW k \in 1..(i - 1), k \in M PROVE FALSE
            OBVIOUS
          <6>1. k < i
            BY <3>3
          <6>2. wants[k].base < wants[i].base /\ wants[k].base >= shown /\ wants[k].base \in Nat
            BY <1>5, <3>2, <6>1 DEF BasesAscend
          <6>3. QED
            BY <1>1, <3>2, <4>2, <6>2
        <5>2. 0 \in 0..MaxIntents /\ 0 <= i - 1
          BY <1>1, <3>3
        <5>3. \A k \in (0 + 1)..(i - 1) : k \notin Queued(mirror, current)
          BY <5>1
        <5>4. F[i - 1] = F[0]
          BY <1>3, <4>1, <5>2, <5>3, FoldStays
        <5>5. QED
          BY <2>8, <4>2, <5>4
      <4>3. CASE n > shown
        <5>1. PICK l \in M : wants[l].base + 1 = n
          BY <1>5, <3>2, <4>3 DEF BasesAscend
        <5>2. t[n] = F[l] /\ l \in 0..MaxIntents /\ l \in Nat /\ wants[l].base \in Nat
          BY <1>5, <1>6, <2>6, <5>1 DEF BasesAscend
        <5>3. l < i
          <6>1. ~(i < l) /\ i # l
            BY <1>5, <3>1, <3>2, <5>1, <5>2 DEF BasesAscend
          <6>2. QED
            BY <3>3, <5>2, <6>1
        <5>4. \A k \in (l + 1)..(i - 1) : k \notin M
          <6> SUFFICES ASSUME NEW k \in (l + 1)..(i - 1), k \in M PROVE FALSE
            OBVIOUS
          <6>1. k < i /\ l < k
            BY <3>3, <5>2
          <6>2. wants[k].base < wants[i].base /\ wants[l].base < wants[k].base /\ wants[k].base \in Nat
            BY <1>5, <3>2, <6>1 DEF BasesAscend
          <6>3. QED
            BY <3>1, <3>2, <5>1, <5>2, <6>2
        <5>5. l <= i - 1
          BY <3>3, <5>2, <5>3
        <5>6. F[i - 1] = F[l]
          BY <1>3, <4>1, <5>2, <5>4, <5>5, FoldStays
        <5>7. QED
          BY <5>2, <5>6
      <4>4. QED
        BY <1>1, <3>1, <4>2, <4>3
    <3>6. QED
      BY <3>2, <3>3, <3>4, <3>5
  <2>10. t[Projected] = ProjectedQuantity
    <3>1. t[Projected] = F[last] /\ last \in 0..MaxIntents
      BY <2>1, <2>3, <2>6
    <3>2. MaxIntents \in 0..MaxIntents /\ last <= MaxIntents
      BY <1>1, <3>1
    <3>3. \A k \in (last + 1)..MaxIntents : k \notin M
      BY <2>1, <3>1
    <3>4. F[MaxIntents] = F[last]
      BY <1>3, <3>1, <3>2, <3>3, FoldStays
    <3>5. QED
      BY <1>3, <3>1, <3>4
  <2>11. Through(o, t)
    BY <1>2, <1>4, <2>7, <2>8, <2>9, <2>10 DEF Through
  <2>12. QED
    BY <1>1, <1>2, <2>2, <2>3, <2>11
<1>9. QED
  BY <1>7, <1>8

(* What was planned through the queue, was.                                *)
LEMMA PlannedStays ==
    ASSUME Ground, Ground', TapsStand, NEW o \in Orders, NEW j \in OwnOf(o), PlannedWell(o, j)
    PROVE  PlannedWell(o, j)'
<1>1. /\ wants'[j] = wants[j] /\ wants[j].base \in Nat /\ version[o] \in Nat /\ version'[o] \in Nat
      /\ version[o] <= version'[o]
      /\ Inv /\ Inv' /\ HeadsReissued /\ TapTypeOK
  <2>1. Inv /\ Inv' /\ HeadsReissued /\ TapTypeOK
    BY Grounded DEF Ground
  <2>2. j \in Formed /\ OrderOf(j) = o
    BY DEF OwnOf
  <2>3. QED
    BY <2>1, <2>2, FormedStands
<1>2. ASSUME NEW s, NEW t, PlannedThrough(o, j, s, t) PROVE PlannedThrough(o, j, s, t)'
  <2> PICK b : b = wants[j].base
    OBVIOUS
  <2>1. /\ s \in 0..b /\ s <= version[o] /\ t \in [0..b -> Nat] /\ t[s] = QuantityAt(o, s)
        /\ \A n \in s..(b - 1) : \E i \in OwnOf(o) : wants[i].base = n /\ t[n + 1] = After(wants[i], t[n])
        /\ StepsFrom(wants[j], t[b])
    BY <1>2 DEF PlannedThrough
  <2>2. s \in Nat /\ s \in 0..version[o] /\ s <= version'[o]
    BY <1>1, <2>1
  <2>3. QuantityAt(o, s)' = QuantityAt(o, s)
    BY <2>2 DEF TapsStand
  <2>4. ASSUME NEW n \in s..(b - 1)
        PROVE  \E i \in OwnOf(o)' : wants'[i].base = n /\ t[n + 1] = After(wants'[i], t[n])
    <3>1. PICK i \in OwnOf(o) : wants[i].base = n /\ t[n + 1] = After(wants[i], t[n])
      BY <2>1
    <3>2. i \in OwnOf(o)' /\ wants'[i] = wants[i]
      BY <1>1, OwnStays DEF TapsStand
    <3>3. QED
      BY <3>1, <3>2
  <2>5. StepsFrom(wants'[j], t[b]) /\ wants'[j].base = b
    BY <1>1, <2>1
  <2>6. QED
    BY <2>1, <2>2, <2>3, <2>4, <2>5 DEF PlannedThrough, After, StepsFrom
<1>3. QED
  BY <1>1, <1>2 DEF PlannedWell

(* A step of the operator is planned through the queue.                    *)
LEMMA TapPlannedWell ==
    ASSUME Ground, Ground', TapsStand, NEW o \in Orders, InForm(o), Chained(o), o \notin blurred',
           NEW tap \in Taps, Tap(tap), current = o, NEW j \in Intents, wants'[j] = Planned(tap)
    PROVE  PlannedWell(o, j)'
<1> SUFFICES ASSUME tap # "add" PROVE \E s, t : PlannedThrough(o, j, s, t)'
  <2>1. Planned(tap).tap = tap
    BY Grounded, TapPlans
  <2>2. QED
    BY <2>1 DEF PlannedWell
<1>1. ~FoldedTwice /\ ~ScreenIsOld /\ Projected > 0
  BY DEF Tap, Command
<1>2. Inv /\ Inv' /\ TapTypeOK /\ HeadsReissued
  BY Grounded DEF Ground
<1>3. /\ Planned(tap).tap = tap /\ Planned(tap).base = Projected /\ Projected \in Nat
      /\ ProjectedQuantity \in Nat
      /\ tap = "plus" => ProjectedQuantity > 0 /\ Planned(tap).n = ProjectedQuantity + 1
      /\ tap = "minus" => ProjectedQuantity > 1 /\ Planned(tap).n = ProjectedQuantity - 1
      /\ version' = version /\ version[o] \in Nat
  BY <1>2, TapPlans DEF serverVars, Inv, TypeOK, ServerTypeOK
<1> PICK b, q, s : b = Projected /\ q = ProjectedQuantity /\ s = shown
  OBVIOUS
<1>4. s \in 0..b /\ s <= version[o] /\ \E t : Through(o, t)
  BY <1>1, ProjectsThrough
<1>5. PICK t : Through(o, t)
  BY <1>4
<1>6. /\ t \in [0..b -> Nat] /\ t[s] = QuantityAt(o, s) /\ t[b] = q
      /\ \A n \in s..(b - 1) : \E i \in OwnOf(o) : wants[i].base = n /\ t[n + 1] = After(wants[i], t[n])
  BY <1>5 DEF Through
<1>7. QuantityAt(o, s)' = QuantityAt(o, s) /\ s <= version'[o]
  <2>1. s \in 0..version[o]
    BY <1>3, <1>4
  <2>2. QED
    BY <1>3, <1>4, <2>1 DEF TapsStand
<1>8. ASSUME NEW n \in s..(b - 1)
      PROVE  \E i \in OwnOf(o)' : wants'[i].base = n /\ t[n + 1] = After(wants'[i], t[n])
  <2>1. PICK i \in OwnOf(o) : wants[i].base = n /\ t[n + 1] = After(wants[i], t[n])
    BY <1>6
  <2>2. i \in OwnOf(o)' /\ wants'[i] = wants[i]
    BY <1>2, OwnStays DEF TapsStand
  <2>3. QED
    BY <2>1, <2>2
<1>9. wants'[j].base = b /\ StepsFrom(wants'[j], t[b])
  <2>1. wants'[j].tap = tap /\ wants'[j].base = b
    BY <1>3
  <2>2. tap = "plus" => q > 0 /\ wants'[j].n = q + 1
    BY <1>3
  <2>3. tap = "minus" => q > 1 /\ wants'[j].n + 1 = q
    BY <1>3
  <2>4. QED
    BY <1>6, <2>1, <2>2, <2>3 DEF StepsFrom, Taps
<1>10. PlannedThrough(o, j, s, t)'
  BY <1>4, <1>6, <1>7, <1>8, <1>9 DEF PlannedThrough, StepsFrom, After
<1>11. QED
  BY <1>10

(* Every step on an order in form is planned through the queue.            *)
LEMMA PlannedGoesOn ==
    ASSUME Ground, [TapNext]_<<vars, tapVars>>, NEW o \in Orders, InForm(o), Chained(o),
           o \notin blurred', \A j \in OwnOf(o) : PlannedWell(o, j)
    PROVE  \A j \in OwnOf(o)' : PlannedWell(o, j)'
<1>1. /\ Ground' /\ TapsStand /\ Inv /\ Inv' /\ TapTypeOK /\ TapTypeOK' /\ HeadsReissued
  BY GroundStep, Grounded DEF Ground
<1>2. ASSUME NEW j \in OwnOf(o)', j \in Formed PROVE PlannedWell(o, j)'
  <2>1. j \in OwnOf(o)
    BY <1>1, <1>2, FormedStands DEF OwnOf
  <2>2. QED
    BY <1>1, <2>1, PlannedStays
<1>3. ASSUME NEW j \in OwnOf(o)', j \notin Formed PROVE PlannedWell(o, j)'
  <2>1. j \in Formed' /\ OrderOf(j)' = o
    BY DEF OwnOf
  <2>2. CASE intents' = intents
    BY <1>3, <2>1, <2>2 DEF Formed
  <2>3. ASSUME NEW tap \in Taps, Tap(tap) PROVE PlannedWell(o, j)'
    <3>1. PICK i \in Intents \ Formed :
              Formed' = Formed \cup {i} /\ OrderOf(i)' = current /\ wants'[i] = Planned(tap)
      BY <1>1, <2>3, TapPlans
    <3>2. i = j /\ current = o /\ j \in Intents
      BY <1>3, <2>1, <3>1
    <3>3. QED
      BY <1>1, <2>3, <3>1, <3>2, TapPlannedWell
  <2>4. CASE (\E p \in Orders : CreateOrder(p)) /\ UNCHANGED tapVars
    <3>1. j \in Intents
      BY <1>1, <2>1 DEF Inv, TypeOK, HistoryTypeOK
    <3>2. wants'[j].tap = "none"
      BY <1>1, <1>3, <2>4, <3>1 DEF tapVars, TapTypeOK, Nothing
    <3>3. QED
      BY <3>2 DEF PlannedWell
  <2>5. QED
    BY <2>2, <2>3, <2>4, WhoForms
<1>4. QED
  BY <1>2, <1>3

(* A step planned through the queue that comes to its turn finds the       *)
(* quantity it was planned on.                                             *)
LEMMA PlanIsExact ==
    ASSUME Ground, NEW o \in Orders, InForm(o), NEW j \in OwnOf(o), PlannedWell(o, j),
           wants[j].tap \in {"plus", "minus"}, wants[j].base = version[o]
    PROVE  StepsFrom(wants[j], QuantityNow(o))
<1> PICK b : b = version[o]
  OBVIOUS
<1>1. /\ b \in Nat /\ QuantityNow(o) = QuantityAt(o, b) /\ Ledger
  BY Grounded, QuantityTyped
<1>2. PICK s, t : PlannedThrough(o, j, s, t)
  BY DEF PlannedWell
<1>3. /\ s \in 0..b /\ t \in [0..b -> Nat] /\ t[s] = QuantityAt(o, s) /\ StepsFrom(wants[j], t[b])
      /\ \A n \in s..(b - 1) : \E i \in OwnOf(o) : wants[i].base = n /\ t[n + 1] = After(wants[i], t[n])
  BY <1>2 DEF PlannedThrough
<1> DEFINE Off == {n \in s..b : t[n] # QuantityAt(o, n)}
<1>4. Off = {}
  <2> SUFFICES ASSUME Off # {} PROVE FALSE
    OBVIOUS
  <2>1. PICK m \in Off : \A k \in Off : m <= k
    <3>1. Off \subseteq Nat
      BY <1>1, <1>3
    <3>2. QED
      BY <3>1, LeastNumber
  <2>2. m \in s..b /\ m # s /\ t[m] # QuantityAt(o, m)
    BY <1>3, <2>1
  <2> PICK n : n = m - 1
    OBVIOUS
  <2>3. n \in s..(b - 1) /\ n \in s..b /\ n + 1 = m /\ ~(m <= n) /\ n < b
    BY <1>1, <1>3, <2>2
  <2>4. t[n] = QuantityAt(o, n)
    BY <2>1, <2>3
  <2>5. PICK i \in OwnOf(o) : wants[i].base = n /\ t[n + 1] = After(wants[i], t[n])
    BY <1>3, <2>3
  <2>6. FirstCounts(i) /\ i \in Formed /\ OrderOf(i) = o
    BY <2>3, <2>5 DEF InForm, FirstCounts, OwnOf
  <2>7. QuantityAt(o, n + 1) = After(wants[i], QuantityAt(o, n))
    BY <1>1, <2>5, <2>6 DEF Ledger, TookAsPlanned
  <2>8. QED
    BY <2>2, <2>3, <2>4, <2>5, <2>7
<1>5. b \in s..b
  BY <1>1, <1>3
<1>6. t[b] = QuantityAt(o, b)
  BY <1>4, <1>5
<1>7. QED
  BY <1>1, <1>3, <1>6

(* The mutations counted so far.                                           *)
LEMMA SumsAreFinite ==
    ASSUME Ground, NEW o, NEW kinds
    PROVE  /\ IsFiniteSet(TookOf(o, kinds)) /\ Cardinality(TookOf(o, kinds)) \in Nat
           /\ IsFiniteSet(EffectiveOf(o)) /\ Cardinality(EffectiveOf(o)) \in Nat
<1>1. Formed \subseteq Intents
  BY DEF Ground, Inv, TypeOK, HistoryTypeOK
<1>2. IsFiniteSet(Intents)
  BY FS_Interval, ConstantsAssumption DEF Intents, ConstantsAssumption
<1>3. TookOf(o, kinds) \subseteq Intents /\ EffectiveOf(o) \subseteq Intents
  BY <1>1 DEF TookOf, TapsOf, EffectiveOf, OwnOf
<1>4. QED
  BY <1>2, <1>3, FS_Subset, FS_CardinalityType

(* The counts stay while no mutation of the terminal takes effect.         *)
LEMMA SumsStay ==
    ASSUME Ground, Ground', TapsStand, NEW o \in Orders,
           \A i \in OwnOf(o)' : effects'[i] > 0 <=> effects[i] > 0
    PROVE  EffectiveOf(o)' = EffectiveOf(o) /\ \A kinds : TookOf(o, kinds)' = TookOf(o, kinds)
<1>1. Inv /\ Inv' /\ HeadsReissued /\ TapTypeOK
  BY Grounded DEF Ground
<1>2. ASSUME NEW i \in OwnOf(o)', effects'[i] > 0
      PROVE  i \in OwnOf(o) /\ effects[i] > 0 /\ wants'[i] = wants[i]
  <2>1. i \in Intents
    BY <1>1 DEF OwnOf, Inv, TypeOK, HistoryTypeOK
  <2>2. i \in Formed
    BY <1>1, <1>2, <2>1, NoEffectUnformed
  <2>3. QED
    BY <1>1, <1>2, <2>2, FormedStands DEF OwnOf
<1>3. ASSUME NEW i \in OwnOf(o), effects[i] > 0
      PROVE  i \in OwnOf(o)' /\ effects'[i] > 0 /\ wants'[i] = wants[i]
  BY <1>1, <1>3, OwnStays DEF TapsStand
<1>4. EffectiveOf(o)' = EffectiveOf(o)
  BY <1>2, <1>3 DEF EffectiveOf
<1>5. ASSUME NEW kinds PROVE TookOf(o, kinds)' = TookOf(o, kinds)
  BY <1>2, <1>3 DEF TookOf, TapsOf, OwnOf
<1>6. QED
  BY <1>4, <1>5

(* One effect counts one.                                                  *)
LEMMA SumsGrow ==
    ASSUME Ground, Ground', TapsStand, NEW o \in Orders, NEW k \in OwnOf(o),
           effects[k] = 0, effects'[k] > 0,
           \A i \in OwnOf(o)' \ {k} : effects'[i] > 0 <=> effects[i] > 0
    PROVE  /\ Cardinality(EffectiveOf(o)') = Cardinality(EffectiveOf(o)) + 1
           /\ \A kinds : Cardinality(TookOf(o, kinds)')
                             = IF wants[k].tap \in kinds THEN Cardinality(TookOf(o, kinds)) + 1
                               ELSE Cardinality(TookOf(o, kinds))
<1>1. Inv /\ Inv' /\ HeadsReissued /\ TapTypeOK
  BY Grounded DEF Ground
<1>2. ASSUME NEW i \in OwnOf(o)', effects'[i] > 0, i # k
      PROVE  i \in OwnOf(o) /\ effects[i] > 0 /\ wants'[i] = wants[i]
  <2>1. i \in Intents /\ effects[i] > 0
    BY <1>1, <1>2 DEF OwnOf, Inv, TypeOK, HistoryTypeOK
  <2>2. i \in Formed
    BY <1>1, <2>1, NoEffectUnformed
  <2>3. QED
    BY <1>1, <1>2, <2>1, <2>2, FormedStands DEF OwnOf
<1>3. ASSUME NEW i \in OwnOf(o), effects[i] > 0
      PROVE  i \in OwnOf(o)' /\ effects'[i] > 0 /\ wants'[i] = wants[i] /\ i # k
  BY <1>1, <1>3, OwnStays DEF TapsStand
<1>4. k \in OwnOf(o)' /\ wants'[k] = wants[k]
  BY <1>1, OwnStays DEF TapsStand
<1>5. EffectiveOf(o)' = EffectiveOf(o) \cup {k} /\ k \notin EffectiveOf(o)
  BY <1>2, <1>3, <1>4 DEF EffectiveOf
<1>6. Cardinality(EffectiveOf(o)') = Cardinality(EffectiveOf(o)) + 1
  BY <1>5, SumsAreFinite, FS_AddElement
<1>7. ASSUME NEW kinds
      PROVE  Cardinality(TookOf(o, kinds)')
                 = IF wants[k].tap \in kinds THEN Cardinality(TookOf(o, kinds)) + 1
                   ELSE Cardinality(TookOf(o, kinds))
  <2>1. CASE wants[k].tap \in kinds
    <3>1. TookOf(o, kinds)' = TookOf(o, kinds) \cup {k} /\ k \notin TookOf(o, kinds)
      BY <1>2, <1>3, <1>4, <2>1 DEF TookOf, TapsOf, OwnOf
    <3>2. QED
      BY <2>1, <3>1, SumsAreFinite, FS_AddElement
  <2>2. CASE wants[k].tap \notin kinds
    <3>1. TookOf(o, kinds)' = TookOf(o, kinds)
      BY <1>2, <1>3, <1>4, <2>2 DEF TookOf, TapsOf, OwnOf
    <3>2. QED
      BY <2>2, <3>1
  <2>3. QED
    BY <2>1, <2>2
<1>8. QED
  BY <1>6, <1>7

(* The sum goes on when a mutation of this terminal takes effect.          *)
LEMMA AddedByOwn ==
    ASSUME Ground, Ground', TapsStand, NEW o \in Orders, InForm(o), InForm(o)', AddedSoFar(o),
           \A j \in OwnOf(o) : PlannedWell(o, j),
           NEW req \in Request, Took(req), OrderOf(req.intent) = o
    PROVE  AddedSoFar(o)'
<1> PICK k, q, v : k = req.intent /\ q = QuantityNow(o) /\ v = version[o]
  OBVIOUS
<1>1. /\ Inv /\ Inv' /\ HeadsReissued /\ IdsAreMinted /\ TapTypeOK /\ Stamped /\ Ledger
  BY Grounded DEF Ground
<1>2. k \in Formed /\ OrderOf(k) = o /\ k \in OwnOf(o) /\ minted[k] = 1 /\ wants[k] \in Want
      /\ Counts(o, After(wants[k], q)) /\ After(wants[k], q) \in Nat
  BY <1>1, TookCounts DEF OwnOf, InForm
<1>3. effects[k] = 0 /\ effects'[k] = 1 /\ wants[k].base = v
      /\ \A j \in Intents : j # k => effects'[j] = effects[j]
  BY <1>1, <1>2, TookFirst
<1>4. q \in Nat /\ v \in Nat
  BY <1>1, QuantityTyped
<1>5. version'[o] = v + 1 /\ QuantityNow(o)' = After(wants[k], q)
  BY <1>1, <1>2, CountsOne
<1> PICK m, p, e : /\ m = Cardinality(TookOf(o, {"minus"})) /\ p = Cardinality(TookOf(o, {"add", "plus"}))
                   /\ e = Cardinality(EffectiveOf(o))
  OBVIOUS
<1>6. m \in Nat /\ p \in Nat /\ e \in Nat /\ q + m + e = p + v
  BY SumsAreFinite DEF AddedSoFar
<1>7. /\ Cardinality(EffectiveOf(o)') = e + 1
      /\ Cardinality(TookOf(o, {"minus"})') = (IF wants[k].tap = "minus" THEN m + 1 ELSE m)
      /\ Cardinality(TookOf(o, {"add", "plus"})') = (IF wants[k].tap \in {"add", "plus"} THEN p + 1 ELSE p)
  <2>1. OwnOf(o)' \ {k} \subseteq Intents \ {k}
    BY <1>1 DEF OwnOf, Inv, TypeOK, HistoryTypeOK
  <2>2. \A i \in OwnOf(o)' \ {k} : effects'[i] > 0 <=> effects[i] > 0
    BY <1>3, <2>1
  <2>3. /\ Cardinality(EffectiveOf(o)') = Cardinality(EffectiveOf(o)) + 1
        /\ \A kinds : Cardinality(TookOf(o, kinds)')
                          = IF wants[k].tap \in kinds THEN Cardinality(TookOf(o, kinds)) + 1
                            ELSE Cardinality(TookOf(o, kinds))
    BY <1>2, <1>3, <2>2, SumsGrow
  <2>4. Cardinality(TookOf(o, {"minus"})') = IF wants[k].tap \in {"minus"} THEN m + 1 ELSE m
    BY <2>3
  <2>5. Cardinality(TookOf(o, {"add", "plus"})') = IF wants[k].tap \in {"add", "plus"} THEN p + 1 ELSE p
    BY <2>3
  <2>6. QED
    BY <2>3, <2>4, <2>5
<1> PICK a : a = After(wants[k], q)
  OBVIOUS
<1>8. wants[k].tap \in {"add", "plus", "minus", "none"}
  BY <1>2 DEF Want, Taps
<1>9. CASE wants[k].tap = "add"
  <2>1. a = q + 1
    BY <1>9 DEF After
  <2>2. a + m + (e + 1) = (p + 1) + (v + 1)
    BY <1>4, <1>6, <2>1
  <2>3. QED
    BY <1>5, <1>7, <1>9, <2>2 DEF AddedSoFar
<1>10. CASE wants[k].tap = "plus"
  <2>1. StepsFrom(wants[k], q)
    BY <1>2, <1>3, <1>10, PlanIsExact
  <2>2. a = q + 1
    BY <1>4, <1>10, <2>1 DEF StepsFrom, After
  <2>3. a + m + (e + 1) = (p + 1) + (v + 1)
    BY <1>4, <1>6, <2>2
  <2>4. QED
    BY <1>5, <1>7, <1>10, <2>3 DEF AddedSoFar
<1>11. CASE wants[k].tap = "minus"
  <2>1. StepsFrom(wants[k], q)
    BY <1>2, <1>3, <1>11, PlanIsExact
  <2>2. a + 1 = q /\ a \in Nat
    BY <1>2, <1>4, <1>11, <2>1 DEF StepsFrom, After
  <2>3. a + (m + 1) + (e + 1) = p + (v + 1)
    BY <1>4, <1>6, <2>2
  <2>4. QED
    BY <1>5, <1>7, <1>11, <2>3 DEF AddedSoFar
<1>12. CASE wants[k].tap = "none"
  <2>1. a = q
    BY <1>12 DEF After
  <2>2. a + m + (e + 1) = p + (v + 1)
    BY <1>4, <1>6, <2>1
  <2>3. QED
    BY <1>5, <1>7, <1>12, <2>2 DEF AddedSoFar
<1>13. QED
  BY <1>8, <1>9, <1>10, <1>11, <1>12

(* And when the other terminal adds one, and when nothing takes effect.    *)
LEMMA AddedByOthers ==
    ASSUME Ground, Ground', TapsStand, NEW o \in Orders, AddedSoFar(o),
           \A i \in OwnOf(o)' : effects'[i] > 0 <=> effects[i] > 0,
           \/ version'[o] = version[o] /\ QuantityNow(o)' = QuantityNow(o)
           \/ version'[o] = version[o] + 1 /\ QuantityNow(o)' = QuantityNow(o) + 1
    PROVE  AddedSoFar(o)'
<1> PICK q, v : q = QuantityNow(o) /\ v = version[o]
  OBVIOUS
<1> PICK m, p, e : /\ m = Cardinality(TookOf(o, {"minus"})) /\ p = Cardinality(TookOf(o, {"add", "plus"}))
                   /\ e = Cardinality(EffectiveOf(o))
  OBVIOUS
<1>1. q \in Nat /\ v \in Nat
  BY Grounded, QuantityTyped
<1>2. m \in Nat /\ p \in Nat /\ e \in Nat /\ q + m + e = p + v
  BY SumsAreFinite DEF AddedSoFar
<1>3. /\ Cardinality(EffectiveOf(o)') = e
      /\ Cardinality(TookOf(o, {"minus"})') = m
      /\ Cardinality(TookOf(o, {"add", "plus"})') = p
  BY SumsStay
<1>4. CASE version'[o] = v /\ QuantityNow(o)' = q
  BY <1>2, <1>3, <1>4 DEF AddedSoFar
<1>5. CASE version'[o] = v + 1 /\ QuantityNow(o)' = q + 1
  <2>1. (q + 1) + m + e = p + (v + 1)
    BY <1>1, <1>2
  <2>2. QED
    BY <1>3, <1>5, <2>1 DEF AddedSoFar
<1>6. QED
  BY <1>4, <1>5

(* The sum goes on with every step.                                        *)
LEMMA AddedGoesOn ==
    ASSUME Ground, [TapNext]_<<vars, tapVars>>, NEW o \in Orders, InForm(o), InForm(o)',
           AddedSoFar(o), \A j \in OwnOf(o) : PlannedWell(o, j)
    PROVE  AddedSoFar(o)'
<1>1. /\ Ground' /\ TapsStand /\ Inv /\ Inv' /\ TapTypeOK
  BY GroundStep, Grounded DEF Ground
<1>2. ASSUME NEW req \in Request, Took(req) PROVE AddedSoFar(o)'
  <2> PICK k, p : k = req.intent /\ p = OrderOf(k)
    OBVIOUS
  <2>1. k \in Intents /\ k \in Formed /\ p \in Orders /\ After(wants[k], QuantityNow(p)) \in Nat
        /\ Counts(p, After(wants[k], QuantityNow(p))) /\ intents' = intents
    BY <1>1, <1>2, TookCounts DEF Took
  <2>2. CASE p = o
    BY <1>1, <1>2, <2>2, AddedByOwn
  <2>3. CASE p # o
    <3>1. version'[o] = version[o] /\ QuantityNow(o)' = QuantityNow(o)
      BY <1>1, <2>1, <2>3, CountsOne
    <3>2. ASSUME NEW i \in OwnOf(o)' PROVE effects'[i] = effects[i]
      <4>1. i \in Intents /\ i # k
        BY <1>1, <2>1, <2>3 DEF OwnOf, OrderOf, Inv, TypeOK, HistoryTypeOK
      <4>2. effects \in [Intents -> Nat] /\ effects' = [effects EXCEPT ![k] = @ + 1]
        BY <1>1, <1>2 DEF Took, Inv, TypeOK, HistoryTypeOK
      <4>3. QED
        BY <4>1, <4>2
    <3>3. QED
      BY <1>1, <3>1, <3>2, AddedByOthers
  <2>4. QED
    BY <2>2, <2>3
<1>3. ASSUME NEW p \in Orders, Added(p) PROVE AddedSoFar(o)'
  <2>1. effects' = effects
    BY <1>3 DEF Added
  <2>2. QuantityNow(p) + 1 \in Nat /\ Counts(p, QuantityNow(p) + 1)
    BY <1>1, <1>3, AddedCounts
  <2>3. \/ version'[o] = version[o] /\ QuantityNow(o)' = QuantityNow(o)
        \/ version'[o] = version[o] + 1 /\ QuantityNow(o)' = QuantityNow(o) + 1
    BY <1>1, <2>2, CountsOne
  <2>4. QED
    BY <1>1, <2>1, <2>3, AddedByOthers
<1>4. CASE UNCHANGED <<version, effects, quantities>>
  <2>1. version'[o] = version[o] /\ QuantityNow(o)' = QuantityNow(o)
    BY <1>4 DEF QuantityNow
  <2>2. QED
    BY <1>1, <1>4, <2>1, AddedByOthers
<1>5. QED
  BY <1>1, <1>2, <1>3, <1>4, TapSteps

(* The orders in form. *)
TapsInForm ==
    \A o \in Orders : InForm(o) =>
        /\ Chained(o)
        /\ o \notin blurred => AddedSoFar(o) /\ \A j \in OwnOf(o) : PlannedWell(o, j)

(* Every step keeps the ground and the orders in form.                     *)
LEMMA TapInvStep ==
    ASSUME Ground, TapsInForm, [TapNext]_<<vars, tapVars>>
    PROVE  Ground' /\ TapsInForm'
<1>1. /\ Ground' /\ TapsStand /\ Inv /\ Inv' /\ TapTypeOK /\ HeadsReissued /\ IdsAreMinted
      /\ Stamped /\ Ledger
  BY GroundStep, Grounded DEF Ground
<1>2. ASSUME NEW o \in Orders, InForm(o)'
      PROVE  /\ Chained(o)'
             /\ o \notin blurred' => AddedSoFar(o)' /\ \A j \in OwnOf(o)' : PlannedWell(o, j)'
  <2>1. InForm(o)
    BY <1>1, <1>2, InFormBefore
  <2>2. Chained(o)
    BY <2>1 DEF TapsInForm
  <2>3. Chained(o)'
    BY <1>2, <2>1, <2>2, ChainGoesOn
  <2>4. ASSUME o \notin blurred' PROVE AddedSoFar(o)' /\ \A j \in OwnOf(o)' : PlannedWell(o, j)'
    <3>1. o \notin blurred
      BY <1>1, <2>4 DEF TapsStand
    <3>2. AddedSoFar(o) /\ \A j \in OwnOf(o) : PlannedWell(o, j)
      BY <2>1, <3>1 DEF TapsInForm
    <3>3. QED
      BY <1>2, <2>1, <2>2, <2>4, <3>2, AddedGoesOn, PlannedGoesOn
  <2>5. QED
    BY <2>3, <2>4
<1>3. QED
  BY <1>1, <1>2 DEF TapsInForm

(* They hold at the start, when nothing is formed.                         *)
LEMMA TapInvInit ==
    ASSUME Init, TapInit, Inv, OnceInv, ShowInv
    PROVE  Ground /\ TapsInForm
<1>1. /\ Formed = {} /\ version = [o \in Orders |-> 0] /\ effects = [i \in Intents |-> 0]
      /\ rows = [i \in Intents |-> NoRow] /\ mirror = rows /\ call = [c \in Callers |-> NoCall]
      /\ current = NULL /\ hydration = Hydrated
  BY DEF Init, Formed
<1>2. TapTypeOK
  BY <1>1 DEF TapInit, TapTypeOK, Want, Nothing
<1>3. MirrorMinted /\ Stamped
  <2>1. ASSUME NEW req \in Request, Live(req) PROVE FALSE
    <3>1. req.intent \in Formed
      BY <2>1, LiveIsGenuine
    <3>2. QED
      BY <1>1, <3>1
  <2>2. \A i \in Intents : mirror[i] = NoRow
    BY <1>1
  <2>3. QED
    BY <2>1, <2>2 DEF MirrorMinted, Stamped
<1>4. SeenIsNew
  <2>1. \A c \in Callers : call[c].step = "idle"
    BY <1>1 DEF NoCall
  <2>2. "pass" \in Callers
    BY DEF Callers
  <2>3. QED
    BY <2>1, <2>2 DEF SeenIsNew
<1>5. Ledger
  BY <1>1 DEF Ledger
<1>6. ASSUME NEW o \in Orders PROVE Chained(o) /\ AddedSoFar(o) /\ \A j \in OwnOf(o) : PlannedWell(o, j)
  <2>1. Queued(rows, o) = {} /\ Queued(mirror, o) = {} /\ OwnOf(o) = {}
    BY <1>1 DEF Queued, OwnOf
  <2>2. ScreenCached(o)
    BY <1>1, ConstantsAssumption DEF ScreenCached, ConstantsAssumption, Hydrated
  <2>3. Chained(o)
    BY <2>1, <2>2 DEF Chained, RowsChained, MirrorQueued, MirrorWhole, Ascends
  <2>4. EffectiveOf(o) = {} /\ TookOf(o, {"minus"}) = {} /\ TookOf(o, {"add", "plus"}) = {}
    BY <1>1 DEF EffectiveOf, OwnOf, TookOf, TapsOf
  <2>5. Cardinality({}) = 0
    BY FS_EmptySet
  <2>6. QuantityNow(o) = 0 /\ version[o] = 0
    BY <1>1 DEF QuantityNow
  <2>7. AddedSoFar(o)
    BY <2>4, <2>5, <2>6 DEF AddedSoFar
  <2>8. QED
    BY <2>1, <2>3, <2>7
<1>7. QED
  BY <1>2, <1>3, <1>4, <1>5, <1>6 DEF Ground, TapsInForm

(* The inductive invariant of the taps.                                    *)
LEMMA TapInvariant == TapSpec => [](Ground /\ TapsInForm)
<1>1. Init /\ TapInit /\ Inv /\ OnceInv /\ ShowInv => Ground /\ TapsInForm
  BY TapInvInit
<1>2. Ground /\ TapsInForm /\ [TapNext]_<<vars, tapVars>> => (Ground /\ TapsInForm)'
  BY TapInvStep
<1>3. [TapNext]_<<vars, tapVars>> => [Next]_vars
  BY TapStepIsStep
<1>4. QED
  BY <1>1, <1>2, <1>3, OnceInvariant, ShowInvariant, PTL DEF TapSpec, Spec

(* The types of the quantities, of the wants and of the orders excepted,   *)
(* and that every version of an order has a quantity.                      *)
THEOREM TapTypeCorrect == TapSpec => []TapTypeOK
<1>1. Ground => TapTypeOK
  BY DEF Ground
<1>2. QED
  BY <1>1, TapInvariant, PTL

(* A mutation with an effect that has no id but the one it was formed      *)
(* with took effect once, on the version it was planned on and on what the *)
(* line was then, and no two of an order on the same one (baseVersion of   *)
(* nextBaseVersion, the version check and processed_mutations of           *)
(* mutation-handler.ts).                                                   *)
THEOREM EffectsAsPlanned == TapSpec => []Ledger
<1>1. Ground => Ledger
  BY DEF Ground
<1>2. QED
  BY <1>1, TapInvariant, PTL

(* Taps at rush speed add up: the quantity at the server is what both      *)
(* terminals tapped, though a + says how many and not how many more        *)
(* (stepQuantity, projectQueue), in every order whose mutations took       *)
(* effect as they were formed and whose steps were planned over a snapshot *)
(* the disk had nothing newer than and the queue nothing older.            *)
THEOREM TapsAdd == TapSpec => []TapsAddUp
<1>1. Ground /\ TapsInForm => TapsAddUp
  <2> SUFFICES ASSUME Ground, TapsInForm, NEW o \in Orders \ (blurred \cup strayed), AsFormed(o)
               PROVE  AddedUp(o)
    BY DEF TapsAddUp
  <2>1. Ledger /\ Inv /\ TapTypeOK
    BY Grounded
  <2>2. InForm(o)
    <3>1. ASSUME NEW i \in OwnOf(o) PROVE minted[i] = 1 /\ effects[i] > 0 /\ FirstCounts(i) /\ i \in Formed
      BY DEF AsFormed, OwnOf, FirstCounts
    <3>2. ASSUME NEW i \in OwnOf(o), NEW j \in OwnOf(o) \ {i} PROVE wants[j].base # wants[i].base
      BY <2>1, <3>1 DEF Ledger, OwnOf
    <3>3. QED
      BY <3>1, <3>2 DEF InForm
  <2>3. AddedSoFar(o)
    BY <2>2 DEF TapsInForm
  <2>4. EffectiveOf(o) = OwnOf(o) /\ \A kinds : TookOf(o, kinds) = TapsOf(o, kinds)
    BY DEF EffectiveOf, TookOf, TapsOf, OwnOf, AsFormed
  <2> PICK q, v, m, p, e : /\ q = QuantityNow(o) /\ v = version[o]
                           /\ m = Cardinality(TapsOf(o, {"minus"}))
                           /\ p = Cardinality(TapsOf(o, {"add", "plus"}))
                           /\ e = Cardinality(OwnOf(o))
    OBVIOUS
  <2>5. q \in Nat /\ v \in Nat /\ m \in Nat /\ p \in Nat /\ e \in Nat
    <3>1. /\ Cardinality(TookOf(o, {"minus"})) \in Nat /\ Cardinality(TookOf(o, {"add", "plus"})) \in Nat
          /\ Cardinality(EffectiveOf(o)) \in Nat
      BY SumsAreFinite
    <3>2. QED
      BY <2>1, <2>4, <3>1, QuantityTyped
  <2>6. q + m + e = p + v
    BY <2>3, <2>4 DEF AddedSoFar
  <2>7. q + m = p + v - e
    BY <2>5, <2>6
  <2>8. QED
    BY <2>7 DEF AddedUp
<1>2. QED
  BY <1>1, TapInvariant, PTL
=============================================================================
