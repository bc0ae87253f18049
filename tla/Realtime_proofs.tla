---------------------------- MODULE Realtime_proofs ----------------------------
(***************************************************************************)
(* Theorems about what keeps an open screen up to date.  First the kitchen *)
(* rail and its commands, KitchenCommands, for any orders, API instances,  *)
(* attempts, commands, dispatches and scenarios.  Then the rollout of the  *)
(* push transport: FeatureFlags by itself, for any handlers, patches,      *)
(* rollout positions and number of writes and of outages, and Rollout,     *)
(* whose steps are steps of FeatureFlags, with the connection store, for   *)
(* any screens, requests, latches and lost answers.  The two systems share *)
(* no variable.                                                            *)
(***************************************************************************)
EXTENDS KitchenCommands, Rollout, TLAPS

Command == [order: Orders, base: {1, 2}]

(* The consumers are behind the topic, which is as long as an order lives. *)
ServerInv ==
    /\ events \in [Orders -> Seq(Statuses)]
    /\ projected \in Rows /\ marked \in Rows
    /\ handling \in [Instances -> Hints \cup {NONE}]
    /\ \A o \in Orders : /\ Len(events[o]) <= LastVersion
                         /\ projected[o] <= Len(events[o])
                         /\ marked[o] <= Len(events[o])

LinkInv ==
    /\ link \in {"unopened", "loading", "down", "connected", "joined"}
    /\ inbox \in Seq(Hints)
    /\ bound \in Scenarios
    /\ faults \in 0..bound.faults

LoaderTyped ==
    /\ shown \in Rows /\ heard \in Rows /\ waived \in Rows
    /\ round \in [Loops -> Round \cup {NONE}]
    /\ queued \subseteq Hints
    /\ again \in BOOLEAN

(* Rows read since the rail was last replaced: they show no less than it,  *)
(* and no more than the table has by now.                                  *)
Recent(rows, rail, table) ==
    /\ rows \in Rows
    /\ \A o \in Orders : rail[o] <= rows[o] /\ rows[o] <= table[o]

RoundIsRecent(r, rail, table) ==
    /\ r.stage = "answered" \/ r.rows # NONE => Recent(r.rows, rail, table)
    /\ r.best # NONE => Recent(r.best, rail, table)

(* One loop runs at a time. *)
LoaderInv ==
    /\ Recent(shown, shown, Tickets)
    /\ \A k \in Loops : round[k] # NONE => RoundIsRecent(round[k], shown, Tickets)
    /\ \A k, j \in Loops : round[k] # NONE /\ round[j] # NONE => k = j

CommandTyped ==
    /\ command \in [Ids -> Command \cup {NONE}]
    /\ pending \in [Orders -> Ids \cup {NONE}]
    /\ disk \subseteq Ids /\ straying \subseteq Ids /\ unsaved \subseteq Ids
    /\ sent \subseteq Ids /\ settled \subseteq Ids
    /\ busy \subseteq Orders
    /\ restoring \in (SUBSET Ids) \cup {NONE}
    /\ applied \in [Ids -> Versions]

(* Whatever holds an id holds one that was minted. *)
MintedInv ==
    /\ \A id \in disk \cup straying : command[id] \in Command
    /\ \A o \in Orders : pending[o] # NONE => command[pending[o]] \in Command
    /\ restoring # NONE => \A id \in restoring : command[id] \in Command

(* A dispatch is of a command that was minted, and deletes one that is     *)
(* settled.                                                                *)
CallOK(r, commands, done) ==
    /\ r \in Call
    /\ commands[r.id] \in Command
    /\ r.stage = "deleting" => r.id \in done
    /\ r.answer = "APPLIED" => r.version # 0

CallsInv ==
    /\ call \in [Calls -> Call \cup {NONE}]
    /\ \A c \in Calls : call[c] # NONE => CallOK(call[c], command, settled)

(* The row of a command on the disk is all it takes, whatever the card     *)
(* shows.                                                                  *)
KeptInv == sent \ settled \subseteq disk \cup unsaved

CommandInv == CommandTyped /\ MintedInv /\ CallsInv /\ KeptInv

Inv == ServerInv /\ LinkInv /\ LoaderTyped /\ LoaderInv /\ CommandInv

----------------------------------------------------------------------------
(* The server *)

(* Versions are numbers. *)
LEMMA RowNumbers ==
    /\ \A v : v \in Versions <=> v \in Nat /\ v <= LastVersion
    /\ \A rows \in Rows, o \in Orders : rows[o] \in Nat /\ rows[o] <= LastVersion
    /\ \A rows \in Rows, o \in Orders, v \in Versions : [rows EXCEPT ![o] = v] \in Rows
    /\ LastVersion = 4
<1>1. \A v : v \in Versions <=> v \in Nat /\ v <= LastVersion
  BY DEF Versions, LastVersion
<1>2. \A rows \in Rows, o \in Orders : rows[o] \in Versions
  BY DEF Rows
<1>3. \A rows \in Rows, o \in Orders, v \in Versions : [rows EXCEPT ![o] = v] \in Rows
  BY DEF Rows
<1> QED  BY <1>1, <1>2, <1>3 DEF LastVersion

LEMMA InitInv == CommandsInit => Inv
<1> SUFFICES ASSUME CommandsInit PROVE Inv
  OBVIOUS
<1>i. RailInit
  BY DEF CommandsInit
<1>b. \A s \in Scenarios : s.faults \in Nat
  BY RailAssumption
<1>1. ServerInv
  BY <1>i DEF RailInit, ServerInv, Rows, Versions, LastVersion
<1>2. LinkInv
  BY <1>i, <1>b DEF RailInit, LinkInv
<1>3. LoaderTyped
  <2>1. [o \in Orders |-> 0] \in Rows
    BY DEF Rows, Versions, LastVersion
  <2>2. [k \in Loops |-> NONE] \in [Loops -> Round \cup {NONE}]
    OBVIOUS
  <2> QED  BY <1>i, <2>1, <2>2 DEF RailInit, LoaderTyped
<1>4. LoaderInv
  <2>1. shown = [o \in Orders |-> 0] /\ \A o \in Orders : Tickets[o] = 0
    BY <1>i DEF RailInit, Tickets, HasTicket
  <2>2. Recent(shown, shown, Tickets)
    BY <2>1 DEF Recent, Rows, Versions, LastVersion
  <2>3. \A k \in Loops : round[k] = NONE
    BY <1>i DEF RailInit
  <2> QED  BY <2>2, <2>3 DEF LoaderInv
<1>5. CommandTyped
  BY DEF CommandsInit, CommandTyped, Versions, LastVersion
<1>6. MintedInv /\ CallsInv /\ KeptInv
  BY DEF CommandsInit, MintedInv, CallsInv, KeptInv
<1> QED  BY <1>1, <1>2, <1>3, <1>4, <1>5, <1>6 DEF Inv, CommandInv

LEMMA AppendTyped ==
    ASSUME NEW s \in Seq(Statuses), NEW status \in Statuses
    PROVE  /\ Append(s, status) \in Seq(Statuses)
           /\ Len(Append(s, status)) = Len(s) + 1
           /\ s # <<>> => Append(s, status)[1] = s[1]
  OBVIOUS

(* What a step of the server never takes back. *)
Grown ==
    \A o \in Orders :
        /\ projected[o] <= projected'[o]
        /\ events[o] # <<>> => events'[o] # <<>> /\ events'[o][1] = events[o][1]

LEMMA SameServer ==
    ASSUME ServerInv, UNCHANGED <<events, projected>>
    PROVE  Grown
<1>1. \A o \in Orders : projected[o] \in Nat
  BY RowNumbers DEF ServerInv
<1> QED  BY <1>1 DEF Grown

(* One more event of an order, within its life. *)
LEMMA HappensServer ==
    ASSUME ServerInv, NEW o \in Orders, NEW status \in Statuses,
           Len(events[o]) < LastVersion, Happens(o, status),
           UNCHANGED <<projected, marked, handling>>
    PROVE  ServerInv' /\ Grown
<1>1. events \in [Orders -> Seq(Statuses)] /\ Len(events[o]) \in Nat
  BY DEF ServerInv
<1>2. /\ events' \in [Orders -> Seq(Statuses)]
      /\ Len(events'[o]) = Len(events[o]) + 1
      /\ \A p \in Orders \ {o} : events'[p] = events[p]
  BY <1>1, AppendTyped DEF Happens
<1>3. ASSUME NEW p \in Orders
      PROVE  /\ Len(events'[p]) <= LastVersion
             /\ projected[p] <= Len(events'[p])
             /\ marked[p] <= Len(events'[p])
  <2>1. projected[p] \in Nat /\ marked[p] \in Nat
    BY RowNumbers DEF ServerInv
  <2>2. /\ Len(events[p]) <= LastVersion /\ Len(events[p]) \in Nat
        /\ projected[p] <= Len(events[p])
        /\ marked[p] <= Len(events[p])
    BY DEF ServerInv
  <2> QED  BY <1>2, <2>1, <2>2, RowNumbers
<1>4. Grown
  <2>1. ASSUME NEW p \in Orders, events[p] # <<>>
        PROVE  events'[p] # <<>> /\ events'[p][1] = events[p][1]
    <3>1. CASE p = o
      <4>1. events'[o] = Append(events[o], status) /\ events[o] \in Seq(Statuses)
        BY <1>1 DEF Happens
      <4>2. Append(events[o], status) # <<>>
        BY <4>1
      <4> QED  BY <2>1, <3>1, <4>1, <4>2, AppendTyped
    <3>2. CASE p # o
      BY <1>2, <2>1, <3>2
    <3> QED  BY <3>1, <3>2
  <2>2. \A p \in Orders : projected[p] \in Nat
    BY RowNumbers DEF ServerInv
  <2> QED  BY <2>1, <2>2 DEF Grown
<1>5. ServerInv'
  BY <1>2, <1>3 DEF ServerInv
<1> QED  BY <1>4, <1>5

LEMMA EffectServer ==
    ASSUME ServerInv, NEW id \in Ids, command[id] \in Command, Effect(id),
           UNCHANGED <<projected, marked, handling>>
    PROVE  ServerInv' /\ Grown
<1>1. CASE ~Fits(id)
  BY <1>1, SameServer DEF Effect, ServerInv
<1>2. CASE Fits(id)
  <2>1. OrderOf(id) \in Orders /\ command[id].base \in {1, 2}
    BY DEF OrderOf, Command
  <2>2. NextStatus[command[id].base] \in Statuses
    BY <2>1 DEF NextStatus, Statuses
  <2>3. Len(events[OrderOf(id)]) < LastVersion
    BY <1>2, <2>1 DEF Fits, LastVersion
  <2> QED  BY <1>2, <2>1, <2>2, <2>3, HappensServer DEF Effect
<1> QED  BY <1>1, <1>2

LEMMA AdvanceServer ==
    ASSUME ServerInv, LinkInv, NEW o \in Orders, NEW status \in Statuses, Advance(o, status)
    PROVE  ServerInv' /\ Grown
<1>1. bound.versions[o] <= LastVersion /\ bound.versions[o] \in Nat
  BY RailAssumption DEF LinkInv, LastVersion
<1>2. Len(events[o]) < LastVersion
  BY <1>1 DEF Advance, ServerInv, LastVersion
<1> QED  BY <1>2, HappensServer DEF Advance

LEMMA ProjectServer ==
    ASSUME ServerInv, NEW o \in Orders, Project(o)
    PROVE  ServerInv' /\ Grown
<1>n. projected[o] \in Nat /\ Len(events[o]) \in Nat /\ Len(events[o]) <= LastVersion
  BY RowNumbers DEF ServerInv
<1>1. projected[o] + 1 \in Versions /\ projected[o] + 1 <= Len(events[o])
  BY <1>n, RowNumbers DEF Project
<1>2. ServerInv'
  BY <1>1 DEF ServerInv, Project, Rows
<1>3. Grown
  <2>1. \A p \in Orders : projected[p] \in Nat
    BY RowNumbers DEF ServerInv
  <2>2. projected \in [Orders -> Versions]
    BY DEF ServerInv, Rows
  <2>3. \A p \in Orders : projected'[p] = IF p = o THEN projected[o] + 1 ELSE projected[p]
    BY <2>2 DEF Project
  <2>4. events' = events
    BY DEF Project
  <2> QED  BY <2>1, <2>3, <2>4 DEF Grown
<1> QED  BY <1>2, <1>3

LEMMA MarkServer ==
    ASSUME ServerInv, NEW o \in Orders, NEW i \in Instances, Mark(i, o)
    PROVE  ServerInv' /\ Grown
<1>n. marked[o] \in Nat /\ Len(events[o]) \in Nat /\ Len(events[o]) <= LastVersion
  BY RowNumbers DEF ServerInv
<1>1. /\ marked[o] + 1 \in Versions /\ marked[o] + 1 <= Len(events[o])
      /\ [order |-> o, version |-> marked[o] + 1] \in Hints
  BY <1>n, RowNumbers DEF Mark, Hints
<1> QED  BY <1>1, SameServer DEF ServerInv, Mark, Rows

LEMMA ServerStepInv == Inv /\ [CommandsNext]_vars => ServerInv' /\ Grown
<1> SUFFICES ASSUME Inv, [CommandsNext]_vars PROVE ServerInv' /\ Grown
  OBVIOUS
<1>s. ServerInv /\ LinkInv
  BY DEF Inv
<1>u. ASSUME UNCHANGED serverVars PROVE ServerInv' /\ Grown
  BY <1>s, <1>u, SameServer DEF serverVars, ServerInv
<1>h. ASSUME NEW i \in Instances, handling' = [handling EXCEPT ![i] = NONE],
             UNCHANGED <<events, projected, marked>>
      PROVE  ServerInv' /\ Grown
  BY <1>s, <1>h, SameServer DEF ServerInv
<1>1. ASSUME NEW o \in Orders, Project(o) PROVE ServerInv' /\ Grown
  BY <1>s, <1>1, ProjectServer
<1>2. ASSUME NEW i \in Instances, Emit(i) \/ CrashInstance(i) PROVE ServerInv' /\ Grown
  BY <1>2, <1>h DEF Emit, CrashInstance
<1>3. ASSUME NEW i \in Instances, NEW o \in Orders, Mark(i, o) PROVE ServerInv' /\ Grown
  BY <1>s, <1>3, MarkServer
<1>4. ASSUME LoaderStep \/ SocketStep PROVE ServerInv' /\ Grown
  BY <1>4, <1>u DEF LoaderStep, SocketStep, ServeRead, TakeAnswer, TakeFailure, OpenRail, Connect,
                    Join, Hear
<1>5. ASSUME (\E k \in Loops : ReadFails(k)) \/ Drop PROVE ServerInv' /\ Grown
  BY <1>5, <1>u DEF ReadFails, Drop
<1>6. ASSUME NEW o \in Orders, NEW s \in Statuses, Advance(o, s) PROVE ServerInv' /\ Grown
  BY <1>s, <1>6, AdvanceServer
<1>7. ASSUME NEW c \in Calls, NEW o \in Orders, Press(c, o) \/ Retry(c, o) PROVE ServerInv' /\ Grown
  BY <1>7, <1>u DEF Press, Retry, Dispatch, railVars
<1>8. ASSUME NEW c \in Calls, Save(c) \/ Receive(c) \/ Delete(c) \/ Return(c) \/ Lose(c)
      PROVE  ServerInv' /\ Grown
  BY <1>8, <1>u DEF Save, Receive, Delete, Return, Lose, railVars
<1>9. ASSUME NEW c \in Calls, Process(c) PROVE ServerInv' /\ Grown
  <2>1. call[c] \in Call /\ command[call[c].id] \in Command
    BY <1>9 DEF Process, At, Inv, CommandInv, CallsInv, CallOK
  <2>2. call[c].id \in Ids
    BY <2>1 DEF Call
  <2> QED  BY <1>s, <1>9, <2>1, <2>2, EffectServer DEF Process
<1>10. ASSUME NEW id \in Ids, ProcessStray(id) PROVE ServerInv' /\ Grown
  <2>1. command[id] \in Command
    BY <1>10 DEF ProcessStray, Inv, CommandInv, MintedInv, CommandTyped
  <2> QED  BY <1>s, <1>10, <2>1, EffectServer DEF ProcessStray
<1>11. ASSUME NEW o \in Orders, Discard(o) PROVE ServerInv' /\ Grown
  BY <1>11, <1>u DEF Discard, railVars
<1>12. ASSUME ReadRows \/ Hydrate \/ Revisit \/ Reload PROVE ServerInv' /\ Grown
  BY <1>12, <1>u DEF ReadRows, Hydrate, Load, Revisit, Reload, railVars
<1>13. ASSUME UNCHANGED vars PROVE ServerInv' /\ Grown
  BY <1>13, <1>u DEF vars, railVars
<1> QED
  BY <1>1, <1>2, <1>3, <1>4, <1>5, <1>6, <1>7, <1>8, <1>9, <1>10, <1>11, <1>12, <1>13
     DEF CommandsNext, RailStep, ServerStep, RailFault, CallStep

----------------------------------------------------------------------------
(* The commands *)

(* A step that changes one dispatch keeps what the others say, as commands *)
(* stay minted and settled.                                                *)
LEMMA OneCall ==
    ASSUME CommandInv, NEW c \in Calls, NEW new \in Call \cup {NONE},
           call' = [call EXCEPT ![c] = new],
           new # NONE => CallOK(new, command', settled'),
           \A id \in Ids : command[id] \in Command => command'[id] \in Command,
           settled \subseteq settled'
    PROVE  CallsInv'
<1>1. call \in [Calls -> Call \cup {NONE}]
  BY DEF CommandInv, CallsInv
<1>2. /\ call' \in [Calls -> Call \cup {NONE}]
      /\ call'[c] = new /\ \A d \in Calls \ {c} : call'[d] = call[d]
  BY <1>1
<1>3. ASSUME NEW d \in Calls, d # c, call'[d] # NONE
      PROVE  CallOK(call'[d], command', settled')
  <2>1. call'[d] = call[d] /\ CallOK(call[d], command, settled)
    BY <1>2, <1>3 DEF CommandInv, CallsInv
  <2>2. call[d].id \in Ids
    BY <2>1 DEF CallOK, Call
  <2> QED  BY <2>1, <2>2 DEF CallOK
<1> QED  BY <1>2, <1>3 DEF CallsInv

LEMMA CallFields ==
    ASSUME CommandInv, NEW c \in Calls, call[c] # NONE
    PROVE  /\ call[c] \in Call
           /\ CallOK(call[c], command, settled)
           /\ call[c].id \in Ids
           /\ command[call[c].id] \in Command
           /\ OrderOf(call[c].id) \in Orders
           /\ command[call[c].id].base \in {1, 2}
           /\ call[c].version \in Versions
<1>1. CallOK(call[c], command, settled)
  BY DEF CommandInv, CallsInv
<1>2. call[c] \in Call /\ command[call[c].id] \in Command
  BY <1>1 DEF CallOK
<1> QED  BY <1>1, <1>2 DEF Call, Command, OrderOf

(* The next stage of a dispatch. *)
LEMMA ToStage ==
    ASSUME CommandInv, NEW c \in Calls, call[c] # NONE,
           NEW stage \in {"saving", "sending", "answered", "deleting", "loading"},
           To(c, stage), command' = command, settled \subseteq settled',
           stage = "deleting" => call[c].id \in settled'
    PROVE  CallsInv'
<1> DEFINE new == [call[c] EXCEPT !.stage = stage]
<1>1. CallOK(call[c], command, settled)
  BY CallFields
<1>2. new \in Call /\ new.id = call[c].id /\ new.stage = stage
      /\ new.answer = call[c].answer /\ new.version = call[c].version
  BY <1>1 DEF CallOK, Call
<1>3. CallOK(new, command', settled')
  BY <1>1, <1>2 DEF CallOK
<1>4. call' = [call EXCEPT ![c] = new]
  BY DEF To
<1> HIDE DEF new
<1> QED  BY <1>2, <1>3, <1>4, OneCall

LEMMA EndCall ==
    ASSUME CommandInv, NEW c \in Calls, call' = [call EXCEPT ![c] = NONE],
           command' = command, settled' = settled
    PROVE  CallsInv'
  BY OneCall

LEMMA DispatchCommands ==
    ASSUME CommandInv, NEW c \in Calls, NEW id \in Ids, NEW o \in Orders, Dispatch(c, id, o),
           command' \in [Ids -> Command \cup {NONE}],
           command'[id] \in Command,
           \A j \in Ids : command[j] \in Command => command'[j] \in Command
    PROVE  CommandInv'
<1> DEFINE new == [id |-> id, stage |-> "saving", answer |-> "NONE", version |-> 0,
                   current |-> TRUE]
<1>1. new \in Call /\ new.id = id /\ new.stage = "saving" /\ new.answer = "NONE"
  BY DEF Call, Versions, LastVersion
<1>2. CallOK(new, command', settled')
  BY <1>1 DEF CallOK
<1>3. call' = [call EXCEPT ![c] = new] /\ settled' = settled
  BY DEF Dispatch
<1> HIDE DEF new
<1>4. CallsInv'
  BY <1>1, <1>2, <1>3, OneCall
<1>5. /\ pending' = [pending EXCEPT ![o] = id]
      /\ busy' = busy \cup {o}
      /\ UNCHANGED <<disk, restoring, applied, straying, unsaved, sent, settled>>
  BY DEF Dispatch
<1>6. CommandTyped'
  BY <1>5 DEF CommandInv, CommandTyped
<1>7. MintedInv'
  <2>1. ASSUME NEW p \in Orders, pending'[p] # NONE PROVE command'[pending'[p]] \in Command
    <3>1. pending'[p] = IF p = o THEN id ELSE pending[p]
      BY <1>5 DEF CommandInv, CommandTyped
    <3>2. pending[p] # NONE => pending[p] \in Ids /\ command[pending[p]] \in Command
      BY DEF CommandInv, CommandTyped, MintedInv
    <3> QED  BY <2>1, <3>1, <3>2
  <2>2. /\ disk \cup straying \subseteq Ids
        /\ restoring # NONE => restoring \subseteq Ids
    BY DEF CommandInv, CommandTyped
  <2> QED  BY <1>5, <2>1, <2>2 DEF CommandInv, MintedInv
<1>8. KeptInv'
  BY <1>5 DEF CommandInv, KeptInv
<1> QED  BY <1>4, <1>6, <1>7, <1>8 DEF CommandInv

LEMMA PressCommands ==
    ASSUME CommandInv, NEW c \in Calls, NEW o \in Orders, Press(c, o), LinkInv
    PROVE  CommandInv'
<1>1. PICK id \in 1..bound.commands :
        /\ command[id] = NONE
        /\ command' = [command EXCEPT ![id] = [order |-> o, base |-> shown[o]]]
        /\ Dispatch(c, id, o)
  BY DEF Press
<1>2. id \in Ids
  BY CommandsAssumption, RailAssumption DEF LinkInv, Ids
<1>3. [order |-> o, base |-> shown[o]] \in Command
  BY DEF Press, Command
<1>4. /\ command' \in [Ids -> Command \cup {NONE}]
      /\ \A j \in Ids : command'[j] = IF j = id THEN [order |-> o, base |-> shown[o]] ELSE command[j]
  BY <1>1, <1>2, <1>3 DEF CommandInv, CommandTyped
<1> QED  BY <1>1, <1>2, <1>3, <1>4, DispatchCommands

LEMMA RetryCommands ==
    ASSUME CommandInv, NEW c \in Calls, NEW o \in Orders, Retry(c, o)
    PROVE  CommandInv'
<1>1. pending[o] \in Ids /\ command[pending[o]] \in Command
  BY DEF Retry, CommandInv, CommandTyped, MintedInv
<1>2. Dispatch(c, pending[o], o) /\ command' = command
  BY DEF Retry
<1>3. command \in [Ids -> Command \cup {NONE}]
  BY DEF CommandInv, CommandTyped
<1> QED  BY <1>1, <1>2, <1>3, DispatchCommands

LEMMA DiscardCommands ==
    ASSUME CommandInv, NEW o \in Orders, Discard(o)
    PROVE  CommandInv'
<1>1. pending[o] \in Ids
  BY DEF Discard, CommandInv, CommandTyped
<1>2. /\ pending' = [pending EXCEPT ![o] = NONE]
      /\ disk' = disk \ {pending[o]}
      /\ settled' = settled \cup {pending[o]}
      /\ UNCHANGED <<command, call, busy, restoring, applied, straying, unsaved, sent>>
  BY DEF Discard
<1>3. CommandTyped'
  BY <1>1, <1>2 DEF CommandInv, CommandTyped
<1>4. MintedInv'
  BY <1>1, <1>2 DEF CommandInv, MintedInv, CommandTyped
<1>5. CallsInv'
  BY <1>2 DEF CommandInv, CallsInv, CallOK
<1>6. KeptInv'
  BY <1>2 DEF CommandInv, KeptInv
<1> QED  BY <1>3, <1>4, <1>5, <1>6 DEF CommandInv

LEMMA SaveCommands ==
    ASSUME CommandInv, NEW c \in Calls, Save(c)
    PROVE  CommandInv'
<1>1. call[c] # NONE /\ call[c].id \in Ids /\ command[call[c].id] \in Command
  BY CallFields DEF Save, At
<1>2. /\ To(c, "sending")
      /\ sent' = sent \cup {call[c].id}
      /\ \/ disk' = disk \cup {call[c].id} /\ unsaved' = unsaved
         \/ disk' = disk /\ unsaved' = unsaved \cup {call[c].id}
      /\ UNCHANGED <<command, pending, busy, restoring, applied, straying, settled>>
  BY DEF Save
<1>3. CommandTyped'
  BY <1>1, <1>2 DEF CommandInv, CommandTyped
<1>4. MintedInv'
  BY <1>1, <1>2 DEF CommandInv, MintedInv
<1>5. CallsInv'
  BY <1>1, <1>2, ToStage
<1>6. KeptInv'
  BY <1>2 DEF CommandInv, KeptInv
<1> QED  BY <1>3, <1>4, <1>5, <1>6 DEF CommandInv

LEMMA EffectApplied ==
    ASSUME CommandInv, NEW id \in Ids, command[id] \in Command, Effect(id)
    PROVE  applied' \in [Ids -> Versions]
<1>1. applied \in [Ids -> Versions]
  BY DEF CommandInv, CommandTyped
<1>2. command[id].base + 1 \in Versions
  BY DEF Command, Versions, LastVersion
<1> QED  BY <1>1, <1>2 DEF Effect

LEMMA ProcessCommands ==
    ASSUME CommandInv, NEW c \in Calls, Process(c)
    PROVE  CommandInv'
<1> DEFINE id  == call[c].id
           new == [call[c] EXCEPT !.stage = "answered",
                                  !.answer = IF applied'[id] # 0 THEN "APPLIED" ELSE "CONFLICT",
                                  !.version = applied'[id]]
<1>1. call[c] # NONE
  BY DEF Process, At
<1>2. call[c] \in Call /\ id \in Ids /\ command[id] \in Command
  BY <1>1, CallFields
<1>3. applied' \in [Ids -> Versions]
  BY <1>2, EffectApplied DEF Process
<1>4. applied'[id] \in Versions
  BY <1>2, <1>3
<1>5. /\ new \in Call /\ new.id = id /\ new.stage = "answered"
      /\ new.answer = "APPLIED" => new.version # 0
  BY <1>2, <1>4 DEF Call
<1>6. /\ call' = [call EXCEPT ![c] = new]
      /\ UNCHANGED <<command, pending, disk, busy, restoring, straying, unsaved, sent, settled>>
  BY DEF Process
<1>7. CallOK(new, command', settled')
  BY <1>2, <1>5, <1>6 DEF CallOK
<1> HIDE DEF new, id
<1>8. CallsInv'
  BY <1>5, <1>6, <1>7, OneCall
<1>9. CommandTyped' /\ MintedInv' /\ KeptInv'
  BY <1>3, <1>6 DEF CommandInv, CommandTyped, MintedInv, KeptInv
<1> QED  BY <1>8, <1>9 DEF CommandInv

LEMMA StrayCommands ==
    ASSUME CommandInv, NEW id \in Ids, ProcessStray(id)
    PROVE  CommandInv'
<1>1. command[id] \in Command
  BY DEF ProcessStray, CommandInv, MintedInv, CommandTyped
<1>2. applied' \in [Ids -> Versions]
  BY <1>1, EffectApplied DEF ProcessStray
<1>3. /\ straying' \subseteq straying
      /\ UNCHANGED <<command, pending, disk, call, busy, restoring, unsaved, sent, settled>>
  BY DEF ProcessStray, displayVars
<1>4. CommandTyped' /\ MintedInv' /\ KeptInv'
  BY <1>2, <1>3 DEF CommandInv, CommandTyped, MintedInv, KeptInv
<1>5. CallsInv'
  BY <1>3 DEF CommandInv, CallsInv, CallOK
<1> QED  BY <1>4, <1>5 DEF CommandInv

LEMMA LoseCommands ==
    ASSUME CommandInv, NEW c \in Calls, Lose(c)
    PROVE  CommandInv'
<1>1. call[c] # NONE /\ call[c].id \in Ids /\ command[call[c].id] \in Command
  BY CallFields DEF Lose, At
<1>2. /\ straying' \subseteq straying \cup {call[c].id}
      /\ call' = [call EXCEPT ![c] = NONE]
      /\ busy' \subseteq busy
      /\ UNCHANGED <<command, pending, disk, restoring, applied, unsaved, sent, settled>>
  BY DEF Lose, Forgotten, Released
<1>3. CommandTyped' /\ MintedInv' /\ KeptInv'
  BY <1>1, <1>2 DEF CommandInv, CommandTyped, MintedInv, KeptInv
<1>4. CallsInv'
  BY <1>2, EndCall
<1> QED  BY <1>3, <1>4 DEF CommandInv

LEMMA ReceiveCommands ==
    ASSUME CommandInv, NEW c \in Calls, Receive(c)
    PROVE  CommandInv'
<1>1. call[c] # NONE /\ call[c].id \in Ids /\ OrderOf(call[c].id) \in Orders
  BY CallFields DEF Receive, At
<1>2. /\ To(c, "deleting")
      /\ pending' = [pending EXCEPT ![OrderOf(call[c].id)] = NONE]
      /\ settled' = settled \cup {call[c].id}
      /\ UNCHANGED <<command, disk, busy, restoring, applied, straying, unsaved, sent>>
  BY DEF Receive
<1>3. CommandTyped'
  BY <1>1, <1>2 DEF CommandInv, CommandTyped
<1>4. MintedInv'
  BY <1>1, <1>2 DEF CommandInv, MintedInv, CommandTyped
<1>5. CallsInv'
  BY <1>1, <1>2, ToStage
<1>6. KeptInv'
  BY <1>2 DEF CommandInv, KeptInv
<1> QED  BY <1>3, <1>4, <1>5, <1>6 DEF CommandInv

LEMMA DeleteCommands ==
    ASSUME CommandInv, NEW c \in Calls, Delete(c)
    PROVE  CommandInv'
<1>1. /\ call[c] # NONE
      /\ call[c].stage = "deleting"
  BY DEF Delete, At
<1>2. call[c].id \in settled
  BY <1>1, CallFields DEF CallOK
<1>3. /\ To(c, "loading")
      /\ disk' = disk \ {call[c].id}
      /\ UNCHANGED <<command, pending, busy, restoring, applied, straying, unsaved, sent, settled>>
  BY DEF Delete
<1>4. CommandTyped' /\ MintedInv' /\ KeptInv'
  BY <1>2, <1>3 DEF CommandInv, CommandTyped, MintedInv, KeptInv
<1>5. CallsInv'
  BY <1>1, <1>3, ToStage
<1> QED  BY <1>4, <1>5 DEF CommandInv

LEMMA ReturnCommands ==
    ASSUME CommandInv, NEW c \in Calls, Return(c)
    PROVE  CommandInv'
<1>1. /\ call' = [call EXCEPT ![c] = NONE]
      /\ busy' \subseteq busy
      /\ UNCHANGED <<command, pending, disk, restoring, applied, straying, unsaved, sent, settled>>
  BY DEF Return, Released
<1>2. CommandTyped' /\ MintedInv' /\ KeptInv'
  BY <1>1 DEF CommandInv, CommandTyped, MintedInv, KeptInv
<1>3. CallsInv'
  BY <1>1, EndCall
<1> QED  BY <1>2, <1>3 DEF CommandInv

LEMMA ReadRowsCommands ==
    ASSUME CommandInv, ReadRows
    PROVE  CommandInv'
<1>1. /\ restoring' = disk
      /\ UNCHANGED <<command, pending, disk, call, busy, applied, straying, unsaved, sent, settled>>
  BY DEF ReadRows
<1> QED  BY <1>1 DEF CommandInv, CommandTyped, MintedInv, CallsInv, CallOK, KeptInv

LEMMA HydrateCommands ==
    ASSUME CommandInv, Hydrate
    PROVE  CommandInv'
<1>1. /\ pending' \in [Orders -> Ids \cup {NONE}]
      /\ \A o \in Orders : pending'[o] \in Restored(o)
      /\ restoring # NONE /\ restoring' = NONE
      /\ UNCHANGED <<command, disk, call, busy, applied, straying, unsaved, sent, settled>>
  BY DEF Hydrate
<1>2. ASSUME NEW o \in Orders, pending'[o] # NONE PROVE command[pending'[o]] \in Command
  <2>1. pending'[o] \in restoring \/ pending'[o] = pending[o]
    BY <1>1 DEF Restored
  <2> QED  BY <1>1, <1>2, <2>1 DEF CommandInv, MintedInv
<1>3. CommandTyped' /\ MintedInv' /\ KeptInv'
  BY <1>1, <1>2 DEF CommandInv, CommandTyped, MintedInv, KeptInv
<1>4. CallsInv'
  BY <1>1 DEF CommandInv, CallsInv, CallOK
<1> QED  BY <1>3, <1>4 DEF CommandInv

LEMMA RevisitCommands ==
    ASSUME CommandInv, Revisit
    PROVE  CommandInv'
<1>1. /\ busy' = {} /\ restoring' = NONE
      /\ UNCHANGED <<command, pending, disk, applied, straying, unsaved, sent, settled>>
      /\ call' = [c \in Calls |->
                    IF call[c] = NONE THEN NONE ELSE [call[c] EXCEPT !.current = FALSE]]
  BY DEF Revisit, Unmounted
<1>2. ASSUME NEW c \in Calls, call[c] # NONE
      PROVE  CallOK([call[c] EXCEPT !.current = FALSE], command, settled)
  BY <1>2, CallFields DEF CallOK, Call
<1>3. CallsInv'
  BY <1>1, <1>2 DEF CallsInv, CallOK
<1>4. CommandTyped' /\ MintedInv' /\ KeptInv'
  BY <1>1 DEF CommandInv, CommandTyped, MintedInv, KeptInv
<1> QED  BY <1>3, <1>4 DEF CommandInv

LEMMA ReloadCommands ==
    ASSUME CommandInv, Reload
    PROVE  CommandInv'
<1>1. /\ busy' = {} /\ restoring' = NONE
      /\ straying' = straying \cup {call[c].id : c \in {d \in Calls : At(d, "sending")}}
      /\ call' = [c \in Calls |-> NONE]
      /\ pending' = [o \in Orders |-> NONE]
      /\ UNCHANGED <<command, disk, applied, unsaved, sent, settled>>
  BY DEF Reload, Unmounted
<1>2. ASSUME NEW id \in straying' PROVE id \in Ids /\ command[id] \in Command
  <2>1. ASSUME NEW c \in Calls, At(c, "sending"), id = call[c].id
        PROVE  id \in Ids /\ command[id] \in Command
    BY <2>1, CallFields DEF At
  <2> QED  BY <1>1, <1>2, <2>1 DEF CommandInv, CommandTyped, MintedInv
<1>3. CommandTyped' /\ MintedInv' /\ KeptInv'
  BY <1>1, <1>2 DEF CommandInv, CommandTyped, MintedInv, KeptInv
<1>4. CallsInv'
  BY <1>1 DEF CallsInv
<1> QED  BY <1>3, <1>4 DEF CommandInv

LEMMA CommandStepInv == Inv /\ [CommandsNext]_vars => CommandInv'
<1> SUFFICES ASSUME Inv, [CommandsNext]_vars PROVE CommandInv'
  OBVIOUS
<1>s. CommandInv /\ LinkInv
  BY DEF Inv
<1>u. ASSUME UNCHANGED commandVars PROVE CommandInv'
  BY <1>s, <1>u DEF commandVars, displayVars, CommandInv, CommandTyped, MintedInv, CallsInv,
                    CallOK, KeptInv
<1>1. ASSUME NEW c \in Calls, NEW o \in Orders, Press(c, o) \/ Retry(c, o) PROVE CommandInv'
  BY <1>s, <1>1, PressCommands, RetryCommands
<1>2. ASSUME NEW c \in Calls, Save(c) \/ CallStep(c) \/ Lose(c) PROVE CommandInv'
  BY <1>s, <1>2, SaveCommands, ProcessCommands, ReceiveCommands, DeleteCommands,
     ReturnCommands, LoseCommands DEF CallStep
<1>3. ASSUME NEW o \in Orders, Discard(o) PROVE CommandInv'
  BY <1>s, <1>3, DiscardCommands
<1>4. ASSUME NEW id \in Ids, ProcessStray(id) PROVE CommandInv'
  BY <1>s, <1>4, StrayCommands
<1>5. ASSUME ReadRows \/ Hydrate \/ Revisit \/ Reload PROVE CommandInv'
  BY <1>s, <1>5, ReadRowsCommands, HydrateCommands, RevisitCommands, ReloadCommands
<1>6. CASE UNCHANGED vars
  BY <1>6, <1>u DEF vars
<1> QED
  BY <1>1, <1>2, <1>3, <1>4, <1>5, <1>6, <1>u DEF CommandsNext, RailStep

----------------------------------------------------------------------------
(* The socket and the faults *)

LEMMA FaultBounded ==
    ASSUME LinkInv, bound' = bound, Fault \/ faults' = faults
    PROVE  bound' \in Scenarios /\ faults' \in 0..bound'.faults
<1>1. bound.faults \in Nat
  BY RailAssumption DEF LinkInv
<1> QED  BY <1>1 DEF LinkInv, Fault

LEMMA LinkStepInv == Inv /\ [CommandsNext]_vars => LinkInv'
<1> SUFFICES ASSUME Inv, [CommandsNext]_vars PROVE LinkInv'
  OBVIOUS
<1>s. LinkInv /\ ServerInv
  BY DEF Inv
<1>k. ASSUME UNCHANGED <<link, inbox, bound>>, Fault \/ faults' = faults PROVE LinkInv'
  BY <1>s, <1>k, FaultBounded DEF LinkInv
<1>i. ASSUME bound' = bound, Fault \/ faults' = faults,
             link' \in {"unopened", "loading", "down", "connected", "joined"},
             inbox' \in Seq(Hints)
      PROVE  LinkInv'
  BY <1>s, <1>i, FaultBounded DEF LinkInv
<1>q. inbox \in Seq(Hints) /\ <<>> \in Seq(Hints)
      /\ link \in {"unopened", "loading", "down", "connected", "joined"}
  BY <1>s DEF LinkInv
<1>1. ASSUME NEW o \in Orders, Project(o) PROVE LinkInv'
  BY <1>1, <1>k DEF Project
<1>2. ASSUME NEW i \in Instances, NEW o \in Orders, Mark(i, o) PROVE LinkInv'
  BY <1>2, <1>k DEF Mark
<1>3. ASSUME NEW i \in Instances, Emit(i) PROVE LinkInv'
  <2>1. handling[i] \in Hints
    BY <1>s, <1>3 DEF ServerInv, Emit
  <2>2. inbox' \in Seq(Hints)
    BY <1>3, <1>q, <2>1 DEF Emit
  <2> QED  BY <1>3, <1>q, <1>i, <2>2 DEF Emit
<1>4. ASSUME NEW i \in Instances, CrashInstance(i) PROVE LinkInv'
  BY <1>4, <1>k DEF CrashInstance
<1>5. ASSUME LoaderStep PROVE LinkInv'
  BY <1>5, <1>k DEF LoaderStep, ServeRead, TakeAnswer, TakeFailure
<1>6. ASSUME NEW k \in Loops, ReadFails(k) PROVE LinkInv'
  BY <1>6, <1>k DEF ReadFails
<1>7. ASSUME OpenRail \/ Connect \/ Join PROVE LinkInv'
  BY <1>7, <1>i, <1>q DEF OpenRail, Connect, Join
<1>8. ASSUME Hear PROVE LinkInv'
  <2>1. inbox' \in Seq(Hints)
    BY <1>8, <1>q DEF Hear
  <2> QED  BY <1>8, <1>q, <1>i, <2>1 DEF Hear
<1>9. ASSUME Drop PROVE LinkInv'
  BY <1>9, <1>i, <1>q DEF Drop
<1>10. ASSUME NEW o \in Orders, NEW s \in Statuses, Advance(o, s) PROVE LinkInv'
  BY <1>10, <1>k DEF Advance
<1>11. ASSUME NEW c \in Calls, NEW o \in Orders, Press(c, o) \/ Retry(c, o) PROVE LinkInv'
  BY <1>11, <1>k DEF Press, Retry, Dispatch, railVars
<1>12. ASSUME NEW c \in Calls, Save(c) \/ Lose(c) PROVE LinkInv'
  BY <1>12, <1>k DEF Save, Lose
<1>13. ASSUME NEW c \in Calls, CallStep(c) PROVE LinkInv'
  BY <1>13, <1>k DEF CallStep, Process, Receive, Delete, Return, railVars
<1>14. ASSUME NEW o \in Orders, Discard(o) PROVE LinkInv'
  BY <1>14, <1>k DEF Discard, railVars
<1>15. ASSUME NEW id \in Ids, ProcessStray(id) PROVE LinkInv'
  BY <1>15, <1>k DEF ProcessStray
<1>16. ASSUME ReadRows PROVE LinkInv'
  BY <1>16, <1>k DEF ReadRows, railVars
<1>17. ASSUME Hydrate PROVE LinkInv'
  BY <1>17, <1>i, <1>q DEF Hydrate, Load
<1>18. ASSUME Revisit \/ Reload PROVE LinkInv'
  BY <1>18, <1>i, <1>q DEF Revisit, Reload, Unmounted
<1>19. ASSUME UNCHANGED vars PROVE LinkInv'
  BY <1>19, <1>k DEF vars, railVars
<1> QED
  BY <1>1, <1>2, <1>3, <1>4, <1>5, <1>6, <1>7, <1>8, <1>9, <1>10, <1>11, <1>12, <1>13, <1>14,
     <1>15, <1>16, <1>17, <1>18, <1>19
     DEF CommandsNext, RailStep, ServerStep, SocketStep, RailFault

----------------------------------------------------------------------------
(* The loader *)

LEMMA TicketsGrow ==
    ASSUME ServerInv, Grown, ServerInv'
    PROVE  /\ \A o \in Orders : Tickets[o] <= Tickets'[o]
           /\ Tickets \in Rows
<1>1. ASSUME NEW o \in Orders
      PROVE  Tickets[o] <= Tickets'[o] /\ Tickets[o] \in Versions
  <2>1. projected[o] \in Versions /\ projected[o] \in Nat /\ projected'[o] \in Nat
    BY RowNumbers DEF ServerInv
  <2>2. projected[o] <= projected'[o] /\ (HasTicket(o) => HasTicket(o)')
    BY DEF Grown, HasTicket
  <2>3. /\ Tickets[o] = IF HasTicket(o) THEN projected[o] ELSE 0
        /\ Tickets'[o] = IF HasTicket(o)' THEN projected'[o] ELSE 0
    BY DEF Tickets
  <2>4. 0 \in Versions
    BY RowNumbers
  <2> QED  BY <2>1, <2>2, <2>3, <2>4
<1>2. Tickets = [o \in Orders |-> Tickets[o]]
  BY DEF Tickets
<1> QED  BY <1>1, <1>2 DEF Rows

(* Rows stay recent while the table grows and the rail stays. *)
LEMMA RecentKept ==
    ASSUME NEW rows, NEW rail \in Rows, NEW table \in Rows, NEW later \in Rows,
           \A o \in Orders : table[o] <= later[o],
           Recent(rows, rail, table)
    PROVE  Recent(rows, rail, later)
<1>1. \A o \in Orders : rows[o] \in Nat /\ rail[o] \in Nat /\ table[o] \in Nat /\ later[o] \in Nat
  BY RowNumbers DEF Recent
<1> QED  BY <1>1 DEF Recent

LEMMA LoaderKept ==
    ASSUME LoaderTyped, LoaderInv, NEW later \in Rows, Tickets \in Rows,
           \A o \in Orders : Tickets[o] <= later[o]
    PROVE  /\ Recent(shown, shown, later)
           /\ \A k \in Loops : round[k] # NONE => RoundIsRecent(round[k], shown, later)
<1>1. shown \in Rows
  BY DEF LoaderTyped
<1>2. \A rows : Recent(rows, shown, Tickets) => Recent(rows, shown, later)
  BY <1>1, RecentKept
<1> QED  BY <1>2 DEF LoaderInv, RoundIsRecent

LEMMA NewRoundFits ==
    ASSUME NEW batch \in SUBSET Hints, NEW rail, NEW table
    PROVE  /\ NewRound(batch) \in Round
           /\ RoundIsRecent(NewRound(batch), rail, table)
<1>1. NewRound(batch) \in Round
  BY RailAssumption DEF NewRound, Round
<1> QED  BY <1>1 DEF NewRound, RoundIsRecent

(* The loop that runs, if any, is the only one. *)
LEMMA OneRound ==
    ASSUME LoaderTyped, LoaderInv, NEW k \in Loops, NEW new \in Round \cup {NONE},
           round[k] # NONE \/ ~Running,
           round' = [round EXCEPT ![k] = new],
           Recent(shown', shown', Tickets'),
           new # NONE => RoundIsRecent(new, shown', Tickets')
    PROVE  LoaderInv' /\ round' \in [Loops -> Round \cup {NONE}]
<1>1. round \in [Loops -> Round \cup {NONE}]
  BY DEF LoaderTyped
<1>2. /\ round' \in [Loops -> Round \cup {NONE}]
      /\ \A j \in Loops : round'[j] = IF j = k THEN new ELSE round[j]
  BY <1>1
<1>3. \A j \in Loops \ {k} : round[j] = NONE
  BY DEF LoaderInv, Running
<1> QED  BY <1>2, <1>3 DEF LoaderInv

LEMMA RunLoads ==
    ASSUME LoaderTyped, LoaderInv, NEW batch \in SUBSET Hints, Run(batch), shown' = shown,
           Tickets \in Rows, Tickets' \in Rows, \A o \in Orders : Tickets[o] <= Tickets'[o]
    PROVE  /\ LoaderInv'
           /\ round' \in [Loops -> Round \cup {NONE}]
           /\ queued' \subseteq Hints
           /\ again' \in BOOLEAN
<1>1. /\ Recent(shown, shown, Tickets')
      /\ \A k \in Loops : round[k] # NONE => RoundIsRecent(round[k], shown, Tickets')
  BY LoaderKept
<1>2. CASE Busy /\ UNCHANGED round /\ queued' = queued \cup batch /\ again' = TRUE
  BY <1>1, <1>2 DEF LoaderTyped, LoaderInv
<1>3. CASE ~Busy
  <2> DEFINE k == CHOOSE j \in Loops : round[j] = NONE /\ \A h \in 1..(j - 1) : round[h] # NONE
  <2>1. k \in Loops
    <3>1. 1 \in Loops /\ 1..(1 - 1) = {}
      BY DEF Loops
    <3>2. round[1] = NONE
      BY <1>3, <3>1 DEF Busy, Running
    <3>3. \E j \in Loops : round[j] = NONE /\ \A h \in 1..(j - 1) : round[h] # NONE
      BY <3>1, <3>2
    <3> QED  BY <3>3
  <2>2. /\ round' = [round EXCEPT ![k] = NewRound(queued \cup batch)]
        /\ queued' = {} /\ again' = FALSE
    BY <1>3 DEF Run
  <2> HIDE DEF k
  <2>3. queued \cup batch \in SUBSET Hints
    BY DEF LoaderTyped
  <2>4. /\ NewRound(queued \cup batch) \in Round
        /\ RoundIsRecent(NewRound(queued \cup batch), shown', Tickets')
    BY <2>3, NewRoundFits
  <2>5. ~Running
    BY <1>3 DEF Busy
  <2> QED  BY <1>1, <2>1, <2>2, <2>4, <2>5, OneRound
<1> QED  BY <1>2, <1>3 DEF Run

LEMMA EndRoundLoads ==
    ASSUME LoaderTyped, LoaderInv, NEW k \in Loops, round[k] # NONE, EndRound(k),
           Recent(shown', shown', Tickets')
    PROVE  /\ LoaderInv'
           /\ round' \in [Loops -> Round \cup {NONE}]
           /\ queued' \subseteq Hints
           /\ again' \in BOOLEAN
<1> DEFINE new == IF More THEN NewRound(queued) ELSE NONE
<1>1. queued \in SUBSET Hints
  BY DEF LoaderTyped
<1>2. /\ new \in Round \cup {NONE}
      /\ new # NONE => RoundIsRecent(new, shown', Tickets')
  BY <1>1, NewRoundFits
<1>3. round' = [round EXCEPT ![k] = new] /\ queued' = {} /\ again' = FALSE
  BY DEF EndRound
<1> HIDE DEF new
<1> QED  BY <1>2, <1>3, OneRound

LEMMA GivenUpTyped ==
    ASSUME LoaderTyped, NEW batch \in SUBSET Hints
    PROVE  GivenUp(batch) \in Rows
<1>1. ASSUME NEW o \in Orders
      PROVE  GivenUp(batch)[o] \in Versions
  <2> DEFINE versions == {waived[o]} \cup {e.version : e \in {b \in batch : b.order = o}}
  <2>1. versions \in SUBSET (0..4) /\ versions # {}
    <3>1. waived[o] \in 0..4
      BY RowNumbers DEF LoaderTyped
    <3>2. \A e \in batch : e.version \in 0..4
      BY RowNumbers DEF Hints
    <3> QED  BY <3>1, <3>2
  <2>2. GivenUp(batch)[o] = CHOOSE v \in versions : \A w \in versions : v >= w
    BY DEF GivenUp
  <2> HIDE DEF versions
  <2>3. \E v \in versions : \A w \in versions : v >= w
    <3>1. \A w \in versions : w \in Nat /\ w <= 4
      BY <2>1
    <3>2. ASSUME NEW v \in versions, \A w \in versions : v >= w
          PROVE  \E u \in versions : \A w \in versions : u >= w
      BY <3>2
    <3>3. CASE 4 \in versions
      BY <3>1, <3>2, <3>3
    <3>4. CASE 4 \notin versions /\ 3 \in versions
      BY <3>1, <3>2, <3>4
    <3>5. CASE 4 \notin versions /\ 3 \notin versions /\ 2 \in versions
      BY <3>1, <3>2, <3>5
    <3>6. CASE 4 \notin versions /\ 3 \notin versions /\ 2 \notin versions /\ 1 \in versions
      BY <3>1, <3>2, <3>6
    <3>7. CASE 4 \notin versions /\ 3 \notin versions /\ 2 \notin versions /\ 1 \notin versions
      <4>1. \A w \in versions : w = 0
        BY <3>1, <3>7
      <4>2. 0 \in versions
        BY <2>1, <4>1
      <4> QED  BY <3>2, <4>1, <4>2
    <3> QED  BY <3>3, <3>4, <3>5, <3>6, <3>7
  <2>4. GivenUp(batch)[o] \in versions
    BY <2>2, <2>3
  <2> QED  BY <2>1, <2>4 DEF Versions, LastVersion
<1>2. GivenUp(batch) = [o \in Orders |-> GivenUp(batch)[o]]
  BY DEF GivenUp
<1> QED  BY <1>1, <1>2 DEF Rows

LoaderStays == UNCHANGED <<loaderVars, heard>>

(* The steps of the loader itself: the table does not move. *)
LEMMA ServeReadLoads ==
    ASSUME LoaderTyped, LoaderInv, Tickets \in Rows, Tickets' = Tickets,
           NEW k \in Loops, ServeRead(k)
    PROVE  LoaderTyped' /\ LoaderInv'
<1> DEFINE new == [round[k] EXCEPT !.stage = "answered", !.rows = Tickets]
<1>1. round[k] # NONE /\ round[k] \in Round
  BY DEF ServeRead, LoaderTyped
<1>2. /\ new \in Round
      /\ new.rows = Tickets /\ new.best = round[k].best
  BY <1>1 DEF Round
<1>3. Recent(Tickets, shown, Tickets)
  <2>1. \A o \in Orders : Tickets[o] \in Nat /\ shown[o] <= Tickets[o]
    BY RowNumbers DEF LoaderInv, Recent
  <2> QED  BY <2>1 DEF Recent
<1>4. RoundIsRecent(new, shown, Tickets)
  BY <1>1, <1>2, <1>3 DEF RoundIsRecent, LoaderInv
<1>5. /\ round' = [round EXCEPT ![k] = new]
      /\ UNCHANGED <<shown, queued, again, waived, heard>>
  BY DEF ServeRead
<1> HIDE DEF new
<1>6. LoaderInv' /\ round' \in [Loops -> Round \cup {NONE}]
  BY <1>1, <1>2, <1>4, <1>5, OneRound DEF LoaderInv
<1> QED  BY <1>5, <1>6 DEF LoaderTyped

LEMMA ReadFailsLoads ==
    ASSUME LoaderTyped, LoaderInv, Tickets' = Tickets,
           NEW k \in Loops, ReadFails(k)
    PROVE  LoaderTyped' /\ LoaderInv'
<1> DEFINE new == [round[k] EXCEPT !.stage = "failed"]
<1>1. round[k] # NONE /\ round[k] \in Round
  BY DEF ReadFails, LoaderTyped
<1>2. /\ new \in Round /\ new.stage = "failed"
      /\ new.rows = round[k].rows /\ new.best = round[k].best
  BY <1>1 DEF Round
<1>4. RoundIsRecent(new, shown, Tickets)
  BY <1>1, <1>2 DEF RoundIsRecent, LoaderInv
<1>5. /\ round' = [round EXCEPT ![k] = new]
      /\ UNCHANGED <<shown, queued, again, waived, heard>>
  BY DEF ReadFails
<1> HIDE DEF new
<1>6. LoaderInv' /\ round' \in [Loops -> Round \cup {NONE}]
  BY <1>1, <1>2, <1>4, <1>5, OneRound DEF LoaderInv
<1> QED  BY <1>5, <1>6 DEF LoaderTyped

LEMMA ReadAgainLoads ==
    ASSUME LoaderTyped, LoaderInv, Tickets' = Tickets, heard' = heard,
           NEW k \in Loops, round[k] # NONE, ReadAgain(k)
    PROVE  LoaderTyped' /\ LoaderInv'
<1> DEFINE best == IF round[k].rows # NONE THEN round[k].rows ELSE round[k].best
           new  == [round[k] EXCEPT !.left = round[k].left - 1, !.stage = "asked", !.rows = NONE,
                                    !.best = best]
<1>1. round[k] \in Round /\ RoundIsRecent(round[k], shown, Tickets)
  BY DEF LoaderTyped, LoaderInv
<1>2. /\ round[k].left - 1 \in 1..Attempts
      /\ best \in Rows \cup {NONE}
  BY <1>1, RailAssumption DEF Round, ReadAgain
<1>3. /\ new \in Round /\ new.stage = "asked" /\ new.rows = NONE
      /\ new.best = best
  BY <1>1, <1>2 DEF Round
<1>4. best # NONE => Recent(best, shown, Tickets)
  BY <1>1 DEF RoundIsRecent
<1>5. /\ round' = [round EXCEPT ![k] = new]
      /\ UNCHANGED <<shown, queued, again, waived, heard>>
  BY DEF ReadAgain
<1> HIDE DEF new, best
<1>6. RoundIsRecent(new, shown, Tickets)
  BY <1>3, <1>4 DEF RoundIsRecent
<1>7. LoaderInv' /\ round' \in [Loops -> Round \cup {NONE}]
  BY <1>3, <1>5, <1>6, OneRound DEF LoaderInv
<1> QED  BY <1>5, <1>7 DEF LoaderTyped

LEMMA AppliedLoads ==
    ASSUME LoaderTyped, LoaderInv, Tickets' = Tickets, heard' = heard,
           NEW k \in Loops, round[k] # NONE, NEW rows, Recent(rows, shown, Tickets),
           NEW converged, Applied(k, rows, converged)
    PROVE  LoaderTyped' /\ LoaderInv' /\ \A o \in Orders : shown[o] <= shown'[o]
<1>1. shown' = rows /\ EndRound(k)
  BY DEF Applied
<1>2. Recent(rows, rows, Tickets)
  <2>1. rows \in Rows
    BY DEF Recent
  <2>2. \A o \in Orders : rows[o] \in Nat
    BY <2>1, RowNumbers
  <2> QED  BY <2>2 DEF Recent
<1>3. LoaderInv' /\ round' \in [Loops -> Round \cup {NONE}] /\ queued' \subseteq Hints
      /\ again' \in BOOLEAN
  BY <1>1, <1>2, EndRoundLoads
<1>4. waived' \in Rows
  <2>1. round[k].batch \in SUBSET Hints
    BY DEF LoaderTyped, Round
  <2> QED  BY <2>1, GivenUpTyped DEF Applied, LoaderTyped
<1> QED  BY <1>1, <1>3, <1>4 DEF LoaderTyped, Recent

LEMMA ReportedLoads ==
    ASSUME LoaderTyped, LoaderInv, Tickets' = Tickets, heard' = heard,
           NEW k \in Loops, round[k] # NONE, Reported(k)
    PROVE  LoaderTyped' /\ LoaderInv'
<1>1. shown' = shown /\ EndRound(k) /\ waived' = GivenUp(round[k].batch)
  BY DEF Reported
<1>2. Recent(shown', shown', Tickets')
  BY <1>1 DEF LoaderInv
<1>3. LoaderInv' /\ round' \in [Loops -> Round \cup {NONE}] /\ queued' \subseteq Hints
      /\ again' \in BOOLEAN
  BY <1>1, <1>2, EndRoundLoads
<1>4. waived' \in Rows
  <2>1. round[k].batch \in SUBSET Hints
    BY DEF LoaderTyped, Round
  <2> QED  BY <1>1, <2>1, GivenUpTyped
<1> QED  BY <1>1, <1>3, <1>4 DEF LoaderTyped

(* What the rail shows after a step, unless the page was reloaded. *)
Forward == \A o \in Orders : shown[o] <= shown'[o]

LEMMA SameRail ==
    ASSUME LoaderTyped, shown' = shown
    PROVE  Forward
<1>1. \A o \in Orders : shown[o] \in Nat
  BY RowNumbers DEF LoaderTyped
<1> QED  BY <1>1 DEF Forward

LEMMA TakeLoads ==
    ASSUME LoaderTyped, LoaderInv, Tickets' = Tickets,
           NEW k \in Loops, TakeAnswer(k) \/ TakeFailure(k)
    PROVE  LoaderTyped' /\ LoaderInv' /\ Forward
<1>1. round[k] # NONE /\ heard' = heard /\ RoundIsRecent(round[k], shown, Tickets)
  BY DEF TakeAnswer, TakeFailure, LoaderInv
<1>2. CASE ReadAgain(k)
  BY <1>1, <1>2, ReadAgainLoads, SameRail DEF ReadAgain
<1>3. CASE Reported(k)
  BY <1>1, <1>3, ReportedLoads, SameRail DEF Reported
<1>4. ASSUME NEW converged, round[k].stage = "answered", Applied(k, round[k].rows, converged)
      PROVE  LoaderTyped' /\ LoaderInv' /\ Forward
  <2>1. Recent(round[k].rows, shown, Tickets)
    BY <1>1, <1>4 DEF RoundIsRecent
  <2> QED  BY <1>1, <1>4, <2>1, AppliedLoads DEF Forward
<1>5. ASSUME round[k].best # NONE, Applied(k, round[k].best, FALSE)
      PROVE  LoaderTyped' /\ LoaderInv' /\ Forward
  <2>1. Recent(round[k].best, shown, Tickets)
    BY <1>1, <1>5 DEF RoundIsRecent
  <2> QED  BY <1>1, <1>5, <2>1, AppliedLoads DEF Forward
<1> QED
  BY <1>2, <1>3, <1>4, <1>5 DEF TakeAnswer, TakeFailure

LEMMA StaysLoads ==
    ASSUME LoaderTyped, LoaderInv, UNCHANGED <<loaderVars, heard>>,
           Tickets \in Rows, Tickets' \in Rows, \A o \in Orders : Tickets[o] <= Tickets'[o]
    PROVE  LoaderTyped' /\ LoaderInv' /\ Forward
<1>1. UNCHANGED <<shown, round, queued, again, waived, heard>>
  BY DEF loaderVars
<1>2. /\ Recent(shown, shown, Tickets')
      /\ \A k \in Loops : round[k] # NONE => RoundIsRecent(round[k], shown, Tickets')
  BY LoaderKept
<1>3. LoaderInv'
  BY <1>1, <1>2 DEF LoaderInv
<1> QED  BY <1>1, <1>3, SameRail DEF LoaderTyped

LEMMA RunsLoads ==
    ASSUME LoaderTyped, LoaderInv, NEW batch \in SUBSET Hints, Run(batch), shown' = shown,
           heard' \in Rows, waived' \in Rows,
           Tickets \in Rows, Tickets' \in Rows, \A o \in Orders : Tickets[o] <= Tickets'[o]
    PROVE  LoaderTyped' /\ LoaderInv' /\ Forward
<1>1. LoaderInv' /\ round' \in [Loops -> Round \cup {NONE}] /\ queued' \subseteq Hints
      /\ again' \in BOOLEAN
  BY RunLoads
<1> QED  BY <1>1, SameRail DEF LoaderTyped

LEMMA HearLoads ==
    ASSUME LoaderTyped, LoaderInv, LinkInv, Hear,
           Tickets \in Rows, Tickets' \in Rows, \A o \in Orders : Tickets[o] <= Tickets'[o]
    PROVE  LoaderTyped' /\ LoaderInv' /\ Forward
<1> DEFINE e == Head(inbox)
           unheld == events[e.order][e.version] = "CANCELLED" /\ shown[e.order] = 0
<1>1. e \in Hints
  BY DEF LinkInv, Hear
<1>2. e.order \in Orders /\ e.version \in Versions
  BY <1>1, RowNumbers DEF Hints
<1>3. \A versions \in Rows : Higher(versions, e.order, e.version) \in Rows
  BY <1>2, RowNumbers DEF Higher
<1>4. shown' = shown
  BY DEF Hear
<1>5. CASE UNCHANGED <<round, queued, again, heard, waived>>
  BY <1>4, <1>5, StaysLoads DEF loaderVars
<1>6. CASE /\ heard' = Higher(heard, e.order, e.version)
           /\ waived' = IF unheld THEN Higher(waived, e.order, e.version) ELSE waived
           /\ Run(IF unheld THEN {} ELSE {e})
  <2>1. heard' \in Rows /\ waived' \in Rows
    BY <1>3, <1>6 DEF LoaderTyped
  <2>2. (IF unheld THEN {} ELSE {e}) \in SUBSET Hints
    BY <1>1
  <2> QED  BY <1>4, <1>6, <2>1, <2>2, RunsLoads
<1> QED  BY <1>5, <1>6 DEF Hear

LEMMA DeleteLoads ==
    ASSUME LoaderTyped, LoaderInv, CommandInv, NEW c \in Calls, Delete(c),
           Tickets \in Rows, Tickets' \in Rows, \A o \in Orders : Tickets[o] <= Tickets'[o]
    PROVE  LoaderTyped' /\ LoaderInv' /\ Forward
<1> DEFINE batch == IF call[c].answer = "APPLIED"
                    THEN {[order |-> OrderOf(call[c].id), version |-> call[c].version]} ELSE {}
<1>1. call[c] # NONE
  BY DEF Delete, At
<1>2. /\ CallOK(call[c], command, settled)
      /\ OrderOf(call[c].id) \in Orders /\ call[c].version \in Versions
  BY <1>1, CallFields
<1>3. call[c].answer = "APPLIED" => call[c].version \in 1..LastVersion
  BY <1>2, RowNumbers DEF CallOK
<1>4. batch \in SUBSET Hints
  BY <1>2, <1>3 DEF Hints
<1>5. Run(batch) /\ shown' = shown /\ heard' = heard /\ waived' = waived
  BY DEF Delete
<1> HIDE DEF batch
<1> QED  BY <1>4, <1>5, RunsLoads DEF LoaderTyped

LEMMA ReloadLoads ==
    ASSUME Reload, Tickets' \in Rows
    PROVE  LoaderTyped' /\ LoaderInv'
<1>1. /\ shown' = [o \in Orders |-> 0] /\ heard' = [o \in Orders |-> 0]
      /\ waived' = [o \in Orders |-> 0]
      /\ round' = [k \in Loops |-> NONE] /\ queued' = {} /\ again' = FALSE
  BY DEF Reload
<1>2. [o \in Orders |-> 0] \in Rows
  BY DEF Rows, Versions, LastVersion
<1>3. LoaderTyped'
  BY <1>1, <1>2 DEF LoaderTyped
<1>4. Recent(shown', shown', Tickets')
  <2>1. \A o \in Orders : Tickets'[o] \in Nat
    BY RowNumbers
  <2> QED  BY <1>1, <1>2, <2>1 DEF Recent
<1> QED  BY <1>1, <1>3, <1>4 DEF LoaderInv

LEMMA LoaderStepInv ==
    Inv /\ ServerInv' /\ Grown /\ [CommandsNext]_vars
        => LoaderTyped' /\ LoaderInv' /\ (Forward \/ Reload)
<1> DEFINE Goal == LoaderTyped' /\ LoaderInv' /\ (Forward \/ Reload)
<1> SUFFICES ASSUME Inv, ServerInv', Grown, [CommandsNext]_vars PROVE Goal
  OBVIOUS
<1>s. LoaderTyped /\ LoaderInv /\ LinkInv /\ CommandInv
  BY DEF Inv
<1>t. /\ \A o \in Orders : Tickets[o] <= Tickets'[o]
      /\ Tickets \in Rows
  BY TicketsGrow DEF Inv
<1>p. Tickets' \in Rows
  <2>1. ASSUME NEW o \in Orders PROVE (IF HasTicket(o)' THEN projected'[o] ELSE 0) \in Versions
    <3>1. projected' \in [Orders -> Versions]
      BY DEF ServerInv, Rows
    <3>2. projected'[o] \in Versions /\ 0 \in Versions
      BY <3>1, RowNumbers
    <3> QED  BY <3>2
  <2>2. Tickets' = [o \in Orders |-> IF HasTicket(o)' THEN projected'[o] ELSE 0]
    BY DEF Tickets
  <2> QED  BY <2>1, <2>2 DEF Rows
<1>n. ASSUME UNCHANGED serverVars PROVE Tickets' = Tickets
  BY <1>n DEF serverVars, Tickets, HasTicket
<1>u. ASSUME UNCHANGED <<loaderVars, heard>> PROVE Goal
  BY <1>s, <1>t, <1>p, <1>u, StaysLoads
<1>r. ASSUME Run({}), UNCHANGED <<shown, heard, waived>> PROVE Goal
  BY <1>s, <1>t, <1>p, <1>r, RunsLoads DEF LoaderTyped
<1>1. ASSUME NEW o \in Orders, Project(o) PROVE Goal
  BY <1>1, <1>u DEF Project
<1>2. ASSUME NEW i \in Instances, NEW o \in Orders, Mark(i, o) PROVE Goal
  BY <1>2, <1>u DEF Mark
<1>3. ASSUME NEW i \in Instances, Emit(i) \/ CrashInstance(i) PROVE Goal
  BY <1>3, <1>u DEF Emit, CrashInstance
<1>4. ASSUME NEW k \in Loops, ServeRead(k) PROVE Goal
  <2>1. Tickets' = Tickets /\ shown' = shown
    BY <1>4, <1>n DEF ServeRead
  <2> QED  BY <1>s, <1>t, <1>4, <2>1, ServeReadLoads, SameRail
<1>5. ASSUME NEW k \in Loops, ReadFails(k) PROVE Goal
  <2>1. Tickets' = Tickets /\ shown' = shown
    BY <1>5, <1>n DEF ReadFails
  <2> QED  BY <1>s, <1>5, <2>1, ReadFailsLoads, SameRail
<1>6. ASSUME NEW k \in Loops, TakeAnswer(k) \/ TakeFailure(k) PROVE Goal
  <2>1. Tickets' = Tickets
    BY <1>6, <1>n DEF TakeAnswer, TakeFailure
  <2> QED  BY <1>s, <1>6, <2>1, TakeLoads
<1>7. ASSUME OpenRail \/ Join \/ Drop PROVE Goal
  BY <1>7, <1>u DEF OpenRail, Join, Drop
<1>8. ASSUME Connect PROVE Goal
  BY <1>8, <1>r DEF Connect
<1>9. ASSUME Hear PROVE Goal
  BY <1>s, <1>t, <1>p, <1>9, HearLoads
<1>10. ASSUME NEW o \in Orders, NEW s \in Statuses, Advance(o, s) PROVE Goal
  BY <1>10, <1>u DEF Advance
<1>11. ASSUME NEW c \in Calls, NEW o \in Orders, Press(c, o) \/ Retry(c, o) PROVE Goal
  BY <1>11, <1>u DEF Press, Retry, Dispatch, railVars
<1>12. ASSUME NEW c \in Calls, Save(c) \/ Process(c) \/ Receive(c) \/ Return(c) \/ Lose(c)
       PROVE  Goal
  BY <1>12, <1>u DEF Save, Process, Receive, Return, Lose, railVars
<1>13. ASSUME NEW c \in Calls, Delete(c) PROVE Goal
  BY <1>s, <1>t, <1>p, <1>13, DeleteLoads
<1>14. ASSUME NEW o \in Orders, Discard(o) PROVE Goal
  BY <1>14, <1>u DEF Discard, railVars
<1>15. ASSUME NEW id \in Ids, ProcessStray(id) PROVE Goal
  BY <1>15, <1>u DEF ProcessStray
<1>16. ASSUME ReadRows \/ Revisit PROVE Goal
  BY <1>16, <1>u DEF ReadRows, Revisit, railVars
<1>17. ASSUME Hydrate PROVE Goal
  BY <1>17, <1>r DEF Hydrate, Load
<1>18. ASSUME Reload PROVE Goal
  BY <1>p, <1>18, ReloadLoads
<1>19. ASSUME UNCHANGED vars PROVE Goal
  BY <1>19, <1>u DEF vars, railVars
<1> QED
  BY <1>1, <1>2, <1>3, <1>4, <1>5, <1>6, <1>7, <1>8, <1>9, <1>10, <1>11, <1>12, <1>13, <1>14,
     <1>15, <1>16, <1>17, <1>18, <1>19
     DEF CommandsNext, RailStep, ServerStep, LoaderStep, SocketStep, RailFault, CallStep

----------------------------------------------------------------------------
(* The theorems *)

LEMMA InvStep == Inv /\ [CommandsNext]_vars => Inv' /\ (Forward \/ Reload)
  BY ServerStepInv, LinkStepInv, CommandStepInv, LoaderStepInv DEF Inv

(* The state of the display, of the rail and of the server behind them     *)
(* always has its type.                                                    *)
THEOREM CommandsTypeCorrect == CommandsSpec => []CommandsTypeOK
<1>1. Inv => CommandsTypeOK
  BY DEF Inv, ServerInv, LinkInv, LoaderTyped, CommandInv, CommandTyped, CallsInv, Command,
         CommandsTypeOK, RailTypeOK
<1> QED
  BY InitInv, InvStep, <1>1, PTL DEF CommandsSpec

(* A command that was posted, has no answer and was not discarded can      *)
(* still be retried under its own id, unless the disk refused its row.     *)
THEOREM UnansweredKept == CommandsSpec => []UnansweredIsKept
<1>1. Inv => UnansweredIsKept
  BY DEF Inv, CommandInv, KeptInv, UnansweredIsKept
<1> QED
  BY InitInv, InvStep, <1>1, PTL DEF CommandsSpec

(* The rail never takes a ticket back, except that a reloaded page starts  *)
(* from an empty one: no read lands after one that saw more.               *)
THEOREM RailOnlyAdvances == CommandsSpec => RailNeverMovesBack
<1>1. Inv /\ Inv' /\ (Forward \/ Reload) => \A o \in Orders : shown'[o] < shown[o] => Reload
  <2> SUFFICES ASSUME Inv, Inv', Forward, NEW o \in Orders, shown'[o] < shown[o] PROVE FALSE
    OBVIOUS
  <2> QED  BY RowNumbers DEF Inv, LoaderTyped, Forward
<1> QED
  BY InitInv, InvStep, <1>1, PTL DEF CommandsSpec, RailNeverMovesBack

----------------------------------------------------------------------------
(* FeatureFlags: types *)

LEMMA PatchedIsRow ==
    ASSUME NEW r \in Row \cup {NULL}, NEW p \in Patches
    PROVE  Patched(r, p) \in Row
<1> DEFINE old == IF r = NULL THEN [enabled |-> FALSE, percent |-> 0] ELSE r
<1>1. old \in Row
  BY DEF Row
<1>2. old.enabled \in BOOLEAN /\ old.percent \in 0..100
  BY <1>1 DEF Row
<1>3. p.enabled \in BOOLEAN \cup {NULL} /\ p.percent \in 0..100 \cup {NULL}
  BY FlagsAssumption
<1>4. Or(p.enabled, old.enabled) \in BOOLEAN
  BY <1>2, <1>3 DEF Or
<1>5. Or(p.percent, old.percent) \in 0..100
  BY <1>2, <1>3 DEF Or
<1>6. Patched(r, p) = [enabled |-> Or(p.enabled, old.enabled), percent |-> Or(p.percent, old.percent)]
  BY DEF Patched
<1>7. \A a \in BOOLEAN, b \in 0..100 : [enabled |-> a, percent |-> b] \in Row
  BY DEF Row
<1> QED
  BY <1>4, <1>5, <1>6, <1>7, Zenon

(* A fill presents a version. *)
FillsHaveVersions == \A h \in Handlers : handler[h].at = "filling" => handler[h].version # NULL

Typed == TypeOK /\ FillsHaveVersions

LEMMA TypedInit == Init => Typed
<1> SUFFICES ASSUME Init PROVE Typed
  OBVIOUS
<1>1. Idle \in Handler /\ Idle.at # "filling"
  BY DEF Idle, Handler, Stages
<1>2. Seeded \in Row
  BY DEF Seeded, Row
<1> QED
  BY <1>1, <1>2 DEF Init, Typed, TypeOK, FillsHaveVersions

(* What a step leaves in the handler it belongs to keeps the types. *)
LEMMA HandlerTyped ==
    ASSUME Typed, NEW h \in Handlers, NEW new \in Handler,
           new.at = "filling" => new.version # NULL,
           handler' = [handler EXCEPT ![h] = new]
    PROVE  handler' \in [Handlers -> Handler] /\ FillsHaveVersions'
<1>1. handler' \in [Handlers -> Handler]
  BY DEF Typed, TypeOK
<1>2. handler'[h] = new /\ \A g \in Handlers \ {h} : handler'[g] = handler[g]
  BY DEF Typed, TypeOK
<1>3. FillsHaveVersions'
  BY <1>2 DEF Typed, FillsHaveVersions
<1> QED  BY <1>1, <1>3

(* The records the steps leave there. *)
LEMMA Records ==
    ASSUME Typed, NEW h \in Handlers
    PROVE  /\ Idle \in Handler /\ Idle.at # "filling"
           /\ Looking \in Handler /\ Looking.at # "filling"
           /\ \A r \in Row \cup {NULL}, n, s \in Nat :
                 Answered(r, n, s) \in Handler /\ Answered(r, n, s).at # "filling"
           /\ \A v \in Nat \cup {NULL}, s \in Nat :
                 [at |-> "missed", version |-> v, row |-> NULL, asOf |-> 0, since |-> s] \in Handler
           /\ \A v \in Nat, r \in Row \cup {NULL}, n, s \in Nat :
                 [at |-> "filling", version |-> v, row |-> r, asOf |-> n, since |-> s] \in Handler
           /\ [at |-> "invalidating", version |-> NULL, row |-> NULL, asOf |-> 0, since |-> 0]
                 \in Handler
           /\ \A s \in Nat :
                 [at |-> "looking", version |-> NULL, row |-> NULL, asOf |-> 0, since |-> s]
                    \in Handler
<1>1. told \in Nat
  BY DEF Typed, TypeOK
<1> QED
  BY <1>1 DEF Idle, Looking, Answered, Handler, Stages

LEMMA Fields ==
    ASSUME Typed, NEW h \in Handlers
    PROVE  /\ handler[h].version \in Nat \cup {NULL}
           /\ handler[h].row \in Row \cup {NULL}
           /\ handler[h].asOf \in Nat
           /\ handler[h].since \in Nat
           /\ handler[h].at = "filling" => FillOf(h) \in Filled
<1>1. handler[h] \in Handler
  BY DEF Typed, TypeOK
<1>2. /\ handler[h].version \in Nat \cup {NULL}
      /\ handler[h].row \in Row \cup {NULL}
      /\ handler[h].asOf \in Nat
      /\ handler[h].since \in Nat
  BY <1>1 DEF Handler
<1>3. handler[h].at = "filling" => handler[h].version \in Nat
  BY <1>2 DEF Typed, FillsHaveVersions
<1>4. handler[h].at = "filling" => FillOf(h) \in Filled
  BY <1>2, <1>3 DEF FillOf, Filled
<1> QED  BY <1>2, <1>4

LEMMA TypedStep == Typed /\ [Next]_flagVars => Typed'
<1> SUFFICES ASSUME Typed, [Next]_flagVars PROVE Typed'
  OBVIOUS
<1> USE FlagsAssumption
<1>t. /\ row \in Row \cup {NULL} /\ payload \subseteq Filled /\ counter \in Nat
      /\ delayed \subseteq Filled /\ writes \in Nat /\ told \in Nat /\ outages \in Nat
  BY DEF Typed, TypeOK
<1>1. ASSUME NEW h \in Handlers, Arrive(h) PROVE Typed'
  <2>1. handler' \in [Handlers -> Handler] /\ FillsHaveVersions'
    BY <1>1, HandlerTyped, Records DEF Arrive
  <2> QED  BY <1>1, <1>t, <2>1 DEF Typed, TypeOK, Arrive
<1>2. ASSUME NEW h \in Handlers, Lookup(h) PROVE Typed'
  <2>1. ASSUME NEW p \in Hit,
               handler' = [handler EXCEPT ![h] = Answered(p.row, p.asOf, handler[h].since)]
        PROVE  handler' \in [Handlers -> Handler] /\ FillsHaveVersions'
    <3>1. p.row \in Row \cup {NULL} /\ p.asOf \in Nat
      BY <1>t DEF Hit, Filled
    <3>2. handler[h].since \in Nat
      BY Fields
    <3>3. /\ Answered(p.row, p.asOf, handler[h].since) \in Handler
          /\ Answered(p.row, p.asOf, handler[h].since).at # "filling"
      BY <3>1, <3>2, Records
    <3> QED  BY <2>1, <3>3, HandlerTyped
  <2>2. ASSUME handler' = [handler EXCEPT ![h] =
                  [at |-> "missed", version |-> counter, row |-> NULL, asOf |-> 0,
                   since |-> handler[h].since]]
        PROVE  handler' \in [Handlers -> Handler] /\ FillsHaveVersions'
    <3>1. [at |-> "missed", version |-> counter, row |-> NULL, asOf |-> 0,
           since |-> handler[h].since] \in Handler
      BY <1>t, Fields, Records
    <3> QED  BY <2>2, <3>1, HandlerTyped
  <2>3. handler' \in [Handlers -> Handler] /\ FillsHaveVersions'
    BY <1>2, <2>1, <2>2 DEF Lookup
  <2> QED  BY <1>2, <1>t, <2>3 DEF Typed, TypeOK, Lookup
<1>3. ASSUME NEW h \in Handlers, LookupFails(h) PROVE Typed'
  <2>1. [at |-> "missed", version |-> NULL, row |-> NULL, asOf |-> 0,
         since |-> handler[h].since] \in Handler
    BY Fields, Records
  <2>2. handler' \in [Handlers -> Handler] /\ FillsHaveVersions'
    BY <1>3, <2>1, HandlerTyped DEF LookupFails
  <2> QED  BY <1>3, <1>t, <2>2 DEF Typed, TypeOK, LookupFails
<1>4. ASSUME NEW h \in Handlers, ReadTable(h) PROVE Typed'
  <2>1. CASE handler[h].version = NULL
    <3>1. /\ Answered(row, writes, handler[h].since) \in Handler
          /\ Answered(row, writes, handler[h].since).at # "filling"
      BY <1>t, Fields, Records
    <3> QED  BY <1>4, <1>t, <2>1, <3>1, HandlerTyped DEF Typed, TypeOK, ReadTable
  <2>2. CASE handler[h].version # NULL
    <3>1. handler[h].version \in Nat
      BY <2>2, Fields
    <3>2. [at |-> "filling", version |-> handler[h].version, row |-> row,
           asOf |-> writes, since |-> handler[h].since] \in Handler
      BY <1>t, <3>1, Fields, Records
    <3>3. handler' \in [Handlers -> Handler] /\ FillsHaveVersions'
      BY <1>4, <2>2, <3>2, HandlerTyped DEF ReadTable
    <3> QED  BY <1>4, <1>t, <3>3 DEF Typed, TypeOK, ReadTable
  <2> QED  BY <2>1, <2>2
<1>a. ASSUME NEW h \in Handlers
      PROVE  /\ Answered(handler[h].row, handler[h].asOf, handler[h].since) \in Handler
             /\ Answered(handler[h].row, handler[h].asOf, handler[h].since).at # "filling"
  BY Fields, Records
<1>5. ASSUME NEW h \in Handlers, Fill(h) PROVE Typed'
  <2>1. handler' \in [Handlers -> Handler] /\ FillsHaveVersions'
    BY <1>5, <1>a, HandlerTyped DEF Fill
  <2>2. payload' \subseteq Filled
    BY <1>5, Fields DEF Fill
  <2> QED  BY <1>5, <1>t, <2>1, <2>2 DEF Typed, TypeOK, Fill
<1>6. ASSUME NEW h \in Handlers, FillFails(h) PROVE Typed'
  <2>1. handler' \in [Handlers -> Handler] /\ FillsHaveVersions'
    BY <1>6, <1>a, HandlerTyped DEF FillFails
  <2>2. delayed' \subseteq Filled
    BY <1>6, <1>t, Fields DEF FillFails
  <2> QED  BY <1>6, <1>t, <2>1, <2>2 DEF Typed, TypeOK, FillFails
<1>7. ASSUME LateFill PROVE Typed'
  BY <1>7, <1>t DEF Typed, TypeOK, FillsHaveVersions, LateFill
<1>8. ASSUME NEW h \in Handlers, NEW p \in Patches, WriteFlag(h, p) PROVE Typed'
  <2>1. row' \in Row
    BY <1>8, <1>t, PatchedIsRow DEF WriteFlag
  <2>2. handler' \in [Handlers -> Handler] /\ FillsHaveVersions'
    BY <1>8, Records, HandlerTyped DEF WriteFlag
  <2> QED  BY <1>8, <1>t, <2>1, <2>2 DEF Typed, TypeOK, WriteFlag
<1>9. ASSUME NEW h \in Handlers, Invalidate(h) PROVE Typed'
  <2>1. handler' \in [Handlers -> Handler] /\ FillsHaveVersions'
    BY <1>9, <1>t, Records, HandlerTyped DEF Invalidate
  <2> QED  BY <1>9, <1>t, <2>1 DEF Typed, TypeOK, Invalidate, Invalidated
<1>10. ASSUME NEW h \in Handlers, InvalidateFails(h) PROVE Typed'
  <2>1. handler' \in [Handlers -> Handler] /\ FillsHaveVersions'
    BY <1>10, Records, HandlerTyped DEF InvalidateFails
  <2> QED  BY <1>10, <1>t, <2>1 DEF Typed, TypeOK, InvalidateFails
<1>11. ASSUME NEW h \in Handlers, Reply(h) PROVE Typed'
  <2>1. handler' \in [Handlers -> Handler] /\ FillsHaveVersions'
    BY <1>11, Records, HandlerTyped DEF Reply
  <2> QED  BY <1>11, <1>t, <2>1 DEF Typed, TypeOK, Reply
<1>12. ASSUME Expire PROVE Typed'
  BY <1>12 DEF Typed, TypeOK, FillsHaveVersions, Expire
<1>13. ASSUME UNCHANGED flagVars PROVE Typed'
  BY <1>13 DEF Typed, TypeOK, FillsHaveVersions, flagVars
<1> QED
  BY <1>1, <1>2, <1>3, <1>4, <1>5, <1>6, <1>7, <1>8, <1>9, <1>10, <1>11, <1>12, <1>13
     DEF Next, Serve, Stumble

(* The state always has its type. *)
THEOREM TypeCorrect == Spec => []TypeOK
<1>1. Typed => TypeOK
  BY DEF Typed
<1> QED
  BY TypedInit, TypedStep, <1>1, PTL DEF Spec

----------------------------------------------------------------------------
(* A toggle is fleet-wide and immediate.  Rows that could be read as a hit, *)
(* now or when a fill on its way lands, are no older than the last          *)
(* invalidation: what was read before it presents an older version.         *)

FillsAreCurrent ==
    \A p \in payload \cup delayed :
        /\ p.version <= counter
        /\ p.version = counter => p.asOf >= told

(* The same of the rows in the hands of a request, which also answers with  *)
(* rows no older than the invalidations before it arrived.                  *)
HandlerCurrent(r) ==
    /\ r.at = "missed" /\ r.version # NULL => r.version <= counter
    /\ r.at = "filling" => r.version <= counter
    /\ r.at = "filling" /\ r.version = counter => r.asOf >= told
    /\ r.since <= told
    /\ r.at \in {"filling", "answered"} => r.asOf >= r.since

HandlersAreCurrent == \A h \in Handlers : HandlerCurrent(handler[h])

Current ==
    /\ Typed
    /\ told <= writes
    /\ FillsAreCurrent
    /\ HandlersAreCurrent

LEMMA CurrentInit == Init => Current
<1> SUFFICES ASSUME Init PROVE Current
  OBVIOUS
<1>1. Typed
  BY TypedInit
<1> QED
  BY <1>1 DEF Init, Current, FillsAreCurrent, HandlersAreCurrent, HandlerCurrent, Idle

(* A step that changes one handler, and no counter, keeps what the new      *)
(* record and the others say.                                              *)
LEMMA OneHandler ==
    ASSUME Current, Typed', NEW h \in Handlers, NEW new,
           handler' = [handler EXCEPT ![h] = new],
           counter' = counter, told' = told,
           HandlerCurrent(new)
    PROVE  HandlersAreCurrent'
<1>1. handler'[h] = new /\ \A g \in Handlers \ {h} : handler'[g] = handler[g]
  BY DEF Current, Typed, TypeOK
<1>2. \A g \in Handlers : HandlerCurrent(handler'[g])
  BY <1>1 DEF Current, HandlersAreCurrent
<1> QED  BY <1>2 DEF HandlersAreCurrent, HandlerCurrent

LEMMA CurrentStep == Current /\ [Next]_flagVars => Current'
<1> SUFFICES ASSUME Current, [Next]_flagVars PROVE Current'
  OBVIOUS
<1>t. Typed'
  BY TypedStep DEF Current
<1>n. counter \in Nat /\ told \in Nat /\ writes \in Nat /\ told <= writes
  BY DEF Current, Typed, TypeOK
<1>f. ASSUME NEW h \in Handlers
      PROVE  /\ handler[h].version \in Nat \cup {NULL}
             /\ handler[h].asOf \in Nat
             /\ handler[h].since \in Nat
             /\ handler[h].since <= told
             /\ handler[h].at = "filling" => FillOf(h) \in Filled
  BY Fields DEF Current, HandlersAreCurrent, HandlerCurrent
<1>1. ASSUME NEW h \in Handlers, Arrive(h) PROVE Current'
  <2>2. HandlerCurrent(Looking)
    BY <1>n DEF HandlerCurrent, Looking
  <2>1. HandlersAreCurrent'
    BY <1>1, <2>2, <1>t, OneHandler DEF Arrive
  <2> QED  BY <1>1, <1>t, <1>n, <2>1 DEF Current, FillsAreCurrent, Arrive
<1>2. ASSUME NEW h \in Handlers, Lookup(h) PROVE Current'
  <2>1. ASSUME NEW p \in Hit,
               handler' = [handler EXCEPT ![h] = Answered(p.row, p.asOf, handler[h].since)]
        PROVE  HandlersAreCurrent'
    <3>1. p.asOf \in Nat /\ p.asOf >= told
      BY DEF Hit, Current, Typed, TypeOK, Filled, FillsAreCurrent
    <3>2. p.asOf >= handler[h].since
      BY <3>1, <1>f, <1>n
    <3>3. HandlerCurrent(Answered(p.row, p.asOf, handler[h].since))
      BY <3>2, <1>f DEF HandlerCurrent, Answered
    <3>4. counter' = counter /\ told' = told
      BY <1>2 DEF Lookup
    <3> QED  BY <2>1, <3>3, <3>4, <1>t, OneHandler
  <2>2. ASSUME handler' = [handler EXCEPT ![h] =
                  [at |-> "missed", version |-> counter, row |-> NULL, asOf |-> 0,
                   since |-> handler[h].since]]
        PROVE  HandlersAreCurrent'
    <3>1. HandlerCurrent([at |-> "missed", version |-> counter, row |-> NULL, asOf |-> 0,
                          since |-> handler[h].since])
      BY <1>f, <1>n DEF HandlerCurrent
    <3>2. counter' = counter /\ told' = told
      BY <1>2 DEF Lookup
    <3> QED  BY <2>2, <3>1, <3>2, <1>t, OneHandler
  <2>3. HandlersAreCurrent'
    BY <1>2, <2>1, <2>2 DEF Lookup
  <2> QED  BY <1>2, <1>t, <1>n, <2>3 DEF Current, FillsAreCurrent, Lookup
<1>3. ASSUME NEW h \in Handlers, LookupFails(h) PROVE Current'
  <2>2. HandlerCurrent([at |-> "missed", version |-> NULL, row |-> NULL, asOf |-> 0,
                        since |-> handler[h].since])
    BY <1>f DEF HandlerCurrent
  <2>1. HandlersAreCurrent'
    BY <1>3, <2>2, <1>t, OneHandler DEF LookupFails
  <2> QED  BY <1>3, <1>t, <1>n, <2>1 DEF Current, FillsAreCurrent, LookupFails
<1>4. ASSUME NEW h \in Handlers, ReadTable(h) PROVE Current'
  <2>1. writes >= handler[h].since
    BY <1>f, <1>n
  <2>2. CASE handler[h].version = NULL
    <3>2. HandlerCurrent(Answered(row, writes, handler[h].since))
      BY <2>1, <1>f DEF HandlerCurrent, Answered
    <3>1. HandlersAreCurrent'
      BY <1>4, <2>2, <3>2, <1>t, OneHandler DEF ReadTable
    <3> QED  BY <1>4, <1>t, <1>n, <3>1 DEF Current, FillsAreCurrent, ReadTable
  <2>3. CASE handler[h].version # NULL
    <3>1. handler[h].version <= counter
      BY <1>4, <2>3 DEF ReadTable, Current, HandlersAreCurrent, HandlerCurrent
    <3>3. HandlerCurrent([at |-> "filling", version |-> handler[h].version, row |-> row,
                          asOf |-> writes, since |-> handler[h].since])
      BY <2>1, <3>1, <1>f, <1>n DEF HandlerCurrent
    <3>2. HandlersAreCurrent'
      BY <1>4, <2>3, <3>3, <1>t, OneHandler DEF ReadTable
    <3> QED  BY <1>4, <1>t, <1>n, <3>2 DEF Current, FillsAreCurrent, ReadTable
  <2> QED  BY <2>2, <2>3
<1>a. ASSUME NEW h \in Handlers, handler[h].at = "filling"
      PROVE  /\ handler[h].asOf >= handler[h].since
             /\ FillOf(h).version <= counter
             /\ FillOf(h).version = counter => FillOf(h).asOf >= told
  BY <1>a DEF Current, HandlersAreCurrent, HandlerCurrent, FillOf
<1>b. ASSUME NEW h \in Handlers, handler[h].at = "filling"
      PROVE  HandlerCurrent(Answered(handler[h].row, handler[h].asOf, handler[h].since))
  BY <1>a, <1>b, <1>f DEF HandlerCurrent, Answered
<1>5. ASSUME NEW h \in Handlers, Fill(h) PROVE Current'
  <2>1. HandlersAreCurrent'
    BY <1>5, <1>b, <1>t, OneHandler DEF Fill
  <2>2. FillsAreCurrent'
    BY <1>5, <1>a DEF Current, FillsAreCurrent, Fill
  <2> QED  BY <1>5, <1>t, <1>n, <2>1, <2>2 DEF Current, Fill
<1>6. ASSUME NEW h \in Handlers, FillFails(h) PROVE Current'
  <2>1. HandlersAreCurrent'
    BY <1>6, <1>b, <1>t, OneHandler DEF FillFails
  <2>2. FillsAreCurrent'
    BY <1>6, <1>a DEF Current, FillsAreCurrent, FillFails
  <2> QED  BY <1>6, <1>t, <1>n, <2>1, <2>2 DEF Current, FillFails
<1>7. ASSUME LateFill PROVE Current'
  BY <1>7, <1>t DEF Current, FillsAreCurrent, HandlersAreCurrent, HandlerCurrent, LateFill
<1>8. ASSUME NEW h \in Handlers, NEW p \in Patches, WriteFlag(h, p) PROVE Current'
  <2>2. HandlerCurrent([at |-> "invalidating", version |-> NULL, row |-> NULL, asOf |-> 0,
                        since |-> 0])
    BY <1>n DEF HandlerCurrent
  <2>1. HandlersAreCurrent'
    BY <1>8, <2>2, <1>t, OneHandler DEF WriteFlag
  <2> QED  BY <1>8, <1>t, <1>n, <2>1 DEF Current, FillsAreCurrent, WriteFlag
<1>9. ASSUME NEW h \in Handlers, Invalidate(h) PROVE Current'
  <2>1. counter' = counter + 1 /\ told' = writes /\ writes' = writes
        /\ payload' = payload /\ delayed' = delayed
    BY <1>9 DEF Invalidate, Invalidated
  <2>2. FillsAreCurrent'
    <3>1. \A p \in payload \cup delayed : p.version \in Nat /\ p.version <= counter
      BY DEF Current, Typed, TypeOK, Filled, FillsAreCurrent
    <3> QED  BY <2>1, <3>1, <1>n DEF FillsAreCurrent
  <2>3. \A g \in Handlers : handler'[g] =
            IF g = h
            THEN [at |-> "looking", version |-> NULL, row |-> NULL, asOf |-> 0, since |-> writes]
            ELSE handler[g]
    BY <1>9 DEF Invalidate, Current, Typed, TypeOK
  <2>4. ASSUME NEW g \in Handlers PROVE HandlerCurrent(handler[g])'
    <3>1. CASE g = h
      BY <2>1, <2>3, <3>1, <1>n DEF HandlerCurrent
    <3>2. CASE g # h
      <4>1. HandlerCurrent(handler[g]) /\ handler'[g] = handler[g]
        BY <2>3, <3>2 DEF Current, HandlersAreCurrent
      <4>2. handler[g].at = "filling" => handler[g].version \in Nat
        BY <1>f DEF Current, Typed, FillsHaveVersions
      <4> QED  BY <2>1, <4>1, <4>2, <1>f, <1>n DEF HandlerCurrent
    <3> QED  BY <3>1, <3>2
  <2>5. HandlersAreCurrent'
    BY <2>4 DEF HandlersAreCurrent
  <2> QED  BY <2>1, <2>2, <2>5, <1>t, <1>n DEF Current
<1>10. ASSUME NEW h \in Handlers, InvalidateFails(h) PROVE Current'
  <2>2. HandlerCurrent(Looking)
    BY <1>n DEF HandlerCurrent, Looking
  <2>1. HandlersAreCurrent'
    BY <1>10, <2>2, <1>t, OneHandler DEF InvalidateFails
  <2> QED  BY <1>10, <1>t, <1>n, <2>1 DEF Current, FillsAreCurrent, InvalidateFails
<1>11. ASSUME NEW h \in Handlers, Reply(h) PROVE Current'
  <2>2. HandlerCurrent(Idle)
    BY <1>n DEF HandlerCurrent, Idle
  <2>1. HandlersAreCurrent'
    BY <1>11, <2>2, <1>t, OneHandler DEF Reply
  <2> QED  BY <1>11, <1>t, <1>n, <2>1 DEF Current, FillsAreCurrent, Reply
<1>12. ASSUME Expire PROVE Current'
  BY <1>12, <1>t DEF Current, FillsAreCurrent, HandlersAreCurrent, HandlerCurrent, Expire
<1>13. ASSUME UNCHANGED flagVars PROVE Current'
  BY <1>13, <1>t DEF Current, FillsAreCurrent, HandlersAreCurrent, HandlerCurrent, flagVars
<1> QED
  BY <1>1, <1>2, <1>3, <1>4, <1>5, <1>6, <1>7, <1>8, <1>9, <1>10, <1>11, <1>12, <1>13
     DEF Next, Serve, Stumble

(* Once the invalidation after a write is done, no request that arrives is  *)
(* answered with older rows, whatever fill lands late.                      *)
THEOREM Immediate == Spec => []ToggleIsImmediate
<1>1. Current => ToggleIsImmediate
  BY DEF Current, HandlersAreCurrent, HandlerCurrent, ToggleIsImmediate
<1> QED
  BY CurrentInit, CurrentStep, <1>1, PTL DEF Spec

----------------------------------------------------------------------------
(* Rollout: what the composition does to the flag. *)

LEMMA FlagSteps == RolloutNext => [Next]_flagVars
<1> SUFFICES ASSUME RolloutNext PROVE [Next]_flagVars
  OBVIOUS
<1>h. Requests \subseteq Handlers /\ Debug \subseteq Handlers
  BY RolloutAssumption
<1>a. ASSUME NEW f \in Requests, Ask(f) PROVE [Next]_flagVars
  BY <1>a, <1>h DEF Ask, Next
<1>b. ASSUME NEW h \in Handlers, Reply(h) PROVE [Next]_flagVars
  BY <1>b DEF Next
<1>1. ASSUME NEW f \in Requests, ScreenAsks(f) PROVE [Next]_flagVars
  BY <1>1, <1>a DEF ScreenAsks
<1>2. ASSUME NEW f \in Requests, TimerAsks(f) PROVE [Next]_flagVars
  BY <1>2, <1>a DEF TimerAsks
<1>3. ASSUME NEW f \in Requests, Answer(f) PROVE [Next]_flagVars
  BY <1>3, <1>b, <1>h DEF Answer, TakeReply
<1>4. ASSUME NEW f \in Requests, LoseAnswer(f) PROVE [Next]_flagVars
  BY <1>4, <1>b, <1>h DEF LoseAnswer, TakeReply
<1>5. ASSUME NEW h \in Handlers, Serving(h) PROVE [Next]_flagVars
  BY <1>5 DEF Serving, Next
<1>6. ASSUME NEW d \in Debug, Toggle(d) PROVE [Next]_flagVars
  BY <1>6, <1>h DEF Toggle, Next
<1>7. ASSUME NEW d \in Debug, DebugReply(d) PROVE [Next]_flagVars
  BY <1>7, <1>b, <1>h DEF DebugReply
<1>8. ASSUME Visit PROVE [Next]_flagVars
  BY <1>8 DEF Visit
<1>9. ASSUME CacheMoves PROVE [Next]_flagVars
  BY <1>9 DEF CacheMoves, Next
<1> QED
  BY <1>1, <1>2, <1>3, <1>4, <1>5, <1>6, <1>7, <1>8, <1>9 DEF RolloutNext

(* The composition adds nothing to what the flag can do by itself. *)
THEOREM RolloutImplementsFlags == RolloutSpec => Spec
<1>1. RolloutInit => Init
  BY DEF RolloutInit
<1>2. [RolloutNext]_rolloutVars => [Next]_flagVars
  BY FlagSteps DEF rolloutVars
<1> QED
  BY <1>1, <1>2, PTL DEF RolloutSpec, Spec

(* A toggle is fleet-wide and immediate to the screens that ask for their   *)
(* configuration, and to the debug page.                                    *)
THEOREM RolloutImmediate == RolloutSpec => []ToggleIsImmediate
  BY RolloutImplementsFlags, Immediate, PTL

----------------------------------------------------------------------------
(* The connection store: types *)

Request == [by: Kinds, restaurant: Restaurants, current: BOOLEAN]

(* Requests that the store no longer waits for keep their types, and those  *)
(* of a stopped store are none that it waits for.                           *)
LEMMA OutdatedRequests ==
    ASSUME ClientTypeOK
    PROVE  /\ Superseded \in [Requests -> Request \cup {ABSENT}]
           /\ Abandoned \in [Requests -> Request \cup {ABSENT}]
           /\ \A f \in Requests : Superseded[f] = Outdated(request[f], {"start"})
           /\ \A f \in Requests : Abandoned[f] # ABSENT => ~Abandoned[f].current
<1>1. ASSUME NEW f \in Requests, NEW kinds \in SUBSET Kinds
      PROVE  Outdated(request[f], kinds) \in Request \cup {ABSENT}
  <2>1. request[f] \in Request \cup {ABSENT}
    BY DEF ClientTypeOK, Request
  <2> QED  BY <2>1 DEF Outdated, Request
<1>2. {"start"} \in SUBSET Kinds /\ Kinds \in SUBSET Kinds
  BY DEF Kinds
<1>3. ASSUME NEW f \in Requests, Abandoned[f] # ABSENT
      PROVE  ~Abandoned[f].current
  <2>1. request[f] \in Request \cup {ABSENT} /\ Abandoned[f] = Outdated(request[f], Kinds)
    BY DEF ClientTypeOK, Request, Abandoned
  <2> QED  BY <1>3, <2>1 DEF Outdated, Request
<1> QED
  BY <1>1, <1>2, <1>3 DEF Superseded, Abandoned

(* A request that goes out. *)
LEMMA RequestsTyped ==
    ASSUME NEW out \in [Requests -> Request \cup {ABSENT}], NEW f \in Requests,
           NEW r \in Request \cup {ABSENT}
    PROVE  /\ [out EXCEPT ![f] = r] \in [Requests -> Request \cup {ABSENT}]
           /\ \A g \in Requests : [out EXCEPT ![f] = r][g] = IF g = f THEN r ELSE out[g]
  OBVIOUS

(* What open() and stop() leave: at most one connection, the one held. *)
LEMMA ReplacedIsOne ==
    ASSUME open = {connection} \ {ABSENT}, NEW new, Replace(new)
    PROVE  open' = {connection'} \ {ABSENT}
  BY DEF Replace

(* A store that is stopped waits for no answer. *)
Linked ==
    /\ ClientTypeOK
    /\ request \in [Requests -> Request \cup {ABSENT}]
    /\ OneConnection
    /\ screen = ABSENT => \A f \in Requests : request[f] # ABSENT => ~request[f].current

LEMMA LinkedInit == ClientInit => Linked
<1> SUFFICES ASSUME ClientInit PROVE Linked
  OBVIOUS
<1>1. {mounts, flips} \subseteq Nat
  BY DEF ClientInit
<1>2. arriving \in [1..MaxMounts -> Restaurants \cup {ABSENT}]
  BY DEF ClientInit
<1>3. request \in [Requests -> Request \cup {ABSENT}]
  BY DEF ClientInit
<1>4. ClientTypeOK
  BY <1>1, <1>2, <1>3 DEF ClientInit, ClientTypeOK, Transports, Latches, Request
<1>5. OneConnection
  BY DEF ClientInit, OneConnection
<1> QED
  BY <1>3, <1>4, <1>5 DEF ClientInit, Linked

LEMMA OpenLinks ==
    ASSUME Linked, NEW resolved \in Transports, NEW thrown, Open(resolved, thrown)
    PROVE  /\ transport' \in Transports
           /\ connection' \in Connections \cup {ABSENT}
           /\ open' \subseteq Connections
           /\ flagPoll' \in BOOLEAN
           /\ open' = {connection'} \ {ABSENT}
<1>1. Opened(resolved, thrown) \in Connections \cup {ABSENT}
  BY DEF Opened, Connections, Transports
<1>2. open' = {connection'} \ {ABSENT}
  BY ReplacedIsOne DEF Linked, OneConnection, Open
<1>3. transport' = resolved /\ flagPoll' = TRUE /\ connection' = Opened(resolved, thrown)
  BY DEF Open, Replace
<1> QED
  BY <1>1, <1>2, <1>3

(* A step is known by what it leaves of the requests and the connection;    *)
(* the screen's own variables keep their types.                            *)
LEMMA LinkedIf ==
    ASSUME request' \in [Requests -> Request \cup {ABSENT}],
           {mounted', screen'} \subseteq Restaurants \cup {ABSENT},
           arriving' \in [1..MaxMounts -> Restaurants \cup {ABSENT}],
           transport' \in Transports,
           connection' \in Connections \cup {ABSENT},
           open' = {connection'} \ {ABSENT},
           flagPoll' \in BOOLEAN,
           latched' \subseteq Latches,
           {mounts', flips'} \subseteq Nat,
           screen' = ABSENT => /\ connection' = ABSENT
                             /\ ~flagPoll'
                             /\ \A f \in Requests : request'[f] # ABSENT => ~request'[f].current
    PROVE  Linked'
<1>1. open' \subseteq Connections
  OBVIOUS
<1>2. ClientTypeOK'
  BY <1>1 DEF ClientTypeOK, Request
<1>3. OneConnection'
  BY DEF OneConnection
<1> QED
  BY <1>2, <1>3 DEF Linked

LEMMA BeginLinks ==
    ASSUME Linked, NEW f \in Requests, NEW restaurant \in Restaurants, restaurant # ABSENT,
           NEW thrown, NEW out \in [Requests -> Request \cup {ABSENT}],
           Begin(f, restaurant, thrown, out),
           mounted' \in Restaurants \cup {ABSENT},
           arriving' \in [1..MaxMounts -> Restaurants \cup {ABSENT}],
           latched' \subseteq Latches,
           {mounts', flips'} \subseteq Nat
    PROVE  Linked'
<1>1. screen' \in Restaurants \cup {ABSENT} /\ screen' # ABSENT
  BY DEF Begin
<1>2. CASE Open("POLLING", thrown) /\ request' = out
  <2>1. "POLLING" \in Transports
    BY DEF Transports
  <2> QED  BY <1>1, <1>2, <2>1, OpenLinks, LinkedIf
<1>3. CASE /\ request' = [out EXCEPT ![f] =
                 [by |-> "start", restaurant |-> restaurant, current |-> TRUE]]
           /\ UNCHANGED linkVars
  <2>1. [by |-> "start", restaurant |-> restaurant, current |-> TRUE] \in Request
    BY DEF Request, Kinds
  <2>2. request' \in [Requests -> Request \cup {ABSENT}]
    BY <1>3, <2>1, RequestsTyped
  <2>3. /\ transport' \in Transports /\ connection' \in Connections \cup {ABSENT}
        /\ open' = {connection'} \ {ABSENT} /\ flagPoll' \in BOOLEAN
    BY <1>3 DEF Linked, ClientTypeOK, OneConnection, linkVars
  <2> QED  BY <1>1, <2>2, <2>3, LinkedIf
<1> QED
  BY <1>2, <1>3 DEF Begin

LEMMA InstalledLinks ==
    ASSUME Linked, screen # ABSENT, NEW out \in [Requests -> Request \cup {ABSENT}],
           request' = out,
           NEW resolved \in Transports, Open(resolved, latched),
           UNCHANGED <<viewVars, screen, latched, flips>>
    PROVE  Linked'
<1>1. /\ {mounted', screen'} \subseteq Restaurants \cup {ABSENT}
      /\ arriving' \in [1..MaxMounts -> Restaurants \cup {ABSENT}]
      /\ latched' \subseteq Latches
      /\ {mounts', flips'} \subseteq Nat
      /\ screen' # ABSENT
  BY DEF Linked, ClientTypeOK, viewVars
<1> QED
  BY <1>1, OpenLinks, LinkedIf

LEMMA DroppedLinks ==
    ASSUME Linked, NEW f \in Requests, Dropped(f),
           UNCHANGED <<viewVars, screen, latched, flips>>
    PROVE  Linked'
<1>1. /\ {mounted', screen'} \subseteq Restaurants \cup {ABSENT}
      /\ arriving' \in [1..MaxMounts -> Restaurants \cup {ABSENT}]
      /\ latched' \subseteq Latches
      /\ {mounts', flips'} \subseteq Nat
  BY DEF Linked, ClientTypeOK, viewVars
<1>2. /\ transport' \in Transports /\ connection' \in Connections \cup {ABSENT}
      /\ open' = {connection'} \ {ABSENT} /\ flagPoll' \in BOOLEAN
      /\ screen' = ABSENT => connection' = ABSENT /\ ~flagPoll'
  BY DEF Linked, ClientTypeOK, OneConnection, linkVars, Dropped
<1>3. /\ request' \in [Requests -> Request \cup {ABSENT}]
      /\ \A g \in Requests : request'[g] = IF g = f THEN ABSENT ELSE request[g]
  BY RequestsTyped DEF Linked, Dropped
<1> QED
  BY <1>1, <1>2, <1>3, LinkedIf DEF Linked

LEMMA AnsweredLinks ==
    ASSUME Linked, NEW f \in Requests, NEW resolved \in Transports,
           StartAnswered(f, resolved) \/ PollAnswered(f, resolved)
    PROVE  Linked'
<1>1. UNCHANGED <<viewVars, screen, latched, flips>>
  BY DEF StartAnswered, PollAnswered
<1>2. CASE Dropped(f)
  BY <1>1, <1>2, DroppedLinks
<1>3. CASE request[f] # ABSENT /\ request[f].current /\ Installed(f, resolved)
  <2>1. screen # ABSENT
    BY <1>3 DEF Linked
  <2>2. request' \in [Requests -> Request \cup {ABSENT}]
    BY <1>3, OutdatedRequests, RequestsTyped DEF Linked, Installed
  <2> QED  BY <1>1, <1>3, <2>1, <2>2, InstalledLinks DEF Installed
<1> QED
  BY <1>2, <1>3 DEF StartAnswered, PollAnswered

LEMMA StartLinks ==
    ASSUME Linked, NEW f \in Requests, NEW n \in 1..MaxMounts, Start(f, n)
    PROVE  Linked'
<1>1. arriving[n] \in Restaurants /\ arriving[n] # ABSENT
  BY DEF Start, Linked, ClientTypeOK
<1>2. arriving' \in [1..MaxMounts -> Restaurants \cup {ABSENT}]
  BY DEF Start, Linked, ClientTypeOK
<1>3. /\ mounted' \in Restaurants \cup {ABSENT}
      /\ latched' \subseteq Latches
      /\ {mounts', flips'} \subseteq Nat
  BY DEF Start, Linked, ClientTypeOK
<1>4. Begin(f, arriving[n], latched, Abandoned)
  BY DEF Start
<1>5. Abandoned \in [Requests -> Request \cup {ABSENT}]
  BY OutdatedRequests DEF Linked
<1> QED
  BY <1>1, <1>2, <1>3, <1>4, <1>5, BeginLinks

LEMMA FlipLinks ==
    ASSUME Linked, NEW f \in Requests, NEW latch \in Latches, Flip(f, latch)
    PROVE  Linked'
<1>1. /\ {mounted', screen} \subseteq Restaurants \cup {ABSENT}
      /\ arriving' \in [1..MaxMounts -> Restaurants \cup {ABSENT}]
      /\ {mounts', flips'} \subseteq Nat
  BY ClientAssumption DEF Flip, Linked, ClientTypeOK, viewVars
<1>2. latched' \subseteq Latches
  BY DEF Flip, Linked, ClientTypeOK
<1>3. CASE screen # ABSENT /\ Begin(f, screen, latched', Superseded)
  <2>1. Superseded \in [Requests -> Request \cup {ABSENT}]
    BY OutdatedRequests DEF Linked
  <2>2. screen \in Restaurants
    BY <1>1, <1>3
  <2> QED  BY <1>1, <1>2, <1>3, <2>1, <2>2, BeginLinks
<1>4. CASE screen = ABSENT /\ UNCHANGED <<screen, linkVars, request>>
  <2>1. /\ transport' \in Transports /\ connection' \in Connections \cup {ABSENT}
        /\ open' = {connection'} \ {ABSENT} /\ flagPoll' \in BOOLEAN
        /\ connection' = ABSENT /\ ~flagPoll'
        /\ screen' = ABSENT
    BY <1>4 DEF Linked, ClientTypeOK, OneConnection, linkVars
  <2>2. /\ request' \in [Requests -> Request \cup {ABSENT}]
        /\ \A g \in Requests : request'[g] # ABSENT => ~request'[g].current
    BY <1>4 DEF Linked
  <2> QED  BY <1>1, <1>2, <2>1, <2>2, LinkedIf
<1> QED
  BY <1>3, <1>4 DEF Flip

LEMMA FlagPollTickLinks ==
    ASSUME Linked, NEW f \in Requests, FlagPollTick(f)
    PROVE  Linked'
<1>1. screen # ABSENT /\ UNCHANGED <<viewVars, screen, latched, flips>>
  BY DEF FlagPollTick
<1>2. CASE Open("POLLING", latched) /\ request' = Superseded
  <2>1. "POLLING" \in Transports
    BY DEF Transports
  <2>2. Superseded \in [Requests -> Request \cup {ABSENT}]
    BY OutdatedRequests DEF Linked
  <2> QED  BY <1>1, <1>2, <2>1, <2>2, InstalledLinks
<1>3. CASE /\ request' = [request EXCEPT ![f] =
                 [by |-> "poll", restaurant |-> screen, current |-> TRUE]]
           /\ UNCHANGED linkVars
  <2>1. /\ {mounted', screen'} \subseteq Restaurants \cup {ABSENT}
        /\ arriving' \in [1..MaxMounts -> Restaurants \cup {ABSENT}]
        /\ latched' \subseteq Latches
        /\ {mounts', flips'} \subseteq Nat
        /\ screen \in Restaurants /\ screen' # ABSENT
    BY <1>1 DEF Linked, ClientTypeOK, viewVars
  <2>2. [by |-> "poll", restaurant |-> screen, current |-> TRUE] \in Request
    BY <2>1 DEF Request, Kinds
  <2>3. request' \in [Requests -> Request \cup {ABSENT}]
    BY <1>3, <2>2, RequestsTyped DEF Linked
  <2>4. /\ transport' \in Transports /\ connection' \in Connections \cup {ABSENT}
        /\ open' = {connection'} \ {ABSENT} /\ flagPoll' \in BOOLEAN
    BY <1>3 DEF Linked, ClientTypeOK, OneConnection, linkVars
  <2> QED  BY <2>1, <2>3, <2>4, LinkedIf
<1> QED
  BY <1>2, <1>3 DEF FlagPollTick

LEMMA VisitLinks == Linked /\ Visit => Linked'
<1> SUFFICES ASSUME Linked, Visit PROVE Linked'
  OBVIOUS
<1>1. CASE Unmount
  <2>1. /\ {mounted', screen'} \subseteq Restaurants \cup {ABSENT}
        /\ arriving' \in [1..MaxMounts -> Restaurants \cup {ABSENT}]
        /\ transport' \in Transports
        /\ latched' \subseteq Latches
        /\ {mounts', flips'} \subseteq Nat
    BY <1>1 DEF Unmount, Linked, ClientTypeOK
  <2>2. connection' = ABSENT /\ open' = {connection'} \ {ABSENT} /\ flagPoll' = FALSE
    BY <1>1, ReplacedIsOne DEF Unmount, Replace, Linked, OneConnection
  <2>3. /\ request' \in [Requests -> Request \cup {ABSENT}]
        /\ \A g \in Requests : request'[g] # ABSENT => ~request'[g].current
    BY <1>1, OutdatedRequests DEF Unmount, Linked
  <2> QED  BY <2>1, <2>2, <2>3, LinkedIf
<1>2. CASE \E r \in Restaurants : Mount(r)
  <2>1. /\ {mounted', screen'} \subseteq Restaurants \cup {ABSENT}
        /\ latched' \subseteq Latches
        /\ {mounts', flips'} \subseteq Nat
    BY <1>2 DEF Mount, Linked, ClientTypeOK
  <2>2. arriving' \in [1..MaxMounts -> Restaurants \cup {ABSENT}]
    BY <1>2 DEF Mount, Linked, ClientTypeOK
  <2>3. /\ transport' \in Transports /\ connection' \in Connections \cup {ABSENT}
        /\ open' = {connection'} \ {ABSENT} /\ flagPoll' \in BOOLEAN
        /\ screen' = ABSENT => connection' = ABSENT /\ ~flagPoll'
    BY <1>2 DEF Mount, Linked, ClientTypeOK, OneConnection, linkVars
  <2>4. /\ request' \in [Requests -> Request \cup {ABSENT}]
        /\ screen' = ABSENT => \A g \in Requests : request'[g] # ABSENT => ~request'[g].current
    BY <1>2 DEF Mount, Linked
  <2> QED  BY <2>1, <2>2, <2>3, <2>4, LinkedIf
<1> QED
  BY <1>1, <1>2 DEF Visit

LEMMA LinkedStep == Linked /\ [RolloutNext]_rolloutVars => Linked'
<1> SUFFICES ASSUME Linked, [RolloutNext]_rolloutVars PROVE Linked'
  OBVIOUS
<1>u. ASSUME UNCHANGED clientVars PROVE Linked'
  BY <1>u DEF Linked, ClientTypeOK, OneConnection, clientVars, viewVars, linkVars
<1>1. ASSUME NEW f \in Requests, ScreenAsks(f) PROVE Linked'
  BY <1>1, StartLinks, FlipLinks DEF ScreenAsks
<1>2. ASSUME NEW f \in Requests, TimerAsks(f) PROVE Linked'
  BY <1>2, FlagPollTickLinks DEF TimerAsks
<1>3. ASSUME NEW f \in Requests, Answer(f) PROVE Linked'
  <2>1. Resolved(f) \in Transports
    BY DEF Resolved, Transports
  <2> QED  BY <1>3, <2>1, AnsweredLinks DEF Answer, TakeReply
<1>4. ASSUME NEW f \in Requests, LoseAnswer(f) PROVE Linked'
  <2>1. "UNKNOWN" \in Transports
    BY DEF Transports
  <2> QED  BY <1>4, <2>1, AnsweredLinks DEF LoseAnswer, TakeReply
<1>5. CASE Visit
  BY <1>5, VisitLinks
<1>6. ASSUME NEW h \in Handlers, Serving(h) PROVE Linked'
  BY <1>6, <1>u DEF Serving
<1>7. ASSUME NEW d \in Debug, Toggle(d) \/ DebugReply(d) PROVE Linked'
  BY <1>7, <1>u DEF Toggle, DebugReply
<1>8. CASE CacheMoves
  BY <1>8, <1>u DEF CacheMoves
<1>9. CASE UNCHANGED rolloutVars
  BY <1>9, <1>u DEF rolloutVars
<1> QED
  BY <1>1, <1>2, <1>3, <1>4, <1>5, <1>6, <1>7, <1>8, <1>9 DEF RolloutNext

RolloutInv == Linked /\ Typed /\ lost \in Nat

(* The state of the rollout always has its type. *)
THEOREM RolloutTypeCorrect == RolloutSpec => []RolloutTypeOK
<1>1. RolloutInit => RolloutInv
  BY LinkedInit, TypedInit DEF RolloutInit, RolloutInv
<1>2. lost \in Nat /\ [RolloutNext]_rolloutVars => lost' \in Nat
  BY DEF RolloutNext, ScreenAsks, TimerAsks, Answer, LoseAnswer, Visit, Toggle, DebugReply,
         Serving, CacheMoves, rolloutVars
<1>3. [RolloutNext]_rolloutVars => [Next]_flagVars
  BY FlagSteps DEF rolloutVars
<1>4. RolloutInv /\ [RolloutNext]_rolloutVars => RolloutInv'
  BY <1>2, <1>3, TypedStep, LinkedStep DEF RolloutInv
<1>5. RolloutInv => RolloutTypeOK
  BY DEF Linked, Typed, RolloutTypeOK, RolloutInv
<1> QED
  BY <1>1, <1>4, <1>5, PTL DEF RolloutSpec

(* The browser holds at most one connection, the one the store can close,   *)
(* and none after a stop(), whichever answer arrives late.                  *)
THEOREM OneConnectionHolds == RolloutSpec => []OneConnection
<1>1. RolloutInit => Linked
  BY LinkedInit DEF RolloutInit
<1>2. Linked => OneConnection
  BY DEF Linked
<1> QED
  BY <1>1, <1>2, LinkedStep, PTL DEF RolloutSpec
=============================================================================
