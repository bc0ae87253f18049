------------------------------- MODULE Presence -------------------------------
(***************************************************************************)
(* Which terminals the debug panel lists as working: an entry in Redis     *)
(* with a lifetime, touched by the beats of a terminal over its socket or  *)
(* by POST, and deleted when an API instance sees a socket go.  A terminal *)
(* may come back through another instance before the first has noticed.    *)
(* Entries are dropped by a lifetime of three beats, so one expires only   *)
(* while nothing renews it.                                                *)
(***************************************************************************)
EXTENDS Naturals

CONSTANTS
    Terminals,          \* terminals that report
    Instances,          \* API instances
    MaxMoves,           \* bound on screens opened and left
    MaxPresenceFaults,  \* bound on dropped links, crashes, lost writes
    NoInstance          \* no socket

ASSUME PresenceAssumption == NoInstance \notin Instances

VARIABLES
    screen,         \* per terminal: off, or the transport of its open screen
    linked,         \* per terminal: the instance its socket is connected to
    ghosts,         \* sockets that are gone and whose instance has not noticed
    posts,          \* terminals with a POST of a report under way
    listed,         \* terminals with an entry in Redis
    moves,          \* screens opened and left so far
    presenceFaults  \* faults so far

presenceVars == <<screen, linked, ghosts, posts, listed, moves, presenceFaults>>

PresenceFault == presenceFaults < MaxPresenceFaults /\ presenceFaults' = presenceFaults + 1
Move == moves < MaxMoves /\ moves' = moves + 1

PresenceInit ==
    /\ screen = [t \in Terminals |-> "off"]
    /\ linked = [t \in Terminals |-> NoInstance]
    /\ ghosts = {} /\ posts = {} /\ listed = {}
    /\ moves = 0 /\ presenceFaults = 0
----------------------------------------------------------------------------
(* Writes are not awaited: one that fails is lost without a trace. *)

Written(entries) ==
    \/ listed' = entries /\ UNCHANGED presenceFaults
    \/ listed # entries /\ PresenceFault /\ UNCHANGED listed

Touch(t) == Written(listed \cup {t})
Forget(t) == Written(listed \ {t})

(* The server's end of a socket that is no more. *)
Left(t) == IF linked[t] = NoInstance THEN {} ELSE {<<t, linked[t]>>}
----------------------------------------------------------------------------
(* The terminal *)

OpenScreen(t, transport) ==
    /\ screen[t] = "off" /\ Move
    /\ screen' = [screen EXCEPT ![t] = transport]
    /\ posts' = IF transport = "polling" THEN posts \cup {t} ELSE posts
    /\ UNCHANGED <<linked, ghosts, listed, presenceFaults>>

(* On every connect it reports at once; the socket then claims t. *)
Connect(t, i) ==
    /\ screen[t] = "socket" /\ linked[t] = NoInstance
    /\ linked' = [linked EXCEPT ![t] = i]
    /\ Touch(t)
    /\ UNCHANGED <<screen, ghosts, posts, moves>>

(* Faulty variant of SocketBeat: no report but the first. *)
NoSocketBeat(t) == FALSE /\ UNCHANGED presenceVars

(* The timer of startPresenceBeat, through a connected socket only. *)
SocketBeat(t) ==
    /\ screen[t] = "socket" /\ linked[t] # NoInstance
    /\ Touch(t)
    /\ UNCHANGED <<screen, linked, ghosts, posts, moves>>

(* The same timer on the polling transport. *)
PostBeat(t) ==
    /\ screen[t] = "polling" /\ t \notin posts
    /\ posts' = posts \cup {t}
    /\ UNCHANGED <<screen, linked, ghosts, listed, moves, presenceFaults>>

(* close() of the transport; a POST under way is not withdrawn.  A tab     *)
(* that is killed leaves the same behind.                                  *)
LeaveScreen(t) ==
    /\ screen[t] # "off" /\ Move
    /\ screen' = [screen EXCEPT ![t] = "off"]
    /\ ghosts' = ghosts \cup Left(t)
    /\ linked' = [linked EXCEPT ![t] = NoInstance]
    /\ UNCHANGED <<posts, listed, presenceFaults>>

LinkDrops(t) ==
    /\ linked[t] # NoInstance /\ PresenceFault
    /\ ghosts' = ghosts \cup Left(t)
    /\ linked' = [linked EXCEPT ![t] = NoInstance]
    /\ UNCHANGED <<screen, posts, listed, moves>>
----------------------------------------------------------------------------
(* The server *)

PostArrives(t) ==
    /\ t \in posts /\ posts' = posts \ {t}
    /\ Touch(t)
    /\ UNCHANGED <<screen, linked, ghosts, moves>>

(* The instance deletes the entries the socket had claimed, also when the  *)
(* terminal is back on another socket by now.                              *)
Noticed(t, i) ==
    /\ <<t, i>> \in ghosts
    /\ ghosts' = ghosts \ {<<t, i>>}
    /\ Forget(t)
    /\ UNCHANGED <<screen, linked, posts, moves>>

(* A crash takes the sockets and what they had claimed. *)
InstanceDies(i) ==
    /\ PresenceFault
    /\ ghosts' = {g \in ghosts : g[2] # i}
    /\ linked' = [t \in Terminals |-> IF linked[t] = i THEN NoInstance ELSE linked[t]]
    /\ UNCHANGED <<screen, posts, listed, moves>>

Renewed(t) == linked[t] # NoInstance \/ screen[t] = "polling"

Expires(t) ==
    /\ t \in listed /\ ~Renewed(t)
    /\ listed' = listed \ {t}
    /\ UNCHANGED <<screen, linked, ghosts, posts, moves, presenceFaults>>

(* Redis restarts, or refuses the writes of three beats. *)
EntriesLost ==
    /\ listed # {} /\ PresenceFault
    /\ listed' = {}
    /\ UNCHANGED <<screen, linked, ghosts, posts, moves>>

PresenceNext ==
    \/ \E t \in Terminals :
        \/ \E transport \in {"socket", "polling"} : OpenScreen(t, transport)
        \/ SocketBeat(t) \/ PostBeat(t) \/ LeaveScreen(t) \/ LinkDrops(t)
        \/ PostArrives(t) \/ Expires(t)
        \/ \E i \in Instances : Connect(t, i) \/ Noticed(t, i)
    \/ \E i \in Instances : InstanceDies(i)
    \/ EntriesLost

(* socket.io reconnects, timers fire, requests end, a dead socket misses   *)
(* its ping, and an entry has a lifetime.                                  *)
PresenceFairness == \A t \in Terminals :
    /\ WF_presenceVars(\E i \in Instances : Connect(t, i))
    /\ WF_presenceVars(SocketBeat(t)) /\ WF_presenceVars(PostBeat(t))
    /\ WF_presenceVars(PostArrives(t)) /\ WF_presenceVars(Expires(t))
    /\ \A i \in Instances : WF_presenceVars(Noticed(t, i))

PresenceSpec == PresenceInit /\ [][PresenceNext]_presenceVars /\ PresenceFairness
----------------------------------------------------------------------------
(* Properties *)

(* Once terminals are left alone, exactly the working ones are listed,     *)
(* whatever was deleted, renewed or lost on the way: neither an eager      *)
(* delete of an old socket nor a crash that skips it has the last word     *)
(* (socket-server.ts:113-146, redis-debug-store.ts:39-46).                 *)
PresenceSettles == \A t \in Terminals : <>[](t \in listed <=> screen[t] # "off")
=============================================================================
