--------------------------- MODULE SessionManager ---------------------------
(***************************************************************************)
(* The table of live sessions (SessionManager in                           *)
(* src/src/server/session-manager.ts) as the WebSocket handshake (ws.ts)   *)
(* and the REST routes (src/src/app/api/sessions/[id]/route.ts) drive it:  *)
(* attach and its lazily started runtime, detach and the idle timer, the   *)
(* cap and its eviction, a mode change and deletion.                       *)
(*                                                                         *)
(* Node runs one callback at a time, so a stretch of code between two      *)
(* awaits that really wait is one action, and everything else may run in   *)
(* between.  A connection attaches once.  It may create one LiveSession    *)
(* (with its CopilotClient and SDK session) and, when it closes, may start *)
(* one idle timer; all of these go by the connection's name.               *)
(***************************************************************************)
EXTENDS Naturals, FiniteSets

CONSTANTS
    Sessions,    \* ids of session rows
    Conns,       \* WebSocket connections
    Modes,       \* the modes rows may have
    MaxLive,     \* MAX_LIVE_SESSIONS
    MaxPatches,  \* bound: mode changes
    MaxDeletes,  \* bound: delete requests
    None         \* no LiveSession, no timer, no SDK session

ASSUME ManagerAssumption ==
    /\ Modes \subseteq {"planning", "interactive", "auto"}
    /\ MaxLive \in Nat
    /\ MaxPatches \in Nat
    /\ MaxDeletes \in Nat
    /\ None \notin Conns \cup Sessions \cup Modes
    /\ IsFiniteSet(Sessions)

VARIABLES
    row,       \* whether the session's row exists
    rowMode,   \* Session.mode
    sdkId,     \* Session.sdkSessionId: the connection that created it, or None
    live,      \* this.live: session -> its LiveSession, or None
    born,      \* per session, when it was inserted in this.live (0: it is not there)
    births,    \* insertions in this.live so far
    mode,      \* per LiveSession, live.mode as read from the row
    resumes,   \* per LiveSession, the sdkSessionId read from the row
    sockets,   \* per LiveSession, live.sockets
    handle,    \* per LiveSession, live.evictionTimer
    client,    \* per LiveSession, its CopilotClient
    armed,     \* idle timers that have yet to fire
    phase,     \* per connection, where its handleConnection is
    up,        \* per connection, whether the socket is open
    target,    \* per connection, its session
    using,     \* per connection, the LiveSession it was attached to
    del,       \* per session, where a deleteSession call is
    delObj,    \* per session, the LiveSession that call captured
    patches, deletes,
    replaced,  \* history: live.set replaced another LiveSession
    torn       \* history: deleteSession took the runtime away

rowVars  == <<row, rowMode, sdkId>>
liveVars == <<live, born, births, client>>
delVars  == <<del, delObj, deletes, torn>>
vars     == <<rowVars, liveVars, mode, resumes, sockets, handle, armed, phase,
              up, target, using, delVars, patches, replaced>>

Phases == {"idle", "loading", "starting", "creating", "saving", "reading", "served", "done"}

TypeOK ==
    /\ row \in [Sessions -> BOOLEAN]
    /\ rowMode \in [Sessions -> Modes]
    /\ sdkId \in [Sessions -> Conns \cup {None}]
    /\ live \in [Sessions -> Conns \cup {None}]
    /\ born \in [Sessions -> Nat]
    /\ births \in Nat
    /\ mode \in [Conns -> Modes \cup {None}]
    /\ resumes \in [Conns -> Conns \cup {None}]
    /\ sockets \in [Conns -> SUBSET Conns]
    /\ handle \in [Conns -> Conns \cup {None}]
    /\ client \in [Conns -> {"none", "running", "stopped"}]
    /\ armed \subseteq Conns
    /\ phase \in [Conns -> Phases]
    /\ up \in [Conns -> BOOLEAN]
    /\ target \in [Conns -> Sessions \cup {None}]
    /\ using \in [Conns -> Conns \cup {None}]
    /\ del \in [Sessions -> {"none", "stopping", "removing"}]
    /\ delObj \in [Sessions -> Conns \cup {None}]
    /\ patches \in 0 .. MaxPatches
    /\ deletes \in 0 .. MaxDeletes
    /\ replaced \in [Sessions -> BOOLEAN]
    /\ torn \in [Sessions -> BOOLEAN]

Init ==
    /\ row = [s \in Sessions |-> TRUE]
    /\ rowMode \in [Sessions -> Modes]
    /\ sdkId = [s \in Sessions |-> None]
    /\ live = [s \in Sessions |-> None]
    /\ born = [s \in Sessions |-> 0]
    /\ births = 0
    /\ mode = [c \in Conns |-> None]
    /\ resumes = [c \in Conns |-> None]
    /\ sockets = [c \in Conns |-> {}]
    /\ handle = [c \in Conns |-> None]
    /\ client = [c \in Conns |-> "none"]
    /\ armed = {}
    /\ phase = [c \in Conns |-> "idle"]
    /\ up = [c \in Conns |-> FALSE]
    /\ target = [c \in Conns |-> None]
    /\ using = [c \in Conns |-> None]
    /\ del = [s \in Sessions |-> "none"]
    /\ delObj = [s \in Sessions |-> None]
    /\ patches = 0
    /\ deletes = 0
    /\ replaced = [s \in Sessions |-> FALSE]
    /\ torn = [s \in Sessions |-> FALSE]

-----------------------------------------------------------------------------
(* Pieces of the handlers.                                                 *)

Live == {s \in Sessions : live[s] # None}

(* this.live.set(s, o): a Map keeps an existing key where it is.           *)
LiveSet(s, o) ==
    /\ live' = [live EXCEPT ![s] = o]
    /\ births' = births + 1
    /\ born' = IF s \in Live THEN born ELSE [born EXCEPT ![s] = births + 1]

(* Attach socket c to LiveSession o, and stop the timer o remembers.       *)
Join(c, o) ==
    /\ sockets' = [sockets EXCEPT ![o] = @ \cup {c}]
    /\ armed' = armed \ {handle[o]}
    /\ handle' = [handle EXCEPT ![o] = None]
    /\ using' = [using EXCEPT ![c] = o]

Idle(s) == sockets[live[s]] = {} /\ mode[live[s]] # "auto"

(* this.live.delete(s) and client.stop() for what was there.               *)
Remove(s) ==
    /\ live' = [live EXCEPT ![s] = None]
    /\ born' = [born EXCEPT ![s] = 0]
    /\ client' = [client EXCEPT ![live[s]] = "stopped"]
    /\ UNCHANGED births

evictAnyway(s) ==
    IF live[s] = None THEN UNCHANGED liveVars ELSE Remove(s)

(* evict: nothing happens unless the session is live with no socket.       *)
evict(s) ==
    IF live[s] = None \/ sockets[live[s]] # {} THEN UNCHANGED liveVars ELSE Remove(s)

evictOldest ==
    \/ \E s \in Live : (\A t \in Live : born[s] <= born[t]) /\ Remove(s)
    \/ Live = {} /\ UNCHANGED liveVars

(* evictLeastRecentlyUsedIdle: the idle session that was inserted first;   *)
(* nothing happens when there is none.                                     *)
evictLeastRecentlyUsedIdle ==
    \/ \E s \in Live :
         /\ Idle(s)
         /\ \A t \in Live : Idle(t) => born[s] <= born[t]
         /\ Remove(s)
    \/ (\A s \in Live : ~ Idle(s)) /\ UNCHANGED liveVars

-----------------------------------------------------------------------------
(* handleConnection, attach and ensureLive, for connection c.              *)

(* The session is already live: join it, then wait for the backlog.        *)
AttachToLive(c, s) ==
    /\ phase[c] = "idle"
    /\ live[s] # None
    /\ Join(c, live[s])
    /\ phase' = [phase EXCEPT ![c] = "reading"]
    /\ up' = [up EXCEPT ![c] = TRUE]
    /\ target' = [target EXCEPT ![c] = s]
    /\ UNCHANGED <<rowVars, liveVars, mode, resumes, delVars, patches, replaced>>

(* It is not: make room if the table is full, then go and read the row.    *)
AttachToCold(c, s) ==
    /\ phase[c] = "idle"
    /\ live[s] = None
    /\ IF Cardinality(Live) >= MaxLive THEN evictLeastRecentlyUsedIdle ELSE UNCHANGED liveVars
    /\ phase' = [phase EXCEPT ![c] = "loading"]
    /\ up' = [up EXCEPT ![c] = TRUE]
    /\ target' = [target EXCEPT ![c] = s]
    /\ UNCHANGED <<rowVars, mode, resumes, sockets, handle, armed, using, delVars, patches, replaced>>

(* The row and the token have been read and client.start() is called.      *)
LoadRow(c) ==
    /\ phase[c] = "loading"
    /\ row[target[c]]
    /\ mode' = [mode EXCEPT ![c] = rowMode[target[c]]]
    /\ resumes' = [resumes EXCEPT ![c] = sdkId[target[c]]]
    /\ phase' = [phase EXCEPT ![c] = "starting"]
    /\ UNCHANGED <<rowVars, liveVars, sockets, handle, armed, up, target, using, delVars, patches, replaced>>

(* The runtime is up; resumeSession or createSession is called.            *)
StartClient(c) ==
    /\ phase[c] = "starting"
    /\ client' = [client EXCEPT ![c] = "running"]
    /\ phase' = [phase EXCEPT ![c] = "creating"]
    /\ UNCHANGED <<rowVars, live, born, births, mode, resumes, sockets, handle, armed, up, target,
                   using, delVars, patches, replaced>>

(* this.live.set, back in attach: sockets.add, wait for the backlog.       *)
GoLive(c) ==
    /\ LiveSet(target[c], c)
    /\ replaced' = [replaced EXCEPT ![target[c]] = @ \/ live[target[c]] # None]
    /\ Join(c, c)
    /\ phase' = [phase EXCEPT ![c] = "reading"]

(* resumeSession has answered.                                             *)
ResumeSdkSession(c) ==
    /\ phase[c] = "creating"
    /\ resumes[c] # None
    /\ GoLive(c)
    /\ UNCHANGED <<rowVars, client, mode, resumes, up, target, delVars, patches>>

(* createSession has answered; its id goes to the row first.               *)
CreateSdkSession(c) ==
    /\ phase[c] = "creating"
    /\ resumes[c] = None
    /\ phase' = [phase EXCEPT ![c] = "saving"]
    /\ UNCHANGED <<rowVars, liveVars, mode, resumes, sockets, handle, armed, up, target, using,
                   delVars, patches, replaced>>

(* The row has been updated.                                               *)
SaveSdkSession(c) ==
    /\ phase[c] = "saving"
    /\ row[target[c]]
    /\ sdkId' = [sdkId EXCEPT ![target[c]] = c]
    /\ GoLive(c)
    /\ UNCHANGED <<row, rowMode, client, mode, resumes, up, target, delVars, patches>>

(* Any of these steps throws (no row, no token, the runtime or the SDK     *)
(* refuses, the update finds no row, the backlog query fails):             *)
(* handleConnection closes the socket.  What was started stays started.    *)
FailAttach(c) ==
    /\ phase[c] \in {"loading", "starting", "creating", "saving", "reading"}
    /\ phase' = [phase EXCEPT ![c] = "done"]
    /\ up' = [up EXCEPT ![c] = FALSE]
    /\ UNCHANGED <<rowVars, liveVars, mode, resumes, sockets, handle, armed, target, using,
                   delVars, patches, replaced>>

(* The backlog is sent and the message and close handlers are installed.   *)
Serve(c) ==
    /\ phase[c] = "reading"
    /\ phase' = [phase EXCEPT ![c] = "served"]
    /\ UNCHANGED <<rowVars, liveVars, mode, resumes, sockets, handle, armed, up, target, using,
                   delVars, patches, replaced>>

(* The socket closes before the close handler exists: nobody is told.      *)
CloseEarly(c) ==
    /\ phase[c] \in {"loading", "starting", "creating", "saving", "reading"}
    /\ up[c]
    /\ up' = [up EXCEPT ![c] = FALSE]
    /\ UNCHANGED <<rowVars, liveVars, mode, resumes, sockets, handle, armed, phase, target, using,
                   delVars, patches, replaced>>

emptyBeforeRemoval(c, o) ==
    /\ sockets' = [sockets EXCEPT ![o] = @ \ {c}]
    /\ IF sockets[o] = {} /\ mode[o] # "auto"
          THEN armed' = armed \cup {c} /\ handle' = [handle EXCEPT ![o] = c]
          ELSE UNCHANGED <<armed, handle>>

(* detach from LiveSession o: the last socket to leave a session that is   *)
(* not in auto mode starts the idle timer.                                 *)
detach(c, o) ==
    /\ sockets' = [sockets EXCEPT ![o] = @ \ {c}]
    /\ IF sockets[o] \ {c} = {} /\ mode[o] # "auto"
          THEN armed' = armed \cup {c} /\ handle' = [handle EXCEPT ![o] = c]
          ELSE UNCHANGED <<armed, handle>>

(* The socket closes: detach looks the session up by id.                   *)
Close(c) ==
    /\ phase[c] = "served"
    /\ up[c]
    /\ up' = [up EXCEPT ![c] = FALSE]
    /\ phase' = [phase EXCEPT ![c] = "done"]
    /\ IF live[target[c]] = None
          THEN UNCHANGED <<sockets, armed, handle>>
          ELSE detach(c, live[target[c]])
    /\ UNCHANGED <<rowVars, liveVars, mode, resumes, target, using, delVars, patches, replaced>>

(* The idle timer connection c's detach started fires, for its session id. *)
FireTimer(c) ==
    /\ c \in armed
    /\ armed' = armed \ {c}
    /\ evict(target[c])
    /\ UNCHANGED <<rowVars, mode, resumes, sockets, handle, phase, up, target, using, delVars,
                   patches, replaced>>

-----------------------------------------------------------------------------
(* The REST routes.                                                        *)

patchUnvalidated(s) ==
    /\ patches < MaxPatches
    /\ row[s]
    /\ rowMode' = [rowMode EXCEPT ![s] = None]
    /\ patches' = patches + 1
    /\ UNCHANGED <<row, sdkId, liveVars, mode, resumes, sockets, handle, armed, phase, up, target,
                   using, delVars, replaced>>

(* PATCH: the row's mode changes, a live session's does not.               *)
PatchMode(s) ==
    /\ patches < MaxPatches
    /\ row[s]
    /\ \E m \in Modes \ {rowMode[s]} : rowMode' = [rowMode EXCEPT ![s] = m]
    /\ patches' = patches + 1
    /\ UNCHANGED <<row, sdkId, liveVars, mode, resumes, sockets, handle, armed, phase, up, target,
                   using, delVars, replaced>>

(* DELETE: the row has been read; a live runtime is asked to stop.  One    *)
(* request per session at a time.                                          *)
BeginDelete(s) ==
    /\ deletes < MaxDeletes
    /\ row[s]
    /\ del[s] = "none"
    /\ deletes' = deletes + 1
    /\ del' = [del EXCEPT ![s] = IF live[s] = None THEN "removing" ELSE "stopping"]
    /\ delObj' = [delObj EXCEPT ![s] = live[s]]
    /\ UNCHANGED <<rowVars, liveVars, mode, resumes, sockets, handle, armed, phase, up, target,
                   using, torn, patches, replaced>>

(* client.stop() has answered; whatever is live under this id is dropped.  *)
StopDeleted(s) ==
    /\ del[s] = "stopping"
    /\ client' = [client EXCEPT ![delObj[s]] = "stopped"]
    /\ live' = [live EXCEPT ![s] = None]
    /\ born' = [born EXCEPT ![s] = 0]
    /\ del' = [del EXCEPT ![s] = "removing"]
    /\ torn' = [torn EXCEPT ![s] = TRUE]
    /\ UNCHANGED <<rowVars, births, mode, resumes, sockets, handle, armed, phase, up, target, using,
                   delObj, deletes, patches, replaced>>

(* The row is deleted, or the database refuses and the route answers 400.  *)
RemoveRow(s) ==
    /\ del[s] = "removing"
    /\ \/ row' = [row EXCEPT ![s] = FALSE]
       \/ UNCHANGED row
    /\ del' = [del EXCEPT ![s] = "none"]
    /\ delObj' = [delObj EXCEPT ![s] = None]
    /\ UNCHANGED <<rowMode, sdkId, liveVars, mode, resumes, sockets, handle, armed, phase, up,
                   target, using, deletes, torn, patches, replaced>>

AttachSteps(c) ==
    \/ LoadRow(c)
    \/ StartClient(c)
    \/ ResumeSdkSession(c)
    \/ CreateSdkSession(c)
    \/ SaveSdkSession(c)
    \/ FailAttach(c)
    \/ Serve(c)

Next ==
    \/ \E c \in Conns :
         \/ \E s \in Sessions : AttachToLive(c, s) \/ AttachToCold(c, s)
         \/ AttachSteps(c)
         \/ CloseEarly(c)
         \/ Close(c)
         \/ FireTimer(c)
    \/ \E s \in Sessions :
         \/ PatchMode(s)
         \/ BeginDelete(s)
         \/ StopDeleted(s)
         \/ RemoveRow(s)

Spec == Init /\ [][Next]_vars

(* Every awaited call settles, one way or the other, and timers fire.      *)
(* Nothing forces a user to connect, leave, patch or delete.               *)
Fairness ==
    /\ \A c \in Conns : WF_vars(AttachSteps(c)) /\ WF_vars(FireTimer(c))
    /\ \A s \in Sessions : WF_vars(StopDeleted(s)) /\ WF_vars(RemoveRow(s))

FairSpec == Spec /\ Fairness
-----------------------------------------------------------------------------
(* Properties.                                                             *)

Attached(c) == phase[c] = "served" /\ up[c]

(* No eviction, by idle timer or by cap, takes the runtime from under an   *)
(* open connection, whichever of several timers for the same id fires;     *)
(* only deletion does (the sockets.size checks in evict and                *)
(* evictLeastRecentlyUsedIdle).                                            *)
AttachedHasRuntime ==
    \A c \in Conns : Attached(c) => client[using[c]] = "running" \/ torn[target[c]]

(* An open connection is in the live session's sockets, where events and   *)
(* answers go, unless another attach to the same session raced with its    *)
(* own and replaced the LiveSession, or the session was deleted.  The      *)
(* race is the only way out (live.set at the end of ensureLive).           *)
FanOutReachesUnlessRaced ==
    \A c \in Conns :
        Attached(c) => LET s == target[c] IN
                         \/ live[s] # None /\ c \in sockets[live[s]]
                         \/ replaced[s]
                         \/ torn[s]

(* A live session that nobody is attached to and that is not in auto mode  *)
(* has an idle timer running for it, whatever attaches, detaches and stale *)
(* timers came before (detach and the clearTimeout in attach).             *)
IdleHasTimer ==
    \A s \in Sessions :
        live[s] # None /\ Idle(s) => \E c \in armed : target[c] = s

(* An idle session is freed, or somebody comes back to it first.           *)
IdleIsFreed ==
    \A s \in Sessions : live[s] # None /\ Idle(s) ~> live[s] = None \/ ~ Idle(s)

(* "Persists + fans out one event to every attached socket"                *)
(* (broadcastAppEvent): an open connection is where the fan-out looks.     *)
FanOutReaches ==
    \A c \in Conns :
        Attached(c) /\ ~ torn[target[c]]
            => live[target[c]] # None /\ c \in sockets[live[target[c]]]

(* "Auto-mode sessions are exempt" from eviction (README.md): a live auto  *)
(* session leaves the table only when it is deleted or replaced.           *)
AutoNeverEvicted ==
    [][\A s \in Sessions :
         live[s] # None /\ mode[live[s]] = "auto" /\ live'[s] = None => torn'[s]]_vars

-----------------------------------------------------------------------------
(* What the repository also says, and what TLC refutes at once when one   *)
(* of these takes the place of the property a small configuration checks.  *)

(* "Concurrent live sessions are capped" (README.md).                      *)
LiveCapped == Cardinality(Live) <= MaxLive

(* "idle ... sessions are evicted after 30 minutes with nobody attached":  *)
(* a live interactive session with no open connection is evicted sooner or *)
(* later, unless somebody connects.                                        *)
Watched(s) == \E c \in Conns : target[c] = s /\ up[c]
IdleIsEvicted ==
    \A s \in Sessions :
        live[s] # None /\ mode[live[s]] # "auto" /\ ~ Watched(s)
            ~> live[s] = None \/ mode[live[s]] = "auto" \/ Watched(s)

(* "free the runtime after a grace period" (detach): the timer that can    *)
(* evict a session is the one its own last detach started.                 *)
GracePeriodKept ==
    [][\A s \in Sessions : \A c \in Conns :
         /\ live[s] # None /\ live'[s] = None
         /\ c \in armed /\ armed' = armed \ {c} /\ ~ torn'[s]
         => handle[live[s]] = c]_vars

(* "deleteSession removes the row and stops the underlying client"         *)
(* (session-manager.test.ts): once the row is gone and no attach is under  *)
(* way, no runtime of that session is left.                                *)
DeleteStopsRuntime ==
    \A s \in Sessions :
        ~ row[s] /\ (\A c \in Conns : target[c] = s => phase[c] \in {"served", "done"})
            => \A c \in Conns : target[c] = s => client[c] # "running"
=============================================================================
