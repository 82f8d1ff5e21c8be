---------------------------- MODULE EventStream ----------------------------
(***************************************************************************)
(* How one session's events reach the browsers that watch it:              *)
(*                                                                         *)
(*   - the persisted log (src/src/server/event-log.ts): a row counter and  *)
(*     the rows, written together in one transaction;                      *)
(*   - the fan-out (broadcastAppEvent in session-manager.ts): persist,     *)
(*     then send to the sockets of the LiveSession that is in the table    *)
(*     at that later moment;                                               *)
(*   - the attach handshake (attach and ensureLive in session-manager.ts   *)
(*     and handleConnection in ws.ts): find or start the LiveSession, join *)
(*     its sockets, then read the backlog, then send it;                   *)
(*   - the browser's hook (use-session-socket.ts): merge what arrives,     *)
(*     remember the highest seq, reconnect with ?since=.                   *)
(*                                                                         *)
(* Every await is a boundary between two actions.  An event is its place   *)
(* in the emission order; its type and data are left out.                  *)
(***************************************************************************)
EXTENDS Naturals, Sequences, FiniteSets

CONSTANTS
    Clients,    \* the browser tabs watching the session
    MaxEvents,  \* bound: how many events the SDK and the bridge emit
    Limit,      \* rows in one backlog page (500 in getEventsSince)
    MaxDrops    \* bound: how many connections break or tabs reload

ASSUME StreamAssumption ==
    /\ MaxEvents \in Nat
    /\ Limit \in Nat \ {0}
    /\ MaxDrops \in Nat

VARIABLES
    emitted,       \* events handed to broadcastAppEvent so far
    appending,     \* events whose appendEvent call waits for the row lock
    tx,            \* the event whose transaction holds the row lock, or 0
    lastEventSeq,  \* Session.lastEventSeq as committed
    rows,          \* SessionEvent rows: seq -> event, 0 where there is none
    unsent,        \* committed seqs whose .then callback has not run yet
    live,          \* whether the table holds a LiveSession for the session
    sockets,       \* the tabs whose open socket is in its live.sockets
    ghosts,        \* whether a dead socket that nobody detaches is there too
    orphans,       \* cold starts under way whose own tab is gone
    raced,         \* history: one cold start began while another was under way
    conn,          \* per client, the state of its current connection
    since,         \* per client, the ?since= of its current connection
    page,          \* per client, the backlog the database answered with
    over,          \* per client, whether more rows waited than fit the page
    chan,          \* per client, messages on the wire, in order
    lastSeq,       \* per client, lastSeqRef
    copies,        \* per client, how often each seq is in its events array
    drops          \* connections broken so far

logVars    == <<emitted, appending, tx, lastEventSeq, rows, unsent>>
tableVars  == <<live, sockets, ghosts, orphans, raced>>
serverVars == <<since, page, over>>
clientVars == <<lastSeq, copies>>
vars       == <<logVars, tableVars, serverVars, clientVars, conn, chan, drops>>

Seqs == 1 .. MaxEvents

(* A connection is "down"; "attaching" until ensureLive looks at the       *)
(* table; "starting" while it builds a LiveSession there was none of;      *)
(* "attached" once the socket has joined and the backlog query is under    *)
(* way; "read" once the database has answered; "open" once the backlog is  *)
(* sent and the close handler installed.                                   *)
ConnStates == {"down", "attaching", "starting", "attached", "read", "open"}

Starting == {c \in Clients : conn[c] = "starting"}

Connected == {c \in Clients : conn[c] \in {"attached", "read", "open"}}

(* Both message kinds carry the rows to merge and the seq to resume from.  *)
Message == [events : SUBSET Seqs, lastSeq : 0 .. MaxEvents]

Committed == {s \in Seqs : rows[s] # 0}

joinAfterBacklog == {c \in sockets : conn[c] = "open"}

(* Whom an event is sent to: the open sockets of the table's LiveSession.  *)
Reached == IF live THEN sockets ELSE {}

(* The rows a client that resumes from since[c] has yet to be given.       *)
Backlog(c) == {s \in Committed : s > since[c]}

(* getEventsSince: WHERE seq > since ORDER BY seq ASC LIMIT Limit.         *)
getEventsSince(c) ==
    {s \in Backlog(c) : Cardinality({t \in Backlog(c) : t <= s}) <= Limit}

appendAlways(existing, incoming) ==
    [s \in Seqs |-> IF s \in incoming THEN existing[s] + 1 ELSE existing[s]]

(* dedupeAppend: what is already there by seq is not appended again.  The  *)
(* sort that follows makes the array a function of these multiplicities.   *)
dedupeAppend(existing, incoming) ==
    [s \in Seqs |-> IF s \in incoming /\ existing[s] = 0
                       THEN existing[s] + 1 ELSE existing[s]]

(* backlog[backlog.length - 1].seq, or since when the backlog is empty.    *)
HighestOf(S, floor) ==
    IF S = {} THEN floor ELSE CHOOSE s \in S : \A t \in S : t <= s

latestOnly(a, b) == b

(* Math.max(lastSeqRef.current, message.lastSeq)                           *)
Larger(a, b) == IF a >= b THEN a ELSE b
-----------------------------------------------------------------------------
Init ==
    /\ emitted = 0
    /\ appending = {}
    /\ tx = 0
    /\ lastEventSeq = 0
    /\ rows = [s \in Seqs |-> 0]
    /\ unsent = {}
    /\ live = FALSE
    /\ sockets = {}
    /\ ghosts = FALSE
    /\ orphans = 0
    /\ raced = FALSE
    /\ conn = [c \in Clients |-> "down"]
    /\ since = [c \in Clients |-> 0]
    /\ page = [c \in Clients |-> {}]
    /\ over = [c \in Clients |-> FALSE]
    /\ chan = [c \in Clients |-> << >>]
    /\ lastSeq = [c \in Clients |-> 0]
    /\ copies = [c \in Clients |-> [s \in Seqs |-> 0]]
    /\ drops = 0

-----------------------------------------------------------------------------
(* The log.                                                                *)

(* handleSdkEvent or a bridge request: appendEvent is called, not awaited. *)
Emit ==
    /\ emitted < MaxEvents
    /\ emitted' = emitted + 1
    /\ appending' = appending \cup {emitted + 1}
    /\ UNCHANGED <<tx, lastEventSeq, rows, unsent, tableVars, serverVars, clientVars, conn, chan, drops>>

sendBeforeCommit(e) ==
    /\ tx = 0
    /\ e \in appending
    /\ tx' = e
    /\ appending' = appending \ {e}
    /\ unsent' = unsent \cup {lastEventSeq + 1}
    /\ UNCHANGED <<emitted, lastEventSeq, rows, tableVars, serverVars, clientVars, conn, chan, drops>>

(* The transaction's UPDATE takes the session's row lock.  Which of the    *)
(* waiting transactions gets it is up to the database.                     *)
BeginAppend(e) ==
    /\ tx = 0
    /\ e \in appending
    /\ tx' = e
    /\ appending' = appending \ {e}
    /\ UNCHANGED <<emitted, lastEventSeq, rows, unsent, tableVars, serverVars, clientVars, conn, chan, drops>>

numberBeforeIncrement ==
    /\ tx # 0
    /\ lastEventSeq' = lastEventSeq + 1
    /\ rows' = [rows EXCEPT ![lastEventSeq] = tx]
    /\ unsent' = unsent \cup {lastEventSeq}
    /\ tx' = 0
    /\ UNCHANGED <<emitted, appending, tableVars, serverVars, clientVars, conn, chan, drops>>

retryAfterCommit ==
    /\ tx # 0
    /\ lastEventSeq' = lastEventSeq + 1
    /\ rows' = [rows EXCEPT ![lastEventSeq + 1] = tx]
    /\ unsent' = unsent \cup {lastEventSeq + 1}
    /\ tx' = 0
    /\ appending' = appending \cup {tx}
    /\ UNCHANGED <<emitted, tableVars, serverVars, clientVars, conn, chan, drops>>

(* The row is created with the incremented counter and both become visible *)
(* together.                                                               *)
CommitAppend ==
    /\ tx # 0
    /\ lastEventSeq' = lastEventSeq + 1
    /\ rows' = [rows EXCEPT ![lastEventSeq + 1] = tx]
    /\ unsent' = unsent \cup {lastEventSeq + 1}
    /\ tx' = 0
    /\ UNCHANGED <<emitted, appending, tableVars, serverVars, clientVars, conn, chan, drops>>

counterOutsideTransaction ==
    /\ tx # 0
    /\ lastEventSeq' = lastEventSeq + 1
    /\ tx' = 0
    /\ UNCHANGED <<emitted, appending, rows, unsent, tableVars, serverVars, clientVars, conn, chan, drops>>

(* The transaction fails and rolls back; the catch only logs the error.    *)
FailAppend ==
    /\ tx # 0
    /\ tx' = 0
    /\ UNCHANGED <<emitted, appending, lastEventSeq, rows, unsent, tableVars, serverVars, clientVars, conn, chan, drops>>

(* appendEvent's .then: the sockets of the LiveSession now in the table    *)
(* get the event.  The callbacks of different appends run in whatever      *)
(* order their answers arrive from the database pool.                      *)
SendEvent(s) ==
    /\ s \in unsent
    /\ unsent' = unsent \ {s}
    /\ chan' = [c \in Clients |->
                  IF c \in Reached
                     THEN Append(chan[c], [events |-> {s}, lastSeq |-> s])
                     ELSE chan[c]]
    /\ UNCHANGED <<emitted, appending, tx, lastEventSeq, rows, tableVars, serverVars, clientVars, conn, drops>>

-----------------------------------------------------------------------------
(* The attach handshake.                                                   *)

connectOnlyAtMount(c) ==
    /\ conn[c] = "down"
    /\ drops = 0
    /\ conn' = [conn EXCEPT ![c] = "attaching"]
    /\ since' = [since EXCEPT ![c] = lastSeq[c]]
    /\ over' = [over EXCEPT ![c] = FALSE]
    /\ UNCHANGED <<logVars, tableVars, page, clientVars, chan, drops>>

(* The hook's connect(): a new socket that resumes from lastSeqRef.        *)
Connect(c) ==
    /\ conn[c] = "down"
    /\ conn' = [conn EXCEPT ![c] = "attaching"]
    /\ since' = [since EXCEPT ![c] = lastSeq[c]]
    /\ over' = [over EXCEPT ![c] = FALSE]
    /\ UNCHANGED <<logVars, tableVars, page, clientVars, chan, drops>>

(* attach: the table holds a LiveSession, so ensureLive returns it and     *)
(* live.sockets.add(ws) follows; then the backlog query goes out.          *)
JoinSockets(c) ==
    /\ conn[c] = "attaching"
    /\ live
    /\ conn' = [conn EXCEPT ![c] = "attached"]
    /\ sockets' = sockets \cup {c}
    /\ UNCHANGED <<logVars, live, ghosts, orphans, raced, serverVars, clientVars, chan, drops>>

(* attach: it holds none, so ensureLive sets out to build one, whoever     *)
(* else is building one for the same session.                              *)
StartRuntime(c) ==
    /\ conn[c] = "attaching"
    /\ ~live
    /\ conn' = [conn EXCEPT ![c] = "starting"]
    /\ raced' = (raced \/ orphans > 0 \/ Starting # {})
    /\ UNCHANGED <<logVars, live, sockets, ghosts, orphans, serverVars, clientVars, chan, drops>>

(* this.live.set: the new LiveSession takes the table's place from any     *)
(* other, whose sockets the fan-out reaches no more; then the tab joins.   *)
RuntimeReady(c) ==
    /\ conn[c] = "starting"
    /\ conn' = [conn EXCEPT ![c] = "attached"]
    /\ live' = TRUE
    /\ sockets' = {c}
    /\ ghosts' = FALSE
    /\ UNCHANGED <<logVars, orphans, raced, serverVars, clientVars, chan, drops>>

(* The same for a tab that is gone: the server joins its dead socket,      *)
(* which has no close handler yet and so is never detached.                *)
OrphanReady ==
    /\ orphans > 0
    /\ orphans' = orphans - 1
    /\ live' = TRUE
    /\ sockets' = {}
    /\ ghosts' = TRUE
    /\ UNCHANGED <<logVars, raced, serverVars, clientVars, conn, chan, drops>>

OrphanFails ==
    /\ orphans > 0
    /\ orphans' = orphans - 1
    /\ UNCHANGED <<logVars, live, sockets, ghosts, raced, serverVars, clientVars, conn, chan, drops>>

(* evict, by an idle timer or to make room: only with no socket left.      *)
Evict ==
    /\ live
    /\ sockets = {}
    /\ ~ghosts
    /\ live' = FALSE
    /\ UNCHANGED <<logVars, sockets, ghosts, orphans, raced, serverVars, clientVars, conn, chan, drops>>

(* The database evaluates the backlog query.                               *)
ReadBacklog(c) ==
    /\ conn[c] = "attached"
    /\ conn' = [conn EXCEPT ![c] = "read"]
    /\ page' = [page EXCEPT ![c] = getEventsSince(c)]
    /\ over' = [over EXCEPT ![c] = Cardinality(Backlog(c)) > Limit]
    /\ UNCHANGED <<logVars, tableVars, since, clientVars, chan, drops>>

(* handleConnection sends the backlog message and installs its handlers.   *)
SendBacklog(c) ==
    /\ conn[c] = "read"
    /\ conn' = [conn EXCEPT ![c] = "open"]
    /\ chan' = [chan EXCEPT ![c] =
                  Append(@, [events |-> page[c], lastSeq |-> HighestOf(page[c], since[c])])]
    /\ page' = [page EXCEPT ![c] = {}]
    /\ UNCHANGED <<logVars, tableVars, since, over, clientVars, drops>>

-----------------------------------------------------------------------------
(* The browser.                                                            *)

(* ws.onmessage, for a backlog and for a single event alike.               *)
Receive(c) ==
    /\ conn[c] # "down"
    /\ chan[c] # << >>
    /\ LET m == Head(chan[c]) IN
         /\ lastSeq' = [lastSeq EXCEPT ![c] = Larger(lastSeq[c], m.lastSeq)]
         /\ copies' = [copies EXCEPT ![c] = dedupeAppend(copies[c], m.events)]
    /\ chan' = [chan EXCEPT ![c] = Tail(chan[c])]
    /\ UNCHANGED <<logVars, tableVars, serverVars, conn, drops>>

(* The server's side of a lost socket.  A cold start goes on without its   *)
(* tab; an open connection's close handler detaches it from the table's    *)
(* LiveSession; before that handler is installed nobody does.              *)
Forsake(c) ==
    /\ orphans' = IF c \in Starting THEN orphans + 1 ELSE orphans
    /\ sockets' = sockets \ {c}
    /\ ghosts' = (ghosts \/ (c \in sockets /\ conn[c] # "open"))
    /\ UNCHANGED <<live, raced>>

(* The connection breaks at any point: what is on the wire is lost, the    *)
(* tab keeps its events and will reconnect from lastSeqRef.                *)
Drop(c) ==
    /\ drops < MaxDrops
    /\ conn[c] # "down"
    /\ Forsake(c)
    /\ conn' = [conn EXCEPT ![c] = "down"]
    /\ chan' = [chan EXCEPT ![c] = << >>]
    /\ page' = [page EXCEPT ![c] = {}]
    /\ drops' = drops + 1
    /\ UNCHANGED <<logVars, since, over, clientVars>>

(* The cold start throws: handleConnection closes the socket.              *)
AttachFails(c) ==
    /\ drops < MaxDrops
    /\ conn[c] = "starting"
    /\ conn' = [conn EXCEPT ![c] = "down"]
    /\ drops' = drops + 1
    /\ UNCHANGED <<logVars, tableVars, serverVars, clientVars, chan>>

(* The tab reloads: a fresh hook with no events and lastSeqRef = 0.        *)
Reload(c) ==
    /\ drops < MaxDrops
    /\ Forsake(c)
    /\ conn' = [conn EXCEPT ![c] = "down"]
    /\ chan' = [chan EXCEPT ![c] = << >>]
    /\ lastSeq' = [lastSeq EXCEPT ![c] = 0]
    /\ copies' = [copies EXCEPT ![c] = [s \in Seqs |-> 0]]
    /\ page' = [page EXCEPT ![c] = {}]
    /\ drops' = drops + 1
    /\ UNCHANGED <<logVars, since, over>>

(* The Node process restarts: everything but the database is gone.  The    *)
(* appends under way, the callbacks that had not run and every socket die; *)
(* the tabs keep what they show.                                           *)
Restart ==
    /\ drops < MaxDrops
    /\ appending' = {}
    /\ tx' = 0
    /\ unsent' = {}
    /\ live' = FALSE
    /\ sockets' = {}
    /\ ghosts' = FALSE
    /\ orphans' = 0
    /\ conn' = [c \in Clients |-> "down"]
    /\ chan' = [c \in Clients |-> << >>]
    /\ page' = [c \in Clients |-> {}]
    /\ drops' = drops + 1
    /\ UNCHANGED <<emitted, lastEventSeq, rows, raced, since, over, clientVars>>

Next ==
    \/ Emit
    \/ \E e \in appending : BeginAppend(e)
    \/ CommitAppend
    \/ FailAppend
    \/ \E s \in unsent : SendEvent(s)
    \/ \E c \in Clients :
         \/ Connect(c)
         \/ JoinSockets(c)
         \/ StartRuntime(c)
         \/ RuntimeReady(c)
         \/ ReadBacklog(c)
         \/ SendBacklog(c)
         \/ Receive(c)
         \/ Drop(c)
         \/ AttachFails(c)
         \/ Reload(c)
    \/ OrphanReady
    \/ OrphanFails
    \/ Evict
    \/ Restart

Spec == Init /\ [][Next]_vars

(* The event loop and the database pool serve every pending callback, and  *)
(* the hook always schedules a reconnect; nothing forces an append to      *)
(* succeed, a connection to break or the process to restart, and nothing   *)
(* bounds how long the SDK's runtime takes to start.                       *)
Fairness ==
    /\ WF_vars(\E e \in appending : BeginAppend(e))
    /\ WF_vars(CommitAppend \/ FailAppend)
    /\ \A s \in Seqs : WF_vars(SendEvent(s))
    /\ \A c \in Clients :
         /\ WF_vars(Connect(c))
         /\ WF_vars(JoinSockets(c) \/ StartRuntime(c))
         /\ WF_vars(ReadBacklog(c))
         /\ WF_vars(SendBacklog(c))
         /\ WF_vars(Receive(c))

FairSpec == Spec /\ Fairness
-----------------------------------------------------------------------------
(* Properties.                                                             *)

TypeOK ==
    /\ emitted \in 0 .. MaxEvents
    /\ appending \subseteq 1 .. emitted
    /\ tx \in 0 .. emitted
    /\ lastEventSeq \in 0 .. MaxEvents
    /\ rows \in [Seqs -> 0 .. MaxEvents]
    /\ unsent \subseteq Seqs
    /\ live \in BOOLEAN
    /\ sockets \subseteq Clients
    /\ ghosts \in BOOLEAN
    /\ orphans \in Nat
    /\ raced \in BOOLEAN
    /\ conn \in [Clients -> ConnStates]
    /\ since \in [Clients -> 0 .. MaxEvents]
    /\ page \in [Clients -> SUBSET Seqs]
    /\ over \in [Clients -> BOOLEAN]
    /\ chan \in [Clients -> Seq(Message)]
    /\ lastSeq \in [Clients -> 0 .. MaxEvents]
    /\ copies \in [Clients -> [Seqs -> Nat]]
    /\ drops \in 0 .. MaxDrops

(* The log is gap-free: the committed rows are exactly 1 .. lastEventSeq,  *)
(* whatever appends failed, were cut off by a restart or ran concurrently  *)
(* (appendEvent's transaction).                                            *)
LogGapFree == Committed = 1 .. lastEventSeq

(* A committed row is never overwritten or removed, and each step adds at  *)
(* most the next seq (SessionEvent is an append-only mirror).              *)
LogAppendOnly ==
    [][/\ \A s \in Seqs : rows[s] # 0 => rows'[s] = rows[s]
       /\ lastEventSeq' \in {lastEventSeq, lastEventSeq + 1}]_vars

(* All the machinery from the transaction to the tab's reducer keeps the   *)
(* promise of EventFeed: whatever fails, breaks, restarts or is delivered  *)
(* twice, an event is logged once, at the end, and a tab shows only what   *)
(* is logged, once (appendEvent, broadcastAppEvent, dedupeAppend).         *)
LogRows == [s \in 1 .. lastEventSeq |-> rows[s]]

Feed == INSTANCE EventFeed WITH
            Watchers <- Clients, Events <- Seqs, Places <- Seqs,
            log <- LogRows, shown <- copies

KeepsFeed == Feed!Spec

(* No browser ever shows an event twice, although the live send and the    *)
(* backlog of the same attach may both carry it (dedupeAppend).            *)
NoDuplicates == \A c \in Clients : \A s \in Seqs : copies[c][s] <= 1

(* What a browser shows, and the seq it resumes from, are durable: no      *)
(* restart can leave a tab ahead of the log (broadcastAppEvent sends only  *)
(* after appendEvent's transaction has committed).                         *)
ShownIsCommitted ==
    \A c \in Clients :
        /\ \A s \in Seqs : copies[c][s] > 0 => s \in Committed
        /\ lastSeq[c] <= lastEventSeq

(* The resume point is the newest event the browser holds, neither behind  *)
(* it (which would replay history) nor ahead of it (which would skip some) *)
(* however live events and the backlog interleave (lastSeqRef).            *)
ResumePointIsNewest ==
    \A c \in Clients :
        /\ lastSeq[c] # 0 => copies[c][lastSeq[c]] > 0
        /\ \A s \in Seqs : copies[c][s] > 0 => s <= lastSeq[c]

OnTheWire(c, s) == \E i \in 1 .. Len(chan[c]) : s \in chan[c][i].events

(* A tab whose LiveSession was replaced in the table after the tab joined  *)
(* it: two cold starts of the session overlapped, and the last one to end  *)
(* took the table's place.  The fan-out does not know the tab.             *)
Replaced(c) == raced /\ c \notin sockets

(* The handshake loses nothing while the connection lives: every committed *)
(* event past the since of a connected tab is shown, or on the wire, or    *)
(* still to be fanned out, or in the backlog still to be sent - unless     *)
(* more rows waited than one page holds, or the tab was left behind by     *)
(* overlapping cold starts (ensureLive does not share them).  This is what *)
(* the order "join the sockets, then read the backlog" in attach is for,   *)
(* and why evict spares a LiveSession with sockets.                        *)
NoLossWhileConnected ==
    \A c \in Connected : Replaced(c) \/ \A s \in Backlog(c) :
        \/ over[c]
        \/ copies[c][s] > 0
        \/ OnTheWire(c, s)
        \/ s \in unsent
        \/ conn[c] = "attached"
        \/ conn[c] = "read" /\ s \in page[c]

(* Once connections stop breaking every tab ends up attached and showing   *)
(* every event past the point it resumed from - unless the runtime never   *)
(* comes up (client.start and resumeSession have no deadline), page limit  *)
(* and overlapping cold starts aside.                                      *)
EventuallyCaughtUp ==
    <>[](\A c \in Clients :
            \/ conn[c] = "starting"
            \/ /\ conn[c] = "open"
               /\ over[c] \/ Replaced(c) \/ \A s \in Backlog(c) : copies[c][s] = 1)

(* The hook's promise, "replays only the gap rather than losing or         *)
(* duplicating history" (use-session-socket.ts): a tab with an open        *)
(* connection that the fan-out knows, and nothing left to arrive, shows    *)
(* the whole log.                                                          *)
HistoryComplete ==
    \A c \in sockets :
        conn[c] = "open" /\ chan[c] = << >> /\ unsent = {}
            => \A s \in Committed : copies[c][s] = 1

(* The log's promise that rapid start/complete pairs land in order for     *)
(* replay (appendEvent): events are numbered in the order they happened.   *)
ReplayInEmissionOrder ==
    \A s, t \in Committed : s < t => rows[s] < rows[t]
=============================================================================
