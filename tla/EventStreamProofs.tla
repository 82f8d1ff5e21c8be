------------------------- MODULE EventStreamProofs -------------------------
(***************************************************************************)
(* What EventStream promises, for any number of tabs, events, page rows    *)
(* and broken connections.  The argument goes in three layers: the log by  *)
(* itself (Log), the table of LiveSessions by itself (Table), then what is *)
(* in flight between the log and the tabs (Tab), from which the promises   *)
(* to the tabs follow.                                                     *)
(***************************************************************************)
EXTENDS EventStream, FiniteSetTheorems, WellFoundedInduction, TLAPS

(* Every row, and every append that may still become one, is an event that *)
(* was emitted: this is what keeps lastEventSeq within the emitted events. *)
Accounting ==
    lastEventSeq + Cardinality(appending) + (IF tx = 0 THEN 0 ELSE 1) <= emitted

Log == TypeOK /\ Accounting /\ LogGapFree

(* The types of the table's variables.                                     *)
TableTypes ==
    /\ live \in BOOLEAN
    /\ sockets \subseteq Clients
    /\ ghosts \in BOOLEAN
    /\ orphans \in Nat
    /\ raced \in BOOLEAN

(* The table: what is in live.sockets is connected; as long as no two cold *)
(* starts overlapped there is one at a time, only while the table is empty *)
(* and nobody connected, and every connected tab is in live.sockets.       *)
Table ==
    /\ sockets \subseteq Connected
    /\ ~live => sockets = {}
    /\ ~raced => /\ Connected \subseteq sockets
                 /\ \A c, d \in Starting : c = d
                 /\ orphans \in {0, 1}
                 /\ orphans = 1 => Starting = {}
                 /\ Starting # {} \/ orphans = 1 => ~live

(* A message names durable rows, ends at its own resume point, and that    *)
(* point is one of its rows or the point the connection resumed from.      *)
WellFormed(c, m) ==
    /\ m.events \subseteq Committed
    /\ m.lastSeq <= lastEventSeq
    /\ \A s \in m.events : s <= m.lastSeq
    /\ m.lastSeq \in m.events \/ m.lastSeq = since[c]

(* What is in flight between the log and tab c.                            *)
Flight(c) ==
    /\ page[c] \subseteq Backlog(c)
    /\ since[c] <= lastEventSeq
    /\ conn[c] \in {"down", "attaching", "starting"} => chan[c] = << >> /\ page[c] = {}
    /\ conn[c] # "down" => since[c] <= lastSeq[c]
    /\ \A i \in 1 .. Len(chan[c]) : WellFormed(c, chan[c][i])

(* What tab c shows: each durable event once, up to its resume point.      *)
Shown(c) ==
    /\ lastSeq[c] <= lastEventSeq
    /\ lastSeq[c] # 0 => copies[c][lastSeq[c]] > 0
    /\ \A s \in Seqs : copies[c][s] <= 1
    /\ \A s \in Seqs : copies[c][s] > 0 => s \in Committed /\ s <= lastSeq[c]

(* Where an event past tab c's since may be.                               *)
Accounted(c, s) ==
    \/ over[c]
    \/ copies[c][s] > 0
    \/ OnTheWire(c, s)
    \/ s \in unsent
    \/ conn[c] = "attached"
    \/ conn[c] = "read" /\ s \in page[c]

Tab(c) ==
    /\ Flight(c)
    /\ Shown(c)
    /\ c \in sockets => \A s \in Backlog(c) : Accounted(c, s)

(* The inductive invariant.                                                *)
Stream == Log /\ Table /\ unsent \subseteq Committed /\ \A c \in Clients : Tab(c)

-----------------------------------------------------------------------------
(* A non-empty set of numbers up to n has a largest element, so the last   *)
(* row of a non-empty backlog (HighestOf) is well defined.                 *)
LEMMA MaxExists ==
    ASSUME NEW n \in Nat, NEW S, S \subseteq 1 .. n, S # {}
    PROVE  \E m \in S : \A t \in S : t <= m
<1> DEFINE R == OpToRel(<, Nat)
<1> DEFINE T == {x \in Nat : n - x \in S}
<1>1. T # {}
  <2>1. PICK s \in S : TRUE
    OBVIOUS
  <2>2. n - (n - s) = s /\ n - s \in Nat
    BY <2>1
  <2> QED
    BY <2>1, <2>2
<1>2. \E x \in T : \A y \in T : ~ (<<y, x>> \in R)
  <2>1. T \subseteq Nat
    OBVIOUS
  <2> HIDE DEF T
  <2>2. IsWellFoundedOn(R, Nat)
    BY NatLessThanWellFounded
  <2> HIDE DEF R
  <2> QED
    BY <1>1, <2>1, <2>2, WFMin
<1>3. PICK x \in T : \A y \in T : ~ (<<y, x>> \in R)
  BY <1>2
<1>4. \A y \in T : ~ (y < x)
  BY <1>3 DEF OpToRel
<1>5. ASSUME NEW t \in S PROVE t <= n - x
  <2>1. t \in Nat /\ t <= n /\ x \in Nat
    OBVIOUS
  <2>2. n - t \in Nat /\ n - (n - t) = t
    BY <2>1
  <2>3. n - t \in T
    BY <2>2
  <2>4. ~ (n - t < x)
    BY <2>3, <1>4
  <2> QED
    BY <2>1, <2>4
<1> QED
  BY <1>3, <1>5

(* The resume point of a backlog message: an element that bounds the page, *)
(* or since when the page is empty.                                        *)
LEMMA HighestOfBacklog ==
    ASSUME NEW n \in Nat, NEW S \in SUBSET (1 .. n), NEW floor
    PROVE  /\ S = {} => HighestOf(S, floor) = floor
           /\ S # {} => /\ HighestOf(S, floor) \in S
                        /\ \A t \in S : t <= HighestOf(S, floor)
<1>1. CASE S = {}
  BY <1>1 DEF HighestOf
<1>2. CASE S # {}
  <2>1. \E m \in S : \A t \in S : t <= m
    BY <1>2, MaxExists
  <2> QED
    BY <1>2, <2>1 DEF HighestOf
<1> QED
  BY <1>1, <1>2

(* A backlog no longer than the page limit is answered in full.            *)
LEMMA WholePage ==
    ASSUME NEW c \in Clients, TypeOK, ~ (Cardinality(Backlog(c)) > Limit)
    PROVE  getEventsSince(c) = Backlog(c)
<1>1. IsFiniteSet(Backlog(c))
  <2>1. Backlog(c) \in SUBSET Seqs
    BY DEF Backlog, Committed
  <2>2. IsFiniteSet(Seqs)
    BY StreamAssumption, FS_Interval DEF Seqs
  <2> QED
    BY <2>1, <2>2, FS_Subset
<1>2. ASSUME NEW s \in Backlog(c)
      PROVE  Cardinality({t \in Backlog(c) : t <= s}) <= Limit
  <2> DEFINE U == {t \in Backlog(c) : t <= s}
  <2>1. U \in SUBSET Backlog(c)
    OBVIOUS
  <2>2. IsFiniteSet(U) /\ Cardinality(U) <= Cardinality(Backlog(c))
    BY <1>1, <2>1, FS_Subset
  <2>3. Cardinality(U) \in Nat /\ Cardinality(Backlog(c)) \in Nat
    BY <1>1, <2>2, FS_CardinalityType
  <2> HIDE DEF U
  <2>4. Cardinality(U) <= Limit
    BY <2>2, <2>3, StreamAssumption
  <2> QED
    BY <2>4 DEF U
<1> QED
  BY <1>2 DEF getEventsSince

-----------------------------------------------------------------------------
(* The log layer is inductive.                                             *)
LEMMA LogInit == Init => Log
<1> SUFFICES ASSUME Init PROVE Log
  OBVIOUS
<1>0. TableTypes
  BY DEF Init, TableTypes
<1>1. TypeOK
  BY <1>0, StreamAssumption DEF Init, TypeOK, TableTypes, Seqs, ConnStates, Message
<1>2. Accounting
  BY FS_EmptySet DEF Init, Accounting
<1>3. LogGapFree
  BY StreamAssumption DEF Init, LogGapFree, Committed, Seqs
<1> QED
  BY <1>1, <1>2, <1>3 DEF Log

(* Committing adds exactly the next seq to the committed rows.             *)
LEMMA CommitAddsNext ==
    ASSUME Log, CommitAppend
    PROVE  /\ lastEventSeq + 1 \in Seqs
           /\ Committed' = Committed \cup {lastEventSeq + 1}
           /\ \A s \in Committed : rows'[s] = rows[s]
<1>1. IsFiniteSet(appending)
  <2>1. IsFiniteSet(1 .. emitted)
    BY FS_Interval DEF Log, TypeOK
  <2> QED
    BY <2>1, FS_Subset DEF Log, TypeOK
<1>2. Cardinality(appending) \in Nat
  BY <1>1, FS_CardinalityType
<1>3. lastEventSeq + 1 \in Seqs
  <2>1. lastEventSeq + 1 <= emitted
    BY <1>2 DEF Log, TypeOK, Accounting, CommitAppend
  <2> QED
    BY <2>1, StreamAssumption DEF Log, TypeOK, Seqs
<1>4. lastEventSeq + 1 \notin Committed
  BY StreamAssumption DEF Log, LogGapFree, TypeOK
<1> QED
  BY <1>3, <1>4 DEF CommitAppend, Committed, Log, TypeOK

LEMMA LogNext == Log /\ [Next]_vars => Log'
<1> SUFFICES ASSUME Log, [Next]_vars PROVE Log'
  OBVIOUS
<1> USE StreamAssumption
<1>fin. IsFiniteSet(appending) /\ Cardinality(appending) \in Nat
  <2>1. IsFiniteSet(1 .. emitted)
    BY FS_Interval DEF Log, TypeOK
  <2>2. IsFiniteSet(appending)
    BY <2>1, FS_Subset DEF Log, TypeOK
  <2> QED
    BY <2>2, FS_CardinalityType
<1>1. CASE Emit
  <2>1. TypeOK'
    BY <1>1 DEF Log, TypeOK, Emit, tableVars, serverVars, clientVars
  <2>2. Accounting'
    <3>1. Cardinality(appending \cup {emitted + 1}) =
            IF emitted + 1 \in appending THEN Cardinality(appending) ELSE Cardinality(appending) + 1
      BY <1>fin, FS_AddElement
    <3> QED
      BY <1>1, <1>fin, <3>1 DEF Log, TypeOK, Accounting, Emit
  <2>3. LogGapFree'
    BY <1>1 DEF Log, LogGapFree, Committed, Emit
  <2> QED
    BY <2>1, <2>2, <2>3 DEF Log
<1>2. ASSUME NEW e \in appending, BeginAppend(e) PROVE Log'
  <2>1. TypeOK'
    BY <1>2 DEF Log, TypeOK, BeginAppend, tableVars, serverVars, clientVars
  <2>2. Accounting'
    <3>1. Cardinality(appending') = Cardinality(appending) - 1
      BY <1>2, <1>fin, FS_RemoveElement DEF BeginAppend
    <3> QED
      BY <1>2, <1>fin, <3>1 DEF Log, TypeOK, Accounting, BeginAppend
  <2>3. LogGapFree'
    BY <1>2 DEF Log, LogGapFree, Committed, BeginAppend
  <2> QED
    BY <2>1, <2>2, <2>3 DEF Log
<1>3. CASE CommitAppend
  <2>0. /\ lastEventSeq + 1 \in Seqs
        /\ Committed' = Committed \cup {lastEventSeq + 1}
    BY <1>3, CommitAddsNext
  <2>r. rows' \in [Seqs -> 0 .. MaxEvents]
    BY <1>3, <2>0 DEF Log, TypeOK, CommitAppend
  <2>l. lastEventSeq' \in 0 .. MaxEvents
    BY <1>3, <2>0 DEF Log, TypeOK, CommitAppend, Seqs
  <2>1. TypeOK'
    BY <1>3, <2>0, <2>r, <2>l DEF Log, TypeOK, CommitAppend, tableVars, serverVars, clientVars
  <2>2. Accounting'
    BY <1>3, <1>fin DEF Log, TypeOK, Accounting, CommitAppend
  <2>3. LogGapFree'
    BY <1>3, <2>0 DEF Log, TypeOK, LogGapFree, CommitAppend
  <2> QED
    BY <2>1, <2>2, <2>3 DEF Log
<1>4. CASE FailAppend
  <2>1. TypeOK'
    BY <1>4 DEF Log, TypeOK, FailAppend, tableVars, serverVars, clientVars
  <2>2. Accounting'
    BY <1>4, <1>fin DEF Log, TypeOK, Accounting, FailAppend
  <2>3. LogGapFree'
    BY <1>4 DEF Log, LogGapFree, Committed, FailAppend
  <2> QED
    BY <2>1, <2>2, <2>3 DEF Log
<1>5. CASE Restart
  <2>0. TableTypes'
    BY <1>5 DEF Log, TypeOK, TableTypes, Restart
  <2>1. TypeOK'
    BY <1>5, <2>0 DEF Log, TypeOK, TableTypes, Restart, clientVars, ConnStates
  <2>2. Accounting'
    BY <1>5, <1>fin, FS_EmptySet DEF Log, TypeOK, Accounting, Restart
  <2>3. LogGapFree'
    BY <1>5 DEF Log, LogGapFree, Committed, Restart
  <2> QED
    BY <2>1, <2>2, <2>3 DEF Log
(* The remaining steps leave the log alone, the fan-out's queue aside.     *)
<1>6. ASSUME UNCHANGED <<emitted, appending, tx, lastEventSeq, rows>>, TypeOK' PROVE Log'
  BY <1>6 DEF Log, Accounting, LogGapFree, Committed
<1>7. ASSUME NEW s \in unsent, SendEvent(s) PROVE Log'
  <2>1. [events |-> {s}, lastSeq |-> s] \in Message
    BY <1>7 DEF Log, TypeOK, Message, Seqs
  <2>2. TypeOK'
    BY <1>7, <2>1 DEF Log, TypeOK, SendEvent, tableVars, serverVars, clientVars
  <2> QED
    BY <1>6, <1>7, <2>2 DEF SendEvent
<1>8. ASSUME NEW c \in Clients, Connect(c) PROVE Log'
  <2>1. TypeOK'
    BY <1>8 DEF Log, TypeOK, Connect, logVars, tableVars, clientVars, ConnStates
  <2> QED
    BY <1>6, <1>8, <2>1 DEF Connect, logVars
<1>9. ASSUME NEW c \in Clients, JoinSockets(c) PROVE Log'
  <2>1. TypeOK'
    BY <1>9 DEF Log, TypeOK, JoinSockets, logVars, serverVars, clientVars, ConnStates
  <2> QED
    BY <1>6, <1>9, <2>1 DEF JoinSockets, logVars
<1>10. ASSUME NEW c \in Clients, ReadBacklog(c) PROVE Log'
  <2>1. getEventsSince(c) \in SUBSET Seqs
    BY DEF getEventsSince, Backlog, Committed
  <2>2. (Cardinality(Backlog(c)) > Limit) \in BOOLEAN
    OBVIOUS
  <2>3. over' \in [Clients -> BOOLEAN]
    BY <1>10, <2>2 DEF Log, TypeOK, ReadBacklog
  <2>4. TypeOK'
    BY <1>10, <2>1, <2>3 DEF Log, TypeOK, ReadBacklog, logVars, tableVars, clientVars, ConnStates
  <2> QED
    BY <1>6, <1>10, <2>4 DEF ReadBacklog, logVars
<1>11. ASSUME NEW c \in Clients, SendBacklog(c) PROVE Log'
  <2>1. HighestOf(page[c], since[c]) \in 0 .. MaxEvents
    <3>1. page[c] \in SUBSET (1 .. MaxEvents) /\ since[c] \in 0 .. MaxEvents
      BY <1>11 DEF Log, TypeOK, Seqs
    <3>2. /\ page[c] = {} => HighestOf(page[c], since[c]) = since[c]
          /\ page[c] # {} => HighestOf(page[c], since[c]) \in page[c]
      BY <3>1, HighestOfBacklog
    <3> QED
      BY <3>1, <3>2
  <2>2. [events |-> page[c], lastSeq |-> HighestOf(page[c], since[c])] \in Message
    BY <2>1 DEF Log, TypeOK, Message
  <2>3. TypeOK'
    BY <1>11, <2>2 DEF Log, TypeOK, SendBacklog, logVars, tableVars, clientVars, ConnStates
  <2> QED
    BY <1>6, <1>11, <2>3 DEF SendBacklog, logVars
<1>12. ASSUME NEW c \in Clients, Receive(c) PROVE Log'
  <2>1. Head(chan[c]) \in Message /\ Tail(chan[c]) \in Seq(Message)
    BY <1>12 DEF Log, TypeOK, Receive
  <2>2. Larger(lastSeq[c], Head(chan[c]).lastSeq) \in 0 .. MaxEvents
    BY <2>1 DEF Log, TypeOK, Larger, Message
  <2>3. dedupeAppend(copies[c], Head(chan[c]).events) \in [Seqs -> Nat]
    BY DEF Log, TypeOK, dedupeAppend
  <2>4. TypeOK'
    BY <1>12, <2>1, <2>2, <2>3 DEF Log, TypeOK, Receive, logVars, tableVars, serverVars
  <2> QED
    BY <1>6, <1>12, <2>4 DEF Receive, logVars
<1>13. ASSUME NEW c \in Clients, Drop(c) PROVE Log'
  <2>1. TypeOK'
    BY <1>13 DEF Log, TypeOK, Drop, Forsake, logVars, clientVars, ConnStates
  <2> QED
    BY <1>6, <1>13, <2>1 DEF Drop, logVars
<1>14. ASSUME NEW c \in Clients, Reload(c) PROVE Log'
  <2>1. TypeOK'
    BY <1>14 DEF Log, TypeOK, Reload, Forsake, logVars, ConnStates
  <2> QED
    BY <1>6, <1>14, <2>1 DEF Reload, logVars
<1>15. CASE UNCHANGED vars
  <2>1. TypeOK'
    BY <1>15 DEF Log, TypeOK, vars, logVars, tableVars, serverVars, clientVars
  <2> QED
    BY <1>6, <1>15, <2>1 DEF vars, logVars
<1>16. ASSUME NEW c \in Clients, StartRuntime(c) PROVE Log'
  <2>1. TypeOK'
    BY <1>16 DEF Log, TypeOK, StartRuntime, logVars, serverVars, clientVars, ConnStates
  <2> QED
    BY <1>6, <1>16, <2>1 DEF StartRuntime, logVars
<1>17. ASSUME NEW c \in Clients, RuntimeReady(c) PROVE Log'
  <2>1. TypeOK'
    BY <1>17 DEF Log, TypeOK, RuntimeReady, logVars, serverVars, clientVars, ConnStates
  <2> QED
    BY <1>6, <1>17, <2>1 DEF RuntimeReady, logVars
<1>18. ASSUME NEW c \in Clients, AttachFails(c) PROVE Log'
  <2>1. TypeOK'
    BY <1>18 DEF Log, TypeOK, AttachFails, logVars, tableVars, serverVars, clientVars, ConnStates
  <2> QED
    BY <1>6, <1>18, <2>1 DEF AttachFails, logVars
<1>19. CASE OrphanReady \/ OrphanFails \/ Evict
  <2>0. TableTypes'
    <3>1. CASE OrphanReady
      BY <3>1 DEF Log, TypeOK, TableTypes, OrphanReady
    <3>2. CASE OrphanFails
      BY <3>2 DEF Log, TypeOK, TableTypes, OrphanFails
    <3>3. CASE Evict
      BY <3>3 DEF Log, TypeOK, TableTypes, Evict
    <3> QED
      BY <1>19, <3>1, <3>2, <3>3
  <2>r. UNCHANGED <<logVars, serverVars, clientVars, conn, chan, drops>>
    BY <1>19 DEF OrphanReady, OrphanFails, Evict
  <2>1. TypeOK'
    BY <2>0, <2>r DEF Log, TypeOK, TableTypes, logVars, serverVars, clientVars
  <2> QED
    BY <1>6, <1>19, <2>1 DEF OrphanReady, OrphanFails, Evict, logVars
<1> QED
  BY <1>1, <1>2, <1>3, <1>4, <1>5, <1>7, <1>8, <1>9, <1>10, <1>11, <1>12,
     <1>13, <1>14, <1>15, <1>16, <1>17, <1>18, <1>19 DEF Next

-----------------------------------------------------------------------------
(* The table layer is inductive.                                           *)

(* A step that leaves the table's variables and who is connected alone.    *)
LEMMA TableUntouched ==
    ASSUME Table, UNCHANGED tableVars, Connected' = Connected, Starting' = Starting
    PROVE  Table'
BY DEF Table, tableVars

LEMMA TableNext == TypeOK /\ Table /\ [Next]_vars => Table'
<1> SUFFICES ASSUME TypeOK, Table, [Next]_vars PROVE Table'
  OBVIOUS
<1>1. CASE UNCHANGED <<tableVars, conn>>
  BY <1>1, TableUntouched DEF Connected, Starting
<1>2. ASSUME NEW c \in Clients, Connect(c) \/ ReadBacklog(c) \/ SendBacklog(c) PROVE Table'
  <2>1. Connected' = Connected /\ Starting' = Starting
    BY <1>2 DEF TypeOK, Connect, ReadBacklog, SendBacklog, Connected, Starting
  <2> QED
    BY <1>2, <2>1, TableUntouched DEF Connect, ReadBacklog, SendBacklog
<1>3. ASSUME NEW c \in Clients, JoinSockets(c) PROVE Table'
  <2>1. Connected' = Connected \cup {c} /\ Starting' = Starting
    BY <1>3 DEF TypeOK, JoinSockets, Connected, Starting
  <2> QED
    BY <1>3, <2>1 DEF Table, JoinSockets
<1>4. ASSUME NEW c \in Clients, StartRuntime(c) PROVE Table'
  <2>1. Connected' = Connected /\ Starting' = Starting \cup {c}
    BY <1>4 DEF TypeOK, StartRuntime, Connected, Starting
  <2>2. UNCHANGED <<live, sockets, orphans>> /\ ~live
    BY <1>4 DEF StartRuntime
  <2>3. ~raced' => ~raced /\ ~(orphans > 0) /\ Starting = {}
    BY <1>4 DEF StartRuntime
  <2>4. ~raced' => orphans = 0
    BY <2>3 DEF Table
  <2> QED
    BY <2>1, <2>2, <2>3, <2>4 DEF Table
<1>5. ASSUME NEW c \in Clients, RuntimeReady(c) PROVE Table'
  <2>1. c \in Starting /\ Connected' = Connected \cup {c} /\ Starting' = Starting \ {c}
    BY <1>5 DEF TypeOK, RuntimeReady, Connected, Starting
  <2>2. sockets' = {c} /\ live' /\ UNCHANGED <<raced, orphans>>
    BY <1>5 DEF RuntimeReady
  <2>3. ~raced => Connected = {} /\ Starting = {c} /\ orphans = 0
    BY <2>1 DEF Table
  <2> QED
    BY <2>1, <2>2, <2>3 DEF Table
<1>6. CASE OrphanReady \/ OrphanFails \/ Evict
  <2>1. Connected' = Connected /\ Starting' = Starting
    BY <1>6 DEF OrphanReady, OrphanFails, Evict, Connected, Starting
  <2>2. CASE OrphanReady
    <3>1. /\ live' /\ sockets' = {} /\ raced' = raced
          /\ orphans > 0 /\ orphans' = orphans - 1
      BY <2>2 DEF OrphanReady
    <3>2. ~raced => orphans = 1 /\ orphans' = 0 /\ Starting = {} /\ Connected = {}
      BY <3>1 DEF Table
    <3> QED
      BY <2>1, <3>1, <3>2 DEF Table
  <2>3. CASE OrphanFails
    <3>1. /\ UNCHANGED <<live, sockets, raced>>
          /\ orphans > 0 /\ orphans' = orphans - 1
      BY <2>3 DEF OrphanFails
    <3>2. ~raced => orphans = 1 /\ orphans' = 0 /\ Starting = {}
      BY <3>1 DEF Table
    <3> QED
      BY <2>1, <3>1, <3>2 DEF Table
  <2>4. CASE Evict
    <3>1. sockets = {} /\ ~live' /\ UNCHANGED <<sockets, raced, orphans>>
      BY <2>4 DEF Evict
    <3> QED
      BY <2>1, <3>1 DEF Table
  <2> QED
    BY <1>6, <2>2, <2>3, <2>4
<1>7. ASSUME NEW c \in Clients, Drop(c) \/ Reload(c) PROVE Table'
  <2>1. Connected' = Connected \ {c} /\ Starting' = Starting \ {c} /\ Forsake(c)
    BY <1>7 DEF TypeOK, Drop, Reload, Connected, Starting
  <2>2. sockets' = sockets \ {c} /\ live' = live /\ raced' = raced
        /\ orphans' = IF c \in Starting THEN orphans + 1 ELSE orphans
    BY <2>1 DEF Forsake
  <2>3. CASE c \in Starting
    <3>1. ~raced => orphans = 0 /\ Starting = {c} /\ ~live
      BY <2>3 DEF Table
    <3> QED
      BY <2>1, <2>2, <2>3, <3>1 DEF Table
  <2>4. CASE c \notin Starting
    BY <2>1, <2>2, <2>4 DEF Table
  <2> QED
    BY <2>3, <2>4
<1>8. ASSUME NEW c \in Clients, AttachFails(c) PROVE Table'
  <2>1. Connected' = Connected /\ Starting' = Starting \ {c}
    BY <1>8 DEF TypeOK, AttachFails, Connected, Starting
  <2> QED
    BY <1>8, <2>1 DEF Table, AttachFails, tableVars
<1>9. CASE Restart
  <2>1. Connected' = {} /\ Starting' = {}
    BY <1>9 DEF Restart, Connected, Starting
  <2> QED
    BY <1>9, <2>1 DEF Table, Restart
<1> QED
  BY <1>1, <1>2, <1>3, <1>4, <1>5, <1>6, <1>7, <1>8, <1>9 DEF Next, Emit, BeginAppend,
     CommitAppend, FailAppend, SendEvent, Receive, vars

-----------------------------------------------------------------------------
(* The tabs.                                                               *)

(* Putting a message on the wire keeps the others and adds it at the end.  *)
LEMMA WireAppend ==
    ASSUME NEW q \in Seq(Message), NEW m \in Message
    PROVE  /\ Len(Append(q, m)) = Len(q) + 1
           /\ \A i \in 1 .. Len(q) : Append(q, m)[i] = q[i]
           /\ Append(q, m)[Len(q) + 1] = m
           /\ Len(q) \in Nat
OBVIOUS

(* Taking the first message off the wire shifts the others.                *)
LEMMA WireTail ==
    ASSUME NEW q \in Seq(Message), q # << >>
    PROVE  /\ Head(q) = q[1]
           /\ Len(q) \in Nat \ {0}
           /\ Len(Tail(q)) = Len(q) - 1
           /\ \A i \in 1 .. Len(q) - 1 : Tail(q)[i] = q[i + 1]
OBVIOUS

(* A tab that a step does not touch stays safe while the log only grows    *)
(* and what it grows by is queued for the fan-out.                         *)
LEMMA TabUntouched ==
    ASSUME Log, Log', NEW d \in Clients, Tab(d),
           Committed \subseteq Committed',
           lastEventSeq <= lastEventSeq',
           \A s \in Committed' : s \in Committed \/ s \in unsent',
           unsent \subseteq unsent',
           conn'[d] = conn[d], since'[d] = since[d], page'[d] = page[d],
           over'[d] = over[d], chan'[d] = chan[d],
           lastSeq'[d] = lastSeq[d], copies'[d] = copies[d],
           d \in sockets' => d \in sockets
    PROVE  Tab(d)'
<1> USE DEF Log, TypeOK, Seqs
<1>1. Flight(d)'
  <2>1. page'[d] \subseteq Backlog(d)'
    BY DEF Tab, Flight, Backlog
  <2>2. since'[d] <= lastEventSeq'
    BY DEF Tab, Flight
  <2>3. ASSUME NEW i \in 1 .. Len(chan'[d]) PROVE WellFormed(d, chan[d][i])'
    <3>1. WellFormed(d, chan[d][i]) /\ chan[d][i] \in Message
      BY <2>3 DEF Tab, Flight
    <3>2. chan'[d][i] = chan[d][i]
      OBVIOUS
    <3> QED
      BY <3>1, <3>2 DEF WellFormed, Message
  <2> QED
    BY <2>1, <2>2, <2>3 DEF Tab, Flight
<1>2. Shown(d)'
  BY DEF Tab, Shown
<1>3. ASSUME d \in sockets', NEW s \in Backlog(d)' PROVE Accounted(d, s)'
  <2>1. d \in sockets
    BY <1>3
  <2>2. CASE s \in Committed
    <3>1. Accounted(d, s)
      BY <2>1, <2>2, <1>3 DEF Tab, Backlog
    <3> QED
      BY <3>1 DEF Accounted, OnTheWire
  <2>3. CASE s \in unsent'
    BY <2>3 DEF Accounted
  <2> QED
    BY <2>2, <2>3, <1>3 DEF Backlog
<1> QED
  BY <1>1, <1>2, <1>3 DEF Tab

LEMMA StreamInit == Init => Stream
<1> SUFFICES ASSUME Init PROVE Stream
  OBVIOUS
<1>1. Log
  BY LogInit
<1>2. unsent \subseteq Committed
  BY DEF Init
<1>3. ASSUME NEW c \in Clients PROVE Tab(c)
  BY <1>3, StreamAssumption DEF Init, Tab, Flight, Shown
<1>4. Table
  BY DEF Init, Table, Connected, Starting
<1> QED
  BY <1>1, <1>2, <1>3, <1>4 DEF Stream

(* Merging a well-formed message keeps what the tab shows right, and       *)
(* leaves its resume point no lower than before.                           *)
LEMMA MergeShown ==
    ASSUME NEW c \in Clients, Stream, Receive(c)
    PROVE  /\ Shown(c)'
           /\ lastSeq[c] <= lastSeq'[c]
           /\ \A s \in Head(chan[c]).events : copies'[c][s] > 0
           /\ \A s \in Seqs : copies[c][s] > 0 => copies'[c][s] > 0
<1> DEFINE m == Head(chan[c])
<1>0. TypeOK /\ Tab(c)
  BY DEF Stream, Log
<1>1. m \in Message /\ WellFormed(c, m) /\ since[c] <= lastSeq[c]
  <2>1. chan[c] \in Seq(Message) /\ chan[c] # << >> /\ conn[c] # "down"
    BY <1>0 DEF TypeOK, Receive
  <2>2. m = chan[c][1] /\ 1 \in 1 .. Len(chan[c]) /\ m \in Message
    BY <2>1, WireTail
  <2> QED
    BY <1>0, <2>1, <2>2 DEF Tab, Flight
<1> HIDE DEF m
<1>2. copies'[c] = dedupeAppend(copies[c], m.events)
  BY <1>0 DEF Receive, TypeOK, m
<1>3. lastSeq'[c] = Larger(lastSeq[c], m.lastSeq)
  BY <1>0 DEF Receive, TypeOK, m
<1>4. /\ copies[c] \in [Seqs -> Nat] /\ lastSeq[c] \in 0 .. MaxEvents /\ lastEventSeq \in 0 .. MaxEvents
      /\ m.events \subseteq Seqs /\ m.lastSeq \in 0 .. MaxEvents /\ MaxEvents \in Nat
      /\ since[c] \in 0 .. MaxEvents
  BY <1>0, <1>1, StreamAssumption DEF TypeOK, Message
<1>5. ASSUME NEW s \in Seqs
      PROVE  /\ copies'[c][s] > 0 <=> (copies[c][s] > 0 \/ s \in m.events)
             /\ copies[c][s] <= 1 => copies'[c][s] <= 1
  BY <1>2, <1>4 DEF dedupeAppend
<1>6. lastSeq[c] <= lastSeq'[c] /\ m.lastSeq <= lastSeq'[c] /\ lastSeq'[c] \in {lastSeq[c], m.lastSeq}
  BY <1>3, <1>4 DEF Larger
<1>7. Committed' = Committed /\ lastEventSeq' = lastEventSeq
  BY DEF Receive, logVars, Committed
<1>8. Shown(c)'
  <2>1. lastSeq'[c] <= lastEventSeq'
    BY <1>0, <1>1, <1>6, <1>7 DEF Tab, Shown, WellFormed
  <2>2. \A s \in Seqs : copies'[c][s] <= 1
    BY <1>0, <1>5 DEF Tab, Shown
  <2>3. ASSUME NEW s \in Seqs, copies'[c][s] > 0 PROVE s \in Committed' /\ s <= lastSeq'[c]
    <3>1. CASE copies[c][s] > 0
      <4>1. s \in Committed /\ s <= lastSeq[c] /\ s \in Nat
        BY <3>1, <1>0 DEF Tab, Shown, Seqs
      <4> QED
        BY <4>1, <1>4, <1>6, <1>7
    <3>2. CASE s \in m.events
      <4>1. s \in Committed /\ s <= m.lastSeq /\ s \in Nat
        BY <3>2, <1>1 DEF WellFormed, Seqs
      <4> QED
        BY <4>1, <1>4, <1>6, <1>7
    <3> QED
      BY <2>3, <1>5, <3>1, <3>2
  <2>4. lastSeq'[c] # 0 => copies'[c][lastSeq'[c]] > 0
    <3>1. CASE lastSeq'[c] = lastSeq[c]
      <4>1. lastSeq[c] # 0 => lastSeq[c] \in Seqs /\ copies[c][lastSeq[c]] > 0
        BY <1>0, <1>4 DEF Tab, Shown, Seqs
      <4> QED
        BY <3>1, <4>1, <1>5
    <3>2. CASE m.lastSeq \in m.events /\ lastSeq'[c] = m.lastSeq
      BY <3>2, <1>4, <1>5
    <3>3. CASE m.lastSeq = since[c] /\ lastSeq'[c] = m.lastSeq
      <4>1. lastSeq'[c] = lastSeq[c]
        BY <3>3, <1>1, <1>4, <1>6
      <4> QED
        BY <3>1, <4>1
    <3> QED
      BY <1>1, <1>6, <3>1, <3>2, <3>3 DEF WellFormed
  <2> QED
    BY <2>1, <2>2, <2>3, <2>4 DEF Shown
<1> QED
  BY <1>4, <1>5, <1>6, <1>8 DEF m

LEMMA StreamNext == Stream /\ [Next]_vars => Stream'
<1> SUFFICES ASSUME Stream, [Next]_vars PROVE Stream'
  OBVIOUS
<1> USE StreamAssumption
<1>L. Log /\ Log' /\ TypeOK /\ TypeOK' /\ Table /\ Table'
  BY LogNext, TableNext DEF Stream, Log
<1>T. \A d \in Clients : Tab(d)
  BY DEF Stream
(* A step on client c's connection leaves the log and the other tabs be.   *)
<1>o. ASSUME NEW c \in Clients, UNCHANGED logVars, Tab(c)',
             \A d \in Clients \ {c} :
                /\ conn'[d] = conn[d] /\ since'[d] = since[d] /\ page'[d] = page[d]
                /\ over'[d] = over[d] /\ chan'[d] = chan[d]
                /\ lastSeq'[d] = lastSeq[d] /\ copies'[d] = copies[d]
                /\ d \in sockets' => d \in sockets
      PROVE  Stream'
  <2>1. Committed' = Committed /\ lastEventSeq' = lastEventSeq /\ unsent' = unsent
    BY <1>o DEF logVars, Committed
  <2>2. lastEventSeq <= lastEventSeq'
    BY <1>L, <2>1 DEF TypeOK
  <2>3. ASSUME NEW d \in Clients \ {c} PROVE Tab(d)'
    BY <1>o, <1>L, <1>T, <2>1, <2>2, TabUntouched
  <2> QED
    BY <1>o, <1>L, <2>1, <2>3 DEF Stream
<1>1. CASE Emit \/ (\E e \in appending : BeginAppend(e)) \/ FailAppend \/ UNCHANGED vars
           \/ OrphanReady \/ OrphanFails \/ Evict
  <2>1. /\ UNCHANGED <<lastEventSeq, rows, unsent, serverVars, clientVars, conn, chan>>
        /\ sockets' \subseteq sockets
    BY <1>1 DEF Emit, BeginAppend, FailAppend, OrphanReady, OrphanFails, Evict, vars, logVars, tableVars
  <2>2. Committed' = Committed /\ lastEventSeq <= lastEventSeq'
    BY <2>1, <1>L DEF Committed, TypeOK
  <2>3. ASSUME NEW d \in Clients PROVE Tab(d)'
    BY <1>L, <1>T, <2>1, <2>2, TabUntouched DEF serverVars, clientVars
  <2> QED
    BY <1>L, <2>1, <2>2, <2>3 DEF Stream
<1>2. CASE CommitAppend
  <2>1. Committed' = Committed \cup {lastEventSeq + 1} /\ unsent' = unsent \cup {lastEventSeq + 1}
    BY <1>2, <1>L, CommitAddsNext DEF CommitAppend
  <2>2. lastEventSeq <= lastEventSeq'
    BY <1>2, <1>L DEF TypeOK, CommitAppend
  <2>3. ASSUME NEW d \in Clients PROVE Tab(d)'
    BY <1>2, <1>L, <1>T, <2>1, <2>2, TabUntouched DEF CommitAppend, tableVars, serverVars, clientVars
  <2> QED
    BY <1>L, <2>1, <2>3 DEF Stream
<1>3. ASSUME NEW e \in unsent, SendEvent(e) PROVE Stream'
  <2>1. Committed' = Committed /\ lastEventSeq' = lastEventSeq /\ unsent' = unsent \ {e}
    BY <1>3 DEF SendEvent, Committed
  <2>2. e \in Committed /\ e \in Seqs /\ e <= lastEventSeq
    BY <1>3, <1>L DEF Stream, Log, LogGapFree, TypeOK
  <2>3. ASSUME NEW d \in Clients PROVE Tab(d)'
    <3> DEFINE m == [events |-> {e}, lastSeq |-> e]
    <3>a. chan[d] \in Seq(Message)
      BY <1>L DEF TypeOK
    <3>b. m \in Message
      BY <2>2 DEF Message, Seqs
    <3>1. chan[d] \in Seq(Message) /\ m \in Message
      BY <3>a, <3>b
    <3>2. /\ conn'[d] = conn[d] /\ since'[d] = since[d] /\ page'[d] = page[d] /\ over'[d] = over[d]
          /\ lastSeq'[d] = lastSeq[d] /\ copies'[d] = copies[d]
          /\ chan'[d] = IF d \in sockets THEN Append(chan[d], m) ELSE chan[d]
      BY <1>3, <1>L DEF SendEvent, Reached, Table, serverVars, clientVars
    <3>3. sockets' = sockets /\ Backlog(d)' = Backlog(d)
      BY <1>3, <2>1, <3>2 DEF SendEvent, tableVars, Backlog
    <3>4. WellFormed(d, m)'
      BY <2>1, <2>2 DEF WellFormed, Seqs
    <3>5. ASSUME NEW i \in 1 .. Len(chan[d]) PROVE WellFormed(d, chan[d][i])
      BY <3>5, <1>T DEF Tab, Flight
    <3>6. Flight(d)'
      <4>1. \A i \in 1 .. Len(chan'[d]) : WellFormed(d, chan[d][i])'
        <5>1. CASE d \notin sockets
          BY <5>1, <3>2, <3>5, <2>1 DEF WellFormed
        <5>2. CASE d \in sockets
          <6>1. /\ Len(chan'[d]) = Len(chan[d]) + 1 /\ Len(chan[d]) \in Nat
                /\ \A i \in 1 .. Len(chan[d]) : chan'[d][i] = chan[d][i]
                /\ chan'[d][Len(chan[d]) + 1] = m
            BY <5>2, <3>1, <3>2, WireAppend
          <6>2. ASSUME NEW i \in 1 .. Len(chan'[d]) PROVE WellFormed(d, chan[d][i])'
            <7>1. CASE i = Len(chan[d]) + 1
              BY <7>1, <6>1, <3>4
            <7>2. CASE i \in 1 .. Len(chan[d])
              BY <7>2, <6>1, <3>5, <3>2, <2>1 DEF WellFormed
            <7> QED
              BY <6>1, <6>2, <7>1, <7>2
          <6> QED
            BY <6>2
        <5> QED
          BY <5>1, <5>2
      <4>2. conn'[d] \in {"down", "attaching", "starting"} => chan'[d] = << >> /\ page'[d] = {}
        BY <1>L, <1>T, <3>2 DEF Tab, Flight, Table, Connected
      <4> QED
        BY <1>T, <2>1, <3>2, <3>3, <4>1, <4>2 DEF Tab, Flight
    <3>7. Shown(d)'
      BY <1>T, <2>1, <3>2 DEF Tab, Shown
    <3>8. ASSUME d \in sockets', NEW s \in Backlog(d)' PROVE Accounted(d, s)'
      <4>1. Accounted(d, s) /\ d \in sockets
        BY <3>8, <3>3, <1>T DEF Tab
      <4>2. /\ Len(chan'[d]) = Len(chan[d]) + 1 /\ Len(chan[d]) \in Nat
            /\ \A i \in 1 .. Len(chan[d]) : chan'[d][i] = chan[d][i]
            /\ chan'[d][Len(chan[d]) + 1] = m
        BY <4>1, <3>1, <3>2, WireAppend
      <4>3. CASE s = e
        <5>1. Len(chan[d]) + 1 \in 1 .. Len(chan'[d]) /\ s \in chan'[d][Len(chan[d]) + 1].events
          BY <4>2, <4>3
        <5> QED
          BY <5>1 DEF Accounted, OnTheWire
      <4>4. CASE OnTheWire(d, s)
        <5>1. PICK i \in 1 .. Len(chan[d]) : s \in chan[d][i].events
          BY <4>4 DEF OnTheWire
        <5>2. i \in 1 .. Len(chan'[d]) /\ s \in chan'[d][i].events
          BY <5>1, <4>2
        <5> QED
          BY <5>2 DEF Accounted, OnTheWire
      <4>5. CASE s # e /\ ~ OnTheWire(d, s)
        BY <4>5, <4>1, <3>2, <2>1 DEF Accounted
      <4> QED
        BY <4>3, <4>4, <4>5
    <3> QED
      BY <3>6, <3>7, <3>8 DEF Tab
  <2> QED
    BY <1>L, <2>1, <2>3 DEF Stream
<1>4. ASSUME NEW c \in Clients, Connect(c) PROVE Stream'
  <2>1. /\ UNCHANGED logVars
        /\ conn'[c] = "attaching" /\ since'[c] = lastSeq[c] /\ page'[c] = page[c] /\ over'[c] = FALSE
        /\ chan'[c] = chan[c] /\ lastSeq'[c] = lastSeq[c] /\ copies'[c] = copies[c]
        /\ \A d \in Clients \ {c} :
             /\ conn'[d] = conn[d] /\ since'[d] = since[d] /\ page'[d] = page[d]
             /\ over'[d] = over[d] /\ chan'[d] = chan[d]
             /\ lastSeq'[d] = lastSeq[d] /\ copies'[d] = copies[d]
             /\ d \in sockets' => d \in sockets
    BY <1>4, <1>L DEF Connect, TypeOK, clientVars, tableVars
  <2>2. chan[c] = << >> /\ Committed' = Committed /\ lastEventSeq' = lastEventSeq
    BY <1>4, <1>T, <2>1 DEF Connect, Tab, Flight, logVars, Committed
  <2>3. Tab(c)'
    <3>1. page[c] = {}
      BY <1>4, <1>T DEF Connect, Tab, Flight
    <3>2. Flight(c)'
      BY <2>1, <2>2, <3>1, <1>L, <1>T DEF Flight, Tab, Shown, TypeOK
    <3>3. Shown(c)'
      BY <2>1, <2>2, <1>T DEF Shown, Tab
    <3>4. c \notin sockets'
      BY <1>L, <2>1 DEF Table, Connected
    <3> QED
      BY <3>2, <3>3, <3>4 DEF Tab
  <2> QED
    BY <2>1, <2>3, <1>o
<1>5. ASSUME NEW c \in Clients, JoinSockets(c) \/ RuntimeReady(c) PROVE Stream'
  <2>1. /\ UNCHANGED logVars
        /\ conn[c] # "down" /\ conn'[c] = "attached"
        /\ since'[c] = since[c] /\ page'[c] = page[c] /\ over'[c] = over[c]
        /\ chan'[c] = chan[c] /\ lastSeq'[c] = lastSeq[c] /\ copies'[c] = copies[c]
        /\ \A d \in Clients \ {c} :
             /\ conn'[d] = conn[d] /\ since'[d] = since[d] /\ page'[d] = page[d]
             /\ over'[d] = over[d] /\ chan'[d] = chan[d]
             /\ lastSeq'[d] = lastSeq[d] /\ copies'[d] = copies[d]
             /\ d \in sockets' => d \in sockets
    BY <1>5, <1>L DEF JoinSockets, RuntimeReady, TypeOK, clientVars, serverVars
  <2>2. Committed' = Committed /\ lastEventSeq' = lastEventSeq /\ Backlog(c)' = Backlog(c)
    BY <2>1 DEF logVars, Committed, Backlog
  <2>3. Flight(c)'
    BY <2>1, <2>2, <1>T DEF Flight, Tab, WellFormed
  <2>4. Shown(c)'
    BY <2>1, <2>2, <1>T DEF Shown, Tab
  <2>5. Tab(c)'
    BY <2>1, <2>3, <2>4 DEF Tab, Accounted
  <2> QED
    BY <2>1, <2>5, <1>o
<1>6. ASSUME NEW c \in Clients, ReadBacklog(c) PROVE Stream'
  <2>1. /\ UNCHANGED logVars
        /\ conn[c] = "attached" /\ conn'[c] = "read"
        /\ since'[c] = since[c] /\ page'[c] = getEventsSince(c)
        /\ over'[c] = (Cardinality(Backlog(c)) > Limit)
        /\ chan'[c] = chan[c] /\ lastSeq'[c] = lastSeq[c] /\ copies'[c] = copies[c]
        /\ \A d \in Clients \ {c} :
             /\ conn'[d] = conn[d] /\ since'[d] = since[d] /\ page'[d] = page[d]
             /\ over'[d] = over[d] /\ chan'[d] = chan[d]
             /\ lastSeq'[d] = lastSeq[d] /\ copies'[d] = copies[d]
             /\ d \in sockets' => d \in sockets
    BY <1>6, <1>L DEF ReadBacklog, TypeOK, clientVars, tableVars
  <2>2. Committed' = Committed /\ lastEventSeq' = lastEventSeq /\ Backlog(c)' = Backlog(c)
    BY <2>1 DEF logVars, Committed, Backlog
  <2>3. Flight(c)'
    <3>1. page'[c] \subseteq Backlog(c)'
      BY <2>1, <2>2 DEF getEventsSince
    <3> QED
      BY <2>1, <2>2, <3>1, <1>T DEF Flight, Tab, WellFormed
  <2>4. Shown(c)'
    BY <2>1, <2>2, <1>T DEF Shown, Tab
  <2>5. ASSUME NEW s \in Backlog(c)' PROVE Accounted(c, s)'
    <3>1. CASE Cardinality(Backlog(c)) > Limit
      BY <2>1, <3>1 DEF Accounted
    <3>2. CASE ~ (Cardinality(Backlog(c)) > Limit)
      <4>1. page'[c] = Backlog(c)'
        BY <1>L, <2>1, <2>2, <3>2, WholePage
      <4> QED
        BY <2>1, <2>5, <4>1 DEF Accounted
    <3> QED
      BY <3>1, <3>2
  <2>6. Tab(c)'
    BY <2>3, <2>4, <2>5 DEF Tab
  <2> QED
    BY <2>1, <2>6, <1>o
<1>7. ASSUME NEW c \in Clients, SendBacklog(c) PROVE Stream'
  <2>0. PICK m : m = [events |-> page[c], lastSeq |-> HighestOf(page[c], since[c])]
    OBVIOUS
  <2>1. /\ UNCHANGED logVars
        /\ conn[c] = "read" /\ conn'[c] = "open"
        /\ since'[c] = since[c] /\ page'[c] = {} /\ over'[c] = over[c]
        /\ chan'[c] = Append(chan[c], m) /\ lastSeq'[c] = lastSeq[c] /\ copies'[c] = copies[c]
        /\ \A d \in Clients \ {c} :
             /\ conn'[d] = conn[d] /\ since'[d] = since[d] /\ page'[d] = page[d]
             /\ over'[d] = over[d] /\ chan'[d] = chan[d]
             /\ lastSeq'[d] = lastSeq[d] /\ copies'[d] = copies[d]
             /\ d \in sockets' => d \in sockets
        /\ sockets' = sockets
    BY <1>7, <1>L, <2>0 DEF SendBacklog, TypeOK, clientVars, tableVars
  <2>2. Committed' = Committed /\ lastEventSeq' = lastEventSeq /\ Backlog(c)' = Backlog(c) /\ unsent' = unsent
    BY <2>1 DEF logVars, Committed, Backlog
  <2>3. /\ page[c] \in SUBSET (1 .. MaxEvents) /\ since[c] \in 0 .. MaxEvents
        /\ page[c] \subseteq Committed /\ since[c] <= lastEventSeq
        /\ Committed = 1 .. lastEventSeq /\ lastEventSeq \in Nat
    BY <1>L, <1>T DEF TypeOK, Tab, Flight, Backlog, Log, LogGapFree, Seqs
  <2>4. /\ page[c] = {} => HighestOf(page[c], since[c]) = since[c]
        /\ page[c] # {} => /\ HighestOf(page[c], since[c]) \in page[c]
                           /\ \A t \in page[c] : t <= HighestOf(page[c], since[c])
    BY <2>3, HighestOfBacklog
  <2>5. m \in Message
    BY <2>0, <2>3, <2>4 DEF Message, Seqs
  <2>6. WellFormed(c, m)'
    BY <2>0, <2>1, <2>2, <2>3, <2>4 DEF WellFormed
  <2>7. /\ Len(chan'[c]) = Len(chan[c]) + 1 /\ Len(chan[c]) \in Nat
        /\ \A i \in 1 .. Len(chan[c]) : chan'[c][i] = chan[c][i]
        /\ chan'[c][Len(chan[c]) + 1] = m
    <3>1. chan[c] \in Seq(Message)
      BY <1>L DEF TypeOK
    <3> QED
      BY <2>1, <2>5, <3>1, WireAppend
  <2>8. ASSUME NEW i \in 1 .. Len(chan'[c]) PROVE WellFormed(c, chan[c][i])'
    <3>1. CASE i = Len(chan[c]) + 1
      BY <3>1, <2>6, <2>7
    <3>2. CASE i \in 1 .. Len(chan[c])
      <4>1. WellFormed(c, chan[c][i])
        BY <3>2, <1>T DEF Tab, Flight
      <4> QED
        BY <3>2, <4>1, <2>1, <2>2, <2>7 DEF WellFormed
    <3> QED
      BY <2>7, <2>8, <3>1, <3>2
  <2>9. Flight(c)'
    BY <2>1, <2>2, <2>8, <1>T DEF Flight, Tab
  <2>10. Shown(c)'
    BY <2>1, <2>2, <1>T DEF Shown, Tab
  <2>11. ASSUME c \in sockets', NEW s \in Backlog(c)' PROVE Accounted(c, s)'
    <3>1. Accounted(c, s)
      BY <2>1, <2>2, <2>11, <1>T DEF Tab
    <3>2. CASE s \in page[c]
      <4>1. Len(chan[c]) + 1 \in 1 .. Len(chan'[c]) /\ s \in chan'[c][Len(chan[c]) + 1].events
        BY <2>0, <2>7, <3>2
      <4> QED
        BY <4>1 DEF Accounted, OnTheWire
    <3>3. CASE OnTheWire(c, s)
      <4>1. PICK i \in 1 .. Len(chan[c]) : s \in chan[c][i].events
        BY <3>3 DEF OnTheWire
      <4>2. i \in 1 .. Len(chan'[c]) /\ s \in chan'[c][i].events
        BY <4>1, <2>7
      <4> QED
        BY <4>2 DEF Accounted, OnTheWire
    <3>4. CASE over[c] \/ copies[c][s] > 0 \/ s \in unsent
      BY <3>4, <2>1, <2>2 DEF Accounted
    <3> QED
      BY <3>1, <3>2, <3>3, <3>4, <2>1 DEF Accounted
  <2>12. Tab(c)'
    BY <2>9, <2>10, <2>11 DEF Tab
  <2> QED
    BY <2>1, <2>12, <1>o
<1>8. ASSUME NEW c \in Clients, Receive(c) PROVE Stream'
  <2>1. /\ UNCHANGED logVars
        /\ conn[c] # "down" /\ conn'[c] = conn[c]
        /\ since'[c] = since[c] /\ page'[c] = page[c] /\ over'[c] = over[c]
        /\ chan[c] # << >> /\ chan'[c] = Tail(chan[c])
        /\ \A d \in Clients \ {c} :
             /\ conn'[d] = conn[d] /\ since'[d] = since[d] /\ page'[d] = page[d]
             /\ over'[d] = over[d] /\ chan'[d] = chan[d]
             /\ lastSeq'[d] = lastSeq[d] /\ copies'[d] = copies[d]
             /\ d \in sockets' => d \in sockets
        /\ sockets' = sockets
    BY <1>8, <1>L DEF Receive, TypeOK, serverVars, tableVars
  <2>2. Committed' = Committed /\ lastEventSeq' = lastEventSeq /\ Backlog(c)' = Backlog(c) /\ unsent' = unsent
    BY <2>1 DEF logVars, Committed, Backlog
  <2>3. /\ Shown(c)' /\ lastSeq[c] <= lastSeq'[c]
        /\ \A s \in Head(chan[c]).events : copies'[c][s] > 0
        /\ \A s \in Seqs : copies[c][s] > 0 => copies'[c][s] > 0
    BY <1>8, MergeShown
  <2>4. /\ Head(chan[c]) = chan[c][1]
        /\ Len(chan[c]) \in Nat \ {0}
        /\ Len(chan'[c]) = Len(chan[c]) - 1
        /\ \A i \in 1 .. Len(chan[c]) - 1 : chan'[c][i] = chan[c][i + 1]
    <3>1. chan[c] \in Seq(Message)
      BY <1>L DEF TypeOK
    <3> QED
      BY <2>1, <3>1, WireTail
  <2>5. ASSUME NEW i \in 1 .. Len(chan'[c]) PROVE WellFormed(c, chan[c][i])'
    <3>1. i + 1 \in 1 .. Len(chan[c]) /\ chan'[c][i] = chan[c][i + 1]
      BY <2>4, <2>5
    <3>2. WellFormed(c, chan[c][i + 1])
      BY <3>1, <1>T DEF Tab, Flight
    <3> QED
      BY <3>1, <3>2, <2>1, <2>2 DEF WellFormed
  <2>6. since'[c] <= lastSeq'[c]
    <3>1. since[c] <= lastSeq[c]
      BY <1>T, <2>1 DEF Tab, Flight
    <3> QED
      BY <2>1, <2>3, <3>1, <1>L DEF TypeOK
  <2>7. Flight(c)'
    BY <2>1, <2>2, <2>5, <2>6, <1>T DEF Flight, Tab
  <2>8. ASSUME c \in sockets', NEW s \in Backlog(c)' PROVE Accounted(c, s)'
    <3>1. Accounted(c, s)
      BY <2>1, <2>2, <2>8, <1>T DEF Tab
    <3>2. CASE OnTheWire(c, s)
      <4>1. PICK i \in 1 .. Len(chan[c]) : s \in chan[c][i].events
        BY <3>2 DEF OnTheWire
      <4>2. CASE i = 1
        BY <4>1, <4>2, <2>3, <2>4 DEF Accounted
      <4>3. CASE i # 1
        <5>1. i - 1 \in 1 .. Len(chan'[c]) /\ i - 1 \in 1 .. Len(chan[c]) - 1
          BY <4>3, <2>4
        <5>2. chan'[c][i - 1] = chan[c][i]
          BY <5>1, <2>4
        <5> QED
          BY <4>1, <5>1, <5>2 DEF Accounted, OnTheWire
      <4> QED
        BY <4>2, <4>3
    <3>3. CASE ~ OnTheWire(c, s)
      <4>1. s \in Seqs
        BY <2>2, <2>8 DEF Backlog, Committed
      <4> QED
        BY <3>1, <3>3, <4>1, <2>1, <2>2, <2>3 DEF Accounted
    <3> QED
      BY <3>2, <3>3
  <2>9. Tab(c)'
    BY <2>3, <2>7, <2>8 DEF Tab
  <2> QED
    BY <2>1, <2>9, <1>o
<1>9. ASSUME NEW c \in Clients, Drop(c) PROVE Stream'
  <2>1. /\ UNCHANGED logVars
        /\ conn'[c] = "down" /\ since'[c] = since[c] /\ page'[c] = {} /\ over'[c] = over[c]
        /\ chan'[c] = << >> /\ lastSeq'[c] = lastSeq[c] /\ copies'[c] = copies[c]
        /\ \A d \in Clients \ {c} :
             /\ conn'[d] = conn[d] /\ since'[d] = since[d] /\ page'[d] = page[d]
             /\ over'[d] = over[d] /\ chan'[d] = chan[d]
             /\ lastSeq'[d] = lastSeq[d] /\ copies'[d] = copies[d]
             /\ d \in sockets' => d \in sockets
    BY <1>9, <1>L DEF Drop, Forsake, TypeOK, clientVars
  <2>2. Committed' = Committed /\ lastEventSeq' = lastEventSeq
    BY <2>1 DEF logVars, Committed
  <2>3. Flight(c)' /\ Shown(c)'
    BY <2>1, <2>2, <1>T DEF Flight, Shown, Tab
  <2>4. Tab(c)'
    BY <2>1, <2>3, <1>L DEF Tab, Table, Connected
  <2> QED
    BY <2>1, <2>4, <1>o
<1>10. ASSUME NEW c \in Clients, Reload(c) PROVE Stream'
  <2>1. /\ UNCHANGED logVars
        /\ conn'[c] = "down" /\ since'[c] = since[c] /\ page'[c] = {} /\ over'[c] = over[c]
        /\ chan'[c] = << >> /\ lastSeq'[c] = 0 /\ copies'[c] = [s \in Seqs |-> 0]
        /\ \A d \in Clients \ {c} :
             /\ conn'[d] = conn[d] /\ since'[d] = since[d] /\ page'[d] = page[d]
             /\ over'[d] = over[d] /\ chan'[d] = chan[d]
             /\ lastSeq'[d] = lastSeq[d] /\ copies'[d] = copies[d]
             /\ d \in sockets' => d \in sockets
    BY <1>10, <1>L DEF Reload, Forsake, TypeOK
  <2>2. Committed' = Committed /\ lastEventSeq' = lastEventSeq
    BY <2>1 DEF logVars, Committed
  <2>3. Flight(c)' /\ Shown(c)'
    BY <2>1, <2>2, <1>L, <1>T DEF Flight, Shown, Tab, TypeOK
  <2>4. Tab(c)'
    BY <2>1, <2>3, <1>L DEF Tab, Table, Connected
  <2> QED
    BY <2>1, <2>4, <1>o
<1>11. CASE Restart
  <2>1. Committed' = Committed /\ lastEventSeq' = lastEventSeq /\ unsent' = {}
    BY <1>11 DEF Restart, Committed
  <2>2. ASSUME NEW d \in Clients PROVE Tab(d)'
    <3>1. /\ conn'[d] = "down" /\ since'[d] = since[d] /\ page'[d] = {}
          /\ chan'[d] = << >> /\ lastSeq'[d] = lastSeq[d] /\ copies'[d] = copies[d]
      BY <1>11 DEF Restart, clientVars
    <3>2. Flight(d)' /\ Shown(d)'
      BY <2>1, <3>1, <1>T DEF Flight, Shown, Tab
    <3> QED
      BY <1>11, <3>1, <3>2 DEF Tab, Restart
  <2> QED
    BY <1>L, <2>1, <2>2 DEF Stream
<1>12. ASSUME NEW c \in Clients, StartRuntime(c) PROVE Stream'
  <2>1. /\ UNCHANGED logVars
        /\ conn[c] \in {"attaching", "starting"} /\ conn'[c] = "starting"
        /\ since'[c] = since[c] /\ page'[c] = page[c] /\ over'[c] = over[c]
        /\ chan'[c] = chan[c] /\ lastSeq'[c] = lastSeq[c] /\ copies'[c] = copies[c]
        /\ \A d \in Clients \ {c} :
             /\ conn'[d] = conn[d] /\ since'[d] = since[d] /\ page'[d] = page[d]
             /\ over'[d] = over[d] /\ chan'[d] = chan[d]
             /\ lastSeq'[d] = lastSeq[d] /\ copies'[d] = copies[d]
             /\ d \in sockets' => d \in sockets
    BY <1>12, <1>L DEF StartRuntime, TypeOK, clientVars, serverVars, tableVars
  <2>2. Committed' = Committed /\ lastEventSeq' = lastEventSeq /\ Backlog(c)' = Backlog(c)
    BY <2>1 DEF logVars, Committed, Backlog
  <2>3. Flight(c)' /\ Shown(c)'
    BY <2>1, <2>2, <1>T DEF Flight, Shown, Tab, WellFormed
  <2>4. Tab(c)'
    BY <2>1, <2>3, <1>L DEF Tab, Table, Connected
  <2> QED
    BY <2>1, <2>4, <1>o
<1>13. ASSUME NEW c \in Clients, AttachFails(c) PROVE Stream'
  <2>1. /\ UNCHANGED logVars
        /\ conn[c] \in {"attaching", "starting"} /\ conn'[c] = "down"
        /\ since'[c] = since[c] /\ page'[c] = page[c] /\ over'[c] = over[c]
        /\ chan'[c] = chan[c] /\ lastSeq'[c] = lastSeq[c] /\ copies'[c] = copies[c]
        /\ \A d \in Clients \ {c} :
             /\ conn'[d] = conn[d] /\ since'[d] = since[d] /\ page'[d] = page[d]
             /\ over'[d] = over[d] /\ chan'[d] = chan[d]
             /\ lastSeq'[d] = lastSeq[d] /\ copies'[d] = copies[d]
             /\ d \in sockets' => d \in sockets
    BY <1>13, <1>L DEF AttachFails, TypeOK, clientVars, serverVars, tableVars
  <2>2. Committed' = Committed /\ lastEventSeq' = lastEventSeq /\ Backlog(c)' = Backlog(c)
    BY <2>1 DEF logVars, Committed, Backlog
  <2>3. chan[c] = << >> /\ page[c] = {}
    BY <1>13, <1>T DEF AttachFails, Tab, Flight
  <2>4. Flight(c)' /\ Shown(c)'
    BY <2>1, <2>2, <2>3, <1>T DEF Flight, Shown, Tab
  <2>5. Tab(c)'
    BY <2>1, <2>4, <1>L DEF Tab, Table, Connected
  <2> QED
    BY <2>1, <2>5, <1>o
<1> QED
  BY <1>1, <1>2, <1>3, <1>4, <1>5, <1>6, <1>7, <1>8, <1>9, <1>10, <1>11, <1>12, <1>13 DEF Next

-----------------------------------------------------------------------------
(* The state is always well typed.                                         *)
THEOREM TypeCorrect == Spec => []TypeOK
<1>1. Log => TypeOK
  BY DEF Log
<1> QED
  BY LogInit, LogNext, <1>1, PTL DEF Spec

(* The persisted log never has a gap: appendEvent numbers rows 1, 2, 3 ... *)
(* through any interleaving of appends, failures and restarts.             *)
THEOREM GapFree == Spec => []LogGapFree
<1>1. Log => LogGapFree
  BY DEF Log
<1> QED
  BY LogInit, LogNext, <1>1, PTL DEF Spec

(* Rows are only ever added, one at a time, at the end.                    *)
THEOREM AppendOnly == Spec => LogAppendOnly
<1> DEFINE Grows == /\ \A s \in Seqs : rows[s] # 0 => rows'[s] = rows[s]
                    /\ lastEventSeq' \in {lastEventSeq, lastEventSeq + 1}
<1>1. Log /\ [Next]_vars => [Grows]_vars
  <2> SUFFICES ASSUME Log, Next PROVE Grows
    OBVIOUS
  <2>1. CASE CommitAppend
    <3>1. \A s \in Committed : rows'[s] = rows[s]
      BY <2>1, CommitAddsNext
    <3> QED
      BY <2>1, <3>1 DEF Committed, CommitAppend
  <2>2. CASE UNCHANGED <<rows, lastEventSeq>>
    BY <2>2
  <2> QED
    BY <2>1, <2>2 DEF Next, Emit, BeginAppend, FailAppend, SendEvent, Connect, JoinSockets,
       StartRuntime, RuntimeReady, OrphanReady, OrphanFails, Evict, AttachFails,
       ReadBacklog, SendBacklog, Receive, Drop, Reload, Restart, logVars
<1> QED
  BY LogInit, LogNext, <1>1, PTL DEF Spec, LogAppendOnly

(* No tab shows an event twice.                                            *)
THEOREM NeverTwice == Spec => []NoDuplicates
<1>1. Stream => NoDuplicates
  BY DEF Stream, Tab, Shown, NoDuplicates
<1> QED
  BY StreamInit, StreamNext, <1>1, PTL DEF Spec

(* Whatever a tab shows survives a restart of the server.                  *)
THEOREM DurableBeforeShown == Spec => []ShownIsCommitted
<1>1. Stream => ShownIsCommitted
  BY DEF Stream, Tab, Shown, ShownIsCommitted
<1> QED
  BY StreamInit, StreamNext, <1>1, PTL DEF Spec

(* A tab always resumes from the newest event it holds.                    *)
THEOREM ResumesFromNewest == Spec => []ResumePointIsNewest
<1>1. Stream => ResumePointIsNewest
  BY DEF Stream, Tab, Shown, ResumePointIsNewest
<1> QED
  BY StreamInit, StreamNext, <1>1, PTL DEF Spec

(* The handshake loses nothing while the connection lives, for any number  *)
(* of tabs and any page limit, unless the backlog exceeds one page or two  *)
(* overlapping cold starts took the tab's LiveSession out of the table.    *)
THEOREM HandshakeKeepsEvents == Spec => []NoLossWhileConnected
<1>1. Stream => NoLossWhileConnected
  <2> SUFFICES ASSUME Stream, NEW c \in Connected, ~Replaced(c), NEW s \in Backlog(c)
               PROVE  Accounted(c, s)
    BY DEF NoLossWhileConnected, Accounted
  <2>1. c \in sockets /\ c \in Clients
    BY DEF Stream, Table, Replaced, Connected
  <2> QED
    BY <2>1 DEF Stream, Tab
<1> QED
  BY StreamInit, StreamNext, <1>1, PTL DEF Spec
-----------------------------------------------------------------------------
(* The promise of EventFeed.                                               *)

(* Every event is in at most one place: waiting, in the transaction, or in *)
(* one row, and an event that has yet to happen is in none.                *)
Once ==
    /\ tx \notin appending
    /\ \A s \in Committed : /\ rows[s] \in 1 .. emitted
                            /\ rows[s] \notin appending
                            /\ rows[s] # tx

LEMMA OnceNext == Log /\ Once /\ [Next]_vars => Once'
<1> SUFFICES ASSUME Log, Once, [Next]_vars PROVE Once'
  OBVIOUS
<1>0. /\ emitted \in Nat /\ appending \subseteq 1 .. emitted /\ tx \in 0 .. emitted
      /\ rows \in [Seqs -> 0 .. MaxEvents] /\ lastEventSeq \in Nat
  BY StreamAssumption DEF Log, TypeOK
<1>1. CASE Emit
  BY <1>0, <1>1 DEF Once, Emit, Committed
<1>2. ASSUME NEW e \in appending, BeginAppend(e) PROVE Once'
  BY <1>0, <1>2 DEF Once, BeginAppend, Committed
<1>3. CASE CommitAppend
  <2>1. /\ lastEventSeq + 1 \in Seqs
        /\ Committed' = Committed \cup {lastEventSeq + 1}
        /\ \A s \in Committed : rows'[s] = rows[s]
    BY <1>3, CommitAddsNext
  <2>2. rows'[lastEventSeq + 1] = tx /\ tx \in 1 .. emitted /\ tx' = 0
    BY <1>0, <1>3, <2>1 DEF CommitAppend
  <2>3. \A s \in Committed' : rows'[s] \in 1 .. emitted /\ rows'[s] \notin appending
    BY <2>1, <2>2 DEF Once
  <2> QED
    BY <1>0, <1>3, <2>2, <2>3 DEF Once, CommitAppend
<1>4. CASE FailAppend \/ Restart
  BY <1>0, <1>4 DEF Once, FailAppend, Restart, Committed
<1>5. CASE UNCHANGED <<emitted, appending, tx, rows>>
  BY <1>5 DEF Once, Committed
<1> QED
  BY <1>1, <1>2, <1>3, <1>4, <1>5 DEF Next, SendEvent, Connect, JoinSockets, ReadBacklog,
     StartRuntime, RuntimeReady, OrphanReady, OrphanFails, Evict, AttachFails,
     SendBacklog, Receive, Drop, Reload, logVars, vars

(* The rows up to n are a sequence, and one more row appends to it.        *)
LEMMA LogIsSequence ==
    ASSUME NEW n \in Nat, NEW f, \A s \in 1 .. n : f[s] \in Seqs, NEW e \in Seqs
    PROVE  LET log == [s \in 1 .. n |-> f[s]]
           IN  /\ log \in Seq(Seqs)
               /\ Len(log) = n
               /\ Append(log, e) = [s \in 1 .. n + 1 |-> IF s = n + 1 THEN e ELSE f[s]]
<1> DEFINE log == [s \in 1 .. n |-> f[s]]
<1>1. log \in [1 .. n -> Seqs]
  OBVIOUS
<1>2. log \in Seq(Seqs) /\ Len(log) = n
  BY <1>1
<1> QED
  BY <1>2

(* A commit publishes the event of the transaction; receiving delivers the *)
(* rows the tab did not show, if any; reloading starts afresh; and nothing *)
(* else shows, the death of the server included.                           *)
LEMMA StepFeeds ==
    Stream /\ Stream' /\ Once /\ [Next]_vars => [Feed!Next]_<<LogRows, copies>>
<1> SUFFICES ASSUME Stream, Stream', Once, [Next]_vars PROVE [Feed!Next]_<<LogRows, copies>>
  OBVIOUS
<1> USE StreamAssumption
<1>0. /\ emitted \in Nat /\ emitted <= MaxEvents /\ MaxEvents \in Nat /\ tx \in 0 .. emitted
      /\ rows \in [Seqs -> 0 .. MaxEvents] /\ lastEventSeq \in 0 .. MaxEvents
      /\ copies \in [Clients -> [Seqs -> Nat]] /\ Committed = 1 .. lastEventSeq
  BY DEF Stream, Log, TypeOK, LogGapFree
<1>1. /\ \A s \in 1 .. lastEventSeq : rows[s] \in Seqs
      /\ Len(LogRows) = lastEventSeq
  <2>1. \A s \in 1 .. lastEventSeq : rows[s] \in Seqs
    BY <1>0 DEF Once, Seqs
  <2>2. LogRows \in [1 .. lastEventSeq -> Seqs]
    BY <2>1 DEF LogRows
  <2> QED
    BY <1>0, <2>1, <2>2
<1>2. CASE CommitAppend
  <2>1. /\ lastEventSeq + 1 \in Seqs /\ lastEventSeq' = lastEventSeq + 1 /\ tx \in Seqs
        /\ rows' = [rows EXCEPT ![lastEventSeq + 1] = tx] /\ copies' = copies
    BY <1>0, <1>2, CommitAddsNext DEF Stream, CommitAppend, clientVars, Seqs
  <2>2. LogRows' = Append(LogRows, tx)
    <3>1. LogRows' = [s \in 1 .. lastEventSeq + 1 |-> IF s = lastEventSeq + 1 THEN tx ELSE rows[s]]
      BY <1>0, <2>1 DEF LogRows, Seqs
    <3> QED
      BY <1>0, <1>1, <2>1, <3>1, LogIsSequence DEF LogRows
  <2>3. \A p \in 1 .. Len(LogRows) : LogRows[p] # tx
    BY <1>0, <1>1 DEF Once, LogRows
  <2>4. PICK e \in Seqs : e = tx
    BY <2>1
  <2>5. Feed!Publish(e)
    BY <2>1, <2>2, <2>3, <2>4 DEF Feed!Publish, LogRows
  <2>6. Feed!Next
    BY <2>5 DEF Feed!Next
  <2> QED
    BY <2>6
<1>3. ASSUME NEW c \in Clients, Receive(c) PROVE [Feed!Next]_<<LogRows, copies>>
  <2> DEFINE S == {s \in Head(chan[c]).events : copies[c][s] = 0}
  <2>1. Head(chan[c]).events \subseteq Committed
    <3>1. chan[c] \in Seq(Message) /\ chan[c] # << >> /\ Tab(c)
      BY <1>3 DEF Stream, Log, TypeOK, Receive
    <3>2. Head(chan[c]) = chan[c][1] /\ 1 \in 1 .. Len(chan[c])
      BY <3>1, WireTail
    <3> QED
      BY <3>1, <3>2 DEF Tab, Flight, WellFormed
  <2>2. copies' = [copies EXCEPT ![c] = dedupeAppend(copies[c], Head(chan[c]).events)]
        /\ LogRows' = LogRows
    BY <1>3 DEF Receive, logVars, LogRows
  <2>3. dedupeAppend(copies[c], Head(chan[c]).events)
          = [s \in Seqs |-> IF s \in S THEN 1 ELSE copies[c][s]]
    BY <1>0 DEF dedupeAppend
  <2>4. S \subseteq 1 .. Len(LogRows)
    BY <1>0, <1>1, <2>1
  <2> HIDE DEF S
  <2>5. CASE S = {}
    <3>1. dedupeAppend(copies[c], Head(chan[c]).events) = copies[c]
      BY <1>0, <2>3, <2>5
    <3> QED
      BY <1>0, <2>2, <3>1
  <2>6. CASE S # {}
    <3>1. \A p \in S : copies[c][p] = 0
      BY DEF S
    <3>2. copies' = [copies EXCEPT ![c] = [s \in Seqs |-> IF s \in S THEN 1 ELSE @[s]]]
      BY <2>2, <2>3
    <3>3. Feed!Deliver(c, S)
      BY <2>2, <2>6, <3>1, <3>2 DEF Feed!Deliver, LogRows
    <3> QED
      BY <2>4, <3>3 DEF Feed!Next, LogRows
  <2> QED
    BY <2>5, <2>6
<1>4. ASSUME NEW c \in Clients, Reload(c) PROVE Feed!Next
  <2>1. Feed!StartAfresh(c)
    BY <1>4 DEF Reload, logVars, LogRows, Feed!StartAfresh, Feed!Blank
  <2> QED
    BY <2>1 DEF Feed!Next
<1>5. CASE UNCHANGED <<rows, lastEventSeq, copies>>
  BY <1>5 DEF LogRows
<1> QED
  BY <1>2, <1>3, <1>4, <1>5 DEF Next, Emit, BeginAppend, FailAppend, SendEvent, Connect, JoinSockets,
     StartRuntime, RuntimeReady, OrphanReady, OrphanFails, Evict, AttachFails,
     ReadBacklog, SendBacklog, Drop, Restart, logVars, clientVars, vars

(* The transaction, the fan-out, the handshake and the tab's reducer       *)
(* together implement EventFeed: a watcher cannot tell that connections,   *)
(* pages, retries and restarts exist, except by what it has yet to see.    *)
THEOREM FeedIsKept == Spec => KeepsFeed
<1>1. Init => Feed!Init
  <2> SUFFICES ASSUME Init PROVE Feed!Init
    OBVIOUS
  <2>1. LogRows = << >>
    BY DEF Init, LogRows
  <2> QED
    BY <2>1 DEF Init, Feed!Init, Feed!Blank
<1>2. Init => Once
  BY DEF Init, Once, Committed
<1>3. Stream => Log
  BY DEF Stream
<1> QED
  BY <1>1, <1>2, <1>3, StepFeeds, StreamInit, StreamNext, OnceNext, PTL DEF Spec, KeepsFeed, Feed!Spec
=============================================================================
