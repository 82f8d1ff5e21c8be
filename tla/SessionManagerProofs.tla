------------------------ MODULE SessionManagerProofs ------------------------
(***************************************************************************)
(* What SessionManager promises for any number of sessions, connections,   *)
(* mode changes and deletions, and any cap.                                *)
(***************************************************************************)
EXTENDS SessionManager, TLAPS

(* A connection on its way to a LiveSession of its own, and one that has   *)
(* joined a LiveSession.                                                   *)
Early  == {"idle", "loading", "starting", "creating", "saving"}
Joined == {"reading", "served"}

(* A LiveSession in the table belongs to its session, was created by a     *)
(* connection that is past ensureLive, and has its runtime.                *)
TableOK ==
    \A s \in Sessions : live[s] # None =>
        /\ target[live[s]] = s
        /\ phase[live[s]] \notin Early
        /\ client[live[s]] = "running" \/ torn[s]

(* A runtime under construction has not been stopped, and has no timer.    *)
BuildOK ==
    \A c \in Conns : phase[c] \in Early =>
        /\ phase[c] \in {"creating", "saving"} => client[c] = "running"
        /\ handle[c] = None

(* A joined connection is in the sockets of the LiveSession it joined,     *)
(* whose runtime is there; that LiveSession is the one in the table unless *)
(* it was replaced or deleted.                                             *)
JoinOK ==
    \A c \in Conns : phase[c] \in Joined =>
        /\ using[c] \in Conns
        /\ phase[using[c]] \notin Early
        /\ target[using[c]] = target[c]
        /\ target[c] \in Sessions
        /\ c \in sockets[using[c]]
        /\ client[using[c]] = "running" \/ torn[target[c]]
        /\ live[target[c]] = using[c] \/ replaced[target[c]] \/ torn[target[c]]

(* Every connection past its first step knows its session.                 *)
TargetOK == \A c \in Conns : phase[c] # "idle" => target[c] \in Sessions

(* The timer a LiveSession remembers is one for its own session.           *)
TimerOK ==
    /\ \A o \in Conns : handle[o] # None =>
          /\ target[handle[o]] = target[o]
          /\ phase[handle[o]] = "done"
          /\ phase[o] \notin Early
    /\ \A c \in armed : target[c] \in Sessions /\ phase[c] = "done"

(* A deletion under way holds a LiveSession of that very session.          *)
DeleteOK ==
    \A s \in Sessions :
        /\ del[s] = "stopping" => delObj[s] # None
        /\ delObj[s] # None => target[delObj[s]] = s /\ phase[delObj[s]] \notin Early

(* The inductive invariant.                                                *)
Manager ==
    /\ TypeOK
    /\ TableOK
    /\ BuildOK
    /\ JoinOK
    /\ TargetOK
    /\ TimerOK
    /\ DeleteOK
    /\ IdleHasTimer

LEMMA ManagerInit == Init => Manager
<1> SUFFICES ASSUME Init PROVE Manager
  OBVIOUS
<1>1. TypeOK
  BY ManagerAssumption DEF Init, TypeOK, Phases
<1>2. TableOK /\ BuildOK /\ JoinOK /\ TargetOK /\ TimerOK /\ DeleteOK /\ IdleHasTimer
  BY ManagerAssumption DEF Init, TableOK, BuildOK, JoinOK, TargetOK, TimerOK, DeleteOK, IdleHasTimer, Joined
<1> QED
  BY <1>1, <1>2 DEF Manager

(* Removing an idle session from the table disturbs nothing else.          *)
LEMMA RemoveIdle ==
    ASSUME Manager, NEW v \in Sessions, live[v] # None, sockets[live[v]] = {}, Remove(v),
           UNCHANGED <<mode, sockets, handle, using, del, delObj, torn, replaced>>
    PROVE  /\ live' \in [Sessions -> Conns \cup {None}]
           /\ born' \in [Sessions -> Nat]
           /\ births' \in Nat
           /\ client' \in [Conns -> {"none", "running", "stopped"}]
           /\ \A c \in Conns : c # live[v] => client'[c] = client[c]
           /\ \A s \in Sessions : live'[s] # None => live'[s] = live[s] /\ live[s] # live[v]
           /\ \A s \in Sessions \ {v} : live'[s] = live[s]
           /\ \A c \in Conns : phase[c] \in Joined =>
                 /\ using[c] # live[v]
                 /\ target[c] = v => replaced[v] \/ torn[v]
<1>1. live[v] \in Conns /\ target[live[v]] = v
  BY DEF Manager, TypeOK, TableOK
<1>2. /\ live' \in [Sessions -> Conns \cup {None}] /\ born' \in [Sessions -> Nat] /\ births' \in Nat
      /\ client' \in [Conns -> {"none", "running", "stopped"}]
      /\ \A c \in Conns : c # live[v] => client'[c] = client[c]
      /\ \A s \in Sessions \ {v} : live'[s] = live[s]
  BY <1>1 DEF Manager, TypeOK, Remove
<1>3. ASSUME NEW s \in Sessions, live'[s] # None PROVE live'[s] = live[s] /\ live[s] # live[v]
  <2>1. s # v /\ live'[s] = live[s]
    BY <1>3 DEF Remove, Manager, TypeOK
  <2>2. target[live[s]] = s
    BY <1>3, <2>1 DEF Manager, TableOK
  <2> QED
    BY <1>1, <2>1, <2>2
<1>4. ASSUME NEW c \in Conns, phase[c] \in Joined
      PROVE  using[c] # live[v] /\ (target[c] = v => replaced[v] \/ torn[v])
  <2>1. c \in sockets[using[c]] /\ (live[target[c]] = using[c] \/ replaced[target[c]] \/ torn[target[c]])
    BY <1>4 DEF Manager, JoinOK
  <2> QED
    BY <2>1
<1> QED
  BY <1>2, <1>3, <1>4

(* Putting a new LiveSession in the table keeps the invariant, whatever is  *)
(* there already: what it replaces is recorded.                            *)
LEMMA GoLiveKeeps ==
    ASSUME Manager, NEW c \in Conns, phase[c] \in {"creating", "saving"}, GoLive(c),
           sdkId' \in [Sessions -> Conns \cup {None}],
           UNCHANGED <<row, rowMode, client, mode, resumes, up, target, delVars, patches>>
    PROVE  Manager'
<1> USE ManagerAssumption DEF Manager, delVars
<1> DEFINE s == target[c]
<1>1. s \in Sessions /\ handle[c] = None /\ client[c] = "running"
  BY DEF TargetOK, BuildOK, Early
<1>2. /\ armed' = armed
      /\ handle' = handle
      /\ phase' = [phase EXCEPT ![c] = "reading"]
      /\ sockets' = [sockets EXCEPT ![c] = @ \cup {c}]
      /\ using' = [using EXCEPT ![c] = c]
      /\ live' = [live EXCEPT ![s] = c]
      /\ replaced' = [replaced EXCEPT ![s] = @ \/ live[s] # None]
  BY <1>1 DEF GoLive, LiveSet, Join, TypeOK
<1>3. born' \in [Sessions -> Nat] /\ births' \in Nat
  BY <1>1 DEF GoLive, LiveSet, TypeOK
<1> HIDE DEF s
<1>4. TypeOK'
  BY <1>1, <1>2, <1>3 DEF TypeOK, Phases
<1>5. TableOK' /\ DeleteOK'
  BY <1>1, <1>2 DEF TypeOK, TableOK, DeleteOK, Early, s
<1>6. BuildOK' /\ TargetOK'
  BY <1>1, <1>2 DEF TypeOK, BuildOK, TargetOK, Early
<1>7. JoinOK'
  <2> SUFFICES ASSUME NEW d \in Conns, phase'[d] \in Joined
               PROVE  /\ using'[d] \in Conns
                      /\ phase'[using'[d]] \notin Early
                      /\ target[using'[d]] = target[d]
                      /\ target[d] \in Sessions
                      /\ d \in sockets'[using'[d]]
                      /\ client[using'[d]] = "running" \/ torn[target[d]]
                      /\ live'[target[d]] = using'[d] \/ replaced'[target[d]] \/ torn[target[d]]
    BY DEF JoinOK
  <2>1. CASE d = c
    BY <1>1, <1>2, <2>1 DEF TypeOK, Early, s
  <2>2. CASE d # c
    <3>1. phase[d] \in Joined
      BY <1>2, <2>2 DEF TypeOK
    <3>2. using[d] # c
      BY <3>1 DEF JoinOK, Early
    <3>3. live[target[d]] = using[d] \/ replaced[target[d]] \/ torn[target[d]]
      BY <3>1 DEF JoinOK
    <3>4. /\ using'[d] = using[d] /\ using[d] \in Conns /\ target[d] \in Sessions
          /\ sockets'[using[d]] = sockets[using[d]]
          /\ phase'[using[d]] = phase[using[d]]
      BY <1>2, <2>2, <3>1, <3>2 DEF TypeOK, JoinOK
    <3>5. live'[target[d]] = using[d] \/ replaced'[target[d]] \/ torn[target[d]]
      <4>1. CASE target[d] = s
        <5>1. replaced'[s] = (replaced[s] \/ live[s] # None)
          BY <1>1, <1>2 DEF TypeOK
        <5>2. live[s] = using[d] => live[s] # None
          BY <3>4
        <5> QED
          BY <3>3, <4>1, <5>1, <5>2
      <4>2. CASE target[d] # s
        BY <1>2, <3>3, <3>4, <4>2 DEF TypeOK
      <4> QED
        BY <4>1, <4>2
    <3> QED
      BY <3>1, <3>4, <3>5 DEF JoinOK
  <2> QED
    BY <2>1, <2>2
<1>8. TimerOK'
  BY <1>1, <1>2 DEF TypeOK, TimerOK, Early
<1>9. IdleHasTimer'
  <2> SUFFICES ASSUME NEW t \in Sessions, live'[t] # None, sockets'[live'[t]] = {}, mode[live'[t]] # "auto"
               PROVE  \E d \in armed : target[d] = t
    BY <1>2 DEF IdleHasTimer, Idle
  <2>1. c \in sockets'[c]
    BY <1>2 DEF TypeOK
  <2>2. live'[t] # c
    BY <2>1
  <2>3. live'[t] = live[t]
    BY <1>1, <1>2, <2>2 DEF TypeOK
  <2>4. sockets[live[t]] = {}
    BY <1>2, <2>2, <2>3 DEF TypeOK
  <2> QED
    BY <2>3, <2>4 DEF IdleHasTimer, Idle
<1> QED
  BY <1>4, <1>5, <1>6, <1>7, <1>8, <1>9

LEMMA ManagerNext == Manager /\ [Next]_vars => Manager'
<1> SUFFICES ASSUME Manager, [Next]_vars PROVE Manager'
  OBVIOUS
<1> USE ManagerAssumption DEF Manager, rowVars, liveVars, delVars
<1>1. ASSUME NEW c \in Conns, LoadRow(c) PROVE Manager'
  <2>1. TypeOK'
    BY <1>1 DEF TypeOK, LoadRow, Phases, TargetOK
  <2>2. TableOK' /\ DeleteOK'
    BY <1>1 DEF TypeOK, TableOK, DeleteOK, Early, LoadRow
  <2>3. BuildOK' /\ TargetOK'
    BY <1>1 DEF TypeOK, BuildOK, TargetOK, Early, LoadRow
  <2>4. JoinOK'
    BY <1>1 DEF TypeOK, JoinOK, Joined, TableOK, BuildOK, Early, LoadRow
  <2>5. TimerOK' /\ IdleHasTimer'
    BY <1>1 DEF TypeOK, TimerOK, IdleHasTimer, Idle, TableOK, Early, LoadRow
  <2> QED
    BY <2>1, <2>2, <2>3, <2>4, <2>5
<1>2. ASSUME NEW c \in Conns, StartClient(c) PROVE Manager'
  <2>1. TypeOK'
    BY <1>2 DEF TypeOK, StartClient, Phases
  <2>2. TableOK' /\ DeleteOK'
    BY <1>2 DEF TypeOK, TableOK, DeleteOK, Early, StartClient
  <2>3. BuildOK' /\ TargetOK'
    BY <1>2 DEF TypeOK, BuildOK, TargetOK, Early, StartClient
  <2>4. JoinOK'
    BY <1>2 DEF TypeOK, JoinOK, Joined, TableOK, BuildOK, Early, StartClient
  <2>5. TimerOK' /\ IdleHasTimer'
    BY <1>2 DEF TypeOK, TimerOK, IdleHasTimer, Idle, TableOK, Early, StartClient
  <2> QED
    BY <2>1, <2>2, <2>3, <2>4, <2>5
<1>3. ASSUME NEW c \in Conns, CreateSdkSession(c) PROVE Manager'
  <2>1. TypeOK'
    BY <1>3 DEF TypeOK, CreateSdkSession, Phases
  <2>2. TableOK' /\ DeleteOK'
    BY <1>3 DEF TypeOK, TableOK, DeleteOK, Early, CreateSdkSession
  <2>3. BuildOK' /\ TargetOK'
    BY <1>3 DEF TypeOK, BuildOK, TargetOK, Early, CreateSdkSession
  <2>4. JoinOK'
    BY <1>3 DEF TypeOK, JoinOK, Joined, TableOK, BuildOK, Early, CreateSdkSession
  <2>5. TimerOK' /\ IdleHasTimer'
    BY <1>3 DEF TypeOK, TimerOK, IdleHasTimer, Idle, TableOK, Early, CreateSdkSession
  <2> QED
    BY <2>1, <2>2, <2>3, <2>4, <2>5
<1>4. ASSUME NEW c \in Conns, FailAttach(c) PROVE Manager'
  <2>1. TypeOK'
    BY <1>4 DEF TypeOK, FailAttach, Phases
  <2>2. TableOK' /\ DeleteOK'
    BY <1>4 DEF TypeOK, TableOK, DeleteOK, Early, FailAttach
  <2>3. BuildOK' /\ TargetOK'
    BY <1>4 DEF TypeOK, BuildOK, TargetOK, Early, FailAttach
  <2>4. JoinOK'
    BY <1>4 DEF TypeOK, JoinOK, Joined, TableOK, BuildOK, Early, FailAttach
  <2>5. TimerOK' /\ IdleHasTimer'
    BY <1>4 DEF TypeOK, TimerOK, IdleHasTimer, Idle, TableOK, Early, FailAttach
  <2> QED
    BY <2>1, <2>2, <2>3, <2>4, <2>5
<1>5. ASSUME NEW c \in Conns, Serve(c) PROVE Manager'
  <2>1. TypeOK'
    BY <1>5 DEF TypeOK, Serve, Phases
  <2>2. TableOK' /\ DeleteOK'
    BY <1>5 DEF TypeOK, TableOK, DeleteOK, Early, Serve
  <2>3. BuildOK' /\ TargetOK'
    BY <1>5 DEF TypeOK, BuildOK, TargetOK, Early, Serve
  <2>4. JoinOK'
    BY <1>5 DEF TypeOK, JoinOK, Joined, TableOK, BuildOK, Early, Serve
  <2>5. TimerOK' /\ IdleHasTimer'
    BY <1>5 DEF TypeOK, TimerOK, IdleHasTimer, Idle, TableOK, Early, Serve
  <2> QED
    BY <2>1, <2>2, <2>3, <2>4, <2>5
<1>6. ASSUME NEW c \in Conns, CloseEarly(c) PROVE Manager'
  <2>1. TypeOK'
    BY <1>6 DEF TypeOK, CloseEarly, Phases
  <2>2. TableOK' /\ DeleteOK'
    BY <1>6 DEF TypeOK, TableOK, DeleteOK, Early, CloseEarly
  <2>3. BuildOK' /\ TargetOK'
    BY <1>6 DEF TypeOK, BuildOK, TargetOK, Early, CloseEarly
  <2>4. JoinOK'
    BY <1>6 DEF TypeOK, JoinOK, Joined, TableOK, BuildOK, Early, CloseEarly
  <2>5. TimerOK' /\ IdleHasTimer'
    BY <1>6 DEF TypeOK, TimerOK, IdleHasTimer, Idle, TableOK, Early, CloseEarly
  <2> QED
    BY <2>1, <2>2, <2>3, <2>4, <2>5
<1>7. ASSUME NEW s \in Sessions, PatchMode(s) PROVE Manager'
  <2>1. TypeOK'
    BY <1>7 DEF TypeOK, PatchMode, Phases
  <2>2. TableOK' /\ DeleteOK'
    BY <1>7 DEF TypeOK, TableOK, DeleteOK, Early, PatchMode
  <2>3. BuildOK' /\ TargetOK'
    BY <1>7 DEF TypeOK, BuildOK, TargetOK, Early, PatchMode
  <2>4. JoinOK'
    BY <1>7 DEF TypeOK, JoinOK, Joined, TableOK, BuildOK, Early, PatchMode
  <2>5. TimerOK' /\ IdleHasTimer'
    BY <1>7 DEF TypeOK, TimerOK, IdleHasTimer, Idle, TableOK, Early, PatchMode
  <2> QED
    BY <2>1, <2>2, <2>3, <2>4, <2>5
<1>8. ASSUME NEW s \in Sessions, BeginDelete(s) PROVE Manager'
  <2>1. TypeOK'
    BY <1>8 DEF TypeOK, BeginDelete, Phases
  <2>2. TableOK' /\ DeleteOK'
    BY <1>8 DEF TypeOK, TableOK, DeleteOK, Early, BeginDelete
  <2>3. BuildOK' /\ TargetOK'
    BY <1>8 DEF TypeOK, BuildOK, TargetOK, Early, BeginDelete
  <2>4. JoinOK'
    BY <1>8 DEF TypeOK, JoinOK, Joined, TableOK, BuildOK, Early, BeginDelete
  <2>5. TimerOK' /\ IdleHasTimer'
    BY <1>8 DEF TypeOK, TimerOK, IdleHasTimer, Idle, TableOK, Early, BeginDelete
  <2> QED
    BY <2>1, <2>2, <2>3, <2>4, <2>5
<1>9. ASSUME NEW s \in Sessions, RemoveRow(s) PROVE Manager'
  <2>1. TypeOK'
    BY <1>9 DEF TypeOK, RemoveRow, Phases
  <2>2. TableOK' /\ DeleteOK'
    BY <1>9 DEF TypeOK, TableOK, DeleteOK, Early, RemoveRow
  <2>3. BuildOK' /\ TargetOK'
    BY <1>9 DEF TypeOK, BuildOK, TargetOK, Early, RemoveRow
  <2>4. JoinOK'
    BY <1>9 DEF TypeOK, JoinOK, Joined, TableOK, BuildOK, Early, RemoveRow
  <2>5. TimerOK' /\ IdleHasTimer'
    BY <1>9 DEF TypeOK, TimerOK, IdleHasTimer, Idle, TableOK, Early, RemoveRow
  <2> QED
    BY <2>1, <2>2, <2>3, <2>4, <2>5
<1>10. ASSUME NEW c \in Conns, NEW s \in Sessions, AttachToLive(c, s) PROVE Manager'
  <2>1. PICK o \in Conns : o = live[s]
    BY <1>10 DEF TypeOK, AttachToLive
  <2>2. /\ phase[c] = "idle" /\ o # c /\ target[o] = s /\ phase[o] \notin Early
        /\ client[o] = "running" \/ torn[s]
    BY <1>10, <2>1 DEF AttachToLive, TableOK, Early
  <2>3. /\ sockets' = [sockets EXCEPT ![o] = @ \cup {c}]
        /\ armed' = armed \ {handle[o]}
        /\ handle' = [handle EXCEPT ![o] = None]
        /\ using' = [using EXCEPT ![c] = o]
        /\ phase' = [phase EXCEPT ![c] = "reading"]
        /\ up' = [up EXCEPT ![c] = TRUE]
        /\ target' = [target EXCEPT ![c] = s]
        /\ UNCHANGED <<row, rowMode, sdkId, live, born, births, client, mode, resumes, del, delObj,
                       deletes, torn, patches, replaced>>
    BY <1>10, <2>1 DEF AttachToLive, Join
  <2>4. TypeOK'
    BY <2>3 DEF TypeOK, Phases
  <2>5. TableOK' /\ DeleteOK'
    BY <2>2, <2>3 DEF TypeOK, TableOK, DeleteOK, Early
  <2>6. BuildOK' /\ TargetOK'
    BY <2>2, <2>3 DEF TypeOK, BuildOK, TargetOK, Early
  <2>7. JoinOK'
    BY <2>1, <2>2, <2>3 DEF TypeOK, JoinOK, Joined, Early
  <2>8. TimerOK'
    BY <2>2, <2>3 DEF TypeOK, TimerOK, Early
  <2>9. IdleHasTimer'
    <3> SUFFICES ASSUME NEW t \in Sessions, live[t] # None, sockets'[live[t]] = {}, mode[live[t]] # "auto"
                 PROVE  \E d \in armed' : target'[d] = t
      BY <2>3 DEF IdleHasTimer, Idle
    <3>1. live[t] # o
      <4>1. c \in sockets'[o]
        BY <2>3 DEF TypeOK
      <4> QED
        BY <4>1
    <3>2. t # s
      BY <2>1, <3>1
    <3>3. PICK d \in armed : target[d] = t
      BY <2>3, <3>1 DEF TypeOK, IdleHasTimer, Idle
    <3>4. d # handle[o] /\ d # c
      BY <2>2, <3>2, <3>3 DEF TypeOK, TimerOK
    <3> QED
      BY <2>3, <3>3, <3>4 DEF TypeOK
  <2> QED
    BY <2>4, <2>5, <2>6, <2>7, <2>8, <2>9
<1>11. ASSUME NEW c \in Conns, NEW s \in Sessions, AttachToCold(c, s) PROVE Manager'
  <2>1. /\ phase[c] = "idle"
        /\ phase' = [phase EXCEPT ![c] = "loading"]
        /\ up' = [up EXCEPT ![c] = TRUE]
        /\ target' = [target EXCEPT ![c] = s]
        /\ UNCHANGED <<row, rowMode, sdkId, mode, resumes, sockets, handle, armed, using, del, delObj,
                       deletes, torn, patches, replaced>>
    BY <1>11 DEF AttachToCold
  <2>2. \A t \in Sessions : live[t] # c
    BY <2>1 DEF TableOK, Early
  <2>3. CASE UNCHANGED liveVars
    <3>1. TypeOK'
      BY <2>1, <2>3 DEF TypeOK, Phases
    <3>2. TableOK' /\ DeleteOK'
      BY <2>1, <2>3 DEF TypeOK, TableOK, DeleteOK, Early
    <3>3. BuildOK' /\ TargetOK'
      BY <2>1, <2>3 DEF TypeOK, BuildOK, TargetOK, Early
    <3>4. JoinOK'
      BY <2>1, <2>3 DEF TypeOK, JoinOK, Joined, Early
    <3>5. TimerOK' /\ IdleHasTimer'
      BY <2>1, <2>2, <2>3 DEF TypeOK, TimerOK, IdleHasTimer, Idle, Early
    <3> QED
      BY <3>1, <3>2, <3>3, <3>4, <3>5
  <2>4. CASE ~ UNCHANGED liveVars
    <3>1. PICK v \in Sessions : live[v] # None /\ sockets[live[v]] = {} /\ Remove(v)
      BY <1>11, <2>4 DEF AttachToCold, evictLeastRecentlyUsedIdle, Idle, Live
    <3>2. UNCHANGED <<mode, sockets, handle, using, del, delObj, torn, replaced>>
      BY <2>1
    <3>3. live[v] \in Conns /\ target[live[v]] = v /\ phase[live[v]] \notin Early
      BY <3>1 DEF TypeOK, TableOK
    <3> HIDE DEF Manager
    <3>4. /\ live' \in [Sessions -> Conns \cup {None}]
          /\ born' \in [Sessions -> Nat]
          /\ births' \in Nat
          /\ client' \in [Conns -> {"none", "running", "stopped"}]
          /\ \A d \in Conns : d # live[v] => client'[d] = client[d]
          /\ \A t \in Sessions : live'[t] # None => live'[t] = live[t] /\ live[t] # live[v]
          /\ \A t \in Sessions \ {v} : live'[t] = live[t]
          /\ \A d \in Conns : phase[d] \in Joined =>
                /\ using[d] # live[v]
                /\ target[d] = v => replaced[v] \/ torn[v]
      BY <3>1, <3>2, RemoveIdle
    <3> USE DEF Manager
    <3>5. TypeOK'
      BY <2>1, <3>4 DEF TypeOK, Phases
    <3>6. TableOK' /\ DeleteOK'
      BY <2>1, <3>4 DEF TypeOK, TableOK, DeleteOK, Early
    <3>7. BuildOK' /\ TargetOK'
      BY <2>1, <3>3, <3>4 DEF TypeOK, BuildOK, TargetOK, Early
    <3>8. JoinOK'
      BY <2>1, <3>4 DEF TypeOK, JoinOK, Joined, Early
    <3>9. TimerOK'
      BY <2>1 DEF TypeOK, TimerOK, Early
    <3>10. IdleHasTimer'
      BY <2>1, <3>4 DEF TypeOK, TimerOK, IdleHasTimer, Idle
    <3> QED
      BY <3>5, <3>6, <3>7, <3>8, <3>9, <3>10
  <2> QED
    BY <2>3, <2>4
<1>12. ASSUME NEW c \in Conns, ResumeSdkSession(c) PROVE Manager'
  <2> HIDE DEF Manager
  <2>1. sdkId' \in [Sessions -> Conns \cup {None}]
    BY <1>12 DEF ResumeSdkSession, Manager, TypeOK
  <2> QED
    BY <1>12, <2>1, GoLiveKeeps DEF ResumeSdkSession
<1>13. ASSUME NEW c \in Conns, SaveSdkSession(c) PROVE Manager'
  <2> HIDE DEF Manager
  <2>1. sdkId' \in [Sessions -> Conns \cup {None}]
    BY <1>13 DEF SaveSdkSession, Manager, TypeOK
  <2> QED
    BY <1>13, <2>1, GoLiveKeeps DEF SaveSdkSession
<1>14. ASSUME NEW c \in Conns, Close(c) PROVE Manager'
  <2>1. target[c] \in Sessions /\ phase[c] = "served"
    BY <1>14 DEF Close, TargetOK
  <2>2. /\ phase' = [phase EXCEPT ![c] = "done"]
        /\ up' = [up EXCEPT ![c] = FALSE]
        /\ UNCHANGED <<row, rowMode, sdkId, live, born, births, client, mode, resumes, target, using,
                       del, delObj, deletes, torn, patches, replaced>>
    BY <1>14 DEF Close
  <2>3. CASE live[target[c]] = None
    <3>1. UNCHANGED <<sockets, armed, handle>>
      BY <1>14, <2>3 DEF Close
    <3>2. TypeOK'
      BY <2>2, <3>1 DEF TypeOK, Phases
    <3>3. TableOK' /\ DeleteOK' /\ BuildOK' /\ TargetOK'
      BY <2>1, <2>2, <3>1 DEF TypeOK, TableOK, DeleteOK, BuildOK, TargetOK, Early
    <3>4. JoinOK'
      BY <2>2, <3>1 DEF TypeOK, JoinOK, Joined, Early
    <3>5. TimerOK' /\ IdleHasTimer'
      BY <2>1, <2>2, <3>1 DEF TypeOK, TimerOK, IdleHasTimer, Idle, Early
    <3> QED
      BY <3>2, <3>3, <3>4, <3>5
  <2>4. CASE live[target[c]] # None
    <3>1. PICK o \in Conns : o = live[target[c]]
      BY <2>1, <2>4 DEF TypeOK
    <3>2. target[o] = target[c] /\ phase[o] \notin Early
      BY <2>1, <2>4, <3>1 DEF TableOK
    <3>3. /\ sockets' = [sockets EXCEPT ![o] = @ \ {c}]
          /\ IF sockets[o] \ {c} = {} /\ mode[o] # "auto"
               THEN armed' = armed \cup {c} /\ handle' = [handle EXCEPT ![o] = c]
               ELSE UNCHANGED <<armed, handle>>
      BY <1>14, <2>4, <3>1 DEF Close, detach
    <3>4. TypeOK'
      BY <2>2, <3>3 DEF TypeOK, Phases
    <3>5. TableOK' /\ DeleteOK' /\ TargetOK'
      BY <2>1, <2>2 DEF TypeOK, TableOK, DeleteOK, TargetOK, Early
    <3>6. BuildOK'
      BY <2>1, <2>2, <3>2, <3>3 DEF TypeOK, BuildOK, Early
    <3>7. JoinOK'
      BY <2>2, <3>3 DEF TypeOK, JoinOK, Joined, Early
    <3>8. TimerOK'
      BY <2>1, <2>2, <3>2, <3>3 DEF TypeOK, TimerOK, Early
    <3>9. IdleHasTimer'
      <4> SUFFICES ASSUME NEW t \in Sessions, live[t] # None, sockets'[live[t]] = {}, mode[live[t]] # "auto"
                   PROVE  \E d \in armed' : target[d] = t
        BY <2>2 DEF IdleHasTimer, Idle
      <4>1. CASE t = target[c]
        <5>1. sockets[o] \ {c} = {}
          BY <3>1, <3>3, <4>1 DEF TypeOK
        <5> QED
          BY <3>1, <3>3, <4>1, <5>1
      <4>2. CASE t # target[c]
        <5>1. live[t] # o
          BY <3>2, <4>2 DEF TableOK
        <5>2. sockets[live[t]] = {}
          BY <3>3, <5>1 DEF TypeOK
        <5>3. PICK d \in armed : target[d] = t
          BY <5>2 DEF IdleHasTimer, Idle
        <5> QED
          BY <3>3, <5>3
      <4> QED
        BY <4>1, <4>2
    <3> QED
      BY <3>4, <3>5, <3>6, <3>7, <3>8, <3>9
  <2> QED
    BY <2>3, <2>4
<1>15. ASSUME NEW c \in Conns, FireTimer(c) PROVE Manager'
  <2>1. /\ c \in armed /\ target[c] \in Sessions
        /\ armed' = armed \ {c}
        /\ UNCHANGED <<row, rowMode, sdkId, mode, resumes, sockets, handle, phase, up, target, using,
                       del, delObj, deletes, torn, patches, replaced>>
    BY <1>15 DEF FireTimer, TimerOK
  <2>2. CASE live[target[c]] = None \/ sockets[live[target[c]]] # {}
    <3>1. UNCHANGED liveVars
      BY <1>15, <2>2 DEF FireTimer, evict
    <3>2. TypeOK'
      BY <2>1, <3>1 DEF TypeOK
    <3>3. TableOK' /\ DeleteOK' /\ BuildOK' /\ TargetOK' /\ JoinOK'
      BY <2>1, <3>1 DEF TableOK, DeleteOK, BuildOK, TargetOK, JoinOK
    <3>4. TimerOK' /\ IdleHasTimer'
      BY <2>1, <2>2, <3>1 DEF TimerOK, IdleHasTimer, Idle
    <3> QED
      BY <3>2, <3>3, <3>4
  <2>3. CASE live[target[c]] # None /\ sockets[live[target[c]]] = {}
    <3>1. PICK v \in Sessions : v = target[c]
      BY <2>1
    <3>2. Remove(v) /\ live[v] # None /\ sockets[live[v]] = {}
      BY <1>15, <2>3, <3>1 DEF FireTimer, evict
    <3>3. live[v] \in Conns /\ phase[live[v]] \notin Early
      BY <3>2 DEF TypeOK, TableOK
    <3> HIDE DEF Manager
    <3>4. /\ live' \in [Sessions -> Conns \cup {None}]
          /\ born' \in [Sessions -> Nat]
          /\ births' \in Nat
          /\ client' \in [Conns -> {"none", "running", "stopped"}]
          /\ \A d \in Conns : d # live[v] => client'[d] = client[d]
          /\ \A t \in Sessions : live'[t] # None => live'[t] = live[t] /\ live[t] # live[v]
          /\ \A t \in Sessions \ {v} : live'[t] = live[t]
          /\ \A d \in Conns : phase[d] \in Joined =>
                /\ using[d] # live[v]
                /\ target[d] = v => replaced[v] \/ torn[v]
      BY <2>1, <3>2, RemoveIdle
    <3> USE DEF Manager
    <3>5. TypeOK'
      BY <2>1, <3>4 DEF TypeOK
    <3>6. TableOK' /\ DeleteOK'
      BY <2>1, <3>4 DEF TypeOK, TableOK, DeleteOK
    <3>7. BuildOK' /\ TargetOK'
      BY <2>1, <3>3, <3>4 DEF TypeOK, BuildOK, TargetOK
    <3>8. JoinOK'
      BY <2>1, <3>4 DEF TypeOK, JoinOK
    <3>9. TimerOK'
      BY <2>1 DEF TimerOK
    <3>10. IdleHasTimer'
      <4> SUFFICES ASSUME NEW t \in Sessions, live'[t] # None, sockets[live'[t]] = {}, mode[live'[t]] # "auto"
                   PROVE  \E d \in armed' : target[d] = t
        BY <2>1 DEF IdleHasTimer, Idle
      <4>1. live'[t] = live[t] /\ t # v
        BY <3>4
      <4>2. PICK d \in armed : target[d] = t
        BY <4>1 DEF IdleHasTimer, Idle
      <4> QED
        BY <2>1, <3>1, <4>1, <4>2
    <3> QED
      BY <3>5, <3>6, <3>7, <3>8, <3>9, <3>10
  <2> QED
    BY <2>2, <2>3
<1>16. ASSUME NEW s \in Sessions, StopDeleted(s) PROVE Manager'
  <2>1. delObj[s] \in Conns /\ target[delObj[s]] = s /\ phase[delObj[s]] \notin Early
    BY <1>16 DEF StopDeleted, DeleteOK, TypeOK
  <2>2. TypeOK'
    BY <1>16, <2>1 DEF StopDeleted, TypeOK
  <2>3. TableOK' /\ DeleteOK'
    BY <1>16, <2>1 DEF StopDeleted, TypeOK, TableOK, DeleteOK
  <2>4. BuildOK' /\ TargetOK'
    BY <1>16, <2>1 DEF StopDeleted, TypeOK, BuildOK, TargetOK
  <2>5. JoinOK'
    BY <1>16, <2>1 DEF StopDeleted, TypeOK, JoinOK
  <2>6. TimerOK' /\ IdleHasTimer'
    BY <1>16 DEF StopDeleted, TypeOK, TimerOK, IdleHasTimer, Idle
  <2> QED
    BY <2>2, <2>3, <2>4, <2>5, <2>6
<1>17. CASE UNCHANGED vars
  BY <1>17 DEF vars, TypeOK, TableOK, BuildOK, JoinOK, TargetOK, TimerOK, DeleteOK, IdleHasTimer, Idle
<1> HIDE DEF Manager
<1> QED
  BY <1>1, <1>2, <1>3, <1>4, <1>5, <1>6, <1>7, <1>8, <1>9, <1>10, <1>11, <1>12, <1>13, <1>14, <1>15,
     <1>16, <1>17 DEF Next, AttachSteps

LEMMA ManagerHolds == Spec => []Manager
  BY ManagerInit, ManagerNext, PTL DEF Spec

(* Every reachable state of the table is well typed (SessionManager).      *)
THEOREM ManagerTypeCorrect == Spec => []TypeOK
<1>1. Manager => TypeOK
  BY DEF Manager
<1> QED
  BY <1>1, ManagerHolds, PTL

(* Neither an idle timer, however stale, nor the cap takes the runtime     *)
(* from under an open connection (evict, evictLeastRecentlyUsedIdle), with *)
(* any number of sessions and connections and any cap.                     *)
THEOREM RuntimeStays == Spec => []AttachedHasRuntime
<1>1. Manager => AttachedHasRuntime
  BY DEF Manager, JoinOK, Joined, AttachedHasRuntime, Attached
<1> QED
  BY <1>1, ManagerHolds, PTL

(* Two attaches racing in ensureLive, and deletion, are the only ways in   *)
(* which an open connection can miss the fan-out.                          *)
THEOREM FanOutLosesOnlyByRace == Spec => []FanOutReachesUnlessRaced
<1>1. Manager => FanOutReachesUnlessRaced
  <2> SUFFICES ASSUME Manager, NEW c \in Conns, Attached(c)
               PROVE  \/ live[target[c]] # None /\ c \in sockets[live[target[c]]]
                      \/ replaced[target[c]]
                      \/ torn[target[c]]
    BY DEF FanOutReachesUnlessRaced
  <2>1. /\ using[c] \in Conns /\ c \in sockets[using[c]]
        /\ live[target[c]] = using[c] \/ replaced[target[c]] \/ torn[target[c]]
    BY DEF Manager, JoinOK, Joined, Attached
  <2> QED
    BY <2>1, ManagerAssumption
<1> QED
  BY <1>1, ManagerHolds, PTL

(* A live session nobody is attached to, and not in auto mode, always has  *)
(* an idle timer running (detach, and the clearTimeout in attach).         *)
THEOREM IdleTimerRuns == Spec => []IdleHasTimer
<1>1. Manager => IdleHasTimer
  BY DEF Manager
<1> QED
  BY <1>1, ManagerHolds, PTL
=============================================================================
