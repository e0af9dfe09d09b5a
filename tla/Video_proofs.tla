---------------------------- MODULE Video_proofs ----------------------------
(***************************************************************************)
(* Proofs about the video service: first the relays (Relay), for every     *)
(* number of clients, sessions, keys, slots, restarts and backends; then   *)
(* the parts next to them, for any URLs, redirects and answers of DNS, any *)
(* playlist with an ad break in it, any number of starts and viewers, and  *)
(* any lists of backends and renditions.                                   *)
(*                                                                         *)
(* Of the relays, Shapes and Registered are the inductive strengthening:   *)
(* which sessions a handler, the reaper, a supervisor or the registry may  *)
(* hold, and that a session being killed or released is no longer          *)
(* registered.                                                             *)
(***************************************************************************)
EXTENDS Relay, VideoParts, FiniteSetTheorems, SequenceTheorems, TLAPS

Teardown == {"mark", "remove", "kill", "release"}

\* What a handler's program counter says of the request and the session it holds.
ClientShape(c) ==
  /\ at[c] # "idle" => want[c] \in Requests
  /\ at[c] \in Teardown => /\ ref[c] \in Sessions
                           /\ phase[ref[c]] = "up"
                           /\ desc[ref[c]].key = want[c].key
  /\ at[c] = "attach" => ref[c] \in Sessions /\ phase[ref[c]] = "up"

\* What a session's phase says of its flags and of its supervisor.
SessionShape(s) ==
  /\ phase[s] # "free" => desc[s] \in Requests
  /\ phase[s] # "up" => /\ ~released[s]
                        /\ sup[s] = "none"
                        /\ s \notin reaping
  /\ sup[s] # "none" => phase[s] = "up"

Shapes ==
  /\ \A c \in Clients : ClientShape(c)
  /\ \A s \in Sessions : SessionShape(s)
  /\ victim # None => victim \in reaping

\* What a registered session looks like: nobody kills or releases it yet.
EntryShape(k) == reg[k] # None =>
  /\ phase[reg[k]] = "up"
  /\ desc[reg[k]].key = k
  /\ ~released[reg[k]]
  /\ reg[k] \notin reaping
  /\ sup[reg[k]] \notin {"kill", "release"}
  /\ \A c \in Clients : at[c] \in {"kill", "release"} => ref[c] # reg[k]

Registered == \A k \in Keys : EntryShape(k)

IInv == TypeOK /\ Shapes /\ Registered /\ SlotAccounting

-----------------------------------------------------------------------------
(* Type correctness.                                                       *)

LEMMA TypeInit == Init => TypeOK
  BY RelayAssumption DEF Init, TypeOK, ClientPc, Phases, SupPc

LEMMA ReleaseType ==
  ASSUME TypeOK, NEW s, Release(s)
  PROVE  released' \in [Sessions -> BOOLEAN] /\ slots' \in 0 .. RelayCap
<1>1. CASE UNCHANGED <<released, slots>>
  BY <1>1 DEF TypeOK
<1>2. CASE /\ slots > 0
           /\ released' = [released EXCEPT ![s] = TRUE]
           /\ slots' = slots - 1
  <2>1. slots' \in 0 .. RelayCap
    BY <1>2, RelayAssumption DEF TypeOK
  <2>2. released' \in [Sessions -> BOOLEAN]
    BY <1>2 DEF TypeOK
  <2>3. QED
    BY <2>1, <2>2
<1>3. QED
  BY <1>1, <1>2 DEF Release

LEMMA TypeStep == TypeOK /\ [Next]_vars => TypeOK'
<1> SUFFICES ASSUME TypeOK, [Next]_vars PROVE TypeOK'
  OBVIOUS
<1> USE RelayAssumption DEF ClientPc, Phases, SupPc
<1>1. ASSUME NEW c \in Clients, NEW r \in Requests, StartMiss(c, r) PROVE TypeOK'
  BY <1>1 DEF TypeOK, StartMiss, Arrive, Goto, sessionVars, procVars, sharedVars,
       reaperVars, clientVars
<1>2. ASSUME NEW c \in Clients, NEW r \in Requests, StartHit(c, r) PROVE TypeOK'
  BY <1>2 DEF TypeOK, Requests, StartHit, Arrive, Goto, sessionVars, procVars,
       sharedVars, reaperVars, clientVars
<1>3. ASSUME NEW c \in Clients, NEW r \in Requests, StartChange(c, r) PROVE TypeOK'
  BY <1>3 DEF TypeOK, Requests, StartChange, Arrive, Goto, sessionVars, procVars,
       sharedVars, reaperVars, clientVars
<1>4. ASSUME NEW c \in Clients, ChangeMark(c) PROVE TypeOK'
  BY <1>4 DEF TypeOK, ChangeMark, MarkStopped, Goto, sessionVars, procVars, sharedVars,
       reaperVars, clientVars
<1>5. ASSUME NEW c \in Clients, ChangeRemove(c) PROVE TypeOK'
  BY <1>5 DEF TypeOK, ChangeRemove, Deregister, Goto, sessionVars, procVars, sharedVars,
       reaperVars, clientVars
<1>6. ASSUME NEW c \in Clients, ChangeKill(c) PROVE TypeOK'
  BY <1>6 DEF TypeOK, ChangeKill, KillStream, Goto, sessionVars, procVars, sharedVars,
       reaperVars, clientVars
<1>7. ASSUME NEW c \in Clients, ChangeRelease(c) PROVE TypeOK'
  BY <1>7, ReleaseType DEF TypeOK, ChangeRelease, Goto, sessionVars, procVars,
       sharedVars, reaperVars, clientVars
<1>8. ASSUME NEW c \in Clients, Attach(c) PROVE TypeOK'
  BY <1>8 DEF TypeOK, Attach, Touch, Goto, sessionVars, procVars, sharedVars, reaperVars,
       clientVars
<1>9. ASSUME NEW c \in Clients, NEW s \in Sessions, Join(c, s) PROVE TypeOK'
  BY <1>9 DEF TypeOK, Join, Goto, sessionVars, procVars, sharedVars, reaperVars,
       clientVars
<1>10. ASSUME NEW c \in Clients, NEW s \in Sessions, Lead(c, s) PROVE TypeOK'
  BY <1>10 DEF TypeOK, Lead, Goto, sessionVars, procVars, sharedVars, reaperVars,
       clientVars
<1>11. ASSUME NEW s \in Sessions, Acquire(s) PROVE TypeOK'
  BY <1>11 DEF TypeOK, Acquire, sessionVars, procVars, sharedVars, reaperVars, clientVars
<1>12. ASSUME NEW s \in Sessions, Busy(s) PROVE TypeOK'
  BY <1>12 DEF TypeOK, Busy, FlightFails, sessionVars, procVars, sharedVars, reaperVars,
       clientVars
<1>13. ASSUME NEW s \in Sessions, FetchOk(s) PROVE TypeOK'
  BY <1>13 DEF TypeOK, FetchOk, sessionVars, procVars, sharedVars, reaperVars, clientVars
<1>14. ASSUME NEW s \in Sessions, FetchFails(s) PROVE TypeOK'
  BY <1>14 DEF TypeOK, FetchFails, CreateFails, FlightFails, sessionVars, procVars,
       sharedVars, reaperVars, clientVars
<1>15. ASSUME NEW s \in Sessions, Spawn(s) PROVE TypeOK'
  BY <1>15 DEF TypeOK, Spawn, sessionVars, procVars, sharedVars, reaperVars, clientVars
<1>16. ASSUME NEW s \in Sessions, BackendFails(s) PROVE TypeOK'
  BY <1>16 DEF TypeOK, BackendFails, CreateFails, FlightFails, sessionVars, procVars,
       sharedVars, reaperVars, clientVars
<1>17. ASSUME NEW s \in Sessions, Commit(s) PROVE TypeOK'
  <2>1. /\ proc' \in [Sessions -> {"none", "live", "dead"}]
        /\ cand' \in [Sessions -> {"none", "live", "dead"}]
    BY <1>17 DEF TypeOK, Commit
  <2>2. reg' \in [Keys -> Sessions \cup {None}]
    BY <1>17 DEF TypeOK, Commit
  <2>3. at' \in [Clients -> ClientPc]
    BY <1>17 DEF TypeOK, Commit
  <2>4. phase' \in [Sessions -> Phases] /\ sup' \in [Sessions -> SupPc]
    BY <1>17 DEF TypeOK, Commit
  <2>5. tries' \in [Sessions -> 0 .. Backends] /\ idle' \in [Sessions -> BOOLEAN]
    BY <1>17 DEF TypeOK, Commit, Touch
  <2>6. QED
    BY <1>17, <2>1, <2>2, <2>3, <2>4, <2>5 DEF TypeOK, Commit, sessionVars, procVars,
         sharedVars, reaperVars, clientVars
<1>18. ASSUME NEW s \in Sessions, SeeStopped(s) PROVE TypeOK'
  BY <1>18 DEF TypeOK, SeeStopped, Supervisor, sessionVars, procVars, sharedVars,
       reaperVars, clientVars
<1>19. ASSUME NEW s \in Sessions, Restart(s) PROVE TypeOK'
  BY <1>19 DEF TypeOK, Restart, Supervisor, sessionVars, procVars, sharedVars,
       reaperVars, clientVars
<1>20. ASSUME NEW s \in Sessions, GiveUp(s) PROVE TypeOK'
  BY <1>20 DEF TypeOK, GiveUp, Supervisor, sessionVars, procVars, sharedVars, reaperVars,
       clientVars
<1>21. ASSUME NEW s \in Sessions, Respawn(s) PROVE TypeOK'
  BY <1>21 DEF TypeOK, Respawn, Supervisor, sessionVars, procVars, sharedVars,
       reaperVars, clientVars
<1>22. ASSUME NEW s \in Sessions, RestartFails(s) PROVE TypeOK'
  BY <1>22 DEF TypeOK, RestartFails, sessionVars, procVars, sharedVars, reaperVars,
       clientVars
<1>23. ASSUME NEW s \in Sessions, Recover(s) PROVE TypeOK'
  BY <1>23 DEF TypeOK, Recover, Supervisor, sessionVars, procVars, sharedVars,
       reaperVars, clientVars
<1>24. ASSUME NEW s \in Sessions, SupMark(s) PROVE TypeOK'
  BY <1>24 DEF TypeOK, SupMark, Supervisor, MarkStopped, sessionVars, procVars,
       sharedVars, reaperVars, clientVars
<1>25. ASSUME NEW s \in Sessions, SupRemove(s) PROVE TypeOK'
  BY <1>25 DEF TypeOK, SupRemove, Supervisor, Deregister, sessionVars, procVars,
       sharedVars, reaperVars, clientVars
<1>26. ASSUME NEW s \in Sessions, SupKill(s) PROVE TypeOK'
  BY <1>26 DEF TypeOK, SupKill, Supervisor, KillStream, sessionVars, procVars,
       sharedVars, reaperVars, clientVars
<1>27. ASSUME NEW s \in Sessions, SupRelease(s) PROVE TypeOK'
  BY <1>27, ReleaseType DEF TypeOK, SupRelease, Supervisor, sessionVars, procVars,
       sharedVars, reaperVars, clientVars
<1>28. ASSUME Reap PROVE TypeOK'
  <2>1. reg' \in [Keys -> Sessions \cup {None}] /\ stopped' \in [Sessions -> BOOLEAN]
    BY <1>28 DEF TypeOK, Reap
  <2>2. reaping' \in SUBSET Sessions
    BY <1>28 DEF TypeOK, Reap, IdleSessions
  <2>3. QED
    BY <1>28, <2>1, <2>2 DEF TypeOK, Reap, sessionVars, procVars, sharedVars, reaperVars,
         clientVars
<1>29. ASSUME NEW s \in Sessions, ReapKill(s) PROVE TypeOK'
  BY <1>29 DEF TypeOK, ReapKill, KillStream, sessionVars, procVars, sharedVars,
       reaperVars, clientVars
<1>30. ASSUME NEW s \in Sessions, ReapRelease(s) PROVE TypeOK'
  BY <1>30, ReleaseType DEF TypeOK, ReapRelease, sessionVars, procVars, sharedVars,
       reaperVars, clientVars
<1>31. ASSUME NEW s \in Sessions, Age(s) PROVE TypeOK'
  BY <1>31 DEF TypeOK, Age, sessionVars, procVars, sharedVars, reaperVars, clientVars
<1>32. ASSUME NEW s \in Sessions, Exit(s) PROVE TypeOK'
  BY <1>32 DEF TypeOK, Exit, sessionVars, procVars, sharedVars, reaperVars, clientVars
<1>33. ASSUME NEW k \in Keys, Keepalive(k) PROVE TypeOK'
  BY <1>33 DEF TypeOK, Keepalive, Touch, sessionVars, procVars, sharedVars, reaperVars,
       clientVars
<1>34. CASE UNCHANGED vars
  BY <1>34 DEF TypeOK, vars, sessionVars, procVars, sharedVars, reaperVars, clientVars
<1>35. QED
  BY <1>1, <1>2, <1>3, <1>4, <1>5, <1>6, <1>7, <1>8, <1>9, <1>10, <1>11, <1>12, <1>13,
       <1>14, <1>15, <1>16, <1>17, <1>18, <1>19, <1>20, <1>21, <1>22, <1>23, <1>24,
       <1>25, <1>26, <1>27, <1>28, <1>29, <1>30, <1>31, <1>32, <1>33, <1>34
  DEF Next, Arrivals, Handler, Create, Supervise, Reaper

\* Every variable keeps its type: in particular no goroutine finds the semaphore
\* over its capacity and no supervisor exceeds its restarts.
THEOREM TypeCorrect == Spec => []TypeOK
  BY TypeInit, TypeStep, PTL DEF Spec

-----------------------------------------------------------------------------
(* Who may hold which session.                                             *)

LEMMA ShapesStep == TypeOK /\ Shapes /\ Registered /\ [Next]_vars => Shapes'
<1> SUFFICES ASSUME TypeOK, Shapes, Registered, [Next]_vars PROVE Shapes'
  OBVIOUS
<1> USE RelayAssumption DEF ClientPc, Phases, SupPc, Teardown
<1>1. ASSUME NEW c \in Clients, NEW r \in Requests, StartMiss(c, r) PROVE Shapes'
  BY <1>1 DEF TypeOK, Shapes, ClientShape, SessionShape, Registered, EntryShape,
       StartMiss, Arrive, Goto, sessionVars, procVars, sharedVars, reaperVars, clientVars
<1>2. ASSUME NEW c \in Clients, NEW r \in Requests, StartHit(c, r) PROVE Shapes'
  <2>1. r.key \in Keys
    BY DEF Requests
  <2>2. QED
    BY <1>2, <2>1 DEF TypeOK, Shapes, ClientShape, SessionShape, Registered, EntryShape,
         StartHit, Arrive, Goto, sessionVars, procVars, sharedVars, reaperVars, clientVars
<1>3. ASSUME NEW c \in Clients, NEW r \in Requests, StartChange(c, r) PROVE Shapes'
  <2>1. r.key \in Keys
    BY DEF Requests
  <2>2. QED
    BY <1>3, <2>1 DEF TypeOK, Shapes, ClientShape, SessionShape, Registered, EntryShape,
         StartChange, Arrive, Goto, sessionVars, procVars, sharedVars, reaperVars,
         clientVars
<1>4. ASSUME NEW c \in Clients, ChangeMark(c) PROVE Shapes'
  BY <1>4 DEF TypeOK, Shapes, ClientShape, SessionShape, Registered, EntryShape,
       ChangeMark, MarkStopped, Goto, sessionVars, procVars, sharedVars, reaperVars,
       clientVars
<1>5. ASSUME NEW c \in Clients, ChangeRemove(c) PROVE Shapes'
  BY <1>5 DEF TypeOK, Shapes, ClientShape, SessionShape, Registered, EntryShape,
       ChangeRemove, Deregister, Goto, sessionVars, procVars, sharedVars, reaperVars,
       clientVars
<1>6. ASSUME NEW c \in Clients, ChangeKill(c) PROVE Shapes'
  BY <1>6 DEF TypeOK, Shapes, ClientShape, SessionShape, Registered, EntryShape,
       ChangeKill, KillStream, Goto, sessionVars, procVars, sharedVars, reaperVars,
       clientVars
<1>7. ASSUME NEW c \in Clients, ChangeRelease(c) PROVE Shapes'
  BY <1>7 DEF TypeOK, Shapes, ClientShape, SessionShape, Registered, EntryShape,
       ChangeRelease, Release, Goto, sessionVars, procVars, sharedVars, reaperVars,
       clientVars
<1>8. ASSUME NEW c \in Clients, Attach(c) PROVE Shapes'
  BY <1>8 DEF TypeOK, Shapes, ClientShape, SessionShape, Registered, EntryShape, Attach,
       Touch, Goto, sessionVars, procVars, sharedVars, reaperVars, clientVars
<1>9. ASSUME NEW c \in Clients, NEW s \in Sessions, Join(c, s) PROVE Shapes'
  BY <1>9 DEF TypeOK, Shapes, ClientShape, SessionShape, Registered, EntryShape, Join,
       Goto, sessionVars, procVars, sharedVars, reaperVars, clientVars
<1>10. ASSUME NEW c \in Clients, NEW s \in Sessions, Lead(c, s) PROVE Shapes'
  BY <1>10 DEF TypeOK, Shapes, ClientShape, SessionShape, Registered, EntryShape, Lead,
       Goto, sessionVars, procVars, sharedVars, reaperVars, clientVars
<1>11. ASSUME NEW s \in Sessions, Acquire(s) PROVE Shapes'
  BY <1>11 DEF TypeOK, Shapes, ClientShape, SessionShape, Registered, EntryShape,
       Acquire, sessionVars, procVars, sharedVars, reaperVars, clientVars
<1>12. ASSUME NEW s \in Sessions, Busy(s) PROVE Shapes'
  BY <1>12 DEF TypeOK, Shapes, ClientShape, SessionShape, Registered, EntryShape, Busy,
       FlightFails, sessionVars, procVars, sharedVars, reaperVars, clientVars
<1>13. ASSUME NEW s \in Sessions, FetchOk(s) PROVE Shapes'
  BY <1>13 DEF TypeOK, Shapes, ClientShape, SessionShape, Registered, EntryShape,
       FetchOk, sessionVars, procVars, sharedVars, reaperVars, clientVars
<1>14. ASSUME NEW s \in Sessions, FetchFails(s) PROVE Shapes'
  BY <1>14 DEF TypeOK, Shapes, ClientShape, SessionShape, Registered, EntryShape,
       FetchFails, CreateFails, FlightFails, sessionVars, procVars, sharedVars,
       reaperVars, clientVars
<1>15. ASSUME NEW s \in Sessions, Spawn(s) PROVE Shapes'
  BY <1>15 DEF TypeOK, Shapes, ClientShape, SessionShape, Registered, EntryShape, Spawn,
       sessionVars, procVars, sharedVars, reaperVars, clientVars
<1>16. ASSUME NEW s \in Sessions, BackendFails(s) PROVE Shapes'
  BY <1>16 DEF TypeOK, Shapes, ClientShape, SessionShape, Registered, EntryShape,
       BackendFails, CreateFails, FlightFails, sessionVars, procVars, sharedVars,
       reaperVars, clientVars
<1>17. ASSUME NEW s \in Sessions, Commit(s) PROVE Shapes'
  <2>1. ASSUME NEW c \in Clients PROVE ClientShape(c)'
    <3>1. CASE c \in Waiters(s)
      BY <1>17, <3>1 DEF Waiters, TypeOK, Shapes, ClientShape, SessionShape, Registered,
           EntryShape, Commit, sessionVars, procVars, sharedVars, reaperVars, clientVars
    <3>2. CASE c \notin Waiters(s)
      BY <1>17, <3>2 DEF TypeOK, Shapes, ClientShape, SessionShape, Registered,
           EntryShape, Commit, sessionVars, procVars, sharedVars, reaperVars, clientVars
    <3>3. QED
      BY <3>1, <3>2
  <2>2. ASSUME NEW t \in Sessions PROVE SessionShape(t)'
    BY <1>17, <2>2 DEF TypeOK, Shapes, ClientShape, SessionShape, Registered, EntryShape,
         Commit, sessionVars, procVars, sharedVars, reaperVars, clientVars
  <2>3. QED
    BY <1>17, <2>1, <2>2 DEF TypeOK, Shapes, ClientShape, SessionShape, Registered,
         EntryShape, Commit, sessionVars, procVars, sharedVars, reaperVars, clientVars
<1>18. ASSUME NEW s \in Sessions, SeeStopped(s) PROVE Shapes'
  BY <1>18 DEF TypeOK, Shapes, ClientShape, SessionShape, Registered, EntryShape,
       SeeStopped, Supervisor, sessionVars, procVars, sharedVars, reaperVars, clientVars
<1>19. ASSUME NEW s \in Sessions, Restart(s) PROVE Shapes'
  BY <1>19 DEF TypeOK, Shapes, ClientShape, SessionShape, Registered, EntryShape,
       Restart, Supervisor, sessionVars, procVars, sharedVars, reaperVars, clientVars
<1>20. ASSUME NEW s \in Sessions, GiveUp(s) PROVE Shapes'
  BY <1>20 DEF TypeOK, Shapes, ClientShape, SessionShape, Registered, EntryShape, GiveUp,
       Supervisor, sessionVars, procVars, sharedVars, reaperVars, clientVars
<1>21. ASSUME NEW s \in Sessions, Respawn(s) PROVE Shapes'
  BY <1>21 DEF TypeOK, Shapes, ClientShape, SessionShape, Registered, EntryShape,
       Respawn, Supervisor, sessionVars, procVars, sharedVars, reaperVars, clientVars
<1>22. ASSUME NEW s \in Sessions, RestartFails(s) PROVE Shapes'
  BY <1>22 DEF TypeOK, Shapes, ClientShape, SessionShape, Registered, EntryShape,
       RestartFails, sessionVars, procVars, sharedVars, reaperVars, clientVars
<1>23. ASSUME NEW s \in Sessions, Recover(s) PROVE Shapes'
  BY <1>23 DEF TypeOK, Shapes, ClientShape, SessionShape, Registered, EntryShape,
       Recover, Supervisor, sessionVars, procVars, sharedVars, reaperVars, clientVars
<1>24. ASSUME NEW s \in Sessions, SupMark(s) PROVE Shapes'
  BY <1>24 DEF TypeOK, Shapes, ClientShape, SessionShape, Registered, EntryShape,
       SupMark, Supervisor, MarkStopped, sessionVars, procVars, sharedVars, reaperVars,
       clientVars
<1>25. ASSUME NEW s \in Sessions, SupRemove(s) PROVE Shapes'
  BY <1>25 DEF TypeOK, Shapes, ClientShape, SessionShape, Registered, EntryShape,
       SupRemove, Supervisor, Deregister, sessionVars, procVars, sharedVars, reaperVars,
       clientVars
<1>26. ASSUME NEW s \in Sessions, SupKill(s) PROVE Shapes'
  BY <1>26 DEF TypeOK, Shapes, ClientShape, SessionShape, Registered, EntryShape,
       SupKill, Supervisor, KillStream, sessionVars, procVars, sharedVars, reaperVars,
       clientVars
<1>27. ASSUME NEW s \in Sessions, SupRelease(s) PROVE Shapes'
  BY <1>27 DEF TypeOK, Shapes, ClientShape, SessionShape, Registered, EntryShape,
       SupRelease, Supervisor, Release, sessionVars, procVars, sharedVars, reaperVars,
       clientVars
<1>28. ASSUME Reap PROVE Shapes'
  BY <1>28 DEF TypeOK, Shapes, ClientShape, SessionShape, Registered, EntryShape, Reap,
       IdleSessions, sessionVars, procVars, sharedVars, reaperVars, clientVars
<1>29. ASSUME NEW s \in Sessions, ReapKill(s) PROVE Shapes'
  BY <1>29 DEF TypeOK, Shapes, ClientShape, SessionShape, Registered, EntryShape,
       ReapKill, KillStream, sessionVars, procVars, sharedVars, reaperVars, clientVars
<1>30. ASSUME NEW s \in Sessions, ReapRelease(s) PROVE Shapes'
  BY <1>30 DEF TypeOK, Shapes, ClientShape, SessionShape, Registered, EntryShape,
       ReapRelease, Release, sessionVars, procVars, sharedVars, reaperVars, clientVars
<1>31. ASSUME NEW s \in Sessions, Age(s) PROVE Shapes'
  BY <1>31 DEF TypeOK, Shapes, ClientShape, SessionShape, Registered, EntryShape, Age,
       sessionVars, procVars, sharedVars, reaperVars, clientVars
<1>32. ASSUME NEW s \in Sessions, Exit(s) PROVE Shapes'
  BY <1>32 DEF TypeOK, Shapes, ClientShape, SessionShape, Registered, EntryShape, Exit,
       sessionVars, procVars, sharedVars, reaperVars, clientVars
<1>33. ASSUME NEW k \in Keys, Keepalive(k) PROVE Shapes'
  BY <1>33 DEF TypeOK, Shapes, ClientShape, SessionShape, Registered, EntryShape,
       Keepalive, Touch, sessionVars, procVars, sharedVars, reaperVars, clientVars
<1>34. CASE UNCHANGED vars
  BY <1>34 DEF TypeOK, Shapes, ClientShape, SessionShape, Registered, EntryShape, vars,
       sessionVars, procVars, sharedVars, reaperVars, clientVars
<1>35. QED
  BY <1>1, <1>2, <1>3, <1>4, <1>5, <1>6, <1>7, <1>8, <1>9, <1>10, <1>11, <1>12, <1>13,
       <1>14, <1>15, <1>16, <1>17, <1>18, <1>19, <1>20, <1>21, <1>22, <1>23, <1>24,
       <1>25, <1>26, <1>27, <1>28, <1>29, <1>30, <1>31, <1>32, <1>33, <1>34
  DEF Next, Arrivals, Handler, Create, Supervise, Reaper

LEMMA RegisteredStep == TypeOK /\ Shapes /\ Registered /\ [Next]_vars => Registered'
<1> SUFFICES ASSUME TypeOK, Shapes, Registered, [Next]_vars PROVE Registered'
  OBVIOUS
<1> USE RelayAssumption DEF ClientPc, Phases, SupPc, Teardown
<1>1. ASSUME NEW c \in Clients, NEW r \in Requests, StartMiss(c, r) PROVE Registered'
  BY <1>1 DEF TypeOK, Shapes, ClientShape, SessionShape, Registered, EntryShape,
       StartMiss, Arrive, Goto, sessionVars, procVars, sharedVars, reaperVars, clientVars
<1>2. ASSUME NEW c \in Clients, NEW r \in Requests, StartHit(c, r) PROVE Registered'
  BY <1>2 DEF TypeOK, Shapes, ClientShape, SessionShape, Registered, EntryShape,
       StartHit, Arrive, Goto, sessionVars, procVars, sharedVars, reaperVars, clientVars
<1>3. ASSUME NEW c \in Clients, NEW r \in Requests, StartChange(c, r) PROVE Registered'
  BY <1>3 DEF TypeOK, Shapes, ClientShape, SessionShape, Registered, EntryShape,
       StartChange, Arrive, Goto, sessionVars, procVars, sharedVars, reaperVars,
       clientVars
<1>4. ASSUME NEW c \in Clients, ChangeMark(c) PROVE Registered'
  BY <1>4 DEF TypeOK, Shapes, ClientShape, SessionShape, Registered, EntryShape,
       ChangeMark, MarkStopped, Goto, sessionVars, procVars, sharedVars, reaperVars,
       clientVars
<1>5. ASSUME NEW c \in Clients, ChangeRemove(c) PROVE Registered'
  BY <1>5 DEF TypeOK, Shapes, ClientShape, SessionShape, Registered, EntryShape,
       ChangeRemove, Deregister, Goto, sessionVars, procVars, sharedVars, reaperVars,
       clientVars
<1>6. ASSUME NEW c \in Clients, ChangeKill(c) PROVE Registered'
  BY <1>6 DEF TypeOK, Shapes, ClientShape, SessionShape, Registered, EntryShape,
       ChangeKill, KillStream, Goto, sessionVars, procVars, sharedVars, reaperVars,
       clientVars
<1>7. ASSUME NEW c \in Clients, ChangeRelease(c) PROVE Registered'
  BY <1>7 DEF TypeOK, Shapes, ClientShape, SessionShape, Registered, EntryShape,
       ChangeRelease, Release, Goto, sessionVars, procVars, sharedVars, reaperVars,
       clientVars
<1>8. ASSUME NEW c \in Clients, Attach(c) PROVE Registered'
  BY <1>8 DEF TypeOK, Shapes, ClientShape, SessionShape, Registered, EntryShape, Attach,
       Touch, Goto, sessionVars, procVars, sharedVars, reaperVars, clientVars
<1>9. ASSUME NEW c \in Clients, NEW s \in Sessions, Join(c, s) PROVE Registered'
  BY <1>9 DEF TypeOK, Shapes, ClientShape, SessionShape, Registered, EntryShape, Join,
       Goto, sessionVars, procVars, sharedVars, reaperVars, clientVars
<1>10. ASSUME NEW c \in Clients, NEW s \in Sessions, Lead(c, s) PROVE Registered'
  BY <1>10 DEF TypeOK, Shapes, ClientShape, SessionShape, Registered, EntryShape, Lead,
       Goto, sessionVars, procVars, sharedVars, reaperVars, clientVars
<1>11. ASSUME NEW s \in Sessions, Acquire(s) PROVE Registered'
  BY <1>11 DEF TypeOK, Shapes, ClientShape, SessionShape, Registered, EntryShape,
       Acquire, sessionVars, procVars, sharedVars, reaperVars, clientVars
<1>12. ASSUME NEW s \in Sessions, Busy(s) PROVE Registered'
  BY <1>12 DEF TypeOK, Shapes, ClientShape, SessionShape, Registered, EntryShape, Busy,
       FlightFails, sessionVars, procVars, sharedVars, reaperVars, clientVars
<1>13. ASSUME NEW s \in Sessions, FetchOk(s) PROVE Registered'
  BY <1>13 DEF TypeOK, Shapes, ClientShape, SessionShape, Registered, EntryShape,
       FetchOk, sessionVars, procVars, sharedVars, reaperVars, clientVars
<1>14. ASSUME NEW s \in Sessions, FetchFails(s) PROVE Registered'
  BY <1>14 DEF TypeOK, Shapes, ClientShape, SessionShape, Registered, EntryShape,
       FetchFails, CreateFails, FlightFails, sessionVars, procVars, sharedVars,
       reaperVars, clientVars
<1>15. ASSUME NEW s \in Sessions, Spawn(s) PROVE Registered'
  BY <1>15 DEF TypeOK, Shapes, ClientShape, SessionShape, Registered, EntryShape, Spawn,
       sessionVars, procVars, sharedVars, reaperVars, clientVars
<1>16. ASSUME NEW s \in Sessions, BackendFails(s) PROVE Registered'
  BY <1>16 DEF TypeOK, Shapes, ClientShape, SessionShape, Registered, EntryShape,
       BackendFails, CreateFails, FlightFails, sessionVars, procVars, sharedVars,
       reaperVars, clientVars
<1>17. ASSUME NEW s \in Sessions, Commit(s) PROVE Registered'
  BY <1>17 DEF TypeOK, Shapes, ClientShape, SessionShape, Registered, EntryShape, Commit,
       Touch, sessionVars, procVars, sharedVars, reaperVars, clientVars
<1>18. ASSUME NEW s \in Sessions, SeeStopped(s) PROVE Registered'
  BY <1>18 DEF TypeOK, Shapes, ClientShape, SessionShape, Registered, EntryShape,
       SeeStopped, Supervisor, sessionVars, procVars, sharedVars, reaperVars, clientVars
<1>19. ASSUME NEW s \in Sessions, Restart(s) PROVE Registered'
  BY <1>19 DEF TypeOK, Shapes, ClientShape, SessionShape, Registered, EntryShape,
       Restart, Supervisor, sessionVars, procVars, sharedVars, reaperVars, clientVars
<1>20. ASSUME NEW s \in Sessions, GiveUp(s) PROVE Registered'
  BY <1>20 DEF TypeOK, Shapes, ClientShape, SessionShape, Registered, EntryShape, GiveUp,
       Supervisor, sessionVars, procVars, sharedVars, reaperVars, clientVars
<1>21. ASSUME NEW s \in Sessions, Respawn(s) PROVE Registered'
  BY <1>21 DEF TypeOK, Shapes, ClientShape, SessionShape, Registered, EntryShape,
       Respawn, Supervisor, sessionVars, procVars, sharedVars, reaperVars, clientVars
<1>22. ASSUME NEW s \in Sessions, RestartFails(s) PROVE Registered'
  BY <1>22 DEF TypeOK, Shapes, ClientShape, SessionShape, Registered, EntryShape,
       RestartFails, sessionVars, procVars, sharedVars, reaperVars, clientVars
<1>23. ASSUME NEW s \in Sessions, Recover(s) PROVE Registered'
  BY <1>23 DEF TypeOK, Shapes, ClientShape, SessionShape, Registered, EntryShape,
       Recover, Supervisor, sessionVars, procVars, sharedVars, reaperVars, clientVars
<1>24. ASSUME NEW s \in Sessions, SupMark(s) PROVE Registered'
  BY <1>24 DEF TypeOK, Shapes, ClientShape, SessionShape, Registered, EntryShape,
       SupMark, Supervisor, MarkStopped, sessionVars, procVars, sharedVars, reaperVars,
       clientVars
<1>25. ASSUME NEW s \in Sessions, SupRemove(s) PROVE Registered'
  BY <1>25 DEF TypeOK, Shapes, ClientShape, SessionShape, Registered, EntryShape,
       SupRemove, Supervisor, Deregister, sessionVars, procVars, sharedVars, reaperVars,
       clientVars
<1>26. ASSUME NEW s \in Sessions, SupKill(s) PROVE Registered'
  BY <1>26 DEF TypeOK, Shapes, ClientShape, SessionShape, Registered, EntryShape,
       SupKill, Supervisor, KillStream, sessionVars, procVars, sharedVars, reaperVars,
       clientVars
<1>27. ASSUME NEW s \in Sessions, SupRelease(s) PROVE Registered'
  BY <1>27 DEF TypeOK, Shapes, ClientShape, SessionShape, Registered, EntryShape,
       SupRelease, Supervisor, Release, sessionVars, procVars, sharedVars, reaperVars,
       clientVars
<1>28. ASSUME Reap PROVE Registered'
  BY <1>28 DEF TypeOK, Shapes, ClientShape, SessionShape, Registered, EntryShape, Reap,
       IdleSessions, sessionVars, procVars, sharedVars, reaperVars, clientVars
<1>29. ASSUME NEW s \in Sessions, ReapKill(s) PROVE Registered'
  BY <1>29 DEF TypeOK, Shapes, ClientShape, SessionShape, Registered, EntryShape,
       ReapKill, KillStream, sessionVars, procVars, sharedVars, reaperVars, clientVars
<1>30. ASSUME NEW s \in Sessions, ReapRelease(s) PROVE Registered'
  BY <1>30 DEF TypeOK, Shapes, ClientShape, SessionShape, Registered, EntryShape,
       ReapRelease, Release, sessionVars, procVars, sharedVars, reaperVars, clientVars
<1>31. ASSUME NEW s \in Sessions, Age(s) PROVE Registered'
  BY <1>31 DEF TypeOK, Shapes, ClientShape, SessionShape, Registered, EntryShape, Age,
       sessionVars, procVars, sharedVars, reaperVars, clientVars
<1>32. ASSUME NEW s \in Sessions, Exit(s) PROVE Registered'
  BY <1>32 DEF TypeOK, Shapes, ClientShape, SessionShape, Registered, EntryShape, Exit,
       sessionVars, procVars, sharedVars, reaperVars, clientVars
<1>33. ASSUME NEW k \in Keys, Keepalive(k) PROVE Registered'
  BY <1>33 DEF TypeOK, Shapes, ClientShape, SessionShape, Registered, EntryShape,
       Keepalive, Touch, sessionVars, procVars, sharedVars, reaperVars, clientVars
<1>34. CASE UNCHANGED vars
  BY <1>34 DEF TypeOK, Shapes, ClientShape, SessionShape, Registered, EntryShape, vars,
       sessionVars, procVars, sharedVars, reaperVars, clientVars
<1>35. QED
  BY <1>1, <1>2, <1>3, <1>4, <1>5, <1>6, <1>7, <1>8, <1>9, <1>10, <1>11, <1>12, <1>13,
       <1>14, <1>15, <1>16, <1>17, <1>18, <1>19, <1>20, <1>21, <1>22, <1>23, <1>24,
       <1>25, <1>26, <1>27, <1>28, <1>29, <1>30, <1>31, <1>32, <1>33, <1>34
  DEF Next, Arrivals, Handler, Create, Supervise, Reaper

-----------------------------------------------------------------------------
(* The semaphore counts the sessions that hold a slot.                     *)

LEMMA HoldingFinite == IsFiniteSet(Holding)
  BY RelayAssumption, FS_Subset DEF Holding

LEMMA OneMore ==
  ASSUME SlotAccounting, NEW s, s \notin Holding, Holding' = Holding \cup {s},
         slots' = slots + 1
  PROVE  SlotAccounting'
  BY HoldingFinite, FS_AddElement DEF SlotAccounting

LEMMA OneLess ==
  ASSUME SlotAccounting, NEW s, s \in Holding, Holding' = Holding \ {s},
         slots' = slots - 1
  PROVE  SlotAccounting'
  BY HoldingFinite, FS_RemoveElement DEF SlotAccounting

\* Whoever releases a committed session, and however often, the count stays exact.
LEMMA ReleaseSlot ==
  ASSUME TypeOK, SlotAccounting, NEW s \in Sessions, phase[s] = "up",
         phase' = phase, Release(s)
  PROVE  SlotAccounting'
<1>1. CASE released[s] /\ UNCHANGED <<released, slots>>
  <2>1. Holding' = Holding
    BY <1>1 DEF Holding
  <2>2. QED
    BY <1>1, <2>1 DEF SlotAccounting
<1>2. CASE /\ ~released[s]
           /\ released' = [released EXCEPT ![s] = TRUE]
           /\ slots' = slots - 1
  <2>1. s \in Holding /\ Holding' = Holding \ {s}
    BY <1>2 DEF Holding, TypeOK
  <2>2. QED
    BY <1>2, <2>1, OneLess
<1>3. QED
  BY <1>1, <1>2 DEF Release

\* A create that fails gives its slot back.
LEMMA CreateSlot ==
  ASSUME TypeOK, SlotAccounting, NEW s \in Sessions,
         phase[s] \in {"fetch", "spawn", "probe"}, UNCHANGED released, CreateFails(s)
  PROVE  SlotAccounting'
<1>1. s \in Holding /\ Holding' = Holding \ {s}
  BY DEF Holding, TypeOK, CreateFails, FlightFails
<1>2. QED
  BY <1>1, OneLess DEF CreateFails

LEMMA SlotStep == TypeOK /\ Shapes /\ SlotAccounting /\ [Next]_vars => SlotAccounting'
<1> SUFFICES ASSUME TypeOK, Shapes, SlotAccounting, [Next]_vars PROVE SlotAccounting'
  OBVIOUS
<1>1. ASSUME NEW c \in Clients, NEW r \in Requests, StartMiss(c, r) PROVE SlotAccounting'
  <2>1. Holding' = Holding /\ slots' = slots
    BY <1>1 DEF Holding, TypeOK, Shapes, SessionShape, StartMiss, Arrive, Goto,
         sessionVars, procVars, sharedVars, reaperVars, clientVars
  <2>2. QED
    BY <2>1 DEF SlotAccounting
<1>2. ASSUME NEW c \in Clients, NEW r \in Requests, StartHit(c, r) PROVE SlotAccounting'
  <2>1. Holding' = Holding /\ slots' = slots
    BY <1>2 DEF Holding, TypeOK, Shapes, SessionShape, StartHit, Arrive, Goto,
         sessionVars, procVars, sharedVars, reaperVars, clientVars
  <2>2. QED
    BY <2>1 DEF SlotAccounting
<1>3. ASSUME NEW c \in Clients, NEW r \in Requests, StartChange(c, r) PROVE SlotAccounting'
  <2>1. Holding' = Holding /\ slots' = slots
    BY <1>3 DEF Holding, TypeOK, Shapes, SessionShape, StartChange, Arrive, Goto,
         sessionVars, procVars, sharedVars, reaperVars, clientVars
  <2>2. QED
    BY <2>1 DEF SlotAccounting
<1>4. ASSUME NEW c \in Clients, ChangeMark(c) PROVE SlotAccounting'
  <2>1. Holding' = Holding /\ slots' = slots
    BY <1>4 DEF Holding, TypeOK, Shapes, SessionShape, ChangeMark, MarkStopped, Goto,
         sessionVars, procVars, sharedVars, reaperVars, clientVars
  <2>2. QED
    BY <2>1 DEF SlotAccounting
<1>5. ASSUME NEW c \in Clients, ChangeRemove(c) PROVE SlotAccounting'
  <2>1. Holding' = Holding /\ slots' = slots
    BY <1>5 DEF Holding, TypeOK, Shapes, SessionShape, ChangeRemove, Deregister, Goto,
         sessionVars, procVars, sharedVars, reaperVars, clientVars
  <2>2. QED
    BY <2>1 DEF SlotAccounting
<1>6. ASSUME NEW c \in Clients, ChangeKill(c) PROVE SlotAccounting'
  <2>1. Holding' = Holding /\ slots' = slots
    BY <1>6 DEF Holding, TypeOK, Shapes, SessionShape, ChangeKill, KillStream, Goto,
         sessionVars, procVars, sharedVars, reaperVars, clientVars
  <2>2. QED
    BY <2>1 DEF SlotAccounting
<1>7. ASSUME NEW c \in Clients, ChangeRelease(c) PROVE SlotAccounting'
  <2>1. ref[c] \in Sessions /\ phase[ref[c]] = "up" /\ phase' = phase /\ Release(ref[c])
    BY <1>7, RelayAssumption DEF TypeOK, Shapes, ClientShape, SessionShape, Teardown,
         ChangeRelease, Goto, sessionVars, procVars, sharedVars, reaperVars, clientVars
  <2>2. QED
    BY <2>1, ReleaseSlot
<1>8. ASSUME NEW c \in Clients, Attach(c) PROVE SlotAccounting'
  <2>1. Holding' = Holding /\ slots' = slots
    BY <1>8 DEF Holding, TypeOK, Shapes, SessionShape, Attach, Touch, Goto, sessionVars,
         procVars, sharedVars, reaperVars, clientVars
  <2>2. QED
    BY <2>1 DEF SlotAccounting
<1>9. ASSUME NEW c \in Clients, NEW s \in Sessions, Join(c, s) PROVE SlotAccounting'
  <2>1. Holding' = Holding /\ slots' = slots
    BY <1>9 DEF Holding, TypeOK, Shapes, SessionShape, Join, Goto, sessionVars, procVars,
         sharedVars, reaperVars, clientVars
  <2>2. QED
    BY <2>1 DEF SlotAccounting
<1>10. ASSUME NEW c \in Clients, NEW s \in Sessions, Lead(c, s) PROVE SlotAccounting'
  <2>1. Holding' = Holding /\ slots' = slots
    BY <1>10 DEF Holding, TypeOK, Shapes, SessionShape, Lead, Goto, sessionVars,
         procVars, sharedVars, reaperVars, clientVars
  <2>2. QED
    BY <2>1 DEF SlotAccounting
<1>11. ASSUME NEW s \in Sessions, Acquire(s) PROVE SlotAccounting'
  <2>1. s \notin Holding /\ Holding' = Holding \cup {s}
    BY <1>11 DEF Holding, TypeOK, Shapes, SessionShape, Acquire, sessionVars, procVars,
         sharedVars, reaperVars, clientVars
  <2>2. QED
    BY <1>11, <2>1, OneMore DEF Acquire
<1>12. ASSUME NEW s \in Sessions, Busy(s) PROVE SlotAccounting'
  <2>1. Holding' = Holding /\ slots' = slots
    BY <1>12 DEF Holding, TypeOK, Shapes, SessionShape, Busy, FlightFails, sessionVars,
         procVars, sharedVars, reaperVars, clientVars
  <2>2. QED
    BY <2>1 DEF SlotAccounting
<1>13. ASSUME NEW s \in Sessions, FetchOk(s) PROVE SlotAccounting'
  <2>1. Holding' = Holding /\ slots' = slots
    BY <1>13 DEF Holding, TypeOK, Shapes, SessionShape, FetchOk, sessionVars, procVars,
         sharedVars, reaperVars, clientVars
  <2>2. QED
    BY <2>1 DEF SlotAccounting
<1>14. ASSUME NEW s \in Sessions, FetchFails(s) PROVE SlotAccounting'
  <2>1. phase[s] \in {"fetch", "spawn", "probe"} /\ CreateFails(s) /\ UNCHANGED released
    BY <1>14 DEF FetchFails, sessionVars, procVars, sharedVars, reaperVars, clientVars
  <2>2. QED
    BY <2>1, CreateSlot
<1>15. ASSUME NEW s \in Sessions, Spawn(s) PROVE SlotAccounting'
  <2>1. Holding' = Holding /\ slots' = slots
    BY <1>15 DEF Holding, TypeOK, Shapes, SessionShape, Spawn, sessionVars, procVars,
         sharedVars, reaperVars, clientVars
  <2>2. QED
    BY <2>1 DEF SlotAccounting
<1>16. ASSUME NEW s \in Sessions, BackendFails(s) PROVE SlotAccounting'
  <2>1. phase[s] \in {"fetch", "spawn", "probe"} /\ UNCHANGED released
    BY <1>16 DEF BackendFails, sessionVars, procVars, sharedVars, reaperVars, clientVars
  <2>2. CASE CreateFails(s)
    BY <2>1, <2>2, CreateSlot
  <2>3. CASE phase' = [phase EXCEPT ![s] = "spawn"] /\ UNCHANGED slots
    <3>1. Holding' = Holding
      BY <2>1, <2>3 DEF Holding, TypeOK
    <3>2. QED
      BY <2>3, <3>1 DEF SlotAccounting
  <2>4. QED
    BY <1>16, <2>2, <2>3 DEF BackendFails
<1>17. ASSUME NEW s \in Sessions, Commit(s) PROVE SlotAccounting'
  <2>1. Holding' = Holding /\ slots' = slots
    BY <1>17 DEF Holding, TypeOK, Shapes, SessionShape, Commit, Touch, sessionVars,
         procVars, sharedVars, reaperVars, clientVars
  <2>2. QED
    BY <2>1 DEF SlotAccounting
<1>18. ASSUME NEW s \in Sessions, SeeStopped(s) PROVE SlotAccounting'
  <2>1. Holding' = Holding /\ slots' = slots
    BY <1>18 DEF Holding, TypeOK, Shapes, SessionShape, SeeStopped, Supervisor,
         sessionVars, procVars, sharedVars, reaperVars, clientVars
  <2>2. QED
    BY <2>1 DEF SlotAccounting
<1>19. ASSUME NEW s \in Sessions, Restart(s) PROVE SlotAccounting'
  <2>1. Holding' = Holding /\ slots' = slots
    BY <1>19 DEF Holding, TypeOK, Shapes, SessionShape, Restart, Supervisor, sessionVars,
         procVars, sharedVars, reaperVars, clientVars
  <2>2. QED
    BY <2>1 DEF SlotAccounting
<1>20. ASSUME NEW s \in Sessions, GiveUp(s) PROVE SlotAccounting'
  <2>1. Holding' = Holding /\ slots' = slots
    BY <1>20 DEF Holding, TypeOK, Shapes, SessionShape, GiveUp, Supervisor, sessionVars,
         procVars, sharedVars, reaperVars, clientVars
  <2>2. QED
    BY <2>1 DEF SlotAccounting
<1>21. ASSUME NEW s \in Sessions, Respawn(s) PROVE SlotAccounting'
  <2>1. Holding' = Holding /\ slots' = slots
    BY <1>21 DEF Holding, TypeOK, Shapes, SessionShape, Respawn, Supervisor, sessionVars,
         procVars, sharedVars, reaperVars, clientVars
  <2>2. QED
    BY <2>1 DEF SlotAccounting
<1>22. ASSUME NEW s \in Sessions, RestartFails(s) PROVE SlotAccounting'
  <2>1. Holding' = Holding /\ slots' = slots
    BY <1>22 DEF Holding, TypeOK, Shapes, SessionShape, RestartFails, sessionVars,
         procVars, sharedVars, reaperVars, clientVars
  <2>2. QED
    BY <2>1 DEF SlotAccounting
<1>23. ASSUME NEW s \in Sessions, Recover(s) PROVE SlotAccounting'
  <2>1. Holding' = Holding /\ slots' = slots
    BY <1>23 DEF Holding, TypeOK, Shapes, SessionShape, Recover, Supervisor, sessionVars,
         procVars, sharedVars, reaperVars, clientVars
  <2>2. QED
    BY <2>1 DEF SlotAccounting
<1>24. ASSUME NEW s \in Sessions, SupMark(s) PROVE SlotAccounting'
  <2>1. Holding' = Holding /\ slots' = slots
    BY <1>24 DEF Holding, TypeOK, Shapes, SessionShape, SupMark, Supervisor, MarkStopped,
         sessionVars, procVars, sharedVars, reaperVars, clientVars
  <2>2. QED
    BY <2>1 DEF SlotAccounting
<1>25. ASSUME NEW s \in Sessions, SupRemove(s) PROVE SlotAccounting'
  <2>1. Holding' = Holding /\ slots' = slots
    BY <1>25 DEF Holding, TypeOK, Shapes, SessionShape, SupRemove, Supervisor,
         Deregister, sessionVars, procVars, sharedVars, reaperVars, clientVars
  <2>2. QED
    BY <2>1 DEF SlotAccounting
<1>26. ASSUME NEW s \in Sessions, SupKill(s) PROVE SlotAccounting'
  <2>1. Holding' = Holding /\ slots' = slots
    BY <1>26 DEF Holding, TypeOK, Shapes, SessionShape, SupKill, Supervisor, KillStream,
         sessionVars, procVars, sharedVars, reaperVars, clientVars
  <2>2. QED
    BY <2>1 DEF SlotAccounting
<1>27. ASSUME NEW s \in Sessions, SupRelease(s) PROVE SlotAccounting'
  <2>1. s \in Sessions /\ phase[s] = "up" /\ phase' = phase /\ Release(s)
    BY <1>27, RelayAssumption DEF TypeOK, Shapes, ClientShape, SessionShape, Teardown,
         SupRelease, Supervisor, sessionVars, procVars, sharedVars, reaperVars, clientVars
  <2>2. QED
    BY <2>1, ReleaseSlot
<1>28. ASSUME Reap PROVE SlotAccounting'
  <2>1. Holding' = Holding /\ slots' = slots
    BY <1>28 DEF Holding, TypeOK, Shapes, SessionShape, Reap, IdleSessions, sessionVars,
         procVars, sharedVars, reaperVars, clientVars
  <2>2. QED
    BY <2>1 DEF SlotAccounting
<1>29. ASSUME NEW s \in Sessions, ReapKill(s) PROVE SlotAccounting'
  <2>1. Holding' = Holding /\ slots' = slots
    BY <1>29 DEF Holding, TypeOK, Shapes, SessionShape, ReapKill, KillStream,
         sessionVars, procVars, sharedVars, reaperVars, clientVars
  <2>2. QED
    BY <2>1 DEF SlotAccounting
<1>30. ASSUME NEW s \in Sessions, ReapRelease(s) PROVE SlotAccounting'
  <2>1. s \in Sessions /\ phase[s] = "up" /\ phase' = phase /\ Release(s)
    BY <1>30, RelayAssumption DEF TypeOK, Shapes, ClientShape, SessionShape, Teardown,
         ReapRelease, sessionVars, procVars, sharedVars, reaperVars, clientVars
  <2>2. QED
    BY <2>1, ReleaseSlot
<1>31. ASSUME NEW s \in Sessions, Age(s) PROVE SlotAccounting'
  <2>1. Holding' = Holding /\ slots' = slots
    BY <1>31 DEF Holding, TypeOK, Shapes, SessionShape, Age, sessionVars, procVars,
         sharedVars, reaperVars, clientVars
  <2>2. QED
    BY <2>1 DEF SlotAccounting
<1>32. ASSUME NEW s \in Sessions, Exit(s) PROVE SlotAccounting'
  <2>1. Holding' = Holding /\ slots' = slots
    BY <1>32 DEF Holding, TypeOK, Shapes, SessionShape, Exit, sessionVars, procVars,
         sharedVars, reaperVars, clientVars
  <2>2. QED
    BY <2>1 DEF SlotAccounting
<1>33. ASSUME NEW k \in Keys, Keepalive(k) PROVE SlotAccounting'
  <2>1. Holding' = Holding /\ slots' = slots
    BY <1>33 DEF Holding, TypeOK, Shapes, SessionShape, Keepalive, Touch, sessionVars,
         procVars, sharedVars, reaperVars, clientVars
  <2>2. QED
    BY <2>1 DEF SlotAccounting
<1>34. CASE UNCHANGED vars
  BY <1>34 DEF TypeOK, Shapes, SessionShape, SlotAccounting, Holding, vars, sessionVars,
       procVars, sharedVars, reaperVars, clientVars
<1>35. QED
  BY <1>1, <1>2, <1>3, <1>4, <1>5, <1>6, <1>7, <1>8, <1>9, <1>10, <1>11, <1>12, <1>13,
       <1>14, <1>15, <1>16, <1>17, <1>18, <1>19, <1>20, <1>21, <1>22, <1>23, <1>24,
       <1>25, <1>26, <1>27, <1>28, <1>29, <1>30, <1>31, <1>32, <1>33, <1>34
  DEF Next, Arrivals, Handler, Create, Supervise, Reaper

LEMMA InvInit == Init => Shapes /\ Registered /\ SlotAccounting
<1> SUFFICES ASSUME Init PROVE Shapes /\ Registered /\ SlotAccounting
  OBVIOUS
<1>1. Shapes /\ Registered
  BY RelayAssumption DEF Init, Shapes, ClientShape, SessionShape, Registered, EntryShape,
     Teardown
<1>2. Holding = {}
  BY DEF Init, Holding
<1>3. QED
  BY <1>1, <1>2, FS_EmptySet DEF Init, SlotAccounting

\* The inductive invariant holds in every reachable state.
THEOREM Inductive == Spec => []IInv
<1>1. Init => IInv
  BY TypeInit, InvInit DEF IInv
<1>2. IInv /\ [Next]_vars => IInv'
  BY TypeStep, ShapesStep, RegisteredStep, SlotStep DEF IInv
<1>3. QED
  BY <1>1, <1>2, PTL DEF Spec

\* The number of slots in use is the number of creates under way and of sessions
\* not yet released.
THEOREM SlotsExact == Spec => []SlotAccounting
<1>1. IInv => SlotAccounting
  BY DEF IInv
<1>2. QED
  BY <1>1, Inductive, PTL

\* Whatever a registry lookup finds belongs to the key and holds a relay slot.
THEOREM LookupFindsHolder == Spec => []RegisteredHolds
<1>1. IInv => RegisteredHolds
  BY RelayAssumption DEF IInv, Registered, EntryShape, RegisteredHolds, Holding, TypeOK
<1>2. QED
  BY <1>1, Inductive, PTL

-----------------------------------------------------------------------------
(* Who stops, kills and releases.                                          *)

\* Whoever is past MarkStopped works on a session that is stopped.
Stopping ==
  /\ \A c \in Clients : at[c] \in {"remove", "kill", "release"} => stopped[ref[c]]
  /\ \A s \in Sessions :
       sup[s] \in {"remove", "kill", "release"} \/ s \in reaping => stopped[s]

LEMMA StoppingStep == TypeOK /\ Shapes /\ Stopping /\ [Next]_vars => Stopping'
<1> SUFFICES ASSUME TypeOK, Shapes, Stopping, [Next]_vars PROVE Stopping'
  OBVIOUS
<1> USE RelayAssumption DEF ClientPc, Phases, SupPc, Teardown
<1>1. ASSUME NEW c \in Clients, NEW r \in Requests, StartMiss(c, r) PROVE Stopping'
  BY <1>1 DEF TypeOK, Shapes, ClientShape, SessionShape, Stopping, StartMiss, Arrive,
       Goto, sessionVars, procVars, sharedVars, reaperVars, clientVars
<1>2. ASSUME NEW c \in Clients, NEW r \in Requests, StartHit(c, r) PROVE Stopping'
  BY <1>2 DEF TypeOK, Shapes, ClientShape, SessionShape, Stopping, StartHit, Arrive,
       Goto, sessionVars, procVars, sharedVars, reaperVars, clientVars
<1>3. ASSUME NEW c \in Clients, NEW r \in Requests, StartChange(c, r) PROVE Stopping'
  BY <1>3 DEF TypeOK, Shapes, ClientShape, SessionShape, Stopping, StartChange, Arrive,
       Goto, sessionVars, procVars, sharedVars, reaperVars, clientVars
<1>4. ASSUME NEW c \in Clients, ChangeMark(c) PROVE Stopping'
  BY <1>4 DEF TypeOK, Shapes, ClientShape, SessionShape, Stopping, ChangeMark,
       MarkStopped, Goto, sessionVars, procVars, sharedVars, reaperVars, clientVars
<1>5. ASSUME NEW c \in Clients, ChangeRemove(c) PROVE Stopping'
  BY <1>5 DEF TypeOK, Shapes, ClientShape, SessionShape, Stopping, ChangeRemove,
       Deregister, Goto, sessionVars, procVars, sharedVars, reaperVars, clientVars
<1>6. ASSUME NEW c \in Clients, ChangeKill(c) PROVE Stopping'
  BY <1>6 DEF TypeOK, Shapes, ClientShape, SessionShape, Stopping, ChangeKill,
       KillStream, Goto, sessionVars, procVars, sharedVars, reaperVars, clientVars
<1>7. ASSUME NEW c \in Clients, ChangeRelease(c) PROVE Stopping'
  BY <1>7 DEF TypeOK, Shapes, ClientShape, SessionShape, Stopping, ChangeRelease,
       Release, Goto, sessionVars, procVars, sharedVars, reaperVars, clientVars
<1>8. ASSUME NEW c \in Clients, Attach(c) PROVE Stopping'
  BY <1>8 DEF TypeOK, Shapes, ClientShape, SessionShape, Stopping, Attach, Touch, Goto,
       sessionVars, procVars, sharedVars, reaperVars, clientVars
<1>9. ASSUME NEW c \in Clients, NEW s \in Sessions, Join(c, s) PROVE Stopping'
  BY <1>9 DEF TypeOK, Shapes, ClientShape, SessionShape, Stopping, Join, Goto,
       sessionVars, procVars, sharedVars, reaperVars, clientVars
<1>10. ASSUME NEW c \in Clients, NEW s \in Sessions, Lead(c, s) PROVE Stopping'
  BY <1>10 DEF TypeOK, Shapes, ClientShape, SessionShape, Stopping, Lead, Goto,
       sessionVars, procVars, sharedVars, reaperVars, clientVars
<1>11. ASSUME NEW s \in Sessions, Acquire(s) PROVE Stopping'
  BY <1>11 DEF TypeOK, Shapes, ClientShape, SessionShape, Stopping, Acquire, sessionVars,
       procVars, sharedVars, reaperVars, clientVars
<1>12. ASSUME NEW s \in Sessions, Busy(s) PROVE Stopping'
  BY <1>12 DEF TypeOK, Shapes, ClientShape, SessionShape, Stopping, Busy, FlightFails,
       sessionVars, procVars, sharedVars, reaperVars, clientVars
<1>13. ASSUME NEW s \in Sessions, FetchOk(s) PROVE Stopping'
  BY <1>13 DEF TypeOK, Shapes, ClientShape, SessionShape, Stopping, FetchOk, sessionVars,
       procVars, sharedVars, reaperVars, clientVars
<1>14. ASSUME NEW s \in Sessions, FetchFails(s) PROVE Stopping'
  BY <1>14 DEF TypeOK, Shapes, ClientShape, SessionShape, Stopping, FetchFails,
       CreateFails, FlightFails, sessionVars, procVars, sharedVars, reaperVars, clientVars
<1>15. ASSUME NEW s \in Sessions, Spawn(s) PROVE Stopping'
  BY <1>15 DEF TypeOK, Shapes, ClientShape, SessionShape, Stopping, Spawn, sessionVars,
       procVars, sharedVars, reaperVars, clientVars
<1>16. ASSUME NEW s \in Sessions, BackendFails(s) PROVE Stopping'
  BY <1>16 DEF TypeOK, Shapes, ClientShape, SessionShape, Stopping, BackendFails,
       CreateFails, FlightFails, sessionVars, procVars, sharedVars, reaperVars, clientVars
<1>17. ASSUME NEW s \in Sessions, Commit(s) PROVE Stopping'
  BY <1>17 DEF TypeOK, Shapes, ClientShape, SessionShape, Stopping, Commit, Touch,
       sessionVars, procVars, sharedVars, reaperVars, clientVars
<1>18. ASSUME NEW s \in Sessions, SeeStopped(s) PROVE Stopping'
  BY <1>18 DEF TypeOK, Shapes, ClientShape, SessionShape, Stopping, SeeStopped,
       Supervisor, sessionVars, procVars, sharedVars, reaperVars, clientVars
<1>19. ASSUME NEW s \in Sessions, Restart(s) PROVE Stopping'
  BY <1>19 DEF TypeOK, Shapes, ClientShape, SessionShape, Stopping, Restart, Supervisor,
       sessionVars, procVars, sharedVars, reaperVars, clientVars
<1>20. ASSUME NEW s \in Sessions, GiveUp(s) PROVE Stopping'
  BY <1>20 DEF TypeOK, Shapes, ClientShape, SessionShape, Stopping, GiveUp, Supervisor,
       sessionVars, procVars, sharedVars, reaperVars, clientVars
<1>21. ASSUME NEW s \in Sessions, Respawn(s) PROVE Stopping'
  BY <1>21 DEF TypeOK, Shapes, ClientShape, SessionShape, Stopping, Respawn, Supervisor,
       sessionVars, procVars, sharedVars, reaperVars, clientVars
<1>22. ASSUME NEW s \in Sessions, RestartFails(s) PROVE Stopping'
  BY <1>22 DEF TypeOK, Shapes, ClientShape, SessionShape, Stopping, RestartFails,
       sessionVars, procVars, sharedVars, reaperVars, clientVars
<1>23. ASSUME NEW s \in Sessions, Recover(s) PROVE Stopping'
  BY <1>23 DEF TypeOK, Shapes, ClientShape, SessionShape, Stopping, Recover, Supervisor,
       sessionVars, procVars, sharedVars, reaperVars, clientVars
<1>24. ASSUME NEW s \in Sessions, SupMark(s) PROVE Stopping'
  BY <1>24 DEF TypeOK, Shapes, ClientShape, SessionShape, Stopping, SupMark, Supervisor,
       MarkStopped, sessionVars, procVars, sharedVars, reaperVars, clientVars
<1>25. ASSUME NEW s \in Sessions, SupRemove(s) PROVE Stopping'
  BY <1>25 DEF TypeOK, Shapes, ClientShape, SessionShape, Stopping, SupRemove,
       Supervisor, Deregister, sessionVars, procVars, sharedVars, reaperVars, clientVars
<1>26. ASSUME NEW s \in Sessions, SupKill(s) PROVE Stopping'
  BY <1>26 DEF TypeOK, Shapes, ClientShape, SessionShape, Stopping, SupKill, Supervisor,
       KillStream, sessionVars, procVars, sharedVars, reaperVars, clientVars
<1>27. ASSUME NEW s \in Sessions, SupRelease(s) PROVE Stopping'
  BY <1>27 DEF TypeOK, Shapes, ClientShape, SessionShape, Stopping, SupRelease,
       Supervisor, Release, sessionVars, procVars, sharedVars, reaperVars, clientVars
<1>28. ASSUME Reap PROVE Stopping'
  BY <1>28 DEF TypeOK, Shapes, ClientShape, SessionShape, Stopping, Reap, IdleSessions,
       sessionVars, procVars, sharedVars, reaperVars, clientVars
<1>29. ASSUME NEW s \in Sessions, ReapKill(s) PROVE Stopping'
  BY <1>29 DEF TypeOK, Shapes, ClientShape, SessionShape, Stopping, ReapKill, KillStream,
       sessionVars, procVars, sharedVars, reaperVars, clientVars
<1>30. ASSUME NEW s \in Sessions, ReapRelease(s) PROVE Stopping'
  BY <1>30 DEF TypeOK, Shapes, ClientShape, SessionShape, Stopping, ReapRelease, Release,
       sessionVars, procVars, sharedVars, reaperVars, clientVars
<1>31. ASSUME NEW s \in Sessions, Age(s) PROVE Stopping'
  BY <1>31 DEF TypeOK, Shapes, ClientShape, SessionShape, Stopping, Age, sessionVars,
       procVars, sharedVars, reaperVars, clientVars
<1>32. ASSUME NEW s \in Sessions, Exit(s) PROVE Stopping'
  BY <1>32 DEF TypeOK, Shapes, ClientShape, SessionShape, Stopping, Exit, sessionVars,
       procVars, sharedVars, reaperVars, clientVars
<1>33. ASSUME NEW k \in Keys, Keepalive(k) PROVE Stopping'
  BY <1>33 DEF TypeOK, Shapes, ClientShape, SessionShape, Stopping, Keepalive, Touch,
       sessionVars, procVars, sharedVars, reaperVars, clientVars
<1>34. CASE UNCHANGED vars
  BY <1>34 DEF TypeOK, Shapes, ClientShape, SessionShape, Stopping, vars, sessionVars,
       procVars, sharedVars, reaperVars, clientVars
<1>35. QED
  BY <1>1, <1>2, <1>3, <1>4, <1>5, <1>6, <1>7, <1>8, <1>9, <1>10, <1>11, <1>12, <1>13,
       <1>14, <1>15, <1>16, <1>17, <1>18, <1>19, <1>20, <1>21, <1>22, <1>23, <1>24,
       <1>25, <1>26, <1>27, <1>28, <1>29, <1>30, <1>31, <1>32, <1>33, <1>34
  DEF Next, Arrivals, Handler, Create, Supervise, Reaper

\* An owner stays one while it does not move.
LEMMA OwnersStay ==
  ASSUME SomeoneReleases,
         stopped' = stopped, released' = released, reaping' = reaping,
         \A s \in Sessions : sup[s] \in {"remove", "kill", "release"} => sup'[s] = sup[s],
         \A c \in Clients : at[c] \in {"remove", "kill", "release"} =>
                             at'[c] = at[c] /\ ref'[c] = ref[c]
  PROVE  SomeoneReleases'
  BY DEF SomeoneReleases

LEMMA OwnedStep ==
  TypeOK /\ Shapes /\ SomeoneReleases /\ [Next]_vars => SomeoneReleases'
<1> SUFFICES ASSUME TypeOK, Shapes, SomeoneReleases, [Next]_vars PROVE SomeoneReleases'
  OBVIOUS
<1> USE RelayAssumption DEF ClientPc, Phases, SupPc, Teardown
<1>1. ASSUME NEW c \in Clients, NEW r \in Requests, StartMiss(c, r) PROVE SomeoneReleases'
  BY <1>1 DEF TypeOK, Shapes, ClientShape, SessionShape, SomeoneReleases, StartMiss,
       Arrive, Goto, sessionVars, procVars, sharedVars, reaperVars, clientVars
<1>2. ASSUME NEW c \in Clients, NEW r \in Requests, StartHit(c, r) PROVE SomeoneReleases'
  BY <1>2 DEF TypeOK, Shapes, ClientShape, SessionShape, SomeoneReleases, StartHit,
       Arrive, Goto, sessionVars, procVars, sharedVars, reaperVars, clientVars
<1>3. ASSUME NEW c \in Clients, NEW r \in Requests, StartChange(c, r) PROVE SomeoneReleases'
  BY <1>3 DEF TypeOK, Shapes, ClientShape, SessionShape, SomeoneReleases, StartChange,
       Arrive, Goto, sessionVars, procVars, sharedVars, reaperVars, clientVars
<1>4. ASSUME NEW c \in Clients, ChangeMark(c) PROVE SomeoneReleases'
  BY <1>4 DEF TypeOK, Shapes, ClientShape, SessionShape, SomeoneReleases, ChangeMark,
       MarkStopped, Goto, sessionVars, procVars, sharedVars, reaperVars, clientVars
<1>5. ASSUME NEW c \in Clients, ChangeRemove(c) PROVE SomeoneReleases'
  BY <1>5 DEF TypeOK, Shapes, ClientShape, SessionShape, SomeoneReleases, ChangeRemove,
       Deregister, Goto, sessionVars, procVars, sharedVars, reaperVars, clientVars
<1>6. ASSUME NEW c \in Clients, ChangeKill(c) PROVE SomeoneReleases'
  BY <1>6 DEF TypeOK, Shapes, ClientShape, SessionShape, SomeoneReleases, ChangeKill,
       KillStream, Goto, sessionVars, procVars, sharedVars, reaperVars, clientVars
<1>7. ASSUME NEW c \in Clients, ChangeRelease(c) PROVE SomeoneReleases'
  BY <1>7 DEF TypeOK, Shapes, ClientShape, SessionShape, SomeoneReleases, ChangeRelease,
       Release, Goto, sessionVars, procVars, sharedVars, reaperVars, clientVars
<1>8. ASSUME NEW c \in Clients, Attach(c) PROVE SomeoneReleases'
  BY <1>8 DEF TypeOK, Shapes, ClientShape, SessionShape, SomeoneReleases, Attach, Touch,
       Goto, sessionVars, procVars, sharedVars, reaperVars, clientVars
<1>9. ASSUME NEW c \in Clients, NEW s \in Sessions, Join(c, s) PROVE SomeoneReleases'
  BY <1>9 DEF TypeOK, Shapes, ClientShape, SessionShape, SomeoneReleases, Join, Goto,
       sessionVars, procVars, sharedVars, reaperVars, clientVars
<1>10. ASSUME NEW c \in Clients, NEW s \in Sessions, Lead(c, s) PROVE SomeoneReleases'
  BY <1>10 DEF TypeOK, Shapes, ClientShape, SessionShape, SomeoneReleases, Lead, Goto,
       sessionVars, procVars, sharedVars, reaperVars, clientVars
<1>11. ASSUME NEW s \in Sessions, Acquire(s) PROVE SomeoneReleases'
  BY <1>11 DEF TypeOK, Shapes, ClientShape, SessionShape, SomeoneReleases, Acquire,
       sessionVars, procVars, sharedVars, reaperVars, clientVars
<1>12. ASSUME NEW s \in Sessions, Busy(s) PROVE SomeoneReleases'
  <2>1. \A c \in Clients : at[c] \in {"remove", "kill", "release"} =>
                            at'[c] = at[c] /\ ref'[c] = ref[c]
    BY <1>12 DEF Waiters, TypeOK, Busy, FlightFails, sessionVars, procVars, sharedVars,
         reaperVars, clientVars
  <2>2. \A t \in Sessions : sup[t] \in {"remove", "kill", "release"} => sup'[t] = sup[t]
    BY <1>12 DEF TypeOK, Shapes, SessionShape, Busy, FlightFails, sessionVars, procVars,
         sharedVars, reaperVars, clientVars
  <2>3. stopped' = stopped /\ released' = released /\ reaping' = reaping
    BY <1>12 DEF Busy, FlightFails, sessionVars, procVars, sharedVars, reaperVars,
         clientVars
  <2>4. QED
    BY <2>1, <2>2, <2>3, OwnersStay
<1>13. ASSUME NEW s \in Sessions, FetchOk(s) PROVE SomeoneReleases'
  BY <1>13 DEF TypeOK, Shapes, ClientShape, SessionShape, SomeoneReleases, FetchOk,
       sessionVars, procVars, sharedVars, reaperVars, clientVars
<1>14. ASSUME NEW s \in Sessions, FetchFails(s) PROVE SomeoneReleases'
  <2>1. \A c \in Clients : at[c] \in {"remove", "kill", "release"} =>
                            at'[c] = at[c] /\ ref'[c] = ref[c]
    BY <1>14 DEF Waiters, TypeOK, FetchFails, CreateFails, FlightFails, sessionVars,
         procVars, sharedVars, reaperVars, clientVars
  <2>2. \A t \in Sessions : sup[t] \in {"remove", "kill", "release"} => sup'[t] = sup[t]
    BY <1>14 DEF TypeOK, Shapes, SessionShape, FetchFails, CreateFails, FlightFails,
         sessionVars, procVars, sharedVars, reaperVars, clientVars
  <2>3. stopped' = stopped /\ released' = released /\ reaping' = reaping
    BY <1>14 DEF FetchFails, CreateFails, FlightFails, sessionVars, procVars, sharedVars,
         reaperVars, clientVars
  <2>4. QED
    BY <2>1, <2>2, <2>3, OwnersStay
<1>15. ASSUME NEW s \in Sessions, Spawn(s) PROVE SomeoneReleases'
  BY <1>15 DEF TypeOK, Shapes, ClientShape, SessionShape, SomeoneReleases, Spawn,
       sessionVars, procVars, sharedVars, reaperVars, clientVars
<1>16. ASSUME NEW s \in Sessions, BackendFails(s) PROVE SomeoneReleases'
  <2>1. \A c \in Clients : at[c] \in {"remove", "kill", "release"} =>
                            at'[c] = at[c] /\ ref'[c] = ref[c]
    BY <1>16 DEF Waiters, TypeOK, BackendFails, CreateFails, FlightFails, sessionVars,
         procVars, sharedVars, reaperVars, clientVars
  <2>2. \A t \in Sessions : sup[t] \in {"remove", "kill", "release"} => sup'[t] = sup[t]
    BY <1>16 DEF TypeOK, Shapes, SessionShape, BackendFails, CreateFails, FlightFails,
         sessionVars, procVars, sharedVars, reaperVars, clientVars
  <2>3. stopped' = stopped /\ released' = released /\ reaping' = reaping
    BY <1>16 DEF BackendFails, CreateFails, FlightFails, sessionVars, procVars,
         sharedVars, reaperVars, clientVars
  <2>4. QED
    BY <2>1, <2>2, <2>3, OwnersStay
<1>17. ASSUME NEW s \in Sessions, Commit(s) PROVE SomeoneReleases'
  <2>1. \A c \in Clients : at[c] \in {"remove", "kill", "release"} =>
                            at'[c] = at[c] /\ ref'[c] = ref[c]
    BY <1>17 DEF Waiters, TypeOK, Commit, Touch, sessionVars, procVars, sharedVars,
         reaperVars, clientVars
  <2>2. \A t \in Sessions : sup[t] \in {"remove", "kill", "release"} => sup'[t] = sup[t]
    BY <1>17 DEF TypeOK, Shapes, SessionShape, Commit, Touch, sessionVars, procVars,
         sharedVars, reaperVars, clientVars
  <2>3. stopped' = stopped /\ released' = released /\ reaping' = reaping
    BY <1>17 DEF Commit, Touch, sessionVars, procVars, sharedVars, reaperVars, clientVars
  <2>4. QED
    BY <2>1, <2>2, <2>3, OwnersStay
<1>18. ASSUME NEW s \in Sessions, SeeStopped(s) PROVE SomeoneReleases'
  BY <1>18 DEF TypeOK, Shapes, ClientShape, SessionShape, SomeoneReleases, SeeStopped,
       Supervisor, sessionVars, procVars, sharedVars, reaperVars, clientVars
<1>19. ASSUME NEW s \in Sessions, Restart(s) PROVE SomeoneReleases'
  BY <1>19 DEF TypeOK, Shapes, ClientShape, SessionShape, SomeoneReleases, Restart,
       Supervisor, sessionVars, procVars, sharedVars, reaperVars, clientVars
<1>20. ASSUME NEW s \in Sessions, GiveUp(s) PROVE SomeoneReleases'
  BY <1>20 DEF TypeOK, Shapes, ClientShape, SessionShape, SomeoneReleases, GiveUp,
       Supervisor, sessionVars, procVars, sharedVars, reaperVars, clientVars
<1>21. ASSUME NEW s \in Sessions, Respawn(s) PROVE SomeoneReleases'
  BY <1>21 DEF TypeOK, Shapes, ClientShape, SessionShape, SomeoneReleases, Respawn,
       Supervisor, sessionVars, procVars, sharedVars, reaperVars, clientVars
<1>22. ASSUME NEW s \in Sessions, RestartFails(s) PROVE SomeoneReleases'
  BY <1>22 DEF TypeOK, Shapes, ClientShape, SessionShape, SomeoneReleases, RestartFails,
       sessionVars, procVars, sharedVars, reaperVars, clientVars
<1>23. ASSUME NEW s \in Sessions, Recover(s) PROVE SomeoneReleases'
  BY <1>23 DEF TypeOK, Shapes, ClientShape, SessionShape, SomeoneReleases, Recover,
       Supervisor, sessionVars, procVars, sharedVars, reaperVars, clientVars
<1>24. ASSUME NEW s \in Sessions, SupMark(s) PROVE SomeoneReleases'
  BY <1>24 DEF TypeOK, Shapes, ClientShape, SessionShape, SomeoneReleases, SupMark,
       Supervisor, MarkStopped, sessionVars, procVars, sharedVars, reaperVars, clientVars
<1>25. ASSUME NEW s \in Sessions, SupRemove(s) PROVE SomeoneReleases'
  BY <1>25 DEF TypeOK, Shapes, ClientShape, SessionShape, SomeoneReleases, SupRemove,
       Supervisor, Deregister, sessionVars, procVars, sharedVars, reaperVars, clientVars
<1>26. ASSUME NEW s \in Sessions, SupKill(s) PROVE SomeoneReleases'
  BY <1>26 DEF TypeOK, Shapes, ClientShape, SessionShape, SomeoneReleases, SupKill,
       Supervisor, KillStream, sessionVars, procVars, sharedVars, reaperVars, clientVars
<1>27. ASSUME NEW s \in Sessions, SupRelease(s) PROVE SomeoneReleases'
  BY <1>27 DEF TypeOK, Shapes, ClientShape, SessionShape, SomeoneReleases, SupRelease,
       Supervisor, Release, sessionVars, procVars, sharedVars, reaperVars, clientVars
<1>28. ASSUME Reap PROVE SomeoneReleases'
  BY <1>28 DEF TypeOK, Shapes, ClientShape, SessionShape, SomeoneReleases, Reap,
       IdleSessions, sessionVars, procVars, sharedVars, reaperVars, clientVars
<1>29. ASSUME NEW s \in Sessions, ReapKill(s) PROVE SomeoneReleases'
  BY <1>29 DEF TypeOK, Shapes, ClientShape, SessionShape, SomeoneReleases, ReapKill,
       KillStream, sessionVars, procVars, sharedVars, reaperVars, clientVars
<1>30. ASSUME NEW s \in Sessions, ReapRelease(s) PROVE SomeoneReleases'
  BY <1>30 DEF TypeOK, Shapes, ClientShape, SessionShape, SomeoneReleases, ReapRelease,
       Release, sessionVars, procVars, sharedVars, reaperVars, clientVars
<1>31. ASSUME NEW s \in Sessions, Age(s) PROVE SomeoneReleases'
  BY <1>31 DEF TypeOK, Shapes, ClientShape, SessionShape, SomeoneReleases, Age,
       sessionVars, procVars, sharedVars, reaperVars, clientVars
<1>32. ASSUME NEW s \in Sessions, Exit(s) PROVE SomeoneReleases'
  BY <1>32 DEF TypeOK, Shapes, ClientShape, SessionShape, SomeoneReleases, Exit,
       sessionVars, procVars, sharedVars, reaperVars, clientVars
<1>33. ASSUME NEW k \in Keys, Keepalive(k) PROVE SomeoneReleases'
  BY <1>33 DEF TypeOK, Shapes, ClientShape, SessionShape, SomeoneReleases, Keepalive,
       Touch, sessionVars, procVars, sharedVars, reaperVars, clientVars
<1>34. CASE UNCHANGED vars
  BY <1>34 DEF TypeOK, Shapes, ClientShape, SessionShape, SomeoneReleases, vars,
       sessionVars, procVars, sharedVars, reaperVars, clientVars
<1>35. QED
  BY <1>1, <1>2, <1>3, <1>4, <1>5, <1>6, <1>7, <1>8, <1>9, <1>10, <1>11, <1>12, <1>13,
       <1>14, <1>15, <1>16, <1>17, <1>18, <1>19, <1>20, <1>21, <1>22, <1>23, <1>24,
       <1>25, <1>26, <1>27, <1>28, <1>29, <1>30, <1>31, <1>32, <1>33, <1>34
  DEF Next, Arrivals, Handler, Create, Supervise, Reaper

\* The session has been killed by somebody who releases it, or is released.
Doomed(s) ==
  \/ released[s]
  \/ sup[s] = "release"
  \/ victim = s
  \/ \E c \in Clients : at[c] = "release" /\ ref[c] = s

\* A session that was never restarted has no worker but the first, and none once
\* somebody has killed it.
KillShape(s) ==
  /\ phase[s] # "up" => restarts[s] = 0 /\ proc[s] = "none"
  /\ sup[s] \in {"restart", "reprobe"} => restarts[s] > 0
  /\ phase[s] = "up" /\ restarts[s] = 0 => cand[s] = "none"
  /\ phase[s] = "up" /\ desc[s].key \in Vods => restarts[s] = 0
  /\ restarts[s] = 0 /\ Doomed(s) => proc[s] # "live"

Killed == \A s \in Sessions : KillShape(s)

LEMMA KilledStep == TypeOK /\ Shapes /\ Killed /\ [Next]_vars => Killed'
<1> SUFFICES ASSUME TypeOK, Shapes, Killed, [Next]_vars PROVE Killed'
  OBVIOUS
<1> USE RelayAssumption DEF ClientPc, Phases, SupPc, Teardown
<1>1. ASSUME NEW c \in Clients, NEW r \in Requests, StartMiss(c, r) PROVE Killed'
  BY <1>1 DEF TypeOK, Shapes, ClientShape, SessionShape, Killed, KillShape, Doomed,
       StartMiss, Arrive, Goto, sessionVars, procVars, sharedVars, reaperVars, clientVars
<1>2. ASSUME NEW c \in Clients, NEW r \in Requests, StartHit(c, r) PROVE Killed'
  BY <1>2 DEF TypeOK, Shapes, ClientShape, SessionShape, Killed, KillShape, Doomed,
       StartHit, Arrive, Goto, sessionVars, procVars, sharedVars, reaperVars, clientVars
<1>3. ASSUME NEW c \in Clients, NEW r \in Requests, StartChange(c, r) PROVE Killed'
  BY <1>3 DEF TypeOK, Shapes, ClientShape, SessionShape, Killed, KillShape, Doomed,
       StartChange, Arrive, Goto, sessionVars, procVars, sharedVars, reaperVars,
       clientVars
<1>4. ASSUME NEW c \in Clients, ChangeMark(c) PROVE Killed'
  BY <1>4 DEF TypeOK, Shapes, ClientShape, SessionShape, Killed, KillShape, Doomed,
       ChangeMark, MarkStopped, Goto, sessionVars, procVars, sharedVars, reaperVars,
       clientVars
<1>5. ASSUME NEW c \in Clients, ChangeRemove(c) PROVE Killed'
  BY <1>5 DEF TypeOK, Shapes, ClientShape, SessionShape, Killed, KillShape, Doomed,
       ChangeRemove, Deregister, Goto, sessionVars, procVars, sharedVars, reaperVars,
       clientVars
<1>6. ASSUME NEW c \in Clients, ChangeKill(c) PROVE Killed'
  BY <1>6 DEF TypeOK, Shapes, ClientShape, SessionShape, Killed, KillShape, Doomed,
       ChangeKill, KillStream, Goto, sessionVars, procVars, sharedVars, reaperVars,
       clientVars
<1>7. ASSUME NEW c \in Clients, ChangeRelease(c) PROVE Killed'
  BY <1>7 DEF TypeOK, Shapes, ClientShape, SessionShape, Killed, KillShape, Doomed,
       ChangeRelease, Release, Goto, sessionVars, procVars, sharedVars, reaperVars,
       clientVars
<1>8. ASSUME NEW c \in Clients, Attach(c) PROVE Killed'
  BY <1>8 DEF TypeOK, Shapes, ClientShape, SessionShape, Killed, KillShape, Doomed,
       Attach, Touch, Goto, sessionVars, procVars, sharedVars, reaperVars, clientVars
<1>9. ASSUME NEW c \in Clients, NEW s \in Sessions, Join(c, s) PROVE Killed'
  BY <1>9 DEF TypeOK, Shapes, ClientShape, SessionShape, Killed, KillShape, Doomed, Join,
       Goto, sessionVars, procVars, sharedVars, reaperVars, clientVars
<1>10. ASSUME NEW c \in Clients, NEW s \in Sessions, Lead(c, s) PROVE Killed'
  BY <1>10 DEF TypeOK, Shapes, ClientShape, SessionShape, Killed, KillShape, Doomed,
       Lead, Goto, sessionVars, procVars, sharedVars, reaperVars, clientVars
<1>11. ASSUME NEW s \in Sessions, Acquire(s) PROVE Killed'
  BY <1>11 DEF TypeOK, Shapes, ClientShape, SessionShape, Killed, KillShape, Doomed,
       Acquire, sessionVars, procVars, sharedVars, reaperVars, clientVars
<1>12. ASSUME NEW s \in Sessions, Busy(s) PROVE Killed'
  BY <1>12 DEF TypeOK, Shapes, ClientShape, SessionShape, Killed, KillShape, Doomed,
       Busy, FlightFails, sessionVars, procVars, sharedVars, reaperVars, clientVars
<1>13. ASSUME NEW s \in Sessions, FetchOk(s) PROVE Killed'
  BY <1>13 DEF TypeOK, Shapes, ClientShape, SessionShape, Killed, KillShape, Doomed,
       FetchOk, sessionVars, procVars, sharedVars, reaperVars, clientVars
<1>14. ASSUME NEW s \in Sessions, FetchFails(s) PROVE Killed'
  BY <1>14 DEF TypeOK, Shapes, ClientShape, SessionShape, Killed, KillShape, Doomed,
       FetchFails, CreateFails, FlightFails, sessionVars, procVars, sharedVars,
       reaperVars, clientVars
<1>15. ASSUME NEW s \in Sessions, Spawn(s) PROVE Killed'
  BY <1>15 DEF TypeOK, Shapes, ClientShape, SessionShape, Killed, KillShape, Doomed,
       Spawn, sessionVars, procVars, sharedVars, reaperVars, clientVars
<1>16. ASSUME NEW s \in Sessions, BackendFails(s) PROVE Killed'
  BY <1>16 DEF TypeOK, Shapes, ClientShape, SessionShape, Killed, KillShape, Doomed,
       BackendFails, CreateFails, FlightFails, sessionVars, procVars, sharedVars,
       reaperVars, clientVars
<1>17. ASSUME NEW s \in Sessions, Commit(s) PROVE Killed'
  BY <1>17 DEF TypeOK, Shapes, ClientShape, SessionShape, Killed, KillShape, Doomed,
       Commit, Touch, sessionVars, procVars, sharedVars, reaperVars, clientVars
<1>18. ASSUME NEW s \in Sessions, SeeStopped(s) PROVE Killed'
  BY <1>18 DEF TypeOK, Shapes, ClientShape, SessionShape, Killed, KillShape, Doomed,
       SeeStopped, Supervisor, sessionVars, procVars, sharedVars, reaperVars, clientVars
<1>19. ASSUME NEW s \in Sessions, Restart(s) PROVE Killed'
  BY <1>19 DEF TypeOK, Shapes, ClientShape, SessionShape, Killed, KillShape, Doomed,
       Restart, Supervisor, sessionVars, procVars, sharedVars, reaperVars, clientVars
<1>20. ASSUME NEW s \in Sessions, GiveUp(s) PROVE Killed'
  BY <1>20 DEF TypeOK, Shapes, ClientShape, SessionShape, Killed, KillShape, Doomed,
       GiveUp, Supervisor, sessionVars, procVars, sharedVars, reaperVars, clientVars
<1>21. ASSUME NEW s \in Sessions, Respawn(s) PROVE Killed'
  BY <1>21 DEF TypeOK, Shapes, ClientShape, SessionShape, Killed, KillShape, Doomed,
       Respawn, Supervisor, sessionVars, procVars, sharedVars, reaperVars, clientVars
<1>22. ASSUME NEW s \in Sessions, RestartFails(s) PROVE Killed'
  BY <1>22 DEF TypeOK, Shapes, ClientShape, SessionShape, Killed, KillShape, Doomed,
       RestartFails, sessionVars, procVars, sharedVars, reaperVars, clientVars
<1>23. ASSUME NEW s \in Sessions, Recover(s) PROVE Killed'
  BY <1>23 DEF TypeOK, Shapes, ClientShape, SessionShape, Killed, KillShape, Doomed,
       Recover, Supervisor, sessionVars, procVars, sharedVars, reaperVars, clientVars
<1>24. ASSUME NEW s \in Sessions, SupMark(s) PROVE Killed'
  BY <1>24 DEF TypeOK, Shapes, ClientShape, SessionShape, Killed, KillShape, Doomed,
       SupMark, Supervisor, MarkStopped, sessionVars, procVars, sharedVars, reaperVars,
       clientVars
<1>25. ASSUME NEW s \in Sessions, SupRemove(s) PROVE Killed'
  BY <1>25 DEF TypeOK, Shapes, ClientShape, SessionShape, Killed, KillShape, Doomed,
       SupRemove, Supervisor, Deregister, sessionVars, procVars, sharedVars, reaperVars,
       clientVars
<1>26. ASSUME NEW s \in Sessions, SupKill(s) PROVE Killed'
  BY <1>26 DEF TypeOK, Shapes, ClientShape, SessionShape, Killed, KillShape, Doomed,
       SupKill, Supervisor, KillStream, sessionVars, procVars, sharedVars, reaperVars,
       clientVars
<1>27. ASSUME NEW s \in Sessions, SupRelease(s) PROVE Killed'
  BY <1>27 DEF TypeOK, Shapes, ClientShape, SessionShape, Killed, KillShape, Doomed,
       SupRelease, Supervisor, Release, sessionVars, procVars, sharedVars, reaperVars,
       clientVars
<1>28. ASSUME Reap PROVE Killed'
  BY <1>28 DEF TypeOK, Shapes, ClientShape, SessionShape, Killed, KillShape, Doomed,
       Reap, IdleSessions, sessionVars, procVars, sharedVars, reaperVars, clientVars
<1>29. ASSUME NEW s \in Sessions, ReapKill(s) PROVE Killed'
  BY <1>29 DEF TypeOK, Shapes, ClientShape, SessionShape, Killed, KillShape, Doomed,
       ReapKill, KillStream, sessionVars, procVars, sharedVars, reaperVars, clientVars
<1>30. ASSUME NEW s \in Sessions, ReapRelease(s) PROVE Killed'
  BY <1>30 DEF TypeOK, Shapes, ClientShape, SessionShape, Killed, KillShape, Doomed,
       ReapRelease, Release, sessionVars, procVars, sharedVars, reaperVars, clientVars
<1>31. ASSUME NEW s \in Sessions, Age(s) PROVE Killed'
  BY <1>31 DEF TypeOK, Shapes, ClientShape, SessionShape, Killed, KillShape, Doomed, Age,
       sessionVars, procVars, sharedVars, reaperVars, clientVars
<1>32. ASSUME NEW s \in Sessions, Exit(s) PROVE Killed'
  BY <1>32 DEF TypeOK, Shapes, ClientShape, SessionShape, Killed, KillShape, Doomed,
       Exit, sessionVars, procVars, sharedVars, reaperVars, clientVars
<1>33. ASSUME NEW k \in Keys, Keepalive(k) PROVE Killed'
  BY <1>33 DEF TypeOK, Shapes, ClientShape, SessionShape, Killed, KillShape, Doomed,
       Keepalive, Touch, sessionVars, procVars, sharedVars, reaperVars, clientVars
<1>34. CASE UNCHANGED vars
  BY <1>34 DEF TypeOK, Shapes, ClientShape, SessionShape, Killed, KillShape, Doomed,
       vars, sessionVars, procVars, sharedVars, reaperVars, clientVars
<1>35. QED
  BY <1>1, <1>2, <1>3, <1>4, <1>5, <1>6, <1>7, <1>8, <1>9, <1>10, <1>11, <1>12, <1>13,
       <1>14, <1>15, <1>16, <1>17, <1>18, <1>19, <1>20, <1>21, <1>22, <1>23, <1>24,
       <1>25, <1>26, <1>27, <1>28, <1>29, <1>30, <1>31, <1>32, <1>33, <1>34
  DEF Next, Arrivals, Handler, Create, Supervise, Reaper

LEMMA OwnedInit == Init => Stopping /\ SomeoneReleases /\ Killed
  BY RelayAssumption DEF Init, Stopping, SomeoneReleases, Killed, KillShape, Doomed

\* Whoever tears a session down has stopped it, a stopped session has somebody who
\* releases it, and a session past its kill has no worker unless it was restarted.
THEOREM Ownership == Spec => [](Stopping /\ SomeoneReleases /\ Killed)
<1>1. IInv /\ Stopping /\ SomeoneReleases /\ Killed /\ [Next]_vars
        => (Stopping /\ SomeoneReleases /\ Killed)'
  BY StoppingStep, OwnedStep, KilledStep DEF IInv
<1>2. QED
  BY <1>1, OwnedInit, Inductive, PTL DEF Spec

\* A stopped session that still holds its slot is being torn down by somebody who
\* will release it.
THEOREM StoppedIsOwned == Spec => []SomeoneReleases
  BY Ownership, PTL

\* Only a restart race leaves a worker behind: no session that was never restarted,
\* and no VOD, has a live worker after its slot is released.
THEOREM LeakOnlyByRestart == Spec => []LeakNeedsRestart
<1>1. IInv /\ Killed => LeakNeedsRestart
  <2> SUFFICES ASSUME IInv, Killed, NEW s \in Sessions, released[s],
                      "live" \in {proc[s], cand[s]}
               PROVE  restarts[s] > 0 /\ desc[s].key \notin Vods
    BY DEF LeakNeedsRestart
  <2>1. phase[s] = "up" /\ restarts[s] \in Nat
    BY DEF IInv, TypeOK, Shapes, SessionShape
  <2>2. restarts[s] # 0
    BY <2>1 DEF Killed, KillShape, Doomed
  <2>3. QED
    BY <2>1, <2>2 DEF Killed, KillShape
<1>2. QED
  BY <1>1, Inductive, Ownership, PTL

\* A slot leaves the hands of a session only when its create fails or it was stopped.
LEMMA FreedStep ==
  ASSUME TypeOK, Shapes, Stopping, [Next]_vars,
         NEW t \in Sessions, t \in Holding, t \notin Holding'
  PROVE  stopped[t] \/ phase'[t] = "free"
<1> USE RelayAssumption DEF ClientPc, Phases, SupPc, Teardown
<1>1. ASSUME NEW c \in Clients, NEW r \in Requests, StartMiss(c, r)
      PROVE  stopped[t] \/ phase'[t] = "free"
  BY <1>1 DEF TypeOK, Shapes, ClientShape, SessionShape, Stopping, Holding, StartMiss,
       Arrive, Goto, sessionVars, procVars, sharedVars, reaperVars, clientVars
<1>2. ASSUME NEW c \in Clients, NEW r \in Requests, StartHit(c, r)
      PROVE  stopped[t] \/ phase'[t] = "free"
  BY <1>2 DEF TypeOK, Shapes, ClientShape, SessionShape, Stopping, Holding, StartHit,
       Arrive, Goto, sessionVars, procVars, sharedVars, reaperVars, clientVars
<1>3. ASSUME NEW c \in Clients, NEW r \in Requests, StartChange(c, r)
      PROVE  stopped[t] \/ phase'[t] = "free"
  BY <1>3 DEF TypeOK, Shapes, ClientShape, SessionShape, Stopping, Holding, StartChange,
       Arrive, Goto, sessionVars, procVars, sharedVars, reaperVars, clientVars
<1>4. ASSUME NEW c \in Clients, ChangeMark(c) PROVE stopped[t] \/ phase'[t] = "free"
  BY <1>4 DEF TypeOK, Shapes, ClientShape, SessionShape, Stopping, Holding, ChangeMark,
       MarkStopped, Goto, sessionVars, procVars, sharedVars, reaperVars, clientVars
<1>5. ASSUME NEW c \in Clients, ChangeRemove(c) PROVE stopped[t] \/ phase'[t] = "free"
  BY <1>5 DEF TypeOK, Shapes, ClientShape, SessionShape, Stopping, Holding, ChangeRemove,
       Deregister, Goto, sessionVars, procVars, sharedVars, reaperVars, clientVars
<1>6. ASSUME NEW c \in Clients, ChangeKill(c) PROVE stopped[t] \/ phase'[t] = "free"
  BY <1>6 DEF TypeOK, Shapes, ClientShape, SessionShape, Stopping, Holding, ChangeKill,
       KillStream, Goto, sessionVars, procVars, sharedVars, reaperVars, clientVars
<1>7. ASSUME NEW c \in Clients, ChangeRelease(c) PROVE stopped[t] \/ phase'[t] = "free"
  BY <1>7 DEF TypeOK, Shapes, ClientShape, SessionShape, Stopping, Holding,
       ChangeRelease, Release, Goto, sessionVars, procVars, sharedVars, reaperVars,
       clientVars
<1>8. ASSUME NEW c \in Clients, Attach(c) PROVE stopped[t] \/ phase'[t] = "free"
  BY <1>8 DEF TypeOK, Shapes, ClientShape, SessionShape, Stopping, Holding, Attach,
       Touch, Goto, sessionVars, procVars, sharedVars, reaperVars, clientVars
<1>9. ASSUME NEW c \in Clients, NEW s \in Sessions, Join(c, s)
      PROVE  stopped[t] \/ phase'[t] = "free"
  BY <1>9 DEF TypeOK, Shapes, ClientShape, SessionShape, Stopping, Holding, Join, Goto,
       sessionVars, procVars, sharedVars, reaperVars, clientVars
<1>10. ASSUME NEW c \in Clients, NEW s \in Sessions, Lead(c, s)
      PROVE  stopped[t] \/ phase'[t] = "free"
  BY <1>10 DEF TypeOK, Shapes, ClientShape, SessionShape, Stopping, Holding, Lead, Goto,
       sessionVars, procVars, sharedVars, reaperVars, clientVars
<1>11. ASSUME NEW s \in Sessions, Acquire(s) PROVE stopped[t] \/ phase'[t] = "free"
  BY <1>11 DEF TypeOK, Shapes, ClientShape, SessionShape, Stopping, Holding, Acquire,
       sessionVars, procVars, sharedVars, reaperVars, clientVars
<1>12. ASSUME NEW s \in Sessions, Busy(s) PROVE stopped[t] \/ phase'[t] = "free"
  BY <1>12 DEF TypeOK, Shapes, ClientShape, SessionShape, Stopping, Holding, Busy,
       FlightFails, sessionVars, procVars, sharedVars, reaperVars, clientVars
<1>13. ASSUME NEW s \in Sessions, FetchOk(s) PROVE stopped[t] \/ phase'[t] = "free"
  BY <1>13 DEF TypeOK, Shapes, ClientShape, SessionShape, Stopping, Holding, FetchOk,
       sessionVars, procVars, sharedVars, reaperVars, clientVars
<1>14. ASSUME NEW s \in Sessions, FetchFails(s) PROVE stopped[t] \/ phase'[t] = "free"
  BY <1>14 DEF TypeOK, Shapes, ClientShape, SessionShape, Stopping, Holding, FetchFails,
       CreateFails, FlightFails, sessionVars, procVars, sharedVars, reaperVars, clientVars
<1>15. ASSUME NEW s \in Sessions, Spawn(s) PROVE stopped[t] \/ phase'[t] = "free"
  BY <1>15 DEF TypeOK, Shapes, ClientShape, SessionShape, Stopping, Holding, Spawn,
       sessionVars, procVars, sharedVars, reaperVars, clientVars
<1>16. ASSUME NEW s \in Sessions, BackendFails(s) PROVE stopped[t] \/ phase'[t] = "free"
  BY <1>16 DEF TypeOK, Shapes, ClientShape, SessionShape, Stopping, Holding,
       BackendFails, CreateFails, FlightFails, sessionVars, procVars, sharedVars,
       reaperVars, clientVars
<1>17. ASSUME NEW s \in Sessions, Commit(s) PROVE stopped[t] \/ phase'[t] = "free"
  BY <1>17 DEF TypeOK, Shapes, ClientShape, SessionShape, Stopping, Holding, Commit,
       Touch, sessionVars, procVars, sharedVars, reaperVars, clientVars
<1>18. ASSUME NEW s \in Sessions, SeeStopped(s) PROVE stopped[t] \/ phase'[t] = "free"
  BY <1>18 DEF TypeOK, Shapes, ClientShape, SessionShape, Stopping, Holding, SeeStopped,
       Supervisor, sessionVars, procVars, sharedVars, reaperVars, clientVars
<1>19. ASSUME NEW s \in Sessions, Restart(s) PROVE stopped[t] \/ phase'[t] = "free"
  BY <1>19 DEF TypeOK, Shapes, ClientShape, SessionShape, Stopping, Holding, Restart,
       Supervisor, sessionVars, procVars, sharedVars, reaperVars, clientVars
<1>20. ASSUME NEW s \in Sessions, GiveUp(s) PROVE stopped[t] \/ phase'[t] = "free"
  BY <1>20 DEF TypeOK, Shapes, ClientShape, SessionShape, Stopping, Holding, GiveUp,
       Supervisor, sessionVars, procVars, sharedVars, reaperVars, clientVars
<1>21. ASSUME NEW s \in Sessions, Respawn(s) PROVE stopped[t] \/ phase'[t] = "free"
  BY <1>21 DEF TypeOK, Shapes, ClientShape, SessionShape, Stopping, Holding, Respawn,
       Supervisor, sessionVars, procVars, sharedVars, reaperVars, clientVars
<1>22. ASSUME NEW s \in Sessions, RestartFails(s) PROVE stopped[t] \/ phase'[t] = "free"
  BY <1>22 DEF TypeOK, Shapes, ClientShape, SessionShape, Stopping, Holding,
       RestartFails, sessionVars, procVars, sharedVars, reaperVars, clientVars
<1>23. ASSUME NEW s \in Sessions, Recover(s) PROVE stopped[t] \/ phase'[t] = "free"
  BY <1>23 DEF TypeOK, Shapes, ClientShape, SessionShape, Stopping, Holding, Recover,
       Supervisor, sessionVars, procVars, sharedVars, reaperVars, clientVars
<1>24. ASSUME NEW s \in Sessions, SupMark(s) PROVE stopped[t] \/ phase'[t] = "free"
  BY <1>24 DEF TypeOK, Shapes, ClientShape, SessionShape, Stopping, Holding, SupMark,
       Supervisor, MarkStopped, sessionVars, procVars, sharedVars, reaperVars, clientVars
<1>25. ASSUME NEW s \in Sessions, SupRemove(s) PROVE stopped[t] \/ phase'[t] = "free"
  BY <1>25 DEF TypeOK, Shapes, ClientShape, SessionShape, Stopping, Holding, SupRemove,
       Supervisor, Deregister, sessionVars, procVars, sharedVars, reaperVars, clientVars
<1>26. ASSUME NEW s \in Sessions, SupKill(s) PROVE stopped[t] \/ phase'[t] = "free"
  BY <1>26 DEF TypeOK, Shapes, ClientShape, SessionShape, Stopping, Holding, SupKill,
       Supervisor, KillStream, sessionVars, procVars, sharedVars, reaperVars, clientVars
<1>27. ASSUME NEW s \in Sessions, SupRelease(s) PROVE stopped[t] \/ phase'[t] = "free"
  BY <1>27 DEF TypeOK, Shapes, ClientShape, SessionShape, Stopping, Holding, SupRelease,
       Supervisor, Release, sessionVars, procVars, sharedVars, reaperVars, clientVars
<1>28. ASSUME Reap PROVE stopped[t] \/ phase'[t] = "free"
  BY <1>28 DEF TypeOK, Shapes, ClientShape, SessionShape, Stopping, Holding, Reap,
       IdleSessions, sessionVars, procVars, sharedVars, reaperVars, clientVars
<1>29. ASSUME NEW s \in Sessions, ReapKill(s) PROVE stopped[t] \/ phase'[t] = "free"
  BY <1>29 DEF TypeOK, Shapes, ClientShape, SessionShape, Stopping, Holding, ReapKill,
       KillStream, sessionVars, procVars, sharedVars, reaperVars, clientVars
<1>30. ASSUME NEW s \in Sessions, ReapRelease(s) PROVE stopped[t] \/ phase'[t] = "free"
  BY <1>30 DEF TypeOK, Shapes, ClientShape, SessionShape, Stopping, Holding, ReapRelease,
       Release, sessionVars, procVars, sharedVars, reaperVars, clientVars
<1>31. ASSUME NEW s \in Sessions, Age(s) PROVE stopped[t] \/ phase'[t] = "free"
  BY <1>31 DEF TypeOK, Shapes, ClientShape, SessionShape, Stopping, Holding, Age,
       sessionVars, procVars, sharedVars, reaperVars, clientVars
<1>32. ASSUME NEW s \in Sessions, Exit(s) PROVE stopped[t] \/ phase'[t] = "free"
  BY <1>32 DEF TypeOK, Shapes, ClientShape, SessionShape, Stopping, Holding, Exit,
       sessionVars, procVars, sharedVars, reaperVars, clientVars
<1>33. ASSUME NEW k \in Keys, Keepalive(k) PROVE stopped[t] \/ phase'[t] = "free"
  BY <1>33 DEF TypeOK, Shapes, ClientShape, SessionShape, Stopping, Holding, Keepalive,
       Touch, sessionVars, procVars, sharedVars, reaperVars, clientVars
<1>34. CASE UNCHANGED vars
  BY <1>34 DEF TypeOK, Shapes, ClientShape, SessionShape, Stopping, Holding, vars,
       sessionVars, procVars, sharedVars, reaperVars, clientVars
<1>35. QED
  BY <1>1, <1>2, <1>3, <1>4, <1>5, <1>6, <1>7, <1>8, <1>9, <1>10, <1>11, <1>12, <1>13,
       <1>14, <1>15, <1>16, <1>17, <1>18, <1>19, <1>20, <1>21, <1>22, <1>23, <1>24,
       <1>25, <1>26, <1>27, <1>28, <1>29, <1>30, <1>31, <1>32, <1>33, <1>34
  DEF Next, Arrivals, Handler, Create, Supervise, Reaper

\* A slot is given back by a session that was stopped, or by a create that failed.
THEOREM SlotsOfStopped == Spec => OnlyStoppedFreed
<1>1. IInv /\ Stopping /\ [Next]_vars =>
        [\A s \in Sessions : s \in Holding /\ s \notin Holding' =>
           stopped[s] \/ phase'[s] = "free"]_vars
  BY FreedStep DEF IInv
<1>2. QED
  BY <1>1, Inductive, Ownership, PTL DEF Spec, OnlyStoppedFreed

-----------------------------------------------------------------------------
(* Next to the relays: playlists, playback and the start of a worker.       *)

USE VideoPartsAssumption

-----------------------------------------------------------------------------
(* Playlists: where the proxy connects to.                                  *)

\* A URL that is fetched, or has been dialled, passed allowedProxyURL, and what was dialled
\* is public.
Approved ==
  /\ pl_at \in {"fetch", "head"} => Lists!allowedProxyURL(pl_url)
  /\ pl_dialled # pl_None => pl_dialled.ip = "public" /\ Lists!allowedProxyURL(pl_dialled.url)
  /\ pl_hops \in 0 .. pl_MaxRedirect

\* A dial is for the port that goes with the scheme.
LEMMA DialledPort ==
  ASSUME NEW u, Lists!allowedProxyURL(u)
  PROVE  <<u.scheme, Lists!PortOf(u)>> \in {<<"http", "80">>, <<"https", "443">>}
BY DEF Lists!allowedProxyURL, Lists!PortOf

LEMMA ApprovedInit == Lists!Init => Approved
BY DEF Lists!Init, Approved

LEMMA ApprovedStep == Approved /\ [Lists!Next]_(Lists!vars) => Approved'
<1> SUFFICES ASSUME Approved, [Lists!Next]_(Lists!vars) PROVE Approved'
  OBVIOUS
<1> USE DEF Approved
<1>1. ASSUME NEW u \in pl_Urls, Lists!Ask(u) PROVE Approved'
  BY <1>1 DEF Lists!Ask
<1>2. ASSUME NEW answer \in Lists!DnsAnswers, Lists!Dial(answer) PROVE Approved'
  BY <1>2 DEF Lists!Dial, Lists!FirstPublic, Lists!isBlockedProxyIP
<1>3. ASSUME NEW u \in pl_Urls \cup {pl_None}, Lists!Redirected(u) PROVE Approved'
  BY <1>3 DEF Lists!Redirected
<1>4. CASE Lists!Answered \/ Lists!FetchFails \/ Lists!Slide
  BY <1>4 DEF Lists!Answered, Lists!FetchFails, Lists!Slide
<1>5. CASE UNCHANGED Lists!vars
  BY <1>5 DEF Lists!vars
<1>6. QED
  BY <1>1, <1>2, <1>3, <1>4, <1>5 DEF Lists!Next

(***************************************************************************)
(* Wherever redirects and DNS lead, the proxy connects only to public      *)
(* addresses of Twitch's hosts, for plain URLs and the ports that go with  *)
(* them, and follows no more redirects than it may (proxy_client.go).      *)
(***************************************************************************)
THEOREM ProxyStaysWhereItMay == Lists!Spec => []FollowsApproved
<1>1. Approved => FollowsApproved
  BY DialledPort DEF Approved, FollowsApproved, Lists!FollowsApproved, Lists!allowedProxyURL
<1>2. QED
  BY ApprovedInit, ApprovedStep, <1>1, PTL DEF Lists!Spec

-----------------------------------------------------------------------------
(* Playlists: the ads.  A playlist is read segment by segment; Cut is what  *)
(* holds before each of them, by induction over the segments shown.         *)

\* The lines of a playlist, and what is held between two of them.
Disc == [tag |-> "disc"]
TimeOf(n) == [tag |-> "time", time |-> Lists!StartOf(n)]
SegOf(n) == [tag |-> "seg", no |-> n, amazon |-> pl_layout.titled /\ n \in pl_ads]

Lines == UNION {{Disc, TimeOf(n), SegOf(n)} : n \in Int}

Accs == [out : Seq(Lines), time : Int, pending : Int]

Fresh == [out |-> <<>>, time |-> 0, pending |-> 0]

\* The clock at the beginning of segment n.
Clock(n) == IF pl_layout.dated = "none" THEN 0 ELSE Lists!StartOf(n)

\* The segments among the lines that are kept; each has its time before it; two of them with
\* none between them are neighbours, or a discontinuity keeps them apart.
SegNos(o) == {o[i].no : i \in {j \in DOMAIN o : o[j].tag = "seg"}}

Timed(o) ==
  \A i \in DOMAIN o : o[i].tag = "seg" /\ pl_layout.dated # "none" =>
    i > 1 /\ o[i - 1] = TimeOf(o[i].no)

Apart(n, m, marks) == n < m /\ Cardinality(marks) = IF m = n + 1 THEN 0 ELSE 1

Marks(o, i, j) == {k \in i .. j : o[k].tag = "disc"}

Spaced(o) ==
  \A i, j \in DOMAIN o :
    i < j /\ o[i].tag = "seg" /\ o[j].tag = "seg" /\ (\A k \in i + 1 .. j - 1 : o[k].tag # "seg")
      => Apart(o[i].no, o[j].no, Marks(o, i + 1, j - 1))

\* And so may segment n come next.
Gap(o, n) ==
  \A i \in DOMAIN o :
    o[i].tag = "seg" /\ (\A k \in i + 1 .. Len(o) : o[k].tag # "seg")
      => Apart(o[i].no, n, Marks(o, i + 1, Len(o)))

\* The last segment is the one before the break, and the discontinuity is there.
CutOff(o) ==
  /\ Len(o) > 1 /\ o[Len(o)] = Disc
  /\ o[Len(o) - 1].tag = "seg" /\ o[Len(o) - 1].no + 1 \in pl_ads

EndsWith(o, n) == Len(o) > 0 /\ o[Len(o)].tag = "seg" /\ o[Len(o)].no = n

\* How what is kept ends before segment n and, in TailIn, once the discontinuity that may be
\* there has been read: without a segment, with the one before n, or with the break.
TailOf(n, o) ==
  \/ o \in {<<>>, <<Disc>>}
  \/ n - 1 \notin pl_ads /\ EndsWith(o, n - 1)
  \/ n - 1 \in pl_ads /\ CutOff(o)

TailIn(n, o) ==
  \/ o \in {<<>>, <<Disc>>}
  \/ n \notin pl_ads /\ EndsWith(o, n - 1)
  \/ CutOff(o)

\* What is held when the segments before n have been read, and among the lines of n.
Cut(n, acc) ==
  /\ acc.pending = 0 /\ acc.time = IF n = pl_first THEN 0 ELSE Clock(n)
  /\ SegNos(acc.out) = (pl_first .. n - 1) \ pl_ads
  /\ Timed(acc.out) /\ Spaced(acc.out) /\ TailOf(n, acc.out)

Inside(n, acc) ==
  /\ acc \in Accs
  /\ SegNos(acc.out) = (pl_first .. n - 1) \ pl_ads
  /\ Timed(acc.out) /\ Spaced(acc.out) /\ TailIn(n, acc.out)

\* A set that has 0 and, with n, n + 1, has every number.
LEMMA AllNumbers ==
  ASSUME NEW S, 0 \in S, \A n \in Nat : n \in S => n + 1 \in S
  PROVE  Nat \subseteq S
<1> SUFFICES ASSUME Nat \ S # {} PROVE FALSE
  OBVIOUS
<1> DEFINE T == {0 .. n : n \in Nat \ S}
           R == StrictSubsetOrdering(Nat)
<1>1. T # {} /\ \A t \in T : t \in SUBSET Nat
  OBVIOUS
<1>2. \A t \in T : IsFiniteSet(t)
  BY FS_Interval
<1>3. T \subseteq FiniteSubsetsOf(Nat)
  BY <1>1, <1>2 DEF FiniteSubsetsOf
<1>4. PICK t \in T : \A u \in T : ~(<<u, t>> \in R)
  <2> HIDE DEF T, R
  <2>1. IsWellFoundedOn(R, FiniteSubsetsOf(Nat))
    BY FS_StrictSubsetOrderingWellFounded DEF R
  <2>2. QED
    BY <1>1, <1>3, <2>1, WFMin
<1>5. PICK m \in Nat \ S : t = 0 .. m
  OBVIOUS
<1>6. m # 0 /\ m - 1 \in Nat
  OBVIOUS
<1>7. m - 1 \in S
  <2>1. SUFFICES ASSUME m - 1 \notin S PROVE FALSE
    OBVIOUS
  <2>2. 0 .. (m - 1) \in T
    BY <1>6, <2>1
  <2>3. 0 .. (m - 1) \subseteq 0 .. m /\ 0 .. (m - 1) # 0 .. m
    BY <1>6
  <2>4. <<0 .. (m - 1), 0 .. m>> \in R
    BY <1>6, <2>3 DEF StrictSubsetOrdering
  <2>5. QED
    BY <1>4, <1>5, <2>2, <2>4
<1>8. QED
  BY <1>5, <1>6, <1>7

\* One line more.
LEMMA AppendParts ==
  ASSUME NEW S, NEW o \in Seq(S), NEW x \in S
  PROVE  /\ Append(o, x) \in Seq(S)
         /\ Len(Append(o, x)) = Len(o) + 1 /\ Len(o) \in Nat
         /\ DOMAIN o = 1 .. Len(o) /\ DOMAIN Append(o, x) = 1 .. Len(o) + 1
         /\ Append(o, x)[Len(o) + 1] = x
         /\ \A i \in 1 .. Len(o) : Append(o, x)[i] = o[i]
OBVIOUS

\* A line that is no segment changes nothing about the segments before it.
LEMMA AddMark ==
  ASSUME NEW o \in Seq(Lines), NEW x \in Lines, x.tag # "seg"
  PROVE  LET p == Append(o, x) IN
         /\ SegNos(p) = SegNos(o)
         /\ Timed(o) => Timed(p)
         /\ Spaced(o) => Spaced(p)
<1> DEFINE p == Append(o, x)
<1>1. /\ Len(o) \in Nat /\ DOMAIN o = 1 .. Len(o) /\ DOMAIN p = 1 .. Len(o) + 1
      /\ p[Len(o) + 1].tag # "seg" /\ \A i \in 1 .. Len(o) : p[i] = o[i]
  BY AppendParts
<1> HIDE DEF p
<1>2. {i \in DOMAIN p : p[i].tag = "seg"} = {i \in DOMAIN o : o[i].tag = "seg"}
  BY <1>1
<1>3. SegNos(p) = SegNos(o)
  BY <1>1, <1>2 DEF SegNos
<1>4. ASSUME Timed(o) PROVE Timed(p)
  <2> SUFFICES ASSUME NEW i \in DOMAIN p, p[i].tag = "seg", pl_layout.dated # "none"
               PROVE  i > 1 /\ p[i - 1] = TimeOf(p[i].no)
    BY DEF Timed
  <2>1. i \in DOMAIN o /\ p[i] = o[i]
    BY <1>1
  <2>2. i > 1 /\ o[i - 1] = TimeOf(o[i].no)
    BY <1>4, <2>1 DEF Timed
  <2>3. QED
    BY <1>1, <2>1, <2>2
<1>5. ASSUME Spaced(o) PROVE Spaced(p)
  <2> SUFFICES ASSUME NEW i \in DOMAIN p, NEW j \in DOMAIN p,
                      i < j, p[i].tag = "seg", p[j].tag = "seg",
                      \A k \in i + 1 .. j - 1 : p[k].tag # "seg"
               PROVE  Apart(p[i].no, p[j].no, Marks(p, i + 1, j - 1))
    BY DEF Spaced
  <2>1. i \in DOMAIN o /\ j \in DOMAIN o /\ p[i] = o[i] /\ p[j] = o[j]
    BY <1>1
  <2>2. \A k \in i + 1 .. j - 1 : p[k] = o[k]
    BY <1>1, <2>1
  <2>3. Marks(p, i + 1, j - 1) = Marks(o, i + 1, j - 1)
    BY <2>2 DEF Marks
  <2>4. QED
    BY <1>5, <2>1, <2>2, <2>3 DEF Spaced
<1>6. QED
  BY <1>3, <1>4, <1>5 DEF p

\* A segment at its time, as far from the last one as it should be.
LEMMA AddSeg ==
  ASSUME NEW o \in Seq(Lines), NEW x \in Lines, x.tag = "seg",
         Timed(o), Spaced(o), Gap(o, x.no),
         pl_layout.dated # "none" => Len(o) > 0 /\ o[Len(o)] = TimeOf(x.no)
  PROVE  LET p == Append(o, x) IN
         SegNos(p) = SegNos(o) \cup {x.no} /\ Timed(p) /\ Spaced(p)
<1> DEFINE p == Append(o, x)
<1>1. /\ Len(o) \in Nat /\ DOMAIN o = 1 .. Len(o) /\ DOMAIN p = 1 .. Len(o) + 1
      /\ p[Len(o) + 1] = x /\ \A i \in 1 .. Len(o) : p[i] = o[i]
  BY AppendParts
<1> HIDE DEF p
<1>2. {i \in DOMAIN p : p[i].tag = "seg"} = {i \in DOMAIN o : o[i].tag = "seg"} \cup {Len(o) + 1}
  BY <1>1
<1>3. SegNos(p) = SegNos(o) \cup {x.no}
  BY <1>1, <1>2 DEF SegNos
<1>4. Timed(p)
  <2> SUFFICES ASSUME NEW i \in DOMAIN p, p[i].tag = "seg", pl_layout.dated # "none"
               PROVE  i > 1 /\ p[i - 1] = TimeOf(p[i].no)
    BY DEF Timed
  <2>1. CASE i \in DOMAIN o
    <3>1. i > 1 /\ o[i - 1] = TimeOf(o[i].no)
      BY <1>1, <2>1 DEF Timed
    <3>2. QED
      BY <1>1, <2>1, <3>1
  <2>2. CASE i = Len(o) + 1
    BY <1>1, <2>2
  <2>3. QED
    BY <1>1, <2>1, <2>2
<1>5. Spaced(p)
  <2> SUFFICES ASSUME NEW i \in DOMAIN p, NEW j \in DOMAIN p,
                      i < j, p[i].tag = "seg", p[j].tag = "seg",
                      \A k \in i + 1 .. j - 1 : p[k].tag # "seg"
               PROVE  Apart(p[i].no, p[j].no, Marks(p, i + 1, j - 1))
    BY DEF Spaced
  <2>1. i \in DOMAIN o /\ p[i] = o[i]
    BY <1>1
  <2>2. \A k \in i + 1 .. j - 1 : p[k] = o[k]
    BY <1>1, <2>1
  <2>3. Marks(p, i + 1, j - 1) = Marks(o, i + 1, j - 1)
    BY <2>2 DEF Marks
  <2>4. CASE j \in DOMAIN o
    BY <1>1, <2>1, <2>2, <2>3, <2>4 DEF Spaced
  <2>5. CASE j = Len(o) + 1
    <3>1. j - 1 = Len(o) /\ p[j] = x
      BY <1>1, <2>5
    <3>2. \A k \in i + 1 .. Len(o) : o[k].tag # "seg"
      BY <2>2, <3>1
    <3>3. QED
      BY <2>1, <2>3, <3>1, <3>2 DEF Gap
  <2>6. QED
    BY <1>1, <2>4, <2>5
<1>6. QED
  BY <1>3, <1>4, <1>5 DEF p

\* f is what has been read after each of the lines.
Reading(f, ls) ==
  f = [i \in 0 .. Len(ls) |-> IF i = 0 THEN Fresh ELSE Lists!ReadLine(f[i - 1], ls[i])]

Reads(ls, acc) == \E f : Reading(f, ls) /\ f[Len(ls)] = acc

\* Before the first line nothing is held.
LEMMA ReadNothing == Reads(<<>>, Fresh)
<1> DEFINE f == [i \in 0 .. 0 |-> Fresh]
<1>1. f[0] = Fresh /\ Len(<<>>) = 0
  OBVIOUS
<1>2. f = [i \in 0 .. 0 |-> IF i = 0 THEN Fresh ELSE Lists!ReadLine(f[i - 1], <<>>[i])]
  OBVIOUS
<1> HIDE DEF f
<1>3. Reading(f, <<>>)
  BY <1>1, <1>2 DEF Reading
<1>4. QED
  BY <1>1, <1>3 DEF Reads

\* What is read after one line more.
LEMMA ReadNext ==
  ASSUME NEW ls \in Seq(Lines), NEW x \in Lines, NEW acc, Reads(ls, acc)
  PROVE  Reads(Append(ls, x), Lists!ReadLine(acc, x))
<1> DEFINE m == Len(ls) + 1
           ns == Append(ls, x)
<1>1. PICK f : Reading(f, ls) /\ f[Len(ls)] = acc
  BY DEF Reads
<1>2. /\ m \in Nat /\ Len(ls) \in Nat /\ Len(ns) = m /\ ns[m] = x /\ m - 1 = Len(ls) /\ m # 0
      /\ \A i \in 1 .. Len(ls) : ns[i] = ls[i]
  BY AppendParts
<1> DEFINE g == [i \in 0 .. m |-> IF i = m THEN Lists!ReadLine(acc, x) ELSE f[i]]
<1>3. /\ g = [i \in 0 .. m |-> g[i]] /\ g[m] = Lists!ReadLine(acc, x)
      /\ \A i \in 0 .. Len(ls) : g[i] = f[i]
  BY <1>2
<1> HIDE DEF g, m, ns
<1>4. ASSUME NEW i \in 0 .. m
      PROVE  g[i] = IF i = 0 THEN Fresh ELSE Lists!ReadLine(g[i - 1], ns[i])
  <2>1. CASE i = m
    <3>1. g[i - 1] = acc
      <4>1. i - 1 = Len(ls) /\ Len(ls) \in 0 .. Len(ls)
        BY <1>2, <2>1
      <4>2. QED
        BY <1>1, <1>3, <4>1
    <3>2. QED
      BY <1>2, <1>3, <2>1, <3>1
  <2>2. CASE i # m
    <3>1. i \in 0 .. Len(ls) /\ (i # 0 => i - 1 \in 0 .. Len(ls) /\ i \in 1 .. Len(ls))
      BY <1>2, <2>2
    <3>2. f[i] = IF i = 0 THEN Fresh ELSE Lists!ReadLine(f[i - 1], ls[i])
      BY <1>1, <3>1 DEF Reading
    <3>3. QED
      BY <1>2, <1>3, <3>1, <3>2
  <2>3. QED
    BY <2>1, <2>2
<1>5. g = [i \in 0 .. m |-> IF i = 0 THEN Fresh ELSE Lists!ReadLine(g[i - 1], ns[i])]
  BY <1>3, <1>4
<1>6. Reading(g, ns)
  BY <1>2, <1>5 DEF Reading
<1>7. QED
  BY <1>2, <1>3, <1>6 DEF Reads, ns

\* The lines are read in one way only, which is what is answered.
LEMMA ReadOnce ==
  ASSUME NEW ls \in Seq(Lines), NEW acc, Reads(ls, acc)
  PROVE  Lists!filterTwitchAdSegments(ls) = acc.out
<1> DEFINE n == Len(ls)
           read[i \in 0 .. Len(ls)] ==
             IF i = 0 THEN [out |-> <<>>, time |-> 0, pending |-> 0]
                      ELSE Lists!ReadLine(read[i - 1], ls[i])
<1>1. PICK f : Reading(f, ls) /\ f[n] = acc
  BY DEF Reads
<1>2. read = (CHOOSE u : u = [i \in 0 .. Len(ls) |->
                IF i = 0 THEN [out |-> <<>>, time |-> 0, pending |-> 0]
                         ELSE Lists!ReadLine(u[i - 1], ls[i])])
  OBVIOUS
<1>3. read = CHOOSE u : Reading(u, ls)
  BY <1>2 DEF Reading, Fresh
<1>4. Lists!filterTwitchAdSegments(ls) = read[n].out
  BY DEF Lists!filterTwitchAdSegments
<1> HIDE DEF read
<1>5. Reading(read, ls)
  BY Zenon, <1>1, <1>3
<1>6. n \in Nat
  OBVIOUS
<1> HIDE DEF n
<1> DEFINE T == {i \in Nat : i <= n => read[i] = f[i]}
<1>7. \A i \in 0 .. n :
        /\ f[i] = IF i = 0 THEN Fresh ELSE Lists!ReadLine(f[i - 1], ls[i])
        /\ read[i] = IF i = 0 THEN Fresh ELSE Lists!ReadLine(read[i - 1], ls[i])
  BY <1>1, <1>5 DEF Reading, n
<1>8. 0 \in T
  <2>1. 0 \in 0 .. n
    BY <1>6
  <2>2. f[0] = Fresh /\ read[0] = Fresh
    BY <1>7, <2>1
  <2>3. QED
    BY <2>2
<1>9. ASSUME NEW i \in Nat, i \in T PROVE i + 1 \in T
  <2> SUFFICES ASSUME i + 1 <= n PROVE read[i + 1] = f[i + 1]
    OBVIOUS
  <2>1. read[i] = f[i] /\ (i + 1) - 1 = i /\ i + 1 \in 0 .. n /\ i + 1 # 0
    BY <1>6, <1>9
  <2>2. QED
    BY <1>7, <2>1
<1>10. Nat \subseteq T
  <2> HIDE DEF T
  <2>1. QED
    BY <1>8, <1>9, AllNumbers
<1>11. read[n] = f[n]
  BY <1>6, <1>10
<1>12. QED
  BY <1>1, <1>4, <1>11

\* One ad break, and a playlist that is on its way.
Breaks ==
  /\ \E a, b \in Int : 2 <= a /\ a <= b /\ pl_ads = a .. b
  /\ pl_layout \in Lists!Layouts
  /\ pl_first \in Nat \ {0}

\* At its own time, or at none where there are no times, a segment is known for what it is.
LEMMA KnowsAds ==
  ASSUME Breaks, NEW n \in Lists!Shown
  PROVE  Lists!IsAd(SegOf(n), Clock(n)) <=> n \in pl_ads
<1>1. PICK a \in Int, b \in Int : 2 <= a /\ a <= b /\ pl_ads = a .. b
  BY DEF Breaks
<1>2. n \in Nat \ {0}
  BY DEF Breaks, Lists!Shown
<1>3. /\ pl_layout.late \in -1 .. 1 /\ pl_layout.titled \in BOOLEAN
      /\ pl_layout.ranged \in BOOLEAN
      /\ pl_layout.titled \/ (pl_layout.ranged /\ pl_layout.dated # "none")
  BY DEF Breaks, Lists!Layouts
<1>4. Lists!Min(pl_ads) = a /\ Lists!Max(pl_ads) = b
  <2>1. \A x \in pl_ads : (\A y \in pl_ads : x <= y) <=> x = a
    BY <1>1
  <2>2. \A x \in pl_ads : (\A y \in pl_ads : x >= y) <=> x = b
    BY <1>1
  <2>3. a \in pl_ads /\ b \in pl_ads
    BY <1>1
  <2>4. QED
    BY <2>1, <2>2, <2>3 DEF Lists!Min, Lists!Max
<1>5. SegOf(n).amazon <=> pl_layout.titled /\ n \in pl_ads
  BY DEF SegOf
<1>6. CASE pl_layout.dated = "none"
  BY <1>3, <1>5, <1>6 DEF Clock, Lists!IsAd
<1>7. CASE pl_layout.dated # "none"
  <2>1. Clock(n) = n * 20 /\ n * 20 # 0
    BY <1>2, <1>7 DEF Clock, Lists!StartOf, Lists!Length
  <2>2. /\ Lists!Break.start = a * 20
        /\ Lists!Break.end - Lists!Grace = (b + 1) * 20 + pl_layout.late - 1
    <3>1. Lists!Break = [start |-> a * 20, end |-> (b + 1) * 20 + pl_layout.late]
      BY <1>4 DEF Lists!Break, Lists!StartOf, Lists!Length
    <3>2. QED
      BY <1>3, <3>1 DEF Lists!Grace
  <2>3. (Lists!Break.start <= n * 20 /\ n * 20 < Lists!Break.end - Lists!Grace) <=> n \in pl_ads
    <3>1. (a * 20 <= n * 20 /\ n * 20 < (b + 1) * 20 + pl_layout.late - 1) <=> a <= n /\ n <= b
      BY <1>1, <1>2, <1>3
    <3>2. QED
      BY <1>1, <1>2, <2>2, <3>1
  <2>4. \A r \in Lists!adRanges : r = Lists!Break
    BY DEF Lists!adRanges
  <2>5. n \in pl_ads /\ ~pl_layout.titled => Lists!Break \in Lists!adRanges
    BY <1>3 DEF Lists!adRanges
  <2>6. QED
    BY <1>3, <1>5, <2>1, <2>3, <2>4, <2>5 DEF Lists!IsAd
<1>8. QED
  BY <1>6, <1>7

\* What is read of a line.
LEMMA OneLine ==
  ASSUME NEW n \in Int
  PROVE  /\ Disc \in Lines /\ TimeOf(n) \in Lines /\ SegOf(n) \in Lines
         /\ Disc.tag = "disc" /\ TimeOf(n).tag = "time" /\ SegOf(n).tag = "seg"
         /\ TimeOf(n).time = Lists!StartOf(n) /\ SegOf(n).no = n
         /\ Lists!StartOf(n) \in Int /\ Clock(n) \in Int
BY DEF Lines, Disc, TimeOf, SegOf, Lists!StartOf, Lists!Length, Clock

Clocked(a, s, t) == [a EXCEPT !.time = s, !.pending = t]

\* The clock is set, and nothing else.
LEMMA ClockedIs ==
  \A s, t \in Int, a \in Accs :
    LET b == Clocked(a, s, t) IN
    b \in Accs /\ b.out = a.out /\ b.time = s /\ b.pending = t
BY DEF Accs, Clocked

\* Where ads begin or end, there is one discontinuity, however many are read.
LEMMA DiscRead ==
  ASSUME Breaks, NEW n \in Lists!Shown, NEW acc \in Accs, Cut(n, acc),
         (n \in pl_ads) # (n - 1 \in pl_ads)
  PROVE  LET new == Lists!ReadLine(acc, Disc) IN
         Inside(n, new) /\ new.time = acc.time /\ new.pending = 0
<1> DEFINE o == acc.out
<1>1. /\ n \in Int /\ Disc \in Lines /\ Disc.tag = "disc" /\ o \in Seq(Lines)
      /\ acc.pending = 0 /\ acc.time \in Int
  BY OneLine DEF Cut, Accs, Breaks, Lists!Shown
<1>2. Lists!ReadLine(acc, Disc) = IF o # <<>> /\ o[Len(o)].tag = "disc" THEN acc
                                  ELSE [acc EXCEPT !.out = Append(o \o <<>>, Disc), !.pending = 0]
  BY <1>1 DEF Lists!ReadLine, Lists!Splice, Lists!Last, Disc
<1>3. o \o <<>> = o
  BY <1>1
<1>4. CASE o # <<>> /\ o[Len(o)].tag = "disc"
  <2>1. Lists!ReadLine(acc, Disc) = acc
    BY <1>2, <1>4
  <2>2. TailIn(n, o)
    <3>1. ~EndsWith(o, n - 1)
      BY <1>4 DEF EndsWith
    <3>2. QED
      BY <3>1 DEF Cut, TailOf, TailIn
  <2>3. QED
    BY <1>1, <2>1, <2>2 DEF Cut, Inside
<1>5. CASE ~(o # <<>> /\ o[Len(o)].tag = "disc")
  <2> DEFINE p == Append(o, Disc)
             new == Lists!ReadLine(acc, Disc)
  <2>1. new = [acc EXCEPT !.out = p, !.pending = 0]
    BY <1>2, <1>3, <1>5
  <2>2. /\ p \in Seq(Lines) /\ Len(p) = Len(o) + 1 /\ Len(o) \in Nat /\ p[Len(o) + 1] = Disc
        /\ \A i \in 1 .. Len(o) : p[i] = o[i]
    BY <1>1, AppendParts
  <2>3. new \in Accs /\ new.out = p /\ new.time = acc.time /\ new.pending = 0
    BY <1>1, <2>1, <2>2 DEF Accs
  <2>4. SegNos(p) = SegNos(o) /\ Timed(p) /\ Spaced(p)
    BY <1>1, AddMark DEF Cut
  <2>5. TailIn(n, p)
    <3>1. CASE o = <<>>
      BY <3>1 DEF TailIn
    <3>2. CASE o = <<Disc>>
      <4>1. o # <<>> /\ o[Len(o)].tag = "disc"
        BY <1>1, <3>2
      <4>2. QED
        BY <1>5, <4>1
    <3>3. CASE n - 1 \notin pl_ads /\ EndsWith(o, n - 1)
      <4>1. n \in pl_ads
        BY <3>3
      <4>3. Len(o) > 0 /\ o[Len(o)].tag = "seg" /\ o[Len(o)].no = n - 1
        BY <3>3 DEF EndsWith
      <4>4. Len(p) > 1 /\ p[Len(p)] = Disc /\ Len(p) - 1 = Len(o) /\ p[Len(o)] = o[Len(o)]
        BY <2>2, <4>3
      <4>5. CutOff(p)
        BY <1>1, <4>1, <4>3, <4>4 DEF CutOff
      <4>6. QED
        BY <4>5 DEF TailIn
    <3>4. CASE CutOff(o)
      <4>1. o[Len(o)] = Disc /\ Len(o) > 1
        BY <3>4 DEF CutOff
      <4>2. o # <<>> /\ o[Len(o)].tag = "disc"
        BY <1>1, <4>1
      <4>3. QED
        BY <1>5, <4>2
    <3>5. QED
      BY <3>1, <3>2, <3>3, <3>4 DEF Cut, TailOf
  <2>6. QED
    BY <1>1, <2>3, <2>4, <2>5 DEF Cut, Inside
<1>6. QED
  BY <1>4, <1>5

\* Where ads neither begin nor end, nothing is needed.
LEMMA NoDisc ==
  ASSUME Breaks, NEW n \in Lists!Shown, NEW acc \in Accs, Cut(n, acc),
         (n \in pl_ads) = (n - 1 \in pl_ads)
  PROVE  Inside(n, acc)
BY DEF Cut, Inside, TailOf, TailIn

\* The time of a segment is kept for it.
LEMMA TimeRead ==
  ASSUME NEW n \in Int, NEW acc, Inside(n, acc)
  PROVE  LET new == Lists!ReadLine(acc, TimeOf(n)) IN
         Inside(n, new) /\ new.time = Lists!StartOf(n) /\ new.pending = Lists!StartOf(n)
<1> DEFINE new == Lists!ReadLine(acc, TimeOf(n))
<1>1. new = Clocked(acc, Lists!StartOf(n), Lists!StartOf(n))
  BY OneLine DEF Lists!ReadLine, Clocked
<1>2. new \in Accs /\ new.out = acc.out /\ new.time = Lists!StartOf(n)
      /\ new.pending = Lists!StartOf(n)
  <2>1. acc \in Accs /\ Lists!StartOf(n) \in Int
    BY OneLine DEF Inside
  <2> HIDE DEF new
  <2>2. QED
    BY <1>1, <2>1, ClockedIs
<1> HIDE DEF new
<1>3. Inside(n, new)
  BY <1>2 DEF Inside
<1>4. QED
  BY <1>2, <1>3 DEF new

\* From any of its ends, the next segment is as far away as it should be.
LEMMA TailGap ==
  ASSUME NEW n \in Int, NEW o \in Seq(Lines), n \notin pl_ads, TailIn(n, o),
         SegNos(o) = (pl_first .. n - 1) \ pl_ads
  PROVE  Gap(o, n)
<1> SUFFICES ASSUME NEW i \in DOMAIN o, o[i].tag = "seg",
                    \A k \in i + 1 .. Len(o) : o[k].tag # "seg"
             PROVE  Apart(o[i].no, n, Marks(o, i + 1, Len(o)))
  BY DEF Gap
<1>1. /\ Len(o) \in Nat /\ DOMAIN o = 1 .. Len(o) /\ i \in 1 .. Len(o)
  OBVIOUS
<1>2. o[i].no \in SegNos(o)
  BY DEF SegNos
<1>3. o[i].no \in Int /\ o[i].no < n
  BY <1>2
<1>4. CASE o \in {<<>>, <<Disc>>}
  <2>1. FALSE
    <3>1. CASE o = <<>>
      BY <1>1, <3>1
    <3>2. CASE o = <<Disc>>
      BY <1>1, <3>2 DEF Disc
    <3>3. QED
      BY <1>4, <3>1, <3>2
  <2>2. QED
    BY <2>1
<1>5. CASE EndsWith(o, n - 1)
  <2>1. i = Len(o)
    BY <1>1, <1>5 DEF EndsWith
  <2>2. o[i].no = n - 1
    BY <1>5, <2>1 DEF EndsWith
  <2>3. Marks(o, i + 1, Len(o)) = {}
    BY <1>1, <2>1 DEF Marks
  <2>4. n = o[i].no + 1
    BY <2>2
  <2>5. QED
    BY <1>3, <2>3, <2>4, FS_EmptySet DEF Apart
<1>6. CASE CutOff(o)
  <2>1. /\ Len(o) > 1 /\ o[Len(o)] = Disc /\ o[Len(o) - 1].tag = "seg"
        /\ o[Len(o) - 1].no + 1 \in pl_ads
    BY <1>6 DEF CutOff
  <2>2. i = Len(o) - 1
    <3>1. i # Len(o)
      BY <2>1 DEF Disc
    <3>2. ~(i < Len(o) - 1)
      <4> SUFFICES ASSUME i < Len(o) - 1 PROVE FALSE
        OBVIOUS
      <4>1. Len(o) - 1 \in i + 1 .. Len(o)
        BY <1>1
      <4>2. QED
        BY <2>1, <4>1
    <3>3. QED
      BY <1>1, <3>1, <3>2
  <2>3. n # o[i].no + 1
    BY <2>1, <2>2
  <2>4. Marks(o, i + 1, Len(o)) = {Len(o)}
    <3>1. o[Len(o)].tag = "disc"
      BY <2>1 DEF Disc
    <3>2. i + 1 = Len(o)
      <4>1. \A l \in Nat, k \in Int : k = l - 1 => k + 1 = l
        OBVIOUS
      <4>2. i \in Int
        BY <1>1
      <4>3. QED
        BY Zenon, <1>1, <2>2, <4>1, <4>2
    <3>3. QED
      BY <1>1, <3>1, <3>2 DEF Marks
  <2>5. QED
    BY <1>3, <2>3, <2>4, FS_Singleton DEF Apart
<1>7. QED
  BY <1>4, <1>5, <1>6 DEF TailIn

\* A segment that is an ad is left out.
LEMMA AdRead ==
  ASSUME Breaks, NEW n \in Lists!Shown, NEW acc, Inside(n, acc), n \in pl_ads,
         Lists!IsAd(SegOf(n), acc.time), acc.time = Clock(n)
  PROVE  LET new == Lists!ReadLine(acc, SegOf(n)) IN new \in Accs /\ Cut(n + 1, new)
<1> DEFINE new == Lists!ReadLine(acc, SegOf(n))
<1>1. n \in Nat \ {0} /\ acc \in Accs /\ pl_first <= n /\ pl_first \in Int
  BY DEF Breaks, Lists!Shown, Inside
<1>2. new = [acc EXCEPT !.time = Lists!After(acc.time), !.pending = 0]
  BY OneLine, <1>1 DEF Lists!ReadLine, Lists!Drop
<1>3. Lists!After(Clock(n)) = Clock(n + 1)
  BY <1>1 DEF Lists!After, Clock, Lists!StartOf, Lists!Length
<1>4. new \in Accs /\ new.out = acc.out /\ new.time = Clock(n + 1) /\ new.pending = 0
  <2>1. Clock(n + 1) \in Int /\ 0 \in Int
    BY <1>1, OneLine
  <2>2. new = Clocked(acc, Clock(n + 1), 0)
    BY <1>2, <1>3 DEF Clocked
  <2> HIDE DEF new
  <2>3. QED
    BY <1>1, <2>1, <2>2, ClockedIs
<1> HIDE DEF new
<1>5. (pl_first .. (n + 1) - 1) \ pl_ads = (pl_first .. n - 1) \ pl_ads /\ n + 1 # pl_first
  BY <1>1
<1>6. TailOf(n + 1, acc.out)
  <2>1. (n + 1) - 1 = n
    BY <1>1
  <2>2. QED
    BY <2>1 DEF Inside, TailOf, TailIn
<1>7. Cut(n + 1, new)
  BY <1>4, <1>5, <1>6 DEF Cut, Inside
<1>8. QED
  BY <1>4, <1>7 DEF new

\* The programme is kept, at its time.
LEMMA SegRead ==
  ASSUME Breaks, NEW n \in Lists!Shown, NEW acc, Inside(n, acc), n \notin pl_ads,
         ~Lists!IsAd(SegOf(n), acc.time), acc.time = Clock(n), acc.pending \in {0, Clock(n)}
  PROVE  LET new == Lists!ReadLine(acc, SegOf(n)) IN new \in Accs /\ Cut(n + 1, new)
<1> DEFINE new == Lists!ReadLine(acc, SegOf(n))
           o   == acc.out
           p   == IF Clock(n) = 0 THEN o ELSE Append(o, TimeOf(n))
           q   == Append(p, SegOf(n))
<1>1. /\ n \in Nat \ {0} /\ n \in Int /\ pl_first <= n /\ pl_first \in Int
      /\ acc \in Accs /\ o \in Seq(Lines) /\ Len(o) \in Nat
      /\ TimeOf(n) \in Lines /\ SegOf(n) \in Lines /\ Clock(n) \in Int
  <2>1. n \in Nat \ {0} /\ n \in Int /\ pl_first <= n /\ pl_first \in Int
    BY DEF Breaks, Lists!Shown
  <2>2. acc \in Accs /\ o \in Seq(Lines) /\ Len(o) \in Nat
    BY DEF Inside, Accs
  <2>3. QED
    BY <2>1, <2>2, OneLine
<1>2. /\ Lists!After(Clock(n)) = Clock(n + 1) /\ Clock(n + 1) \in Int
      /\ pl_layout.dated # "none" => Clock(n) # 0
      /\ Clock(n) # 0 => TimeOf(n) = [tag |-> "time", time |-> Clock(n)]
  <2>1. Clock(n + 1) \in Int
    BY <1>1, OneLine
  <2>2. QED
    BY <1>1, <2>1 DEF Lists!After, Clock, Lists!StartOf, Lists!Length, TimeOf
<1>3. Lists!ReadLine(acc, SegOf(n)) = Lists!Keep(acc, SegOf(n))
  BY OneLine, <1>1 DEF Lists!ReadLine
<1>4. (IF acc.pending # 0 THEN acc.pending ELSE acc.time) = Clock(n)
  OBVIOUS
<1>5. Lists!Keep(acc, SegOf(n)) =
        [out |-> o \o (IF Clock(n) = 0 THEN <<>> ELSE <<[tag |-> "time", time |-> Clock(n)]>>)
                   \o <<SegOf(n)>>, time |-> Lists!After(acc.time), pending |-> 0]
  BY <1>4 DEF Lists!Keep
<1>6. p \in Seq(Lines) /\ q \in Seq(Lines)
  BY <1>1
<1>7. o \o (IF Clock(n) = 0 THEN <<>> ELSE <<[tag |-> "time", time |-> Clock(n)]>>)
        \o <<SegOf(n)>> = q
  <2>1. o \o <<>> = o /\ o \o <<TimeOf(n)>> = Append(o, TimeOf(n))
    BY <1>1
  <2>2. o \o (IF Clock(n) = 0 THEN <<>> ELSE <<[tag |-> "time", time |-> Clock(n)]>>) = p
    BY <1>2, <2>1
  <2>3. p \o <<SegOf(n)>> = q
    BY <1>1, <1>6
  <2>4. QED
    BY <2>2, <2>3
<1>8. new = [out |-> q, time |-> Clock(n + 1), pending |-> 0]
  BY <1>2, <1>3, <1>5, <1>7
<1>9. /\ SegNos(p) = SegNos(o) /\ Timed(p) /\ Spaced(p) /\ Gap(p, n)
      /\ pl_layout.dated # "none" => Len(p) > 0 /\ p[Len(p)] = TimeOf(n)
  <2>1. Gap(o, n)
    BY <1>1, TailGap DEF Inside
  <2>2. CASE Clock(n) = 0
    BY <1>2, <2>1, <2>2 DEF Inside
  <2>3. CASE Clock(n) # 0
    <3>1. /\ p = Append(o, TimeOf(n)) /\ TimeOf(n).tag = "time"
          /\ Len(p) = Len(o) + 1 /\ DOMAIN p = 1 .. Len(o) + 1 /\ DOMAIN o = 1 .. Len(o)
          /\ p[Len(o) + 1] = TimeOf(n) /\ \A i \in 1 .. Len(o) : p[i] = o[i]
      <4>1. p = Append(o, TimeOf(n))
        BY <2>3
      <4>2. TimeOf(n).tag = "time"
        BY <1>1, OneLine
      <4> HIDE DEF o, p
      <4>3. QED
        BY <1>1, <4>1, <4>2, AppendParts
    <3>2. SegNos(p) = SegNos(o) /\ Timed(p) /\ Spaced(p)
      <4>1. TimeOf(n).tag # "seg"
        BY <3>1
      <4>2. QED
        BY <1>1, <3>1, <4>1, AddMark DEF Inside
    <3> HIDE DEF p
    <3>3. Gap(p, n)
      <4> SUFFICES ASSUME NEW i \in DOMAIN p, p[i].tag = "seg",
                          \A k \in i + 1 .. Len(p) : p[k].tag # "seg"
                   PROVE  Apart(p[i].no, n, Marks(p, i + 1, Len(p)))
        BY DEF Gap
      <4>1. i \in 1 .. Len(o) /\ p[i] = o[i]
        BY <1>1, <3>1
      <4>2. \A k \in i + 1 .. Len(o) : p[k] = o[k] /\ k \in i + 1 .. Len(p)
        BY <1>1, <3>1, <4>1
      <4>3. Marks(p, i + 1, Len(p)) = Marks(o, i + 1, Len(o))
        <5>1. p[Len(p)].tag # "disc" /\ i + 1 .. Len(p) = (i + 1 .. Len(o)) \cup {Len(p)}
          BY <1>1, <3>1, <4>1
        <5>2. QED
          BY <4>2, <5>1 DEF Marks
      <4>4. QED
        BY <2>1, <3>1, <4>1, <4>2, <4>3 DEF Gap
    <3>4. QED
      BY <1>1, <3>1, <3>2, <3>3
  <2>4. QED
    BY <2>2, <2>3
<1> HIDE DEF p
<1>10. SegOf(n).tag = "seg" /\ SegOf(n).no = n
  BY <1>1, OneLine
<1>11. SegNos(q) = SegNos(o) \cup {n} /\ Timed(q) /\ Spaced(q)
  BY <1>1, <1>6, <1>9, <1>10, AddSeg
<1>12. SegNos(q) = (pl_first .. (n + 1) - 1) \ pl_ads /\ n + 1 # pl_first
  BY <1>1, <1>11 DEF Inside
<1>13. TailOf(n + 1, q)
  <2>1. Len(q) > 0 /\ q[Len(q)] = SegOf(n)
    BY <1>1, <1>6
  <2>2. (n + 1) - 1 = n
    BY <1>1
  <2>3. QED
    BY <1>10, <2>1, <2>2 DEF TailOf, EndsWith
<1>14. new \in Accs /\ new.out = q /\ new.time = Clock(n + 1) /\ new.pending = 0
  BY <1>2, <1>6, <1>8 DEF Accs
<1> HIDE DEF q, new
<1>15. Cut(n + 1, new)
  BY <1>11, <1>12, <1>13, <1>14 DEF Cut
<1>16. QED
  BY <1>14, <1>15 DEF new

\* The lines of one segment, from one cut to the next.
LEMMA SegmentRead ==
  ASSUME Breaks, NEW n \in Lists!Shown, NEW ls \in Seq(Lines), NEW acc \in Accs,
         Reads(ls, acc), Cut(n, acc)
  PROVE  /\ ls \o Lists!LinesOf(n) \in Seq(Lines)
         /\ \E new \in Accs : Reads(ls \o Lists!LinesOf(n), new) /\ Cut(n + 1, new)
<1> DEFINE disc == IF (n \in pl_ads) # (n - 1 \in pl_ads) THEN <<Disc>> ELSE <<>>
           time == IF pl_layout.dated = "all" \/ (pl_layout.dated = "first" /\ n = pl_first)
                   THEN <<TimeOf(n)>> ELSE <<>>
           l1   == ls \o disc
           l2   == l1 \o time
           l3   == l2 \o <<SegOf(n)>>
<1>1. n \in Nat \ {0} /\ n \in Int /\ Disc \in Lines /\ TimeOf(n) \in Lines /\ SegOf(n) \in Lines
  <2>1. n \in Nat \ {0} /\ n \in Int
    BY DEF Breaks, Lists!Shown
  <2>2. QED
    BY <2>1, OneLine
<1>2. Lists!LinesOf(n) = (disc \o time) \o <<SegOf(n)>>
  BY DEF Lists!LinesOf, Disc, TimeOf, SegOf
<1>3. disc \in Seq(Lines) /\ time \in Seq(Lines) /\ <<SegOf(n)>> \in Seq(Lines)
  BY <1>1
<1>4. l1 \in Seq(Lines) /\ l2 \in Seq(Lines) /\ l3 \in Seq(Lines)
  BY <1>3
<1>5. ls \o Lists!LinesOf(n) = l3
  <2> HIDE DEF disc, time
  <2>1. QED
    BY <1>2, <1>3
<1>6. \E a1 \in Accs : /\ Reads(l1, a1) /\ Inside(n, a1)
                       /\ a1.time = acc.time /\ a1.pending = 0
  <2>1. CASE (n \in pl_ads) # (n - 1 \in pl_ads)
    <3>1. l1 = Append(ls, Disc)
      BY <1>1, <2>1
    <3>2. Reads(l1, Lists!ReadLine(acc, Disc))
      BY <1>1, <3>1, ReadNext
    <3>3. LET new == Lists!ReadLine(acc, Disc) IN
          Inside(n, new) /\ new.time = acc.time /\ new.pending = 0
      BY <2>1, DiscRead
    <3>4. QED
      BY <3>2, <3>3 DEF Inside
  <2>2. CASE (n \in pl_ads) = (n - 1 \in pl_ads)
    <3>1. l1 = ls
      BY <2>2
    <3>2. Inside(n, acc)
      BY <2>2, NoDisc
    <3>3. QED
      BY <3>1, <3>2 DEF Cut
  <2>3. QED
    BY <2>1, <2>2
<1>7. PICK a1 \in Accs : /\ Reads(l1, a1) /\ Inside(n, a1)
                         /\ a1.time = acc.time /\ a1.pending = 0
  BY <1>6
<1> HIDE DEF l1
<1>8. \E a2 \in Accs : /\ Reads(l2, a2) /\ Inside(n, a2)
                       /\ a2.time = Clock(n) /\ a2.pending \in {0, Clock(n)}
  <2>1. CASE pl_layout.dated = "all" \/ (pl_layout.dated = "first" /\ n = pl_first)
    <3>1. l2 = Append(l1, TimeOf(n))
      BY <1>1, <1>4, <2>1
    <3>2. Reads(l2, Lists!ReadLine(a1, TimeOf(n)))
      BY <1>1, <1>4, <1>7, <3>1, ReadNext
    <3>3. LET new == Lists!ReadLine(a1, TimeOf(n)) IN
          Inside(n, new) /\ new.time = Lists!StartOf(n) /\ new.pending = Lists!StartOf(n)
      BY <1>1, <1>7, TimeRead
    <3>4. Clock(n) = Lists!StartOf(n)
      BY <2>1 DEF Clock
    <3>5. QED
      BY <3>2, <3>3, <3>4 DEF Inside
  <2>2. CASE ~(pl_layout.dated = "all" \/ (pl_layout.dated = "first" /\ n = pl_first))
    <3>1. l2 = l1
      BY <1>4, <2>2
    <3>2. acc.time = Clock(n)
      <4>1. pl_layout.dated \in {"all", "first", "none"}
        BY DEF Breaks, Lists!Layouts
      <4>2. pl_layout.dated = "none" => Clock(n) = 0
        BY DEF Clock
      <4>3. QED
        BY <2>2, <4>1, <4>2 DEF Cut
    <3>3. QED
      BY <1>7, <3>1, <3>2
  <2>3. QED
    BY <2>1, <2>2
<1>9. PICK a2 \in Accs : /\ Reads(l2, a2) /\ Inside(n, a2)
                         /\ a2.time = Clock(n) /\ a2.pending \in {0, Clock(n)}
  BY <1>8
<1> HIDE DEF l2
<1>10. l3 = Append(l2, SegOf(n))
  BY <1>1, <1>4
<1>11. Reads(l3, Lists!ReadLine(a2, SegOf(n)))
  BY <1>1, <1>4, <1>9, <1>10, ReadNext
<1>12. Lists!IsAd(SegOf(n), a2.time) <=> n \in pl_ads
  BY <1>9, KnowsAds
<1>13. LET new == Lists!ReadLine(a2, SegOf(n)) IN new \in Accs /\ Cut(n + 1, new)
  BY <1>9, <1>12, AdRead, SegRead
<1>14. QED
  BY <1>4, <1>5, <1>11, <1>13

\* flat is what has been put together after each of the sequences.
Upto(flat, seqs) ==
  flat = [i \in 1 .. Len(seqs) |-> IF i = 1 THEN seqs[i] ELSE flat[i - 1] \o seqs[i]]

\* Sequences can be put together.
LEMMA Flattened ==
  ASSUME NEW seqs, NEW m \in Nat \ {0}, Len(seqs) = m
  PROVE  \E flat : Upto(flat, seqs) /\ Lists!FlattenSeq(seqs) = flat[m]
<1> DEFINE Put(f, k) == IF k = 1 THEN seqs[k] ELSE f[k - 1] \o seqs[k]
           Solved(f, i) ==
             f = [k \in 1 .. m |-> f[k]] /\ \A k \in 1 .. m : k <= i => f[k] = Put(f, k)
           T == {i \in Nat : i <= m => \E f : Solved(f, i)}
<1>1. 0 \in T
  <2> DEFINE f == [k \in 1 .. m |-> <<>>]
  <2>1. f = [k \in 1 .. m |-> f[k]]
    OBVIOUS
  <2> HIDE DEF f, Put
  <2>2. Solved(f, 0)
    BY <2>1
  <2>3. QED
    BY <2>2
<1>2. ASSUME NEW i \in Nat, i \in T PROVE i + 1 \in T
  <2> SUFFICES ASSUME i + 1 <= m PROVE \E g : Solved(g, i + 1)
    OBVIOUS
  <2> HIDE DEF Put
  <2>1. PICK f : Solved(f, i)
    BY <1>2
  <2> DEFINE g == [k \in 1 .. m |-> IF k = i + 1 THEN Put(f, i + 1) ELSE f[k]]
  <2>2. /\ g = [k \in 1 .. m |-> g[k]] /\ g[i + 1] = Put(f, i + 1)
        /\ \A k \in 1 .. m : k # i + 1 => g[k] = f[k]
    OBVIOUS
  <2> HIDE DEF g
  <2>3. ASSUME NEW k \in 1 .. m, k <= i + 1 PROVE g[k] = Put(g, k)
    <3>1. k # 1 => g[k - 1] = f[k - 1]
      BY <2>2, <2>3
    <3>2. Put(g, k) = Put(f, k)
      BY <3>1 DEF Put
    <3>3. QED
      BY <2>1, <2>2, <2>3, <3>2
  <2>4. Solved(g, i + 1)
    BY <2>2, <2>3
  <2>5. QED
    BY <2>4
<1>3. Nat \subseteq T
  <2> HIDE DEF T
  <2>1. QED
    BY <1>1, <1>2, AllNumbers
<1>4. PICK f : Solved(f, m)
  <2>1. m \in T
    BY <1>3
  <2>2. QED
    BY <2>1
<1> HIDE DEF Put
<1>5. f = [k \in 1 .. m |-> Put(f, k)]
  BY <1>4
<1>6. Upto(f, seqs)
  BY <1>5 DEF Upto, Put
<1> DEFINE flatten[k \in 1 .. Len(seqs)] ==
             IF k = 1 THEN seqs[k] ELSE flatten[k - 1] \o seqs[k]
<1>7. flatten = CHOOSE u : Upto(u, seqs)
  BY DEF Upto
<1>8. Lists!FlattenSeq(seqs) = flatten[Len(seqs)]
  BY DEF Lists!FlattenSeq
<1> HIDE DEF flatten
<1>9. Upto(flatten, seqs)
  BY Zenon, <1>6, <1>7
<1>10. QED
  BY <1>8, <1>9

\* What the lines that are kept of a whole playlist are.
Clean(o) ==
  SegNos(o) = Lists!Shown \ pl_ads /\ Timed(o) /\ Spaced(o)

\* From segment to segment, that is what filterTwitchAdSegments answers.
LEMMA PlaylistCleaned ==
  ASSUME Breaks
  PROVE  Clean(Lists!filterTwitchAdSegments(Lists!Playlist))
<1> DEFINE seqs == [i \in 1 .. pl_Window |-> Lists!LinesOf(pl_first + i - 1)]
<1>1. pl_Window \in Nat /\ pl_first \in Nat /\ Len(seqs) = pl_Window
  BY DEF Breaks
<1>2. Lists!Playlist = Lists!FlattenSeq(seqs)
  BY DEF Lists!Playlist
<1>3. Fresh \in Accs /\ Cut(pl_first, Fresh)
  <2>1. Fresh \in Accs /\ Fresh.out = <<>> /\ Fresh.time = 0 /\ Fresh.pending = 0
    BY DEF Fresh, Accs
  <2>2. SegNos(<<>>) = {} /\ Timed(<<>>) /\ Spaced(<<>>)
    BY DEF SegNos, Timed, Spaced
  <2>3. pl_first .. pl_first - 1 = {}
    BY <1>1
  <2>4. TailOf(pl_first, <<>>)
    BY DEF TailOf
  <2>5. QED
    BY <2>1, <2>2, <2>3, <2>4 DEF Cut
<1>4. \A ls \in Seq(Lines), acc \in Accs :
        Cut(pl_first + pl_Window, acc) /\ Reads(ls, acc) => Clean(Lists!filterTwitchAdSegments(ls))
  <2>1. pl_first .. (pl_first + pl_Window) - 1 = Lists!Shown
    BY <1>1 DEF Lists!Shown
  <2>2. QED
    BY <2>1, ReadOnce DEF Cut, Clean
<1>5. CASE pl_Window = 0
  <2>1. Lists!Playlist = <<>>
    BY <1>1, <1>2, <1>5 DEF Lists!FlattenSeq
  <2>2. Cut(pl_first + pl_Window, Fresh) /\ <<>> \in Seq(Lines)
    BY <1>1, <1>3, <1>5
  <2>3. QED
    BY <1>3, <1>4, <2>1, <2>2, ReadNothing
<1>6. CASE pl_Window # 0
  <2>1. PICK flat : Upto(flat, seqs) /\ Lists!FlattenSeq(seqs) = flat[pl_Window]
    BY <1>1, <1>6, Flattened
  <2>2. \A i \in 1 .. pl_Window :
          flat[i] = (IF i = 1 THEN <<>> ELSE flat[i - 1]) \o Lists!LinesOf(pl_first + i - 1)
    <3> SUFFICES ASSUME NEW i \in 1 .. pl_Window
                 PROVE  flat[i] = (IF i = 1 THEN <<>> ELSE flat[i - 1])
                                    \o Lists!LinesOf(pl_first + i - 1)
      OBVIOUS
    <3>1. flat[i] = IF i = 1 THEN seqs[i] ELSE flat[i - 1] \o seqs[i]
      BY <1>1, <2>1 DEF Upto
    <3>2. seqs[i] = Lists!LinesOf(pl_first + i - 1)
      OBVIOUS
    <3>3. <<>> \o Lists!LinesOf(pl_first + i - 1) = Lists!LinesOf(pl_first + i - 1)
      BY DEF Lists!LinesOf
    <3>4. QED
      BY <3>1, <3>2, <3>3
  <2> HIDE DEF seqs
  <2> DEFINE Before(i) == IF i = 0 THEN <<>> ELSE flat[i]
             T == {i \in Nat : i <= pl_Window =>
                     /\ Before(i) \in Seq(Lines)
                     /\ \E acc \in Accs : Reads(Before(i), acc) /\ Cut(pl_first + i, acc)}
  <2>3. 0 \in T
    <3>1. pl_first + 0 = pl_first /\ <<>> \in Seq(Lines)
      BY <1>1
    <3>2. QED
      BY <1>3, <3>1, ReadNothing
  <2>4. ASSUME NEW i \in Nat, i \in T PROVE i + 1 \in T
    <3> SUFFICES ASSUME i + 1 <= pl_Window
                 PROVE  /\ Before(i + 1) \in Seq(Lines)
                        /\ \E acc \in Accs :
                             Reads(Before(i + 1), acc) /\ Cut(pl_first + (i + 1), acc)
      OBVIOUS
    <3>1. PICK n : n = pl_first + i
      OBVIOUS
    <3>2. n \in Lists!Shown /\ pl_first + (i + 1) = n + 1 /\ pl_first + (i + 1) - 1 = n
      BY <1>1, <3>1 DEF Lists!Shown
    <3>3. Before(i + 1) = Before(i) \o Lists!LinesOf(n)
      <4>1. i + 1 \in 1 .. pl_Window /\ i + 1 # 0 /\ (i + 1 = 1 <=> i = 0) /\ (i + 1) - 1 = i
        BY <1>1
      <4>2. QED
        BY <2>2, <3>2, <4>1
    <3>4. /\ Before(i) \in Seq(Lines)
          /\ \E acc \in Accs : Reads(Before(i), acc) /\ Cut(n, acc)
      BY <1>1, <2>4, <3>1
    <3> HIDE DEF Before
    <3>5. PICK acc \in Accs : Reads(Before(i), acc) /\ Cut(n, acc)
      BY <3>4
    <3>6. QED
      BY <3>2, <3>3, <3>4, <3>5, SegmentRead
  <2>5. Nat \subseteq T
    <3> HIDE DEF T
    <3>1. QED
      BY <2>3, <2>4, AllNumbers
  <2>6. PICK acc \in Accs : /\ flat[pl_Window] \in Seq(Lines)
                            /\ Reads(flat[pl_Window], acc) /\ Cut(pl_first + pl_Window, acc)
    <3>1. pl_Window \in T
      BY <1>1, <2>5
    <3>2. QED
      BY <1>1, <1>6, <3>1
  <2>7. QED
    BY <1>2, <1>4, <2>1, <2>6
<1>7. QED
  BY <1>5, <1>6

\* What Cleaned says of the lines o, when those are the segments shown.
CleanAs(o, shown, ads, dated) ==
  /\ {o[i].no : i \in {j \in DOMAIN o : o[j].tag = "seg"}} = shown \ ads
  /\ \A i \in DOMAIN o : o[i].tag = "seg" /\ dated # "none" =>
       i > 1 /\ o[i - 1] = [tag |-> "time", time |-> Lists!StartOf(o[i].no)]
  /\ \A i, j \in DOMAIN o :
       i < j /\ o[i].tag = "seg" /\ o[j].tag = "seg"
         /\ (\A k \in i + 1 .. j - 1 : o[k].tag # "seg") =>
         /\ o[i].no < o[j].no
         /\ Cardinality({k \in i + 1 .. j - 1 : o[k].tag = "disc"})
              = IF o[j].no = o[i].no + 1 THEN 0 ELSE 1

\* It says so of what was answered last, before a step and after it.
LEMMA CleanedIs ==
  /\ Cleaned <=> (pl_at = "done" =>
       CleanAs(pl_out.lines, pl_out.first .. pl_out.first + pl_Window - 1, pl_ads,
               pl_layout.dated))
  /\ Cleaned' <=> (pl_at' = "done" =>
       CleanAs(pl_out'.lines, pl_out'.first .. pl_out'.first + pl_Window - 1, pl_ads',
               pl_layout'.dated))
<1>1. \A S : Lists!Cardinality(S) = Cardinality(S)
  BY DEF Lists!Cardinality, Cardinality
<1>2. QED
  BY <1>1 DEF Cleaned, Lists!Cleaned, CleanAs, Lists!StartOf, Lists!Length

\* And what has been shown of them.
LEMMA CleanIs ==
  ASSUME NEW o, Clean(o)
  PROVE  CleanAs(o, Lists!Shown, pl_ads, pl_layout.dated)
BY DEF Clean, CleanAs, SegNos, Timed, Spaced, Apart, Marks, TimeOf

LEMMA BreaksInit == Lists!Init => Breaks /\ Cleaned
<1> SUFFICES ASSUME Lists!Init PROVE Breaks /\ Cleaned
  OBVIOUS
<1>1. Breaks
  <2>1. PICK a \in 2 .. pl_Segments, b \in 2 .. pl_Segments : a <= b /\ pl_ads = a .. b
    BY DEF Lists!Init
  <2>2. QED
    BY <2>1 DEF Lists!Init, Breaks
<1>2. pl_at # "done"
  BY DEF Lists!Init
<1>3. QED
  BY <1>1, <1>2, CleanedIs

LEMMA CleanedStep == Breaks /\ Cleaned /\ [Lists!Next]_(Lists!vars) => (Breaks /\ Cleaned)'
<1> SUFFICES ASSUME Breaks, Cleaned, [Lists!Next]_(Lists!vars) PROVE (Breaks /\ Cleaned)'
  OBVIOUS
<1>1. ASSUME UNCHANGED <<pl_ads, pl_layout>>, pl_first' \in {pl_first, pl_first + 1}
      PROVE  Breaks'
  BY <1>1 DEF Breaks, Lists!Layouts
<1>2. ASSUME UNCHANGED <<pl_ads, pl_layout, pl_out>>,
             pl_at' \in {pl_at} \cup {"fetch", "denied", "failed", "head"}
      PROVE  Cleaned'
  BY <1>2, CleanedIs
<1>3. ASSUME NEW u \in pl_Urls, Lists!Ask(u) PROVE (Breaks /\ Cleaned)'
  BY <1>1, <1>2, <1>3 DEF Lists!Ask
<1>4. ASSUME NEW answer \in Lists!DnsAnswers, Lists!Dial(answer) PROVE (Breaks /\ Cleaned)'
  BY <1>1, <1>2, <1>4 DEF Lists!Dial
<1>5. ASSUME NEW u \in pl_Urls \cup {pl_None}, Lists!Redirected(u) PROVE (Breaks /\ Cleaned)'
  BY <1>1, <1>2, <1>5 DEF Lists!Redirected
<1>6. CASE Lists!Answered
  <2>1. Breaks'
    BY <1>1, <1>6 DEF Lists!Answered
  <2>2. CleanAs(Lists!filterTwitchAdSegments(Lists!Playlist), Lists!Shown, pl_ads,
                pl_layout.dated)
    BY PlaylistCleaned, CleanIs
  <2>3. /\ pl_out'.lines = Lists!filterTwitchAdSegments(Lists!Playlist)
        /\ pl_out'.first .. pl_out'.first + pl_Window - 1 = Lists!Shown
        /\ UNCHANGED <<pl_ads, pl_layout>>
    BY <1>6 DEF Lists!Answered, Lists!Shown
  <2>4. QED
    BY <2>1, <2>2, <2>3, CleanedIs
<1>7. CASE Lists!FetchFails
  BY <1>1, <1>2, <1>7 DEF Lists!FetchFails
<1>8. CASE Lists!Slide
  BY <1>1, <1>2, <1>8 DEF Lists!Slide
<1>9. CASE UNCHANGED Lists!vars
  BY <1>1, <1>2, <1>9 DEF Lists!vars
<1>10. QED
  BY <1>3, <1>4, <1>5, <1>6, <1>7, <1>8, <1>9 DEF Lists!Next

(***************************************************************************)
(* However Twitch marks its ads, and wherever the window cuts the break,   *)
(* what is answered is the programme without the ads, each segment at its  *)
(* own time, and one discontinuity where segments are missing              *)
(* (filterTwitchAdSegments).                                               *)
(***************************************************************************)
THEOREM AdsAreLeftOut == Lists!Spec => []Cleaned
<1>1. QED
  BY BreaksInit, CleanedStep, PTL DEF Lists!Spec

-----------------------------------------------------------------------------
(* Playback: whose token a start plays with.                                *)

\* What a call may be served: a guarded one the token of everybody, the other one a token
\* that Twitch gave for somebody's OAuth token.
Serves(r, owner) == IF r.guarded THEN owner = "anonymous" ELSE owner \in pb_Entitled

\* What a start says of the token it holds: only at its end is there a token at all, and it
\* is one that its last call may be served.
TokenOf(r) ==
  /\ r.viewer = pb_None => r.guarded
  /\ r.token # pb_None => /\ r.at \in {"report", "end"} /\ r.oauth = ~r.guarded
                          /\ Serves(r, r.token)

\* The keys that guarded calls use never hold the token of a viewer, the other one holds
\* those of viewers alone whose OAuth token Twitch took.
KeptRight(cache) ==
  /\ \A k \in {"live", "vod"} : cache[k] \in {pb_None, "anonymous"}
  /\ cache["vod:oauth"] \in pb_Entitled \cup {pb_None}

Keyed ==
  /\ Play!TypeOK
  /\ KeptRight(pb_cache)
  /\ \A c \in pb_Callers : TokenOf(pb_req[c])

\* The record of a start.
Starts == [at : {"idle", "gate", "look", "join", "fetch", "wait", "retry", "report", "end"},
           kind : {"live", "vod"}, viewer : pb_Viewers \cup {pb_None}, guarded : BOOLEAN,
           tries : 0 .. 1, gone : BOOLEAN, token : Play!Owners \cup {pb_None}, oauth : BOOLEAN]

LEMMA IdleStart == Play!Idle \in Starts /\ TokenOf(Play!Idle) /\ Play!Idle.token = pb_None
BY DEF Play!Idle, Starts, TokenOf

\* The end of a call, with a token or without one, leaves a start that says the truth.
LEMMA ServedStart ==
  ASSUME NEW r \in Starts, NEW owner \in Play!Owners, TokenOf(r), Serves(r, owner)
  PROVE  Play!Served(r, owner) \in Starts /\ TokenOf(Play!Served(r, owner))
BY DEF Play!Served, Starts, TokenOf, Serves

LEMMA GoneStart ==
  ASSUME NEW r \in Starts, TokenOf(r)
  PROVE  [r EXCEPT !.gone = TRUE] \in Starts /\ TokenOf([r EXCEPT !.gone = TRUE])
<1> DEFINE g == [r EXCEPT !.gone = TRUE]
<1>1. /\ g \in Starts /\ g.at = r.at /\ g.viewer = r.viewer /\ g.guarded = r.guarded
      /\ g.token = r.token /\ g.oauth = r.oauth
  BY DEF Starts
<1> HIDE DEF g
<1>2. TokenOf(g)
  BY <1>1 DEF TokenOf, Serves
<1>3. QED
  BY <1>1, <1>2 DEF g

LEMMA FailedStart ==
  ASSUME NEW r \in Starts, r.token = pb_None, TokenOf(r)
  PROVE  Play!Failed(r) \in Starts /\ TokenOf(Play!Failed(r))
<1>1. Play!Failed(r) \in Starts /\ Play!Failed(r).token = pb_None
  <2>1. CASE ~r.guarded
    BY <2>1 DEF Play!Failed, Starts
  <2>2. CASE r.guarded /\ r.tries = 0
    <3>1. [r EXCEPT !.at = "retry", !.tries = 1] \in Starts
      <4>1. \A t \in 0 .. 1, x \in Starts : [x EXCEPT !.tries = t] \in Starts
        BY DEF Starts
      <4>2. [r EXCEPT !.at = "retry"] \in Starts /\ 1 \in 0 .. 1
        BY DEF Starts
      <4>3. QED
        BY <4>1, <4>2
    <3>2. [r EXCEPT !.at = "retry", !.tries = 1].token = pb_None
      BY DEF Starts
    <3>3. QED
      BY <2>2, <3>1, <3>2 DEF Play!Failed
  <2>3. CASE r.guarded /\ r.tries # 0
    BY <2>3 DEF Play!Failed, Starts
  <2>4. QED
    BY <2>1, <2>2, <2>3
<1>2. Play!Failed(r).viewer = pb_None => Play!Failed(r).guarded
  BY DEF Play!Failed, Starts, TokenOf
<1>3. QED
  BY <1>1, <1>2 DEF TokenOf

\* Keys are those of the cache, and two starts have the same one only when both are guarded
\* or neither is.
LEMMA KeyTellsGuarded ==
  ASSUME NEW r \in Starts
  PROVE  /\ Play!Key(r) \in Play!CacheKeys
         /\ r.guarded => Play!Key(r) \in {"live", "vod"}
         /\ ~r.guarded => Play!Key(r) = "vod:oauth"
BY DEF Starts, Play!Key, Play!CacheKeys

LEMMA KeyedInit == Play!Init => Keyed
<1> SUFFICES ASSUME Play!Init PROVE Keyed
  OBVIOUS
<1> USE DEF Play!Init
<1>1. pb_req \in [pb_Callers -> Starts] /\ \A c \in pb_Callers : TokenOf(pb_req[c])
  BY IdleStart
<1>2. /\ pb_failures \in 0 .. pb_Threshold - 1
      /\ pb_faults \in 0 .. pb_MaxFaults
      /\ pb_open \in BOOLEAN
  <2>1. pb_open \in BOOLEAN
    OBVIOUS
  <2>2. pb_failures \in 0 .. pb_Threshold - 1 /\ pb_faults \in 0 .. pb_MaxFaults
    OBVIOUS
  <2>3. QED
    BY <2>1, <2>2
<1>3. /\ pb_cache \in [Play!CacheKeys -> Play!Owners \cup {pb_None}]
      /\ pb_flight \in [Play!CacheKeys -> pb_Callers \cup {pb_None}]
      /\ KeptRight(pb_cache)
  BY DEF Play!CacheKeys, KeptRight
<1>4. QED
  BY <1>1, <1>2, <1>3 DEF Keyed, Play!TypeOK, Starts

\* A step that gives each start a record that says the truth of its token, and the cache
\* tokens under keys of their kind, keeps the invariant.
LEMMA KeyedKept ==
  ASSUME pb_cache' \in [Play!CacheKeys -> Play!Owners \cup {pb_None}],
         pb_flight' \in [Play!CacheKeys -> pb_Callers \cup {pb_None}],
         pb_failures' \in 0 .. pb_Threshold - 1, pb_open' \in BOOLEAN,
         pb_faults' \in 0 .. pb_MaxFaults,
         pb_req' \in [pb_Callers -> Starts],
         KeptRight(pb_cache'),
         \A c \in pb_Callers : TokenOf(pb_req'[c])
  PROVE  Keyed'
BY DEF Keyed, Play!TypeOK, TokenOf, Serves, KeptRight, Starts

LEMMA KeyedStep == Keyed /\ [Play!Next]_(Play!vars) => Keyed'
<1> SUFFICES ASSUME Keyed, [Play!Next]_(Play!vars) PROVE Keyed'
  OBVIOUS
<1>1. /\ pb_cache \in [Play!CacheKeys -> Play!Owners \cup {pb_None}]
      /\ pb_flight \in [Play!CacheKeys -> pb_Callers \cup {pb_None}]
      /\ pb_failures \in 0 .. pb_Threshold - 1 /\ pb_open \in BOOLEAN
      /\ pb_faults \in 0 .. pb_MaxFaults
      /\ pb_req \in [pb_Callers -> Starts]
      /\ KeptRight(pb_cache)
      /\ \A c \in pb_Callers : TokenOf(pb_req[c])
  BY DEF Keyed, Play!TypeOK, Starts
\* A step of c alone.
<1>2. ASSUME NEW c \in pb_Callers, NEW r \in Starts, TokenOf(r), pb_req' = [pb_req EXCEPT ![c] = r]
      PROVE  pb_req' \in [pb_Callers -> Starts] /\ \A q \in pb_Callers : TokenOf(pb_req'[q])
  BY <1>1, <1>2
\* What the cache holds under the key of a start is what the start may be served.
<1>3. ASSUME NEW c \in pb_Callers, pb_cache[Play!Key(pb_req[c])] # pb_None
      PROVE  /\ pb_cache[Play!Key(pb_req[c])] \in Play!Owners
             /\ Serves(pb_req[c], pb_cache[Play!Key(pb_req[c])])
  BY <1>1, <1>3, KeyTellsGuarded DEF KeptRight, Serves
<1>4. ASSUME NEW c \in pb_Callers, Play!Begin(c) PROVE Keyed'
  <2>1. PICK kind \in {"live", "vod"}, v \in pb_Viewers \cup {pb_None} :
          pb_req' = [pb_req EXCEPT ![c] =
                       [Play!Idle EXCEPT !.kind = kind, !.viewer = v, !.guarded = v = pb_None,
                                         !.at = IF v = pb_None THEN "gate" ELSE "look"]]
    BY <1>4 DEF Play!Begin
  <2> DEFINE r == [Play!Idle EXCEPT !.kind = kind, !.viewer = v, !.guarded = v = pb_None,
                                    !.at = IF v = pb_None THEN "gate" ELSE "look"]
  <2>2. r \in Starts /\ TokenOf(r)
    BY IdleStart DEF Starts, TokenOf
  <2>3. QED
    BY <1>1, <1>2, <1>4, <2>1, <2>2, KeyedKept DEF Play!Begin
<1>5. ASSUME NEW c \in pb_Callers, NEW where \in {"end", "look", "join", "wait", "fetch", "report"},
             Play!Goto(c, where), pb_req[c].token = pb_None \/ where = "end"
      PROVE  pb_req' \in [pb_Callers -> Starts] /\ \A q \in pb_Callers : TokenOf(pb_req'[q])
  <2>1. [pb_req[c] EXCEPT !.at = where] \in Starts /\ TokenOf([pb_req[c] EXCEPT !.at = where])
    BY <1>1, <1>5 DEF Starts, TokenOf, Serves
  <2>2. pb_req' = [pb_req EXCEPT ![c] = [pb_req[c] EXCEPT !.at = where]]
    BY <1>1, <1>5 DEF Play!Goto
  <2>3. QED
    BY <1>2, <2>1, <2>2
<1>6. ASSUME NEW c \in pb_Callers, Play!Gate(c) PROVE Keyed'
  <2>1. pb_req[c].token = pb_None
    BY <1>1, <1>6 DEF Play!Gate, TokenOf
  <2>2. QED
    BY <1>1, <1>5, <1>6, <2>1, KeyedKept DEF Play!Gate
<1>7. ASSUME NEW c \in pb_Callers, Play!Look(c) PROVE Keyed'
  <2> DEFINE r == IF pb_cache[Play!Key(pb_req[c])] # pb_None
                  THEN Play!Served(pb_req[c], pb_cache[Play!Key(pb_req[c])])
                  ELSE [pb_req[c] EXCEPT !.at = "join"]
  <2>1. ASSUME pb_cache[Play!Key(pb_req[c])] = pb_None PROVE r \in Starts /\ TokenOf(r)
    BY <1>1, <1>7, <2>1 DEF Play!Look, Starts, TokenOf
  <2>2. ASSUME pb_cache[Play!Key(pb_req[c])] # pb_None PROVE r \in Starts /\ TokenOf(r)
    BY <1>1, <1>3, <2>2, ServedStart
  <2>3. pb_req' = [pb_req EXCEPT ![c] = r] /\ UNCHANGED <<pb_cache, pb_flight, pb_failures, pb_open, pb_faults>>
    BY <1>7 DEF Play!Look
  <2> HIDE DEF r
  <2>4. QED
    BY <1>1, <1>2, <2>1, <2>2, <2>3, KeyedKept
<1>8. ASSUME NEW c \in pb_Callers, Play!Join(c) PROVE Keyed'
  <2> DEFINE k == Play!Key(pb_req[c])
  <2>1. pb_req[c].token = pb_None /\ k \in Play!CacheKeys
    BY <1>1, <1>8, KeyTellsGuarded DEF Play!Join, TokenOf
  <2>2. CASE pb_flight[k] # pb_None
    BY <1>1, <1>5, <1>8, <2>1, <2>2, KeyedKept DEF Play!Join
  <2>3. CASE pb_flight[k] = pb_None /\ pb_cache[k] # pb_None
    <3>1. Play!Served(pb_req[c], pb_cache[k]) \in Starts /\ TokenOf(Play!Served(pb_req[c], pb_cache[k]))
      BY <1>1, <1>3, <2>3, ServedStart
    <3>2. pb_req' = [pb_req EXCEPT ![c] = Play!Served(pb_req[c], pb_cache[k])]
          /\ UNCHANGED <<pb_cache, pb_flight, pb_failures, pb_open, pb_faults>>
      BY <1>8, <2>3 DEF Play!Join
    <3>3. QED
      BY <1>1, <1>2, <3>1, <3>2, KeyedKept
  <2>4. CASE pb_flight[k] = pb_None /\ pb_cache[k] = pb_None
    <3>1. pb_flight' = [pb_flight EXCEPT ![k] = c] /\ Play!Goto(c, "fetch")
          /\ UNCHANGED <<pb_cache, pb_failures, pb_open, pb_faults>>
      BY <1>8, <2>4 DEF Play!Join
    <3>2. QED
      BY <1>1, <1>5, <2>1, <3>1, KeyedKept
  <2>5. QED
    BY <2>2, <2>3, <2>4
<1>9. ASSUME NEW c \in pb_Callers, Play!Fetched(c) PROVE Keyed'
  <2> DEFINE owner == IF pb_req[c].guarded THEN "anonymous" ELSE pb_req[c].viewer
  <2> DEFINE k == Play!Key(pb_req[c])
  <2>1. owner \in Play!Owners /\ Serves(pb_req[c], owner)
    BY <1>1, <1>9 DEF Starts, TokenOf, Serves, Play!Owners, Play!Fetched
  <2>2. /\ pb_cache' = [pb_cache EXCEPT ![k] = owner]
        /\ pb_flight' = [pb_flight EXCEPT ![k] = pb_None]
        /\ UNCHANGED <<pb_failures, pb_open, pb_faults>>
        /\ pb_req' = [q \in pb_Callers |->
             IF q = c \/ (pb_req[q].at = "wait" /\ Play!Key(pb_req[q]) = k)
             THEN Play!Served(pb_req[q], owner) ELSE pb_req[q]]
    BY <1>9 DEF Play!Fetched, Play!Land
  <2>3. ASSUME NEW q \in pb_Callers, Play!Key(pb_req[q]) = k
        PROVE  Play!Served(pb_req[q], owner) \in Starts /\ TokenOf(Play!Served(pb_req[q], owner))
    <3>1. pb_req[q].guarded = pb_req[c].guarded
      BY <1>1, <2>3, KeyTellsGuarded DEF Starts
    <3>2. Serves(pb_req[q], owner)
      BY <2>1, <3>1 DEF Serves
    <3>3. QED
      BY <1>1, <2>1, <3>2, ServedStart
  <2>4. pb_req' \in [pb_Callers -> Starts] /\ \A q \in pb_Callers : TokenOf(pb_req'[q])
    BY <1>1, <2>2, <2>3
  <2>5. /\ k \in Play!CacheKeys
        /\ k \in {"live", "vod"} => owner = "anonymous"
        /\ k = "vod:oauth" => owner \in pb_Entitled
    BY <1>1, <2>1, KeyTellsGuarded DEF Serves
  <2>6. KeptRight(pb_cache')
    BY <1>1, <2>2, <2>5 DEF Play!CacheKeys, KeptRight
  <2>7. QED
    BY <1>1, <2>1, <2>2, <2>4, <2>5, <2>6, KeyedKept
<1>10. ASSUME NEW c \in pb_Callers, Play!FetchFails(c) PROVE Keyed'
  <2> DEFINE k == Play!Key(pb_req[c])
  <2>1. /\ pb_flight' = [pb_flight EXCEPT ![k] = pb_None]
        /\ UNCHANGED <<pb_cache, pb_failures, pb_open>>
        /\ pb_req' = [q \in pb_Callers |->
             IF q = c \/ (pb_req[q].at = "wait" /\ Play!Key(pb_req[q]) = k)
             THEN Play!Failed(pb_req[q]) ELSE pb_req[q]]
    BY <1>10 DEF Play!FetchFails, Play!Land
  <2>2. ASSUME NEW q \in pb_Callers, q = c \/ pb_req[q].at = "wait"
        PROVE  Play!Failed(pb_req[q]) \in Starts /\ TokenOf(Play!Failed(pb_req[q]))
    BY <1>1, <1>10, <2>2, FailedStart DEF Play!FetchFails, TokenOf
  <2>3. pb_req' \in [pb_Callers -> Starts] /\ \A q \in pb_Callers : TokenOf(pb_req'[q])
    BY <1>1, <2>1, <2>2
  <2>4. pb_faults' \in 0 .. pb_MaxFaults /\ k \in Play!CacheKeys
    BY <1>1, <1>10, KeyTellsGuarded DEF Play!FetchFails
  <2>5. QED
    BY <1>1, <2>1, <2>3, <2>4, KeyedKept
<1>11. ASSUME NEW c \in pb_Callers, Play!Retry(c) PROVE Keyed'
  <2>1. pb_req[c].token = pb_None
    BY <1>1, <1>11 DEF Play!Retry, TokenOf
  <2>2. QED
    BY <1>1, <1>5, <1>11, <2>1, KeyedKept DEF Play!Retry
<1>12. ASSUME NEW c \in pb_Callers, Play!Report(c) PROVE Keyed'
  <2>1. pb_failures' \in 0 .. pb_Threshold - 1
    BY <1>1, <1>12 DEF Play!Report
  <2>2. pb_open' \in BOOLEAN
    BY <1>1, <1>12 DEF Play!Report
  <2>3. QED
    BY <1>1, <1>5, <1>12, <2>1, <2>2, KeyedKept DEF Play!Report
<1>13. ASSUME NEW c \in pb_Callers, Play!Leave(c) PROVE Keyed'
  <2>1. [pb_req[c] EXCEPT !.gone = TRUE] \in Starts /\ TokenOf([pb_req[c] EXCEPT !.gone = TRUE])
    BY <1>1, GoneStart
  <2>2. pb_req' = [pb_req EXCEPT ![c] = [pb_req[c] EXCEPT !.gone = TRUE]]
        /\ UNCHANGED <<pb_cache, pb_flight, pb_failures, pb_open>> /\ pb_faults' \in 0 .. pb_MaxFaults
    BY <1>1, <1>13 DEF Play!Leave
  <2>3. QED
    BY <1>1, <1>2, <2>1, <2>2, KeyedKept
<1>14. ASSUME NEW k \in Play!CacheKeys, Play!Expire(k) PROVE Keyed'
  <2>1. pb_cache' \in [Play!CacheKeys -> Play!Owners \cup {pb_None}]
        /\ KeptRight(pb_cache')
    BY <1>1, <1>14 DEF Play!Expire, Play!CacheKeys, KeptRight
  <2>2. QED
    BY <1>1, <1>14, <2>1, KeyedKept DEF Play!Expire
<1>15. CASE Play!CoolDown \/ UNCHANGED Play!vars
  BY <1>1, <1>15, KeyedKept DEF Play!CoolDown, Play!vars
<1>16. QED
  BY <1>4, <1>6, <1>7, <1>8, <1>9, <1>10, <1>11, <1>12, <1>13, <1>14, <1>15 DEF Play!Next

\* However many starts share fetches and the cache, a token that was fetched with the OAuth
\* token of a viewer is played with only by starts that are signed in, and only if Twitch
\* took that OAuth token; every other start plays with the token of everybody (token.go: Vod
\* and vodCacheKey).  It does not say that the viewer is the one who starts, and need not be:
\* the key names no viewer.
THEOREM ViewersTokensAreForTheSignedIn == Play!Spec => []AnonymousIsAnonymous
<1>1. Keyed => AnonymousIsAnonymous
  BY DEF Keyed, TokenOf, Serves, AnonymousIsAnonymous, Play!AnonymousIsAnonymous, Play!TypeOK
<1>2. QED
  BY KeyedInit, KeyedStep, <1>1, PTL DEF Play!Spec

-----------------------------------------------------------------------------
(* Startup: the processes of a start.                                       *)

\* Before a backend is spawned, and when there is none left, nothing runs; while
\* streamlink waits for its ffmpeg there is none.
Spawned ==
  /\ st_at \in {"spawn", "failed"} => st_sl # "runs" /\ st_ff # "runs"
  /\ st_at = "ffmpeg" => st_ff = "none"

\* The service holds an end of the pipe only between the starts of the two processes,
\* streamlink holds one only as long as it runs.
Pipe ==
  /\ "service" \in st_writers => st_at = "ffmpeg"
  /\ "streamlink" \in st_writers => st_sl = "runs"
  /\ st_writers \subseteq {"service", "streamlink"}

LEMMA StartInit == Start!Init => Spawned /\ Pipe
BY DEF Start!Init, Spawned, Pipe

LEMMA StartStep == Spawned /\ Pipe /\ [Start!Next]_(Start!vars) => (Spawned /\ Pipe)'
<1> SUFFICES ASSUME Spawned, Pipe, [Start!Next]_(Start!vars) PROVE (Spawned /\ Pipe)'
  OBVIOUS
<1> USE DEF Spawned, Pipe
<1>1. CASE Start!SpawnDirect \/ Start!SpawnFails \/ Start!StartStreamlink
  BY <1>1 DEF Start!SpawnDirect, Start!SpawnFails, Start!StartStreamlink, Start!NextBackend
<1>2. CASE Start!StartFfmpeg \/ Start!FfmpegFails
  BY <1>2 DEF Start!StartFfmpeg, Start!FfmpegFails, Start!NextBackend, Start!ReapedWhen
<1>3. CASE Start!Probe \/ Start!Abandon
  BY <1>3 DEF Start!Probe, Start!Abandon
<1>4. CASE Start!GiveUp
  BY <1>4 DEF Start!GiveUp, Start!NextBackend, Start!ReapedWhen, Start!Ended
<1>5. CASE Start!Wait
  BY <1>5 DEF Start!Wait, Start!ReapedWhen
<1>6. CASE Start!StreamlinkEnds \/ Start!FfmpegEnds \/ Start!EndOfInput \/ Start!Publish
  BY <1>6 DEF Start!StreamlinkEnds, Start!FfmpegEnds, Start!EndOfInput, Start!Publish
<1>7. CASE Start!Stopped \/ UNCHANGED Start!vars
  BY <1>7 DEF Start!Stopped, Start!vars
<1>8. QED
  BY <1>1, <1>2, <1>3, <1>4, <1>5, <1>6, <1>7 DEF Start!Next

\* When every backend has failed, none of their processes still runs, whichever way each
\* of them failed (startWorker, startVodWorker, worker.Start).
THEOREM FailedStartsLeaveNothing == Start!Spec => []NothingLeftRunning
<1>1. Spawned => NothingLeftRunning
  BY DEF Spawned, NothingLeftRunning, Start!NothingLeftRunning
<1>2. QED
  BY StartInit, StartStep, <1>1, PTL DEF Start!Spec

\* Nobody can write to the pipe of a worker that is up and whose streamlink has ended: its
\* ffmpeg sees the end of its input (worker.Start closes the service's own ends).
PipeIsClosed == st_at = "up" /\ st_sl # "runs" => st_writers = {}

THEOREM EndOfInputReachesFfmpeg == Start!Spec => []PipeIsClosed
<1>1. Pipe => PipeIsClosed
  BY DEF Pipe, PipeIsClosed
<1>2. QED
  BY StartInit, StartStep, <1>1, PTL DEF Start!Spec
=============================================================================
