---------------------------- MODULE ServiceProofs ----------------------------
(***************************************************************************)
(* Proofs about SpeechService.  What concerns the gate holds however many  *)
(* restarts run at once; what concerns the engine holds when at most one   *)
(* does, and fails otherwise (the run service_orphan).                     *)
(***************************************************************************)
EXTENDS SpeechService, FiniteSetTheorems, TLAPS

-----------------------------------------------------------------------------
(* The gate, however many restarts run at once. *)

Holders == {c \in Clients : client[c].pc # "away"}

\* What start works on is a tuning, never the goal of a close; what close terminates is a
\* process.
GoalsKnown ==
    \A k \in Callers :
        /\ call[k].pc \in {"probing", "executing"} => call[k].goal \in Tunings
        /\ call[k].pc = "terminating" => call[k].handles \in Procs

TypeInv == TypeOK /\ GoalsKnown

-----------------------------------------------------------------------------
\* The service starts well typed.
LEMMA InitTypes == Init => TypeInv
<1> SUFFICES ASSUME Init PROVE TypeInv
  OBVIOUS
<1>1. settings \in Tunings
  BY EngineAssumption DEF Init, EngineInit
<1>2. EngineTypeOK /\ GoalsKnown
  BY <1>1, EngineAssumption DEF Init, EngineInit, EngineTypeOK, GoalsKnown, Procs, NoProc
<1>3. TypeOK
  BY <1>1, <1>2, ServiceAssumption DEF Init, TypeOK, Settings, Hot, NoProc
<1> QED BY <1>2, <1>3 DEF TypeInv

\* A caller moved to where its goal is fit for keeps the types of the callers.
LEMMA AtTypes ==
  ASSUME EngineTypeOK, GoalsKnown, NEW k \in Callers,
         NEW pc \in {"resting", "failed", "raised", "closed", "taking", "terminating",
                     "probing", "executing"},
         NEW goal \in Tunings \cup {ToClose}, NEW p \in Procs \cup {NoProc},
         pc \in {"probing", "executing"} => goal \in Tunings,
         pc = "terminating" => p \in Procs,
         At(k, pc, goal, p)
  PROVE  /\ call' \in [Callers -> [pc : {"resting", "failed", "raised", "closed", "taking",
                                          "terminating", "probing", "executing"},
                                    goal : Tunings \cup {ToClose},
                                    handles : Procs \cup {NoProc}]]
         /\ GoalsKnown'
  BY DEF At, EngineTypeOK, GoalsKnown

\* What follows close keeps the types.
LEMMA AfterCloseTypes ==
  ASSUME EngineTypeOK, GoalsKnown, NEW k \in Callers, NEW goal \in Tunings \cup {ToClose},
         AfterClose(k, goal),
         current' \in Procs \cup {NoProc}, monitorTask' \in Procs \cup {NoProc},
         UNCHANGED monitor, survivors' \subseteq Procs, unended' \subseteq Procs,
         procs' \in [Procs -> [status : {"none", "loading", "serving", "orphaned", "dead"},
                               built : Tunings]]
  PROVE  EngineTypeOK' /\ GoalsKnown'
<1>1. NoProc \in Procs \cup {NoProc}
  OBVIOUS
<1>2. CASE goal = ToClose
  BY <1>1, <1>2, AtTypes DEF AfterClose, Returns, EngineTypeOK
<1>3. CASE goal # ToClose
  <2>1. Returns(k, "resting") \/ At(k, "probing", goal, NoProc)
    BY <1>3 DEF AfterClose
  <2>2. GoalsKnown' /\ call' \in [Callers -> [pc : {"resting", "failed", "raised", "closed",
                          "taking", "terminating", "probing", "executing"},
                        goal : Tunings \cup {ToClose}, handles : Procs \cup {NoProc}]]
    BY <1>1, <1>3, <2>1, AtTypes DEF Returns
  <2> QED BY <1>3, <2>2 DEF AfterClose, EngineTypeOK
<1> QED BY <1>2, <1>3

\* close keeps the types, whatever its goal.
LEMMA CloseTypes ==
  ASSUME EngineTypeOK, GoalsKnown, NEW k \in Callers, NEW goal \in Tunings \cup {ToClose},
         Close(k, goal) \/ (TakeProcess(k, goal) /\ UNCHANGED <<monitorTask, monitor, procs, history>>)
  PROVE  EngineTypeOK' /\ GoalsKnown'
<1>1. ASSUME TakeProcess(k, goal), UNCHANGED <<monitor, procs, survivors, unended>>,
             monitorTask' \in Procs \cup {NoProc}
      PROVE  EngineTypeOK' /\ GoalsKnown'
  <2>1. CASE AfterClose(k, goal)
    BY <1>1, <2>1, AfterCloseTypes DEF TakeProcess, EngineTypeOK
  <2>2. CASE At(k, "terminating", goal, current) /\ UNCHANGED <<engineState, settings>>
    <3>1. current \in Procs \cup {NoProc}
      BY DEF EngineTypeOK
    <3>2. CASE current = NoProc
      BY <1>1, <2>1, <3>2, AfterCloseTypes DEF TakeProcess, EngineTypeOK
    <3>3. CASE current \in Procs
      BY <1>1, <2>2, <3>1, <3>3, AtTypes DEF TakeProcess, EngineTypeOK
    <3> QED BY <3>1, <3>2, <3>3
  <2> QED BY <1>1, <2>1, <2>2 DEF TakeProcess
<1>2. CASE Close(k, goal)
  <2>1. CASE TakeProcess(k, goal) /\ UNCHANGED monitor
    BY <1>1, <1>2, <2>1 DEF Close, history
  <2>2. CASE /\ monitor' = [monitor EXCEPT ![monitorTask].pc = "ended"]
             /\ At(k, "taking", goal, NoProc)
             /\ UNCHANGED <<engineState, settings, current>>
    <3>1. NoProc \in Procs \cup {NoProc}
      OBVIOUS
    <3>2. monitor' \in [Procs -> [pc : {"none", "polling", "asking", "answered", "watching", "ended"},
                                   waits : Procs \cup {NoProc}]]
      BY <2>2 DEF EngineTypeOK
    <3> QED BY <1>2, <2>2, <3>1, <3>2, AtTypes DEF Close, history, EngineTypeOK
  <2> QED BY <1>2, <2>1, <2>2 DEF Close
<1>3. CASE TakeProcess(k, goal) /\ UNCHANGED <<monitorTask, monitor, procs, history>>
  BY <1>1, <1>3 DEF EngineTypeOK, history
<1> QED BY <1>2, <1>3

\* The later steps of close and start keep the types.
LEMMA CallerTypes ==
  ASSUME EngineTypeOK, GoalsKnown, NEW k \in Callers, CallerStep(k)
  PROVE  EngineTypeOK' /\ GoalsKnown'
<1>1. call[k].goal \in Tunings \cup {ToClose}
  BY DEF EngineTypeOK
<1>2. CASE MonitorGone(k)
  BY <1>1, <1>2, CloseTypes DEF MonitorGone
<1>3. CASE GroupTerminated(k)
  <2>1. procs' \in [Procs -> [status : {"none", "loading", "serving", "orphaned", "dead"},
                              built : Tunings]]
    BY <1>3 DEF GroupTerminated, EngineTypeOK
  <2>2. survivors' \subseteq Procs /\ UNCHANGED unended
    BY <1>3 DEF GroupTerminated, EngineTypeOK, GoalsKnown
  <2> QED BY <1>1, <1>3, <2>1, <2>2, AfterCloseTypes DEF GroupTerminated, EngineTypeOK
<1>4. CASE Execute(k)
  <2>1. PICK p \in Procs :
          /\ procs' = [procs EXCEPT ![p] = [status |-> "loading", built |-> settings]]
          /\ At(k, "executing", call[k].goal, p)
    BY <1>4 DEF Execute, Unstarted
  <2>2. call[k].goal \in Tunings
    BY <1>4 DEF Execute, GoalsKnown
  <2> QED BY <1>4, <2>1, <2>2, AtTypes DEF Execute, history, EngineTypeOK
<1>5. CASE ExecuteFails(k)
  BY <1>5, AtTypes DEF ExecuteFails, Returns, history, EngineTypeOK
<1>6. CASE Adopt(k)
  <2>1. /\ current' \in Procs \cup {NoProc} /\ monitorTask' \in Procs \cup {NoProc}
        /\ At(k, "resting", ToClose, NoProc) /\ NoProc \in Procs \cup {NoProc}
    BY <1>6 DEF Adopt, Returns, EngineTypeOK
  <2>2. monitor' \in [Procs -> [pc : {"none", "polling", "asking", "answered", "watching", "ended"},
                                waits : Procs \cup {NoProc}]]
    BY <1>6 DEF Adopt, EngineTypeOK
  <2> QED BY <1>6, <2>1, <2>2, AtTypes DEF Adopt, history, EngineTypeOK
<1>7. CASE TerminationRaises(k)
  <2>1. PICK pc \in {"closed", "raised"} : At(k, pc, ToClose, NoProc)
    BY <1>7 DEF TerminationRaises, Returns
  <2>2. GoalsKnown' /\ call' \in [Callers -> [pc : {"resting", "failed", "raised", "closed",
                          "taking", "terminating", "probing", "executing"},
                        goal : Tunings \cup {ToClose}, handles : Procs \cup {NoProc}]]
    BY <2>1, AtTypes
  <2>3. unended' \subseteq Procs
    BY <1>7 DEF TerminationRaises, EngineTypeOK, GoalsKnown
  <2> QED BY <1>7, <2>2, <2>3 DEF TerminationRaises, EngineTypeOK
<1> QED BY <1>2, <1>3, <1>4, <1>5, <1>6, <1>7 DEF CallerStep

\* A monitor and a process keep the types.
LEMMA EngineTypes ==
  ASSUME EngineTypeOK, GoalsKnown,
         \/ \E m \in Procs : MonitorStep(m)
         \/ \E p \in Procs : ProcessStep(p)
  PROVE  EngineTypeOK' /\ GoalsKnown'
<1>1. ASSUME NEW m \in Procs, MonitorStep(m) PROVE EngineTypeOK' /\ GoalsKnown'
  <2>1. /\ UNCHANGED <<settings, current, monitorTask, procs, call, survivors, unended>>
        /\ engineState' \in {engineState, "ready", "error"}
    BY <1>1 DEF MonitorStep, MonitorLooks, PortAnswers, MonitorTimesOut, MonitorReady,
                MonitorNoticesExit, history
  <2>2. monitor' \in [Procs -> [pc : {"none", "polling", "asking", "answered", "watching", "ended"},
                                waits : Procs \cup {NoProc}]]
    <3>1. CASE MonitorReady(m)
      BY <3>1 DEF MonitorReady, EngineTypeOK
    <3>2. CASE ~MonitorReady(m)
      <4>1. PICK pc \in {"polling", "asking", "answered", "ended"} : Goes(m, pc)
        BY <1>1, <3>2
        DEF MonitorStep, MonitorLooks, PortAnswers, MonitorTimesOut, MonitorNoticesExit
      <4> QED BY <4>1 DEF Goes, EngineTypeOK
    <3> QED BY <3>1, <3>2
  <2> QED BY <2>1, <2>2 DEF EngineTypeOK, GoalsKnown
<1>2. ASSUME NEW p \in Procs, ProcessStep(p) PROVE EngineTypeOK' /\ GoalsKnown'
  BY <1>2 DEF ProcessStep, FinishLoading, Crash, history, EngineTypeOK, GoalsKnown
<1> QED BY <1>1, <1>2

\* Every step keeps the types.
LEMMA NextTypes == TypeInv /\ [Next]_vars => TypeInv'
<1> SUFFICES ASSUME TypeInv, [Next]_vars PROVE TypeInv'
  OBVIOUS
<1> USE DEF TypeInv, TypeOK
<1>1. ASSUME NEW c \in Clients, Admit(c) \/ OpenSession(c) \/ EndSegment(c) \/ Leave(c)
      PROVE  TypeInv'
  <2>1. EngineTypeOK' /\ GoalsKnown' /\ UNCHANGED <<up, capacity, tuning>>
    BY <1>1 DEF Admit, OpenSession, EndSegment, Leave, engineVars, history, EngineTypeOK,
                GoalsKnown
  <2>2. active' \in Nat
    BY <1>1 DEF Admit, OpenSession, EndSegment, Leave
  <2> DEFINE Client == [pc : {"away", "admitted", "open"},
                        proc : Procs \cup {NoProc}, chunked : Tunings]
  <2>3. client \in [Clients -> Client] /\ settings \in Tunings
    BY DEF EngineTypeOK
  <2>4. \E new \in Client : client' = [client EXCEPT ![c] = new]
    <3>1. CASE Admit(c)
      <4>1. client' = [client EXCEPT ![c] = [client[c] EXCEPT !.pc = "admitted"]]
        BY <3>1 DEF Admit
      <4> QED BY <2>3, <4>1
    <3>2. CASE OpenSession(c)
      <4>1. PICK p \in Procs :
              client' = [client EXCEPT ![c] = [pc |-> "open", proc |-> p, chunked |-> settings]]
        BY <3>2 DEF OpenSession
      <4> QED BY <2>3, <4>1
    <3>3. CASE EndSegment(c) \/ Leave(c)
      <4>1. PICK pc \in {"away", "admitted"} :
              client' = [client EXCEPT ![c] = [client[c] EXCEPT !.pc = pc, !.proc = NoProc]]
        BY <2>3, <3>3 DEF EndSegment, Leave
      <4> QED BY <2>3, <4>1
    <3> QED BY <1>1, <3>1, <3>2, <3>3
  <2>5. client' \in [Clients -> Client]
    BY <2>3, <2>4
  <2> QED BY <2>1, <2>2, <2>5 DEF tuning
<1>2. CASE \/ \E delay \in Delays : PutDelay(delay)
           \/ PutStreams
           \/ \E cold \in Tunings : PutCold(cold)
  <2>1. EngineTypeOK' /\ GoalsKnown' /\ UNCHANGED <<up, active, client, snapshot>>
    BY <1>2 DEF PutDelay, PutStreams, PutCold, gate, engineVars, history, EngineTypeOK, GoalsKnown
  <2> USE DEF Settings, Hot, gate
  <2>2. CASE \E delay \in Delays : PutDelay(delay)
    BY <2>1, <2>2 DEF PutDelay
  <2>3. CASE PutStreams
    BY <2>1, <2>3, ServiceAssumption DEF PutStreams
  <2>4. CASE \E cold \in Tunings : PutCold(cold)
    BY <2>1, <2>4 DEF PutCold
  <2> QED BY <1>2, <2>2, <2>3, <2>4
<1>3. ASSUME NEW k \in Callers, RequestRestart(k) PROVE TypeInv'
  <2>1. store.cold \in Tunings /\ Close(k, store.cold)
    BY <1>3 DEF RequestRestart, Settings
  <2>2. EngineTypeOK' /\ GoalsKnown'
    BY <2>1, CloseTypes
  <2> QED BY <1>3, <2>2 DEF RequestRestart, gate, Settings
<1>4. ASSUME NEW k \in Callers, Restarting(k) PROVE TypeInv'
  <2>1. EngineTypeOK' /\ GoalsKnown'
    BY <1>4, CallerTypes DEF Restarting
  <2>2. CASE call'[k].pc = "resting"
    <3>1. call[k].goal \in Tunings
      <4>1. CASE AfterClose(k, call[k].goal)
        BY <2>2, <4>1 DEF AfterClose, Returns, At, EngineTypeOK
      <4>2. CASE ~AfterClose(k, call[k].goal)
        BY <1>4, <2>2, <4>2
        DEF Restarting, CallerStep, MonitorGone, TakeProcess, GroupTerminated,
            TerminationRaises, Execute, ExecuteFails, Adopt, Returns, At, EngineTypeOK,
            GoalsKnown
      <4> QED BY <4>1, <4>2
    <3> QED BY <1>4, <2>1, <2>2, <3>1 DEF Restarting, Settings, Hot
  <2>3. CASE call'[k].pc # "resting"
    BY <1>4, <2>1, <2>3 DEF Restarting
  <2> QED BY <2>2, <2>3
<1>5. ASSUME NEW k \in Callers, Close(k, ToClose), Shutdown PROVE TypeInv'
  <2>1. EngineTypeOK' /\ GoalsKnown'
    BY <1>5, CloseTypes
  <2> QED BY <1>5, <2>1 DEF Shutdown, gate, tuning
<1>6. CASE \/ \E m \in Procs : Monitoring(m)
           \/ \E p \in Procs : Engine(p)
  <2>1. EngineTypeOK' /\ GoalsKnown'
    BY <1>6, EngineTypes DEF Monitoring, Engine
  <2> QED BY <1>6, <2>1 DEF Monitoring, Engine, gate, tuning
<1>7. CASE UNCHANGED vars
  BY <1>7 DEF vars, gate, tuning, engineVars, history, EngineTypeOK, GoalsKnown
<1> QED BY <1>1, <1>2, <1>3, <1>4, <1>5, <1>6, <1>7 DEF Next, Shutdown, Stopped

\* Type correctness of the service and its engine.
THEOREM ServiceTypes == Spec => []TypeOK
<1>1. TypeInv => TypeOK
  BY DEF TypeInv
<1> QED BY <1>1, InitTypes, NextTypes, PTL DEF Spec

-----------------------------------------------------------------------------
(* The slots.                                                                *)

\* A slot taken and a slot given back change the number of holders by one.
LEMMA HoldersChange ==
  ASSUME TypeOK, NEW c \in Clients, client' \in [Clients -> [pc : {"away", "admitted", "open"},
                                        proc : Procs \cup {NoProc}, chunked : Tunings]],
         \A d \in Clients \ {c} : client'[d] = client[d]
  PROVE  /\ IsFiniteSet(Holders) /\ Cardinality(Holders) \in Nat
         /\ client[c].pc = "away" /\ client'[c].pc # "away" =>
               Cardinality(Holders') = Cardinality(Holders) + 1
         /\ client[c].pc # "away" /\ client'[c].pc = "away" =>
               Cardinality(Holders) >= 1 /\ Cardinality(Holders') = Cardinality(Holders) - 1
         /\ client[c].pc # "away" /\ client'[c].pc # "away" => Holders' = Holders
<1>1. IsFiniteSet(Holders)
  BY ServiceAssumption, FS_Subset DEF Holders
<1>2. Cardinality(Holders) \in Nat
  BY <1>1, FS_CardinalityType
<1>3. ASSUME client[c].pc = "away", client'[c].pc # "away"
      PROVE  Cardinality(Holders') = Cardinality(Holders) + 1
  <2>1. Holders' = Holders \cup {c} /\ c \notin Holders
    BY <1>3 DEF Holders
  <2> QED BY <1>1, <2>1, FS_AddElement
<1>4. ASSUME client[c].pc # "away", client'[c].pc = "away"
      PROVE  Cardinality(Holders) >= 1 /\ Cardinality(Holders') = Cardinality(Holders) - 1
  <2>1. Holders' = Holders \ {c} /\ c \in Holders
    BY <1>4 DEF Holders
  <2>2. Cardinality(Holders') = Cardinality(Holders) - 1
    BY <1>1, <2>1, FS_RemoveElement
  <2>3. Cardinality(Holders) # 0
    BY <1>1, <2>1, FS_EmptySet
  <2> QED BY <1>2, <2>2, <2>3
<1>5. ASSUME client[c].pc # "away", client'[c].pc # "away"
      PROVE  Holders' = Holders
  BY <1>5 DEF Holders
<1> QED BY <1>1, <1>2, <1>3, <1>4, <1>5

\* The count of the gate follows the requests that hold a slot.
LEMMA NextSlots == TypeInv /\ SlotsMatch /\ TypeInv' /\ [Next]_vars => SlotsMatch'
<1> SUFFICES ASSUME TypeInv, SlotsMatch, TypeInv', [Next]_vars PROVE SlotsMatch'
  OBVIOUS
<1> USE DEF TypeInv
<1>1. ASSUME NEW c \in Clients, Admit(c) \/ OpenSession(c) \/ EndSegment(c) \/ Leave(c)
      PROVE  SlotsMatch'
  <2>1. \A d \in Clients \ {c} : client'[d] = client[d]
    BY <1>1 DEF Admit, OpenSession, EndSegment, Leave, TypeOK
  <2>2. client' \in [Clients -> [pc : {"away", "admitted", "open"},
                                 proc : Procs \cup {NoProc}, chunked : Tunings]]
    BY DEF TypeOK
  <2>3. active = Cardinality(Holders) /\ active <= BaseStreams /\ BaseStreams \in Nat
    BY ServiceAssumption DEF SlotsMatch, Holders
  <2>4. CASE Admit(c)
    <3>1. client[c].pc = "away" /\ client'[c].pc # "away"
      BY <2>4 DEF Admit, TypeOK
    <3>2. active < capacity /\ active' = active + 1 /\ capacity <= BaseStreams
          /\ active \in Nat /\ capacity \in Nat
      BY <2>4 DEF Admit, TypeOK
    <3>3. Cardinality(Holders') = Cardinality(Holders) + 1
      BY <2>1, <2>2, <3>1, HoldersChange
    <3> QED BY <2>3, <3>2, <3>3 DEF SlotsMatch, Holders
  <2>5. CASE Leave(c)
    <3>1. client[c].pc # "away" /\ client'[c].pc = "away"
      BY <2>5 DEF Leave, TypeOK
    <3>2. active' = IF active > 0 THEN active - 1 ELSE 0
      BY <2>5 DEF Leave
    <3>3. Cardinality(Holders) >= 1 /\ Cardinality(Holders') = Cardinality(Holders) - 1
      BY <2>1, <2>2, <3>1, HoldersChange
    <3>4. active \in Nat
      BY DEF TypeOK
    <3> QED BY <2>3, <3>2, <3>3, <3>4 DEF SlotsMatch, Holders
  <2>6. CASE OpenSession(c) \/ EndSegment(c)
    <3>1. client[c].pc # "away" /\ client'[c].pc # "away" /\ active' = active
      BY <2>6 DEF OpenSession, EndSegment, TypeOK
    <3>2. Holders' = Holders
      BY <2>1, <2>2, <3>1, HoldersChange
    <3> QED BY <2>3, <3>1, <3>2 DEF SlotsMatch, Holders
  <2> QED BY <1>1, <2>4, <2>5, <2>6
<1>2. CASE UNCHANGED <<active, client>>
  BY <1>2 DEF SlotsMatch
<1>3. CASE ~ \E c \in Clients : Admit(c) \/ OpenSession(c) \/ EndSegment(c) \/ Leave(c)
  <2>1. UNCHANGED <<active, client>>
    BY <1>3 DEF Next, PutDelay, PutStreams, PutCold, RequestRestart, Restarting, Monitoring,
                Engine, Shutdown, Stopped, vars, gate
  <2> QED BY <1>2, <2>1
<1> QED BY <1>1, <1>3

\* The slots in use are those of the requests under way, and never more than the base,
\* with any number of restarts putting back the capacity they were requested under.
THEOREM SlotsAlwaysMatch == Spec => []SlotsMatch
<1>1. Init => SlotsMatch
  <2> SUFFICES ASSUME Init PROVE SlotsMatch
    OBVIOUS
  <2>1. {c \in Clients : client[c].pc # "away"} = {}
    BY DEF Init
  <2> QED BY <2>1, FS_EmptySet, ServiceAssumption DEF Init, SlotsMatch
<1>2. TypeInv /\ SlotsMatch /\ [Next]_vars => (TypeInv /\ SlotsMatch)'
  BY NextTypes, NextSlots
<1> QED BY <1>1, <1>2, InitTypes, PTL DEF Spec

-----------------------------------------------------------------------------
(* The engine, when at most one restart does. *)

\* Requests to restart are never concurrent.
OneRestart == \A j, k \in Callers : j = k

\* A caller holds a process exactly while it starts or terminates it, and only when
\* the engine has none; the monitor is gone before the process is.
CallersAgree ==
    \A k \in Callers :
        /\ call[k].handles # NoProc <=> call[k].pc \in {"terminating", "executing"}
        /\ call[k].pc \in {"terminating", "probing", "executing", "closed"} => current = NoProc
        /\ ~Resting(k) => monitorTask = NoProc
        /\ call[k].pc \in {"probing", "executing"} =>
              call[k].goal = settings /\ engineState # "ready"
        /\ call[k].pc = "executing" => procs[call[k].handles].built = settings

\* Only the recorded monitor runs, it follows the current process, and an answer it
\* has received came from that process, as long as every termination has returned.
MonitorAgrees ==
    /\ monitorTask # NoProc => current = monitorTask
    /\ \A m \in Procs :
          /\ monitor[m].pc \notin {"none", "ended"} => m = monitorTask
          /\ monitor[m].pc = "answered" /\ unended = {} => procs[m].status # "loading"

BuiltFromSettings == \A p \in Procs : OnGpu(p) /\ ~GivenUp(p) => procs[p].built = settings

\* A process given up, or not started, is nobody's, and what SIGKILL has reached does not
\* serve.
GivenUpIsLeft ==
    \A p \in Procs :
        /\ GivenUp(p) \/ procs[p].status = "none" =>
              p # current /\ \A k \in Callers : call[k].handles # p
        /\ GivenUp(p) => procs[p].status # "none"
        /\ p \in survivors => procs[p].status \in {"orphaned", "dead"}

EngineInv ==
    /\ EngineTypeOK
    /\ CallersAgree
    /\ MonitorAgrees
    /\ NoStrayProcess
    /\ BuiltFromSettings
    /\ GivenUpIsLeft
    /\ ReadyIsLoaded

-----------------------------------------------------------------------------
(* The engine.                                                               *)

\* The engine that lifespan has started satisfies the invariant.
LEMMA EngineInitInv == EngineInit => EngineInv
  BY EngineAssumption
  DEF EngineInit, EngineInv, EngineTypeOK, CallersAgree, MonitorAgrees, NoStrayProcess,
      BuiltFromSettings, GivenUpIsLeft, GivenUp, ReadyIsLoaded, OnGpu, Resting, Procs, NoProc

\* With one restart at a time whatever is on the GPU and not given up is one process.
LEMMA StrayGivesOne ==
  ASSUME OneRestart, EngineInv
  PROVE  OneEngineOnGpu
  BY DEF OneRestart, EngineInv, EngineTypeOK, CallersAgree, NoStrayProcess, OneEngineOnGpu,
         Procs, NoProc

\* The invariant is kept by what changes neither the processes nor those given up, once
\* every caller, the monitors and the settings are as it says.
LEMMA SameProcesses ==
  ASSUME EngineInv, EngineTypeOK', UNCHANGED <<procs, history>>,
         CallersAgree', MonitorAgrees', ReadyIsLoaded',
         current' \in {current, NoProc},
         \A p \in Procs : OnGpu(p) /\ ~GivenUp(p) =>
            /\ settings' = settings
            /\ p = current' \/ \E k \in Callers : call'[k].handles = p,
         \A k \in Callers : call'[k].handles \in {call[k].handles, current, NoProc}
  PROVE  EngineInv'
<1> USE DEF EngineInv, history, OnGpu, GivenUp
<1>1. NoStrayProcess' /\ BuiltFromSettings'
  BY DEF NoStrayProcess, BuiltFromSettings
<1>2. GivenUpIsLeft'
  BY DEF GivenUpIsLeft, Procs, NoProc
<1> QED BY <1>1, <1>2

\* Once the monitor is cancelled, taking the process out of the engine, and going on
\* to the start when there is none, keeps the invariant.
LEMMA TakeKeeps ==
  ASSUME OneRestart, EngineInv,
         NEW k \in Callers, NEW goal \in Tunings \cup {ToClose},
         Resting(k) \/ call[k].pc = "taking",
         TakeProcess(k, goal), UNCHANGED <<procs, history>>, EngineTypeOK',
         monitorTask' = NoProc,
         monitor' \in [Procs -> [pc : {"none", "ended"}, waits : Procs \cup {NoProc}]]
  PROVE  EngineInv'
<1>1. \A j \in Callers : j = k
  BY DEF OneRestart
<1>2. k \in DOMAIN call /\ call[k].handles = NoProc /\ current' = NoProc
  BY DEF EngineInv, EngineTypeOK, CallersAgree, Resting, TakeProcess
<1>3. MonitorAgrees'
  BY <1>2 DEF MonitorAgrees
<1>4. ReadyIsLoaded'
  BY <1>2 DEF ReadyIsLoaded
<1>5. CASE current = NoProc
  <2>1. AfterClose(k, goal)
    BY <1>5 DEF TakeProcess
  <2>2. \A p \in Procs : OnGpu(p) => GivenUp(p)
    BY <1>1, <1>2, <1>5 DEF EngineInv, NoStrayProcess, Procs, NoProc
  <2>3. CASE goal = ToClose
    <3>1. call'[k] = [pc |-> "closed", goal |-> ToClose, handles |-> NoProc]
      BY <1>2, <2>1, <2>3 DEF AfterClose, Returns, At
    <3>2. CallersAgree'
      BY <1>1, <1>2, <3>1 DEF CallersAgree
    <3> QED BY <1>1, <1>2, <1>3, <1>4, <2>2, <3>1, <3>2, SameProcesses
  <2>4. CASE goal # ToClose
    <3>1. /\ call'[k] = [pc |-> "probing", goal |-> goal, handles |-> NoProc]
          /\ settings' = goal /\ engineState' = "loading"
      BY <1>2, <2>1, <2>4 DEF AfterClose, At
    <3>2. CallersAgree'
      BY <1>1, <1>2, <3>1 DEF CallersAgree
    <3> QED BY <1>1, <1>2, <1>3, <1>4, <2>2, <3>1, <3>2, SameProcesses
  <2> QED BY <2>3, <2>4
<1>6. CASE current # NoProc
  <2>1. /\ call'[k] = [pc |-> "terminating", goal |-> goal, handles |-> current]
        /\ UNCHANGED <<engineState, settings>>
    BY <1>2, <1>6 DEF TakeProcess, At
  <2>2. CallersAgree'
    BY <1>1, <1>2, <1>6, <2>1 DEF CallersAgree
  <2>3. \A p \in Procs : OnGpu(p) /\ ~GivenUp(p) => p = current
    BY <1>1, <1>2 DEF EngineInv, NoStrayProcess, Procs, NoProc
  <2> QED BY <1>1, <1>2, <1>3, <1>4, <2>1, <2>2, <2>3, SameProcesses
<1> QED BY <1>5, <1>6

\* A close that begins keeps the invariant.
LEMMA CloseKeeps ==
  ASSUME OneRestart, EngineInv, GoalsKnown,
         NEW k \in Callers, NEW goal \in Tunings \cup {ToClose}, Close(k, goal)
  PROVE  EngineInv'
<1>1. EngineTypeOK'
  BY CloseTypes DEF EngineInv
<1>2. CASE monitorTask # NoProc /\ monitor[monitorTask].pc # "ended"
  <2>1. /\ monitorTask' = NoProc
        /\ monitor' = [monitor EXCEPT ![monitorTask].pc = "ended"]
        /\ At(k, "taking", goal, NoProc)
        /\ UNCHANGED <<engineState, settings, current, procs, history>>
    BY <1>2 DEF Close
  <2>2. /\ Resting(k) /\ call[k].handles = NoProc /\ k \in DOMAIN call
        /\ \A j \in Callers : j = k
    BY DEF Close, Resting, EngineInv, EngineTypeOK, CallersAgree, OneRestart
  <2>3. call'[k] = [pc |-> "taking", goal |-> goal, handles |-> NoProc]
    BY <2>1, <2>2 DEF At
  <2>4. CallersAgree'
    BY <2>1, <2>2, <2>3 DEF CallersAgree
  <2>5. MonitorAgrees'
    BY <1>2, <2>1 DEF EngineInv, EngineTypeOK, MonitorAgrees, history
  <2>6. ReadyIsLoaded'
    BY <2>1 DEF EngineInv, ReadyIsLoaded, history
  <2>7. \A p \in Procs : OnGpu(p) /\ ~GivenUp(p) => p = current
    BY <2>2 DEF EngineInv, NoStrayProcess, Procs, NoProc
  <2> QED BY <1>1, <2>1, <2>2, <2>3, <2>4, <2>5, <2>6, <2>7, SameProcesses
<1>3. CASE ~(monitorTask # NoProc /\ monitor[monitorTask].pc # "ended")
  <2>1. TakeProcess(k, goal) /\ UNCHANGED <<procs, history>> /\ monitorTask' = NoProc
    BY <1>3 DEF Close, history
  <2>2. monitor' \in [Procs -> [pc : {"none", "ended"}, waits : Procs \cup {NoProc}]]
    <3>1. monitor' = monitor
      BY <1>3 DEF Close
    <3>2. \A m \in Procs : monitor[m].pc \in {"none", "ended"}
      BY <1>3 DEF EngineInv, MonitorAgrees, Procs, NoProc
    <3> QED BY <3>1, <3>2 DEF EngineInv, EngineTypeOK
  <2>3. Resting(k)
    BY DEF Close
  <2> QED BY <1>1, <2>1, <2>2, <2>3, TakeKeeps
<1> QED BY <1>2, <1>3

\* The termination of a group keeps the invariant, whether or not anything survives it.
LEMMA TerminationKeeps ==
  ASSUME OneRestart, EngineInv, GoalsKnown, NEW k \in Callers,
         GroupTerminated(k) \/ TerminationRaises(k)
  PROVE  EngineInv'
<1> DEFINE p == call[k].handles
<1>1. CallerStep(k)
  BY DEF CallerStep
<1>2. EngineTypeOK'
  BY <1>1, CallerTypes DEF EngineInv
<1>3. /\ call[k].pc = "terminating" /\ p \in Procs /\ k \in DOMAIN call
      /\ current = NoProc /\ monitorTask = NoProc /\ \A j \in Callers : j = k
      /\ current' = NoProc /\ UNCHANGED <<monitorTask, monitor>>
  <2>1. /\ call[k].pc = "terminating" /\ current' = current
        /\ UNCHANGED <<monitorTask, monitor>>
    BY DEF GroupTerminated, TerminationRaises
  <2>2. p \in Procs /\ k \in DOMAIN call
    BY <2>1 DEF GoalsKnown, EngineInv, EngineTypeOK
  <2>3. current = NoProc /\ monitorTask = NoProc
    BY <2>1 DEF EngineInv, CallersAgree, Resting
  <2> QED BY <2>1, <2>2, <2>3 DEF OneRestart
<1>4. p \notin survivors \cup unended /\ procs[p].status # "none"
  BY <1>3 DEF EngineInv, GivenUpIsLeft, GivenUp, CallersAgree
<1>5. \A q \in Procs : OnGpu(q) /\ q # p => GivenUp(q)
  BY <1>3 DEF EngineInv, NoStrayProcess, Procs, NoProc
<1>6. MonitorAgrees' /\ ReadyIsLoaded'
  <2>1. \A m \in Procs : monitor[m].pc \in {"none", "ended"}
    BY <1>3 DEF EngineInv, MonitorAgrees, Procs, NoProc
  <2> QED BY <1>3, <2>1 DEF MonitorAgrees, ReadyIsLoaded
<1>7. CASE GroupTerminated(k)
  <2>1. PICK status \in {"dead", "orphaned"} :
          /\ procs' = [procs EXCEPT ![p].status = status]
          /\ survivors' = IF status = "dead" THEN survivors ELSE survivors \cup {p}
    BY <1>7 DEF GroupTerminated
  <2>2. unended' = unended /\ AfterClose(k, call[k].goal)
    BY <1>7 DEF GroupTerminated
  <2>3. \A q \in Procs : OnGpu(q)' => GivenUp(q)'
    BY <1>3, <1>5, <2>1, <2>2 DEF OnGpu, GivenUp, EngineInv, EngineTypeOK
  <2>4. /\ call'[k].handles = NoProc
        /\ \/ call'[k].pc = "closed"
           \/ /\ call'[k] = [pc |-> "probing", goal |-> call[k].goal, handles |-> NoProc]
              /\ settings' = call[k].goal /\ engineState' = "loading"
    BY <1>3, <2>2 DEF AfterClose, Returns, At
  <2>5. CallersAgree'
    BY <1>3, <2>4 DEF CallersAgree
  <2>6. NoStrayProcess' /\ BuiltFromSettings'
    BY <2>3 DEF NoStrayProcess, BuiltFromSettings
  <2>7. GivenUpIsLeft'
    BY <1>3, <1>4, <2>1, <2>2, <2>4
    DEF EngineInv, EngineTypeOK, GivenUpIsLeft, GivenUp, Procs, NoProc
  <2> QED BY <1>2, <1>6, <2>5, <2>6, <2>7 DEF EngineInv
<1>8. CASE TerminationRaises(k)
  <2>1. /\ unended' = unended \cup {p}
        /\ UNCHANGED <<engineState, settings, procs, survivors>>
    BY <1>8 DEF TerminationRaises
  <2>2. call'[k].handles = NoProc /\ call'[k].pc \in {"closed", "raised"}
    BY <1>3, <1>8 DEF TerminationRaises, Returns, At
  <2>3. CallersAgree'
    BY <1>3, <2>2 DEF CallersAgree
  <2>4. \A q \in Procs : OnGpu(q)' => GivenUp(q)'
    BY <1>5, <2>1 DEF OnGpu, GivenUp
  <2>5. NoStrayProcess' /\ BuiltFromSettings'
    BY <2>4 DEF NoStrayProcess, BuiltFromSettings
  <2>6. GivenUpIsLeft'
    BY <1>3, <1>4, <2>1, <2>2 DEF EngineInv, GivenUpIsLeft, GivenUp, Procs, NoProc
  <2> QED BY <1>2, <1>6, <2>3, <2>5, <2>6 DEF EngineInv
<1> QED BY <1>7, <1>8

\* Every later step of close and start keeps the invariant.
LEMMA CallerKeeps ==
  ASSUME OneRestart, EngineInv, GoalsKnown, NEW k \in Callers, CallerStep(k)
  PROVE  EngineInv'
<1>1. EngineTypeOK'
  BY CallerTypes DEF EngineInv
<1>2. k \in DOMAIN call /\ \A j \in Callers : j = k
  BY DEF EngineInv, EngineTypeOK, OneRestart
<1>3. CASE MonitorGone(k)
  <2>1. monitor' \in [Procs -> [pc : {"none", "ended"}, waits : Procs \cup {NoProc}]]
    BY <1>3 DEF MonitorGone, EngineInv, EngineTypeOK, CallersAgree, MonitorAgrees, Resting,
                Procs, NoProc
  <2>2. monitorTask' = NoProc /\ call[k].goal \in Tunings \cup {ToClose}
    BY <1>3 DEF MonitorGone, EngineInv, EngineTypeOK, CallersAgree, Resting
  <2> QED BY <1>1, <1>3, <2>1, <2>2, TakeKeeps DEF MonitorGone, history
<1>4. CASE GroupTerminated(k) \/ TerminationRaises(k)
  BY <1>4, TerminationKeeps
<1>5. CASE Execute(k)
  <2>1. PICK p \in Unstarted :
          /\ procs' = [procs EXCEPT ![p] = [status |-> "loading", built |-> settings]]
          /\ At(k, "executing", call[k].goal, p)
          /\ UNCHANGED <<engineState, settings, current, monitorTask, monitor, survivors, unended>>
    BY <1>5 DEF Execute, history
  <2>2. /\ call[k].pc = "probing" /\ current = NoProc /\ monitorTask = NoProc
        /\ call[k].handles = NoProc /\ call[k].goal = settings /\ engineState # "ready"
    BY <1>5 DEF Execute, EngineInv, CallersAgree, Resting
  <2>3. p \in Procs /\ ~GivenUp(p) /\ p # NoProc
    BY <2>1 DEF Unstarted, EngineInv, GivenUpIsLeft, Procs, NoProc
  <2>4. call'[k] = [pc |-> "executing", goal |-> settings, handles |-> p]
    BY <1>2, <2>1, <2>2 DEF At
  <2>5. \A q \in Procs : OnGpu(q) => GivenUp(q)
    BY <1>2, <2>2 DEF EngineInv, NoStrayProcess, Procs, NoProc
  <2>6. /\ procs'[p] = [status |-> "loading", built |-> settings]
        /\ \A q \in Procs \ {p} : procs'[q] = procs[q]
        /\ \A q \in Procs : GivenUp(q)' <=> GivenUp(q)
    BY <2>1, <2>3 DEF EngineInv, EngineTypeOK, GivenUp
  <2>7. CallersAgree'
    BY <1>2, <2>1, <2>2, <2>3, <2>4, <2>6 DEF CallersAgree, Resting
  <2>8. MonitorAgrees'
    <3>1. \A m \in Procs : monitor[m].pc \in {"none", "ended"}
      BY <2>2 DEF EngineInv, EngineTypeOK, MonitorAgrees, Procs, NoProc
    <3> QED BY <2>1, <2>2, <3>1 DEF MonitorAgrees
  <2>9. NoStrayProcess' /\ BuiltFromSettings'
    BY <2>1, <2>4, <2>5, <2>6 DEF NoStrayProcess, BuiltFromSettings, OnGpu
  <2>10. GivenUpIsLeft' /\ ReadyIsLoaded'
    BY <1>2, <2>1, <2>2, <2>3, <2>4, <2>6
    DEF EngineInv, GivenUpIsLeft, GivenUp, ReadyIsLoaded, Procs, NoProc
  <2> QED BY <1>1, <2>7, <2>8, <2>9, <2>10 DEF EngineInv
<1>6. CASE ExecuteFails(k)
  <2>1. /\ call[k].handles = NoProc
        /\ call'[k] = [pc |-> "failed", goal |-> ToClose, handles |-> NoProc]
        /\ engineState' = "error"
        /\ UNCHANGED <<settings, current, monitorTask, monitor, procs, history>>
    BY <1>2, <1>6 DEF ExecuteFails, Returns, At, EngineInv, CallersAgree
  <2>2. CallersAgree'
    BY <1>2, <2>1 DEF CallersAgree, Resting
  <2>3. MonitorAgrees' /\ ReadyIsLoaded'
    BY <2>1 DEF EngineInv, MonitorAgrees, ReadyIsLoaded, history
  <2>4. \A p \in Procs : OnGpu(p) /\ ~GivenUp(p) => p = current
    BY <1>2, <2>1 DEF EngineInv, NoStrayProcess, Procs, NoProc
  <2> QED BY <1>1, <1>2, <2>1, <2>2, <2>3, <2>4, SameProcesses
<1>7. CASE Adopt(k)
  <2> DEFINE p == call[k].handles
  <2>1. /\ call[k].pc = "executing" /\ p \in Procs /\ ~GivenUp(p) /\ current = NoProc
        /\ procs[p].built = settings /\ engineState # "ready" /\ monitorTask = NoProc
        /\ procs[p].status # "none"
    BY <1>7 DEF Adopt, EngineInv, EngineTypeOK, CallersAgree, GivenUpIsLeft, Resting
  <2>2. /\ current' = p /\ monitorTask' = p
        /\ monitor' = [monitor EXCEPT ![p].pc = "polling"]
        /\ call'[k] = [pc |-> "resting", goal |-> ToClose, handles |-> NoProc]
        /\ UNCHANGED <<engineState, settings, procs, survivors, unended>>
    BY <1>2, <1>7 DEF Adopt, Returns, At, history
  <2>3. CallersAgree'
    BY <1>2, <2>2 DEF CallersAgree, Resting
  <2>4. MonitorAgrees'
    <3>1. \A m \in Procs : monitor[m].pc \in {"none", "ended"}
      BY <2>1 DEF EngineInv, EngineTypeOK, MonitorAgrees, Procs, NoProc
    <3> QED BY <2>1, <2>2, <3>1 DEF MonitorAgrees, EngineInv, EngineTypeOK
  <2>5. NoStrayProcess' /\ BuiltFromSettings'
    BY <1>2, <2>1, <2>2
    DEF EngineInv, NoStrayProcess, BuiltFromSettings, OnGpu, GivenUp, Procs, NoProc
  <2>6. GivenUpIsLeft' /\ ReadyIsLoaded'
    BY <1>2, <2>1, <2>2 DEF EngineInv, GivenUpIsLeft, GivenUp, ReadyIsLoaded, Procs, NoProc
  <2> QED BY <1>1, <2>3, <2>4, <2>5, <2>6 DEF EngineInv
<1> QED BY <1>3, <1>4, <1>5, <1>6, <1>7 DEF CallerStep

\* Every step of a monitor keeps the invariant.
LEMMA MonitorKeeps ==
  ASSUME OneRestart, EngineInv, GoalsKnown, NEW m \in Procs, MonitorStep(m)
  PROVE  EngineInv'
<1>1. EngineTypeOK'
  BY EngineTypes DEF EngineInv
<1>2. UNCHANGED <<settings, current, monitorTask, procs, call, history>>
  BY DEF MonitorStep, MonitorLooks, PortAnswers, MonitorTimesOut, MonitorReady,
         MonitorNoticesExit
<1>3. NoStrayProcess' /\ BuiltFromSettings' /\ GivenUpIsLeft'
  BY <1>2
  DEF EngineInv, NoStrayProcess, BuiltFromSettings, GivenUpIsLeft, GivenUp, OnGpu, history
<1>4. m \in DOMAIN monitor /\ \A j \in Procs : monitor[j] = [pc |-> monitor[j].pc,
                                                           waits |-> monitor[j].waits]
  BY DEF EngineInv, EngineTypeOK
<1>5. m = monitorTask /\ current = m
  BY <1>4
  DEF MonitorStep, MonitorLooks, PortAnswers, MonitorTimesOut, MonitorReady,
      MonitorNoticesExit, EngineInv, MonitorAgrees, Procs, NoProc
<1>6. \A k \in Callers : Resting(k) \/ call[k].pc \notin {"probing", "executing"}
  BY <1>5 DEF EngineInv, CallersAgree, Procs, NoProc
<1>7. CallersAgree'
  BY <1>2, <1>5, <1>6 DEF EngineInv, CallersAgree, Resting, Procs, NoProc
<1>8. CASE MonitorLooks(m)
  BY <1>1, <1>2, <1>3, <1>5, <1>7, <1>8
  DEF MonitorLooks, Goes, EngineInv, EngineTypeOK, MonitorAgrees, ReadyIsLoaded, history
<1>9. CASE PortAnswers(m)
  <2>1. unended = {} => \A p \in Procs : procs[p].status = "serving" => p = m
    BY <1>5
    DEF EngineInv, CallersAgree, NoStrayProcess, GivenUpIsLeft, GivenUp, OnGpu, Procs, NoProc
  <2>2. MonitorAgrees'
    BY <1>2, <1>5, <1>9, <2>1
    DEF PortAnswers, Goes, EngineInv, EngineTypeOK, MonitorAgrees, history
  <2>3. ReadyIsLoaded'
    BY <1>2, <1>9 DEF PortAnswers, EngineInv, ReadyIsLoaded, history
  <2> QED BY <1>1, <1>3, <1>7, <2>2, <2>3 DEF EngineInv
<1>10. CASE MonitorTimesOut(m) \/ MonitorNoticesExit(m)
  BY <1>1, <1>2, <1>3, <1>5, <1>7, <1>10
  DEF MonitorTimesOut, MonitorNoticesExit, Goes, EngineInv, EngineTypeOK, MonitorAgrees,
      ReadyIsLoaded, history
<1>11. CASE MonitorReady(m)
  <2>1. ReadyIsLoaded'
    BY <1>2, <1>5, <1>11 DEF MonitorReady, EngineInv, MonitorAgrees, ReadyIsLoaded, history
  <2>2. MonitorAgrees'
    BY <1>2, <1>5, <1>11
    DEF MonitorReady, EngineInv, EngineTypeOK, MonitorAgrees, history
  <2> QED BY <1>1, <1>3, <1>7, <2>1, <2>2 DEF EngineInv
<1> QED BY <1>8, <1>9, <1>10, <1>11 DEF MonitorStep

\* A process that loads or exits keeps the invariant.
LEMMA ProcessKeeps ==
  ASSUME EngineInv, GoalsKnown, NEW p \in Procs, ProcessStep(p)
  PROVE  EngineInv'
<1>1. EngineTypeOK'
  BY EngineTypes DEF EngineInv
<1>2. PICK status \in {"serving", "orphaned", "dead"} :
        /\ procs' = [procs EXCEPT ![p].status = status]
        /\ OnGpu(p) /\ (status = "serving" => procs[p].status = "loading")
        /\ UNCHANGED <<engineState, settings, current, monitorTask, monitor, call,
                       survivors, unended>>
  BY DEF ProcessStep, FinishLoading, Crash, OnGpu, history
<1>3. /\ \A q \in Procs : /\ procs'[q].built = procs[q].built
                          /\ procs'[q].status = IF q = p THEN status ELSE procs[q].status
                          /\ OnGpu(q)' => OnGpu(q)
                          /\ GivenUp(q)' <=> GivenUp(q)
  BY <1>2 DEF EngineInv, EngineTypeOK, OnGpu, GivenUp
<1>4. CallersAgree'
  <2>1. \A k \in Callers : call[k].handles \in Procs \cup {NoProc} /\ (Resting(k)' <=> Resting(k))
    BY <1>2 DEF EngineInv, EngineTypeOK, Resting
  <2> QED BY <1>2, <1>3, <2>1 DEF EngineInv, CallersAgree
<1>5. MonitorAgrees'
  BY <1>2, <1>3 DEF EngineInv, MonitorAgrees
<1>6. NoStrayProcess' /\ BuiltFromSettings'
  BY <1>2, <1>3 DEF EngineInv, NoStrayProcess, BuiltFromSettings
<1>7. GivenUpIsLeft'
  BY <1>2, <1>3 DEF EngineInv, GivenUpIsLeft
<1>8. ReadyIsLoaded'
  BY <1>2, <1>3 DEF EngineInv, EngineTypeOK, ReadyIsLoaded
<1> QED BY <1>1, <1>4, <1>5, <1>6, <1>7, <1>8 DEF EngineInv

-----------------------------------------------------------------------------
(* The service around it.                                                    *)

ServiceTypeOK ==
    /\ up \in BOOLEAN
    /\ active \in Nat /\ capacity \in 1..BaseStreams
    /\ client \in [Clients -> [pc : {"away", "admitted", "open"},
                               proc : Procs \cup {NoProc}, chunked : Tunings]]
    /\ store \in Settings /\ config \in Settings
    /\ snapshot \in [Callers -> Hot]

\* A session was opened with a process that has been started, and fits it unless the
\* termination of that process has raised.
SessionsKnown ==
    \A c \in Clients :
        client[c].pc = "open" =>
            /\ client[c].proc \in Procs /\ procs[client[c].proc].status # "none"
            /\ \/ client[c].chunked = procs[client[c].proc].built
               \/ client[c].proc \in unended

ServiceInv == EngineInv /\ GoalsKnown /\ ServiceTypeOK /\ SessionsKnown /\ ShownIsRunning

\* The service starts in the invariant.
LEMMA ServiceInitInv == Init => ServiceInv
<1> SUFFICES ASSUME Init PROVE ServiceInv
  OBVIOUS
<1>1. EngineInv
  BY EngineInitInv DEF Init
<1>2. settings \in Tunings /\ current = 1 /\ procs[1].built = settings
  BY EngineAssumption DEF Init, EngineInit, Procs
<1>3. ServiceTypeOK
  BY <1>2, ServiceAssumption DEF Init, ServiceTypeOK, Settings, Hot, NoProc
<1>4. SessionsKnown /\ ShownIsRunning
  BY <1>2 DEF Init, SessionsKnown, ShownIsRunning
<1>5. GoalsKnown
  BY InitTypes DEF TypeInv
<1> QED BY <1>1, <1>3, <1>4, <1>5 DEF ServiceInv

\* The processes that were started keep the settings they were built from, and those whose
\* termination has raised stay so.
BuiltStays ==
    /\ \A p \in Procs : procs[p].status # "none" =>
          procs'[p].built = procs[p].built /\ procs'[p].status # "none"
    /\ unended \subseteq unended'

\* No step of the engine starts a process again.
LEMMA StepsBuildOnce ==
  ASSUME EngineInv
  PROVE  /\ \A k \in Callers, goal \in Tunings \cup {ToClose} : Close(k, goal) => BuiltStays
         /\ \A k \in Callers : CallerStep(k) => BuiltStays
         /\ \A m \in Procs : MonitorStep(m) => BuiltStays
         /\ \A p \in Procs : ProcessStep(p) => BuiltStays
<1> USE DEF EngineInv, EngineTypeOK, BuiltStays, history
<1>1. ASSUME NEW k \in Callers, NEW goal \in Tunings \cup {ToClose}, Close(k, goal) PROVE BuiltStays
  BY <1>1 DEF Close
<1>2. ASSUME NEW k \in Callers, CallerStep(k) PROVE BuiltStays
  <2>1. CASE MonitorGone(k)
    BY <2>1 DEF MonitorGone
  <2>2. CASE GroupTerminated(k)
    BY <2>2 DEF GroupTerminated
  <2>3. CASE Execute(k)
    BY <2>3 DEF Execute, Unstarted
  <2>4. CASE ExecuteFails(k)
    BY <2>4 DEF ExecuteFails
  <2>5. CASE Adopt(k)
    BY <2>5 DEF Adopt
  <2>6. CASE TerminationRaises(k)
    BY <2>6 DEF TerminationRaises
  <2> QED BY <1>2, <2>1, <2>2, <2>3, <2>4, <2>5, <2>6 DEF CallerStep
<1>3. ASSUME NEW m \in Procs, MonitorStep(m) PROVE BuiltStays
  BY <1>3 DEF MonitorStep, MonitorLooks, PortAnswers, MonitorTimesOut, MonitorReady,
              MonitorNoticesExit
<1>4. ASSUME NEW p \in Procs, ProcessStep(p) PROVE BuiltStays
  <2>1. PICK status \in {"serving", "orphaned", "dead"} :
          procs' = [procs EXCEPT ![p].status = status] /\ unended' = unended
    BY <1>4 DEF ProcessStep, FinishLoading, Crash
  <2> QED BY <2>1
<1> QED BY <1>1, <1>2, <1>3, <1>4

\* Sessions stay known over a step that leaves the clients alone.
LEMMA SessionsStay ==
  ASSUME EngineInv, ServiceTypeOK, SessionsKnown, BuiltStays, UNCHANGED client
  PROVE  SessionsKnown'
  BY DEF SessionsKnown, BuiltStays

\* A request, a settings update, and the engine's own steps leave every part of the
\* invariant in place.
LEMMA RequestsKeep ==
  ASSUME ServiceInv,
         \/ \E c \in Clients : Admit(c) \/ OpenSession(c) \/ EndSegment(c) \/ Leave(c)
         \/ \E delay \in Delays : PutDelay(delay)
         \/ PutStreams
         \/ \E cold \in Tunings : PutCold(cold)
  PROVE  ServiceInv'
<1> USE DEF ServiceInv
<1>1. UNCHANGED engineVars
  BY DEF Admit, OpenSession, EndSegment, Leave, PutDelay, PutStreams, PutCold
<1>2. EngineInv' /\ GoalsKnown'
  BY <1>1
  DEF engineVars, history, EngineInv, EngineTypeOK, CallersAgree, MonitorAgrees,
      NoStrayProcess, BuiltFromSettings, GivenUpIsLeft, GivenUp, ReadyIsLoaded, OnGpu,
      Resting, GoalsKnown
<1>3. config'.cold = config.cold
  BY DEF Admit, OpenSession, EndSegment, Leave, PutDelay, PutStreams, PutCold, tuning,
         ServiceTypeOK, Settings
<1>4. ShownIsRunning'
  BY <1>1, <1>3 DEF ShownIsRunning, engineVars
<1>5. CASE \E c \in Clients : Admit(c) \/ EndSegment(c) \/ Leave(c)
  <2>1. PICK c \in Clients : Admit(c) \/ EndSegment(c) \/ Leave(c)
    BY <1>5
  <2>2. ServiceTypeOK'
    BY <2>1 DEF Admit, EndSegment, Leave, ServiceTypeOK, tuning, NoProc
  <2>3. SessionsKnown'
    BY <1>1, <2>1 DEF Admit, EndSegment, Leave, ServiceTypeOK, SessionsKnown, engineVars, history
  <2> QED BY <1>2, <1>4, <2>2, <2>3
<1>6. CASE \E c \in Clients : OpenSession(c)
  <2>1. PICK c \in Clients : OpenSession(c)
    BY <1>6
  <2>2. PICK p \in Procs :
          /\ procs[p].status = "serving"
          /\ client' = [client EXCEPT ![c] = [pc |-> "open", proc |-> p, chunked |-> settings]]
    BY <2>1 DEF OpenSession
  <2>3. settings \in Tunings /\ (procs[p].built = settings \/ p \in unended)
    BY <2>2 DEF EngineInv, EngineTypeOK, BuiltFromSettings, GivenUpIsLeft, GivenUp, OnGpu
  <2>4. ServiceTypeOK'
    BY <2>1, <2>2, <2>3 DEF OpenSession, ServiceTypeOK, tuning
  <2>5. SessionsKnown'
    BY <1>1, <2>2, <2>3 DEF ServiceTypeOK, SessionsKnown, engineVars, history
  <2> QED BY <1>2, <1>4, <2>4, <2>5
<1>7. CASE \/ \E delay \in Delays : PutDelay(delay)
           \/ PutStreams
           \/ \E cold \in Tunings : PutCold(cold)
  <2>1. UNCHANGED client
    BY <1>7 DEF PutDelay, PutStreams, PutCold, gate
  <2>2. ServiceTypeOK'
    <3> USE DEF ServiceTypeOK, Settings, Hot, gate
    <3>1. CASE \E delay \in Delays : PutDelay(delay)
      BY <3>1 DEF PutDelay
    <3>2. CASE PutStreams
      BY <3>2, ServiceAssumption DEF PutStreams
    <3>3. CASE \E cold \in Tunings : PutCold(cold)
      BY <3>3 DEF PutCold
    <3> QED BY <1>7, <3>1, <3>2, <3>3
  <2>3. SessionsKnown'
    BY <1>1, <2>1 DEF SessionsKnown, engineVars, history
  <2> QED BY <1>2, <1>4, <2>2, <2>3
<1> QED BY <1>5, <1>6, <1>7

\* A restart requested, one that goes on, and the shutdown keep the invariant.
LEMMA RestartKeeps ==
  ASSUME OneRestart, ServiceInv, NEW k \in Callers,
         \/ RequestRestart(k)
         \/ Restarting(k)
         \/ Shutdown
  PROVE  ServiceInv'
<1> USE DEF ServiceInv
<1>1. CASE RequestRestart(k)
  <2>1. store.cold \in Tunings
    BY DEF ServiceTypeOK, Settings
  <2>2. Close(k, store.cold)
    BY <1>1 DEF RequestRestart
  <2>3. EngineInv' /\ GoalsKnown'
    BY <2>1, <2>2, CloseKeeps, CloseTypes DEF EngineInv
  <2>4. BuiltStays
    BY <2>1, <2>2, StepsBuildOnce
  <2>5. current' \in {current, NoProc} /\ UNCHANGED procs
    BY <2>2 DEF Close, TakeProcess
  <2>6. ServiceTypeOK'
    BY <1>1 DEF RequestRestart, ServiceTypeOK, gate, Settings
  <2>7. SessionsKnown'
    BY <1>1, <2>4, <2>5, SessionsStay DEF RequestRestart, gate
  <2>8. ShownIsRunning'
    BY <1>1, <2>4, <2>5 DEF RequestRestart, ShownIsRunning
  <2> QED BY <2>3, <2>6, <2>7, <2>8
<1>2. CASE Restarting(k)
  <2>1. CallerStep(k)
    BY <1>2 DEF Restarting
  <2>2. EngineInv' /\ GoalsKnown'
    BY <2>1, CallerKeeps, CallerTypes DEF EngineInv
  <2>3. SessionsKnown'
    BY <1>2, <2>1, StepsBuildOnce, SessionsStay DEF Restarting
  <2>4. CASE call'[k].pc = "resting"
    <3>1. Adopt(k)
      <4>1. call[k].pc = "terminating" => current = NoProc
        BY DEF EngineInv, CallersAgree
      <4>2. k \in DOMAIN call
        BY DEF EngineInv, EngineTypeOK
      <4> QED BY <2>1, <2>4, <4>1, <4>2
          DEF CallerStep, MonitorGone, TakeProcess, GroupTerminated, AfterClose, Execute,
              ExecuteFails, TerminationRaises, Returns, At
    <3>2. call[k].goal = settings /\ settings \in Tunings /\ call[k].handles \in Procs
      BY <3>1 DEF Adopt, EngineInv, EngineTypeOK, CallersAgree
    <3>3. config' = [hot |-> snapshot[k], cold |-> settings] /\ capacity' = snapshot[k].streams
      BY <1>2, <2>4, <3>2 DEF Restarting
    <3>4. ServiceTypeOK'
      BY <1>2, <3>2, <3>3 DEF Restarting, ServiceTypeOK, Settings, Hot
    <3>5. ShownIsRunning'
      <4>1. current' # NoProc => current' \in Procs
        BY <2>2 DEF EngineInv, EngineTypeOK
      <4>2. /\ current' = call[k].handles /\ call'[k].handles = NoProc
            /\ UNCHANGED <<procs, settings>>
        BY <3>1 DEF Adopt, Returns, At, EngineInv, EngineTypeOK
      <4>3. procs[call[k].handles].built = settings
        BY <3>1 DEF Adopt, EngineInv, CallersAgree
      <4> QED BY <3>3, <4>2, <4>3 DEF ShownIsRunning
    <3> QED BY <2>2, <2>3, <3>4, <3>5
  <2>5. CASE call'[k].pc # "resting"
    <3>1. UNCHANGED <<config, capacity, up, active, client, store, snapshot>>
      BY <1>2, <2>5 DEF Restarting
    <3>2. ServiceTypeOK'
      BY <3>1 DEF ServiceTypeOK
    <3>3. ShownIsRunning'
      <4>1. k \in DOMAIN call
        BY DEF EngineInv, EngineTypeOK
      <4>2. current' # NoProc => UNCHANGED <<current, procs>>
        BY <2>1, <2>5, <4>1
        DEF CallerStep, MonitorGone, TakeProcess, GroupTerminated, TerminationRaises, Execute,
            ExecuteFails, Adopt, Returns, At, EngineInv, CallersAgree
      <4> QED BY <3>1, <4>2 DEF ShownIsRunning
    <3> QED BY <2>2, <2>3, <3>2, <3>3
  <2> QED BY <2>4, <2>5
<1>3. CASE Shutdown
  <2>1. PICK j \in Callers : Close(j, ToClose)
    BY <1>3 DEF Shutdown
  <2>2. EngineInv' /\ GoalsKnown'
    BY <2>1, CloseKeeps, CloseTypes DEF EngineInv
  <2>3. BuiltStays /\ current' \in {current, NoProc} /\ UNCHANGED procs
    BY <2>1, StepsBuildOnce DEF Close, TakeProcess
  <2>4. ServiceTypeOK'
    BY <1>3 DEF Shutdown, ServiceTypeOK, gate, tuning
  <2>5. SessionsKnown'
    BY <1>3, <2>3, SessionsStay DEF Shutdown, gate
  <2>6. ShownIsRunning'
    BY <1>3, <2>3 DEF Shutdown, tuning, ShownIsRunning
  <2> QED BY <2>2, <2>4, <2>5, <2>6
<1> QED BY <1>1, <1>2, <1>3

\* Every step keeps the invariant.
LEMMA NextServiceInv ==
  ASSUME OneRestart, ServiceInv, [Next]_vars
  PROVE  ServiceInv'
<1> USE DEF ServiceInv
<1>1. CASE \/ \E c \in Clients : Admit(c) \/ OpenSession(c) \/ EndSegment(c) \/ Leave(c)
           \/ \E delay \in Delays : PutDelay(delay)
           \/ PutStreams
           \/ \E cold \in Tunings : PutCold(cold)
  BY <1>1, RequestsKeep
<1>2. CASE \/ \E k \in Callers : RequestRestart(k) \/ Restarting(k)
           \/ Shutdown
  BY <1>2, EngineAssumption, RestartKeeps
<1>3. CASE \/ \E m \in Procs : Monitoring(m)
           \/ \E p \in Procs : Engine(p)
  <2>1. UNCHANGED <<up, gate, tuning, current>>
    BY <1>3 DEF Monitoring, Engine, MonitorStep, MonitorLooks, PortAnswers, MonitorTimesOut,
                MonitorReady, MonitorNoticesExit, ProcessStep, FinishLoading, Crash
  <2>2. EngineInv' /\ GoalsKnown' /\ BuiltStays
    BY <1>3, MonitorKeeps, ProcessKeeps, EngineTypes, StepsBuildOnce
    DEF Monitoring, Engine, EngineInv
  <2>3. \A p \in Procs : procs'[p].built = procs[p].built
    <3>1. CASE \E m \in Procs : Monitoring(m)
      BY <3>1 DEF Monitoring, MonitorStep, MonitorLooks, PortAnswers, MonitorTimesOut,
                  MonitorReady, MonitorNoticesExit
    <3>2. CASE \E p \in Procs : Engine(p)
      <4>1. PICK p \in Procs, status \in {"serving", "orphaned", "dead"} :
              procs' = [procs EXCEPT ![p].status = status]
        BY <3>2 DEF Engine, ProcessStep, FinishLoading, Crash
      <4> QED BY <4>1 DEF EngineInv, EngineTypeOK
    <3> QED BY <1>3, <3>1, <3>2
  <2>4. ServiceTypeOK' /\ SessionsKnown'
    BY <2>1, <2>2, SessionsStay DEF ServiceTypeOK, gate, tuning
  <2>5. ShownIsRunning'
    BY <2>1, <2>3 DEF ShownIsRunning, tuning, EngineInv, EngineTypeOK, Procs, NoProc
  <2> QED BY <2>2, <2>4, <2>5
<1>4. CASE UNCHANGED vars
  <2>1. UNCHANGED <<up, gate, tuning, engineVars>>
    BY <1>4 DEF vars
  <2>2. EngineInv' /\ GoalsKnown'
    BY <2>1
    DEF engineVars, history, EngineInv, EngineTypeOK, CallersAgree, MonitorAgrees,
        NoStrayProcess, BuiltFromSettings, GivenUpIsLeft, GivenUp, ReadyIsLoaded, OnGpu,
        Resting, GoalsKnown
  <2> QED
    BY <2>1, <2>2
    DEF ServiceTypeOK, SessionsKnown, ShownIsRunning, engineVars, history, gate, tuning
<1> QED BY <1>1, <1>2, <1>3, <1>4 DEF Next, Stopped

\* The invariant holds as long as restarts are not concurrent.
LEMMA ServiceInvHolds ==
  ASSUME OneRestart
  PROVE  Spec => []ServiceInv
<1>1. Init => ServiceInv
  BY ServiceInitInv
<1>2. ServiceInv /\ [Next]_vars => ServiceInv'
  BY NextServiceInv
<1> QED BY <1>1, <1>2, PTL DEF Spec

\* reconfigure never has two engines on the GPU, workers of a dead launcher included,
\* beside what outlived SIGKILL or was left by a termination that raised.
THEOREM EnginesDoNotOverlap ==
  ASSUME OneRestart
  PROVE  Spec => []OneEngineOnGpu
<1>1. ServiceInv => OneEngineOnGpu
  BY StrayGivesOne DEF ServiceInv
<1> QED BY <1>1, ServiceInvHolds, PTL

\* Every process on the GPU is within reach of close, or in a caller's hands, until its
\* termination has been carried to the end or has raised.
THEOREM NoProcessIsForgotten ==
  ASSUME OneRestart
  PROVE  Spec => []NoStrayProcess
<1>1. ServiceInv => NoStrayProcess
  BY DEF ServiceInv, EngineInv
<1> QED BY <1>1, ServiceInvHolds, PTL

\* ready is announced for an engine that has loaded, as long as no termination has raised.
THEOREM ReadyEngineHasLoaded ==
  ASSUME OneRestart
  PROVE  Spec => []ReadyIsLoaded
<1>1. ServiceInv => ReadyIsLoaded
  BY DEF ServiceInv, EngineInv
<1> QED BY <1>1, ServiceInvHolds, PTL

\* Nothing is on the GPU once lifespan has closed the engine, but what outlived SIGKILL or
\* was left by a termination that raised.
THEOREM NothingSurvivesClose ==
  ASSUME OneRestart
  PROVE  Spec => []CloseLeavesNothing
<1>1. ServiceInv => CloseLeavesNothing
  BY DEF ServiceInv, EngineInv, EngineTypeOK, CallersAgree, NoStrayProcess, CloseLeavesNothing,
         ClosedDown, OneRestart, Procs, NoProc
<1> QED BY <1>1, ServiceInvHolds, PTL

\* /api/settings shows what the engine runs.
THEOREM SettingsShownAreRunning ==
  ASSUME OneRestart
  PROVE  Spec => []ShownIsRunning
<1>1. ServiceInv => ShownIsRunning
  BY DEF ServiceInv
<1> QED BY <1>1, ServiceInvHolds, PTL

\* A model session cuts audio as its engine expects, unless it talks to a process whose
\* termination has raised.
THEOREM SessionsFitTheirEngine ==
  ASSUME OneRestart
  PROVE  Spec => []SessionFitsEngine
<1>1. ServiceInv => SessionFitsEngine
  BY DEF ServiceInv, SessionsKnown, SessionFitsEngine
<1> QED BY <1>1, ServiceInvHolds, PTL
=============================================================================
