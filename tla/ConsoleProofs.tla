---------------------------- MODULE ConsoleProofs ----------------------------
(***************************************************************************)
(* Proofs about the life of a console for any number of sessions and any   *)
(* threads that call Host::Fatal: what is shut down is freed, and a        *)
(* shutdown that was requested for one console is not carried out on the   *)
(* next.                                                                   *)
(***************************************************************************)
EXTENDS Console, SequenceTheorems, TLAPS

Kinds == {"started", "stopped", "shutdown"}
Backs == {"loop", "delete", "run", "done"}
Events == [kind : Kinds, of : Nat]

Typed ==
    /\ session \in 1 .. Sessions /\ requests \in Nat
    /\ null \in BOOLEAN /\ cpuExit \in BOOLEAN /\ requested \in BOOLEAN /\ valid \in BOOLEAN /\ menu \in BOOLEAN /\ wait \in BOOLEAN
    /\ state \in {"initialized", "running", "stopping", "shut_down"}
    /\ machine \in {"ready", "freed"}
    /\ events \in Seq(Events)
    /\ pc \in [Threads -> {"start", "loop", "join", "delete", "new", "none", "created", "run", "returned", "done",
                           "exit", "notRunning", "stopping", "cpuExit", "request",
                           "deinit", "down", "clear", "signal", "fatal"}]
    /\ ret \in [Threads -> Backs]

\* a thread that is about to say that the machine is down has freed it
Freed ==
    /\ state = "shut_down" \/ (\E t \in Threads : pc[t] = "down") => machine = "freed"
    /\ machine = "freed" => pc["dev"] = "done"

Calling == {"exit", "notRunning", "stopping", "cpuExit", "request", "deinit", "down", "clear", "signal", "join"}

\* the UI thread is on its way from one console to the next
Replacing == pc["ui"] \in {"delete", "new"} \/ (pc["ui"] \in Calling /\ ret["ui"] = "delete")
ReplacedIsDone ==
    /\ Replacing => session < Sessions /\ ~valid
    /\ pc["ui"] = "new" => pc["cpu"] \in {"none", "done"}

\* What follows the start of a console in the queue is about that console, and so is
\* all that is queued once the window knows of it.
QueueOrdered ==
    Prompt =>
        /\ \A i \in 1 .. Len(events) : events[i].kind = "started" => ~Replacing /\ \A j \in i .. Len(events) : events[j].of = session
        /\ valid => \A i \in 1 .. Len(events) : events[i].of = session

\* The inductive invariant of the console.
ConsoleInv == Typed /\ Freed /\ ReplacedIsDone /\ QueueOrdered

-----------------------------------------------------------------------------
\* One event more, or one less.
LEMMA Queued ==
    ASSUME NEW s \in Seq(Events), NEW e \in Events
    PROVE  /\ Append(s, e) \in Seq(Events) /\ Len(Append(s, e)) = Len(s) + 1 /\ Len(s) \in Nat
           /\ \A i \in 1 .. Len(s) : Append(s, e)[i] = s[i]
           /\ Append(s, e)[Len(s) + 1] = e
  BY AppendProperties, LenProperties

LEMMA Taken ==
    ASSUME NEW s \in Seq(Events), s # << >>
    PROVE  /\ Tail(s) \in Seq(Events) /\ Len(Tail(s)) = Len(s) - 1 /\ Len(s) \in Nat \ {0} /\ Head(s) = s[1] /\ s[1] \in Events
           /\ \A i \in 1 .. Len(s) - 1 : Tail(s)[i] = s[i + 1]
<1>1. Len(s) \in Nat \ {0}
  BY EmptySeq, LenProperties
<1> QED BY <1>1, HeadTailProperties, ElementOfSeq

LEMMA EventIs == ASSUME Typed, NEW k \in Kinds PROVE Event(k) \in Events /\ Event(k).kind = k /\ Event(k).of = session
<1>1. session \in Nat
  BY ConsoleAssumption DEF Typed
<1> QED BY <1>1 DEF Event, Events

\* The queue after an event of this session other than a start, or of a start when no
\* console is replaced.
Follows(q, s, v, way) ==
    Prompt =>
        /\ \A i \in 1 .. Len(q) : q[i].kind = "started" => ~way /\ \A j \in i .. Len(q) : q[j].of = s
        /\ v => \A i \in 1 .. Len(q) : q[i].of = s

LEMMA AppendFollows ==
    ASSUME NEW q \in Seq(Events), NEW s, NEW v \in BOOLEAN, NEW way \in BOOLEAN, NEW e \in Events, e.of = s,
           e.kind = "started" => ~way, Follows(q, s, v, way)
    PROVE  Follows(Append(q, e), s, v, way)
<1>1. PICK r : r = Append(q, e)
  OBVIOUS
<1>2. /\ r \in Seq(Events) /\ Len(r) = Len(q) + 1 /\ Len(q) \in Nat
      /\ \A i \in 1 .. Len(q) : r[i] = q[i]
      /\ r[Len(q) + 1] = e
  BY <1>1, Queued
<1>3. ASSUME Prompt, NEW i \in 1 .. Len(r), r[i].kind = "started" PROVE ~way /\ \A j \in i .. Len(r) : r[j].of = s
  <2>1. CASE i = Len(q) + 1
    <3>1. \A j \in i .. Len(r) : j = i
      BY <1>2, <2>1
    <3> QED BY <1>2, <1>3, <2>1, <3>1
  <2>2. CASE i # Len(q) + 1
    <3>1. i \in 1 .. Len(q) /\ q[i].kind = "started"
      BY <1>2, <1>3, <2>2
    <3>2. ~way /\ \A j \in i .. Len(q) : q[j].of = s
      BY <1>3, <3>1 DEF Follows
    <3>3. \A j \in i .. Len(r) : j = Len(q) + 1 \/ j \in i .. Len(q)
      BY <1>2
    <3>4. \A j \in i .. Len(q) : j \in 1 .. Len(q)
      BY <1>2, <3>1
    <3> QED BY <1>2, <3>2, <3>3, <3>4
  <2> QED BY <2>1, <2>2
<1>4. ASSUME Prompt, v, NEW i \in 1 .. Len(r) PROVE r[i].of = s
  <2>1. i = Len(q) + 1 \/ i \in 1 .. Len(q)
    BY <1>2
  <2> QED BY <1>2, <1>4, <2>1 DEF Follows
<1> QED BY <1>1, <1>3, <1>4 DEF Follows

LEMMA TailFollows ==
    ASSUME NEW q \in Seq(Events), q # << >>, NEW s, NEW v \in BOOLEAN, NEW way \in BOOLEAN, Follows(q, s, v, way)
    PROVE  Follows(Tail(q), s, v, way) /\ (Head(q).kind = "started" => Follows(Tail(q), s, TRUE, way))
<1>1. PICK r : r = Tail(q)
  OBVIOUS
<1>2. /\ r \in Seq(Events) /\ Len(r) = Len(q) - 1 /\ Len(q) \in Nat \ {0} /\ Head(q) = q[1]
      /\ \A i \in 1 .. Len(q) - 1 : r[i] = q[i + 1]
  BY <1>1, Taken
<1>3. \A i \in 1 .. Len(r) : r[i] = q[i + 1] /\ i + 1 \in 1 .. Len(q) /\ i + 1 \in 2 .. Len(q)
  BY <1>2
<1>4. ASSUME Prompt, NEW i \in 1 .. Len(r), r[i].kind = "started" PROVE ~way /\ \A j \in i .. Len(r) : r[j].of = s
  <2>1. ~way /\ \A j \in i + 1 .. Len(q) : q[j].of = s
    BY <1>3, <1>4 DEF Follows
  <2>2. \A j \in i .. Len(r) : j \in 1 .. Len(r) /\ j + 1 \in i + 1 .. Len(q)
    BY <1>2
  <2> QED BY <1>3, <2>1, <2>2
<1>5. ASSUME Prompt, v \/ Head(q).kind = "started", NEW i \in 1 .. Len(r) PROVE r[i].of = s
  <2>1. 1 \in 1 .. Len(q) /\ i + 1 \in 1 .. Len(q) /\ r[i] = q[i + 1]
    BY <1>2, <1>3
  <2> QED BY <1>2, <1>5, <2>1 DEF Follows
<1> QED BY <1>1, <1>4, <1>5 DEF Follows

-----------------------------------------------------------------------------
LEMMA ConsoleStart == ASSUME Init PROVE ConsoleInv
<1>1. Typed
  <2>1. session \in 1 .. Sessions /\ requests \in Nat /\ events \in Seq(Events) /\ ret \in [Threads -> Backs]
    BY ConsoleAssumption DEF Init, Threads, Backs
  <2>2. PICK first \in {"start", "loop"} : pc = [ui |-> first, cpu |-> "none", dev |-> "run"]
    BY DEF Init
  <2>3. pc = [t \in Threads |-> IF t = "ui" THEN first ELSE IF t = "cpu" THEN "none" ELSE "run"]
    BY <2>2 DEF Threads
  <2>4. pc["ui"] = first /\ pc["cpu"] = "none" /\ pc["dev"] = "run"
    BY <2>2
  <2> QED BY <2>1, <2>3, <2>4 DEF Init, Typed, Threads
<1>2. Freed /\ ReplacedIsDone
  BY DEF Init, Freed, ReplacedIsDone, Replacing, Threads, Calling
<1>3. QueueOrdered
  BY DEF Init, QueueOrdered
<1> QED BY <1>1, <1>2, <1>3 DEF ConsoleInv

\* The steps of the console, one action each.
LEMMA Steps ==
    ASSUME Next
    PROVE  \/ \E t \in Threads : ReadRunning(t)
           \/ \E t \in Threads : ReadInitialized(t)
           \/ \E t \in Threads : StoreStopping(t)
           \/ \E t \in Threads : CpuExit(t)
           \/ \E t \in Threads : RequestShutdown(t)
           \/ Join
           \/ \E t \in {"ui", "cpu"} : FreeMachine(t)
           \/ \E t \in {"ui", "cpu"} : StoreShutDown(t)
           \/ \E t \in {"ui", "cpu"} : ClearRequested(t)
           \/ \E t \in {"ui", "cpu"} : SignalStop(t)
           \/ \E t \in {"cpu", "dev"} : Fatal(t)
           \/ \E t \in {"cpu", "dev"} : SetRequested(t)
           \/ StoreRunning
           \/ Returns
           \/ CpuStopping
           \/ Start
           \/ OnMachineStarted
           \/ OnMachineStopped
           \/ OnRequestShutdown
           \/ PowerOff
           \/ OnShutdownDone
           \/ StartFile
           \/ Delete
           \/ New
  BY DEF Next, Ui, User, Cpu, Dev, Loop, Exit, Deinit, Threads

LEMMA TypedNext == ASSUME Typed, ReplacedIsDone, Next PROVE Typed'
<1> USE DEF Typed, Threads, Backs, Goto, Call, shared, Kinds
<1>1. ASSUME NEW t \in Threads, ReadRunning(t) PROVE Typed'
  BY <1>1 DEF ReadRunning
<1>2. ASSUME NEW t \in Threads, ReadInitialized(t) PROVE Typed'
  BY <1>2 DEF ReadInitialized
<1>3. ASSUME NEW t \in Threads, StoreStopping(t) PROVE Typed'
  BY <1>3 DEF StoreStopping
<1>4. ASSUME NEW t \in Threads, CpuExit(t) PROVE Typed'
  BY <1>4 DEF CpuExit
<1>5. ASSUME NEW t \in Threads, RequestShutdown(t) PROVE Typed'
  <2>1. Append(events, Event("shutdown")) \in Seq(Events)
    BY EventIs, Queued
  <2> QED BY <1>5, <2>1 DEF RequestShutdown
<1>6. CASE Join
  BY <1>6 DEF Join
<1>7. ASSUME NEW t \in {"ui", "cpu"}, FreeMachine(t) PROVE Typed'
  BY <1>7 DEF FreeMachine
<1>8. ASSUME NEW t \in {"ui", "cpu"}, StoreShutDown(t) PROVE Typed'
  BY <1>8 DEF StoreShutDown
<1>9. ASSUME NEW t \in {"ui", "cpu"}, ClearRequested(t) PROVE Typed'
  BY <1>9 DEF ClearRequested
<1>10. ASSUME NEW t \in {"ui", "cpu"}, SignalStop(t) PROVE Typed'
  <2>1. Append(events, Event("stopped")) \in Seq(Events)
    BY EventIs, Queued
  <2> QED BY <1>10, <2>1 DEF SignalStop
<1>11. ASSUME NEW t \in {"cpu", "dev"}, Fatal(t) PROVE Typed'
  BY <1>11 DEF Fatal, TestRequested
<1>12. ASSUME NEW t \in {"cpu", "dev"}, SetRequested(t) PROVE Typed'
  BY <1>12 DEF SetRequested
<1>13. CASE StoreRunning
  BY <1>13 DEF StoreRunning
<1>14. CASE Returns
  BY <1>14 DEF Returns
<1>15. CASE CpuStopping
  BY <1>15 DEF CpuStopping
<1>16. CASE Start
  <2>1. Append(events, Event("started")) \in Seq(Events)
    BY EventIs, Queued
  <2> QED BY <1>16, <2>1 DEF Start
<1>17. CASE OnMachineStarted
  <2>1. Tail(events) \in Seq(Events)
    BY <1>17, Taken DEF OnMachineStarted, Handle
  <2> QED BY <1>17, <2>1 DEF OnMachineStarted, Handle
<1>18. CASE OnMachineStopped
  <2>1. Tail(events) \in Seq(Events)
    BY <1>18, Taken DEF OnMachineStopped, Handle
  <2> QED BY <1>18, <2>1 DEF OnMachineStopped, Handle
<1>19. CASE OnRequestShutdown
  <2>1. Tail(events) \in Seq(Events)
    BY <1>19, Taken DEF OnRequestShutdown, Handle, Shutdown
  <2> QED BY <1>19, <2>1 DEF OnRequestShutdown, Handle, Shutdown
<1>20. CASE PowerOff
  BY <1>20 DEF PowerOff, Shutdown, Idle
<1>21. CASE OnShutdownDone
  <2>1. Tail(events) \in Seq(Events)
    BY <1>21, Taken DEF OnShutdownDone, Handle
  <2> QED BY <1>21, <2>1 DEF OnShutdownDone, Handle
<1>22. CASE StartFile
  BY <1>22 DEF StartFile, ForgetMachine, Idle
<1>23. CASE Delete
  BY <1>23 DEF Delete
<1>24. CASE New
  <2>1. session + 1 \in 1 .. Sessions
    BY <1>24, ConsoleAssumption DEF New, ReplacedIsDone, Replacing
  <2> QED BY <1>24, <2>1 DEF New
<1> QED BY <1>1, <1>2, <1>3, <1>4, <1>5, <1>6, <1>7, <1>8, <1>9, <1>10, <1>11, <1>12, <1>13, <1>14, <1>15, <1>16, <1>17, <1>18, <1>19, <1>20, <1>21, <1>22, <1>23, <1>24, Steps

LEMMA FreedNext == ASSUME Typed, Freed, ReplacedIsDone, Next PROVE Freed'
<1> USE DEF Typed, Freed, Threads, Backs, Goto, Call, shared
<1>1. ASSUME NEW t \in Threads, ReadRunning(t) PROVE Freed'
  BY <1>1 DEF ReadRunning
<1>2. ASSUME NEW t \in Threads, ReadInitialized(t) PROVE Freed'
  BY <1>2 DEF ReadInitialized
<1>3. ASSUME NEW t \in Threads, StoreStopping(t) PROVE Freed'
  BY <1>3 DEF StoreStopping
<1>4. ASSUME NEW t \in Threads, CpuExit(t) PROVE Freed'
  BY <1>4 DEF CpuExit
<1>5. ASSUME NEW t \in Threads, RequestShutdown(t) PROVE Freed'
  BY <1>5 DEF RequestShutdown
<1>6. CASE Join
  BY <1>6 DEF Join
<1>7. ASSUME NEW t \in {"ui", "cpu"}, FreeMachine(t) PROVE Freed'
  BY <1>7 DEF FreeMachine
<1>8. ASSUME NEW t \in {"ui", "cpu"}, StoreShutDown(t) PROVE Freed'
  BY <1>8 DEF StoreShutDown
<1>9. ASSUME NEW t \in {"ui", "cpu"}, ClearRequested(t) PROVE Freed'
  BY <1>9 DEF ClearRequested
<1>10. ASSUME NEW t \in {"ui", "cpu"}, SignalStop(t) PROVE Freed'
  BY <1>10 DEF SignalStop
<1>11. ASSUME NEW t \in {"cpu", "dev"}, Fatal(t) PROVE Freed'
  BY <1>11 DEF Fatal, TestRequested
<1>12. ASSUME NEW t \in {"cpu", "dev"}, SetRequested(t) PROVE Freed'
  BY <1>12 DEF SetRequested
<1>13. CASE StoreRunning
  BY <1>13 DEF StoreRunning
<1>14. CASE Returns
  BY <1>14 DEF Returns
<1>15. CASE CpuStopping
  BY <1>15 DEF CpuStopping
<1>16. CASE Start
  BY <1>16 DEF Start
<1>17. CASE OnMachineStarted
  BY <1>17 DEF OnMachineStarted, Handle
<1>18. CASE OnMachineStopped
  BY <1>18 DEF OnMachineStopped, Handle
<1>19. CASE OnRequestShutdown
  BY <1>19 DEF OnRequestShutdown, Handle, Shutdown
<1>20. CASE PowerOff
  BY <1>20 DEF PowerOff, Shutdown, Idle
<1>21. CASE OnShutdownDone
  BY <1>21 DEF OnShutdownDone, Handle
<1>22. CASE StartFile
  BY <1>22 DEF StartFile, ForgetMachine, Idle
<1>23. CASE Delete
  BY <1>23 DEF Delete
<1>24. CASE New
  <2>1. pc["cpu"] \in {"none", "done"}
    BY <1>24 DEF New, ReplacedIsDone
  <2> QED BY <1>24, <2>1 DEF New
<1> QED BY <1>1, <1>2, <1>3, <1>4, <1>5, <1>6, <1>7, <1>8, <1>9, <1>10, <1>11, <1>12, <1>13, <1>14, <1>15, <1>16, <1>17, <1>18, <1>19, <1>20, <1>21, <1>22, <1>23, <1>24, Steps

LEMMA ReplacedNext == ASSUME Typed, ReplacedIsDone, Next PROVE ReplacedIsDone'
<1> USE DEF Typed, ReplacedIsDone, Replacing, Calling, Threads, Backs, Goto, Call, shared
<1>1. ASSUME NEW t \in Threads, ReadRunning(t) PROVE ReplacedIsDone'
  BY <1>1 DEF ReadRunning
<1>2. ASSUME NEW t \in Threads, ReadInitialized(t) PROVE ReplacedIsDone'
  BY <1>2 DEF ReadInitialized
<1>3. ASSUME NEW t \in Threads, StoreStopping(t) PROVE ReplacedIsDone'
  BY <1>3 DEF StoreStopping
<1>4. ASSUME NEW t \in Threads, CpuExit(t) PROVE ReplacedIsDone'
  BY <1>4 DEF CpuExit
<1>5. ASSUME NEW t \in Threads, RequestShutdown(t) PROVE ReplacedIsDone'
  BY <1>5 DEF RequestShutdown
<1>6. CASE Join
  BY <1>6 DEF Join
<1>7. ASSUME NEW t \in {"ui", "cpu"}, FreeMachine(t) PROVE ReplacedIsDone'
  BY <1>7 DEF FreeMachine
<1>8. ASSUME NEW t \in {"ui", "cpu"}, StoreShutDown(t) PROVE ReplacedIsDone'
  BY <1>8 DEF StoreShutDown
<1>9. ASSUME NEW t \in {"ui", "cpu"}, ClearRequested(t) PROVE ReplacedIsDone'
  BY <1>9 DEF ClearRequested
<1>10. ASSUME NEW t \in {"ui", "cpu"}, SignalStop(t) PROVE ReplacedIsDone'
  BY <1>10 DEF SignalStop
<1>11. ASSUME NEW t \in {"cpu", "dev"}, Fatal(t) PROVE ReplacedIsDone'
  BY <1>11 DEF Fatal, TestRequested
<1>12. ASSUME NEW t \in {"cpu", "dev"}, SetRequested(t) PROVE ReplacedIsDone'
  BY <1>12 DEF SetRequested
<1>13. CASE StoreRunning
  BY <1>13 DEF StoreRunning
<1>14. CASE Returns
  BY <1>14 DEF Returns
<1>15. CASE CpuStopping
  BY <1>15 DEF CpuStopping
<1>16. CASE Start
  BY <1>16 DEF Start
<1>17. CASE OnMachineStarted
  BY <1>17 DEF OnMachineStarted, Handle
<1>18. CASE OnMachineStopped
  BY <1>18 DEF OnMachineStopped, Handle
<1>19. CASE OnRequestShutdown
  BY <1>19 DEF OnRequestShutdown, Handle, Shutdown
<1>20. CASE PowerOff
  BY <1>20 DEF PowerOff, Shutdown, Idle
<1>21. CASE OnShutdownDone
  BY <1>21 DEF OnShutdownDone, Handle
<1>22. CASE StartFile
  BY <1>22 DEF StartFile, ForgetMachine, Idle
<1>23. CASE Delete
  BY <1>23 DEF Delete
<1>24. CASE New
  BY <1>24 DEF New
<1> QED BY <1>1, <1>2, <1>3, <1>4, <1>5, <1>6, <1>7, <1>8, <1>9, <1>10, <1>11, <1>12, <1>13, <1>14, <1>15, <1>16, <1>17, <1>18, <1>19, <1>20, <1>21, <1>22, <1>23, <1>24, Steps

LEMMA QueueNext == ASSUME Typed, ReplacedIsDone, QueueOrdered, Next PROVE QueueOrdered'
<1>1. QueueOrdered <=> Follows(events, session, valid, Replacing)
  BY DEF QueueOrdered, Follows
<1>2. QueueOrdered' <=> Follows(events', session', valid', Replacing')
  BY DEF QueueOrdered, Follows
<1>3. Replacing \in BOOLEAN /\ Replacing' \in BOOLEAN
  BY DEF Replacing
<1>4. CASE events' = events /\ session' = session /\ (valid' => valid) /\ (Replacing' => Replacing)
  BY <1>1, <1>2, <1>3, <1>4 DEF Follows, Typed
<1>5. CASE session' = session /\ valid' = valid /\ (Replacing' => Replacing)
           /\ \E k \in Kinds : events' = Append(events, Event(k)) /\ (k = "started" => ~Replacing)
  <2>1. PICK e \in Events : events' = Append(events, e) /\ e.of = session /\ (e.kind = "started" => ~Replacing)
    BY <1>5, EventIs
  <2>2. PICK q \in Seq(Events), v \in BOOLEAN, way \in BOOLEAN : q = events /\ v = valid /\ way = Replacing
    BY <1>3 DEF Typed
  <2>3. Follows(q, session, v, way)
    BY <1>1, <2>2
  <2>4. Follows(Append(q, e), session, v, way)
    BY <2>1, <2>2, <2>3, AppendFollows, Zenon
  <2>5. Follows(events', session', valid', Replacing)
    BY <1>5, <2>1, <2>2, <2>4
  <2> QED BY <1>2, <1>3, <1>5, <2>5 DEF Follows
<1>6. CASE /\ session' = session /\ events # << >> /\ events' = Tail(events) /\ (Replacing' => Replacing)
           /\ valid' => valid \/ Head(events).kind = "started"
  <2>1. PICK q \in Seq(Events), v \in BOOLEAN, way \in BOOLEAN : q = events /\ v = valid /\ way = Replacing
    BY <1>3 DEF Typed
  <2>2. Follows(q, session, v, way) /\ q # << >>
    BY <1>1, <1>6, <2>1
  <2>3. Follows(Tail(q), session, v, way) /\ (Head(q).kind = "started" => Follows(Tail(q), session, TRUE, way))
    BY <2>2, TailFollows, Zenon
  <2>4. valid' => v \/ Head(q).kind = "started"
    BY <1>6, <2>1
  <2>5. Follows(Tail(q), session, valid', way)
    BY <2>3, <2>4 DEF Follows
  <2>6. Follows(events', session', valid', Replacing)
    BY <1>6, <2>1, <2>5
  <2> QED BY <1>2, <1>3, <1>6, <2>6 DEF Follows
<1>7. CASE StartFile
  <2>1. Prompt => events = << >> /\ events' = << >>
    BY <1>7 DEF StartFile, Idle
  <2> QED BY <1>2, <2>1 DEF Follows
<1>8. CASE New
  <2>1. Replacing /\ ~valid /\ valid' = valid /\ events' = events
    BY <1>8 DEF New, Replacing, ReplacedIsDone
  <2> QED BY <1>1, <1>2, <2>1 DEF Follows
<1>9. ASSUME NEW t \in Threads, ReadRunning(t) PROVE QueueOrdered'
  <2>1. events' = events /\ session' = session /\ (valid' => valid) /\ (Replacing' => Replacing)
    BY <1>9 DEF ReadRunning, Typed, Replacing, Calling, Threads, Backs, Goto, Call, shared
  <2> QED BY <1>4, <2>1
<1>10. ASSUME NEW t \in Threads, ReadInitialized(t) PROVE QueueOrdered'
  <2>1. events' = events /\ session' = session /\ (valid' => valid) /\ (Replacing' => Replacing)
    BY <1>10 DEF ReadInitialized, Typed, Replacing, Calling, Threads, Backs, Goto, Call, shared
  <2> QED BY <1>4, <2>1
<1>11. ASSUME NEW t \in Threads, StoreStopping(t) PROVE QueueOrdered'
  <2>1. events' = events /\ session' = session /\ (valid' => valid) /\ (Replacing' => Replacing)
    BY <1>11 DEF StoreStopping, Typed, Replacing, Calling, Threads, Backs, Goto, Call, shared
  <2> QED BY <1>4, <2>1
<1>12. ASSUME NEW t \in Threads, CpuExit(t) PROVE QueueOrdered'
  <2>1. events' = events /\ session' = session /\ (valid' => valid) /\ (Replacing' => Replacing)
    BY <1>12 DEF CpuExit, Typed, Replacing, Calling, Threads, Backs, Goto, Call, shared
  <2> QED BY <1>4, <2>1
<1>13. ASSUME NEW t \in Threads, RequestShutdown(t) PROVE QueueOrdered'
  <2>1. session' = session /\ valid' = valid /\ (Replacing' => Replacing) /\ events' = Append(events, Event("shutdown"))
    BY <1>13 DEF RequestShutdown, Typed, Replacing, Calling, Threads, Backs, Goto, Call, shared
  <2> QED BY <1>5, <2>1 DEF Kinds
<1>14. CASE Join
  <2>1. events' = events /\ session' = session /\ (valid' => valid) /\ (Replacing' => Replacing)
    BY <1>14 DEF Join, Typed, Replacing, Calling, Threads, Backs, Goto, Call, shared
  <2> QED BY <1>4, <2>1
<1>15. ASSUME NEW t \in {"ui", "cpu"}, FreeMachine(t) PROVE QueueOrdered'
  <2>1. events' = events /\ session' = session /\ (valid' => valid) /\ (Replacing' => Replacing)
    BY <1>15 DEF FreeMachine, Typed, Replacing, Calling, Threads, Backs, Goto, Call, shared
  <2> QED BY <1>4, <2>1
<1>16. ASSUME NEW t \in {"ui", "cpu"}, StoreShutDown(t) PROVE QueueOrdered'
  <2>1. events' = events /\ session' = session /\ (valid' => valid) /\ (Replacing' => Replacing)
    BY <1>16 DEF StoreShutDown, Typed, Replacing, Calling, Threads, Backs, Goto, Call, shared
  <2> QED BY <1>4, <2>1
<1>17. ASSUME NEW t \in {"ui", "cpu"}, ClearRequested(t) PROVE QueueOrdered'
  <2>1. events' = events /\ session' = session /\ (valid' => valid) /\ (Replacing' => Replacing)
    BY <1>17 DEF ClearRequested, Typed, Replacing, Calling, Threads, Backs, Goto, Call, shared
  <2> QED BY <1>4, <2>1
<1>18. ASSUME NEW t \in {"ui", "cpu"}, SignalStop(t) PROVE QueueOrdered'
  <2>1. session' = session /\ valid' = valid /\ (Replacing' => Replacing) /\ events' = Append(events, Event("stopped"))
    BY <1>18 DEF SignalStop, Typed, Replacing, Calling, Threads, Backs, Goto, Call, shared
  <2> QED BY <1>5, <2>1 DEF Kinds
<1>19. ASSUME NEW t \in {"cpu", "dev"}, Fatal(t) PROVE QueueOrdered'
  <2>1. events' = events /\ session' = session /\ (valid' => valid) /\ (Replacing' => Replacing)
    BY <1>19 DEF Fatal, TestRequested, Typed, Replacing, Calling, Threads, Backs, Goto, Call, shared
  <2> QED BY <1>4, <2>1
<1>20. ASSUME NEW t \in {"cpu", "dev"}, SetRequested(t) PROVE QueueOrdered'
  <2>1. events' = events /\ session' = session /\ (valid' => valid) /\ (Replacing' => Replacing)
    BY <1>20 DEF SetRequested, Typed, Replacing, Calling, Threads, Backs, Goto, Call, shared
  <2> QED BY <1>4, <2>1
<1>21. CASE StoreRunning
  <2>1. events' = events /\ session' = session /\ (valid' => valid) /\ (Replacing' => Replacing)
    BY <1>21 DEF StoreRunning, Typed, Replacing, Calling, Threads, Backs, Goto, Call, shared
  <2> QED BY <1>4, <2>1
<1>22. CASE Returns
  <2>1. events' = events /\ session' = session /\ (valid' => valid) /\ (Replacing' => Replacing)
    BY <1>22 DEF Returns, Typed, Replacing, Calling, Threads, Backs, Goto, Call, shared
  <2> QED BY <1>4, <2>1
<1>23. CASE CpuStopping
  <2>1. events' = events /\ session' = session /\ (valid' => valid) /\ (Replacing' => Replacing)
    BY <1>23 DEF CpuStopping, Typed, Replacing, Calling, Threads, Backs, Goto, Call, shared
  <2> QED BY <1>4, <2>1
<1>24. CASE Start
  <2>1. session' = session /\ valid' = valid /\ ~Replacing /\ ~Replacing'
    BY <1>24 DEF Start, Typed, Replacing, Calling, Threads, Backs, Goto, Call, shared
  <2>2. events' = events \/ events' = Append(events, Event("started"))
    BY <1>24 DEF Start
  <2> QED BY <1>4, <1>5, <2>1, <2>2 DEF Kinds
<1>25. CASE OnMachineStarted
  <2>1. /\ session' = session /\ events # << >> /\ events' = Tail(events) /\ (Replacing' => Replacing)
        /\ valid' => valid \/ Head(events).kind = "started"
    BY <1>25 DEF OnMachineStarted, Handle, Typed, Replacing, Calling, Threads, Backs, Goto, Call, shared
  <2> QED BY <1>6, <2>1
<1>26. CASE OnMachineStopped
  <2>1. /\ session' = session /\ events # << >> /\ events' = Tail(events) /\ (Replacing' => Replacing)
        /\ valid' => valid \/ Head(events).kind = "started"
    BY <1>26 DEF OnMachineStopped, Handle, Typed, Replacing, Calling, Threads, Backs, Goto, Call, shared
  <2> QED BY <1>6, <2>1
<1>27. CASE OnRequestShutdown
  <2>1. /\ session' = session /\ events # << >> /\ events' = Tail(events) /\ (Replacing' => Replacing)
        /\ valid' => valid \/ Head(events).kind = "started"
    BY <1>27 DEF OnRequestShutdown, Handle, Shutdown, Typed, Replacing, Calling, Threads, Backs, Goto, Call, shared
  <2> QED BY <1>6, <2>1
<1>28. CASE PowerOff
  <2>1. events' = events /\ session' = session /\ (valid' => valid) /\ (Replacing' => Replacing)
    BY <1>28 DEF PowerOff, Shutdown, Idle, Typed, Replacing, Calling, Threads, Backs, Goto, Call, shared
  <2> QED BY <1>4, <2>1
<1>29. CASE OnShutdownDone
  <2>1. /\ session' = session /\ events # << >> /\ events' = Tail(events) /\ (Replacing' => Replacing)
        /\ valid' => valid \/ Head(events).kind = "started"
    BY <1>29 DEF OnShutdownDone, Handle, Typed, Replacing, Calling, Threads, Backs, Goto, Call, shared
  <2> QED BY <1>6, <2>1
<1>30. CASE Delete
  <2>1. events' = events /\ session' = session /\ (valid' => valid) /\ (Replacing' => Replacing)
    BY <1>30 DEF Delete, Typed, Replacing, Calling, Threads, Backs, Goto, Call, shared
  <2> QED BY <1>4, <2>1
<1> QED BY <1>7, <1>8, <1>9, <1>10, <1>11, <1>12, <1>13, <1>14, <1>15, <1>16, <1>17, <1>18, <1>19, <1>20, <1>21, <1>22, <1>23, <1>24, <1>25, <1>26, <1>27, <1>28, <1>29, <1>30, Steps

-----------------------------------------------------------------------------
LEMMA ConsoleStutter == ASSUME ConsoleInv, UNCHANGED vars PROVE ConsoleInv'
<1>1. UNCHANGED <<session, null, state, machine, cpuExit, requested, requests, valid, menu, events, pc, ret, wait>>
  BY DEF vars, shared
<1> QED BY <1>1 DEF ConsoleInv, Typed, Freed, ReplacedIsDone, Replacing, QueueOrdered

\* Whoever stops a console, and however exit, deinit and Fatal interleave on three
\* threads, a console that is shut down is freed, it is replaced only when its
\* thread is done, and the queue of the window is in the order of the consoles.
THEOREM ConsoleInvariant == Spec => []ConsoleInv
<1>1. ConsoleInv /\ [Next]_vars => ConsoleInv'
  <2> SUFFICES ASSUME ConsoleInv, [Next]_vars PROVE ConsoleInv'
    OBVIOUS
  <2>1. CASE Next
    BY <2>1, TypedNext, FreedNext, ReplacedNext, QueueNext DEF ConsoleInv
  <2> QED BY <2>1, ConsoleStutter
<1>2. Init => ConsoleInv
  BY ConsoleStart
<1> QED BY <1>1, <1>2, PTL DEF Spec

\* The types of what the threads share, a machine that is freed when it is shut down
\* and outlived by no thread of a device (console.cpp).
THEOREM ConsoleTyped == Spec => []TypeOK
<1>1. ConsoleInv => TypeOK
  <2> SUFFICES ASSUME ConsoleInv PROVE TypeOK
    OBVIOUS
  <2>1. \A i \in 1 .. Len(events) : events[i].kind \in {"started", "stopped", "shutdown"}
    <3>1. \A i \in 1 .. Len(events) : events[i] \in Events
      BY ElementOfSeq DEF ConsoleInv, Typed
    <3> QED BY <3>1 DEF Events, Kinds
  <2> QED BY <2>1 DEF ConsoleInv, Typed, Freed, TypeOK
<1> QED BY <1>1, ConsoleInvariant, PTL

\* With a user who waits for the window, a shutdown that was requested for one console
\* is not carried out on the next (main_window.cpp).
THEOREM SessionsHold == ASSUME Prompt PROVE Spec => []SessionsSound
<1>1. ConsoleInv => NoStaleShutdown
  <2> SUFFICES ASSUME ConsoleInv, valid, events # << >> PROVE Head(events).of = session
    BY DEF NoStaleShutdown
  <2>1. 1 \in 1 .. Len(events) /\ Head(events) = events[1]
    <3>1. events \in Seq(Events)
      BY DEF ConsoleInv, Typed
    <3> QED BY <3>1, Taken
  <2> QED BY <2>1 DEF ConsoleInv, QueueOrdered
<1> QED BY <1>1, ConsoleInvariant, ConsoleTyped, PTL DEF SessionsSound
=============================================================================
