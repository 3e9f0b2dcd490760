------------------------------ MODULE Console -------------------------------
(* The life of a console (console.cpp) and the window that starts and stops  *)
(* it (main_window.cpp, main.cpp): the UI thread with its queue of events,   *)
(* the CPU thread of the console, and one thread of a device, which may call *)
(* Host::Fatal (host.cpp) and is joined by deinit.  exit(), deinit() and     *)
(* Fatal run on several of these threads; a step is one access to what they  *)
(* share.  The machine itself is only ready or freed.                        *)
EXTENDS Naturals, Sequences

CONSTANTS Sessions,     \* consoles created, a bound
          Opens,        \* may a file be started while a console runs?
          Fatals,       \* the threads that call Host::Fatal
          MayFail,      \* may a new console fail to initialise?
          Prompt        \* does the user act only when nothing is under way?

Threads == {"ui", "cpu", "dev"}

ASSUME ConsoleAssumption == /\ Sessions \in Nat \ {0}
                            /\ {Opens, MayFail, Prompt} \subseteq BOOLEAN
                            /\ Fatals \subseteq {"cpu", "dev"}

VARIABLES session,      \* which console g_console is
          null,         \* g_console = nullptr
          state,        \* m_state
          machine,      \* of m_machine: "ready" or "freed"
          cpuExit,      \* lib86cpu was told to return
          requested,    \* g_shutdown_requested
          requests,     \* shutdowns requested by Fatal in this session
          valid,        \* s_valid_machine
          menu,         \* is actionStartFile enabled?
          events,       \* what is queued for the window
          pc, ret,      \* where each thread is, and where it returns to
          wait          \* the parameter of the exit() the UI thread is in

shared == <<null, state, machine, cpuExit, requested, requests, valid, menu>>
vars == <<session, shared, events, pc, ret, wait>>

Event(k) == [kind |-> k, of |-> session]
Goto(t, l) == pc' = [pc EXCEPT ![t] = l]
Call(t, l, back) == pc' = [pc EXCEPT ![t] = l] /\ ret' = [ret EXCEPT ![t] = back]

\* main() creates the first console, and starts it if it was given a file.
Init ==
    /\ session = 1 /\ null = FALSE /\ state = "initialized" /\ machine = "ready"
    /\ cpuExit = FALSE /\ requested = FALSE /\ requests = 0 /\ valid = FALSE /\ menu = TRUE
    /\ events = << >> /\ wait = FALSE
    /\ \E first \in {"start", "loop"} : pc = [ui |-> first, cpu |-> "none", dev |-> "run"]
    /\ ret = [t \in Threads |-> "loop"]

-----------------------------------------------------------------------------
(* exit(), on any thread *)

ReadRunning(t) ==
    /\ pc[t] = "exit"
    /\ Goto(t, IF state = "running" THEN "stopping" ELSE "notRunning")
    /\ UNCHANGED <<session, shared, events, ret, wait>>

ReadInitialized(t) ==
    /\ pc[t] = "notRunning"
    /\ Goto(t, IF state = "initialized" THEN "deinit" ELSE ret[t])
    /\ UNCHANGED <<session, shared, events, ret, wait>>

StoreStopping(t) ==
    /\ pc[t] = "stopping"
    /\ state' = "stopping"
    /\ Goto(t, "cpuExit")
    /\ UNCHANGED <<session, null, machine, cpuExit, requested, requests, valid, menu, events, ret, wait>>

\* Variant: says nothing to lib86cpu.
CpuExitNot(t) ==
    /\ pc[t] = "cpuExit"
    /\ Goto(t, "request")
    /\ UNCHANGED <<session, shared, events, ret, wait>>
CpuExit(t) ==
    /\ pc[t] = "cpuExit"
    /\ cpuExit' = TRUE
    /\ Goto(t, "request")
    /\ UNCHANGED <<session, null, state, machine, requested, requests, valid, menu, events, ret, wait>>

RequestShutdown(t) ==
    /\ pc[t] = "request"
    /\ events' = Append(events, Event("shutdown"))
    /\ Goto(t, IF t = "ui" /\ wait THEN "join" ELSE ret[t])
    /\ UNCHANGED <<session, shared, ret, wait>>

Join ==
    /\ pc["ui"] = "join" /\ pc["cpu"] \in {"none", "done"}
    /\ Goto("ui", ret["ui"])
    /\ UNCHANGED <<session, shared, events, ret, wait>>

Exit(t) == ReadRunning(t) \/ ReadInitialized(t) \/ StoreStopping(t) \/ CpuExit(t) \/ RequestShutdown(t)

-----------------------------------------------------------------------------
(* deinit(), on the CPU thread or in exit() *)

\* Stops the threads of the devices, so it waits for one that is in Fatal.
FreeMachine(t) ==
    /\ pc[t] = "deinit" /\ pc["dev"] \in {"run", "done"}
    /\ machine' = "freed"
    /\ pc' = [pc EXCEPT ![t] = "down", !["dev"] = "done"]
    /\ UNCHANGED <<session, null, state, cpuExit, requested, requests, valid, menu, events, ret, wait>>

StoreShutDown(t) ==
    /\ pc[t] = "down"
    /\ state' = "shut_down"
    /\ Goto(t, "clear")
    /\ UNCHANGED <<session, null, machine, cpuExit, requested, requests, valid, menu, events, ret, wait>>

ClearRequested(t) ==
    /\ pc[t] = "clear"
    /\ requested' = FALSE
    /\ Goto(t, "signal")
    /\ UNCHANGED <<session, null, state, machine, cpuExit, requests, valid, menu, events, ret, wait>>

SignalStop(t) ==
    /\ pc[t] = "signal"
    /\ events' = Append(events, Event("stopped"))
    /\ Goto(t, ret[t])
    /\ UNCHANGED <<session, shared, ret, wait>>

Deinit(t) == FreeMachine(t) \/ StoreShutDown(t) \/ ClearRequested(t) \/ SignalStop(t)

-----------------------------------------------------------------------------
(* Host::Fatal, on the CPU thread and on the thread of a device, which works *)
(* only for a CPU that has run. *)

TestRequested(t) == ~requested

Fatal(t) ==
    /\ t \in Fatals /\ pc[t] = "run"
    /\ pc["cpu"] \notin {"none", "created"}
    /\ TestRequested(t)
    /\ Call(t, "fatal", "run")
    /\ UNCHANGED <<session, shared, events, wait>>

SetRequested(t) ==
    /\ pc[t] = "fatal"
    /\ requested' = TRUE /\ requests' = requests + 1
    /\ Goto(t, "exit")
    /\ UNCHANGED <<session, null, state, machine, cpuExit, valid, menu, events, ret, wait>>

-----------------------------------------------------------------------------
(* The CPU thread *)

StoreRunning ==
    /\ pc["cpu"] = "created"
    /\ state' = "running"
    /\ Goto("cpu", "run")
    /\ UNCHANGED <<session, null, machine, cpuExit, requested, requests, valid, menu, events, ret, wait>>

\* lib86cpu returns when it is told to, or with an error of its own.
Returns ==
    /\ pc["cpu"] = "run"
    /\ Goto("cpu", "returned")
    /\ UNCHANGED <<session, shared, events, ret, wait>>

CpuStopping ==
    /\ pc["cpu"] = "returned"
    /\ state' = "stopping"
    /\ Call("cpu", "deinit", "done")
    /\ UNCHANGED <<session, null, machine, cpuExit, requested, requests, valid, menu, events, wait>>

-----------------------------------------------------------------------------
(* The UI thread *)

Start ==
    /\ pc["ui"] = "start"
    /\ IF state = "initialized"
       THEN /\ events' = Append(events, Event("started"))
            /\ pc' = [pc EXCEPT !["ui"] = "loop", !["cpu"] = "created"]
       ELSE /\ Goto("ui", "loop")
            /\ UNCHANGED events
    /\ UNCHANGED <<session, shared, ret, wait>>

\* Qt promises no order between what is queued and what the user does; a prompt
\* user waits for the former and for the thread that start() has created.
Idle == pc["ui"] = "loop" /\ (Prompt => events = << >> /\ pc["cpu"] # "created")

Handle(k) == pc["ui"] = "loop" /\ events # << >> /\ Head(events).kind = k /\ events' = Tail(events)

OnMachineStarted ==
    /\ Handle("started")
    /\ valid' = TRUE /\ menu' = FALSE
    /\ UNCHANGED <<session, null, state, machine, cpuExit, requested, requests, pc, ret, wait>>

OnMachineStopped ==
    /\ Handle("stopped")
    /\ valid' = FALSE /\ menu' = TRUE
    /\ UNCHANGED <<session, null, state, machine, cpuExit, requested, requests, pc, ret, wait>>

\* requestShutdown
Shutdown ==
    /\ valid' = FALSE /\ menu' = FALSE /\ wait' = FALSE
    /\ Call("ui", "exit", "loop")
    /\ UNCHANGED <<session, null, state, machine, cpuExit, requested, requests>>

\* Queued by exit(), or called by the power button, which is off unless valid.
OnRequestShutdown == valid /\ Handle("shutdown") /\ Shutdown
PowerOff == Idle /\ valid /\ Shutdown /\ UNCHANGED events

OnShutdownDone ==
    /\ ~valid /\ Handle("shutdown")
    /\ UNCHANGED <<session, shared, pc, ret, wait>>

\* Variant: leaves the window as it is.
ForgetMachineNot == valid' = valid
ForgetMachine == valid' = FALSE

\* doStartFile: by the menu when no console runs, by the button of the toolbar,
\* which is never disabled, at any time.
StartFile ==
    /\ Idle /\ ~null /\ session < Sessions
    /\ menu \/ Opens
    /\ ForgetMachine /\ wait' = TRUE
    /\ Call("ui", "exit", "delete")
    /\ UNCHANGED <<session, null, state, machine, cpuExit, requested, requests, menu, events>>

\* Deleting a console joins its thread first.
Delete ==
    /\ pc["ui"] = "delete" /\ pc["cpu"] \in {"none", "done"}
    /\ Goto("ui", "new")
    /\ UNCHANGED <<session, shared, events, ret, wait>>

\* Goes on to start() also when the console could not be initialised, in which
\* case it has deleted it.
New ==
    /\ pc["ui"] = "new"
    /\ session' = session + 1 /\ requests' = 0
    /\ cpuExit' = FALSE
    /\ \/ /\ state' = "initialized" /\ machine' = "ready" /\ null' = FALSE
          /\ pc' = [pc EXCEPT !["ui"] = "start", !["cpu"] = "none", !["dev"] = "run"]
       \/ /\ MayFail
          /\ state' = "shut_down" /\ machine' = "freed" /\ null' = TRUE
          /\ pc' = [pc EXCEPT !["ui"] = "start", !["cpu"] = "none", !["dev"] = "done"]
    /\ UNCHANGED <<requested, valid, menu, events, ret, wait>>

Loop == OnMachineStarted \/ OnMachineStopped \/ OnRequestShutdown \/ OnShutdownDone
User == PowerOff \/ StartFile
Ui == Exit("ui") \/ Deinit("ui") \/ Join \/ Start \/ Loop \/ Delete \/ New
Cpu == Exit("cpu") \/ Deinit("cpu") \/ SetRequested("cpu") \/ StoreRunning \/ CpuStopping
Dev == Exit("dev") \/ SetRequested("dev")

Next == Ui \/ User \/ Cpu \/ Returns \/ Dev \/ Fatal("cpu") \/ Fatal("dev")

Spec == Init /\ [][Next]_vars

\* Every thread goes on; the CPU returns when it was told to.
FairSpec == Spec /\ WF_vars(Ui) /\ WF_vars(Cpu) /\ WF_vars(Dev) /\ WF_vars(cpuExit /\ Returns)

-----------------------------------------------------------------------------
(* Properties *)

\* Types of what the threads share, and the places a thread can be in; what is
\* shut down is freed, and no thread of a device outlives the machine.
TypeOK ==
    /\ session \in 1 .. Sessions /\ requests \in Nat
    /\ {null, cpuExit, requested, valid, menu, wait} \subseteq BOOLEAN
    /\ state \in {"initialized", "running", "stopping", "shut_down"}
    /\ machine \in {"ready", "freed"}
    /\ state = "shut_down" => machine = "freed"
    /\ machine = "freed" => pc["dev"] = "done"
    /\ \A i \in 1 .. Len(events) : events[i].kind \in {"started", "stopped", "shutdown"}
    /\ pc \in [Threads -> {"start", "loop", "join", "delete", "new", "none", "created", "run", "returned", "done",
                           "exit", "notRunning", "stopping", "cpuExit", "request",
                           "deinit", "down", "clear", "signal", "fatal"}]

\* A shutdown that was requested for one console is not carried out on the next
\* ("Requests shut down of the current machine").
NoStaleShutdown ==
    pc["ui"] = "loop" /\ valid /\ events # << >> /\ Head(events).kind = "shutdown" => Head(events).of = session

\* The threads and the window agree on which console there is and what becomes of it.
SessionsSound == TypeOK /\ NoStaleShutdown

\* Waiting for the CPU thread, in exit(true) or when the console is deleted, ends.
JoinReturns == (pc["ui"] \in {"join", "delete"}) ~> (pc["ui"] \notin {"join", "delete"})

(* What the comments of the code say and the model refutes (README, 5).      *)

\* "Prevents multiple shutdown requests during a single emulation session".
OneRequestPerSession == requests <= 1

\* exit() does not reach for the CPU of a machine that is freed.
ExitReachesMachine == \A t \in Threads : pc[t] = "cpuExit" => machine = "ready"

\* The CPU thread does not run a machine that exit() has freed.
RunsReadyMachine == pc["cpu"] = "run" => machine = "ready"

\* start() is called on a console that exists.
StartsConsole == pc["ui"] = "start" => ~null
=============================================================================
