------------------------------ MODULE IoService ------------------------------
(***************************************************************************)
(* What submitting, retrying and querying promise to the guest: every      *)
(* packet that is submitted is handled exactly once, at one instant        *)
(* between its submission and its answer, and the answer is the one that   *)
(* this execution produced.  No queue, no lock and no thread is visible.   *)
(***************************************************************************)
EXTENDS IoFiles

CONSTANTS Clients, NoRequest

VARIABLES
    phase,   \* "idle", "submitted" or "served", for every guest thread
    request, \* the packet of a thread, NoRequest when it has none
    result   \* the info block its execution produced

serviceVars == <<phase, request, result>>

ServiceInit ==
    /\ Init
    /\ phase = [c \in Clients |-> "idle"]
    /\ request = [c \in Clients |-> NoRequest]
    /\ result = [c \in Clients |-> ZeroInfo]

Submit(c, r) ==
    /\ phase[c] = "idle" /\ Independent(r, {request[d] : d \in {e \in Clients : phase[e] # "idle"}})
    /\ phase' = [phase EXCEPT ![c] = "submitted"]
    /\ request' = [request EXCEPT ![c] = r]
    /\ UNCHANGED <<vars, result>>

Execute(c) ==
    /\ phase[c] = "submitted"
    /\ Handle(request[c])
    /\ phase' = [phase EXCEPT ![c] = "served"]
    /\ result' = [result EXCEPT ![c] = info']
    /\ UNCHANGED <<guestVars, request>>

Answer(c) ==
    /\ phase[c] = "served"
    /\ GuestLearns(request[c], result[c])
    /\ phase' = [phase EXCEPT ![c] = "idle"]
    /\ request' = [request EXCEPT ![c] = NoRequest]
    /\ result' = [result EXCEPT ![c] = ZeroInfo]
    /\ UNCHANGED <<fileVars, info>>

ServiceStop ==
    /\ Stop
    /\ phase' = [c \in Clients |-> "idle"]
    /\ request' = [c \in Clients |-> NoRequest]
    /\ result' = [c \in Clients |-> ZeroInfo]

ServiceStart == Start /\ UNCHANGED serviceVars

ServiceNext ==
    \/ \E c \in Clients : (\E r \in GuestRequests : Submit(c, r)) \/ Execute(c) \/ Answer(c)
    \/ ServiceStop \/ ServiceStart

ServiceSpec == ServiceInit /\ [][ServiceNext]_<<vars, serviceVars>>
=============================================================================
