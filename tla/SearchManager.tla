--------------------------- MODULE SearchManager ----------------------------
(***************************************************************************)
(* The policy of the StackStealing skeleton                                *)
(* (workstealing/policies/SearchManager.hpp): one manager per locality,    *)
(* which knows the threads that run a task there and asks one of them for  *)
(* part of its stack when a scheduler of this or another locality wants    *)
(* work.                                                                   *)
(*                                                                         *)
(* A thread registers for each task it runs and gets an id and a shared    *)
(* state: a request flag and a channel for one answer.  A task is named by *)
(* its node and a shared state by the node of its task, as no node becomes *)
(* a task twice.  All handlers run under the manager's mutex, which is     *)
(* released only while an answer is awaited: a handler is one step up to   *)
(* that point and one step after it.                                       *)
(***************************************************************************)
EXTENDS ProcessNode, Functions

CONSTANTS threadCount,   \* hpx::get_os_thread_count() of each locality
          None           \* no answer

ASSUME ManagerAssumption ==
    threadCount \in Nat \ {0} /\ None \notin Seq(Node \cup {NoNode})

VARIABLES activeIds,   \* of each locality: the queue of free ids
          active,      \* of each locality: id -> shared state
          inactive,    \* the same for threads a steal is in progress on
          requested,   \* shared states whose request flag is set
          channel,     \* what the channel of each shared state holds
          isStealingDistributed,
          last_remote,
          taskBuffer,  \* rest of stolen chunks, the next to be taken first
          id,          \* the id of the task each scheduler runs, else 0
          victim,      \* whom each thief steals from: [at, pos, state]
          answer       \* what its future holds

thief_vars == <<victim, answer>>
table_vars == <<activeIds, active, inactive, id>>
remote_vars == <<isStealingDistributed, last_remote>>
manager_vars == <<table_vars, requested, channel, remote_vars, taskBuffer,
                  thief_vars>>

Ids == 0..threadCount - 1
Others(l) == Locality \ {l}

\* No steal by w is under way.
NoVictim(w) == [at |-> home[w], pos |-> 0, state |-> Root]

\* "-1 depth signals that the thread has finished": the task has no node.
NoSteal == <<NoNode>>

Without(f, x) == [y \in DOMAIN f \ {x} |-> f[y]]
With(f, x, v) == [y \in DOMAIN f \cup {x} |-> IF y = x THEN v ELSE f[y]]

\* After initPolicy and the registration of w0 with shared state s0.
ManagerInit(w0, s0) ==
    /\ activeIds = [l \in Locality |-> [i \in 1..threadCount
                        - (IF l = home[w0] THEN 1 ELSE 0) |->
                           IF l = home[w0] THEN i ELSE i - 1]]
    /\ active = [l \in Locality |-> IF l = home[w0] THEN With(<<>>, 0, s0)
                                                  ELSE <<>>]
    /\ inactive = [l \in Locality |-> <<>>]
    /\ requested = {}
    /\ channel = [n \in Node |-> None]
    /\ isStealingDistributed = [l \in Locality |-> FALSE]
    /\ last_remote = [l \in Locality |-> l]
    /\ taskBuffer = [l \in Locality |-> <<>>]
    /\ id = [w \in Worker |-> 0]
    /\ victim = [w \in Worker |-> NoVictim(w)]
    /\ answer = [w \in Worker |-> None]

\* one_element_channel::set: into the future a thief waits on, or kept.
Send(s, response) ==
    IF \E w \in Worker : pc[w] = "await" /\ victim[w].state = s /\ answer[w] = None
    THEN /\ answer' = [w \in Worker |->
                IF pc[w] = "await" /\ victim[w].state = s /\ answer[w] = None
                THEN response ELSE answer[w]]
         /\ UNCHANGED channel
    ELSE channel' = [channel EXCEPT ![s] = response] /\ UNCHANGED answer
-----------------------------------------------------------------------------
\* Mutant: the id stays at the front of the queue.
registerThreadKeepsId(w, n) ==
    LET l == home[w] i == Head(activeIds[l])
    IN  /\ active' = [active EXCEPT ![l] = With(@, i, n)]
        /\ id' = [id EXCEPT ![w] = i]
        /\ UNCHANGED <<activeIds, inactive>>

registerThread(w, n) ==
    LET l == home[w] i == Head(activeIds[l])
    IN  /\ activeIds' = [activeIds EXCEPT ![l] = Tail(@)]
        /\ active' = [active EXCEPT ![l] = With(@, i, n)]
        /\ id' = [id EXCEPT ![w] = i]
        /\ UNCHANGED inactive

\* Mutant: a steal in progress is not cancelled.
unregisterThreadSilent(w) ==
    LET l == home[w]
    IN  /\ active' = [active EXCEPT ![l] = Without(@, id[w])]
        /\ inactive' = [inactive EXCEPT ![l] = Without(@, id[w])]
        /\ activeIds' = [activeIds EXCEPT ![l] = Append(@, id[w])]
        /\ id' = [id EXCEPT ![w] = 0]
        /\ UNCHANGED <<channel, answer>>

\* The thread is not stolen from any more; a steal in progress is cancelled.
unregisterThread(w) ==
    LET l == home[w]
    IN  /\ \/ /\ id[w] \in DOMAIN active[l]
              /\ active' = [active EXCEPT ![l] = Without(@, id[w])]
              /\ UNCHANGED <<inactive, channel, answer>>
           \/ /\ id[w] \in DOMAIN inactive[l] \ DOMAIN active[l]
              /\ Send(inactive[l][id[w]], NoSteal)
              /\ inactive' = [inactive EXCEPT ![l] = Without(@, id[w])]
              /\ UNCHANGED active
        /\ activeIds' = [activeIds EXCEPT ![l] = Append(@, id[w])]
        /\ id' = [id EXCEPT ![w] = 0]
-----------------------------------------------------------------------------
\* getLocalWork up to the await, at the manager of l: any active thread.
Request(w, l) ==
    \E i \in DOMAIN active[l] :
        LET s == active[l][i]
        IN  /\ active' = [active EXCEPT ![l] = Without(@, i)]
            /\ inactive' = [inactive EXCEPT ![l] = With(@, i, s)]
            /\ requested' = requested \cup {s}
            /\ victim' = [victim EXCEPT ![w] = [at |-> l, pos |-> i, state |-> s]]
            /\ answer' = [answer EXCEPT ![w] = channel[s]]
            /\ channel' = [channel EXCEPT ![s] = None]
            /\ Goto(w, "await")
            /\ UNCHANGED <<activeIds, id>>

\* Mutant: the victim is not made active again.
ReinsertForgets(w) ==
    LET l == victim[w].at
    IN  /\ inactive' = [inactive EXCEPT ![l] = Without(@, victim[w].pos)]
        /\ UNCHANGED active

\* The end of getLocalWork: the victim may be stolen from again, unless it is
\* the victim that has ended the steal.
Reinsert(w) ==
    LET l == victim[w].at
    IN  IF answer[w] = NoSteal THEN UNCHANGED <<active, inactive>>
        ELSE /\ active' = [active EXCEPT
                               ![l] = With(@, victim[w].pos, victim[w].state)]
             /\ inactive' = [inactive EXCEPT ![l] = Without(@, victim[w].pos)]

Stolen(w) == IF answer[w] = NoSteal THEN <<>> ELSE answer[w]

\* The rest of a stolen chunk is queued for later getWork calls.
Buffer(l, chunk) ==
    taskBuffer' = [taskBuffer EXCEPT ![l] = @ \o Tail(chunk)]
=============================================================================
