------------------------------- MODULE IOGate -------------------------------
(***************************************************************************)
(* The byte-weighted gate of internal/xio: Weighted over the semaphore of  *)
(* golang.org/x/sync.  A client asks for n bytes; the request is clamped   *)
(* to the whole budget, is granted at once when it fits and nobody waits,  *)
(* and otherwise joins a FIFO queue that it leaves when granted or when    *)
(* its context is done.                                                    *)
(***************************************************************************)
EXTENDS Integers, Sequences

CONSTANTS Client,  \* the workers
          Budget   \* --io-budget, in the unit sizes are counted in

VARIABLES inUse,   \* the semaphore's cur
          held,    \* per client: what its release function gives back
          queue    \* the semaphore's waiters, each a client and its request

gateVars == <<inUse, held, queue>>

GateInit ==
    /\ inUse = 0
    /\ held = [c \in Client |-> 0]
    /\ queue = <<>>

Clamp_none(n) == n

\* Never request more than exists.
Clamp(n) == IF n > Budget THEN Budget ELSE n

Waiting(c) == \E i \in DOMAIN queue : queue[i][1] = c

\* Acquire, when it need not wait.
GateAcquire(c, n) ==
    /\ queue = <<>> /\ inUse + Clamp(n) <= Budget
    /\ inUse' = inUse + Clamp(n)
    /\ held' = [held EXCEPT ![c] = Clamp(n)]
    /\ UNCHANGED queue

\* Acquire, when it must.
GateEnqueue(c, n) ==
    /\ queue # <<>> \/ inUse + Clamp(n) > Budget
    /\ queue' = Append(queue, <<c, Clamp(n)>>)
    /\ UNCHANGED <<inUse, held>>

\* The semaphore wakes the head of the queue, and nobody else, once it fits.
GateWake(c) ==
    /\ queue # <<>> /\ Head(queue)[1] = c
    /\ inUse + Head(queue)[2] <= Budget
    /\ inUse' = inUse + Head(queue)[2]
    /\ held' = [held EXCEPT ![c] = Head(queue)[2]]
    /\ queue' = Tail(queue)

\* The context is done while c waits: it leaves the queue with an error.
GateAbandon(c) ==
    /\ Waiting(c)
    /\ queue' = SelectSeq(queue, LAMBDA e : e[1] # c)
    /\ UNCHANGED <<inUse, held>>

\* The release function; running it a second time gives back nothing.
GateRelease(c) ==
    /\ inUse' = inUse - held[c]
    /\ held' = [held EXCEPT ![c] = 0]
    /\ UNCHANGED queue
=============================================================================
