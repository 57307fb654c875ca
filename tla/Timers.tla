------------------------------- MODULE Timers -------------------------------
(***************************************************************************)
(* The timers of HolyHttp (src/server/timer.c) and the loop that sleeps    *)
(* and fires them (run_server, src/server/server.c:295-324).               *)
(*                                                                         *)
(* The red-black tree is the sequence of its in-order traversal: the tree  *)
(* (src/utils/rbtree.c, taken from Linux) only makes it fast.  Times are   *)
(* relative to now, in microseconds: what the code calls expiry - now is   *)
(* left here, so that the clock needs no bound.  Handlers take time, and   *)
(* may set and kill timers, but never kill the timer that calls them.      *)
(***************************************************************************)
EXTENDS Integers, Sequences, FiniteSets, SequencesExt

CONSTANTS
    Timer,          \* addresses of holytimer_t objects
    NULL,
    Seconds,        \* delays the callers ask for
    UsPerSecond,    \* 1000 * 1000
    UsPerMs,        \* 1000
    MinWaitMs,      \* 100, the shortest sleep of holy_get_min_timeout
    IdleWaitMs,     \* SECPERYEAR * 1000, the sleep without timers
    U32,            \* 2^32
    MaxLate         \* bound: how late the thread may be, in microseconds

ASSUME TimersAssumption ==
    /\ NULL \notin Timer
    /\ Seconds \subseteq Nat \ {0}
    /\ UsPerSecond \in Nat \ {0} /\ UsPerMs \in Nat \ {0} /\ U32 \in Nat \ {0}
    /\ MinWaitMs \in Nat /\ IdleWaitMs \in Nat /\ IdleWaitMs >= MinWaitMs
    /\ MaxLate \in Nat

VARIABLES
    timer,      \* allocated timers
    queue,      \* the tree, in order: the armed timers
    phase,      \* "asleep", "awake" (socket handlers), "pass", "handler"
    wakeIn,     \* asleep: when epoll_wait returns at the latest
    passAge,    \* how long ago the pass over the timers read the clock
    firing      \* the timer whose handler runs

vars == <<timer, queue, phase, wakeIn, passAge, firing>>

\* left is expiry - now.  due is the same without the width of u32, which the
\* program does not have: when the caller wanted the timer to fire.
TimerRec == [left : Int, due : Int, interval : Nat, seconds : Seconds,
             oneshot : BOOLEAN, armedFor : Nat]

TypeOK ==
    /\ DOMAIN timer \subseteq Timer /\ timer \in [DOMAIN timer -> TimerRec]
    /\ queue \in Seq(DOMAIN timer)
    /\ phase \in {"asleep", "awake", "pass", "handler"}
    /\ wakeIn \in Int /\ passAge \in Nat
    /\ firing \in DOMAIN timer \cup {NULL}

Init ==
    /\ timer = [t \in {} |-> NULL]
    /\ queue = <<>>
    /\ phase = "awake"
    /\ wakeIn = 0 /\ passAge = 0
    /\ firing = NULL

-----------------------------------------------------------------------------
Armed(t) == t \in ToSet(queue)

\* A faulty variant of insert_timer: a key that is already there goes left.
InsertedBefore(q, t, heap) ==
    LET earlier == {i \in DOMAIN q : heap[q[i]].left < heap[t].left}
    IN  InsertAt(q, Cardinality(earlier) + 1, t)

\* insert_timer: after every timer with the same expiry or an earlier one.
Inserted(q, t, heap) ==
    LET earlier == {i \in DOMAIN q : heap[q[i]].left <= heap[t].left}
    IN  InsertAt(q, Cardinality(earlier) + 1, t)

\* A faulty variant of the interval: one second short.
IntervalShort(seconds) == ((seconds - 1) * UsPerSecond) % U32

\* seconds * 1000 * 1000 is computed in u32, then stored in u64.
Interval(seconds) == (seconds * UsPerSecond) % U32

\* holy_set_timeout and holy_set_interval.
SetTimer(t, seconds, oneshot) ==
    /\ phase \in {"awake", "handler"}
    /\ t \notin DOMAIN timer
    /\ timer' = [u \in DOMAIN timer \cup {t} |->
                    IF u # t THEN timer[u]
                    ELSE [left |-> Interval(seconds), due |-> seconds * UsPerSecond,
                          interval |-> Interval(seconds), seconds |-> seconds,
                          oneshot |-> oneshot, armedFor |-> 0]]
    /\ queue' = Inserted(queue, t, timer')
    /\ UNCHANGED <<phase, wakeIn, passAge, firing>>

\* A faulty variant of holy_kill_timer: the timer is freed, but stays in the tree.
KillTimerFreesOnly(t) ==
    /\ phase \in {"awake", "handler"}
    /\ Armed(t)
    /\ timer' = [u \in DOMAIN timer \ {t} |-> timer[u]]
    /\ UNCHANGED <<queue, phase, wakeIn, passAge, firing>>

\* holy_kill_timer of an armed timer.
KillTimer(t) ==
    /\ phase \in {"awake", "handler"}
    /\ \E i \in DOMAIN queue : queue[i] = t /\ queue' = RemoveAt(queue, i)
    /\ timer' = [u \in DOMAIN timer \ {t} |-> timer[u]]
    /\ UNCHANGED <<phase, wakeIn, passAge, firing>>

\* A microsecond passes: in epoll_wait, in a socket's or a timer's handler.
\* Bound: the kernel wakes the thread, and handlers end, within MaxLate.
Tick ==
    /\ phase \in {"asleep", "awake", "handler"}
    /\ IF phase = "asleep"
       THEN wakeIn > -MaxLate
       ELSE \A t \in ToSet(queue) : timer[t].left > -MaxLate
    /\ passAge < MaxLate
    /\ timer' = [t \in DOMAIN timer |->
                    IF Armed(t)
                    THEN [timer[t] EXCEPT !.left = @ - 1, !.due = @ - 1,
                                          !.armedFor = @ + 1]
                    ELSE timer[t]]
    /\ wakeIn' = IF phase = "asleep" THEN wakeIn - 1 ELSE wakeIn
    /\ passAge' = IF phase = "handler" THEN passAge + 1 ELSE passAge
    /\ UNCHANGED <<queue, phase, firing>>

-----------------------------------------------------------------------------
(* The loop. *)

WaitMs(us) == LET ms == us \div UsPerMs IN IF ms > MinWaitMs THEN ms ELSE MinWaitMs

\* A faulty variant of holy_get_min_timeout: it asks the last timer.
MinTimeoutOfLast ==
    IF queue = <<>> THEN IdleWaitMs ELSE WaitMs(timer[Last(queue)].left)

\* holy_get_min_timeout, in milliseconds; any delay that the 32-bit product leaves
\* fits the int that epoll_wait takes (server.c:297).  \div is not the division of C for
\* an expiry in the past, but both give less than MinWaitMs there.
MinTimeout ==
    IF queue = <<>> THEN IdleWaitMs ELSE WaitMs(timer[Head(queue)].left)

\* epoll_wait times out, or returns earlier with an event.
WakeUp ==
    /\ phase = "asleep" /\ wakeIn <= 0
    /\ phase' = "awake"
    /\ wakeIn' = 0
    /\ UNCHANGED <<timer, queue, passAge, firing>>

WakeByEvent ==
    /\ phase = "asleep"
    /\ phase' = "awake"
    /\ wakeIn' = 0
    /\ UNCHANGED <<timer, queue, passAge, firing>>

\* The socket handlers are done; holy_explode_timers reads the clock.
BeginPass ==
    /\ phase = "awake"
    /\ phase' = "pass"
    /\ passAge' = 0
    /\ UNCHANGED <<timer, queue, wakeIn, firing>>

\* A faulty variant of the pass: it stops at a timer that is due right now.
FirstIsDueBefore == queue # <<>> /\ timer[Head(queue)].left + passAge < 0

\* The first timer is due by the clock the pass has read.
FirstIsDue == queue # <<>> /\ timer[Head(queue)].left + passAge <= 0

Fire ==
    /\ phase = "pass" /\ FirstIsDue
    /\ firing' = Head(queue)
    /\ queue' = Tail(queue)
    /\ phase' = "handler"
    /\ UNCHANGED <<timer, wakeIn, passAge>>

\* A faulty variant: an interval starts anew from when it was due.
RearmedFromExpiry(t) ==
    [timer[t] EXCEPT !.left = @ + timer[t].interval,
                     !.due = @ + timer[t].seconds * UsPerSecond, !.armedFor = 0]

\* An interval starts anew from when the pass read the clock.
Rearmed(t) ==
    [timer[t] EXCEPT !.left = timer[t].interval - passAge,
                     !.due = timer[t].seconds * UsPerSecond - passAge, !.armedFor = 0]

\* The handler returns.
Return ==
    /\ phase = "handler"
    /\ IF timer[firing].oneshot
       THEN /\ timer' = [t \in DOMAIN timer \ {firing} |-> timer[t]]
            /\ UNCHANGED queue
       ELSE /\ timer' = [timer EXCEPT ![firing] = Rearmed(firing)]
            /\ queue' = Inserted(queue, firing, timer')
    /\ firing' = NULL
    /\ phase' = "pass"
    /\ UNCHANGED <<wakeIn, passAge>>

EndPass ==
    /\ phase = "pass" /\ ~FirstIsDue
    /\ phase' = "asleep"
    /\ wakeIn' = MinTimeout * UsPerMs
    /\ passAge' = 0
    /\ UNCHANGED <<timer, queue, firing>>

-----------------------------------------------------------------------------
Callers ==
    \/ \E t \in Timer, s \in Seconds, oneshot \in BOOLEAN : SetTimer(t, s, oneshot)
    \/ \E t \in Timer : KillTimer(t)

Loop == WakeUp \/ BeginPass \/ Fire \/ Return \/ EndPass

Next == Callers \/ Tick \/ WakeByEvent \/ Loop

Spec == Init /\ [][Next]_vars

\* Time passes, however often events wake the loop, and handlers return.
FairSpec == Spec /\ WF_vars(Loop) /\ SF_vars(Tick)

-----------------------------------------------------------------------------
(* Properties. *)

\* The timer that fires is the first to be due, and of two that are due at the
\* same time the one armed earlier (timer.c:29-33, 113-120).
FiresInOrder ==
    [][\A t, u \in Timer :
          (firing # t /\ firing' = t /\ Armed(u) /\ u # t)
              => \/ timer[t].left < timer[u].left
                 \/ /\ timer[t].left = timer[u].left
                    /\ timer[t].armedFor >= timer[u].armedFor]_vars

\* The loop goes back to sleep only with no timer due at the time the pass
\* read, though its handlers armed and killed timers meanwhile (timer.c:113-128).
NothingDueLeft ==
    [][(phase = "pass" /\ phase' = "asleep")
          => \A t \in ToSet(queue) : timer[t].left + passAge > 0]_vars

\* The loop never plans to sleep past a timer, except to make up the shortest
\* sleep it allows itself (timer.c:131-146).
NeverOversleeps ==
    [][(phase = "pass" /\ phase' = "asleep")
          => \A t \in ToSet(queue) :
                wakeIn' <= timer[t].left \/ wakeIn' <= MinWaitMs * UsPerMs]_vars

\* A pass fires no timer twice, so a slow handler of an interval cannot keep
\* the loop from its sockets (timer.c:125).
NoCatchUp ==
    [][\A t \in Timer :
          (phase = "handler" /\ phase' = "pass" /\ firing = t /\ t \in DOMAIN timer')
              => timer'[t].left + passAge' > 0]_vars

\* A timer that is armed fires, unless it is killed first.
EventuallyFires == \A t \in Timer : Armed(t) ~> ~Armed(t)

\* The field of holytimer_t is "u64 interval; // us" (timer.c:8): no timer
\* fires before the seconds its caller asked for have passed.
NeverEarly == phase = "handler" => timer[firing].due <= 0

=============================================================================
