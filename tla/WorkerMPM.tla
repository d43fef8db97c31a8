----------------------------- MODULE WorkerMPM -----------------------------
(***************************************************************************)
(* A child process of the worker MPM of Apache httpd 2.0.49 (server/mpm/   *)
(* worker: worker.c, fdqueue.c, pod.c): a listener thread that accepts a   *)
(* connection when a worker is idle, the queue through which it hands it   *)
(* over, the workers, and the main thread that ends them all.              *)
(*                                                                         *)
(* A section under idlers_mutex or one_big_mutex is one step; a wait on a  *)
(* condition variable leaves it and enters it again.  Flags that are read  *)
(* or written outside of the mutexes are steps of their own.  The process  *)
(* has one listening socket, and its threads have been started.            *)
(***************************************************************************)
EXTENDS Integers, Sequences, SequencesExt, FiniteSets

CONSTANTS
    Workers,        \* ap_threads_per_child threads
    Conns,          \* bound: the connections that are open at a time
    NoConn,
    MaxWakeups,     \* bound: how often join_workers signals the listener
    SleepIsLong     \* the sleep of join_workers outlasts the way to accept()

ASSUME WorkersFinite == IsFiniteSet(Workers) /\ Workers # {}
ASSUME NoConnOutside == NoConn \notin Conns
ASSUME SleepIsLongBool == SleepIsLong \in BOOLEAN

VARIABLES
    idlers, recycled, infoTerminated,   \* fd_queue_info_t
    worker_queue, queueTerminated,      \* fd_queue_t
    terminate_mode, listener_may_exit, workers_may_exit,
    lpc,                \* the listener
    have_idle_worker,
    recycled_pool,      \* whether the listener has a pool to use again
    csd,                \* the connection it has accepted
    wpc,                \* the workers
    is_idle,
    last_ptrans,        \* whether a worker has a pool to give back
    serving,            \* the connection of a worker
    mpc, iter, sigterm, \* the main thread; sigterm: read() was interrupted
    spurious            \* a condition wait may end without a signal, as in POSIX

infoVars == <<idlers, recycled, infoTerminated>>
queueVars == <<worker_queue, queueTerminated>>
flagVars == <<terminate_mode, listener_may_exit, workers_may_exit>>
listenerVars == <<lpc, have_idle_worker, recycled_pool, csd>>
workerVars == <<wpc, is_idle, last_ptrans, serving>>
mainVars == <<mpc, iter, sigterm>>
childVars == <<infoVars, queueVars, flagVars, listenerVars, workerVars, mainVars, spurious>>

ChildInit ==
    /\ idlers = 0 /\ recycled = 0 /\ infoTerminated = FALSE
    /\ worker_queue = <<>> /\ queueTerminated = FALSE
    /\ terminate_mode = "init" /\ listener_may_exit = FALSE /\ workers_may_exit = FALSE
    /\ lpc = "top" /\ have_idle_worker = FALSE /\ recycled_pool = FALSE /\ csd = NoConn
    /\ wpc = [w \in Workers |-> "top"] /\ is_idle = [w \in Workers |-> FALSE]
    /\ last_ptrans = [w \in Workers |-> FALSE] /\ serving = [w \in Workers |-> NoConn]
    /\ mpc = "loop" /\ iter = 0 /\ sigterm = FALSE
    /\ spurious \in BOOLEAN

Become(w, l) == wpc' = [wpc EXCEPT ![w] = l]
Sleepers == {w \in Workers : wpc[w] = "asleep"}
OpenConns == Range(worker_queue) \union {csd} \union Range(serving)
-----------------------------------------------------------------------------
(***************************************************************************)
(* The listener thread.                                                    *)
(***************************************************************************)
\* signal_threads(ST_GRACEFUL), called by the listener itself.
SignalGraceful ==
    /\ terminate_mode' = "graceful"
    /\ listener_may_exit' = (listener_may_exit \/ terminate_mode # "graceful")
    /\ UNCHANGED workers_may_exit

\* check_infinite_requests: the workers decrement requests_this_child without
\* synchronization, so that it may get to zero at any time.
RequestLimit ==
    /\ lpc = "top"
    /\ SignalGraceful
    /\ UNCHANGED <<infoVars, queueVars, listenerVars, workerVars, mainVars>>

ListenerTop ==
    /\ lpc = "top"
    /\ lpc' = IF listener_may_exit THEN "term"
              ELSE IF have_idle_worker THEN "accept" ELSE "wait"
    /\ UNCHANGED <<infoVars, queueVars, flagVars, have_idle_worker, recycled_pool, csd,
                   workerVars, mainVars>>

\* ap_queue_info_wait_for_idler up to the unlock of idlers_mutex.
WaitForIdler ==
    /\ lpc \in {"wait", "woken"}
    /\ IF idlers = 0 /\ ~infoTerminated
       THEN /\ lpc' = "asleep"
            /\ UNCHANGED <<idlers, recycled, recycled_pool>>
       ELSE /\ lpc' = "idler"
            /\ idlers' = idlers - 1
            /\ recycled_pool' = (recycled > 0)
            /\ recycled' = IF recycled > 0 THEN recycled - 1 ELSE 0
    /\ UNCHANGED <<infoTerminated, queueVars, flagVars, have_idle_worker, csd,
                   workerVars, mainVars>>

\* "else if (queue_info->terminated)", after the unlock.
GotIdler ==
    /\ lpc = "idler"
    /\ lpc' = IF infoTerminated THEN "term" ELSE "accept"
    /\ have_idle_worker' = ~infoTerminated
    /\ UNCHANGED <<infoVars, queueVars, flagVars, recycled_pool, csd, workerVars, mainVars>>

\* The accept mutex is acquired and listener_may_exit is read again.
LockAccept ==
    /\ lpc = "accept"
    /\ lpc' = IF listener_may_exit THEN "term" ELSE "enter"
    /\ UNCHANGED <<infoVars, queueVars, flagVars, have_idle_worker, recycled_pool, csd,
                   workerVars, mainVars>>

\* A pool is there from here on, and accept() blocks.
EnterAccept ==
    /\ lpc = "enter"
    /\ lpc' = "blocked"
    /\ UNCHANGED <<infoVars, queueVars, flagVars, have_idle_worker, recycled_pool, csd,
                   workerVars, mainVars>>

Accept(c) ==
    /\ lpc = "blocked"
    /\ c \notin OpenConns
    /\ csd' = c
    /\ lpc' = "push"
    /\ UNCHANGED <<infoVars, queueVars, flagVars, have_idle_worker, recycled_pool,
                   workerVars, mainVars>>

\* The connection is gone before it is accepted, or APR_EGENERAL: "E[NM]FILE,
\* ENOMEM, etc".
AcceptFails ==
    /\ lpc = "blocked"
    /\ lpc' = "top"
    /\ SignalGraceful \/ UNCHANGED flagVars
    /\ UNCHANGED <<infoVars, queueVars, have_idle_worker, recycled_pool, csd,
                   workerVars, mainVars>>

\* ap_queue_push: one of the workers that wait is woken.
Push ==
    /\ lpc = "push"
    /\ worker_queue' = Append(worker_queue, csd)
    /\ \/ Sleepers = {} /\ UNCHANGED wpc
       \/ \E w \in Sleepers : Become(w, "awake")
    /\ have_idle_worker' = FALSE
    /\ csd' = NoConn
    /\ lpc' = "top"
    /\ UNCHANGED <<infoVars, queueTerminated, flagVars, recycled_pool, is_idle,
                   last_ptrans, serving, mainVars>>

\* ap_queue_term: terminated is set under the mutex,
QueueTerm ==
    /\ lpc = "term"
    /\ queueTerminated' = TRUE
    /\ lpc' = "interrupt"
    /\ UNCHANGED <<infoVars, worker_queue, flagVars, have_idle_worker, recycled_pool, csd,
                   workerVars, mainVars>>

WakeAll == wpc' = [w \in Workers |-> IF wpc[w] = "asleep" THEN "awake" ELSE wpc[w]]

\* then ap_queue_interrupt_all locks it once more.
TermInterrupt ==
    /\ lpc = "interrupt"
    /\ WakeAll
    /\ lpc' = "kill"
    /\ UNCHANGED <<infoVars, queueVars, flagVars, have_idle_worker, recycled_pool, csd,
                   is_idle, last_ptrans, serving, mainVars>>

\* "wake up the main thread": SIGTERM has a handler that does nothing.
KillMain ==
    /\ lpc = "kill"
    /\ sigterm' = (sigterm \/ mpc = "read")
    /\ lpc' = "done"
    /\ UNCHANGED <<infoVars, queueVars, flagVars, have_idle_worker, recycled_pool, csd,
                   workerVars, mpc, iter>>

Listener ==
    \/ ListenerTop \/ WaitForIdler \/ GotIdler \/ LockAccept \/ EnterAccept \/ Push
    \/ QueueTerm \/ TermInterrupt \/ KillMain
-----------------------------------------------------------------------------
(***************************************************************************)
(* The worker threads.                                                     *)
(***************************************************************************)
WorkerTop(w) ==
    /\ wpc[w] = "top"
    /\ Become(w, IF workers_may_exit THEN "done"
                 ELSE IF is_idle[w] THEN "check" ELSE "setidle")
    /\ UNCHANGED <<infoVars, queueVars, flagVars, listenerVars, is_idle, last_ptrans,
                   serving, mainVars>>

\* Mutant: the count is tested after it has been incremented.
SetIdle_SignalsAfter(w) ==
    /\ wpc[w] = "setidle"
    /\ recycled' = IF last_ptrans[w] THEN recycled + 1 ELSE recycled
    /\ idlers' = idlers + 1
    /\ lpc' = IF idlers' = 0 /\ lpc = "asleep" THEN "woken" ELSE lpc
    /\ last_ptrans' = [last_ptrans EXCEPT ![w] = FALSE]
    /\ is_idle' = [is_idle EXCEPT ![w] = TRUE]
    /\ Become(w, "check")
    /\ UNCHANGED <<infoTerminated, queueVars, flagVars, have_idle_worker, recycled_pool,
                   csd, serving, mainVars>>

\* ap_queue_info_set_idle: "Only signal if we had no idlers before."
SetIdle(w) ==
    /\ wpc[w] = "setidle"
    /\ recycled' = IF last_ptrans[w] THEN recycled + 1 ELSE recycled
    /\ idlers' = idlers + 1
    /\ lpc' = IF idlers = 0 /\ lpc = "asleep" THEN "woken" ELSE lpc
    /\ last_ptrans' = [last_ptrans EXCEPT ![w] = FALSE]
    /\ is_idle' = [is_idle EXCEPT ![w] = TRUE]
    /\ Become(w, "check")
    /\ UNCHANGED <<infoTerminated, queueVars, flagVars, have_idle_worker, recycled_pool,
                   csd, serving, mainVars>>

\* Mutant: a worker ends as soon as the queue is terminated.
CheckExit_Terminated(w) ==
    /\ wpc[w] = "check"
    /\ Become(w, IF workers_may_exit \/ queueTerminated THEN "done" ELSE "pop")
    /\ UNCHANGED <<infoVars, queueVars, flagVars, listenerVars, is_idle, last_ptrans,
                   serving, mainVars>>

\* worker_pop: the flag is read before each try.
CheckExit(w) ==
    /\ wpc[w] = "check"
    /\ Become(w, IF workers_may_exit THEN "done" ELSE "pop")
    /\ UNCHANGED <<infoVars, queueVars, flagVars, listenerVars, is_idle, last_ptrans,
                   serving, mainVars>>

\* ap_queue_pop on an empty queue: wait once, or leave the mutex with nothing.
PopNothing(w) ==
    /\ wpc[w] \in {"pop", "awake"}
    /\ worker_queue = <<>>
    /\ Become(w, IF wpc[w] = "pop" /\ ~queueTerminated THEN "asleep" ELSE "empty")
    /\ UNCHANGED <<infoVars, queueVars, flagVars, listenerVars, is_idle, last_ptrans,
                   serving, mainVars>>

\* "if (queue->terminated)", after the unlock: APR_EOF or APR_EINTR.
PopEnds(w) ==
    /\ wpc[w] = "empty"
    /\ Become(w, IF queueTerminated THEN "done" ELSE "check")
    /\ UNCHANGED <<infoVars, queueVars, flagVars, listenerVars, is_idle, last_ptrans,
                   serving, mainVars>>

\* Mutant: is_idle is not reset.
Pop_StaysIdle(w) ==
    /\ wpc[w] \in {"pop", "awake"}
    /\ worker_queue # <<>>
    /\ serving' = [serving EXCEPT ![w] = Last(worker_queue)]
    /\ worker_queue' = Front(worker_queue)
    /\ Become(w, "serve")
    /\ UNCHANGED <<infoVars, queueTerminated, flagVars, listenerVars, is_idle, last_ptrans,
                   mainVars>>

\* The newest element is taken.
Pop(w) ==
    /\ wpc[w] \in {"pop", "awake"}
    /\ worker_queue # <<>>
    /\ serving' = [serving EXCEPT ![w] = Last(worker_queue)]
    /\ worker_queue' = Front(worker_queue)
    /\ is_idle' = [is_idle EXCEPT ![w] = FALSE]
    /\ Become(w, "serve")
    /\ UNCHANGED <<infoVars, queueTerminated, flagVars, listenerVars, last_ptrans, mainVars>>

\* process_socket returns; close_worker_sockets only makes it return sooner.
Serve(w) ==
    /\ wpc[w] = "serve"
    /\ serving' = [serving EXCEPT ![w] = NoConn]
    /\ last_ptrans' = [last_ptrans EXCEPT ![w] = TRUE]
    /\ Become(w, "top")
    /\ UNCHANGED <<infoVars, queueVars, flagVars, listenerVars, is_idle, mainVars>>

Worker(w) ==
    \/ WorkerTop(w) \/ SetIdle(w) \/ CheckExit(w) \/ PopNothing(w) \/ PopEnds(w)
    \/ Pop(w) \/ Serve(w)

SpuriousWakeup ==
    /\ spurious
    /\ \/ \E w \in Sleepers : Become(w, "awake") /\ UNCHANGED lpc
       \/ lpc = "asleep" /\ lpc' = "woken" /\ UNCHANGED wpc
    /\ UNCHANGED <<infoVars, queueVars, flagVars, have_idle_worker, recycled_pool, csd,
                   is_idle, last_ptrans, serving, mainVars>>
-----------------------------------------------------------------------------
(***************************************************************************)
(* The main thread.                                                        *)
(***************************************************************************)
\* ap_mpm_pod_check: read() from the pipe of death.
PodCheck ==
    /\ mpc = "loop"
    /\ mpc' = "read"
    /\ UNCHANGED <<infoVars, queueVars, flagVars, listenerVars, workerVars, iter, sigterm>>

\* The parent has written AP_GRACEFUL or AP_RESTART.
PodMessage ==
    /\ mpc = "read"
    /\ ~sigterm
    /\ mpc' \in {"graceful", "ungraceful"}
    /\ UNCHANGED <<infoVars, queueVars, flagVars, listenerVars, workerVars, iter, sigterm>>

\* "see if termination was triggered while we slept"
PodInterrupted ==
    /\ mpc = "read"
    /\ sigterm
    /\ sigterm' = FALSE
    /\ mpc' = IF terminate_mode = "init" THEN "loop" ELSE terminate_mode
    /\ UNCHANGED <<infoVars, queueVars, flagVars, listenerVars, workerVars, iter>>

\* wakeup_listener: a signal ends accept() with EINTR, and nothing else.
WakeupListener ==
    /\ listener_may_exit' = TRUE
    /\ lpc' = IF lpc = "blocked" THEN "top" ELSE lpc

\* signal_threads, as far as wakeup_listener.
SignalThreads ==
    /\ mpc \in {"graceful", "ungraceful"}
    /\ IF terminate_mode = mpc
       THEN mpc' = "join" /\ UNCHANGED <<terminate_mode, listener_may_exit, lpc>>
       ELSE /\ terminate_mode' = mpc
            /\ WakeupListener
            /\ mpc' = IF mpc = "graceful" THEN "join" ELSE "exitflag"
    /\ UNCHANGED <<infoVars, queueVars, workers_may_exit, have_idle_worker, recycled_pool,
                   csd, workerVars, iter, sigterm>>

\* "for ungraceful termination, let the workers exit now": the flag,
WorkersMayExit ==
    /\ mpc = "exitflag"
    /\ workers_may_exit' = TRUE
    /\ mpc' = "interrupt"
    /\ UNCHANGED <<infoVars, queueVars, terminate_mode, listener_may_exit, listenerVars,
                   workerVars, iter, sigterm>>

\* ap_queue_interrupt_all,
InterruptAll ==
    /\ mpc = "interrupt"
    /\ WakeAll
    /\ mpc' = "infoterm"
    /\ UNCHANGED <<infoVars, queueVars, flagVars, listenerVars, is_idle, last_ptrans,
                   serving, iter, sigterm>>

\* and ap_queue_info_term.
QueueInfoTerm ==
    /\ mpc = "infoterm"
    /\ infoTerminated' = TRUE
    /\ lpc' = IF lpc = "asleep" THEN "woken" ELSE lpc
    /\ mpc' = "join"
    /\ UNCHANGED <<idlers, recycled, queueVars, flagVars, have_idle_worker, recycled_pool,
                   csd, workerVars, iter, sigterm>>

\* join_workers: "listener not dead yet", sleep and signal it again.
SignalAgain ==
    /\ mpc = "join"
    /\ lpc # "done"
    /\ iter < MaxWakeups
    /\ SleepIsLong => lpc # "enter"
    /\ WakeupListener
    /\ iter' = iter + 1
    /\ UNCHANGED <<infoVars, queueVars, terminate_mode, workers_may_exit, have_idle_worker,
                   recycled_pool, csd, workerVars, mpc, sigterm>>

JoinThreads ==
    /\ mpc = "join"
    /\ lpc = "done" \/ iter = MaxWakeups
    /\ \A w \in Workers : wpc[w] = "done"
    /\ mpc' = "done"
    /\ UNCHANGED <<infoVars, queueVars, flagVars, listenerVars, workerVars, iter, sigterm>>

Main ==
    \/ PodCheck \/ PodInterrupted \/ SignalThreads \/ WorkersMayExit \/ InterruptAll
    \/ QueueInfoTerm \/ SignalAgain \/ JoinThreads

ChildNext ==
    /\ \/ Listener \/ RequestLimit \/ AcceptFails
       \/ \E c \in Conns : Accept(c)
       \/ \E w \in Workers : Worker(w)
       \/ SpuriousWakeup
       \/ Main \/ PodMessage
    /\ UNCHANGED spurious

ChildSpec == ChildInit /\ [][ChildNext]_childVars

\* The threads run, and a connection that is served ends: its timeout sees to
\* that.  No client, no parent process and no spurious wakeup is obliged to come.
Fairness ==
    /\ WF_childVars(Listener /\ UNCHANGED spurious)
    /\ \A w \in Workers : WF_childVars(Worker(w) /\ UNCHANGED spurious)
    /\ WF_childVars(Main /\ UNCHANGED spurious)

FairSpec == ChildSpec /\ Fairness
-----------------------------------------------------------------------------
\* The listener has taken one of the idle workers for the next connection.
Reserved == IF have_idle_worker \/ lpc = "idler" THEN 1 ELSE 0

\* Until the count is terminated, each worker that calls itself idle is counted,
\* reserved, or has a connection waiting for it in the queue: none is counted
\* twice, and none is forgotten when another one takes its connection.
IdlersExact ==
    ~infoTerminated =>
        idlers + Reserved + Len(worker_queue) = Cardinality({w \in Workers : is_idle[w]})

\* worker.c: "We get APR_EOF during a graceful shutdown once all the connections
\* accepted by this server process have been handled."  The workers do not all
\* end with a connection in the queue, unless they were told to.  This is so only
\* where condition waits end by a signal, see the README.
AllHandled ==
    (\A w \in Workers : wpc[w] = "done") /\ ~workers_may_exit /\ ~spurious => worker_queue = <<>>

\* No wakeup is lost: while the process runs, a listener that waits for an idle
\* worker gets one, or ends, though it is signalled only by the worker that finds
\* a count of zero; and once the main thread has been told to end the process,
\* all threads end, whatever they are waiting for.
NobodyStuck ==
    /\ lpc \in {"wait", "asleep"} ~> lpc \in {"blocked", "done"}
    /\ mpc \in {"graceful", "ungraceful"} ~> mpc = "done"
=============================================================================
