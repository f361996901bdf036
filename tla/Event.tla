------------------------------- MODULE Event -------------------------------
(***************************************************************************)
(* love::event::Event (modules/event/Event.cpp): the event queue shared by *)
(* the main thread and worker threads, and the modal-draw callbacks.       *)
(*                                                                         *)
(* Messages are love::Objects.  A thread creates one (one reference),      *)
(* pushes it (push retains it under the mutex, at the back or the front of *)
(* the deque) and drops its own reference.  The main thread polls: poll    *)
(* hands the queue's reference to the caller, who releases it once the     *)
(* message is handled; clear releases every queued message.  Each of push, *)
(* poll and clear holds the mutex for its whole body and is one step.      *)
(*                                                                         *)
(* A ModalDrawData is a draw callback, a cleanup callback and a context;   *)
(* installing one cleans up the context of the one it replaces, and the    *)
(* destructor cleans up both installed ones.                               *)
(***************************************************************************)
EXTENDS Naturals, Sequences, FiniteSets

CONSTANTS
    Msgs,     \* Message objects, each created at most once
    Threads,  \* threads that push events (the main thread among them)
    Ctxs,     \* modal-draw contexts, each handed to Event at most once
    None      \* nullptr

VARIABLES
    rc,        \* reference count of each Message (0: not created or destroyed)
    queue,     \* the std::deque, front first
    held,      \* the Message a pushing thread still holds a reference to
    polled,    \* the Message poll() handed to the main thread
    stamp,     \* ghost: when each Message was pushed (0: not yet)
    atFront,   \* ghost: the Messages pushed with pushFront
    modal,     \* modalDrawData
    dflt,      \* defaultModalDrawData
    cleanups,  \* ghost: how often each context's cleanup has run
    deferred,  \* what a draw left behind: "none", "return" or "exception"
    alive      \* the Event module has not been destroyed

vars == <<rc, queue, held, polled, stamp, atFront, modal, dflt, cleanups, deferred, alive>>

NoData == [ctx |-> None, cleanup |-> FALSE, draw |-> FALSE]

\* Data a caller may install: a new context, with or without callbacks.
FreshData ==
    [ctx : {c \in Ctxs : cleanups[c] = 0 /\ c \notin {modal.ctx, dflt.ctx}},
     cleanup : BOOLEAN, draw : BOOLEAN]

Pushes == Cardinality({m \in Msgs : stamp[m] > 0})

TypeOK ==
    /\ rc \in [Msgs -> 0..(Cardinality(Threads) + 2)]
    /\ queue \in Seq(Msgs)
    /\ held \in [Threads -> Msgs \cup {None}]
    /\ polled \in Msgs \cup {None}
    /\ stamp \in [Msgs -> 0..Cardinality(Msgs)]
    /\ atFront \subseteq Msgs
    /\ {modal, dflt} \subseteq [ctx : Ctxs \cup {None}, cleanup : BOOLEAN, draw : BOOLEAN]
    /\ cleanups \in [Ctxs -> Nat]
    /\ deferred \in {"none", "return", "exception"}
    /\ alive \in BOOLEAN

-----------------------------------------------------------------------------
\* Event::Event: an empty queue and no modal-draw data.
Init ==
    /\ rc = [m \in Msgs |-> 0]
    /\ queue = <<>>
    /\ held = [t \in Threads |-> None]
    /\ polled = None
    /\ stamp = [m \in Msgs |-> 0]
    /\ atFront = {}
    /\ modal = NoData
    /\ dflt = NoData
    /\ cleanups = [c \in Ctxs |-> 0]
    /\ deferred = "none"
    /\ alive = TRUE

\* Message::Message: thread t creates m and holds its one reference.
NewMessage(t, m) ==
    /\ held[t] = None
    /\ rc[m] = 0 /\ stamp[m] = 0
    /\ rc' = [rc EXCEPT ![m] = 1]
    /\ held' = [held EXCEPT ![t] = m]
    /\ UNCHANGED <<queue, polled, stamp, atFront, modal, dflt, cleanups, deferred, alive>>

(* Mutant of Push: the queue takes the caller's reference over instead of *)
(* retaining its own.                                                      *)
PushNoRetain(t, pushFront) ==
    LET m == held[t] IN
    /\ alive
    /\ m # None /\ stamp[m] = 0
    /\ queue' = IF pushFront THEN <<m>> \o queue ELSE Append(queue, m)
    /\ stamp' = [stamp EXCEPT ![m] = Pushes + 1]
    /\ atFront' = IF pushFront THEN atFront \cup {m} ELSE atFront
    /\ UNCHANGED <<rc, held, polled, modal, dflt, cleanups, deferred, alive>>

(* Mutant of Push: the pushFront test inverted.                            *)
PushInverted(t, pushFront) ==
    LET m == held[t] IN
    /\ alive
    /\ m # None /\ stamp[m] = 0
    /\ rc' = [rc EXCEPT ![m] = @ + 1]
    /\ queue' = IF pushFront THEN Append(queue, m) ELSE <<m>> \o queue
    /\ stamp' = [stamp EXCEPT ![m] = Pushes + 1]
    /\ atFront' = IF pushFront THEN atFront \cup {m} ELSE atFront
    /\ UNCHANGED <<held, polled, modal, dflt, cleanups, deferred, alive>>

(* Event::push(msg, pushFront): retain the message and put it at the front *)
(* or the back of the deque, all under the mutex.                          *)
Push(t, pushFront) ==
    LET m == held[t] IN
    /\ alive
    /\ m # None /\ stamp[m] = 0
    /\ rc' = [rc EXCEPT ![m] = @ + 1]
    /\ queue' = IF pushFront THEN <<m>> \o queue ELSE Append(queue, m)
    /\ stamp' = [stamp EXCEPT ![m] = Pushes + 1]
    /\ atFront' = IF pushFront THEN atFront \cup {m} ELSE atFront
    /\ UNCHANGED <<held, polled, modal, dflt, cleanups, deferred, alive>>

\* The pushing thread drops its own reference (msg->release()).
ReleaseHeld(t) ==
    /\ held[t] # None
    /\ rc' = [rc EXCEPT ![held[t]] = @ - 1]
    /\ held' = [held EXCEPT ![t] = None]
    /\ UNCHANGED <<queue, polled, stamp, atFront, modal, dflt, cleanups, deferred, alive>>

\* Mutant of Poll: the front message is handed out but not popped.
PollNoPop ==
    /\ alive
    /\ polled = None
    /\ queue # <<>>
    /\ polled' = Head(queue)
    /\ UNCHANGED <<rc, queue, held, stamp, atFront, modal, dflt, cleanups, deferred, alive>>

(* Event::poll: under the mutex, take the front message and hand its      *)
(* reference to the caller.  On an empty queue it returns false and       *)
(* changes nothing.                                                        *)
Poll ==
    /\ alive
    /\ polled = None
    /\ queue # <<>>
    /\ polled' = Head(queue)
    /\ queue' = Tail(queue)
    /\ UNCHANGED <<rc, held, stamp, atFront, modal, dflt, cleanups, deferred, alive>>

\* The caller of poll releases the message once it has handled it.
Handled ==
    /\ polled # None
    /\ rc' = [rc EXCEPT ![polled] = @ - 1]
    /\ polled' = None
    /\ UNCHANGED <<queue, held, stamp, atFront, modal, dflt, cleanups, deferred, alive>>

\* Mutant of Clear: the messages are popped but not released.
ClearNoRelease ==
    /\ alive
    /\ queue # <<>>
    /\ queue' = <<>>
    /\ UNCHANGED <<rc, held, polled, stamp, atFront, modal, dflt, cleanups, deferred, alive>>

\* Event::clear: under the mutex, release and pop every queued message.
Clear ==
    /\ alive
    /\ queue # <<>>
    /\ rc' = [m \in Msgs |-> IF \E i \in DOMAIN queue : queue[i] = m THEN rc[m] - 1 ELSE rc[m]]
    /\ queue' = <<>>
    /\ UNCHANGED <<held, polled, stamp, atFront, modal, dflt, cleanups, deferred, alive>>

\* Running the cleanup callback of installed data, if it has one.
CleanUp(cl, d) == IF d.cleanup THEN [cl EXCEPT ![d.ctx] = @ + 1] ELSE cl

(* Mutant of SetModalDrawData: the new data is installed before the       *)
(* installed data's cleanup runs, which then cleans up the new context.    *)
SetModalDrawDataLate(d) ==
    /\ alive
    /\ cleanups' = CleanUp(cleanups, d)
    /\ modal' = d
    /\ UNCHANGED <<rc, queue, held, polled, stamp, atFront, dflt, deferred, alive>>

(* Event::setModalDrawData: clean up the installed data's context, then   *)
(* install the new data.                                                   *)
SetModalDrawData(d) ==
    /\ alive
    /\ cleanups' = CleanUp(cleanups, modal)
    /\ modal' = d
    /\ UNCHANGED <<rc, queue, held, polled, stamp, atFront, dflt, deferred, alive>>

\* Event::setDefaultModalDrawData: the same for the default data.
SetDefaultModalDrawData(d) ==
    /\ alive
    /\ cleanups' = CleanUp(cleanups, dflt)
    /\ dflt' = d
    /\ UNCHANGED <<rc, queue, held, polled, stamp, atFront, modal, deferred, alive>>

(* Event::modalDraw: skipped while an earlier draw's exception or return  *)
(* value is unprocessed; otherwise the modal draw callback, else the      *)
(* default one, runs, and may return a value or throw.                     *)
ModalDraw ==
    /\ alive
    /\ deferred = "none"
    /\ modal.draw \/ dflt.draw
    /\ \E out \in {"none", "return", "exception"} : deferred' = out
    /\ UNCHANGED <<rc, queue, held, polled, stamp, atFront, modal, dflt, cleanups, alive>>

\* Event::~Event: clean up both installed contexts.
Destroy ==
    /\ alive
    /\ cleanups' = CleanUp(CleanUp(cleanups, modal), dflt)
    /\ alive' = FALSE
    /\ UNCHANGED <<rc, queue, held, polled, stamp, atFront, modal, dflt, deferred>>

Next ==
    \/ \E t \in Threads, m \in Msgs : NewMessage(t, m)
    \/ \E t \in Threads, f \in BOOLEAN : Push(t, f)
    \/ \E t \in Threads : ReleaseHeld(t)
    \/ Poll \/ Handled \/ Clear \/ ModalDraw \/ Destroy
    \/ \E d \in FreshData : SetModalDrawData(d) \/ SetDefaultModalDrawData(d)

(* The main loop polls and handles events every frame, and a thread that  *)
(* pushed an event goes on to drop its reference.                          *)
Fairness ==
    /\ WF_vars(Poll) /\ WF_vars(Handled)
    /\ \A t \in Threads : WF_vars(ReleaseHeld(t))

Spec == Init /\ [][Next]_vars /\ Fairness

-----------------------------------------------------------------------------
(* Properties.                                                             *)

\* Whoever holds a reference to a Message: the thread that made it, the
\* queue, and the main thread between poll and release.
Holders(m) ==
    (IF \E t \in Threads : held[t] = m THEN 1 ELSE 0)
    + Cardinality({i \in DOMAIN queue : queue[i] = m})
    + (IF polled = m THEN 1 ELSE 0)

(* The retain in push, the hand-over in poll and the release in clear keep *)
(* each Message's count equal to its holders, whatever order the threads  *)
(* ran in: no message is destroyed while queued or being handled, and none *)
(* outlives its last holder.                                               *)
MsgRefCountIsHolders == \A m \in Msgs : rc[m] = Holders(m)

(* The deque's order: messages pushed with pushFront come first, newest   *)
(* first, then the ones pushed at the back, oldest first; so the main      *)
(* thread polls back-pushed events of every thread in the order they were  *)
(* pushed, however pushes, polls and clears interleave.                    *)
DequeShape ==
    \A i, j \in DOMAIN queue :
        i < j =>
            LET a == queue[i]  b == queue[j] IN
            \/ a \in atFront /\ b \notin atFront
            \/ a \in atFront /\ b \in atFront /\ stamp[a] > stamp[b]
            \/ a \notin atFront /\ b \notin atFront /\ stamp[a] < stamp[b]

(* A context handed over with a cleanup callback is cleaned up at most    *)
(* once, never while it is installed (a draw could still use it), and     *)
(* exactly once by the time the Event is destroyed.                        *)
ModalContextOwnership ==
    \A c \in Ctxs :
        /\ cleanups[c] <= 1
        /\ (alive /\ c \in {modal.ctx, dflt.ctx}) => cleanups[c] = 0
        /\ (~alive /\ \E d \in {modal, dflt} : d.ctx = c /\ d.cleanup) => cleanups[c] = 1

(* Every Message created is eventually destroyed while the Event lives:    *)
(* the queue never keeps a reference that no poll or clear will drop.      *)
MessageEventuallyFreed == \A m \in Msgs : rc[m] > 0 ~> (rc[m] = 0 \/ ~alive)

=============================================================================
