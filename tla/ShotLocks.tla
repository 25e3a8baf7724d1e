------------------------------ MODULE ShotLocks ------------------------------
(***************************************************************************)
(* The locks of one shot and the orders in which the operations of the     *)
(* harness take them: the per-process shot mutex and the POSIX record lock *)
(* that together are the selection lock, the process-wide fork barrier,    *)
(* the flock of every layer state, the ledger flock in shared and          *)
(* exclusive mode, the builder fence, and the locks of the render output,  *)
(* the materialization candidate, the plan resolutions and the payment     *)
(* attempts.                                                               *)
(*                                                                         *)
(* An operation is a program of acquisitions and releases.  Every lock is  *)
(* a context manager, so a release gives back the latest acquisition, and  *)
(* a refused try or an exception unwinds what the thread holds.            *)
(* External: the kernel's lock semantics (a record lock belongs to the     *)
(* process and any unlock drops it; a flock belongs to the open file) and  *)
(* the release of everything by the death of a process.                    *)
(***************************************************************************)
EXTENDS Naturals, Sequences, SequencesExt

CONSTANTS
    Threads,    \* threads that work on the shot
    ProcessOf,  \* the process of each thread
    LayerCount, \* layers that have a state file
    None

ASSUME LayerCountIsNatural == LayerCount \in Nat

Layers == 1 .. LayerCount

VARIABLES
    todo,    \* todo[t]: the rest of the operation, <<>> when there is none
    held,    \* held[t]: what t acquired and has not released, oldest first
    record   \* the process the kernel counts as owner of the record lock

vars == <<todo, held, record>>

Processes == {ProcessOf[t] : t \in Threads}

Named(name) == <<name, 0>>
State(l) == <<"state", l>>
Mutex == Named("mutex")
Barrier == Named("barrier")
Record == Named("record")
Ledger == Named("ledger")

------------------------------------------------------------------------------
(* Steps of an operation.                                                  *)

\* A blocking exclusive acquisition.
Take(k) == [does |-> "enter", lock |-> k, shared |-> FALSE, waits |-> TRUE]
\* A blocking shared acquisition.
Share(k) == [Take(k) EXCEPT !.shared = TRUE]
\* Non-blocking acquisitions: contention raises.
Try(k) == [Take(k) EXCEPT !.waits = FALSE]
TryShare(k) == [Share(k) EXCEPT !.waits = FALSE]
\* Release of the latest acquisition.
Leave == [does |-> "leave", lock |-> None, shared |-> FALSE, waits |-> FALSE]

Leaves(n) == [i \in 1 .. n |-> Leave]

\* with <locks>: body
Within(locks, body) == locks \o body \o Leaves(Len(locks))

\* The descriptors of a lock are opened under the fork barrier.
OpenDescriptors == Within(<<Take(Barrier)>>, <<>>)

\* Mutant of Selection: the record lock alone, which does not exclude a sibling thread.
SelectionWithoutMutex(body) == OpenDescriptors \o Within(<<Take(Record)>>, body)

\* authority_selection_lock, first entry: the shot mutex of the process, the
\* descriptors, then the record lock.
Selection(body) ==
    Within(<<Take(Mutex)>>, OpenDescriptors \o Within(<<Take(Record)>>, body))
\* authority_selection_lock, entered again by the thread that holds it.
SelectionAgain(body) == Within(<<Take(Record)>>, body)

\* ledger_lock: the descriptors, then the flock.
LedgerBy(step) == OpenDescriptors \o Within(<<step>>, <<>>)

\* Mutant of HoldLayers: a guard that takes the states from the last layer down.
HoldLayersBackwards == Selection(Within(Reverse([l \in Layers |-> Take(State(l))]), <<>>))

\* Every layer state in the order of the state paths.
AllStates(body) == Within([l \in Layers |-> Take(State(l))], body)

(* The operations.                                                         *)

\* A unit mutation or an attempt guard: selection, then the layer's state.
MutateUnit(l) == Selection(Within(<<Take(State(l))>>, <<>>))

\* commit_unit_evaluation_receipt inside an attempt guard.
CommitEvaluation(l) == Selection(Within(<<Take(State(l))>>, LedgerBy(TryShare(Ledger))))

\* The ledger save: prepared under the ledger lock alone, committed under
\* the selection with a non-blocking ledger lock.
SaveLedger == LedgerBy(Take(Ledger)) \o Selection(LedgerBy(Try(Ledger)))
\* The ledger save by a thread that holds the selection.
SaveLedgerAgain == LedgerBy(Take(Ledger)) \o SelectionAgain(LedgerBy(Try(Ledger)))

\* A layer-finalization guard or receipt read over every layer.
HoldLayers == Selection(AllStates(<<>>))

\* An authority-state transition or the recovery of one: the states
\* together, then the accepted-build index, all under the selection.
Transition == Selection(AllStates(<<>>) \o SaveLedgerAgain)

\* A materialization is published from under its candidate's lock.
PublishMaterialization == Within(<<Take(Named("candidate"))>>, Transition)

\* source_verified_completion_receipt_digests: all states, without selection.
VerifySources == AllStates(<<>>) \o AllStates(<<>>) \o AllStates(<<>>)

\* reconcile_falsification_projection: the state, entered again inside.
ProjectFinding(l) == Within(<<Take(State(l))>>, Within(<<Take(State(l))>>, <<>>))

\* Resolution of plan obligations by acceptance.
Accept == Selection(Within(<<Take(Named("resolutions"))>>, <<>>))

\* _publish_final_render.
PublishRender ==
    Within(<<Take(Named("output"))>>, Selection(AllStates(LedgerBy(Share(Ledger)))))

\* The builder's projection of a terminal receipt: payment failures inside
\* the receipt guard, then the ledger inside the writer fence.
ReconcileFinalization ==
    Within(<<Try(Named("fence"))>>,
        Selection(AllStates(Within(<<Take(Named("payments"))>>, SelectionAgain(<<>>))))
        \o Selection(SaveLedgerAgain))

\* An operator's retry of a unit or release of a finalization.
OperatorCommand(l) == Within(<<Try(Named("fence"))>>, MutateUnit(l))

Operations ==
    {SaveLedger, HoldLayers, Transition, PublishMaterialization, VerifySources,
     Accept, PublishRender, ReconcileFinalization}
        \cup UNION {{MutateUnit(l), CommitEvaluation(l), ProjectFinding(l),
                     OperatorCommand(l)} : l \in Layers}

------------------------------------------------------------------------------
Holds(t, k) == \E i \in DOMAIN held[t] : held[t][i].lock = k

\* Thread h keeps thread t from taking step s.  The mutex and the barrier
\* exist once in every process; a state lock may be entered again by its
\* thread; every other flock is of a new descriptor and conflicts with the
\* thread's own.
Blocks(h, t, s) ==
    CASE s.lock \in {Mutex, Barrier} ->
            h # t /\ ProcessOf[h] = ProcessOf[t] /\ Holds(h, s.lock)
      [] s.lock = Record ->
            ProcessOf[h] # ProcessOf[t] /\ record = ProcessOf[h] /\ Holds(h, Record)
      [] s.lock[1] = "state" -> h # t /\ Holds(h, s.lock)
      [] OTHER ->
            \E i \in DOMAIN held[h] :
                held[h][i].lock = s.lock /\ ~(held[h][i].shared /\ s.shared)

Available(t, s) == \A h \in Threads : ~Blocks(h, t, s)

\* Closing a registered descriptor goes through the fork barrier.
BarrierFree(t) == Available(t, Take(Barrier))

Begin(t) ==
    /\ todo[t] = <<>>
    /\ todo' \in {[todo EXCEPT ![t] = p] : p \in Operations}
    /\ UNCHANGED <<held, record>>

Acquire(t) ==
    /\ todo[t] # <<>>
    /\ LET s == Head(todo[t])
       IN /\ s.does = "enter"
          /\ Available(t, s)
          /\ held' = [held EXCEPT ![t] = Append(@, s)]
          /\ record' = IF s.lock = Record THEN ProcessOf[t] ELSE record
    /\ todo' = [todo EXCEPT ![t] = Tail(@)]

\* A non-blocking acquisition fails, or anything else raises: the context
\* managers unwind.
Raise(t) ==
    /\ \E i \in DOMAIN todo[t] : todo[t][i].does = "enter"
    /\ todo' = [todo EXCEPT ![t] = Leaves(Len(held[t]))]
    /\ UNCHANGED <<held, record>>

Release(t) ==
    /\ todo[t] # <<>>
    /\ Head(todo[t]).does = "leave"
    /\ LET s == Last(held[t])
           rest == Front(held[t])
           final == \A i \in DOMAIN rest : rest[i].lock # s.lock
       IN /\ final /\ s.lock \in {Record, Ledger} => BarrierFree(t)
          /\ held' = [held EXCEPT ![t] = rest]
          /\ record' = IF final /\ s.lock = Record THEN None ELSE record
    /\ todo' = [todo EXCEPT ![t] = Tail(@)]

\* The death of a process drops its kernel locks, and its threads with it.
Die(p) ==
    /\ todo' = [t \in Threads |-> IF ProcessOf[t] = p THEN <<>> ELSE todo[t]]
    /\ held' = [t \in Threads |-> IF ProcessOf[t] = p THEN <<>> ELSE held[t]]
    /\ record' = IF record = p THEN None ELSE record

Init ==
    /\ todo = [t \in Threads |-> <<>>]
    /\ held = [t \in Threads |-> <<>>]
    /\ record = None

Next ==
    \/ \E t \in Threads : Begin(t) \/ Acquire(t) \/ Raise(t) \/ Release(t)
    \/ \E p \in Processes : Die(p)

Spec == Init /\ [][Next]_vars

------------------------------------------------------------------------------
(* Properties.                                                             *)

\* At most one thread of all processes is inside the selection lock, and the
\* kernel still counts its process as the owner of the record lock: no sibling
\* thread's exit dropped it (authority_selection_lock).
SelectionExclusive ==
    \A t \in Threads :
        Holds(t, Record) =>
            /\ record = ProcessOf[t]
            /\ \A u \in Threads \ {t} : ~Holds(u, Record)

\* What a thread waits for before its next step: the lock of a blocking
\* acquisition, or the fork barrier to close a descriptor.
WaitsFor(h, t) ==
    /\ todo[t] # <<>>
    /\ LET s == Head(todo[t])
       IN \/ s.does = "enter" /\ s.waits /\ Blocks(h, t, s)
          \/ s.does = "leave" /\ Last(held[t]).lock \in {Record, Ledger}
                              /\ Blocks(h, t, Take(Barrier))

\* No set of threads waits on itself: in whatever order builders, operators,
\* publishers, renderers and readers interleave their nested acquisitions,
\* every waiting thread waits for one that can go on.
NoCircularWait ==
    \A S \in SUBSET Threads :
        S # {} => \E t \in S : \A h \in S : ~WaitsFor(h, t)

==============================================================================
