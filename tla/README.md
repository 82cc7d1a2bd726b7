# SpiffWorkflow in TLA+

SpiffWorkflow executes workflows: nets of task specifications that branch, merge, loop
and wait. A running workflow is a *tree of tasks*, and most of what can go wrong in it
goes wrong between two branches of that tree: a join that fires twice or never, a branch
that is cancelled although it carries the token, a task that waits for something that
nobody will do. This directory holds TLA+ models of the core engine, of the BPMN engine
on top of it, of the BPMN parser and of what is written to documents and read back; the
TLC configurations that check them on small instances; and proofs by TLAPS about every
instance.

Paths below are relative to `src/SpiffWorkflow/`.

## 1. Inventory

### The core library

| Part | State | Operations | Correct when |
|---|---|---|---|
| **WorkflowSpec, TaskSpec** `specs/base.py`, `specs/WorkflowSpec.py` | the net: specs, inputs, outputs, parameters; fixed while a workflow runs | `connect`, `test`, `validate` | the engine's assumptions about a net are what `test()` checks |
| **Task** `task.py`, `util/task.py` | id, parent, children, state, spec, thread | `_add_child`, `_sync_children`, `_drop_children`, `_set_state`, `cancel`, `complete`, `error`, `run`, `reset_branch` | the tree stays a tree; states go forward; definite tasks do not hang below predicted ones |
| **Workflow** `workflow.py` | tasks, `last_task`, `locks`, `success`, `completed_event` | `__init__`, `run_next`, `run_all`, `run_task_from_id`, `update_waiting_tasks`, `cancel`, `reset_from_task_id`, `_task_completed_notify` | nothing is left waiting for ever; completion is signalled once; cancel is final |
| **Join** `specs/Join.py` | none of its own: decides from the tree | `_update_hook`, `_start`, `_do_join` | of its instances in a thread one stands, with enough inputs, and it survives |
| **MultiChoice, ExclusiveChoice** | `choice` (spec level) | `_predict_hook`, `_run_hook` | exactly the chosen outputs remain |
| **MultiInstance, ThreadSplit, ThreadStart** | `thread_id_pool` (class level) | `_predict_hook`, `_run_hook` | as many branches as `times` says; threads do not mix |
| **Gate, AcquireMutex, ReleaseMutex** | `Workflow.locks` | `_update_hook`, `_run_hook` | a gate waits; a section is exclusive |
| **Cancel, CancelTask, Execute, Transform** | the external process | `_update_hook`, `_run_hook` | what is cancelled cannot run any more; a failure does not damage the rest |
| **Serializers** `serializer/` | documents: dictionary, JSON, XML | save and load a spec, save and load a workflow | a loaded spec makes the same choices; a loaded workflow goes on |
| **Trigger, Choose, SubWorkflow, ThreadMerge** | partly in the spec, which workflows share | `_run_hook`, `_on_trigger` | - |

The parts call each other synchronously: `Task.run` calls the run hook of the spec,
then `Task.complete`, which updates every child (`TaskSpec._on_complete`), which
predicts and updates further tasks and may fire joins and cancel branches, and in the
end `Workflow._task_completed_notify` updates *every* waiting task of the workflow. So
a single call of `run()` is a long walk through a tree that changes under its feet,
with lists that were computed before the change. The engine has no threads of its own
(the locks in `util/compat.py` and `util/event.py` are used without blocking); its
concurrency is that of the branches of the workflow, whose tasks may be run in any
order, and the failures are exceptions in task code, cancellations, resets, and saving
and loading between any two calls.

### BPMN

| Part | State | Operations | Correct when |
|---|---|---|---|
| **BpmnWorkflow** `bpmn/workflow.py`, `bpmn/util/` | the map of subprocesses, `bpmn_events`, `correlations` | `do_engine_steps`, `refresh_waiting_tasks`, `catch`, `send_event`, `get_events`, `reset_from_task_id`, `cancel`, `delete_subprocess` | a subprocess in progress has a task that waits for it and is told; no event is lost |
| **Control tasks, gateways** `bpmn/specs/control.py`, `bpmn/specs/mixins/` | decide from the tree and the net | split and join of boundary and start events, end join, parallel, inclusive, exclusive, event gateway | of a task and its interrupting event one goes on; gateways wait for what is on its way |
| **Events** `event_definitions/`, `mixins/events/` | `event_fired`, `event_value`, `seen_events` in a task | `catch`, `catches`, `throw`, `has_fired`, `reset`, `timer_value` | delivered to the right conversation, once; timers and other events exclude each other |
| **Loops** `mixins/multiinstance_task.py` | `merged`, the collection, the key or index maps | `_update_hook`, `process_children`, `create_child`, `merge_child` | every item is run and every result taken over once |
| **Parser** `bpmn/parser/` | process parsers, data stores, dependencies, the specs made so far | `add_bpmn_*`, `get_spec`, `get_subprocess_specs`, `find_all_specs`, `get_collaboration` | the spec is the graph of the diagram, whatever cycles it has and in whatever order it is parsed |
| **Serializer, migrations** `bpmn/serializer/` | documents | `to_dict`, `from_dict`, `migrate` | a loaded spec is the one that was saved |
| **Script engine, data, services** `bpmn/script_engine/`, `data_spec.py` | the data of tasks | - | - |

DMN (`dmn/`) is decision tables over data; the Camunda and Spiff extensions add
attributes to BPMN elements. They have no control of their own.

`PROJECT.json` lists every component with its status, and the hazards of this code at
the lines where they bite.

## 2. The modules

```
 core engine                      BPMN engine             parser               documents, loops

 WorkflowSpec   TaskTree ------>  BpmnProcess             BpmnDiagram          SpecSerializer
        \       /                     |                       |                     |
          Join                    BpmnControl             BpmnParser           MCDocuments
           |                          |                       |
        Workflow                  BpmnEngine              SpecConverter        LoopContract
           |                          |                       |                     | (refined by)
  WorkflowProperties              BpmnProperties          ParserProperties     MultiInstance
      |         |                     |                       |                     |
  MCWorkflow  Restart               MCBpmn                MCParsing              MCLoops
                |
             MCRestart
```

The proofs are in modules of their own, each of which extends those before it:

```
 WorkflowProperties + Restart                                 SpecSerializer -> SerializerProofs
     WorkflowProofs     operations on trees, types, Cancel    MultiInstance  -> LoopProofs
                                                              ParserProperties -> ParserProofs
     ReachProofs        what has been reached; restarts
     ThreadProofs       threads
     CallProofs         completion, joins, calls in progress
     JoinProofs         behind what has failed; what joins wait for and leave behind
```

No module that a theorem is about declares a `RECURSIVE` operator: recursive methods
are given in closed form or as recursive functions there. The BPMN engine is different:
its methods call each other in circles, and it is for TLC only.

### WorkflowSpec

A net is the constant `Net`, a function from spec names to records; the class of the
Python object is the field `kind`, its parameters the other fields. `Wired` fills in
the inputs as `connect()` does. `NetAssumption` is what the `test()` methods insist on
and `connect()` and `connect_if()` do (what an ExclusiveChoice chooses is among its
outputs), and two restrictions: no spec is connected twice to another one, and the
`times` of a ThreadSplit are a constant (with an attribute that is not set yet its
prediction raises). `NoLoopsIn` is what `WorkflowSpec.validate` reports: a join from
which connections lead back to it. Nothing in the model needs it; three theorems do, and
`NoLoopsAssumption` of `MCWorkflow` says that it holds of the nets of the runs.

### TaskTree

A task is identified by its path: the root is `<<>>`, the n-th child ever created under
`p` is `Append(p, n)`. That makes `is_descendant_of` a prefix test and the order of a
depth-first iterator the lexicographic order of paths, and a path, like a uuid, is
never used again (`born` counts the children ever created). The recursive methods of
`Task` are in closed form: `CancelBranch` says which tasks the recursion of
`Task.cancel` reaches, `DropChildren` what `_drop_children` removes, `SyncChildren`
which children `_sync_children` keeps, removes and adds. Both engines are built on it.

### Join

The side-effect free part of `specs/Join.py`: which tasks or branches are counted
(`CompletedInputs`, `CompleteBranches`), `MayFire`, which tasks a cancelling join
cancels (`WaitingTasks`), and which other instances it cancels when it fires
(`OtherInstances`, `DoJoin`).

### Workflow

| Variable | Code |
|---|---|
| `tasks` | `Workflow.tasks` and the attributes of `Task` |
| `calls` | the Python call stack, as far as it has something left to do |
| `locks` | the locked ones of `Workflow.locks` |
| `threads` | `Task.thread_id_pool` |
| `last`, `success` | `Workflow.last_task`, `Workflow.success` |
| `completions` | how often `completed_event` was called (it has a subscriber) |
| `resets`, `cancels`, `faults` | counters that bound the environment |

Between two public calls `calls = <<>>`. A public call pushes frames; every other action
works on the topmost frame. Frames carry the *snapshot lists* of the code's loops.

| Frame / action | Code |
|---|---|
| `Predict` | one task of `TaskSpec._predict`, hook included |
| `UpdateSimple`, `UpdateFails`, `UpdateExecute`, `UpdateGate`, `UpdateAcquire`, `UpdateJoin` | `_update_hook` of each class, with `_ready` or WAITING |
| `CancelNext` | `task.cancel()` in the loop of a cancelling join or of CancelTask |
| `JoinFires` | `Join._do_join` and `_ready` |
| `CompleteTask`, `ChildrenNext`, `VisitNext`, `Finish` | `Task.complete`, `_on_complete`, `update_waiting_tasks`, the rest of `_task_completed_notify` |
| `RunSimple` ... `RunCancelTask`, `RunFails` | `Task.run` with the run hook of each class |
| `UpdateWaitingTasks` | the public method, and `run_next` without a READY task |
| `Cancel`, `ResetFromTaskId` | the public methods |
| `Init` | the constructor (its prediction runs as the first call) |

*Any* READY task may be run next: `run_task_from_id` allows it, and the order of
`run_next` is one of these orders. Data are abstracted to what they decide: any
condition may match, `times` has any of its values, a fallible task may fail. Any task may be reset, whatever its
state and that of the tasks before it, and `update_waiting_tasks` may be called at any time.
Many properties and theorems need more of the application, see `OrderlySpec` in section 4. An
exception unwinds the whole stack (`Raise`) and leaves the tree as it is, with the
running task in ERROR.

A removed task may still be on the list of `update_waiting_tasks` or of tasks to
cancel; there it has no effect on the tree. (The code would update a removed WAITING
task; that takes a join inside a loop, which `WorkflowSpec.validate` reports.) Any
other action on a removed task is disabled, and `PendingLive` says that this never
happens.

### Restart

Adds to `Workflow` the crash and restart: between any two calls the workflow may be
saved and loaded in a new process, as a dictionary (`DictRestart`; JSON is the same) or
as XML (`XmlRestart`). `LoadedTree` and `Reload` are what the documents hold: the tree
with its states, but neither mutexes nor thread ids nor, as it turns out, `last_task`.
A workflow that has a `last_task` cannot be loaded from XML at all (section 5).

### BpmnProcess, BpmnControl, BpmnEngine

The BPMN engine uses the same tree operations, but a public call is *one* step: what an
application can see are the states between calls, and a call is a function of the state
and the arguments. A state of the engine is a record `S`: `wfs` (the tree of each
workflow), `subs` (the subprocesses in the order of creation), `order` (which finished
predecessors of a gateway came when: the comparison of `last_state_change`), `fired`,
`seen`, `due`, `ticks` (the state of events and timers), `corr` (correlations),
`queue` (`bpmn_events`), `last`, `result`, and `raised`. Each method is an operator
from one such record to the next; those that call each other in circles go through
`Call`. An exception sets `raised` and skips what is left.

* `BpmnProcess`: the nets of all processes, event definitions, and looking for tasks
  (`Found`, `Catchers`, `ActiveSubs`) in the order of the iterators.
* `BpmnControl`: cancellation through subprocesses, prediction, and the decisions of
  parallel, inclusive and event gateways, of the boundary event join, the start event
  join and the join at the end of a process, with the instances that lose (`Losers`).
* `BpmnEngine`: delivering events (`DoCatch`, `Collaborate`, `CatchBy`, `Keep`),
  throwing (`Throw`), timers and cycles (`DoCatchHook`, `DoStartCycle`), `DoUpdate`, `DoRun`,
  `DoComplete`, resets across subprocesses (`DoReset`), `DoRefresh` and
  `DoEngineSteps`. An iterator over the tasks may hold a WAITING task that an update has
  removed meanwhile: it is updated as it was (`UpdateRemoved`). The actions (`Serve`, with a disjunct for each public method;
  `GetEvents`; `CancelWorkflow`) are what an application may call; `TimerAny` lets the
  moment of a timer pass.

Task data are reduced to `choice`: which conditions of gateways hold, and the value of
the correlation key; it is chosen anew with each user task.

### LoopContract, MultiInstance

`LoopContract` is the abstract specification: instances are handed out, come to an end,
and are taken over, once and for all; a loop that closes has nothing outstanding and has
overlooked nothing. `MultiInstance` is the code: one loop task of any kind (standard,
sequential, parallel; cardinality, list, map or set as input; six kinds of output), its
instances, `merged`, and the collection. The refinement mapping (`Contract`) reads
`given`, `done` and `taken` off the states of the children and `merged`. `create_child` adds
an instance before it finds that the input or output item exists already, and raises
(`CreationFails`): a parallel loop has then one instance and never gets the others
(`CutShort`); a sequential one goes on at the next refresh and raises again with each
instance, as does one whose merged data hold the input item.

### BpmnDiagram, BpmnParser, SpecConverter

`BpmnDiagram` is what the parser reads (flow nodes, processes, files) and makes (task
specs with named roles: an element's own spec, the split and join of its boundary events,
the spec of the instances of a loop). `BpmnParser` is the depth-first parse as a stack of
frames, one action per stage of `parse_node`: `EnterNode` (`create_task` up to its
exceptions, a missing script among them, registering an embedded subprocess, noting correlation keys), `Look` (one
round of the search for a data object), `Create`, `Wrap` (loop and boundary split),
`Attach`, `Follow`, `Connect`; and of the calls that return specs: `GetSubprocess`,
`ParseAll`, `Participant`. An exception unwinds the stack and leaves the specs as they
are. `AddFile` may happen between any two calls. `SpecConverter` saves and loads any
spec that a call has returned, attribute by attribute.

### SpecSerializer

The attributes and conditions of every core task spec through dictionary, JSON and XML,
round trip after round trip. Values are pairs of a type and a text, because that is what
the formats confuse; conditions and assignments are evaluated as `operators.py` does.
`IsTaskSpec` is what the constructors can build (which types an attribute may have, what
an assignment needs), the assumption under which the documents are proved about.

## 3. What TLC checks

| Run | Instance | Shows |
|---|---|---|
| `Patterns` | one of seven nets: a 2-out-of-3 unstructured join whose late branch may turn away; nested splits with a structured join; one that cancels the rest; an unstructured one that cancels what is late; two threads with a join each; one to three instances of a critical section; gate, loop, external process and explicit termination | of the firings of a join one stands in each thread and for each split (`OneFiringStands`), with enough different inputs (`JoinHasInputs`), on an instance that survives (`FiringJoinSurvives`); joins lose no branch (`JoinNotLost`) and leave nothing behind (`JoinEndsRegion`); what is FUTURE will be reached (`FutureIsReached`), what is reached is visible to iterators and all before it is completed (`DefiniteReachable`), and no state is forced back (`StatesGoForward`); no call in progress works on a removed task (`PendingLive`); threads do not mix (`ThreadsSeparate`) and sections exclude each other (`MutexProtects`); when nothing can be run, nothing is left over (`NotStuck`); the workflow comes to its end under fairness (`Termination`) and says so once and not too early (`CompletionSignalled`) |
| `Recovery` | a parallel net with a choice, a failing task and a failing transformation, with one reset of any task, one cancel, and any number of restarts at any moment | `TreeClosed`, `CancelIsFinal` |
| `Processes` | one of four: a subprocess that may throw an error, with an interrupting error event and a cycle timer attached, whose tasks are run one by one; a transaction that is cancelled or terminated from inside, then an event gateway; inclusive and parallel gateways; two processes in a conversation. Events, `send_event`, timers, resets and cancels from outside | `InterruptExclusive`, `NoEventLeft`, `SubHasOwner`, `NothingRaised`, `OwnersNotified`, `JoinedOnce`, `InclusiveWaits`, `CompletedIsQuiet`, `CancelledStays`, `NeverStuck`, `OneConversation`, `EventKept` |
| `Loops` | every kind of loop with up to three instances, whose creation may raise | `ContractKept` (the refinement), `AllItemsRun`, `OutputFaithful`, `LoopEnds` |
| `Parsing` | 1080 small diagrams (every way of leading flows among a task with a boundary event and a gateway, cycles included), an application of three files with every kind of element, processes with one fault each, one that cannot start | `SpecFollowsDiagram`, also for the spec that was saved and loaded; `ServedComplete` |
| `Documents` | a task spec of every kind with every sort of attribute, condition and assignment, three round trips in any formats | `ConditionsKept`, `AttributesKept`, `LossHappensOnce` |

Runs that find a disagreement between the code and what it says of itself:

| Run | What the code says | What it does |
|---|---|---|
| `FiresTwice` | `specs/Join.py:84` when the threshold is reached "the task fires but still expects all other branches to complete" | A branch that comes to the join later, on an instance that was not foreseen when it fired, makes it fire again (`JoinFiresOnce`), which also takes the first firing back (`Join.py:251`). |
| `LostLocks` | `specs/AcquireMutex.py:27` a mutex is "protecting a section of the workflow" | No serializer writes `Workflow.locks`: after a restart a second task enters the section. |
| `EarlyEvent` | `bpmn/workflow.py:110` an event is kept in the task and "processed when the task is reached in the workflow" | A FUTURE task that catches an event becomes WAITING (`event_types.py:49`) and goes on in the same call: what follows a transaction is done while the transaction is in progress. |
| `LastCycle` | `specs/Join.py:202` "Also returns the list of tasks that yet need to be completed" | The join of boundary events is updated again when it is READY (a cycle timer ends beside an interrupting event that has occurred), gets `None` for the list and raises a TypeError. |
| `TwoEvents` | `tests/SpiffWorkflow/bpmn/events/EventBasedGatewayTest.py:37` when a message has come, the timer behind the event gateway is CANCELLED | If the moment of the timer has passed unnoticed, the refresh in the call that delivers the message finds both children fired (`multiple.py:29`, `intermediate_event.py:61`), and both go on. |
| `EarlyGateway` | `inclusive_gateway.py:34` the gateway waits as long as a path leads from a token to one of its empty inputs | `check()` returns at the first input of each spec (`inclusive_gateway.py:101`): a task behind the second input of a merge is not seen, and the gateway fires. |

What the properties leave out, or what the runs spare them:
* `NotStuck`, `CompletionSignalled` and `JoinNotLost` exclude the behaviours in which the
  environment has intervened (faults, cancellation) as their definitions say. `Patterns` has
  neither faults nor resets.
* `NothingRaised` holds in `Processes` because the cycle timer has three cycles and at most
  two moments pass: with its last cycle the defect of `LastCycle` shows. The exception of
  an event gateway that `send_event` has revived is named in it (section 5).
* `CancelledStays` is about everything but the two ways back that the code offers: a reset,
  and `send_event`, which delivers to finished tasks as well. `doc/concepts.rst:71` says that
  finished tasks take no further action; section 5 says which do.
* `InclusiveWaits` says what the docstring of the gateway says, over all paths of the net.
  In `Processes` the decision is made by tasks that are awaited and by the search `check()`,
  over a choice that has not been made; `EarlyGateway` is the merge where it goes wrong.
* Resets in the process `B` are those of tasks that have been run (`"reset"`). With
  `"reset early"` (a task that has not been reached, or lies behind one that has not been
  completed) among the `Calls`, `InterruptExclusive`, `OwnersNotified`, `CancelledStays`,
  `JoinedOnce`, `InclusiveWaits`, `SubHasOwner`, `CompletedIsQuiet` and `NeverStuck` fail, in one
  process or another: such a reset starts a branch that the engine has not come to.
* The events of `OneConversation` come from outside; `OwnersNotified` is checked with
  subprocesses one level deep.
* `Parsing` has no data object that lies more than one level above its use: the parser's
  search would never end (section 5).
* `LoopEnds` accepts that a loop is refused when it is reached, and that an instance
  leaves a result that cannot be collected: then the loop raises at each refresh for good. An
  output item without an output collection is not among the loops.

### Bounds

* `MaxDepth`: an ExclusiveChoice that deep in the tree takes its default, so that loops
  end. Only the last net of `Patterns` has a loop (its choice is made at depth 5 and 8;
  two turns already use the prediction in every way it can be used). In the other
  nets the choices are not that deep.
* `MaxResets`, `MaxCancels`, `MaxFaults`: 1 in `Recovery`, otherwise 0. One of each, at
  any moment and in any order with respect to the others, covers their interplay with a
  fired, a waiting and a cancelled join.
* The nets have two or three branches: two are enough for a join to be overtaken, and
  three for it to fire with a branch outstanding. Everything in the code that looks at
  other branches does so by spec and thread, never by number.
* `MaxCalls`: how often an application sends an event, lets a timer pass, resets or
  cancels: 2 (1 for the gateways, whose only outside call is a cancel). Two is what it
  takes for an event to race a timer, to come twice, or to come after a reset.
* `MaxTrips` 3: one trip loses, one shows that nothing more is lost, and a third in
  another format between them.
* Loops: sizes 0 to 3, and `MaxInstances` 3 for a standard loop without a maximum, whose
  condition holds by then; an instance beyond the second finds merged and unmerged ones
  on both sides of it. Items that are `None` at the first and second place.
* No state constraint and no symmetry is used. Deadlock is checked in `Patterns`, `Recovery`,
  `LostLocks` and `Parsing`, whose systems may always do something: an application may refresh a
  workflow, or ask the parser, at any time. In the others the bounds, or the end of the loop,
  stop the system, or the workflow has nothing more to do.

### Fairness

* `Workflow.FairSpec`: weak fairness of `Step` (a Python call that has been entered goes
  on) and strong fairness of `Run` (the application uses `run_all`, a loop that runs READY tasks
  as long as there are any; strong, because the calls of `update_waiting_tasks` that it may make
  in between disable `Run` while they last). Nothing is assumed of `UpdateWaitingTasks`:
  `Termination` holds because each completed task updates the waiting ones, and the mutant
  without that update violates it. A workflow that waits for the end of an external process
  (`WaitsOutside`) has ended as far as the engine is concerned.
* `MultiInstance.FairSpec`: the loop task is reached, refreshed and run, and *some*
  instance that can run does, well or badly. Nothing is assumed of a particular one.

## 4. What is proved

| Theorem | Says |
|---|---|
| `WorkflowProofs!TypeCorrect` | `Spec => []TypeOK` |
| `WorkflowProofs!TreeAlwaysClosed` | `Spec => []TreeClosed` |
| `WorkflowProofs!CancelledForGood` | `Spec => []CancelIsFinal` |
| `ReachProofs!FinishedStays` (o) | a finished task is never made unfinished, but by a reset |
| `ReachProofs!TreeClosedAcrossRestarts`, `CancelledAcrossRestarts` | the same of `RestartSpec` |
| `ThreadProofs!ThreadsAlwaysSeparate` (o) | `[]ThreadsSeparate` |
| `CallProofs!NeverSignalledEarly` (o) | `completed_event` is never called early, nor twice |
| `CallProofs!CompletionAlwaysSignalled` (o) | `[]CompletionSignalled`, if no join leads back to itself, no task is in ERROR, and joins are not cancelled before they fire |
| `CallProofs!OneFiringAlwaysStands` (o) | `[]OneFiringStands` |
| `CallProofs!PendingStaysLive` (o) | `[]PendingLive`, if no join leads back to itself |
| `CallProofs!FiringJoinsSurvive` (o) | what is to fire is in the tree; with all that comes before it, unless the join is structured and cancelling, or connected to itself |
| `CallProofs!FuturesReached` (o) | `[]FutureIsReached`, if no prediction, join or Transform raises in an update |
| `CallProofs!CompletedKept` (o) | what is completed stays so, but for joins and resets |
| `CallProofs!StatesAlwaysForward` (o) | `StatesGoForward`, if no CancelTask cancels itself and no task that may have to wait is the child of a ThreadStart |
| `CallProofs!MutexesExclude` (o) | at most one task in a section, and only if the mutex is taken, if mutexes are used as such |
| `CallProofs!MutexesProtect` (o) | `[]MutexProtects`, if moreover no owner is lost |
| `JoinProofs!DefinitesReachable`, `DefinitesReachableAcrossRestarts` (o) | `[]DefiniteReachable`, without and with restarts |
| `JoinProofs!JoinsHaveInputs` (o) | `[](resets = 0 => JoinHasInputs)`, if no thread comes to an input of a join twice and no join is the child of a ThreadStart |
| `JoinProofs!JoinsEndRegions` (o) | `[](resets = 0 => JoinEndsRegion)`, if no prediction raises, no join leads back to itself and these joins have regions |
| `LoopProofs!LoopsKeepContract` | `Spec => ContractKept`: the refinement |
| `LoopProofs!AllItemsAlwaysRun`, `OutputAlwaysFaithful` | `Spec => []AllItemsRun`, `Spec => []OutputFaithful` |
| `SerializerProofs!ConditionsAlwaysKept`, `AttributesAlwaysKept`, `LossOnce` | what documents keep and that they lose only once |
| `ParserProofs!ParserInvariant`, `ServedAlwaysComplete` | `ConverterSpec => []ServedComplete` |

The theorems marked (o) are about `OrderlySpec` (`OrderlyRestartSpec`): whatever is run, raised,
cancelled or refreshed, the application resets only what lies right behind a completed task
(`InOrder`). The code allows any reset, and then `DefiniteReachable` is false of it: reset the
child of a failed task, and it is run; and so is the child of a predicted one. What the other
theorems say of joins, threads and completion rests on what `DefiniteReachable` and `ReachInv`
say, so they have the same condition. `TypeCorrect`, `TreeAlwaysClosed`, `CancelledForGood` and
their companions about restarts need no condition: they hold of `Spec` and `RestartSpec`, whatever
is reset.

The theorems about the engine hold for every net that satisfies `NetAssumption`, loops
included, and all bounds (`BoundsAssumption`); those about loops, documents and the
parser for everything that satisfies `LoopsAssumption`, `OriginalsAssumption` and
`DiagramsAssumption`, whatever its size, and any `MaxTrips`. TLC evaluates each
assumption in a run. Three theorems suppose `NoLoopsIn`, which `WorkflowSpec.validate`
checks; `StatesAlwaysForward` supposes `SparesItself` and `NoneAtThreadStart`,
`JoinsHaveInputs` supposes `InputsOnce` and `NoneAtThreadStart`, and `JoinsEndRegions`
supposes `RegionsIn`, which it does not check. TLC evaluates all five for the nets of the
runs (`MCWorkflow`); only `InputsOnce` is false of one, the net of `Recovery`, in which a
merge is an input of a join.

### The core engine

**The tree** (`IInv`). `AddChildren` and `SyncChildren` are well typed only if the task
they work on is in the tree, and the parent of a task stays there only if the domain
consists of paths whose ancestors are there; so `TypeOK` and `TreeClosed` are inductive
only together. In `WorkflowProofs` every operation on trees maps a typed, closed tree to
one: what is removed is closed downwards (`RemoveBranchesTree`), and new paths extend a
live one with numbers that it has counted (`AddChildrenTree`); each
action preserves `IInv` by the lemma for the operation it uses.

**Cancelling** (`CancelInv`). After a cancel no task is unfinished *and* every frame of
the stack is a walk of `update_waiting_tasks`: a `hook` or `children` frame would bring a
finished tree back to life. That the cancel reaches everything is `CancelRootCompletes`:
each unfinished task is a topmost one, or has one above it (`TopmostExists`), and is
dropped.

**What has been reached** (`ReachInv`). Frames rely on what was found when they were
pushed, and the calls between may have changed the tree. The invariant says what they may
rely on: whatever is to be updated, fired, cancelled or completed is above, below or apart
from the rest in a certain order (`Ordered`, `Over`: what completes a task lies at the bottom),
and before whatever is WAITING, READY or finished there are only finished tasks. Children
of a ThreadStart, READY before it is completed, are the one exception, as long as the frame
is there that completes it (`Ended`). `FinishedStays` follows from it, and the part of
`DefinitesReachable` that says finished; and as it holds of the states between two calls, so do the theorems about restarts,
since a loaded tree has the paths and states of the saved one.

**Behind what has failed** (`PassInv`). `ReachInv` does not tell how a task has finished: a
child of a task that has failed would satisfy it. So `PassInv` says that no reached task has
a `Dead` one before it, one in ERROR or a CANCELLED one that is no join, and neither has
the task of a frame that updates, completes or joins (`Unbarred`), for that is how a
call passes on. What is completed does not die (`Firm`), but for joins, which are cancelled when
another instance fires: what lies behind them is not stopped, so `DefiniteReachable`
excepts them. The instance that fires is not the one that was updated: it is behind a task
that has finished, and `JoinInv`'s `JoinsComplete` says that it was not cancelled.

**Threads** (`ThreadInv`). Only ThreadStarts own a thread id, no two the same; those that
have run are owners; nothing behind a READY one has completed. Every other step is gentle
(`Gently`): a task that appears takes the thread of its parent.

**Joins** (`JoinInv`). The instance that fires cancels its rivals (`OtherInstances`), one on
which the join fired before among them, and an instance behind it cannot have been reached, by
`ReachInv`. So it is enough that no
other step makes a second instance READY: none does but a ThreadStart, whose children
are the first of their spec in a new thread, of different specs (`SyncOnce` counts them).
That the join does not fire a second time is another matter, and false (`FiresTwice`).

**What joins wait for** (`SupplyInv`). `MayFire` counts completed *instances* of the inputs,
and two instances of one input would do. So `InputsOnce` supposes a set of specs to which
a thread comes only once, the inputs of unstructured joins among them: ThreadStarts, the start,
and what comes after one other such spec, unless that multiplies its outputs. That the tree then
holds no two completed tasks of such a spec in a thread (`CompletedOnce`) takes
nearly everything above: the topmost pair would have parents that are completed
(`ReachInv`, `PassInv`), of one spec, and in one thread (`ThreadInv`), and so one parent, whose
children are of different specs (`ShapeInv`). `SupplyInv` then says that a join has its
inputs from the moment that it is put on the stack to fire; what it cancels before it fires
and what happens afterwards takes none of them away (`CompletedKept`), but for a reset,
which removes what lies behind a task and starts again: hence `resets = 0`. A join that is the child
of a ThreadStart is READY at once, whatever its inputs.

**What joins leave behind** (`RegionOK`). A structured join looks at each unfinished task
below its split that has no children, or is a join, and goes by its spec. That this finds every
unfinished branch depends on the net between split and join, its `Region`:
* everything there leads to the join and nowhere else, so that a branch ends at an instance;
* no spec there may be multiplied by 0, so that a branch does not end before it;
* there is no other join, no ThreadSplit and no thread: a join takes away what lies behind its
  other instances, and in two threads a join would fire twice below one split;
* no CancelTask, and no unstructured join that cancels, names a spec of the region.

Then what is unfinished has unfinished children or the join behind it (`LiveBelow`:
cancelling begins at the top, `CancelsOutside`), and whatever the code has come to has
children, unless a frame will yet predict it or complete it (`GoesDown`). A prediction that
raises drops such a frame and leaves a branch without an end, which the join takes for
complete: hence `~PredictRaises`. So when the join is put on the stack to fire, every
unfinished branch has come to an instance of it, or is on the list of those to be
cancelled (`JoinCleared`); firing takes the other instances away, and from then on the split
has nothing unfinished below it but the join and what lies behind it (`RegionClosed`). That no
branch comes to the join twice takes `NoLoopsIn`; a reset opens the region again.

**Calls in progress** (`PendingInv`). What a frame will work on is attached to the tree
by tasks that are not predicted and outside everything that the frames above it may still
remove. Predictions remove only below their own task, where nothing is pending; a cancel
removes only what is not reached; a join removes what lies behind other instances of itself,
and this could be the call in progress. `Behind` says that the tree follows the net, so
that in a net without such loops no instance lies behind another.

**Firing** (`FiringInv`). Between the decision and the firing, the list of tasks to
cancel spares the join: it has unfinished tasks of other specs, and everything before
the join is finished. A structured join may list a branch that it lies in itself, which
section 5 reports; so the theorem excludes it.

**FUTURE tasks** (`FutureInv`). A FUTURE task below a completed one (`Stranded`) is held by
a frame: it is on the list of children that its parent updates, or is being predicted or
updated itself. Only an exception drops frames, and then the property is false of the
code: the children not yet updated stay FUTURE for good. The hypotheses name the
exceptions that an update can meet.

**Completion** (`SignalInv`, `CompletionInv`). Only the bottom frame signals, and only if
all is finished; afterwards nothing can make a task unfinished. Conversely, until
completion is signalled something is unfinished, or a frame will yet complete a task, look
whether all is done, or make a join READY (`SignalsYet`). The hard steps are those which
finish tasks without completing any: a cancelling join (which fires, if it survives)
and a CancelTask (which completes); each `cancel` frame has such a frame below it.

**What is done** (`Calm`). Every step but three completes nothing, opens no section, and
keeps what is completed: predictions remove only what is predicted, and cancels spare what
is finished (`CancelBranchCalm`), unless it is another instance of the join that fires.
The three, a completion, an AcquireMutex and a ReleaseMutex, act on one task each.

**No state goes backwards** (`OnwardInv`). Most operations only write later states
(`Straight`). What could go back is a prediction that makes LIKELY tasks MAYBE: it does not,
as nothing behind a MAYBE task is LIKELY, unless it was made so by the guess how often a
task will be multiplied (`Guessed`), which all predictions of that task share; an update hook
that makes a READY task wait: no frame will ask such a task (`Settled`, `GoesOn`), since
whatever asks a task does so once (`Clear`) and before it has become READY; and
a task that is completed after it has been cancelled: the frames above the one that completes
it do not cancel it (`Spares`). Both hypotheses are needed:
* `NoneAtThreadStart`: a child of a ThreadStart is READY before its update hook is called,
  and a gate, a mutex or a process then waits;
* `SparesItself`: a CancelTask that names its own spec, or one before it, is cancelled by
  its own run and COMPLETED afterwards. `after` says what lies behind a spec, as for
  `PendingStaysLive`, and `Behind` that the tree follows it.

**Mutexes** (`MutexInv`, `HeldInv`). A ReleaseMutex gives the mutex back when it runs, and
is completed by a step of its own. So the invariant is about the sections of the tree that
this step will leave (`Sections`): at most one is open for each mutex, and then it is taken.
The conditions are those which the code does not ensure:
* `NoneAtThreadStart` of it: an AcquireMutex behind a ThreadStart is READY before the update
  that asks for the mutex, and an exception may prevent that update;
* `ReleasesOwn`: a ReleaseMutex may lie in another branch than the AcquireMutex, or be
  one of two behind it;
* `KeepsLocks` (for `MutexesProtect`): an owner that is cancelled, or fails, before it
  has run keeps the mutex;
* no reset: it makes tasks of the section, or the AcquireMutex, run again.

The net with the critical section satisfies all of them. That a restart gives up every mutex is
what `LostLocks` shows.

### Loops, documents, parser

**Loops.** What has been merged has ended, only a loop that is still at it has instances
that have not, and a loop that is not parallel has at most one of these. `UpdateUpdates`
reduces `_update_hook` to five outcomes, `UpdateStep` shows that each is a step `Work` or
`Close` of the contract; cancelling is `Abandon` or a stutter. For `AllItemsAlwaysRun`
the invariant counts: a waiting loop has at most, a parallel one that was not cut short exactly,
as many instances as there are items; `CutShort` is the one case in which a loop ends without
having run one for each. For `OutputAlwaysFaithful` it says what the collection is at each
moment, entry for entry: what was there, followed by the results in the order of `merged`, which
grows with the collection.

**Documents** (`DocumentInv`). What is loaded makes the same choices as the original
(`Same`), and is settled with respect to every format it has been through (`Settled`):
going through it again changes nothing. The first is a matter of each format and
each sort of value, the second of how the formats act on one another's results.

**The parser** (`ParserInv`). A collection of subprocesses has, at each moment, found or
still to ask for everything that the specs found so far call (`Collecting`), so that it is
complete when its list is empty. What is hard is that asking parses, which changes specs
and embeds new processes while the collection is made: only one process is parsed at a
time (`Above`), and never one that has been returned or found (`FrameInv`), so that
what these call cannot change afterwards.

### Only model-checked

* The BPMN engine: its operators are recursive.
* `Termination`, `LoopEnds`: liveness.
* `StatesGoForward` for nets in which a gate, a mutex or a process is the child of a
  ThreadStart, or a CancelTask cancels itself, where it is false; `FinishedStays` is the part
  of it that holds always.
* `PendingLive` and `CompletionSignalled` for joins in loops; `FiringJoinSurvives` for
  structured joins that cancel. The second is false in general (section 5).
* `JoinHasInputs` for nets outside `InputsOnce` (a join counts instances, not inputs, so it is
  false of some), such as those with merges before a join;
  `JoinEndsRegion` for joins whose split and join enclose no region; `JoinNotLost`, which
  fails in nets with partial joins in odd places (a join that fires twice, section 5, is why
  `CompletedKept` excepts joins), and `NotStuck`.
* `SpecFollowsDiagram`: what a search builds, which takes an induction over the diagram.

Liveness, `ENABLED`, induction over data and recursive operators are beyond the prover.

## 5. Seen while modelling

What the code does and no document of it denies, or what no run is about. Each is in
the model as the code has it, unless it says otherwise.

Core engine
* When a branch turns away from a partial join and thereby is complete, the join is updated
  on an instance in *another* branch, which may itself be incomplete; it fires and, if it
  cancels, cancels that branch, itself included (`Join.py:220-222`).
* A partial join may fire twice (`FiresTwice`). If what follows its first firing has not been
  run, it is dropped with the instance, and only the second one goes on; else it is done twice.
* Any task may be reset, also one that has not been reached or lies behind one that has failed:
  it is run then, as if what comes before it had been completed.
* An unstructured join counts instances, not predecessors: two instances of one input
  are enough for a threshold of two (`Join.py:162`).
* A join cancels its instances behind unfinished tasks; an iterator that looks for finished
  tasks misses them (`util/task.py:196`).
* A Transform that raises in its update strands its siblings, FUTURE, below a COMPLETED task.
* A gate opens if the task it waits for is not in the tree yet (prediction looks two levels
  ahead, `Gate.py:54`).
* A mutex whose owner is cancelled or fails is never released, and an AcquireMutex right
  behind a ThreadStart is READY before it has been asked whether it can have the mutex.

Documents of the core library
* The XML loader looks for `last_task` by the text of its id and raises for every workflow
  that has one (`xml.py:667`); the dictionary writes it and never reads it.
* XML turns numbers into texts (a numeric threshold of a Join cannot be compared any
  more), writes the success flag of a Cancel always, loses `manual`, cannot read an empty
  text or `None` back, and turns a Merge into a Join; a Transform has no XML form. An attribute
  or a path on the right side of an assignment is written as an element within the value
  (`xml.py:100`) and read as the text of the value, which is empty (`xml.py:108`), and which is not
  written at all the next time.
* The dictionary loses the queued triggers of a Trigger and the threshold and cancel flag of
  Merge and ThreadMerge; a Match loses its regular expression in each format; a relative
  path of a SubWorkflow grows each time; JSON has no form for a path as an attribute.

BPMN engine
* What goes on too early in `EarlyEvent` is cancelled later if the transaction is: then both
  the boundary event and what follows the transaction have begun. `InterruptExclusive`
  therefore does not count what catches events.
* `send_event` delivers to tasks in any state (`bpmn/workflow.py:130-140`), and `catch` makes them
  WAITING (`event_types.py:42-49`): a catch event that has been cancelled or completed is done
  again, although finished tasks "take no further action" (`doc/concepts.rst:71`). An event
  gateway that is revived so has lost the child of its timer and raises an IndexError at
  each refresh (`multiple.py:29`); `NothingRaised` makes this exception (`Revived`).
* The reset of a task that has not been run starts a branch which the engine has not come to;
  section 3 lists what then fails.
* A subprocess whose task is gone makes `do_engine_steps` raise (`bpmn/workflow.py:181`).
* An update may remove tasks that the iterator over the waiting tasks still holds: they are
  updated, and what they do then, they do outside the tree.
* The backward search of the inclusive gateway does not end when the first inputs lead round a loop
  in which nothing is at work (a RecursionError, `inclusive_gateway.py:101`); the model raises then.
* A start event that has been used is reset, and revives a process (`start_event.py:31`).
* An inclusive gateway has no default flow: without a match it raises.
* A multi-instance task with a cardinality and an existing output raises a NameError
  (`multiinstance_task.py:215`); an item that is `None` ends a sequential loop.
* When `create_child` raises (`multiinstance_task.py:170-173`), the instance has been added; a
  parallel loop becomes READY when this one has ended, without the other items.

Parser and BPMN documents
* The search for a data object goes on with the parent of the same process
  (`node_parser.py:131-135`): one that lies two levels up, or is missing in a nested subprocess,
  is searched for ever.
* A process whose parsing raised is returned, in part, by the next call.
* `get_subprocess_specs` does not pass `require_call_activity_specs` on to nested levels.
* A call activity may name a subprocess that is embedded in a process which has not been
  parsed yet, and then does not find it, or finds it later. BPMN does not allow it; the
  diagrams have no such call (`DiagramsAssumption`).
* Elements with the ids `Start` and `End` collide with the specs every process has.
* The correlation keys of the messages of a multiple event or an event gateway are not noted.
* `find_all_specs` fails for ever while one executable process has no start event.
* There is no converter for a service task in the default configuration. Data stores,
  which `ProcessParser.py:130` attaches to the spec "so they can survive", are neither written
  nor read (`default/process_spec.py:37`); `SpecConverter` has it so.

## 6. Not modelled, and why

* **Data.** Task data, conditions and scripts are abstracted to their outcomes, so the
  script engine, services, DMN, `deep_merge` and payloads are not modelled; nor is the
  arithmetic of dates and durations (a timer is due at some time), conditional events,
  timestamps, logging and callbacks other than `completed_event`.
* **Trigger, Choose** and `_on_trigger`: they store what they do in specs that all
  workflows of a process share, and no document or test says what several workflows
  should see. `ThreadSplit._on_trigger` calls a method that does not exist
  (`ThreadSplit.py:108`).
* **SubWorkflow** (core): a second engine inside a task; the subprocesses of BPMN, which
  replace it, are modelled. **ThreadMerge, Merge**: only their attributes.
* **Documents of BPMN workflows and migrations**: converters that copy each field, and
  transformations of old documents that nothing describes but their result.
* **XML** is reduced to its elements; schema validation, descriptions and `prettyxml`
  are text processing. The **Camunda and Spiff extensions** add attributes.
* The order in which `run_next` looks for work (every order is allowed); iteration with a
  depth limit of 1000 is taken to be unlimited.

## 7. What could come next

`JoinNotLost` for nets whose joins are not partial; `SpecFollowsDiagram`, with the invariant of the
search; `JoinHasInputs` for nets in which the branches of a choice merge before a join. An
abstract game of tokens that the core engine implements for nets without loops.
