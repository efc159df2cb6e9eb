# A TLA+ model of PILO

PILO (`src/`) is a discrete event simulator of a software defined network
whose control traffic travels in the data network itself: switches flood news
of their links, several controllers compute routes from what they have heard,
flood rule updates back, and repair lost messages by periodic requests and by
gossip.  This directory holds TLA+ modules of its parts, the configurations
that check them with TLC, and theorems about them checked by TLAPS.

Run everything inside this directory: `tlc -workers 2 -config CPView.cfg
MCControlPlane`, `tlapm LinkProofs.tla`.

## 1. Inventory

The program is one thread.  All concurrency is that of the simulated network:
what happens between the scheduling of an event and its execution.

| part | source | state | operations |
|---|---|---|---|
| event queue | `context.cc` | time, heap of (time, callback) | `schedule`, `scheduleAbsolute`, `next`, `reset` |
| link | `link.cc` | up/down, version, per direction: queue counter, time the transmitter is free | `send` and its callback, `set_up/down`, `silent_set_up/down`, `reset` |
| node, host | `node.cc` | its links | `flood`, `receive` (nothing) |
| switch | `switch.cc` | link states, filter of packet ids, forwarding table | `receive`, `install_flow_table`, `notify_link_up/down`, `silent_link_up/down` |
| controller | `controller.cc` | filter, version and state of each link, topology graph, flow database | `receive` and its handlers, `add_link`, `remove_link`, `compute_paths`, `apply_patch`, three timers |
| log | `controller.cc:462-576` | per link: states and known flags by version, mark, size, maximum | `open_log_link`, `add_link_event`, `compute_gaps`, `compute_response`, `merge_logs` |
| TE controller | `te_controller.cc` | link load during a computation | `compute_paths` with admission control |
| coordinator | `coord_controller.cc` | last packet id per destination, last time | `receive`, `send_to_controller` |
| simulation | `simulation.cc` | its own graph, live links | set up, link changes, `install_all_routes`, `check_routes`, statistics |
| driver | `main.cc` | trace of failures | trace, converge repetitions, sampling |

How they interact:

* Calls: the driver changes links through `Simulation::set_link_up/down`;
  `Link` calls `notify_link_up/down` of its two ends, which flood at once.
* Callbacks: `Link::send` schedules a callback that decrements the counter and
  calls `receive` of the other end; the controllers' timers rearm themselves.
* Messages: `LINK_UP`, `LINK_DOWN` and `SWITCH_INFORMATION_REQ` to everyone;
  `SWITCH_INFORMATION`, `SWITCH_TABLE_REQ/RESP`, `CHANGE_RULES`, `GOSSIP_REP`
  to one node, all by flooding.  `GOSSIP` goes to everyone.
* Shared state: one packet object is shared by all copies of a flood.  No
  handler changes a field another copy's receiver reads.

What is hard, and what makes each part correct:

* **Link.**  Failures and recoveries overlap each other and the packets in
  flight; callbacks run in whatever state the link is in by then; latency
  samples may be negative.  Correct: counters that never wrap or lose track of
  the scheduled events, no reordering, queues that drain.
* **Switch.**  Receives copies of the same packet over several ways, answers and
  installs every copy meant for it, floods others once.  Correct: floods end,
  its news are true for the version they name.
* **Controller.**  News of one link in any order, several times, or never;
  updates of tables that other controllers change too; answers older than its
  own last update.  Correct: its view is a past truth that never goes back and
  catches up; the tables it causes route every connected pair; what it removes
  leaves the switches.
* **Log.**  Entries are inserted, vectors grow and are cut, gossip messages are
  lost or late.  Correct: entries are true, nothing missing is skipped, no
  access out of range, logs agree in the end.
* **Coordinator.**  Packets reach the coordinator through any controller, in any
  order and several times; packets overtaken by a later one are dropped.  Correct:
  every controller is handed the same packets in the same order, no delay grows, and the
  controllers agree but for what one of them drops or was told alone.
* **TE controller.**  A path is used for several pairs of hosts while directions of
  links are closed, and is computed again while its hops are being installed; the flow
  database is overwritten while it is compared with.  Correct: the limit is kept, the
  edge to close exists, the differences are exact, the rules of a signature arrive.
* **Simulation.**  Keeps a graph of its own beside the links, which overlapping failures
  and recoveries of a trace must not let go astray; `check_routes` reports what an
  experiment measures by it.  Correct: the graph is the network, and a quiet network
  passes the check on shortest ways.
* **Driver.**  A repetition of the converge experiment drops all events and sets the
  links up, but neither switches, filters nor controllers start anew; the controllers'
  timers are gone, so nobody makes up for a packet that is lost.  Correct: every
  repetition ends; as long as no packet is lost, every repetition starts with working routes
  and leaves working routes.

`PROJECT.json` lists the hazards with their lines.

## 2. Modules

| module | models | checked by |
|---|---|---|
| `LossyFifo` | what a link promises: a bounded FIFO channel per direction that may lose packets | refined by `Link` |
| `Link`, `LinkProps` | `link.cc` and its part of `context.cc` | `MCLink`, `LinkProofs` |
| `Routing` | topologies and `compute_paths` as a function of the links believed up | used by `ControlPlane` |
| `LinkView` | what the control plane promises about a controller's view | refined by `ControlPlane` |
| `ControlPlane`, `ControlPlaneProps` | `switch.cc`, `controller.cc`, `node.cc` over the links of a network | `MCControlPlane`, `ControlPlaneProofs` |
| `Simulation`, `SimulationProps` | the simulator's own graph beside the control plane, and `check_routes` | `MCSimulation`, `SimulationProofs` |
| `Experiment`, `ExperimentProps` | the repetitions of the converge experiment of `main.cc` | `MCExperiment`, `SimulationProofs` |
| `GossipLog`, `GossipLogProps` | class `Log` and the gossip handlers, for one link | `MCGossipLog`, `GossipLogProofs` |
| `TePaths`, `TePathsProps` | `TeController::compute_paths` | `MCTePaths`, `TePathsProofs` |
| `Broadcast` | what the coordinator promises: a broadcast in one order | refined by `Coordinator` |
| `Coordinator`, `CoordinatorProps` | `coord_controller.cc` | `MCCoordinator`, `CoordinatorProofs` |
| `ListLemmas`, `RoutingLemmas` | lemmas about lists and numbers, about topologies and routes | used by the proofs |

`Simulation` extends `ControlPlane` and adds the graph to its link changes;
`Experiment` extends `Simulation` and puts its steps in the order of the converge
loop.  `TePaths` and `Coordinator` take topologies from `Routing`.  The link of `Link`
and the channels of `ControlPlane` meet in `LossyFifo`.

Operators whose comment begins with *Bug:* are mistakes one could make in the
code; no action uses them.  Putting one in place of the definition next to it
makes the property it threatens fail, which shows that the property says
something (`PROJECT.json`, `mutants`).

### Link

Times are kept relative to now, so that the state space is finite without a
bound on time: `flight[d][i].due` is what is left until the delivery event of
a packet, `nextFree[d]` is `max(_nextSchedulable, now) - now`.  `Tick` is
`Context::next` advancing the clock, and is disabled while an event is due.
`Send`, `Deliver`, `SetUp`, `SetDown` are the code's functions; the silent
versions of the last two differ only in what they tell the ends.  `Deliver`
keeps the difference between the two directions in the code (`LeavesQueue`).
`Converge` is the start of a repetition in `main.cc:146-148`.
Two events of the same time may run in either order.  The
size/bandwidth quotients are whole numbers at least one: the order of events
is what matters, not the values.

### Control plane

A link is one sequence of packets for each direction, as `LossyFifo` allows;
`Lose` stands for drop distributions and full queues, and for `_cdrop`, which makes
a controller filter the other copies of the packet too.  (In the topologies of the
runs a controller has one link, and its switch passes a flood on once, so it is the
only copy anyway.)  Between events that the code runs to completion (a handler, a timer, a link change) the model has
one action each: `Deliver` (= the callback of `Link::send`, then
`Switch::receive` or `Controller::receive` with all it calls: news, route
computation, patch, flood), `SetLink` (= `Link::set_up/down` with both ends'
notifications), `SendSwitchInfoRequest`, `SendRoutingRequest`.

* `hist[l]` is the history of a link: its last element is `_state`, its length
  `_version`.  `_linkState` of a switch always equals `_state` of its links.
* Packet identifiers are unique as long as any copy travels or a filter needs
  them; forgotten ones are used again, which changes no comparison the code
  makes and keeps the state space finite.
* Rules are records (switch, signature, link); a table is a set of them with at
  most one for a signature.  Tables are `std::map`s, so equal tables have equal
  hashes; that different ones have different hashes is assumed.
* `compute_paths` takes the shortest path igraph returns; the model fixes one
  shortest path of the same length by `CHOOSE`.  All controllers of the code
  use the same vertex numbers, so they agree on it as in the model.
* Controllers are end hosts of the topology too (`_nodes` contains them).
* An end host has one link, as `_nsmap` and the generated topologies have it.
* `Init` is the state after `main.cc:121-122`: all links up with version 1,
  every controller's view complete, all tables installed.

### Simulation and experiment

* `edges` counts the edges of `_graph` between two switches (igraph would add a second
  one, hence the look-up of `add_graph_link`), `nsmap` is `_nsmap`, `live` is
  `_liveLinks`.  `SetLinkUp/Down` change link and graph in the code's one call;
  all other events leave the graph alone.
* `Checked` and `Passed` are the counters of `check_routes` as sets.  `_others` holds the
  hosts that are not controllers, so only their pairs are checked.  The walk along the
  tables is `TableRoutes` of `ControlPlaneProps`; the two access links count on both
  sides of the comparison of distances and are left out.
* `Prepare` is `main.cc:146-149`: what travels is gone, all links are up with a new version
  that the controllers know, the controllers compute their paths, and what the *last* one
  finds different is installed without the deletions (`std::ignore`,
  `simulation.cc:272`).  `LastController` is the last one in the iteration over
  `_controllers`.  `Context::reset` has dropped the timers of the controllers, so no
  repetition sends periodic requests: the module has no timer actions.
* `Run` executes events until none is left, then `Prepare` follows.  A packet may be lost
  in a repetition as in a trace (`Lose`): `apply_patch` sends one packet for every changed
  switch at once over the one link of the controller, whose queue refuses everything past 51
  (`link.cc:51`, `link.cc:69`), and `--drop` and `--cdrop` drop packets (`link.cc:42`,
  `controller.cc:47`).  After a loss nothing repairs the tables: not the timers, which are gone,
  and not the next repetition, which only looks at the last controller's flow database.
  Therefore `FreshStart`, `RepetitionConverges` and `QuietCheckPasses` are stated
  for `losses = 0`, no packet lost in this repetition or an earlier one.

### Gossip

A log keeps every link separately, so one link is modelled.  `log[c]` joins
`_log` and `_commit`; index `v + 1` is version `v`.  `Learn` is
`add_link_event` with the growth loop and the *insertion* of the entry;
`NextSize` is one round of that loop and `LastSize` its result; a larger size cuts nothing
after a smaller one, so the first and the last of them say what the vectors become.  A search or access
beyond the vectors ends the program (`running`, `Halt`): `std::vector::at`
throws for the entries, and nothing catches it.  `SearchEnds` is the search of
`controller.cc:518`, which has no bound of its own.  Flooding and the
controller's filter mean that each message is handled once by each receiver,
at any time or never; a flood may come back to its sender, so a controller may
answer its own request.  `LateNews` says whether news of a version may still reach a
controller after gossip about that or a later version.  With the periods of the
experiments (gossip every 600 s by default, news within milliseconds) this is
rare, and without it the log works as intended (`gossip`); with it, insertion
shifts entries (`gossip_late`).  `learnt` is a history variable.

### Paths with admission control

The module is one call of `compute_paths` after the other.  `Start` takes the links the
controller believes up; `Begin` takes the next pair of hosts in the order of the nested
loops (`LoopIndex`) and computes a path when it is the first pair of its two
switches; `Hop` is one pass of the loop over `k`: load, rule, difference, closing of
the direction that became full, and the path computed again; `Finish` is the sweep for
deletions.  igraph may return any of the shortest paths (`Routes`).  `old` and `mixed`
are history variables.  The warning of `te_controller.cc:104-105` prints the opposite of
its condition and changes nothing.

### Coordinator

`sent` is the set of all packets for the controllers with `Packet::pid` as their number;
the network delivers any of them to any controller at any time, several times or never
(`Receive`), which covers all that flooding, loss and delay do.  `Receive` is
`Coordinator::receive` (all controllers share it, so who received the packet does not
matter), `SendToController` the scheduled callback, `Handle` one controller's
`receive_coordinator`.

* `_lastSeen` is kept per destination; news of the switches is for `ALL`, so an overtaken
  notification is dropped for every controller.  It starts at 0, so that the packet with
  identifier 0 is never accepted.
* `ahead` is `_lastTime - now`: a time still to come is set to 0 (`coord_controller.cc:21`),
  so the delay is always `2 * _rtt`.
* `log` and `fresh` are history variables: the packets accepted in each instant.  Packets of one
  instant are due at the same time and their calls run in any order.
* A controller that is handed a packet it has not filtered yet puts it into its filter and
  then processes it (`Process`) or drops it (`Discard`, `controller.cc:47`; `simulation.cc:96`
  gives each controller a distribution of its own).  `missed` is a history variable: what each has dropped.
* Routes and updates are as in `ControlPlane` and not repeated.

## 3. Runs

| run | result | distinct states |
|---|---|---|
| `link` | counters, order and FIFO refinement hold, direction A drains | 231,180 |
| `link_leak` | violated: direction B loses queue places for ever | |
| `cp_view` | news and views are true, view converges, refinement of `LinkView` | 31,223 |
| `cp_repair` | routes converge with a lost packet through routing requests | 21,701 |
| `cp_stale` | violated: a removed rule stays in the switch | |
| `sim_ring` | in a cycle the graph stays the network, updates alone route around failures, the check passes and counts the connected pairs | 731,236 |
| `converge` | repetitions with two controllers and lost packets end, with the graph whole; while none is lost they start well and leave working routes, and `check_routes` reports them right | 117,142 |
| `gossip` | logs are true, ask for all that is missing and agree in the end | 64,716 |
| `gossip_late` | violated: a version never heard of is not asked for | |
| `te` | limit, assertion and differences hold, paths computed once arrive | 12,817 |
| `te_mixed` | violated: the hops of two paths do not arrive | |
| `coord` | broadcast in one order, bounded delay, everyone is handed every accepted packet, views agree but for what was dropped or told to one alone | 1,106,786 |

Deadlock checking is off everywhere: a network with nothing in flight and no
more changes allowed by the bounds rests, as the simulator does when its queue
is empty, and a controller rests between computations.

**Bounds, and why they are enough.**

* `MaxVersion` (link changes): three control plane states of a link (up, down, up)
  make every order of two overlapping news; four in `link` give down and up twice.
* `QueueLimit` 2 for 50 (1 in `link_leak`): the code only compares with it, and one more than
  the limit is reached.
* `Latencies` {-2, 1} with transmission times {1, 2}: a sample that takes the end
  before now (the clamp), and a positive one.
* `Failable`: the link whose failure cuts a controller off from a switch (`cp_view`,
  `cp_stale`), one whose failure changes the routes in a cycle (`cp_repair`), one of a cycle
  and one of a host (`sim_ring`), one of a cycle and a controller's (`converge`).
* `MaxBusy`: links change while at most so many packets travel.  `cp_view` does not
  restrict it; in `sim_ring` 1 lets a change meet a flood still on its way; the experiment
  fails a link only when nothing travels.
* `MaxVersion` 4 in `converge`: a repetition raises the version by one, that of the link that
  fails by two.  Two repetitions fit, of which the second fails the other link and starts from the
  tables the first left.
* `MaxLoss` 2 in `converge`: one lost packet is still made up for, since notifications and
  updates go round the cycle both ways and both controllers send the same updates; two are
  not.  With the condition `losses = 0` left out, TLC finds each of the three
  properties that have it violated.
* `MaxLoad` 3, `MaxRuns` 2 in `te`: in a cycle of four switches with a chord, directions fill
  up in the middle of a path, at its last hop and again after a detour; the second
  computation starts from the database of the first with other links.  `HostOrders` and
  `Vertices` are two of the orders an `unordered_map` may give.
* `Rtt` 1, `MaxPid` 3, `MaxVersion` 2, `MaxDrops` 1 in `coord`: four packets (three are accepted), of
  one instant and of several: both ends of a change, requests and answers, some
  of them older than the change.  One of them may be dropped by one of the two controllers.
* `MaxLoss` 1 in `cp_view` and `cp_repair`: a packet of any type may be lost at any time; a second loss repeats
  the repair.  It is the assumption of the convergence properties that losses end.
* `MaxPackets` 14 identifiers suffice for all packets of these runs at a time; a
  step that needs more waits.
* `Answered`: a timer fires only when the answers to its last request are gone.
  The refresh period is 300 s by default and round trips take milliseconds; without this bound,
  requests would pile up without end.
* `InitialSize`, `HighWater` of 3 for 1024, 8192, `GrowBy` 1 for 128: growth happens.
* A trace of `main.cc` begins each failure with a down; the model also lets a link
  that is up be set up again (only the version grows, as with overlapping recoveries).

**Fairness.**  `Simulation::run` executes events until none is left, and every
packet in flight is one: weak fairness of `Deliver` for every channel (in the experiment,
that some event is executed as long as there is one), of each direction's deliveries in `Link`, of the scheduled calls in
`Coordinator`.  Timers rearm themselves whenever they fire: weak fairness of the
requests.  In `Link` and `Coordinator`, where time is modelled, `Tick` is strongly fair:
events of one instant are executed first, and only finitely many of them are
scheduled, so the clock goes on.  Link changes, losses, sends and receptions at the
coordinator have none: they may stop at any time.

## 4. What is proved

`LinkProofs` (for every limit, set of transmission times and latencies, number of changes):

* `IInv` = type invariant, `QueueCoversFlight`, `AQueueExact`, `DueOrdered` is
  inductive.  The order is needed for the types: a delivery is the head of its
  direction because later ones are due strictly later, and only then does the
  counter that covers the flight stay positive when it is decremented.
* Theorems `TypeCorrect` (also: the unsigned counters never wrap), `CoversFlight`,
  `AExact`, `DueInOrder`, and `LinkIsFifo`: every step is a step of `LossyFifo`
  under the mapping that forgets due times.
* Assumed: `LinkAssumption` only.

`ControlPlaneProofs` (for every topology, number of nodes and bound):

* `NewsStaysTrue`, `ViewIsTrue` and `ControlPlaneIsLinkView`.  The view alone is not
  inductive: what a controller will believe is what travels, so `IInv` says of every
  packet in every channel that it tells each link's state at the version it names.
  Histories only grow, so that what was true stays true (`TruthLasts`); a newer
  version replaces state and version together (`LearningKeepsIInv`).
* What routes are computed does not matter for this; `AllRules` is the set of all rules
  that any view may lead to.  Likewise `AnyId` holds whatever identifiers are chosen.
* Assumed: `TopologyAssumption`, `ControlPlaneAssumption`, and `NameAssumption` (the
  destination "all" and the absent link are no names of nodes and links).

`TypeCorrect` of the same module, with the same generality: `TypeInv` types
the packets of every channel by what their type carries, and is inductive.  Two facts go beyond types:

* `NewTableIsTable`: a shortest walk visits no switch twice, because leaving out what lies
  between two visits would make it shorter (`ShortestSimple`), so a path gives a switch
  one rule for a signature.  Installing a table over a table then keeps that
  (`InstallTyped`), in whatever order updates come.
* `NewIdFound`: a step whose guard finds enough free identifiers really gets them.  The k-th
  element of a set of numbers is found with `LeastNumber`, which stands for induction.

`SimulationProofs` (for every topology and trace): `GraphStaysNetwork`, by the
invariant that edges are counted for the pairs of switches with a link and `GraphIsNetwork`
holds; adding what is there and removing what is not there change nothing.
`SimulationIsControlPlane` carries the theorems of the control plane over to every simulation.
`CountsAreConnected` (`CountsConnected`): the pairs that `check_routes` counts are those the network
connects.  `MeasuresAreRight`: where the switches have the rules of all routes over the links that are up
(`RoutesInstalled`), packets arrive and `check_routes` says so.
Assumed besides: `SimulationAssumption`, two switches have one link.

The same module proves of the converge experiment, for every number of controllers, of
repetitions and of links that failed in them, in whatever order the events are executed:
`ExperimentTyped`, `ExperimentKeepsGraph`, `ExperimentViewsTrue` (news that travels and views are
true of their versions, in every repetition), `RepetitionsStartFresh`, `RepetitionsConverge`,
`QuietRepetitionsWork` and `QuietRepetitionsPass`.  The first three are for every topology and
whatever is lost, the others hold as long as no packet was lost (`losses = 0`) in
every network in which all switches are connected while all links are up (`WholeNetwork`, a
hypothesis of the theorems; `MCExperiment` checks that its network is one).  It cannot be left
out: news and updates only reach the part of the network they start in, and the random
topologies of the experiments are connected.  The failing link may be any: one of a cycle, one
that cuts the network in two, one of a controller or of a host.  Packets may be lost in all of them: the
inductive invariant is `LosslessRunInv`, that `RunInv` holds unless a packet was lost, and since `losses`
never shrinks (`LossesOnlyGrow`), every state before one without loss was one too.  `RunInv`
says that before a failure nothing travels and all agree (`Calm`), and after link `l` failed
(`Failed(l)`):

* each controller either knows, and has stored and sent the routes without `l`, or it has the
  view and the routes it started with (`Knows`, `Unaware`);
* every switch has all the rules of the old routes or all of the new ones (`Covered`), since an
  update brings all the new rules that differ from the old (`InstallNew`), and a second copy of
  it, or that of another controller, brings the same;
* each flood has a set of nodes it has been at (`Flooding`): every neighbour of a node of the set is
  in it or has a copy of the packet on the way to it, and a controller in the set of a
  notification knows, and a switch in the set of an update for it has the new rules.  A reception adds
  one node (`SpreadStep`, `Receives`).

When nothing travels, such a set is closed under the links that are up (`FloodClosed`), so it is
all of the part of the network where the flood began.  A switch stays connected to one of
the ends of `l`, both of which sent news (`NearEnd`); if a rule of a switch changed, it is
because other links still connect the two ends (`Rerouted`), so the controllers that know are in the
same part as the switch (`QuietKnows`, `PatchedEnds`).  Hence the tables have the new routes
(`QuietTables`), and a walk along them is the shortest path.  For the next repetition, what
counts is the flow database of the last controller alone: it may still hold the routes
without a link that the switches know nothing of, or the other way round.  What is
found different from it is exactly what each switch lacks at most (`RoutesToInstall`,
`PrepareMakesCalm`).

`QuietRepetitionsPass` has the same condition.  What does not need it is `MeasuresAreRight`: in whatever
state the rules of all routes are installed, `check_routes` reports them right.

What `check_routes` measures follows from both invariants (`QuietRules`, `ChecksPass`).  The graph is the
network, so a distance in it is one of the network (`DistanceOfNetwork`), and a pair is checked
if and only if the network connects it (`CheckedReach`).  The rules of the pair follow a shortest walk (`RulesFollow`);
the tables may have older rules besides, of other signatures or for switches off that walk, but one
rule for a switch and a signature, so no way along the tables can leave the walk, stop before
its end or go on after it (`RoutesAreShortest`).  Assumed besides: `ExperimentAssumption`, the last controller is one.

`GossipLogProofs` (for every number of controllers, of changes of the link and of lost messages,
and for every order of delivery).  Under `InTime`, no news is late, by the invariant `IInv`:
`LogIsTrue` and `MissingAreGaps`.  Under `NoGrowth`, a link changes less than `INITIAL_SIZE` times (1024
in the code), by the invariant `LateInv`: `NeverThrows`.  Under either: `TypeCorrect`, `LastNewsStay`,
`MarkIsKnown`.

* `Facts` says of one controller's log that nothing is known beyond the maximum, that the mark is
  at most one beyond it, and that what is known is true and was learnt.  Since news comes above
  the maximum, an insertion shifts blanks only (`NewsKept`).
* `Fits` says how long the vectors are: each insertion since they grew makes them one longer,
  and was of another version, so they are shorter than twice the size that `_sizes` names.  That is
  why the loop of `add_link_event` cuts nothing that is known, although it may resize to less than
  the length (`GrowthKeeps`).
* `LoopEnds` and `LastSizeFits`: the loop ends with a size above the version, for all
  values of its constants that are positive (and not when a size is 0).
* `TrueMsg` says of what travels what `Facts` says of logs, since what a controller merges was
  another's log.
* With late news `MissingIsGap` and `LogTruth` fail (`gossip_late`), so logs keep less (`Kept`): the
  last entry stays empty, since an insertion or an answer never reaches it; what was
  heard last is at its place; everything below the mark is known, since an insertion below it adds
  a version that is known.  That is what the code needs to go on: all vectors are longer
  than any version, so no access fails, and every search ends at the empty entry (`RoomBeyond`).
* When vectors grow, an answer may name a version that the vectors of the controller that asked do
  not have yet, `at` throws, and the program ends; `TypeOK` and the rest still hold of that state.
* When vectors grow *and* news is late, known entries may stand beyond the maximum, the mark
  may follow them, and growing cuts them off: `MarkedKnown` is false.  TLC finds it by simulation with
  `InitialSize` 4, `HighWater` 1, `GrowBy` 1 and `MaxVersion` 7, so the hypothesis of `MarkIsKnown` is needed.

Assumed besides: `GossipAssumption`.

`TePathsProofs` (for every topology, limit, order of hosts and views): `TypeCorrect`,
`PathStaysOpen`, `LimitIsKept`, `DifferencesFix`, `HopsNeverDoMeet`, `UnmixedDoArrive`.
`IInv` adds to the properties

* `AllOpen`: every remaining edge of the path is open, also for the next pair of hosts that
  uses it: closing an edge is always followed by a new path over open edges;
* `LoadCounts`: the load of a direction counts its rules at least, and an open
  direction is below the limit;
* `DbMerged`: in the middle of a computation `_flowDb` is the old one with the new rules
  put in, which makes the comparison with it as good as one with the old.

The last two theorems need `HopsInv` besides: the path is a shortest one over the edges that
are open now, and every rule of the signature is on a switch that is reached with
fewer hops than have been done.  The k-th switch of a shortest path cannot be reached with
fewer than k switches (`NoShortCut`), so the next hop is on none of them, and a walk that
short does not use the edge that is closed (`ClosingKeepsWalks`), so closing
it disturbs none of them.  Hence rules are only ever added, and a path that stays as it
is (`HopsDone`) is complete when its signature is done.

Assumed: `TopologyAssumption`, `TeAssumption`.

`CoordinatorProofs` (for every topology, number of controllers, `Rtt` and bound):
`TypeCorrect`, `DelayIsBounded`, and `CoordinatorIsBroadcast`.  The refinement needs to know how
far each scheduled call has come: `IInv` orders the agenda by the instants of the log (`DueGrows`,
`NewestLast`), says that only accepted packets are scheduled and each accepted one is either
scheduled, being handed out, or heard (`OnlyAccepted`, `Covered`), that those being handed
out belong to one instant (`OneBatch`), and that all earlier instants were heard
(`InTurn`, `OutFirst`).

`BeliefsAreTrue` and `ControllersAgree` (`ViewsAgree`) rest on `ViewInv`: all news that were
ever sent are true for the versions they name, a controller believes of a link what it was at
the version it knows, and that version is the newest among the packets it was handed and did
not drop (`NewestKnown`).  So what a controller believes is a function of the set of packets it
processed, in whatever order the calls of one instant ran.  Once nothing is scheduled all were
handed the same packets; hence a controller that knows more of a link has it from an answer for it
alone, or from news for all that the other one dropped, and nothing says that the other
one is ever told of that again.  Assumed: `TopologyAssumption`, `CoordinatorAssumption`.

Only model checked:

* everything about time passing in the end (`AQueueDrains`, `ViewConverges`,
  `RoutesConverge`, `LogsAgree`, `RepetitionEnds`, `EveryoneHears`): liveness under fairness is out of the prover's reach;
* that routes work after failures that overlap in time (`QuietRoutesWork` and `QuietCheckPasses` in
  `sim_ring`): the theorems have one failure at a time.  With several, the tables are no longer
  those of two sets of links, and after a partition that heals they need not be
  right without requests, so the property is one of the failures that `sim_ring` allows.

## 5. Where code and comments disagree

* `link.cc:79-80`: `_bQueue` is decremented only if the link is up (`link_leak`).
* `controller.cc:157`: an update that only deletes rules is never sent (`cp_stale`).
* `controller.cc:492`: inserting an event shifts later entries (`gossip_late`).
* `te_controller.cc:103`: after a path is computed again, the loop goes on at the same
  place in the new path, and the rules of the signature do not arrive (`te_mixed`).

No run can refute it with a property that says more than the code: `link.cc:37` says that no packet crosses a failure, while the callback
(`link.cc:62`) reads the state at the time of delivery only, so that packets sent before a
failure are delivered after a quick recovery.  `Deliver` has it as the code does, and `ViewTruth` holds all the same.

## 6. Not modelled

* Data packets (`switch.cc:58-63`): no node of the simulation sends any.
* Counters that are only printed: `_totalBits`, `_bitByType`, `_linkStats`,
  `_entries`, `Switch::_version`, `_flow_version`, and of `check_routes` the distance
  statistics and link differences.
* End hosts with several links.  `compute_paths` and `_nsmap` both assume one: `emplace` keeps
  the first switch and `erase` forgets the host when any of its links fails.
  `compute_controller_diameter`, which gives `_rtt`, is a constant of `Coordinator`.
* The functions of `Simulation` that nothing calls (`set_all_links_up`, `set_all_links_down`,
  `set_all_links_down_silent`, `set_all_controller_links_down`).
* Drawing samples, YAML, options, the evaluation scripts: input and output.
* Two different tables with the same 64-bit hash; more than 2^32 versions of a link.

## 7. Plan

Done: `Link`, `ControlPlane` over the channels that `Link` implements, `GossipLog`;
then `TePaths`, `Coordinator` with `Broadcast`, `Simulation` and `Experiment`, and the
theorems of section 4.

Left:

1. `QuietRoutesWork` for overlapping failures, under a hypothesis on which links may fail.
2. What gossip guarantees of convergence when news is late.
3. Late news and growing vectors in one run, with the properties that the theorems prove of either
   (`MarkedKnown`, `NoThrow`, `LastNewsKept`); so far the run `gossip` has no late news, and there
   only growth disturbs these properties.
4. What the tables still guarantee after a packet was lost in a repetition.
