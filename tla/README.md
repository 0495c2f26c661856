# BESS-AIO: a TLA+ verification project

BESS-AIO (`src/bms_logger`) is a desktop program that monitors, logs and controls
battery energy storage systems: any number of BMSs and PCSs over Modbus, grouped in
clusters, with a Qt user interface. This project models the parts of it that decide
something about the devices, checks them with TLC on small instances and proves the
main results with TLAPS for every value of the constants; the packet page, from which
faults are judged after the event, is modelled as well. Paths below are relative to
`src/bms_logger/` of the repository.

## 1. Inventory

Threads: the Qt main thread (all handlers, the service, the strategies, the PCS panel, the
cluster dispatch, the packet page), one polling thread per BMS (`DeviceWorker`) and per PCS
(`PcsPollingWorker`), one per BMS heartbeat (`HeartbeatWorker`), one per high-voltage
workflow (`HvWorkflowWorker`), one per charge/discharge workflow and action
(`ChargeDischargeWorkflowWorker`), one writer thread per recorder (`AsyncRecorderProxy`).
They share Python objects (registries, flags) without locks, and report to the main
thread by queued signals, except for `finished_callback` of the workflows, which runs
in the workflow's own thread.

| Component | State it keeps | Operations | Meets | What is hard |
|---|---|---|---|---|
| High-voltage workflow (`hv_controller.py`) | stop flag, two clients | `hv_on`, `hv_off`, `stop` | BMS, PCS, registry | cancel at any point, a lost reply, early returns |
| Registry of high-voltage workflows (`hv_control_mixin.py`, `data_receive_mixin.py`, `ui_device.py`) | `hv_workers`, `last_hv_status` | HV ON/OFF buttons, cancel, service HV OFF, stop device, stop all, finished | workflow threads, service, dialogs | check and act separated by a dialog; a join that gives up |
| Charge/discharge workflow (`charge_discharge_workflow.py`) | settings, stop flag, last commanded power | `run_start`, `run_stop`, emergency stop | BMS, PCS, the other workflow of the device | limits that change between reads, failing writes, two workflows on one PCS |
| Charge/discharge panel (`charge_discharge_mixin.py`) | `charge_discharge_workers`, fields | start, stop, cancel, cluster dispatch | workflow threads | keys by device and action |
| Service rules (`service.py`) | derating, cutoff, fault and tracking state of each cluster | one pass on every snapshot | execution of actions, site | confirm counters, latches, retries, restored power |
| Execution of actions (`execution_mixin.py`, `derating_control_mixin.py`, `service_action_controller.py`) | last action, cooldown | alarm, HV OFF, power write, PCS stop | PCS clients, workflow registry | success reported for an action that was not taken |
| Polling workers (`worker.py`, `ui_device.py`, `pcs_mixin.py`) | running flag, clients; `device_workers`, `pcs_workers`, `heartbeat_workers` | run, stop, start, restart, remove, stop all | main thread, reception | stop before the thread runs, a failed connect that leaves the entry, a join that gives up |
| Reception (`data_receive_mixin.py`, `scheduler_mixin.py`) | latest snapshots, heartbeats seen, task status, rows | on data, error, status | service, recorders | signals arrive after what they tell of; a heartbeat that stands still, wraps or jumps |
| Recorders (`async_recorder.py`, `recorder.py`) | bounded queue, open file, schema version | write, rotate, close | main thread | full queue, drain on close, header changes |
| Site (`site_mixin.py`, `models.py`, `ui_device.py`) | clusters, members, bindings, device and PCS lists | create, rename, bind, move, add, remove, save, load | profiles, service, dispatch | one PCS in two clusters; files saved one after the other; a load that saves |
| Profiles, templates (`profile_mixin.py`, `profile_controller.py`, `template_manager.py`) | one directory of files for each profile | start, load, save, import, repair | site, all files | a profile that gets data of the one before; unreadable files |
| PCS panel (`pcs_control_mixin.py`, `pcs_controller.py`) | mode, selected PCS, heartbeat timer | commands, debug commands, heartbeat | PCS clients, dispatch | a timer that fires behind a dialog; a write without a reply |
| Cluster dispatch (`cluster_workflow.py`, `cluster_power_allocator.py`) | none | allocate and write a share to each PCS, stop all | PCS clients, limits of the BMSs | rounding and limits of the shares, one write of several failing |
| Modbus clients, drivers, simulated devices (`pcs_client.py`, `modbus_client.py`, `drivers/`) | socket, registers | connect, read, write | everything | sign, width and word order of a point |
| Packet page (`packet_mixin.py`, `packet_store.py`) | records, cache files, pages, filters, plots | load, clear, page, filter, plot, diagnose | analyzers | a file that grows while it is read; two copies of the same data |
| Packet and CAN decoding (`packet_analyzer.py`, `can_analyzer.py`, `can_dbc.py`) | none | parse, annotate, decode | packet page | request and answer, timeouts; bits of a signal |
| Packet diagnosis (`packet_diagnosis.py`) | none | diagnose | packet page | heuristics |
| Strategies, schedules (`strategy_engine.py`, `scheduler.py`) | overrides, task list | enable, save, status | service, polling | overrides that silently win |
| Points, alarms, reports, curves, replay, pages, build scripts | tables, widgets | | | presentation or offline work |

`PROJECT.json` lists every component with its files, and under `hazards` the places in
the code that a test would hardly reach.

## 2. Plan

In order of importance, each step with its runs and its theorems:

1. *High voltage* (done): `HvSequence` (what the class docstring of the controller
   promises) and `HvThread` (what the rest of the program sees of a thread), both
   implemented by `HvWorkflow`, which has one action per call; `HvRegistry` composes
   threads in the form of `HvThread` with the main thread and with the charge/discharge
   workflows, the other writers of register 0381.
2. *Charge and discharge* (done): `PowerClamp` (arithmetic), `ChargeDischarge`.
3. *Supervision* (done): service rules and the execution of their actions on one
   cluster, the operator's changes included.
4. *Recorders* (done): `RecorderContract`, implemented by `AsyncRecorder`, which
   builds on the files of `CsvSegments`.
5. *Polling* (done): `Polling`, threads and registries with the queue of signals between
   them and the main thread, and the view that the slots make of it.
6. *Site and profiles* (done): `Site`, memory and files of the plant, with a crash in any
   write.
7. *PCS panel, dispatch, clients* (done): `Registers` (encoding), on which `PcsPanel`
   builds the buttons, the heartbeat and the dispatch.
8. *Evidence* (done): `Evidence` (the packet page and its cache), `Latency` and
   `CanSignals` (the two decoders as pure definitions against what they mean).

Left for later, in this order: the runtime settings of a profile (which of them a profile
switch replaces, which a save omits) next to `Site`; a composition of `Supervision`,
`HvRegistry` and `Site` on two clusters that share a PCS; the parser of the alarm map.

## 3. Modules

| Module | Models |
|---|---|
| `HvSequence` | the list in the docstring of `HvWorkflowController` (hv_controller.py 14-30) |
| `HvThread` | a workflow thread as the registry sees it |
| `HvWorkflow` | `hv_on`, `hv_off`, `_wait_until`, `HvWorkflowWorker` |
| `HvRegistry` | `hv_workers` of one device and everything that reads or writes it, and the other writers of register 0381 |
| `Quotients` | Python's `round()` of a quotient, for powers and registers |
| `PowerClamp` | sign convention, `_positive_number`, `_read_bms_allowed_power_kw`, the clamp, the ramp's step |
| `ChargeDischarge` | `run_start`, `run_stop`, `emergency_stop`, `stop_sequence` and the panel that starts and cancels them |
| `Supervision` | `BmsPcsService.on_snapshot` with its four checks, `execute_*` and `handle_*` actions, the operator |
| `RecorderContract` | what `AsyncRecorderProxy` promises |
| `CsvSegments` | `CsvRecorder`: files by day and schema version |
| `AsyncRecorder` | the proxy, its queue, its writer thread, start and stop of a recording, on top of `CsvSegments` |
| `Polling` | `DeviceWorker`, `PcsPollingWorker`, `HeartbeatWorker`, the handlers that start and stop them, the queued signals and their slots |
| `Site` | clusters, bindings and device lists, the handlers of the devices and project pages, profiles and their files |
| `Registers` | the points of `pcs_client.py`: encoding, decoding, scale, offset and register count |
| `PcsPoint` | one point of a PCS, written and read back; on top of `Registers` |
| `PcsPanel` | buttons and debug buttons, PCS heartbeat, `dispatch_once`, `stop_all`, both allocations; on top of `Registers` and `PowerClamp` |
| `Evidence` | the packet page: loading through the cache, tables, filters, mapping, plot, diagnosis |
| `Latency` | from the packets of a capture to records with latencies and timeouts |
| `CanSignals` | the value of a DBC or JSON signal in a frame |
| `*Proofs` | the theorems about the module of that name (`RecordingProofs`: about `AsyncRecorder`; `PowerProofs`: about `PowerClamp`, `ChargeDischarge`, `Registers`, `PcsPoint` and `PcsPanel`) |
| `MC*` | constants for TLC |

Definitions called `Mut...` are plausible mistakes in the definition that follows them;
each property of a passing run is violated when the mistake is made.

### High voltage

`HvWorkflow` keeps for every thread where it is (`pc`), its stop flag, which clients it
holds and what it returned, and the registers of the devices. One action is one Modbus
call or one check of the flag; `GatePcs`, `GateStay` and `GateCmd` are the checks
"if self._stop_requested" and what lies between them. Every call can fail; a failing
write may have reached the register. The devices change their registers at will
(`DeviceChanges`), so that every answer to every read is covered. Values of timeouts,
log texts and precheck details are left out: a precheck passes or fails.

`HvRegistry` uses threads only through `HvThread`, which `HvWorkflow` is shown to
implement. Its state is the entry of one device, the flag of each thread, what the main
thread is doing (`ui`: idle, in a confirmation dialog, joining) and the status shown.
A dialog runs an event loop, so `ServiceHvOff` may happen in it; a join may give up.
`past` records the events after which weaker promises hold: `overlap` (a dialog confirmed
on a stale check, or a join that gave up) and `commandLeft` (a command in 0381 whose Stay
nobody will write).

A third party writes 0381 on the same device, with clients of its own: `bms_hv_on` of a
charge/discharge start workflow and the HV OFF part of the stop workflow
(charge_discharge_workflow.py:295-308, 434-445). `PowerWrites`, `PowerStays` and
`PowerGivesUp` are their steps here (their place in the workflow is in `ChargeDischarge`);
`powering` is the set of those that have written their command and owe the Stay. They look
at `hv_workers` as little as the handlers look at them, and tell `last_hv_status` nothing.
So "Success" does not say which command was the last: after an HV ON that succeeded, a stop
workflow may switch the device off while the status bar goes on showing that success. What
`SuccessMeansStay` says, and what does hold, is that no 2 or 3 is left standing in the
register, where it would be obeyed again, once all workflows of either sort are through and
none gave up between its command and its Stay.

### Charge and discharge

One start and one stop workflow can be live at once, since `charge_discharge_workers` is
keyed by device *and* action. `ramp` holds the locals of `ramp_power`; `RampTop`,
`RampSafety`, `RampWrite` and `RampSleep` are one turn of its loop, with the reads of
the BMS limits in the places where the code reads them. `told`, `lost` and `met` are
history: raising commands since the cancel, failed writes of a closing sequence,
overlap with the other workflow. Powers are integers in a unit of which `UnitsPerKw` make
a kW: tenths of a kW in the run, as the page takes them (control_page.py:352); the clamp
margin is 1. What a PCS gets is `WholeKw` of the power, `int(round(power_kw))`
(charge_discharge_workflow.py:230), while `last` keeps the power before the rounding, as
the code does. A target of 50.6 kW therefore commands 51, and `NeverBeyondTarget` is stated
up to the rounding; control_page.py:431 says "Default clamp mode uses your target power and
only reduces it", which this passes by up to half a kW. `LimitIsKept` is about limits that
sink: between two checks the ramp may write beyond a limit read after the next value was
computed, but each check of the monitoring brings the PCS back to the limit it has read, up
to the half kW the check tolerates and the half kW of the rounding.
Placeholder readings ("not available") are the set `Placeholders`.

### Supervision

A snapshot starts a pass (`phase` runs through derating, cutoff by charge and discharge,
tracking, PCS protection); between two checks the PCS and its workflows may act, the
operator may not, as the pass is one handler of the main thread. `Setting` is what an
enabled strategy overrides and the runtime parameter otherwise. Counters saturate at
`MaxCount`, which is at least every confirm count used, so saturation hides nothing.
`undone` names why the setpoint may differ from the intended one (a failed write, a
workflow that wrote, a retry); `last` is the outcome of the last action.

### Recorders

`AsyncRecorder` follows `queue.Queue` with `unfinished_tasks`; `ui` holds the main
thread inside `close()` (waiting to put the poison, waiting in `join`, closing). Rows
carry a date and a set of columns; the order of columns follows from the set
(`_ordered_fields`). `headers` is what is on disk and survives a recording, `own` the
files created by the present recorder. `_write_count` and flushing are left out. Dates do not go
back: samples are stamped when they are read. A row that raises leaves no line.

### Polling

A thread is `new` (created, `run` not yet entered), in `connect`, in its `loop`, or ended.
`stop()` only clears `running`; `run` sets it, so `lost` records a `stop()` that came too
early. `OnePoller` is about all live threads, these and those whose join gave up included:
of two that poll one device, one at least was told to stop. `StopIsKept` is the other half:
one told after its `run` began stays told until it ends. What a thread tells the main thread is appended to `signals`, and one slot is one
`Deliver` step on its head: a status, a sample or an error is handled after whatever the
operator did meanwhile. A handler that stops a thread waits for it at most three seconds;
the steps the thread takes in that time only append to the queue, so the handler is one
action and the thread may outlive it. `fleet` is the plant: which devices exist, which of
them are polled, and what heartbeats they show; it never changes and keeps the run small.

### Site

`session` is what is in memory, `disk` the three files of every profile that hold devices,
clusters and PCSs. `Commit(s, kinds)` is a handler that changes the session and then saves
the named files in that order; `DieSaving` is the crash in one of these writes, which
leaves the earlier ones new, that one new or `Broken` (the code truncates a file and then
writes it) and the later ones old. `LoadDevices` and `AutoLoad` follow the order in the
code: `add_device` saves after each entry, and the site file is read last.

`Misplaced` counts for every BMS the clusters that have it, and asks for one if it is a
device and for none if it is not. The second half was added when the first turned out not
to be inductive: a list loaded over a site of several clusters may leave a BMS that the
list does not have in a cluster that is not active, and adding it again puts it into the
active one as well. The first step is the exception `LoadsOver`, the second was a
violation by a handler that did nothing wrong. Members of a cluster are a set here; the
list of the code would hold such a BMS twice if it were added to the cluster it is in.

### PCS panel and dispatch

`Registers` is arithmetic: a register has `WordSize` values (65536 in the code), a point
has a type, a word order, a scale, an offset and a count of registers to read; rounding is
that of Python, and physical values are integers in a unit that divides scale and offset.
`PcsPoint` writes one point again and again and reads it back: a wide point whose count was
left at its default of 1 (pcs_client.py:80) is written in full, and raises whenever it is
read (line 107).

`PcsPanel` gives every PCS its own point `set_active_power`; the shipped one has a scale of
0.1 (profiles/default/pcs_configs.json:258-263), so that 4000 kW already leave the signed
range of its register. `Setpoint` is what the PCS makes of the registers, which it reads as
signed; `Fits` says of a power that it survives this, and `SetpointsAddUp` speaks only of
shares that fit, as the code cuts the others off without a word. A name of the cluster
without a configuration is taken for the current PCS (`Device`, pcs_mixin.py:116). Two names
may then be clients of one host, and the last share stays there: within the limit, which
`SetpointsAddUp` says of this case, but not "across all PCS bound to the cluster", as the
dialog has it (charge_discharge_mixin.py:207). The configured PCSs are taken to have
different hosts. An edit (`EditPcs`) loses the rated power, for which the form has no field,
and with it the weight in a dispatch. Removing a PCS is in `Site`; a client that cannot be
made (an unknown driver) is left out. `PcsPanel`
keeps the registers of each PCS, the heartbeat timer and the handler under way (`job`):
a dialog, in which the event loop runs and the timer may fire, or a loop over the PCSs of
a dispatch or a stop, one `DispatchOne` or `StopOne` for each. The loop keeps the set of
the PCSs it has not come to (`todo`) and takes the first of them in the order of the
cluster. A write to a PCS that is out of reach returns False or raises, whether or not the
PCS took it. `astray` collects the PCSs about which a loop can promise nothing.

### Evidence

A file is its version: what was read of it names the file and the version, so the model
can tell an analysis of the old content from one of the new. A load is four steps (name
the cache file and look into it, parse, save, show), since the file may grow between any
two of them. `ui` holds the fields of the page; `Refreshed`, `Rebuilt`, `Analysed` and
`Loaded` are the functions that the handlers share. Clearing the capture or the log empties
the records in memory and leaves the path of the cache file (packet_mixin.py:51-64), so the
table shows the rows of the cache with nothing in memory, and the communication analysis of
a capture outlives it: the reports then print it beside 0 packets
(report_manager.py:103, 134-138). `TablesFollowRecords` and `DerivedFollowsRecords` speak of
this state too (`Follows`): what is shown is of the records in memory, and with none in
memory it is nothing or what the last load gave (`GivenBy`), never anything older. A load
that fails after its empty cache file was made leaves the file; this matters only when the
cache was deleted and the same unchanged file is loaded again, and is left out.
`Latency.Records` keeps of a capture
what the code keeps (whole TCP packets of port 502 with a header and protocol 0), `Scan`
is `_annotate_latency_and_timeouts`; the file grows by packets and is looked at in each
of its states, also with the last packet cut off. `CanSignals.Extracted` is `_extract_dbc_signal` and
`FromEntry` the JSON case of `_decode_with_mapping`.

## 4. Runs

| Run | Question | Bounds |
|---|---|---|
| `MCHvWorkflow` | no command after a cancel, no client left, implements `HvSequence` and `HvThread`, ends | 1 thread; nothing else is bounded |
| `MCHvRegistry` | registry and threads agree, no lock-out, success means Stay, released again and again | 2 threads, re-used, so any number in sequence and two at once, beside a start and a stop workflow |
| `MCHvRegistryOverlap` | *violated*: at most one workflow on a device | same |
| `MCChargeDischarge` | never beyond the target, a sinking limit followed, cancel, safe failure, safe stop, both workflows end | tenths of a kW; 2 settings for a start (a discharge of 2.6 kW in steps of 1.8; a charge of as much, in one step, that follows the BMS), 1 for a stop, limits change once |
| `MCChargeDischargeStopWins` | *violated*: after a successful stop the PCS is at zero | 1 setting of each |
| `MCSupervision` | latches follow the voltages, the setpoint is the intended one, a lost PCS is answered with HV OFF again and again | 2 BMSs, 2 readings, 2 runtimes, 2 strategies, 2 names, 1 act of the operator |
| `MCAsyncRecorder` | contract, headers, `close()` returns | queue of 2, 4 rows, 2 columns, 2 days |
| `MCAsyncRecorderRestart` | *violated*: every file is readable by its header | same |
| `MCPolling` | no thread without an owner, the view becomes true, stopped threads end, a frozen BMS is noticed | 3 plants, 2 threads at a time, queue of 2 |
| `MCSite` | bindings unique, every BMS placed, edits on disk, a load loses no device | 2 BMSs, 2 PCSs, 2 clusters, 2 profiles, 1 template, 6 edits, any number of restarts; the BMSs are symmetric |
| `MCPcsPanel` | shares add up, stop reaches every PCS, heartbeat goes on, a written value is read back | 2 PCSs rated 1 to 2 with different points, the second without a configuration at first, and one outside the cluster; powers in halves of a kW, words of 16 values, heartbeat modulo 2, 3 acts; 144 points of every type, values about every limit of their ranges |
| `MCEvidence` | what is shown is what is in memory or was loaded last; the annotation of a capture is true while it is written; a decoded signal is what the format says | 2 symmetric captures, 1 log, 2 mappings, pages of 1 row, 4 acts; 14 kinds of packets, files of up to 4; signals of up to 12 bits in frames of up to 2 bytes |

Why these bounds are enough. Threads of the high-voltage model meet only through the
registers and the registry entry. The registers already change at will, so one thread of
`HvWorkflow` sees whatever a second one would do; two threads in `HvRegistry` show every
overlap, and an identity that has ended stands for the next thread. In the
charge/discharge model a step of 1.8 kW against a target of 2.6 has a last step that must
be cut, one of 3 is cut at once, values are rounded when they are written, up and to
the even number, and a change of the limits, to 1.5 kW or back to none, falls before or
after any read. In supervision the readings lie on both sides of every threshold, and one BMS of
two suffices to hold or release a latch. The recorder's queue of two is full with one row
in the writer's hands, and four rows allow a change of columns, a change of day and a drop
in one history. Two threads are what a restart behind a join that gave up needs, and a
queue of two separates a status from the sample that follows it; heartbeats wrap at 256
as in the code. Five edits suffice to bind, rename, save into another profile, switch and
edit there, and the sixth to add again a BMS that a load left behind. A word of sixteen values and a scale of half a kW overflow at 4 kW: of a total
of 18 kW, unclamped, half does not fit the fine points and fits the coarse one, and the
clamp brings it within all of them; -3.5 kW are rounded. The second PCS stands for the first
or for the one outside until an edit adds it. Points of counts one and two, narrow and wide,
are read, and the values written to a point lie on both sides of every limit. A
capture of four packets holds a repeated request, a reused id and a response to each; a
signal of twelve bits crosses a byte border in both orders. For the models whose safety
is also proved, the runs are there for their liveness, for the mutants and as a first
look: the theorems hold for every value of the constants.

Two runs hold models that share no variable: `MCPcsPanel` the panel and one point
(`PcsPoint`), `MCEvidence` the page, one capture file (`Latency`) and one signal
(`CanSignals`). A behaviour of such a run follows one of them while the others stay in
their initial state; as no property speaks of two of them, nothing is lost.

`CHECK_DEADLOCK FALSE` stands in the two recorder runs and in `MCEvidence`: rows, acts
and packets are bounded there, and a program that is closed, a page that nobody touches, or
a file that nobody writes, is at rest.

Three runs look for a disagreement between the code and what a text of the repository
says, and find it (`findings` of `PROJECT.json` quotes the lines):

* `OneWorkflowPerDevice`: a confirmation answered after the service has started an
  HV OFF starts a second workflow (hv_control_mixin.py:43).
* `StopWins`: the stop workflow of a PCS does not stop the start workflow, whose ramp
  raises the power again after the stop reported success (charge_discharge_mixin.py:80).
* `AllHeadersValid`: a recording started again on the same day appends rows under the
  header of the first one (recorder.py:72).

### Observed while modelling

Behaviour that the models follow or leave aside, and that a reader of the code may want to
know; no run is made for it. Where a hazard of `PROJECT.json` has a note and no property, the
code promises nothing that could be checked: among them a write of the derating that fails
and an operator's power set behind a dialog (`undone` then silences `PowerAsIntended`), a
thread stopped before its `run` (`lost`), loads that overwrite a site (`LoadsOver`), files
at different edits after a crash, and powers that do not fit a register (`Fits`, `InRange`).

* Charge and discharge: a target of 50.6 kW commands 51 (charge_discharge_workflow.py:230,
  against control_page.py:431); the ramp writes the value computed before the safety check that
  lowered the setpoint (charge_discharge_workflow.py:356); a limit of 0 counts as "no
  limit" (line 161, and cluster_workflow.py:72; compare control_page.py:431).
* Supervision: a derating the PCS did not take, and an HV OFF dropped for a live workflow,
  are reported as successes (execution_mixin.py:176); the trigger count of the cutoff is
  stored but never used (service.py:97, settings_page.py:209); the tracking retry does not
  count refused writes (service.py:204, against settings_page.py:225) and can undo a
  derating (line 198); the derating power has a fixed sign (line 59); the fault counter
  keeps its value while the protection is off (line 234); a BMS that went silent keeps its
  last reading in the extremes of the cluster (line 313).
* Polling: a sample delivered after the stop writes "Running" into the BMS table again
  (data_receive_mixin.py:123); a removed PCS is polled on; a failed connect leaves the
  entry of a thread that is over.
* Site: every start with devices rewrites `site_config.json` before it is read
  (ui_device.py:184); a load empties the active cluster only (line 539); a PCS name without
  a configuration stands for the current PCS (pcs_mixin.py:118); plain commands go to the
  first PCS of the cluster, debug commands to the selected one.
* High voltage: the status bar is not told of what a charge/discharge workflow commands, so
  "Success" of an HV ON stands beside a device that a stop workflow has switched off; a
  charge/discharge workflow whose wait fails leaves its command in 0381.
* Dispatch: a result of a write is not looked at (cluster_workflow.py:104); the total is
  not clamped when the limits cannot be read; a power beyond the signed range of a register
  is cut off (pcs_client.py:124), which with the shipped scale of 0.1 starts at 3276.8 kW; two
  names of a cluster may stand for one host, and the later share replaces the earlier; an
  edit of a PCS loses its rated power, and with it its weight (pcs_mixin.py:720-731).
* Runtime settings: they are read at the start only (ui.py:229), so a loaded profile works
  with the old ones and a later save writes them over its own; derating and retry settings
  are not saved.
* Evidence: clearing leaves the path of the cache, so cleared rows come back at the next
  refresh, and the analysis of a cleared capture is reported beside 0 packets; a load that fails leaves the new name beside the old records; an issue of an
  older diagnosis highlights rows of a newer capture (packet_mixin.py:1341); of a TCP
  segment only the first Modbus message is read, so answers that share a segment look like
  timeouts; a reused id hides a missed answer, and ports are not part of the key; DBC
  identifiers of up to eight digits without letters are read as hexadecimal although the
  comment in can_analyzer.py:413-431 calls them decimal; multiplexed DBC signals are always
  decoded; the cache does not know the version of the decoder, and a cache that cannot be
  written makes a capture unviewable.

## 5. Fairness

Safety needs none. For liveness:

* Threads take their steps (weak fairness): every Modbus call has a timeout, every wait
  ends by `step_timeout`, and the operating system runs every thread.
* The main thread finishes the handler it is in. Nothing obliges the operator to answer
  a dialog, to start or to cancel anything; nothing obliges a device to change.
* Supervision: every BMS is polled again and again (strong fairness of `Polled`, as a
  poll is possible whenever no pass is in progress); a workflow ends
  (`EveryWorkflowEnds` of `HvWorkflow`).
* Recorders: the writer runs; `close()` goes on when what it waits for is there.
* Polling: the event loop delivers what is queued (weak), and each thread goes on. The
  latter is strong fairness only because the bound of the queue, which Qt does not have,
  disables a thread now and then.
* PCS panel: a timer that is due fires whenever the event loop runs (`Tick`), also behind
  a dialog, and a loop over the PCSs goes on (`JobStep`); both weak.

`EntryIsReleased` needs no fairness of the dialogs since the entry is empty while one is
open, unless the service fills it with a thread that ends. `FrozenIsNoticed` and
`HeartbeatKeepsChanging` assume what they must: samples that keep coming, a line that
stays good.

## 6. Proofs

For all values of the constants, under the named assumptions of each module (types of
settings and readings, positive bounds; `NoWorker`, `Poison` and the other markers lie
outside their sets). Type correctness is proved of every module with a type invariant.

* `HvWorkflowProofs`: `TypeOK`, `CancelTakesEffect`, `NoConnectionLeft` and both
  refinements for any finite set of threads. `CancelTakesEffect` needs `CancelStep`:
  past a gate a stopped thread was told exactly there; `NoConnectionLeft` needs
  `ConnectionStep`: which labels may hold which client.
* `HvRegistryProofs`: types, `RegistryKnowsTheThread`, `EntryIsLive` and
  `SuccessMeansStay` for any number of threads, beside the charge/discharge workflows. The
  invariant adds that the thread being joined is not the entry, and (`StayInv`) that 0381
  is at Stay whenever a thread that returned "ok" has not ended and no charge/discharge
  workflow owes its Stay.
* `PowerProofs`, the workflows: sign convention and clamp as lemmas of arithmetic; then
  `NeverBeyondTarget` from `RampWithin` (the three locals of the ramp lie between zero
  and the target), `AtRest`, and that rounding keeps order and sign; `LimitIsKept` from
  `HoldsLast` (while it monitors, the PCS holds the rounded power that was recorded last)
  and `CheckReduces`; `CancelTakesEffect` from `StageInv`; `FailedStartIsSafe` and
  `StoppedMeansStopped` from `ClosingInv`, what each label of the closing sequence has
  already achieved when nothing was lost and nobody else was live.
* `PowerProofs`, the panel: `PanelInv` is `PanelTypeOK`, `StopInv` and `DispatchInv`, which
  say of a PCS the loop has passed that it is at zero and stopped, or that its registers
  hold the share of the last name that stands for it, of a total within the limit, unless it
  went astray. `StopReachesAll` is `StopInv` at the end of the
  loop. `SetpointsAddUp` needs three things more: that a share, rounded to whole kW and then to a
  step of its point, is as close to the exact one as half of each and has its sign
  (`Rounding`, `ShareFacts`), that registers read as signed give back a number that fits,
  whatever type, word order, scale and offset the point has (`SignedBack`), and that the sum of all shares is as close to
  the total as the sum of their roundings (`SharesAddUp`). The sums are over any finite set
  of PCSs. Induction enters as a statement about sets, a set of numbers that holds 0 and
  with n also n + 1 is all of them, which follows from the least element of the
  complement (`Smallest`, `Induction`, `SubsetInduction`); from it come that the recursive
  function behind a sum exists (`SumsExist`) and that a bound of each term bounds the
  sum (`SumsClose`).
* `PowerProofs`, one point: `PointsReadBack` from `DecodedBack`, that decoding is the
  inverse of encoding for every type and word order on the range of the type, and the
  rounding lemma again; the
  invariant says only that the registers hold the encoding of what was commanded last.
* `SupervisionProofs`: types; `LatchesFollowVoltages` from `LatchInv`, which says at
  each check of the pass which latches are already right; `PowerAsIntended`, inductive
  with the types.
* `RecordingProofs`: `Inv` says that the rows in the queue and in the writer's hand are
  the accepted ones after the last one handed (`Numbered`), that their dates do not go
  back (`Dated`), where the writer is while the main thread waits (`Phases`), and that
  the next file of a recorder is never a closed one of its own (`RowFiles`). From it:
  `TypeOK`, `HeadersStayValid` and `ImplementsContract`.
* `PollingProofs`: `Owners` says that an entry and its thread name the same device
  (`EntriesMatch`), that a thread with its flag set is registered or lost (`Owned`) and
  that an ended one has the flag cleared (`EndedRests`); from it `NoUnownedThread`, and
  `OnePoller`: of two live threads that poll one device one was told to stop, because both
  would be registered under one name otherwise. `StopIsKept` (`StopsLast`) needs that a
  new thread takes an identity that no live thread has; the two together are
  `OnlyOnePoller`. Neither is checked in a run.
  `PcsRowsAreTrue` follows from the rows alone, step by step. `TaskStatusSettles` needs a
  look into the queue: for each device either its thread still owes the last status, or
  the last status in the queue is final, or there is none and the entry is final.
* `SiteProofs`: `Inv` says that the session is good (types, disjoint bindings, active
  cluster and current PCS exist), that each file is unreadable or good by itself, and that
  memory and disk agree while the program is up (`InStep`). The loops over the devices are
  covered because every intermediate file is one of a good session. From it `TypeOK`,
  `PcsInOneCluster`, `EditsAreSaved`, through all crashes and restarts. The action
  properties follow step by step: `LoadKeepsDevices` from what the last turn of the loop
  writes (`AutoLoaded`); `EveryBmsPlaced` from a lemma for each page (`DevicesPlaced`,
  `ProjectPlaced`, `PcsPlaced`, `LoadDevicesPlaced`, `AutoLoadPlaced`) over the set of
  clusters that have a BMS (`Places`). It needs that no list of devices names a BMS twice,
  in memory or in a readable file, which is part of `Inv`; this is also why `RemoveFirst`
  in `RemoveDevice` is what the code does, which drops every entry of the name.
* `EvidenceProofs`: `Inv` says that no cache entry was named after or saved before the
  analysis it holds (key, records and meta table carry ascending versions of one file and
  the same mapping: `CacheOK`, `UniqueKeys`), that a load under way has, until it saves, a
  name no older than any entry of its file (`JobOK`), and how the fields of the page depend
  on each other (`UiInv`): the records in memory are some that the load which named the
  cache file may have given (`Keyed`), the entry of that name holds these records, or, once
  they were cleared, others that it may have given (`BackedOn`, with `FollowedBy`), and so
  do the tables and the analysis. So a hit, where name and meta table agree, has the records of
  now. The name of the cache file outlives a clear, so what is shown after one is still
  tied to it. From it `TypeOK`, `TablesFollowRecords`, `DerivedFollowsRecords` and `HitsAreTrue`;
  and, with the arithmetic of pages (`Quotients`, `PagesAreFull`), `NoBlankPage`: every
  table was made from a page number clamped to what matched.

* `EvidenceProofs`, the annotation: `TrueAnnotations` relates places of packets to places
  of records. A packet's rank is the number of packets of the traffic up to it; ranks
  number the records, in the same order (`Ranks`, `RecordsFollow`, `Placed`). The scan is
  brought into closed form, what is pending and what is answered after n records
  (`PendingStep`, `AnsweredStep`, `Scanned`), and silence between two packets is silence
  between their ranks (`SilenceKept`). The invariant says only that the file consists of
  packets: the theorem is about the computation. A packet between two ports 502 counts as a
  response, as in packet_analyzer.py:189; the definition of `Asks` had it as a request
  until the proof failed there, and the run has such a packet since.
* `EvidenceProofs`, the signals: `TrueSignals` from the bits of numbers. Quotient and
  remainder are unique (`DivModUnique`), so a shift moves bits (`ShiftedBit`) and a number
  put above another keeps both their bits (`JoinedBits`); hence the bytes read as one
  number have the bits of the frame and no others (`BitsOfBytes`). A number with the bits
  of a signal is their weighed sum (`SumOfNumber`); the number is the quotient's
  remainder for an Intel signal (`LittleEndian`), what the loop collects for a Motorola one
  (`BigEndian`, with `Places`: the following bit is at the next place of the
  transmission), the bytes in either order for a JSON one (`OrderedBits`). The sign is
  the last weight (`TwosComplement`). The bytes and the length of a frame, and the place
  and the length of a signal, are arbitrary.
* What a loop computes enters both through `BoundedInduction`, induction up to a bound over
  a set of numbers, and `Recursion`, that a value computed by steps exists; the recursive
  function of the model is then equal to it, step by step.

Model-checked only. Liveness (`EveryWorkflowEnds`, `EntryIsReleased`, `WorkflowsEnd`,
`LostPcsLeadsToHvOff`, `CloseReturns`, `StoppedThreadsEnd`, `FrozenIsNoticed`,
`HeartbeatKeepsChanging`), because fairness is beyond the prover. Every invariant and
every other action property of a passing run is a theorem. The three runs that end in a
violation have nothing to prove.

Proofs planned next: a refinement of the panel's loops against an atomic dispatch.

## 7. Not modelled

* *Diagnosis and joint analysis* (packet_diagnosis.py, the joint tab and the highlighting
  of the packet page, exports): rules with thresholds and texts of their own; what they
  should find is stated nowhere but in them. `Evidence` has when they run, and over what.
* *Points, alarms and protocol maps*: tables; alarm texts reach a table and a CSV file.
* *Runtime settings and strategy texts*: what they do is in `Supervision`; how they are
  stored and restored is planned (section 2).
* *Reports, diagnostics, replay, curves, pages, main window*: made anew from a snapshot at
  every refresh; they decide nothing about a device.
* *Build and start-up scripts.*
* *Modbus itself*: a call succeeds, fails, or fails after taking effect. The text formats
  of logs, DBC and JSON files are read as what they say.

Within the modelled parts: heartbeats sent by the workflows, wording of logs and results,
the values of timeouts and intervals (a wait ends at any time), more than one cluster in
`Supervision`, and the reading of BMS blocks are left out. Every component's `note` in
`PROJECT.json` says what of it is missing.
